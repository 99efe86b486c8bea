------------------------------- MODULE Docker -------------------------------
(***************************************************************************)
(* CDocker: the life cycle of the node's components and the timers it      *)
(* keeps for them.  The main thread runs Run() and Exit(); each component  *)
(* starts one thread when it is invoked, at once or delayed until the      *)
(* docker is active; the timer thread runs TimerProc.  A region under      *)
(* mtxDocker or mtxTimer is one step.  Time is abstracted: any set of      *)
(* timers may be the ones that have expired, and a timed wait is the       *)
(* timer thread standing at the top of its loop.                           *)
(***************************************************************************)
EXTENDS Integers, FiniteSets

CONSTANTS N,          \* the components, in the order they were attached
          Delayed,    \* those that start their thread with ThreadDelayStart
          MaxTimers   \* bound on the timers set

Comp == 1..N
Timer == 1..MaxTimers

ASSUME DockerAssumption ==
  /\ N \in Nat \ {0} /\ MaxTimers \in Nat
  /\ Delayed \subseteq Comp

VARIABLES
  main,       \* the main thread: where it is, and the component it is at
  status,     \* of each component
  thr,        \* the thread of each component
  told,       \* the components whose HandleHalt has stopped and interrupted theirs
  fActived, fShutdown,
  key,        \* the component each timer was set by, 0 when not yet set
  mapTimerById, mapTimerByExpiry,
  timer,      \* the timer thread: where it is, and the timer it calls
  vWorkQueue, \* the expired timers it has yet to call
  failed,     \* history: the component whose Invoke failed, or 0
  cancelled,  \* history: the timers a CancelTimer has removed
  leftover,   \* history: the timers CancelTimers could not reach
  swept,      \* history: the components CancelTimers has run for
  atShutdown  \* history: the timer being called when Exit began, or 0

timerVars == <<key, mapTimerById, mapTimerByExpiry, timer, vWorkQueue, cancelled, leftover>>
mainVars == <<main, status, fActived, fShutdown, failed, swept, atShutdown>>
dockerVars == <<mainVars, thr, told, timerVars>>

DockerInit ==
  /\ main = [at |-> "initialize", i |-> 1]
  /\ status = [c \in Comp |-> "attached"]
  /\ thr = [c \in Comp |-> "none"]
  /\ told = {}
  /\ fActived = FALSE
  /\ fShutdown = FALSE
  /\ key = [t \in Timer |-> 0]
  /\ mapTimerById = {}
  /\ mapTimerByExpiry = {}
  /\ timer = [at |-> "loop", id |-> 0]
  /\ vWorkQueue = {}
  /\ failed = 0
  /\ cancelled = {}
  /\ leftover = {}
  /\ swept = {}
  /\ atShutdown = 0

(***************************************************************************)
(* Run: every component is initialized, then every component is invoked.   *)
(* One that fails has those before it halted and makes Run return false.   *)
(***************************************************************************)
MainAt(at, i) == main' = [at |-> at, i |-> i]

\* The next component of a loop over all of them, or what follows the loop
Up(at, i, then) == IF i < N THEN MainAt(at, i + 1) ELSE MainAt(then, 1)
Down(at, i, then) == IF i > 1 THEN MainAt(at, i - 1) ELSE MainAt(then, N)

Initialize ==
  /\ main.at = "initialize"
  /\ \/ /\ status' = [status EXCEPT ![main.i] = "initialized"]
        /\ Up("initialize", main.i, "invoke")
     \/ /\ MainAt("halt", N)
        /\ UNCHANGED status
  /\ UNCHANGED <<fActived, fShutdown, failed, swept, atShutdown, thr, told, timerVars>>

\* ThreadStart and ThreadDelayStart
Start(c) == [thr EXCEPT ![c] = IF c \in Delayed THEN "delayed" ELSE "run"]

\* HandleInvoke starts the thread and may then fail; it may fail before that
Invoke ==
  /\ main.at = "invoke"
  /\ \/ /\ status' = [status EXCEPT ![main.i] = "invoked"]
        /\ thr' = Start(main.i)
        /\ Up("invoke", main.i, "activate")
        /\ UNCHANGED failed
     \/ /\ failed' = main.i
        /\ thr' \in {thr, Start(main.i)}
        /\ MainAt("halt", N)
        /\ UNCHANGED status
  /\ UNCHANGED <<fActived, fShutdown, swept, atShutdown, told, timerVars>>

\* Those asleep on condDocker
NotifyDocker == thr' = [c \in Comp |-> IF thr[c] = "waiting" THEN "delayed" ELSE thr[c]]

Activate ==
  /\ main.at = "activate"
  /\ fActived' = TRUE
  /\ NotifyDocker
  /\ MainAt("up", 1)
  /\ UNCHANGED <<status, fShutdown, failed, swept, atShutdown, told, timerVars>>

(***************************************************************************)
(* Halt: in reverse order, all components are halted, then all are         *)
(* deinitialized, then their timers are cancelled.                         *)
(***************************************************************************)

\* HandleHalt makes the thread stop, interrupts it and joins it
Halt ==
  /\ main.at = "halt"
  /\ IF status[main.i] = "invoked"
     THEN told' = told \cup {main.i} /\ MainAt("join", main.i)
     ELSE Down("halt", main.i, "deinit") /\ UNCHANGED told
  /\ UNCHANGED <<status, fActived, fShutdown, failed, swept, atShutdown, thr, timerVars>>

\* ThreadExit returns, and with it the component's Halt
Join ==
  /\ main.at = "join"
  /\ thr[main.i] = "ended"
  /\ status' = [status EXCEPT ![main.i] = "initialized"]
  /\ Down("halt", main.i, "deinit")
  /\ UNCHANGED <<fActived, fShutdown, failed, swept, atShutdown, thr, told, timerVars>>

Deinitialize ==
  /\ main.at = "deinit"
  /\ status' = [status EXCEPT ![main.i] = IF @ = "initialized" THEN "attached" ELSE @]
  /\ Down("deinit", main.i, "cancel")
  /\ UNCHANGED <<fActived, fShutdown, failed, swept, atShutdown, thr, told, timerVars>>

\* The timer thread asleep on condTimer wakes
NotifyTimer == timer' = IF timer.at = "asleep" THEN [timer EXCEPT !.at = "loop"] ELSE timer

Of(c) == {t \in Timer : key[t] = c}

\* CancelTimers walks mapTimerByExpiry: what has expired is no longer there
CancelTimers ==
  /\ main.at = "cancel"
  /\ LET gone == mapTimerByExpiry \cap Of(main.i) IN
       /\ mapTimerByExpiry' = mapTimerByExpiry \ gone
       /\ mapTimerById' = mapTimerById \ gone
       /\ IF gone # {} THEN NotifyTimer ELSE UNCHANGED timer
  /\ leftover' = leftover \cup ((vWorkQueue \cup {timer.id}) \cap Of(main.i))
  /\ swept' = swept \cup {main.i}
  /\ Down("cancel", main.i, IF fShutdown THEN "delete" ELSE "failed")
  /\ UNCHANGED <<status, fActived, fShutdown, failed, atShutdown, thr, told, key, vWorkQueue, cancelled>>

(***************************************************************************)
(* Exit, from the end of the program's own loop or after a failed Run      *)
(***************************************************************************)
Exit ==
  /\ main.at \in {"up", "failed"}
  /\ fShutdown' = TRUE
  /\ atShutdown' = timer.id
  /\ MainAt("deactivate", N)
  /\ UNCHANGED <<status, fActived, failed, swept, thr, told, timerVars>>

\* The first region of Halt()
Deactivate ==
  /\ main.at = "deactivate"
  /\ fActived' = FALSE
  /\ NotifyDocker
  /\ MainAt("halt", N)
  /\ UNCHANGED <<status, fShutdown, failed, swept, atShutdown, told, timerVars>>

\* The components are deleted, last one first
Delete ==
  /\ main.at = "delete"
  /\ status' = [status EXCEPT ![main.i] = "deleted"]
  /\ Down("delete", main.i, "notify")
  /\ UNCHANGED <<fActived, fShutdown, failed, swept, atShutdown, thr, told, timerVars>>

NotifyTimerThread ==
  /\ main.at = "notify"
  /\ NotifyTimer
  /\ MainAt("joinTimer", 1)
  /\ UNCHANGED <<status, fActived, fShutdown, failed, swept, atShutdown, thr, told,
                 key, mapTimerById, mapTimerByExpiry, vWorkQueue, cancelled, leftover>>

JoinTimer ==
  /\ main.at = "joinTimer"
  /\ timer.at = "ended"
  /\ MainAt("gone", 1)
  /\ UNCHANGED <<status, fActived, fShutdown, failed, swept, atShutdown, thr, told, timerVars>>

Main ==
  \/ Initialize \/ Invoke \/ Activate
  \/ Halt \/ Join \/ Deinitialize \/ CancelTimers
  \/ Deactivate \/ Delete \/ NotifyTimerThread \/ JoinTimer

(***************************************************************************)
(* The threads of the components                                           *)
(***************************************************************************)

\* ThreadDelayRun; an interrupted thread leaves at the wait
ThreadDelayRun(c) ==
  /\ thr[c] = "delayed"
  /\ thr' = [thr EXCEPT ![c] = IF fShutdown THEN "ended"
                               ELSE IF fActived THEN "run"
                               ELSE IF c \in told THEN "ended" ELSE "waiting"]
  /\ UNCHANGED <<mainVars, told, timerVars>>

\* The interruption reaches a thread that waits, or the thread sees the
\* component's own flag and returns
ThreadEnd(c) ==
  /\ thr[c] \in {"waiting", "run"}
  /\ c \in told
  /\ thr' = [thr EXCEPT ![c] = "ended"]
  /\ UNCHANGED <<mainVars, told, timerVars>>

ThreadRuns(c) == ThreadDelayRun(c) \/ ThreadEnd(c)

(***************************************************************************)
(* Timers                                                                  *)
(***************************************************************************)

\* The code of a component that may be running: its thread, its Invoke, or
\* the callback of one of its timers
InCall(c) == timer.at = "call" /\ key[timer.id] = c
Active(c) ==
  \/ thr[c] = "run"
  \/ main = [at |-> "invoke", i |-> c]
  \/ InCall(c)

NextId == CHOOSE t \in Timer : key[t] = 0 /\ \A u \in Timer : key[u] = 0 => t <= u

\* The notification is for a timer that is first to expire, as any may be
SetTimer(c) ==
  /\ Active(c)
  /\ \E t \in Timer : key[t] = 0
  /\ key' = [key EXCEPT ![NextId] = c]
  /\ mapTimerById' = mapTimerById \cup {NextId}
  /\ mapTimerByExpiry' = mapTimerByExpiry \cup {NextId}
  /\ NotifyTimer
  /\ leftover' = IF c \in swept /\ InCall(c) THEN leftover \cup {NextId} ELSE leftover
  /\ UNCHANGED <<mainVars, thr, told, vWorkQueue, cancelled>>

CancelTimer(t) ==
  /\ t \in mapTimerById
  /\ Active(key[t])
  /\ mapTimerById' = mapTimerById \ {t}
  /\ mapTimerByExpiry' = mapTimerByExpiry \ {t}
  /\ IF t \in mapTimerByExpiry THEN NotifyTimer ELSE UNCHANGED timer
  /\ cancelled' = cancelled \cup {t}
  /\ UNCHANGED <<mainVars, thr, told, key, vWorkQueue, leftover>>

\* TimerProc with no timer: the end, or condTimer.wait
TimerIdle ==
  /\ timer.at = "loop"
  /\ fShutdown \/ mapTimerByExpiry = {}
  /\ timer' = [timer EXCEPT !.at = IF fShutdown THEN "ended" ELSE "asleep"]
  /\ UNCHANGED <<mainVars, thr, told, key, mapTimerById, mapTimerByExpiry, vWorkQueue, cancelled, leftover>>

\* The timers that have expired are moved to the work queue
TimerExpire(due) ==
  /\ timer.at = "loop"
  /\ ~fShutdown
  /\ mapTimerByExpiry' = mapTimerByExpiry \ due
  /\ vWorkQueue' = due
  /\ timer' = [timer EXCEPT !.at = "work"]
  /\ UNCHANGED <<mainVars, thr, told, key, mapTimerById, cancelled, leftover>>

\* Mutant: what the work queue holds is called without being looked up
TimerTakeBlind(t) ==
  /\ timer.at = "work"
  /\ ~fShutdown
  /\ vWorkQueue' = vWorkQueue \ {t}
  /\ mapTimerById' = mapTimerById \ {t}
  /\ timer' = [at |-> "call", id |-> t]
  /\ UNCHANGED <<mainVars, thr, told, key, mapTimerByExpiry, cancelled, leftover>>

\* A callback is looked up under the lock and called after it
TimerTake(t) ==
  /\ timer.at = "work"
  /\ ~fShutdown
  /\ vWorkQueue' = vWorkQueue \ {t}
  /\ mapTimerById' = mapTimerById \ {t}
  /\ timer' = IF t \in mapTimerById THEN [at |-> "call", id |-> t] ELSE timer
  /\ UNCHANGED <<mainVars, thr, told, key, mapTimerByExpiry, cancelled, leftover>>

\* The callback returns
TimerReturn ==
  /\ timer.at = "call"
  /\ timer' = [at |-> "work", id |-> 0]
  /\ UNCHANGED <<mainVars, thr, told, key, mapTimerById, mapTimerByExpiry, vWorkQueue, cancelled, leftover>>

\* The end of the loop over the work queue
TimerLoop ==
  /\ timer.at = "work"
  /\ fShutdown \/ vWorkQueue = {}
  /\ vWorkQueue' = {}
  /\ timer' = [timer EXCEPT !.at = "loop"]
  /\ UNCHANGED <<mainVars, thr, told, key, mapTimerById, mapTimerByExpiry, cancelled, leftover>>

TimerProc ==
  \/ TimerIdle \/ TimerReturn \/ TimerLoop
  \/ \E due \in SUBSET mapTimerByExpiry \ {{}} : TimerExpire(due)
  \/ \E t \in vWorkQueue : TimerTake(t)

DockerNext ==
  \/ Main \/ Exit \/ TimerProc
  \/ \E c \in Comp : ThreadRuns(c) \/ SetTimer(c)
  \/ \E t \in Timer : CancelTimer(t)

DockerSpec == DockerInit /\ [][DockerNext]_dockerVars

\* The main thread and the timer thread go on, and so do the threads of the
\* components; nothing makes the operator end the program, and nothing makes
\* a component set or cancel a timer.
DockerFairSpec ==
  /\ DockerSpec
  /\ WF_dockerVars(Main)
  /\ WF_dockerVars(TimerProc)
  /\ \A c \in Comp : WF_dockerVars(ThreadRuns(c))

(***************************************************************************)
(* Properties                                                              *)
(***************************************************************************)

DockerTypeOK ==
  /\ main.i \in Comp
  /\ status \in [Comp -> {"attached", "initialized", "invoked", "deleted"}]
  /\ thr \in [Comp -> {"none", "delayed", "waiting", "run", "ended"}]
  /\ told \subseteq Comp
  /\ fActived \in BOOLEAN /\ fShutdown \in BOOLEAN
  /\ key \in [Timer -> 0..N]
  /\ mapTimerByExpiry \subseteq mapTimerById
  /\ mapTimerById \subseteq {t \in Timer : key[t] # 0}
  /\ timer.at \in {"loop", "asleep", "work", "call", "ended"}
  /\ vWorkQueue \subseteq Timer
  /\ vWorkQueue # {} => timer.at \in {"work", "call"}

\* The thread of a component runs only while no component is torn down:
\* Halt stops all threads before it deinitializes the first component, so a
\* thread may use the components attached before and after its own.  The one
\* thread left out is that of a component whose Invoke failed after starting
\* it: such a component is not "invoked", so Halt never joins its thread.
RunsOnLiveComponents ==
  \A c \in Comp \ {failed} :
    thr[c] = "run" =>
      \A d \in Comp : status[d] \in {"initialized", "invoked"}

\* A thread started with ThreadDelayStart does nothing before every component
\* has been invoked
DelayedUntilActive ==
  \A c \in Delayed : thr[c] = "run" => \A d \in Comp : d \notin told => status[d] = "invoked"

\* CancelTimer keeps a timer from being called even when it has expired and
\* waits in the work queue of TimerProc
CancelledIsNotCalled == timer.at = "call" => timer.id \notin cancelled

\* Once Exit has begun the only callback that may still be running is the one
\* that was running when it began (it may outlive the component it is for:
\* the components are deleted before the timer thread is joined)
OneLateCallback == fShutdown /\ timer.at = "call" => timer.id = atShutdown

\* After CancelTimers a component is only called by timers that had expired by
\* then, or by timers such a late call has set itself
CancelTimersStops ==
  timer.at = "call" /\ key[timer.id] \in swept \ {failed} => timer.id \in leftover

\* Threads run only while every component is initialized (CDocker::Halt), and
\* delayed ones not before all are invoked (CDocker::ThreadDelayRun).
\* CDocker::CancelTimer and CancelTimers keep a timer from being called, but
\* for the ones CancelTimers cannot reach; once Exit has begun at most the one
\* callback already running is.
DockerOrderly ==
  /\ DockerTypeOK /\ RunsOnLiveComponents /\ DelayedUntilActive
  /\ CancelledIsNotCalled /\ CancelTimersStops /\ OneLateCallback

\* Run returns, whichever component fails to initialize or to be invoked:
\* the join of a thread still waiting for the activation does not hang,
\* because HandleHalt interrupts it
RunReturns == main.at = "initialize" ~> main.at \in {"up", "failed"}

\* Exit returns: no thread it joins is left waiting
ExitReturns == fShutdown ~> main.at = "gone"

\* Every delayed thread runs once Run has succeeded, unless the docker is
\* shut down first; one whose component failed to be invoked ends with Exit
DelayedRuns ==
  \A c \in Delayed :
    /\ (main.at = "up" /\ thr[c] # "run") ~> (thr[c] = "run" \/ fShutdown)
    /\ fShutdown ~> thr[c] \in {"none", "ended"} \/ (c = failed /\ thr[c] = "run")

\* A timer that was set is called or cancelled, unless the docker shuts down
TimerFires ==
  \A t \in Timer : t \in mapTimerById ~> (t \notin mapTimerById \/ fShutdown)
=============================================================================
