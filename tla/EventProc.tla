------------------------------ MODULE EventProc ------------------------------
(***************************************************************************)
(* CEventProc and its CEventQueue: events are posted by any thread and     *)
(* handled by the component's event threads.  The regions under the mutex  *)
(* of the queue are steps; a thread inside Fetch is asleep on cond until   *)
(* it is notified or wakes by itself.  A handler that returns false makes  *)
(* its thread call Reset, which frees what is queued and clears fAbort.    *)
(***************************************************************************)
EXTENDS Integers, Sequences, FiniteSets, Functions

CONSTANTS EventThread,   \* vEventThread
          MaxPosts,      \* bound on the events posted
          MaxInvokes     \* bound on the times the component is invoked

ASSUME EventAssumption == MaxPosts \in Nat

VARIABLES
  que, fAbort,
  thread,     \* each event thread: where it is
  handling,   \* the event each thread handles, or 0
  owner,      \* the thread that invokes and halts the component
  posted,     \* how many events were posted
  begun,      \* history: the events whose handler was called, in this order
  dropped,    \* history: the events freed without being handled
  failures,   \* history: how many handlers returned false
  cleared,    \* history: a Reset came after the Interrupt of this halt
  before,     \* history: how many events were posted before the Invoke
  invokes

ghosts == <<posted, begun, dropped, failures, cleared, before, invokes>>
eventVars == <<que, fAbort, thread, handling, owner, ghosts>>

EventInit ==
  /\ que = <<>>
  /\ fAbort = FALSE
  /\ thread = [t \in EventThread |-> "ended"]
  /\ handling = [t \in EventThread |-> 0]
  /\ owner = "halted"
  /\ posted = 0
  /\ begun = <<>>
  /\ dropped = {}
  /\ failures = 0
  /\ cleared = FALSE
  /\ before = 0
  /\ invokes = 0

HandleInvoke ==
  /\ owner = "halted"
  /\ invokes < MaxInvokes
  /\ owner' = "invoked"
  /\ invokes' = invokes + 1
  /\ before' = posted
  /\ dropped' = dropped \cup Range(que)
  /\ que' = <<>>
  /\ fAbort' = FALSE
  /\ cleared' = FALSE
  /\ thread' = [t \in EventThread |-> "fetch"]
  /\ UNCHANGED <<handling, posted, begun, failures>>

\* notify_one and notify_all on cond
EventNotifyOne ==
  IF \A t \in EventThread : thread[t] # "asleep" THEN UNCHANGED thread
  ELSE \E t \in EventThread :
         /\ thread[t] = "asleep"
         /\ thread' = [thread EXCEPT ![t] = "fetch"]

EventNotifyAll == thread' = [t \in EventThread |-> IF thread[t] = "asleep" THEN "fetch" ELSE thread[t]]

\* AddNew, in any state of the component, then notify_one
PostEvent ==
  /\ posted < MaxPosts
  /\ posted' = posted + 1
  /\ que' = Append(que, posted + 1)
  /\ EventNotifyOne
  /\ UNCHANGED <<fAbort, handling, owner, begun, dropped, failures, cleared, before, invokes>>

\* HandleHalt: Interrupt and its notify_all, then the joins
Interrupt ==
  /\ owner = "invoked"
  /\ owner' = "join"
  /\ dropped' = dropped \cup Range(que)
  /\ que' = <<>>
  /\ fAbort' = TRUE
  /\ EventNotifyAll
  /\ UNCHANGED <<handling, posted, begun, failures, cleared, before, invokes>>

Halted ==
  /\ owner = "join"
  /\ \A t \in EventThread : thread[t] = "ended"
  /\ owner' = "halted"
  /\ UNCHANGED <<que, fAbort, thread, handling, ghosts>>

\* Mutant: the newest event is handled first
FetchLast(t) ==
  /\ thread[t] = "fetch"
  /\ IF fAbort
     THEN thread' = [thread EXCEPT ![t] = "ended"] /\ UNCHANGED <<que, handling, begun>>
     ELSE IF que = <<>>
     THEN thread' = [thread EXCEPT ![t] = "asleep"] /\ UNCHANGED <<que, handling, begun>>
     ELSE /\ thread' = [thread EXCEPT ![t] = "handle"]
          /\ handling' = [handling EXCEPT ![t] = que[Len(que)]]
          /\ begun' = Append(begun, que[Len(que)])
          /\ que' = SubSeq(que, 1, Len(que) - 1)
  /\ UNCHANGED <<fAbort, owner, posted, dropped, failures, cleared, before, invokes>>

Fetch(t) ==
  /\ thread[t] = "fetch"
  /\ IF fAbort
     THEN thread' = [thread EXCEPT ![t] = "ended"] /\ UNCHANGED <<que, handling, begun>>
     ELSE IF que = <<>>
     THEN thread' = [thread EXCEPT ![t] = "asleep"] /\ UNCHANGED <<que, handling, begun>>
     ELSE /\ thread' = [thread EXCEPT ![t] = "handle"]
          /\ handling' = [handling EXCEPT ![t] = Head(que)]
          /\ begun' = Append(begun, Head(que))
          /\ que' = Tail(que)
  /\ UNCHANGED <<fAbort, owner, posted, dropped, failures, cleared, before, invokes>>

Spurious(t) ==
  /\ thread[t] = "asleep"
  /\ thread' = [thread EXCEPT ![t] = "fetch"]
  /\ UNCHANGED <<que, fAbort, handling, owner, ghosts>>

\* The handler returns true
Handled(t) ==
  /\ thread[t] = "handle"
  /\ thread' = [thread EXCEPT ![t] = "fetch"]
  /\ handling' = [handling EXCEPT ![t] = 0]
  /\ UNCHANGED <<que, fAbort, owner, ghosts>>

\* The handler returns false: Reset
HandleFailed(t) ==
  /\ thread[t] = "handle"
  /\ thread' = [thread EXCEPT ![t] = "fetch"]
  /\ handling' = [handling EXCEPT ![t] = 0]
  /\ failures' = failures + 1
  /\ dropped' = dropped \cup Range(que)
  /\ que' = <<>>
  /\ fAbort' = FALSE
  /\ cleared' = (cleared \/ owner = "join")
  /\ UNCHANGED <<owner, posted, begun, before, invokes>>

EventNext ==
  \/ HandleInvoke \/ PostEvent \/ Interrupt \/ Halted
  \/ \E t \in EventThread : Fetch(t) \/ Spurious(t) \/ Handled(t) \/ HandleFailed(t)

EventSpec == EventInit /\ [][EventNext]_eventVars

\* The event threads go on, the handlers return, and so does a join whose
\* threads have ended
EventContinue(t) == Fetch(t) \/ Handled(t) \/ HandleFailed(t)

EventFairSpec == EventSpec /\ WF_eventVars(Halted) /\ \A t \in EventThread : WF_eventVars(EventContinue(t))

(***************************************************************************)
(* Properties                                                              *)
(***************************************************************************)

EventTypeOK ==
  /\ que \in Seq(1..MaxPosts)
  /\ fAbort \in BOOLEAN
  /\ thread \in [EventThread -> {"fetch", "asleep", "handle", "ended"}]
  /\ handling \in [EventThread -> 0..MaxPosts]
  /\ owner \in {"halted", "invoked", "join"}
  /\ \A t \in EventThread : handling[t] # 0 <=> thread[t] = "handle"

\* No event is lost or handled twice: each one is queued, or its handler was
\* called, or it was freed; handlers are called in the order of the posts; and
\* until a handler fails or the component is halted, the only events freed
\* are those posted before HandleInvoke reset the queue.
HandledInOrder ==
  /\ EventTypeOK
  /\ \A i, j \in 1..Len(begun) : i < j => begun[i] < begun[j]
  /\ Len(que) + Len(begun) + Cardinality(dropped) = posted
  /\ 1..posted = Range(que) \cup Range(begun) \cup dropped
  /\ owner = "invoked" /\ invokes = 1 /\ failures = 0 => dropped \subseteq 1..before

\* notify_one is enough: no event waits in the queue while every event thread
\* of an invoked component sleeps.
NoneLeftAsleep ==
  owner = "invoked" /\ que # <<>> => \E t \in EventThread : thread[t] # "asleep"

\* A halt returns, unless a handler that was running when the queue was
\* interrupted returned false: its Reset takes fAbort back, and a thread that
\* then finds the queue empty sleeps where nothing will wake it, while
\* HandleHalt joins it.
HaltReturns == owner = "join" ~> (owner = "halted" \/ cleared)

\* Every event is handled or freed
EventsTaken == \A e \in 1..MaxPosts : (e \in Range(que) /\ owner = "invoked") ~> e \notin Range(que)
=============================================================================
