------------------------------ MODULE RWAccess ------------------------------
(***************************************************************************)
(* CRWAccess, the read-write lock of the caches and of the storage.  Each  *)
(* method is a region under `mutex` and then, with the mutex released, a   *)
(* notification that the region decided on; other threads may run in       *)
(* between.  A thread that waits is asleep on one of the three condition   *)
(* variables until it is notified, or wakes by itself, and then tests its  *)
(* condition again.  The condition variable follows from what it waits     *)
(* for: condRead for a read or an upgrade lock, condWrite for a write      *)
(* lock, condUpgrade for the readers to leave.                             *)
(***************************************************************************)
EXTENDS Integers, FiniteSets

CONSTANTS Thread,
          Calls     \* how many locks a thread asks for

ASSUME ConstantsAssumption ==
  /\ IsFiniteSet(Thread)
  /\ Calls \in Nat

VARIABLES nRead, nWrite, fExclusive, fUpgraded,
          pc,       \* where each thread is
          asleep,   \* the threads inside wait()
          left      \* the calls each thread has left

lockVars == <<nRead, nWrite, fExclusive, fUpgraded>>
vars == <<lockVars, pc, asleep, left>>

Init ==
  /\ nRead = 0
  /\ nWrite = 0
  /\ fExclusive = FALSE
  /\ fUpgraded = FALSE
  /\ pc = [t \in Thread |-> "idle"]
  /\ asleep = {}
  /\ left = [t \in Thread |-> Calls]

Goto(t, place) == pc' = [pc EXCEPT ![t] = place]

\* t is in the loop around a wait and its condition is not met
Sleep(t, place) ==
  /\ asleep' = asleep \cup {t}
  /\ Goto(t, place)
  /\ UNCHANGED lockVars

Call(t) ==
  /\ pc[t] = "idle"
  /\ left[t] > 0
  /\ left' = [left EXCEPT ![t] = @ - 1]

\* t was notified and holds the mutex again
Woken(t, place) ==
  /\ pc[t] = place
  /\ t \notin asleep
  /\ UNCHANGED left

(***************************************************************************)
(* Readers                                                                 *)
(***************************************************************************)

\* The loop of ReadLock
ReadWait(t) ==
  \/ /\ nWrite # 0 \/ fUpgraded
     /\ Sleep(t, "wantRead")
  \/ /\ nWrite = 0 /\ ~fUpgraded
     /\ nRead' = nRead + 1
     /\ Goto(t, "read")
     /\ UNCHANGED <<nWrite, fExclusive, fUpgraded, asleep>>

ReadLock(t) == (Call(t) \/ Woken(t, "wantRead")) /\ ReadWait(t)

ReadTryLock(t) ==
  /\ Call(t)
  /\ \/ /\ nWrite # 0 \/ fUpgraded
        /\ UNCHANGED <<lockVars, pc>>
     \/ /\ nWrite = 0 /\ ~fUpgraded
        /\ nRead' = nRead + 1
        /\ Goto(t, "read")
        /\ UNCHANGED <<nWrite, fExclusive, fUpgraded>>
  /\ UNCHANGED asleep

\* Mutant: the writers are notified although an upgrade lock is held
ReadUnlockToWriters(t) ==
  /\ pc[t] = "read"
  /\ nRead' = nRead - 1
  /\ Goto(t, IF nRead' = 0 /\ nWrite # 0 THEN "notifyWrite" ELSE "idle")
  /\ UNCHANGED <<nWrite, fExclusive, fUpgraded, asleep, left>>

ReadUnlock(t) ==
  /\ pc[t] = "read"
  /\ nRead' = nRead - 1
  /\ Goto(t, IF nRead' # 0 THEN "idle"
             ELSE IF fExclusive THEN "notifyUpgrade"
             ELSE IF nWrite # 0 THEN "notifyWrite" ELSE "idle")
  /\ UNCHANGED <<nWrite, fExclusive, fUpgraded, asleep, left>>

(***************************************************************************)
(* Writers                                                                 *)
(***************************************************************************)

\* The loop of WriteLock
WriteWait(t) ==
  \/ /\ nRead # 0 \/ fExclusive
     /\ asleep' = asleep \cup {t}
     /\ Goto(t, "wantWrite")
     /\ UNCHANGED <<nRead, fExclusive, fUpgraded>>
  \/ /\ nRead = 0 /\ ~fExclusive
     /\ fExclusive' = TRUE
     /\ Goto(t, "write")
     /\ UNCHANGED <<nRead, fUpgraded, asleep>>

WriteLock(t) ==
  /\ \/ Call(t) /\ nWrite' = nWrite + 1
     \/ Woken(t, "wantWrite") /\ UNCHANGED nWrite
  /\ WriteWait(t)

WriteUnlock(t) ==
  /\ pc[t] = "write"
  /\ nWrite' = nWrite - 1
  /\ fExclusive' = FALSE
  /\ Goto(t, IF nWrite' # 0 THEN "notifyWrite" ELSE "notifyRead")
  /\ UNCHANGED <<nRead, fUpgraded, asleep, left>>

(***************************************************************************)
(* The upgrade lock                                                        *)
(***************************************************************************)

UpgradeLock(t) ==
  /\ Call(t) \/ Woken(t, "wantUpgrade")
  /\ \/ fExclusive /\ Sleep(t, "wantUpgrade")
     \/ /\ ~fExclusive
        /\ fExclusive' = TRUE
        /\ Goto(t, "upgradable")
        /\ UNCHANGED <<nRead, nWrite, fUpgraded, asleep>>

\* Mutant: the readers are not waited for
UpgradeAtOnce(t) ==
  /\ pc[t] = "upgradable"
  /\ fUpgraded' = TRUE
  /\ Goto(t, "upgraded")
  /\ UNCHANGED <<nRead, nWrite, fExclusive, asleep, left>>

UpgradeToWriteLock(t) ==
  /\ pc[t] = "upgradable" \/ (pc[t] = "upgrading" /\ t \notin asleep)
  /\ fUpgraded' = TRUE
  /\ \/ /\ nRead # 0
        /\ asleep' = asleep \cup {t}
        /\ Goto(t, "upgrading")
     \/ /\ nRead = 0
        /\ Goto(t, "upgraded")
        /\ UNCHANGED asleep
  /\ UNCHANGED <<nRead, nWrite, fExclusive, left>>

UpgradeUnlock(t) ==
  /\ pc[t] \in {"upgradable", "upgraded"}
  /\ fExclusive' = FALSE
  /\ fUpgraded' = FALSE
  /\ Goto(t, IF nWrite # 0 /\ (fUpgraded \/ nRead = 0) THEN "notifyWrite" ELSE "notifyRead")
  /\ UNCHANGED <<nRead, nWrite, asleep, left>>

(***************************************************************************)
(* Condition variables (boost::condition_variable_any)                     *)
(***************************************************************************)

SleepsFor(places) == {t \in asleep : pc[t] \in places}

\* notify_one wakes one thread asleep on the condition variable, if there is one
NotifyOne(t, notify, place) ==
  /\ pc[t] = notify
  /\ Goto(t, "idle")
  /\ \/ SleepsFor({place}) = {} /\ UNCHANGED asleep
     \/ \E u \in SleepsFor({place}) : asleep' = asleep \ {u}
  /\ UNCHANGED <<lockVars, left>>

NotifyAll(t) ==
  /\ pc[t] = "notifyRead"
  /\ Goto(t, "idle")
  /\ asleep' = asleep \ SleepsFor({"wantRead", "wantUpgrade"})
  /\ UNCHANGED <<lockVars, left>>

Notify(t) ==
  \/ NotifyOne(t, "notifyWrite", "wantWrite")
  \/ NotifyOne(t, "notifyUpgrade", "upgrading")
  \/ NotifyAll(t)

\* A wait may return without a notification
WakeSpuriously(t) ==
  /\ t \in asleep
  /\ asleep' = asleep \ {t}
  /\ UNCHANGED <<lockVars, pc, left>>

Next ==
  \E t \in Thread :
    \/ ReadLock(t) \/ ReadTryLock(t) \/ ReadUnlock(t)
    \/ WriteLock(t) \/ WriteUnlock(t)
    \/ UpgradeLock(t) \/ UpgradeToWriteLock(t) \/ UpgradeUnlock(t)
    \/ Notify(t) \/ WakeSpuriously(t)

Spec == Init /\ [][Next]_vars

\* A thread inside a method goes on, and one that holds a lock leaves its scope.
\* Nothing makes a thread ask for a lock, and no wait returns by itself.
Continue(t) ==
  /\ pc[t] # "idle"
  /\ \/ ReadLock(t) \/ ReadUnlock(t) \/ WriteLock(t) \/ WriteUnlock(t)
     \/ UpgradeLock(t) \/ UpgradeToWriteLock(t) \/ UpgradeUnlock(t) \/ Notify(t)

FairSpec == Spec /\ \A t \in Thread : WF_vars(Continue(t))

(***************************************************************************)
(* Properties                                                              *)
(***************************************************************************)

TypeOK ==
  /\ nRead \in Nat
  /\ nWrite \in Nat
  /\ fExclusive \in BOOLEAN
  /\ fUpgraded \in BOOLEAN
  /\ pc \in [Thread -> {"idle", "wantRead", "read", "wantWrite", "write",
                        "wantUpgrade", "upgradable", "upgrading", "upgraded",
                        "notifyRead", "notifyWrite", "notifyUpgrade"}]
  /\ asleep \subseteq Thread
  /\ left \in [Thread -> Nat]

At(places) == {t \in Thread : pc[t] \in places}

\* The counters and flags of CRWAccess say who is inside: nRead counts the
\* readers, nWrite the writers that wait or write, fExclusive that one thread
\* writes or holds the upgrade lock, fUpgraded that it has asked to write.
Accounted ==
  /\ nRead = Cardinality(At({"read"}))
  /\ nWrite = Cardinality(At({"wantWrite", "write"}))
  /\ fExclusive <=> At({"write", "upgradable", "upgrading", "upgraded"}) # {}
  /\ \A t, u \in At({"write", "upgradable", "upgrading", "upgraded"}) : t = u
  /\ fUpgraded <=> At({"upgrading", "upgraded"}) # {}
  /\ asleep \subseteq At({"wantRead", "wantWrite", "wantUpgrade", "upgrading"})

\* While a thread writes, under a write lock or an upgraded one, no other thread
\* reads, writes or holds the upgrade lock.
Exclusion ==
  \A t \in At({"write", "upgraded"}) :
    \A u \in At({"read", "write", "upgradable", "upgrading", "upgraded"}) : t = u

\* No wakeup is lost between the release of the mutex and the notification: when
\* what a sleeping thread waits for has come true, a notification of its condition
\* variable is under way, or a writer is awake or on its way that will pass it on.
NoLostWakeup ==
  /\ SleepsFor({"wantWrite"}) # {} /\ nRead = 0 /\ ~fExclusive =>
       At({"notifyWrite"}) # {} \/ At({"wantWrite"}) \ asleep # {}
  /\ SleepsFor({"wantRead"}) # {} /\ nWrite = 0 /\ ~fUpgraded => At({"notifyRead"}) # {}
  /\ SleepsFor({"wantUpgrade"}) # {} /\ ~fExclusive => At({"notifyRead"}) # {} \/ nWrite # 0
  /\ SleepsFor({"upgrading"}) # {} /\ nRead = 0 => At({"notifyUpgrade"}) # {}

\* What a thread holds, for the promise of the lock
Holds(t) ==
  CASE pc[t] = "read" -> "read"
    [] pc[t] \in {"write", "upgraded"} -> "write"
    [] pc[t] \in {"upgradable", "upgrading"} -> "upgrade"
    [] OTHER -> "none"

held == [t \in Thread |-> Holds(t)]

Lock == INSTANCE ReadWriteLock WITH held <- held

\* The methods implement the lock that CReadLock, CWriteLock and CUpgradeLock
\* promise: every step is a step of ReadWriteLock or changes nothing there.
LockSpec == Lock!Spec

\* A thread that waits gets what it waits for: the notifications of the unlock
\* methods reach every waiter when the others make finitely many calls.
WaiterServed ==
  \A t \in Thread :
    pc[t] \in {"wantRead", "wantWrite", "wantUpgrade", "upgrading"}
      ~> pc[t] \in {"read", "write", "upgradable", "upgraded"}
=============================================================================
