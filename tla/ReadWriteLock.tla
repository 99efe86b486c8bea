---------------------------- MODULE ReadWriteLock ----------------------------
(***************************************************************************)
(* What CReadLock, CWriteLock and CUpgradeLock promise the code between    *)
(* their construction and destruction: many readers or one writer, and one *)
(* thread that reads with the readers and may turn its lock into a write   *)
(* lock.  CRWAccess (module RWAccess) is the implementation.               *)
(***************************************************************************)
CONSTANT Thread

VARIABLE held   \* what each thread holds

Init == held = [t \in Thread |-> "none"]

Nobody(kinds) == \A t \in Thread : held[t] \notin kinds

\* The constructor of CReadLock has returned
Read(t) ==
  /\ held[t] = "none"
  /\ Nobody({"write"})
  /\ held' = [held EXCEPT ![t] = "read"]

\* The constructor of CWriteLock has returned
Write(t) ==
  /\ Nobody({"read", "upgrade", "write"})
  /\ held' = [held EXCEPT ![t] = "write"]

\* The constructor of CUpgradeLock has returned
UpgradeLock(t) ==
  /\ held[t] = "none"
  /\ Nobody({"upgrade", "write"})
  /\ held' = [held EXCEPT ![t] = "upgrade"]

\* CUpgradeLock::Upgrade has returned
Upgrade(t) ==
  /\ held[t] = "upgrade"
  /\ Nobody({"read"})
  /\ held' = [held EXCEPT ![t] = "write"]

\* A destructor has run
Unlock(t) ==
  /\ held[t] # "none"
  /\ held' = [held EXCEPT ![t] = "none"]

Next == \E t \in Thread : Read(t) \/ Write(t) \/ UpgradeLock(t) \/ Upgrade(t) \/ Unlock(t)

Spec == Init /\ [][Next]_held
=============================================================================
