----------------------------- MODULE BaseProofs -----------------------------
(***************************************************************************)
(* Proofs about the base library: CRWAccess, for any set of threads,       *)
(* CDocker, for any number of components and timers, and CEventProc, for   *)
(* any event threads and any events.                                       *)
(***************************************************************************)
EXTENDS RWAccess, Docker, EventProc, CountingFacts

(***************************************************************************)
(* CRWAccess                                                               *)
(***************************************************************************)

\* Where a thread holds the write or the upgradable lock
Inside == {"write", "upgradable", "upgrading", "upgraded"}

\* A set of threads that gains one thread has one element more.
LEMMA CountUp ==
  ASSUME NEW S \in SUBSET Thread, NEW T \in SUBSET Thread, NEW t \in Thread,
         t \notin S, T = S \cup {t}
  PROVE  Cardinality(T) = Cardinality(S) + 1
BY ConstantsAssumption, FS_Subset, FS_AddElement, FS_CardinalityType, Zenon

\* A set of threads that loses one of its threads has one element less.
LEMMA CountDown ==
  ASSUME NEW S \in SUBSET Thread, NEW T \in SUBSET Thread, NEW t \in Thread,
         t \in S, T = S \ {t}
  PROVE  Cardinality(T) = Cardinality(S) - 1
BY ConstantsAssumption, FS_Subset, FS_RemoveElement, FS_CardinalityType, Zenon

\* A set of threads is counted by a natural number, zero if it is empty.
LEMMA CountType ==
  ASSUME NEW S \in SUBSET Thread
  PROVE  /\ Cardinality(S) \in Nat
         /\ Cardinality(S) = 0 <=> S = {}
BY ConstantsAssumption, FS_Subset, FS_EmptySet, FS_CardinalityType, Zenon

\* At collects threads.
LEMMA AtThreads ==
  \A P : At(P) \in SUBSET Thread /\ At(P)' \in SUBSET Thread
BY Zenon DEF At

\* A thread that moves from p to q changes At(P) by at most itself.
LEMMA Moved ==
  ASSUME TypeOK, NEW t \in Thread, NEW q, Goto(t, q), NEW P
  PROVE  At(P)' = IF q \in P THEN At(P) \cup {t} ELSE At(P) \ {t}
BY Zenon DEF TypeOK, Goto, At

\* The inductive invariant of CRWAccess
AccessInv == TypeOK /\ Accounted /\ NoLostWakeup

\* Every step keeps the types.
LEMMA TypeStep ==
  ASSUME TypeOK, Accounted, NEW t \in Thread,
         \/ ReadLock(t) \/ ReadTryLock(t) \/ ReadUnlock(t)
         \/ WriteLock(t) \/ WriteUnlock(t)
         \/ UpgradeLock(t) \/ UpgradeToWriteLock(t) \/ UpgradeUnlock(t)
         \/ Notify(t) \/ WakeSpuriously(t)
  PROVE  TypeOK'
<1> USE DEF TypeOK, Goto, Call, Woken, Sleep, lockVars
<1>1. CASE ReadLock(t)
  BY <1>1 DEF ReadLock, ReadWait
<1>2. CASE ReadTryLock(t)
  BY <1>2 DEF ReadTryLock
<1>3. CASE ReadUnlock(t)
  <2>1. t \in At({"read"})
    BY <1>3, Zenon DEF ReadUnlock, At
  <2>2. nRead # 0
    BY <2>1, CountType, AtThreads, Zenon DEF Accounted
  <2> QED  BY <1>3, <2>2 DEF ReadUnlock
<1>4. CASE WriteLock(t)
  <2>1. nWrite' \in Nat /\ left' \in [Thread -> Nat]
    BY <1>4 DEF WriteLock
  <2>2. CASE nRead # 0 \/ fExclusive
    BY <1>4, <2>1, <2>2, Zenon DEF WriteLock, WriteWait
  <2>3. CASE nRead = 0 /\ ~fExclusive
    BY <1>4, <2>1, <2>3, Zenon DEF WriteLock, WriteWait
  <2> QED  BY <2>2, <2>3, Zenon
<1>5. CASE WriteUnlock(t)
  <2>1. t \in At({"wantWrite", "write"})
    BY <1>5, Zenon DEF WriteUnlock, At
  <2>2. nWrite # 0
    BY <2>1, CountType, AtThreads, Zenon DEF Accounted
  <2>3. nWrite' \in Nat
    BY <1>5, <2>2 DEF WriteUnlock
  <2>4. pc' = [pc EXCEPT ![t] = "notifyWrite"] \/ pc' = [pc EXCEPT ![t] = "notifyRead"]
    BY <1>5, Zenon DEF WriteUnlock
  <2> QED  BY <1>5, <2>3, <2>4, Zenon DEF WriteUnlock
<1>6. CASE UpgradeLock(t)
  <2>1. left' \in [Thread -> Nat]
    BY <1>6 DEF UpgradeLock
  <2>2. CASE fExclusive
    BY <1>6, <2>1, <2>2, Zenon DEF UpgradeLock
  <2>3. CASE ~fExclusive
    BY <1>6, <2>1, <2>3, Zenon DEF UpgradeLock
  <2> QED  BY <2>2, <2>3, Zenon
<1>7. CASE UpgradeToWriteLock(t)
  BY <1>7, Zenon DEF UpgradeToWriteLock
<1>8. CASE UpgradeUnlock(t)
  BY <1>8, Zenon DEF UpgradeUnlock
<1>9. CASE Notify(t)
  BY <1>9, Zenon DEF Notify, NotifyOne, NotifyAll, SleepsFor
<1>10. CASE WakeSpuriously(t)
  BY <1>10, Zenon DEF WakeSpuriously
<1> QED  BY <1>1, <1>2, <1>3, <1>4, <1>5, <1>6, <1>7, <1>8, <1>9, <1>10, Zenon

\* Every step keeps the accounts: what it adds to a counter or a flag is what its
\* thread adds to the threads inside.
LEMMA AccountedStep ==
  ASSUME TypeOK, Accounted, NEW t \in Thread,
         \/ ReadLock(t) \/ ReadTryLock(t) \/ ReadUnlock(t)
         \/ WriteLock(t) \/ WriteUnlock(t)
         \/ UpgradeLock(t) \/ UpgradeToWriteLock(t) \/ UpgradeUnlock(t)
         \/ Notify(t) \/ WakeSpuriously(t)
  PROVE  Accounted'
<1> DEFINE R == At({"read"})
           W == At({"wantWrite", "write"})
           Flags == /\ fExclusive <=> At(Inside) # {}
                    /\ \A u, v \in At(Inside) : u = v
                    /\ fUpgraded <=> At({"upgrading", "upgraded"}) # {}
                    /\ asleep \subseteq At({"wantRead", "wantWrite", "wantUpgrade", "upgrading"})
<1>0. Accounted <=> nRead = Cardinality(R) /\ nWrite = Cardinality(W) /\ Flags
  BY Zenon DEF Accounted, Inside
<1>0a. Accounted' <=> nRead' = Cardinality(R') /\ nWrite' = Cardinality(W') /\ Flags'
  BY Zenon DEF Accounted, Inside
<1>0b. Flags
  BY <1>0, Zenon
<1>0c. /\ R \in SUBSET Thread /\ R' \in SUBSET Thread
       /\ W \in SUBSET Thread /\ W' \in SUBSET Thread
  BY AtThreads, Zenon
<1>1. Flags'
  <2> USE <1>0b DEF TypeOK, At, Inside, Goto, Call, Woken, Sleep, lockVars
  <2>1. CASE ReadLock(t)
    BY <2>1 DEF ReadLock, ReadWait
  <2>2. CASE ReadTryLock(t)
    BY <2>2 DEF ReadTryLock
  <2>3. CASE ReadUnlock(t)
    BY <2>3 DEF ReadUnlock
  <2>4. CASE WriteLock(t)
    BY <2>4 DEF WriteLock, WriteWait
  <2>5. CASE WriteUnlock(t)
    BY <2>5 DEF WriteUnlock
  <2>6. CASE UpgradeLock(t)
    BY <2>6 DEF UpgradeLock
  <2>7. CASE UpgradeToWriteLock(t)
    BY <2>7 DEF UpgradeToWriteLock
  <2>8. CASE UpgradeUnlock(t)
    BY <2>8 DEF UpgradeUnlock
  <2>9. CASE Notify(t)
    BY <2>9 DEF Notify, NotifyOne, NotifyAll, SleepsFor
  <2>10. CASE WakeSpuriously(t)
    BY <2>10, Zenon DEF WakeSpuriously
  <2> QED  BY <2>1, <2>2, <2>3, <2>4, <2>5, <2>6, <2>7, <2>8, <2>9, <2>10, Zenon
<1>2. nRead' = Cardinality(R')
  <2>0. nRead = Cardinality(R)
    BY <1>0, Zenon
  <2> DEFINE enters == /\ nRead' = nRead + 1
                       /\ t \notin R /\ R' = R \cup {t}
             leaves == /\ nRead' = nRead - 1
                       /\ t \in R /\ R' = R \ {t}
             stays  == nRead' = nRead /\ R' = R
  <2>1. enters \/ leaves \/ stays
    <3> USE DEF TypeOK, At, Goto, Call, Woken, Sleep, lockVars
    <3>1. CASE ReadLock(t)
      BY <3>1, Zenon DEF ReadLock, ReadWait
    <3>2. CASE ReadTryLock(t)
      BY <3>2, Zenon DEF ReadTryLock
    <3>3. CASE ReadUnlock(t)
      BY <3>3, Zenon DEF ReadUnlock
    <3>4. CASE WriteLock(t)
      BY <3>4, Zenon DEF WriteLock, WriteWait
    <3>5. CASE WriteUnlock(t)
      BY <3>5, Zenon DEF WriteUnlock
    <3>6. CASE UpgradeLock(t)
      BY <3>6, Zenon DEF UpgradeLock
    <3>7. CASE UpgradeToWriteLock(t)
      BY <3>7, Zenon DEF UpgradeToWriteLock
    <3>8. CASE UpgradeUnlock(t)
      BY <3>8, Zenon DEF UpgradeUnlock
    <3>9. CASE Notify(t)
      BY <3>9, Zenon DEF Notify, NotifyOne, NotifyAll
    <3>10. CASE WakeSpuriously(t)
      BY <3>10, Zenon DEF WakeSpuriously
    <3> QED  BY <3>1, <3>2, <3>3, <3>4, <3>5, <3>6, <3>7, <3>8, <3>9, <3>10, Zenon
  <2> HIDE DEF R
  <2>2. CASE enters
    BY <2>2, <2>0, <1>0c, CountUp, Zenon
  <2>3. CASE leaves
    BY <2>3, <2>0, <1>0c, CountDown, Zenon
  <2>4. CASE stays
    BY <2>4, <2>0, Zenon
  <2> QED  BY <2>1, <2>2, <2>3, <2>4, Zenon
<1>3. nWrite' = Cardinality(W')
  <2>0. nWrite = Cardinality(W)
    BY <1>0, Zenon
  <2> DEFINE enters == /\ nWrite' = nWrite + 1
                       /\ t \notin W /\ W' = W \cup {t}
             leaves == /\ nWrite' = nWrite - 1
                       /\ t \in W /\ W' = W \ {t}
             stays  == nWrite' = nWrite /\ W' = W
  <2>1. enters \/ leaves \/ stays
    <3> USE DEF TypeOK, At, Goto, Call, Woken, Sleep, lockVars
    <3>1. CASE ReadLock(t)
      BY <3>1, Zenon DEF ReadLock, ReadWait
    <3>2. CASE ReadTryLock(t)
      BY <3>2, Zenon DEF ReadTryLock
    <3>3. CASE ReadUnlock(t)
      BY <3>3, Zenon DEF ReadUnlock
    <3>4. CASE WriteLock(t)
      BY <3>4, Zenon DEF WriteLock, WriteWait
    <3>5. CASE WriteUnlock(t)
      BY <3>5, Zenon DEF WriteUnlock
    <3>6. CASE UpgradeLock(t)
      BY <3>6, Zenon DEF UpgradeLock
    <3>7. CASE UpgradeToWriteLock(t)
      BY <3>7, Zenon DEF UpgradeToWriteLock
    <3>8. CASE UpgradeUnlock(t)
      BY <3>8, Zenon DEF UpgradeUnlock
    <3>9. CASE Notify(t)
      BY <3>9, Zenon DEF Notify, NotifyOne, NotifyAll
    <3>10. CASE WakeSpuriously(t)
      BY <3>10, Zenon DEF WakeSpuriously
    <3> QED  BY <3>1, <3>2, <3>3, <3>4, <3>5, <3>6, <3>7, <3>8, <3>9, <3>10, Zenon
  <2> HIDE DEF W
  <2>2. CASE enters
    BY <2>2, <2>0, <1>0c, CountUp, Zenon
  <2>3. CASE leaves
    BY <2>3, <2>0, <1>0c, CountDown, Zenon
  <2>4. CASE stays
    BY <2>4, <2>0, Zenon
  <2> QED  BY <2>1, <2>2, <2>3, <2>4, Zenon
<1> QED  BY <1>0a, <1>1, <1>2, <1>3, Zenon

\* Every step keeps the promise of a wakeup.
LEMMA WakeupStep ==
  ASSUME TypeOK, Accounted, NoLostWakeup, TypeOK', Accounted', NEW t \in Thread,
         \/ ReadLock(t) \/ ReadTryLock(t) \/ ReadUnlock(t)
         \/ WriteLock(t) \/ WriteUnlock(t)
         \/ UpgradeLock(t) \/ UpgradeToWriteLock(t) \/ UpgradeUnlock(t)
         \/ Notify(t) \/ WakeSpuriously(t)
  PROVE  NoLostWakeup'
<1>0. /\ nWrite = 0 <=> At({"wantWrite", "write"}) = {}
      /\ nRead = 0 <=> At({"read"}) = {}
      /\ fExclusive <=> At(Inside) # {}
      /\ \A u, v \in At(Inside) : u = v
      /\ fUpgraded <=> At({"upgrading", "upgraded"}) # {}
  BY CountType, AtThreads, Zenon DEF Accounted, Inside
<1>0a. nWrite' = 0 <=> At({"wantWrite", "write"})' = {}
  BY CountType, AtThreads, Zenon DEF Accounted
<1> DEFINE Writers == SleepsFor({"wantWrite"}) # {} /\ nRead = 0 /\ ~fExclusive =>
                        At({"notifyWrite"}) # {} \/ At({"wantWrite"}) \ asleep # {}
           Readers == SleepsFor({"wantRead"}) # {} /\ nWrite = 0 /\ ~fUpgraded =>
                        At({"notifyRead"}) # {}
           Upgraders == SleepsFor({"wantUpgrade"}) # {} /\ ~fExclusive =>
                          At({"notifyRead"}) # {} \/ nWrite # 0
           Upgrading == SleepsFor({"upgrading"}) # {} /\ nRead = 0 =>
                          At({"notifyUpgrade"}) # {}
<1>1. NoLostWakeup <=> Writers /\ Readers /\ Upgraders /\ Upgrading
  BY Zenon DEF NoLostWakeup
<1>2. NoLostWakeup' <=> Writers' /\ Readers' /\ Upgraders' /\ Upgrading'
  BY Zenon DEF NoLostWakeup
<1> USE <1>0, <1>0a, <1>1 DEF TypeOK, At, SleepsFor, Inside, Goto, Call, Woken, Sleep, lockVars
<1>3. CASE ReadLock(t)
  <2>1. Writers'  BY <1>3 DEF ReadLock, ReadWait
  <2>2. Readers'  BY <1>3 DEF ReadLock, ReadWait
  <2>3. Upgraders'  BY <1>3 DEF ReadLock, ReadWait
  <2>4. Upgrading'  BY <1>3 DEF ReadLock, ReadWait
  <2> QED  BY <1>2, <2>1, <2>2, <2>3, <2>4, Zenon
<1>4. CASE ReadTryLock(t)
  <2>1. Writers'  BY <1>4 DEF ReadTryLock
  <2>2. Readers'  BY <1>4 DEF ReadTryLock
  <2>3. Upgraders'  BY <1>4 DEF ReadTryLock
  <2>4. Upgrading'  BY <1>4 DEF ReadTryLock
  <2> QED  BY <1>2, <2>1, <2>2, <2>3, <2>4, Zenon
<1>5. CASE ReadUnlock(t)
  <2>1. Writers'  BY <1>5, Zenon DEF ReadUnlock
  <2>2. Readers'  BY <1>5 DEF ReadUnlock
  <2>3. Upgraders'  BY <1>5, Zenon DEF ReadUnlock
  <2>4. Upgrading'  BY <1>5 DEF ReadUnlock
  <2> QED  BY <1>2, <2>1, <2>2, <2>3, <2>4, Zenon
<1>6. CASE WriteLock(t)
  <2>1. Writers'  BY <1>6 DEF WriteLock, WriteWait
  <2>2. Readers'  BY <1>6 DEF WriteLock, WriteWait
  <2>3. Upgraders'  BY <1>6 DEF WriteLock, WriteWait
  <2>4. Upgrading'  BY <1>6 DEF WriteLock, WriteWait
  <2> QED  BY <1>2, <2>1, <2>2, <2>3, <2>4, Zenon
<1>7. CASE WriteUnlock(t)
  <2>1. Writers'  BY <1>7, Zenon DEF WriteUnlock
  <2>2. Readers'  BY <1>7, Zenon DEF WriteUnlock
  <2>3. Upgraders'  BY <1>7, Zenon DEF WriteUnlock
  <2>4. Upgrading'  BY <1>7, Zenon DEF WriteUnlock
  <2> QED  BY <1>2, <2>1, <2>2, <2>3, <2>4, Zenon
<1>8. CASE UpgradeLock(t)
  <2>1. Writers'  BY <1>8 DEF UpgradeLock
  <2>2. Readers'  BY <1>8 DEF UpgradeLock
  <2>3. Upgraders'  BY <1>8 DEF UpgradeLock
  <2>4. Upgrading'  BY <1>8 DEF UpgradeLock
  <2> QED  BY <1>2, <2>1, <2>2, <2>3, <2>4, Zenon
<1>9. CASE UpgradeToWriteLock(t)
  <2>1. Writers'  BY <1>9, Zenon DEF UpgradeToWriteLock
  <2>2. Readers'  BY <1>9, Zenon DEF UpgradeToWriteLock
  <2>3. Upgraders'  BY <1>9, Zenon DEF UpgradeToWriteLock
  <2>4. Upgrading'  BY <1>9 DEF UpgradeToWriteLock
  <2> QED  BY <1>2, <2>1, <2>2, <2>3, <2>4, Zenon
<1>10. CASE UpgradeUnlock(t)
  <2>1. Writers'  BY <1>10, Zenon DEF UpgradeUnlock
  <2>2. Readers'  BY <1>10, Zenon DEF UpgradeUnlock
  <2>3. Upgraders'  BY <1>10, Zenon DEF UpgradeUnlock
  <2>4. Upgrading'  BY <1>10, Zenon DEF UpgradeUnlock
  <2> QED  BY <1>2, <2>1, <2>2, <2>3, <2>4, Zenon
<1>11. CASE Notify(t)
  <2>1. CASE NotifyOne(t, "notifyWrite", "wantWrite")
    BY <1>2, <2>1 DEF NotifyOne
  <2>2. CASE NotifyOne(t, "notifyUpgrade", "upgrading")
    BY <1>2, <2>2 DEF NotifyOne
  <2>3. CASE NotifyAll(t)
    BY <1>2, <2>3 DEF NotifyAll
  <2> QED  BY <1>11, <2>1, <2>2, <2>3, Zenon DEF Notify
<1>12. CASE WakeSpuriously(t)
  BY <1>2, <1>12, Zenon DEF WakeSpuriously
<1> QED  BY <1>3, <1>4, <1>5, <1>6, <1>7, <1>8, <1>9, <1>10, <1>11, <1>12, Zenon

\* The inductive invariant holds in every reachable state.
THEOREM Invariant == Spec => []AccessInv
<1>1. Init => AccessInv
  <2> SUFFICES ASSUME Init PROVE AccessInv
    BY Zenon
  <2>1. TypeOK
    BY ConstantsAssumption, Zenon DEF Init, TypeOK
  <2>2. \A P : "idle" \notin P => At(P) = {}
    BY Zenon DEF Init, At
  <2>3. Accounted
    BY <2>2, FS_EmptySet DEF Init, Accounted
  <2>4. NoLostWakeup
    BY Zenon DEF Init, NoLostWakeup, SleepsFor
  <2> QED  BY <2>1, <2>3, <2>4, Zenon DEF AccessInv
<1>2. AccessInv /\ [Next]_vars => AccessInv'
  <2> SUFFICES ASSUME AccessInv, [Next]_vars PROVE AccessInv'
    BY Zenon
  <2>1. CASE Next
    <3>1. PICK t \in Thread :
             \/ ReadLock(t) \/ ReadTryLock(t) \/ ReadUnlock(t)
             \/ WriteLock(t) \/ WriteUnlock(t)
             \/ UpgradeLock(t) \/ UpgradeToWriteLock(t) \/ UpgradeUnlock(t)
             \/ Notify(t) \/ WakeSpuriously(t)
      BY <2>1, Zenon DEF Next
    <3>2. TypeOK'
      BY <3>1, TypeStep, Zenon DEF AccessInv
    <3>3. Accounted'
      BY <3>1, AccountedStep, Zenon DEF AccessInv
    <3>4. NoLostWakeup'
      BY <3>1, <3>2, <3>3, WakeupStep, Zenon DEF AccessInv
    <3> QED  BY <3>2, <3>3, <3>4, Zenon DEF AccessInv
  <2>2. CASE UNCHANGED vars
    BY <2>2, Zenon DEF AccessInv, TypeOK, Accounted, NoLostWakeup, At, SleepsFor, vars, lockVars
  <2> QED  BY <2>1, <2>2, Zenon
<1> QED  BY <1>1, <1>2, PTL DEF Spec

\* The accounts are true in every reachable state.
THEOREM AccountsHold == Spec => []Accounted
BY Invariant, PTL DEF AccessInv

\* No wakeup is lost, for any number of threads.
THEOREM WakeupsHold == Spec => []NoLostWakeup
BY Invariant, PTL DEF AccessInv

\* While a thread writes no other thread is inside, for any number of threads.
THEOREM ExclusionHolds == Spec => []Exclusion
<1>1. Init => Exclusion
  BY Zenon DEF Init, Exclusion, At
<1>2. AccessInv /\ Exclusion /\ [Next]_vars => Exclusion'
  <2> SUFFICES ASSUME AccessInv, Exclusion, [Next]_vars PROVE Exclusion'
    BY Zenon
  <2>0. /\ nRead = 0 <=> At({"read"}) = {}
        /\ nWrite = 0 <=> At({"wantWrite", "write"}) = {}
        /\ fExclusive <=> At(Inside) # {}
        /\ \A u, v \in At(Inside) : u = v
        /\ fUpgraded <=> At({"upgrading", "upgraded"}) # {}
    BY CountType, AtThreads, Zenon DEF AccessInv, Accounted, Inside
  <2> USE <2>0 DEF AccessInv, TypeOK, Exclusion, At, Inside, Goto, Call, Woken, Sleep, lockVars
  <2>1. ASSUME NEW t \in Thread, ReadLock(t) PROVE Exclusion'
    BY <2>1 DEF ReadLock, ReadWait
  <2>2. ASSUME NEW t \in Thread, ReadTryLock(t) PROVE Exclusion'
    BY <2>2 DEF ReadTryLock
  <2>3. ASSUME NEW t \in Thread, ReadUnlock(t) PROVE Exclusion'
    BY <2>3, Zenon DEF ReadUnlock
  <2>4. ASSUME NEW t \in Thread, WriteLock(t) PROVE Exclusion'
    BY <2>4 DEF WriteLock, WriteWait
  <2>5. ASSUME NEW t \in Thread, WriteUnlock(t) PROVE Exclusion'
    BY <2>5 DEF WriteUnlock
  <2>6. ASSUME NEW t \in Thread, UpgradeLock(t) PROVE Exclusion'
    BY <2>6 DEF UpgradeLock
  <2>7. ASSUME NEW t \in Thread, UpgradeToWriteLock(t) PROVE Exclusion'
    BY <2>7 DEF UpgradeToWriteLock
  <2>8. ASSUME NEW t \in Thread, UpgradeUnlock(t) PROVE Exclusion'
    BY <2>8, Zenon DEF UpgradeUnlock
  <2>9. ASSUME NEW t \in Thread, Notify(t) PROVE Exclusion'
    BY <2>9 DEF Notify, NotifyOne, NotifyAll
  <2>10. ASSUME NEW t \in Thread, WakeSpuriously(t) PROVE Exclusion'
    BY <2>10, Zenon DEF WakeSpuriously
  <2>11. CASE UNCHANGED vars
    BY <2>11, Zenon DEF vars
  <2> QED
    BY <2>1, <2>2, <2>3, <2>4, <2>5, <2>6, <2>7, <2>8, <2>9, <2>10, <2>11, Zenon DEF Next
<1> QED  BY <1>1, <1>2, Invariant, PTL DEF Spec

\* A step of the methods is, seen from outside, a step of the lock they promise.
LEMMA LockStep ==
  ASSUME AccessInv, Exclusion, NEW t \in Thread,
         \/ ReadLock(t) \/ ReadTryLock(t) \/ ReadUnlock(t)
         \/ WriteLock(t) \/ WriteUnlock(t)
         \/ UpgradeLock(t) \/ UpgradeToWriteLock(t) \/ UpgradeUnlock(t)
         \/ Notify(t) \/ WakeSpuriously(t)
  PROVE  [Lock!Next]_held
<1>0. /\ nRead = 0 <=> At({"read"}) = {}
      /\ nWrite = 0 <=> At({"wantWrite", "write"}) = {}
      /\ fExclusive <=> At(Inside) # {}
      /\ fUpgraded <=> At({"upgrading", "upgraded"}) # {}
  BY CountType, AtThreads, Zenon DEF AccessInv, Accounted, Inside
<1> USE <1>0 DEF AccessInv, TypeOK, Exclusion, At, Inside, Goto, Call, Woken, Sleep, lockVars, Holds, held
<1>1. CASE ReadLock(t)
  <2>1. held' = held \/ Lock!Read(t)
    BY <1>1, Zenon DEF ReadLock, ReadWait, Lock!Read, Lock!Nobody
  <2> QED  BY <2>1, Zenon DEF Lock!Next
<1>2. CASE ReadTryLock(t)
  <2>1. held' = held \/ Lock!Read(t)
    BY <1>2, Zenon DEF ReadTryLock, Lock!Read, Lock!Nobody
  <2> QED  BY <2>1, Zenon DEF Lock!Next
<1>3. CASE ReadUnlock(t)
  <2>1. Lock!Unlock(t)
    BY <1>3, Zenon DEF ReadUnlock, Lock!Unlock
  <2> QED  BY <2>1, Zenon DEF Lock!Next
<1>4. CASE WriteLock(t)
  <2>1. held' = held \/ Lock!Write(t)
    BY <1>4, Zenon DEF WriteLock, WriteWait, Lock!Write, Lock!Nobody
  <2> QED  BY <2>1, Zenon DEF Lock!Next
<1>5. CASE WriteUnlock(t)
  <2>1. Lock!Unlock(t)
    BY <1>5, Zenon DEF WriteUnlock, Lock!Unlock
  <2> QED  BY <2>1, Zenon DEF Lock!Next
<1>6. CASE UpgradeLock(t)
  <2>1. held' = held \/ Lock!UpgradeLock(t)
    BY <1>6, Zenon DEF UpgradeLock, Lock!UpgradeLock, Lock!Nobody
  <2> QED  BY <2>1, Zenon DEF Lock!Next
<1>7. CASE UpgradeToWriteLock(t)
  <2>1. held' = held \/ Lock!Upgrade(t)
    BY <1>7, Zenon DEF UpgradeToWriteLock, Lock!Upgrade, Lock!Nobody
  <2> QED  BY <2>1, Zenon DEF Lock!Next
<1>8. CASE UpgradeUnlock(t)
  <2>1. Lock!Unlock(t)
    BY <1>8, Zenon DEF UpgradeUnlock, Lock!Unlock
  <2> QED  BY <2>1, Zenon DEF Lock!Next
<1>9. CASE Notify(t)
  <2>1. held' = held
    BY <1>9, Zenon DEF Notify, NotifyOne, NotifyAll
  <2> QED  BY <2>1, Zenon
<1>10. CASE WakeSpuriously(t)
  <2>1. held' = held
    BY <1>10, Zenon DEF WakeSpuriously
  <2> QED  BY <2>1, Zenon
<1> QED  BY <1>1, <1>2, <1>3, <1>4, <1>5, <1>6, <1>7, <1>8, <1>9, <1>10, Zenon

\* CRWAccess implements the lock its users rely on, for any number of threads.
THEOREM Refinement == Spec => LockSpec
<1>1. Init => Lock!Init
  BY Zenon DEF Init, Lock!Init, Holds, held
<1>2. AccessInv /\ Exclusion /\ [Next]_vars => [Lock!Next]_held
  <2> SUFFICES ASSUME AccessInv, Exclusion, [Next]_vars
               PROVE  [Lock!Next]_held
    BY Zenon
  <2>1. CASE Next
    BY <2>1, LockStep, Zenon DEF Next
  <2>2. CASE UNCHANGED vars
    BY <2>2, Zenon DEF vars, Holds, held
  <2> QED  BY <2>1, <2>2, Zenon
<1> QED  BY <1>1, <1>2, Invariant, ExclusionHolds, PTL DEF Spec, LockSpec, Lock!Spec

(***************************************************************************)
(* CDocker                                                                 *)
(***************************************************************************)

\* DockerAssumption, as a fact that the lemmas take over
Sizes == N \in Nat \ {0} /\ MaxTimers \in Nat /\ Delayed \subseteq Comp

\* Where the main thread can be
Place ==
  {"initialize", "invoke", "activate", "up", "halt", "join", "deinit", "cancel", "failed",
   "deactivate", "delete", "notify", "joinTimer", "gone"}

\* A thread that has started and has not ended
Started == {"delayed", "waiting", "run"}

\* No component is invoked
NoneInvoked == \A d \in Comp : status[d] # "invoked"

\* The types of what the main thread changes
MainType ==
  /\ DOMAIN main = {"at", "i"} /\ main.at \in Place /\ main.i \in Comp
  /\ status \in [Comp -> {"attached", "initialized", "invoked", "deleted"}]
  /\ thr \in [Comp -> {"none"} \cup Started \cup {"ended"}]
  /\ told \subseteq Comp /\ swept \subseteq Comp /\ failed \in 0..N
  /\ fActived \in BOOLEAN /\ fShutdown \in BOOLEAN

\* Where the main thread is says what the components are
MainInv ==
  /\ MainType
  /\ main.at = "initialize" =>
       /\ NoneInvoked /\ thr = [d \in Comp |-> "none"]
       /\ \A d \in Comp : d < main.i => status[d] = "initialized"
  /\ main.at = "invoke" =>
       \A d \in Comp : IF d < main.i THEN status[d] = "invoked"
                       ELSE status[d] = "initialized" /\ thr[d] = "none"
  /\ main.at = "activate" => \A d \in Comp : status[d] = "invoked"
  /\ main.at \in {"initialize", "invoke", "activate"} => failed = 0 /\ told = {}
  /\ main.at \in {"initialize", "invoke", "activate", "up"} => swept = {}
  /\ main.at \in {"halt", "join"} => \A d \in Comp : d > main.i => status[d] # "invoked"
  /\ main.at = "join" => status[main.i] = "invoked" /\ main.i \in told
  /\ main.at \in {"deinit", "cancel", "failed", "delete", "notify", "joinTimer", "gone"} => NoneInvoked
  /\ swept # {} => NoneInvoked

\* A thread that has started and has not ended has an invoked component, and
\* then no component is torn down.  The docker is active only between the
\* invocation of the last component and the first halt.
ThreadInv ==
  /\ \A c \in Comp \ {failed} : thr[c] \in Started => status[c] = "invoked"
  /\ ~NoneInvoked => \A d \in Comp : status[d] \in {"initialized", "invoked"}
  /\ fActived => /\ main.at \in {"up", "deactivate"} /\ failed = 0
                 /\ \A d \in Comp : status[d] = "invoked"
  /\ \A c \in Delayed : thr[c] = "run" =>
       /\ c # failed /\ main.at \notin {"initialize", "invoke", "activate"}
       /\ \A d \in Comp : d \notin told => status[d] = "invoked"

\* Where each timer is
TimerInv ==
  /\ key \in [Timer -> 0..N]
  /\ mapTimerByExpiry \subseteq mapTimerById /\ vWorkQueue \cap mapTimerByExpiry = {}
  /\ mapTimerById \subseteq Timer /\ vWorkQueue \subseteq Timer /\ cancelled \subseteq Timer
  /\ \A t \in mapTimerById \cup vWorkQueue \cup cancelled : key[t] # 0
  /\ DOMAIN timer = {"at", "id"} /\ timer.at \in {"loop", "asleep", "work", "call", "ended"}
  /\ timer.at = "call" => timer.id \in Timer \ mapTimerById /\ key[timer.id] # 0
  /\ vWorkQueue # {} => timer.at \in {"work", "call"}
  /\ cancelled \cap mapTimerById = {} /\ CancelledIsNotCalled
  /\ OneLateCallback /\ CancelTimersStops
  /\ \A t \in vWorkQueue \cup mapTimerByExpiry : key[t] \in swept \ {failed} => t \in leftover

\* The inductive invariant
DockerInv == MainInv /\ ThreadInv /\ TimerInv

\* A timer not yet set is set next
LEMMA NextIdUnset ==
  ASSUME Sizes, \E t \in Timer : key[t] = 0
  PROVE  NextId \in Timer /\ key[NextId] = 0
<1> DEFINE S == {t \in Timer : key[t] = 0}
<1>1. S \subseteq Nat /\ S # {}
  BY DEF Sizes, Timer
<1>2. PICK t \in S : \A u \in S : t <= u
  BY <1>1, LeastNatural, Zenon
<1> QED
  BY <1>2, Zenon DEF NextId

\* NotifyTimer only wakes the timer thread
LEMMA NotifyTimerWakes ==
  ASSUME TimerInv, NotifyTimer
  PROVE  /\ DOMAIN timer' = {"at", "id"} /\ timer'.id = timer.id
         /\ timer'.at \in {"loop", "asleep", "work", "call", "ended"}
         /\ timer'.at = "call" <=> timer.at = "call"
         /\ timer.at \in {"work", "call"} => timer' = timer
BY Zenon DEF TimerInv, NotifyTimer

\* What the main thread does to itself and the components is nothing to the
\* timers before CancelTimers and Exit
LEMMA TimersKept ==
  ASSUME TimerInv, UNCHANGED <<fShutdown, swept, atShutdown, timerVars>>,
         failed' = failed \/ swept = {}
  PROVE  TimerInv'
BY Zenon DEF TimerInv, timerVars, CancelledIsNotCalled, OneLateCallback, CancelTimersStops

\* What the timer thread and the timers' users do is nothing to the components
LEMMA ComponentsKept ==
  ASSUME MainInv, ThreadInv, UNCHANGED <<mainVars, thr, told>>
  PROVE  MainInv' /\ ThreadInv'
BY Zenon DEF MainInv, MainType, ThreadInv, NoneInvoked, mainVars

\* A loop over the components stays among them
LEMMA LoopBounds ==
  ASSUME Sizes, NEW i \in Comp
  PROVE  /\ N \in Comp /\ 1 \in Comp
         /\ i < N => i + 1 \in Comp
         /\ i > 1 => i - 1 \in Comp
BY DEF Sizes, Comp

\* Initialize goes up the list of components, or turns back on a failure
LEMMA InitializeInv ==
  ASSUME Sizes, DockerInv, Initialize
  PROVE  DockerInv'
<1> USE DEF DockerInv, Initialize
<1>0. /\ N \in Comp /\ 1 \in Comp /\ main.i \in Comp
      /\ main.i < N => main.i + 1 \in Comp
      /\ main.i > 1 => main.i - 1 \in Comp
  BY LoopBounds, Zenon DEF MainInv, MainType
<1>1. TimerInv'
  BY TimersKept, Zenon
<1>2. MainInv'
  <2>1. CASE main.i < N /\ status' = [status EXCEPT ![main.i] = "initialized"] /\ Up("initialize", main.i, "invoke")
    <3>1. DOMAIN main' = {"at", "i"} /\ main'.at = "initialize" /\ main'.i = main.i + 1
      BY <2>1 DEF MainAt, Up
    <3> QED
      BY <1>0, <2>1, <3>1 DEF MainInv, MainType, ThreadInv, NoneInvoked, Started, Place, Comp, Sizes
  <2>2. CASE ~(main.i < N) /\ status' = [status EXCEPT ![main.i] = "initialized"] /\ Up("initialize", main.i, "invoke")
    <3>1. DOMAIN main' = {"at", "i"} /\ main'.at = "invoke" /\ main'.i = 1
      BY <2>2 DEF MainAt, Up
    <3> QED
      BY <1>0, <2>2, <3>1 DEF MainInv, MainType, ThreadInv, NoneInvoked, Started, Place, Comp, Sizes
  <2>3. CASE UNCHANGED status /\ MainAt("halt", N)
    <3>1. DOMAIN main' = {"at", "i"} /\ main'.at = "halt" /\ main'.i = N
      BY <2>3, Zenon DEF MainAt, Up
    <3> QED
      BY <1>0, <2>3, <3>1, Zenon
         DEF MainInv, MainType, ThreadInv, NoneInvoked, Started, Place, Comp, Sizes
  <2> QED
    BY <2>1, <2>2, <2>3, Zenon DEF MainAt, Up
<1>3. ThreadInv'
  BY <1>0 DEF MainAt, Up, MainInv, MainType, ThreadInv, NoneInvoked, Started, Place, Comp, Sizes
<1> QED
  BY <1>1, <1>2, <1>3, Zenon

\* Invoke goes up the list and starts the threads, or turns back
LEMMA InvokeInv ==
  ASSUME Sizes, DockerInv, Invoke
  PROVE  DockerInv'
<1> USE DEF DockerInv, Invoke
<1>0. /\ N \in Comp /\ 1 \in Comp /\ main.i \in Comp
      /\ main.i < N => main.i + 1 \in Comp
      /\ main.i > 1 => main.i - 1 \in Comp
  BY LoopBounds, Zenon DEF MainInv, MainType
<1>1. TimerInv'
  BY TimersKept, Zenon DEF MainInv
<1>2. MainInv'
  <2>1. CASE main.i < N /\ status' = [status EXCEPT ![main.i] = "invoked"] /\ Up("invoke", main.i, "activate") /\ thr' = Start(main.i) /\ failed' = failed
    <3>1. DOMAIN main' = {"at", "i"} /\ main'.at = "invoke" /\ main'.i = main.i + 1
      BY <2>1 DEF MainAt, Up
    <3>2. MainType'
      BY <1>0, <2>1, <3>1 DEF Start, MainInv, MainType, Started, Place, Sizes
    <3>3. \A d \in Comp : IF d < main'.i THEN status'[d] = "invoked"
                           ELSE status'[d] = "initialized" /\ thr'[d] = "none"
      BY <1>0, <2>1, <3>1 DEF MainInv, MainType, Start, Comp, Sizes
    <3> QED
      BY <2>1, <3>1, <3>2, <3>3, Zenon DEF MainInv
  <2>2. CASE ~(main.i < N) /\ status' = [status EXCEPT ![main.i] = "invoked"] /\ Up("invoke", main.i, "activate") /\ thr' = Start(main.i) /\ failed' = failed
    <3>1. DOMAIN main' = {"at", "i"} /\ main'.at = "activate" /\ main'.i = 1
      BY <2>2 DEF MainAt, Up
    <3>2. MainType'
      BY <1>0, <2>2, <3>1, Zenon DEF Start, MainInv, MainType, Started, Place, Sizes
    <3>3. \A d \in Comp : status'[d] = "invoked"
      BY <1>0, <2>2, <3>1 DEF MainInv, MainType, Comp, Sizes
    <3> QED
      BY <2>2, <3>1, <3>2, <3>3, Zenon DEF MainInv
  <2>3. CASE UNCHANGED status /\ MainAt("halt", N) /\ failed' = main.i
    <3>1. DOMAIN main' = {"at", "i"} /\ main'.at = "halt" /\ main'.i = N
      BY <2>3, Zenon DEF MainAt, Up
    <3>2. MainType'
      BY <1>0, <2>3, <3>1 DEF Start, MainInv, MainType, Started, Place, Sizes, Comp
    <3> QED
      BY <1>0, <2>3, <3>1, <3>2 DEF Start, MainInv, MainType, ThreadInv, NoneInvoked, Started, Place, Comp, Sizes
  <2> QED
    BY <2>1, <2>2, <2>3, Zenon DEF MainAt, Up
<1>3. ThreadInv'
  BY <1>0 DEF MainAt, Up, Start, MainInv, MainType, ThreadInv, NoneInvoked, Started, Place, Comp, Sizes
<1> QED
  BY <1>1, <1>2, <1>3, Zenon

\* Only the activity flag changes
LEMMA ActivateInv ==
  ASSUME Sizes, DockerInv, Activate \/ Deactivate
  PROVE  DockerInv'
<1> USE DEF DockerInv, Activate, Deactivate
<1>0. /\ N \in Comp /\ 1 \in Comp /\ main.i \in Comp
      /\ main.i < N => main.i + 1 \in Comp
      /\ main.i > 1 => main.i - 1 \in Comp
  BY LoopBounds, Zenon DEF MainInv, MainType
<1>1. TimerInv'
  BY TimersKept, Zenon
<1>2. MainInv'
  <2>1. CASE Activate
    <3>1. DOMAIN main' = {"at", "i"} /\ main'.at = "up" /\ main'.i = 1
      BY <2>1, Zenon DEF MainAt
    <3>2. MainType'
      BY <1>0, <2>1, <3>1, Zenon DEF NotifyDocker, MainInv, MainType, Started, Place, Sizes
    <3> QED
      BY <1>0, <2>1, <3>1, <3>2, Zenon
         DEF NotifyDocker, MainInv, MainType, ThreadInv, NoneInvoked, Started, Place, Comp, Sizes
  <2>2. CASE Deactivate
    <3>1. DOMAIN main' = {"at", "i"} /\ main'.at = "halt" /\ main'.i = N
      BY <2>2, Zenon DEF MainAt
    <3>2. MainType'
      BY <1>0, <2>2, <3>1, Zenon DEF NotifyDocker, MainInv, MainType, Started, Place, Sizes
    <3> QED
      BY <1>0, <2>2, <3>1, <3>2 DEF NotifyDocker, MainInv, MainType, ThreadInv, NoneInvoked, Started, Place, Comp, Sizes
  <2> QED
    BY <2>1, <2>2, Zenon DEF MainAt
<1>3. ThreadInv'
  BY <1>0 DEF MainAt, NotifyDocker, MainInv, MainType, ThreadInv, NoneInvoked, Started, Place, Comp, Sizes
<1> QED
  BY <1>1, <1>2, <1>3, Zenon

\* Halt goes down the list and tells the threads to end
LEMMA HaltInv ==
  ASSUME Sizes, DockerInv, Halt
  PROVE  DockerInv'
<1> USE DEF DockerInv, Halt
<1>0. /\ N \in Comp /\ 1 \in Comp /\ main.i \in Comp
      /\ main.i < N => main.i + 1 \in Comp
      /\ main.i > 1 => main.i - 1 \in Comp
  BY LoopBounds, Zenon DEF MainInv, MainType
<1>1. TimerInv'
  BY TimersKept, Zenon
<1>2. MainInv'
  <2>1. CASE status[main.i] = "invoked"
    <3>1. DOMAIN main' = {"at", "i"} /\ main'.at = "join" /\ main'.i = main.i
      BY <2>1 DEF MainAt, Down
    <3> QED
      <4>1. MainType'
        BY <1>0, <2>1, <3>1 DEF MainInv, MainType, Place
      <4>2. main.i \in told' /\ status' = status /\ swept' = swept /\ main.at = "halt"
        BY <2>1, Zenon
      <4>3. NoneInvoked => FALSE
        BY <1>0, <2>1, Zenon DEF NoneInvoked
      <4> QED
        BY <1>0, <2>1, <3>1, <4>1, <4>2, <4>3, Zenon DEF MainInv
  <2>2. CASE status[main.i] # "invoked"
    <3>1. \A d \in Comp : d >= main.i => status[d] # "invoked"
      BY <1>0, <2>2 DEF MainInv, Comp, Sizes
    <3>2. CASE main.i > 1
      <4>1. DOMAIN main' = {"at", "i"} /\ main'.at = "halt" /\ main'.i = main.i - 1
        BY <2>2, <3>2 DEF MainAt, Down
      <4>2. \A d \in Comp : d > main'.i => status[d] # "invoked"
        BY <1>0, <3>1, <4>1 DEF Comp, Sizes
      <4>3. UNCHANGED <<status, thr, told, swept, failed, fActived, fShutdown>>
        BY <2>2, Zenon
      <4> HIDE DEF Halt
      <4> QED
        BY <1>0, <3>2, <4>1, <4>2, <4>3, Zenon DEF MainInv, MainType, NoneInvoked, Place
    <3>3. CASE ~(main.i > 1)
      <4>1. DOMAIN main' = {"at", "i"} /\ main'.at = "deinit" /\ main'.i = N
        BY <2>2, <3>3 DEF MainAt, Down
      <4>2. NoneInvoked
        BY <1>0, <3>1, <3>3 DEF NoneInvoked, Comp, Sizes
      <4>3. UNCHANGED <<status, thr, told, swept, failed, fActived, fShutdown>>
        BY <2>2, Zenon
      <4> HIDE DEF Halt
      <4> QED
        BY <1>0, <4>1, <4>2, <4>3, Zenon DEF MainInv, MainType, NoneInvoked, Place
    <3> QED
      BY <3>2, <3>3, Zenon
  <2> QED
    BY <2>1, <2>2, Zenon DEF MainAt, Down
<1>3. ThreadInv'
  BY <1>0 DEF MainAt, Down, MainInv, MainType, ThreadInv, NoneInvoked, Started, Place, Comp, Sizes
<1> QED
  BY <1>1, <1>2, <1>3, Zenon

\* A component stops being invoked once its threads have ended
LEMMA JoinInv ==
  ASSUME Sizes, DockerInv, Join
  PROVE  DockerInv'
<1> USE DEF DockerInv, Join
<1>0. /\ N \in Comp /\ 1 \in Comp /\ main.i \in Comp
      /\ main.i < N => main.i + 1 \in Comp
      /\ main.i > 1 => main.i - 1 \in Comp
  BY LoopBounds, Zenon DEF MainInv, MainType
<1>1. TimerInv'
  BY TimersKept, Zenon
<1>2. MainInv'
  <2>1. CASE main.i > 1
    <3>1. DOMAIN main' = {"at", "i"} /\ main'.at = "halt" /\ main'.i = main.i - 1
      BY <2>1 DEF MainAt, Down
    <3> QED
      BY <1>0, <2>1, <3>1 DEF MainInv, MainType, ThreadInv, NoneInvoked, Started, Place, Comp, Sizes
  <2>2. CASE ~(main.i > 1)
    <3>1. DOMAIN main' = {"at", "i"} /\ main'.at = "deinit" /\ main'.i = N
      BY <2>2 DEF MainAt, Down
    <3> QED
      BY <1>0, <2>2, <3>1 DEF MainInv, MainType, ThreadInv, NoneInvoked, Started, Place, Comp, Sizes
  <2> QED
    BY <2>1, <2>2, Zenon DEF MainAt, Down
<1>3. ThreadInv'
  BY <1>0 DEF MainAt, Down, MainInv, MainType, ThreadInv, NoneInvoked, Started, Place, Comp, Sizes
<1> QED
  BY <1>1, <1>2, <1>3, Zenon

\* Deinitialize and Delete go down the list when nothing is invoked
LEMMA TearDownInv ==
  ASSUME Sizes, DockerInv, Deinitialize \/ Delete
  PROVE  DockerInv'
<1> USE DEF DockerInv, Deinitialize, Delete
<1>0. /\ N \in Comp /\ 1 \in Comp /\ main.i \in Comp
      /\ main.i < N => main.i + 1 \in Comp
      /\ main.i > 1 => main.i - 1 \in Comp
  BY LoopBounds, Zenon DEF MainInv, MainType
<1>1. TimerInv'
  BY TimersKept, Zenon
<1>2. MainInv'
  <2>1. CASE Deinitialize /\ main.i > 1
    <3>1. DOMAIN main' = {"at", "i"} /\ main'.at = "deinit" /\ main'.i = main.i - 1
      BY <2>1 DEF MainAt, Down
    <3> QED
      BY <1>0, <2>1, <3>1 DEF MainInv, MainType, ThreadInv, NoneInvoked, Started, Place, Comp, Sizes
  <2>2. CASE Deinitialize /\ ~(main.i > 1)
    <3>1. DOMAIN main' = {"at", "i"} /\ main'.at = "cancel" /\ main'.i = N
      BY <2>2 DEF MainAt, Down
    <3> QED
      BY <1>0, <2>2, <3>1 DEF MainInv, MainType, ThreadInv, NoneInvoked, Started, Place, Comp, Sizes
  <2>3. CASE Delete /\ main.i > 1
    <3>1. DOMAIN main' = {"at", "i"} /\ main'.at = "delete" /\ main'.i = main.i - 1
      BY <2>3 DEF MainAt, Down
    <3> QED
      BY <1>0, <2>3, <3>1 DEF MainInv, MainType, ThreadInv, NoneInvoked, Started, Place, Comp, Sizes
  <2>4. CASE Delete /\ ~(main.i > 1)
    <3>1. DOMAIN main' = {"at", "i"} /\ main'.at = "notify" /\ main'.i = N
      BY <2>4 DEF MainAt, Down
    <3> QED
      BY <1>0, <2>4, <3>1 DEF MainInv, MainType, ThreadInv, NoneInvoked, Started, Place, Comp, Sizes
  <2> QED
    BY <2>1, <2>2, <2>3, <2>4, Zenon DEF MainAt, Down
<1>3. ThreadInv'
  BY <1>0 DEF MainAt, Down, MainInv, MainType, ThreadInv, NoneInvoked, Started, Place, Comp, Sizes
<1> QED
  BY <1>1, <1>2, <1>3, Zenon

\* The timers of a component are swept once no thread of it runs
LEMMA CancelTimersInv ==
  ASSUME Sizes, DockerInv, CancelTimers
  PROVE  DockerInv'
<1> USE DEF DockerInv
<1>0. /\ N \in Comp /\ 1 \in Comp /\ main.i \in Comp
      /\ main.i > 1 => main.i - 1 \in Comp
  BY LoopBounds, Zenon DEF DockerInv, MainInv, MainType
<1>1. TimerInv'
  <2>1. /\ DOMAIN timer' = {"at", "id"} /\ timer'.id = timer.id
        /\ timer'.at \in {"loop", "asleep", "work", "call", "ended"}
        /\ timer'.at = "call" <=> timer.at = "call"
        /\ timer.at \in {"work", "call"} => timer' = timer
    BY NotifyTimerWakes, Zenon DEF CancelTimers, TimerInv
  <2>2. UNCHANGED <<key, vWorkQueue, cancelled, fShutdown, atShutdown, failed>>
    BY Zenon DEF CancelTimers
  <2>3. /\ mapTimerByExpiry' = mapTimerByExpiry \ (mapTimerByExpiry \cap Of(main.i))
        /\ mapTimerById' = mapTimerById \ (mapTimerByExpiry \cap Of(main.i))
    BY Zenon DEF CancelTimers
  <2>4. \A t \in Timer : key[t] = main.i /\ (t \in vWorkQueue \/ t = timer.id) => t \in leftover'
    BY Zenon DEF CancelTimers, Of
  <2>5. leftover \subseteq leftover' /\ swept' = swept \cup {main.i}
    BY Zenon DEF CancelTimers
  <2>6. mapTimerByExpiry' \subseteq mapTimerById'
    BY <2>3, Zenon DEF TimerInv
  <2>7. \A t \in mapTimerByExpiry' : t \in mapTimerByExpiry /\ key[t] # main.i
    BY <2>3, Zenon DEF TimerInv, Of
  <2>8. CancelTimersStops'
    BY <2>1, <2>2, <2>4, <2>5, Zenon DEF TimerInv, CancelTimersStops
  <2>9. \A t \in vWorkQueue' \cup mapTimerByExpiry' : key'[t] \in swept' \ {failed'} => t \in leftover'
    BY <2>2, <2>4, <2>5, <2>7, Zenon DEF TimerInv
  <2> QED
    BY <2>1, <2>2, <2>3, <2>6, <2>8, <2>9, Zenon DEF TimerInv, CancelledIsNotCalled, OneLateCallback
<1>2. PICK at \in {"cancel", "failed", "delete"} :
        DOMAIN main' = {"at", "i"} /\ main'.at = at /\ main'.i \in Comp
  BY <1>0 DEF CancelTimers, Down, MainAt
<1>3. /\ UNCHANGED <<status, thr, told, failed, fActived, fShutdown>>
      /\ swept' = swept \cup {main.i} /\ NoneInvoked /\ main.at = "cancel"
  BY Zenon DEF CancelTimers, MainInv
<1>4. MainInv'
  BY <1>0, <1>2, <1>3, Zenon DEF MainInv, MainType, NoneInvoked, Place
<1>5. ThreadInv'
  BY <1>0, <1>2, <1>3, Zenon DEF ThreadInv, NoneInvoked
<1> QED
  BY <1>1, <1>4, <1>5, Zenon

\* The request to exit starts the way down
LEMMA ExitInv ==
  ASSUME Sizes, DockerInv, Exit
  PROVE  DockerInv'
<1> USE DEF DockerInv
<1>1. TimerInv'
  BY Zenon DEF Exit, TimerInv, timerVars, CancelledIsNotCalled, OneLateCallback, CancelTimersStops
<1>2. /\ DOMAIN main' = {"at", "i"} /\ main'.at = "deactivate" /\ main'.i \in Comp
      /\ UNCHANGED <<status, thr, told, swept, failed, fActived>> /\ fShutdown' = TRUE
      /\ main.at \in {"up", "failed"}
  BY LoopBounds, Zenon DEF Exit, MainAt, MainInv, MainType
<1>3. MainInv'
  BY <1>2, Zenon DEF MainInv, MainType, NoneInvoked, Place
<1>4. ThreadInv'
  BY <1>2, Zenon DEF ThreadInv, NoneInvoked
<1> QED
  BY <1>1, <1>3, <1>4, Zenon

\* The timer thread is told to end, and joined
LEMMA TimerEndsInv ==
  ASSUME Sizes, DockerInv, NotifyTimerThread \/ JoinTimer
  PROVE  DockerInv'
<1> USE DEF DockerInv
<1>1. PICK at \in {"joinTimer", "gone"} :
        DOMAIN main' = {"at", "i"} /\ main'.at = at /\ main'.i \in Comp
  BY LoopBounds DEF NotifyTimerThread, JoinTimer, MainAt, MainInv, MainType
<1>2. /\ UNCHANGED <<status, thr, told, swept, failed, fActived, fShutdown, atShutdown>>
      /\ UNCHANGED <<key, mapTimerById, mapTimerByExpiry, vWorkQueue, cancelled, leftover>>
      /\ main.at \in {"notify", "joinTimer"}
  BY Zenon DEF NotifyTimerThread, JoinTimer, timerVars
<1>3. MainInv'
  BY <1>1, <1>2, Zenon DEF MainInv, MainType, NoneInvoked, Place
<1>4. ThreadInv'
  BY <1>1, <1>2, Zenon DEF ThreadInv, NoneInvoked
<1>5. /\ DOMAIN timer' = {"at", "id"} /\ timer'.id = timer.id
      /\ timer'.at \in {"loop", "asleep", "work", "call", "ended"}
      /\ timer'.at = "call" <=> timer.at = "call"
      /\ timer.at \in {"work", "call"} => timer' = timer
  BY NotifyTimerWakes, Zenon DEF NotifyTimerThread, JoinTimer, timerVars, TimerInv
<1>6. TimerInv'
  BY <1>2, <1>5, Zenon DEF TimerInv, CancelledIsNotCalled, OneLateCallback, CancelTimersStops
<1> QED
  BY <1>3, <1>4, <1>6, Zenon

\* A thread of a component runs only when the docker is active, or goes on
LEMMA ThreadRunsInv ==
  ASSUME Sizes, DockerInv, NEW c \in Comp, ThreadRuns(c)
  PROVE  DockerInv'
<1> USE DEF DockerInv
<1>1. TimerInv'
  BY TimersKept, Zenon DEF ThreadRuns, ThreadDelayRun, ThreadEnd, mainVars
<1>2. UNCHANGED <<mainVars, told>> /\ thr[c] \in Started
  BY Zenon DEF ThreadRuns, ThreadDelayRun, ThreadEnd, Started
<1>3. PICK a \in Started \cup {"ended"} :
        thr' = [thr EXCEPT ![c] = a] /\ (a = "run" => fActived /\ thr[c] = "delayed")
  BY Zenon DEF ThreadRuns, ThreadDelayRun, ThreadEnd, Started
<1>4. main.at # "initialize" /\ (main.at = "invoke" => c < main.i)
  BY <1>2, Zenon DEF MainInv, MainType, Started
<1>5. MainInv'
  BY <1>2, <1>3, <1>4, Zenon DEF MainInv, MainType, NoneInvoked, mainVars
<1>6. thr'[c] = a /\ (\A d \in Comp : d # c => thr'[d] = thr[d])
  BY <1>3, Zenon DEF MainInv, MainType
<1>7. ThreadInv'
  <2>1. \A d \in Comp \ {failed} : thr'[d] \in Started => status[d] = "invoked"
    BY <1>2, <1>6, Zenon DEF ThreadInv
  <2>2. \A d \in Delayed : thr'[d] = "run" =>
          /\ d # failed /\ main.at \notin {"initialize", "invoke", "activate"}
          /\ \A e \in Comp : e \notin told => status[e] = "invoked"
    BY <1>3, <1>6 DEF ThreadInv, Sizes, Comp
  <2> QED
    BY <1>2, <2>1, <2>2, Zenon DEF ThreadInv, NoneInvoked, mainVars
<1> QED
  BY <1>1, <1>5, <1>7, Zenon

\* A timer is set only by code of its component that runs: after CancelTimers
\* that is a late callback, or the thread of the component that failed
LEMMA SetTimerInv ==
  ASSUME Sizes, DockerInv, NEW c \in Comp, SetTimer(c)
  PROVE  DockerInv'
<1> USE DEF DockerInv
<1>1. MainInv' /\ ThreadInv'
  BY ComponentsKept, Zenon DEF SetTimer
<1> DEFINE id == NextId
<1>2. id \in Timer /\ key[id] = 0
  BY NextIdUnset, Zenon DEF SetTimer
<1>3. /\ key' = [key EXCEPT ![id] = c]
      /\ mapTimerById' = mapTimerById \cup {id}
      /\ mapTimerByExpiry' = mapTimerByExpiry \cup {id}
      /\ UNCHANGED <<vWorkQueue, cancelled, fShutdown, failed, swept, atShutdown>>
      /\ leftover \subseteq leftover'
      /\ c \in swept /\ InCall(c) => id \in leftover'
  BY Zenon DEF SetTimer, mainVars
<1> HIDE DEF id
<1>4. c \in swept \ {failed} => InCall(c)
  BY DEF SetTimer, Active, MainInv, MainType, ThreadInv, NoneInvoked, Started
<1>5. /\ DOMAIN timer' = {"at", "id"} /\ timer'.id = timer.id
      /\ timer'.at \in {"loop", "asleep", "work", "call", "ended"}
      /\ timer'.at = "call" <=> timer.at = "call"
      /\ timer.at \in {"work", "call"} => timer' = timer
  BY NotifyTimerWakes, Zenon DEF SetTimer
<1>6. key' \in [Timer -> 0..N] /\ key'[id] = c /\ c # 0 /\ (\A t \in Timer : t # id => key'[t] = key[t])
  BY <1>2, <1>3 DEF TimerInv, Comp, Sizes
<1>7. id \notin mapTimerById \cup vWorkQueue \cup cancelled
  BY <1>2, Zenon DEF TimerInv
<1>8. timer.at = "call" => timer.id # id /\ key'[timer.id] = key[timer.id]
  BY <1>2, <1>6, Zenon DEF TimerInv
<1>9. CancelTimersStops' /\ CancelledIsNotCalled' /\ OneLateCallback'
  BY <1>3, <1>5, <1>8, Zenon DEF TimerInv, CancelTimersStops, CancelledIsNotCalled, OneLateCallback
<1>10. \A t \in vWorkQueue' \cup mapTimerByExpiry' : key'[t] \in swept' \ {failed'} => t \in leftover'
  BY <1>3, <1>4, <1>6 DEF TimerInv
<1>11. \A t \in mapTimerById' \cup vWorkQueue' \cup cancelled' : key'[t] # 0
  BY <1>3, <1>6, Zenon DEF TimerInv
<1>12. TimerInv'
  BY <1>2, <1>3, <1>5, <1>6, <1>7, <1>8, <1>9, <1>10, <1>11, Zenon DEF TimerInv
<1> QED
  BY <1>1, <1>12, Zenon

\* A cancelled timer leaves both maps
LEMMA CancelTimerInv ==
  ASSUME Sizes, DockerInv, NEW t \in Timer, CancelTimer(t)
  PROVE  DockerInv'
<1> USE DEF DockerInv
<1>1. MainInv' /\ ThreadInv'
  BY ComponentsKept, Zenon DEF CancelTimer
<1>2. /\ DOMAIN timer' = {"at", "id"} /\ timer'.id = timer.id
      /\ timer'.at \in {"loop", "asleep", "work", "call", "ended"}
      /\ timer'.at = "call" <=> timer.at = "call"
      /\ timer.at \in {"work", "call"} => timer' = timer
  BY NotifyTimerWakes, Zenon DEF CancelTimer, TimerInv
<1>3. /\ mapTimerById' = mapTimerById \ {t} /\ mapTimerByExpiry' = mapTimerByExpiry \ {t}
      /\ cancelled' = cancelled \cup {t} /\ t \in mapTimerById
      /\ UNCHANGED <<key, vWorkQueue, leftover, fShutdown, failed, swept, atShutdown>>
  BY Zenon DEF CancelTimer, mainVars
<1>4. timer.at = "call" => timer.id # t
  BY <1>3, Zenon DEF TimerInv
<1>5. CancelTimersStops' /\ CancelledIsNotCalled' /\ OneLateCallback'
  BY <1>2, <1>3, <1>4, Zenon DEF TimerInv, CancelTimersStops, CancelledIsNotCalled, OneLateCallback
<1>6. TimerInv'
  BY <1>2, <1>3, <1>5, Zenon DEF TimerInv
<1> QED
  BY <1>1, <1>6, Zenon

\* A timer is called once it has left the maps and the work queue
LEMMA TimerProcInv ==
  ASSUME Sizes, DockerInv, TimerProc
  PROVE  DockerInv'
<1> USE DEF DockerInv
<1>1. MainInv' /\ ThreadInv'
  BY ComponentsKept, Zenon DEF TimerProc, TimerIdle, TimerReturn, TimerLoop, TimerExpire, TimerTake
<1>2. CASE TimerIdle
  BY <1>1, <1>2, Zenon
     DEF TimerIdle, TimerInv, CancelTimersStops, CancelledIsNotCalled, OneLateCallback, mainVars
<1>3. CASE TimerReturn
  BY <1>1, <1>3, Zenon
     DEF TimerReturn, TimerInv, CancelTimersStops, CancelledIsNotCalled, OneLateCallback, mainVars
<1>4. CASE TimerLoop
  BY <1>1, <1>4, Zenon
     DEF TimerLoop, TimerInv, CancelTimersStops, CancelledIsNotCalled, OneLateCallback, mainVars
<1>5. ASSUME NEW due \in SUBSET mapTimerByExpiry, TimerExpire(due)
      PROVE  TimerInv'
  BY <1>5, Zenon
     DEF TimerExpire, TimerInv, CancelTimersStops, CancelledIsNotCalled, OneLateCallback, mainVars
<1>6. ASSUME NEW t \in vWorkQueue, TimerTake(t)
      PROVE  TimerInv'
  BY <1>6, Zenon
     DEF TimerTake, TimerInv, CancelTimersStops, CancelledIsNotCalled, OneLateCallback, mainVars
<1> QED
  BY <1>1, <1>2, <1>3, <1>4, <1>5, <1>6, Zenon DEF TimerProc

\* The invariant holds of a docker with its components attached
LEMMA DockerInitInv ==
  ASSUME Sizes, DockerInit
  PROVE  DockerInv
<1> USE DEF DockerInit, DockerInv
<1>1. MainInv
  <2>1. 1 \in Comp /\ 0 \in 0..N /\ \A d \in Comp : ~(d < 1)
    BY DEF Sizes, Comp
  <2>2. MainType
    BY <2>1, Zenon DEF MainType, Place
  <2> QED
    BY <2>1, <2>2, Zenon DEF MainInv, NoneInvoked
<1>2. ThreadInv
  BY Zenon DEF ThreadInv, NoneInvoked, Started, Sizes
<1>3. TimerInv
  BY DEF TimerInv, CancelTimersStops, CancelledIsNotCalled, OneLateCallback, Sizes
<1> QED
  BY <1>1, <1>2, <1>3, Zenon

\* Every step of the docker keeps the invariant
LEMMA DockerNextInv ==
  ASSUME Sizes, DockerInv, [DockerNext]_dockerVars
  PROVE  DockerInv'
<1>1. CASE Main
  BY <1>1, InitializeInv, InvokeInv, ActivateInv, HaltInv, JoinInv, TearDownInv, CancelTimersInv,
     TimerEndsInv, Zenon
     DEF Main
<1>2. CASE Exit
  BY <1>2, ExitInv, Zenon
<1>3. CASE TimerProc
  BY <1>3, TimerProcInv, Zenon
<1>4. CASE \E c \in Comp : ThreadRuns(c) \/ SetTimer(c)
  BY <1>4, ThreadRunsInv, SetTimerInv, Zenon
<1>5. CASE \E t \in Timer : CancelTimer(t)
  BY <1>5, CancelTimerInv, Zenon
<1>6. CASE UNCHANGED dockerVars
  BY <1>6, TimersKept, ComponentsKept, Zenon DEF DockerInv, dockerVars, mainVars
<1> QED
  BY <1>1, <1>2, <1>3, <1>4, <1>5, <1>6, Zenon DEF DockerNext

\* The invariant gives the properties
LEMMA DockerInvOrderly ==
  ASSUME Sizes, DockerInv
  PROVE  DockerOrderly
<1> USE DEF DockerInv
<1>1. DockerTypeOK
  BY Zenon DEF DockerTypeOK, MainInv, MainType, TimerInv, Started
<1>2. RunsOnLiveComponents
  BY Zenon DEF RunsOnLiveComponents, ThreadInv, NoneInvoked, Started
<1>3. DelayedUntilActive
  BY Zenon DEF DelayedUntilActive, ThreadInv
<1> QED
  BY <1>1, <1>2, <1>3, Zenon DEF DockerOrderly, TimerInv

\* CDocker, whatever the components, those of them with delayed threads, and
\* the timers: no thread runs beside a component that is torn down (Halt),
\* delayed threads wait for all components (ThreadDelayRun), and a timer that
\* was cancelled, swept by CancelTimers or due after Exit is not called, but
\* for the calls the code cannot reach any more.
THEOREM DockerIsOrderly == DockerSpec => []DockerOrderly
<1> USE DockerAssumption DEF Sizes
<1>1. DockerInit => DockerInv
  BY DockerInitInv, Zenon
<1>2. DockerInv /\ [DockerNext]_dockerVars => DockerInv'
  BY DockerNextInv, Zenon
<1>3. DockerInv => DockerOrderly
  BY DockerInvOrderly, Zenon
<1> QED
  BY <1>1, <1>2, <1>3, PTL DEF DockerSpec

(***************************************************************************)
(* CEventProc                                                              *)
(***************************************************************************)
\* A sequence of event numbers that grows
Increasing(q) == \A i, j \in 1..Len(q) : i < j => q[i] < q[j]

\* A later event at the end
LEMMA AppendIncreasing ==
  ASSUME NEW C \in SUBSET Nat, NEW q \in Seq(C), Increasing(q), NEW x \in C,
         \A e \in Range(q) : e < x
  PROVE  /\ Append(q, x) \in Seq(C) /\ Increasing(Append(q, x))
         /\ Range(Append(q, x)) = Range(q) \cup {x}
<1>1. /\ Append(q, x) \in Seq(C) /\ Len(Append(q, x)) = Len(q) + 1
      /\ \A i \in 1..Len(q) : Append(q, x)[i] = q[i]
      /\ Append(q, x)[Len(q) + 1] = x
      /\ Len(q) \in Nat /\ DOMAIN q = 1..Len(q) /\ DOMAIN Append(q, x) = 1..(Len(q) + 1)
  BY SeqAppend, SeqFunction
<1>2. \A i \in 1..Len(q) : q[i] \in C /\ q[i] < x
  BY <1>1, SeqElement, Zenon DEF Range
<1>3. Increasing(Append(q, x))
  BY <1>1, <1>2 DEF Increasing
<1>4. Range(Append(q, x)) = Range(q) \cup {x}
  BY <1>1 DEF Range
<1> QED
  BY <1>1, <1>3, <1>4, Zenon

\* The first event of a sequence is the least
LEMMA TailIncreasing ==
  ASSUME NEW C \in SUBSET Nat, NEW q \in Seq(C), Increasing(q), q # <<>>
  PROVE  /\ Head(q) \in Range(q) /\ Head(q) \in C
         /\ Tail(q) \in Seq(C) /\ Increasing(Tail(q))
         /\ Range(Tail(q)) = Range(q) \ {Head(q)}
         /\ \A e \in Range(Tail(q)) : Head(q) < e
<1>1. /\ Tail(q) \in Seq(C) /\ Len(Tail(q)) = Len(q) - 1
      /\ \A i \in 1..(Len(q) - 1) : Tail(q)[i] = q[i + 1]
      /\ Len(q) \in Nat \ {0} /\ DOMAIN q = 1..Len(q) /\ DOMAIN Tail(q) = 1..(Len(q) - 1)
      /\ Head(q) = q[1]
  BY SeqHeadTail, SeqFunction, SeqEmpty
<1>2. \A i \in 1..Len(q) : q[i] \in C /\ q[i] \in Nat
  BY <1>1, SeqElement, Zenon
<1>3. \A i \in 2..Len(q) : q[1] < q[i] /\ Tail(q)[i - 1] = q[i] /\ i - 1 \in 1..(Len(q) - 1)
  BY <1>1 DEF Increasing
<1>4. Increasing(Tail(q))
  BY <1>1, <1>2 DEF Increasing
<1>5. \A e \in Range(Tail(q)) : e \in Range(q) /\ Head(q) < e /\ e # Head(q)
  <2> SUFFICES ASSUME NEW i \in 1..(Len(q) - 1)
               PROVE  Tail(q)[i] \in Range(q) /\ q[1] < Tail(q)[i] /\ Tail(q)[i] # q[1]
    BY <1>1, Zenon DEF Range
  <2>1. i + 1 \in 2..Len(q) /\ i + 1 \in 1..Len(q) /\ Tail(q)[i] = q[i + 1]
    BY <1>1
  <2>2. q[1] < q[i + 1] /\ q[1] \in Nat /\ q[i + 1] \in Nat
    BY <1>1, <1>2, <1>3, <2>1
  <2> QED
    BY <1>1, <2>1, <2>2 DEF Range
<1>6. \A e \in Range(q) \ {Head(q)} : e \in Range(Tail(q))
  <2> SUFFICES ASSUME NEW i \in 1..Len(q), q[i] # q[1]
               PROVE  q[i] \in Range(Tail(q))
    BY <1>1, Zenon DEF Range
  <2>1. i \in 2..Len(q)
    BY <1>1
  <2> QED
    BY <1>1, <1>3, <2>1, Zenon DEF Range
<1>7. Range(Tail(q)) = Range(q) \ {Head(q)}
  BY <1>5, <1>6, Zenon
<1>8. Head(q) \in Range(q) /\ Head(q) \in C
  BY <1>1, <1>2 DEF Range
<1> QED
  BY <1>1, <1>4, <1>5, <1>7, <1>8, Zenon

\* Such a sequence has as many elements as its length says
LEMMA IncreasingLength ==
  ASSUME NEW C \in SUBSET Nat, NEW q \in Seq(C), Increasing(q)
  PROVE  IsFiniteSet(Range(q)) /\ Cardinality(Range(q)) = Len(q)
<1>1. Len(q) \in Nat /\ q \in [1..Len(q) -> C] /\ DOMAIN q = 1..Len(q)
  BY SeqFunction, Zenon
<1>2. q \in [1..Len(q) -> Range(q)]
  BY <1>1, Zenon DEF Range
<1>3. \A i, j \in 1..Len(q) : q[i] = q[j] => i = j
  <2> SUFFICES ASSUME NEW i \in 1..Len(q), NEW j \in 1..Len(q), i < j
               PROVE  q[i] # q[j]
    BY <1>1
  <2>1. q[i] < q[j] /\ q[i] \in Nat /\ q[j] \in Nat
    BY <1>1, Zenon DEF Increasing
  <2> QED
    BY <2>1
<1>4. q \in Bijection(1..Len(q), Range(q))
  BY <1>1, <1>2, <1>3, Zenon DEF Bijection, Injection, IsInjective, Surjection, Range
<1>5. ExistsBijection(1..Len(q), Range(q))
  BY <1>4, Zenon DEF ExistsBijection
<1>6. IsFiniteSet(1..Len(q)) /\ Cardinality(1..Len(q)) = IF 1 > Len(q) THEN 0 ELSE Len(q) - 1 + 1
  BY <1>1, FS_Interval
<1>7. Cardinality(1..Len(q)) = Len(q)
  BY <1>1, <1>6
<1> QED
  BY <1>5, <1>6, <1>7, FS_Bijection, Zenon

\* The events: those handled, then those queued, in the order of the posts,
\* and those freed are all that were posted, and none is in two places
Split ==
  /\ begun \in Seq(1..MaxPosts) /\ Increasing(begun)
  /\ que \in Seq(1..MaxPosts) /\ Increasing(que)
  /\ \A e \in Range(begun), f \in Range(que) : e < f
  /\ posted \in 0..MaxPosts
  /\ Range(begun) \cup Range(que) \cup dropped = 1..posted
  /\ dropped \cap Range(que) = {} /\ dropped \cap Range(begun) = {}

\* The inductive invariant
EventInv ==
  /\ EventTypeOK /\ Split /\ failures \in Nat
  /\ owner = "halted" => \A t \in EventThread : thread[t] = "ended"
  /\ owner = "invoked" /\ invokes = 1 /\ failures = 0 => dropped \subseteq 1..before

\* CEventQueue::Reset and Interrupt free what is queued
LEMMA FreeSplit ==
  ASSUME Split, que' = <<>>, dropped' = dropped \cup Range(que), UNCHANGED <<begun, posted>>,
         MaxPosts \in Nat
  PROVE  Split' /\ que' \in Seq(1..MaxPosts)
<1>1. que' \in Seq(1..MaxPosts) /\ Len(que') = 0 /\ Range(que') = {}
  BY DEF Range
<1>2. \A e \in Range(begun), f \in Range(que) : e # f
  <2>1. \A e \in Range(begun) : e \in Nat
    BY DEF Split
  <2>2. \A f \in Range(que) : f \in Nat
    BY DEF Split
  <2> QED
    BY <2>1, <2>2 DEF Split
<1>3. Increasing(que')
  BY <1>1 DEF Increasing
<1> QED
  BY <1>1, <1>2, <1>3, Zenon DEF Split

\* A posted event is newer than all that are queued or begun
LEMMA PostEventInv ==
  ASSUME MaxPosts \in Nat, EventInv, PostEvent
  PROVE  EventInv'
<1> DEFINE x == posted + 1
<1>1. x \in 1..MaxPosts /\ posted' = x /\ que' = Append(que, x)
  BY DEF PostEvent, EventInv, Split
<1>2. \A e \in Range(que) : e < x
  BY DEF EventInv, Split
<1>3. /\ que' \in Seq(1..MaxPosts) /\ Increasing(que')
      /\ Range(que') = Range(que) \cup {x}
  <2>1. 1..MaxPosts \in SUBSET Nat /\ que \in Seq(1..MaxPosts) /\ Increasing(que)
    BY DEF EventInv, Split
  <2> HIDE DEF x
  <2> QED
    BY <1>1, <1>2, <2>1, AppendIncreasing, Zenon
<1>4. UNCHANGED <<fAbort, handling, owner, begun, dropped, failures, before, invokes>>
  BY Zenon DEF PostEvent
<1>5. Split'
  <2>1. 1..posted' = 1..posted \cup {x} /\ posted' \in 0..MaxPosts /\ x \notin 1..posted
    BY <1>1 DEF EventInv, Split
  <2>2. \A e \in Range(begun) : e < x
    BY DEF EventInv, Split
  <2> QED
    BY <1>3, <1>4, <2>1, <2>2, Zenon DEF EventInv, Split
<1>6. /\ thread' \in [EventThread -> {"fetch", "asleep", "handle", "ended"}]
      /\ \A t \in EventThread : thread'[t] # thread[t] => thread[t] = "asleep" /\ thread'[t] = "fetch"
  <2>1. thread \in [EventThread -> {"fetch", "asleep", "handle", "ended"}]
    BY Zenon DEF EventInv, EventTypeOK
  <2>2. thread' = thread \/ \E t \in EventThread : thread[t] = "asleep" /\ thread' = [thread EXCEPT ![t] = "fetch"]
    BY Zenon DEF PostEvent, EventNotifyOne
  <2>3. CASE thread' = thread
    BY <2>1, <2>3, Zenon
  <2>4. ASSUME NEW t \in EventThread, thread[t] = "asleep", thread' = [thread EXCEPT ![t] = "fetch"]
        PROVE  /\ thread' \in [EventThread -> {"fetch", "asleep", "handle", "ended"}]
               /\ \A u \in EventThread : thread'[u] # thread[u] => thread[u] = "asleep" /\ thread'[u] = "fetch"
    BY <2>1, <2>4, Zenon
  <2> QED
    BY <2>2, <2>3, <2>4, Zenon
<1> QED
  BY <1>3, <1>4, <1>5, <1>6, Zenon DEF EventInv, EventTypeOK

\* An invocation drops what was queued before it
LEMMA HandleInvokeInv ==
  ASSUME MaxPosts \in Nat, EventInv, HandleInvoke
  PROVE  EventInv'
<1>1. Split' /\ que' \in Seq(1..MaxPosts)
  BY FreeSplit, Zenon DEF EventInv, HandleInvoke, Range
<1>2. dropped' \subseteq 1..posted
  BY <1>1, Zenon DEF Split, HandleInvoke
<1> QED
  BY <1>1, <1>2, Zenon DEF EventInv, EventTypeOK, HandleInvoke

\* A halt drops what is queued
LEMMA InterruptInv ==
  ASSUME MaxPosts \in Nat, EventInv, Interrupt
  PROVE  EventInv'
<1>1. Split' /\ que' \in Seq(1..MaxPosts)
  BY FreeSplit, Zenon DEF EventInv, Interrupt, Range
<1> QED
  BY <1>1, Zenon DEF EventInv, EventTypeOK, Interrupt, EventNotifyAll

\* A handler that fails resets the queue and drops what it holds
LEMMA HandleFailedInv ==
  ASSUME MaxPosts \in Nat, EventInv, NEW t \in EventThread, HandleFailed(t)
  PROVE  EventInv'
<1>1. Split' /\ que' \in Seq(1..MaxPosts)
  BY FreeSplit, Zenon DEF EventInv, HandleFailed, Range
<1>2. failures' \in Nat /\ failures' # 0
  BY DEF EventInv, HandleFailed
<1>3. EventTypeOK'
  <2>1. 0 \in 0..MaxPosts
    OBVIOUS
  <2> QED
    BY <1>1, <2>1, Zenon DEF EventInv, EventTypeOK, HandleFailed
<1> QED
  BY <1>1, <1>2, <1>3, Zenon DEF EventInv, EventTypeOK, HandleFailed

\* The threads move and the queue stays
LEMMA ThreadsInv ==
  ASSUME MaxPosts \in Nat, EventInv,
         Halted \/ \E t \in EventThread : Spurious(t) \/ Handled(t)
  PROVE  EventInv'
<1>1. UNCHANGED <<que, begun, dropped, posted, failures, before, invokes, fAbort>>
  BY Zenon DEF Halted, Spurious, Handled, ghosts
<1>2. Split'
  BY <1>1, Zenon DEF EventInv, Split
<1>3. CASE Halted
  BY <1>1, <1>2, <1>3, Zenon DEF EventInv, EventTypeOK, Halted
<1>4. ASSUME NEW t \in EventThread, Spurious(t) \/ Handled(t)
      PROVE  EventInv'
  <2>1. 0 \in 0..MaxPosts
    OBVIOUS
  <2>2. EventTypeOK'
    BY <1>1, <1>4, <2>1, ZenonT(30) DEF EventInv, EventTypeOK, Spurious, Handled
  <2> QED
    BY <1>1, <1>2, <1>4, <2>2, Zenon DEF EventInv, EventTypeOK, Spurious, Handled
<1> QED
  BY <1>3, <1>4, Zenon

\* A thread takes the oldest event, which is newer than all begun ones
LEMMA FetchInv ==
  ASSUME MaxPosts \in Nat, EventInv, NEW t \in EventThread, Fetch(t)
  PROVE  EventInv'
<1>1. UNCHANGED <<fAbort, owner, posted, dropped, failures, before, invokes>> /\ thread[t] = "fetch"
  BY Zenon DEF Fetch
<1>2. CASE fAbort \/ que = <<>>
  <2>1. /\ UNCHANGED <<que, handling, begun>>
        /\ thread' \in {[thread EXCEPT ![t] = "ended"], [thread EXCEPT ![t] = "asleep"]}
    BY <1>2, Zenon DEF Fetch
  <2>2. Split'
    BY <1>1, <2>1, Zenon DEF EventInv, Split
  <2> QED
    BY <1>1, <2>1, <2>2, Zenon DEF EventInv, EventTypeOK
<1>3. CASE ~fAbort /\ que # <<>>
  <2>1. /\ thread' = [thread EXCEPT ![t] = "handle"]
        /\ handling' = [handling EXCEPT ![t] = Head(que)]
        /\ begun' = Append(begun, Head(que)) /\ que' = Tail(que)
    BY <1>3, Zenon DEF Fetch
  <2>2. /\ Head(que) \in Range(que) /\ Head(que) \in 1..MaxPosts
        /\ que' \in Seq(1..MaxPosts) /\ Increasing(que')
        /\ Range(que') = Range(que) \ {Head(que)}
        /\ \A e \in Range(que') : Head(que) < e
    <3>1. 1..MaxPosts \in SUBSET Nat /\ que \in Seq(1..MaxPosts) /\ Increasing(que)
      BY DEF EventInv, Split
    <3> QED
      BY <1>3, <2>1, <3>1, TailIncreasing, Zenon
  <2>3. /\ begun' \in Seq(1..MaxPosts) /\ Increasing(begun')
        /\ Range(begun') = Range(begun) \cup {Head(que)}
    <3>1. 1..MaxPosts \in SUBSET Nat /\ begun \in Seq(1..MaxPosts) /\ Increasing(begun)
      BY DEF EventInv, Split
    <3>2. \A e \in Range(begun) : e < Head(que)
      BY <2>2, Zenon DEF EventInv, Split
    <3> QED
      BY <2>1, <2>2, <3>1, <3>2, AppendIncreasing, Zenon
  <2>4. Split'
    BY <1>1, <2>2, <2>3, Zenon DEF EventInv, Split
  <2>5. EventTypeOK'
    BY <1>1, <2>1, <2>2 DEF EventInv, EventTypeOK
  <2> QED
    BY <1>1, <2>1, <2>4, <2>5, Zenon DEF EventInv, EventTypeOK
<1> QED
  BY <1>2, <1>3, Zenon

\* Every step of the event queue keeps the invariant
LEMMA EventNextInv ==
  ASSUME MaxPosts \in Nat, EventInv, [EventNext]_eventVars
  PROVE  EventInv'
<1>1. CASE EventNext
  BY <1>1, PostEventInv, HandleInvokeInv, InterruptInv, HandleFailedInv, ThreadsInv, FetchInv, Zenon
     DEF EventNext
<1>2. CASE UNCHANGED eventVars
  BY <1>2, Zenon DEF eventVars, ghosts, EventInv, Split, EventTypeOK
<1> QED
  BY <1>1, <1>2, Zenon

\* The events' places are disjoint, so their numbers add up
LEMMA EventInvOrder ==
  ASSUME MaxPosts \in Nat, EventInv
  PROVE  HandledInOrder
<1> DEFINE B == Range(begun)  Q == Range(que)
<1>1. /\ IsFiniteSet(B) /\ Cardinality(B) = Len(begun)
      /\ IsFiniteSet(Q) /\ Cardinality(Q) = Len(que)
  BY IncreasingLength DEF EventInv, Split
<1>2. B \cap Q = {}
  <2>1. \A e \in B \cap Q : e < e /\ e \in Nat
    BY DEF EventInv, Split
  <2> QED
    BY <2>1
<1>3. IsFiniteSet(1..posted) /\ Cardinality(1..posted) = posted
  <2>1. posted \in Nat
    BY DEF EventInv, Split
  <2> QED
    BY <2>1, FS_Interval
<1>4. B \cup Q \cup dropped = 1..posted /\ dropped \cap (B \cup Q) = {} /\ IsFiniteSet(dropped)
  <2>1. B \cup Q \cup dropped = 1..posted /\ dropped \cap (B \cup Q) = {}
    BY Zenon DEF EventInv, Split
  <2>2. dropped \subseteq 1..posted
    BY <2>1, Zenon
  <2> QED
    BY <1>3, <2>1, <2>2, FS_Subset, Zenon
<1>5. IsFiniteSet(B \cup Q) /\ Cardinality(B \cup Q) = Len(begun) + Len(que)
  <2>1. IsFiniteSet(B \cup Q) /\ Cardinality(B \cup Q) = Cardinality(B) + Cardinality(Q)
    BY <1>1, <1>2, DisjointUnion, Zenon
  <2> QED
    BY <1>1, <2>1, Zenon
<1>6. Cardinality((B \cup Q) \cup dropped) = Len(begun) + Len(que) + Cardinality(dropped)
  BY <1>4, <1>5, DisjointUnion, Zenon
<1>7. Len(que) + Len(begun) + Cardinality(dropped) = posted
  <2>1. Len(que) \in Nat /\ Len(begun) \in Nat /\ Cardinality(dropped) \in Nat
    BY <1>1, <1>4, FS_CardinalityType, Zenon
  <2>2. posted = Len(begun) + Len(que) + Cardinality(dropped)
    BY <1>3, <1>4, <1>6, Zenon
  <2> QED
    BY <2>1, <2>2
<1>8. 1..posted = Range(que) \cup Range(begun) \cup dropped
  BY <1>4, Zenon DEF Range
<1>9. \A i, j \in 1..Len(begun) : i < j => begun[i] < begun[j]
  BY Zenon DEF EventInv, Split, Increasing
<1> QED
  BY <1>7, <1>8, <1>9, Zenon DEF HandledInOrder, EventInv, Split, Increasing

\* CEventProc loses no event and handles none twice, in the order of the posts,
\* whatever the threads, the posts and the handlers that fail: an event freed
\* was queued before HandleInvoke, or when a handler failed or HandleHalt came.
THEOREM EventsInOrder == EventSpec => []HandledInOrder
<1> USE EventAssumption
<1>1. EventInit => EventInv
  <2> SUFFICES ASSUME EventInit PROVE EventInv
    BY Zenon
  <2>1. Range(que) = {} /\ Range(begun) = {} /\ Len(que) = 0 /\ Len(begun) = 0 /\ 1..posted = {}
    BY DEF EventInit, Range
  <2>2. Split
    BY <2>1 DEF EventInit, Split, Increasing
  <2>3. 0 \in 0..MaxPosts
    OBVIOUS
  <2>4. EventTypeOK
    <3>1. que \in Seq(1..MaxPosts)
      BY DEF EventInit
    <3> QED
      BY <2>3, <3>1, Zenon DEF EventInit, EventTypeOK
  <2> QED
    BY <2>2, <2>4, Zenon DEF EventInit, EventInv
<1>2. EventInv /\ [EventNext]_eventVars => EventInv'
  BY EventNextInv, Zenon
<1>3. EventInv => HandledInOrder
  BY EventInvOrder, Zenon DEF EventInv
<1> QED
  BY <1>1, <1>2, <1>3, PTL DEF EventSpec
=============================================================================
