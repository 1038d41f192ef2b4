------------------------- MODULE DurableLeaseProofs -------------------------
(***************************************************************************)
(* Proofs about DurableLease, for any number of processes, entries and     *)
(* observations: that the lock excludes, and that without symbolic links   *)
(* the processes implement Embodiment.                                     *)
(***************************************************************************)
EXTENDS DurableLease, TLAPS

NoLinks == \A e \in Entry : LinkAtStart[e] = e

-----------------------------------------------------------------------------
(* The invariant.                                                          *)

\* A lease is the lock on the key it was taken with ...
LeaseIsLock == \A p \in Proc : Leased(p) => flock[lockKey[p]] = p

\* ... and a process has no other lock.
LockIsLease ==
  \A e \in Entry, p \in Proc :
    flock[e] = p => Leased(p) /\ lockKey[p] = e

\* Without symbolic links every process locks the entry it was given.
KeysArePaths ==
  /\ \A e \in Entry : link[e] = e
  /\ \A p \in Proc : lockKey[p] = path[p]

\* A process that has hydrated knows all there is in its snapshot.
Absorbed ==
  \A p \in Proc :
    pc[p] \in {"live", "pending"} => file[path[p]] \subseteq mem[p]

LockInv == TypeOK /\ LeaseIsLock /\ LockIsLease /\ HolderIsOnRecord

DataInv == KeysArePaths /\ Absorbed /\ PendingWriteIsOwn

-----------------------------------------------------------------------------
(* The locks, whatever the links.                                          *)

\* Every step keeps the types.
LEMMA TypeStep == ASSUME TypeOK, [Next]_vars PROVE TypeOK'
<1> USE DEF TypeOK, ProcState, Goto
<1>1. ASSUME NEW p \in Proc, NEW e \in Entry, Start(p, e) PROVE TypeOK'
  BY <1>1 DEF Start
<1>2. ASSUME NEW p \in Proc, Step(p), ~\E e \in Entry : Start(p, e)
      PROVE  TypeOK'
  <2>1. CASE Lock(p)
    BY <2>1 DEF Lock
  <2>2. CASE Refuse(p)
    BY <2>2 DEF Refuse
  <2>3. CASE Mark(p)
    BY <2>3 DEF Mark
  <2>4. CASE MarkFails(p)
    BY <2>4 DEF MarkFails, Unlocked
  <2>5. CASE Hydrate(p)
    BY <2>5 DEF Hydrate
  <2>6. ASSUME NEW f \in Fact, Observe(p, f) PROVE TypeOK'
    BY <2>6 DEF Observe
  <2>7. CASE Write(p)
    BY <2>7 DEF Write
  <2>8. CASE Rename(p)
    BY <2>8 DEF Rename
  <2>9. CASE Release(p)
    BY <2>9 DEF Release, Unlocked
  <2>10. CASE Crash(p)
    BY <2>10 DEF Crash, Unlocked
  <2> QED
    BY <1>2, <2>1, <2>2, <2>3, <2>4, <2>5, <2>6, <2>7, <2>8, <2>9, <2>10
       DEF Step
<1>3. CASE UNCHANGED vars
  BY <1>3 DEF vars
<1> QED BY <1>1, <1>2, <1>3 DEF Next

\* A lock is taken when it is free, and goes with its process.
LEMMA LockStep ==
  ASSUME TypeOK, LeaseIsLock, LockIsLease, [Next]_vars
  PROVE  (LeaseIsLock /\ LockIsLease)'
<1> USE NoProcAssumption DEF TypeOK, Goto, Leased, LeaseIsLock, LockIsLease
<1>1. ASSUME NEW p \in Proc, NEW e \in Entry, Start(p, e)
      PROVE  (LeaseIsLock /\ LockIsLease)'
  BY <1>1 DEF Start
<1>2. ASSUME NEW p \in Proc, Step(p), ~\E e \in Entry : Start(p, e)
      PROVE  (LeaseIsLock /\ LockIsLease)'
  <2>1. CASE Lock(p)
    BY <2>1 DEF Lock
  <2>2. CASE Refuse(p)
    BY <2>2 DEF Refuse
  <2>3. CASE Mark(p)
    BY <2>3 DEF Mark
  <2>4. CASE MarkFails(p)
    BY <2>4 DEF MarkFails, Unlocked
  <2>5. CASE Hydrate(p)
    BY <2>5 DEF Hydrate
  <2>6. ASSUME NEW f \in Fact, Observe(p, f)
       PROVE  (LeaseIsLock /\ LockIsLease)'
    BY <2>6 DEF Observe
  <2>7. CASE Write(p)
    BY <2>7 DEF Write
  <2>8. CASE Rename(p)
    BY <2>8 DEF Rename
  <2>9. CASE Release(p)
    BY <2>9 DEF Release, Unlocked
  <2>10. CASE Crash(p)
    BY <2>10 DEF Crash, Unlocked
  <2> QED
    BY <1>2, <2>1, <2>2, <2>3, <2>4, <2>5, <2>6, <2>7, <2>8, <2>9, <2>10
       DEF Step
<1>3. CASE UNCHANGED vars
  BY <1>3 DEF vars
<1> QED BY <1>1, <1>2, <1>3 DEF Next

\* Only the holder of a lock writes the record beside it.
LEMMA RecordStep ==
  ASSUME LockInv, [Next]_vars
  PROVE  HolderIsOnRecord'
<1> USE NoProcAssumption
    DEF LockInv, TypeOK, Goto, Leased, LeaseIsLock, HolderIsOnRecord
<1>1. ASSUME NEW p \in Proc, NEW e \in Entry, Start(p, e)
      PROVE  HolderIsOnRecord'
  BY <1>1 DEF Start
<1>2. ASSUME NEW p \in Proc, Step(p), ~\E e \in Entry : Start(p, e)
      PROVE  HolderIsOnRecord'
  <2>1. CASE Lock(p)
    BY <2>1 DEF Lock
  <2>2. CASE Refuse(p)
    BY <2>2 DEF Refuse
  <2>3. CASE Mark(p)
    BY <2>3 DEF Mark
  <2>4. CASE MarkFails(p)
    BY <2>4 DEF MarkFails, Unlocked
  <2>5. CASE Hydrate(p)
    BY <2>5 DEF Hydrate
  <2>6. ASSUME NEW f \in Fact, Observe(p, f)
       PROVE  HolderIsOnRecord'
    BY <2>6 DEF Observe
  <2>7. CASE Write(p)
    BY <2>7 DEF Write
  <2>8. CASE Rename(p)
    BY <2>8 DEF Rename
  <2>9. CASE Release(p)
    BY <2>9 DEF Release, Unlocked
  <2>10. CASE Crash(p)
    BY <2>10 DEF Crash, Unlocked
  <2> QED
    BY <1>2, <2>1, <2>2, <2>3, <2>4, <2>5, <2>6, <2>7, <2>8, <2>9, <2>10
       DEF Step
<1>3. CASE UNCHANGED vars
  BY <1>3 DEF vars
<1> QED BY <1>1, <1>2, <1>3 DEF Next

\* The locks, and the records beside them, are right in every reachable state.
THEOREM LocksHold == Spec => []LockInv
<1>1. Init => LockInv
  BY NoProcAssumption, LinkAssumption
     DEF Init, LockInv, TypeOK, ProcState, LeaseIsLock, LockIsLease, Leased,
         HolderIsOnRecord
<1>2. LockInv /\ [Next]_vars => LockInv'
  BY TypeStep, LockStep, RecordStep DEF LockInv
<1> QED BY <1>1, <1>2, PTL DEF Spec

\* Every reachable state has the types that TypeOK states.
THEOREM TypeCorrect == Spec => []TypeOK
BY LocksHold, PTL DEF LockInv

\* While a process has the lease the lock file names it as the owner.
THEOREM OwnerIsOnRecord == Spec => []HolderIsOnRecord
BY LocksHold, PTL DEF LockInv

-----------------------------------------------------------------------------
(* The snapshots, without symbolic links.                                  *)

\* Only the owner of a snapshot writes it, and it has read it first.
LEMMA DataStep ==
  ASSUME LockInv, LockInv', DataInv, [Next]_vars
  PROVE  DataInv'
<1> USE NoProcAssumption
    DEF LockInv, TypeOK, Goto, Leased, LeaseIsLock, DataInv, KeysArePaths,
        Absorbed, PendingWriteIsOwn
<1>1. ASSUME NEW p \in Proc, NEW e \in Entry, Start(p, e)
      PROVE  DataInv'
  BY <1>1 DEF Start
<1>2. ASSUME NEW p \in Proc, Step(p), ~\E e \in Entry : Start(p, e)
      PROVE  DataInv'
  <2>1. CASE Lock(p)
    BY <2>1 DEF Lock
  <2>2. CASE Refuse(p)
    BY <2>2 DEF Refuse
  <2>3. CASE Mark(p)
    BY <2>3 DEF Mark
  <2>4. CASE MarkFails(p)
    BY <2>4 DEF MarkFails, Unlocked
  <2>5. CASE Hydrate(p)
    BY <2>5 DEF Hydrate
  <2>6. ASSUME NEW f \in Fact, Observe(p, f)
       PROVE  DataInv'
    BY <2>6 DEF Observe
  <2>7. CASE Write(p)
    BY <2>7 DEF Write
  <2>8. CASE Rename(p)
    BY <2>8 DEF Rename
  <2>9. CASE Release(p)
    BY <2>9 DEF Release, Unlocked
  <2>10. CASE Crash(p)
    BY <2>10 DEF Crash, Unlocked
  <2> QED
    BY <1>2, <2>1, <2>2, <2>3, <2>4, <2>5, <2>6, <2>7, <2>8, <2>9, <2>10
       DEF Step
<1>3. CASE UNCHANGED vars
  BY <1>3 DEF vars
<1> QED BY <1>1, <1>2, <1>3 DEF Next

\* What is in memory, pending and on disk agrees in every reachable state.
THEOREM DataHold == NoLinks /\ Spec => []DataInv
<1>1. NoLinks /\ Init => DataInv
  BY LinkAssumption
     DEF NoLinks, Init, DataInv, KeysArePaths, Absorbed, PendingWriteIsOwn
<1>2. LockInv /\ LockInv' /\ DataInv /\ [Next]_vars => DataInv'
  BY DataStep
<1> QED BY <1>1, <1>2, LocksHold, PTL DEF Spec

\* A pending snapshot is the process's own and drops nothing of the old one.
THEOREM WritesAreOwn == NoLinks /\ Spec => []PendingWriteIsOwn
BY DataHold, PTL DEF DataInv

-----------------------------------------------------------------------------
(* The refinement.                                                         *)

\* Losing its lock, a process vacates its world, if it has one.
LEMMA UnlockedVacates ==
  ASSUME LockInv, NEW p \in Proc, Unlocked(p), UNCHANGED file
  PROVE  Embodied!Next \/ UNCHANGED <<flock, file>>
<1> USE DEF LockInv, TypeOK, LeaseIsLock, LockIsLease, Unlocked
<1>1. CASE Leased(p)
  <2>1. flock' = [flock EXCEPT ![lockKey[p]] = NoProc]
    <3>1. \A e \in Entry : flock[e] = p <=> e = lockKey[p]
      BY <1>1
    <3>2. /\ flock' = [e \in Entry |-> IF e = lockKey[p] THEN NoProc
                                                       ELSE flock[e]]
          /\ flock \in [Entry -> Proc \union {NoProc}]
      BY <3>1
    <3> QED BY <3>2, Zenon
  <2>2. Embodied!Vacate(p, lockKey[p])
    BY <1>1, <2>1 DEF Embodied!Vacate
  <2> QED BY <2>2 DEF Embodied!Next
<1>2. CASE ~Leased(p)
  <2>1. \A e \in Entry : flock[e] # p
    BY <1>2
  <2> QED BY <2>1
<1> QED BY <1>1, <1>2

\* Every step of a process is a step of the abstract worlds or stutters.
LEMMA StepRefines ==
  ASSUME LockInv, DataInv, [Next]_vars
  PROVE  [Embodied!Next]_<<flock, file>>
<1> USE DEF LockInv, TypeOK, Goto
<1>1. ASSUME NEW p \in Proc, NEW e \in Entry, Start(p, e)
      PROVE  UNCHANGED <<flock, file>>
  BY <1>1 DEF Start
<1>2. ASSUME NEW p \in Proc, Step(p), ~\E e \in Entry : Start(p, e)
      PROVE  Embodied!Next \/ UNCHANGED <<flock, file>>
  <2>1. CASE Lock(p)
    <3>1. Embodied!Acquire(p, lockKey[p])
      BY <2>1 DEF Lock, Embodied!Acquire
    <3> QED BY <3>1 DEF Embodied!Next
  <2>2. CASE Rename(p)
    <3>1. /\ flock[path[p]] = p
          /\ file[path[p]] \subseteq tmp[path[p]]
          /\ tmp[path[p]] \in SUBSET Fact
      BY <2>2 DEF Rename, LeaseIsLock, Leased, DataInv, KeysArePaths,
                  PendingWriteIsOwn
    <3>2. file' = [file EXCEPT ![path[p]] = tmp[path[p]]] /\ UNCHANGED flock
      BY <2>2 DEF Rename
    <3>3. Embodied!Commit(p, path[p])
      BY <3>1, <3>2 DEF Embodied!Commit
    <3> QED BY <3>3 DEF Embodied!Next
  <2>3. CASE MarkFails(p) \/ Release(p) \/ Crash(p)
    <3>1. Unlocked(p) /\ UNCHANGED file
      BY <2>3 DEF MarkFails, Release, Crash
    <3> QED BY <3>1, UnlockedVacates
  <2>4. CASE \/ Refuse(p) \/ Mark(p) \/ Hydrate(p) \/ Write(p)
             \/ \E f \in Fact : Observe(p, f)
    BY <2>4 DEF Refuse, Mark, Hydrate, Write, Observe
  <2> QED BY <1>2, <2>1, <2>2, <2>3, <2>4 DEF Step
<1>3. CASE UNCHANGED vars
  BY <1>3 DEF vars
<1> QED BY <1>1, <1>2, <1>3 DEF Next

\* Without symbolic links each snapshot is a durable world with one writer,
\* which loses nothing of it.
THEOREM ImplementsEmbodiment == NoLinks /\ Spec => EmbodimentSpec
<1>1. Init => Embodied!Init
  BY DEF Init, Embodied!Init
<1>2. LockInv /\ DataInv /\ [Next]_vars => [Embodied!Next]_<<flock, file>>
  BY StepRefines
<1> QED
  BY <1>1, <1>2, LocksHold, DataHold, PTL
      DEF Spec, EmbodimentSpec, Embodied!Spec
=============================================================================
