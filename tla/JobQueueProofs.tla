--------------------------- MODULE JobQueueProofs ---------------------------
(***************************************************************************)
(* Theorems about JobQueue, for every number of jobs, workers and replicas *)
(* and every bound.                                                        *)
(***************************************************************************)
EXTENDS JobQueue, FiniteSetTheorems, TLAPS

\* The types of the queue's columns and of the workers' locals hold.
THEOREM TypeCorrect == Spec => []TypeOK
<1> USE DEF TypeOK
<1>1. Init => TypeOK
  BY WorkerAssumption, BoundAssumption DEF Init, Status, Final, Place, NoJob
<1>2. TypeOK /\ [Next]_vars => TypeOK'
  <2> SUFFICES ASSUME TypeOK, [Next]_vars PROVE TypeOK'
    OBVIOUS
  <2> USE DEF row, task, budget
  <2>1. ASSUME NEW j \in Job, Enqueue(j) PROVE TypeOK'
    BY <2>1 DEF Enqueue, Status
  <2>2. ASSUME NEW j \in Job, BackoffEnds(j) PROVE TypeOK'
    BY <2>2 DEF BackoffEnds
  <2>3. ASSUME NEW j \in Job, OrphanExpires(j) PROVE TypeOK'
    BY <2>3 DEF OrphanExpires, Expire
  <2>4. ASSUME NEW j \in Job, Overrun(j) PROVE TypeOK'
    BY <2>4, BoundAssumption DEF Overrun, Expire
  <2>5. ASSUME NEW w \in Worker, WorkerStep(w) PROVE TypeOK'
    <3>1. CASE StopAtTop(w) BY <3>1 DEF StopAtTop, Place
    <3>2. CASE LoopTop(w) BY <3>2 DEF LoopTop, reap_stuck, Reapable, Status, Place
    <3>3. CASE Claim(w) BY <3>3 DEF Claim, claim_batch, Status, Place
    <3>4. CASE Wake(w) BY <3>4 DEF Wake, Place
    <3>5. CASE StopIdle(w) BY <3>5 DEF StopIdle, Place
    <3>6. CASE Release(w) BY <3>6 DEF Release, Settle, Held, Status
    <3>7. CASE Begin(w) BY <3>7 DEF Begin, Held, Place
    <3>8. CASE BatchDone(w) BY <3>8 DEF BatchDone, Place
    <3>9. CASE Finish(w)
      BY <3>9 DEF Finish, Verdicts, Settle, DropRunning, Status, Final, Place
    <3> QED BY <2>5, <3>1, <3>2, <3>3, <3>4, <3>5, <3>6, <3>7, <3>8, <3>9 DEF WorkerStep
  <2>6. ASSUME NEW w \in Worker,
               ReapTimer(w) \/ ReapFails(w) \/ ClaimFails(w) \/ FinishFails(w) \/ ReleaseFails(w)
        PROVE TypeOK'
    <3>0. Fault => faults' \in 0..MaxFaults
      BY BoundAssumption DEF Fault
    <3>1. CASE ReapTimer(w) BY <3>1 DEF ReapTimer
    <3>2. CASE ReapFails(w) BY <3>0, <3>2 DEF ReapFails, Place
    <3>3. CASE ClaimFails(w)
      BY <3>0, <3>3 DEF ClaimFails, claim_batch, Status, Place
    <3>4. CASE FinishFails(w)
      BY <3>0, <3>4 DEF FinishFails, DropRunning, Place
    <3>5. CASE ReleaseFails(w)
      BY <3>0, <3>5 DEF ReleaseFails, Held
    <3> QED BY <2>6, <3>1, <3>2, <3>3, <3>4, <3>5
  <2>7. ASSUME NEW r \in Replica, Signal(r) \/ Crash(r) \/ Start(r) PROVE TypeOK'
    <3>1. CASE Signal(r) BY <3>1, BoundAssumption DEF Signal, Tasks
    <3>2. CASE Crash(r) BY <3>2, BoundAssumption DEF Crash, Fault, Tasks, Place
    <3>3. CASE Start(r) BY <3>3 DEF Start, Tasks, Place
    <3> QED BY <2>7, <3>1, <3>2, <3>3
  <2>8. CASE UNCHANGED vars
    BY <2>8 DEF vars
  <2> QED BY <2>1, <2>2, <2>3, <2>4, <2>5, <2>6, <2>7, <2>8 DEF Next
<1> QED BY <1>1, <1>2, PTL DEF Spec

-----------------------------------------------------------------------------
\* What each step does to the copies, the locks and the locals that
\* OwnershipInv speaks of.
THEOREM Ownership == Spec => []OwnershipInv
<1>0. NoWorker \notin Worker
  BY WorkerAssumption
<1> USE <1>0, JobAssumption
        DEF OwnershipInv, PlacesAgree, LocksAgree, HoldersInTime, LockedMeansHeld
<1>1. Init => OwnershipInv
  BY DEF Init, Held, Orphaned, NoJob
<1>2. TypeOK /\ OwnershipInv /\ [Next]_vars => OwnershipInv'
  <2> SUFFICES ASSUME TypeOK, OwnershipInv, [Next]_vars PROVE OwnershipInv'
    OBVIOUS
  <2> USE DEF TypeOK, row, task, budget, Held, Orphaned
  <2>1. ASSUME NEW j \in Job, Enqueue(j) PROVE OwnershipInv'
    BY <2>1 DEF Enqueue
  <2>2. ASSUME NEW j \in Job, BackoffEnds(j) PROVE OwnershipInv'
    BY <2>2 DEF BackoffEnds
  <2>3. ASSUME NEW j \in Job, OrphanExpires(j) PROVE OwnershipInv'
    BY <2>3 DEF OrphanExpires, Expire
  <2>4. ASSUME NEW j \in Job, Overrun(j) PROVE OwnershipInv'
    BY <2>4 DEF Overrun, Expire
  <2>5. ASSUME NEW w \in Worker, WorkerStep(w) PROVE OwnershipInv'
    <3>1. CASE StopAtTop(w) BY <3>1 DEF StopAtTop
    <3>2. CASE LoopTop(w)
      <4>1. CASE w \in reapDue
        <5>1. reap_stuck /\ UNCHANGED <<copy, running, faults, overruns>>
          BY <3>2, <4>1 DEF LoopTop
        <5>2. PlacesAgree'
          BY <3>2, <5>1 DEF LoopTop
        <5>3. LocksAgree'
          BY <5>1 DEF reap_stuck, Reapable
        <5>4. LockedMeansHeld'
          BY <5>1 DEF reap_stuck, Reapable
        <5>5. HoldersInTime'
          BY <5>1 DEF reap_stuck, Reapable
        <5> QED BY <5>2, <5>3, <5>4, <5>5
      <4>2. CASE w \notin reapDue
        <5>1. UNCHANGED <<status, lockedBy, expired, attempts, copy, running, faults, overruns>>
          BY <3>2, <4>2 DEF LoopTop
        <5>2. PlacesAgree'
          BY <3>2, <5>1 DEF LoopTop
        <5>3. LocksAgree' /\ LockedMeansHeld' /\ HoldersInTime'
          BY <5>1
        <5> QED BY <5>2, <5>3
      <4> QED BY <4>1, <4>2
    <3>3. CASE Claim(w)
      <4>1. PICK taken \in NextBatches :
              /\ claim_batch(w, taken)
              /\ copy' = [copy EXCEPT ![w] =
                            [j \in Job |-> IF j \in taken THEN attempts[j] + 1 ELSE 0]]
              /\ pc' = [pc EXCEPT ![w] = IF taken = {} THEN "idle" ELSE "batch"]
        BY <3>3 DEF Claim
      <4>2. /\ \A j \in taken : j \in Job /\ status[j] = "pending" /\ lockedBy[j] = NoWorker
            /\ Held(w) = {} /\ running' = running /\ overruns' = overruns /\ faults' = faults
        BY <3>3 DEF Claim, NextBatches, Claimable
      <4>3. PlacesAgree'
        BY <3>3, <4>1, <4>2 DEF Claim
      <4>4. LocksAgree'
        BY <4>1, <4>2 DEF claim_batch
      <4>5. HoldersInTime'
        BY <4>1, <4>2 DEF claim_batch
      <4>6. LockedMeansHeld'
        BY <4>1, <4>2 DEF claim_batch
      <4> QED BY <4>3, <4>4, <4>5, <4>6
    <3>4. CASE Wake(w) BY <3>4 DEF Wake
    <3>5. CASE StopIdle(w) BY <3>5 DEF StopIdle
    <3>6. CASE Release(w) BY <3>6 DEF Release, Settle
    <3>7. CASE Begin(w) BY <3>7 DEF Begin, NoJob
    <3>8. CASE BatchDone(w) BY <3>8 DEF BatchDone
    <3>9. CASE Finish(w)
      BY <3>9 DEF Finish, Verdicts, Settle, DropRunning, Final, NoJob
    <3> QED BY <2>5, <3>1, <3>2, <3>3, <3>4, <3>5, <3>6, <3>7, <3>8, <3>9 DEF WorkerStep
  <2>6. ASSUME NEW w \in Worker,
               ReapTimer(w) \/ ReapFails(w) \/ ClaimFails(w) \/ FinishFails(w) \/ ReleaseFails(w)
        PROVE OwnershipInv'
    <3>0. Fault => faults' # 0
      BY DEF Fault
    <3>1. CASE ReapTimer(w) BY <3>1 DEF ReapTimer
    <3>2. CASE ReapFails(w) BY <3>0, <3>2 DEF ReapFails
    <3>3. CASE ClaimFails(w)
      <4>1. PICK taken \in NextBatches \cup {{}} : claim_batch(w, taken)
        BY <3>3 DEF ClaimFails
      <4>2. /\ \A j \in taken : j \in Job /\ status[j] = "pending" /\ lockedBy[j] = NoWorker
            /\ Held(w) = {} /\ pc[w] = "claim" /\ pc' = [pc EXCEPT ![w] = "idle"]
            /\ UNCHANGED <<copy, running, overruns>> /\ faults' # 0
        BY <3>0, <3>3 DEF ClaimFails, NextBatches, Claimable
      <4>3. PlacesAgree'
        BY <4>2
      <4>4. LocksAgree'
        BY <4>1, <4>2 DEF claim_batch
      <4>5. HoldersInTime'
        BY <4>1, <4>2 DEF claim_batch
      <4>6. LockedMeansHeld'
        BY <4>2
      <4> QED BY <4>3, <4>4, <4>5, <4>6
    <3>4. CASE FinishFails(w)
      BY <3>0, <3>4 DEF FinishFails, DropRunning, NoJob
    <3>5. CASE ReleaseFails(w)
      BY <3>0, <3>5 DEF ReleaseFails
    <3> QED BY <2>6, <3>1, <3>2, <3>3, <3>4, <3>5
  <2>7. ASSUME NEW r \in Replica, Signal(r) \/ Crash(r) \/ Start(r) PROVE OwnershipInv'
    <3>1. CASE Signal(r) BY <3>1 DEF Signal, Tasks
    <3>2. CASE Crash(r)
      <4>1. faults' # 0
        BY <3>2 DEF Crash, Fault
      <4> QED BY <3>2, <4>1 DEF Crash, Tasks, NoJob
    <3>3. CASE Start(r) BY <3>3 DEF Start, Tasks
    <3> QED BY <2>7, <3>1, <3>2, <3>3
  <2>8. CASE UNCHANGED vars
    BY <2>8 DEF vars
  <2> QED BY <2>1, <2>2, <2>3, <2>4, <2>5, <2>6, <2>7, <2>8 DEF Next
<1> QED BY <1>1, <1>2, TypeCorrect, PTL DEF Spec

\* No job is dispatched twice at once before a batch outlives its lock.
THEOREM Exclusive == Spec => []ExclusiveInTime
<1>1. OwnershipInv => ExclusiveInTime
  <2> SUFFICES ASSUME OwnershipInv, overruns = 0, NEW v \in Worker, NEW w \in Worker,
                      running[v] = running[w], running[v] # NoJob
               PROVE v = w
    BY DEF ExclusiveInTime, NoDoubleProcessing
  <2>1. running[v] \in Held(v) /\ running[w] \in Held(w)
    BY DEF OwnershipInv, PlacesAgree
  <2> QED BY <2>1 DEF OwnershipInv, HoldersInTime
<1> QED BY <1>1, Ownership, PTL

\* Without faults no row in progress is without a worker.
THEOREM NothingStranded == Spec => []LockedMeansHeld
<1>1. OwnershipInv => LockedMeansHeld
  BY DEF OwnershipInv
<1> QED BY <1>1, Ownership, PTL

\* A job that ended stays ended before a batch outlives its lock.
THEOREM LifecycleInTime == Spec => FinalStaysInTime
<1>1. TypeOK /\ OwnershipInv /\ [Next]_vars =>
        [overruns' = 0 => \A j \in Job : status[j] \in Final => status'[j] = status[j]]_vars
  <2> SUFFICES ASSUME TypeOK, OwnershipInv, Next, overruns' = 0,
                      NEW k \in Job, status[k] \in Final
               PROVE status'[k] = status[k]
    OBVIOUS
  <2>1. k \notin Claimable /\ status[k] \notin {"absent", "pending", "in_progress"}
    BY DEF Final, Claimable
  <2>2. overruns = 0 => \A w \in Worker : k \notin Held(w)
    BY <2>1, WorkerAssumption DEF OwnershipInv, LocksAgree, HoldersInTime, Held, TypeOK
  <2> USE DEF TypeOK, row, task, budget
  <2>3. ASSUME NEW j \in Job, Enqueue(j) \/ BackoffEnds(j) \/ OrphanExpires(j) \/ Overrun(j)
        PROVE status'[k] = status[k]
    BY <2>1, <2>3 DEF Enqueue, BackoffEnds, OrphanExpires, Overrun, Expire
  <2>4. ASSUME NEW w \in Worker, WorkerStep(w) PROVE status'[k] = status[k]
    <3>1. CASE LoopTop(w)
      BY <2>1, <3>1 DEF LoopTop, reap_stuck, Reapable
    <3>2. CASE Claim(w)
      BY <2>1, <3>2 DEF Claim, claim_batch, NextBatches
    <3>3. CASE Release(w)
      BY <2>2, <3>3 DEF Release, Settle
    <3>4. CASE Finish(w)
      BY <2>2, <3>4 DEF Finish, Settle, OwnershipInv, PlacesAgree
    <3>5. CASE StopAtTop(w) \/ Wake(w) \/ StopIdle(w) \/ Begin(w) \/ BatchDone(w)
      BY <3>5 DEF StopAtTop, Wake, StopIdle, Begin, BatchDone
    <3> QED BY <2>4, <3>1, <3>2, <3>3, <3>4, <3>5 DEF WorkerStep
  <2>5. ASSUME NEW w \in Worker,
               ReapTimer(w) \/ ReapFails(w) \/ ClaimFails(w) \/ FinishFails(w) \/ ReleaseFails(w)
        PROVE status'[k] = status[k]
    <3>1. CASE ClaimFails(w)
      BY <2>1, <3>1 DEF ClaimFails, claim_batch, NextBatches
    <3>2. CASE ReapTimer(w) \/ ReapFails(w) \/ FinishFails(w) \/ ReleaseFails(w)
      BY <3>2 DEF ReapTimer, ReapFails, FinishFails, ReleaseFails
    <3> QED BY <2>5, <3>1, <3>2
  <2>6. ASSUME NEW r \in Replica, Signal(r) \/ Crash(r) \/ Start(r)
        PROVE status'[k] = status[k]
    BY <2>6 DEF Signal, Crash, Start
  <2> QED BY <2>3, <2>4, <2>5, <2>6 DEF Next
<1> QED BY <1>1, TypeCorrect, Ownership, PTL DEF Spec, FinalStaysInTime

-----------------------------------------------------------------------------
\* How the set of stale holders of a job may change in one step.
LEMMA StaleStep ==
    ASSUME TypeOK, TypeOK', NEW k \in Job, Cardinality(Stale(k)) <= overruns,
           \/ Stale(k)' \subseteq Stale(k) /\ overruns' = overruns
           \/ /\ overruns' = overruns
              /\ \E w \in Stale(k) : \E v : Stale(k)' \subseteq (Stale(k) \ {w}) \cup {v}
           \/ overruns' = overruns + 1 /\ \E v : Stale(k)' \subseteq Stale(k) \cup {v}
    PROVE  Cardinality(Stale(k)') <= overruns'
<1>1. IsFiniteSet(Stale(k)) /\ Cardinality(Stale(k)) \in Nat
  BY WorkerAssumption, FS_Subset, FS_CardinalityType DEF Stale, Holders
<1>2. \A S : IsFiniteSet(S) /\ Stale(k)' \subseteq S =>
        Cardinality(S) \in Nat /\ Cardinality(Stale(k)') \in Nat /\ Cardinality(Stale(k)') <= Cardinality(S)
  BY FS_Subset, FS_CardinalityType
<1>3. overruns \in Nat /\ overruns' \in Nat
  BY DEF TypeOK
<1>4. CASE Stale(k)' \subseteq Stale(k) /\ overruns' = overruns
  BY <1>1, <1>2, <1>3, <1>4
<1>5. ASSUME overruns' = overruns,
             NEW w \in Stale(k), NEW v, Stale(k)' \subseteq (Stale(k) \ {w}) \cup {v}
      PROVE  Cardinality(Stale(k)') <= overruns'
  <2>1. IsFiniteSet(Stale(k) \ {w}) /\ Cardinality(Stale(k) \ {w}) = Cardinality(Stale(k)) - 1
    BY <1>1, FS_RemoveElement
  <2>2. /\ IsFiniteSet((Stale(k) \ {w}) \cup {v})
        /\ Cardinality((Stale(k) \ {w}) \cup {v}) =
             IF v \in Stale(k) \ {w} THEN Cardinality(Stale(k) \ {w}) ELSE Cardinality(Stale(k) \ {w}) + 1
    BY <2>1, FS_AddElement
  <2> QED BY <1>1, <1>2, <1>3, <1>5, <2>1, <2>2
<1>6. ASSUME overruns' = overruns + 1, NEW v, Stale(k)' \subseteq Stale(k) \cup {v}
      PROVE  Cardinality(Stale(k)') <= overruns'
  <2>1. /\ IsFiniteSet(Stale(k) \cup {v})
        /\ Cardinality(Stale(k) \cup {v}) =
             IF v \in Stale(k) THEN Cardinality(Stale(k)) ELSE Cardinality(Stale(k)) + 1
    BY <1>1, FS_AddElement
  <2> QED BY <1>1, <1>2, <1>3, <1>6, <2>1
<1> QED BY <1>4, <1>5, <1>6

\* No job has more holders without a lock that stands than batches have
\* outlived their lock, and at most one holder with such a lock.
THEOREM Duplicates == Spec => []DuplicatesAccounted
<1> DEFINE Inv == \A k \in Job : Cardinality(Stale(k)) <= overruns
<1>1. Init => Inv
  <2> SUFFICES ASSUME Init, NEW k \in Job PROVE Cardinality(Stale(k)) <= overruns
    OBVIOUS
  <2>1. Stale(k) = {}
    BY DEF Init, Stale, Holders, Held
  <2> QED BY <2>1, FS_EmptySet DEF Init
<1>2. TypeOK /\ TypeOK' /\ OwnershipInv /\ Inv /\ [Next]_vars => Inv'
  <2> SUFFICES ASSUME TypeOK, TypeOK', OwnershipInv, Inv, [Next]_vars, NEW k \in Job
               PROVE  Cardinality(Stale(k)') <= overruns'
    OBVIOUS
  <2>a. Cardinality(Stale(k)) <= overruns
    OBVIOUS
  <2>b. ASSUME Stale(k)' \subseteq Stale(k), overruns' = overruns
        PROVE  Cardinality(Stale(k)') <= overruns'
    BY <2>a, <2>b, StaleStep
  <2>c. ASSUME UNCHANGED <<lockedBy, expired, copy, overruns>>
        PROVE  Cardinality(Stale(k)') <= overruns'
    BY <2>b, <2>c DEF Stale, Holders, Held
  <2>d. ASSUME UNCHANGED <<lockedBy, expired, overruns>>,
               \A w \in Worker : copy'[w][k] = copy[w][k] \/ copy'[w][k] = 0
        PROVE  Cardinality(Stale(k)') <= overruns'
    <3>1. Stale(k)' \subseteq Stale(k)
      BY <2>d DEF Stale, Holders, Held, TypeOK
    <3> QED BY <2>b, <2>d, <3>1
  <2>e. ASSUME NEW w \in Worker, NEW j \in Held(w), NEW outcome, Settle(j, outcome),
               copy' = [copy EXCEPT ![w][j] = 0], overruns' = overruns
        PROVE  Cardinality(Stale(k)') <= overruns'
    <3>1. /\ \A v \in Worker : k \in Held(v)' => k \in Held(v) /\ ~(v = w /\ k = j)
          /\ lockedBy' = [lockedBy EXCEPT ![j] = NoWorker] /\ expired' = expired \ {j}
      BY <2>e DEF Held, Settle, TypeOK
    <3>2. CASE k # j
      <4>1. Stale(k)' \subseteq Stale(k)
        BY <3>1, <3>2 DEF Stale, Holders, TypeOK
      <4> QED BY <2>b, <2>e, <4>1
    <3>3. CASE k = j /\ lockedBy[j] = w /\ j \notin expired
      <4>1. Stale(k)' \subseteq Stale(k)
        BY <3>1, <3>3 DEF Stale, Holders
      <4> QED BY <2>b, <2>e, <4>1
    <3>4. CASE k = j /\ (lockedBy[j] # w \/ j \in expired)
      <4>1. w \in Stale(k)
        BY <2>e, <3>4 DEF Stale, Holders
      <4>2. Stale(k)' \subseteq (Stale(k) \ {w}) \cup {lockedBy[k]}
        BY <3>1, <3>4 DEF Stale, Holders
      <4> QED BY <2>a, <2>e, <4>1, <4>2, StaleStep
    <3> QED BY <3>2, <3>3, <3>4
  <2>f. ASSUME reap_stuck, UNCHANGED <<copy, overruns>>
        PROVE  Cardinality(Stale(k)') <= overruns'
    <3>1. /\ lockedBy'[k] = IF k \in Reapable THEN NoWorker ELSE lockedBy[k]
          /\ expired' = expired \ Reapable /\ (k \in Reapable => k \in expired)
      BY <2>f DEF reap_stuck, Reapable
    <3>2. Stale(k)' \subseteq Stale(k)
      BY <2>f, <3>1 DEF Stale, Holders, Held
    <3> QED BY <2>b, <2>f, <3>2
  <2>g. ASSUME NEW w \in Worker, NEW taken \in NextBatches \cup {{}}, claim_batch(w, taken),
               overruns' = overruns, Held(w) = {},
               \/ copy' = copy
               \/ copy' = [copy EXCEPT ![w] = [j \in Job |-> IF j \in taken THEN attempts[j] + 1 ELSE 0]]
        PROVE  Cardinality(Stale(k)') <= overruns'
    <3>1. k \in taken => status[k] = "pending"
      BY DEF NextBatches, Claimable
    <3>2. k \in taken => lockedBy[k] = NoWorker
      BY <3>1 DEF OwnershipInv, LocksAgree
    <3>3. /\ lockedBy'[k] = IF k \in taken THEN w ELSE lockedBy[k]
          /\ expired' = expired \ taken
      BY <2>g DEF claim_batch
    <3>4. \A v \in Worker : k \in Held(v)' => k \in Held(v) \/ (v = w /\ k \in taken)
      BY <2>g DEF Held, TypeOK
    <3>5. Stale(k)' \subseteq Stale(k)
      BY <3>2, <3>3, <3>4, WorkerAssumption DEF Stale, Holders
    <3> QED BY <2>b, <2>g, <3>5
  <2> USE DEF row, task, budget
  <2>1. ASSUME NEW j \in Job, Enqueue(j) \/ BackoffEnds(j)
        PROVE  Cardinality(Stale(k)') <= overruns'
    BY <2>1, <2>c DEF Enqueue, BackoffEnds
  <2>2. ASSUME NEW j \in Job, OrphanExpires(j) PROVE Cardinality(Stale(k)') <= overruns'
    <3>1. Stale(k)' \subseteq Stale(k)
      BY <2>2 DEF OrphanExpires, Expire, Orphaned, Stale, Holders, Held
    <3> QED BY <2>2, <2>b, <3>1 DEF OrphanExpires
  <2>3. ASSUME NEW j \in Job, Overrun(j) PROVE Cardinality(Stale(k)') <= overruns'
    <3>1. Stale(k)' \subseteq Stale(k) \cup {lockedBy[k]} /\ overruns' = overruns + 1
      BY <2>3 DEF Overrun, Expire, Stale, Holders, Held
    <3> QED BY <2>a, <3>1, StaleStep
  <2>4. ASSUME NEW w \in Worker, WorkerStep(w) PROVE Cardinality(Stale(k)') <= overruns'
    <3>1. CASE LoopTop(w)
      BY <2>c, <2>f, <3>1 DEF LoopTop
    <3>2. CASE Claim(w)
      BY <2>g, <3>2 DEF Claim, OwnershipInv, PlacesAgree
    <3>3. CASE Release(w)
      BY <2>e, <3>3 DEF Release
    <3>4. CASE Finish(w)
      <4>1. running[w] \in Held(w)
        BY <3>4 DEF Finish, OwnershipInv, PlacesAgree
      <4> QED BY <2>e, <3>4, <4>1 DEF Finish, DropRunning
    <3>5. CASE StopAtTop(w) \/ Wake(w) \/ StopIdle(w) \/ Begin(w) \/ BatchDone(w)
      BY <2>c, <3>5 DEF StopAtTop, Wake, StopIdle, Begin, BatchDone
    <3> QED BY <2>4, <3>1, <3>2, <3>3, <3>4, <3>5 DEF WorkerStep
  <2>5. ASSUME NEW w \in Worker,
               ReapTimer(w) \/ ReapFails(w) \/ ClaimFails(w) \/ FinishFails(w) \/ ReleaseFails(w)
        PROVE  Cardinality(Stale(k)') <= overruns'
    <3>1. CASE ClaimFails(w)
      BY <2>g, <3>1 DEF ClaimFails, OwnershipInv, PlacesAgree
    <3>2. CASE ReapTimer(w) \/ ReapFails(w)
      BY <2>c, <3>2 DEF ReapTimer, ReapFails
    <3>3. ASSUME NEW j, copy' = [copy EXCEPT ![w][j] = 0]
          PROVE  \A v \in Worker : copy'[v][k] = copy[v][k] \/ copy'[v][k] = 0
      BY <3>3 DEF TypeOK
    <3>4. CASE FinishFails(w)
      BY <2>d, <3>3, <3>4 DEF FinishFails, DropRunning
    <3>5. CASE ReleaseFails(w)
      BY <2>d, <3>3, <3>5 DEF ReleaseFails
    <3> QED BY <2>5, <3>1, <3>2, <3>4, <3>5
  <2>6. ASSUME NEW r \in Replica, Signal(r) \/ Crash(r) \/ Start(r)
        PROVE  Cardinality(Stale(k)') <= overruns'
    <3>1. CASE Signal(r) \/ Start(r)
      BY <2>c, <3>1 DEF Signal, Start
    <3>2. CASE Crash(r)
      <4>1. \A v \in Worker : copy'[v][k] = copy[v][k] \/ copy'[v][k] = 0
        BY <3>2 DEF Crash
      <4> QED BY <2>d, <3>2, <4>1 DEF Crash
    <3> QED BY <2>6, <3>1, <3>2
  <2>7. CASE UNCHANGED vars
    BY <2>7, <2>c DEF vars
  <2> QED BY <2>1, <2>2, <2>3, <2>4, <2>5, <2>6, <2>7 DEF Next
<1>3. TypeOK /\ Inv => DuplicatesAccounted
  <2> SUFFICES ASSUME TypeOK, Inv, NEW k \in Job PROVE Cardinality(Holders(k)) <= 1 + overruns
    BY DEF DuplicatesAccounted
  <2>1. IsFiniteSet(Stale(k)) /\ Cardinality(Stale(k)) \in Nat
    BY WorkerAssumption, FS_Subset, FS_CardinalityType DEF Stale, Holders
  <2>2. Holders(k) \subseteq Stale(k) \cup {lockedBy[k]}
    BY DEF Stale
  <2>3. /\ IsFiniteSet(Stale(k) \cup {lockedBy[k]})
        /\ Cardinality(Stale(k) \cup {lockedBy[k]}) <= Cardinality(Stale(k)) + 1
    BY <2>1, FS_AddElement
  <2>4. /\ Cardinality(Holders(k)) <= Cardinality(Stale(k) \cup {lockedBy[k]})
        /\ Cardinality(Holders(k)) \in Nat /\ Cardinality(Stale(k) \cup {lockedBy[k]}) \in Nat
    BY <2>2, <2>3, FS_Subset, FS_CardinalityType
  <2>5. Cardinality(Stale(k)) <= overruns /\ overruns \in Nat
    BY DEF TypeOK
  <2> QED BY <2>1, <2>3, <2>4, <2>5
<1> QED BY <1>1, <1>2, <1>3, TypeCorrect, Ownership, PTL DEF Spec

-----------------------------------------------------------------------------
\* Plain arithmetic on the sum that Allowed is, and on its product.
LEMMA Sums ==
    ASSUME NEW m \in Nat, NEW f \in Nat, NEW g \in Nat, NEW s \in Nat, NEW t \in Nat,
           NEW T \in Nat, NEW U \in Nat, NEW n \in Nat,
           f <= g, T <= s, U <= n, (t = s /\ U <= T) \/ t = s + n
    PROVE  /\ U <= t
           /\ m + f + s - T \in Nat /\ m + g + t - U \in Nat
           /\ m <= m + f + s - T
           /\ m + f + s - T <= m + g + t - U
           /\ f < g => m + f + s - T < m + g + t - U
           /\ t = s /\ U < T => m + f + s - T < m + g + t - U
OBVIOUS

LEMMA Products ==
    ASSUME NEW a \in Nat, NEW b \in Nat
    PROVE  a * b \in Nat /\ (a + 1) * b = a * b + b
OBVIOUS

\* What max_attempts, the faults and the messages sent so far allow never
\* shrinks, and grows with every fault and every message that is read.
LEMMA AllowedGrows ==
    ASSUME TypeOK, TypeOK', Cardinality(told) <= signals * Cardinality(Worker),
           faults <= faults',
           \/ signals' = signals /\ told' \subseteq told
           \/ signals' = signals + 1
    PROVE  /\ Cardinality(told') <= signals' * Cardinality(Worker)
           /\ Allowed \in Nat /\ Allowed' \in Nat
           /\ MaxAttempts <= Allowed /\ Allowed <= Allowed'
           /\ faults < faults' => Allowed < Allowed'
           /\ signals' = signals /\ told' # told => Allowed < Allowed'
<1> DEFINE n == Cardinality(Worker)
           T == Cardinality(told)
           U == Cardinality(told')
           s == signals * n
           t == signals' * n
<1>1. n \in Nat
  BY WorkerAssumption, FS_CardinalityType
<1>2. IsFiniteSet(told) /\ IsFiniteSet(told') /\ T \in Nat /\ U \in Nat /\ U <= n
  BY WorkerAssumption, FS_Subset, FS_CardinalityType DEF TypeOK
<1>3. told' \subseteq told => U <= T /\ (told' # told => U < T)
  BY <1>2, FS_Subset
<1>4. /\ signals \in Nat /\ signals' \in Nat /\ faults \in Nat /\ faults' \in Nat
      /\ MaxAttempts \in Nat
  BY BoundAssumption DEF TypeOK
<1>5. s \in Nat /\ t \in Nat /\ (signals + 1) * n = s + n
  BY <1>1, <1>4, Products
<1>6. (t = s /\ U <= T) \/ t = s + n
  <2>1. CASE signals' = signals /\ told' \subseteq told
    <3>1. t = s
      BY <2>1
    <3> QED BY <1>3, <2>1, <3>1
  <2>2. CASE signals' = signals + 1
    <3>1. t = (signals + 1) * n
      BY <2>2
    <3> HIDE DEF s, n, t
    <3> QED BY <1>5, <3>1
  <2> QED BY <2>1, <2>2
<1>7. /\ Allowed = MaxAttempts + faults + s - T
      /\ Allowed' = MaxAttempts + faults' + t - U
      /\ T <= s
  BY DEF Allowed
<1>8. signals' = signals => t = s
  OBVIOUS
<1>9. signals' = signals => told' \subseteq told
  BY <1>4
<1> HIDE DEF n, T, U, s, t
<1>10. /\ U <= t
       /\ MaxAttempts + faults + s - T \in Nat /\ MaxAttempts + faults' + t - U \in Nat
       /\ MaxAttempts <= MaxAttempts + faults + s - T
       /\ MaxAttempts + faults + s - T <= MaxAttempts + faults' + t - U
       /\ faults < faults' => MaxAttempts + faults + s - T < MaxAttempts + faults' + t - U
       /\ t = s /\ U < T => MaxAttempts + faults + s - T < MaxAttempts + faults' + t - U
  BY <1>1, <1>2, <1>4, <1>5, <1>6, <1>7, Sums
<1>11. /\ U <= t /\ Allowed \in Nat /\ Allowed' \in Nat
       /\ MaxAttempts <= Allowed /\ Allowed <= Allowed'
       /\ faults < faults' => Allowed < Allowed'
       /\ t = s /\ U < T => Allowed < Allowed'
  BY <1>7, <1>10
<1> QED BY <1>3, <1>8, <1>9, <1>11 DEF n, U, t

\* The inductive invariant behind AttemptsAccounted: as long as no batch
\* outlives its lock, a row that may be claimed once more has a claim left.
THEOREM ClaimsLeft == Spec => []AttemptsInv
<1>1. Init => AttemptsInv
  <2> SUFFICES ASSUME Init PROVE AttemptsInv
    OBVIOUS
  <2>1. Cardinality(told) = 0 /\ signals = 0 /\ faults = 0
    BY FS_EmptySet DEF Init
  <2>2. Cardinality(Worker) \in Nat
    BY WorkerAssumption, FS_CardinalityType
  <2>3. signals * Cardinality(Worker) = 0
    BY <2>1, <2>2
  <2>4. MaxAttempts \in Nat \ {0} /\ Allowed = MaxAttempts
    BY <2>1, <2>3, BoundAssumption DEF Allowed
  <2>5. \A k \in Job : attempts[k] = 0
    BY DEF Init
  <2> QED BY <2>1, <2>3, <2>4, <2>5 DEF AttemptsInv
<1>2. TypeOK /\ TypeOK' /\ OwnershipInv /\ AttemptsInv /\ [Next]_vars => AttemptsInv'
  <2> SUFFICES ASSUME TypeOK, TypeOK', OwnershipInv, AttemptsInv, [Next]_vars PROVE AttemptsInv'
    OBVIOUS
  <2> DEFINE Counts == /\ faults <= faults' /\ overruns <= overruns'
                       /\ \/ signals' = signals /\ told' \subseteq told
                          \/ signals' = signals + 1
  <2>1. Counts
    <3> USE DEF row, task, budget
    <3>0. faults \in Nat /\ overruns \in Nat
      BY DEF TypeOK
    <3>1. ASSUME NEW j \in Job, Enqueue(j) \/ BackoffEnds(j) \/ OrphanExpires(j) \/ Overrun(j) PROVE Counts
      BY <3>0, <3>1 DEF Enqueue, BackoffEnds, OrphanExpires, Overrun, Expire
    <3>2. ASSUME NEW w \in Worker, WorkerStep(w) PROVE Counts
      BY <3>0, <3>2 DEF WorkerStep, StopAtTop, LoopTop, Claim, Wake, StopIdle, Release, Begin, BatchDone, Finish
    <3>3. ASSUME NEW w \in Worker,
                 ReapTimer(w) \/ ReapFails(w) \/ ClaimFails(w) \/ FinishFails(w) \/ ReleaseFails(w)
          PROVE Counts
      BY <3>0, <3>3 DEF ReapTimer, ReapFails, ClaimFails, FinishFails, ReleaseFails, Fault
    <3>4. ASSUME NEW r \in Replica, Signal(r) \/ Crash(r) \/ Start(r) PROVE Counts
      BY <3>0, <3>4 DEF Signal, Crash, Start, Fault
    <3>5. CASE UNCHANGED vars
      BY <3>0, <3>5 DEF vars
    <3> QED BY <3>1, <3>2, <3>3, <3>4, <3>5 DEF Next
  <2>2. /\ Cardinality(told') <= signals' * Cardinality(Worker)
        /\ Allowed \in Nat /\ Allowed' \in Nat
        /\ MaxAttempts <= Allowed /\ Allowed <= Allowed'
        /\ faults < faults' => Allowed < Allowed'
        /\ signals' = signals /\ told' # told => Allowed < Allowed'
    BY <2>1, AllowedGrows DEF AttemptsInv
  <2> SUFFICES ASSUME overruns' = 0, NEW k \in Job
               PROVE  attempts'[k] <= IF MayBeClaimed(k)' THEN Allowed' - 1 ELSE Allowed'
    BY <2>2 DEF AttemptsInv
  <2> DEFINE Bound == attempts'[k] <= IF MayBeClaimed(k)' THEN Allowed' - 1 ELSE Allowed'
  <2>3. /\ overruns = 0 /\ attempts[k] \in Nat /\ attempts'[k] \in Nat /\ faults \in Nat
        /\ attempts[k] <= IF MayBeClaimed(k) THEN Allowed - 1 ELSE Allowed
    BY <2>1 DEF TypeOK, AttemptsInv
  <2>4. ASSUME attempts' = attempts, MayBeClaimed(k)' => MayBeClaimed(k) PROVE Bound
    BY <2>2, <2>3, <2>4
  <2>5. ASSUME attempts' = attempts, faults < faults' \/ (signals' = signals /\ told' # told) PROVE Bound
    BY <2>2, <2>3, <2>5
  <2>6. ASSUME UNCHANGED <<status, lockedBy, attempts, copy>> PROVE Bound
    <3>1. MayBeClaimed(k)' <=> MayBeClaimed(k)
      BY <2>6 DEF MayBeClaimed, Orphaned, Held
    <3> QED BY <2>4, <2>6, <3>1
  <2>7. ASSUME NEW w \in Worker, NEW taken \in NextBatches \cup {{}}, claim_batch(w, taken), k \in taken,
               faults < faults' \/ k \in Held(w)'
        PROVE  Bound
    <3>1. status[k] = "pending"
      BY <2>7 DEF NextBatches, Claimable
    <3>2. attempts'[k] = attempts[k] + 1 /\ status'[k] = "in_progress" /\ lockedBy'[k] = w
      BY <2>7 DEF claim_batch
    <3>3. k \in Held(w)' => ~MayBeClaimed(k)'
      BY <3>2 DEF MayBeClaimed, Orphaned
    <3>4. attempts[k] <= Allowed - 1
      BY <2>3, <3>1 DEF MayBeClaimed
    <3> QED BY <2>2, <2>3, <2>7, <3>2, <3>3, <3>4
  <2>8. ASSUME NEW w \in Worker, NEW taken \in NextBatches \cup {{}}, claim_batch(w, taken), k \notin taken,
               \A v \in Worker : k \in Held(v)' <=> k \in Held(v)
        PROVE  Bound
    <3>1. /\ attempts'[k] = attempts[k] /\ status'[k] = status[k] /\ lockedBy'[k] = lockedBy[k]
      BY <2>8 DEF claim_batch
    <3>2. MayBeClaimed(k)' <=> MayBeClaimed(k)
      BY <2>8, <3>1 DEF MayBeClaimed, Orphaned
    <3> QED BY <2>2, <2>3, <3>1, <3>2
  <2>9. \A j \in Reapable : Orphaned(j)
    BY <2>3 DEF Reapable, OwnershipInv, HoldersInTime
  <2> USE DEF row, task, budget
  <2>10. ASSUME NEW j \in Job, Enqueue(j) PROVE Bound
    <3>1. MayBeClaimed(k)' => MayBeClaimed(k)
      BY <2>10 DEF Enqueue, MayBeClaimed, Orphaned, Held, TypeOK
    <3> QED BY <2>4, <2>10, <3>1 DEF Enqueue
  <2>11. ASSUME NEW j \in Job, BackoffEnds(j) \/ OrphanExpires(j) \/ Overrun(j) PROVE Bound
    BY <2>6, <2>11 DEF BackoffEnds, OrphanExpires, Overrun, Expire
  <2>12. ASSUME NEW w \in Worker, WorkerStep(w) PROVE Bound
    <3>1. CASE LoopTop(w)
      <4>1. CASE w \in reapDue
        <5>1. reap_stuck /\ UNCHANGED copy
          BY <3>1, <4>1 DEF LoopTop
        <5>2. /\ status'[k] = IF k \in Reapable THEN "pending" ELSE status[k]
              /\ lockedBy'[k] = IF k \in Reapable THEN NoWorker ELSE lockedBy[k]
              /\ attempts' = attempts
              /\ k \in Reapable => status[k] = "in_progress"
          BY <5>1 DEF reap_stuck, Reapable
        <5>3. MayBeClaimed(k)' => MayBeClaimed(k)
          <6>1. CASE k \in Reapable
            BY <2>9, <5>2, <6>1 DEF MayBeClaimed
          <6>2. CASE k \notin Reapable
            BY <5>1, <5>2, <6>2 DEF MayBeClaimed, Orphaned, Held
          <6> QED BY <6>1, <6>2
        <5> QED BY <2>4, <5>2, <5>3
      <4>2. CASE w \notin reapDue
        BY <2>6, <3>1, <4>2 DEF LoopTop
      <4> QED BY <4>1, <4>2
    <3>2. CASE Claim(w)
      <4>1. PICK taken \in NextBatches :
              /\ claim_batch(w, taken)
              /\ copy' = [copy EXCEPT ![w] =
                            [j \in Job |-> IF j \in taken THEN attempts[j] + 1 ELSE 0]]
        BY <3>2 DEF Claim
      <4>2. Held(w) = {}
        BY <3>2 DEF Claim, OwnershipInv, PlacesAgree
      <4>3. copy'[w][k] = IF k \in taken THEN attempts[k] + 1 ELSE 0
        BY <4>1 DEF TypeOK
      <4>4. k \in taken => k \in Held(w)'
        BY <2>3, <4>3 DEF Held
      <4>5. k \notin taken => \A v \in Worker : k \in Held(v)' <=> k \in Held(v)
        BY <4>1, <4>2, <4>3 DEF Held, TypeOK
      <4> QED BY <2>7, <2>8, <4>1, <4>4, <4>5
    <3>3. CASE Release(w)
      <4>1. attempts' = attempts /\ signals' = signals /\ told' # told
        BY <3>3 DEF Release, Settle
      <4> QED BY <2>5, <4>1
    <3>4. CASE Finish(w)
      <4>1. running[w] \in Held(w)
        BY <3>4 DEF Finish, OwnershipInv, PlacesAgree
      <4>2. PICK outcome \in Verdicts(w, running[w]) : Settle(running[w], outcome)
        BY <3>4 DEF Finish
      <4>3. /\ copy' = [copy EXCEPT ![w][running[w]] = 0] /\ attempts' = attempts
            /\ status' = [status EXCEPT ![running[w]] = outcome]
            /\ lockedBy' = [lockedBy EXCEPT ![running[w]] = NoWorker]
        BY <3>4, <4>2 DEF Finish, DropRunning, Settle
      <4>4. CASE k # running[w]
        <5>1. status'[k] = status[k] /\ lockedBy'[k] = lockedBy[k] /\ \A v \in Worker : copy'[v][k] = copy[v][k]
          BY <4>3, <4>4 DEF TypeOK
        <5>2. MayBeClaimed(k)' => MayBeClaimed(k)
          BY <5>1 DEF MayBeClaimed, Orphaned, Held
        <5> QED BY <2>4, <4>3, <5>2
      <4>5. CASE k = running[w] /\ outcome = "pending"
        <5>1. ~(copy[w][k] >= MaxAttempts)
          BY <4>5 DEF Verdicts, Final
        <5>2. copy[w][k] = attempts[k]
          BY <2>3, <4>1, <4>5 DEF OwnershipInv, HoldersInTime
        <5> QED BY <2>2, <2>3, <4>3, <5>1, <5>2, BoundAssumption
      <4>6. CASE k = running[w] /\ outcome # "pending"
        <5>1. status'[k] \in Final
          BY <4>3, <4>6 DEF Verdicts, TypeOK
        <5>2. ~MayBeClaimed(k)'
          BY <5>1 DEF MayBeClaimed, Final
        <5> QED BY <2>4, <4>3, <5>2
      <4> QED BY <4>4, <4>5, <4>6
    <3>5. CASE StopAtTop(w) \/ Wake(w) \/ StopIdle(w) \/ Begin(w) \/ BatchDone(w)
      BY <2>6, <3>5 DEF StopAtTop, Wake, StopIdle, Begin, BatchDone
    <3> QED BY <2>12, <3>1, <3>2, <3>3, <3>4, <3>5 DEF WorkerStep
  <2>13. ASSUME NEW w \in Worker,
                ReapTimer(w) \/ ReapFails(w) \/ ClaimFails(w) \/ FinishFails(w) \/ ReleaseFails(w)
         PROVE Bound
    <3>0. Fault => faults < faults'
      BY <2>3 DEF Fault
    <3>1. CASE ReapTimer(w)
      BY <2>6, <3>1 DEF ReapTimer
    <3>2. CASE ReapFails(w) \/ FinishFails(w) \/ ReleaseFails(w)
      BY <2>5, <3>0, <3>2 DEF ReapFails, FinishFails, ReleaseFails
    <3>3. CASE ClaimFails(w)
      <4>1. PICK taken \in NextBatches \cup {{}} : claim_batch(w, taken)
        BY <3>3 DEF ClaimFails
      <4>2. \A v \in Worker : k \in Held(v)' <=> k \in Held(v)
        BY <3>3 DEF ClaimFails, Held
      <4> QED BY <2>7, <2>8, <3>0, <3>3, <4>1, <4>2 DEF ClaimFails
    <3> QED BY <2>13, <3>1, <3>2, <3>3
  <2>14. ASSUME NEW r \in Replica, Signal(r) \/ Crash(r) \/ Start(r) PROVE Bound
    <3>1. CASE Signal(r) \/ Start(r)
      BY <2>6, <3>1 DEF Signal, Start
    <3>2. CASE Crash(r)
      <4>1. faults < faults' /\ attempts' = attempts
        BY <2>3, <3>2 DEF Crash, Fault
      <4> QED BY <2>5, <4>1
    <3> QED BY <2>14, <3>1, <3>2
  <2>15. CASE UNCHANGED vars
    BY <2>6, <2>15 DEF vars
  <2> QED BY <2>10, <2>11, <2>12, <2>13, <2>14, <2>15 DEF Next
<1> QED BY <1>1, <1>2, TypeCorrect, Ownership, PTL DEF Spec

\* max_attempts bounds the claims of a job but for one per fault and one per
\* worker per shutdown, as long as no batch outlives its lock.
THEOREM Attempts == Spec => []AttemptsAccounted
<1>1. TypeOK /\ AttemptsInv => AttemptsAccounted
  <2> SUFFICES ASSUME TypeOK, AttemptsInv, overruns = 0, NEW k \in Job
               PROVE  attempts[k] <= MaxAttempts + faults + signals * Cardinality(Worker)
    BY DEF AttemptsAccounted
  <2> DEFINE s == signals * Cardinality(Worker)
             T == Cardinality(told)
  <2>1. T \in Nat /\ Cardinality(Worker) \in Nat
    BY WorkerAssumption, FS_Subset, FS_CardinalityType DEF TypeOK
  <2>2. s \in Nat
    BY <2>1, Products DEF TypeOK
  <2>3. attempts[k] <= Allowed \/ attempts[k] <= Allowed - 1
    BY DEF AttemptsInv
  <2>4. Allowed = MaxAttempts + faults + s - T
    BY DEF Allowed
  <2>5. MaxAttempts \in Nat /\ faults \in Nat /\ attempts[k] \in Nat
    BY BoundAssumption DEF TypeOK
  <2> HIDE DEF s, T
  <2>6. attempts[k] <= MaxAttempts + faults + s
    BY <2>1, <2>2, <2>3, <2>4, <2>5
  <2> QED BY <2>6 DEF s
<1> QED BY <1>1, TypeCorrect, ClaimsLeft, PTL

-----------------------------------------------------------------------------
\* The queue implements JobExecution as long as locks outlast batches.
THEOREM Refinement == ASSUME MaxOverruns = 0 PROVE Spec => ImplementsExecution
<1> USE WorkerAssumption DEF Execution!evars
<1>1. Init => Execution!Init
  BY DEF Init, Execution!Init, Phase, Holder
<1>2. TypeOK /\ OwnershipInv /\ [Next]_vars => [Execution!Next]_<<Phase, Holder>>
  <2> SUFFICES ASSUME TypeOK, OwnershipInv, [Next]_vars
               PROVE [Execution!Next]_<<Phase, Holder>>
    OBVIOUS
  <2>0. overruns = 0
    BY DEF TypeOK
  <2>1. /\ \A w \in Worker : \A j \in Held(w) : lockedBy[j] = w /\ status[j] = "in_progress" /\ Holder[j] = w
        /\ \A j \in expired : j \in Job /\ Holder[j] = NoWorker /\ status[j] = "in_progress"
    BY <2>0 DEF TypeOK, OwnershipInv, LocksAgree, HoldersInTime, Orphaned, Holder, Held
  <2> USE DEF TypeOK, row, task, budget
  <2>2. ASSUME UNCHANGED <<status, lockedBy, copy>> PROVE UNCHANGED <<Phase, Holder>>
    BY <2>2 DEF Phase, Holder, Held
  <2>3. ASSUME NEW j \in Job, Enqueue(j) PROVE Execution!Offer(j)
    BY <2>3 DEF Enqueue, Execution!Offer, Phase, Holder, Held
  <2>4. ASSUME NEW j \in Job, BackoffEnds(j) \/ OrphanExpires(j) \/ Overrun(j)
        PROVE UNCHANGED <<Phase, Holder>>
    BY <2>2, <2>4 DEF BackoffEnds, OrphanExpires, Overrun, Expire
  <2>5. ASSUME reap_stuck, UNCHANGED copy PROVE Execution!Recover(Reapable)
    <3>1. \A j \in Reapable : j \in Job /\ Holder[j] = NoWorker /\ status[j] = "in_progress"
      BY <2>1 DEF Reapable
    <3>2. \A j \in Reapable : Phase[j] = "given"
      BY <3>1 DEF Phase
    <3>3. Phase' = [j \in Job |-> IF j \in Reapable THEN "offered" ELSE Phase[j]]
      BY <2>5, <3>1 DEF reap_stuck, Phase
    <3>4. Holder' = Holder
      BY <2>5, <3>1 DEF reap_stuck, Holder, Held
    <3> QED BY <3>1, <3>2, <3>3, <3>4 DEF Execution!Recover
  <2>6. ASSUME NEW w \in Worker, NEW taken \in NextBatches \cup {{}}, claim_batch(w, taken),
               NEW who \in Worker \cup {NoWorker},
               \A j \in taken : who = IF j \in Held(w)' THEN w ELSE NoWorker,
               \A v \in Worker \ {w} : copy'[v] = copy[v],
               \A j \in Job \ taken : j \notin Held(w) /\ j \notin Held(w)'
        PROVE Execution!Give(who, taken)
    <3>1. \A j \in taken : j \in Job /\ status[j] = "pending"
      BY DEF NextBatches, Claimable
    <3>2. Phase' = [j \in Job |-> IF j \in taken THEN "given" ELSE Phase[j]]
      BY <2>6, <3>1 DEF claim_batch, Phase
    <3>3. Holder' = [j \in Job |-> IF j \in taken THEN who ELSE Holder[j]]
      BY <2>6, <3>1 DEF claim_batch, Holder, Held
    <3>4. \A j \in taken : Phase[j] = "offered"
      BY <3>1 DEF Phase
    <3> QED BY <3>2, <3>3, <3>4 DEF Execution!Give
  <2>7. ASSUME NEW w \in Worker, NEW j \in Held(w), NEW outcome \in {"pending"} \cup Final,
               Settle(j, outcome), copy' = [copy EXCEPT ![w][j] = 0]
        PROVE Execution!Return(j)
    <3>1. j \in Job /\ Holder[j] = w
      BY <2>1 DEF Held
    <3>2. Phase' = [Phase EXCEPT ![j] = IF outcome = "pending" THEN "offered" ELSE "ended"]
      BY <2>7, <3>1 DEF Settle, Phase, Final
    <3>3. Holder' = [Holder EXCEPT ![j] = NoWorker]
      BY <2>7, <3>1 DEF Settle, Holder, Held
    <3> QED BY <3>1, <3>2, <3>3 DEF Execution!Return
  <2>8. ASSUME NEW lost \in SUBSET Job, UNCHANGED <<status, lockedBy>>,
               \A k \in Job : Holder'[k] = IF k \in lost THEN NoWorker ELSE Holder[k]
        PROVE Execution!Abandon(lost)
    BY <2>8 DEF Execution!Abandon, Phase, Holder
  <2>9. ASSUME NEW w \in Worker, WorkerStep(w) PROVE [Execution!Next]_<<Phase, Holder>>
    <3>1. CASE LoopTop(w)
      <4>1. CASE w \in reapDue
        <5>1. Execution!Recover(Reapable)
          BY <2>5, <3>1, <4>1 DEF LoopTop
        <5>2. Reapable \in SUBSET Job
          BY DEF Reapable
        <5> QED BY <5>1, <5>2 DEF Execution!Next
      <4>2. CASE w \notin reapDue
        BY <2>2, <3>1, <4>2 DEF LoopTop
      <4> QED BY <4>1, <4>2
    <3>2. CASE Claim(w)
      <4>1. PICK taken \in NextBatches :
              /\ claim_batch(w, taken)
              /\ copy' = [copy EXCEPT ![w] =
                            [j \in Job |-> IF j \in taken THEN attempts[j] + 1 ELSE 0]]
        BY <3>2 DEF Claim
      <4>2. taken \in SUBSET Job
        BY DEF NextBatches, Claimable
      <4>3. Held(w) = {} /\ Held(w)' = taken
        BY <3>2, <4>1, <4>2 DEF Claim, OwnershipInv, PlacesAgree, Held
      <4>4. Execution!Give(w, taken)
        BY <2>6, <4>1, <4>3
      <4> QED BY <4>2, <4>4 DEF Execution!Next
    <3>3. CASE Release(w)
      <4>1. PICK j \in Held(w) : Settle(j, "pending") /\ copy' = [copy EXCEPT ![w][j] = 0]
        BY <3>3 DEF Release
      <4>2. Execution!Return(j) /\ j \in Job
        BY <2>7, <4>1 DEF Held
      <4> QED BY <4>2 DEF Execution!Next
    <3>4. CASE Finish(w)
      <4>1. running[w] \in Held(w)
        BY <3>4 DEF Finish, OwnershipInv, PlacesAgree
      <4>2. PICK outcome \in {"pending"} \cup Final : Settle(running[w], outcome)
        BY <3>4 DEF Finish, Verdicts
      <4>3. Execution!Return(running[w]) /\ running[w] \in Job
        BY <2>7, <3>4, <4>1, <4>2 DEF Finish, DropRunning, Held
      <4> QED BY <4>3 DEF Execution!Next
    <3>5. CASE StopAtTop(w) \/ Wake(w) \/ StopIdle(w) \/ Begin(w) \/ BatchDone(w)
      BY <2>2, <3>5 DEF StopAtTop, Wake, StopIdle, Begin, BatchDone
    <3> QED BY <2>9, <3>1, <3>2, <3>3, <3>4, <3>5 DEF WorkerStep
  <2>10. ASSUME NEW w \in Worker,
                ReapTimer(w) \/ ReapFails(w) \/ ClaimFails(w) \/ FinishFails(w) \/ ReleaseFails(w)
         PROVE [Execution!Next]_<<Phase, Holder>>
    <3>1. CASE ReapTimer(w) \/ ReapFails(w)
      BY <2>2, <3>1 DEF ReapTimer, ReapFails
    <3>2. CASE ClaimFails(w)
      <4>1. PICK taken \in NextBatches \cup {{}} : claim_batch(w, taken)
        BY <3>2 DEF ClaimFails
      <4>2. taken \in SUBSET Job /\ copy' = copy /\ Held(w) = {}
        BY <3>2 DEF ClaimFails, NextBatches, Claimable, OwnershipInv, PlacesAgree
      <4>3. Execution!Give(NoWorker, taken)
        BY <2>6, <4>1, <4>2 DEF Held
      <4> QED BY <4>2, <4>3 DEF Execution!Next
    <3>3. CASE FinishFails(w)
      <4>1. running[w] \in Held(w) /\ running[w] \in Job
        BY <3>3 DEF FinishFails, OwnershipInv, PlacesAgree, Held
      <4>2. UNCHANGED <<status, lockedBy>> /\ copy' = [copy EXCEPT ![w][running[w]] = 0]
        BY <3>3 DEF FinishFails, DropRunning
      <4>3. \A k \in Job : Holder'[k] = IF k \in {running[w]} THEN NoWorker ELSE Holder[k]
        BY <2>1, <4>1, <4>2 DEF Holder, Held
      <4>4. {running[w]} \in SUBSET Job
        BY <4>1
      <4>5. Execution!Abandon({running[w]})
        BY <2>8, <4>2, <4>3, <4>4
      <4> QED BY <4>4, <4>5 DEF Execution!Next
    <3>4. CASE ReleaseFails(w)
      <4>1. PICK j \in Held(w) : copy' = [copy EXCEPT ![w][j] = 0]
        BY <3>4 DEF ReleaseFails
      <4>2. UNCHANGED <<status, lockedBy>> /\ {j} \in SUBSET Job
        BY <3>4 DEF ReleaseFails, Held
      <4>3. \A k \in Job : Holder'[k] = IF k \in {j} THEN NoWorker ELSE Holder[k]
        BY <2>1, <4>1, <4>2 DEF Holder, Held
      <4>4. Execution!Abandon({j})
        BY <2>8, <4>2, <4>3
      <4> QED BY <4>2, <4>4 DEF Execution!Next
    <3> QED BY <2>10, <3>1, <3>2, <3>3, <3>4
  <2>11. ASSUME NEW r \in Replica, Signal(r) \/ Crash(r) \/ Start(r)
         PROVE [Execution!Next]_<<Phase, Holder>>
    <3>1. CASE Signal(r) \/ Start(r)
      BY <2>2, <3>1 DEF Signal, Start
    <3>2. CASE Crash(r)
      <4> DEFINE lost == {j \in Job : \E w \in Tasks(r) : lockedBy[j] = w}
      <4>1. /\ UNCHANGED <<status, lockedBy>>
            /\ copy' = [w \in Worker |-> IF w \in Tasks(r) THEN [j \in Job |-> 0] ELSE copy[w]]
        BY <3>2 DEF Crash
      <4>2. \A k \in Job : Holder'[k] = IF k \in lost THEN NoWorker ELSE Holder[k]
        BY <4>1 DEF Holder, Held, Tasks
      <4>3. lost \in SUBSET Job /\ Execution!Abandon(lost)
        BY <2>8, <4>1, <4>2
      <4> QED BY <4>3 DEF Execution!Next
    <3> QED BY <2>11, <3>1, <3>2
  <2>12. CASE UNCHANGED vars
    BY <2>2, <2>12 DEF vars
  <2> QED
    BY <2>3, <2>4, <2>9, <2>10, <2>11, <2>12 DEF Next, Execution!Next
<1> QED
  BY <1>1, <1>2, TypeCorrect, Ownership, PTL DEF Spec, ImplementsExecution, Execution!Spec
=============================================================================
