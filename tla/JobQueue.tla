------------------------------ MODULE JobQueue ------------------------------
(***************************************************************************)
(* The durable job queue (services/jobs.rs, table `jobs`) and the worker   *)
(* tasks that drain it (tasks/job_worker.rs).  One process (replica) runs  *)
(* several worker tasks; several replicas share the table.                 *)
(*                                                                         *)
(* A statement on the table is one step.  Between the statements of a      *)
(* worker anything may happen: other workers, a crash of the process, the  *)
(* shutdown signal, the passing of time.                                   *)
(*                                                                         *)
(* Time is abstracted to what the statements compare it with:              *)
(*   j \in due        next_run_at <= now()                                 *)
(*   j \in expired    locked_at < now() - STUCK_LOCK_SECS                  *)
(*   w \in reapDue    last_reap.elapsed() >= reap_every                    *)
(***************************************************************************)
EXTENDS Integers, FiniteSets

CONSTANTS
    Job,          \* the ids the BIGSERIAL column hands out
    Worker,       \* every worker task of every replica
    Replica,      \* the processes
    Home,         \* Home[w]: the process worker task w runs in
    NoWorker,     \* a NULL locked_by
    BatchSize,    \* BATCH_SIZE
    MaxAttempts,  \* max_attempts, the column's default
    MaxFaults,    \* bound: crashes and failed statements
    MaxSignals,   \* bound: SIGTERMs
    MaxOverruns   \* bound: locks that expire while their worker still runs

ASSUME JobAssumption == Job \subseteq Nat \ {0}
ASSUME WorkerAssumption ==
    IsFiniteSet(Worker) /\ NoWorker \notin Worker /\ Home \in [Worker -> Replica]
ASSUME BoundAssumption ==
    /\ BatchSize \in Nat \ {0} /\ MaxAttempts \in Nat \ {0}
    /\ MaxFaults \in Nat /\ MaxSignals \in Nat /\ MaxOverruns \in Nat

VARIABLES
    status,     \* the row's status; "absent" before the INSERT
    due, lockedBy, expired, attempts,
    pc,         \* where worker w is in run()
    copy,       \* copy[w][j]: `attempts` in the Job struct w got when it
                \* claimed j; 0 when w holds no such struct
    running,    \* the job w is dispatching, or NoJob
    told,       \* the workers with a message unread in their receiver
    reapDue,
    signalled,  \* the processes that have received SIGTERM
    faults, signals, overruns

row    == <<status, due, lockedBy, expired, attempts>>
task   == <<pc, copy, running, told, reapDue>>
budget == <<faults, signals, overruns>>
vars   == <<row, task, signalled, budget>>

NoJob  == 0
Final  == {"completed", "dead"}
Status == {"absent", "pending", "in_progress"} \cup Final
Place  == {"top", "claim", "idle", "batch", "dispatch", "off"}

Held(w)     == {j \in Job : copy[w][j] > 0}
Tasks(r)    == {w \in Worker : Home[w] = r}

\* Mutant of Claimable: the test of status is dropped.
ClaimableInAnyState == due
Claimable   == {j \in Job : j \in due /\ status[j] = "pending"}
Orphaned(j) == \A w \in Worker : lockedBy[j] = w => j \notin Held(w)

Init ==
    /\ status = [j \in Job |-> "absent"]
    /\ due = {}
    /\ lockedBy = [j \in Job |-> NoWorker]
    /\ expired = {}
    /\ attempts = [j \in Job |-> 0]
    /\ pc = [w \in Worker |-> "top"]
    /\ copy = [w \in Worker |-> [j \in Job |-> 0]]
    /\ running = [w \in Worker |-> NoJob]
    /\ told = {}
    /\ reapDue = {}
    /\ signalled = {}
    /\ faults = 0 /\ signals = 0 /\ overruns = 0

-----------------------------------------------------------------------------
(* The statements on the table.                                            *)

\* enqueue: due at once (player and account syncs), or after the debounce of
\* a config sync.  The pg_notify only shortens a worker's idle wait.
Enqueue(j) ==
    /\ status[j] = "absent"
    /\ status' = [status EXCEPT ![j] = "pending"]
    /\ due' = due \/ due' = due \cup {j}
    /\ UNCHANGED <<lockedBy, expired, attempts, task, signalled, budget>>

\* ORDER BY id LIMIT batch_size over the claimable rows.
NextBatches ==
    {taken \in SUBSET Claimable :
        /\ Cardinality(taken) <= BatchSize
        /\ taken = Claimable \/ Cardinality(taken) = BatchSize
        /\ \A j \in taken, k \in Claimable \ taken : j < k}

\* Mutant of claim_batch: the row is locked in the name of the process.
claim_batch_for_process(w, taken) ==
    /\ status' = [j \in Job |-> IF j \in taken THEN "in_progress" ELSE status[j]]
    /\ lockedBy' = [j \in Job |-> IF j \in taken THEN Home[w] ELSE lockedBy[j]]
    /\ expired' = expired \ taken
    /\ attempts' = [j \in Job |-> IF j \in taken THEN attempts[j] + 1 ELSE attempts[j]]
    /\ UNCHANGED due

claim_batch(w, taken) ==
    /\ status' = [j \in Job |-> IF j \in taken THEN "in_progress" ELSE status[j]]
    /\ lockedBy' = [j \in Job |-> IF j \in taken THEN w ELSE lockedBy[j]]
    /\ expired' = expired \ taken
    /\ attempts' = [j \in Job |-> IF j \in taken THEN attempts[j] + 1 ELSE attempts[j]]
    /\ UNCHANGED due

\* Mutant of Settle: a retried row keeps its status.
SettleKeepingStatus(j, outcome) ==
    /\ status' = IF outcome = "pending" THEN status ELSE [status EXCEPT ![j] = outcome]
    /\ lockedBy' = [lockedBy EXCEPT ![j] = NoWorker]
    /\ expired' = expired \ {j}
    /\ due' = IF outcome = "pending" THEN due \ {j} ELSE due
    /\ UNCHANGED attempts

\* complete, fail_retry and fail_dead share this shape: WHERE id = $1, with no
\* test of status or locked_by.
Settle(j, outcome) ==
    /\ status' = [status EXCEPT ![j] = outcome]
    /\ lockedBy' = [lockedBy EXCEPT ![j] = NoWorker]
    /\ expired' = expired \ {j}
    /\ due' = IF outcome = "pending" THEN due \ {j} ELSE due
    /\ UNCHANGED attempts

\* Mutants of Reapable: any age of lock; the wrong status.
ReapableAtAnyAge == {j \in Job : status[j] = "in_progress"}
ReapableWhenPending == {j \in expired : status[j] = "pending"}

Reapable == {j \in expired : status[j] = "in_progress"}

reap_stuck ==
    /\ status' = [j \in Job |-> IF j \in Reapable THEN "pending" ELSE status[j]]
    /\ due' = due \cup Reapable
    /\ lockedBy' = [j \in Job |-> IF j \in Reapable THEN NoWorker ELSE lockedBy[j]]
    /\ expired' = expired \ Reapable
    /\ UNCHANGED attempts

-----------------------------------------------------------------------------
(* run(): one worker task.                                                 *)

\* is_triggered at the loop's head.  try_recv takes the message out of the
\* channel: the next call finds it empty.
StopAtTop(w) ==
    /\ pc[w] = "top" /\ w \in told
    /\ pc' = [pc EXCEPT ![w] = "off"]
    /\ told' = told \ {w}
    /\ UNCHANGED <<row, copy, running, reapDue, signalled, budget>>

LoopTop(w) ==
    /\ pc[w] = "top" /\ w \notin told
    /\ IF w \in reapDue THEN reap_stuck ELSE UNCHANGED row
    /\ reapDue' = reapDue \ {w}
    /\ pc' = [pc EXCEPT ![w] = "claim"]
    /\ UNCHANGED <<copy, running, told, signalled, budget>>

Claim(w) ==
    /\ pc[w] = "claim"
    /\ \E taken \in NextBatches :
        /\ claim_batch(w, taken)
        /\ copy' = [copy EXCEPT ![w] =
                      [j \in Job |-> IF j \in taken THEN attempts[j] + 1 ELSE 0]]
        /\ pc' = [pc EXCEPT ![w] = IF taken = {} THEN "idle" ELSE "batch"]
    /\ UNCHANGED <<running, told, reapDue, signalled, budget>>

\* The select of an idle worker.  Its poll timer ends it, whether or not a
\* notification came; with a message unread either branch may be taken.
Wake(w) ==
    /\ pc[w] = "idle"
    /\ pc' = [pc EXCEPT ![w] = "top"]
    /\ UNCHANGED <<row, copy, running, told, reapDue, signalled, budget>>

StopIdle(w) ==
    /\ pc[w] = "idle" /\ w \in told
    /\ pc' = [pc EXCEPT ![w] = "off"]
    /\ told' = told \ {w}
    /\ UNCHANGED <<row, copy, running, reapDue, signalled, budget>>

\* The for loop over the claimed jobs (RETURNING promises no order).  The
\* first job after the signal is released; the message is then spent.
Release(w) ==
    /\ pc[w] = "batch" /\ w \in told
    /\ \E j \in Held(w) :
        /\ Settle(j, "pending")
        /\ copy' = [copy EXCEPT ![w][j] = 0]
    /\ told' = told \ {w}
    /\ UNCHANGED <<pc, running, reapDue, signalled, budget>>

Begin(w) ==
    /\ pc[w] = "batch" /\ w \notin told
    /\ \E j \in Held(w) : running' = [running EXCEPT ![w] = j]
    /\ pc' = [pc EXCEPT ![w] = "dispatch"]
    /\ UNCHANGED <<row, copy, told, reapDue, signalled, budget>>

BatchDone(w) ==
    /\ pc[w] = "batch" /\ Held(w) = {}
    /\ pc' = [pc EXCEPT ![w] = "top"]
    /\ UNCHANGED <<row, copy, running, told, reapDue, signalled, budget>>

\* Mutant of Verdicts: > for >=.
VerdictsOffByOne(w, j) ==
    Final \cup (IF copy[w][j] > MaxAttempts THEN {} ELSE {"pending"})

\* Ok completes the job, a terminal error kills it, any other error retries
\* it until this worker's copy says the attempts are spent.
Verdicts(w, j) ==
    Final \cup (IF copy[w][j] >= MaxAttempts THEN {} ELSE {"pending"})

DropRunning(w) ==
    /\ copy' = [copy EXCEPT ![w][running[w]] = 0]
    /\ running' = [running EXCEPT ![w] = NoJob]
    /\ pc' = [pc EXCEPT ![w] = "batch"]

Finish(w) ==
    /\ pc[w] = "dispatch"
    /\ \E outcome \in Verdicts(w, running[w]) : Settle(running[w], outcome)
    /\ DropRunning(w)
    /\ UNCHANGED <<told, reapDue, signalled, budget>>

WorkerStep(w) ==
    \/ StopAtTop(w) \/ LoopTop(w) \/ Claim(w) \/ Wake(w) \/ StopIdle(w)
    \/ Release(w) \/ Begin(w) \/ BatchDone(w) \/ Finish(w)

-----------------------------------------------------------------------------
(* Statements that fail: every one of them is logged or ignored.           *)

Fault == faults < MaxFaults /\ faults' = faults + 1

ReapFails(w) ==
    /\ Fault
    /\ pc[w] = "top" /\ w \notin told /\ w \in reapDue
    /\ reapDue' = reapDue \ {w}
    /\ pc' = [pc EXCEPT ![w] = "claim"]
    /\ UNCHANGED <<row, copy, running, told, signalled, signals, overruns>>

\* The claim is lost before the commit (nothing is taken) or its answer after
\* it (the rows are locked and no worker knows).
ClaimFails(w) ==
    /\ Fault
    /\ pc[w] = "claim"
    /\ \E taken \in NextBatches \cup {{}} : claim_batch(w, taken)
    /\ pc' = [pc EXCEPT ![w] = "idle"]
    /\ UNCHANGED <<copy, running, told, reapDue, signalled, signals, overruns>>

\* complete, fail_dead or fail_retry fails: the row stays locked.
FinishFails(w) ==
    /\ Fault
    /\ pc[w] = "dispatch"
    /\ DropRunning(w)
    /\ UNCHANGED <<row, told, reapDue, signalled, signals, overruns>>

ReleaseFails(w) ==
    /\ Fault
    /\ pc[w] = "batch" /\ w \in told
    /\ \E j \in Held(w) : copy' = [copy EXCEPT ![w][j] = 0]
    /\ told' = told \ {w}
    /\ UNCHANGED <<row, pc, running, reapDue, signalled, signals, overruns>>

-----------------------------------------------------------------------------
(* Processes and time.                                                     *)

\* SIGTERM: main's signal task sends one message to every receiver.
Signal(r) ==
    /\ signals < MaxSignals /\ r \notin signalled
    /\ \E w \in Tasks(r) : pc[w] # "off"
    /\ signals' = signals + 1
    /\ signalled' = signalled \cup {r}
    /\ told' = told \cup {w \in Tasks(r) : pc[w] # "off"}
    /\ UNCHANGED <<row, pc, copy, running, reapDue, faults, overruns>>

Crash(r) ==
    /\ Fault
    /\ \E w \in Tasks(r) : pc[w] # "off"
    /\ pc' = [w \in Worker |-> IF w \in Tasks(r) THEN "off" ELSE pc[w]]
    /\ copy' = [w \in Worker |-> IF w \in Tasks(r) THEN [j \in Job |-> 0] ELSE copy[w]]
    /\ running' = [w \in Worker |-> IF w \in Tasks(r) THEN NoJob ELSE running[w]]
    /\ told' = told \ Tasks(r)
    /\ reapDue' = reapDue \ Tasks(r)
    /\ UNCHANGED <<row, signalled, signals, overruns>>

\* A process whose tasks have all ended is started again.
Start(r) ==
    /\ Tasks(r) # {} /\ \A w \in Tasks(r) : pc[w] = "off"
    /\ pc' = [w \in Worker |-> IF w \in Tasks(r) THEN "top" ELSE pc[w]]
    /\ reapDue' = reapDue \ Tasks(r)
    /\ signalled' = signalled \ {r}
    /\ UNCHANGED <<row, copy, running, told, budget>>

BackoffEnds(j) ==
    /\ status[j] = "pending" /\ j \notin due
    /\ due' = due \cup {j}
    /\ UNCHANGED <<status, lockedBy, expired, attempts, task, signalled, budget>>

ReapTimer(w) ==
    /\ pc[w] # "off" /\ w \notin reapDue
    /\ reapDue' = reapDue \cup {w}
    /\ UNCHANGED <<row, pc, copy, running, told, signalled, budget>>

Expire(j) ==
    /\ status[j] = "in_progress" /\ j \notin expired
    /\ expired' = expired \cup {j}
    /\ UNCHANGED <<status, due, lockedBy, attempts, task, signalled, faults, signals>>

\* Nobody will settle the row any more ...
OrphanExpires(j) == Orphaned(j) /\ Expire(j) /\ UNCHANGED overruns

\* ... or the batch has simply taken longer than STUCK_LOCK_SECS.
Overrun(j) ==
    /\ ~Orphaned(j) /\ Expire(j)
    /\ overruns < MaxOverruns /\ overruns' = overruns + 1

Next ==
    \/ \E j \in Job : Enqueue(j) \/ BackoffEnds(j) \/ OrphanExpires(j) \/ Overrun(j)
    \/ \E w \in Worker :
        \/ WorkerStep(w) \/ ReapTimer(w)
        \/ ReapFails(w) \/ ClaimFails(w) \/ FinishFails(w) \/ ReleaseFails(w)
    \/ \E r \in Replica : Signal(r) \/ Crash(r) \/ Start(r)

Spec == Init /\ [][Next]_vars

\* A task that can move does; clocks advance; a process that ended is started
\* again.  Nothing makes a fault, a signal or an overrun happen.
Fairness ==
    /\ \A w \in Worker : WF_vars(WorkerStep(w)) /\ WF_vars(ReapTimer(w))
    /\ \A j \in Job : WF_vars(BackoffEnds(j)) /\ WF_vars(OrphanExpires(j))
    /\ \A r \in Replica : WF_vars(Start(r))

FairSpec == Spec /\ Fairness

-----------------------------------------------------------------------------
(* Properties.                                                             *)

\* Every column and every local of run() keeps its type.
TypeOK ==
    /\ status \in [Job -> Status]
    /\ due \in SUBSET Job /\ expired \in SUBSET Job
    /\ lockedBy \in [Job -> Worker \cup {NoWorker}]
    /\ attempts \in [Job -> Nat]
    /\ pc \in [Worker -> Place]
    /\ copy \in [Worker -> [Job -> Nat]]
    /\ running \in [Worker -> Job \cup {NoJob}]
    /\ told \in SUBSET Worker /\ reapDue \in SUBSET Worker
    /\ signalled \in SUBSET Replica
    /\ faults \in 0..MaxFaults /\ signals \in 0..MaxSignals
    /\ overruns \in 0..MaxOverruns

\* No two workers dispatch one job at the same time: what the queue's own
\* header promises of SKIP LOCKED (migrations/006_jobs.sql:3-4).
NoDoubleProcessing ==
    \A v, w \in Worker : running[v] = running[w] /\ running[v] # NoJob => v = w

\* The promise is kept, through crashes, failed statements and shutdowns, as
\* long as no batch outlives STUCK_LOCK_SECS: a lock is reaped only when
\* nobody is left to work under it.
ExclusiveInTime == overruns = 0 => NoDoubleProcessing

Holders(j) == {w \in Worker : j \in Held(w)}

\* Those who hold j without a lock that stands.
Stale(j) == {w \in Holders(j) : lockedBy[j] # w \/ j \in expired}

\* Each batch that outlives its lock adds at most one worker to those that
\* hold a job with no lock to show for it, although complete, fail_retry and
\* fail_dead never look at the lock they clear; at most one more holds it.
DuplicatesAccounted ==
    \A j \in Job :
        /\ Cardinality(Stale(j)) <= overruns
        /\ Cardinality(Holders(j)) <= 1 + overruns

\* As long as every statement succeeds and no process crashes, a row in
\* progress is held by the worker that locked it, whatever the reaper, the
\* shutdown release and stale workers do: no row is left to the reaper.
LockedMeansHeld ==
    faults = 0 =>
      \A j \in Job : status[j] = "in_progress" => lockedBy[j] \in Worker /\ j \in Held(lockedBy[j])

\* The inductive core of the above.  A worker holds copies only while it works
\* through a batch; a row is locked exactly while it is in progress; and in
\* time every copy is of a row its holder has locked, no lock expires under
\* its holder, and the copy's `attempts` is the row's.
PlacesAgree ==
    \A w \in Worker :
        /\ pc[w] = "dispatch" => running[w] \in Held(w)
        /\ pc[w] # "dispatch" => running[w] = NoJob
        /\ pc[w] \notin {"batch", "dispatch"} => Held(w) = {}

LocksAgree ==
    /\ \A j \in Job : status[j] = "in_progress" <=> lockedBy[j] # NoWorker
    /\ \A j \in expired : status[j] = "in_progress"

HoldersInTime ==
    overruns = 0 =>
      /\ \A w \in Worker : \A j \in Held(w) : lockedBy[j] = w /\ copy[w][j] = attempts[j]
      /\ \A j \in expired : Orphaned(j)

OwnershipInv == PlacesAgree /\ LocksAgree /\ HoldersInTime /\ LockedMeansHeld

\* max_attempts bounds the claims of a job but for those the dispatch never
\* answered: one per fault, and one per worker per shutdown (the release of a
\* claimed job and the reaper do not look at max_attempts).
AttemptsAccounted ==
    overruns = 0 =>
      \A j \in Job : attempts[j] <= MaxAttempts + faults + signals * Cardinality(Worker)

\* Why: a message that is not yet read has not released its job yet, and a row
\* that may be claimed once more has a claim left.
Allowed == MaxAttempts + faults + signals * Cardinality(Worker) - Cardinality(told)

MayBeClaimed(j) ==
    status[j] \in {"absent", "pending"} \/ (status[j] = "in_progress" /\ Orphaned(j))

AttemptsInv ==
    /\ Cardinality(told) <= signals * Cardinality(Worker)
    /\ overruns = 0 =>
         \A j \in Job : attempts[j] <= IF MayBeClaimed(j) THEN Allowed - 1 ELSE Allowed

\* "Lifecycle: pending -> in_progress -> (completed | pending-with-backoff |
\* dead)" (migrations/006_jobs.sql:12): while no batch outlives its lock, a job
\* that ended stays ended.
FinalStaysInTime ==
    [][overruns' = 0 => \A j \in Job : status[j] \in Final => status'[j] = status[j]]_vars

-----------------------------------------------------------------------------
(* The queue implements JobExecution while no batch outlives its lock.     *)

Phase == [j \in Job |->
    CASE status[j] = "absent" -> "none"
      [] status[j] = "pending" -> "offered"
      [] status[j] = "in_progress" -> "given"
      [] OTHER -> "ended"]

Holder == [j \in Job |->
    IF lockedBy[j] \in Worker /\ j \in Held(lockedBy[j]) THEN lockedBy[j] ELSE NoWorker]

Execution == INSTANCE JobExecution WITH phase <- Phase, by <- Holder

\* With MaxOverruns = 0 every step of the queue is a step of JobExecution.
ImplementsExecution == Execution!Spec

\* Every job that is enqueued ends, though workers crash, statements fail,
\* notifications are lost and shutdowns release jobs.
EveryJobEnds == Execution!Ends
=============================================================================
