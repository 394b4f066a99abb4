---------------------------- MODULE JobExecution ----------------------------
(***************************************************************************)
(* What the queue owes the code that enqueues a job and the code a worker  *)
(* dispatches: an offered job is given to one worker at a time, it comes   *)
(* back only from the worker that has it or after that worker is gone, it  *)
(* ends once, and it does end.                                             *)
(***************************************************************************)
CONSTANTS
    Job, Worker,
    NoWorker  \* not one of Worker

VARIABLES
    phase,  \* "none", "offered", "given", "ended"
    by      \* the worker that has the job, NoWorker when none does

evars == <<phase, by>>

Init ==
    /\ phase = [j \in Job |-> "none"]
    /\ by = [j \in Job |-> NoWorker]

Offer(j) ==
    /\ phase[j] = "none"
    /\ phase' = [phase EXCEPT ![j] = "offered"]
    /\ UNCHANGED by

\* A batch of offered jobs is given to a worker, or given and lost on the way.
Give(w, batch) ==
    /\ \A j \in batch : phase[j] = "offered"
    /\ phase' = [j \in Job |-> IF j \in batch THEN "given" ELSE phase[j]]
    /\ by' = [j \in Job |-> IF j \in batch THEN w ELSE by[j]]

\* The worker that has the job ends it or hands it back.
Return(j) ==
    /\ by[j] # NoWorker
    /\ \E next \in {"offered", "ended"} : phase' = [phase EXCEPT ![j] = next]
    /\ by' = [by EXCEPT ![j] = NoWorker]

\* Workers disappear with what they had ...
Abandon(lost) ==
    /\ by' = [j \in Job |-> IF j \in lost THEN NoWorker ELSE by[j]]
    /\ UNCHANGED phase

\* ... and only what nobody has is offered again.
Recover(found) ==
    /\ \A j \in found : phase[j] = "given" /\ by[j] = NoWorker
    /\ phase' = [j \in Job |-> IF j \in found THEN "offered" ELSE phase[j]]
    /\ UNCHANGED by

Next ==
    \/ \E j \in Job : Offer(j) \/ Return(j)
    \/ \E batch \in SUBSET Job :
        \/ \E w \in Worker \cup {NoWorker} : Give(w, batch)
        \/ Abandon(batch) \/ Recover(batch)

Spec == Init /\ [][Next]_evars

\* Every offered job ends.
Ends == \A j \in Job : phase[j] = "offered" ~> phase[j] = "ended"
=============================================================================
