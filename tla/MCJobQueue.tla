----------------------------- MODULE MCJobQueue -----------------------------
(* Small instances of JobQueue.                                            *)
EXTENDS JobQueue, TLC

CONSTANTS a, b, c, p, q

\* Two tasks of one process; and two of one and one of another.
OneProcess == [w \in {a, b} |-> p]
TwoProcesses == (a :> p) @@ (b :> p) @@ (c :> q)
=============================================================================
