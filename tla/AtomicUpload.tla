---------------------------- MODULE AtomicUpload ----------------------------
(***************************************************************************)
(* What upload_users (services/rolelogic.rs) promises the sync that calls  *)
(* it: RoleLogic's list is replaced at one instant by the whole list that *)
(* was handed over, before the call says so.  A call that fails may have   *)
(* had its effect or, where the client gave up waiting, have it yet.  A    *)
(* sync may look no deeper than this; RoleSync looks less deep still and   *)
(* leaves the late effect out.                                             *)
(***************************************************************************)
CONSTANTS
    Caller,
    Value,     \* the lists that can be uploaded
    Nothing    \* the list of a new link

VARIABLES
    list,      \* RoleLogic's list
    late,      \* lists whose callers were told of a failure and that
               \* RoleLogic may store all the same
    call       \* call[c]: the state of c's upload and its list

vars == <<list, late, call>>

Idle == [state |-> "idle", value |-> Nothing]

Init ==
    /\ list = Nothing /\ late = {}
    /\ call = [c \in Caller |-> Idle]

Ask(c) ==
    /\ call[c].state = "idle"
    /\ \E v \in Value : call' = [call EXCEPT ![c] = [state |-> "asked", value |-> v]]
    /\ UNCHANGED <<list, late>>

Write(c) ==
    /\ call[c].state = "asked"
    /\ list' = call[c].value
    /\ call' = [call EXCEPT ![c] = [@ EXCEPT !.state = "done"]]
    /\ UNCHANGED late

Succeed(c) ==
    /\ call[c].state = "done"
    /\ call' = [call EXCEPT ![c] = Idle]
    /\ UNCHANGED <<list, late>>

Fail(c) ==
    /\ call[c].state = "asked"
    /\ late' = late \/ late' = late \cup {call[c].value}
    /\ call' = [call EXCEPT ![c] = Idle]
    /\ UNCHANGED list

WriteLate ==
    /\ \E v \in late : list' = v /\ late' = late \ {v}
    /\ UNCHANGED call

\* The link is deleted.
Clear ==
    /\ list' = Nothing /\ late' = {}
    /\ UNCHANGED call

Next ==
    \/ \E c \in Caller : Ask(c) \/ Write(c) \/ Succeed(c) \/ Fail(c)
    \/ WriteLate \/ Clear

Spec == Init /\ [][Next]_vars
=============================================================================
