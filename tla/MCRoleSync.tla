------------------------------ MODULE MCRoleSync ------------------------------
(***************************************************************************)
(* An instance of RoleSync for TLC: the guild starts empty or full, and who *)
(* is in it changes later.                                                 *)
(***************************************************************************)
EXTENDS RoleSync

MCInit == Init /\ guild \in {{}, Member}

MCSpec == MCInit /\ [][Next]_vars
=============================================================================
