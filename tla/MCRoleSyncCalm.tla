---------------------------- MODULE MCRoleSyncCalm ----------------------------
(***************************************************************************)
(* The instance of MCRoleSync with the calm syncs watched, under the       *)
(* fairness of RoleSync.                                                   *)
(***************************************************************************)
EXTENDS RoleSyncCalm

MCCalmInit == CalmInit /\ guild \in {{}, Member}

MCCalmSpec == MCCalmInit /\ [][CalmNext]_<<vars, calm>> /\ Fairness
=============================================================================
