---------------------------- MODULE MCAccountFacts ----------------------------
(***************************************************************************)
(* An instance of AccountFactsCalm for TLC: one viewer follows the account *)
(* and is on its list and its starter pack; a second viewer, or a second   *)
(* list, comes or goes later.                                              *)
(***************************************************************************)
EXTENDS AccountFactsCalm

CONSTANTS v, l,
          MaxDisturbances  \* bound: changes, faults and unlinks together

MCInit ==
    /\ CalmInit
    /\ graph = [e \in Edge |-> IF e = "follower" THEN {v} ELSE {}]
    /\ live = {l} \cup Pack
    /\ onIt = [c \in Collection |-> {v}]

MCNext == CalmNext /\ changes' + faults' + unlinks' <= MaxDisturbances

MCSpec == MCInit /\ [][MCNext]_<<vars, calm>> /\ Fairness
=============================================================================
