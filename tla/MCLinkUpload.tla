---------------------------- MODULE MCLinkUpload ----------------------------
(***************************************************************************)
(* An instance of LinkUpload for TLC: the empty list, one that fits a PUT  *)
(* and one of two chunks.                                                  *)
(***************************************************************************)
EXTENDS LinkUpload

CONSTANTS few, many

MCList == {Nobody, few, many}
MCSize == [l \in MCList |-> CASE l = Nobody -> 0 [] l = few -> 1 [] l = many -> 2]
=============================================================================
