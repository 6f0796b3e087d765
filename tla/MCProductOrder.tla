---------------------------- MODULE MCProductOrder ----------------------------
(***************************************************************************)
(* A small instance of ProductOrder for TLC.                               *)
(***************************************************************************)
EXTENDS ProductOrder, TLC

(* Nothing orders or compares the ids and the keys. *)
Names == Permutations(OrderIds) \cup Permutations(Commands) \cup Permutations(Groups)
=============================================================================
