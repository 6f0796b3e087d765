---------------------------- MODULE MCCheckoutFlow ----------------------------
(***************************************************************************)
(* A small instance of CheckoutFlow for TLC.                               *)
(***************************************************************************)
EXTENDS CheckoutFlow, TLC

CONSTANTS v1, v2

(* All by card, all on delivery, and one of each. *)
MCTenders ==
  {[v \in Vendors |-> "card"], [v \in Vendors |-> "cod"],
   [v \in Vendors |-> IF v = v1 THEN "card" ELSE "cod"]}
=============================================================================
