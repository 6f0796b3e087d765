---------------------------- MODULE MCPaymentLedger ----------------------------
(***************************************************************************)
(* A small instance of PaymentLedger for TLC: a basket of two card orders, *)
(* a courier's collection that names the second of them too, and refunds   *)
(* of the first: one of a part of it, and two of whatever is left.         *)
(***************************************************************************)
EXTENDS PaymentLedger, TLC

CONSTANTS a, b, capture, collection, part, rest, again

MCShares == (capture :> (a :> 2 @@ b :> 1)) @@ (collection :> (a :> 0 @@ b :> 1))

MCRefundOf ==
  (part :> [order |-> a, amount |-> 1])
    @@ [c \in {rest, again} |-> [order |-> a, amount |-> 0]]

(* Nothing orders or compares handler runs, nor the two alike refunds. *)
Names == Permutations(Deliveries) \cup Permutations({rest, again})
=============================================================================
