----------------------------- MODULE MCSettlement -----------------------------
(***************************************************************************)
(* A small instance of Settlement for TLC: a card order, which may be      *)
(* refunded in one or in two parts, and a cash order, of one vendor in one *)
(* currency, in two, of two vendors, or with the cash order's vendor yet   *)
(* to agree on its terms.                                                  *)
(***************************************************************************)
EXTENDS Settlement, TLC

CONSTANTS a, b

Card == [vendor |-> "v1", method |-> "card", price |-> 5, cut |-> 3, part |-> 2,
         currency |-> "EUR", priced |-> TRUE]

Cash == [vendor |-> "v1", method |-> "cod", price |-> 3, cut |-> 1, part |-> 0,
         currency |-> "EUR", priced |-> TRUE]

MCPlacements ==
  {(a :> Card) @@ (b :> other) :
     other \in {Cash,
                [Cash EXCEPT !.currency = "GBP"],
                [Cash EXCEPT !.vendor = "v2", !.currency = "GBP"],
                [Cash EXCEPT !.vendor = "v2", !.priced = FALSE]}}
=============================================================================
