----------------------------- MODULE MCOrderFlows -----------------------------
(***************************************************************************)
(* Small instances of OrderFlows for TLC.                                  *)
(***************************************************************************)
EXTENDS OrderFlows, TLC

(* Cash is collected by a courier, so cash on delivery is always shipped.    *)
MCEveryPlacement ==
  {p \in Placement : p.method = "cod" => p.channel = "shipped"}

(* Without symmetry: a parcel paid for in cash, and a card at a counter.     *)
MCLive == {[method |-> "cod", channel |-> "shipped"],
           [method |-> "card", channel |-> "counter"]}

(* Flows of a kind are alike. *)
Names == Permutations(Cancellations) \cup Permutations(Deliveries)
=============================================================================
