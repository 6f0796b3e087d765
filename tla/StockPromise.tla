---------------------------- MODULE StockPromise ----------------------------
(***************************************************************************)
(* What a vendor's stock promises to buyers, with no counters, no ledger,  *)
(* no requests in flight and no clock: an amount of each offering is free, *)
(* a promise takes its quantity out of what is free and only from there,   *)
(* and every promise is then either kept (the goods leave: nothing becomes *)
(* free) or withdrawn (its quantity becomes free again), once.             *)
(* StockLedger implements it with free = onHand - reserved.                *)
(***************************************************************************)
EXTENDS Integers

CONSTANTS
  Offerings,
  Promises,  \* the promises that may ever be made
  Sizes,     \* the quantities one promise may take
  Supplies   \* the signed amounts that arrive or go

VARIABLES free,      \* [Offerings -> Int]: what is left to promise
          promise    \* [Promises -> record]: its state, offering and quantity

vars == <<free, promise>>

Unmade == [status |-> "unmade"]

Made(status, o, q) == [status |-> status, offering |-> o, quantity |-> q]

Init ==
  /\ free = [o \in Offerings |-> 0]
  /\ promise = [p \in Promises |-> Unmade]

(* A promise is made only out of what is free. *)
Make(p, o, q) ==
  /\ promise[p] = Unmade
  /\ q <= free[o]
  /\ promise' = [promise EXCEPT ![p] = Made("promised", o, q)]
  /\ free' = [free EXCEPT ![o] = @ - q]

(* The promised goods are handed over. *)
Keep(p) ==
  /\ promise[p].status = "promised"
  /\ promise' = [promise EXCEPT ![p].status = "kept"]
  /\ UNCHANGED free

(* The promise is called off and its quantity becomes free again. *)
Withdraw(p) ==
  /\ promise[p].status = "promised"
  /\ promise' = [promise EXCEPT ![p].status = "withdrawn"]
  /\ free' = [free EXCEPT ![promise[p].offering] = @ + promise[p].quantity]

(* Goods arrive, come back, are counted again or are lost: the one way what *)
(* is free may become negative.                                             *)
Supply(o, q) ==
  /\ free' = [free EXCEPT ![o] = @ + q]
  /\ UNCHANGED promise

Next ==
  \/ \E p \in Promises, o \in Offerings, q \in Sizes : Make(p, o, q)
  \/ \E p \in Promises : Keep(p) \/ Withdraw(p)
  \/ \E o \in Offerings, q \in Supplies : Supply(o, q)

Spec == Init /\ [][Next]_vars
=============================================================================
