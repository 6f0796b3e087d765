----------------------------- MODULE ProductOrder -----------------------------
(***************************************************************************)
(* The order store (product-order-store.ts): checkout groups, one vendor's *)
(* order per place command, and the moves the flows ask of an order, each  *)
(* one conditional write in a unit of work of its own.  Whoever calls is   *)
(* left open: any request may arrive at any time and again, as a step      *)
(* dispatched at least once does.  A unit that finds its command already   *)
(* claimed, or nothing to move, changes nothing and is not a step.         *)
(***************************************************************************)
EXTENDS Naturals, Sequences

CONSTANTS
  Groups,    \* checkout groups, under the ids of the flows that open them
  OrderIds,  \* ids an order may be given (random in the code)
  Commands,  \* idempotency keys
  Captures   \* payment.captured events

None == "none"

VARIABLES
  groups,   \* group -> whether it is open, and the orders it lists
  orders,   \* order id -> the order stored under it
  claimed,  \* the command and event claims the store's units took
  closing,  \* `closed` requests between their read and their unit
  outbox    \* order id -> what was announced of it, in order

vars == <<groups, orders, claimed, closing, outbox>>

-----------------------------------------------------------------------------
Statuses == {"pending", "paid", "confirmed", "cancelling", "dispatched",
             "fulfilled", "cancelled"}

(* order-transition.ts *)
After ==
  [confirm           |-> [pending |-> "confirmed", paid |-> "confirmed"],
   mark_dispatched   |-> [confirmed |-> "dispatched"],
   close_fulfilled   |-> [dispatched |-> "fulfilled"],
   close_cancelled   |-> [dispatched |-> "cancelled"],
   claim_cancel      |-> [paid |-> "cancelling", confirmed |-> "cancelling"],
   settle_cancel     |-> [cancelling |-> "cancelled"]]

Before(transition) == DOMAIN After[transition]

(* The moves a flow asks for by name; the two halves of a cancellation have  *)
(* handlers of their own.                                                    *)
Moves == {"confirm", "mark_dispatched", "close_fulfilled", "close_cancelled"}

Unplaced == [status |-> None]

Order == [status : Statuses \cup {"removed"}, group : Groups, by : Commands,
          claimedFrom : {None} \cup Before("claim_cancel"), paidAt : BOOLEAN]

CloseRequest == [order : OrderIds, command : Commands, claimHeld : BOOLEAN]

Event == [name : {"order.placed", "order.cancelled"}, version : 1 .. 2]

Placed(o) == orders[o].status \in Statuses

(* Every order has a listed status and announces only versions the status   *)
(* table gives it; a group lists ids of orders.                             *)
TypeOK ==
  /\ groups \in [Groups -> [state : {"unopened", "open", "removed"},
                            orderIds : SUBSET OrderIds]]
  /\ orders \in [OrderIds -> Order \cup {Unplaced}]
  /\ claimed \in SUBSET (Commands \cup (Captures \X OrderIds))
  /\ closing \in SUBSET CloseRequest
  /\ outbox \in [OrderIds -> Seq(Event)]

Init ==
  /\ groups = [g \in Groups |-> [state |-> "unopened", orderIds |-> {}]]
  /\ orders = [o \in OrderIds |-> Unplaced]
  /\ claimed = {}
  /\ closing = {}
  /\ outbox = [o \in OrderIds |-> <<>>]

(* A bug in the next definition: the versions start at zero. *)
VersionFromZero(name) == IF name = "order.placed" THEN 0 ELSE 1

(* A vendor order's announced life is linear, so each name is a version. *)
Version(name) == IF name = "order.placed" THEN 1 ELSE 2

Announce(o, name) ==
  outbox' = [outbox EXCEPT ![o] =
    Append(@, [name |-> name, version |-> Version(name)])]

-----------------------------------------------------------------------------
(* Checkout groups *)

(* `open`: under the flow's own id, claimed on the command that opened it. *)
OpenGroup(g) ==
  /\ groups[g].state = "unopened"
  /\ groups' = [groups EXCEPT ![g].state = "open"]
  /\ UNCHANGED <<orders, claimed, closing, outbox>>

(* The checkout's compensation. *)
RemoveGroup(g) ==
  /\ groups[g].state = "open"
  /\ groups' = [groups EXCEPT ![g] = [state |-> "removed", orderIds |-> {}]]
  /\ UNCHANGED <<orders, claimed, closing, outbox>>

-----------------------------------------------------------------------------
(* Placing an order, and its compensation *)

(* Bugs in the next definition: a redelivered command places a second order, *)
(* or the order is inserted and its group never told.                        *)
PlaceUnclaimed(g, c) ==
  /\ groups[g].state = "open"
  /\ \E o \in OrderIds :
       /\ orders[o] = Unplaced
       /\ orders' = [orders EXCEPT ![o] =
            [status |-> "pending", group |-> g, by |-> c,
             claimedFrom |-> None, paidAt |-> FALSE]]
       /\ groups' = [groups EXCEPT ![g].orderIds = @ \cup {o}]
       /\ Announce(o, "order.placed")
  /\ claimed' = claimed \cup {c}
  /\ UNCHANGED closing

PlaceUnlisted(g, c) ==
  /\ c \notin claimed
  /\ groups[g].state = "open"
  /\ \E o \in OrderIds :
       /\ orders[o] = Unplaced
       /\ orders' = [orders EXCEPT ![o] =
            [status |-> "pending", group |-> g, by |-> c,
             claimedFrom |-> None, paidAt |-> FALSE]]
       /\ Announce(o, "order.placed")
  /\ claimed' = claimed \cup {c}
  /\ UNCHANGED <<closing, groups>>

(* `place`: the order joins its group and is announced in the unit that      *)
(* inserts it; a group nobody opened refuses it.                             *)
Place(g, c) ==
  /\ c \notin claimed
  /\ groups[g].state = "open"
  /\ \E o \in OrderIds :
       /\ orders[o] = Unplaced
       /\ orders' = [orders EXCEPT ![o] =
            [status |-> "pending", group |-> g, by |-> c,
             claimedFrom |-> None, paidAt |-> FALSE]]
       /\ groups' = [groups EXCEPT ![g].orderIds = @ \cup {o}]
       /\ Announce(o, "order.placed")
  /\ claimed' = claimed \cup {c}
  /\ UNCHANGED closing

(* `remove`: the document goes, whatever it stood at; its group still lists  *)
(* it and nothing is announced.                                              *)
Remove(o) ==
  /\ Placed(o)
  /\ orders' = [orders EXCEPT ![o].status = "removed"]
  /\ UNCHANGED <<groups, claimed, closing, outbox>>

-----------------------------------------------------------------------------
(* Moves *)

CanMove(o, transition) == orders[o].status \in Before(transition)

(* `move`, committed.  One move ends an order and announces it. *)
Move(o, transition, c) ==
  /\ c \notin claimed
  /\ CanMove(o, transition)
  /\ LET to == After[transition][orders[o].status]
     IN  /\ orders' = [orders EXCEPT ![o].status = to]
         /\ IF to = "cancelled" THEN Announce(o, "order.cancelled")
                                ELSE UNCHANGED outbox
  /\ claimed' = claimed \cup {c}
  /\ UNCHANGED groups

(* `payment.captured`, one claim per allocation: an order no longer pending  *)
(* is left as it is and the claim is kept.                                   *)
MarkPaid(o, e) ==
  /\ <<e, o>> \notin claimed
  /\ orders' = IF orders[o].status = "pending"
               THEN [orders EXCEPT ![o].status = "paid", ![o].paidAt = TRUE]
               ELSE orders
  /\ claimed' = claimed \cup {<<e, o>>}
  /\ UNCHANGED <<groups, closing, outbox>>

-----------------------------------------------------------------------------
(* A cancellation's claim *)

(* A bug in the next definition: what it was claimed from is not kept, and   *)
(* the release takes every order for a paid one.                             *)
ClaimFromPaid(o, c) ==
  /\ c \notin claimed
  /\ CanMove(o, "claim_cancel")
  /\ orders' = [orders EXCEPT ![o].status = "cancelling",
                              ![o].claimedFrom = "paid"]
  /\ claimed' = claimed \cup {c}
  /\ UNCHANGED <<groups, closing, outbox>>

(* `claimCancellation`: the status it was claimed from is remembered. *)
ClaimCancellation(o, c) ==
  /\ c \notin claimed
  /\ CanMove(o, "claim_cancel")
  /\ orders' = [orders EXCEPT ![o].status = "cancelling",
                              ![o].claimedFrom = orders[o].status]
  /\ claimed' = claimed \cup {c}
  /\ UNCHANGED <<groups, closing, outbox>>

(* `releaseCancellation`: a plain conditional update, claiming nothing. *)
ReleaseCancellation(o) ==
  /\ orders[o].status = "cancelling"
  /\ orders' = [orders EXCEPT ![o].status = orders[o].claimedFrom,
                              ![o].claimedFrom = None]
  /\ UNCHANGED <<groups, claimed, closing, outbox>>

(* The `closed` handler asked for `cancelled` reads the order first, and     *)
(* settles a claim or closes a parcel by what it read.  A repeated command   *)
(* ends the same way whatever it reads: its unit finds it claimed.           *)
ReadForClose(o, c) ==
  /\ c \notin claimed
  /\ Placed(o)
  /\ closing' = closing \cup
       {[order |-> o, command |-> c, claimHeld |-> orders[o].status = "cancelling"]}
  /\ UNCHANGED <<groups, orders, claimed, outbox>>

(* `settleCancellation`, committed. *)
SettleCancellation(k) ==
  /\ k.claimHeld
  /\ k.command \notin claimed
  /\ CanMove(k.order, "settle_cancel")
  /\ orders' = [orders EXCEPT ![k.order].status = "cancelled"]
  /\ Announce(k.order, "order.cancelled")
  /\ claimed' = claimed \cup {k.command}
  /\ closing' = closing \ {k}
  /\ UNCHANGED groups

CloseParcel(k) ==
  /\ ~k.claimHeld
  /\ Move(k.order, "close_cancelled", k.command)
  /\ closing' = closing \ {k}

(* Refused, answered as it stands, failed, or dead before its unit. *)
CloseEnds(k) ==
  /\ closing' = closing \ {k}
  /\ UNCHANGED <<groups, orders, claimed, outbox>>

-----------------------------------------------------------------------------
Next ==
  \/ \E g \in Groups : OpenGroup(g) \/ RemoveGroup(g)
  \/ \E g \in Groups, c \in Commands : Place(g, c)
  \/ \E o \in OrderIds : Remove(o) \/ ReleaseCancellation(o)
  \/ \E o \in OrderIds, e \in Captures : MarkPaid(o, e)
  \/ \E o \in OrderIds, c \in Commands :
       \/ ClaimCancellation(o, c)
       \/ ReadForClose(o, c)
       \/ \E t \in Moves \ {"close_cancelled"} : Move(o, t, c) /\ UNCHANGED closing
  \/ \E k \in closing : SettleCancellation(k) \/ CloseParcel(k) \/ CloseEnds(k)

Spec == Init /\ [][Next]_vars

-----------------------------------------------------------------------------
(* Properties *)

(* However often a place step is delivered, one order comes of it: a buyer   *)
(* is not sold the same basket twice.                                        *)
OneOrderPerCommand ==
  \A o, p \in OrderIds :
    (orders[o] # Unplaced /\ orders[p] # Unplaced /\ orders[o].by = orders[p].by)
      => o = p

(* A vendor's concurrent writes into one group never lose each other: every  *)
(* order standing in an open group is on that group's receipt, and on no     *)
(* other.                                                                    *)
ListedByItsGroup ==
  \A o \in OrderIds, g \in Groups :
    (Placed(o) /\ groups[g].state = "open") =>
      (o \in groups[g].orderIds <=> orders[o].group = g)

(* An order's announcements carry the versions 1, 2, ... in the order they   *)
(* are made, whatever rivals, redeliveries and late answers did to it: a     *)
(* consumer ordering by version never drops one.                             *)
VersionsFollow ==
  \A o \in OrderIds :
    \A i \in 1 .. Len(outbox[o]) : outbox[o][i].version = i

StandOf(order) ==
  CASE order.status = None         -> "unplaced"
    [] order.status = "removed"    -> "undone"
    [] order.status = "cancelling" -> order.claimedFrom
    [] OTHER                       -> order.status

Life == INSTANCE OrderLife WITH
  Orders <- OrderIds,
  stand  <- [o \in OrderIds |-> StandOf(orders[o])],
  locked <- [o \in OrderIds |-> orders[o].status = "cancelling"],
  told   <- [o \in OrderIds |-> Len(outbox[o])]

(* Every behaviour of the store is a life of its orders: a claim let go      *)
(* leaves an order where it stood, a claimed order does not move, and the    *)
(* end is told once.                                                         *)
ImplementsLife == Life!Spec
=============================================================================
