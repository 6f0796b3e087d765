--------------------------- MODULE OrderFlowsProofs ---------------------------
(***************************************************************************)
(* Theorems about OrderFlows, for any number of cancellations and          *)
(* deliveries, any way of placing the order and any number of attempts.    *)
(* Each of its steps is a step of the order store or leaves the store      *)
(* alone, so what ProductOrderProofs shows of the store holds here.        *)
(***************************************************************************)
EXTENDS OrderFlows, FiniteSetTheorems, SequenceTheorems, TLAPS

P == INSTANCE ProductOrderProofs WITH
  Groups <- {G}, OrderIds <- {O}, Commands <- Commands, Captures <- {"captured"}

-----------------------------------------------------------------------------
(* What a flow has left to do, and what it has done *)

Elements(todo) == {todo[i] : i \in 1 .. Len(todo)}

OrderSteps == {"confirm", "mark", "close_fulfilled", "claim", "close_cancelled"}

ShipSteps == {"open", "hold", "withdraw", "dispatch", "release"}

(* The steps of a flow that took place, whether or not it heard so. *)
Done(f) ==
  {s \in OrderSteps : <<f, s>> \in claimed} \cup {s \in ShipSteps : <<f, s>> \in shipClaimed}
    \cup {s \in {"restore"} : f \in restored} \cup {s \in {"refund"} : refundedBy = f}
    \cup {s \in {"unclaim"} : f \in edge}

(* Where a slip of each kind may stand. *)
CheckoutTodos(channel) ==
  CASE channel = "shipped"   -> {<<>>, <<"open">>, <<"confirm", "open">>,
                                 <<"convert", "confirm", "open">>}
    [] channel = "unshipped" -> {<<>>, <<"confirm">>, <<"convert", "confirm">>}
    [] channel = "counter"   -> {<<>>, <<"close_fulfilled">>, <<"mark", "close_fulfilled">>,
                                 <<"confirm", "mark", "close_fulfilled">>,
                                 <<"convert", "confirm", "mark", "close_fulfilled">>}

CancellationTodos(pivot) ==
  {<<>>, <<"close_cancelled">>, <<"restore", "close_cancelled">>,
   <<pivot, "restore", "close_cancelled">>,
   <<"claim", pivot, "restore", "close_cancelled">>,
   <<"withdraw", "close_cancelled">>, <<"restore", "withdraw", "close_cancelled">>,
   <<pivot, "restore", "withdraw", "close_cancelled">>,
   <<"claim", pivot, "restore", "withdraw", "close_cancelled">>,
   <<"hold", "claim", pivot, "restore", "withdraw", "close_cancelled">>}

DeliveryTodos(card) ==
  {<<>>, <<"await_delivery">>, <<"mark", "await_delivery">>,
   <<"dispatch", "mark", "await_delivery">>, <<"close_fulfilled">>}
  \cup IF card
       THEN {<<"refund">>, <<"close_cancelled", "refund">>,
             <<"restore", "close_cancelled", "refund">>,
             <<"await_return", "restore", "close_cancelled", "refund">>}
       ELSE {<<"collect", "close_fulfilled">>, <<"close_cancelled">>,
             <<"restore", "close_cancelled">>,
             <<"await_return", "restore", "close_cancelled">>}

(* A step still left was not taken, unless it is the one that is asked for.  *)
Ahead(r, done) ==
  \A s \in done \cap Elements(r.todo) : s = Head(r.todo)

(* How a flow stands that turned back before its commit point.               *)
Turned == {"undoing", "undone", "uncompensated"}

Undos == {<<>>, <<"release">>, <<"unclaim">>, <<"unclaim", "release">>}

(* How far a cancellation is, and what it has done by then: what is behind   *)
(* it is done, and what it held is let go or still to undo.                  *)
CancellationOK(r, done, pivot) ==
  LET left == Elements(r.todo)
      unclaims == r.undo \in {<<"unclaim">>, <<"unclaim", "release">>}
      releases == r.undo \in {<<"release">>, <<"unclaim", "release">>}
  IN  \/ r = Unstarted /\ done = {}
      \/ /\ r \in Flow /\ r.mode \notin {"unstarted", "stranded"}
         /\ r.todo \in CancellationTodos(pivot) /\ r.undo \in Undos
         /\ r.past <=> pivot \notin left
         /\ r.mode = "completed" <=> r.todo = <<>>
         /\ r.mode \in Turned => ~r.past
         /\ r.mode \in {"undoing", "uncompensated"} => r.undo # <<>>
         /\ r.mode = "undone" => r.undo = <<>>
         /\ Ahead(r, done)
         /\ "withdraw" \in left /\ "hold" \notin left => "hold" \in done
         /\ "hold" \in done /\ "withdraw" \notin left => "withdraw" \in done
         /\ "withdraw" \in done => "hold" \in done /\ left \subseteq {"withdraw", "close_cancelled"}
         /\ "claim" \notin left => "claim" \in done
         /\ "refund" \in done => pivot = "refund" /\ r.mode \notin Turned
         /\ pivot = "refund" /\ "refund" \notin left => "refund" \in done
         /\ "restore" \notin left => "restore" \in done
         /\ "close_cancelled" \notin left => "close_cancelled" \in done
         /\ unclaims => "claim" \in done \ left
         /\ "claim" \in done \ left /\ ~unclaims => "unclaim" \in done
         /\ "unclaim" \in done => "claim" \in done /\ r.mode \in Turned
         /\ releases => "hold" \in done \ left
         /\ "hold" \in done \ left /\ ~releases => "release" \in done
         /\ "release" \in done =>
              "hold" \in done /\ ~unclaims /\ r.mode \in Turned

(* The same of a delivery: past its dispatch, it has nothing to undo.        *)
DeliveryOK(r, done, card) ==
  LET left == Elements(r.todo)
  IN  \/ r = Unstarted /\ done = {}
      \/ /\ r \in Flow /\ r.mode \in {"running", "completed", "undone", "stranded", "suspended"}
         /\ r.todo \in DeliveryTodos(card) /\ r.undo = <<>>
         /\ r.past <=> "dispatch" \notin left
         /\ r.mode = "completed" <=> r.todo = <<>>
         /\ r.mode = "undone" => ~r.past
         /\ r.mode = "stranded" => r.past
         /\ Ahead(r, done)
         /\ "dispatch" \notin left => "dispatch" \in done
         /\ "mark" \notin left => "mark" \in done
         /\ left = {} => done \cap {"close_fulfilled", "close_cancelled"} # {}
         /\ "close_fulfilled" \in done => "restore" \notin done /\ left \subseteq {"close_fulfilled"}
         /\ "restore" \in done => left \subseteq {"restore", "close_cancelled", "refund"}
         /\ left # {} /\ left \subseteq {"close_cancelled", "refund"} => "restore" \in done
         /\ left = {} /\ "restore" \in done => "close_cancelled" \in done
         /\ "close_cancelled" \in done =>
              "restore" \in done /\ left \subseteq {"close_cancelled", "refund"}
         /\ left = {"refund"} => "close_cancelled" \in done
         /\ "refund" \in done => card /\ "close_cancelled" \in done /\ left \subseteq {"refund"}
         /\ left = {} /\ "close_cancelled" \in done /\ card => "refund" \in done

(* And of the checkout, which rolls forward only.                            *)
CheckoutOK(r, done, channel) ==
  LET left == Elements(r.todo)
  IN  /\ r \in Flow /\ r.mode \in {"running", "completed", "stranded", "suspended"}
      /\ r.todo \in CheckoutTodos(channel) /\ r.undo = <<>> /\ r.past
      /\ r.mode = "completed" <=> r.todo = <<>>
      /\ Ahead(r, done)
      /\ "confirm" \notin left => "confirm" \in done
      /\ "open" \in done => channel = "shipped"
      /\ channel = "shipped" /\ "open" \notin left => "open" \in done
      /\ "mark" \in done => channel = "counter"
      /\ channel = "counter" /\ "mark" \notin left => "mark" \in done
      /\ "close_fulfilled" \in done => channel = "counter"
      /\ channel = "counter" /\ "close_fulfilled" \notin left => "close_fulfilled" \in done

(* How flow f stands that was to do with an order placed as p.               *)
SlipAt(f, r, done, p) ==
  /\ f = Checkout => CheckoutOK(r, done, p.channel)
  /\ f \in Cancellations =>
       CancellationOK(r, done, IF p.method = "card" THEN "refund" ELSE "commit")
  /\ f \in Deliveries => DeliveryOK(r, done, p.method = "card")

DoneBy == [f \in Flows |-> Done(f)]

SlipsOK == \A f \in Flows : SlipAt(f, flows[f], DoneBy[f], placed)

-----------------------------------------------------------------------------
(* What the flows' steps made of the records they share *)

Closers == {Checkout} \cup Deliveries

(* A cancellation whose claim stands, or was settled. *)
Holds(D, c) == "claim" \in D[c] /\ "unclaim" \notin D[c]

(* The order is claimed by one cancellation at a time, from where it was     *)
(* confirmed or from where it was not yet, and marked and closed by one flow.*)
OrderAt(status, from, D) ==
  /\ \A c, e \in Cancellations : Holds(D, c) /\ Holds(D, e) => c = e
  /\ status = "cancelling" <=>
       \E c \in Cancellations : Holds(D, c) /\ "close_cancelled" \notin D[c]
  /\ IF "confirm" \in D[Checkout]
     THEN /\ status \in {"confirmed", "cancelling", "dispatched", "fulfilled", "cancelled"}
          /\ status = "cancelling" => from = "confirmed"
     ELSE /\ status \in {"pending", "paid", "cancelling", "cancelled"}
          /\ status = "cancelling" => from = "paid"
  /\ \A f \in Closers : "mark" \in D[f] =>
       /\ status \in {"dispatched", "fulfilled", "cancelled"}
       /\ \A c \in Cancellations : ~Holds(D, c)
  /\ status \in {"dispatched", "fulfilled"} => \E f \in Closers : "mark" \in D[f]
  /\ \A f \in Closers : "close_fulfilled" \in D[f] => status = "fulfilled"
  /\ status = "fulfilled" => \E f \in Closers : "close_fulfilled" \in D[f]
  /\ \A f \in Cancellations \cup Deliveries :
       "close_cancelled" \in D[f] => status = "cancelled"
  /\ status = "cancelled" =>
       \E f \in Cancellations \cup Deliveries : "close_cancelled" \in D[f]

OrderOK == OrderAt(orders[O].status, orders[O].claimedFrom, DoneBy)

(* A `closed` request is its flow's only one, and what it read still stands. *)
ClosingOK ==
  \A k \in closing :
    /\ k.command[1] \in Cancellations \cup Deliveries
    /\ k = [order |-> O, command |-> <<k.command[1], "close_cancelled">>,
            claimHeld |-> k.command[1] \in Cancellations]
    /\ Asked(k.command[1], "close_cancelled")
    /\ "close_cancelled" \notin DoneBy[k.command[1]]

Gone == {"dispatched", "delivered", "refused", "returned"}

(* A cancellation the shipment waits for, or waited for to the end. *)
HoldsParcel(D, c) == "hold" \in D[c] /\ "release" \notin D[c]

(* The shipment is held by one cancellation at a time, until it is released  *)
(* or withdrawn, or dispatched by one delivery.                              *)
ParcelAt(parcel, D) ==
  /\ parcel # None <=> "open" \in D[Checkout]
  /\ \A c, e \in Cancellations : HoldsParcel(D, c) /\ HoldsParcel(D, e) => c = e
  /\ \A c \in Cancellations : HoldsParcel(D, c) =>
       parcel = IF "withdraw" \in D[c] THEN "withdrawn" ELSE "held"
  /\ parcel \in {"held", "withdrawn"} => \E c \in Cancellations : HoldsParcel(D, c)
  /\ \A d, e \in Deliveries : "dispatch" \in D[d] /\ "dispatch" \in D[e] => d = e
  /\ parcel \in Gone <=> \E d \in Deliveries : "dispatch" \in D[d]
  /\ \A c \in Cancellations : "hold" \in D[c] => parcel # None

ParcelOK ==
  /\ shipments[O] = Ship!Unopened <=> shipments[O].status = None
  /\ ParcelAt(shipments[O].status, DoneBy)

(* A delivery with this left to do heard, and did, what its parcel met with. *)
CourierAt(left, done, card, parcel, cash) ==
  /\ "close_fulfilled" \in left \cup done => parcel = "delivered"
  /\ "close_fulfilled" \in done \/ ("close_fulfilled" \in left /\ "collect" \notin left) =>
       card \/ cash
  /\ left # {} /\ left \subseteq {"restore", "close_cancelled", "refund"} => parcel = "returned"
  /\ "restore" \in done => parcel = "returned"

CourierOK ==
  LET parcel == shipments[O].status
  IN  /\ signals["delivered"] > 0 => parcel = "delivered"
      /\ signals["returned"] > 0 => parcel = "returned"
      /\ collected => parcel = "delivered"
      /\ \A d \in Deliveries :
           CourierAt(Elements(flows[d].todo), DoneBy[d], placed.method = "card", parcel, collected)

(* The announcements of a parcel so far. *)
Said(parcel) ==
  CASE parcel = "dispatched" -> 1
    [] parcel \in {"delivered", "refused"} -> 2
    [] parcel = "returned" -> 3
    [] OTHER -> 0

ReportsOK == Ship!VersionsFollow /\ Len(reports[O]) = Said(shipments[O].status)

MoneyOK ==
  /\ refundedBy \notin declined
  /\ restored \cup ({refundedBy} \ {None}) \cup edge \subseteq Cancellations \cup Deliveries
  /\ edge \subseteq Cancellations

(* A cancellation that claimed without asking a shipment to wait. *)
Bypasses(D) == \E c \in Cancellations : "claim" \in D[c] /\ "hold" \notin D[c]

(* A cancellation turned back had its order claimed all the same.            *)
Lingers(c) == flows[c].mode \in Turned /\ "claim" \in DoneBy[c] \cap Elements(flows[c].todo)

(* What may refuse one that closes the order after its commit point.         *)
Excused(f) ==
  \/ Bypasses(DoneBy)
  \/ f \in Deliveries /\ \E c \in Cancellations : Lingers(c)
  \/ f \in Deliveries /\ Head(flows[f].todo) \in {"await_return", "refund"}

StrandedOK == \A f \in Closers : flows[f].mode = "stranded" => Excused(f)

(* Past the step that sells it, the hold on stock is held no more.           *)
HoldOK == hold = "held" => "convert" \in Elements(flows[Checkout].todo)

FlowsInv ==
  /\ TypeOK /\ P!StoreInv
  /\ placed \in Placement
  /\ SlipsOK /\ OrderOK /\ ClosingOK /\ ParcelOK /\ CourierOK
  /\ ReportsOK /\ MoneyOK /\ StrandedOK /\ HoldOK

-----------------------------------------------------------------------------
(* Reading a slip *)

LEMMA CancellationNext ==
  ASSUME NEW pivot \in {"refund", "commit"}, NEW t \in CancellationTodos(pivot), t # <<>>
  PROVE  LET h == Head(t)
             left == Elements(t)
         IN  /\ Tail(t) \in CancellationTodos(pivot)
             /\ Elements(Tail(t)) = left \ {h} /\ h \in left
             /\ Tail(t) = <<>> <=> h = "close_cancelled"
             /\ \/ h = "hold" /\ left = {"hold", "claim", pivot, "restore", "withdraw", "close_cancelled"}
                \/ h = "claim" /\ left \ {"withdraw"} = {"claim", pivot, "restore", "close_cancelled"}
                \/ h = pivot /\ left \ {"withdraw"} = {pivot, "restore", "close_cancelled"}
                \/ h = "restore" /\ left \ {"withdraw"} = {"restore", "close_cancelled"}
                \/ h = "withdraw" /\ left = {"withdraw", "close_cancelled"}
                \/ h = "close_cancelled" /\ left = {"close_cancelled"}
<1>1. CASE t = <<"close_cancelled">>
  <2>1. Head(t) = "close_cancelled" /\ Tail(t) = <<>>
    BY <1>1
  <2>2. /\ Elements(t) = {"close_cancelled"}
        /\ Elements(<<>>) = {}
    BY <1>1 DEF Elements
  <2>3. Tail(t) \in CancellationTodos(pivot)
    BY <2>1 DEF CancellationTodos
  <2> QED BY <2>1, <2>2, <2>3
<1>2. CASE t = <<"restore", "close_cancelled">>
  <2>1. Head(t) = "restore" /\ Tail(t) = <<"close_cancelled">> /\ Tail(t) # <<>>
    BY <1>2
  <2>2. /\ Elements(t) = {"restore", "close_cancelled"}
        /\ Elements(<<"close_cancelled">>) = {"close_cancelled"}
    BY <1>2 DEF Elements
  <2>3. Tail(t) \in CancellationTodos(pivot)
    BY <2>1 DEF CancellationTodos
  <2> QED BY <2>1, <2>2, <2>3
<1>3. CASE t = <<pivot, "restore", "close_cancelled">>
  <2>1. Head(t) = pivot /\ Tail(t) = <<"restore", "close_cancelled">> /\ Tail(t) # <<>>
    BY <1>3
  <2>2. /\ Elements(t) = {pivot, "restore", "close_cancelled"}
        /\ Elements(<<"restore", "close_cancelled">>) = {"restore", "close_cancelled"}
    BY <1>3 DEF Elements
  <2>3. Tail(t) \in CancellationTodos(pivot)
    BY <2>1 DEF CancellationTodos
  <2> QED BY <2>1, <2>2, <2>3
<1>4. CASE t = <<"claim", pivot, "restore", "close_cancelled">>
  <2>1. Head(t) = "claim" /\ Tail(t) = <<pivot, "restore", "close_cancelled">> /\ Tail(t) # <<>>
    BY <1>4
  <2>2. /\ Elements(t) = {"claim", pivot, "restore", "close_cancelled"}
        /\ Elements(<<pivot, "restore", "close_cancelled">>) = {pivot, "restore", "close_cancelled"}
    BY <1>4 DEF Elements
  <2>3. Tail(t) \in CancellationTodos(pivot)
    BY <2>1 DEF CancellationTodos
  <2> QED BY <2>1, <2>2, <2>3
<1>5. CASE t = <<"withdraw", "close_cancelled">>
  <2>1. Head(t) = "withdraw" /\ Tail(t) = <<"close_cancelled">> /\ Tail(t) # <<>>
    BY <1>5
  <2>2. /\ Elements(t) = {"withdraw", "close_cancelled"}
        /\ Elements(<<"close_cancelled">>) = {"close_cancelled"}
    BY <1>5 DEF Elements
  <2>3. Tail(t) \in CancellationTodos(pivot)
    BY <2>1 DEF CancellationTodos
  <2> QED BY <2>1, <2>2, <2>3
<1>6. CASE t = <<"restore", "withdraw", "close_cancelled">>
  <2>1. Head(t) = "restore" /\ Tail(t) = <<"withdraw", "close_cancelled">> /\ Tail(t) # <<>>
    BY <1>6
  <2>2. /\ Elements(t) = {"restore", "withdraw", "close_cancelled"}
        /\ Elements(<<"withdraw", "close_cancelled">>) = {"withdraw", "close_cancelled"}
    BY <1>6 DEF Elements
  <2>3. Tail(t) \in CancellationTodos(pivot)
    BY <2>1 DEF CancellationTodos
  <2> QED BY <2>1, <2>2, <2>3
<1>7. CASE t = <<pivot, "restore", "withdraw", "close_cancelled">>
  <2>1. Head(t) = pivot /\ Tail(t) = <<"restore", "withdraw", "close_cancelled">> /\ Tail(t) # <<>>
    BY <1>7
  <2>2. /\ Elements(t) = {pivot, "restore", "withdraw", "close_cancelled"}
        /\ Elements(<<"restore", "withdraw", "close_cancelled">>) = {"restore", "withdraw", "close_cancelled"}
    BY <1>7 DEF Elements
  <2>3. Tail(t) \in CancellationTodos(pivot)
    BY <2>1 DEF CancellationTodos
  <2> QED BY <2>1, <2>2, <2>3
<1>8. CASE t = <<"claim", pivot, "restore", "withdraw", "close_cancelled">>
  <2>1. Head(t) = "claim" /\ Tail(t) = <<pivot, "restore", "withdraw", "close_cancelled">> /\ Tail(t) # <<>>
    BY <1>8
  <2>2. /\ Elements(t) = {"claim", pivot, "restore", "withdraw", "close_cancelled"}
        /\ Elements(<<pivot, "restore", "withdraw", "close_cancelled">>) = {pivot, "restore", "withdraw", "close_cancelled"}
    BY <1>8 DEF Elements
  <2>3. Tail(t) \in CancellationTodos(pivot)
    BY <2>1 DEF CancellationTodos
  <2> QED BY <2>1, <2>2, <2>3
<1>9. CASE t = <<"hold", "claim", pivot, "restore", "withdraw", "close_cancelled">>
  <2>1. Head(t) = "hold" /\ Tail(t) = <<"claim", pivot, "restore", "withdraw", "close_cancelled">> /\ Tail(t) # <<>>
    BY <1>9
  <2>2. /\ Elements(t) = {"hold", "claim", pivot, "restore", "withdraw", "close_cancelled"}
        /\ Elements(<<"claim", pivot, "restore", "withdraw", "close_cancelled">>) = {"claim", pivot, "restore", "withdraw", "close_cancelled"}
    BY <1>9 DEF Elements
  <2>3. Tail(t) \in CancellationTodos(pivot)
    BY <2>1 DEF CancellationTodos
  <2> QED BY <2>1, <2>2, <2>3
<1> QED BY <1>1, <1>2, <1>3, <1>4, <1>5, <1>6, <1>7, <1>8, <1>9 DEF CancellationTodos

LEMMA DeliveryNext ==
  ASSUME NEW card \in BOOLEAN, NEW t \in DeliveryTodos(card), t # <<>>
  PROVE  LET h == Head(t)
             left == Elements(t)
         IN  /\ Elements(Tail(t)) = left \ {h} /\ h \in left
             /\ h # "await_delivery" => Tail(t) \in DeliveryTodos(card)
             /\ \/ h = "dispatch" /\ left = {"dispatch", "mark", "await_delivery"}
                \/ h = "mark" /\ left = {"mark", "await_delivery"}
                \/ h = "await_delivery" /\ left = {"await_delivery"}
                \/ h = "collect" /\ ~card /\ left = {"collect", "close_fulfilled"}
                \/ h = "close_fulfilled" /\ left = {"close_fulfilled"}
                \/ h = "await_return" /\ left \ {"refund"} = {"await_return", "restore", "close_cancelled"}
                \/ h = "restore" /\ left \ {"refund"} = {"restore", "close_cancelled"}
                \/ h = "close_cancelled" /\ left \ {"refund"} = {"close_cancelled"}
                \/ h = "refund" /\ left = {"refund"}
             /\ "refund" \in left => card
             /\ card => left \cap {"refund", "close_cancelled"} # {"close_cancelled"}
<1>1. CASE t \in {<<"await_delivery">>, <<"mark", "await_delivery">>,
                   <<"dispatch", "mark", "await_delivery">>, <<"close_fulfilled">>}
  <2>1. CASE t = <<"await_delivery">>
    <3>1. Head(t) = "await_delivery" /\ Tail(t) = <<>>
      BY <2>1
    <3>2. /\ Elements(t) = {"await_delivery"}
          /\ Elements(<<>>) = {}
      BY <2>1 DEF Elements
    <3> QED BY <3>1, <3>2
  <2>2. CASE t = <<"mark", "await_delivery">>
    <3>1. Head(t) = "mark" /\ Tail(t) = <<"await_delivery">>
      BY <2>2
    <3>2. /\ Elements(t) = {"mark", "await_delivery"}
          /\ Elements(<<"await_delivery">>) = {"await_delivery"}
      BY <2>2 DEF Elements
    <3>3. Tail(t) \in DeliveryTodos(card)
      BY <3>1 DEF DeliveryTodos
    <3> QED BY <3>1, <3>2, <3>3
  <2>3. CASE t = <<"dispatch", "mark", "await_delivery">>
    <3>1. Head(t) = "dispatch" /\ Tail(t) = <<"mark", "await_delivery">>
      BY <2>3
    <3>2. /\ Elements(t) = {"dispatch", "mark", "await_delivery"}
          /\ Elements(<<"mark", "await_delivery">>) = {"mark", "await_delivery"}
      BY <2>3 DEF Elements
    <3>3. Tail(t) \in DeliveryTodos(card)
      BY <3>1 DEF DeliveryTodos
    <3> QED BY <3>1, <3>2, <3>3
  <2>4. CASE t = <<"close_fulfilled">>
    <3>1. Head(t) = "close_fulfilled" /\ Tail(t) = <<>>
      BY <2>4
    <3>2. /\ Elements(t) = {"close_fulfilled"}
          /\ Elements(<<>>) = {}
      BY <2>4 DEF Elements
    <3>3. Tail(t) \in DeliveryTodos(card)
      BY <3>1 DEF DeliveryTodos
    <3> QED BY <3>1, <3>2, <3>3
  <2> QED BY <1>1, <2>1, <2>2, <2>3, <2>4
<1>2. CASE card /\ t \in {<<"refund">>, <<"close_cancelled", "refund">>,
                          <<"restore", "close_cancelled", "refund">>,
                          <<"await_return", "restore", "close_cancelled", "refund">>}
  <2>1. CASE t = <<"refund">>
    <3>1. Head(t) = "refund" /\ Tail(t) = <<>>
      BY <2>1
    <3>2. /\ Elements(t) = {"refund"}
          /\ Elements(<<>>) = {}
      BY <2>1 DEF Elements
    <3>3. Tail(t) \in DeliveryTodos(card)
      BY <1>2, <3>1 DEF DeliveryTodos
    <3> QED BY <1>2, <3>1, <3>2, <3>3
  <2>2. CASE t = <<"close_cancelled", "refund">>
    <3>1. Head(t) = "close_cancelled" /\ Tail(t) = <<"refund">>
      BY <2>2
    <3>2. /\ Elements(t) = {"close_cancelled", "refund"}
          /\ Elements(<<"refund">>) = {"refund"}
      BY <2>2 DEF Elements
    <3>3. Tail(t) \in DeliveryTodos(card)
      BY <1>2, <3>1 DEF DeliveryTodos
    <3> QED BY <1>2, <3>1, <3>2, <3>3
  <2>3. CASE t = <<"restore", "close_cancelled", "refund">>
    <3>1. Head(t) = "restore" /\ Tail(t) = <<"close_cancelled", "refund">>
      BY <2>3
    <3>2. /\ Elements(t) = {"restore", "close_cancelled", "refund"}
          /\ Elements(<<"close_cancelled", "refund">>) = {"close_cancelled", "refund"}
      BY <2>3 DEF Elements
    <3>3. Tail(t) \in DeliveryTodos(card)
      BY <1>2, <3>1 DEF DeliveryTodos
    <3> QED BY <1>2, <3>1, <3>2, <3>3
  <2>4. CASE t = <<"await_return", "restore", "close_cancelled", "refund">>
    <3>1. Head(t) = "await_return" /\ Tail(t) = <<"restore", "close_cancelled", "refund">>
      BY <2>4
    <3>2. /\ Elements(t) = {"await_return", "restore", "close_cancelled", "refund"}
          /\ Elements(<<"restore", "close_cancelled", "refund">>) = {"restore", "close_cancelled", "refund"}
      BY <2>4 DEF Elements
    <3>3. Tail(t) \in DeliveryTodos(card)
      BY <1>2, <3>1 DEF DeliveryTodos
    <3> QED BY <1>2, <3>1, <3>2, <3>3
  <2> QED BY <1>2, <2>1, <2>2, <2>3, <2>4
<1>3. CASE ~card /\ t \in {<<"collect", "close_fulfilled">>, <<"close_cancelled">>,
                           <<"restore", "close_cancelled">>,
                           <<"await_return", "restore", "close_cancelled">>}
  <2>1. CASE t = <<"collect", "close_fulfilled">>
    <3>1. Head(t) = "collect" /\ Tail(t) = <<"close_fulfilled">>
      BY <2>1
    <3>2. /\ Elements(t) = {"collect", "close_fulfilled"}
          /\ Elements(<<"close_fulfilled">>) = {"close_fulfilled"}
      BY <2>1 DEF Elements
    <3>3. Tail(t) \in DeliveryTodos(card)
      BY <1>3, <3>1 DEF DeliveryTodos
    <3> QED BY <1>3, <3>1, <3>2, <3>3
  <2>2. CASE t = <<"close_cancelled">>
    <3>1. Head(t) = "close_cancelled" /\ Tail(t) = <<>>
      BY <2>2
    <3>2. /\ Elements(t) = {"close_cancelled"}
          /\ Elements(<<>>) = {}
      BY <2>2 DEF Elements
    <3>3. Tail(t) \in DeliveryTodos(card)
      BY <1>3, <3>1 DEF DeliveryTodos
    <3> QED BY <1>3, <3>1, <3>2, <3>3
  <2>3. CASE t = <<"restore", "close_cancelled">>
    <3>1. Head(t) = "restore" /\ Tail(t) = <<"close_cancelled">>
      BY <2>3
    <3>2. /\ Elements(t) = {"restore", "close_cancelled"}
          /\ Elements(<<"close_cancelled">>) = {"close_cancelled"}
      BY <2>3 DEF Elements
    <3>3. Tail(t) \in DeliveryTodos(card)
      BY <1>3, <3>1 DEF DeliveryTodos
    <3> QED BY <1>3, <3>1, <3>2, <3>3
  <2>4. CASE t = <<"await_return", "restore", "close_cancelled">>
    <3>1. Head(t) = "await_return" /\ Tail(t) = <<"restore", "close_cancelled">>
      BY <2>4
    <3>2. /\ Elements(t) = {"await_return", "restore", "close_cancelled"}
          /\ Elements(<<"restore", "close_cancelled">>) = {"restore", "close_cancelled"}
      BY <2>4 DEF Elements
    <3>3. Tail(t) \in DeliveryTodos(card)
      BY <1>3, <3>1 DEF DeliveryTodos
    <3> QED BY <1>3, <3>1, <3>2, <3>3
  <2> QED BY <1>3, <2>1, <2>2, <2>3, <2>4
<1> QED BY <1>1, <1>2, <1>3 DEF DeliveryTodos

LEMMA CheckoutNext ==
  ASSUME NEW channel \in {"shipped", "unshipped", "counter"},
         NEW t \in CheckoutTodos(channel), t # <<>>
  PROVE  LET h == Head(t)
             left == Elements(t)
         IN  /\ Tail(t) \in CheckoutTodos(channel)
             /\ Elements(Tail(t)) = left \ {h} /\ h \in left
             /\ \/ h = "convert" /\ "confirm" \in left
                \/ h = "confirm" /\ "convert" \notin left
                \/ h = "open" /\ channel = "shipped" /\ left = {"open"}
                \/ h = "mark" /\ channel = "counter" /\ left = {"mark", "close_fulfilled"}
                \/ h = "close_fulfilled" /\ channel = "counter" /\ left = {"close_fulfilled"}
             /\ channel = "shipped" => "open" \in left
             /\ channel = "counter" => "close_fulfilled" \in left
             /\ channel = "counter" /\ "confirm" \in left => "mark" \in left
<1>1. CASE channel = "shipped" /\ t \in CheckoutTodos("shipped")
  <2>1. CASE t = <<"open">>
    <3>1. Head(t) = "open" /\ Tail(t) = <<>>
      BY <2>1
    <3>2. /\ Elements(t) = {"open"}
          /\ Elements(<<>>) = {}
      BY <2>1 DEF Elements
    <3>3. Tail(t) \in CheckoutTodos(channel)
      BY <1>1, <3>1 DEF CheckoutTodos
    <3> QED BY <1>1, <3>1, <3>2, <3>3
  <2>2. CASE t = <<"confirm", "open">>
    <3>1. Head(t) = "confirm" /\ Tail(t) = <<"open">>
      BY <2>2
    <3>2. /\ Elements(t) = {"confirm", "open"}
          /\ Elements(<<"open">>) = {"open"}
      BY <2>2 DEF Elements
    <3>3. Tail(t) \in CheckoutTodos(channel)
      BY <1>1, <3>1 DEF CheckoutTodos
    <3> QED BY <1>1, <3>1, <3>2, <3>3
  <2>3. CASE t = <<"convert", "confirm", "open">>
    <3>1. Head(t) = "convert" /\ Tail(t) = <<"confirm", "open">>
      BY <2>3
    <3>2. /\ Elements(t) = {"convert", "confirm", "open"}
          /\ Elements(<<"confirm", "open">>) = {"confirm", "open"}
      BY <2>3 DEF Elements
    <3>3. Tail(t) \in CheckoutTodos(channel)
      BY <1>1, <3>1 DEF CheckoutTodos
    <3> QED BY <1>1, <3>1, <3>2, <3>3
  <2> QED BY <1>1, <2>1, <2>2, <2>3 DEF CheckoutTodos
<1>2. CASE channel = "unshipped" /\ t \in CheckoutTodos("unshipped")
  <2>1. CASE t = <<"confirm">>
    <3>1. Head(t) = "confirm" /\ Tail(t) = <<>>
      BY <2>1
    <3>2. /\ Elements(t) = {"confirm"}
          /\ Elements(<<>>) = {}
      BY <2>1 DEF Elements
    <3>3. Tail(t) \in CheckoutTodos(channel)
      BY <1>2, <3>1 DEF CheckoutTodos
    <3> QED BY <1>2, <3>1, <3>2, <3>3
  <2>2. CASE t = <<"convert", "confirm">>
    <3>1. Head(t) = "convert" /\ Tail(t) = <<"confirm">>
      BY <2>2
    <3>2. /\ Elements(t) = {"convert", "confirm"}
          /\ Elements(<<"confirm">>) = {"confirm"}
      BY <2>2 DEF Elements
    <3>3. Tail(t) \in CheckoutTodos(channel)
      BY <1>2, <3>1 DEF CheckoutTodos
    <3> QED BY <1>2, <3>1, <3>2, <3>3
  <2> QED BY <1>2, <2>1, <2>2 DEF CheckoutTodos
<1>3. CASE channel = "counter" /\ t \in CheckoutTodos("counter")
  <2>1. CASE t = <<"close_fulfilled">>
    <3>1. Head(t) = "close_fulfilled" /\ Tail(t) = <<>>
      BY <2>1
    <3>2. /\ Elements(t) = {"close_fulfilled"}
          /\ Elements(<<>>) = {}
      BY <2>1 DEF Elements
    <3>3. Tail(t) \in CheckoutTodos(channel)
      BY <1>3, <3>1 DEF CheckoutTodos
    <3> QED BY <1>3, <3>1, <3>2, <3>3
  <2>2. CASE t = <<"mark", "close_fulfilled">>
    <3>1. Head(t) = "mark" /\ Tail(t) = <<"close_fulfilled">>
      BY <2>2
    <3>2. /\ Elements(t) = {"mark", "close_fulfilled"}
          /\ Elements(<<"close_fulfilled">>) = {"close_fulfilled"}
      BY <2>2 DEF Elements
    <3>3. Tail(t) \in CheckoutTodos(channel)
      BY <1>3, <3>1 DEF CheckoutTodos
    <3> QED BY <1>3, <3>1, <3>2, <3>3
  <2>3. CASE t = <<"confirm", "mark", "close_fulfilled">>
    <3>1. Head(t) = "confirm" /\ Tail(t) = <<"mark", "close_fulfilled">>
      BY <2>3
    <3>2. /\ Elements(t) = {"confirm", "mark", "close_fulfilled"}
          /\ Elements(<<"mark", "close_fulfilled">>) = {"mark", "close_fulfilled"}
      BY <2>3 DEF Elements
    <3>3. Tail(t) \in CheckoutTodos(channel)
      BY <1>3, <3>1 DEF CheckoutTodos
    <3> QED BY <1>3, <3>1, <3>2, <3>3
  <2>4. CASE t = <<"convert", "confirm", "mark", "close_fulfilled">>
    <3>1. Head(t) = "convert" /\ Tail(t) = <<"confirm", "mark", "close_fulfilled">>
      BY <2>4
    <3>2. /\ Elements(t) = {"convert", "confirm", "mark", "close_fulfilled"}
          /\ Elements(<<"confirm", "mark", "close_fulfilled">>) = {"confirm", "mark", "close_fulfilled"}
      BY <2>4 DEF Elements
    <3>3. Tail(t) \in CheckoutTodos(channel)
      BY <1>3, <3>1 DEF CheckoutTodos
    <3> QED BY <1>3, <3>1, <3>2, <3>3
  <2> QED BY <1>3, <2>1, <2>2, <2>3, <2>4 DEF CheckoutTodos
<1> QED BY <1>1, <1>2, <1>3

LEMMA CancellationLeft ==
  ASSUME NEW pivot \in {"refund", "commit"}, NEW t \in CancellationTodos(pivot)
  PROVE  LET left == Elements(t)
         IN  /\ t = <<>> <=> left = {}
             /\ left \subseteq {"hold", "claim", pivot, "restore", "withdraw", "close_cancelled"}
             /\ "hold" \in left => {"claim", "withdraw"} \subseteq left
             /\ "claim" \in left => pivot \in left
             /\ pivot \in left => "restore" \in left
             /\ "restore" \in left => "close_cancelled" \in left
             /\ "withdraw" \in left => "close_cancelled" \in left
<1>1. Elements(<<>>) = {}
  BY DEF Elements
<1>2. CASE t = <<>>
  BY <1>1, <1>2
<1>3. CASE t # <<>>
  BY <1>3, CancellationNext
<1> QED BY <1>2, <1>3

(* Where a cancellation is, told from what it has left.                      *)
LEMMA CancellationPast ==
  ASSUME NEW pivot \in {"refund", "commit"}, NEW r, NEW done, CancellationOK(r, done, pivot)
  PROVE  /\ r.past => /\ r.mode \in {"running", "completed", "suspended"} /\ "claim" \in done
                      /\ "unclaim" \notin done /\ "release" \notin done
         /\ done \cap {"restore", "close_cancelled"} # {} => r.past
         /\ r.mode = "completed" =>
              /\ r.past /\ {"restore", "close_cancelled"} \subseteq done
              /\ pivot = "refund" => "refund" \in done
              /\ "hold" \in done => "withdraw" \in done
         /\ r.mode = "undone" =>
              /\ "claim" \in done => "unclaim" \in done \/ "claim" \in Elements(r.todo)
              /\ "hold" \in done => "release" \in done \/ "hold" \in Elements(r.todo)
              /\ done \cap {"restore", "close_cancelled", "refund", "withdraw"} = {}
         /\ r.mode = "unstarted" => done = {}
         /\ r.mode # "stranded"
<1>1. CASE r = Unstarted
  BY <1>1 DEF CancellationOK, Unstarted
<1>2. CASE r # Unstarted
  <2> DEFINE left == Elements(r.todo)
  <2>1. r.todo \in CancellationTodos(pivot) /\ Ahead(r, done)
    BY <1>2 DEF CancellationOK
  <2>2. /\ r.todo = <<>> <=> left = {}
        /\ "hold" \in left => {"claim", "withdraw"} \subseteq left
        /\ "claim" \in left => pivot \in left
        /\ pivot \in left => "restore" \in left
        /\ "restore" \in left => "close_cancelled" \in left
    BY <2>1, CancellationLeft
  <2>3. /\ r.todo # <<>> /\ Head(r.todo) = "restore" => pivot \notin left
        /\ r.todo # <<>> /\ Head(r.todo) = "close_cancelled" => pivot \notin left
    BY <2>1, CancellationNext
  <2>4. /\ r.past <=> pivot \notin left
        /\ r.mode = "completed" <=> r.todo = <<>>
        /\ r.mode \in Turned => ~r.past
        /\ r.mode \in {"running", "completed", "suspended"} \cup Turned
    BY <1>2 DEF CancellationOK, Flow, Turned
  <2>5. \A s \in done \cap left : s = Head(r.todo)
    BY <2>1 DEF Ahead
  <2> HIDE DEF left
  <2>6. r.past => /\ r.mode \in {"running", "completed", "suspended"} /\ "claim" \in done
                  /\ "unclaim" \notin done /\ "release" \notin done
    BY <1>2, <2>2, <2>4 DEF CancellationOK, left, Turned
  <2>7. done \cap {"restore", "close_cancelled"} # {} => r.past
    BY <2>2, <2>3, <2>4, <2>5
  <2>8. r.mode = "completed" =>
          /\ r.past /\ {"restore", "close_cancelled"} \subseteq done
          /\ pivot = "refund" => "refund" \in done
          /\ "hold" \in done => "withdraw" \in done
    BY <1>2, <2>2, <2>4 DEF CancellationOK, left, Turned
  <2>9. r.mode = "undone" =>
          /\ "claim" \in done => "unclaim" \in done \/ "claim" \in left
          /\ "hold" \in done => "release" \in done \/ "hold" \in left
          /\ done \cap {"restore", "close_cancelled", "refund", "withdraw"} = {}
    <3> SUFFICES ASSUME r.mode = "undone"
                 PROVE  /\ "claim" \in done => "unclaim" \in done \/ "claim" \in left
                        /\ "hold" \in done => "release" \in done \/ "hold" \in left
                        /\ done \cap {"restore", "close_cancelled", "refund", "withdraw"} = {}
      OBVIOUS
    <3>1. ~r.past /\ pivot \in left
      BY <2>4 DEF Turned
    <3>2. r.undo \notin {<<"unclaim">>, <<"unclaim", "release">>}
          /\ r.undo \notin {<<"release">>, <<"unclaim", "release">>}
      <4>1. r.undo = <<>>
        BY <1>2 DEF CancellationOK
      <4>2. <<>> # <<"unclaim">> /\ <<>> # <<"release">> /\ <<>> # <<"unclaim", "release">>
        OBVIOUS
      <4> QED BY <4>1, <4>2
    <3>3. "claim" \in done => "unclaim" \in done \/ "claim" \in left
      BY <1>2, <3>2 DEF CancellationOK, left
    <3>4. "hold" \in done => "release" \in done \/ "hold" \in left
      BY <1>2, <3>2 DEF CancellationOK, left
    <3>5. "refund" \notin done /\ "withdraw" \notin done
      BY <1>2, <3>1 DEF CancellationOK, left, Turned
    <3> QED BY <2>7, <3>1, <3>3, <3>4, <3>5
  <2> QED BY <2>4, <2>6, <2>7, <2>8, <2>9 DEF left, Turned
<1> QED BY <1>1, <1>2

LEMMA DeliveryLeft ==
  ASSUME NEW card \in BOOLEAN, NEW t \in DeliveryTodos(card)
  PROVE  LET left == Elements(t)
         IN  /\ t = <<>> <=> left = {}
             /\ left \subseteq {"dispatch", "mark", "await_delivery", "collect", "close_fulfilled",
                                "await_return", "restore", "close_cancelled", "refund"}
             /\ "dispatch" \in left => "mark" \in left
             /\ "mark" \in left => "await_delivery" \in left
<1>1. Elements(<<>>) = {}
  BY DEF Elements
<1>2. CASE t = <<>>
  BY <1>1, <1>2
<1>3. CASE t # <<>>
  BY <1>3, DeliveryNext
<1> QED BY <1>2, <1>3

LEMMA DeliveryPast ==
  ASSUME NEW card \in BOOLEAN, NEW r, NEW done, DeliveryOK(r, done, card)
  PROVE  /\ r.past => "dispatch" \in done
         /\ done \cap {"mark", "restore", "close_fulfilled", "close_cancelled", "refund"} # {} => r.past
         /\ done \cap {"restore", "close_fulfilled", "close_cancelled", "refund"} # {} => "mark" \in done
         /\ ~("close_fulfilled" \in done /\ "close_cancelled" \in done)
         /\ done \cap {"close_cancelled", "refund"} # {} => "restore" \in done
         /\ r.mode = "completed" =>
              \/ "close_fulfilled" \in done
              \/ "close_cancelled" \in done /\ (card => "refund" \in done)
         /\ r.mode \in {"unstarted", "undone"} => ~r.past
         /\ r.mode = "unstarted" => done = {}
<1>1. CASE r = Unstarted
  BY <1>1 DEF DeliveryOK, Unstarted
<1>2. CASE r # Unstarted
  <2> DEFINE left == Elements(r.todo)
  <2>1. r.todo \in DeliveryTodos(card) /\ Ahead(r, done)
    BY <1>2 DEF DeliveryOK
  <2>2. /\ r.todo = <<>> <=> left = {}
        /\ "dispatch" \in left => "mark" \in left
        /\ "mark" \in left => "await_delivery" \in left
    BY <2>1, DeliveryLeft
  <2>3. r.todo # <<>> /\ Head(r.todo) = "mark" => "dispatch" \notin left
    BY <2>1, DeliveryNext
  <2>4. /\ r.past <=> "dispatch" \notin left
        /\ r.mode = "completed" <=> r.todo = <<>>
        /\ r.mode = "undone" => ~r.past
        /\ r.mode \in {"running", "completed", "undone", "stranded", "suspended"}
    BY <1>2 DEF DeliveryOK, Flow
  <2>5. \A s \in done \cap left : s = Head(r.todo)
    BY <2>1 DEF Ahead
  <2>6. /\ "dispatch" \notin left => "dispatch" \in done
        /\ "mark" \notin left => "mark" \in done
        /\ left = {} => done \cap {"close_fulfilled", "close_cancelled"} # {}
        /\ "close_fulfilled" \in done => "restore" \notin done /\ left \subseteq {"close_fulfilled"}
        /\ "restore" \in done => left \subseteq {"restore", "close_cancelled", "refund"}
        /\ "close_cancelled" \in done => "restore" \in done
        /\ "refund" \in done => "close_cancelled" \in done
        /\ left = {} /\ "close_cancelled" \in done /\ card => "refund" \in done
    BY <1>2 DEF DeliveryOK
  <2> HIDE DEF left
  <2>7. done \cap {"restore", "close_fulfilled", "close_cancelled", "refund"} # {} =>
          "dispatch" \notin left /\ "mark" \notin left
    BY <2>6
  <2>8. "mark" \in done => "dispatch" \notin left
    BY <2>2, <2>3, <2>5, <2>6
  <2> QED BY <2>2, <2>4, <2>6, <2>7, <2>8
<1> QED BY <1>1, <1>2

LEMMA CheckoutLeft ==
  ASSUME NEW channel \in {"shipped", "unshipped", "counter"}, NEW r, NEW done,
         CheckoutOK(r, done, channel)
  PROVE  /\ r.mode = "completed" =>
              /\ "confirm" \in done
              /\ channel = "shipped" => "open" \in done
              /\ channel = "counter" => {"mark", "close_fulfilled"} \subseteq done
         /\ done \cap {"open", "mark", "close_fulfilled"} # {} => "confirm" \in done
         /\ "close_fulfilled" \in done => "mark" \in done
         /\ r.mode \in {"running", "completed", "stranded", "suspended"}
<1> DEFINE left == Elements(r.todo)
<1>1. r.todo \in CheckoutTodos(channel) /\ Ahead(r, done)
  BY DEF CheckoutOK
<1>2. /\ r.mode = "completed" <=> r.todo = <<>>
      /\ "confirm" \notin left => "confirm" \in done
      /\ "open" \in done => channel = "shipped"
      /\ channel = "shipped" /\ "open" \notin left => "open" \in done
      /\ "mark" \in done => channel = "counter"
      /\ channel = "counter" /\ "mark" \notin left => "mark" \in done
      /\ "close_fulfilled" \in done => channel = "counter"
      /\ channel = "counter" /\ "close_fulfilled" \notin left => "close_fulfilled" \in done
      /\ r.mode \in {"running", "completed", "stranded", "suspended"}
  BY DEF CheckoutOK
<1>3. CASE r.todo = <<>>
  <2>1. left = {}
    BY <1>3 DEF Elements
  <2> QED BY <1>2, <1>3, <2>1
<1>4. CASE r.todo # <<>>
  <2>1. /\ channel = "shipped" => "open" \in left
        /\ channel = "counter" => "close_fulfilled" \in left
        /\ channel = "counter" /\ "confirm" \in left => "mark" \in left
        /\ Head(r.todo) \in {"open", "mark", "close_fulfilled"} => "confirm" \notin left
        /\ Head(r.todo) = "close_fulfilled" => "mark" \notin left
    BY <1>1, <1>4, CheckoutNext
  <2>2. \A s \in done \cap left : s = Head(r.todo)
    BY <1>1 DEF Ahead
  <2> HIDE DEF left
  <2> QED BY <1>2, <1>4, <2>1, <2>2
<1> QED BY <1>3, <1>4

-----------------------------------------------------------------------------
(* How a step taken, answered, refused or undone leaves a slip *)

Onward(r, todo) ==
  [mode |-> IF todo = <<>> THEN "completed" ELSE "running",
   todo |-> todo,
   undo |-> IF Head(r.todo) \in DOMAIN Undoing /\ ~r.past
            THEN <<Undoing[Head(r.todo)]>> \o r.undo ELSE r.undo,
   past |-> r.past \/ Head(r.todo) \in Pivots]

Refuse(r) ==
  [r EXCEPT !.mode = IF r.past THEN "stranded"
                     ELSE IF r.undo = <<>> THEN "undone" ELSE "undoing"]

Back(r) ==
  [r EXCEPT !.undo = Tail(r.undo), !.mode = IF Len(r.undo) = 1 THEN "undone" ELSE "undoing"]

LEMMA UndoTable ==
  /\ DOMAIN Undoing = {"hold", "claim"}
  /\ Undoing["hold"] = "release" /\ Undoing["claim"] = "unclaim"
BY DEF Undoing

LEMMA UndoSequences ==
  /\ <<"release">> \o <<>> = <<"release">>
  /\ <<"unclaim">> \o <<>> = <<"unclaim">>
  /\ <<"unclaim">> \o <<"release">> = <<"unclaim", "release">>
<1>1. <<"release">> \in Seq({"release", "unclaim"}) /\ <<"unclaim">> \in Seq({"release", "unclaim"})
      /\ <<"unclaim", "release">> \in Seq({"release", "unclaim"})
  OBVIOUS
<1>2. <<"release">> \o <<>> = <<"release">> /\ <<"unclaim">> \o <<>> = <<"unclaim">>
  BY <1>1, ConcatEmptySeq
<1>3. <<"unclaim">> \o <<"release">> = <<"unclaim", "release">>
  <2> DEFINE a == <<"unclaim">>
             b == <<"release">>
             c == <<"unclaim", "release">>
  <2>1. a \o b \in Seq({"release", "unclaim"}) /\ Len(a \o b) = 2
    BY <1>1, ConcatProperties
  <2>2. (a \o b)[1] = "unclaim" /\ (a \o b)[2] = "release"
    BY <1>1, ConcatProperties
  <2>3. c \in Seq({"release", "unclaim"}) /\ Len(c) = 2 /\ c[1] = "unclaim" /\ c[2] = "release"
    OBVIOUS
  <2> HIDE DEF a, b, c
  <2>4. a \o b = c
    BY <2>1, <2>2, <2>3, SeqEqual
  <2> QED BY <2>4 DEF a, b, c
<1> QED BY <1>2, <1>3

LEMMA CancellationTakes ==
  ASSUME NEW pivot \in {"refund", "commit"}, NEW r, NEW done, CancellationOK(r, done, pivot),
         r.mode # "unstarted", r.todo # <<>>, Head(r.todo) # "commit",
         Head(r.todo) = "refund" => r.mode \notin Turned
  PROVE  CancellationOK(r, done \cup {Head(r.todo)}, pivot)
<1> DEFINE left == Elements(r.todo)
           s == Head(r.todo)
<1>1. r # Unstarted
  BY DEF Unstarted
<1>2. r.todo \in CancellationTodos(pivot)
  BY <1>1 DEF CancellationOK
<1>3. /\ s \in left
      /\ \/ s = "hold" /\ left = {"hold", "claim", pivot, "restore", "withdraw", "close_cancelled"}
         \/ s = "claim" /\ left \ {"withdraw"} = {"claim", pivot, "restore", "close_cancelled"}
         \/ s = pivot /\ left \ {"withdraw"} = {pivot, "restore", "close_cancelled"}
         \/ s = "restore" /\ left \ {"withdraw"} = {"restore", "close_cancelled"}
         \/ s = "withdraw" /\ left = {"withdraw", "close_cancelled"}
         \/ s = "close_cancelled" /\ left = {"close_cancelled"}
  BY <1>2, CancellationNext
<1>4. Ahead(r, done \cup {s})
  BY <1>1 DEF CancellationOK, Ahead
<1> QED BY <1>1, <1>3, <1>4 DEF CancellationOK

Begun(slip) == [mode |-> "running", todo |-> slip, undo |-> <<>>, past |-> FALSE]

LEMMA BegunFlow ==
  ASSUME NEW slip \in Seq(Steps)
  PROVE  Begun(slip) \in Flow /\ Begun(slip) # Unstarted
<1>1. <<>> \in Seq(Steps)
  OBVIOUS
<1>2. Begun(slip) \in Flow
  BY <1>1 DEF Begun, Flow
<1> QED BY <1>2 DEF Begun, Unstarted

LEMMA OnwardFields ==
  ASSUME NEW r, NEW todo
  PROVE  /\ Onward(r, todo).todo = todo
         /\ Onward(r, todo).mode = IF todo = <<>> THEN "completed" ELSE "running"
         /\ Onward(r, todo).past = (r.past \/ Head(r.todo) \in Pivots)
         /\ Onward(r, todo).undo = IF Head(r.todo) \in DOMAIN Undoing /\ ~r.past
                                   THEN <<Undoing[Head(r.todo)]>> \o r.undo ELSE r.undo
BY DEF Onward

LEMMA OnwardFlow ==
  ASSUME NEW r \in Flow, NEW todo \in Seq(Steps),
         Onward(r, todo).undo \in Seq(Steps)
  PROVE  Onward(r, todo) \in Flow /\ Onward(r, todo) # Unstarted
<1>1. Onward(r, todo).mode \in {"running", "completed"}
  BY OnwardFields
<1>2. Onward(r, todo).past \in BOOLEAN
  <2>1. (r.past \/ Head(r.todo) \in Pivots) \in BOOLEAN
    OBVIOUS
  <2> QED BY <2>1, OnwardFields
<1> QED BY <1>1, <1>2, OnwardFields DEF Onward, Flow, Unstarted

LEMMA CancellationAnswered ==
  ASSUME NEW pivot \in {"refund", "commit"}, NEW r, NEW done, CancellationOK(r, done, pivot),
         r.mode = "running", r.todo # <<>>, Head(r.todo) \in done \cup {"commit"}
  PROVE  CancellationOK(Onward(r, Tail(r.todo)), done, pivot)
<1> DEFINE left == Elements(r.todo)
           s == Head(r.todo)
           q == Onward(r, Tail(r.todo))
           now == Elements(q.todo)
           unclaims == r.undo \in {<<"unclaim">>, <<"unclaim", "release">>}
           releases == r.undo \in {<<"release">>, <<"unclaim", "release">>}
<1>1. r # Unstarted
  BY DEF Unstarted
<1>2. r.todo \in CancellationTodos(pivot) /\ r \in Flow /\ r.undo \in Undos
  BY <1>1 DEF CancellationOK, Turned
<1>3. /\ Tail(r.todo) \in CancellationTodos(pivot)
      /\ Elements(Tail(r.todo)) = left \ {s} /\ s \in left
      /\ Tail(r.todo) = <<>> <=> s = "close_cancelled"
      /\ \/ s = "hold" /\ left = {"hold", "claim", pivot, "restore", "withdraw", "close_cancelled"}
         \/ s = "claim" /\ left \ {"withdraw"} = {"claim", pivot, "restore", "close_cancelled"}
         \/ s = pivot /\ left \ {"withdraw"} = {pivot, "restore", "close_cancelled"}
         \/ s = "restore" /\ left \ {"withdraw"} = {"restore", "close_cancelled"}
         \/ s = "withdraw" /\ left = {"withdraw", "close_cancelled"}
         \/ s = "close_cancelled" /\ left = {"close_cancelled"}
  BY <1>2, CancellationNext
<1>4. /\ q.todo = Tail(r.todo)
      /\ q.mode = IF s = "close_cancelled" THEN "completed" ELSE "running"
      /\ q.past <=> (r.past \/ s = pivot)
      /\ q.undo = IF s \in {"hold", "claim"} /\ ~r.past
                  THEN <<Undoing[s]>> \o r.undo ELSE r.undo
  <2>1. s \in Pivots <=> s = pivot
    BY <1>3 DEF Pivots
  <2>2. q.todo = Tail(r.todo) /\ q.mode = IF s = "close_cancelled" THEN "completed" ELSE "running"
    <3>1. Tail(r.todo) = <<>> <=> s = "close_cancelled"
      BY <1>3
    <3>2. /\ q.todo = Tail(r.todo)
          /\ q.mode = IF Tail(r.todo) = <<>> THEN "completed" ELSE "running"
      BY DEF Onward
    <3> QED BY <3>1, <3>2
  <2>3. q.past <=> (r.past \/ s = pivot)
    BY <2>1, OnwardFields
  <2>4. q.undo = IF s \in {"hold", "claim"} /\ ~r.past
                 THEN <<Undoing[s]>> \o r.undo ELSE r.undo
    BY OnwardFields, UndoTable
  <2> QED BY <2>2, <2>3, <2>4
<1>10. Tail(r.todo) \in Seq(Steps) /\ r.undo \in Seq(Steps)
  BY <1>2 DEF Flow
<1>11. now = left \ {s} /\ q.todo \in CancellationTodos(pivot) /\ s \in done \cup {"commit"}
  BY <1>3, <1>4
<1>5. /\ r.past <=> pivot \notin left
      /\ Ahead(r, done)
      /\ unclaims => "claim" \in done \ left
      /\ releases => "hold" \in done \ left
      /\ "withdraw" \in left /\ "hold" \notin left => "hold" \in done
      /\ "hold" \in done /\ "withdraw" \notin left => "withdraw" \in done
      /\ "withdraw" \in done => "hold" \in done /\ left \subseteq {"withdraw", "close_cancelled"}
      /\ "claim" \notin left => "claim" \in done
      /\ "refund" \in done => pivot = "refund"
      /\ pivot = "refund" /\ "refund" \notin left => "refund" \in done
      /\ "restore" \notin left => "restore" \in done
      /\ "close_cancelled" \notin left => "close_cancelled" \in done
      /\ "claim" \in done \ left /\ ~unclaims => "unclaim" \in done
      /\ "unclaim" \in done => "claim" \in done /\ r.mode \in Turned
      /\ "hold" \in done \ left /\ ~releases => "release" \in done
      /\ "release" \in done =>
           "hold" \in done /\ ~unclaims /\ r.mode \in Turned
  BY <1>1 DEF CancellationOK, Turned
<1>12. "unclaim" \notin done /\ "release" \notin done
  BY <1>5 DEF Turned
<1>6. Ahead(q, done)
  <2>1. \A x \in done \cap left : x = s
    BY <1>5 DEF Ahead
  <2> QED BY <1>3, <1>4, <2>1 DEF Ahead
<1>7. CASE s = "hold"
  <2>1. r.undo = <<>> /\ ~r.past
    BY <1>2, <1>3, <1>5, <1>7 DEF Undos
  <2>2. q.undo = <<"release">>
    BY <1>4, <1>7, <2>1, UndoTable, UndoSequences
  <2>3. q \in Flow /\ q # Unstarted
    <3> HIDE DEF q
    <3>1. q.undo \in Seq(Steps)
      <4>1. /\ <<"release">> \in Seq(Steps) /\ <<"unclaim">> \in Seq(Steps)
            /\ <<"unclaim", "release">> \in Seq(Steps)
        BY DEF Steps
      <4> QED BY <4>1, <2>2
    <3> QED BY <1>2, <1>10, <3>1, OnwardFlow DEF q
  <2>4. <<"release">> \notin {<<"unclaim">>, <<"unclaim", "release">>} /\ <<"release">> \in Undos
    BY DEF Undos
  <2> HIDE DEF q, left, s, now
  <2>7. /\ q.past <=> pivot \notin now
        /\ q.mode \in {"running", "completed"}
        /\ q.mode = "completed" <=> q.todo = <<>>
    BY <1>3, <1>4, <1>5, <1>7, <1>11
  <2>8. /\ "withdraw" \in now /\ "hold" \notin now => "hold" \in done
        /\ "hold" \in done /\ "withdraw" \notin now => "withdraw" \in done
        /\ "withdraw" \in done => "hold" \in done /\ now \subseteq {"withdraw", "close_cancelled"}
        /\ "claim" \notin now => "claim" \in done
        /\ pivot = "refund" /\ "refund" \notin now => "refund" \in done
        /\ "restore" \notin now => "restore" \in done
        /\ "close_cancelled" \notin now => "close_cancelled" \in done
    BY <1>3, <1>5, <1>7, <1>11
  <2>9. /\ q.undo \notin {<<"unclaim">>, <<"unclaim", "release">>}
        /\ "claim" \notin done \ now
        /\ "unclaim" \notin done /\ "release" \notin done
        /\ "hold" \in done \ now
    BY <1>3, <1>5, <1>7, <2>2, <2>4, <1>11, <1>12
  <2>6. q.undo \in Undos /\ q.undo \in {<<"release">>, <<"unclaim", "release">>}
    BY <2>2, <2>4
  <2>10. /\ Ahead(q, done) /\ q \in Flow /\ q # Unstarted /\ q.todo \in CancellationTodos(pivot)
         /\ "refund" \in done => pivot = "refund"
    BY <1>5, <1>6, <1>11, <2>3
  <2>5. CancellationOK(q, done, pivot)
    BY <2>6, <2>7, <2>8, <2>9, <2>10 DEF CancellationOK, Turned, now
  <2> QED BY <2>5 DEF q
<1>8. CASE s = "claim"
  <2>1. r.undo \in {<<>>, <<"release">>} /\ ~r.past
    BY <1>2, <1>3, <1>5, <1>8 DEF Undos
  <2>2. q.undo = IF r.undo = <<>> THEN <<"unclaim">> ELSE <<"unclaim", "release">>
    BY <1>4, <1>8, <2>1, UndoTable, UndoSequences
  <2>3. q \in Flow /\ q # Unstarted
    <3> HIDE DEF q
    <3>1. q.undo \in Seq(Steps)
      <4>1. /\ <<"release">> \in Seq(Steps) /\ <<"unclaim">> \in Seq(Steps)
            /\ <<"unclaim", "release">> \in Seq(Steps)
        BY DEF Steps
      <4> QED BY <4>1, <2>2
    <3> QED BY <1>2, <1>10, <3>1, OnwardFlow DEF q
  <2>4. q.undo \in Undos /\ (q.undo \in {<<"release">>, <<"unclaim", "release">>} <=> releases)
    BY <2>1, <2>2 DEF Undos
  <2> HIDE DEF q, left, s, now
  <2>7. /\ q.past <=> pivot \notin now
        /\ q.mode \in {"running", "completed"}
        /\ q.mode = "completed" <=> q.todo = <<>>
    BY <1>3, <1>4, <1>5, <1>8, <1>11
  <2>8. /\ "withdraw" \in now /\ "hold" \notin now => "hold" \in done
        /\ "hold" \in done /\ "withdraw" \notin now => "withdraw" \in done
        /\ "withdraw" \in done => "hold" \in done /\ now \subseteq {"withdraw", "close_cancelled"}
        /\ "claim" \notin now => "claim" \in done
        /\ pivot = "refund" /\ "refund" \notin now => "refund" \in done
        /\ "restore" \notin now => "restore" \in done
        /\ "close_cancelled" \notin now => "close_cancelled" \in done
    BY <1>3, <1>5, <1>8, <1>11
  <2>9. /\ q.undo \in {<<"unclaim">>, <<"unclaim", "release">>}
        /\ "claim" \in done \ now
        /\ "unclaim" \notin done /\ "release" \notin done
        /\ releases => "hold" \in done \ now
        /\ "hold" \in done \ now => releases
    BY <1>3, <1>5, <1>8, <1>11, <2>2, <1>12
  <2>5. CancellationOK(q, done, pivot)
    BY <1>4, <1>5, <1>6, <1>11, <2>3, <2>4, <2>7, <2>8, <2>9 DEF CancellationOK, Turned, now
  <2> QED BY <2>5 DEF q
<1>9. CASE s \notin {"hold", "claim"}
  <2>1. q.undo = r.undo
    BY <1>4, <1>9
  <2>3. q \in Flow /\ q # Unstarted
    <3> QED BY <1>2, <1>10, <2>1, OnwardFlow
  <2> HIDE DEF q, left, s, now
  <2>7. /\ q.past <=> pivot \notin now
        /\ q.mode \in {"running", "completed"}
        /\ q.mode = "completed" <=> q.todo = <<>>
    BY <1>3, <1>4, <1>5, <1>9, <1>11
  <2>8. /\ "withdraw" \in now /\ "hold" \notin now => "hold" \in done
        /\ "hold" \in done /\ "withdraw" \notin now => "withdraw" \in done
        /\ "withdraw" \in done => "hold" \in done /\ now \subseteq {"withdraw", "close_cancelled"}
        /\ "claim" \notin now => "claim" \in done
        /\ pivot = "refund" /\ "refund" \notin now => "refund" \in done
        /\ "restore" \notin now => "restore" \in done
        /\ "close_cancelled" \notin now => "close_cancelled" \in done
    BY <1>3, <1>5, <1>9, <1>11
  <2>9. /\ unclaims => "claim" \in done \ now
        /\ "claim" \in done \ now => unclaims
        /\ "unclaim" \notin done /\ "release" \notin done
        /\ releases => "hold" \in done \ now
        /\ "hold" \in done \ now => releases
    BY <1>3, <1>5, <1>9, <1>11, <1>12
  <2>5. CancellationOK(q, done, pivot)
    BY <1>2, <1>4, <1>5, <1>6, <1>11, <2>1, <2>3, <2>7, <2>8, <2>9 DEF CancellationOK, Turned, now
  <2> QED BY <2>5 DEF q
<1> QED BY <1>7, <1>8, <1>9

LEMMA CancellationRefused ==
  ASSUME NEW pivot \in {"refund", "commit"}, NEW r, NEW done, CancellationOK(r, done, pivot),
         r.mode = "running", r.todo # <<>>, ~r.past, Head(r.todo) # "refund" \/ "refund" \notin done
  PROVE  CancellationOK(Refuse(r), done, pivot)
<1> DEFINE left == Elements(r.todo)
           q == Refuse(r)
<1>1. r # Unstarted
  BY DEF Unstarted
<1>2. r.todo \in CancellationTodos(pivot) /\ r \in Flow /\ r.undo \in Undos /\ Ahead(r, done)
  BY <1>1 DEF CancellationOK
<1>3. /\ q \in Flow /\ q.todo = r.todo /\ q.undo = r.undo /\ q.past = r.past
      /\ q.mode = IF r.undo = <<>> THEN "undone" ELSE "undoing"
  BY <1>2 DEF Refuse, Flow
<1>4. Ahead(q, done)
  BY <1>2, <1>3 DEF Ahead
<1>6. "refund" \notin done
  <2>1. SUFFICES ASSUME "refund" \in done
                 PROVE  FALSE
    OBVIOUS
  <2>2. pivot = "refund" /\ "refund" \in left
    BY <1>1, <2>1 DEF CancellationOK
  <2> QED BY <1>2, <2>1, <2>2 DEF Ahead
<1> HIDE DEF q
<1>5. CancellationOK(q, done, pivot)
  BY <1>1, <1>3, <1>4, <1>6 DEF CancellationOK, Turned
<1> QED BY <1>5 DEF q

LEMMA UndoNext ==
  ASSUME NEW u \in Undos, u # <<>>
  PROVE  /\ \/ u = <<"release">> /\ Head(u) = "release" /\ Tail(u) = <<>>
            \/ u = <<"unclaim">> /\ Head(u) = "unclaim" /\ Tail(u) = <<>>
            \/ u = <<"unclaim", "release">> /\ Head(u) = "unclaim" /\ Tail(u) = <<"release">>
         /\ Len(u) = 1 <=> Tail(u) = <<>>
<1>1. CASE u = <<"release">>
  <2>1. Head(u) = "release" /\ Tail(u) = <<>> /\ Len(u) = 1
    BY <1>1
  <2> QED BY <1>1, <2>1
<1>2. CASE u = <<"unclaim">>
  <2>1. Head(u) = "unclaim" /\ Tail(u) = <<>> /\ Len(u) = 1
    BY <1>2
  <2> QED BY <1>2, <2>1
<1>3. CASE u = <<"unclaim", "release">>
  <2>1. Head(u) = "unclaim" /\ Tail(u) = <<"release">> /\ Len(u) = 2 /\ Tail(u) # <<>>
    BY <1>3
  <2> QED BY <1>3, <2>1
<1> QED BY <1>1, <1>2, <1>3 DEF Undos

LEMMA CancellationUndoes ==
  ASSUME NEW pivot \in {"refund", "commit"}, NEW r, NEW done, CancellationOK(r, done, pivot),
         r.mode \in {"undoing", "uncompensated"}
  PROVE  /\ r.undo # <<>> /\ ~r.past
         /\ Head(r.undo) \in {"release", "unclaim"}
         /\ Head(r.undo) = "unclaim" => "claim" \in done
         /\ Head(r.undo) = "release" => "hold" \in done
         /\ CancellationOK(r, done \cup {Head(r.undo)}, pivot)
<1> DEFINE s == Head(r.undo)
           left == Elements(r.todo)
<1>1. r # Unstarted
  BY DEF Unstarted
<1>2. r.undo \in Undos /\ r.undo # <<>> /\ ~r.past /\ Ahead(r, done)
  BY <1>1 DEF CancellationOK, Turned
<1>3. \/ r.undo = <<"release">> /\ s = "release"
      \/ r.undo \in {<<"unclaim">>, <<"unclaim", "release">>} /\ s = "unclaim"
  BY <1>2, UndoNext
<1>4. s = "unclaim" => "claim" \in done
  BY <1>1, <1>3 DEF CancellationOK, Turned
<1>5. s = "release" => "hold" \in done
  BY <1>1, <1>3 DEF CancellationOK, Turned
<1>6. r.todo \in CancellationTodos(pivot)
  BY <1>1 DEF CancellationOK, Turned
<1>7. left \subseteq {"hold", "claim", pivot, "restore", "withdraw", "close_cancelled"}
  BY <1>6, CancellationLeft
<1>8. Ahead(r, done \cup {s})
  BY <1>2, <1>3, <1>7 DEF Ahead
<1>9. <<"release">> \notin {<<"unclaim">>, <<"unclaim", "release">>}
  OBVIOUS
<1> HIDE DEF s
<1>10. CancellationOK(r, done \cup {s}, pivot)
  BY <1>1, <1>2, <1>3, <1>4, <1>5, <1>8, <1>9 DEF CancellationOK, Turned
<1> QED BY <1>2, <1>3, <1>4, <1>5, <1>10 DEF s

Abandoned(r) == [r EXCEPT !.mode = "uncompensated"]

LEMMA CancellationAbandoned ==
  ASSUME NEW pivot \in {"refund", "commit"}, NEW r, NEW done, CancellationOK(r, done, pivot),
         r.mode = "undoing"
  PROVE  CancellationOK(Abandoned(r), done, pivot)
<1> DEFINE q == Abandoned(r)
<1>1. r # Unstarted
  BY DEF Unstarted
<1>2. r \in Flow /\ Ahead(r, done)
  BY <1>1 DEF CancellationOK, Turned
<1>3. /\ q \in Flow /\ q # Unstarted /\ q.mode = "uncompensated"
      /\ q.todo = r.todo /\ q.undo = r.undo /\ q.past = r.past
  BY <1>2 DEF Abandoned, Flow, Unstarted
<1>4. Ahead(q, done)
  BY <1>2, <1>3 DEF Ahead
<1> HIDE DEF q
<1>5. CancellationOK(q, done, pivot)
  BY <1>1, <1>3, <1>4 DEF CancellationOK, Turned
<1> QED BY <1>5 DEF q

LEMMA CancellationUndid ==
  ASSUME NEW pivot \in {"refund", "commit"}, NEW r, NEW done, CancellationOK(r, done, pivot),
         r.mode = "undoing", Head(r.undo) \in done
  PROVE  CancellationOK(Back(r), done, pivot)
<1> DEFINE q == Back(r)
           left == Elements(r.todo)
<1>1. r # Unstarted
  BY DEF Unstarted
<1>2. /\ r.undo \in Undos /\ r.undo # <<>> /\ ~r.past /\ Ahead(r, done)
      /\ r.todo \in CancellationTodos(pivot) /\ r \in Flow
  BY <1>1 DEF CancellationOK, Turned
<1>3. /\ \/ r.undo = <<"release">> /\ Head(r.undo) = "release" /\ Tail(r.undo) = <<>>
         \/ r.undo = <<"unclaim">> /\ Head(r.undo) = "unclaim" /\ Tail(r.undo) = <<>>
         \/ /\ r.undo = <<"unclaim", "release">>
            /\ Head(r.undo) = "unclaim" /\ Tail(r.undo) = <<"release">>
      /\ Len(r.undo) = 1 <=> Tail(r.undo) = <<>>
  BY <1>2, UndoNext
<1>4. Tail(r.undo) \in Seq(Steps) /\ Tail(r.undo) \in Undos
  BY <1>2, <1>3 DEF Flow, Undos
<1>5. /\ q.todo = r.todo /\ q.past = r.past /\ q.undo = Tail(r.undo)
      /\ q.mode = IF Tail(r.undo) = <<>> THEN "undone" ELSE "undoing"
      /\ q \in Flow
  BY <1>2, <1>3, <1>4 DEF Back, Flow
<1>6. Ahead(q, done) /\ q # Unstarted
  BY <1>2, <1>5 DEF Ahead, Unstarted
<1> HIDE DEF q
<1>7. CASE r.undo = <<"release">>
  <2>1. q.undo = <<>> /\ q.mode = "undone" /\ "release" \in done
    BY <1>3, <1>5, <1>7
  <2>2. CancellationOK(q, done, pivot)
    BY <1>1, <1>2, <1>4, <1>5, <1>6, <1>7, <2>1 DEF CancellationOK, Turned
  <2> QED BY <2>2 DEF q
<1>8. CASE r.undo = <<"unclaim">>
  <2>1. q.undo = <<>> /\ q.mode = "undone" /\ "unclaim" \in done
    BY <1>3, <1>5, <1>8
  <2>2. CancellationOK(q, done, pivot)
    BY <1>1, <1>2, <1>4, <1>5, <1>6, <1>8, <2>1 DEF CancellationOK, Turned
  <2> QED BY <2>2 DEF q
<1>9. CASE r.undo = <<"unclaim", "release">>
  <2>1. q.undo = <<"release">> /\ q.mode = "undoing" /\ "unclaim" \in done
    BY <1>3, <1>5, <1>9
  <2>2. CancellationOK(q, done, pivot)
    BY <1>1, <1>2, <1>4, <1>5, <1>6, <1>9, <2>1 DEF CancellationOK, Turned
  <2> QED BY <2>2 DEF q
<1> QED BY <1>3, <1>7, <1>8, <1>9

LEMMA CancellationStarts ==
  ASSUME NEW pivot \in {"refund", "commit"}, NEW shipped \in BOOLEAN, NEW slip,
         slip = IF shipped
                THEN <<"hold", "claim", pivot, "restore", "withdraw", "close_cancelled">>
                ELSE <<"claim", pivot, "restore", "close_cancelled">>
  PROVE  CancellationOK(Begun(slip), {}, pivot)
<1> DEFINE q == Begun(slip)
<1>1. slip \in CancellationTodos(pivot) /\ slip \in Seq(Steps)
  <2>1. slip \in CancellationTodos(pivot)
    BY DEF CancellationTodos
  <2>2. pivot \in Steps
    BY DEF Steps
  <2>3. {"hold", "claim", "restore", "withdraw", "close_cancelled"} \subseteq Steps
    BY DEF Steps
  <2>4. <<"hold", "claim", pivot, "restore", "withdraw", "close_cancelled">> \in Seq(Steps)
    BY <2>2, <2>3
  <2>5. <<"claim", pivot, "restore", "close_cancelled">> \in Seq(Steps)
    BY <2>2, <2>3
  <2> QED BY <2>1, <2>4, <2>5
<1>2. Elements(slip) \ {"hold", "withdraw"} = {"claim", pivot, "restore", "close_cancelled"}
      /\ ("withdraw" \in Elements(slip) => "hold" \in Elements(slip))
      /\ slip # <<>>
  <2>1. CASE shipped
    <3>1. Elements(slip) = {"hold", "claim", pivot, "restore", "withdraw", "close_cancelled"}
      BY <2>1 DEF Elements
    <3> QED BY <2>1, <3>1
  <2>2. CASE ~shipped
    <3>1. Elements(slip) = {"claim", pivot, "restore", "close_cancelled"}
      BY <2>2 DEF Elements
    <3> QED BY <2>2, <3>1
  <2> QED BY <2>1, <2>2
<1>3. /\ q.mode = "running" /\ q.todo = slip /\ q.undo = <<>> /\ q.past = FALSE
      /\ q \in Flow /\ q # Unstarted
  BY <1>1, BegunFlow DEF Begun
<1>4. Ahead(q, {}) /\ <<>> \in Undos
  BY DEF Ahead, Undos
<1> HIDE DEF q
<1>5. CancellationOK(q, {}, pivot)
  BY <1>1, <1>2, <1>3, <1>4 DEF CancellationOK
<1> QED BY <1>5 DEF q

LEMMA DeliveryTakes ==
  ASSUME NEW card \in BOOLEAN, NEW r, NEW done, DeliveryOK(r, done, card),
         r.mode # "unstarted", r.todo # <<>>,
         Head(r.todo) \notin {"await_delivery", "collect", "await_return"}
  PROVE  DeliveryOK(r, done \cup {Head(r.todo)}, card)
<1> DEFINE left == Elements(r.todo)
           s == Head(r.todo)
<1>1. r # Unstarted
  BY DEF Unstarted
<1>2. r.todo \in DeliveryTodos(card)
  BY <1>1 DEF DeliveryOK
<1>3. /\ s \in left
      /\ \/ s = "dispatch" /\ left = {"dispatch", "mark", "await_delivery"}
         \/ s = "mark" /\ left = {"mark", "await_delivery"}
         \/ s = "close_fulfilled" /\ left = {"close_fulfilled"}
         \/ s = "restore" /\ left \ {"refund"} = {"restore", "close_cancelled"}
         \/ s = "close_cancelled" /\ left \ {"refund"} = {"close_cancelled"}
         \/ s = "refund" /\ left = {"refund"}
      /\ "refund" \in left => card
  BY <1>2, DeliveryNext
<1>4. Ahead(r, done \cup {s})
  BY <1>1 DEF DeliveryOK, Ahead
<1> QED BY <1>1, <1>3, <1>4 DEF DeliveryOK

LEMMA DeliveryAnswered ==
  ASSUME NEW card \in BOOLEAN, NEW r, NEW done, DeliveryOK(r, done, card),
         r.mode = "running", r.todo # <<>>, Head(r.todo) # "await_delivery",
         Head(r.todo) \in done \cup {"collect", "await_return"}
  PROVE  DeliveryOK(Onward(r, Tail(r.todo)), done, card)
<1> DEFINE left == Elements(r.todo)
           s == Head(r.todo)
           q == Onward(r, Tail(r.todo))
           now == Elements(q.todo)
<1>1. r # Unstarted
  BY DEF Unstarted
<1>2. r.todo \in DeliveryTodos(card) /\ r \in Flow /\ r.undo = <<>>
  BY <1>1 DEF DeliveryOK
<1>3. /\ Elements(Tail(r.todo)) = left \ {s} /\ s \in left
      /\ Tail(r.todo) \in DeliveryTodos(card)
      /\ \/ s = "dispatch" /\ left = {"dispatch", "mark", "await_delivery"}
         \/ s = "mark" /\ left = {"mark", "await_delivery"}
         \/ s = "collect" /\ ~card /\ left = {"collect", "close_fulfilled"}
         \/ s = "close_fulfilled" /\ left = {"close_fulfilled"}
         \/ s = "await_return" /\ left \ {"refund"} = {"await_return", "restore", "close_cancelled"}
         \/ s = "restore" /\ left \ {"refund"} = {"restore", "close_cancelled"}
         \/ s = "close_cancelled" /\ left \ {"refund"} = {"close_cancelled"}
         \/ s = "refund" /\ left = {"refund"}
      /\ "refund" \in left => card
      /\ card => left \cap {"refund", "close_cancelled"} # {"close_cancelled"}
  BY <1>2, DeliveryNext
<1>4. /\ q.todo = Tail(r.todo) /\ q.undo = <<>>
      /\ q.mode = IF Tail(r.todo) = <<>> THEN "completed" ELSE "running"
      /\ q.past <=> (r.past \/ s \in {"refund", "dispatch"})
  <2>1. s \in Pivots <=> s \in {"refund", "dispatch"}
    BY <1>3 DEF Pivots
  <2>2. s \notin DOMAIN Undoing
    BY <1>3, UndoTable
  <2>3. q.todo = Tail(r.todo) /\ q.undo = <<>>
    BY <1>2, <2>2 DEF Onward
  <2>4. q.mode = IF Tail(r.todo) = <<>> THEN "completed" ELSE "running"
    BY DEF Onward
  <2>5. q.past <=> (r.past \/ s \in {"refund", "dispatch"})
    BY <2>1, OnwardFields
  <2> QED BY <2>3, <2>4, <2>5
<1>5. q \in Flow /\ q # Unstarted
  <2>1. Tail(r.todo) \in Seq(Steps) /\ q.undo \in Seq(Steps)
    BY <1>2, <1>4 DEF Flow
  <2> QED BY <1>2, <2>1, OnwardFlow
<1>6. /\ now = left \ {s} /\ q.todo \in DeliveryTodos(card)
      /\ s \in done \cup {"collect", "await_return"}
  BY <1>3, <1>4
<1>7. /\ r.past <=> "dispatch" \notin left
      /\ \A x \in done \cap left : x = s
      /\ "dispatch" \notin left => "dispatch" \in done
      /\ "mark" \notin left => "mark" \in done
      /\ "close_fulfilled" \in done => "restore" \notin done /\ left \subseteq {"close_fulfilled"}
      /\ "restore" \in done => left \subseteq {"restore", "close_cancelled", "refund"}
      /\ left # {} /\ left \subseteq {"close_cancelled", "refund"} => "restore" \in done
      /\ "close_cancelled" \in done =>
           "restore" \in done /\ left \subseteq {"close_cancelled", "refund"}
      /\ left = {"refund"} => "close_cancelled" \in done
      /\ "refund" \in done => card /\ "close_cancelled" \in done /\ left \subseteq {"refund"}
  BY <1>1 DEF DeliveryOK, Ahead
<1> HIDE DEF q, left, s, now
<1>8. /\ q.mode \in {"running", "completed"}
      /\ q.mode = "completed" <=> q.todo = <<>>
      /\ q.past <=> "dispatch" \notin now
  BY <1>3, <1>4, <1>6, <1>7
<1>9. \A x \in done \cap now : FALSE
  BY <1>6, <1>7
<1>10. Ahead(q, done)
  BY <1>9 DEF Ahead, now
<1>11. /\ "dispatch" \notin now => "dispatch" \in done
       /\ "mark" \notin now => "mark" \in done
       /\ now = {} => done \cap {"close_fulfilled", "close_cancelled"} # {}
       /\ "close_fulfilled" \in done => "restore" \notin done /\ now \subseteq {"close_fulfilled"}
       /\ "restore" \in done => now \subseteq {"restore", "close_cancelled", "refund"}
       /\ now # {} /\ now \subseteq {"close_cancelled", "refund"} => "restore" \in done
       /\ now = {} /\ "restore" \in done => "close_cancelled" \in done
  BY <1>3, <1>6, <1>7
<1>12. /\ "close_cancelled" \in done =>
           "restore" \in done /\ now \subseteq {"close_cancelled", "refund"}
       /\ now = {"refund"} => "close_cancelled" \in done
       /\ "refund" \in done => card /\ "close_cancelled" \in done /\ now \subseteq {"refund"}
       /\ now = {} /\ "close_cancelled" \in done /\ card => "refund" \in done
  BY <1>3, <1>6, <1>7
<1>13. DeliveryOK(q, done, card)
  BY <1>4, <1>5, <1>6, <1>8, <1>10, <1>11, <1>12 DEF DeliveryOK, now
<1> QED BY <1>13 DEF q

LEMMA DeliveryRefused ==
  ASSUME NEW card \in BOOLEAN, NEW r, NEW done, DeliveryOK(r, done, card),
         r.mode = "running", r.todo # <<>>
  PROVE  DeliveryOK(Refuse(r), done, card)
<1> DEFINE q == Refuse(r)
<1>1. r # Unstarted
  BY DEF Unstarted
<1>2. r.todo \in DeliveryTodos(card) /\ r \in Flow /\ r.undo = <<>> /\ Ahead(r, done)
  BY <1>1 DEF DeliveryOK
<1>3. /\ q \in Flow /\ q.todo = r.todo /\ q.undo = <<>> /\ q.past = r.past
      /\ q.mode = IF r.past THEN "stranded" ELSE "undone"
  BY <1>2 DEF Refuse, Flow
<1>4. Ahead(q, done)
  BY <1>2, <1>3 DEF Ahead
<1> HIDE DEF q
<1>5. DeliveryOK(q, done, card)
  BY <1>1, <1>3, <1>4 DEF DeliveryOK
<1> QED BY <1>5 DEF q

LEMMA DeliveryBranches ==
  ASSUME NEW card \in BOOLEAN, NEW r, NEW done, DeliveryOK(r, done, card),
         r.mode = "running", r.todo # <<>>, Head(r.todo) = "await_delivery", NEW slip,
         slip \in IF card THEN {<<"close_fulfilled">>,
                                <<"await_return", "restore", "close_cancelled", "refund">>}
                          ELSE {<<"collect", "close_fulfilled">>,
                                <<"await_return", "restore", "close_cancelled">>},
         done \cap {"await_delivery", "collect", "await_return"} = {}
  PROVE  DeliveryOK(Onward(r, slip), done, card)
<1> DEFINE left == Elements(r.todo)
           q == Onward(r, slip)
           now == Elements(q.todo)
<1>1. r # Unstarted
  BY DEF Unstarted
<1>2. r.todo \in DeliveryTodos(card) /\ r \in Flow /\ r.undo = <<>>
  BY <1>1 DEF DeliveryOK
<1>3. left = {"await_delivery"}
  BY <1>2, DeliveryNext
<1>4. r.past
  BY <1>1, <1>3 DEF DeliveryOK
<1>5. /\ q.todo = slip /\ q.undo = <<>> /\ q.past
      /\ q.mode = IF slip = <<>> THEN "completed" ELSE "running"
  <2>1. Head(r.todo) \notin DOMAIN Undoing
    BY UndoTable
  <2> QED BY <1>2, <1>4, <2>1 DEF Onward
<1>6. /\ slip \in DeliveryTodos(card) /\ slip # <<>> /\ slip \in Seq(Steps)
      /\ now \in {{"close_fulfilled"}, {"collect", "close_fulfilled"},
                  {"await_return", "restore", "close_cancelled", "refund"},
                  {"await_return", "restore", "close_cancelled"}}
  <2>1. slip \in DeliveryTodos(card)
    BY DEF DeliveryTodos
  <2>2. CASE slip = <<"close_fulfilled">>
    <3>1. slip # <<>> /\ slip \in Seq(Steps) /\ Elements(slip) = {"close_fulfilled"}
      BY <2>2 DEF Elements, Steps
    <3> QED BY <1>5, <2>1, <3>1
  <2>3. CASE slip = <<"collect", "close_fulfilled">>
    <3>1. slip # <<>> /\ slip \in Seq(Steps) /\ Elements(slip) = {"collect", "close_fulfilled"}
      BY <2>3 DEF Elements, Steps
    <3> QED BY <1>5, <2>1, <3>1
  <2>4. CASE slip = <<"await_return", "restore", "close_cancelled", "refund">>
    <3>1. slip # <<>> /\ slip \in Seq(Steps)
      BY <2>4 DEF Steps
    <3>2. Elements(slip) = {"await_return", "restore", "close_cancelled", "refund"}
      BY <2>4 DEF Elements
    <3> QED BY <1>5, <2>1, <3>1, <3>2
  <2>5. CASE slip = <<"await_return", "restore", "close_cancelled">>
    <3>1. slip # <<>> /\ slip \in Seq(Steps)
      BY <2>5 DEF Steps
    <3>2. Elements(slip) = {"await_return", "restore", "close_cancelled"}
      BY <2>5 DEF Elements
    <3> QED BY <1>5, <2>1, <3>1, <3>2
  <2> QED BY <2>2, <2>3, <2>4, <2>5
<1>7. q \in Flow /\ q # Unstarted
  <2>1. q.undo \in Seq(Steps)
    BY <1>2, <1>5 DEF Flow
  <2> QED BY <1>2, <1>6, <2>1, OnwardFlow
<1>8. /\ {"dispatch", "mark"} \subseteq done
      /\ done \cap {"close_fulfilled", "restore", "close_cancelled", "refund"} = {}
  BY <1>1, <1>3 DEF DeliveryOK
<1>9. Ahead(q, done)
  <2>1. q.mode = "running" /\ q.todo = slip
    BY <1>5, <1>6
  <2>2. done \cap now = {}
    BY <1>6, <1>8
  <2> QED BY <2>2 DEF Ahead
<1> HIDE DEF q, left
<1>10. DeliveryOK(q, done, card)
  BY <1>5, <1>6, <1>7, <1>8, <1>9 DEF DeliveryOK
<1> QED BY <1>10 DEF q

LEMMA DeliveryStarts ==
  ASSUME NEW card \in BOOLEAN
  PROVE  DeliveryOK(Begun(DeliverySlip), {}, card)
<1> DEFINE q == Begun(DeliverySlip)
<1>1. /\ DeliverySlip \in DeliveryTodos(card) /\ DeliverySlip # <<>>
      /\ DeliverySlip \in Seq(Steps)
  BY DEF DeliverySlip, DeliveryTodos, Steps
<1>2. Elements(DeliverySlip) = {"dispatch", "mark", "await_delivery"}
  BY DEF DeliverySlip, Elements
<1>3. /\ q.mode = "running" /\ q.todo = DeliverySlip /\ q.undo = <<>> /\ q.past = FALSE
      /\ q \in Flow /\ q # Unstarted
  BY <1>1, BegunFlow DEF Begun
<1>4. Ahead(q, {})
  BY DEF Ahead
<1> HIDE DEF q
<1>5. DeliveryOK(q, {}, card)
  BY <1>1, <1>2, <1>3, <1>4 DEF DeliveryOK
<1> QED BY <1>5 DEF q

LEMMA CheckoutTakes ==
  ASSUME NEW channel \in {"shipped", "unshipped", "counter"}, NEW r, NEW done,
         CheckoutOK(r, done, channel), r.todo # <<>>, Head(r.todo) # "convert"
  PROVE  CheckoutOK(r, done \cup {Head(r.todo)}, channel)
<1> DEFINE left == Elements(r.todo)
           s == Head(r.todo)
<1>1. r.todo \in CheckoutTodos(channel)
  BY DEF CheckoutOK
<1>2. /\ s \in left
      /\ s \in {"confirm", "open", "mark", "close_fulfilled"}
      /\ s = "open" => channel = "shipped"
      /\ s \in {"mark", "close_fulfilled"} => channel = "counter"
  BY <1>1, CheckoutNext
<1>3. Ahead(r, done \cup {s})
  BY DEF CheckoutOK, Ahead
<1> QED BY <1>2, <1>3 DEF CheckoutOK

LEMMA CheckoutAnswered ==
  ASSUME NEW channel \in {"shipped", "unshipped", "counter"}, NEW r, NEW done,
         CheckoutOK(r, done, channel), r.mode = "running", r.todo # <<>>,
         Head(r.todo) \in done \cup {"convert"}
  PROVE  CheckoutOK(Onward(r, Tail(r.todo)), done, channel)
<1> DEFINE left == Elements(r.todo)
           s == Head(r.todo)
           q == Onward(r, Tail(r.todo))
           now == Elements(q.todo)
<1>1. r.todo \in CheckoutTodos(channel) /\ r \in Flow /\ r.undo = <<>> /\ r.past
  BY DEF CheckoutOK
<1>2. /\ Tail(r.todo) \in CheckoutTodos(channel)
      /\ Elements(Tail(r.todo)) = left \ {s} /\ s \in left
      /\ s \in {"convert", "confirm", "open", "mark", "close_fulfilled"}
  BY <1>1, CheckoutNext
<1>3. /\ q.todo = Tail(r.todo) /\ q.undo = <<>> /\ q.past
      /\ q.mode = IF Tail(r.todo) = <<>> THEN "completed" ELSE "running"
  <2>1. Head(r.todo) \notin DOMAIN Undoing
    BY <1>2, UndoTable
  <2> QED BY <1>1, <2>1 DEF Onward
<1>4. q \in Flow
  <2>1. Tail(r.todo) \in Seq(Steps) /\ q.undo \in Seq(Steps)
    BY <1>1, <1>3 DEF Flow
  <2> QED BY <1>1, <2>1, OnwardFlow
<1>5. now = left \ {s} /\ q.todo \in CheckoutTodos(channel) /\ s \in done \cup {"convert"}
  BY <1>2, <1>3
<1>6. /\ \A x \in done \cap left : x = s
      /\ "confirm" \notin left => "confirm" \in done
      /\ "open" \in done => channel = "shipped"
      /\ channel = "shipped" /\ "open" \notin left => "open" \in done
      /\ "mark" \in done => channel = "counter"
      /\ channel = "counter" /\ "mark" \notin left => "mark" \in done
      /\ "close_fulfilled" \in done => channel = "counter"
      /\ channel = "counter" /\ "close_fulfilled" \notin left => "close_fulfilled" \in done
  BY DEF CheckoutOK, Ahead
<1> HIDE DEF q, left, s, now
<1>7. \A x \in done \cap now : FALSE
  BY <1>5, <1>6
<1>8. Ahead(q, done)
  BY <1>7 DEF Ahead, now
<1>9. /\ "confirm" \notin now => "confirm" \in done
      /\ channel = "shipped" /\ "open" \notin now => "open" \in done
      /\ channel = "counter" /\ "mark" \notin now => "mark" \in done
      /\ channel = "counter" /\ "close_fulfilled" \notin now => "close_fulfilled" \in done
  BY <1>5, <1>6
<1>10. q.mode \in {"running", "completed"} /\ (q.mode = "completed" <=> q.todo = <<>>)
  BY <1>3
<1>11. CheckoutOK(q, done, channel)
  BY <1>3, <1>4, <1>5, <1>6, <1>8, <1>9, <1>10 DEF CheckoutOK, now
<1> QED BY <1>11 DEF q

LEMMA CheckoutRefused ==
  ASSUME NEW channel \in {"shipped", "unshipped", "counter"}, NEW r, NEW done,
         CheckoutOK(r, done, channel), r.mode = "running", r.todo # <<>>
  PROVE  CheckoutOK(Refuse(r), done, channel)
<1> DEFINE q == Refuse(r)
<1>1. r \in Flow /\ r.past /\ Ahead(r, done)
  BY DEF CheckoutOK
<1>2. /\ q \in Flow /\ q.todo = r.todo /\ q.undo = r.undo /\ q.past = r.past
      /\ q.mode = "stranded"
  BY <1>1 DEF Refuse, Flow
<1>3. Ahead(q, done)
  BY <1>1, <1>2 DEF Ahead
<1> HIDE DEF q
<1>4. CheckoutOK(q, done, channel)
  BY <1>2, <1>3 DEF CheckoutOK
<1> QED BY <1>4 DEF q

-----------------------------------------------------------------------------
(* The three kinds of slip as one *)

Worded == {"await_delivery", "collect", "await_return", "commit", "convert"}

LEMMA Placing ==
  ASSUME NEW p \in Placement
  PROVE  /\ p.channel \in {"shipped", "unshipped", "counter"}
         /\ (p.method = "card") \in BOOLEAN
         /\ (IF p.method = "card" THEN "refund" ELSE "commit") \in {"refund", "commit"}
BY DEF Placement

LEMMA SlipTakes ==
  ASSUME NEW p \in Placement, NEW f, NEW r, NEW done, SlipAt(f, r, done, p),
         r.mode # "unstarted", r.todo # <<>>, Head(r.todo) \notin Worded,
         Head(r.todo) = "refund" => r.mode \notin Turned
  PROVE  SlipAt(f, r, done \cup {Head(r.todo)}, p)
BY Placing, CancellationTakes, DeliveryTakes, CheckoutTakes DEF SlipAt, Worded

(* What is at the head of a slip tells whose it is.                          *)
LEMMA WhoseStep ==
  ASSUME NEW p \in Placement, NEW f \in Flows, NEW r, NEW done, SlipAt(f, r, done, p),
         r.mode # "unstarted", r.todo # <<>>
  PROVE  LET s == Head(r.todo)
         IN  /\ f = Checkout => s \in {"convert", "confirm", "open", "mark", "close_fulfilled"}
             /\ f \in Cancellations =>
                  s \in {"hold", "claim", "refund", "commit", "restore", "withdraw", "close_cancelled"}
             /\ f \in Deliveries =>
                  s \in {"dispatch", "mark", "await_delivery", "collect", "close_fulfilled",
                         "await_return", "restore", "close_cancelled", "refund"}
             /\ s \in Elements(r.todo)
             /\ f \in Flows /\ r \in Flow
<1>1. r # Unstarted
  BY DEF Unstarted
<1>2. CASE f = Checkout
  <2>1. r.todo \in CheckoutTodos(p.channel) /\ r \in Flow
    BY <1>2 DEF SlipAt, CheckoutOK
  <2>2. f \notin Cancellations /\ f \notin Deliveries
    BY <1>2, ConstantsMakeSense
  <2>3. /\ Head(r.todo) \in {"convert", "confirm", "open", "mark", "close_fulfilled"}
        /\ Head(r.todo) \in Elements(r.todo)
    BY <2>1, CheckoutNext, Placing
  <2> QED BY <2>1, <2>2, <2>3
<1>3. CASE f \in Cancellations
  <2> DEFINE pivot == IF p.method = "card" THEN "refund" ELSE "commit"
  <2>1. r.todo \in CancellationTodos(pivot) /\ r \in Flow
    BY <1>1, <1>3 DEF SlipAt, CancellationOK
  <2>2. f # Checkout /\ f \notin Deliveries
    BY <1>3, ConstantsMakeSense
  <2>3. pivot \in {"refund", "commit"}
    OBVIOUS
  <2> HIDE DEF pivot
  <2>4. /\ Head(r.todo) \in {"hold", "claim", pivot, "restore", "withdraw", "close_cancelled"}
        /\ Head(r.todo) \in Elements(r.todo)
    BY <2>1, <2>3, CancellationNext
  <2> QED BY <2>1, <2>2, <2>3, <2>4
<1>4. CASE f \in Deliveries
  <2>1. r.todo \in DeliveryTodos(p.method = "card") /\ r \in Flow
    BY <1>1, <1>4 DEF SlipAt, DeliveryOK
  <2>2. f # Checkout /\ f \notin Cancellations
    BY <1>4, ConstantsMakeSense
  <2>3. /\ Head(r.todo) \in {"dispatch", "mark", "await_delivery", "collect", "close_fulfilled",
                         "await_return", "restore", "close_cancelled", "refund"}
        /\ Head(r.todo) \in Elements(r.todo)
    BY <2>1, DeliveryNext, Placing
  <2> QED BY <2>1, <2>2, <2>3
<1> QED BY <1>2, <1>3, <1>4 DEF Flows

LEMMA SlipAnswered ==
  ASSUME NEW p \in Placement, NEW f \in Flows, NEW r, NEW done, SlipAt(f, r, done, p),
         r.mode = "running", r.todo # <<>>, Head(r.todo) # "await_delivery",
         Head(r.todo) \in done \cup Worded
  PROVE  SlipAt(f, Onward(r, Tail(r.todo)), done, p)
<1> DEFINE s == Head(r.todo)
<1>1. CASE f = Checkout
  <2>1. s \in done \cup {"convert"}
    BY <1>1, WhoseStep DEF Worded
  <2>2. f \notin Cancellations /\ f \notin Deliveries
    BY <1>1, ConstantsMakeSense
  <2> QED BY <1>1, <2>1, <2>2, Placing, CheckoutAnswered DEF SlipAt
<1>2. CASE f \in Cancellations
  <2>1. s \in done \cup {"commit"}
    BY <1>2, WhoseStep DEF Worded
  <2>2. f # Checkout /\ f \notin Deliveries
    BY <1>2, ConstantsMakeSense
  <2> QED BY <1>2, <2>1, <2>2, Placing, CancellationAnswered DEF SlipAt
<1>3. CASE f \in Deliveries
  <2>1. s \in done \cup {"collect", "await_return"}
    BY <1>3, WhoseStep DEF Worded
  <2>2. f # Checkout /\ f \notin Cancellations
    BY <1>3, ConstantsMakeSense
  <2> QED BY <1>3, <2>1, <2>2, Placing, DeliveryAnswered DEF SlipAt
<1> QED BY <1>1, <1>2, <1>3 DEF Flows

LEMMA SlipRefused ==
  ASSUME NEW p \in Placement, NEW f, NEW r, NEW done, SlipAt(f, r, done, p),
         r.mode = "running", r.todo # <<>>, Head(r.todo) # "refund" \/ "refund" \notin done,
         f \in Cancellations => ~r.past
  PROVE  SlipAt(f, Refuse(r), done, p)
BY Placing, CancellationRefused, DeliveryRefused, CheckoutRefused DEF SlipAt

Suspended(r) == [r EXCEPT !.mode = "suspended"]

(* A flow left for a person has done what it had done.                       *)
LEMMA SlipSuspended ==
  ASSUME NEW p \in Placement, NEW f \in Flows, NEW r, NEW done, SlipAt(f, r, done, p),
         r.mode = "running", r.todo # <<>>
  PROVE  SlipAt(f, Suspended(r), done, p)
<1> DEFINE q == Suspended(r)
<1>1. r # Unstarted /\ r \in Flow
  BY WhoseStep DEF Unstarted
<1>2. /\ q \in Flow /\ q # Unstarted /\ q.mode = "suspended"
      /\ q.todo = r.todo /\ q.undo = r.undo /\ q.past = r.past
  BY <1>1 DEF Suspended, Flow, Unstarted
<1>3. Ahead(r, done) => Ahead(q, done)
  BY <1>2 DEF Ahead
<1> HIDE DEF q
<1>4. f = Checkout => CheckoutOK(q, done, p.channel)
  BY <1>2, <1>3 DEF SlipAt, CheckoutOK
<1>5. f \in Deliveries => DeliveryOK(q, done, p.method = "card")
  BY <1>1, <1>2, <1>3 DEF SlipAt, DeliveryOK
<1>6. ASSUME f \in Cancellations
      PROVE  CancellationOK(q, done, IF p.method = "card" THEN "refund" ELSE "commit")
  <2> DEFINE pivot == IF p.method = "card" THEN "refund" ELSE "commit"
  <2>1. CancellationOK(r, done, pivot)
    BY <1>6 DEF SlipAt
  <2> HIDE DEF pivot
  <2>2. CancellationOK(q, done, pivot)
    BY <1>1, <1>2, <1>3, <2>1 DEF CancellationOK, Turned
  <2> QED BY <2>2 DEF pivot
<1> QED BY <1>4, <1>5, <1>6 DEF SlipAt, q

-----------------------------------------------------------------------------
(* What a step does to the story the records tell *)

(* Flow f took step s, and nobody else took any. *)
Adds(D, E, f, s) == \A h \in Flows : \A x : x \in E[h] <=> (x \in D[h] \/ (h = f /\ x = s))

OrderWords == {"confirm", "mark", "close_fulfilled", "claim", "unclaim", "close_cancelled"}

LEMMA OrderSame ==
  ASSUME NEW D, NEW E, NEW status, NEW from, OrderAt(status, from, D),
         \A h \in Flows, s \in OrderWords : s \in E[h] <=> s \in D[h]
  PROVE  OrderAt(status, from, E)
<1>1. \A h \in Flows : /\ "confirm" \in E[h] <=> "confirm" \in D[h]
                       /\ "mark" \in E[h] <=> "mark" \in D[h]
                       /\ "close_fulfilled" \in E[h] <=> "close_fulfilled" \in D[h]
                       /\ "close_cancelled" \in E[h] <=> "close_cancelled" \in D[h]
                       /\ Holds(E, h) <=> Holds(D, h)
  BY DEF OrderWords, Holds
<1>2. /\ \A h \in Cancellations : h \in Flows
      /\ \A h \in Closers : h \in Flows
      /\ \A h \in Cancellations \cup Deliveries : h \in Flows
      /\ Checkout \in Flows
  BY DEF Flows, Closers
<1> QED BY <1>1, <1>2 DEF OrderAt

LEMMA OrderConfirmed ==
  ASSUME NEW D, NEW E, NEW from, NEW now, NEW status \in {"pending", "paid"},
         OrderAt(status, from, D), Adds(D, E, Checkout, "confirm")
  PROVE  OrderAt("confirmed", now, E)
<1>1. \A h \in Flows : /\ "mark" \in E[h] <=> "mark" \in D[h]
                       /\ "close_fulfilled" \in E[h] <=> "close_fulfilled" \in D[h]
                       /\ "close_cancelled" \in E[h] <=> "close_cancelled" \in D[h]
                       /\ Holds(E, h) <=> Holds(D, h)
  BY DEF Adds, Holds
<1>2. /\ \A h \in Cancellations : h \in Flows
      /\ \A h \in Closers : h \in Flows
      /\ \A h \in Cancellations \cup Deliveries : h \in Flows
      /\ Checkout \in Flows
  BY DEF Flows, Closers
<1>3. "confirm" \in E[Checkout]
  BY <1>2 DEF Adds
<1> QED BY <1>1, <1>2, <1>3 DEF OrderAt

LEMMA OrderMarked ==
  ASSUME NEW D, NEW E, NEW from, NEW now, NEW f \in Closers,
         OrderAt("confirmed", from, D), Adds(D, E, f, "mark")
  PROVE  OrderAt("dispatched", now, E)
<1>1. \A h \in Flows : /\ "confirm" \in E[h] <=> "confirm" \in D[h]
                       /\ "close_fulfilled" \in E[h] <=> "close_fulfilled" \in D[h]
                       /\ "close_cancelled" \in E[h] <=> "close_cancelled" \in D[h]
                       /\ Holds(E, h) <=> Holds(D, h)
  BY DEF Adds, Holds
<1>2. /\ \A h \in Cancellations : h \in Flows
      /\ \A h \in Closers : h \in Flows
      /\ \A h \in Cancellations \cup Deliveries : h \in Flows
      /\ Checkout \in Flows
  BY DEF Flows, Closers
<1>3. "mark" \in E[f]
  BY <1>2 DEF Adds
<1>4. \A c \in Cancellations : ~Holds(D, c)
  BY <1>2 DEF OrderAt
<1> QED BY <1>1, <1>2, <1>3, <1>4 DEF OrderAt

LEMMA OrderFulfilled ==
  ASSUME NEW D, NEW E, NEW from, NEW now, NEW f \in Closers,
         OrderAt("dispatched", from, D), Adds(D, E, f, "close_fulfilled")
  PROVE  OrderAt("fulfilled", now, E)
<1>1. \A h \in Flows : /\ "confirm" \in E[h] <=> "confirm" \in D[h]
                       /\ "mark" \in E[h] <=> "mark" \in D[h]
                       /\ "close_cancelled" \in E[h] <=> "close_cancelled" \in D[h]
                       /\ Holds(E, h) <=> Holds(D, h)
  BY DEF Adds, Holds
<1>2. /\ \A h \in Cancellations : h \in Flows
      /\ \A h \in Closers : h \in Flows
      /\ \A h \in Cancellations \cup Deliveries : h \in Flows
      /\ Checkout \in Flows
  BY DEF Flows, Closers
<1>3. "close_fulfilled" \in E[f]
  BY <1>2 DEF Adds
<1> QED BY <1>1, <1>2, <1>3 DEF OrderAt

LEMMA OrderClaimed ==
  ASSUME NEW D, NEW E, NEW from, NEW status \in {"paid", "confirmed"}, NEW c \in Cancellations,
         OrderAt(status, from, D), Adds(D, E, c, "claim"), "unclaim" \notin D[c]
  PROVE  OrderAt("cancelling", status, E)
<1>1. \A h \in Flows : /\ "confirm" \in E[h] <=> "confirm" \in D[h]
                       /\ "mark" \in E[h] <=> "mark" \in D[h]
                       /\ "close_fulfilled" \in E[h] <=> "close_fulfilled" \in D[h]
                       /\ "close_cancelled" \in E[h] <=> "close_cancelled" \in D[h]
                       /\ h # c => (Holds(E, h) <=> Holds(D, h))
  BY DEF Adds, Holds
<1>2. /\ \A h \in Cancellations : h \in Flows
      /\ \A h \in Closers : h \in Flows
      /\ \A h \in Cancellations \cup Deliveries : h \in Flows
      /\ Checkout \in Flows
  BY DEF Flows, Closers
<1>3. Holds(E, c)
  BY <1>2 DEF Adds, Holds
<1>4. \A e \in Cancellations : ~Holds(D, e)
  BY <1>2 DEF OrderAt
<1> QED BY <1>1, <1>2, <1>3, <1>4 DEF OrderAt

LEMMA OrderUnclaimed ==
  ASSUME NEW D, NEW E, NEW from, NEW now, NEW c \in Cancellations,
         OrderAt("cancelling", from, D), Adds(D, E, c, "unclaim"),
         Holds(D, c), "close_cancelled" \notin D[c]
  PROVE  OrderAt(from, now, E)
<1>1. \A h \in Flows : /\ "confirm" \in E[h] <=> "confirm" \in D[h]
                       /\ "mark" \in E[h] <=> "mark" \in D[h]
                       /\ "close_fulfilled" \in E[h] <=> "close_fulfilled" \in D[h]
                       /\ "close_cancelled" \in E[h] <=> "close_cancelled" \in D[h]
                       /\ h # c => (Holds(E, h) <=> Holds(D, h))
  BY DEF Adds, Holds
<1>2. /\ \A h \in Cancellations : h \in Flows
      /\ \A h \in Closers : h \in Flows
      /\ \A h \in Cancellations \cup Deliveries : h \in Flows
      /\ Checkout \in Flows
  BY DEF Flows, Closers
<1>3. ~Holds(E, c)
  BY <1>2 DEF Adds, Holds
<1>4. \A e \in Cancellations : ~Holds(E, e)
  BY <1>1, <1>2, <1>3 DEF OrderAt
<1>5. from \in {"paid", "confirmed"}
  BY DEF OrderAt
<1> QED BY <1>1, <1>2, <1>4, <1>5 DEF OrderAt

LEMMA OrderSettled ==
  ASSUME NEW D, NEW E, NEW from, NEW now, NEW c \in Cancellations,
         OrderAt("cancelling", from, D), Adds(D, E, c, "close_cancelled"), Holds(D, c)
  PROVE  OrderAt("cancelled", now, E)
<1>1. \A h \in Flows : /\ "confirm" \in E[h] <=> "confirm" \in D[h]
                       /\ "mark" \in E[h] <=> "mark" \in D[h]
                       /\ "close_fulfilled" \in E[h] <=> "close_fulfilled" \in D[h]
                       /\ h # c => ("close_cancelled" \in E[h] <=> "close_cancelled" \in D[h])
                       /\ Holds(E, h) <=> Holds(D, h)
  BY DEF Adds, Holds
<1>2. /\ \A h \in Cancellations : h \in Flows
      /\ \A h \in Closers : h \in Flows
      /\ \A h \in Cancellations \cup Deliveries : h \in Flows
      /\ Checkout \in Flows /\ c \in Cancellations \cup Deliveries
  BY DEF Flows, Closers
<1>3. "close_cancelled" \in E[c]
  BY <1>2 DEF Adds
<1> QED BY <1>1, <1>2, <1>3 DEF OrderAt

LEMMA OrderReturned ==
  ASSUME NEW D, NEW E, NEW from, NEW now, NEW d \in Deliveries,
         OrderAt("dispatched", from, D), Adds(D, E, d, "close_cancelled")
  PROVE  OrderAt("cancelled", now, E)
<1>1. \A h \in Flows : /\ "confirm" \in E[h] <=> "confirm" \in D[h]
                       /\ "mark" \in E[h] <=> "mark" \in D[h]
                       /\ "close_fulfilled" \in E[h] <=> "close_fulfilled" \in D[h]
                       /\ h # d => ("close_cancelled" \in E[h] <=> "close_cancelled" \in D[h])
                       /\ Holds(E, h) <=> Holds(D, h)
  BY DEF Adds, Holds
<1>2. /\ \A h \in Cancellations : h \in Flows
      /\ \A h \in Closers : h \in Flows
      /\ \A h \in Cancellations \cup Deliveries : h \in Flows
      /\ Checkout \in Flows /\ d \in Cancellations \cup Deliveries
  BY DEF Flows, Closers
<1>3. "close_cancelled" \in E[d]
  BY <1>2 DEF Adds
<1>4. \A c \in Cancellations : ~Holds(D, c)
  BY <1>2 DEF OrderAt
<1> QED BY <1>1, <1>2, <1>3, <1>4 DEF OrderAt

LEMMA OrderPaid ==
  ASSUME NEW D, NEW from, NEW now, OrderAt("pending", from, D)
  PROVE  OrderAt("paid", now, D)
BY DEF OrderAt

ParcelWords == {"open", "hold", "withdraw", "dispatch", "release"}

LEMMA ParcelSame ==
  ASSUME NEW D, NEW E, NEW parcel, ParcelAt(parcel, D),
         \A h \in Flows, s \in ParcelWords : s \in E[h] <=> s \in D[h]
  PROVE  ParcelAt(parcel, E)
<1>1. \A h \in Flows : /\ "open" \in E[h] <=> "open" \in D[h]
                       /\ "hold" \in E[h] <=> "hold" \in D[h]
                       /\ "withdraw" \in E[h] <=> "withdraw" \in D[h]
                       /\ "dispatch" \in E[h] <=> "dispatch" \in D[h]
                       /\ HoldsParcel(E, h) <=> HoldsParcel(D, h)
  BY DEF ParcelWords, HoldsParcel
<1>2. /\ \A h \in Cancellations : h \in Flows
      /\ \A h \in Deliveries : h \in Flows
      /\ Checkout \in Flows
  BY DEF Flows
<1> QED BY <1>1, <1>2 DEF ParcelAt

LEMMA ParcelMoves ==
  ASSUME NEW D, NEW E, NEW parcel, NEW f \in Flows, NEW s, NEW now, ParcelAt(parcel, D), Adds(D, E, f, s),
         \/ f = Checkout /\ s = "open" /\ parcel = None /\ now = "awaiting_dispatch"
         \/ /\ f \in Cancellations /\ s = "hold" /\ D[f] \cap {"release", "withdraw"} = {}
            /\ parcel = "awaiting_dispatch" /\ now = "held"
         \/ f \in Cancellations /\ s = "withdraw" /\ HoldsParcel(D, f) /\ now = "withdrawn"
         \/ /\ f \in Cancellations /\ s = "release" /\ HoldsParcel(D, f) /\ "withdraw" \notin D[f]
            /\ now = "awaiting_dispatch"
         \/ f \in Deliveries /\ s = "dispatch" /\ parcel = "awaiting_dispatch" /\ now = "dispatched"
  PROVE  ParcelAt(now, E)
<1>0. /\ \A h \in Cancellations : h \in Flows /\ h # Checkout /\ h \notin Deliveries
      /\ \A h \in Deliveries : h \in Flows /\ h # Checkout
      /\ Checkout \in Flows
  BY ConstantsMakeSense DEF Flows
<1>1. CASE s = "open"
  <2>1. \A h \in Flows : /\ "hold" \in E[h] <=> "hold" \in D[h]
                         /\ "withdraw" \in E[h] <=> "withdraw" \in D[h]
                         /\ "dispatch" \in E[h] <=> "dispatch" \in D[h]
                         /\ HoldsParcel(E, h) <=> HoldsParcel(D, h)
    BY <1>1 DEF Adds, HoldsParcel
  <2>2. "open" \in E[Checkout]
    BY <1>0, <1>1 DEF Adds
  <2> QED BY <1>0, <1>1, <2>1, <2>2 DEF ParcelAt, None, Gone
<1>2. CASE s = "hold"
  <2>1. \A h \in Flows : /\ "open" \in E[h] <=> "open" \in D[h]
                         /\ h # f => ("hold" \in E[h] <=> "hold" \in D[h])
                         /\ "withdraw" \in E[h] <=> "withdraw" \in D[h]
                         /\ "dispatch" \in E[h] <=> "dispatch" \in D[h]
                         /\ h # f => (HoldsParcel(E, h) <=> HoldsParcel(D, h))
    BY <1>2 DEF Adds, HoldsParcel
  <2>2. HoldsParcel(E, f) /\ "withdraw" \notin E[f]
    BY <1>2 DEF Adds, HoldsParcel
  <2>3. \A c \in Cancellations : ~HoldsParcel(D, c)
    BY <1>2 DEF ParcelAt
  <2> QED BY <1>0, <1>2, <2>1, <2>2, <2>3 DEF ParcelAt, None, Gone
<1>3. CASE s = "withdraw"
  <2>1. \A h \in Flows : /\ "open" \in E[h] <=> "open" \in D[h]
                         /\ "hold" \in E[h] <=> "hold" \in D[h]
                         /\ h # f => ("withdraw" \in E[h] <=> "withdraw" \in D[h])
                         /\ "dispatch" \in E[h] <=> "dispatch" \in D[h]
                         /\ HoldsParcel(E, h) <=> HoldsParcel(D, h)
    BY <1>3 DEF Adds, HoldsParcel
  <2>2. "withdraw" \in E[f] /\ HoldsParcel(D, f) /\ parcel \in {"held", "withdrawn"}
    BY <1>3 DEF Adds, ParcelAt
  <2> QED BY <1>0, <1>3, <2>1, <2>2 DEF ParcelAt, None, Gone
<1>4. CASE s = "release"
  <2>1. \A h \in Flows : /\ "open" \in E[h] <=> "open" \in D[h]
                         /\ "hold" \in E[h] <=> "hold" \in D[h]
                         /\ "withdraw" \in E[h] <=> "withdraw" \in D[h]
                         /\ "dispatch" \in E[h] <=> "dispatch" \in D[h]
                         /\ h # f => (HoldsParcel(E, h) <=> HoldsParcel(D, h))
    BY <1>4 DEF Adds, HoldsParcel
  <2>2. ~HoldsParcel(E, f) /\ parcel = "held" /\ now = "awaiting_dispatch" /\ f \in Cancellations
    BY <1>4 DEF Adds, HoldsParcel, ParcelAt
  <2>3. \A c \in Cancellations : ~HoldsParcel(E, c)
    BY <1>0, <1>4, <2>1, <2>2 DEF ParcelAt
  <2> QED BY <1>0, <2>1, <2>2, <2>3 DEF ParcelAt, None, Gone
<1>5. CASE s = "dispatch"
  <2>1. \A h \in Flows : /\ "open" \in E[h] <=> "open" \in D[h]
                         /\ "hold" \in E[h] <=> "hold" \in D[h]
                         /\ "withdraw" \in E[h] <=> "withdraw" \in D[h]
                         /\ h # f => ("dispatch" \in E[h] <=> "dispatch" \in D[h])
                         /\ HoldsParcel(E, h) <=> HoldsParcel(D, h)
    BY <1>5 DEF Adds, HoldsParcel
  <2>2. "dispatch" \in E[f] /\ f \in Deliveries /\ parcel = "awaiting_dispatch" /\ now = "dispatched"
    BY <1>5 DEF Adds
  <2>3. /\ \A c \in Cancellations : ~HoldsParcel(D, c)
        /\ \A d \in Deliveries : "dispatch" \notin D[d]
    BY <2>2 DEF ParcelAt, Gone
  <2> QED BY <1>0, <2>1, <2>2, <2>3 DEF ParcelAt, None, Gone
<1> QED BY <1>1, <1>2, <1>3, <1>4, <1>5

LEMMA CourierStays ==
  ASSUME NEW left, NEW done, NEW card, NEW parcel, NEW cash, NEW now, NEW paid,
         CourierAt(left, done, card, parcel, cash),
         parcel \in {"delivered", "returned"} => now = parcel,
         cash => paid
  PROVE  CourierAt(left, done, card, now, paid)
BY DEF CourierAt

(* A delivery at a step of its slip, and how it may stand by what it does.   *)
Courses(r, done, card, parcel, cash, left, did, now, paid) ==
  /\ card \in BOOLEAN /\ DeliveryOK(r, done, card)
  /\ r.mode # "unstarted" /\ r.todo # <<>> /\ Head(r.todo) # "await_delivery"
  /\ CourierAt(Elements(r.todo), done, card, parcel, cash)
  /\ left \in {Elements(r.todo), Elements(Tail(r.todo))}
  /\ did \in {done, done \cup {Head(r.todo)}}
  /\ parcel \in {"delivered", "returned"} => now = parcel
  /\ cash \/ Head(r.todo) = "collect" => paid
  /\ Head(r.todo) = "await_return" => left = Elements(r.todo) \/ now = "returned"

LEMMA CourierTakes ==
  ASSUME NEW r, NEW done, NEW card, NEW parcel, NEW cash, NEW left, NEW did, NEW now, NEW paid,
         Courses(r, done, card, parcel, cash, left, did, now, paid)
  PROVE  CourierAt(left, did, card, now, paid)
<1> USE DEF Courses
<1> DEFINE todo == Elements(r.todo)
           s == Head(r.todo)
<1>1. r # Unstarted
  BY DEF Unstarted
<1>2. r.todo \in DeliveryTodos(card)
  BY <1>1 DEF DeliveryOK
<1>3. /\ Elements(Tail(r.todo)) = todo \ {s} /\ s \in todo
      /\ \/ s = "dispatch" /\ todo = {"dispatch", "mark", "await_delivery"}
         \/ s = "mark" /\ todo = {"mark", "await_delivery"}
         \/ s = "collect" /\ ~card /\ todo = {"collect", "close_fulfilled"}
         \/ s = "close_fulfilled" /\ todo = {"close_fulfilled"}
         \/ s = "await_return" /\ todo \ {"refund"} = {"await_return", "restore", "close_cancelled"}
         \/ s = "restore" /\ todo \ {"refund"} = {"restore", "close_cancelled"}
         \/ s = "close_cancelled" /\ todo \ {"refund"} = {"close_cancelled"}
         \/ s = "refund" /\ todo = {"refund"}
  BY <1>2, DeliveryNext
<1>4. /\ "close_fulfilled" \in todo \cup done => parcel = "delivered"
      /\ "close_fulfilled" \in done \/ ("close_fulfilled" \in todo /\ "collect" \notin todo) =>
           card \/ cash
      /\ todo # {} /\ todo \subseteq {"restore", "close_cancelled", "refund"} => parcel = "returned"
      /\ "restore" \in done => parcel = "returned"
  BY DEF CourierAt
<1>5. left \in {todo, todo \ {s}} /\ did \in {done, done \cup {s}}
      /\ (s = "await_return" => left = todo \/ now = "returned") /\ (cash \/ s = "collect" => paid)
  BY <1>3
<1> HIDE DEF todo, s
<1>6. "close_fulfilled" \in left \cup did => "close_fulfilled" \in todo \cup done
  BY <1>3, <1>5
<1>7. "close_fulfilled" \in did \/ ("close_fulfilled" \in left /\ "collect" \notin left) =>
        card \/ paid
  BY <1>3, <1>4, <1>5
<1>8. left # {} /\ left \subseteq {"restore", "close_cancelled", "refund"} => now = "returned"
  BY <1>3, <1>4, <1>5
<1>9. "restore" \in did => now = "returned"
  BY <1>3, <1>4, <1>5
<1> QED BY <1>4, <1>6, <1>7, <1>8, <1>9 DEF CourierAt

(* A delivery told how its parcel fared does what the news ask for.          *)
LEMMA CourierBranches ==
  ASSUME NEW card \in BOOLEAN, NEW r, NEW done, DeliveryOK(r, done, card),
         r.mode = "running", r.todo # <<>>, Head(r.todo) = "await_delivery",
         NEW now, NEW cash, NEW slip,
         \/ slip = (IF card THEN <<"close_fulfilled">> ELSE <<"collect", "close_fulfilled">>)
            /\ now = "delivered"
         \/ slip = IF card THEN <<"await_return", "restore", "close_cancelled", "refund">>
                           ELSE <<"await_return", "restore", "close_cancelled">>
  PROVE  CourierAt(Elements(slip), done, card, now, cash)
<1>1. r # Unstarted
  BY DEF Unstarted
<1>2. r.todo \in DeliveryTodos(card)
  BY <1>1 DEF DeliveryOK
<1>3. Elements(r.todo) = {"await_delivery"}
  BY <1>2, DeliveryNext
<1>4. done \cap {"close_fulfilled", "restore"} = {}
  BY <1>1, <1>3 DEF DeliveryOK
<1>5. \/ Elements(slip) = {"close_fulfilled"} /\ card /\ now = "delivered"
      \/ Elements(slip) = {"collect", "close_fulfilled"} /\ now = "delivered"
      \/ Elements(slip) = {"await_return", "restore", "close_cancelled", "refund"}
      \/ Elements(slip) = {"await_return", "restore", "close_cancelled"}
  <2>1. Elements(<<"close_fulfilled">>) = {"close_fulfilled"}
    BY DEF Elements
  <2>2. Elements(<<"collect", "close_fulfilled">>) = {"collect", "close_fulfilled"}
    BY DEF Elements
  <2>3. Elements(<<"await_return", "restore", "close_cancelled", "refund">>) =
          {"await_return", "restore", "close_cancelled", "refund"}
    BY DEF Elements
  <2>4. Elements(<<"await_return", "restore", "close_cancelled">>) =
          {"await_return", "restore", "close_cancelled"}
    BY DEF Elements
  <2> QED BY <2>1, <2>2, <2>3, <2>4
<1>6. "await_return" \notin {"restore", "close_cancelled", "refund"}
      /\ "close_fulfilled" \notin {"restore", "close_cancelled", "refund"}
  OBVIOUS
<1> HIDE DEF Elements
<1> QED BY <1>4, <1>5, <1>6 DEF CourierAt

-----------------------------------------------------------------------------
(* Reading what was done *)

LEMMA DoneMeans ==
  ASSUME NEW f \in Flows
  PROVE  /\ \A s \in OrderSteps : s \in DoneBy[f] <=> <<f, s>> \in claimed
         /\ \A s \in ShipSteps : s \in DoneBy[f] <=> <<f, s>> \in shipClaimed
         /\ "restore" \in DoneBy[f] <=> f \in restored
         /\ "refund" \in DoneBy[f] <=> refundedBy = f
         /\ "unclaim" \in DoneBy[f] <=> f \in edge
         /\ DoneBy[f] \cap Worded = {}
<1>1. DoneBy[f] = Done(f)
  BY DEF DoneBy
<1> QED BY <1>1 DEF Done, OrderSteps, ShipSteps, Worded

LEMMA TookOrderStep ==
  ASSUME NEW f \in Flows, NEW s \in OrderSteps, claimed' = claimed \cup {<<f, s>>},
         UNCHANGED <<shipClaimed, restored, refundedBy, edge>>
  PROVE  Adds(DoneBy, DoneBy', f, s)
<1> SUFFICES ASSUME NEW h \in Flows, NEW x
             PROVE  x \in DoneBy'[h] <=> (x \in DoneBy[h] \/ (h = f /\ x = s))
  BY DEF Adds
<1>1. DoneBy[h] = Done(h) /\ DoneBy'[h] = Done(h)'
  BY DEF DoneBy
<1>2. \A y : <<h, y>> \in claimed' <=> (<<h, y>> \in claimed \/ (h = f /\ y = s))
  OBVIOUS
<1> QED BY <1>1, <1>2 DEF Done, OrderSteps, ShipSteps

LEMMA TookShipStep ==
  ASSUME NEW f \in Flows, NEW s \in ShipSteps, shipClaimed' = shipClaimed \cup {<<f, s>>},
         UNCHANGED <<claimed, restored, refundedBy, edge>>
  PROVE  Adds(DoneBy, DoneBy', f, s)
<1> SUFFICES ASSUME NEW h \in Flows, NEW x
             PROVE  x \in DoneBy'[h] <=> (x \in DoneBy[h] \/ (h = f /\ x = s))
  BY DEF Adds
<1>1. DoneBy[h] = Done(h) /\ DoneBy'[h] = Done(h)'
  BY DEF DoneBy
<1>2. \A y : <<h, y>> \in shipClaimed' <=> (<<h, y>> \in shipClaimed \/ (h = f /\ y = s))
  OBVIOUS
<1> QED BY <1>1, <1>2 DEF Done, OrderSteps, ShipSteps

LEMMA TookOther ==
  ASSUME NEW f \in Flows, NEW s, UNCHANGED <<claimed, shipClaimed>>,
         \/ s = "restore" /\ restored' = restored \cup {f} /\ UNCHANGED <<refundedBy, edge>>
         \/ /\ s = "refund" /\ refundedBy = None /\ refundedBy' = f
             /\ UNCHANGED <<restored, edge>>
         \/ s = "unclaim" /\ edge' = edge \cup {f} /\ UNCHANGED <<restored, refundedBy>>
  PROVE  Adds(DoneBy, DoneBy', f, s)
<1> SUFFICES ASSUME NEW h \in Flows, NEW x
             PROVE  x \in DoneBy'[h] <=> (x \in DoneBy[h] \/ (h = f /\ x = s))
  BY DEF Adds
<1>1. DoneBy[h] = Done(h) /\ DoneBy'[h] = Done(h)'
  BY DEF DoneBy
<1>2. h # None
  BY ConstantsMakeSense
<1> QED BY <1>1, <1>2 DEF Done, OrderSteps, ShipSteps

LEMMA TookNothing ==
  ASSUME UNCHANGED <<shipClaimed, restored, refundedBy, edge>>,
         \A f \in Flows, s \in OrderSteps : <<f, s>> \in claimed' <=> <<f, s>> \in claimed
  PROVE  DoneBy' = DoneBy
<1>1. \A f \in Flows : Done(f)' = Done(f)
  BY DEF Done
<1> QED BY <1>1 DEF DoneBy

-----------------------------------------------------------------------------
(* Who may have done what *)

LEMMA SlipOf ==
  ASSUME FlowsInv, NEW f \in Flows
  PROVE  /\ SlipAt(f, flows[f], DoneBy[f], placed) /\ flows[f] \in Flow
         /\ placed \in Placement
         /\ f \in Cancellations =>
              CancellationOK(flows[f], DoneBy[f], IF placed.method = "card" THEN "refund" ELSE "commit")
         /\ f \in Deliveries => DeliveryOK(flows[f], DoneBy[f], placed.method = "card")
         /\ f = Checkout => CheckoutOK(flows[f], DoneBy[f], placed.channel)
BY DEF FlowsInv, SlipsOK, TypeOK, SlipAt

LEMMA WhoIsWho ==
  /\ \A c \in Cancellations : c \in Flows /\ c # Checkout /\ c \notin Deliveries /\ c \notin Closers
  /\ \A d \in Deliveries : d \in Flows /\ d # Checkout /\ d \notin Cancellations /\ d \in Closers
  /\ Checkout \in Flows /\ Checkout \in Closers
  /\ Checkout \notin Cancellations /\ Checkout \notin Deliveries
  /\ \A f \in Closers : f \in Flows /\ (f = Checkout \/ f \in Deliveries)
BY ConstantsMakeSense DEF Flows, Closers

DeliveryWords == {"dispatch", "mark", "restore", "close_fulfilled", "close_cancelled", "refund"}

(* A parcel leaves with one delivery, and only once the checkout opened it.  *)
LEMMA DeliveryFacts ==
  ASSUME FlowsInv, NEW d \in Deliveries, DoneBy[d] \cap DeliveryWords # {}
  PROVE  /\ "dispatch" \in DoneBy[d] /\ shipments[O].status \in Gone
         /\ {"open", "confirm"} \subseteq DoneBy[Checkout] /\ placed.channel = "shipped"
         /\ DoneBy[Checkout] \cap {"mark", "close_fulfilled"} = {}
         /\ \A e \in Deliveries : DoneBy[e] \cap DeliveryWords # {} => e = d
<1>1. \A e \in Deliveries : DoneBy[e] \cap DeliveryWords # {} => "dispatch" \in DoneBy[e]
  <2> SUFFICES ASSUME NEW e \in Deliveries, DoneBy[e] \cap DeliveryWords # {}
               PROVE  "dispatch" \in DoneBy[e]
    OBVIOUS
  <2>1. DeliveryOK(flows[e], DoneBy[e], placed.method = "card") /\ placed \in Placement
    BY SlipOf, WhoIsWho
  <2>2. DoneBy[e] \cap (DeliveryWords \ {"dispatch"}) # {} => flows[e].past
    BY <2>1, DeliveryPast, Placing DEF DeliveryWords
  <2>3. flows[e].past => "dispatch" \in DoneBy[e]
    BY <2>1, DeliveryPast, Placing
  <2> QED BY <2>2, <2>3 DEF DeliveryWords
<1>2. "dispatch" \in DoneBy[d] /\ ParcelAt(shipments[O].status, DoneBy)
  BY <1>1 DEF FlowsInv, ParcelOK
<1>3. shipments[O].status \in Gone /\ "open" \in DoneBy[Checkout]
  BY <1>2 DEF ParcelAt, Gone, None
<1>4. \A e \in Deliveries : DoneBy[e] \cap DeliveryWords # {} => e = d
  BY <1>1, <1>2 DEF ParcelAt
<1>5. CheckoutOK(flows[Checkout], DoneBy[Checkout], placed.channel) /\ placed \in Placement
  BY SlipOf, WhoIsWho
<1>6. "confirm" \in DoneBy[Checkout]
  BY <1>3, <1>5, CheckoutLeft, Placing
<1>7. /\ placed.channel = "shipped"
      /\ "mark" \in DoneBy[Checkout] => placed.channel = "counter"
      /\ "close_fulfilled" \in DoneBy[Checkout] => placed.channel = "counter"
  BY <1>3, <1>5 DEF CheckoutOK
<1> QED BY <1>2, <1>3, <1>4, <1>6, <1>7

(* A cancellation that claims after asking the shipment to wait has it wait, *)
(* unless it turned back from the claim before it was made.                  *)
LEMMA HolderFacts ==
  ASSUME FlowsInv, NEW c \in Cancellations
  PROVE  /\ Holds(DoneBy, c) /\ "hold" \in DoneBy[c] =>
              \/ Lingers(c)
              \/ HoldsParcel(DoneBy, c) /\ shipments[O].status \in {"held", "withdrawn"}
         /\ "close_cancelled" \in DoneBy[c] => Holds(DoneBy, c)
<1> DEFINE pivot == IF placed.method = "card" THEN "refund" ELSE "commit"
           r == flows[c]
           done == DoneBy[c]
<1>1. CancellationOK(r, done, pivot) /\ pivot \in {"refund", "commit"}
  BY SlipOf, WhoIsWho
<1> HIDE DEF pivot, r, done
<1>2. ASSUME "claim" \in done, "unclaim" \notin done, "release" \in done
      PROVE  r.mode \in Turned /\ "claim" \in Elements(r.todo)
  <2>1. r # Unstarted
    BY <1>1, <1>2 DEF CancellationOK, Unstarted
  <2>2. /\ "release" \in done =>
             /\ r.undo \notin {<<"unclaim">>, <<"unclaim", "release">>}
             /\ r.mode \in Turned
        /\ "claim" \in done \ Elements(r.todo) /\ r.undo \notin {<<"unclaim">>, <<"unclaim", "release">>} =>
             "unclaim" \in done
    BY <1>1, <2>1 DEF CancellationOK
  <2> QED BY <1>2, <2>2
<1>3. Holds(DoneBy, c) /\ "hold" \in DoneBy[c] =>
        \/ Lingers(c)
        \/ HoldsParcel(DoneBy, c) /\ shipments[O].status \in {"held", "withdrawn"}
  <2>1. Holds(DoneBy, c) /\ "hold" \in DoneBy[c] => Lingers(c) \/ HoldsParcel(DoneBy, c)
    BY <1>2 DEF Holds, HoldsParcel, Lingers, r, done
  <2>2. ParcelAt(shipments[O].status, DoneBy)
    BY DEF FlowsInv, ParcelOK
  <2> QED BY <2>1, <2>2 DEF ParcelAt
<1>4. "close_cancelled" \in done => "claim" \in done /\ "unclaim" \notin done
  BY <1>1, CancellationPast
<1> QED BY <1>3, <1>4 DEF Holds, done

(* A claim on an order whose parcel is not waiting was made past it, or past *)
(* the flow that asked for it.                                               *)
LEMMA HeldPast ==
  ASSUME FlowsInv, NEW c \in Cancellations, Holds(DoneBy, c),
         shipments[O].status \notin {"held", "withdrawn"}
  PROVE  /\ Bypasses(DoneBy) \/ Lingers(c)
         /\ shipments[O].status = None => Bypasses(DoneBy)
<1>1. "hold" \in DoneBy[c] => shipments[O].status # None
  BY DEF FlowsInv, ParcelOK, ParcelAt
<1> QED BY <1>1, HolderFacts DEF Bypasses, Holds

LEMMA ConfirmRefused ==
  ASSUME FlowsInv, "confirm" \notin DoneBy[Checkout], orders[O].status \notin {"pending", "paid"}
  PROVE  Bypasses(DoneBy)
<1>1. OrderAt(orders[O].status, orders[O].claimedFrom, DoneBy)
  BY DEF FlowsInv, OrderOK
<1>2. orders[O].status \in {"cancelling", "cancelled"}
  BY <1>1 DEF OrderAt
<1>3. \A d \in Deliveries : "close_cancelled" \notin DoneBy[d]
  BY DeliveryFacts DEF DeliveryWords
<1>4. PICK c \in Cancellations : Holds(DoneBy, c)
  BY <1>1, <1>2, <1>3, HolderFacts DEF OrderAt
<1>5. shipments[O].status = None
  <2>1. ParcelAt(shipments[O].status, DoneBy)
    BY DEF FlowsInv, ParcelOK
  <2>2. CheckoutOK(flows[Checkout], DoneBy[Checkout], placed.channel) /\ placed \in Placement
    BY SlipOf, WhoIsWho
  <2>3. "open" \notin DoneBy[Checkout]
    BY <2>2, CheckoutLeft, Placing
  <2> QED BY <2>1, <2>3 DEF ParcelAt
<1> QED BY <1>4, <1>5, HeldPast DEF None

LEMMA AskedStep ==
  ASSUME FlowsInv, NEW f \in Flows, NEW s, Asked(f, s)
  PROVE  /\ flows[f].mode \notin {"unstarted", "completed"}
         /\ s = "refund" => flows[f].mode \notin Turned
         /\ flows[f].todo # <<>> /\ Head(flows[f].todo) = s
         /\ f = Checkout => s \in {"convert", "confirm", "open", "mark", "close_fulfilled"}
         /\ f \in Cancellations =>
              s \in {"hold", "claim", "refund", "commit", "restore", "withdraw", "close_cancelled"}
         /\ f \in Deliveries =>
              s \in {"dispatch", "mark", "await_delivery", "collect", "close_fulfilled",
                     "await_return", "restore", "close_cancelled", "refund"}
         /\ s \in Elements(flows[f].todo)
         /\ \A x \in DoneBy[f] \cap Elements(flows[f].todo) : x = s
<1>1. /\ flows[f].mode \notin {"unstarted", "completed"}
      /\ s = "refund" => flows[f].mode \notin Turned
      /\ flows[f].todo # <<>> /\ Head(flows[f].todo) = s
  BY DEF Asked, At, LeftAsked, Turned
<1>2. SlipAt(f, flows[f], DoneBy[f], placed) /\ placed \in Placement
  BY SlipOf
<1>3. flows[f] # Unstarted
  BY <1>1 DEF Unstarted
<1>4. Ahead(flows[f], DoneBy[f])
  BY <1>2, <1>3 DEF SlipAt, CancellationOK, DeliveryOK, CheckoutOK, Flows
<1>5. \A x \in DoneBy[f] \cap Elements(flows[f].todo) : x = s
  BY <1>1, <1>4 DEF Ahead
<1> QED BY <1>1, <1>2, <1>5, WhoseStep

LEMMA AtStep ==
  ASSUME FlowsInv, NEW f \in Flows, NEW s, At(f, s)
  PROVE  /\ flows[f].mode = "running" /\ flows[f].todo # <<>> /\ Head(flows[f].todo) = s
         /\ s \in Elements(flows[f].todo)
         /\ \A x \in DoneBy[f] \cap Elements(flows[f].todo) : x = s
         /\ s \in {"refund", "commit", "dispatch", "await_delivery", "await_return"} => f # Checkout
         /\ s \in {"dispatch", "await_delivery", "await_return"} => f \in Deliveries
<1>1. Asked(f, s)
  BY DEF Asked
<1>2. flows[f].mode = "running"
  BY DEF At
<1> QED BY <1>1, <1>2, AskedStep DEF Flows

(* The one before a flow's mark is done, and what follows it is not.         *)
LEMMA CloserFacts ==
  ASSUME FlowsInv, NEW f \in Closers, NEW s \in {"mark", "close_fulfilled"}, Asked(f, s)
  PROVE  /\ s = "close_fulfilled" => "mark" \in DoneBy[f]
         /\ s = "mark" => "close_fulfilled" \notin DoneBy[f]
         /\ f = Checkout => placed.channel = "counter" /\ "confirm" \in DoneBy[f]
         /\ f \in Deliveries => "dispatch" \in DoneBy[f] /\ "close_cancelled" \notin DoneBy[f]
<1>1. f \in Flows
  BY WhoIsWho
<1>2. /\ flows[f].mode # "unstarted" /\ flows[f].todo # <<>> /\ Head(flows[f].todo) = s
      /\ s \in Elements(flows[f].todo)
      /\ \A x \in DoneBy[f] \cap Elements(flows[f].todo) : x = s
  BY <1>1, AskedStep
<1>3. CASE f = Checkout
  <2>1. CheckoutOK(flows[f], DoneBy[f], placed.channel) /\ placed \in Placement
    BY <1>1, <1>3, SlipOf
  <2>2. flows[f].todo \in CheckoutTodos(placed.channel)
    BY <2>1 DEF CheckoutOK
  <2>3. /\ placed.channel = "counter"
        /\ s = "mark" => Elements(flows[f].todo) = {"mark", "close_fulfilled"}
        /\ s = "close_fulfilled" => Elements(flows[f].todo) = {"close_fulfilled"}
    BY <1>2, <2>1, <2>2, CheckoutNext, Placing
  <2>4. "confirm" \in DoneBy[f] /\ (s = "close_fulfilled" => "mark" \in DoneBy[f])
    BY <2>1, <2>3 DEF CheckoutOK
  <2> QED BY <1>2, <1>3, <2>3, <2>4, WhoIsWho
<1>4. CASE f \in Deliveries
  <2>1. DeliveryOK(flows[f], DoneBy[f], placed.method = "card") /\ placed \in Placement
    BY <1>1, <1>4, SlipOf
  <2>2. flows[f] # Unstarted /\ flows[f].todo \in DeliveryTodos(placed.method = "card")
    BY <1>2, <2>1 DEF DeliveryOK, Unstarted
  <2>3. /\ s = "mark" => Elements(flows[f].todo) = {"mark", "await_delivery"}
        /\ s = "close_fulfilled" => Elements(flows[f].todo) = {"close_fulfilled"}
    BY <1>2, <2>1, <2>2, DeliveryNext, Placing
  <2>4. /\ "dispatch" \in DoneBy[f] /\ "close_cancelled" \notin DoneBy[f]
        /\ s = "close_fulfilled" => "mark" \in DoneBy[f]
        /\ s = "mark" => "close_fulfilled" \notin DoneBy[f]
    BY <2>1, <2>2, <2>3 DEF DeliveryOK
  <2> QED BY <1>4, <2>4, WhoIsWho
<1> QED BY <1>3, <1>4 DEF Closers

LEMMA OrderStatus ==
  ASSUME FlowsInv
  PROVE  /\ OrderAt(orders[O].status, orders[O].claimedFrom, DoneBy)
         /\ ParcelAt(shipments[O].status, DoneBy)
BY DEF FlowsInv, OrderOK, ParcelOK

(* One that cancelled the order after it was marked is a delivery.           *)
LEMMA ClosedByDelivery ==
  ASSUME FlowsInv, NEW f \in Closers, "mark" \in DoneBy[f], orders[O].status = "cancelled"
  PROVE  \E d \in Deliveries : "close_cancelled" \in DoneBy[d]
<1>1. \A c \in Cancellations : ~Holds(DoneBy, c)
  BY OrderStatus DEF OrderAt
<1>2. \E h \in Cancellations \cup Deliveries : "close_cancelled" \in DoneBy[h]
  BY OrderStatus DEF OrderAt
<1> QED BY <1>1, <1>2, HolderFacts

(* Nobody but a cancellation that went past the parcel, or was gone before   *)
(* it claimed, keeps an order from being marked.                             *)
LEMMA MarkRefused ==
  ASSUME FlowsInv, NEW f \in Closers, Asked(f, "mark"), "mark" \notin DoneBy[f],
         orders[O].status # "confirmed"
  PROVE  Bypasses(DoneBy) \/ (f \in Deliveries /\ \E c \in Cancellations : Lingers(c))
<1>1. /\ "close_fulfilled" \notin DoneBy[f]
      /\ f = Checkout => placed.channel = "counter" /\ "confirm" \in DoneBy[f]
      /\ f \in Deliveries => "dispatch" \in DoneBy[f] /\ "close_cancelled" \notin DoneBy[f]
  BY CloserFacts
<1>2. f \in Deliveries => DoneBy[f] \cap DeliveryWords # {}
  BY <1>1 DEF DeliveryWords
<1>3. "confirm" \in DoneBy[Checkout]
  BY <1>1, <1>2, DeliveryFacts DEF Closers
<1>4. \A h \in Closers : h # f => DoneBy[h] \cap {"mark", "close_fulfilled"} = {}
  <2> SUFFICES ASSUME NEW h \in Closers, h # f, DoneBy[h] \cap {"mark", "close_fulfilled"} # {}
               PROVE  FALSE
    OBVIOUS
  <2>1. CASE h \in Deliveries
    <3>1. DoneBy[h] \cap DeliveryWords # {}
      BY DEF DeliveryWords
    <3>2. placed.channel = "shipped" /\ (f \in Deliveries => f = h)
      BY <1>2, <2>1, <3>1, DeliveryFacts
    <3> QED BY <1>1, <3>2 DEF Closers
  <2>2. CASE h = Checkout
    <3>1. f \in Deliveries
      BY <2>2 DEF Closers
    <3> QED BY <1>2, <2>2, <3>1, DeliveryFacts
  <2> QED BY <2>1, <2>2 DEF Closers
<1>5. \A h \in Closers : DoneBy[h] \cap {"mark", "close_fulfilled"} = {}
  BY <1>1, <1>4
<1>6. orders[O].status \in {"cancelling", "cancelled"}
  BY <1>3, <1>5, OrderStatus DEF OrderAt
<1>7. \A d \in Deliveries : "close_cancelled" \notin DoneBy[d]
  <2> SUFFICES ASSUME NEW d \in Deliveries, "close_cancelled" \in DoneBy[d] PROVE FALSE
    OBVIOUS
  <2>1. DoneBy[d] \cap DeliveryWords # {}
    BY DEF DeliveryWords
  <2>2. placed.channel = "shipped" /\ (f \in Deliveries => f = d)
    BY <1>2, <2>1, DeliveryFacts
  <2> QED BY <1>1, <2>2 DEF Closers
<1>8. PICK c \in Cancellations : Holds(DoneBy, c)
  BY <1>6, <1>7, OrderStatus, HolderFacts DEF OrderAt
<1>9. CASE f \in Deliveries
  <2>1. shipments[O].status \notin {"held", "withdrawn"}
    BY <1>2, <1>9, DeliveryFacts DEF Gone
  <2> QED BY <1>8, <1>9, <2>1, HeldPast
<1>10. CASE f = Checkout
  <2>1. CheckoutOK(flows[Checkout], DoneBy[Checkout], placed.channel)
    BY SlipOf, WhoIsWho
  <2>2. "open" \notin DoneBy[Checkout]
    BY <1>1, <1>10, <2>1 DEF CheckoutOK
  <2>3. shipments[O].status = None
    BY <2>2, OrderStatus DEF ParcelAt
  <2> QED BY <1>8, <2>3, HeldPast DEF None
<1> QED BY <1>9, <1>10 DEF Closers

LEMMA ReturnFacts ==
  ASSUME FlowsInv, NEW d \in Deliveries, Asked(d, "close_cancelled")
  PROVE  {"mark", "restore"} \subseteq DoneBy[d] /\ "close_fulfilled" \notin DoneBy[d]
<1>1. /\ flows[d].mode # "unstarted" /\ flows[d].todo # <<>>
      /\ Head(flows[d].todo) = "close_cancelled"
  BY AskedStep, WhoIsWho
<1>2. DeliveryOK(flows[d], DoneBy[d], placed.method = "card") /\ placed \in Placement
  BY SlipOf, WhoIsWho
<1>3. flows[d] # Unstarted /\ flows[d].todo \in DeliveryTodos(placed.method = "card")
  BY <1>1, <1>2 DEF DeliveryOK, Unstarted
<1>4. Elements(flows[d].todo) \ {"refund"} = {"close_cancelled"}
  BY <1>1, <1>2, <1>3, DeliveryNext, Placing
<1>5. "restore" \in DoneBy[d]
  BY <1>2, <1>3, <1>4 DEF DeliveryOK
<1>6. "mark" \in DoneBy[d]
  BY <1>2, <1>5, DeliveryPast, Placing
<1>7. "close_fulfilled" \notin DoneBy[d]
  BY <1>2, <1>3, <1>5 DEF DeliveryOK
<1> QED BY <1>5, <1>6, <1>7

(* A close is asked for by the one that marked the order, while it stands so.*)
LEMMA CloseFinds ==
  ASSUME FlowsInv, NEW f \in Closers,
         \/ Asked(f, "close_fulfilled") /\ "close_fulfilled" \notin DoneBy[f]
         \/ f \in Deliveries /\ Asked(f, "close_cancelled") /\ "close_cancelled" \notin DoneBy[f]
  PROVE  orders[O].status = "dispatched"
<1>1. "mark" \in DoneBy[f]
  BY CloserFacts, ReturnFacts
<1>2. orders[O].status \in {"dispatched", "fulfilled", "cancelled"}
  BY <1>1, OrderStatus DEF OrderAt
<1>3. "close_fulfilled" \notin DoneBy[f] /\ (f \in Deliveries => "close_cancelled" \notin DoneBy[f])
  BY CloserFacts, ReturnFacts
<1>4. f \in Deliveries => DoneBy[f] \cap DeliveryWords # {}
  BY <1>1 DEF DeliveryWords
<1>5. f = Checkout => placed.channel = "counter"
  <2>1. CheckoutOK(flows[Checkout], DoneBy[Checkout], placed.channel)
    BY SlipOf, WhoIsWho
  <2> QED BY <1>1, <2>1 DEF CheckoutOK
<1>6. \A d \in Deliveries : DoneBy[d] \cap DeliveryWords # {} => d = f
  BY <1>4, <1>5, DeliveryFacts DEF Closers
<1>7. orders[O].status # "cancelled"
  <2> SUFFICES ASSUME orders[O].status = "cancelled" PROVE FALSE
    OBVIOUS
  <2>1. PICK d \in Deliveries : "close_cancelled" \in DoneBy[d]
    BY <1>1, ClosedByDelivery
  <2> QED BY <1>3, <1>6, <2>1 DEF DeliveryWords
<1>8. orders[O].status # "fulfilled"
  <2> SUFFICES ASSUME orders[O].status = "fulfilled" PROVE FALSE
    OBVIOUS
  <2>1. PICK h \in Closers : "close_fulfilled" \in DoneBy[h]
    BY OrderStatus DEF OrderAt
  <2>2. h = Checkout /\ f \in Deliveries
    BY <1>3, <1>6, <2>1 DEF DeliveryWords, Closers
  <2> QED BY <1>4, <2>1, <2>2, DeliveryFacts
<1> QED BY <1>2, <1>7, <1>8

-----------------------------------------------------------------------------
(* What a step leaves alone *)

RestTyped ==
  /\ hold \in {"held", "released", "converted"}
  /\ restored \in SUBSET Flows
  /\ refundedBy \in Flows \cup {None}
  /\ declined \in SUBSET Flows
  /\ collected \in BOOLEAN
  /\ signals \in [Outcomes -> 0 .. Attempts]
  /\ edge \in SUBSET Flows

LEMMA Assembled ==
  ASSUME FlowsInv, P!StoreInv', Ship!TypeOK', flows' \in [Flows -> Flow], RestTyped',
         UNCHANGED placed, SlipsOK', OrderOK', ClosingOK', ParcelOK', CourierOK', ReportsOK',
         MoneyOK', StrandedOK', HoldOK'
  PROVE  FlowsInv'
<1>1. Store!TypeOK'
  BY DEF P!StoreInv, P!TypeOK, Store!TypeOK, P!Order, Store!Order, P!Unplaced, Store!Unplaced,
         P!None, Store!None, P!Statuses, Store!Statuses, P!Before, Store!Before, P!After,
         Store!After, P!CloseRequest, Store!CloseRequest, P!Event, Store!Event
<1>2. placed' \in Placement
  BY DEF FlowsInv
<1>3. TypeOK'
  BY <1>1 DEF TypeOK, RestTyped
<1> QED BY <1>2, <1>3 DEF FlowsInv

LEMMA RestIsTyped == FlowsInv => RestTyped /\ flows \in [Flows -> Flow] /\ Ship!TypeOK
BY DEF FlowsInv, TypeOK, RestTyped

LEMMA ShipLeftAlone ==
  ASSUME FlowsInv, UNCHANGED ship,
         \A h \in Flows, x \in ParcelWords : x \in DoneBy'[h] <=> x \in DoneBy[h]
  PROVE  Ship!TypeOK' /\ ParcelOK' /\ ReportsOK'
<1>1. UNCHANGED <<shipments, shipClaimed, reports>>
  BY DEF ship
<1>2. Ship!TypeOK'
  BY <1>1, RestIsTyped DEF Ship!TypeOK
<1>3. ParcelOK'
  <2>1. ParcelAt(shipments[O].status, DoneBy')
    BY OrderStatus, ParcelSame
  <2> QED BY <1>1, <2>1 DEF ParcelOK, FlowsInv
<1>4. ReportsOK'
  BY <1>1 DEF ReportsOK, FlowsInv, Ship!VersionsFollow
<1> QED BY <1>2, <1>3, <1>4

LEMMA OrderLeftAlone ==
  ASSUME FlowsInv, UNCHANGED orders,
         \A h \in Flows, x \in OrderWords : x \in DoneBy'[h] <=> x \in DoneBy[h]
  PROVE  OrderOK'
<1>1. OrderAt(orders[O].status, orders[O].claimedFrom, DoneBy')
  BY OrderStatus, OrderSame
<1> QED BY <1>1 DEF OrderOK

LEMMA MoneyLeftAlone ==
  ASSUME FlowsInv, UNCHANGED <<restored, refundedBy, declined, edge>>
  PROVE  MoneyOK'
BY DEF FlowsInv, MoneyOK

LEMMA RestLeftAlone ==
  ASSUME FlowsInv, UNCHANGED <<stock, money, wire>>
  PROVE  RestTyped' /\ MoneyOK' /\ UNCHANGED <<restored, refundedBy, declined, edge, collected, signals>>
<1>1. UNCHANGED <<hold, restored, refundedBy, declined, collected, signals, edge>>
  BY DEF stock, money, wire
<1>2. RestTyped'
  BY <1>1, RestIsTyped DEF RestTyped
<1> QED BY <1>1, <1>2, MoneyLeftAlone

LEMMA AddsEqual ==
  ASSUME NEW D, NEW E, NEW f \in Flows, NEW s, Adds(D, E, f, s)
  PROVE  E[f] = D[f] \cup {s} /\ \A h \in Flows : h # f => E[h] = D[h]
BY DEF Adds

(* Flow f came to stand otherwise, and no other did. *)
Moves(f) == flows' = [flows EXCEPT ![f] = flows'[f]]

LEMMA TurnsOnly ==
  ASSUME FlowsInv, NEW f \in Flows, NEW r, flows' = [flows EXCEPT ![f] = r]
  PROVE  Moves(f) /\ flows'[f] = r /\ \A h \in Flows : h # f => flows'[h] = flows[h]
<1>1. flows \in [Flows -> Flow]
  BY RestIsTyped
<1> QED BY <1>1 DEF Moves

LEMMA HearsMeans ==
  ASSUME FlowsInv, NEW f \in Flows, Hears(f)
  PROVE  /\ Moves(f)
         /\ flows'[f] \in {flows[f], Onward(flows[f], Tail(flows[f].todo))}
         /\ \A h \in Flows : h # f => flows'[h] = flows[h]
         /\ flows[f].mode # "running" => UNCHANGED flows
<1>1. flows \in [Flows -> Flow]
  BY RestIsTyped
<1>2. CASE UNCHANGED flows
  BY <1>1, <1>2 DEF Moves
<1>3. CASE Answered(f) /\ flows[f].mode = "running"
  <2>1. flows' = [flows EXCEPT ![f] = Onward(flows[f], Tail(flows[f].todo))]
    BY <1>3 DEF Answered, Proceed, Onward
  <2> QED BY <1>3, <2>1, TurnsOnly
<1> QED BY <1>2, <1>3 DEF Hears, Answered

LEMMA SlipsTurn ==
  ASSUME FlowsInv, NEW f \in Flows, Moves(f), UNCHANGED placed,
         \A h \in Flows : h # f => DoneBy'[h] = DoneBy[h],
         SlipAt(f, flows'[f], DoneBy'[f], placed)
  PROVE  SlipsOK' /\ flows' \in [Flows -> Flow]
<1>1. flows \in [Flows -> Flow]
  BY RestIsTyped
<1>2. Unstarted \in Flow
  <2>1. <<>> \in Seq(Steps)
    OBVIOUS
  <2> QED BY <2>1 DEF Unstarted, Flow
<1>3. flows'[f] \in Flow
  BY <1>2 DEF SlipAt, CancellationOK, DeliveryOK, CheckoutOK, Flows
<1>4. flows' \in [Flows -> Flow] /\ \A h \in Flows : h # f => flows'[h] = flows[h]
  BY <1>1, <1>3 DEF Moves
<1>5. \A h \in Flows : SlipAt(h, flows'[h], DoneBy'[h], placed)
  BY <1>4, SlipOf
<1> QED BY <1>4, <1>5 DEF SlipsOK

(* A cancellation that went past the parcel did so for good.                 *)
LEMMA BypassStands ==
  ASSUME FlowsInv, Bypasses(DoneBy), NEW f \in Flows, NEW s, Adds(DoneBy, DoneBy', f, s),
         s = "hold" => Asked(f, s)
  PROVE  Bypasses(DoneBy')
<1>1. PICK c \in Cancellations : "claim" \in DoneBy[c] /\ "hold" \notin DoneBy[c]
  BY DEF Bypasses
<1>2. c \in Flows
  BY WhoIsWho
<1>3. "claim" \in DoneBy'[c]
  BY <1>1, <1>2 DEF Adds
<1>4. "hold" \notin DoneBy'[c]
  <2> SUFFICES ASSUME "hold" \in DoneBy'[c] PROVE FALSE
    OBVIOUS
  <2>1. f = c /\ s = "hold"
    BY <1>1, <1>2 DEF Adds
  <2>2. /\ flows[c].mode # "unstarted" /\ flows[c].todo # <<>> /\ Head(flows[c].todo) = "hold"
        /\ \A x \in DoneBy[c] \cap Elements(flows[c].todo) : x = "hold"
        /\ "hold" \in Elements(flows[c].todo)
    BY <1>2, <2>1, AskedStep
  <2> DEFINE pivot == IF placed.method = "card" THEN "refund" ELSE "commit"
  <2>3. CancellationOK(flows[c], DoneBy[c], pivot) /\ pivot \in {"refund", "commit"}
    BY <1>2, SlipOf
  <2> HIDE DEF pivot
  <2>4. flows[c].todo \in CancellationTodos(pivot)
    BY <2>2, <2>3 DEF CancellationOK, Unstarted
  <2>5. "claim" \in Elements(flows[c].todo)
    BY <2>2, <2>3, <2>4, CancellationLeft
  <2> QED BY <1>1, <2>2, <2>5
<1> QED BY <1>3, <1>4 DEF Bypasses

(* A flow that turned back leaves what it left, and stays turned back.       *)
StaysTurned(f) ==
  flows[f].mode \in Turned => flows'[f].mode \in Turned /\ flows'[f].todo = flows[f].todo

(* What refuses a flow once refuses it for good.                             *)
LEMMA ExcusesStand ==
  ASSUME FlowsInv, NEW f \in Flows, Moves(f), StaysTurned(f),
         Bypasses(DoneBy) => Bypasses(DoneBy'),
         \A h \in Flows : "claim" \in DoneBy[h] => "claim" \in DoneBy'[h],
         f \in Closers /\ flows'[f].mode = "stranded" =>
           flows'[f].todo = flows[f].todo /\ (flows[f].mode = "stranded" \/ Excused(f))
  PROVE  StrandedOK'
<1>1. \A h \in Flows : h # f => flows'[h] = flows[h]
  BY RestIsTyped DEF Moves
<1>2. ASSUME NEW c \in Cancellations, Lingers(c) PROVE Lingers(c)'
  BY <1>1, <1>2, WhoIsWho DEF Lingers, StaysTurned
<1> SUFFICES ASSUME NEW h \in Closers, flows'[h].mode = "stranded"
             PROVE  Excused(h)'
  BY DEF StrandedOK
<1>3. Excused(h) /\ flows'[h].todo = flows[h].todo
  BY <1>1, WhoIsWho DEF FlowsInv, StrandedOK
<1> QED BY <1>2, <1>3 DEF Excused

LEMMA HoldTurns ==
  ASSUME FlowsInv, NEW f \in Flows, Moves(f), hold' = "held" => hold = "held",
         f = Checkout =>
           \/ flows'[f].todo = flows[f].todo
           \/ /\ flows[f].todo # <<>> /\ Head(flows[f].todo) # "convert"
              /\ flows'[f].todo = Tail(flows[f].todo)
  PROVE  HoldOK'
<1>1. CheckoutOK(flows[Checkout], DoneBy[Checkout], placed.channel) /\ placed \in Placement
  BY SlipOf, WhoIsWho
<1>2. flows[Checkout].todo \in CheckoutTodos(placed.channel)
  BY <1>1 DEF CheckoutOK
<1>3. flows'[Checkout].todo = flows[Checkout].todo \/ f = Checkout
  BY RestIsTyped, WhoIsWho DEF Moves
<1>4. "convert" \in Elements(flows[Checkout].todo) => "convert" \in Elements(flows'[Checkout].todo)
  <2>1. CASE flows'[Checkout].todo = flows[Checkout].todo
    BY <2>1
  <2>2. CASE /\ flows[Checkout].todo # <<>> /\ Head(flows[Checkout].todo) # "convert"
             /\ flows'[Checkout].todo = Tail(flows[Checkout].todo)
    BY <1>1, <1>2, <2>2, CheckoutNext, Placing
  <2> QED BY <1>3, <2>1, <2>2
<1> QED BY <1>4 DEF FlowsInv, HoldOK

LEMMA ClosingStays ==
  ASSUME FlowsInv, NEW f \in Flows, Moves(f), UNCHANGED closing,
         \A h \in Flows : h # f => DoneBy'[h] = DoneBy[h],
         \A k \in closing : k.command[1] = f =>
           Asked(f, "close_cancelled")' /\ "close_cancelled" \notin DoneBy'[f]
  PROVE  ClosingOK'
<1> SUFFICES ASSUME NEW k \in closing
             PROVE  /\ k.command[1] \in Cancellations \cup Deliveries
                    /\ k = [order |-> O, command |-> <<k.command[1], "close_cancelled">>,
                            claimHeld |-> k.command[1] \in Cancellations]
                    /\ Asked(k.command[1], "close_cancelled")'
                    /\ "close_cancelled" \notin DoneBy'[k.command[1]]
  BY DEF ClosingOK
<1> DEFINE h == k.command[1]
<1>1. /\ h \in Cancellations \cup Deliveries /\ Asked(h, "close_cancelled")
      /\ k = [order |-> O, command |-> <<h, "close_cancelled">>, claimHeld |-> h \in Cancellations]
      /\ "close_cancelled" \notin DoneBy[h]
  BY DEF FlowsInv, ClosingOK
<1>2. CASE h = f
  BY <1>1, <1>2
<1>3. CASE h # f
  <2>1. flows'[h] = flows[h] /\ DoneBy'[h] = DoneBy[h]
    BY <1>1, <1>3, RestIsTyped, WhoIsWho DEF Moves
  <2>2. Asked(h, "close_cancelled")'
    BY <1>1, <2>1 DEF Asked, At, LeftAsked
  <2> QED BY <1>1, <2>1, <2>2
<1> QED BY <1>2, <1>3

(* A step taken, whether or not its flow hears so: it stays on its slip.     *)
LEMMA TakesKeeps ==
  ASSUME FlowsInv, NEW f \in Flows, NEW s, s \notin Worded, Asked(f, s), Hears(f),
         Adds(DoneBy, DoneBy', f, s), UNCHANGED <<placed, signals, collected>>,
         hold' = "held" => hold = "held",
         shipments[O].status \in {"delivered", "returned"} =>
           shipments'[O].status = shipments[O].status
  PROVE  /\ flows' \in [Flows -> Flow] /\ SlipsOK' /\ CourierOK' /\ StrandedOK' /\ HoldOK'
         /\ s # "close_cancelled" /\ UNCHANGED closing => ClosingOK'
<1>1. /\ flows[f].mode # "unstarted" /\ flows[f].todo # <<>> /\ Head(flows[f].todo) = s
      /\ s = "refund" => flows[f].mode \notin Turned
  BY AskedStep
<1>2. /\ Moves(f)
      /\ \/ flows'[f] = flows[f]
         \/ /\ flows[f].mode = "running"
            /\ flows'[f] = Onward(flows[f], Tail(flows[f].todo))
      /\ \A h \in Flows : h # f => flows'[h] = flows[h]
  BY HearsMeans
<1>3. DoneBy'[f] = DoneBy[f] \cup {s} /\ \A h \in Flows : h # f => DoneBy'[h] = DoneBy[h]
  BY AddsEqual
<1>4. SlipAt(f, flows[f], DoneBy[f], placed) /\ placed \in Placement
  BY SlipOf
<1>5. SlipAt(f, flows[f], DoneBy'[f], placed)
  BY <1>1, <1>3, <1>4, SlipTakes
<1>6. SlipAt(f, flows'[f], DoneBy'[f], placed)
  <2>1. s # "await_delivery" /\ s \in DoneBy'[f]
    BY <1>3 DEF Worded
  <2>2. flows[f].mode = "running" =>
          SlipAt(f, Onward(flows[f], Tail(flows[f].todo)), DoneBy'[f], placed)
    BY <1>1, <1>4, <1>5, <2>1, SlipAnswered
  <2> QED BY <1>2, <1>5, <2>2
<1>7. flows' \in [Flows -> Flow] /\ SlipsOK'
  BY <1>2, <1>3, <1>6, SlipsTurn
<1>8. CourierOK'
  <2> DEFINE card == placed.method = "card"
  <2>1. \A d \in Deliveries :
          CourierAt(Elements(flows[d].todo), DoneBy[d], card, shipments[O].status, collected)
    BY DEF FlowsInv, CourierOK
  <2>2. ASSUME NEW d \in Deliveries
        PROVE  CourierAt(Elements(flows'[d].todo), DoneBy'[d], card, shipments'[O].status, collected)
    <3>1. CASE d # f
      BY <1>2, <1>3, <2>1, <3>1, CourierStays, WhoIsWho
    <3>2. CASE d = f
      <4>1. DeliveryOK(flows[f], DoneBy[f], card) /\ card \in BOOLEAN
        BY <3>2, SlipOf
      <4>2. Elements(flows'[f].todo) \in {Elements(flows[f].todo), Elements(Tail(flows[f].todo))}
        <5>1. Onward(flows[f], Tail(flows[f].todo)).todo = Tail(flows[f].todo)
          BY DEF Onward
        <5> QED BY <1>2, <5>1
      <4>3. s \notin {"await_delivery", "await_return", "collect"}
        BY DEF Worded
      <4>4. CourierAt(Elements(flows[f].todo), DoneBy[f], card, shipments[O].status, collected)
        BY <2>1, <3>2
      <4> DEFINE r == flows[f]
                 done == DoneBy[f]
                 left == Elements(flows'[f].todo)
                 did == DoneBy'[f]
                 parcel == shipments[O].status
                 now == shipments'[O].status
      <4>5. /\ r.mode # "unstarted" /\ r.todo # <<>> /\ Head(r.todo) # "await_delivery"
            /\ Head(r.todo) # "collect" /\ Head(r.todo) # "await_return"
            /\ did \in {done, done \cup {Head(r.todo)}}
        BY <1>1, <1>3, <4>3
      <4>6. parcel \in {"delivered", "returned"} => now = parcel
        OBVIOUS
      <4> HIDE DEF card, r, done, left, did, parcel, now
      <4>7. DeliveryOK(r, done, card) /\ CourierAt(Elements(r.todo), done, card, parcel, collected)
            /\ left \in {Elements(r.todo), Elements(Tail(r.todo))}
        BY <4>1, <4>2, <4>4 DEF r, done, left, parcel
      <4>9. /\ collected \/ Head(r.todo) = "collect" => collected
            /\ Head(r.todo) = "await_return" => left = Elements(r.todo) \/ now = "returned"
        BY <4>5
      <4>8. CourierAt(left, did, card, now, collected)
        <5>1. Courses(r, done, card, parcel, collected, left, did, now, collected)
          BY <4>1, <4>5, <4>6, <4>7, <4>9 DEF Courses
        <5> QED BY <5>1, CourierTakes
      <4> QED BY <3>2, <4>8 DEF left, did, now
    <3> QED BY <3>1, <3>2
  <2> QED BY <2>2 DEF FlowsInv, CourierOK
<1>9. StrandedOK'
  <2>1. flows'[f].mode = "stranded" => flows'[f] = flows[f]
    BY <1>2 DEF Onward
  <2>2. Bypasses(DoneBy) => Bypasses(DoneBy')
    BY BypassStands
  <2>3. StaysTurned(f)
    BY <1>2 DEF StaysTurned, Turned
  <2>4. \A h \in Flows : "claim" \in DoneBy[h] => "claim" \in DoneBy'[h]
    BY <1>3
  <2> QED BY <1>2, <2>1, <2>2, <2>3, <2>4, ExcusesStand
<1>10. ASSUME s # "close_cancelled", UNCHANGED closing PROVE ClosingOK'
  <2>1. \A k \in closing : k.command[1] # f
    BY <1>1, <1>10, AskedStep DEF FlowsInv, ClosingOK
  <2> QED BY <1>2, <1>3, <1>10, <2>1, ClosingStays
<1>11. HoldOK'
  <2>1. s # "convert"
    BY DEF Worded
  <2>2. Onward(flows[f], Tail(flows[f].todo)).todo = Tail(flows[f].todo)
    BY DEF Onward
  <2> QED BY <1>1, <1>2, <2>1, <2>2, HoldTurns
<1> QED BY <1>7, <1>8, <1>9, <1>10, <1>11

-----------------------------------------------------------------------------
(* A flow that turns with nothing done *)

LEMMA NotClosing ==
  ASSUME FlowsInv, NEW f, ~Asked(f, "close_cancelled") \/ "close_cancelled" \in DoneBy[f]
  PROVE  \A k \in closing : k.command[1] # f
BY DEF FlowsInv, ClosingOK

LEMMA Silent ==
  ASSUME FlowsInv, P!StoreInv', NEW f \in Flows, Moves(f), StaysTurned(f),
         UNCHANGED <<store, ship, restored, refundedBy, edge, placed>>,
         RestTyped', refundedBy \notin declined', CourierOK', HoldOK',
         SlipAt(f, flows'[f], DoneBy[f], placed),
         f \in Closers /\ flows'[f].mode = "stranded" =>
           flows'[f].todo = flows[f].todo /\ (flows[f].mode = "stranded" \/ Excused(f)),
         Asked(f, "close_cancelled") =>
           Asked(f, "close_cancelled")' \/ \A k \in closing : k.command[1] # f
  PROVE  FlowsInv'
<1>1. UNCHANGED <<groups, orders, claimed, closing, outbox, shipments, shipClaimed, reports>>
  BY DEF store, ship
<1>2. DoneBy' = DoneBy
  BY <1>1, TookNothing
<1>4. SlipsOK' /\ flows' \in [Flows -> Flow]
  BY <1>2, SlipsTurn
<1>5. OrderOK'
  BY <1>1, <1>2, OrderLeftAlone
<1>6. Ship!TypeOK' /\ ParcelOK' /\ ReportsOK'
  BY <1>1, <1>2, ShipLeftAlone
<1>7. MoneyOK'
  BY DEF FlowsInv, MoneyOK
<1>8. StrandedOK'
  BY <1>2, ExcusesStand
<1>9. ClosingOK'
  <2>1. \A k \in closing : k.command[1] = f =>
          Asked(f, "close_cancelled")' /\ "close_cancelled" \notin DoneBy'[f]
    BY <1>2 DEF FlowsInv, ClosingOK
  <2> QED BY <1>1, <1>2, <2>1, ClosingStays
<1> QED BY <1>4, <1>5, <1>6, <1>7, <1>8, <1>9, Assembled

(* The couriers' news and the cash stand as they did, and so does what each  *)
(* delivery makes of them, when one flow turns on its slip.                  *)
LEMMA CourierTurns ==
  ASSUME FlowsInv, NEW f \in Flows, Moves(f), UNCHANGED placed,
         shipments[O].status \in {"delivered", "returned"} =>
           shipments'[O].status = shipments[O].status,
         \A o \in {"delivered", "returned"} : signals'[o] > 0 => signals[o] > 0,
         \A h \in Deliveries : DoneBy'[h] = DoneBy[h],
         collected => collected', collected' => shipments'[O].status = "delivered",
         f \in Deliveries =>
           CourierAt(Elements(flows'[f].todo), DoneBy[f], placed.method = "card",
                     shipments'[O].status, collected')
  PROVE  CourierOK'
<1>1. \A h \in Flows : h # f => flows'[h] = flows[h]
  BY RestIsTyped DEF Moves
<1> DEFINE card == placed.method = "card"
           parcel == shipments[O].status
           now == shipments'[O].status
<1>2. \A d \in Deliveries : CourierAt(Elements(flows[d].todo), DoneBy[d], card, parcel, collected)
  BY DEF FlowsInv, CourierOK
<1>3. ASSUME NEW d \in Deliveries
      PROVE  CourierAt(Elements(flows'[d].todo), DoneBy'[d], card, now, collected')
  <2>1. CASE d # f
    <3>1. flows'[d] = flows[d] /\ DoneBy'[d] = DoneBy[d]
      BY <1>1, <2>1, WhoIsWho
    <3>2. parcel \in {"delivered", "returned"} => now = parcel
      OBVIOUS
    <3> QED BY <1>2, <3>1, <3>2, CourierStays
  <2>2. CASE d = f
    BY <2>2
  <2> QED BY <2>1, <2>2
<1> QED BY <1>3 DEF FlowsInv, CourierOK

(* No flow turns: a hold runs out, a refund is declined unheard, or a message *)
(* is used up.                                                               *)
LEMMA NothingTurns ==
  ASSUME FlowsInv, P!StoreInv', RestTyped', refundedBy \notin declined',
         hold' = "held" => hold = "held",
         UNCHANGED <<store, ship, flows, restored, refundedBy, edge, collected, placed>>,
         \A o \in {"delivered", "returned"} : signals'[o] > 0 => signals[o] > 0
  PROVE  FlowsInv'
<1>1. UNCHANGED <<groups, orders, claimed, closing, outbox, shipments, shipClaimed, reports>>
  BY DEF store, ship
<1>2. DoneBy' = DoneBy
  BY <1>1, TookNothing
<1>3. Ship!TypeOK' /\ ParcelOK' /\ ReportsOK' /\ OrderOK'
  BY <1>1, <1>2, ShipLeftAlone, OrderLeftAlone
<1>4. flows' \in [Flows -> Flow] /\ SlipsOK' /\ HoldOK' /\ MoneyOK'
  BY <1>1, <1>2, RestIsTyped DEF FlowsInv, SlipsOK, HoldOK, MoneyOK
<1>5. StrandedOK' /\ ClosingOK'
  BY <1>1, <1>2 DEF FlowsInv, StrandedOK, Excused, Lingers, ClosingOK, Asked, At, LeftAsked
<1>6. CourierOK'
  BY <1>1, <1>2 DEF FlowsInv, CourierOK
<1> QED BY <1>3, <1>4, <1>5, <1>6, Assembled

LEMMA SilentAnswered ==
  ASSUME FlowsInv, P!StoreInv', NEW f \in Flows, NEW s, Asked(f, s), s \in DoneBy[f], Answered(f),
         UNCHANGED <<store, ship, stock, money, wire, placed>>
  PROVE  FlowsInv'
<1>0. CASE flows[f].mode # "running"
  <2>1. UNCHANGED flows
    BY <1>0 DEF Answered
  <2>2. /\ RestTyped' /\ UNCHANGED hold
        /\ UNCHANGED <<restored, refundedBy, declined, edge, collected, signals>>
    BY RestLeftAlone DEF stock
  <2>3. refundedBy \notin declined'
    BY <2>2 DEF FlowsInv, MoneyOK
  <2> QED BY <2>1, <2>2, <2>3, NothingTurns
<1> SUFFICES ASSUME flows[f].mode = "running"
             PROVE  FlowsInv'
  BY <1>0
<1>1. /\ flows[f].mode = "running" /\ flows[f].todo # <<>> /\ Head(flows[f].todo) = s
  BY AskedStep
<1>2. /\ Moves(f) /\ flows'[f] = Onward(flows[f], Tail(flows[f].todo))
      /\ \A h \in Flows : h # f => flows'[h] = flows[h]
  <2>1. flows' = [flows EXCEPT ![f] = Onward(flows[f], Tail(flows[f].todo))]
    BY DEF Answered, Proceed, Onward
  <2> QED BY <2>1, TurnsOnly
<1>3. /\ RestTyped' /\ MoneyOK'
      /\ UNCHANGED <<restored, refundedBy, declined, edge, collected, signals>>
  BY RestLeftAlone
<1>4. UNCHANGED <<groups, orders, claimed, closing, outbox, shipments, shipClaimed, reports>>
  BY DEF store, ship
<1>5. DoneBy' = DoneBy
  BY <1>3, <1>4, TookNothing
<1>6. SlipAt(f, flows[f], DoneBy[f], placed) /\ placed \in Placement /\ s \notin Worded
  BY SlipOf, DoneMeans
<1>7. SlipAt(f, flows'[f], DoneBy[f], placed)
  <2>1. s # "await_delivery"
    BY <1>6 DEF Worded
  <2> QED BY <1>1, <1>2, <1>6, <2>1, SlipAnswered
<1>8. ASSUME f \in Deliveries
      PROVE  CourierAt(Elements(flows'[f].todo), DoneBy[f], placed.method = "card",
                       shipments[O].status, collected')
  <2> DEFINE r == flows[f]
             done == DoneBy[f]
             left == Elements(flows'[f].todo)
             card == placed.method = "card"
             parcel == shipments[O].status
  <2>1. /\ r.mode = "running" /\ r.todo # <<>> /\ Head(r.todo) = s
        /\ s \notin {"await_delivery", "collect", "await_return"}
        /\ done \in {done, done \cup {Head(r.todo)}}
    BY <1>1, <1>6 DEF Worded
  <2>2. left \in {Elements(r.todo), Elements(Tail(r.todo))}
    BY <1>2 DEF Onward
  <2>3. DeliveryOK(r, done, card) /\ card \in BOOLEAN
    BY <1>8, SlipOf
  <2>4. CourierAt(Elements(r.todo), done, card, parcel, collected)
    BY <1>8 DEF FlowsInv, CourierOK
  <2> HIDE DEF r, done, left, card, parcel
  <2>5. Courses(r, done, card, parcel, collected, left, done, parcel, collected)
    BY <2>1, <2>2, <2>3, <2>4 DEF Courses
  <2>6. CourierAt(left, done, card, parcel, collected)
    BY <2>5, CourierTakes
  <2> QED BY <1>3, <2>6 DEF left, done, card, parcel
<1>9. CourierOK'
  <2>1. collected' => shipments[O].status = "delivered"
    BY <1>3 DEF FlowsInv, CourierOK
  <2> QED BY <1>2, <1>3, <1>4, <1>5, <1>8, <2>1, CourierTurns
<1>10. flows'[f].mode # "stranded"
  BY <1>2 DEF Onward
<1>11. refundedBy \notin declined'
  BY <1>3 DEF FlowsInv, MoneyOK
<1>12. \A k \in closing : k.command[1] # f
  <2>1. s # "close_cancelled" => ~Asked(f, "close_cancelled")
    BY <1>1, AskedStep
  <2> QED BY <2>1, NotClosing
<1>13. HoldOK'
  <2>1. s # "convert" /\ UNCHANGED hold
    BY <1>6 DEF Worded, stock
  <2>2. flows'[f].todo = Tail(flows[f].todo)
    BY <1>2 DEF Onward
  <2> QED BY <1>1, <1>2, <2>1, <2>2, HoldTurns
<1>14. StaysTurned(f)
  BY DEF StaysTurned, Turned
<1> QED BY <1>2, <1>3, <1>7, <1>9, <1>10, <1>11, <1>12, <1>13, <1>14, Silent

(* A flow turns, refused or out of patience, with nothing else done.          *)
LEMMA SilentTurns ==
  ASSUME FlowsInv, P!StoreInv', NEW f \in Flows, NEW s, At(f, s), Turns(f),
         s # "refund" \/ "refund" \notin DoneBy[f],
         s # "close_cancelled" \/ (\A k \in closing : k.command[1] # f),
         UNCHANGED <<store, ship, stock, placed, refundedBy, collected, wire>>,
         declined' \in {declined, declined \cup {f}}, refundedBy \notin declined',
         f \in Cancellations => ~flows[f].past,
         f \in Closers /\ flows[f].past => Excused(f)
  PROVE  FlowsInv'
<1>1. /\ flows[f].mode = "running" /\ flows[f].todo # <<>> /\ Head(flows[f].todo) = s
  BY DEF At
<1>2. /\ Moves(f) /\ flows'[f] = Refuse(flows[f])
      /\ \A h \in Flows : h # f => flows'[h] = flows[h]
  <2>1. flows' = [flows EXCEPT ![f] = Refuse(flows[f])]
    BY DEF Turns, Refuse
  <2> QED BY <2>1, TurnsOnly
<1>3. UNCHANGED <<hold, restored, refundedBy, edge, collected, signals>> /\ RestTyped'
  <2>1. UNCHANGED <<hold, restored, refundedBy, edge, collected, signals>>
    BY DEF stock, wire
  <2> QED BY <2>1, RestIsTyped DEF RestTyped
<1>4. UNCHANGED <<groups, orders, claimed, closing, outbox, shipments, shipClaimed, reports>>
  BY DEF store, ship
<1>5. DoneBy' = DoneBy
  BY <1>3, <1>4, TookNothing
<1>6. SlipAt(f, flows[f], DoneBy[f], placed) /\ placed \in Placement /\ flows[f] \in Flow
  BY SlipOf
<1>7. SlipAt(f, flows'[f], DoneBy[f], placed)
  BY <1>1, <1>2, <1>6, SlipRefused
<1>8. /\ flows'[f].todo = flows[f].todo
      /\ flows'[f].mode = "stranded" => flows[f].past
  BY <1>1, <1>2, <1>6 DEF Refuse, Flow
<1>9. CourierOK'
  <2>1. collected' => shipments[O].status = "delivered"
    BY <1>3 DEF FlowsInv, CourierOK
  <2>2. f \in Deliveries =>
           CourierAt(Elements(flows'[f].todo), DoneBy[f], placed.method = "card",
                     shipments[O].status, collected')
    BY <1>3, <1>8 DEF FlowsInv, CourierOK
  <2> QED BY <1>2, <1>3, <1>4, <1>5, <2>1, <2>2, CourierTurns
<1>10. \A k \in closing : k.command[1] # f
  <2>1. s # "close_cancelled" => ~Asked(f, "close_cancelled")
    BY <1>1 DEF Asked, At, LeftAsked
  <2> QED BY <2>1, NotClosing
<1>11. f \in Closers /\ flows'[f].mode = "stranded" =>
         flows'[f].todo = flows[f].todo /\ Excused(f)
  BY <1>8
<1>13. HoldOK' /\ StaysTurned(f)
  BY <1>1, <1>2, <1>3, <1>8, HoldTurns DEF StaysTurned, Turned
<1>12. UNCHANGED <<store, ship, restored, refundedBy, edge, placed>>
  BY <1>3
<1> QED BY <1>2, <1>3, <1>7, <1>9, <1>10, <1>11, <1>12, <1>13, Silent

LEMMA SilentRefused ==
  ASSUME FlowsInv, P!StoreInv', NEW f \in Flows, NEW s, Asked(f, s), s \notin DoneBy[f], Refused(f),
         s # "close_cancelled" \/ (\A k \in closing : k.command[1] # f),
         UNCHANGED <<store, ship, stock, placed, refundedBy, collected, wire>>,
         declined' \in {declined, declined \cup {f}}, refundedBy \notin declined',
         flows[f].mode = "running" /\ f \in Cancellations => ~flows[f].past,
         flows[f].mode = "running" /\ f \in Closers /\ flows[f].past => Excused(f)
  PROVE  FlowsInv'
<1>1. CASE flows[f].mode = "running"
  <2>1. At(f, s) /\ Turns(f)
    BY <1>1, AskedStep DEF At, Refused
  <2> QED BY <1>1, <2>1, SilentTurns
<1>2. CASE flows[f].mode # "running"
  <2>1. UNCHANGED flows
    BY <1>2 DEF Refused
  <2>2. UNCHANGED <<hold, restored, edge, signals>>
    BY DEF stock, wire
  <2>3. RestTyped'
    BY <2>2, RestIsTyped DEF RestTyped
  <2> QED BY <2>1, <2>2, <2>3, NothingTurns
<1> QED BY <1>1, <1>2

-----------------------------------------------------------------------------
(* Every step is one of the store's, or leaves the store alone *)

LEMMA MoveIsStore ==
  ASSUME NEW f \in Flows, NEW s \in Steps, NEW t \in {"confirm", "mark_dispatched", "close_fulfilled"},
         MoveStep(f, s, t)
  PROVE  P!Next \/ UNCHANGED store
<1>1. CASE Store!Move(O, t, <<f, s>>) /\ UNCHANGED closing
  <2> DEFINE c == <<f, s>>
             o == O
  <2>1. c \in Commands /\ t \in P!Moves \ {"close_cancelled"} /\ o \in {O}
    BY DEF Commands, P!Moves
  <2>2. Store!Move(o, t, c) /\ UNCHANGED closing
    BY <1>1
  <2> HIDE DEF c, o
  <2>3. P!Move(o, t, c)
    BY <2>2 DEF Store!Move, P!Move, Store!Announce, P!Announce, Store!Version, P!Version,
                Store!CanMove, P!CanMove, Store!Before, P!Before, Store!After, P!After
  <2> QED BY <2>1, <2>2, <2>3 DEF P!Next
<1> QED BY <1>1 DEF MoveStep, OnOrder

LEMMA CloseIsStore ==
  ASSUME NEW f \in Flows, CloseCancelled(f)
  PROVE  P!Next \/ UNCHANGED store
<1>1. ASSUME NEW k \in closing, Store!SettleCancellation(k) PROVE P!Next
  <2>1. P!SettleCancellation(k)
    BY <1>1 DEF Store!SettleCancellation, P!SettleCancellation, Store!Announce, P!Announce,
                Store!Version, P!Version, Store!CanMove, P!CanMove, Store!Before, P!Before,
                Store!After, P!After
  <2> QED BY <1>1, <2>1 DEF P!Next
<1>2. ASSUME NEW k \in closing, Store!CloseParcel(k) PROVE P!Next
  <2>1. P!CloseParcel(k)
    BY <1>2 DEF Store!CloseParcel, P!CloseParcel, Store!Move, P!Move, Store!Announce, P!Announce,
                Store!Version, P!Version, Store!CanMove, P!CanMove, Store!Before, P!Before,
                Store!After, P!After
  <2> QED BY <1>2, <2>1 DEF P!Next
<1>3. ASSUME NEW k \in closing, Store!CloseEnds(k) PROVE P!Next
  <2>1. P!CloseEnds(k)
    BY <1>3 DEF Store!CloseEnds, P!CloseEnds
  <2> QED BY <1>3, <2>1 DEF P!Next
<1> QED BY <1>1, <1>2, <1>3 DEF CloseCancelled

LEMMA ClaimIsStore ==
  ASSUME NEW f \in Flows, ClaimCancel(f) \/ ReadToClose(f) \/ Unclaim(f) \/ HearsCaptured
  PROVE  P!Next \/ UNCHANGED store
<1>1. CASE Store!ClaimCancellation(O, <<f, "claim">>)
  <2> DEFINE c == <<f, "claim">>
             o == O
  <2>1. c \in Commands /\ o \in {O}
    BY DEF Commands, Steps
  <2>2. Store!ClaimCancellation(o, c)
    BY <1>1
  <2> HIDE DEF c, o
  <2>3. P!ClaimCancellation(o, c)
    BY <2>2 DEF Store!ClaimCancellation, P!ClaimCancellation, Store!CanMove, P!CanMove,
                Store!Before, P!Before, Store!After, P!After
  <2> QED BY <2>1, <2>3 DEF P!Next
<1>2. CASE Store!ReadForClose(O, <<f, "close_cancelled">>)
  <2> DEFINE c == <<f, "close_cancelled">>
             o == O
  <2>1. c \in Commands /\ o \in {O}
    BY DEF Commands, Steps
  <2>2. Store!ReadForClose(o, c)
    BY <1>2
  <2> HIDE DEF c, o
  <2>3. P!ReadForClose(o, c)
    BY <2>2 DEF Store!ReadForClose, P!ReadForClose, Store!Placed, P!Placed,
                Store!Statuses, P!Statuses
  <2> QED BY <2>1, <2>3 DEF P!Next
<1>3. CASE Store!ReleaseCancellation(O)
  <2>1. P!ReleaseCancellation(O)
    BY <1>3 DEF Store!ReleaseCancellation, P!ReleaseCancellation, Store!None, P!None
  <2> QED BY <2>1 DEF P!Next
<1>4. CASE Store!MarkPaid(O, "captured")
  <2>1. P!MarkPaid(O, "captured")
    BY <1>4 DEF Store!MarkPaid, P!MarkPaid
  <2> QED BY <2>1 DEF P!Next
<1> QED BY <1>1, <1>2, <1>3, <1>4 DEF ClaimCancel, OnOrder, ReadToClose, Unclaim, HearsCaptured

LEMMA StoreStep ==
  ASSUME [Next]_vars
  PROVE  [P!Next]_(P!vars)
<1>0. UNCHANGED store => UNCHANGED P!vars
  BY DEF store, P!vars
<1>1. ASSUME NEW f \in Flows, Confirm(f) \/ MarkDispatched(f) \/ CloseFulfilled(f)
      PROVE  P!Next \/ UNCHANGED store
  <2>1. {"confirm", "mark", "close_fulfilled"} \subseteq Steps
    BY DEF Steps
  <2> QED BY <1>1, <2>1, MoveIsStore DEF Confirm, MarkDispatched, CloseFulfilled
<1>2. ASSUME NEW f \in Flows,
             GivesUp(f) \/ Suspends(f) \/ Open(f) \/ Hold(f) \/ Withdraw(f) \/ Dispatch(f)
      PROVE  UNCHANGED store
  BY <1>2 DEF GivesUp, Suspends, Open, Hold, Withdraw, Dispatch, ShipStep, OnShipment
<1>3. ASSUME NEW f \in Flows,
             Convert(f) \/ Restore(f) \/ Refund(f) \/ Collect(f) \/ Commit(f) \/ Release(f)
               \/ WindowCloses(f)
      PROVE  UNCHANGED store
  BY <1>3 DEF Convert, Restore, Refund, Collect, Commit, Release, WindowCloses
<1>4. ASSUME Happens PROVE P!Next \/ UNCHANGED store
  <2>1. (\E f \in Cancellations : StartCancellation(f)) \/ (\E f \in Deliveries : StartDelivery(f))
          => UNCHANGED store
    BY DEF StartCancellation, StartDelivery, Starts
  <2>2. (\E move \in Ship!CourierReports : VendorRecords(move))
          \/ (\E outcome \in Outcomes : HearsReport(outcome)) \/ HoldRunsOut => UNCHANGED store
    BY DEF VendorRecords, HearsReport, HoldRunsOut
  <2>3. HearsCaptured => P!Next \/ UNCHANGED store
    BY ClaimIsStore, WhoIsWho
  <2> QED BY <1>4, <2>1, <2>2, <2>3 DEF Happens
<1>5. Next => P!Next \/ UNCHANGED store
  <2>1. ASSUME NEW f \in Flows, Step(f) \/ Fails(f) PROVE P!Next \/ UNCHANGED store
    BY <1>1, <1>2, <1>3, <2>1, CloseIsStore, ClaimIsStore DEF Step, Fails, Serves
  <2> QED BY <1>4, <2>1 DEF Next
<1>6. UNCHANGED vars => UNCHANGED store
  BY DEF vars
<1> QED BY <1>0, <1>5, <1>6

-----------------------------------------------------------------------------
(* The steps on the order *)

(* A step on the order that takes place leaves everything else as it was.    *)
LEMMA OrderStepKeeps ==
  ASSUME FlowsInv, P!StoreInv', NEW f \in Flows, NEW s \in OrderSteps, Asked(f, s), Hears(f),
         claimed' = claimed \cup {<<f, s>>}, UNCHANGED <<ship, stock, money, wire, placed>>,
         OrderOK', (s # "close_cancelled" /\ UNCHANGED closing) \/ ClosingOK'
  PROVE  FlowsInv'
<1>1. /\ UNCHANGED <<shipments, shipClaimed, reports>>
      /\ UNCHANGED <<restored, refundedBy, declined, edge, collected, signals>>
      /\ RestTyped' /\ MoneyOK' /\ UNCHANGED hold
  BY RestLeftAlone DEF ship, stock
<1>2. Adds(DoneBy, DoneBy', f, s)
  BY <1>1, TookOrderStep
<1>3. s \notin Worded /\ s \notin ParcelWords
  BY DEF OrderSteps, Worded, ParcelWords
<1>4. /\ flows' \in [Flows -> Flow] /\ SlipsOK' /\ CourierOK' /\ StrandedOK' /\ HoldOK'
      /\ s # "close_cancelled" /\ UNCHANGED closing => ClosingOK'
  BY <1>1, <1>2, <1>3, TakesKeeps
<1>5. \A h \in Flows, x \in ParcelWords : x \in DoneBy'[h] <=> x \in DoneBy[h]
  BY <1>2, <1>3 DEF Adds
<1>6. Ship!TypeOK' /\ ParcelOK' /\ ReportsOK'
  BY <1>5, ShipLeftAlone
<1> QED BY <1>1, <1>4, <1>6, Assembled

(* The one order the flows meet on. *)
LEMMA TheOrder ==
  ASSUME FlowsInv
  PROVE  /\ orders \in [{O} -> P!Order \cup {P!Unplaced}]
         /\ orders[O].status # None /\ orders[O].status \in P!Statuses \cup {"removed"}
         /\ orders[O] \in P!Order
<1>1. orders \in [{O} -> P!Order \cup {P!Unplaced}]
  BY DEF FlowsInv, P!StoreInv, P!TypeOK
<1>2. orders[O].status # None
  BY OrderStatus DEF OrderAt, None
<1>3. orders[O] # P!Unplaced
  BY <1>2 DEF P!Unplaced, P!None, None
<1> QED BY <1>1, <1>2, <1>3 DEF P!Order

LEMMA CanMoveMeans ==
  /\ Store!CanMove(O, "confirm") <=> orders[O].status \in {"pending", "paid"}
  /\ Store!CanMove(O, "mark_dispatched") <=> orders[O].status = "confirmed"
  /\ Store!CanMove(O, "close_fulfilled") <=> orders[O].status = "dispatched"
  /\ Store!CanMove(O, "close_cancelled") <=> orders[O].status = "dispatched"
  /\ Store!CanMove(O, "claim_cancel") <=> orders[O].status \in {"paid", "confirmed"}
  /\ Store!CanMove(O, "settle_cancel") <=> orders[O].status = "cancelling"
BY DEF Store!CanMove, Store!Before, Store!After

LEMMA MoveMeans ==
  ASSUME FlowsInv, NEW c, NEW t \in Store!Moves, Store!Move(O, t, c)
  PROVE  /\ claimed' = claimed \cup {c} /\ Store!CanMove(O, t)
         /\ t = "confirm" => orders'[O].status = "confirmed"
         /\ t = "mark_dispatched" => orders'[O].status = "dispatched"
         /\ t = "close_fulfilled" => orders'[O].status = "fulfilled"
         /\ t = "close_cancelled" => orders'[O].status = "cancelled"
<1>1. claimed' = claimed \cup {c} /\ Store!CanMove(O, t)
  BY DEF Store!Move
<1>2. /\ t = "confirm" => Store!After[t][orders[O].status] = "confirmed"
      /\ t = "mark_dispatched" => Store!After[t][orders[O].status] = "dispatched"
      /\ t = "close_fulfilled" => Store!After[t][orders[O].status] = "fulfilled"
      /\ t = "close_cancelled" => Store!After[t][orders[O].status] = "cancelled"
  BY <1>1, CanMoveMeans DEF Store!After
<1>3. orders' = [orders EXCEPT ![O].status = Store!After[t][orders[O].status]]
  BY DEF Store!Move
<1>4. orders'[O].status = Store!After[t][orders[O].status]
  BY <1>3, TheOrder DEF P!Order
<1> QED BY <1>1, <1>2, <1>4

LEMMA ConfirmKeeps ==
  ASSUME FlowsInv, P!StoreInv', UNCHANGED placed, NEW f \in Flows, Confirm(f)
  PROVE  FlowsInv'
<1> DEFINE can == orders[O].status \in {"pending", "paid"}
<1>1. Asked(f, "confirm") /\ UNCHANGED <<ship, stock, money, wire>>
  BY DEF Confirm, MoveStep, OnOrder
<1>2. f = Checkout
  BY <1>1, AskedStep DEF Flows
<1>3. "confirm" \in DoneBy[f] <=> <<f, "confirm">> \in claimed
  BY DoneMeans DEF OrderSteps
<1>4. Store!CanMove(O, "confirm") <=> can
  BY CanMoveMeans
<1>5. CASE Store!Move(O, "confirm", <<f, "confirm">>) /\ UNCHANGED closing /\ Hears(f)
  <2>1. can /\ claimed' = claimed \cup {<<f, "confirm">>}
    BY <1>4, <1>5, MoveMeans DEF Store!Moves
  <2>2. orders'[O].status = "confirmed"
    BY <1>5, MoveMeans DEF Store!Moves
  <2>3. Adds(DoneBy, DoneBy', f, "confirm")
    BY <1>1, <2>1, TookOrderStep DEF OrderSteps, ship, stock, money, wire
  <2>4. OrderOK'
    BY <1>2, <2>1, <2>2, <2>3, OrderStatus, OrderConfirmed DEF OrderOK
  <2>5. "confirm" \in OrderSteps
    BY DEF OrderSteps
  <2> QED BY <1>1, <1>5, <2>1, <2>4, <2>5, OrderStepKeeps
<1>6. CASE <<f, "confirm">> \in claimed /\ UNCHANGED store /\ Answered(f)
  BY <1>1, <1>3, <1>6, SilentAnswered
<1>7. CASE <<f, "confirm">> \notin claimed /\ ~can /\ UNCHANGED store /\ Refused(f)
  <2>1. Bypasses(DoneBy)
    BY <1>2, <1>3, <1>7, ConfirmRefused
  <2>2. UNCHANGED <<declined, refundedBy, collected>> /\ refundedBy \notin declined
    BY <1>1 DEF money, FlowsInv, MoneyOK
  <2> QED BY <1>1, <1>2, <1>3, <1>7, <2>1, <2>2, WhoIsWho, SilentRefused DEF Excused
<1> QED BY <1>4, <1>5, <1>6, <1>7 DEF Confirm, MoveStep, OnOrder

LEMMA MarkKeeps ==
  ASSUME FlowsInv, P!StoreInv', UNCHANGED placed, NEW f \in Flows, MarkDispatched(f)
  PROVE  FlowsInv'
<1>1. Asked(f, "mark") /\ UNCHANGED <<ship, stock, money, wire>>
  BY DEF MarkDispatched, MoveStep, OnOrder
<1>2. f \in Closers
  BY <1>1, AskedStep DEF Flows, Closers
<1>3. "mark" \in DoneBy[f] <=> <<f, "mark">> \in claimed
  BY DoneMeans DEF OrderSteps
<1>4. CASE Store!Move(O, "mark_dispatched", <<f, "mark">>) /\ UNCHANGED closing /\ Hears(f)
  <2>1. /\ orders[O].status = "confirmed" /\ orders'[O].status = "dispatched"
        /\ claimed' = claimed \cup {<<f, "mark">>}
    BY <1>4, MoveMeans, CanMoveMeans DEF Store!Moves
  <2>2. "mark" \in OrderSteps
    BY DEF OrderSteps
  <2>3. Adds(DoneBy, DoneBy', f, "mark")
    BY <1>1, <2>1, <2>2, TookOrderStep DEF ship, stock, money, wire
  <2>4. OrderOK'
    BY <1>2, <2>1, <2>3, OrderStatus, OrderMarked DEF OrderOK
  <2> QED BY <1>1, <1>4, <2>1, <2>2, <2>4, OrderStepKeeps
<1>5. CASE <<f, "mark">> \in claimed /\ UNCHANGED store /\ Answered(f)
  BY <1>1, <1>3, <1>5, SilentAnswered
<1>6. CASE /\ <<f, "mark">> \notin claimed /\ orders[O].status # "confirmed"
           /\ UNCHANGED store /\ Refused(f)
  <2>1. Excused(f)
    BY <1>1, <1>2, <1>3, <1>6, MarkRefused DEF Excused
  <2>2. UNCHANGED <<declined, refundedBy, collected>> /\ refundedBy \notin declined
    BY <1>1 DEF money, FlowsInv, MoneyOK
  <2> QED BY <1>1, <1>2, <1>3, <1>6, <2>1, <2>2, WhoIsWho, SilentRefused
<1> QED BY <1>4, <1>5, <1>6, CanMoveMeans DEF MarkDispatched, MoveStep, OnOrder

LEMMA FulfilledKeeps ==
  ASSUME FlowsInv, P!StoreInv', UNCHANGED placed, NEW f \in Flows, CloseFulfilled(f)
  PROVE  FlowsInv'
<1> DEFINE step == "close_fulfilled"
<1>1. Asked(f, step) /\ UNCHANGED <<ship, stock, money, wire>>
  BY DEF CloseFulfilled, MoveStep, OnOrder
<1>2. f \in Closers
  BY <1>1, AskedStep DEF Flows, Closers
<1>3. step \in DoneBy[f] <=> <<f, step>> \in claimed
  BY DoneMeans DEF OrderSteps
<1>4. CASE Store!Move(O, "close_fulfilled", <<f, step>>) /\ UNCHANGED closing /\ Hears(f)
  <2>1. /\ orders[O].status = "dispatched" /\ orders'[O].status = "fulfilled"
        /\ claimed' = claimed \cup {<<f, step>>}
    BY <1>4, MoveMeans, CanMoveMeans DEF Store!Moves
  <2>2. step \in OrderSteps
    BY DEF OrderSteps
  <2>3. Adds(DoneBy, DoneBy', f, step)
    BY <1>1, <2>1, <2>2, TookOrderStep DEF ship, stock, money, wire
  <2>4. OrderOK'
    BY <1>2, <2>1, <2>3, OrderStatus, OrderFulfilled DEF OrderOK
  <2> QED BY <1>1, <1>4, <2>1, <2>2, <2>4, OrderStepKeeps
<1>5. CASE <<f, step>> \in claimed /\ UNCHANGED store /\ Answered(f)
  BY <1>1, <1>3, <1>5, SilentAnswered
<1>6. <<f, step>> \in claimed \/ orders[O].status = "dispatched"
  BY <1>1, <1>2, <1>3, CloseFinds
<1> QED BY <1>4, <1>5, <1>6, CanMoveMeans DEF CloseFulfilled, MoveStep, OnOrder

(* Up to its claim a cancellation may still turn back. *)
LEMMA MayTurnBack ==
  ASSUME FlowsInv, NEW f \in Flows, Asked(f, "hold") \/ Asked(f, "claim")
  PROVE  /\ f \in Cancellations /\ f \notin Closers /\ ~flows[f].past
         /\ "claim" \notin DoneBy[f] => "unclaim" \notin DoneBy[f]
         /\ "hold" \notin DoneBy[f] => DoneBy[f] \cap {"release", "withdraw"} = {}
<1>1. f \in Cancellations /\ f \notin Closers
  BY AskedStep, WhoIsWho DEF Flows
<1>2. /\ flows[f].mode # "unstarted"
      /\ {"hold", "claim"} \cap Elements(flows[f].todo) # {}
  BY AskedStep
<1> DEFINE pivot == IF placed.method = "card" THEN "refund" ELSE "commit"
<1>3. CancellationOK(flows[f], DoneBy[f], pivot) /\ pivot \in {"refund", "commit"}
  BY <1>1, SlipOf
<1> HIDE DEF pivot
<1>4. /\ flows[f].todo \in CancellationTodos(pivot)
      /\ flows[f].past <=> pivot \notin Elements(flows[f].todo)
      /\ flows[f].past \in BOOLEAN
  BY <1>2, <1>3 DEF CancellationOK, Unstarted, Flow
<1>5. pivot \in Elements(flows[f].todo)
  BY <1>2, <1>3, <1>4, CancellationLeft
<1>6. /\ "claim" \notin DoneBy[f] => "unclaim" \notin DoneBy[f]
      /\ "hold" \notin DoneBy[f] => DoneBy[f] \cap {"release", "withdraw"} = {}
  BY <1>2, <1>3 DEF CancellationOK
<1> QED BY <1>1, <1>4, <1>5, <1>6

LEMMA ClaimKeeps ==
  ASSUME FlowsInv, P!StoreInv', UNCHANGED placed, NEW f \in Flows, ClaimCancel(f)
  PROVE  FlowsInv'
<1>1. Asked(f, "claim") /\ UNCHANGED <<ship, stock, money, wire>>
  BY DEF ClaimCancel, OnOrder
<1>2. /\ f \in Cancellations /\ f \notin Closers /\ ~flows[f].past
      /\ "claim" \notin DoneBy[f] => "unclaim" \notin DoneBy[f]
  BY <1>1, MayTurnBack
<1>3. "claim" \in DoneBy[f] <=> <<f, "claim">> \in claimed
  BY DoneMeans DEF OrderSteps
<1>4. CASE Store!ClaimCancellation(O, <<f, "claim">>) /\ Hears(f)
  <2>1. /\ orders[O].status \in {"paid", "confirmed"} /\ UNCHANGED closing
        /\ claimed' = claimed \cup {<<f, "claim">>}
    BY <1>4, CanMoveMeans DEF Store!ClaimCancellation
  <2>2. orders'[O].status = "cancelling" /\ orders'[O].claimedFrom = orders[O].status
    BY <1>4, TheOrder DEF Store!ClaimCancellation, P!Order
  <2>3. "claim" \in OrderSteps
    BY DEF OrderSteps
  <2>4. Adds(DoneBy, DoneBy', f, "claim")
    BY <1>1, <2>1, <2>3, TookOrderStep DEF ship, stock, money, wire
  <2>5. OrderOK'
    <3>1. "unclaim" \notin DoneBy[f]
      BY <1>2, <1>3, <1>4 DEF Store!ClaimCancellation
    <3> QED BY <1>2, <2>1, <2>2, <2>4, <3>1, OrderStatus, OrderClaimed DEF OrderOK
  <2> QED BY <1>1, <1>4, <2>1, <2>3, <2>5, OrderStepKeeps
<1>5. CASE <<f, "claim">> \in claimed /\ UNCHANGED store /\ Answered(f)
  BY <1>1, <1>3, <1>5, SilentAnswered
<1>6. CASE <<f, "claim">> \notin claimed /\ UNCHANGED store /\ Refused(f)
  <2>1. UNCHANGED <<declined, refundedBy, collected>> /\ refundedBy \notin declined
    BY <1>1 DEF money, FlowsInv, MoneyOK
  <2> QED BY <1>1, <1>2, <1>3, <1>6, <2>1, SilentRefused
<1> QED BY <1>4, <1>5, <1>6 DEF ClaimCancel, OnOrder

(* A cancellation about to close the order still holds it.                   *)
LEMMA HolderCloses ==
  ASSUME FlowsInv, NEW f \in Cancellations, Asked(f, "close_cancelled"),
         "close_cancelled" \notin DoneBy[f]
  PROVE  Holds(DoneBy, f) /\ orders[O].status = "cancelling"
<1>0. f \in Flows
  BY WhoIsWho
<1>1. /\ flows[f].mode # "unstarted" /\ flows[f].todo # <<>>
      /\ Head(flows[f].todo) = "close_cancelled"
  BY <1>0, AskedStep
<1> DEFINE pivot == IF placed.method = "card" THEN "refund" ELSE "commit"
<1>2. CancellationOK(flows[f], DoneBy[f], pivot) /\ pivot \in {"refund", "commit"}
  BY <1>0, SlipOf
<1> HIDE DEF pivot
<1>3. /\ flows[f].todo \in CancellationTodos(pivot)
      /\ "claim" \notin Elements(flows[f].todo) => "claim" \in DoneBy[f]
      /\ "unclaim" \in DoneBy[f] => flows[f].mode \in Turned
      /\ flows[f].mode \in Turned => ~flows[f].past
      /\ flows[f].past <=> pivot \notin Elements(flows[f].todo)
  BY <1>1, <1>2 DEF CancellationOK, Unstarted
<1>4. Elements(flows[f].todo) = {"close_cancelled"}
  BY <1>1, <1>2, <1>3, CancellationNext
<1>5. Holds(DoneBy, f)
  BY <1>2, <1>3, <1>4 DEF Holds
<1>6. orders[O].status = "cancelling"
  BY <1>5, OrderStatus DEF OrderAt
<1> QED BY <1>5, <1>6

LEMMA ReadKeeps ==
  ASSUME FlowsInv, P!StoreInv', UNCHANGED placed, NEW f \in Flows, ReadToClose(f)
  PROVE  FlowsInv'
<1>1. /\ Asked(f, "close_cancelled") /\ Store!ReadForClose(O, <<f, "close_cancelled">>)
      /\ UNCHANGED <<flows, ship, stock, money, wire>>
  BY DEF ReadToClose
<1>2. /\ <<f, "close_cancelled">> \notin claimed /\ UNCHANGED <<groups, orders, claimed, outbox>>
      /\ closing' = closing \cup {[order |-> O, command |-> <<f, "close_cancelled">>,
                                   claimHeld |-> orders[O].status = "cancelling"]}
  BY <1>1 DEF Store!ReadForClose
<1>3. f \in Cancellations \cup Deliveries
  BY <1>1, AskedStep DEF Flows
<1>4. "close_cancelled" \notin DoneBy[f]
  BY <1>2, DoneMeans DEF OrderSteps
<1>5. orders[O].status = "cancelling" <=> f \in Cancellations
  <2>1. f \in Cancellations => orders[O].status = "cancelling"
    BY <1>1, <1>4, HolderCloses
  <2>2. f \in Deliveries => orders[O].status = "dispatched"
    BY <1>1, <1>4, CloseFinds, WhoIsWho
  <2> QED BY <1>3, <2>1, <2>2
<1>6. /\ UNCHANGED <<shipments, shipClaimed, reports>>
      /\ UNCHANGED <<restored, refundedBy, declined, edge, collected, signals>>
      /\ RestTyped' /\ MoneyOK'
  BY <1>1, RestLeftAlone DEF ship
<1>7. DoneBy' = DoneBy
  BY <1>2, <1>6, TookNothing
<1>8. Ship!TypeOK' /\ ParcelOK' /\ ReportsOK' /\ OrderOK'
  BY <1>1, <1>2, <1>7, ShipLeftAlone, OrderLeftAlone
<1>9. flows' \in [Flows -> Flow] /\ SlipsOK' /\ CourierOK' /\ StrandedOK' /\ HoldOK'
  BY <1>1, <1>6, <1>7, RestIsTyped
  DEF FlowsInv, SlipsOK, CourierOK, StrandedOK, Excused, Lingers, HoldOK, stock
<1>10. ClosingOK'
  <2> DEFINE held == orders[O].status = "cancelling"
             mine == [order |-> O, command |-> <<f, "close_cancelled">>, claimHeld |-> held]
  <2>1. held = (f \in Cancellations)
    BY <1>5
  <2>2. mine.command[1] = f
    OBVIOUS
  <2>3. mine = [order |-> O, command |-> <<mine.command[1], "close_cancelled">>,
                claimHeld |-> mine.command[1] \in Cancellations]
    BY <2>1
  <2> SUFFICES ASSUME NEW k \in closing \cup {mine}
               PROVE  /\ k.command[1] \in Cancellations \cup Deliveries
                      /\ k = [order |-> O, command |-> <<k.command[1], "close_cancelled">>,
                              claimHeld |-> k.command[1] \in Cancellations]
                      /\ Asked(k.command[1], "close_cancelled")'
                      /\ "close_cancelled" \notin DoneBy'[k.command[1]]
    BY <1>2 DEF ClosingOK
  <2>4. \A h : Asked(h, "close_cancelled")' <=> Asked(h, "close_cancelled")
    BY <1>1 DEF Asked, At, LeftAsked
  <2> HIDE DEF mine
  <2>5. CASE k = mine
    BY <1>1, <1>3, <1>4, <1>7, <2>2, <2>3, <2>4, <2>5
  <2>6. CASE k \in closing
    BY <1>7, <2>4, <2>6 DEF FlowsInv, ClosingOK
  <2> QED BY <2>5, <2>6
<1> QED BY <1>6, <1>8, <1>9, <1>10, Assembled

(* A request that ends leaves those of the other flows as they stand.        *)
LEMMA ClosingEnds ==
  ASSUME FlowsInv, NEW f \in Flows, NEW k \in closing, k.command[1] = f,
         closing' = closing \ {k}, NEW s,
         Adds(DoneBy, DoneBy', f, s), \A h \in Flows : h # f => flows'[h] = flows[h]
  PROVE  ClosingOK'
<1>1. \A j \in closing :
        /\ j.command[1] \in Cancellations \cup Deliveries
        /\ j = [order |-> O, command |-> <<j.command[1], "close_cancelled">>,
                claimHeld |-> j.command[1] \in Cancellations]
        /\ Asked(j.command[1], "close_cancelled")
        /\ "close_cancelled" \notin DoneBy[j.command[1]]
  BY DEF FlowsInv, ClosingOK
<1> SUFFICES ASSUME NEW j \in closing \ {k}
             PROVE  /\ j.command[1] \in Cancellations \cup Deliveries
                    /\ j = [order |-> O, command |-> <<j.command[1], "close_cancelled">>,
                            claimHeld |-> j.command[1] \in Cancellations]
                    /\ Asked(j.command[1], "close_cancelled")'
                    /\ "close_cancelled" \notin DoneBy'[j.command[1]]
  BY DEF ClosingOK
<1>2. j.command[1] # f
  BY <1>1
<1>3. j.command[1] \in Flows
  BY <1>1, WhoIsWho
<1>4. flows'[j.command[1]] = flows[j.command[1]] /\ DoneBy'[j.command[1]] = DoneBy[j.command[1]]
  <2>1. \A h \in Flows : h # f => DoneBy'[h] = DoneBy[h]
    BY AddsEqual
  <2> QED BY <1>2, <1>3, <2>1
<1> QED BY <1>1, <1>4 DEF Asked, At, LeftAsked

LEMMA CloseKeeps ==
  ASSUME FlowsInv, P!StoreInv', UNCHANGED placed, NEW f \in Flows, CloseCancelled(f)
  PROVE  FlowsInv'
<1> DEFINE step == "close_cancelled"
<1>1. Asked(f, step) /\ UNCHANGED <<ship, stock, money, wire>>
  BY DEF CloseCancelled
<1>2. step \in DoneBy[f] <=> <<f, step>> \in claimed
  BY DoneMeans DEF OrderSteps
<1>3. CASE <<f, step>> \in claimed /\ UNCHANGED store /\ Answered(f)
  BY <1>1, <1>2, <1>3, SilentAnswered
<1>4. ASSUME NEW k \in closing, k.command[1] = f
      PROVE  /\ f \in Cancellations \cup Deliveries /\ step \notin DoneBy[f]
             /\ k.order = O /\ k.command = <<f, step>> /\ k.claimHeld = (f \in Cancellations)
             /\ f \in Cancellations => Holds(DoneBy, f) /\ orders[O].status = "cancelling"
             /\ f \in Deliveries => orders[O].status = "dispatched"
  <2>1. /\ f \in Cancellations \cup Deliveries /\ step \notin DoneBy[f]
        /\ k = [order |-> O, command |-> <<f, step>>, claimHeld |-> f \in Cancellations]
    BY <1>4 DEF FlowsInv, ClosingOK
  <2>2. k.order = O /\ k.command = <<f, step>> /\ k.claimHeld = (f \in Cancellations)
    BY <2>1
  <2>3. f \in Cancellations => Holds(DoneBy, f) /\ orders[O].status = "cancelling"
    BY <1>1, <2>1, HolderCloses
  <2>4. f \in Deliveries => orders[O].status = "dispatched"
    BY <1>1, <2>1, CloseFinds, WhoIsWho
  <2> QED BY <2>1, <2>2, <2>3, <2>4
<1>5. ASSUME NEW k \in closing, k.command[1] = f,
             Store!SettleCancellation(k) \/ Store!CloseParcel(k), Hears(f)
      PROVE  FlowsInv'
  <2>1. /\ claimed' = claimed \cup {<<f, step>>} /\ closing' = closing \ {k}
        /\ orders'[O].status = "cancelled"
    <3>1. CASE Store!SettleCancellation(k)
      BY <1>4, <1>5, <3>1, TheOrder DEF Store!SettleCancellation, P!Order
    <3>2. CASE Store!CloseParcel(k)
      <4>1. Store!Move(O, step, <<f, step>>) /\ closing' = closing \ {k}
        BY <1>4, <1>5, <3>2 DEF Store!CloseParcel
      <4> QED BY <4>1, MoveMeans DEF Store!Moves
    <3> QED BY <1>5, <3>1, <3>2
  <2>2. step \in OrderSteps
    BY DEF OrderSteps
  <2>3. Adds(DoneBy, DoneBy', f, step)
    BY <1>1, <2>1, <2>2, TookOrderStep DEF ship, stock, money, wire
  <2>4. OrderOK'
    <3>1. CASE f \in Cancellations
      BY <1>4, <1>5, <2>1, <2>3, <3>1, OrderStatus, OrderSettled DEF OrderOK
    <3>2. CASE f \in Deliveries
      BY <1>4, <1>5, <2>1, <2>3, <3>2, OrderStatus, OrderReturned DEF OrderOK
    <3> QED BY <1>4, <1>5, <3>1, <3>2
  <2>5. ClosingOK'
    BY <1>5, <2>1, <2>3, HearsMeans, ClosingEnds
  <2> QED BY <1>1, <1>5, <2>1, <2>2, <2>4, <2>5, OrderStepKeeps
<1>6. ASSUME NEW k \in closing, k.command[1] = f
      PROVE  /\ ~(k.claimHeld /\ ~Store!CanMove(O, "settle_cancel"))
             /\ ~(~k.claimHeld /\ ~Store!CanMove(O, "close_cancelled"))
  BY <1>4, <1>6, CanMoveMeans
<1> QED BY <1>3, <1>5, <1>6 DEF CloseCancelled

LEMMA CapturedKeeps ==
  ASSUME FlowsInv, P!StoreInv', UNCHANGED placed, HearsCaptured
  PROVE  FlowsInv'
<1>1. /\ UNCHANGED <<ship, flows, stock, money, wire, closing>>
      /\ claimed' = claimed \cup {<<"captured", O>>}
      /\ orders' = IF orders[O].status = "pending"
                   THEN [orders EXCEPT ![O].status = "paid", ![O].paidAt = TRUE]
                   ELSE orders
  BY DEF HearsCaptured, Store!MarkPaid
<1>2. /\ UNCHANGED <<shipments, shipClaimed, reports>>
      /\ UNCHANGED <<restored, refundedBy, declined, edge, collected, signals>>
      /\ RestTyped' /\ MoneyOK'
  BY <1>1, RestLeftAlone DEF ship
<1>3. DoneBy' = DoneBy
  <2>1. \A f \in Flows, s \in OrderSteps : <<f, s>> # <<"captured", O>>
    BY DEF OrderSteps, O
  <2> QED BY <1>1, <1>2, <2>1, TookNothing
<1>4. OrderOK'
  <2>1. CASE orders[O].status = "pending"
    <3>1. orders'[O].status = "paid"
      BY <1>1, <2>1, TheOrder DEF P!Order
    <3> QED BY <1>3, <2>1, <3>1, OrderStatus, OrderPaid DEF OrderOK
  <2>2. CASE orders[O].status # "pending"
    BY <1>1, <1>3, <2>2, OrderLeftAlone
  <2> QED BY <2>1, <2>2
<1>5. Ship!TypeOK' /\ ParcelOK' /\ ReportsOK'
  BY <1>1, <1>3, ShipLeftAlone
<1>6. flows' \in [Flows -> Flow] /\ SlipsOK' /\ CourierOK' /\ StrandedOK' /\ ClosingOK' /\ HoldOK'
  BY <1>1, <1>2, <1>3, RestIsTyped
  DEF FlowsInv, SlipsOK, CourierOK, StrandedOK, Excused, Lingers, ClosingOK, Asked, At, LeftAsked, HoldOK, stock
<1> QED BY <1>2, <1>4, <1>5, <1>6, Assembled

-----------------------------------------------------------------------------
(* The steps on the shipment *)

(* A step on the shipment that takes place leaves everything else as it was. *)
LEMMA ShipStepKeeps ==
  ASSUME FlowsInv, P!StoreInv', NEW f \in Flows, NEW s \in ShipSteps, Asked(f, s), Hears(f),
         shipClaimed' = shipClaimed \cup {<<f, s>>}, UNCHANGED <<store, stock, money, wire, placed>>,
         Ship!TypeOK', ParcelOK', ReportsOK',
         shipments[O].status \in {"delivered", "returned"} =>
           shipments'[O].status = shipments[O].status
  PROVE  FlowsInv'
<1>1. /\ UNCHANGED <<groups, orders, claimed, closing, outbox>>
      /\ UNCHANGED <<restored, refundedBy, declined, edge, collected, signals>>
      /\ RestTyped' /\ MoneyOK' /\ UNCHANGED hold
  BY RestLeftAlone DEF store, stock
<1>2. Adds(DoneBy, DoneBy', f, s)
  BY <1>1, TookShipStep
<1>3. s \notin Worded /\ s \notin OrderWords /\ s # "close_cancelled"
  BY DEF ShipSteps, Worded, OrderWords
<1>4. flows' \in [Flows -> Flow] /\ SlipsOK' /\ CourierOK' /\ StrandedOK' /\ ClosingOK' /\ HoldOK'
  BY <1>1, <1>2, <1>3, TakesKeeps
<1>5. \A h \in Flows, x \in OrderWords : x \in DoneBy'[h] <=> x \in DoneBy[h]
  BY <1>2, <1>3 DEF Adds
<1>6. OrderOK'
  BY <1>1, <1>5, OrderLeftAlone
<1> QED BY <1>1, <1>4, <1>6, Assembled

LEMMA TheParcel ==
  ASSUME FlowsInv
  PROVE  /\ shipments \in [{O} -> [status : Ship!Statuses \cup {None}, stamps : SUBSET Ship!Announced]]
         /\ reports \in [{O} -> Seq([move : Ship!Announced, version : 1 .. 3])]
         /\ shipments[O] = Ship!Unopened <=> shipments[O].status = None
         /\ \A i \in 1 .. Len(reports[O]) : reports[O][i].version = i
         /\ Len(reports[O]) = Said(shipments[O].status)
         /\ shipClaimed \in SUBSET Commands
<1>1. Ship!TypeOK
  BY RestIsTyped
<1>2. \A i \in 1 .. Len(reports[O]) : reports[O][i].version = i
  BY DEF FlowsInv, ReportsOK, Ship!VersionsFollow
<1>3. Len(reports[O]) = Said(shipments[O].status)
  BY DEF FlowsInv, ReportsOK
<1>4. shipments[O] = Ship!Unopened <=> shipments[O].status = None
  BY DEF FlowsInv, ParcelOK
<1>5. /\ shipments \in [{O} -> [status : Ship!Statuses \cup {None}, stamps : SUBSET Ship!Announced]]
      /\ reports \in [{O} -> Seq([move : Ship!Announced, version : 1 .. 3])]
      /\ shipClaimed \in SUBSET Commands
  BY <1>1 DEF Ship!TypeOK, Ship!None, None
<1> QED BY <1>2, <1>3, <1>4, <1>5

LEMMA ParcelTable ==
  /\ Ship!CanMove(O, "hold") <=> shipments[O].status = "awaiting_dispatch"
  /\ Ship!CanMove(O, "release") <=> shipments[O].status = "held"
  /\ Ship!CanMove(O, "withdraw") <=> shipments[O].status \in {"awaiting_dispatch", "held"}
  /\ Ship!CanMove(O, "dispatch") <=> shipments[O].status = "awaiting_dispatch"
  /\ Ship!CanMove(O, "record_delivery") <=> shipments[O].status = "dispatched"
  /\ Ship!CanMove(O, "record_refusal") <=> shipments[O].status = "dispatched"
  /\ Ship!CanMove(O, "record_return") <=> shipments[O].status = "refused"
BY DEF Ship!CanMove, Ship!After

(* Where each move of a parcel leads, and under which version it is said.    *)
LEMMA ParcelMoved ==
  ASSUME FlowsInv, NEW t \in Ship!FlowMoves \cup Ship!CourierReports, Ship!Transition(O, t)
  PROVE  /\ Ship!CanMove(O, t)
         /\ t = "hold" => shipments'[O].status = "held"
         /\ t = "release" => shipments'[O].status = "awaiting_dispatch"
         /\ t = "withdraw" => shipments'[O].status = "withdrawn"
         /\ t = "dispatch" => shipments'[O].status = "dispatched"
         /\ t = "record_delivery" => shipments'[O].status = "delivered"
         /\ t = "record_refusal" => shipments'[O].status = "refused"
         /\ t = "record_return" => shipments'[O].status = "returned"
         /\ shipments'[O].status # None /\ shipments'[O] # Ship!Unopened
         /\ shipClaimed' \in SUBSET Commands => Ship!TypeOK'
         /\ ReportsOK'
<1>1. Ship!CanMove(O, t)
  BY DEF Ship!Transition
<1>2. t \in {"hold", "release", "withdraw", "dispatch", "record_delivery", "record_refusal",
             "record_return"}
  BY DEF Ship!FlowMoves, Ship!CourierReports
<1> DEFINE now == Ship!After[t][shipments[O].status]
<1>3. /\ t = "hold" => now = "held"
      /\ t = "release" => now = "awaiting_dispatch"
      /\ t = "withdraw" => now = "withdrawn"
      /\ t = "dispatch" => now = "dispatched"
      /\ t = "record_delivery" => now = "delivered"
      /\ t = "record_refusal" => now = "refused"
      /\ t = "record_return" => now = "returned"
  BY <1>1, ParcelTable DEF Ship!After
<1>4. shipments' = [shipments EXCEPT ![O] =
                      [status |-> now, stamps |-> shipments[O].stamps \cup ({t} \cap Ship!Announced)]]
  BY TheParcel DEF Ship!Transition
<1>5. reports' = IF t \in Ship!Announced
                 THEN [reports EXCEPT ![O] =
                         Append(reports[O], [move |-> t, version |-> Ship!Version(t)])]
                 ELSE reports
  BY TheParcel DEF Ship!Transition
<1> HIDE DEF now
<1>6. now \in Ship!Statuses /\ now # None
  BY <1>2, <1>3 DEF Ship!Statuses, None
<1>7. shipments'[O].status = now
  BY <1>4, TheParcel
<1>8. shipments' \in [{O} -> [status : Ship!Statuses \cup {None}, stamps : SUBSET Ship!Announced]]
  BY <1>4, <1>6, TheParcel
<1>9. shipments'[O] # Ship!Unopened
  BY <1>6, <1>7 DEF Ship!Unopened, Ship!None, None
<1>10. /\ t \in Ship!Announced <=>
            t \in {"dispatch", "record_delivery", "record_refusal", "record_return"}
       /\ t \in Ship!Announced =>
            /\ Ship!Version(t) \in 1 .. 3 /\ Ship!Version(t) = Said(shipments[O].status) + 1
            /\ Said(now) = Ship!Version(t)
       /\ t \notin Ship!Announced => Said(now) = Said(shipments[O].status)
  <2>1. t \in Ship!Announced <=>
          t \in {"dispatch", "record_delivery", "record_refusal", "record_return"}
    BY <1>2 DEF Ship!Announced, Ship!CourierReports
  <2>2. t = "dispatch" => Ship!Version(t) = 1 /\ Said(shipments[O].status) = 0 /\ Said(now) = 1
    BY <1>1, <1>3, ParcelTable DEF Ship!Version, Said
  <2>3. t \in {"record_delivery", "record_refusal"} =>
          Ship!Version(t) = 2 /\ Said(shipments[O].status) = 1 /\ Said(now) = 2
    BY <1>1, <1>3, ParcelTable DEF Ship!Version, Said
  <2>4. t = "record_return" =>
          Ship!Version(t) = 3 /\ Said(shipments[O].status) = 2 /\ Said(now) = 3
    BY <1>1, <1>3, ParcelTable DEF Ship!Version, Said
  <2>5. t \in {"hold", "release", "withdraw"} => Said(now) = 0 /\ Said(shipments[O].status) = 0
    BY <1>1, <1>3, ParcelTable DEF Said
  <2> QED BY <1>2, <2>1, <2>2, <2>3, <2>4, <2>5
<1>11. /\ reports' \in [{O} -> Seq([move : Ship!Announced, version : 1 .. 3])]
       /\ Len(reports'[O]) = Said(now)
       /\ \A i \in 1 .. Len(reports'[O]) : reports'[O][i].version = i
  <2>1. CASE t \notin Ship!Announced
    BY <1>5, <1>10, <2>1, TheParcel
  <2>2. CASE t \in Ship!Announced
    <3> DEFINE e == [move |-> t, version |-> Ship!Version(t)]
               n == Len(reports[O])
    <3>1. /\ e \in [move : Ship!Announced, version : 1 .. 3] /\ e.version = Ship!Version(t)
          /\ n = Said(shipments[O].status) /\ Ship!Version(t) = n + 1 /\ n \in Nat
      BY <1>10, <2>2, TheParcel
    <3>2. reports' = [reports EXCEPT ![O] = Append(reports[O], e)]
      BY <1>5, <2>2
    <3> HIDE DEF e
    <3>3. reports'[O] = Append(reports[O], e) /\ reports[O] \in Seq([move : Ship!Announced, version : 1 .. 3])
      BY <3>2, TheParcel
    <3>4. /\ Append(reports[O], e) \in Seq([move : Ship!Announced, version : 1 .. 3])
          /\ Len(Append(reports[O], e)) = n + 1
          /\ \A i \in 1 .. n : Append(reports[O], e)[i] = reports[O][i]
          /\ Append(reports[O], e)[n + 1] = e
      BY <3>1, <3>3
    <3>5. \A i \in 1 .. Len(reports'[O]) : reports'[O][i].version = i
      BY <3>1, <3>3, <3>4, TheParcel
    <3>6. reports' \in [{O} -> Seq([move : Ship!Announced, version : 1 .. 3])]
      BY <3>2, <3>4, TheParcel
    <3> QED BY <1>10, <2>2, <3>1, <3>3, <3>4, <3>5, <3>6
  <2> QED BY <2>1, <2>2
<1>12. ReportsOK'
  BY <1>7, <1>11 DEF ReportsOK, Ship!VersionsFollow
<1>13. shipClaimed' \in SUBSET Commands => Ship!TypeOK'
  BY <1>8, <1>11 DEF Ship!TypeOK, Ship!None, None
<1> QED BY <1>1, <1>3, <1>6, <1>7, <1>9, <1>12, <1>13

LEMMA OpenKeeps ==
  ASSUME FlowsInv, P!StoreInv', UNCHANGED placed, NEW f \in Flows, Open(f)
  PROVE  FlowsInv'
<1>1. Asked(f, "open") /\ UNCHANGED <<store, stock, money, wire>>
  BY DEF Open, OnShipment
<1>2. f = Checkout
  BY <1>1, AskedStep DEF Flows
<1>3. "open" \in DoneBy[f] <=> <<f, "open">> \in shipClaimed
  BY DoneMeans DEF ShipSteps
<1>4. CASE Ship!Open(O, <<f, "open">>) /\ Hears(f)
  <2>1. /\ shipments[O].status = None /\ UNCHANGED reports
        /\ shipments' = [shipments EXCEPT ![O].status = "awaiting_dispatch"]
        /\ shipClaimed' = shipClaimed \cup {<<f, "open">>}
    BY <1>4, TheParcel DEF Ship!Open
  <2>2. shipments'[O].status = "awaiting_dispatch"
    BY <2>1, TheParcel
  <2>3. "open" \in ShipSteps /\ <<f, "open">> \in Commands
    BY DEF ShipSteps, Commands, Steps
  <2>4. Adds(DoneBy, DoneBy', f, "open")
    BY <1>1, <2>1, <2>3, TookShipStep DEF store, stock, money, wire
  <2>5. ParcelAt("awaiting_dispatch", DoneBy')
    BY <1>2, <2>1, <2>4, OrderStatus, ParcelMoves
  <2>6. ParcelOK'
    BY <2>2, <2>5 DEF ParcelOK, Ship!Unopened, Ship!None, None
  <2>7. ReportsOK'
    BY <2>1, <2>2, TheParcel DEF ReportsOK, Ship!VersionsFollow, Said, None
  <2>8. Ship!TypeOK'
    <3>1. shipClaimed' \in SUBSET Commands
      BY <2>1, <2>3, TheParcel
    <3>2. shipments' \in [{O} -> [status : Ship!Statuses \cup {None}, stamps : SUBSET Ship!Announced]]
      BY <2>1, TheParcel DEF Ship!Statuses
    <3> QED BY <2>1, <3>1, <3>2, TheParcel DEF Ship!TypeOK, Ship!None, None
  <2> QED BY <1>1, <1>4, <2>1, <2>3, <2>6, <2>7, <2>8, ShipStepKeeps DEF None
<1>5. CASE <<f, "open">> \in shipClaimed /\ UNCHANGED ship /\ Answered(f)
  BY <1>1, <1>3, <1>5, SilentAnswered
<1>6. Opened => <<f, "open">> \in shipClaimed
  BY <1>2, <1>3, TheParcel, OrderStatus DEF Opened, ParcelAt
<1> QED BY <1>4, <1>5, <1>6 DEF Open, OnShipment

(* A move a flow asks of the parcel, when it takes place. *)
LEMMA FlowMoveKeeps ==
  ASSUME FlowsInv, P!StoreInv', UNCHANGED placed, NEW f \in Flows,
         NEW s \in {"hold", "withdraw", "dispatch"}, Asked(f, s), Hears(f),
         Ship!FlowMove(O, s, <<f, s>>), UNCHANGED <<store, stock, money, wire>>,
         \/ f \in Cancellations /\ s = "hold" /\ DoneBy[f] \cap {"release", "withdraw"} = {}
         \/ f \in Cancellations /\ s = "withdraw" /\ HoldsParcel(DoneBy, f)
         \/ f \in Deliveries /\ s = "dispatch"
  PROVE  FlowsInv'
<1>1. s \in ShipSteps /\ <<f, s>> \in Commands /\ s \in Ship!FlowMoves \cup Ship!CourierReports
  BY DEF ShipSteps, Commands, Steps, Ship!FlowMoves
<1>2. Ship!Transition(O, s) /\ shipClaimed' = shipClaimed \cup {<<f, s>>}
  BY DEF Ship!FlowMove
<1>3. /\ Ship!CanMove(O, s) /\ ReportsOK'
      /\ shipments'[O].status # None /\ shipments'[O] # Ship!Unopened
      /\ shipClaimed' \in SUBSET Commands => Ship!TypeOK'
      /\ s = "hold" => shipments'[O].status = "held"
      /\ s = "withdraw" => shipments'[O].status = "withdrawn"
      /\ s = "dispatch" => shipments'[O].status = "dispatched"
  BY <1>1, <1>2, ParcelMoved
<1>4. Adds(DoneBy, DoneBy', f, s)
  BY <1>1, <1>2, TookShipStep DEF store, stock, money, wire
<1>5. ParcelAt(shipments'[O].status, DoneBy')
  <2>1. s \in {"hold", "dispatch"} => shipments[O].status = "awaiting_dispatch"
    BY <1>3, ParcelTable
  <2> QED BY <1>3, <1>4, <2>1, OrderStatus, ParcelMoves
<1>6. ParcelOK'
  BY <1>3, <1>5 DEF ParcelOK
<1>7. Ship!TypeOK'
  BY <1>1, <1>2, <1>3, TheParcel
<1>8. shipments[O].status \notin {"delivered", "returned"}
  BY <1>3, ParcelTable
<1> QED BY <1>1, <1>2, <1>3, <1>6, <1>7, <1>8, ShipStepKeeps

LEMMA HoldKeeps ==
  ASSUME FlowsInv, P!StoreInv', UNCHANGED placed, NEW f \in Flows, Hold(f)
  PROVE  FlowsInv'
<1>1. Asked(f, "hold") /\ UNCHANGED <<store, stock, money, wire>>
  BY DEF Hold, ShipStep, OnShipment
<1>2. /\ f \in Cancellations /\ f \notin Closers /\ ~flows[f].past
      /\ "hold" \notin DoneBy[f] => DoneBy[f] \cap {"release", "withdraw"} = {}
  BY <1>1, MayTurnBack
<1>3. "hold" \in DoneBy[f] <=> <<f, "hold">> \in shipClaimed
  BY DoneMeans DEF ShipSteps
<1>4. CASE Ship!FlowMove(O, "hold", <<f, "hold">>) /\ Hears(f)
  <2>1. "hold" \notin DoneBy[f]
    BY <1>3, <1>4 DEF Ship!FlowMove
  <2> QED BY <1>1, <1>2, <1>4, <2>1, FlowMoveKeeps
<1>5. CASE <<f, "hold">> \in shipClaimed /\ UNCHANGED ship /\ Answered(f)
  BY <1>1, <1>3, <1>5, SilentAnswered
<1>6. CASE <<f, "hold">> \notin shipClaimed /\ UNCHANGED ship /\ Refused(f)
  <2>1. UNCHANGED <<declined, refundedBy, collected>> /\ refundedBy \notin declined
    BY <1>1 DEF money, FlowsInv, MoneyOK
  <2> QED BY <1>1, <1>2, <1>3, <1>6, <2>1, SilentRefused
<1> QED BY <1>4, <1>5, <1>6 DEF Hold, ShipStep, OnShipment

(* A cancellation about to withdraw a parcel had it wait, and it still does. *)
LEMMA HolderWithdraws ==
  ASSUME FlowsInv, NEW f \in Flows, Asked(f, "withdraw")
  PROVE  /\ f \in Cancellations /\ HoldsParcel(DoneBy, f)
         /\ "withdraw" \notin DoneBy[f] => shipments[O].status = "held"
<1>1. f \in Cancellations
  BY AskedStep DEF Flows
<1>2. /\ flows[f].mode # "unstarted" /\ flows[f].todo # <<>>
      /\ Head(flows[f].todo) = "withdraw"
  BY AskedStep
<1> DEFINE pivot == IF placed.method = "card" THEN "refund" ELSE "commit"
<1>3. CancellationOK(flows[f], DoneBy[f], pivot) /\ pivot \in {"refund", "commit"}
  BY <1>1, SlipOf
<1> HIDE DEF pivot
<1>4. flows[f].todo \in CancellationTodos(pivot)
  BY <1>2, <1>3 DEF CancellationOK, Unstarted
<1>5. Elements(flows[f].todo) = {"withdraw", "close_cancelled"}
  BY <1>2, <1>3, <1>4, CancellationNext
<1>6. "hold" \in DoneBy[f] /\ "release" \notin DoneBy[f]
  <2> DEFINE left == Elements(flows[f].todo)
  <2>1. /\ "withdraw" \in left /\ "hold" \notin left => "hold" \in DoneBy[f]
        /\ "release" \in DoneBy[f] => flows[f].mode \in Turned
        /\ flows[f].mode \in Turned => ~flows[f].past
        /\ flows[f].past <=> pivot \notin left
    BY <1>2, <1>3 DEF CancellationOK, Unstarted
  <2> QED BY <1>3, <1>5, <2>1
<1>7. HoldsParcel(DoneBy, f)
  BY <1>6 DEF HoldsParcel
<1> QED BY <1>1, <1>7, OrderStatus DEF ParcelAt

LEMMA WithdrawKeeps ==
  ASSUME FlowsInv, P!StoreInv', UNCHANGED placed, NEW f \in Flows, Withdraw(f)
  PROVE  FlowsInv'
<1>1. Asked(f, "withdraw") /\ UNCHANGED <<store, stock, money, wire>>
  BY DEF Withdraw, ShipStep, OnShipment
<1>2. /\ f \in Cancellations /\ HoldsParcel(DoneBy, f)
      /\ "withdraw" \notin DoneBy[f] => shipments[O].status = "held"
  BY <1>1, HolderWithdraws
<1>3. "withdraw" \in DoneBy[f] <=> <<f, "withdraw">> \in shipClaimed
  BY DoneMeans DEF ShipSteps
<1>4. CASE Ship!FlowMove(O, "withdraw", <<f, "withdraw">>) /\ Hears(f)
  BY <1>1, <1>2, <1>4, FlowMoveKeeps
<1>5. CASE <<f, "withdraw">> \in shipClaimed /\ UNCHANGED ship /\ Answered(f)
  BY <1>1, <1>3, <1>5, SilentAnswered
<1>6. <<f, "withdraw">> \in shipClaimed \/ Ship!CanMove(O, "withdraw")
  BY <1>2, <1>3, ParcelTable
<1> QED BY <1>4, <1>5, <1>6 DEF Withdraw, ShipStep, OnShipment

LEMMA DispatchKeeps ==
  ASSUME FlowsInv, P!StoreInv', UNCHANGED placed, NEW f \in Flows, Dispatch(f)
  PROVE  FlowsInv'
<1>1. Asked(f, "dispatch") /\ UNCHANGED <<store, stock, money, wire>>
  BY DEF Dispatch, ShipStep, OnShipment
<1>2. f \in Deliveries /\ f \notin Cancellations
  BY <1>1, AskedStep, WhoIsWho DEF Flows
<1>3. "dispatch" \in DoneBy[f] <=> <<f, "dispatch">> \in shipClaimed
  BY DoneMeans DEF ShipSteps
<1>4. CASE Ship!FlowMove(O, "dispatch", <<f, "dispatch">>) /\ Hears(f)
  BY <1>1, <1>2, <1>4, FlowMoveKeeps
<1>5. CASE <<f, "dispatch">> \in shipClaimed /\ UNCHANGED ship /\ Answered(f)
  BY <1>1, <1>3, <1>5, SilentAnswered
<1>6. CASE <<f, "dispatch">> \notin shipClaimed /\ UNCHANGED ship /\ Refused(f)
  <2>1. UNCHANGED <<declined, refundedBy, collected>> /\ refundedBy \notin declined
    BY <1>1 DEF money, FlowsInv, MoneyOK
  <2>2. ~flows[f].past
    BY <1>2, <1>3, <1>6, SlipOf, DeliveryPast
  <2> QED BY <1>1, <1>2, <1>3, <1>6, <2>1, <2>2, SilentRefused
<1> QED BY <1>4, <1>5, <1>6 DEF Dispatch, ShipStep, OnShipment

-----------------------------------------------------------------------------
(* The steps on the ledger and the payments *)

(* A step nothing is recorded of under its flow, whether or not it is heard. *)
LEMMA WordKeeps ==
  ASSUME FlowsInv, P!StoreInv', NEW f \in Flows, NEW s \in {"convert", "commit", "collect", "await_return"},
         Asked(f, s), Hears(f), UNCHANGED <<store, ship, restored, refundedBy, declined, edge, placed>>,
         RestTyped', hold' = "held" => hold = "held" /\ s # "convert",
         \A o \in {"delivered", "returned"} : signals'[o] > 0 => signals[o] > 0,
         collected => collected', collected' => shipments[O].status = "delivered",
         f \in Deliveries => \/ s = "collect" /\ collected'
                             \/ s = "await_return" /\ shipments[O].status = "returned"
                             \/ UNCHANGED flows
  PROVE  FlowsInv'
<1>1. /\ flows[f].mode # "unstarted" /\ flows[f].todo # <<>> /\ Head(flows[f].todo) = s
  BY AskedStep
<1>2. /\ Moves(f)
      /\ \/ flows'[f] = flows[f]
         \/ /\ flows[f].mode = "running"
            /\ flows'[f] = Onward(flows[f], Tail(flows[f].todo))
      /\ \A h \in Flows : h # f => flows'[h] = flows[h]
  BY HearsMeans
<1>3. /\ UNCHANGED <<groups, orders, claimed, closing, outbox, shipments, shipClaimed, reports>>
      /\ DoneBy' = DoneBy
  <2>1. UNCHANGED <<groups, orders, claimed, closing, outbox, shipments, shipClaimed, reports>>
    BY DEF store, ship
  <2> QED BY <2>1, TookNothing
<1>4. SlipAt(f, flows[f], DoneBy[f], placed) /\ placed \in Placement
  BY SlipOf
<1>5. SlipAt(f, flows'[f], DoneBy[f], placed)
  <2>1. s # "await_delivery" /\ s \in Worded
    BY DEF Worded
  <2> QED BY <1>1, <1>2, <1>4, <2>1, SlipAnswered
<1>6. ASSUME f \in Deliveries
      PROVE  CourierAt(Elements(flows'[f].todo), DoneBy[f], placed.method = "card",
                       shipments[O].status, collected')
  <2> DEFINE r == flows[f]
             done == DoneBy[f]
             left == Elements(flows'[f].todo)
             card == placed.method = "card"
             parcel == shipments[O].status
  <2>1. /\ r.mode # "unstarted" /\ r.todo # <<>> /\ Head(r.todo) = s /\ s # "await_delivery"
        /\ done \in {done, done \cup {Head(r.todo)}}
    BY <1>1
  <2>2. left \in {Elements(r.todo), Elements(Tail(r.todo))}
    <3>1. Onward(flows[f], Tail(flows[f].todo)).todo = Tail(flows[f].todo)
      BY DEF Onward
    <3>2. flows'[f].todo \in {flows[f].todo, Tail(flows[f].todo)}
      BY <1>2, <3>1
    <3> QED BY <3>2
  <2>3. DeliveryOK(r, done, card) /\ card \in BOOLEAN
    BY <1>6, SlipOf
  <2>4. CourierAt(Elements(r.todo), done, card, parcel, collected)
    BY <1>6 DEF FlowsInv, CourierOK
  <2>5. UNCHANGED flows => left = Elements(r.todo)
    OBVIOUS
  <2>6. CASE UNCHANGED flows
    <3> HIDE DEF r, done, left, card, parcel
    <3>1. left = Elements(r.todo)
      BY <2>5, <2>6
    <3>2. CourierAt(left, done, card, parcel, collected')
      BY <2>4, <3>1, CourierStays
    <3> QED BY <3>2 DEF left, done, card, parcel
  <2>7. CASE \/ s = "collect" /\ collected'
             \/ s = "await_return" /\ parcel = "returned"
    <3> HIDE DEF r, done, left, card, parcel
    <3>1. Courses(r, done, card, parcel, collected, left, done, parcel, collected')
      BY <2>1, <2>2, <2>3, <2>4, <2>7 DEF Courses
    <3>2. CourierAt(left, done, card, parcel, collected')
      BY <3>1, CourierTakes
    <3> QED BY <3>2 DEF left, done, card, parcel
  <2> QED BY <1>6, <2>6, <2>7
<1>7. CourierOK'
  BY <1>2, <1>3, <1>6, CourierTurns
<1>8. flows'[f].mode = "stranded" => flows'[f] = flows[f]
  BY <1>2 DEF Onward
<1>9. refundedBy \notin declined'
  BY DEF FlowsInv, MoneyOK
<1>10. \A k \in closing : k.command[1] # f
  <2>1. ~Asked(f, "close_cancelled")
    BY <1>1, AskedStep
  <2> QED BY <2>1, NotClosing
<1>11. HoldOK'
  <2>1. CASE hold' = "held"
    <3>1. Onward(flows[f], Tail(flows[f].todo)).todo = Tail(flows[f].todo)
      BY DEF Onward
    <3> QED BY <1>1, <1>2, <2>1, <3>1, HoldTurns
  <2>2. CASE hold' # "held"
    BY <2>2 DEF HoldOK
  <2> QED BY <2>1, <2>2
<1>12. StaysTurned(f)
  BY <1>2 DEF StaysTurned, Turned
<1> QED BY <1>2, <1>5, <1>7, <1>8, <1>9, <1>10, <1>11, <1>12, Silent

LEMMA CashIsDelivered == FlowsInv /\ collected => shipments[O].status = "delivered"
BY DEF FlowsInv, CourierOK

LEMMA ConvertKeeps ==
  ASSUME FlowsInv, P!StoreInv', UNCHANGED placed, NEW f \in Flows, Convert(f)
  PROVE  FlowsInv'
<1>1. /\ Asked(f, "convert") /\ Hears(f) /\ hold' \in {"converted", hold} /\ hold' # "held"
      /\ UNCHANGED <<store, ship, restored, refundedBy, declined, collected, signals, edge>>
  BY DEF Convert, money, wire
<1>2. f \notin Deliveries
  BY <1>1, AskedStep, WhoIsWho
<1>3. RestTyped'
  BY <1>1, RestIsTyped DEF RestTyped
<1> QED BY <1>1, <1>2, <1>3, CashIsDelivered, WordKeeps

LEMMA CommitKeeps ==
  ASSUME FlowsInv, P!StoreInv', UNCHANGED placed, NEW f \in Flows, Commit(f)
  PROVE  FlowsInv'
<1>1. At(f, "commit") /\ Hears(f) /\ UNCHANGED <<store, ship, stock, money, wire>>
  BY DEF Commit, Hears
<1>2. /\ UNCHANGED <<restored, refundedBy, declined, edge, collected, signals>>
      /\ RestTyped' /\ UNCHANGED hold
  BY <1>1, RestLeftAlone DEF stock
<1>3. Asked(f, "commit") /\ f \notin Deliveries
  BY <1>1, AskedStep DEF Asked
<1> QED BY <1>3, <1>1, <1>2, CashIsDelivered, WordKeeps

LEMMA CollectKeeps ==
  ASSUME FlowsInv, P!StoreInv', UNCHANGED placed, NEW f \in Flows, Collect(f)
  PROVE  FlowsInv'
<1>1. /\ Asked(f, "collect") /\ Hears(f) /\ collected' = TRUE
      /\ UNCHANGED <<store, ship, hold, restored, refundedBy, declined, signals, edge>>
  BY DEF Collect, stock, wire
<1>2. RestTyped'
  BY <1>1, RestIsTyped DEF RestTyped
<1>3. f \in Deliveries
  BY <1>1, AskedStep DEF Flows
<1>4. shipments[O].status = "delivered"
  <2>1. /\ flows[f].mode # "unstarted" /\ flows[f].todo # <<>>
        /\ Head(flows[f].todo) = "collect"
    BY <1>1, AskedStep
  <2> DEFINE card == placed.method = "card"
  <2>2. DeliveryOK(flows[f], DoneBy[f], card) /\ card \in BOOLEAN
    BY <1>3, SlipOf
  <2>3. CourierAt(Elements(flows[f].todo), DoneBy[f], card, shipments[O].status, collected)
    BY <1>3 DEF FlowsInv, CourierOK
  <2> HIDE DEF card
  <2>4. flows[f].todo \in DeliveryTodos(card)
    BY <2>1, <2>2 DEF DeliveryOK, Unstarted
  <2>5. "close_fulfilled" \in Elements(flows[f].todo)
    BY <2>1, <2>2, <2>4, DeliveryNext
  <2> QED BY <2>3, <2>5 DEF CourierAt
<1> QED BY <1>1, <1>2, <1>3, <1>4, WordKeeps

LEMMA HoldRunsOutKeeps ==
  ASSUME FlowsInv, P!StoreInv', UNCHANGED placed, HoldRunsOut
  PROVE  FlowsInv'
<1>1. /\ hold' = "released"
      /\ UNCHANGED <<store, ship, flows, restored, refundedBy, declined, collected, signals, edge>>
  BY DEF HoldRunsOut, money, wire
<1>2. RestTyped'
  BY <1>1, RestIsTyped DEF RestTyped
<1>3. (hold' = "held" => hold = "held") /\ refundedBy \notin declined'
  BY <1>1 DEF FlowsInv, MoneyOK
<1> QED BY <1>1, <1>2, <1>3, NothingTurns

(* A cancellation's refund is its pivot, and the checkout makes none.        *)
LEMMA RefundFacts ==
  ASSUME FlowsInv, NEW f \in Flows, Asked(f, "refund")
  PROVE  /\ f \in Cancellations => ~flows[f].past
         /\ f \notin Cancellations => f \in Deliveries
<1>1. /\ flows[f].mode # "unstarted" /\ flows[f].todo # <<>>
      /\ Head(flows[f].todo) = "refund"
  BY AskedStep
<1>2. f \notin Cancellations => f \in Deliveries
  BY AskedStep DEF Flows
<1>3. ASSUME f \in Cancellations PROVE ~flows[f].past
  <2> DEFINE pivot == IF placed.method = "card" THEN "refund" ELSE "commit"
  <2>1. CancellationOK(flows[f], DoneBy[f], pivot) /\ pivot \in {"refund", "commit"}
    BY <1>3, SlipOf
  <2> HIDE DEF pivot
  <2>2. /\ flows[f].todo \in CancellationTodos(pivot)
        /\ flows[f].past <=> pivot \notin Elements(flows[f].todo)
        /\ flows[f].past \in BOOLEAN
    BY <1>1, <2>1 DEF CancellationOK, Unstarted, Flow
  <2>3. pivot = "refund" /\ pivot \in Elements(flows[f].todo)
    BY <1>1, <2>1, <2>2, CancellationNext
  <2> QED BY <2>2, <2>3
<1> QED BY <1>2, <1>3

(* A step recorded on neither store that takes place.                        *)
LEMMA OtherStepKeeps ==
  ASSUME FlowsInv, P!StoreInv', NEW f \in Flows, NEW s \in {"restore", "refund"}, Asked(f, s), Hears(f),
         Adds(DoneBy, DoneBy', f, s), UNCHANGED <<store, ship, hold, collected, wire, placed>>,
         RestTyped', MoneyOK'
  PROVE  FlowsInv'
<1>1. UNCHANGED <<groups, orders, claimed, closing, outbox, shipments, signals>>
  BY DEF store, ship, wire
<1>2. s \notin Worded /\ s \notin OrderWords /\ s \notin ParcelWords /\ s # "close_cancelled"
  BY DEF Worded, OrderWords, ParcelWords
<1>3. flows' \in [Flows -> Flow] /\ SlipsOK' /\ CourierOK' /\ StrandedOK' /\ ClosingOK' /\ HoldOK'
  BY <1>1, <1>2, TakesKeeps
<1>4. /\ \A h \in Flows, x \in OrderWords : x \in DoneBy'[h] <=> x \in DoneBy[h]
      /\ \A h \in Flows, x \in ParcelWords : x \in DoneBy'[h] <=> x \in DoneBy[h]
  BY <1>2 DEF Adds
<1>5. Ship!TypeOK' /\ ParcelOK' /\ ReportsOK' /\ OrderOK'
  BY <1>1, <1>4, ShipLeftAlone, OrderLeftAlone
<1> QED BY <1>3, <1>5, Assembled

LEMMA RestoreKeeps ==
  ASSUME FlowsInv, P!StoreInv', UNCHANGED placed, NEW f \in Flows, Restore(f)
  PROVE  FlowsInv'
<1>1. /\ Asked(f, "restore") /\ Hears(f) /\ restored' = restored \cup {f}
      /\ UNCHANGED <<store, ship, hold, refundedBy, declined, collected, wire>>
      /\ UNCHANGED <<claimed, shipClaimed, edge, signals>>
  BY DEF Restore, money, wire, store, ship
<1>2. Adds(DoneBy, DoneBy', f, "restore")
  BY <1>1, TookOther
<1>3. RestTyped'
  BY <1>1, RestIsTyped DEF RestTyped
<1>4. f \in Cancellations \cup Deliveries
  BY <1>1, AskedStep DEF Flows
<1>5. MoneyOK'
  BY <1>1, <1>4 DEF FlowsInv, MoneyOK
<1> QED BY <1>1, <1>2, <1>3, <1>5, OtherStepKeeps

LEMMA RefundKeeps ==
  ASSUME FlowsInv, P!StoreInv', UNCHANGED placed, NEW f \in Flows, Refund(f)
  PROVE  FlowsInv'
<1>1. /\ Asked(f, "refund")
      /\ UNCHANGED <<store, ship, stock, hold, restored, collected, wire>>
      /\ UNCHANGED <<claimed, shipClaimed, closing, shipments, edge, signals>>
  BY DEF Refund, stock, wire, store, ship
<1>2. /\ f \in Cancellations => ~flows[f].past
      /\ f \notin Cancellations => f \in Deliveries
  BY <1>1, RefundFacts
<1>3. "refund" \in DoneBy[f] <=> refundedBy = f
  BY DoneMeans
<1>4. /\ refundedBy \notin declined /\ None \notin declined /\ f # None
      /\ declined \in SUBSET Flows /\ refundedBy \in Flows \cup {None}
  BY RestIsTyped, ConstantsMakeSense DEF FlowsInv, MoneyOK, RestTyped
<1>9. f \in Closers => Excused(f)
  BY <1>1, <1>2, AskedStep, WhoIsWho DEF Excused
<1>5. CASE /\ refundedBy = None /\ f \notin declined
           /\ refundedBy' = f /\ UNCHANGED declined /\ Hears(f)
  <2>1. Adds(DoneBy, DoneBy', f, "refund")
    BY <1>1, <1>5, TookOther
  <2>2. RestTyped'
    BY <1>1, <1>5, RestIsTyped DEF RestTyped
  <2>3. MoneyOK'
    BY <1>1, <1>2, <1>5 DEF FlowsInv, MoneyOK
  <2> QED BY <1>1, <1>5, <2>1, <2>2, <2>3, OtherStepKeeps
<1>6. CASE /\ refundedBy = None /\ f \notin declined
           /\ declined' = declined \cup {f} /\ UNCHANGED refundedBy
           /\ Refused(f) \/ UNCHANGED flows
  <2>1. refundedBy # f /\ refundedBy \notin declined'
    BY <1>4, <1>6
  <2>2. CASE Refused(f)
    BY <1>1, <1>2, <1>9, <1>3, <1>6, <2>1, <2>2, WhoIsWho, SilentRefused
  <2>3. CASE UNCHANGED flows
    <3>1. RestTyped'
      BY <1>1, <1>6, RestIsTyped DEF RestTyped
    <3> QED BY <1>1, <1>6, <2>1, <2>3, <3>1, NothingTurns
  <2> QED BY <1>6, <2>2, <2>3
<1>7. CASE refundedBy = f /\ UNCHANGED <<refundedBy, declined>> /\ Answered(f)
  <2>1. UNCHANGED money
    BY <1>1, <1>7 DEF money
  <2> QED BY <1>1, <1>3, <1>7, <2>1, SilentAnswered
<1>8. CASE /\ refundedBy \notin {None, f} \/ f \in declined
           /\ UNCHANGED <<refundedBy, declined>> /\ Refused(f)
  <2>1. refundedBy # f /\ refundedBy \notin declined'
    BY <1>4, <1>8
  <2> QED BY <1>1, <1>2, <1>3, <1>8, <1>9, <2>1, WhoIsWho, SilentRefused
<1> QED BY <1>5, <1>6, <1>7, <1>8 DEF Refund

-----------------------------------------------------------------------------
(* Undoing *)

LEMMA UndoesMeans ==
  ASSUME FlowsInv, NEW f \in Flows, NEW s \in {"unclaim", "release"}, Undoes(f, s)
  PROVE  /\ f \in Cancellations /\ f \notin Closers /\ f \notin Deliveries
         /\ flows[f].mode \in {"undoing", "uncompensated"} /\ Head(flows[f].undo) = s
         /\ s = "unclaim" => "claim" \in DoneBy[f]
         /\ s = "release" => "hold" \in DoneBy[f]
         /\ DoneBy[f] \cap {"close_cancelled", "withdraw"} = {}
         /\ SlipAt(f, flows[f], DoneBy[f] \cup {s}, placed)
         /\ flows[f].mode = "undoing" =>
              SlipAt(f, Back(flows[f]), DoneBy[f] \cup {s}, placed)
<1>1. /\ flows[f].mode \in {"undoing", "uncompensated"}
      /\ flows[f].undo # <<>> /\ Head(flows[f].undo) = s
  BY DEF Undoes
<1>2. f \in Cancellations
  <2>1. f # Checkout
    BY <1>1, SlipOf DEF CheckoutOK
  <2>2. f \notin Deliveries
    BY <1>1, SlipOf DEF DeliveryOK, Unstarted
  <2> QED BY <2>1, <2>2 DEF Flows
<1> DEFINE pivot == IF placed.method = "card" THEN "refund" ELSE "commit"
<1>3. CancellationOK(flows[f], DoneBy[f], pivot) /\ pivot \in {"refund", "commit"}
  BY <1>2, SlipOf
<1> HIDE DEF pivot
<1>4. /\ ~flows[f].past
      /\ s = "unclaim" => "claim" \in DoneBy[f]
      /\ s = "release" => "hold" \in DoneBy[f]
      /\ CancellationOK(flows[f], DoneBy[f] \cup {s}, pivot)
  BY <1>1, <1>3, CancellationUndoes
<1>5. flows[f].mode = "undoing" => CancellationOK(Back(flows[f]), DoneBy[f] \cup {s}, pivot)
  BY <1>1, <1>3, <1>4, CancellationUndid
<1>6. "close_cancelled" \notin DoneBy[f]
  BY <1>3, <1>4, CancellationPast
<1>7. "withdraw" \notin DoneBy[f]
  <2>1. /\ "withdraw" \in DoneBy[f] => Elements(flows[f].todo) \subseteq {"withdraw", "close_cancelled"}
        /\ flows[f].past <=> pivot \notin Elements(flows[f].todo)
    BY <1>1, <1>3 DEF CancellationOK, Unstarted
  <2> QED BY <1>3, <1>4, <2>1
<1>8. /\ SlipAt(f, flows[f], DoneBy[f] \cup {s}, placed)
      /\ flows[f].mode = "undoing" =>
           SlipAt(f, Back(flows[f]), DoneBy[f] \cup {s}, placed)
  BY <1>2, <1>4, <1>5, WhoIsWho DEF SlipAt, pivot
<1> QED BY <1>1, <1>2, <1>4, <1>6, <1>7, <1>8, WhoIsWho

(* What turned back does not close.                                          *)
LEMMA TurnedFacts ==
  ASSUME FlowsInv, NEW f \in Cancellations, flows[f].mode \in Turned
  PROVE  ~Asked(f, "close_cancelled")
<1> SUFFICES ASSUME Asked(f, "close_cancelled")
             PROVE  FALSE
  OBVIOUS
<1>0. f \in Flows
  BY WhoIsWho
<1>1. /\ flows[f].mode # "unstarted" /\ flows[f].todo # <<>>
      /\ Head(flows[f].todo) = "close_cancelled"
  BY <1>0, AskedStep
<1> DEFINE pivot == IF placed.method = "card" THEN "refund" ELSE "commit"
<1>2. CancellationOK(flows[f], DoneBy[f], pivot) /\ pivot \in {"refund", "commit"}
  BY <1>0, SlipOf
<1> HIDE DEF pivot
<1>3. /\ flows[f].todo \in CancellationTodos(pivot)
      /\ flows[f].mode \in Turned => ~flows[f].past
      /\ flows[f].past <=> pivot \notin Elements(flows[f].todo)
  BY <1>1, <1>2 DEF CancellationOK, Unstarted
<1>4. Elements(flows[f].todo) = {"close_cancelled"}
  BY <1>1, <1>2, <1>3, CancellationNext
<1> QED BY <1>2, <1>3, <1>4

LEMMA UndoKeeps ==
  ASSUME FlowsInv, NEW f \in Flows, NEW s \in {"unclaim", "release"}, Undoes(f, s),
         Undid(f) \/ UNCHANGED flows, Adds(DoneBy, DoneBy', f, s),
         UNCHANGED <<placed, hold, signals, collected, closing>>,
         shipments[O].status \in {"delivered", "returned"} =>
           shipments'[O].status = shipments[O].status
  PROVE  flows' \in [Flows -> Flow] /\ SlipsOK' /\ CourierOK' /\ StrandedOK' /\ ClosingOK' /\ HoldOK'
<1>1. /\ f \in Cancellations /\ f \notin Closers /\ f \notin Deliveries
      /\ flows[f].mode \in {"undoing", "uncompensated"}
      /\ SlipAt(f, flows[f], DoneBy[f] \cup {s}, placed)
      /\ flows[f].mode = "undoing" =>
           SlipAt(f, Back(flows[f]), DoneBy[f] \cup {s}, placed)
  BY UndoesMeans
<1>0. UNCHANGED flows \/ (Undid(f) /\ flows[f].mode = "undoing")
  <2>1. CASE flows[f].mode = "undoing"
    BY <2>1
  <2>2. CASE flows[f].mode # "undoing"
    BY <2>2, Zenon DEF Undid
  <2> QED BY <2>1, <2>2
<1>2. /\ Moves(f)
      /\ \/ flows'[f] = flows[f]
         \/ flows[f].mode = "undoing" /\ flows'[f] = Back(flows[f])
      /\ \A h \in Flows : h # f => flows'[h] = flows[h]
  <2>1. CASE UNCHANGED flows
    BY <2>1, RestIsTyped DEF Moves
  <2>2. CASE Undid(f) /\ flows[f].mode = "undoing"
    <3>1. flows' = [flows EXCEPT ![f] = Back(flows[f])]
      BY <2>2, RestIsTyped DEF Undid, Back
    <3> QED BY <2>2, <3>1, TurnsOnly
  <2> QED BY <1>0, <2>1, <2>2
<1>3. DoneBy'[f] = DoneBy[f] \cup {s} /\ \A h \in Flows : h # f => DoneBy'[h] = DoneBy[h]
  <2>1. \A h \in Flows : h # f => \A x : x \in DoneBy'[h] <=> x \in DoneBy[h]
    BY DEF Adds
  <2>2. \A x : x \in DoneBy'[f] <=> x \in DoneBy[f] \/ x = s
    BY DEF Adds
  <2>3. ASSUME NEW h \in Flows, h # f PROVE DoneBy'[h] = DoneBy[h]
    BY <2>1, <2>3
  <2>4. DoneBy'[f] = DoneBy[f] \cup {s}
    BY <2>2
  <2> QED BY <2>3, <2>4
<1>4. SlipAt(f, flows'[f], DoneBy'[f], placed)
  BY <1>1, <1>2, <1>3
<1>5. SlipsOK' /\ flows' \in [Flows -> Flow]
  BY <1>2, <1>3, <1>4, SlipsTurn
<1>6. CourierOK'
  <2>1. \A h \in Deliveries : DoneBy'[h] = DoneBy[h]
    BY <1>1, <1>3, WhoIsWho
  <2>2. collected' => shipments'[O].status = "delivered"
    BY CashIsDelivered
  <2> QED BY <1>1, <1>2, <2>1, <2>2, CourierTurns
<1>8. flows'[f].mode \in Turned /\ flows'[f].todo = flows[f].todo
  <2>1. flows[f] \in Flow
    BY SlipOf
  <2>2. Back(flows[f]).mode \in {"undone", "undoing"} /\ Back(flows[f]).todo = flows[f].todo
    BY <2>1 DEF Back, Flow
  <2> QED BY <1>1, <1>2, <2>2 DEF Turned
<1>7. StrandedOK'
  <2>1. Bypasses(DoneBy) => Bypasses(DoneBy')
    <3>1. s # "hold"
      OBVIOUS
    <3> QED BY <3>1, BypassStands
  <2>2. \A h \in Flows : "claim" \in DoneBy[h] => "claim" \in DoneBy'[h]
    BY <1>3
  <2>3. StaysTurned(f)
    BY <1>8 DEF StaysTurned
  <2> QED BY <1>1, <1>2, <2>1, <2>2, <2>3, ExcusesStand
<1>9. ClosingOK'
  <2>1. \A k \in closing : k.command[1] # f
    <3>1. ~Asked(f, "close_cancelled")
      BY <1>1, TurnedFacts DEF Turned
    <3> QED BY <3>1, NotClosing
  <2> QED BY <1>2, <1>3, <2>1, ClosingStays
<1>10. HoldOK'
  BY <1>1, <1>2, WhoIsWho, HoldTurns
<1> QED BY <1>5, <1>6, <1>7, <1>9, <1>10

LEMMA UnclaimKeeps ==
  ASSUME FlowsInv, P!StoreInv', UNCHANGED placed, NEW f \in Flows, Unclaim(f)
  PROVE  FlowsInv'
<1>1. /\ Undoes(f, "unclaim") /\ edge' = edge \cup {f} /\ (Undid(f) \/ UNCHANGED flows)
      /\ UNCHANGED <<ship, stock, money, signals>>
      /\ UNCHANGED <<shipments, shipClaimed, reports, hold, restored, refundedBy, declined, collected>>
  BY DEF Unclaim, ship, stock, money
<1>2. /\ f \in Cancellations /\ "claim" \in DoneBy[f] /\ "close_cancelled" \notin DoneBy[f]
  BY <1>1, UndoesMeans
<1>3. UNCHANGED <<claimed, closing>>
  BY DEF Unclaim, Store!ReleaseCancellation, store
<1>4. Adds(DoneBy, DoneBy', f, "unclaim")
  BY <1>1, <1>3, TookOther
<1>5. "unclaim" \in DoneBy[f] <=> f \in edge
  BY DoneMeans
<1>6. OrderOK'
  <2>1. CASE f \notin edge
    <3>1. Holds(DoneBy, f) /\ orders[O].status = "cancelling"
      BY <1>2, <1>5, <2>1, OrderStatus DEF Holds, OrderAt
    <3>2. Store!ReleaseCancellation(O)
      BY <2>1, <3>1 DEF Unclaim
    <3>3. orders'[O].status = orders[O].claimedFrom
      BY <3>2, TheOrder DEF Store!ReleaseCancellation, P!Order
    <3>4. OrderAt("cancelling", orders[O].claimedFrom, DoneBy)
      BY <3>1, OrderStatus
    <3> QED BY <1>2, <1>4, <3>1, <3>3, <3>4, OrderUnclaimed DEF OrderOK
  <2>2. CASE f \in edge
    <3>1. UNCHANGED orders
      BY <2>2 DEF Unclaim, store
    <3>2. \A h \in Flows, x \in OrderWords : x \in DoneBy'[h] <=> x \in DoneBy[h]
      BY <1>4, <1>5, <2>2 DEF Adds
    <3> QED BY <3>1, <3>2, OrderLeftAlone
  <2> QED BY <2>1, <2>2
<1>7. flows' \in [Flows -> Flow] /\ SlipsOK' /\ CourierOK' /\ StrandedOK' /\ ClosingOK' /\ HoldOK'
  BY <1>1, <1>3, <1>4, UndoKeeps
<1>8. Ship!TypeOK' /\ ParcelOK' /\ ReportsOK'
  <2>1. \A h \in Flows, x \in ParcelWords : x \in DoneBy'[h] <=> x \in DoneBy[h]
    BY <1>4 DEF Adds, ParcelWords
  <2> QED BY <1>1, <2>1, ShipLeftAlone
<1>9. RestTyped'
  BY <1>1, RestIsTyped DEF RestTyped
<1>10. MoneyOK'
  BY <1>1, <1>2 DEF FlowsInv, MoneyOK
<1> QED BY <1>6, <1>7, <1>8, <1>9, <1>10, Assembled

LEMMA ReleaseKeeps ==
  ASSUME FlowsInv, P!StoreInv', UNCHANGED placed, NEW f \in Flows, Release(f)
  PROVE  FlowsInv'
<1>1. /\ Undoes(f, "release") /\ UNCHANGED <<store, stock, money, wire>>
      /\ UNCHANGED <<groups, orders, claimed, closing, outbox>>
  BY DEF Release, store
<1>2. /\ RestTyped' /\ MoneyOK'
      /\ UNCHANGED <<hold, restored, refundedBy, declined, edge, collected, signals>>
  BY <1>1, RestLeftAlone DEF stock
<1>3. f \in Cancellations /\ "hold" \in DoneBy[f] /\ "withdraw" \notin DoneBy[f]
  BY <1>1, UndoesMeans
<1>4. "release" \in DoneBy[f] <=> <<f, "release">> \in shipClaimed
  BY DoneMeans DEF ShipSteps
<1>5. <<f, "release">> \notin shipClaimed =>
        HoldsParcel(DoneBy, f) /\ shipments[O].status = "held"
  BY <1>3, <1>4, OrderStatus DEF HoldsParcel, ParcelAt
<1>6. ASSUME Adds(DoneBy, DoneBy', f, "release"), Undid(f) \/ UNCHANGED flows,
             Ship!TypeOK', ParcelOK', ReportsOK',
             shipments[O].status \in {"delivered", "returned"} =>
               shipments'[O].status = shipments[O].status
      PROVE  FlowsInv'
  <2>1. flows' \in [Flows -> Flow] /\ SlipsOK' /\ CourierOK' /\ StrandedOK' /\ ClosingOK' /\ HoldOK'
    BY <1>1, <1>2, <1>6, UndoKeeps
  <2>2. \A h \in Flows, x \in OrderWords : x \in DoneBy'[h] <=> x \in DoneBy[h]
    BY <1>6 DEF Adds, OrderWords
  <2>3. OrderOK'
    BY <1>1, <2>2, OrderLeftAlone
  <2> QED BY <1>2, <1>6, <2>1, <2>3, Assembled
<1>7. CASE Ship!FlowMove(O, "release", <<f, "release">>) /\ (Undid(f) \/ UNCHANGED flows)
  <2>1. /\ "release" \in ShipSteps /\ <<f, "release">> \in Commands
        /\ "release" \in Ship!FlowMoves \cup Ship!CourierReports
    BY DEF ShipSteps, Commands, Steps, Ship!FlowMoves
  <2>2. /\ <<f, "release">> \notin shipClaimed /\ Ship!Transition(O, "release")
        /\ shipClaimed' = shipClaimed \cup {<<f, "release">>}
    BY <1>7 DEF Ship!FlowMove
  <2>3. /\ ReportsOK' /\ shipments'[O].status = "awaiting_dispatch"
        /\ shipments'[O].status # None /\ shipments'[O] # Ship!Unopened
        /\ shipClaimed' \in SUBSET Commands => Ship!TypeOK'
    BY <2>1, <2>2, ParcelMoved
  <2>4. Adds(DoneBy, DoneBy', f, "release")
    BY <1>1, <1>2, <2>1, <2>2, TookShipStep
  <2>5. ParcelAt("awaiting_dispatch", DoneBy')
    BY <1>3, <1>5, <2>2, <2>4, OrderStatus, ParcelMoves
  <2>6. ParcelOK'
    BY <2>3, <2>5 DEF ParcelOK
  <2>7. Ship!TypeOK'
    BY <2>1, <2>2, <2>3, TheParcel
  <2> QED BY <1>5, <1>6, <1>7, <2>2, <2>3, <2>4, <2>6, <2>7
<1>8. CASE <<f, "release">> \in shipClaimed /\ UNCHANGED ship /\ Undid(f)
  <2>1. UNCHANGED <<shipments, shipClaimed, reports>>
    BY <1>8 DEF ship
  <2>2. DoneBy' = DoneBy
    BY <1>1, <1>2, <2>1, TookNothing
  <2>3. Adds(DoneBy, DoneBy', f, "release")
    BY <1>4, <1>8, <2>2 DEF Adds
  <2>4. Ship!TypeOK' /\ ParcelOK' /\ ReportsOK'
    BY <1>8, <2>2, ShipLeftAlone
  <2> QED BY <1>6, <1>8, <2>1, <2>3, <2>4
<1> QED BY <1>5, <1>7, <1>8, ParcelTable DEF Release

-----------------------------------------------------------------------------
(* Starting a flow, and giving up *)

LEMMA StartKeeps ==
  ASSUME FlowsInv, P!StoreInv', UNCHANGED placed, NEW f \in Flows, NEW slip, Starts(f, slip),
         flows[f] = Unstarted => SlipAt(f, Begun(slip), {}, placed),
         f # Checkout,
         f \in Deliveries =>
           /\ Elements(slip) \cap {"close_fulfilled", "await_delivery"} = {"await_delivery"}
  PROVE  FlowsInv'
<1>1. /\ flows[f].mode = "unstarted"
      /\ flows' = [flows EXCEPT ![f].mode = "running", ![f].todo = slip]
      /\ UNCHANGED <<store, ship, stock, money, wire>>
  BY DEF Starts
<1>2. flows[f] = Unstarted /\ DoneBy[f] = {}
  <2>1. f \in Cancellations \/ f \in Deliveries
    BY DEF Flows
  <2>2. f \in Cancellations => flows[f] = Unstarted /\ DoneBy[f] = {}
    BY <1>1, SlipOf DEF CancellationOK
  <2>3. f \in Deliveries => flows[f] = Unstarted /\ DoneBy[f] = {}
    BY <1>1, SlipOf DEF DeliveryOK
  <2> QED BY <2>1, <2>2, <2>3
<1>3. Moves(f) /\ flows'[f] = Begun(slip)
  <2>1. flows' = [flows EXCEPT ![f] = Begun(slip)]
    <3> DEFINE r == [flows[f] EXCEPT !.mode = "running", !.todo = slip]
    <3>1. r = Begun(slip)
      <4> DEFINE Started == [mode : {"running"}, todo : {slip}, undo : {<<>>}, past : {FALSE}]
      <4>1. flows[f] \in [mode : {"unstarted"}, todo : {<<>>}, undo : {<<>>}, past : {FALSE}]
        BY <1>2 DEF Unstarted
      <4>2. r \in Started
        BY <4>1
      <4>3. Begun(slip) \in Started
        BY DEF Begun
      <4> QED BY <4>2, <4>3
    <3>2. flows' = [flows EXCEPT ![f] = r]
      BY <1>1, RestIsTyped
    <3> QED BY <3>1, <3>2
  <2> QED BY <2>1, TurnsOnly
<1>4. /\ UNCHANGED <<shipments, restored, refundedBy, declined, edge, collected, signals>>
      /\ RestTyped'
  BY <1>1, RestLeftAlone DEF ship
<1>5. DoneBy' = DoneBy
  <2>1. UNCHANGED <<claimed, shipClaimed>>
    BY <1>1 DEF store, ship
  <2> QED BY <1>4, <2>1, TookNothing
<1>6. CourierOK'
  <2>1. f \in Deliveries =>
          CourierAt(Elements(flows'[f].todo), DoneBy[f], placed.method = "card",
                    shipments'[O].status, collected')
    BY <1>2, <1>3 DEF CourierAt, Begun
  <2> QED BY <1>3, <1>4, <1>5, <2>1, CashIsDelivered, CourierTurns
<1>7. SlipAt(f, flows'[f], DoneBy[f], placed) /\ flows'[f].mode # "stranded"
  BY <1>2, <1>3 DEF Begun
<1>8. refundedBy \notin declined'
  BY <1>4 DEF FlowsInv, MoneyOK
<1>9. \A k \in closing : k.command[1] # f
  <2>1. ~Asked(f, "close_cancelled")
    BY <1>1 DEF Asked, At, LeftAsked
  <2> QED BY <2>1, NotClosing
<1>10. HoldOK' /\ StaysTurned(f)
  <2>1. UNCHANGED hold
    BY <1>1 DEF stock
  <2> QED BY <1>1, <1>3, <2>1, HoldTurns DEF StaysTurned, Turned
<1> QED BY <1>1, <1>3, <1>4, <1>6, <1>7, <1>8, <1>9, <1>10, Silent

LEMMA StartCancellationKeeps ==
  ASSUME FlowsInv, P!StoreInv', UNCHANGED placed, NEW f \in Cancellations, StartCancellation(f)
  PROVE  FlowsInv'
<1>1. PICK entitled \in BOOLEAN :
        Starts(f, CancellationSlip(placed.channel # "counter" /\ entitled))
  BY DEF StartCancellation
<1> DEFINE shipped == placed.channel # "counter" /\ entitled
           pivot == IF placed.method = "card" THEN "refund" ELSE "commit"
           slip == CancellationSlip(shipped)
<1>2. /\ f \in Flows /\ f # Checkout /\ f \notin Deliveries /\ f \in Cancellations
      /\ shipped \in BOOLEAN /\ pivot \in {"refund", "commit"} /\ Pivot = pivot
      /\ Starts(f, slip)
  BY <1>1, WhoIsWho DEF Pivot, Card
<1> HIDE DEF shipped
<1>3. slip = IF shipped
             THEN <<"hold", "claim", pivot, "restore", "withdraw", "close_cancelled">>
             ELSE <<"claim", pivot, "restore", "close_cancelled">>
  BY <1>2 DEF CancellationSlip
<1> HIDE DEF slip, pivot
<1>4. CancellationOK(Begun(slip), {}, pivot)
  BY <1>2, <1>3, CancellationStarts
<1>5. SlipAt(f, Begun(slip), {}, placed)
  BY <1>2, <1>4 DEF SlipAt, pivot
<1> QED BY <1>2, <1>5, StartKeeps

LEMMA StartDeliveryKeeps ==
  ASSUME FlowsInv, P!StoreInv', UNCHANGED placed, NEW f \in Deliveries, StartDelivery(f)
  PROVE  FlowsInv'
<1>1. Starts(f, DeliverySlip)
  BY DEF StartDelivery
<1>2. f \in Flows /\ f # Checkout /\ f \notin Cancellations /\ f \in Deliveries
  BY WhoIsWho
<1>3. SlipAt(f, Begun(DeliverySlip), {}, placed)
  BY <1>2, DeliveryStarts DEF SlipAt
<1>4. Elements(DeliverySlip) = {"dispatch", "mark", "await_delivery"}
  BY DEF Elements, DeliverySlip
<1> QED BY <1>1, <1>2, <1>3, <1>4, StartKeeps

LEMMA GivesUpKeeps ==
  ASSUME FlowsInv, P!StoreInv', UNCHANGED placed, NEW f \in Flows, GivesUp(f)
  PROVE  FlowsInv'
<1> DEFINE s == Head(flows[f].todo)
<1>1. /\ flows[f].mode = "running" /\ ~flows[f].past /\ Turns(f)
      /\ At(f, "refund") => refundedBy # f
      /\ UNCHANGED <<store, ship, stock, money, wire>>
  BY DEF GivesUp
<1>2. f \in Cancellations =>
        flows[f].todo # <<>> /\ s \in {"hold", "claim", "refund", "commit"}
  <2> SUFFICES ASSUME f \in Cancellations
               PROVE  flows[f].todo # <<>> /\ s \in {"hold", "claim", "refund", "commit"}
    OBVIOUS
  <2> DEFINE pivot == IF placed.method = "card" THEN "refund" ELSE "commit"
  <2>1. CancellationOK(flows[f], DoneBy[f], pivot) /\ pivot \in {"refund", "commit"}
    BY SlipOf
  <2> HIDE DEF pivot
  <2>2. /\ flows[f].todo \in CancellationTodos(pivot) /\ flows[f].todo # <<>>
        /\ pivot \in Elements(flows[f].todo)
    BY <1>1, <2>1 DEF CancellationOK, Unstarted
  <2>3. s \in {"hold", "claim", pivot}
    BY <2>1, <2>2, CancellationNext
  <2> QED BY <2>1, <2>2, <2>3
<1>3. f \in Deliveries => flows[f].todo # <<>> /\ s = "dispatch"
  <2> SUFFICES ASSUME f \in Deliveries PROVE flows[f].todo # <<>> /\ s = "dispatch"
    OBVIOUS
  <2> DEFINE card == placed.method = "card"
  <2>1. DeliveryOK(flows[f], DoneBy[f], card) /\ card \in BOOLEAN
    BY SlipOf
  <2> HIDE DEF card
  <2>2. /\ flows[f].todo \in DeliveryTodos(card) /\ flows[f].todo # <<>>
        /\ "dispatch" \in Elements(flows[f].todo)
    BY <1>1, <2>1 DEF DeliveryOK, Unstarted
  <2> QED BY <2>1, <2>2, DeliveryNext
<1>4. f # Checkout
  BY <1>1, SlipOf DEF CheckoutOK
<1>5. flows[f].todo # <<>> /\ s \in {"hold", "claim", "refund", "commit", "dispatch"}
  BY <1>2, <1>3, <1>4 DEF Flows
<1>6. At(f, s)
  BY <1>1, <1>5 DEF At
<1>7. s # "refund" \/ "refund" \notin DoneBy[f]
  BY <1>1, <1>6, DoneMeans
<1>8. /\ UNCHANGED <<declined, refundedBy, collected>> /\ refundedBy \notin declined
      /\ UNCHANGED <<store, ship, stock, placed, wire>>
  BY <1>1 DEF money, FlowsInv, MoneyOK
<1>9. s # "close_cancelled"
  BY <1>5
<1> HIDE DEF s
<1> QED BY <1>1, <1>6, <1>7, <1>8, <1>9, SilentTurns

(* A flow left for a person keeps what it has to do, or to undo.             *)
LEMMA SuspendsKeeps ==
  ASSUME FlowsInv, P!StoreInv', UNCHANGED placed, NEW f \in Flows, Suspends(f)
  PROVE  FlowsInv'
<1> DEFINE r == flows[f]
<1>1. /\ UNCHANGED <<store, ship, stock, money, wire>> /\ RestTyped'
      /\ UNCHANGED <<hold, restored, refundedBy, declined, edge, collected, signals>>
  BY RestLeftAlone DEF Suspends, stock
<1>2. UNCHANGED <<claimed, closing, shipments, shipClaimed>> /\ DoneBy' = DoneBy
  <2>1. UNCHANGED <<claimed, closing, shipments, shipClaimed>>
    BY <1>1 DEF store, ship
  <2> QED BY <1>1, <2>1, TookNothing
<1>3. SlipAt(f, r, DoneBy[f], placed) /\ r \in Flow /\ placed \in Placement
  BY SlipOf
<1>4. ASSUME Moves(f), flows'[f].todo = r.todo, StaysTurned(f), flows'[f].mode # "stranded",
             SlipAt(f, flows'[f], DoneBy[f], placed),
             Asked(f, "close_cancelled") =>
               Asked(f, "close_cancelled")' \/ \A k \in closing : k.command[1] # f
      PROVE  FlowsInv'
  <2>1. CourierOK'
    <3>1. collected' => shipments'[O].status = "delivered"
      BY <1>1, <1>2, CashIsDelivered
    <3>2. f \in Deliveries =>
            CourierAt(Elements(flows'[f].todo), DoneBy[f], placed.method = "card",
                      shipments'[O].status, collected')
      BY <1>1, <1>2, <1>4 DEF FlowsInv, CourierOK
    <3> QED BY <1>1, <1>2, <1>4, <3>1, <3>2, CourierTurns
  <2>2. HoldOK'
    BY <1>1, <1>4, HoldTurns
  <2>3. refundedBy \notin declined'
    BY <1>1 DEF FlowsInv, MoneyOK
  <2> QED BY <1>1, <1>4, <2>1, <2>2, <2>3, Silent
<1>5. CASE r.mode = "running" /\ flows' = [flows EXCEPT ![f].mode = "suspended"]
  <2>1. flows' = [flows EXCEPT ![f] = Suspended(r)]
    BY <1>5, RestIsTyped DEF Suspended
  <2>2. Moves(f) /\ flows'[f] = Suspended(r)
    BY <2>1, TurnsOnly
  <2>3. r.todo # <<>>
    BY <1>3, <1>5 DEF SlipAt, CancellationOK, DeliveryOK, CheckoutOK, Unstarted, Flows
  <2>4. SlipAt(f, Suspended(r), DoneBy[f], placed)
    BY <1>3, <1>5, <2>3, SlipSuspended
  <2>5. Suspended(r).todo = r.todo /\ Suspended(r).mode = "suspended"
    BY <1>3 DEF Suspended, Flow
  <2>6. Asked(f, "close_cancelled") => Asked(f, "close_cancelled")'
    BY <2>2, <2>5 DEF Asked, At, LeftAsked
  <2>7. StaysTurned(f)
    BY <1>5 DEF StaysTurned, Turned
  <2> QED BY <1>4, <2>2, <2>4, <2>5, <2>6, <2>7
<1>6. CASE r.mode = "undoing" /\ flows' = [flows EXCEPT ![f].mode = "uncompensated"]
  <2>1. flows' = [flows EXCEPT ![f] = Abandoned(r)]
    BY <1>6, RestIsTyped DEF Abandoned
  <2>2. Moves(f) /\ flows'[f] = Abandoned(r)
    BY <2>1, TurnsOnly
  <2>3. f \in Cancellations /\ f # Checkout /\ f \notin Deliveries
    BY <1>3, <1>6, WhoIsWho DEF SlipAt, CheckoutOK, DeliveryOK, Unstarted, Flows
  <2>4. SlipAt(f, Abandoned(r), DoneBy[f], placed)
    <3> DEFINE pivot == IF placed.method = "card" THEN "refund" ELSE "commit"
    <3>1. CancellationOK(r, DoneBy[f], pivot) /\ pivot \in {"refund", "commit"}
      BY <2>3, SlipOf
    <3> HIDE DEF pivot
    <3>2. CancellationOK(Abandoned(r), DoneBy[f], pivot)
      BY <1>6, <3>1, CancellationAbandoned
    <3> QED BY <2>3, <3>2 DEF SlipAt, pivot
  <2>5. Abandoned(r).todo = r.todo /\ Abandoned(r).mode = "uncompensated"
    BY <1>3 DEF Abandoned, Flow
  <2>6. ~Asked(f, "close_cancelled")
    BY <1>6, <2>3, TurnedFacts DEF Turned
  <2>7. StaysTurned(f)
    BY <2>2, <2>5 DEF StaysTurned, Turned
  <2> QED BY <1>4, <2>2, <2>4, <2>5, <2>6, <2>7
<1> QED BY <1>5, <1>6 DEF Suspends

-----------------------------------------------------------------------------
(* The courier *)

LEMMA ParcelNews ==
  ASSUME NEW D, NEW parcel \in Gone, NEW now \in Gone, ParcelAt(parcel, D)
  PROVE  ParcelAt(now, D)
<1>1. parcel \notin {"held", "withdrawn", None} /\ now \notin {"held", "withdrawn", None}
  BY DEF Gone, None
<1>2. \A c \in Cancellations : ~HoldsParcel(D, c)
  BY <1>1 DEF ParcelAt
<1> QED BY <1>1, <1>2 DEF ParcelAt

LEMMA RecordKeeps ==
  ASSUME FlowsInv, P!StoreInv', UNCHANGED placed, NEW move \in Ship!CourierReports, VendorRecords(move)
  PROVE  FlowsInv'
<1>1. /\ Ship!Transition(O, move) /\ UNCHANGED shipClaimed
      /\ signals' = [signals EXCEPT ![OutcomeOf[move]] = Attempts]
      /\ UNCHANGED <<store, flows, stock, money, edge>>
      /\ UNCHANGED <<groups, orders, claimed, closing, outbox>>
      /\ UNCHANGED <<hold, restored, refundedBy, declined, collected>>
  BY DEF VendorRecords, Ship!CourierReport, store, stock, money
<1>2. /\ move \in Ship!FlowMoves \cup Ship!CourierReports
      /\ move \in {"record_delivery", "record_refusal", "record_return"}
  BY DEF Ship!CourierReports
<1>3. /\ Ship!CanMove(O, move) /\ ReportsOK'
      /\ shipments'[O].status # None /\ shipments'[O] # Ship!Unopened
      /\ shipClaimed' \in SUBSET Commands => Ship!TypeOK'
      /\ move = "record_delivery" => shipments'[O].status = "delivered"
      /\ move = "record_refusal" => shipments'[O].status = "refused"
      /\ move = "record_return" => shipments'[O].status = "returned"
  BY <1>1, <1>2, ParcelMoved
<1>4. /\ shipments[O].status \in {"dispatched", "refused"} /\ shipments[O].status \in Gone
      /\ shipments'[O].status \in Gone
  BY <1>2, <1>3, ParcelTable DEF Gone
<1>5. DoneBy' = DoneBy
  BY <1>1, TookNothing
<1>6. ParcelOK'
  <2>1. ParcelAt(shipments'[O].status, DoneBy)
    BY <1>4, OrderStatus, ParcelNews
  <2> QED BY <1>3, <1>5, <2>1 DEF ParcelOK
<1>7. Ship!TypeOK'
  BY <1>1, <1>3, TheParcel
<1>8. /\ signals \in [Outcomes -> 0 .. Attempts] /\ signals' \in [Outcomes -> 0 .. Attempts]
      /\ move = "record_delivery" => signals'["returned"] = signals["returned"]
      /\ move = "record_refusal" => /\ signals'["returned"] = signals["returned"]
                                    /\ signals'["delivered"] = signals["delivered"]
      /\ move = "record_return" => signals'["delivered"] = signals["delivered"]
  <2>1. signals \in [Outcomes -> 0 .. Attempts] /\ Attempts \in 0 .. Attempts
    BY RestIsTyped, ConstantsMakeSense DEF RestTyped
  <2>2. /\ move = "record_delivery" => OutcomeOf[move] = "delivered"
        /\ move = "record_refusal" => OutcomeOf[move] = "refused"
        /\ move = "record_return" => OutcomeOf[move] = "returned"
    BY DEF OutcomeOf
  <2>3. {"delivered", "refused", "returned"} = Outcomes
    BY DEF Outcomes
  <2> QED BY <1>1, <1>2, <2>1, <2>2, <2>3
<1>9. CourierOK'
  <2>1. /\ signals["delivered"] > 0 => shipments[O].status = "delivered"
        /\ signals["returned"] > 0 => shipments[O].status = "returned"
        /\ collected => shipments[O].status = "delivered"
        /\ \A d \in Deliveries :
             CourierAt(Elements(flows[d].todo), DoneBy[d], placed.method = "card",
                       shipments[O].status, collected)
    BY DEF FlowsInv, CourierOK
  <2>2. /\ signals'["delivered"] > 0 => shipments'[O].status = "delivered"
        /\ signals'["returned"] > 0 => shipments'[O].status = "returned"
        /\ ~collected
    BY <1>2, <1>3, <1>4, <1>8, <2>1
  <2>3. ASSUME NEW d \in Deliveries
        PROVE  CourierAt(Elements(flows[d].todo), DoneBy[d], placed.method = "card",
                         shipments'[O].status, collected)
    BY <1>4, <2>1, CourierStays
  <2> QED BY <1>1, <1>5, <2>2, <2>3 DEF CourierOK
<1>10. flows' \in [Flows -> Flow] /\ SlipsOK' /\ StrandedOK' /\ ClosingOK' /\ HoldOK'
  BY <1>1, <1>5, RestIsTyped
  DEF FlowsInv, SlipsOK, StrandedOK, Excused, Lingers, ClosingOK, Asked, At, LeftAsked, HoldOK
<1>11. OrderOK' /\ MoneyOK'
  BY <1>1, <1>5, OrderLeftAlone, MoneyLeftAlone
<1>12. RestTyped'
  BY <1>1, <1>8, RestIsTyped DEF RestTyped
<1> QED BY <1>3, <1>6, <1>7, <1>9, <1>10, <1>11, <1>12, Assembled

(* A delivery is told, or takes it for told, how its parcel fared.           *)
LEMMA BranchKeeps ==
  ASSUME FlowsInv, P!StoreInv', NEW f \in Deliveries, At(f, "await_delivery"),
         NEW outcome \in {"delivered", "refused", "unanswered"}, Proceed(f, Branch(outcome)),
         outcome = "delivered" => shipments[O].status = "delivered",
         UNCHANGED <<store, ship, restored, refundedBy, declined, edge, collected, placed>>,
         RestTyped', hold' = "held" => hold = "held",
         \A o \in {"delivered", "returned"} : signals'[o] > 0 => signals[o] > 0
  PROVE  FlowsInv'
<1>1. /\ flows[f].mode = "running" /\ flows[f].todo # <<>> /\ Head(flows[f].todo) = "await_delivery"
      /\ f \in Flows /\ f # Checkout /\ f \notin Cancellations
  BY WhoIsWho DEF At
<1> DEFINE card == placed.method = "card"
           slip == Branch(outcome)
           r == flows[f]
           done == DoneBy[f]
           parcel == shipments[O].status
<1>2. /\ outcome = "delivered" =>
            slip = IF card THEN <<"close_fulfilled">> ELSE <<"collect", "close_fulfilled">>
      /\ outcome # "delivered" =>
            slip = IF card THEN <<"await_return", "restore", "close_cancelled", "refund">>
                           ELSE <<"await_return", "restore", "close_cancelled">>
  BY DEF Branch, Card
<1>3. DeliveryOK(r, done, card) /\ card \in BOOLEAN
  BY <1>1, SlipOf
<1>4. done \cap {"await_delivery", "collect", "await_return"} = {}
  BY <1>1, DoneMeans DEF Worded
<1>5. Moves(f) /\ flows'[f] = Onward(r, slip)
  <2>1. flows' = [flows EXCEPT ![f] = Onward(flows[f], Branch(outcome))]
    BY DEF Proceed, Onward
  <2> HIDE DEF slip
  <2> QED BY <1>1, <2>1, TurnsOnly DEF slip
<1>6. r.mode = "running" /\ r.todo # <<>> /\ Head(r.todo) = "await_delivery"
  BY <1>1
<1> HIDE DEF slip, card, r, done, parcel
<1>7. DeliveryOK(Onward(r, slip), done, card)
  <2>1. slip \in IF card THEN {<<"close_fulfilled">>,
                               <<"await_return", "restore", "close_cancelled", "refund">>}
                         ELSE {<<"collect", "close_fulfilled">>,
                               <<"await_return", "restore", "close_cancelled">>}
    BY <1>2
  <2> QED BY <1>3, <1>4, <1>6, <2>1, DeliveryBranches
<1>8. CourierAt(Elements(slip), done, card, parcel, collected)
  <2>1. \/ slip = (IF card THEN <<"close_fulfilled">> ELSE <<"collect", "close_fulfilled">>)
           /\ parcel = "delivered"
        \/ slip = IF card THEN <<"await_return", "restore", "close_cancelled", "refund">>
                          ELSE <<"await_return", "restore", "close_cancelled">>
    BY <1>2 DEF parcel
  <2> QED BY <1>3, <1>6, <2>1, CourierBranches
<1>9. Onward(r, slip).todo = slip /\ Onward(r, slip).mode # "stranded"
  BY OnwardFields
<1>10. UNCHANGED <<shipments, claimed, shipClaimed>> /\ DoneBy' = DoneBy
  <2>1. UNCHANGED <<shipments, claimed, shipClaimed>>
    BY DEF store, ship
  <2> QED BY <2>1, TookNothing
<1>11. CourierOK'
  <2>1. CourierAt(Elements(flows'[f].todo), DoneBy[f], placed.method = "card",
                  shipments'[O].status, collected')
    BY <1>5, <1>8, <1>9, <1>10 DEF done, card, parcel
  <2> QED BY <1>1, <1>5, <1>10, <2>1, CashIsDelivered, CourierTurns
<1>12. SlipAt(f, flows'[f], DoneBy[f], placed)
  BY <1>1, <1>5, <1>7 DEF SlipAt, done, card
<1>13. refundedBy \notin declined'
  BY DEF FlowsInv, MoneyOK
<1>14. \A k \in closing : k.command[1] # f
  <2>1. ~Asked(f, "close_cancelled")
    BY <1>1 DEF Asked, At, LeftAsked
  <2> QED BY <2>1, NotClosing
<1>15. HoldOK' /\ StaysTurned(f)
  BY <1>1, <1>5, HoldTurns DEF StaysTurned, Turned
<1> QED BY <1>1, <1>5, <1>9, <1>11, <1>12, <1>13, <1>14, <1>15, Silent

LEMMA HearsReportKeeps ==
  ASSUME FlowsInv, P!StoreInv', UNCHANGED placed, NEW outcome \in Outcomes, HearsReport(outcome)
  PROVE  FlowsInv'
<1>1. /\ signals[outcome] > 0
      /\ UNCHANGED <<store, ship, stock, money, edge>>
      /\ UNCHANGED <<hold, restored, refundedBy, declined, collected>>
  BY DEF HearsReport, InTurn, stock, money
<1>2. /\ outcome = "delivered" => shipments[O].status = "delivered"
      /\ outcome = "returned" => shipments[O].status = "returned"
  BY <1>1 DEF FlowsInv, CourierOK
<1>3. signals \in [Outcomes -> 0 .. Attempts] /\ Attempts \in Nat
  BY RestIsTyped, ConstantsMakeSense DEF RestTyped
<1>4. ASSUME signals' \in {[signals EXCEPT ![outcome] = 0], [signals EXCEPT ![outcome] = @ - 1]}
      PROVE  /\ RestTyped'
             /\ \A o \in {"delivered", "returned"} : signals'[o] > 0 => signals[o] > 0
  <2>1. {"delivered", "returned"} \subseteq Outcomes
    BY DEF Outcomes
  <2>2. signals[outcome] - 1 \in 0 .. Attempts /\ 0 \in 0 .. Attempts
    BY <1>1, <1>3
  <2>3. signals' \in [Outcomes -> 0 .. Attempts]
    BY <1>3, <1>4, <2>2
  <2>4. \A o \in Outcomes : signals'[o] > 0 => signals[o] > 0
    BY <1>1, <1>3, <1>4
  <2>5. RestTyped'
    BY <1>1, <2>3, RestIsTyped DEF RestTyped
  <2> QED BY <2>1, <2>4, <2>5
<1>5. ASSUME NEW f \in Deliveries, Parked(f), signals' = [signals EXCEPT ![outcome] = 0],
             Accepts(f, outcome), At(f, "await_delivery"), Proceed(f, Branch(outcome))
      PROVE  FlowsInv'
  <2>1. outcome \in {"delivered", "refused", "unanswered"}
    BY <1>5 DEF Accepts
  <2> QED BY <1>1, <1>2, <1>4, <1>5, <2>1, BranchKeeps
<1>6. ASSUME NEW f \in Deliveries, Parked(f), signals' = [signals EXCEPT ![outcome] = 0],
             Accepts(f, outcome), ~At(f, "await_delivery"), Proceed(f, Tail(flows[f].todo))
      PROVE  FlowsInv'
  <2>1. At(f, "await_return") /\ outcome = "returned" /\ f \in Flows
    BY <1>6, WhoIsWho DEF Accepts, Parked
  <2>2. Asked(f, "await_return") /\ Hears(f)
    BY <1>6, <2>1 DEF Asked, At, Hears, Answered
  <2> QED BY <1>1, <1>2, <1>4, <1>6, <2>1, <2>2, CashIsDelivered, WordKeeps
<1>7. ASSUME signals' \in {[signals EXCEPT ![outcome] = 0], [signals EXCEPT ![outcome] = @ - 1]},
             UNCHANGED flows
      PROVE  FlowsInv'
  <2>1. refundedBy \notin declined'
    BY <1>1 DEF FlowsInv, MoneyOK
  <2> QED BY <1>1, <1>4, <1>7, <2>1, NothingTurns
<1> QED BY <1>5, <1>6, <1>7 DEF HearsReport

LEMMA WindowClosesKeeps ==
  ASSUME FlowsInv, P!StoreInv', UNCHANGED placed, NEW f \in Flows, WindowCloses(f)
  PROVE  FlowsInv'
<1>1. /\ UNCHANGED <<store, ship, stock, money, wire>> /\ RestTyped'
      /\ UNCHANGED <<hold, restored, refundedBy, declined, edge, collected, signals>>
  BY RestLeftAlone DEF WindowCloses, stock
<1>2. CASE At(f, "await_delivery") /\ Proceed(f, Branch("unanswered"))
  <2>1. f \in Deliveries
    BY <1>2, AtStep DEF Flows
  <2> QED BY <1>1, <1>2, <2>1, BranchKeeps
<1>3. CASE At(f, "await_return") /\ flows' = [flows EXCEPT ![f].mode = "stranded"]
  <2>1. f \in Deliveries /\ f \notin Cancellations /\ f # Checkout
    BY <1>3, AtStep, WhoIsWho DEF Flows
  <2>3. flows[f].past
    <3> DEFINE card == placed.method = "card"
    <3>1. DeliveryOK(flows[f], DoneBy[f], card) /\ card \in BOOLEAN
      BY <2>1, SlipOf
    <3> HIDE DEF card
    <3>2. flows[f].mode = "running" /\ flows[f].todo # <<>> /\ Head(flows[f].todo) = "await_return"
      BY <1>3 DEF At
    <3>3. /\ flows[f].todo \in DeliveryTodos(card)
          /\ flows[f].past <=> "dispatch" \notin Elements(flows[f].todo)
          /\ flows[f].past \in BOOLEAN
      BY <3>1, <3>2 DEF DeliveryOK, Unstarted, Flow
    <3>4. "dispatch" \notin Elements(flows[f].todo)
      BY <3>1, <3>2, <3>3, DeliveryNext
    <3> QED BY <3>3, <3>4
  <2>4. Turns(f)
    BY <1>3, <2>3 DEF Turns
  <2>2. Excused(f)
    BY <1>3, <2>1 DEF Excused, At
  <2>5. refundedBy \notin declined'
    BY <1>1 DEF FlowsInv, MoneyOK
  <2> QED BY <1>1, <1>3, <2>1, <2>2, <2>4, <2>5, SilentTurns
<1> QED BY <1>2, <1>3 DEF WindowCloses

-----------------------------------------------------------------------------
(* The invariant holds *)

LEMMA CheckoutStarts ==
  ASSUME placed \in Placement
  PROVE  /\ CheckoutOK([mode |-> "running", todo |-> CheckoutTail, undo |-> <<>>, past |-> TRUE],
                    {}, placed.channel)
         /\ "convert" \in Elements(CheckoutTail)
<1> DEFINE channel == placed.channel
           t == CheckoutTail
           r == [mode |-> "running", todo |-> t, undo |-> <<>>, past |-> TRUE]
<1>1. channel \in {"shipped", "unshipped", "counter"}
  BY DEF Placement
<1>2. /\ channel = "shipped" => t = <<"convert", "confirm", "open">>
      /\ channel = "unshipped" => t = <<"convert", "confirm">>
      /\ channel = "counter" => t = <<"convert", "confirm", "mark", "close_fulfilled">>
  BY DEF CheckoutTail
<1>3. t \in Seq(Steps)
  <2>1. /\ <<"convert", "confirm", "open">> \in Seq(Steps)
        /\ <<"convert", "confirm">> \in Seq(Steps)
        /\ <<"convert", "confirm", "mark", "close_fulfilled">> \in Seq(Steps)
    BY DEF Steps
  <2> HIDE DEF t, channel
  <2> QED BY <1>1, <1>2, <2>1
<1> HIDE DEF t, channel
<1>4. t \in CheckoutTodos(channel) /\ t # <<>> /\ Head(t) = "convert"
      /\ "convert" \in Elements(t)
  BY <1>1, <1>2 DEF CheckoutTodos, Elements
<1>5. /\ "confirm" \in Elements(t)
      /\ channel = "shipped" => "open" \in Elements(t)
      /\ channel = "counter" => {"mark", "close_fulfilled"} \subseteq Elements(t)
  BY <1>1, <1>4, CheckoutNext
<1>6. <<>> \in Seq(Steps)
  OBVIOUS
<1>7. r \in Flow /\ r.mode = "running" /\ r.todo = t /\ r.undo = <<>> /\ r.past
  BY <1>3, <1>6 DEF Flow
<1> HIDE DEF r
<1>8. CheckoutOK(r, {}, channel)
  BY <1>4, <1>5, <1>7 DEF CheckoutOK, Ahead
<1> QED BY <1>4, <1>8 DEF r, t, channel

LEMMA FlowsInit == Init => FlowsInv
<1> SUFFICES ASSUME Init PROVE FlowsInv
  OBVIOUS
<1> USE DEF Init
<1>1. /\ claimed = {<<Checkout, "place">>} /\ closing = {} /\ shipClaimed = {}
      /\ restored = {} /\ refundedBy = None /\ declined = {} /\ collected = FALSE /\ edge = {}
      /\ orders[O].status = "pending" /\ shipments[O] = Ship!Unopened
      /\ shipments[O].status = None /\ reports[O] = <<>>
  BY DEF Ship!Init, Ship!Unopened, Ship!None, None
<1>2. placed \in Placement
  BY ConstantsMakeSense
<1>3. Checkout \in Flows /\ <<Checkout, "place">> \in Commands
  BY DEF Flows, Commands, Steps
<1>4. P!StoreInv
  <2> DEFINE e == [name |-> "order.placed", version |-> 1]
             order == [status |-> "pending", group |-> G, by |-> <<Checkout, "place">>,
                       claimedFrom |-> None, paidAt |-> FALSE]
  <2>1. order \in P!Order /\ order # P!Unplaced /\ order.status = "pending" /\ order.group = G
        /\ order.by = <<Checkout, "place">>
    BY <1>3 DEF P!Order, P!Statuses, P!None, None, P!Unplaced
  <2>2. e \in P!Event /\ e.version = 1
    BY DEF P!Event
  <2>3. orders = [o \in {O} |-> order] /\ outbox = [o \in {O} |-> <<e>>]
    OBVIOUS
  <2> HIDE DEF e, order
  <2>4. <<e>> \in Seq(P!Event) /\ Len(<<e>>) = 1 /\ <<e>>[1] = e
    BY <2>2
  <2>5. orders[O] = order /\ outbox[O] = <<e>>
    BY <2>3
  <2>6. P!TypeOK
    <3>1. groups \in [{G} -> [state : {"unopened", "open", "removed"}, orderIds : SUBSET {O}]]
      OBVIOUS
    <3>2. orders \in [{O} -> P!Order \cup {P!Unplaced}] /\ outbox \in [{O} -> Seq(P!Event)]
      BY <2>1, <2>3, <2>4
    <3> QED BY <1>1, <1>3, <3>1, <3>2 DEF P!TypeOK
  <2>7. P!OrdersAreKept /\ P!OneOrderPerCommand
    BY <1>1, <2>1, <2>5 DEF P!OrdersAreKept, P!OneOrderPerCommand
  <2>8. P!GroupsAreKept
    BY <2>1, <2>5 DEF P!GroupsAreKept
  <2>9. P!OutboxIsKept
    BY <2>1, <2>4, <2>5 DEF P!OutboxIsKept, P!Told, P!None, None
  <2>10. P!VersionsFollow
    BY <2>2, <2>4, <2>5 DEF P!VersionsFollow
  <2> QED BY <2>6, <2>7, <2>8, <2>9, <2>10 DEF P!StoreInv
<1>5. \A f \in Flows : DoneBy[f] = {}
  <2> SUFFICES ASSUME NEW f \in Flows, NEW x \in DoneBy[f] PROVE FALSE
    OBVIOUS
  <2>1. f # None
    BY ConstantsMakeSense
  <2>2. x \in Done(f)
    BY DEF DoneBy
  <2> QED BY <1>1, <2>1, <2>2 DEF Done, OrderSteps
<1>6. Store!TypeOK
  BY <1>4 DEF P!StoreInv, P!TypeOK, Store!TypeOK, P!Order, Store!Order, P!Unplaced, Store!Unplaced,
         P!None, Store!None, P!Statuses, Store!Statuses, P!Before, Store!Before, P!After,
         Store!After, P!CloseRequest, Store!CloseRequest, P!Event, Store!Event
<1>7. Ship!TypeOK
  BY DEF Ship!Init, Ship!TypeOK, Ship!Unopened
<1>8. SlipsOK /\ HoldOK /\ flows \in [Flows -> Flow] /\ \A f \in Flows : flows[f].mode # "stranded"
  <2>1. flows[Checkout] = [mode |-> "running", todo |-> CheckoutTail, undo |-> <<>>, past |-> TRUE]
    BY <1>3
  <2>2. CheckoutOK(flows[Checkout], {}, placed.channel)
    BY <1>2, <2>1, CheckoutStarts
  <2>3. \A f \in Flows : f # Checkout => flows[f] = Unstarted
    OBVIOUS
  <2>4. Unstarted \in Flow /\ Unstarted.mode = "unstarted"
    <3>1. <<>> \in Seq(Steps)
      OBVIOUS
    <3> QED BY <3>1 DEF Unstarted, Flow
  <2>5. ASSUME NEW f \in Flows PROVE SlipAt(f, flows[f], DoneBy[f], placed)
    <3>1. CASE f = Checkout
      BY <1>5, <2>2, <3>1, WhoIsWho DEF SlipAt
    <3>2. CASE f # Checkout
      BY <1>5, <2>3, <3>2 DEF SlipAt, CancellationOK, DeliveryOK
    <3> QED BY <3>1, <3>2
  <2>6. flows[Checkout] \in Flow
    BY <2>2 DEF CheckoutOK
  <2>7. flows \in [Flows -> Flow]
    BY <2>3, <2>4, <2>6
  <2>8. \A f \in Flows : flows[f].mode # "stranded"
    BY <2>1, <2>3, <2>4
  <2>9. HoldOK
    BY <1>2, <2>1, CheckoutStarts DEF HoldOK
  <2> QED BY <2>5, <2>7, <2>8, <2>9 DEF SlipsOK
<1>9. TypeOK
  <2>1. /\ hold \in {"held", "released", "converted"} /\ restored \in SUBSET Flows
        /\ refundedBy \in Flows \cup {None} /\ declined \in SUBSET Flows
        /\ collected \in BOOLEAN /\ edge \in SUBSET Flows
    OBVIOUS
  <2>2. signals \in [Outcomes -> 0 .. Attempts]
    BY ConstantsMakeSense
  <2> QED BY <1>6, <1>7, <1>8, <2>1, <2>2 DEF TypeOK
<1>10. OrderOK
  BY <1>1, <1>5, WhoIsWho DEF OrderOK, OrderAt, Holds
<1>11. ClosingOK
  BY <1>1 DEF ClosingOK
<1>12. ParcelOK
  <2>1. None \notin Gone /\ None # "held" /\ None # "withdrawn"
    BY DEF Gone, None
  <2> QED BY <1>1, <1>5, <2>1, WhoIsWho DEF ParcelOK, ParcelAt, HoldsParcel
<1>13. CourierOK
  <2>1. ASSUME NEW d \in Deliveries
        PROVE  CourierAt(Elements(flows[d].todo), DoneBy[d], placed.method = "card",
                         shipments[O].status, collected)
    <3>1. flows[d].todo = <<>> /\ DoneBy[d] = {}
      BY <1>5, WhoIsWho DEF Unstarted
    <3>2. Elements(<<>>) = {}
      BY DEF Elements
    <3> QED BY <3>1, <3>2 DEF CourierAt
  <2>2. ~(signals["delivered"] > 0) /\ ~(signals["returned"] > 0)
    BY DEF Outcomes
  <2> QED BY <1>1, <2>1, <2>2 DEF CourierOK
<1>14. ReportsOK
  BY <1>1 DEF ReportsOK, Ship!VersionsFollow, Said, None
<1>15. MoneyOK /\ StrandedOK
  BY <1>1, <1>8, WhoIsWho DEF MoneyOK, StrandedOK
<1> QED BY <1>2, <1>4, <1>8, <1>9, <1>10, <1>11, <1>12, <1>13, <1>14, <1>15 DEF FlowsInv

LEMMA FlowsStep == FlowsInv /\ [Next]_vars => FlowsInv'
<1> SUFFICES ASSUME FlowsInv, [Next]_vars PROVE FlowsInv'
  OBVIOUS
<1>1. P!StoreInv'
  BY StoreStep, P!StepInv DEF FlowsInv
<1>2. ASSUME NEW f \in Flows, Step(f) \/ Fails(f) PROVE FlowsInv'
  <2>1. UNCHANGED placed
    BY <1>2 DEF Step, Fails
  <2>2. CASE Confirm(f) \/ MarkDispatched(f) \/ CloseFulfilled(f) \/ ClaimCancel(f)
    BY <1>1, <2>1, <2>2, ConfirmKeeps, MarkKeeps, FulfilledKeeps, ClaimKeeps
  <2>3. CASE ReadToClose(f) \/ CloseCancelled(f)
    BY <1>1, <2>1, <2>3, ReadKeeps, CloseKeeps
  <2>4. CASE Open(f) \/ Hold(f) \/ Withdraw(f) \/ Dispatch(f)
    BY <1>1, <2>1, <2>4, OpenKeeps, HoldKeeps, WithdrawKeeps, DispatchKeeps
  <2>5. CASE Convert(f) \/ Restore(f) \/ Refund(f) \/ Collect(f) \/ Commit(f)
    BY <1>1, <2>1, <2>5, ConvertKeeps, RestoreKeeps, RefundKeeps, CollectKeeps, CommitKeeps
  <2>6. CASE Unclaim(f) \/ Release(f)
    BY <1>1, <2>1, <2>6, UnclaimKeeps, ReleaseKeeps
  <2>7. CASE GivesUp(f) \/ Suspends(f) \/ WindowCloses(f)
    BY <1>1, <2>1, <2>7, GivesUpKeeps, SuspendsKeeps, WindowClosesKeeps
  <2> QED BY <1>2, <2>2, <2>3, <2>4, <2>5, <2>6, <2>7 DEF Step, Fails, Serves
<1>3. ASSUME Happens PROVE FlowsInv'
  <2>1. UNCHANGED placed
    BY <1>3 DEF Happens
  <2>2. CASE \E f \in Cancellations : StartCancellation(f)
    BY <1>1, <2>1, <2>2, StartCancellationKeeps
  <2>3. CASE \E f \in Deliveries : StartDelivery(f)
    BY <1>1, <2>1, <2>3, StartDeliveryKeeps
  <2>4. CASE \E move \in Ship!CourierReports : VendorRecords(move)
    BY <1>1, <2>1, <2>4, RecordKeeps
  <2>5. CASE \E outcome \in Outcomes : HearsReport(outcome)
    BY <1>1, <2>1, <2>5, HearsReportKeeps
  <2>6. CASE HearsCaptured \/ HoldRunsOut
    BY <1>1, <2>1, <2>6, CapturedKeeps, HoldRunsOutKeeps
  <2> QED BY <1>3, <2>2, <2>3, <2>4, <2>5, <2>6 DEF Happens
<1>4. ASSUME UNCHANGED vars PROVE FlowsInv'
  <2>1. /\ UNCHANGED <<store, ship, flows, restored, refundedBy, declined, edge, collected, placed>>
        /\ UNCHANGED <<hold, signals>>
    BY <1>4 DEF vars, stock, money, wire
  <2>2. RestTyped' /\ refundedBy \notin declined'
    BY <2>1, RestIsTyped DEF RestTyped, FlowsInv, MoneyOK
  <2> QED BY <1>1, <2>1, <2>2, NothingTurns
<1> QED BY <1>2, <1>3, <1>4 DEF Next

LEMMA FlowsAlways == Spec => []FlowsInv
BY FlowsInit, FlowsStep, PTL DEF Spec

-----------------------------------------------------------------------------
(* Cash is taken by a delivery past its commit point *)

PastStays == \A h \in Flows : flows[h].past => flows'[h].past

LEMMA PastTurns ==
  ASSUME FlowsInv, NEW f \in Flows
  PROVE  /\ \A todo : Proceed(f, todo) => PastStays
         /\ Hears(f) => PastStays
         /\ Turns(f) \/ Refused(f) => PastStays
         /\ Undid(f) => PastStays
         /\ \A m : flows' = [flows EXCEPT ![f].mode = m] => PastStays
<1>1. flows \in [Flows -> Flow]
  BY RestIsTyped
<1>2. ASSUME NEW todo, Proceed(f, todo) PROVE PastStays
  <2>1. flows' = [flows EXCEPT ![f] = Onward(flows[f], todo)]
    BY <1>2 DEF Proceed, Onward
  <2>2. flows[f].past => Onward(flows[f], todo).past
    BY DEF Onward
  <2> QED BY <1>1, <2>1, <2>2 DEF PastStays
<1>3. ASSUME NEW m, flows' = [flows EXCEPT ![f].mode = m] PROVE PastStays
  BY <1>1, <1>3 DEF PastStays, Flow
<1>4. UNCHANGED flows => PastStays
  BY DEF PastStays
<1>5. Undid(f) => PastStays
  <2> SUFFICES ASSUME Undid(f), flows[f].mode = "undoing" PROVE PastStays
    BY <1>4 DEF Undid
  <2>1. PICK m, u : flows' = [flows EXCEPT ![f].undo = u, ![f].mode = m]
    BY DEF Undid
  <2> QED BY <1>1, <2>1 DEF PastStays, Flow
<1> QED BY <1>2, <1>3, <1>4, <1>5 DEF Hears, Answered, Turns, Refused

LEMMA PastKeeps == FlowsInv /\ [Next]_vars => PastStays
<1> SUFFICES ASSUME FlowsInv, [Next]_vars PROVE PastStays
  OBVIOUS
<1>1. UNCHANGED flows => PastStays
  BY DEF PastStays
<1>2. ASSUME NEW f \in Flows, Step(f) \/ Fails(f) PROVE PastStays
  <2>1. Confirm(f) \/ MarkDispatched(f) \/ CloseFulfilled(f) \/ ClaimCancel(f) => PastStays
    BY PastTurns DEF Confirm, MarkDispatched, CloseFulfilled, MoveStep, ClaimCancel, OnOrder, Hears
  <2>2. ReadToClose(f) \/ CloseCancelled(f) => PastStays
    BY <1>1, PastTurns DEF ReadToClose, CloseCancelled, Hears
  <2>3. Open(f) \/ Hold(f) \/ Withdraw(f) \/ Dispatch(f) => PastStays
    BY PastTurns DEF Open, Hold, Withdraw, Dispatch, ShipStep, OnShipment, Hears
  <2>4. Convert(f) \/ Restore(f) \/ Collect(f) \/ Commit(f) => PastStays
    BY PastTurns DEF Convert, Restore, Collect, Commit, Hears
  <2>5. Refund(f) => PastStays
    BY <1>1, PastTurns DEF Refund, Hears
  <2>6. Unclaim(f) \/ Release(f) => PastStays
    BY <1>1, PastTurns DEF Unclaim, Release
  <2>7. GivesUp(f) \/ Suspends(f) \/ WindowCloses(f) => PastStays
    BY PastTurns DEF GivesUp, Suspends, WindowCloses
  <2> QED BY <1>2, <2>1, <2>2, <2>3, <2>4, <2>5, <2>6, <2>7 DEF Step, Fails, Serves
<1>3. ASSUME Happens PROVE PastStays
  <2>1. ASSUME NEW f \in Cancellations \cup Deliveries, NEW slip, Starts(f, slip) PROVE PastStays
    <3>1. flows \in [Flows -> Flow] /\ f \in Flows
      BY RestIsTyped, WhoIsWho
    <3> QED BY <2>1, <3>1 DEF Starts, PastStays, Flow
  <2>2. (\E f \in Cancellations : StartCancellation(f)) \/ (\E f \in Deliveries : StartDelivery(f))
          => PastStays
    BY <2>1 DEF StartCancellation, StartDelivery
  <2>3. ASSUME NEW outcome \in Outcomes, HearsReport(outcome) PROVE PastStays
    <3>1. CASE UNCHANGED flows
      BY <1>1, <3>1
    <3>2. ASSUME NEW d \in Deliveries, NEW todo, Proceed(d, todo) PROVE PastStays
      BY <3>2, PastTurns, WhoIsWho
    <3> QED BY <2>3, <3>1, <3>2 DEF HearsReport
  <2>4. (\E move \in Ship!CourierReports : VendorRecords(move)) \/ HearsCaptured \/ HoldRunsOut
          => PastStays
    BY <1>1 DEF VendorRecords, HearsCaptured, HoldRunsOut
  <2> QED BY <1>3, <2>2, <2>3, <2>4 DEF Happens
<1>4. UNCHANGED vars => PastStays
  BY <1>1 DEF vars
<1> QED BY <1>2, <1>3, <1>4 DEF Next

CashIsTaken == collected => \E d \in Deliveries : flows[d].past

LEMMA CashStep == FlowsInv /\ CashIsTaken /\ [Next]_vars => CashIsTaken'
<1> SUFFICES ASSUME FlowsInv, CashIsTaken, [Next]_vars PROVE CashIsTaken'
  OBVIOUS
<1>1. PastStays
  BY PastKeeps
<1>2. CASE UNCHANGED collected
  BY <1>1, <1>2, WhoIsWho DEF CashIsTaken, PastStays
<1>3. ASSUME NEW f \in Flows, Collect(f) PROVE CashIsTaken'
  <2>1. Asked(f, "collect")
    BY <1>3 DEF Collect
  <2>2. /\ f \in Deliveries /\ flows[f].todo # <<>> /\ Head(flows[f].todo) = "collect"
        /\ flows[f].mode # "unstarted"
    BY <2>1, AskedStep DEF Flows
  <2> DEFINE card == placed.method = "card"
  <2>3. DeliveryOK(flows[f], DoneBy[f], card) /\ card \in BOOLEAN
    BY <2>2, SlipOf
  <2> HIDE DEF card
  <2>4. flows[f].todo \in DeliveryTodos(card)
    BY <2>2, <2>3 DEF DeliveryOK, Unstarted
  <2>5. "dispatch" \notin Elements(flows[f].todo)
    BY <2>2, <2>3, <2>4, DeliveryNext
  <2>6. flows[f].past
    BY <2>2, <2>3, <2>5 DEF DeliveryOK, Unstarted
  <2> QED BY <1>1, <2>2, <2>6 DEF CashIsTaken, PastStays
<1>4. \/ UNCHANGED collected
      \/ \E f \in Flows : Collect(f)
  <2>1. UNCHANGED vars => UNCHANGED collected
    BY DEF vars, money
  <2>2. Happens => UNCHANGED collected
    BY DEF Happens, money, StartCancellation, StartDelivery, Starts, VendorRecords, HearsReport,
           HearsCaptured, HoldRunsOut
  <2>3. ASSUME NEW f \in Flows, Step(f) \/ Fails(f), ~Collect(f) PROVE UNCHANGED collected
    <3>1. CASE \/ Confirm(f) \/ MarkDispatched(f) \/ CloseFulfilled(f) \/ ClaimCancel(f)
               \/ ReadToClose(f) \/ CloseCancelled(f)
      BY <3>1 DEF Confirm, MarkDispatched, CloseFulfilled, MoveStep, ClaimCancel, OnOrder,
             ReadToClose, CloseCancelled, money
    <3>2. CASE Open(f) \/ Hold(f) \/ Withdraw(f) \/ Dispatch(f)
      BY <3>2 DEF Open, Hold, Withdraw, Dispatch, ShipStep, OnShipment, money
    <3>3. CASE \/ Convert(f) \/ Restore(f) \/ Commit(f) \/ Unclaim(f) \/ Release(f)
               \/ GivesUp(f) \/ Suspends(f) \/ WindowCloses(f)
      BY <3>3 DEF Convert, Restore, Commit, Unclaim, Release, GivesUp, Suspends, WindowCloses,
             money
    <3>4. Refund(f) => UNCHANGED collected
      BY DEF Refund
    <3> QED BY <2>3, <3>1, <3>2, <3>3, <3>4 DEF Step, Fails, Serves
  <2> QED BY <2>1, <2>2, <2>3 DEF Next
<1> QED BY <1>2, <1>3, <1>4

LEMMA CashAlways == Spec => [](FlowsInv /\ CashIsTaken)
<1>1. Init => CashIsTaken
  BY DEF Init, CashIsTaken
<1> QED BY <1>1, CashStep, FlowsAlways, PTL DEF Spec

-----------------------------------------------------------------------------
(* What the invariant gives *)

LEMMA LocksMeans ==
  ASSUME NEW c \in Cancellations
  PROVE  Locks(c) <=> Holds(DoneBy, c) /\ "close_cancelled" \notin DoneBy[c]
<1>1. c \in Flows
  BY WhoIsWho
<1> QED BY <1>1, DoneMeans DEF Locks, Holds, OrderSteps

LEMMA LockHolds == FlowsInv => LockHeld
<1> SUFFICES ASSUME FlowsInv PROVE LockHeld
  OBVIOUS
<1>1. \A c \in Cancellations : Locks(c) <=> Holds(DoneBy, c) /\ "close_cancelled" \notin DoneBy[c]
  BY LocksMeans
<1>2. /\ \A c, e \in Cancellations : Holds(DoneBy, c) /\ Holds(DoneBy, e) => c = e
      /\ orders[O].status = "cancelling" <=>
           \E c \in Cancellations : Holds(DoneBy, c) /\ "close_cancelled" \notin DoneBy[c]
  BY OrderStatus DEF OrderAt
<1> QED BY <1>1, <1>2 DEF LockHeld

(* The vendor's terms stood: no cancellation went past a parcel.             *)
LEMMA UnguardedMeans ==
  ASSUME FlowsInv
  PROVE  /\ Unguarded # {} <=> Bypasses(DoneBy)
         /\ Opened <=> "open" \in DoneBy[Checkout]
<1>1. \A c \in Cancellations : /\ "claim" \in DoneBy[c] <=> <<c, "claim">> \in claimed
                               /\ "hold" \in DoneBy[c] <=> <<c, "hold">> \in shipClaimed
  BY DoneMeans, WhoIsWho DEF OrderSteps, ShipSteps
<1>2. Opened <=> "open" \in DoneBy[Checkout]
  BY TheParcel, OrderStatus DEF Opened, ParcelAt
<1> QED BY <1>1, <1>2 DEF Unguarded, Bypasses

(* Flows past their commit points did what they committed to.                *)
LEMMA PastFacts ==
  ASSUME FlowsInv, NEW f \in Cancellations \cup Deliveries, flows[f].past
  PROVE  /\ f \in Cancellations =>
              Holds(DoneBy, f) /\ "release" \notin DoneBy[f] /\ ~Lingers(f)
         /\ f \in Deliveries => "dispatch" \in DoneBy[f] /\ shipments[O].status \in Gone
<1>1. f \in Flows
  BY WhoIsWho
<1>2. ASSUME f \in Cancellations
      PROVE  Holds(DoneBy, f) /\ "release" \notin DoneBy[f] /\ ~Lingers(f)
  <2> DEFINE pivot == IF placed.method = "card" THEN "refund" ELSE "commit"
  <2>1. CancellationOK(flows[f], DoneBy[f], pivot) /\ pivot \in {"refund", "commit"}
    BY <1>1, <1>2, SlipOf
  <2> HIDE DEF pivot
  <2> QED BY <2>1, CancellationPast DEF Holds, Lingers, Turned
<1>3. ASSUME f \in Deliveries PROVE "dispatch" \in DoneBy[f] /\ shipments[O].status \in Gone
  <2> DEFINE card == placed.method = "card"
  <2>1. DeliveryOK(flows[f], DoneBy[f], card) /\ card \in BOOLEAN
    BY <1>1, <1>3, SlipOf
  <2> HIDE DEF card
  <2>2. "dispatch" \in DoneBy[f]
    BY <2>1, DeliveryPast
  <2> QED BY <1>3, <2>2, OrderStatus DEF ParcelAt
<1> QED BY <1>2, <1>3

LEMMA PivotIsOne == FlowsInv => OnePivot
<1> SUFFICES ASSUME FlowsInv, TermsStand,
                    NEW f \in Cancellations \cup Deliveries, NEW h \in Cancellations \cup Deliveries,
                    flows[f].past, flows[h].past
             PROVE  f = h
  BY DEF OnePivot
<1>1. CASE f \in Cancellations /\ h \in Cancellations
  BY <1>1, PastFacts, OrderStatus DEF OrderAt
<1>2. CASE f \in Deliveries /\ h \in Deliveries
  BY <1>2, PastFacts, OrderStatus DEF ParcelAt
<1>3. ASSUME NEW c \in Cancellations, NEW d \in Deliveries, flows[c].past, flows[d].past
      PROVE  FALSE
  <2>1. /\ Holds(DoneBy, c) /\ ~Lingers(c)
        /\ "dispatch" \in DoneBy[d] /\ shipments[O].status \in Gone
    BY <1>3, PastFacts
  <2>2. shipments[O].status \notin {"held", "withdrawn"}
    BY <2>1 DEF Gone
  <2>3. Bypasses(DoneBy)
    BY <2>1, <2>2, HeldPast
  <2>4. "open" \in DoneBy[Checkout]
    BY <2>1, DeliveryFacts DEF DeliveryWords
  <2> QED BY <2>3, <2>4, UnguardedMeans DEF TermsStand
<1> QED BY <1>1, <1>2, <1>3

(* What a flow turned back from and was carried out is what it asked for last.*)
LEMMA StrayMeans ==
  ASSUME FlowsInv, NEW f \in Flows, NEW s \in {"claim", "hold", "dispatch"},
         flows[f].mode \in Turned, s \in DoneBy[f] \cap Elements(flows[f].todo)
  PROVE  Stray(f, s)
<1>1. SlipAt(f, flows[f], DoneBy[f], placed)
  BY SlipOf
<1>2. flows[f] # Unstarted
  BY DEF Turned, Unstarted
<1>3. Ahead(flows[f], DoneBy[f])
  BY <1>1, <1>2 DEF SlipAt, CancellationOK, DeliveryOK, CheckoutOK, Flows
<1>4. s = Head(flows[f].todo)
  BY <1>3 DEF Ahead
<1>5. flows[f].todo # <<>>
  BY DEF Elements
<1>6. <<f, s>> \in claimed \cup shipClaimed
  BY DoneMeans DEF OrderSteps, ShipSteps
<1> QED BY <1>4, <1>5, <1>6 DEF Stray, LeftAsked, Turned

LEMMA PivotStands == FlowsInv => PivotNeverRefused
<1> SUFFICES ASSUME FlowsInv, NEW f \in Flows, flows[f].mode = "stranded"
             PROVE  \/ f \in Deliveries /\ Head(flows[f].todo) \in {"await_return", "refund"}
                    \/ f \notin Cancellations /\ Unguarded # {}
                    \/ f \in Deliveries /\ \E c \in Cancellations : Stray(c, "claim")
  BY DEF PivotNeverRefused
<1>1. f \notin Cancellations
  <2> SUFFICES ASSUME f \in Cancellations PROVE FALSE
    OBVIOUS
  <2> DEFINE pivot == IF placed.method = "card" THEN "refund" ELSE "commit"
  <2>1. CancellationOK(flows[f], DoneBy[f], pivot) /\ pivot \in {"refund", "commit"}
    BY SlipOf
  <2> HIDE DEF pivot
  <2> QED BY <2>1, CancellationPast
<1>2. f \in Closers
  BY <1>1 DEF Flows, Closers
<1>3. Excused(f)
  BY <1>2 DEF FlowsInv, StrandedOK
<1>4. CASE Bypasses(DoneBy)
  BY <1>1, <1>4, UnguardedMeans
<1>5. ASSUME NEW c \in Cancellations, Lingers(c) PROVE Stray(c, "claim")
  BY <1>5, StrayMeans, WhoIsWho DEF Lingers
<1> QED BY <1>3, <1>4, <1>5 DEF Excused

(* Whoever put the goods back is past its commit point, and the order and    *)
(* its parcel stand as it left them.                                         *)
LEMMA RestoredFacts ==
  ASSUME FlowsInv, NEW f \in restored
  PROVE  /\ f \in Cancellations \cup Deliveries /\ flows[f].past
         /\ orders[O].status \in {"cancelling", "dispatched", "cancelled"}
         /\ f \in Cancellations => Holds(DoneBy, f)
         /\ f \in Deliveries => shipments[O].status = "returned"
<1>1. f \in Cancellations \cup Deliveries /\ f \in Flows
  BY WhoIsWho DEF FlowsInv, MoneyOK
<1>2. "restore" \in DoneBy[f]
  BY <1>1, DoneMeans
<1>3. ASSUME f \in Cancellations
      PROVE  /\ flows[f].past /\ Holds(DoneBy, f)
             /\ orders[O].status \in {"cancelling", "cancelled"}
  <2> DEFINE pivot == IF placed.method = "card" THEN "refund" ELSE "commit"
  <2>1. CancellationOK(flows[f], DoneBy[f], pivot) /\ pivot \in {"refund", "commit"}
    BY <1>1, <1>3, SlipOf
  <2> HIDE DEF pivot
  <2>2. flows[f].past
    BY <1>2, <2>1, CancellationPast
  <2>3. Holds(DoneBy, f)
    BY <1>3, <2>2, PastFacts
  <2>4. orders[O].status \in {"cancelling", "cancelled"}
    BY <1>3, <2>3, OrderStatus DEF OrderAt
  <2> QED BY <2>2, <2>3, <2>4
<1>4. ASSUME f \in Deliveries
      PROVE  /\ flows[f].past /\ shipments[O].status = "returned"
             /\ orders[O].status \in {"dispatched", "cancelled"}
  <2> DEFINE card == placed.method = "card"
  <2>1. DeliveryOK(flows[f], DoneBy[f], card) /\ card \in BOOLEAN
    BY <1>1, <1>4, SlipOf
  <2>2. CourierAt(Elements(flows[f].todo), DoneBy[f], card, shipments[O].status, collected)
    BY <1>4 DEF FlowsInv, CourierOK
  <2> HIDE DEF card
  <2>3. shipments[O].status = "returned"
    BY <1>2, <2>2 DEF CourierAt
  <2>4. flows[f].past /\ "mark" \in DoneBy[f] /\ f \in Closers
    BY <1>2, <1>4, <2>1, DeliveryPast, WhoIsWho
  <2>5. orders[O].status \in {"dispatched", "fulfilled", "cancelled"}
    BY <2>4, OrderStatus DEF OrderAt
  <2>6. orders[O].status # "fulfilled"
    <3> SUFFICES ASSUME orders[O].status = "fulfilled" PROVE FALSE
      OBVIOUS
    <3>1. PICK h \in Closers : "close_fulfilled" \in DoneBy[h]
      BY OrderStatus DEF OrderAt
    <3>2. DoneBy[Checkout] \cap {"mark", "close_fulfilled"} = {}
      BY <1>2, <1>4, DeliveryFacts DEF DeliveryWords
    <3>3. h \in Deliveries
      BY <3>1, <3>2 DEF Closers
    <3>4. h = f
      BY <1>2, <1>4, <3>1, <3>3, DeliveryFacts DEF DeliveryWords
    <3>5. "close_fulfilled" \in DoneBy[f] => "restore" \notin DoneBy[f]
      BY <1>2, <2>1 DEF DeliveryOK
    <3> QED BY <1>2, <3>1, <3>4, <3>5
  <2> QED BY <2>3, <2>4, <2>5, <2>6
<1> QED BY <1>1, <1>3, <1>4

LEMMA GoodsGoBack == FlowsInv => GoodsGoBackOnce
<1> SUFFICES ASSUME FlowsInv, TermsStand
             PROVE  /\ Cardinality(restored) <= 1
                    /\ restored # {} =>
                         /\ orders[O].status \in {"cancelling", "dispatched", "cancelled"}
                         /\ shipments[O].status \notin {"awaiting_dispatch", "dispatched", "delivered"}
  BY DEF GoodsGoBackOnce
<1>1. \A f, h \in restored : f = h
  BY RestoredFacts, PivotIsOne DEF OnePivot
<1>2. Cardinality(restored) <= 1
  <2>1. CASE restored = {}
    BY <2>1, FS_EmptySet
  <2>2. CASE restored # {}
    <3>1. PICK f : restored = {f}
      BY <1>1, <2>2
    <3> QED BY <3>1, FS_Singleton
  <2> QED BY <2>1, <2>2
<1>3. ASSUME NEW f \in restored
      PROVE  /\ orders[O].status \in {"cancelling", "dispatched", "cancelled"}
             /\ shipments[O].status \notin {"awaiting_dispatch", "dispatched", "delivered"}
  <2>1. /\ f \in Cancellations \cup Deliveries
        /\ orders[O].status \in {"cancelling", "dispatched", "cancelled"}
        /\ f \in Cancellations => Holds(DoneBy, f) /\ ~Lingers(f)
        /\ f \in Deliveries => shipments[O].status = "returned"
    BY RestoredFacts, PastFacts
  <2>2. CASE f \in Deliveries
    BY <2>1, <2>2
  <2>3. CASE f \in Cancellations
    <3>1. CASE shipments[O].status \in {"held", "withdrawn"}
      BY <2>1, <3>1
    <3>2. CASE shipments[O].status \notin {"held", "withdrawn"}
      <4>1. Bypasses(DoneBy)
        BY <2>1, <2>3, <3>2, HeldPast
      <4>2. shipments[O].status = None
        BY <4>1, UnguardedMeans, OrderStatus DEF TermsStand, ParcelAt
      <4> QED BY <2>1, <4>2 DEF None
    <3> QED BY <3>1, <3>2
  <2> QED BY <2>1, <2>2, <2>3
<1> QED BY <1>2, <1>3

LEMMA AnnouncedInOrder == FlowsInv => AnnouncementsFollow
<1>1. P!VersionsFollow => Store!VersionsFollow
  BY DEF P!VersionsFollow, Store!VersionsFollow
<1> QED BY <1>1 DEF FlowsInv, P!StoreInv, ReportsOK, AnnouncementsFollow

(* A cancellation at rest went all the way, or took back what it had heard   *)
(* was done; a delivery at rest went all the way, or never began; and the    *)
(* checkout went all the way.                                                *)
LEMMA RestingCancellation ==
  ASSUME FlowsInv, AtRest, NEW c \in Cancellations
  PROVE  /\ Holds(DoneBy, c) => "close_cancelled" \in DoneBy[c] \/ Stray(c, "claim")
         /\ DoneBy[c] \cap {"refund", "restore"} # {} => "close_cancelled" \in DoneBy[c]
         /\ HoldsParcel(DoneBy, c) =>
              \/ "close_cancelled" \in DoneBy[c] /\ "withdraw" \in DoneBy[c]
              \/ Stray(c, "hold") /\ "withdraw" \notin DoneBy[c]
         /\ "close_cancelled" \in DoneBy[c] =>
              /\ "restore" \in DoneBy[c] /\ flows[c].past
              /\ placed.method = "card" => "refund" \in DoneBy[c]
              /\ "hold" \in DoneBy[c] => "withdraw" \in DoneBy[c]
<1> DEFINE pivot == IF placed.method = "card" THEN "refund" ELSE "commit"
<1>1. CancellationOK(flows[c], DoneBy[c], pivot) /\ pivot \in {"refund", "commit"} /\ c \in Flows
  BY SlipOf, WhoIsWho
<1>2. placed.method = "card" => pivot = "refund"
  OBVIOUS
<1> HIDE DEF pivot
<1>3. flows[c].mode \in {"unstarted", "completed", "undone"}
  BY <1>1 DEF AtRest
<1>4. CASE flows[c].mode = "completed"
  <2>1. /\ flows[c].past /\ {"restore", "close_cancelled"} \subseteq DoneBy[c]
        /\ pivot = "refund" => "refund" \in DoneBy[c]
        /\ "hold" \in DoneBy[c] => "withdraw" \in DoneBy[c]
    BY <1>1, <1>4, CancellationPast
  <2> QED BY <1>2, <2>1 DEF HoldsParcel
<1>5. CASE flows[c].mode = "undone"
  <2>1. /\ "claim" \in DoneBy[c] => "unclaim" \in DoneBy[c] \/ "claim" \in Elements(flows[c].todo)
        /\ "hold" \in DoneBy[c] => "release" \in DoneBy[c] \/ "hold" \in Elements(flows[c].todo)
        /\ DoneBy[c] \cap {"restore", "close_cancelled", "refund", "withdraw"} = {}
    BY <1>1, <1>5, CancellationPast
  <2>2. \A s \in {"claim", "hold"} : s \in DoneBy[c] \cap Elements(flows[c].todo) => Stray(c, s)
    BY <1>1, <1>5, StrayMeans DEF Turned
  <2> QED BY <2>1, <2>2 DEF Holds, HoldsParcel
<1>6. CASE flows[c].mode = "unstarted"
  <2>1. DoneBy[c] = {}
    BY <1>1, <1>6, CancellationPast
  <2> QED BY <2>1 DEF Holds, HoldsParcel
<1> QED BY <1>3, <1>4, <1>5, <1>6

LEMMA RestingDelivery ==
  ASSUME FlowsInv, AtRest, NEW d \in Deliveries,
         DoneBy[d] \cap {"dispatch", "mark", "restore", "refund", "close_cancelled",
                         "close_fulfilled"} # {}
  PROVE  \/ /\ ~flows[d].past /\ Stray(d, "dispatch")
            /\ DoneBy[d] \cap {"mark", "restore", "refund", "close_cancelled",
                               "close_fulfilled"} = {}
         \/ /\ flows[d].past
            /\ "close_fulfilled" \in DoneBy[d] /\ shipments[O].status = "delivered"
            /\ placed.method = "card" \/ collected
            /\ "refund" \notin DoneBy[d]
         \/ /\ flows[d].past
            /\ "close_cancelled" \in DoneBy[d] /\ "restore" \in DoneBy[d]
            /\ placed.method = "card" => "refund" \in DoneBy[d]
<1> DEFINE card == placed.method = "card"
<1>1. DeliveryOK(flows[d], DoneBy[d], card) /\ card \in BOOLEAN /\ d \in Flows
  BY SlipOf, WhoIsWho
<1>2. CourierAt(Elements(flows[d].todo), DoneBy[d], card, shipments[O].status, collected)
  BY DEF FlowsInv, CourierOK
<1>3. flows[d].mode \in {"unstarted", "completed", "undone"}
  BY <1>1 DEF AtRest
<1> HIDE DEF card
<1>4. /\ DoneBy[d] \cap {"mark", "restore", "close_fulfilled", "close_cancelled", "refund"} # {} =>
           flows[d].past
      /\ DoneBy[d] \cap {"close_cancelled", "refund"} # {} => "restore" \in DoneBy[d]
      /\ flows[d].mode = "completed" =>
           \/ "close_fulfilled" \in DoneBy[d]
           \/ "close_cancelled" \in DoneBy[d] /\ (card => "refund" \in DoneBy[d])
      /\ flows[d].mode \in {"unstarted", "undone"} => ~flows[d].past
      /\ flows[d].mode = "unstarted" => DoneBy[d] = {}
  BY <1>1, DeliveryPast
<1>5. CASE flows[d].mode = "completed"
  <2>1. "close_fulfilled" \in DoneBy[d] => "restore" \notin DoneBy[d]
    BY <1>1, <1>5 DEF DeliveryOK, Unstarted
  <2>2. "close_fulfilled" \in DoneBy[d] =>
          shipments[O].status = "delivered" /\ (card \/ collected)
    BY <1>2 DEF CourierAt
  <2> QED BY <1>4, <1>5, <2>1, <2>2 DEF card
<1>6. CASE flows[d].mode = "undone"
  <2>1. /\ ~flows[d].past /\ "dispatch" \in DoneBy[d]
        /\ DoneBy[d] \cap {"mark", "restore", "refund", "close_cancelled", "close_fulfilled"} = {}
    BY <1>4, <1>6
  <2>2. "dispatch" \in Elements(flows[d].todo)
    BY <1>1, <1>6, <2>1 DEF DeliveryOK, Unstarted
  <2>3. Stray(d, "dispatch")
    BY <1>1, <1>6, <2>1, <2>2, StrayMeans DEF Turned
  <2> QED BY <2>1, <2>3
<1>7. CASE flows[d].mode = "unstarted"
  BY <1>4, <1>7
<1> QED BY <1>3, <1>5, <1>6, <1>7

LEMMA RestingCheckout ==
  ASSUME FlowsInv, AtRest
  PROVE  /\ "confirm" \in DoneBy[Checkout]
         /\ placed.channel = "shipped" <=> "open" \in DoneBy[Checkout]
         /\ "mark" \in DoneBy[Checkout] => "close_fulfilled" \in DoneBy[Checkout]
         /\ "close_fulfilled" \in DoneBy[Checkout] => placed.channel = "counter"
         /\ hold # "held"
<1> DEFINE channel == placed.channel
<1>1. /\ CheckoutOK(flows[Checkout], DoneBy[Checkout], channel)
      /\ channel \in {"shipped", "unshipped", "counter"} /\ Checkout \in Flows
  BY SlipOf, WhoIsWho, Placing
<1> HIDE DEF channel
<1>2. flows[Checkout].mode = "completed"
  BY <1>1 DEF AtRest, CheckoutOK
<1>3. /\ "confirm" \in DoneBy[Checkout]
      /\ channel = "shipped" => "open" \in DoneBy[Checkout]
      /\ channel = "counter" => {"mark", "close_fulfilled"} \subseteq DoneBy[Checkout]
  BY <1>1, <1>2, CheckoutLeft
<1>4. /\ "open" \in DoneBy[Checkout] => channel = "shipped"
      /\ "mark" \in DoneBy[Checkout] => channel = "counter"
      /\ "close_fulfilled" \in DoneBy[Checkout] => channel = "counter"
  BY <1>1 DEF CheckoutOK
<1>5. hold # "held"
  <2>1. flows[Checkout].todo = <<>>
    BY <1>1, <1>2 DEF CheckoutOK
  <2> QED BY <2>1 DEF FlowsInv, HoldOK, Elements
<1> QED BY <1>3, <1>4, <1>5 DEF channel

LEMMA RecordsAre == FlowsInv /\ CashIsTaken => RecordsAgree
<1> DEFINE status == orders[O].status
           parcel == shipments[O].status
           shipped == placed.channel = "shipped"
           card == placed.method = "card"
           Left(step) == \E f \in Cancellations \cup Deliveries : Stray(f, step)
<1> SUFFICES ASSUME FlowsInv, CashIsTaken, AtRest, TermsStand
             PROVE  /\ hold # "held"
                    /\ \/ /\ status = "confirmed" \/ (status = "cancelling" /\ Left("claim"))
                          /\ restored = {} /\ refundedBy = None /\ ~collected
                          /\ \/ parcel = IF shipped THEN "awaiting_dispatch" ELSE None
                             \/ parcel = "held" /\ Left("hold")
                             \/ parcel \in Ship!Gone /\ Left("dispatch")
                       \/ /\ status = "fulfilled"
                          /\ restored = {} /\ refundedBy = None
                          /\ shipped => parcel = "delivered" /\ (card \/ collected)
                       \/ /\ status = "cancelled"
                          /\ Cardinality(restored) = 1 /\ ~collected
                          /\ card => refundedBy # None
                          /\ parcel = None \/ parcel \in {"withdrawn", "returned"}
  BY DEF RecordsAgree, Card
<1>1. /\ "confirm" \in DoneBy[Checkout]
      /\ shipped <=> "open" \in DoneBy[Checkout]
      /\ "mark" \in DoneBy[Checkout] => "close_fulfilled" \in DoneBy[Checkout]
      /\ "close_fulfilled" \in DoneBy[Checkout] => ~shipped
      /\ hold # "held"
  BY RestingCheckout
<1>2. OrderAt(status, orders[O].claimedFrom, DoneBy) /\ ParcelAt(parcel, DoneBy)
  BY OrderStatus
<1>3. /\ \A f \in Closers : f \in Flows /\ (f = Checkout \/ f \in Deliveries)
      /\ \A f \in Closers : "close_fulfilled" \in DoneBy[f] => status = "fulfilled"
      /\ \A f \in Cancellations \cup Deliveries : "close_cancelled" \in DoneBy[f] => status = "cancelled"
      /\ \A d \in Deliveries : d \in Closers
  BY <1>2, WhoIsWho DEF OrderAt
<1> HIDE DEF status, parcel, shipped, card, Left
<1>4. \/ status \in {"confirmed", "fulfilled", "cancelled"}
      \/ status = "cancelling" /\ Left("claim")
  <2>1. status = "cancelling" => Left("claim")
    <3> SUFFICES ASSUME status = "cancelling" PROVE Left("claim")
      OBVIOUS
    <3>1. PICK c \in Cancellations : Holds(DoneBy, c) /\ "close_cancelled" \notin DoneBy[c]
      BY <1>2 DEF OrderAt
    <3> QED BY <3>1, RestingCancellation DEF Left
  <2>2. status # "dispatched"
    <3> SUFFICES ASSUME status = "dispatched" PROVE FALSE
      OBVIOUS
    <3>1. PICK f \in Closers : "mark" \in DoneBy[f]
      BY <1>2 DEF OrderAt
    <3>2. CASE f = Checkout
      BY <1>1, <1>3, <3>1, <3>2
    <3>3. CASE f \in Deliveries
      BY <1>3, <3>1, <3>3, RestingDelivery
    <3> QED BY <1>3, <3>1, <3>2, <3>3
  <2> QED BY <1>1, <1>2, <2>1, <2>2 DEF OrderAt
<1>5. status # "cancelled" => restored = {} /\ refundedBy = None
  <2> SUFFICES ASSUME status # "cancelled" PROVE restored = {} /\ refundedBy = None
    OBVIOUS
  <2>1. ASSUME NEW f \in Cancellations, DoneBy[f] \cap {"restore", "refund"} # {} PROVE FALSE
    BY <1>3, <2>1, RestingCancellation
  <2>2. restored = {}
    <3> SUFFICES ASSUME NEW f \in restored PROVE FALSE
      OBVIOUS
    <3>1. f \in Cancellations \cup Deliveries /\ "restore" \in DoneBy[f]
      BY RestoredFacts, DoneMeans, WhoIsWho
    <3>2. f \in Deliveries => status \in {"cancelling", "dispatched", "cancelled"}
      BY RestoredFacts DEF status
    <3>3. f \in Deliveries => "close_fulfilled" \in DoneBy[f] \/ "close_cancelled" \in DoneBy[f]
      BY <3>1, RestingDelivery
    <3> QED BY <1>3, <2>1, <3>1, <3>2, <3>3
  <2>3. refundedBy = None
    <3> SUFFICES ASSUME refundedBy # None PROVE FALSE
      OBVIOUS
    <3>1. refundedBy \in Cancellations \cup Deliveries
      BY DEF FlowsInv, MoneyOK
    <3>2. "refund" \in DoneBy[refundedBy]
      BY <3>1, WhoIsWho, DoneMeans
    <3>3. CASE refundedBy \in Cancellations
      BY <2>1, <3>2, <3>3
    <3>4. CASE refundedBy \in Deliveries
      BY <1>3, <3>2, <3>4, RestingDelivery
    <3> QED BY <3>1, <3>3, <3>4
  <2> QED BY <2>2, <2>3
<1>6. CASE status = "confirmed" \/ status = "cancelling"
  <2>1. \A d \in Deliveries : "dispatch" \in DoneBy[d] => Left("dispatch")
    BY <1>3, <1>6, RestingDelivery DEF Left
  <2>2. parcel \in Gone => Left("dispatch")
    BY <1>2, <2>1 DEF ParcelAt
  <2>3. parcel \in {"held", "withdrawn"} => parcel = "held" /\ Left("hold")
    <3> SUFFICES ASSUME parcel \in {"held", "withdrawn"} PROVE parcel = "held" /\ Left("hold")
      OBVIOUS
    <3>1. PICK c \in Cancellations : HoldsParcel(DoneBy, c)
      BY <1>2 DEF ParcelAt
    <3>2. Stray(c, "hold") /\ "withdraw" \notin DoneBy[c]
      BY <1>3, <1>6, <3>1, RestingCancellation
    <3>3. parcel = "held"
      BY <1>2, <3>1, <3>2 DEF ParcelAt
    <3> QED BY <3>2, <3>3 DEF Left
  <2>4. parcel \in Ship!Statuses \cup {None} /\ (parcel # None <=> shipped)
    BY <1>1, <1>2, TheParcel DEF ParcelAt, parcel
  <2>5. \/ parcel = IF shipped THEN "awaiting_dispatch" ELSE None
        \/ parcel = "held" /\ Left("hold")
        \/ parcel \in Ship!Gone /\ Left("dispatch")
    BY <2>2, <2>3, <2>4 DEF Ship!Statuses, Gone, Ship!Gone
  <2>6. ~collected
    <3> SUFFICES ASSUME collected PROVE FALSE
      OBVIOUS
    <3>1. PICK d \in Deliveries : flows[d].past
      BY DEF CashIsTaken
    <3>2. "dispatch" \in DoneBy[d]
      BY <3>1, PastFacts
    <3> QED BY <1>3, <1>6, <3>1, <3>2, RestingDelivery
  <2> QED BY <1>1, <1>4, <1>5, <1>6, <2>5, <2>6
<1>7. CASE status = "fulfilled"
  <2>1. PICK f \in Closers : "close_fulfilled" \in DoneBy[f]
    BY <1>2, <1>7 DEF OrderAt
  <2>2. ASSUME shipped PROVE parcel = "delivered" /\ (card \/ collected)
    <3>1. f \in Deliveries
      BY <1>1, <1>3, <2>1, <2>2
    <3>2. "close_cancelled" \notin DoneBy[f]
      BY <1>3, <1>7, <3>1
    <3> QED BY <2>1, <3>1, <3>2, RestingDelivery DEF parcel, card
  <2> QED BY <1>1, <1>5, <1>7, <2>2
<1>8. CASE status = "cancelled"
  <2>1. PICK f \in Cancellations \cup Deliveries : "close_cancelled" \in DoneBy[f]
    BY <1>2, <1>8 DEF OrderAt
  <2>2. "restore" \in DoneBy[f] /\ flows[f].past /\ (card => "refund" \in DoneBy[f])
    <3>1. CASE f \in Cancellations
      BY <2>1, <3>1, RestingCancellation DEF card
    <3>2. CASE f \in Deliveries
      <4>1. "close_fulfilled" \notin DoneBy[f]
        BY <1>3, <1>8, <3>2
      <4> QED BY <2>1, <3>2, <4>1, RestingDelivery DEF card
    <3> QED BY <2>1, <3>1, <3>2
  <2>3. f \in restored /\ (card => refundedBy = f) /\ f \in Flows
    BY <2>1, <2>2, WhoIsWho, DoneMeans
  <2>4. restored = {f}
    BY <2>3, RestoredFacts, PivotIsOne DEF OnePivot
  <2>5. Cardinality(restored) = 1
    BY <2>4, FS_Singleton
  <2>6. card => refundedBy # None
    BY <2>3, ConstantsMakeSense
  <2>7. parcel = None \/ parcel \in {"withdrawn", "returned"}
    <3>1. CASE f \in Deliveries
      BY <2>3, <3>1, RestoredFacts DEF parcel
    <3>2. CASE f \in Cancellations /\ "hold" \in DoneBy[f]
      <4>1. HoldsParcel(DoneBy, f) /\ "withdraw" \in DoneBy[f]
        BY <2>1, <2>2, <3>2, PastFacts, RestingCancellation DEF HoldsParcel
      <4> QED BY <1>2, <3>2, <4>1 DEF ParcelAt
    <3>3. CASE f \in Cancellations /\ "hold" \notin DoneBy[f]
      <4>1. Bypasses(DoneBy)
        BY <2>2, <3>3, PastFacts DEF Bypasses, Holds
      <4>2. "open" \notin DoneBy[Checkout]
        BY <4>1, UnguardedMeans DEF TermsStand
      <4> QED BY <1>2, <4>2 DEF ParcelAt
    <3> QED BY <2>1, <3>1, <3>2, <3>3
  <2>8. ~collected
    <3>1. collected => parcel = "delivered"
      BY CashIsDelivered DEF parcel
    <3> QED BY <2>7, <3>1 DEF None
  <2> QED BY <1>1, <1>8, <2>5, <2>6, <2>7, <2>8
<1> QED BY <1>4, <1>6, <1>7, <1>8

-----------------------------------------------------------------------------
(* The theorems *)

(* Whatever flows meet on an order, each stands at a known step of its slip  *)
(* and every record of the four stores is one that its schema allows.        *)
THEOREM TypeCorrect == Spec => []TypeOK
<1>1. FlowsInv => TypeOK
  BY DEF FlowsInv
<1> QED BY <1>1, FlowsAlways, PTL

(* An order stands at `cancelling` exactly while one cancellation holds it,  *)
(* for any number of cancellations that claim it, repeat themselves and give *)
(* it back.                                                                  *)
THEOREM LockHeldAlways == Spec => []LockHeld
BY LockHolds, FlowsAlways, PTL

(* Of any number of cancellations and deliveries one at most passes its      *)
(* commit point, while the vendor keeps the entitlement to ship.             *)
THEOREM OnePivotAlways == Spec => []OnePivot
BY PivotIsOne, FlowsAlways, PTL

(* Past its commit point a flow is refused nothing by another flow, however  *)
(* late what the others gave up is carried out: it is stranded by a parcel   *)
(* that stays out or by a provider that declines, or by a cancellation that  *)
(* asked no shipment to wait, or that had given up both its hold and the     *)
(* claim that was made for it.                                               *)
THEOREM PivotNeverRefusedAlways == Spec => []PivotNeverRefused
BY PivotStands, FlowsAlways, PTL

(* The goods of an order go back once, and not while they may still arrive.  *)
THEOREM GoodsGoBackOnceAlways == Spec => []GoodsGoBackOnce
BY GoodsGoBack, FlowsAlways, PTL

(* When every flow has ended by itself, the order, its shipment, its money   *)
(* and its goods say the same of how it ended; an order that is claimed, a   *)
(* parcel that is held and one that left although the order did not move are *)
(* what a flow gave up and was carried out all the same.                     *)
THEOREM RecordsAgreeAlways == Spec => []RecordsAgree
BY RecordsAre, CashAlways, PTL

(* The order's and the parcel's announcements are numbered 1, 2, ... in the  *)
(* order they are made, for any number of flows and courier reports.         *)
THEOREM AnnouncementsFollowAlways == Spec => []AnnouncementsFollow
BY AnnouncedInOrder, FlowsAlways, PTL

(* What the flows do to the order store is what the store does: none of them *)
(* moves an order in a way that ProductOrder does not.                       *)
THEOREM FlowsUseStore == Spec => [][P!Next]_(P!vars)
BY StoreStep, PTL DEF Spec

(* Whatever flows meet on it, an order lives the life that is promised of    *)
(* it: it does not move while a cancellation holds it, a claim given back    *)
(* leaves it where it stood, and its end as cancelled is told as it comes.   *)
THEOREM OrderLivesOn == Spec => [][P!Life!Next]_(P!Life!vars)
<1>1. FlowsInv /\ [Next]_vars => [P!Life!Next]_(P!Life!vars)
  <2>1. FlowsInv => P!StoreInv
    BY DEF FlowsInv
  <2> QED BY <2>1, StoreStep, P!LifeStep
<1> QED BY <1>1, FlowsAlways, PTL DEF Spec

=============================================================================
