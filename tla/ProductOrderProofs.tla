-------------------------- MODULE ProductOrderProofs --------------------------
(***************************************************************************)
(* Theorems about ProductOrder, for any groups, ids, commands and          *)
(* captures.                                                               *)
(***************************************************************************)
EXTENDS ProductOrder, TLAPS

-----------------------------------------------------------------------------
(* The inductive invariant *)

(* An order stands placed, or was removed, or its id was never given out;    *)
(* what a claim was taken from is there to go back to.                       *)
OrdersAreKept ==
  \A o \in OrderIds :
    /\ orders[o] # Unplaced => orders[o] \in Order /\ orders[o].by \in claimed
    /\ orders[o].status = "cancelling" => orders[o].claimedFrom \in {"paid", "confirmed"}

(* A group lists the orders placed into it; an open one lists them all, and  *)
(* one not yet opened has none.                                              *)
GroupsAreKept ==
  \A o \in OrderIds, g \in Groups :
    /\ orders[o] # Unplaced /\ orders[o].group = g => groups[g].state # "unopened"
    /\ o \in groups[g].orderIds => orders[o] # Unplaced /\ orders[o].group = g
    /\ Placed(o) /\ groups[g].state = "open" /\ orders[o].group = g =>
         o \in groups[g].orderIds

(* How much has been announced of an order that stands as this one does.     *)
Told(order) ==
  CASE order.status = None        -> {0}
    [] order.status = "cancelled" -> {2}
    [] order.status = "removed"   -> {1, 2}
    [] OTHER                      -> {1}

OutboxIsKept ==
  \A o \in OrderIds : Len(outbox[o]) \in Told(orders[o])

StoreInv ==
  /\ TypeOK /\ OrdersAreKept /\ OneOrderPerCommand /\ GroupsAreKept
  /\ OutboxIsKept /\ VersionsFollow

-----------------------------------------------------------------------------
(* Announcing *)

LEMMA Announced ==
  ASSUME StoreInv, NEW o \in OrderIds, NEW name \in {"order.placed", "order.cancelled"},
         Announce(o, name), Version(name) = Len(outbox[o]) + 1
  PROVE  /\ outbox' \in [OrderIds -> Seq(Event)]
         /\ \A p \in OrderIds : Len(outbox'[p]) = IF p = o THEN Len(outbox[p]) + 1
                                                          ELSE Len(outbox[p])
         /\ VersionsFollow'
<1> DEFINE e == [name |-> name, version |-> Version(name)]
<1>1. e \in Event
  BY DEF Event, Version
<1>2. outbox' = [outbox EXCEPT ![o] = Append(outbox[o], e)] /\ outbox \in [OrderIds -> Seq(Event)]
  BY DEF Announce, StoreInv, TypeOK
<1>3. e.version = Len(outbox[o]) + 1
  OBVIOUS
<1> HIDE DEF e
<1>4. \A p \in OrderIds : outbox'[p] = IF p = o THEN Append(outbox[p], e) ELSE outbox[p]
  BY <1>2
<1>5. VersionsFollow'
  <2> SUFFICES ASSUME NEW p \in OrderIds, NEW i \in 1 .. Len(outbox'[p])
               PROVE  outbox'[p][i].version = i
    BY DEF VersionsFollow
  <2>1. CASE p # o
    BY <1>4, <2>1 DEF StoreInv, VersionsFollow
  <2>2. CASE p = o
    <3> DEFINE s == outbox[o]
    <3>1. s \in Seq(Event) /\ outbox'[p] = Append(s, e) /\ Len(s) \in Nat
      BY <1>2, <1>4, <2>2
    <3>2. \A j \in 1 .. Len(s) : s[j].version = j
      BY DEF StoreInv, VersionsFollow
    <3>3. i \in 1 .. Len(s) \/ i = Len(s) + 1
      BY <1>1, <3>1
    <3> HIDE DEF s
    <3> QED BY <1>1, <1>3, <3>1, <3>2, <3>3 DEF s
  <2> QED BY <2>1, <2>2
<1> QED BY <1>1, <1>2, <1>4, <1>5

-----------------------------------------------------------------------------
(* The table of moves *)

LEMMA MoveTable ==
  ASSUME NEW t \in Moves, NEW s \in Before(t)
  PROVE  \/ s \in {"pending", "paid"} /\ After[t][s] = "confirmed"
         \/ s = "confirmed" /\ After[t][s] = "dispatched"
         \/ s = "dispatched" /\ After[t][s] \in {"fulfilled", "cancelled"}
BY DEF Moves, Before, After

LEMMA ClaimTable == Before("claim_cancel") = {"paid", "confirmed"}
BY DEF Before, After

LEMMA SettleTable == Before("settle_cancel") = {"cancelling"}
BY DEF Before, After

-----------------------------------------------------------------------------
LEMMA InitInv == Init => StoreInv
<1> SUFFICES ASSUME Init PROVE StoreInv
  OBVIOUS
<1>1. \A o \in OrderIds : orders[o] = Unplaced /\ outbox[o] = <<>>
  BY DEF Init
<1>2. Unplaced.status = None /\ None = "none"
  BY DEF Unplaced, None
<1>3. TypeOK
  BY <1>1 DEF Init, TypeOK
<1>4. OrdersAreKept /\ OneOrderPerCommand /\ VersionsFollow
  BY <1>1, <1>2 DEF OrdersAreKept, OneOrderPerCommand, VersionsFollow
<1>5. GroupsAreKept
  BY <1>1, <1>2 DEF Init, GroupsAreKept, Placed, Statuses
<1>6. OutboxIsKept
  BY <1>1, <1>2 DEF OutboxIsKept, Told
<1> QED BY <1>3, <1>4, <1>5, <1>6 DEF StoreInv

(* One standing order is written over, and keeps its group and its command. *)
LEMMA Rewritten ==
  ASSUME StoreInv, NEW o \in OrderIds, NEW order \in Order,
         Placed(o), orders' = [orders EXCEPT ![o] = order],
         order.by = orders[o].by, order.group = orders[o].group,
         order.status = "cancelling" => order.claimedFrom \in {"paid", "confirmed"},
         UNCHANGED groups, claimed \subseteq claimed',
         claimed' \in SUBSET (Commands \cup (Captures \X OrderIds)),
         closing' \in SUBSET CloseRequest,
         outbox' \in [OrderIds -> Seq(Event)],
         \A p \in OrderIds \ {o} : Len(outbox'[p]) = Len(outbox[p]),
         Len(outbox'[o]) \in Told(order),
         VersionsFollow'
  PROVE  StoreInv'
<1>1. \A p \in OrderIds : orders'[p] = IF p = o THEN order ELSE orders[p]
  BY DEF StoreInv, TypeOK
<1>2. order.status \in Statuses \cup {"removed"} /\ order # Unplaced /\ orders[o] # Unplaced
  BY DEF Order, Placed, Unplaced, Statuses, None
<1>3. TypeOK'
  BY DEF StoreInv, TypeOK
<1>4. OrdersAreKept'
  BY <1>1, <1>2 DEF StoreInv, OrdersAreKept
<1>5. OneOrderPerCommand'
  BY <1>1, <1>2 DEF StoreInv, OneOrderPerCommand
<1>6. GroupsAreKept'
  BY <1>1, <1>2 DEF StoreInv, GroupsAreKept, Placed
<1>7. OutboxIsKept'
  BY <1>1 DEF StoreInv, OutboxIsKept
<1> QED BY <1>3, <1>4, <1>5, <1>6, <1>7 DEF StoreInv

LEMMA PlaceInv ==
  ASSUME StoreInv, NEW g \in Groups, NEW c \in Commands, Place(g, c)
  PROVE  StoreInv'
<1> DEFINE order == [status |-> "pending", group |-> g, by |-> c,
                     claimedFrom |-> None, paidAt |-> FALSE]
<1>1. PICK o \in OrderIds :
        /\ orders[o] = Unplaced
        /\ orders' = [orders EXCEPT ![o] = order]
        /\ groups' = [groups EXCEPT ![g].orderIds = @ \cup {o}]
        /\ Announce(o, "order.placed")
  BY DEF Place
<1>2. order \in Order /\ order # Unplaced
  BY DEF Order, Statuses, Unplaced, None
<1>3. Len(outbox[o]) = 0 /\ Version("order.placed") = 1
  <2>1. Told(Unplaced) = {0} /\ Version("order.placed") = 1
    BY DEF Told, Unplaced, Version, None
  <2>2. Len(outbox[o]) \in Told(Unplaced)
    BY <1>1 DEF StoreInv, OutboxIsKept
  <2> QED BY <2>1, <2>2
<1>4. /\ outbox' \in [OrderIds -> Seq(Event)]
      /\ \A p \in OrderIds : Len(outbox'[p]) = IF p = o THEN Len(outbox[p]) + 1
                                                       ELSE Len(outbox[p])
      /\ VersionsFollow'
  BY <1>1, <1>3, Announced
<1>5. \A p \in OrderIds : orders'[p] = IF p = o THEN order ELSE orders[p]
  BY <1>1 DEF StoreInv, TypeOK
<1>6. \A h \in Groups : /\ groups'[h].state = groups[h].state
                       /\ groups'[h].orderIds = IF h = g THEN groups[h].orderIds \cup {o}
                                                         ELSE groups[h].orderIds
  BY <1>1 DEF StoreInv, TypeOK
<1>7. claimed' = claimed \cup {c} /\ c \notin claimed /\ UNCHANGED closing
  BY DEF Place
<1>8. order.by = c /\ order.group = g /\ order.status = "pending"
  OBVIOUS
<1>9. \A p \in OrderIds : orders[p] # Unplaced => orders[p].by \in claimed
  BY DEF StoreInv, OrdersAreKept
<1>10. TypeOK'
  <2>1. groups' \in [Groups -> [state : {"unopened", "open", "removed"},
                                orderIds : SUBSET OrderIds]]
    BY <1>1 DEF StoreInv, TypeOK
  <2>2. orders' \in [OrderIds -> Order \cup {Unplaced}]
    BY <1>1, <1>2 DEF StoreInv, TypeOK
  <2> QED BY <1>4, <1>7, <2>1, <2>2 DEF StoreInv, TypeOK
<1> HIDE DEF order
<1>11. OrdersAreKept'
  BY <1>2, <1>5, <1>7, <1>8, <1>9 DEF StoreInv, OrdersAreKept
<1>12. OneOrderPerCommand'
  BY <1>5, <1>7, <1>8, <1>9 DEF StoreInv, OneOrderPerCommand
<1>13. GroupsAreKept'
  <2> SUFFICES ASSUME NEW p \in OrderIds, NEW h \in Groups
               PROVE  /\ orders'[p] # Unplaced /\ orders'[p].group = h =>
                           groups'[h].state # "unopened"
                      /\ p \in groups'[h].orderIds => orders'[p] # Unplaced /\ orders'[p].group = h
                      /\ Placed(p)' /\ groups'[h].state = "open" /\ orders'[p].group = h =>
                           p \in groups'[h].orderIds
    BY DEF GroupsAreKept
  <2>1. CASE p = o
    <3>1. orders'[p] = order /\ p \notin groups[h].orderIds
      BY <1>1, <1>5, <2>1 DEF StoreInv, GroupsAreKept
    <3>2. /\ p \in groups'[h].orderIds <=> h = g
          /\ h = g => groups'[h].state # "unopened"
      BY <1>6, <2>1, <3>1 DEF Place
    <3> QED BY <1>2, <1>8, <3>1, <3>2
  <2>2. CASE p # o
    <3>1. /\ orders'[p] = orders[p]
          /\ p \in groups'[h].orderIds <=> p \in groups[h].orderIds
          /\ groups'[h].state = groups[h].state
      BY <1>5, <1>6, <2>2
    <3>2. Placed(p)' <=> Placed(p)
      BY <3>1 DEF Placed
    <3> QED BY <3>1, <3>2 DEF StoreInv, GroupsAreKept
  <2> QED BY <2>1, <2>2
<1>14. OutboxIsKept'
  <2>1. Told(order) = {1}
    BY <1>8 DEF Told, None
  <2> QED BY <1>3, <1>4, <1>5, <2>1 DEF StoreInv, OutboxIsKept
<1> QED BY <1>4, <1>10, <1>11, <1>12, <1>13, <1>14 DEF StoreInv

-----------------------------------------------------------------------------
(* The other steps *)

LEMMA PlacedIsOrder ==
  ASSUME StoreInv, NEW o \in OrderIds, Placed(o)
  PROVE  /\ orders[o] \in Order /\ orders[o] # Unplaced
         /\ orders[o].status = "cancelled" => Len(outbox[o]) = 2
         /\ orders[o].status # "cancelled" => Len(outbox[o]) = 1
<1>1. orders[o] # Unplaced
  BY DEF Placed, Unplaced, Statuses, None
<1>2. Len(outbox[o]) \in Told(orders[o])
  BY DEF StoreInv, OutboxIsKept
<1> QED BY <1>1, <1>2 DEF StoreInv, OrdersAreKept, Placed, Statuses, Told, None

(* Announcing nothing. *)
LEMMA SaidNothing ==
  ASSUME StoreInv, UNCHANGED outbox
  PROVE  /\ outbox' \in [OrderIds -> Seq(Event)]
         /\ \A p \in OrderIds : Len(outbox'[p]) = Len(outbox[p])
         /\ VersionsFollow'
BY DEF StoreInv, TypeOK, VersionsFollow

(* The end of an order that was not yet cancelled is its second.             *)
LEMMA SaidCancelled ==
  ASSUME StoreInv, NEW o \in OrderIds, Placed(o), orders[o].status # "cancelled",
         Announce(o, "order.cancelled")
  PROVE  /\ outbox' \in [OrderIds -> Seq(Event)]
         /\ \A p \in OrderIds : Len(outbox'[p]) = IF p = o THEN Len(outbox[p]) + 1
                                                          ELSE Len(outbox[p])
         /\ \A p \in OrderIds \ {o} : Len(outbox'[p]) = Len(outbox[p])
         /\ Len(outbox'[o]) = 2
         /\ VersionsFollow'
<1>1. Len(outbox[o]) = 1
  BY PlacedIsOrder
<1>2. Version("order.cancelled") = 2
  BY DEF Version
<1> DEFINE name == "order.cancelled"
<1>3. /\ name \in {"order.placed", "order.cancelled"} /\ Announce(o, name)
      /\ Version(name) = Len(outbox[o]) + 1
  BY <1>1, <1>2
<1> HIDE DEF name
<1>4. /\ outbox' \in [OrderIds -> Seq(Event)]
      /\ \A p \in OrderIds : Len(outbox'[p]) = IF p = o THEN Len(outbox[p]) + 1
                                                       ELSE Len(outbox[p])
      /\ VersionsFollow'
  BY <1>3, Announced
<1>5. Len(outbox'[o]) = 2
  <2>1. Len(outbox'[o]) = Len(outbox[o]) + 1
    BY <1>4
  <2> QED BY <1>1, <2>1
<1>6. \A p \in OrderIds \ {o} : Len(outbox'[p]) = Len(outbox[p])
  BY <1>4
<1> QED BY <1>4, <1>5, <1>6

LEMMA ToldTable ==
  ASSUME NEW order \in Order
  PROVE  /\ order.status = "cancelled" => Told(order) = {2}
         /\ order.status = "removed" => Told(order) = {1, 2}
         /\ order.status \notin {"cancelled", "removed"} => Told(order) = {1}
BY DEF Order, Told, Statuses, None

LEMMA MoveInv ==
  ASSUME StoreInv, NEW o \in OrderIds, NEW t \in Moves, NEW c \in Commands,
         Move(o, t, c), closing' \in SUBSET CloseRequest
  PROVE  StoreInv'
<1> DEFINE to == After[t][orders[o].status]
           order == [orders[o] EXCEPT !.status = to]
<1>1. /\ orders[o].status \in Before(t)
      /\ orders' = [orders EXCEPT ![o] = order]
      /\ IF to = "cancelled" THEN Announce(o, "order.cancelled") ELSE UNCHANGED outbox
      /\ claimed' = claimed \cup {c} /\ UNCHANGED groups
  BY DEF Move, CanMove
<1>2. /\ orders[o].status \in {"pending", "paid", "confirmed", "dispatched"}
      /\ to \in {"confirmed", "dispatched", "fulfilled", "cancelled"}
  BY <1>1, MoveTable
<1>3. Placed(o) /\ orders[o].status # "cancelled"
  BY <1>2 DEF Placed, Statuses
<1>4. orders[o] \in Order /\ Len(outbox[o]) = 1
  BY <1>3, PlacedIsOrder
<1> HIDE DEF to
<1>5. /\ order \in Order /\ order.status = to
      /\ order.by = orders[o].by /\ order.group = orders[o].group
  BY <1>2, <1>4 DEF Order, Statuses
<1> HIDE DEF order
<1>6. /\ outbox' \in [OrderIds -> Seq(Event)]
      /\ \A p \in OrderIds \ {o} : Len(outbox'[p]) = Len(outbox[p])
      /\ Len(outbox'[o]) = IF to = "cancelled" THEN 2 ELSE 1
      /\ VersionsFollow'
  <2>1. CASE to = "cancelled"
    BY <1>1, <1>3, <2>1, SaidCancelled
  <2>2. CASE to # "cancelled"
    BY <1>1, <1>4, <2>2, SaidNothing
  <2> QED BY <2>1, <2>2
<1>7. Len(outbox'[o]) \in Told(order)
  BY <1>2, <1>5, <1>6, ToldTable
<1>8. claimed' \in SUBSET (Commands \cup (Captures \X OrderIds)) /\ claimed \subseteq claimed'
  BY <1>1 DEF StoreInv, TypeOK
<1>9. order.status # "cancelling"
  BY <1>2, <1>5
<1> QED BY <1>1, <1>3, <1>5, <1>6, <1>7, <1>8, <1>9, Rewritten

LEMMA RemoveInv ==
  ASSUME StoreInv, NEW o \in OrderIds, Remove(o)
  PROVE  StoreInv'
<1> DEFINE order == [orders[o] EXCEPT !.status = "removed"]
<1>1. /\ Placed(o) /\ orders' = [orders EXCEPT ![o] = order]
      /\ UNCHANGED <<groups, claimed, closing, outbox>>
  BY DEF Remove
<1>2. orders[o] \in Order /\ Len(outbox[o]) \in {1, 2}
  BY <1>1, PlacedIsOrder
<1>3. /\ order \in Order /\ order.status = "removed"
      /\ order.by = orders[o].by /\ order.group = orders[o].group
  BY <1>2 DEF Order
<1> HIDE DEF order
<1>4. Len(outbox'[o]) \in Told(order)
  BY <1>1, <1>2, <1>3, ToldTable
<1>5. claimed' \in SUBSET (Commands \cup (Captures \X OrderIds)) /\ closing' \in SUBSET CloseRequest
  BY <1>1 DEF StoreInv, TypeOK
<1> QED BY <1>1, <1>3, <1>4, <1>5, SaidNothing, Rewritten

LEMMA MarkPaidInv ==
  ASSUME StoreInv, NEW o \in OrderIds, NEW e \in Captures, MarkPaid(o, e)
  PROVE  StoreInv'
<1> DEFINE order == [orders[o] EXCEPT !.status = "paid", !.paidAt = TRUE]
<1>1. /\ claimed' = claimed \cup {<<e, o>>} /\ UNCHANGED <<groups, closing, outbox>>
      /\ orders' = IF orders[o].status = "pending" THEN [orders EXCEPT ![o] = order] ELSE orders
  BY DEF MarkPaid, StoreInv, TypeOK
<1>2. claimed' \in SUBSET (Commands \cup (Captures \X OrderIds)) /\ claimed \subseteq claimed'
  BY <1>1 DEF StoreInv, TypeOK
<1>3. closing' \in SUBSET CloseRequest
  BY <1>1 DEF StoreInv, TypeOK
<1>4. CASE orders[o].status = "pending"
  <2>1. Placed(o)
    BY <1>4 DEF Placed, Statuses
  <2>2. orders[o] \in Order /\ Len(outbox[o]) = 1
    BY <1>4, <2>1, PlacedIsOrder
  <2>3. /\ order \in Order /\ order.status = "paid"
        /\ order.by = orders[o].by /\ order.group = orders[o].group
    BY <2>2 DEF Order, Statuses
  <2>4. orders' = [orders EXCEPT ![o] = order]
    BY <1>1, <1>4
  <2> HIDE DEF order
  <2>5. Len(outbox'[o]) \in Told(order)
    BY <1>1, <2>2, <2>3, ToldTable
  <2> QED BY <1>1, <1>2, <1>3, <2>1, <2>3, <2>4, <2>5, SaidNothing, Rewritten
<1>5. CASE orders[o].status # "pending"
  <2>1. UNCHANGED orders /\ UNCHANGED groups
    BY <1>1, <1>5
  <2>2. TypeOK'
    BY <1>1, <1>2, <1>3, <2>1 DEF StoreInv, TypeOK
  <2>3. OrdersAreKept'
    BY <1>2, <2>1 DEF StoreInv, OrdersAreKept
  <2>4. OneOrderPerCommand'
    BY <2>1 DEF StoreInv, OneOrderPerCommand
  <2>6. GroupsAreKept'
    BY <2>1 DEF StoreInv, GroupsAreKept, Placed
  <2>5. OutboxIsKept' /\ VersionsFollow'
    BY <1>1, <2>1 DEF StoreInv, OutboxIsKept, VersionsFollow
  <2> QED BY <2>2, <2>3, <2>4, <2>5, <2>6 DEF StoreInv
<1> QED BY <1>4, <1>5

LEMMA ClaimInv ==
  ASSUME StoreInv, NEW o \in OrderIds, NEW c \in Commands, ClaimCancellation(o, c)
  PROVE  StoreInv'
<1> DEFINE order == [orders[o] EXCEPT !.status = "cancelling", !.claimedFrom = orders[o].status]
<1>1. /\ claimed' = claimed \cup {c} /\ UNCHANGED <<groups, closing, outbox>>
      /\ orders' = [orders EXCEPT ![o] = order]
      /\ orders[o].status \in {"paid", "confirmed"}
  BY ClaimTable DEF ClaimCancellation, CanMove, StoreInv, TypeOK
<1>2. Placed(o) /\ orders[o].status # "cancelled"
  BY <1>1 DEF Placed, Statuses
<1>3. orders[o] \in Order /\ Len(outbox[o]) = 1
  BY <1>2, PlacedIsOrder
<1>4. /\ order \in Order /\ order.status = "cancelling" /\ order.claimedFrom = orders[o].status
      /\ order.by = orders[o].by /\ order.group = orders[o].group
  BY <1>1, <1>3, ClaimTable DEF Order, Statuses
<1> HIDE DEF order
<1>5. Len(outbox'[o]) \in Told(order)
  BY <1>1, <1>3, <1>4, ToldTable
<1>6. /\ claimed' \in SUBSET (Commands \cup (Captures \X OrderIds)) /\ claimed \subseteq claimed'
      /\ closing' \in SUBSET CloseRequest
  BY <1>1 DEF StoreInv, TypeOK
<1> QED BY <1>1, <1>2, <1>4, <1>5, <1>6, SaidNothing, Rewritten

LEMMA ReleaseInv ==
  ASSUME StoreInv, NEW o \in OrderIds, ReleaseCancellation(o)
  PROVE  StoreInv'
<1> DEFINE from == orders[o].claimedFrom
           order == [orders[o] EXCEPT !.status = from, !.claimedFrom = None]
<1>1. /\ orders[o].status = "cancelling" /\ UNCHANGED <<groups, claimed, closing, outbox>>
      /\ orders' = [orders EXCEPT ![o] = order]
  BY DEF ReleaseCancellation, StoreInv, TypeOK
<1>2. Placed(o) /\ from \in {"paid", "confirmed"}
  BY <1>1 DEF Placed, Statuses, StoreInv, OrdersAreKept
<1>3. orders[o] \in Order /\ Len(outbox[o]) = 1
  BY <1>1, <1>2, PlacedIsOrder
<1> HIDE DEF from
<1>4. /\ order \in Order /\ order.status = from
      /\ order.by = orders[o].by /\ order.group = orders[o].group
  BY <1>2, <1>3 DEF Order, Statuses
<1> HIDE DEF order
<1>5. Len(outbox'[o]) \in Told(order)
  BY <1>1, <1>2, <1>3, <1>4, ToldTable
<1>6. claimed' \in SUBSET (Commands \cup (Captures \X OrderIds)) /\ closing' \in SUBSET CloseRequest
  BY <1>1 DEF StoreInv, TypeOK
<1> QED BY <1>1, <1>2, <1>4, <1>5, <1>6, SaidNothing, Rewritten

LEMMA SettleInv ==
  ASSUME StoreInv, NEW k \in closing, SettleCancellation(k)
  PROVE  StoreInv'
<1> DEFINE o == k.order
           order == [orders[o] EXCEPT !.status = "cancelled"]
<1>1. o \in OrderIds /\ k.command \in Commands
  BY DEF StoreInv, TypeOK, CloseRequest
<1>2. /\ orders[o].status = "cancelling"
      /\ orders' = [orders EXCEPT ![o] = order]
      /\ Announce(o, "order.cancelled")
      /\ claimed' = claimed \cup {k.command} /\ closing' = closing \ {k} /\ UNCHANGED groups
  BY SettleTable DEF SettleCancellation, CanMove
<1>3. Placed(o) /\ orders[o].status # "cancelled"
  BY <1>2 DEF Placed, Statuses
<1>4. orders[o] \in Order
  BY <1>1, <1>3, PlacedIsOrder
<1>5. /\ order \in Order /\ order.status = "cancelled"
      /\ order.by = orders[o].by /\ order.group = orders[o].group
  BY <1>4 DEF Order, Statuses
<1> HIDE DEF order, o
<1>6. /\ outbox' \in [OrderIds -> Seq(Event)]
      /\ \A p \in OrderIds \ {o} : Len(outbox'[p]) = Len(outbox[p])
      /\ Len(outbox'[o]) = 2
      /\ VersionsFollow'
  BY <1>1, <1>2, <1>3, SaidCancelled
<1>7. Len(outbox'[o]) \in Told(order)
  BY <1>5, <1>6, ToldTable
<1>8. /\ claimed' \in SUBSET (Commands \cup (Captures \X OrderIds)) /\ claimed \subseteq claimed'
      /\ closing' \in SUBSET CloseRequest
  BY <1>1, <1>2 DEF StoreInv, TypeOK
<1> QED BY <1>1, <1>2, <1>3, <1>5, <1>6, <1>7, <1>8, Rewritten

LEMMA CloseParcelInv ==
  ASSUME StoreInv, NEW k \in closing, CloseParcel(k)
  PROVE  StoreInv'
<1>1. /\ k.order \in OrderIds /\ k.command \in Commands
      /\ closing' \in SUBSET CloseRequest
  BY DEF StoreInv, TypeOK, CloseRequest, CloseParcel
<1>2. Move(k.order, "close_cancelled", k.command) /\ "close_cancelled" \in Moves
  BY DEF CloseParcel, Moves
<1> QED BY <1>1, <1>2, MoveInv

(* Neither a group's opening or going nor a request on its way moves an      *)
(* order.                                                                    *)
LEMMA OrdersUntouched ==
  ASSUME StoreInv, UNCHANGED <<orders, claimed, outbox>>, closing' \in SUBSET CloseRequest,
         \/ UNCHANGED groups
         \/ \E g \in Groups : OpenGroup(g) \/ RemoveGroup(g)
  PROVE  StoreInv'
<1>1. /\ groups' \in [Groups -> [state : {"unopened", "open", "removed"},
                               orderIds : SUBSET OrderIds]]
      /\ GroupsAreKept'
  <2>1. CASE UNCHANGED groups
    BY <2>1 DEF StoreInv, TypeOK, GroupsAreKept, Placed
  <2>2. ASSUME NEW g \in Groups, OpenGroup(g)
        PROVE  /\ groups' \in [Groups -> [state : {"unopened", "open", "removed"},
                                       orderIds : SUBSET OrderIds]]
               /\ GroupsAreKept'
    <3>1. groups[g].state = "unopened" /\ groups' = [groups EXCEPT ![g].state = "open"]
      BY <2>2 DEF OpenGroup
    <3>2. groups' \in [Groups -> [state : {"unopened", "open", "removed"},
                                  orderIds : SUBSET OrderIds]]
      BY <3>1 DEF StoreInv, TypeOK
    <3>3. \A h \in Groups : /\ groups'[h].orderIds = groups[h].orderIds
                           /\ groups'[h].state = IF h = g THEN "open" ELSE groups[h].state
      BY <3>1 DEF StoreInv, TypeOK
    <3>4. \A o \in OrderIds : Placed(o) => orders[o] # Unplaced
      BY PlacedIsOrder
    <3> QED BY <3>1, <3>2, <3>3, <3>4 DEF StoreInv, GroupsAreKept, Placed
  <2>3. ASSUME NEW g \in Groups, RemoveGroup(g)
        PROVE  /\ groups' \in [Groups -> [state : {"unopened", "open", "removed"},
                                       orderIds : SUBSET OrderIds]]
               /\ GroupsAreKept'
    <3>1. groups' = [groups EXCEPT ![g] = [state |-> "removed", orderIds |-> {}]]
      BY <2>3 DEF RemoveGroup
    <3>2. \A h \in Groups : groups'[h] = IF h = g THEN [state |-> "removed", orderIds |-> {}]
                                                 ELSE groups[h]
      BY <3>1 DEF StoreInv, TypeOK
    <3> QED BY <3>1, <3>2 DEF StoreInv, TypeOK, GroupsAreKept, Placed
  <2> QED BY <2>1, <2>2, <2>3
<1>2. TypeOK'
  BY <1>1 DEF StoreInv, TypeOK
<1>3. OrdersAreKept' /\ OneOrderPerCommand' /\ OutboxIsKept' /\ VersionsFollow'
  BY DEF StoreInv, OrdersAreKept, OneOrderPerCommand, OutboxIsKept, VersionsFollow
<1> QED BY <1>1, <1>2, <1>3 DEF StoreInv

-----------------------------------------------------------------------------
LEMMA StepInv == StoreInv /\ [Next]_vars => StoreInv'
<1> SUFFICES ASSUME StoreInv, [Next]_vars PROVE StoreInv'
  OBVIOUS
<1>1. ASSUME NEW g \in Groups, OpenGroup(g) \/ RemoveGroup(g) PROVE StoreInv'
  <2>1. UNCHANGED <<orders, claimed, outbox>> /\ closing' \in SUBSET CloseRequest
    BY <1>1 DEF OpenGroup, RemoveGroup, StoreInv, TypeOK
  <2> QED BY <1>1, <2>1, OrdersUntouched
<1>2. ASSUME NEW o \in OrderIds, NEW c \in Commands, ReadForClose(o, c) PROVE StoreInv'
  <2>1. [order |-> o, command |-> c, claimHeld |-> orders[o].status = "cancelling"] \in CloseRequest
    BY DEF CloseRequest
  <2>2. UNCHANGED <<groups, orders, claimed, outbox>> /\ closing' \in SUBSET CloseRequest
    BY <1>2, <2>1 DEF ReadForClose, StoreInv, TypeOK
  <2> QED BY <2>2, OrdersUntouched
<1>3. ASSUME NEW k \in closing, CloseEnds(k) PROVE StoreInv'
  <2>1. UNCHANGED <<groups, orders, claimed, outbox>> /\ closing' \in SUBSET CloseRequest
    BY <1>3 DEF CloseEnds, StoreInv, TypeOK
  <2> QED BY <2>1, OrdersUntouched
<1>4. ASSUME NEW o \in OrderIds, NEW c \in Commands, NEW t \in Moves,
             Move(o, t, c) /\ UNCHANGED closing
      PROVE  StoreInv'
  <2>1. closing' \in SUBSET CloseRequest
    BY <1>4 DEF StoreInv, TypeOK
  <2> QED BY <1>4, <2>1, MoveInv
<1>5. CASE UNCHANGED vars
  <2>1. UNCHANGED <<groups, orders, claimed, outbox>> /\ closing' \in SUBSET CloseRequest
    BY <1>5 DEF vars, StoreInv, TypeOK
  <2> QED BY <2>1, OrdersUntouched
<1> QED BY <1>1, <1>2, <1>3, <1>4, <1>5, PlaceInv, RemoveInv, ReleaseInv, MarkPaidInv,
           ClaimInv, SettleInv, CloseParcelInv
        DEF Next

LEMMA StoreInvAlways == Spec => []StoreInv
BY InitInv, StepInv, PTL DEF Spec

(* Every variable keeps its type. *)
THEOREM TypeCorrect == Spec => []TypeOK
<1>1. StoreInv => TypeOK
  BY DEF StoreInv
<1> QED BY <1>1, StoreInvAlways, PTL

(* However often a place step is delivered, one order comes of it.           *)
THEOREM OneOrderPerCommandAlways == Spec => []OneOrderPerCommand
<1>1. StoreInv => OneOrderPerCommand
  BY DEF StoreInv
<1> QED BY <1>1, StoreInvAlways, PTL

(* A receipt lists the orders placed under it and no others.                 *)
THEOREM ListedByItsGroupAlways == Spec => []ListedByItsGroup
<1>1. StoreInv => ListedByItsGroup
  BY PlacedIsOrder DEF StoreInv, GroupsAreKept, ListedByItsGroup
<1> QED BY <1>1, StoreInvAlways, PTL

(* The announcements of an order are versioned in the order they were made.  *)
THEOREM VersionsFollowAlways == Spec => []VersionsFollow
<1>1. StoreInv => VersionsFollow
  BY DEF StoreInv
<1> QED BY <1>1, StoreInvAlways, PTL

-----------------------------------------------------------------------------
(* The store implements OrderLife *)

Stands == [o \in OrderIds |-> StandOf(orders[o])]

Locked == [o \in OrderIds |-> orders[o].status = "cancelling"]

Tolds == [o \in OrderIds |-> Len(outbox[o])]

LEMMA StandTable ==
  ASSUME NEW order \in Order
  PROVE  StandOf(order) = CASE order.status = "removed"    -> "undone"
                            [] order.status = "cancelling" -> order.claimedFrom
                            [] OTHER                       -> order.status
BY DEF Order, StandOf, Statuses, None

(* What a rewritten order is to the abstract life. *)
LEMMA LifeMoves ==
  ASSUME StoreInv, NEW o \in OrderIds, NEW order,
         orders' = [orders EXCEPT ![o] = order]
  PROVE  /\ Stands' = [Stands EXCEPT ![o] = StandOf(order)]
         /\ StandOf(order) = Stands[o] => Stands' = Stands
         /\ order.status = "cancelling" => Locked' = [Locked EXCEPT ![o] = TRUE]
         /\ order.status # "cancelling" =>
              /\ Locked' = [Locked EXCEPT ![o] = FALSE]
              /\ ~Locked[o] => Locked' = Locked
<1>1. \A p \in OrderIds : orders'[p] = IF p = o THEN order ELSE orders[p]
  BY DEF StoreInv, TypeOK
<1>2. \A p \in OrderIds : StandOf(orders'[p]) = IF p = o THEN StandOf(order) ELSE StandOf(orders[p])
  BY <1>1
<1>3. /\ Stands' = [Stands EXCEPT ![o] = StandOf(order)]
      /\ StandOf(order) = Stands[o] => Stands' = Stands
  BY <1>2 DEF Stands
<1>4. ASSUME order.status = "cancelling" PROVE Locked' = [Locked EXCEPT ![o] = TRUE]
  <2>1. \A p \in OrderIds : Locked'[p] = IF p = o THEN TRUE ELSE Locked[p]
    BY <1>1, <1>4 DEF Locked
  <2> QED BY <2>1 DEF Locked
<1>5. ASSUME order.status # "cancelling"
      PROVE  Locked' = [Locked EXCEPT ![o] = FALSE] /\ (~Locked[o] => Locked' = Locked)
  <2>1. \A p \in OrderIds : Locked'[p] = IF p = o THEN FALSE ELSE Locked[p]
    BY <1>1, <1>5 DEF Locked
  <2>2. Locked' = [Locked EXCEPT ![o] = FALSE]
    BY <2>1 DEF Locked
  <2>3. ASSUME ~Locked[o] PROVE Locked' = Locked
    <3>1. \A p \in OrderIds : Locked'[p] = Locked[p]
      BY <2>1, <2>3 DEF Locked
    <3> QED BY <3>1 DEF Locked
  <2> QED BY <2>2, <2>3
<1> QED BY <1>3, <1>4, <1>5

LEMMA LifeSays ==
  ASSUME NEW o \in OrderIds,
         \A p \in OrderIds : Len(outbox'[p]) = IF p = o THEN Len(outbox[p]) + 1
                                                        ELSE Len(outbox[p])
  PROVE  Tolds' = [Tolds EXCEPT ![o] = @ + 1]
BY DEF Tolds

LEMMA LifeIsSilent ==
  ASSUME UNCHANGED outbox
  PROVE  Tolds' = Tolds
BY DEF Tolds

LEMMA LifeStutters ==
  ASSUME UNCHANGED <<orders, outbox>>
  PROVE  UNCHANGED Life!vars
BY DEF Life!vars, StandOf

LEMMA LifePlace ==
  ASSUME StoreInv, NEW g \in Groups, NEW c \in Commands, Place(g, c)
  PROVE  Life!Next
<1> DEFINE order == [status |-> "pending", group |-> g, by |-> c,
                     claimedFrom |-> None, paidAt |-> FALSE]
<1>1. PICK o \in OrderIds : /\ orders[o] = Unplaced
                            /\ orders' = [orders EXCEPT ![o] = order]
                            /\ Announce(o, "order.placed")
  BY DEF Place
<1>2. StandOf(order) = "pending" /\ order.status # "cancelling"
  BY DEF StandOf, None
<1>3. Stands[o] = "unplaced" /\ ~Locked[o]
  <2>1. StandOf(Unplaced) = "unplaced" /\ Unplaced.status # "cancelling"
    BY DEF StandOf, Unplaced, None
  <2> QED BY <1>1, <2>1 DEF Stands, Locked
<1> HIDE DEF order
<1>4. Stands' = [Stands EXCEPT ![o] = "pending"] /\ Locked' = Locked
  <2>1. Stands' = [Stands EXCEPT ![o] = StandOf(order)] /\ Locked' = Locked
    BY <1>1, <1>2, <1>3, LifeMoves
  <2> QED BY <2>1, <1>2
<1>5. Len(outbox[o]) = 0
  <2>1. Told(Unplaced) = {0}
    BY DEF Told, Unplaced, None
  <2> QED BY <1>1, <2>1 DEF StoreInv, OutboxIsKept
<1>6. Version("order.placed") = 1
  BY DEF Version
<1>7. Tolds' = [Tolds EXCEPT ![o] = @ + 1]
  BY <1>1, <1>5, <1>6, Announced, LifeSays
<1> QED BY <1>3, <1>4, <1>7
        DEF Life!Next, Life!Place, Life!Goes, Stands, Locked, Tolds

LEMMA LifeMove ==
  ASSUME StoreInv, NEW o \in OrderIds, NEW t \in Moves, NEW c \in Commands, Move(o, t, c)
  PROVE  Life!Next
<1> DEFINE from == orders[o].status
           to == After[t][from]
           order == [orders[o] EXCEPT !.status = to]
<1>1. /\ from \in Before(t)
      /\ orders' = [orders EXCEPT ![o] = order]
      /\ IF to = "cancelled" THEN Announce(o, "order.cancelled") ELSE UNCHANGED outbox
  BY DEF Move, CanMove
<1>2. \/ from \in {"pending", "paid"} /\ to = "confirmed"
      \/ from = "confirmed" /\ to = "dispatched"
      \/ from = "dispatched" /\ to \in {"fulfilled", "cancelled"}
  BY <1>1, MoveTable
<1>3. Placed(o) /\ orders[o].status # "cancelled"
  BY <1>2 DEF Placed, Statuses
<1>4. orders[o] \in Order
  BY <1>3, PlacedIsOrder
<1> HIDE DEF to
<1>5. order \in Order /\ order.status = to
  BY <1>2, <1>4 DEF Order, Statuses
<1>6. Stands[o] = from /\ ~Locked[o]
  BY <1>2, <1>4, StandTable DEF Stands, Locked
<1> HIDE DEF order, from
<1>7. Stands' = [Stands EXCEPT ![o] = to] /\ Locked' = Locked
  <2>1. StandOf(order) = to /\ order.status # "cancelling"
    BY <1>2, <1>5, StandTable
  <2> QED BY <1>1, <1>6, <2>1, LifeMoves
<1>8. CASE to = "cancelled"
  <2>1. Tolds' = [Tolds EXCEPT ![o] = @ + 1]
    BY <1>1, <1>3, <1>8, SaidCancelled, LifeSays
  <2>2. Life!ComeBack(o)
    BY <1>2, <1>6, <1>7, <1>8, <2>1 DEF Life!ComeBack, Life!Goes, Stands, Locked, Tolds
  <2> QED BY <2>2 DEF Life!Next
<1>9. CASE to # "cancelled"
  <2>1. Tolds' = Tolds
    BY <1>1, <1>9, LifeIsSilent
  <2>2. Life!Advance(o)
    BY <1>2, <1>6, <1>7, <1>9, <2>1 DEF Life!Advance, Life!Goes, Stands, Locked, Tolds
  <2> QED BY <2>2 DEF Life!Next
<1> QED BY <1>8, <1>9

LEMMA LifeRemove ==
  ASSUME StoreInv, NEW o \in OrderIds, Remove(o)
  PROVE  Life!Next
<1> DEFINE order == [orders[o] EXCEPT !.status = "removed"]
<1>1. Placed(o) /\ orders' = [orders EXCEPT ![o] = order] /\ UNCHANGED outbox
  BY DEF Remove
<1>2. orders[o] \in Order
  BY <1>1, PlacedIsOrder
<1>3. order \in Order /\ order.status = "removed"
  BY <1>2 DEF Order
<1>4. Stands[o] # "unplaced"
  <2>1. orders[o].status = "cancelling" => orders[o].claimedFrom \in {"paid", "confirmed"}
    BY DEF StoreInv, OrdersAreKept
  <2> QED BY <1>1, <1>2, <2>1, StandTable DEF Stands, Placed, Statuses
<1> HIDE DEF order
<1>5. StandOf(order) = "undone" /\ order.status # "cancelling"
  BY <1>3, StandTable
<1>6. Stands' = [Stands EXCEPT ![o] = "undone"] /\ Locked' = [Locked EXCEPT ![o] = FALSE]
  <2>1. Stands' = [Stands EXCEPT ![o] = StandOf(order)] /\ Locked' = [Locked EXCEPT ![o] = FALSE]
    BY <1>1, <1>5, LifeMoves
  <2> QED BY <2>1, <1>5
<1>7. Tolds' = Tolds
  BY <1>1, LifeIsSilent
<1>8. Life!Undo(o)
  BY <1>4, <1>6, <1>7 DEF Life!Undo, Stands, Locked, Tolds
<1> QED BY <1>8 DEF Life!Next

LEMMA LifeMarkPaid ==
  ASSUME StoreInv, NEW o \in OrderIds, NEW e \in Captures, MarkPaid(o, e)
  PROVE  [Life!Next]_(Life!vars)
<1> DEFINE order == [orders[o] EXCEPT !.status = "paid", !.paidAt = TRUE]
<1>1. /\ UNCHANGED outbox
      /\ orders' = IF orders[o].status = "pending" THEN [orders EXCEPT ![o] = order] ELSE orders
  BY DEF MarkPaid, StoreInv, TypeOK
<1>2. CASE orders[o].status = "pending"
  <2>1. Placed(o)
    BY <1>2 DEF Placed, Statuses
  <2>2. orders[o] \in Order
    BY <2>1, PlacedIsOrder
  <2>3. order \in Order /\ order.status = "paid"
    BY <2>2 DEF Order, Statuses
  <2>4. Stands[o] = "pending" /\ ~Locked[o]
    BY <1>2, <2>2, StandTable DEF Stands, Locked
  <2>5. orders' = [orders EXCEPT ![o] = order]
    BY <1>1, <1>2
  <2> HIDE DEF order
  <2>6. StandOf(order) = "paid" /\ order.status # "cancelling"
    BY <2>3, StandTable
  <2>7. Stands' = [Stands EXCEPT ![o] = "paid"] /\ Locked' = Locked
    <3>1. Stands' = [Stands EXCEPT ![o] = StandOf(order)] /\ Locked' = Locked
      BY <2>4, <2>5, <2>6, LifeMoves
    <3> QED BY <3>1, <2>6
  <2>8. Tolds' = Tolds
    BY <1>1, LifeIsSilent
  <2>9. Life!Advance(o)
    BY <2>4, <2>7, <2>8 DEF Life!Advance, Life!Goes, Stands, Locked, Tolds
  <2> QED BY <2>9 DEF Life!Next
<1>3. CASE orders[o].status # "pending"
  BY <1>1, <1>3, LifeStutters
<1> QED BY <1>2, <1>3

LEMMA LifeClaim ==
  ASSUME StoreInv, NEW o \in OrderIds, NEW c \in Commands, ClaimCancellation(o, c)
  PROVE  Life!Next
<1> DEFINE from == orders[o].status
           order == [orders[o] EXCEPT !.status = "cancelling", !.claimedFrom = from]
<1>1. /\ UNCHANGED outbox /\ orders' = [orders EXCEPT ![o] = order]
      /\ from \in {"paid", "confirmed"}
  BY ClaimTable DEF ClaimCancellation, CanMove, StoreInv, TypeOK
<1>2. Placed(o)
  BY <1>1 DEF Placed, Statuses
<1>3. orders[o] \in Order
  BY <1>2, PlacedIsOrder
<1>4. order \in Order /\ order.status = "cancelling" /\ order.claimedFrom = from
  BY <1>1, <1>3, ClaimTable DEF Order, Statuses
<1>5. Stands[o] = from /\ ~Locked[o]
  BY <1>1, <1>3, StandTable DEF Stands, Locked
<1> HIDE DEF order, from
<1>6. StandOf(order) = from
  BY <1>4, StandTable
<1>7. Stands' = Stands /\ Locked' = [Locked EXCEPT ![o] = TRUE]
  BY <1>1, <1>4, <1>5, <1>6, LifeMoves
<1>8. Tolds' = Tolds
  BY <1>1, LifeIsSilent
<1>9. Life!Lock(o)
  BY <1>1, <1>5, <1>7, <1>8 DEF Life!Lock, Stands, Locked, Tolds
<1> QED BY <1>9 DEF Life!Next

LEMMA LifeRelease ==
  ASSUME StoreInv, NEW o \in OrderIds, ReleaseCancellation(o)
  PROVE  Life!Next
<1> DEFINE from == orders[o].claimedFrom
           order == [orders[o] EXCEPT !.status = from, !.claimedFrom = None]
<1>1. /\ orders[o].status = "cancelling" /\ UNCHANGED outbox
      /\ orders' = [orders EXCEPT ![o] = order]
  BY DEF ReleaseCancellation, StoreInv, TypeOK
<1>2. Placed(o) /\ from \in {"paid", "confirmed"}
  BY <1>1 DEF Placed, Statuses, StoreInv, OrdersAreKept
<1>3. orders[o] \in Order
  BY <1>2, PlacedIsOrder
<1>4. Stands[o] = from /\ Locked[o]
  BY <1>1, <1>3, StandTable DEF Stands, Locked
<1> HIDE DEF from
<1>5. order \in Order /\ order.status = from
  BY <1>2, <1>3 DEF Order, Statuses
<1> HIDE DEF order
<1>6. StandOf(order) = from /\ order.status # "cancelling"
  BY <1>2, <1>5, StandTable
<1>7. Stands' = Stands /\ Locked' = [Locked EXCEPT ![o] = FALSE]
  BY <1>1, <1>4, <1>6, LifeMoves
<1>8. Tolds' = Tolds
  BY <1>1, LifeIsSilent
<1>9. Life!Unlock(o)
  BY <1>4, <1>7, <1>8 DEF Life!Unlock, Stands, Locked, Tolds
<1> QED BY <1>9 DEF Life!Next

LEMMA LifeSettle ==
  ASSUME StoreInv, NEW k \in closing, SettleCancellation(k)
  PROVE  Life!Next
<1> DEFINE o == k.order
           order == [orders[o] EXCEPT !.status = "cancelled"]
<1>1. o \in OrderIds
  BY DEF StoreInv, TypeOK, CloseRequest
<1>2. /\ orders[o].status = "cancelling" /\ Announce(o, "order.cancelled")
      /\ orders' = [orders EXCEPT ![o] = order]
  BY SettleTable DEF SettleCancellation, CanMove
<1>3. Placed(o) /\ orders[o].status # "cancelled"
  BY <1>2 DEF Placed, Statuses
<1>4. orders[o] \in Order
  BY <1>1, <1>3, PlacedIsOrder
<1>5. order \in Order /\ order.status = "cancelled"
  BY <1>4 DEF Order, Statuses
<1> HIDE DEF order, o
<1>6. StandOf(order) = "cancelled" /\ order.status # "cancelling"
  BY <1>5, StandTable
<1>7. /\ Stands' = [Stands EXCEPT ![o] = "cancelled"]
      /\ Locked' = [Locked EXCEPT ![o] = FALSE]
  <2>1. Stands' = [Stands EXCEPT ![o] = StandOf(order)] /\ Locked' = [Locked EXCEPT ![o] = FALSE]
    BY <1>1, <1>2, <1>6, LifeMoves
  <2> QED BY <2>1, <1>6
<1>8. Tolds' = [Tolds EXCEPT ![o] = @ + 1]
  BY <1>1, <1>2, <1>3, SaidCancelled, LifeSays
<1>9. Locked[o]
  BY <1>1, <1>2 DEF Locked
<1>10. Life!Cancel(o)
  BY <1>7, <1>8, <1>9 DEF Life!Cancel, Stands, Locked, Tolds
<1> QED BY <1>1, <1>10 DEF Life!Next

LEMMA LifeStep == StoreInv /\ [Next]_vars => [Life!Next]_(Life!vars)
<1> SUFFICES ASSUME StoreInv, [Next]_vars PROVE [Life!Next]_(Life!vars)
  OBVIOUS
<1>1. ASSUME NEW g \in Groups, OpenGroup(g) \/ RemoveGroup(g) PROVE UNCHANGED Life!vars
  BY <1>1, LifeStutters DEF OpenGroup, RemoveGroup
<1>2. ASSUME NEW o \in OrderIds, NEW c \in Commands, ReadForClose(o, c)
      PROVE  UNCHANGED Life!vars
  BY <1>2, LifeStutters DEF ReadForClose
<1>3. ASSUME NEW k \in closing, CloseEnds(k) PROVE UNCHANGED Life!vars
  BY <1>3, LifeStutters DEF CloseEnds
<1>4. ASSUME NEW k \in closing, CloseParcel(k) PROVE Life!Next
  <2>1. k.order \in OrderIds /\ k.command \in Commands /\ "close_cancelled" \in Moves
    BY DEF StoreInv, TypeOK, CloseRequest, Moves
  <2> QED BY <1>4, <2>1, LifeMove DEF CloseParcel
<1>5. CASE UNCHANGED vars
  BY <1>5, LifeStutters DEF vars
<1> QED BY <1>1, <1>2, <1>3, <1>4, <1>5, LifePlace, LifeMove, LifeRemove, LifeMarkPaid,
           LifeClaim, LifeRelease, LifeSettle
        DEF Next

(* Every behaviour of the store is a life of its orders. *)
THEOREM StoreImplementsLife == Spec => ImplementsLife
<1>1. Init => Life!Init
  <2> SUFFICES ASSUME Init PROVE Life!Init
    OBVIOUS
  <2>1. StandOf(Unplaced) = "unplaced" /\ (Unplaced.status = "cancelling") = FALSE
    BY DEF StandOf, Unplaced, None
  <2>2. Stands = [o \in OrderIds |-> "unplaced"]
    BY <2>1 DEF Init, Stands
  <2>3. Locked = [o \in OrderIds |-> FALSE]
    BY <2>1 DEF Init, Locked
  <2>4. Tolds = [o \in OrderIds |-> 0]
    BY DEF Init, Tolds
  <2> QED BY <2>2, <2>3, <2>4 DEF Life!Init, Stands, Locked, Tolds
<1> QED BY <1>1, LifeStep, StoreInvAlways, PTL DEF Spec, ImplementsLife, Life!Spec
=============================================================================
