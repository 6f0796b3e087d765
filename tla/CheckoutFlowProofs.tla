--------------------------- MODULE CheckoutFlowProofs ---------------------------
(***************************************************************************)
(* Theorems about CheckoutFlow, for any basket, any ids and any way of     *)
(* paying.  Each of its steps is a step of the order store or leaves the   *)
(* store alone, so what ProductOrderProofs shows of the store holds here.  *)
(***************************************************************************)
EXTENDS CheckoutFlow, TLAPS

P == INSTANCE ProductOrderProofs WITH
  Groups <- {G}, Commands <- Steps, Captures <- {"captured"}

-----------------------------------------------------------------------------
(* The inductive invariant *)

(* What was heard was done, and what was done had been asked for. *)
GroupAsked ==
  /\ Open \in heard => groups[G].state # "unopened"
  /\ groups[G].state # "unopened" => Open \in sent

HoldsAsked ==
  \A v \in Vendors :
    /\ <<"reserve", v>> \in heard => hold[v] # None
    /\ hold[v] # None => <<"reserve", v>> \in sent
    /\ <<"convert", v>> \in heard => hold[v] # "held"
    /\ hold[v] = "converted" => <<"convert", v>> \in sent

OrdersAsked ==
  /\ \A v \in Vendors :
       /\ <<"write", v>> \in heard => <<"write", v>> \in claimed
       /\ <<"write", v>> \in claimed =>
            <<"write", v>> \in sent /\ Written(v) # {}
       /\ <<"confirm", v>> \in heard => <<"confirm", v>> \in claimed
       /\ <<"confirm", v>> \in claimed =>
            /\ <<"confirm", v>> \in sent
            /\ \A o \in Written(v) : orders[o].status = "confirmed"
  /\ \A o \in OrderIds :
       /\ orders[o] # Store!Unplaced => \E v \in Vendors : orders[o].by = <<"write", v>>
       /\ orders[o].status \in {None, "pending", "paid", "confirmed", "removed"}
       /\ orders[o].status = "paid" => payment = "captured"
       /\ orders[o].status = "confirmed" => Past

(* The capture was asked for, and may yet take the money. *)
MayTake == Pivot[1] = "capture" /\ Pivot \in sent /\ payment # "declined"

MoneyAsked ==
  /\ payment # None => Pivot[1] = "capture" /\ Pivot \in sent
  /\ DOMAIN shares = IF payment = "captured" THEN PaysNow ELSE {}
  /\ \A v \in DOMAIN shares : shares[v] \in Written(v)

(* Nothing is undone from the commit point on, nor while money may be taken, *)
(* and what was not to be undone stands.                                     *)
NoWayBack == mode \in {"undoing", "undone"} => ~Past /\ ~MayTake

Standing ==
  mode \in {"running", "completed"} \/ MayTake =>
    /\ groups[G].state # "removed"
    /\ \A o \in OrderIds : orders[o].status # "removed"

UndoingDone ==
  /\ mode = "completed" => heard = Slip
  /\ mode = "undone" => undone = Undoable
  /\ Open \in undone => groups[G].state # "open"
  /\ \A v \in Vendors :
       /\ <<"reserve", v>> \in undone => hold[v] # "held"
       /\ <<"write", v>> \in undone => \A o \in Written(v) : orders[o].status = "removed"

Rest ==
  /\ GroupAsked /\ HoldsAsked /\ OrdersAsked /\ MoneyAsked
  /\ NoWayBack /\ Standing /\ UndoingDone

FlowInv == TypeOK /\ P!StoreInv /\ Rest

-----------------------------------------------------------------------------
(* The slip *)

(* What must have been heard before a step is asked for. *)
LEMMA HeardBefore ==
  ASSUME TypeOK, NEW v \in Vendors
  PROVE  /\ <<"reserve", v>> \in sent => Open \in heard
         /\ <<"reserve", v>> \in sent /\ v \notin PaysNow => <<"eligible", v>> \in heard
         /\ <<"write", v>> \in sent => <<"reserve", v>> \in heard
         /\ Pivot \in sent => <<"write", v>> \in heard
         /\ <<"convert", v>> \in sent => Pivot \in heard
         /\ <<"confirm", v>> \in sent => <<"convert", v>> \in heard
<1>1. \A s \in sent : Needs(s) \subseteq heard
  BY DEF TypeOK
<1>2. <<"write", v>> \in sent => <<"reserve", v>> \in heard
  BY <1>1 DEF Needs, Open, Pivot, Basket
<1>3. Pivot \in sent => <<"write", v>> \in heard
  BY <1>1 DEF Needs, Open, Pivot, Basket
<1>4. <<"convert", v>> \in sent => Pivot \in heard
  BY <1>1 DEF Needs, Open, Pivot, Basket
<1>5. <<"confirm", v>> \in sent => <<"convert", v>> \in heard
  BY <1>1 DEF Needs, Open, Pivot, Basket
<1>6. <<"eligible", v>> \in sent => Open \in heard
  BY <1>1 DEF Needs, Open, Pivot, Basket
<1>7. <<"reserve", v>> \in sent => IF v \in PaysNow THEN Open \in heard
                                                    ELSE <<"eligible", v>> \in heard
  BY <1>1 DEF Needs, Open, Pivot, Basket
<1>8. heard \subseteq sent
  BY DEF TypeOK
<1> QED BY <1>2, <1>3, <1>4, <1>5, <1>6, <1>7, <1>8

LEMMA OneWritten ==
  ASSUME P!StoreInv, NEW v \in Vendors
  PROVE  /\ \A o, p \in Written(v) : o = p
         /\ Written(v) # {} => OrderOf(v) \in Written(v) /\ Written(v) = {OrderOf(v)}
<1>1. \A o, p \in Written(v) : o = p
  BY DEF P!StoreInv, P!OneOrderPerCommand, Written, P!Unplaced, Store!Unplaced, P!None, Store!None
<1>2. Written(v) # {} => OrderOf(v) \in Written(v)
  BY DEF OrderOf
<1> QED BY <1>1, <1>2

-----------------------------------------------------------------------------
(* What the checkout can know when it ends *)

(* A capture that went through has its orders. *)
LEMMA MoneyStands == FlowInv => MoneyHasOrders
<1> SUFFICES ASSUME FlowInv, payment = "captured" PROVE
      /\ DOMAIN shares = PaysNow
      /\ groups[G].state = "open"
      /\ \A v \in Vendors : Store!Placed(OrderOf(v)) /\ OrderOf(v) \in groups[G].orderIds
      /\ \A v \in PaysNow : shares[v] = OrderOf(v)
  BY DEF MoneyHasOrders
<1> USE DEF FlowInv, Rest
<1>1. MayTake /\ DOMAIN shares = PaysNow /\ \A v \in PaysNow : shares[v] \in Written(v)
  BY DEF MoneyAsked, MayTake, None
<1>2. groups[G].state # "removed" /\ \A o \in OrderIds : orders[o].status # "removed"
  BY <1>1 DEF Standing
<1>3. \A v \in Vendors : Written(v) # {}
  BY <1>1, HeardBefore DEF MayTake, OrdersAsked
<1>4. ASSUME NEW v \in Vendors
      PROVE  /\ Store!Placed(OrderOf(v)) /\ OrderOf(v) \in groups[G].orderIds
             /\ groups[G].state = "open"
  <2> DEFINE o == OrderOf(v)
  <2>1. o \in OrderIds /\ orders[o] # Store!Unplaced
    BY <1>3, OneWritten DEF Written
  <2> HIDE DEF o
  <2>2. orders[o] \in P!Order
    BY <2>1 DEF P!StoreInv, P!OrdersAreKept, P!Unplaced, Store!Unplaced, P!None, Store!None
  <2>3. orders[o].status \in Store!Statuses /\ orders[o].group = G
    BY <1>2, <2>1, <2>2 DEF P!Order, P!Statuses, Store!Statuses
  <2>4. groups[G].state \in {"unopened", "open", "removed"}
    BY DEF P!StoreInv, P!TypeOK
  <2>5. groups[G].state = "open"
    BY <1>2, <2>1, <2>3, <2>4 DEF P!StoreInv, P!GroupsAreKept, P!Unplaced, Store!Unplaced, P!None, Store!None
  <2>6. o \in groups[G].orderIds
    BY <2>1, <2>3, <2>5 DEF P!StoreInv, P!GroupsAreKept, P!Placed, P!Statuses, Store!Statuses
  <2> QED BY <2>3, <2>5, <2>6 DEF Store!Placed, o
<1>5. \A v \in PaysNow : shares[v] = OrderOf(v)
  BY <1>1, OneWritten DEF PaysNow
<1>6. PaysNow # {}
  BY <1>1 DEF MayTake, Pivot
<1> QED BY <1>1, <1>4, <1>5, <1>6 DEF PaysNow

(* A checkout that ended happened whole or not at all. *)
LEMMA EndsWhole == FlowInv => AllOrNothing
<1> SUFFICES ASSUME FlowInv PROVE AllOrNothing
  OBVIOUS
<1> USE DEF FlowInv, Rest
<1> DEFINE Standing1 == \A o \in OrderIds : orders[o] # Store!Unplaced => orders[o] \in P!Order /\ orders[o].group = G
<1>0. Standing1
  BY DEF P!StoreInv, P!OrdersAreKept, P!Unplaced, Store!Unplaced, P!None, Store!None, P!Order
<1>1. ASSUME mode = "completed"
      PROVE  /\ groups[G].orderIds = {OrderOf(v) : v \in Vendors}
             /\ \A v \in Vendors :
                  orders[OrderOf(v)].status = "confirmed" /\ hold[v] \in {"converted", "released"}
  <2>1. heard = Slip /\ heard \subseteq sent
    BY <1>1 DEF UndoingDone, TypeOK
  <2>2. \A v \in Vendors : Written(v) # {} /\ OrderOf(v) \in Written(v) /\ Written(v) = {OrderOf(v)}
    BY <2>1, OneWritten DEF Slip, OrdersAsked
  <2>3. \A v \in Vendors : orders[OrderOf(v)].status = "confirmed"
    BY <2>1, <2>2 DEF Slip, OrdersAsked
  <2>4. \A v \in Vendors : hold[v] \in {"converted", "released"}
    BY <2>1 DEF Slip, HoldsAsked, TypeOK
  <2>5. groups[G].state = "open"
    <3>1. groups[G].state \in {"unopened", "open", "removed"}
      BY DEF P!StoreInv, P!TypeOK
    <3> QED BY <1>1, <2>1, <3>1 DEF Standing, GroupAsked, Slip
  <2>6. ASSUME NEW v \in Vendors PROVE OrderOf(v) \in groups[G].orderIds
    <3> DEFINE o == OrderOf(v)
    <3>1. o \in OrderIds /\ orders[o] # Store!Unplaced
      BY <2>2 DEF Written
    <3>2. orders[o].status = "confirmed"
      BY <2>3
    <3> HIDE DEF o
    <3>3. orders[o].group = G
      BY <1>0, <3>1
    <3>4. o \in groups[G].orderIds
      BY <2>5, <3>1, <3>2, <3>3 DEF P!StoreInv, P!GroupsAreKept, P!Placed, P!Statuses
    <3> QED BY <3>4 DEF o
  <2>7. ASSUME NEW o \in groups[G].orderIds PROVE \E v \in Vendors : o = OrderOf(v)
    <3>1. o \in OrderIds
      BY DEF P!StoreInv, P!TypeOK
    <3>2. orders[o] # Store!Unplaced
      BY <3>1 DEF P!StoreInv, P!GroupsAreKept, P!Unplaced, Store!Unplaced, P!None, Store!None
    <3>3. PICK v \in Vendors : orders[o].by = <<"write", v>>
      BY <3>1, <3>2 DEF OrdersAsked
    <3>4. o \in Written(v)
      BY <3>1, <3>2, <3>3 DEF Written
    <3> QED BY <2>2, <3>4
  <2>8. groups[G].orderIds = {OrderOf(v) : v \in Vendors}
    BY <2>6, <2>7
  <2> QED BY <2>3, <2>4, <2>8
<1>2. ASSUME mode = "undone"
      PROVE  /\ payment # "captured"
             /\ groups[G].state = "open" => Unheard(Open)
             /\ \A v \in Vendors :
                  /\ hold[v] # "converted"
                  /\ hold[v] = "held" => Unheard(<<"reserve", v>>)
                  /\ OrderOf(v) # None =>
                       \/ orders[OrderOf(v)].status = "removed"
                       \/ (orders[OrderOf(v)].status = "pending" /\ Unheard(<<"write", v>>))
  <2>1. undone = Undoable /\ ~Past /\ ~MayTake
    BY <1>2 DEF UndoingDone, NoWayBack
  <2>2. payment # "captured"
    BY <2>1 DEF MayTake, MoneyAsked, None
  <2>3. groups[G].state = "open" => Unheard(Open)
    BY <2>1 DEF GroupAsked, UndoingDone, Undoable, Unheard, Open
  <2>4. ASSUME NEW v \in Vendors
        PROVE  /\ hold[v] # "converted"
               /\ hold[v] = "held" => Unheard(<<"reserve", v>>)
    <3>1. hold[v] # "converted"
      BY <2>1, HeardBefore DEF HoldsAsked, Past
    <3>2. hold[v] = "held" => <<"reserve", v>> \in sent /\ <<"reserve", v>> \notin undone
      BY DEF HoldsAsked, UndoingDone, None
    <3>3. <<"reserve", v>> \notin undone => <<"reserve", v>> \notin heard
      BY <2>1 DEF Undoable
    <3> QED BY <3>1, <3>2, <3>3 DEF Unheard
  <2>5. ASSUME NEW v \in Vendors, OrderOf(v) # None
        PROVE  \/ orders[OrderOf(v)].status = "removed"
               \/ (orders[OrderOf(v)].status = "pending" /\ Unheard(<<"write", v>>))
    <3> DEFINE o == OrderOf(v)
    <3>1. o \in Written(v)
      BY <2>5, OneWritten DEF OrderOf
    <3> HIDE DEF o
    <3>2. o \in OrderIds /\ orders[o] # Store!Unplaced /\ orders[o].by = <<"write", v>>
      BY <3>1 DEF Written
    <3>3. orders[o].status # None
      BY <1>0, <3>2 DEF P!Order, P!Statuses, None
    <3>4. orders[o].status \in {"pending", "removed"}
      BY <2>1, <2>2, <3>2, <3>3 DEF OrdersAsked
    <3>5. <<"write", v>> \in claimed
      BY <3>2 DEF P!StoreInv, P!OrdersAreKept, P!Unplaced, Store!Unplaced, P!None, Store!None
    <3>6. <<"write", v>> \in sent
      BY <3>5 DEF OrdersAsked
    <3>7. <<"write", v>> \in heard => <<"write", v>> \in undone
      BY <2>1 DEF Undoable
    <3>8. <<"write", v>> \in heard => orders[o].status = "removed"
      BY <3>1, <3>7 DEF UndoingDone
    <3> QED BY <3>4, <3>6, <3>8 DEF Unheard, o
  <2> QED BY <2>2, <2>3, <2>4, <2>5
<1> QED BY <1>1, <1>2 DEF AllOrNothing

-----------------------------------------------------------------------------
(* Every step is one of the store's, or leaves the store alone *)

LEMMA OrderNamed ==
  ASSUME P!StoreInv, NEW v \in Vendors, Written(v) # {}
  PROVE  OrderOf(v) \in OrderIds
BY OneWritten DEF Written

LEMMA StoreStep ==
  ASSUME FlowInv, Next
  PROVE  [P!Next]_(P!vars)
<1> USE DEF FlowInv, Rest
<1> DEFINE Kept == UNCHANGED store
<1>0. Kept => UNCHANGED P!vars
  BY DEF store, P!vars
<1>1. ASSUME NEW s \in Slip, Send(s) \/ Hear(s) \/ HearRefusal(s) \/ GivesUp(s) PROVE Kept
  BY <1>1 DEF Send, Hear, HearRefusal, GivesUp
<1>2. ASSUME Strands PROVE Kept
  BY <1>2 DEF Strands
<1>3. ASSUME NEW s \in Slip, Undo(s) PROVE P!Next \/ Kept
  <2>1. s[1] \in {"open", "reserve", "write"} /\ s \in heard
    BY <1>3 DEF Undo, Undoable
  <2>2. CASE s[1] = "open"
    <3>1. Store!RemoveGroup(G) \/ Kept
      BY <1>3, <2>2 DEF Undo
    <3>2. Store!RemoveGroup(G) => P!RemoveGroup(G)
      BY DEF Store!RemoveGroup, P!RemoveGroup
    <3> QED BY <3>1, <3>2 DEF P!Next
  <2>3. CASE s[1] = "write"
    <3>1. PICK v \in Vendors : s = <<"write", v>>
      BY <2>3 DEF Slip, Open, Pivot
    <3>2. OrderOf(v) \in OrderIds
      BY <2>1, <3>1, OrderNamed DEF OrdersAsked
    <3>3. Store!Remove(OrderOf(v)) \/ Kept
      BY <1>3, <3>1 DEF Undo
    <3>4. Store!Remove(OrderOf(v)) => P!Remove(OrderOf(v))
      BY DEF Store!Remove, P!Remove, Store!Placed, P!Placed, Store!Statuses, P!Statuses
    <3> QED BY <3>2, <3>3, <3>4 DEF P!Next
  <2>4. CASE s[1] = "reserve"
    BY <1>3, <2>4 DEF Undo
  <2> QED BY <2>1, <2>2, <2>3, <2>4
<1>4. ASSUME OpenGroup PROVE P!Next
  <2>1. Store!OpenGroup(G)
    BY <1>4 DEF OpenGroup
  <2> QED BY <2>1 DEF Store!OpenGroup, P!OpenGroup, P!Next
<1>5. ASSUME Capture PROVE Kept
  BY <1>5 DEF Capture
<1>6. ASSUME NEW v \in Vendors, Reserve(v) \/ Convert(v) \/ HoldRunsOut(v) PROVE Kept
  BY <1>6 DEF Reserve, Convert, HoldRunsOut
<1>7. ASSUME NEW v \in Vendors, Write(v) PROVE P!Next
  <2> DEFINE c == <<"write", v>>
  <2>1. Store!Place(G, c)
    BY <1>7 DEF Write
  <2>2. c \in Steps
    BY DEF Steps, Names
  <2> HIDE DEF c
  <2>3. P!Place(G, c)
    BY <2>1 DEF Store!Place, P!Place, Store!Announce, P!Announce, Store!Version, P!Version,
                Store!Unplaced, P!Unplaced, Store!None, P!None
  <2> QED BY <2>2, <2>3 DEF P!Next
<1>8. ASSUME NEW v \in Vendors, Confirm(v) PROVE P!Next
  <2> DEFINE c == <<"confirm", v>>
             t == "confirm"
             o == OrderOf(v)
  <2>1. Store!Move(o, t, c) /\ UNCHANGED closing
    BY <1>8 DEF Confirm
  <2>2. c \in Steps /\ t \in P!Moves \ {"close_cancelled"}
    BY DEF Steps, Names, P!Moves
  <2>3. o \in OrderIds
    BY <1>8, HeardBefore, OrderNamed DEF Confirm, OrdersAsked, TypeOK
  <2> HIDE DEF c, t, o
  <2>4. P!Move(o, t, c)
    BY <2>1 DEF Store!Move, P!Move, Store!Announce, P!Announce, Store!Version, P!Version,
                Store!CanMove, P!CanMove, Store!Before, P!Before, Store!After, P!After
  <2> QED BY <2>1, <2>2, <2>3, <2>4 DEF P!Next
<1>9. ASSUME NEW v \in Vendors, HearsCaptured(v) PROVE P!Next
  <2> DEFINE e == "captured"
             o == shares[v]
  <2>1. o \in OrderIds /\ Store!MarkPaid(o, e)
    BY <1>9 DEF HearsCaptured, TypeOK
  <2>2. e \in {"captured"}
    OBVIOUS
  <2> HIDE DEF e, o
  <2>3. P!MarkPaid(o, e)
    BY <2>1 DEF Store!MarkPaid, P!MarkPaid
  <2> QED BY <2>1, <2>2, <2>3 DEF P!Next
<1> QED BY <1>0, <1>1, <1>2, <1>3, <1>4, <1>5, <1>6, <1>7, <1>8, <1>9
        DEF Next, Engine, Participants

LEMMA StoreKept ==
  ASSUME FlowInv, [Next]_vars
  PROVE  P!StoreInv' /\ Store!TypeOK'
<1>1. [P!Next]_(P!vars)
  <2>1. UNCHANGED vars => UNCHANGED P!vars
    BY DEF vars, store, P!vars
  <2> QED BY <2>1, StoreStep
<1>2. P!StoreInv'
  BY <1>1, P!StepInv DEF FlowInv
<1>3. P!StoreInv' => Store!TypeOK'
  BY DEF P!StoreInv, P!TypeOK, Store!TypeOK, P!Order, Store!Order, P!Unplaced, Store!Unplaced,
         P!None, Store!None, P!Statuses, Store!Statuses, P!Before, Store!Before, P!After,
         Store!After, P!CloseRequest, Store!CloseRequest, P!Event, Store!Event
<1> QED BY <1>2, <1>3

LEMMA FlowInit == Init => FlowInv
<1> SUFFICES ASSUME Init PROVE FlowInv
  OBVIOUS
<1> USE DEF Init
<1>1. P!StoreInv
  <2>1. P!Init
    BY DEF P!Init, Store!Init, P!Unplaced, Store!Unplaced, P!None, Store!None
  <2> QED BY <2>1, P!InitInv
<1>2. TypeOK
  <2>1. Store!TypeOK
    BY <1>1 DEF P!StoreInv, P!TypeOK, Store!TypeOK, P!Order, Store!Order, P!Unplaced, Store!Unplaced,
         P!None, Store!None, P!Statuses, Store!Statuses, P!Before, Store!Before, P!After,
         Store!After, P!CloseRequest, Store!CloseRequest, P!Event, Store!Event
  <2> QED BY <2>1 DEF TypeOK
<1>3. \A o \in OrderIds : orders[o] = Store!Unplaced /\ orders[o].status = None
  BY DEF Store!Init, Store!Unplaced, Store!None, None
<1>4. groups[G].state = "unopened"
  BY DEF Store!Init
<1>5. claimed = {}
  BY DEF Store!Init
<1>6. GroupAsked /\ HoldsAsked
  BY <1>4 DEF GroupAsked, HoldsAsked, None
<1>7. OrdersAsked
  BY <1>3, <1>5 DEF OrdersAsked, None
<1>8. MoneyAsked
  BY DEF MoneyAsked, None
<1>9. NoWayBack /\ Standing /\ UndoingDone
  BY <1>3, <1>4 DEF NoWayBack, Standing, UndoingDone, None
<1> QED BY <1>1, <1>2, <1>6, <1>7, <1>8, <1>9 DEF FlowInv, Rest

-----------------------------------------------------------------------------
(* The engine's steps *)

LEMMA SlipSame ==
  ASSUME UNCHANGED tender
  PROVE  /\ PaysNow' = PaysNow /\ Pivot' = Pivot /\ Slip' = Slip
         /\ \A s \in Slip : Needs(s)' = Needs(s)
<1>1. PaysNow' = PaysNow
  BY DEF PaysNow
<1>2. Pivot' = Pivot
  BY <1>1 DEF Pivot
<1>3. Slip' = Slip
  BY <1>1, <1>2 DEF Slip
<1>4. \A s \in Slip : Needs(s)' = Needs(s)
  BY <1>1, <1>2 DEF Needs
<1> QED BY <1>1, <1>2, <1>3, <1>4

(* What stays as it was when a step writes to no participant. *)
LEMMA RecordsSame ==
  ASSUME FlowInv, UNCHANGED <<store, tender, hold, payment, shares>>,
         sent \subseteq sent', heard' = heard
  PROVE  GroupAsked' /\ HoldsAsked' /\ OrdersAsked' /\ MoneyAsked'
<1>1. PaysNow' = PaysNow /\ Pivot' = Pivot
  BY SlipSame
<1>2. \A v \in Vendors : Written(v)' = Written(v)
  BY DEF Written, store, Store!Unplaced
<1>3. GroupAsked' /\ HoldsAsked'
  BY DEF FlowInv, Rest, GroupAsked, HoldsAsked, store
<1>4. OrdersAsked'
  BY <1>1, <1>2 DEF FlowInv, Rest, OrdersAsked, store, Past, Store!Unplaced
<1>5. MoneyAsked'
  BY <1>1, <1>2 DEF FlowInv, Rest, MoneyAsked, TypeOK
<1> QED BY <1>3, <1>4, <1>5

LEMMA SendInv ==
  ASSUME FlowInv, NEW s \in Slip, Send(s), Store!TypeOK'
  PROVE  TypeOK' /\ Rest'
<1> USE DEF Send
<1>1. PaysNow' = PaysNow /\ Pivot' = Pivot /\ Slip' = Slip /\ \A r \in Slip : Needs(r)' = Needs(r)
  BY SlipSame
<1>2. GroupAsked' /\ HoldsAsked' /\ OrdersAsked' /\ MoneyAsked'
  BY RecordsSame
<1>3. Undoable' = Undoable
  BY DEF Undoable
<1>4. TypeOK'
  BY <1>1, <1>3 DEF FlowInv, TypeOK
<1>5. NoWayBack' /\ Standing'
  BY <1>1 DEF FlowInv, Rest, NoWayBack, Standing, store
<1>6. UndoingDone'
  <2>1. \A v \in Vendors : Written(v)' = Written(v)
    BY DEF Written, store, Store!Unplaced
  <2> QED BY <1>1, <2>1 DEF FlowInv, Rest, UndoingDone, store
<1> QED BY <1>2, <1>4, <1>5, <1>6 DEF Rest

LEMMA HearInv ==
  ASSUME FlowInv, NEW s \in Slip, Hear(s), Store!TypeOK'
  PROVE  TypeOK' /\ Rest'
<1>0. /\ s[1] = "reserve" => hold[s[2]] # None
      /\ s[1] = "convert" => hold[s[2]] # "held"
      /\ s[1] \in {"write", "confirm"} => s \in claimed
  <2>1. Done(s)
    BY DEF Hear
  <2> QED BY <2>1 DEF Done
<1> USE DEF Hear
<1>1. PaysNow' = PaysNow /\ Pivot' = Pivot /\ Slip' = Slip /\ \A r \in Slip : Needs(r)' = Needs(r)
  BY SlipSame
<1>2. \A v \in Vendors : Written(v)' = Written(v)
  BY DEF Written, store, Store!Unplaced
<1>3. TypeOK'
  <2>1. Undoable \subseteq Undoable'
    BY DEF Undoable
  <2> QED BY <1>1, <2>1 DEF FlowInv, TypeOK
<1>4. GroupAsked'
  <2>1. s = Open => groups[G].state # "unopened"
    BY DEF Done, Open
  <2> QED BY <2>1 DEF FlowInv, Rest, GroupAsked, store
<1>5. HoldsAsked'
  <2>1. \A v \in Vendors :
         /\ s = <<"reserve", v>> => hold[v] # None
         /\ s = <<"convert", v>> => hold[v] # "held"
    BY <1>0
  <2>2. heard' = heard \cup {s} /\ hold' = hold /\ sent' = sent
    OBVIOUS
  <2>3. \A v \in Vendors :
         /\ <<"reserve", v>> \in heard' => hold[v] # None
         /\ hold[v] # None => <<"reserve", v>> \in sent
         /\ <<"convert", v>> \in heard' => hold[v] # "held"
         /\ hold[v] = "converted" => <<"convert", v>> \in sent
    <3> HIDE DEF Hear
    <3> QED BY <2>1, <2>2 DEF FlowInv, Rest, HoldsAsked
  <2> QED BY <2>2, <2>3 DEF HoldsAsked
<1>6. OrdersAsked'
  <2>1. \A v \in Vendors :
         /\ s = <<"write", v>> => <<"write", v>> \in claimed
         /\ s = <<"confirm", v>> => <<"confirm", v>> \in claimed
    BY <1>0
  <2>2. /\ heard' = heard \cup {s} /\ sent' = sent /\ claimed' = claimed
        /\ orders' = orders /\ payment' = payment
    BY DEF store
  <2>3. \A v \in Vendors :
         /\ <<"write", v>> \in heard' => <<"write", v>> \in claimed
         /\ <<"confirm", v>> \in heard' => <<"confirm", v>> \in claimed
    <3> HIDE DEF Hear
    <3> QED BY <2>1, <2>2 DEF FlowInv, Rest, OrdersAsked
  <2>4. Past => Past'
    BY <1>1, <2>2 DEF Past
  <2> HIDE DEF Hear
  <2> QED BY <1>2, <2>2, <2>3, <2>4 DEF FlowInv, Rest, OrdersAsked, Store!Unplaced
<1>7. MoneyAsked'
  BY <1>1, <1>2 DEF FlowInv, Rest, MoneyAsked, TypeOK
<1>8. NoWayBack' /\ Standing'
  BY <1>1 DEF FlowInv, Rest, NoWayBack, Standing, store
<1>9. UndoingDone'
  BY <1>1, <1>2 DEF FlowInv, Rest, UndoingDone, store
<1> QED BY <1>3, <1>4, <1>5, <1>6, <1>7, <1>8, <1>9 DEF Rest

(* Once the commit point was asked for, every step before it was heard.      *)
LEMMA BeforePivot ==
  ASSUME TypeOK, NEW s \in Slip, s \notin heard, Pivot \in sent,
         s[1] \in {"open", "eligible", "reserve", "write"}
  PROVE  s = Open /\ PaysNow = {}
<1>1. heard \subseteq sent
  BY DEF TypeOK
<1>2. \A v \in Vendors :
        /\ <<"write", v>> \in heard /\ <<"reserve", v>> \in heard /\ Open \in heard
        /\ v \notin PaysNow => <<"eligible", v>> \in heard
  BY <1>1, HeardBefore
<1>3. s = Open => PaysNow = {}
  BY <1>2 DEF PaysNow
<1>4. s = Open \/ \E v \in Vendors :
        s \in {<<"reserve", v>>, <<"write", v>>}
          \/ (v \notin PaysNow /\ s = <<"eligible", v>>)
  BY DEF Slip, Pivot
<1> QED BY <1>2, <1>3, <1>4

(* The flow turns back, which it may only do while nothing can be taken. *)
LEMMA TurnsBack ==
  ASSUME FlowInv, Undoes, ~Past, ~MayTake, Store!TypeOK',
         UNCHANGED <<store, tender, hold, payment, shares, sent, heard, undone>>
  PROVE  TypeOK' /\ Rest'
<1>1. PaysNow' = PaysNow /\ Pivot' = Pivot /\ Slip' = Slip /\ \A r \in Slip : Needs(r)' = Needs(r)
  BY SlipSame
<1>2. GroupAsked' /\ HoldsAsked' /\ OrdersAsked' /\ MoneyAsked'
  BY RecordsSame
<1>3. Undoable' = Undoable
  BY DEF Undoable
<1>4. TypeOK'
  BY <1>1, <1>3 DEF FlowInv, TypeOK, Undoes
<1>5. ~Past' /\ ~MayTake' /\ mode' \in {"undoing", "undone"}
  BY <1>1 DEF Past, MayTake, Undoes
<1>6. NoWayBack' /\ Standing'
  BY <1>5 DEF NoWayBack, Standing
<1>7. UndoingDone'
  <2>1. \A v \in Vendors : Written(v)' = Written(v)
    BY DEF Written, store, Store!Unplaced
  <2>2. mode' = "undone" => undone = Undoable
    BY DEF FlowInv, TypeOK, Undoes
  <2> QED BY <1>3, <1>5, <2>1, <2>2 DEF FlowInv, Rest, UndoingDone, store
<1> QED BY <1>2, <1>4, <1>6, <1>7 DEF Rest

LEMMA RefusalInv ==
  ASSUME FlowInv, NEW s \in Slip, HearRefusal(s), Store!TypeOK'
  PROVE  TypeOK' /\ Rest'
<1>1. TypeOK /\ heard \subseteq sent /\ s \notin heard
  BY DEF FlowInv, TypeOK, HearRefusal
<1>2. CASE s[1] \in {"eligible", "reserve"}
  <2>1. s # Open
    BY <1>2 DEF Open
  <2>2. Pivot \notin sent
    BY <1>1, <1>2, <2>1, BeforePivot
  <2>3. ~Past /\ ~MayTake
    BY <1>1, <2>2 DEF Past, MayTake
  <2> QED BY <2>3, TurnsBack DEF HearRefusal
<1>3. CASE s[1] = "capture" /\ payment = "declined"
  <2>1. s = Pivot
    BY <1>3 DEF Slip, Open
  <2>2. ~Past /\ ~MayTake
    BY <1>1, <1>3, <2>1 DEF Past, MayTake
  <2> QED BY <2>2, TurnsBack DEF HearRefusal
<1> QED BY <1>2, <1>3 DEF HearRefusal

LEMMA GivesUpInv ==
  ASSUME FlowInv, NEW s \in Slip, GivesUp(s), Store!TypeOK'
  PROVE  TypeOK' /\ Rest'
<1>1. TypeOK /\ heard \subseteq sent /\ ~Past /\ s \notin heard /\ Needs(s) \subseteq heard
  BY DEF FlowInv, TypeOK, GivesUp
<1>2. ASSUME MayTake PROVE FALSE
  <2>1. Pivot[1] = "capture" /\ Pivot \in sent /\ PaysNow # {}
    BY <1>2 DEF MayTake, Pivot
  <2>2. s # Pivot
    BY <2>1 DEF GivesUp
  <2>3. s[1] \notin {"open", "eligible", "reserve", "write"}
    BY <1>1, <2>1, BeforePivot
  <2>4. PICK v \in Vendors : s \in {<<"convert", v>>, <<"confirm", v>>}
    BY <2>2, <2>3 DEF Slip, Open
  <2>5. Pivot \in Needs(s) \/ <<"convert", v>> \in Needs(s)
    BY <2>4 DEF Needs, Open, Pivot, Basket
  <2> QED BY <1>1, <2>5, HeardBefore DEF Past
<1> QED BY <1>1, <1>2, TurnsBack DEF GivesUp

LEMMA StrandsInv ==
  ASSUME FlowInv, Strands, Store!TypeOK'
  PROVE  TypeOK' /\ Rest'
<1> USE DEF Strands
<1>1. PaysNow' = PaysNow /\ Pivot' = Pivot /\ Slip' = Slip /\ \A r \in Slip : Needs(r)' = Needs(r)
  BY SlipSame
<1>2. GroupAsked' /\ HoldsAsked' /\ OrdersAsked' /\ MoneyAsked'
  BY RecordsSame
<1>3. Undoable' = Undoable
  BY DEF Undoable
<1>4. TypeOK'
  BY <1>1, <1>3 DEF FlowInv, TypeOK
<1>5. MayTake' = MayTake
  BY <1>1 DEF MayTake
<1>6. NoWayBack' /\ Standing'
  BY <1>5 DEF FlowInv, Rest, NoWayBack, Standing, store
<1>7. UndoingDone'
  <2>1. \A v \in Vendors : Written(v)' = Written(v)
    BY DEF Written, store, Store!Unplaced
  <2> QED BY <2>1 DEF FlowInv, Rest, UndoingDone, store
<1> QED BY <1>2, <1>4, <1>6, <1>7 DEF Rest

-----------------------------------------------------------------------------
(* The participants' steps, and the sweep's *)

(* Only a hold changes. *)
LEMMA HoldMoves ==
  ASSUME FlowInv, NEW v \in Vendors, NEW to \in {"held", "released", "converted"},
         hold' = [hold EXCEPT ![v] = to], UNCHANGED <<store, tender, payment, shares, flow>>,
         Store!TypeOK',
         to = "held" => hold[v] = None /\ <<"reserve", v>> \in sent,
         to # "held" => hold[v] = "held",
         to = "converted" => <<"convert", v>> \in sent
  PROVE  TypeOK' /\ Rest'
<1>1. PaysNow' = PaysNow /\ Pivot' = Pivot /\ Slip' = Slip /\ \A r \in Slip : Needs(r)' = Needs(r)
  BY SlipSame
<1>2. Undoable' = Undoable /\ \A w \in Vendors : Written(w)' = Written(w)
  BY DEF Undoable, Written, store, flow, Store!Unplaced
<1>3. hold \in [Vendors -> {None, "held", "released", "converted"}]
  BY DEF FlowInv, TypeOK
<1>4. \A w \in Vendors : hold'[w] = IF w = v THEN to ELSE hold[w]
  BY <1>3
<1>5. TypeOK'
  BY <1>1, <1>2, <1>3 DEF FlowInv, TypeOK, flow
<1>6. GroupAsked' /\ OrdersAsked'
  BY <1>1, <1>2 DEF FlowInv, Rest, GroupAsked, OrdersAsked, store, flow, Past, Store!Unplaced
<1>7. MoneyAsked'
  BY <1>1, <1>2 DEF FlowInv, Rest, MoneyAsked, flow, TypeOK
<1>8. NoWayBack' /\ Standing'
  BY <1>1 DEF FlowInv, Rest, NoWayBack, Standing, Past, MayTake, store, flow
<1>9. HoldsAsked'
  <2>1. to # "held" => <<"reserve", v>> \in sent
    BY DEF FlowInv, Rest, HoldsAsked, None
  <2>2. to = "held" => <<"convert", v>> \notin heard
    <3>1. <<"convert", v>> \in heard => <<"reserve", v>> \in heard
      BY HeardBefore DEF FlowInv, TypeOK
    <3> QED BY <3>1 DEF FlowInv, Rest, HoldsAsked
  <2> QED BY <1>4, <2>1, <2>2 DEF FlowInv, Rest, HoldsAsked, flow, None
<1>10. UndoingDone'
  <2>1. to = "held" => <<"reserve", v>> \notin undone
    BY DEF FlowInv, Rest, HoldsAsked, TypeOK, Undoable
  <2> QED BY <1>1, <1>2, <1>4, <2>1 DEF FlowInv, Rest, UndoingDone, store, flow
<1> QED BY <1>5, <1>6, <1>7, <1>8, <1>9, <1>10 DEF Rest

LEMMA HoldInv ==
  ASSUME FlowInv, NEW v \in Vendors, Reserve(v) \/ Convert(v) \/ HoldRunsOut(v), Store!TypeOK'
  PROVE  TypeOK' /\ Rest'
<1> DEFINE held == "held"
           released == "released"
           converted == "converted"
<1>1. \A to \in {held, released, converted} : to \in {"held", "released", "converted"}
  OBVIOUS
<1>2. CASE Reserve(v)
  <2>1. hold' = [hold EXCEPT ![v] = held] /\ hold[v] = None /\ <<"reserve", v>> \in sent
        /\ UNCHANGED <<store, tender, payment, shares, flow>>
    BY <1>2 DEF Reserve
  <2>2. held # "converted" /\ held = "held" /\ held \in {"held", "released", "converted"}
    OBVIOUS
  <2> HIDE DEF held
  <2> QED BY <2>1, <2>2, HoldMoves
<1>3. CASE HoldRunsOut(v)
  <2>1. hold' = [hold EXCEPT ![v] = released] /\ hold[v] = "held"
        /\ UNCHANGED <<store, tender, payment, shares, flow>>
    BY <1>3 DEF HoldRunsOut
  <2>2. released # "converted" /\ released # "held" /\ released \in {"held", "released", "converted"}
    OBVIOUS
  <2> HIDE DEF released
  <2> QED BY <2>1, <2>2, HoldMoves
<1>4. CASE Convert(v)
  <2>1. hold' = [hold EXCEPT ![v] = converted] /\ hold[v] = "held" /\ <<"convert", v>> \in sent
        /\ UNCHANGED <<store, tender, payment, shares, flow>>
    BY <1>4 DEF Convert
  <2>2. converted # "held" /\ converted \in {"held", "released", "converted"}
    OBVIOUS
  <2> HIDE DEF converted
  <2> QED BY <2>1, <2>2, HoldMoves
<1> QED BY <1>2, <1>3, <1>4

LEMMA CaptureInv ==
  ASSUME FlowInv, Capture, Store!TypeOK'
  PROVE  TypeOK' /\ Rest'
<1>1. PaysNow' = PaysNow /\ Pivot' = Pivot /\ Slip' = Slip /\ \A r \in Slip : Needs(r)' = Needs(r)
  BY SlipSame DEF Capture
<1>2. Undoable' = Undoable /\ \A w \in Vendors : Written(w)' = Written(w)
  BY DEF Undoable, Written, store, flow, Store!Unplaced, Capture
<1>3. /\ Pivot[1] = "capture" /\ Pivot \in sent /\ payment = None /\ payment' \in {"captured", "declined"}
      /\ UNCHANGED <<store, tender, hold, flow>>
      /\ payment' = "captured" => shares' = [v \in PaysNow |-> OrderOf(v)]
      /\ payment' = "declined" => shares' = shares
  BY DEF Capture
<1>4. MayTake
  BY <1>3 DEF MayTake, None
<1>5. \A v \in Vendors : OrderOf(v) \in Written(v)
  BY <1>3, HeardBefore, OneWritten DEF FlowInv, Rest, OrdersAsked
<1>6. DOMAIN shares = {}
  BY <1>3 DEF FlowInv, Rest, MoneyAsked, None
<1>7. TypeOK'
  <2>1. \A v \in DOMAIN shares' : v \in Vendors /\ shares'[v] \in OrderIds
    BY <1>3, <1>5, <1>6 DEF PaysNow, Written
  <2> QED BY <1>1, <1>2, <1>3, <2>1 DEF FlowInv, TypeOK, flow
<1>8. GroupAsked' /\ HoldsAsked'
  BY <1>3 DEF FlowInv, Rest, GroupAsked, HoldsAsked, store, flow
<1>9. OrdersAsked'
  <2>1. \A o \in OrderIds : orders[o].status # "paid"
    BY <1>3 DEF FlowInv, Rest, OrdersAsked, None
  <2> QED BY <1>1, <1>2, <1>3, <2>1 DEF FlowInv, Rest, OrdersAsked, store, flow, Past, Store!Unplaced
<1>10. MoneyAsked'
  <2>1. \A v \in DOMAIN shares' : shares'[v] \in Written(v)
    BY <1>3, <1>5, <1>6 DEF PaysNow
  <2>2. DOMAIN shares' = IF payment' = "captured" THEN PaysNow ELSE {}
    BY <1>3, <1>6
  <2>3. \A v \in DOMAIN shares' : v \in Vendors
    BY <2>2 DEF PaysNow
  <2> QED BY <1>1, <1>2, <1>3, <2>1, <2>2, <2>3 DEF MoneyAsked, flow
<1>11. NoWayBack' /\ Standing'
  BY <1>1, <1>3, <1>4 DEF FlowInv, Rest, NoWayBack, Standing, Past, store, flow
<1>12. UndoingDone'
  BY <1>1, <1>2, <1>3 DEF FlowInv, Rest, UndoingDone, store, flow
<1> QED BY <1>7, <1>8, <1>9, <1>10, <1>11, <1>12 DEF Rest

(* Only the group changes. *)
LEMMA OpenGroupInv ==
  ASSUME FlowInv, OpenGroup, Store!TypeOK'
  PROVE  TypeOK' /\ Rest'
<1>1. PaysNow' = PaysNow /\ Pivot' = Pivot /\ Slip' = Slip /\ \A r \in Slip : Needs(r)' = Needs(r)
  BY SlipSame DEF OpenGroup
<1>2. /\ Open \in sent /\ groups[G].state = "unopened" /\ groups'[G].state = "open"
      /\ UNCHANGED <<orders, claimed, tender, hold, payment, shares, flow>>
  <2>1. groups \in [{G} -> [state : {"unopened", "open", "removed"}, orderIds : SUBSET OrderIds]]
    BY DEF FlowInv, P!StoreInv, P!TypeOK
  <2> QED BY <2>1 DEF OpenGroup, Store!OpenGroup
<1>3. Undoable' = Undoable /\ \A w \in Vendors : Written(w)' = Written(w)
  BY <1>2 DEF Undoable, Written, flow, Store!Unplaced
<1>4. TypeOK'
  BY <1>1, <1>2, <1>3 DEF FlowInv, TypeOK, flow
<1>5. GroupAsked' /\ HoldsAsked'
  BY <1>2 DEF FlowInv, Rest, GroupAsked, HoldsAsked, flow
<1>6. OrdersAsked' /\ MoneyAsked'
  BY <1>1, <1>2, <1>3 DEF FlowInv, Rest, OrdersAsked, MoneyAsked, flow, Past, TypeOK, Store!Unplaced
<1>7. NoWayBack' /\ Standing'
  BY <1>1, <1>2 DEF FlowInv, Rest, NoWayBack, Standing, Past, MayTake, flow
<1>8. UndoingDone'
  <2>1. Open \notin undone
    BY <1>2 DEF FlowInv, Rest, GroupAsked, TypeOK, Undoable
  <2> QED BY <1>1, <1>2, <1>3, <2>1 DEF FlowInv, Rest, UndoingDone, flow
<1> QED BY <1>4, <1>5, <1>6, <1>7, <1>8 DEF Rest

(* An order that was written goes on to another status, and stays its        *)
(* vendor's.                                                                 *)
LEMMA OrderMoves ==
  ASSUME FlowInv, NEW v \in Vendors, NEW o, o \in Written(v),
         NEW order, order.by = orders[o].by, order.status # None,
         orders' = [orders EXCEPT ![o] = order]
  PROVE  /\ o \in OrderIds
         /\ \A p \in OrderIds : orders'[p] = IF p = o THEN order ELSE orders[p]
         /\ \A w \in Vendors : Written(w)' = Written(w)
         /\ Written(v) = {o}
         /\ \A w \in Vendors : w # v => o \notin Written(w)
<1>1. o \in OrderIds /\ orders[o] # Store!Unplaced /\ orders[o].by = <<"write", v>>
  BY DEF Written
<1>2. \A p \in OrderIds : orders'[p] = IF p = o THEN order ELSE orders[p]
  <2>1. DOMAIN orders = OrderIds
    BY DEF FlowInv, P!StoreInv, P!TypeOK
  <2>2. orders = [p \in OrderIds |-> orders[p]]
    BY DEF FlowInv, P!StoreInv, P!TypeOK
  <2> QED BY <1>1, <2>1, <2>2
<1>3. order # Store!Unplaced
  BY DEF Store!Unplaced, Store!None, None
<1>4. \A p \in OrderIds : /\ orders'[p] # Store!Unplaced <=> orders[p] # Store!Unplaced
                          /\ orders'[p] # Store!Unplaced => orders'[p].by = orders[p].by
  BY <1>1, <1>2, <1>3
<1>5. \A w \in Vendors : Written(w)' = Written(w)
  BY <1>4 DEF Written, Store!Unplaced
<1>6. Written(v) = {o}
  BY OneWritten DEF FlowInv
<1>7. \A w \in Vendors : w # v => o \notin Written(w)
  BY <1>1 DEF Written
<1> QED BY <1>1, <1>2, <1>5, <1>6, <1>7

LEMMA ConfirmInv ==
  ASSUME FlowInv, NEW v \in Vendors, Confirm(v), Store!TypeOK'
  PROVE  TypeOK' /\ Rest'
<1>0. PICK o : o = OrderOf(v)
  OBVIOUS
<1>1. PaysNow' = PaysNow /\ Pivot' = Pivot /\ Slip' = Slip /\ \A r \in Slip : Needs(r)' = Needs(r)
  BY SlipSame DEF Confirm
<1>2. /\ <<"confirm", v>> \in sent /\ UNCHANGED <<groups, closing, tender, hold, payment, shares, flow>>
      /\ claimed' = claimed \cup {<<"confirm", v>>}
  BY DEF Confirm, Store!Move
<1>3. Past /\ o \in Written(v)
  <2>1. Past /\ <<"write", v>> \in heard
    BY <1>2, HeardBefore DEF Past, FlowInv, TypeOK
  <2> QED BY <1>0, <2>1, OneWritten DEF FlowInv, Rest, OrdersAsked
<1>4. orders[o].status \in {"pending", "paid"} /\ orders' = [orders EXCEPT ![o].status = "confirmed"]
  <2>1. \A x : x \in Store!Before("confirm") =>
                x \in {"pending", "paid"} /\ Store!After["confirm"][x] = "confirmed"
    BY DEF Store!Before, Store!After
  <2>2. /\ orders[o].status \in Store!Before("confirm")
        /\ orders' = [orders EXCEPT ![o].status = Store!After["confirm"][orders[o].status]]
    BY <1>0 DEF Confirm, Store!Move, Store!CanMove
  <2> QED BY <2>1, <2>2
<1>5. o \in OrderIds /\ orders[o] \in P!Order
  BY <1>3 DEF Written, FlowInv, P!StoreInv, P!OrdersAreKept, P!Unplaced, Store!Unplaced, P!None, Store!None
<1>6. PICK order : /\ orders' = [orders EXCEPT ![o] = order]
                   /\ order.by = orders[o].by /\ order.status = "confirmed"
  <2>1. PICK order : order = [orders[o] EXCEPT !.status = "confirmed"]
    OBVIOUS
  <2>2. order.by = orders[o].by /\ order.status = "confirmed"
    BY <1>5, <2>1 DEF P!Order
  <2> QED BY <1>4, <2>1, <2>2
<1>7. /\ \A p \in OrderIds : orders'[p] = IF p = o THEN order ELSE orders[p]
      /\ \A w \in Vendors : Written(w)' = Written(w)
      /\ Written(v) = {o}
      /\ \A w \in Vendors : w # v => o \notin Written(w)
  <2>1. order.status # None
    BY <1>6 DEF None
  <2>2. o \in Written(v) /\ order.by = orders[o].by /\ orders' = [orders EXCEPT ![o] = order]
    BY <1>3, <1>6
  <2>3. Written(v) = {o}
    BY <2>1, <2>2, OrderMoves
  <2>4. \A w \in Vendors : w # v => o \notin Written(w)
    BY <2>1, <2>2, OrderMoves
  <2>5. \A p \in OrderIds : orders'[p] = IF p = o THEN order ELSE orders[p]
    <3>1. orders = [p \in OrderIds |-> orders[p]]
      BY DEF FlowInv, P!StoreInv, P!TypeOK
    <3> QED BY <2>2, <3>1
  <2>6. \A w \in Vendors : Written(w)' = Written(w)
    BY <2>1, <2>2, OrderMoves
  <2> QED BY <2>3, <2>4, <2>5, <2>6
<1>8. Undoable' = Undoable
  BY <1>2 DEF Undoable, flow
<1>9. TypeOK'
  BY <1>1, <1>2, <1>8 DEF FlowInv, TypeOK, flow
<1>10. GroupAsked' /\ HoldsAsked'
  BY <1>2 DEF FlowInv, Rest, GroupAsked, HoldsAsked, flow
<1>11. OrdersAsked'
  <2>1. Past'
    BY <1>1, <1>2, <1>3 DEF Past, flow
  <2>2. ASSUME NEW p \in OrderIds
        PROVE  /\ orders'[p] # Store!Unplaced => \E w \in Vendors : orders'[p].by = <<"write", w>>
               /\ orders'[p].status \in {None, "pending", "paid", "confirmed", "removed"}
               /\ orders'[p].status = "paid" => payment' = "captured"
    BY <1>2, <1>3, <1>6, <1>7 DEF FlowInv, Rest, OrdersAsked, Written
  <2>3. ASSUME NEW w \in Vendors
        PROVE  /\ <<"write", w>> \in heard' => <<"write", w>> \in claimed'
               /\ <<"write", w>> \in claimed' => <<"write", w>> \in sent' /\ Written(w)' # {}
               /\ <<"confirm", w>> \in heard' => <<"confirm", w>> \in claimed'
               /\ <<"confirm", w>> \in claimed' => <<"confirm", w>> \in sent'
    BY <1>2, <1>7 DEF FlowInv, Rest, OrdersAsked, flow
  <2>4. ASSUME NEW w \in Vendors, <<"confirm", w>> \in claimed'
        PROVE  \A p \in Written(w)' : orders'[p].status = "confirmed"
    <3>1. w # v => <<"confirm", w>> \in claimed
      BY <1>2, <2>4
    <3>2. \A p \in Written(w) : p \in OrderIds
      BY DEF Written
    <3>3. CASE w = v
      BY <1>3, <1>5, <1>6, <1>7, <3>3
    <3>4. CASE w # v
      <4>1. \A p \in Written(w) : orders[p].status = "confirmed"
        BY <3>1, <3>4 DEF FlowInv, Rest, OrdersAsked
      <4> QED BY <1>7, <3>2, <3>4, <4>1
    <3> QED BY <3>3, <3>4
  <2> QED BY <2>1, <2>2, <2>3, <2>4 DEF OrdersAsked, Store!Unplaced
<1>12. MoneyAsked'
  BY <1>1, <1>2, <1>7 DEF FlowInv, Rest, MoneyAsked, TypeOK, flow
<1>13. NoWayBack' /\ Standing'
  BY <1>1, <1>2, <1>6, <1>7 DEF FlowInv, Rest, NoWayBack, Standing, Past, MayTake, flow
<1>14. UndoingDone'
  <2>1. \A w \in Vendors : <<"write", w>> \in undone => \A p \in Written(w) : p # o /\ p \in OrderIds
    BY <1>4 DEF FlowInv, Rest, UndoingDone, Written
  <2> QED BY <1>1, <1>2, <1>7, <1>8, <2>1 DEF FlowInv, Rest, UndoingDone, flow
<1> QED BY <1>9, <1>10, <1>11, <1>12, <1>13, <1>14 DEF Rest

LEMMA HearsCapturedInv ==
  ASSUME FlowInv, NEW v \in Vendors, HearsCaptured(v), Store!TypeOK'
  PROVE  TypeOK' /\ Rest'
<1>1. PaysNow' = PaysNow /\ Pivot' = Pivot /\ Slip' = Slip /\ \A r \in Slip : Needs(r)' = Needs(r)
  BY SlipSame DEF HearsCaptured
<1>2. PICK o : /\ v \in DOMAIN shares /\ o = shares[v]
               /\ claimed' = claimed \cup {<<"captured", o>>}
               /\ orders' = IF orders[o].status = "pending"
                            THEN [orders EXCEPT ![o].status = "paid", ![o].paidAt = TRUE]
                            ELSE orders
               /\ UNCHANGED <<groups, closing, tender, hold, payment, shares, flow>>
  BY DEF HearsCaptured, Store!MarkPaid
<1>3. payment = "captured" /\ o \in Written(v) /\ o \in OrderIds
  BY <1>2 DEF FlowInv, Rest, MoneyAsked, Written
<1>4. orders[o] \in P!Order
  BY <1>3 DEF Written, FlowInv, P!StoreInv, P!OrdersAreKept, P!Unplaced, Store!Unplaced, P!None, Store!None
<1>5. /\ \A p \in OrderIds :
           /\ orders'[p] # Store!Unplaced <=> orders[p] # Store!Unplaced
           /\ orders'[p] # Store!Unplaced => orders'[p].by = orders[p].by
           /\ orders'[p].status = orders[p].status
                \/ (p = o /\ orders[p].status = "pending" /\ orders'[p].status = "paid")
      /\ \A w \in Vendors : Written(w)' = Written(w)
  <2>1. CASE orders[o].status # "pending"
    BY <1>2, <2>1 DEF Written, Store!Unplaced
  <2>2. CASE orders[o].status = "pending"
    <3>1. PICK order : order = [orders[o] EXCEPT !.status = "paid", !.paidAt = TRUE]
      OBVIOUS
    <3>2. order.by = orders[o].by /\ order.status = "paid"
      BY <1>4, <3>1 DEF P!Order
    <3>3. orders' = [orders EXCEPT ![o] = order]
      BY <1>2, <2>2, <3>1
    <3>4. order.status # None
      BY <3>2 DEF None
    <3>5. \A w \in Vendors : Written(w)' = Written(w)
      BY <1>3, <3>2, <3>3, <3>4, OrderMoves
    <3>6. \A p \in OrderIds : orders'[p] = IF p = o THEN order ELSE orders[p]
      <4>1. orders = [p \in OrderIds |-> orders[p]]
        BY DEF FlowInv, P!StoreInv, P!TypeOK
      <4> QED BY <3>3, <4>1
    <3>7. order # Store!Unplaced /\ orders[o] # Store!Unplaced
      BY <1>3, <3>4 DEF Store!Unplaced, Store!None, None, Written
    <3> QED BY <2>2, <3>2, <3>5, <3>6, <3>7
  <2> QED BY <2>1, <2>2
<1>6. Undoable' = Undoable
  BY <1>2 DEF Undoable, flow
<1>7. /\ UNCHANGED <<groups, tender, hold, payment, shares, mode, sent, heard, undone>>
       /\ Past' = Past /\ MayTake' = MayTake
  <2>1. UNCHANGED <<groups, tender, hold, payment, shares, mode, sent, heard, undone>>
    BY <1>2 DEF flow
  <2> QED BY <1>1, <2>1 DEF Past, MayTake
<1>8. TypeOK'
  BY <1>1, <1>2, <1>6 DEF FlowInv, TypeOK, flow
<1>9. GroupAsked' /\ HoldsAsked'
  BY <1>2 DEF FlowInv, Rest, GroupAsked, HoldsAsked, flow
<1>10. OrdersAsked'
  <2>1. ASSUME NEW p \in OrderIds
        PROVE  /\ orders'[p] # Store!Unplaced => \E w \in Vendors : orders'[p].by = <<"write", w>>
               /\ orders'[p].status \in {None, "pending", "paid", "confirmed", "removed"}
               /\ orders'[p].status = "paid" => payment' = "captured"
               /\ orders'[p].status = "confirmed" => Past'
    BY <1>3, <1>5, <1>7 DEF FlowInv, Rest, OrdersAsked
  <2>2. ASSUME NEW w \in Vendors
        PROVE  /\ <<"write", w>> \in claimed' <=> <<"write", w>> \in claimed
               /\ <<"confirm", w>> \in claimed' <=> <<"confirm", w>> \in claimed
    BY <1>2
  <2>3. ASSUME NEW w \in Vendors, <<"confirm", w>> \in claimed
        PROVE  \A p \in Written(w) : orders'[p].status = "confirmed"
    <3>1. \A p \in Written(w) : p \in OrderIds /\ orders[p].status = "confirmed"
      BY <2>3 DEF FlowInv, Rest, OrdersAsked, Written
    <3> QED BY <1>5, <3>1
  <2>4. ASSUME NEW w \in Vendors
        PROVE  /\ <<"write", w>> \in heard' => <<"write", w>> \in claimed'
               /\ <<"write", w>> \in claimed' => <<"write", w>> \in sent' /\ Written(w)' # {}
               /\ <<"confirm", w>> \in heard' => <<"confirm", w>> \in claimed'
               /\ <<"confirm", w>> \in claimed' => <<"confirm", w>> \in sent'
    BY <1>2, <1>5, <2>2 DEF FlowInv, Rest, OrdersAsked, flow
  <2> QED BY <1>5, <2>1, <2>2, <2>3, <2>4 DEF OrdersAsked, Store!Unplaced
<1>11. MoneyAsked'
  BY <1>1, <1>2, <1>5 DEF FlowInv, Rest, MoneyAsked, TypeOK, flow
<1>12. NoWayBack' /\ Standing'
  BY <1>5, <1>7 DEF FlowInv, Rest, NoWayBack, Standing
<1>13. UndoingDone'
  <2>1. \A w \in Vendors : <<"write", w>> \in undone =>
          \A p \in Written(w) : p \in OrderIds /\ orders[p].status = "removed"
    BY DEF FlowInv, Rest, UndoingDone, Written
  <2>2. \A w \in Vendors : <<"write", w>> \in undone =>
          \A p \in Written(w)' : orders'[p].status = "removed"
    BY <1>5, <2>1
  <2> QED BY <1>1, <1>6, <1>7, <2>2 DEF FlowInv, Rest, UndoingDone
<1> QED BY <1>8, <1>9, <1>10, <1>11, <1>12, <1>13 DEF Rest

LEMMA WriteInv ==
  ASSUME FlowInv, NEW v \in Vendors, Write(v), Store!TypeOK'
  PROVE  TypeOK' /\ Rest'
<1>1. PaysNow' = PaysNow /\ Pivot' = Pivot /\ Slip' = Slip /\ \A r \in Slip : Needs(r)' = Needs(r)
  BY SlipSame DEF Write
<1>2. PICK o, order :
        /\ o \in OrderIds
        /\ <<"write", v>> \in sent /\ <<"write", v>> \notin claimed
        /\ groups[G].state = "open" /\ groups' = [groups EXCEPT ![G].orderIds = @ \cup {o}]
        /\ orders[o] = Store!Unplaced /\ orders' = [orders EXCEPT ![o] = order]
        /\ order = [status |-> "pending", group |-> G, by |-> <<"write", v>>,
                    claimedFrom |-> Store!None, paidAt |-> FALSE]
        /\ claimed' = claimed \cup {<<"write", v>>}
        /\ UNCHANGED <<closing, tender, hold, payment, shares, flow>>
  BY DEF Write, Store!Place
<1>3. order.status = "pending" /\ order.by = <<"write", v>> /\ order # Store!Unplaced
  BY <1>2 DEF Store!Unplaced, Store!None
<1>4. \A p \in OrderIds : orders'[p] = IF p = o THEN order ELSE orders[p]
  <2>1. orders = [p \in OrderIds |-> orders[p]]
    BY DEF FlowInv, P!StoreInv, P!TypeOK
  <2> QED BY <1>2, <2>1
<1>5. groups'[G].state = groups[G].state
  <2>1. groups \in [{G} -> [state : {"unopened", "open", "removed"}, orderIds : SUBSET OrderIds]]
    BY DEF FlowInv, P!StoreInv, P!TypeOK
  <2> QED BY <1>2, <2>1
<1>6. /\ \A w \in Vendors : w # v => Written(w)' = Written(w)
      /\ Written(v)' = Written(v) \cup {o}
      /\ Written(v) = {}
  <2>1. Written(v) = {}
    BY <1>2 DEF Written, FlowInv, P!StoreInv, P!OrdersAreKept, P!Unplaced, Store!Unplaced, P!None, Store!None
  <2> QED BY <1>2, <1>3, <1>4, <2>1 DEF Written, Store!Unplaced
<1>7. <<"write", v>> \notin heard /\ <<"confirm", v>> \notin claimed
  <2>1. <<"write", v>> \notin heard
    BY <1>2 DEF FlowInv, Rest, OrdersAsked
  <2>2. <<"confirm", v>> \in sent => <<"write", v>> \in heard
    BY HeardBefore DEF FlowInv, TypeOK
  <2> QED BY <2>1, <2>2 DEF FlowInv, Rest, OrdersAsked
<1>8. Undoable' = Undoable
  BY <1>2 DEF Undoable, flow
<1>9. UNCHANGED <<tender, hold, payment, shares, mode, sent, heard, undone>>
  BY <1>2 DEF flow
<1>10. Past' = Past /\ MayTake' = MayTake
  BY <1>1, <1>9 DEF Past, MayTake
<1>11. TypeOK'
  BY <1>1, <1>2, <1>8 DEF FlowInv, TypeOK, flow
<1>12. GroupAsked' /\ HoldsAsked'
  BY <1>2, <1>5 DEF FlowInv, Rest, GroupAsked, HoldsAsked, flow
<1>13. OrdersAsked'
  <2>1. ASSUME NEW p \in OrderIds
        PROVE  /\ orders'[p] # Store!Unplaced => \E w \in Vendors : orders'[p].by = <<"write", w>>
               /\ orders'[p].status \in {None, "pending", "paid", "confirmed", "removed"}
               /\ orders'[p].status = "paid" => payment' = "captured"
               /\ orders'[p].status = "confirmed" => Past'
    BY <1>3, <1>4, <1>9, <1>10 DEF FlowInv, Rest, OrdersAsked
  <2>2. ASSUME NEW w \in Vendors
        PROVE  /\ <<"write", w>> \in claimed' <=> w = v \/ <<"write", w>> \in claimed
               /\ <<"confirm", w>> \in claimed' <=> <<"confirm", w>> \in claimed
    BY <1>2
  <2>3. ASSUME NEW w \in Vendors, <<"confirm", w>> \in claimed
        PROVE  \A p \in Written(w)' : orders'[p].status = "confirmed"
    <3>1. w # v /\ Written(w)' = Written(w)
      BY <1>6, <1>7, <2>3
    <3>2. \A p \in Written(w) : p \in OrderIds /\ p # o /\ orders[p].status = "confirmed"
      BY <1>2, <2>3 DEF FlowInv, Rest, OrdersAsked, Written
    <3> QED BY <1>4, <3>1, <3>2
  <2>4. ASSUME NEW w \in Vendors
        PROVE  /\ <<"write", w>> \in heard' => <<"write", w>> \in claimed'
               /\ <<"write", w>> \in claimed' => <<"write", w>> \in sent' /\ Written(w)' # {}
               /\ <<"confirm", w>> \in heard' => <<"confirm", w>> \in claimed'
               /\ <<"confirm", w>> \in claimed' => <<"confirm", w>> \in sent'
    <3>1. Written(v)' # {}
      BY <1>6
    <3> QED BY <1>2, <1>6, <2>2, <3>1 DEF FlowInv, Rest, OrdersAsked, flow
  <2> QED BY <2>1, <2>2, <2>3, <2>4 DEF OrdersAsked, Store!Unplaced
<1>14. MoneyAsked'
  <2>1. \A w \in DOMAIN shares : w \in Vendors /\ shares[w] \in Written(w)
    BY DEF FlowInv, Rest, MoneyAsked, TypeOK
  <2>2. \A w \in DOMAIN shares : shares'[w] \in Written(w)'
    BY <1>2, <1>6, <2>1
  <2> QED BY <1>1, <1>2, <2>2 DEF FlowInv, Rest, MoneyAsked, flow
<1>15. NoWayBack' /\ Standing'
  BY <1>3, <1>4, <1>5, <1>9, <1>10 DEF FlowInv, Rest, NoWayBack, Standing
<1>16. UndoingDone'
  <2>1. <<"write", v>> \notin undone
    BY <1>7 DEF FlowInv, TypeOK, Undoable
  <2>2. \A w \in Vendors : <<"write", w>> \in undone =>
          /\ Written(w)' = Written(w)
          /\ \A p \in Written(w) : p \in OrderIds /\ p # o /\ orders[p].status = "removed"
    BY <1>2, <1>6, <2>1 DEF FlowInv, Rest, UndoingDone, Written
  <2>3. \A w \in Vendors : <<"write", w>> \in undone =>
          \A p \in Written(w)' : orders'[p].status = "removed"
    BY <1>4, <2>2
  <2> QED BY <1>1, <1>5, <1>8, <1>9, <2>3 DEF FlowInv, Rest, UndoingDone
<1> QED BY <1>11, <1>12, <1>13, <1>14, <1>15, <1>16 DEF Rest

-----------------------------------------------------------------------------
(* Undoing *)

(* What every undoing leaves as it was, whichever step it undoes. *)
LEMMA UndoFrame ==
  ASSUME FlowInv, NEW s \in Slip, Undo(s), Store!TypeOK',
         hold' \in [Vendors -> {None, "held", "released", "converted"}]
  PROVE  /\ UNCHANGED <<claimed, tender, payment, shares, sent, heard>>
         /\ PaysNow' = PaysNow /\ Pivot' = Pivot /\ Slip' = Slip /\ Undoable' = Undoable
         /\ Past' = Past /\ ~Past /\ mode' \in {"undoing", "undone"}
         /\ mode' = "undone" => undone' = Undoable
         /\ undone' \subseteq undone \cup {s} /\ s \in heard
         /\ TypeOK' /\ NoWayBack' /\ Standing'
<1>1. /\ UNCHANGED <<tender, payment, shares, sent, heard>>
      /\ mode = "undoing" /\ s \in Undoable /\ Undid(s)
  BY DEF Undo
<1>2. UNCHANGED claimed
  BY DEF Undo, Undoable, Store!RemoveGroup, Store!Remove, store
<1>3. PaysNow' = PaysNow /\ Pivot' = Pivot /\ Slip' = Slip /\ \A r \in Slip : Needs(r)' = Needs(r)
  BY <1>1, SlipSame
<1>4. Undoable' = Undoable /\ s \in heard
  BY <1>1 DEF Undoable
<1>5. ~Past /\ ~MayTake
  BY <1>1 DEF FlowInv, Rest, NoWayBack
<1>6. Past' = Past /\ MayTake' = MayTake
  BY <1>1, <1>3 DEF Past, MayTake
<1>7. /\ mode' \in {"undoing", "undone"}
      /\ mode' = "undone" => undone' = Undoable
      /\ undone' \subseteq undone \cup {s}
  BY <1>1, <1>4 DEF Undid
<1>8. TypeOK'
  BY <1>1, <1>3, <1>4, <1>7 DEF FlowInv, TypeOK
<1>9. NoWayBack' /\ Standing'
  BY <1>5, <1>6, <1>7 DEF NoWayBack, Standing
<1> QED BY <1>1, <1>2, <1>3, <1>4, <1>5, <1>6, <1>7, <1>8, <1>9

(* While undoing, no order was confirmed and none may be. *)
LEMMA NoneConfirmed ==
  ASSUME FlowInv, ~Past, NEW v \in Vendors
  PROVE  <<"confirm", v>> \notin claimed
<1>1. <<"confirm", v>> \in sent => <<"convert", v>> \in heard
  BY HeardBefore DEF FlowInv
<1>2. <<"convert", v>> \in heard => Pivot \in heard
  BY HeardBefore DEF FlowInv, TypeOK
<1> QED BY <1>1, <1>2 DEF FlowInv, Rest, OrdersAsked, Past

LEMMA UndoReserveInv ==
  ASSUME FlowInv, NEW s \in Slip, Undo(s), s[1] = "reserve", Store!TypeOK'
  PROVE  TypeOK' /\ Rest'
<1>1. PICK v \in Vendors : s = <<"reserve", v>>
  BY DEF Slip, Open, Pivot
<1>2. UNCHANGED store /\ hold' = IF hold[v] = "held" THEN [hold EXCEPT ![v] = "released"] ELSE hold
  BY <1>1 DEF Undo
<1>3. hold \in [Vendors -> {None, "held", "released", "converted"}]
  BY DEF FlowInv, TypeOK
<1>4. hold' \in [Vendors -> {None, "held", "released", "converted"}]
  BY <1>2, <1>3
<1>5. /\ \A w \in Vendors : w # v => hold'[w] = hold[w]
      /\ hold'[v] = IF hold[v] = "held" THEN "released" ELSE hold[v]
  BY <1>2, <1>3
<1>6. \A w \in Vendors : Written(w)' = Written(w)
  BY <1>2 DEF Written, store, Store!Unplaced
<1> DEFINE Frame ==
             /\ UNCHANGED <<claimed, tender, payment, shares, sent, heard>>
             /\ PaysNow' = PaysNow /\ Pivot' = Pivot /\ Slip' = Slip /\ Undoable' = Undoable
             /\ Past' = Past /\ mode' \in {"undoing", "undone"}
             /\ mode' = "undone" => undone' = Undoable
             /\ undone' \subseteq undone \cup {s} /\ s \in heard
<1>7. Frame /\ TypeOK' /\ NoWayBack' /\ Standing'
  BY <1>4, UndoFrame
<1>8. GroupAsked' /\ OrdersAsked' /\ MoneyAsked'
  BY <1>2, <1>6, <1>7 DEF FlowInv, Rest, GroupAsked, OrdersAsked, MoneyAsked, store, TypeOK, Store!Unplaced
<1>9. HoldsAsked'
  BY <1>1, <1>5, <1>7 DEF FlowInv, Rest, HoldsAsked, None
<1>10. UndoingDone'
  <2>1. \A w \in Vendors : <<"reserve", w>> \in undone' => hold'[w] # "held"
    BY <1>1, <1>5, <1>7 DEF FlowInv, Rest, UndoingDone
  <2>2. /\ Open \in undone' => Open \in undone
        /\ \A w \in Vendors : <<"write", w>> \in undone' => <<"write", w>> \in undone
    BY <1>1, <1>7 DEF Open
  <2>3. mode' # "completed"
    BY <1>7
  <2> QED BY <1>2, <1>6, <1>7, <2>1, <2>2, <2>3 DEF FlowInv, Rest, UndoingDone, store
<1> QED BY <1>7, <1>8, <1>9, <1>10 DEF Rest

LEMMA UndoOpenInv ==
  ASSUME FlowInv, NEW s \in Slip, Undo(s), s[1] = "open", Store!TypeOK'
  PROVE  TypeOK' /\ Rest'
<1>1. s = Open
  BY DEF Slip, Open, Pivot
<1>2. /\ UNCHANGED <<hold, orders>>
      /\ groups'[G].state = IF groups[G].state = "open" THEN "removed" ELSE groups[G].state
  <2>1. groups \in [{G} -> [state : {"unopened", "open", "removed"}, orderIds : SUBSET OrderIds]]
    BY DEF FlowInv, P!StoreInv, P!TypeOK
  <2>2. /\ UNCHANGED hold
        /\ IF groups[G].state = "open" THEN Store!RemoveGroup(G) ELSE UNCHANGED store
    BY DEF Undo
  <2> QED BY <2>1, <2>2 DEF Store!RemoveGroup, store
<1>3. hold' \in [Vendors -> {None, "held", "released", "converted"}]
  BY <1>2 DEF FlowInv, TypeOK
<1>4. \A w \in Vendors : Written(w)' = Written(w)
  BY <1>2 DEF Written, Store!Unplaced
<1>5. /\ UNCHANGED <<claimed, tender, payment, shares, sent, heard>>
      /\ PaysNow' = PaysNow /\ Pivot' = Pivot /\ Slip' = Slip /\ Undoable' = Undoable
      /\ Past' = Past /\ mode' \in {"undoing", "undone"}
      /\ mode' = "undone" => undone' = Undoable
      /\ undone' \subseteq undone \cup {s} /\ s \in heard
      /\ TypeOK' /\ NoWayBack' /\ Standing'
  BY <1>3, UndoFrame
<1>6. GroupAsked' /\ HoldsAsked'
  BY <1>1, <1>2, <1>5 DEF FlowInv, Rest, GroupAsked, HoldsAsked
<1>7. OrdersAsked' /\ MoneyAsked'
  BY <1>2, <1>4, <1>5 DEF FlowInv, Rest, OrdersAsked, MoneyAsked, TypeOK, Store!Unplaced
<1>8. UndoingDone'
  <2>1. \A w \in Vendors : /\ <<"write", w>> \in undone' => <<"write", w>> \in undone
                           /\ <<"reserve", w>> \in undone' => <<"reserve", w>> \in undone
    BY <1>1, <1>5 DEF Open
  <2>2. Open \in undone' => groups'[G].state # "open"
    BY <1>2
  <2>3. mode' # "completed"
    BY <1>5
  <2> QED BY <1>2, <1>4, <1>5, <2>1, <2>2, <2>3 DEF FlowInv, Rest, UndoingDone
<1> QED BY <1>5, <1>6, <1>7, <1>8 DEF Rest

LEMMA UndoWriteInv ==
  ASSUME FlowInv, NEW s \in Slip, Undo(s), s[1] = "write", Store!TypeOK'
  PROVE  TypeOK' /\ Rest'
<1>1. PICK v \in Vendors : s = <<"write", v>>
  BY DEF Slip, Open, Pivot
<1>2. UNCHANGED hold /\ hold' \in [Vendors -> {None, "held", "released", "converted"}]
  BY <1>1 DEF Undo, FlowInv, TypeOK
<1>3. /\ UNCHANGED <<claimed, tender, payment, shares, sent, heard>>
      /\ PaysNow' = PaysNow /\ Pivot' = Pivot /\ Slip' = Slip /\ Undoable' = Undoable
      /\ Past' = Past /\ ~Past /\ mode' \in {"undoing", "undone"}
      /\ mode' = "undone" => undone' = Undoable
      /\ undone' \subseteq undone \cup {s} /\ s \in heard
      /\ TypeOK' /\ NoWayBack' /\ Standing'
  BY <1>2, UndoFrame
<1>4. PICK o : o = OrderOf(v)
  OBVIOUS
<1>5. o \in Written(v) /\ Written(v) = {o} /\ o \in OrderIds
  BY <1>1, <1>3, <1>4, OneWritten DEF FlowInv, Rest, OrdersAsked, Written
<1>6. orders[o] \in P!Order
  BY <1>5 DEF Written, FlowInv, P!StoreInv, P!OrdersAreKept, P!Unplaced, Store!Unplaced, P!None, Store!None
<1>7. IF orders[o].status \in Store!Statuses
      THEN orders' = [orders EXCEPT ![o].status = "removed"] /\ UNCHANGED groups
      ELSE UNCHANGED <<groups, orders>>
  BY <1>1, <1>4 DEF Undo, Store!Remove, Store!Placed, store
<1>8. /\ \A p \in OrderIds :
           /\ orders'[p] # Store!Unplaced <=> orders[p] # Store!Unplaced
           /\ orders'[p] # Store!Unplaced => orders'[p].by = orders[p].by
           /\ orders'[p].status = IF p = o THEN "removed" ELSE orders[p].status
      /\ \A w \in Vendors : Written(w)' = Written(w)
      /\ UNCHANGED groups
  <2>1. CASE orders[o].status \notin Store!Statuses
    <3>1. orders[o].status = "removed"
      BY <1>6, <2>1 DEF P!Order, P!Statuses, Store!Statuses
    <3> QED BY <1>7, <2>1, <3>1 DEF Written, Store!Unplaced
  <2>2. CASE orders[o].status \in Store!Statuses
    <3>1. PICK order : order = [orders[o] EXCEPT !.status = "removed"]
      OBVIOUS
    <3>2. order.by = orders[o].by /\ order.status = "removed"
      BY <1>6, <3>1 DEF P!Order
    <3>3. orders' = [orders EXCEPT ![o] = order] /\ UNCHANGED groups
      BY <1>7, <2>2, <3>1
    <3>4. order.status # None
      BY <3>2 DEF None
    <3>5. \A w \in Vendors : Written(w)' = Written(w)
      BY <1>5, <3>2, <3>3, <3>4, OrderMoves
    <3>6. \A p \in OrderIds : orders'[p] = IF p = o THEN order ELSE orders[p]
      <4>1. orders = [p \in OrderIds |-> orders[p]]
        BY DEF FlowInv, P!StoreInv, P!TypeOK
      <4> QED BY <3>3, <4>1
    <3>7. order # Store!Unplaced /\ orders[o] # Store!Unplaced
      BY <1>5, <3>4 DEF Store!Unplaced, Store!None, None, Written
    <3> QED BY <3>2, <3>3, <3>5, <3>6, <3>7
  <2> QED BY <2>1, <2>2
<1>9. GroupAsked' /\ HoldsAsked'
  BY <1>2, <1>3, <1>8 DEF FlowInv, Rest, GroupAsked, HoldsAsked
<1>10. OrdersAsked'
  <2>1. ASSUME NEW p \in OrderIds
        PROVE  /\ orders'[p] # Store!Unplaced => \E w \in Vendors : orders'[p].by = <<"write", w>>
               /\ orders'[p].status \in {None, "pending", "paid", "confirmed", "removed"}
               /\ orders'[p].status = "paid" => payment' = "captured"
               /\ orders'[p].status = "confirmed" => Past'
    BY <1>3, <1>8 DEF FlowInv, Rest, OrdersAsked
  <2>2. \A w \in Vendors : <<"confirm", w>> \notin claimed
    BY <1>3, NoneConfirmed
  <2>3. ASSUME NEW w \in Vendors
        PROVE  /\ <<"write", w>> \in heard' => <<"write", w>> \in claimed'
               /\ <<"write", w>> \in claimed' => <<"write", w>> \in sent' /\ Written(w)' # {}
               /\ <<"confirm", w>> \in heard' => <<"confirm", w>> \in claimed'
    BY <1>3, <1>8 DEF FlowInv, Rest, OrdersAsked
  <2> QED BY <1>3, <2>1, <2>2, <2>3 DEF OrdersAsked, Store!Unplaced
<1>11. MoneyAsked'
  BY <1>3, <1>8 DEF FlowInv, Rest, MoneyAsked, TypeOK
<1>12. UndoingDone'
  <2>1. /\ Open \in undone' => Open \in undone
        /\ \A w \in Vendors : <<"reserve", w>> \in undone' => <<"reserve", w>> \in undone
        /\ \A w \in Vendors : <<"write", w>> \in undone' => w = v \/ <<"write", w>> \in undone
    BY <1>1, <1>3 DEF Open
  <2>2. ASSUME NEW w \in Vendors, <<"write", w>> \in undone'
        PROVE  \A p \in Written(w)' : orders'[p].status = "removed"
    <3>1. CASE w = v
      BY <1>5, <1>8, <3>1
    <3>2. CASE w # v
      <4>1. \A p \in Written(w) : p \in OrderIds /\ orders[p].status = "removed"
        BY <2>1, <2>2, <3>2 DEF FlowInv, Rest, UndoingDone, Written
      <4> QED BY <1>8, <4>1
    <3> QED BY <3>1, <3>2
  <2>3. mode' # "completed"
    BY <1>3
  <2> QED BY <1>2, <1>3, <1>8, <2>1, <2>2, <2>3 DEF FlowInv, Rest, UndoingDone
<1> QED BY <1>3, <1>9, <1>10, <1>11, <1>12 DEF Rest

-----------------------------------------------------------------------------
LEMMA FlowStep == FlowInv /\ [Next]_vars => FlowInv'
<1> SUFFICES ASSUME FlowInv, [Next]_vars PROVE FlowInv'
  OBVIOUS
<1>1. P!StoreInv' /\ Store!TypeOK'
  BY StoreKept
<1>2. TypeOK' /\ Rest'
  <2>1. CASE UNCHANGED vars
    <3>1. PaysNow' = PaysNow /\ Pivot' = Pivot /\ Slip' = Slip /\ \A r \in Slip : Needs(r)' = Needs(r)
      BY <2>1, SlipSame DEF vars
    <3>2. /\ UNCHANGED <<store, tender, hold, payment, shares, mode, sent, heard, undone>>
          /\ Undoable' = Undoable
      BY <2>1 DEF vars, flow, Undoable
    <3>3. TypeOK'
      BY <1>1, <3>1, <3>2 DEF FlowInv, TypeOK
    <3>4. GroupAsked' /\ HoldsAsked' /\ OrdersAsked' /\ MoneyAsked'
      BY <3>2, RecordsSame
    <3>5. NoWayBack' /\ Standing'
      BY <3>1, <3>2 DEF FlowInv, Rest, NoWayBack, Standing, Past, MayTake, store
    <3>6. UndoingDone'
      <4>1. \A v \in Vendors : Written(v)' = Written(v)
        BY <3>2 DEF Written, store, Store!Unplaced
      <4> QED BY <3>1, <3>2, <4>1 DEF FlowInv, Rest, UndoingDone, store
    <3> QED BY <3>3, <3>4, <3>5, <3>6 DEF Rest
  <2>2. ASSUME NEW s \in Slip, Undo(s) PROVE TypeOK' /\ Rest'
    <3>1. s[1] \in {"open", "reserve", "write"}
      BY <2>2 DEF Undo, Undoable
    <3> QED BY <1>1, <2>2, <3>1, UndoOpenInv, UndoReserveInv, UndoWriteInv
  <2> QED BY <1>1, <2>1, <2>2, SendInv, HearInv, RefusalInv, GivesUpInv, StrandsInv, OpenGroupInv,
             CaptureInv, HoldInv, WriteInv, ConfirmInv, HearsCapturedInv
          DEF Next, Engine, Participants
<1> QED BY <1>1, <1>2 DEF FlowInv

LEMMA FlowInvAlways == Spec => []FlowInv
BY FlowInit, FlowStep, PTL DEF Spec

(* The records keep their types, and no step is asked for before those it    *)
(* waits for were heard.                                                     *)
THEOREM TypeCorrect == Spec => []TypeOK
<1>1. FlowInv => TypeOK
  BY DEF FlowInv
<1> QED BY <1>1, FlowInvAlways, PTL

(* Money never stands without its orders: for every basket, every way of     *)
(* paying it and every loss, repetition and delay of a request.              *)
THEOREM MoneyHasOrdersAlways == Spec => []MoneyHasOrders
BY MoneyStands, FlowInvAlways, PTL

(* A checkout that ended happened whole or not at all, as far as it knows.   *)
THEOREM AllOrNothingAlways == Spec => []AllOrNothing
BY EndsWhole, FlowInvAlways, PTL

(* A checkout asks of the order store nothing but what the store does: every *)
(* theorem about the store holds of the store under this flow.               *)
THEOREM FlowUsesStore == Spec => P!Spec
<1>1. Init => P!Init
  BY DEF Init, P!Init, Store!Init, P!Unplaced, Store!Unplaced, P!None, Store!None
<1>2. FlowInv /\ [Next]_vars => [P!Next]_(P!vars)
  <2>1. UNCHANGED vars => UNCHANGED P!vars
    BY DEF vars, store, P!vars
  <2> QED BY <2>1, StoreStep
<1> QED BY <1>1, <1>2, FlowInvAlways, PTL DEF Spec, P!Spec

(* So every order a checkout writes lives the life the store promises.       *)
THEOREM OrdersLiveOn == Spec => P!ImplementsLife
BY FlowUsesStore, P!StoreImplementsLife, PTL
=============================================================================
