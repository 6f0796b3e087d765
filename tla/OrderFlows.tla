------------------------------ MODULE OrderFlows ------------------------------
(***************************************************************************)
(* One vendor's order from the moment its checkout committed, and the      *)
(* flows that meet on it (flow-catalog/src/catalog.ts): the checkout       *)
(* rolling forward, cancellations asked by the buyer or the vendor, and    *)
(* deliveries started by the vendor's dispatch.  Each runs its slip step   *)
(* by step over the order store, the shipment store, the ledger and the    *)
(* payments; none of them sees another except through those.               *)
(*                                                                         *)
(* The workflow engine and the HTTP edge are outside this repository.      *)
(* What its code and its dials (workflow/participant-dials.ts) rely on: a  *)
(* step is sent under one key until an answer is heard; a step refused, or *)
(* given up, before the commit point has the flow undo the steps it has an *)
(* answer of, last first, and a refusal after it strands the flow for a    *)
(* person; past its bound a step the flow cannot turn from suspends it;    *)
(* what was sent may be carried out whatever became of the flow; an        *)
(* endpoint that is idempotent at the edge runs once per key.              *)
(***************************************************************************)
EXTENDS Naturals, Sequences, FiniteSets

CONSTANTS
  Cancellations,  \* cancellation flows that may be started
  Deliveries,     \* delivery flows that may be started
  Placements,     \* the ways the order may have been placed
  Attempts        \* deliveries a courier's report may spend

(* Paid by card or in cash on delivery; opening a shipment, opening none     *)
(* (its vendor does not ship), or handed over at a counter.                  *)
Placement == [method : {"card", "cod"}, channel : {"shipped", "unshipped", "counter"}]

None == "none"

Checkout == "checkout"

Flows == {Checkout} \cup Cancellations \cup Deliveries

(* Every start, of whichever recipe, draws an id of its own.                 *)
ASSUME ConstantsMakeSense ==
  /\ Placements \subseteq Placement
  /\ Attempts \in Nat \ {0}
  /\ Cancellations \cap Deliveries = {}
  /\ Checkout \notin Cancellations \cup Deliveries
  /\ None \notin Flows

O == "order"
G == "group"

VARIABLES
  groups, orders, claimed, closing, outbox,  \* the order store
  shipments, shipClaimed, reports,           \* the shipment store
  flows,       \* flow -> its mode, what it has to do, to undo, and whether it committed
  hold,        \* how the order's hold on stock stands
  restored,    \* flows that put the goods back
  refundedBy,  \* the flow whose refund was made
  declined,    \* refunds the provider declined
  collected,   \* whether the courier's cash was recorded
  placed,      \* how the order was placed
  signals,     \* report -> deliveries its message has left
  edge         \* requests the edge remembers

Steps ==
  {"place", "convert", "confirm", "open", "mark", "close_fulfilled", "hold",
   "claim", "refund", "commit", "restore", "withdraw", "close_cancelled",
   "dispatch", "await_delivery", "collect", "await_return", "release", "unclaim"}

Commands == Flows \X Steps

Store == INSTANCE ProductOrder WITH
  Groups <- {G}, OrderIds <- {O}, Commands <- Commands, Captures <- {"captured"}

Ship == INSTANCE ShippingOrder WITH
  Shipments <- {O}, ShipCommands <- Commands

store == <<groups, orders, claimed, closing, outbox>>
ship  == <<shipments, shipClaimed, reports>>
money == <<refundedBy, declined, collected>>
stock == <<hold, restored>>
wire  == <<signals, edge>>

vars == <<store, ship, flows, stock, money, placed, wire>>

-----------------------------------------------------------------------------
(* The slips *)

Card == placed.method = "card"

(* From the commit point on, as far as one vendor's order is concerned. *)
CheckoutTail ==
  CASE placed.channel = "shipped"   -> <<"convert", "confirm", "open">>
    [] placed.channel = "unshipped" -> <<"convert", "confirm">>
    [] placed.channel = "counter"   -> <<"convert", "confirm", "mark", "close_fulfilled">>

(* The pivot of a cancellation: the money goes back, or there is none yet. *)
Pivot == IF Card THEN "refund" ELSE "commit"

CancellationSlip(shipped) ==
  IF shipped
  THEN <<"hold", "claim", Pivot, "restore", "withdraw", "close_cancelled">>
  ELSE <<"claim", Pivot, "restore", "close_cancelled">>

DeliverySlip == <<"dispatch", "mark", "await_delivery">>

(* What a delivery does once its first wait is answered. *)
Branch(outcome) ==
  IF outcome = "delivered"
  THEN IF Card THEN <<"close_fulfilled">> ELSE <<"collect", "close_fulfilled">>
  ELSE IF Card THEN <<"await_return", "restore", "close_cancelled", "refund">>
               ELSE <<"await_return", "restore", "close_cancelled">>

(* A refund is the pivot of a cancellation only: a delivery's is its dispatch. *)
Pivots == {"refund", "commit", "dispatch"}

Undoing == [hold |-> "release", claim |-> "unclaim"]

Unstarted == [mode |-> "unstarted", todo |-> <<>>, undo |-> <<>>, past |-> FALSE]

Flow == [mode : {"unstarted", "running", "undoing", "completed", "undone", "stranded",
                 "suspended", "uncompensated"},
         todo : Seq(Steps), undo : Seq(Steps), past : BOOLEAN]

Outcomes == {"delivered", "refused", "returned"}

(* Every flow has a listed mode and a slip of known steps, and every record *)
(* it writes is one of the values its store can hold.                       *)
TypeOK ==
  /\ Store!TypeOK
  /\ Ship!TypeOK
  /\ flows \in [Flows -> Flow]
  /\ hold \in {"held", "released", "converted"}
  /\ restored \in SUBSET Flows
  /\ refundedBy \in Flows \cup {None}
  /\ declined \in SUBSET Flows
  /\ collected \in BOOLEAN
  /\ signals \in [Outcomes -> 0 .. Attempts]
  /\ edge \in SUBSET Flows

(* The checkout committed: a card's capture is announced, and cash waits.    *)
Init ==
  /\ groups = [g \in {G} |-> [state |-> "open", orderIds |-> {O}]]
  /\ orders = [o \in {O} |->
       [status |-> "pending", group |-> G, by |-> <<Checkout, "place">>,
        claimedFrom |-> None, paidAt |-> FALSE]]
  /\ claimed = {<<Checkout, "place">>}
  /\ closing = {}
  /\ outbox = [o \in {O} |-> <<[name |-> "order.placed", version |-> 1]>>]
  /\ Ship!Init
  /\ placed \in Placements
  /\ flows = [f \in Flows |->
       IF f = Checkout
       THEN [mode |-> "running", todo |-> CheckoutTail, undo |-> <<>>, past |-> TRUE]
       ELSE Unstarted]
  /\ hold = "held"
  /\ restored = {}
  /\ refundedBy = None
  /\ declined = {}
  /\ collected = FALSE
  /\ signals = [r \in Outcomes |-> 0]
  /\ edge = {}

-----------------------------------------------------------------------------
(* The engine *)

At(f, step) ==
  flows[f].mode = "running" /\ flows[f].todo # <<>> /\ Head(flows[f].todo) = step

(* A step of a flow that waits for its answer no more, whose request may     *)
(* still be under way.  A refund before the commit point is turned from only *)
(* unsent or decided.                                                        *)
LeftAsked(f, step) ==
  /\ flows[f].mode \in {"undoing", "undone", "stranded", "suspended", "uncompensated"}
  /\ flows[f].todo # <<>> /\ Head(flows[f].todo) = step
  /\ step = "refund" => flows[f].mode \in {"stranded", "suspended"}

Asked(f, step) == At(f, step) \/ LeftAsked(f, step)

Proceed(f, todo) ==
  LET step == Head(flows[f].todo)
      undo == IF step \in DOMAIN Undoing /\ ~flows[f].past
              THEN <<Undoing[step]>> \o flows[f].undo ELSE flows[f].undo
  IN  flows' = [flows EXCEPT ![f] =
        [mode |-> IF todo = <<>> THEN "completed" ELSE "running",
         todo |-> todo,
         undo |-> undo,
         past |-> flows[f].past \/ step \in Pivots]]

(* What comes back to a flow that waits no more moves it no more. *)
Answered(f) ==
  IF flows[f].mode = "running" THEN Proceed(f, Tail(flows[f].todo)) ELSE UNCHANGED flows

(* The answer may be lost, and the step is sent again under its key. *)
Hears(f) == Answered(f) \/ UNCHANGED flows

Turns(f) ==
  flows' = [flows EXCEPT ![f].mode =
    IF flows[f].past THEN "stranded"
    ELSE IF flows[f].undo = <<>> THEN "undone" ELSE "undoing"]

(* Bugs in the next definition: what was done before a refused step stays    *)
(* done, or a refused step is asked again for ever.                          *)
RefusedForgets(f) ==
  IF flows[f].mode = "running"
  THEN flows' = [flows EXCEPT ![f].mode = IF flows[f].past THEN "stranded" ELSE "undone"]
  ELSE UNCHANGED flows

RefusedRetries(f) ==
  IF flows[f].mode = "running" /\ flows[f].past
  THEN flows' = [flows EXCEPT ![f].mode = "stranded"]
  ELSE UNCHANGED flows

Refused(f) == IF flows[f].mode = "running" THEN Turns(f) ELSE UNCHANGED flows

(* A participant out of reach before the commit point: the step is given up, *)
(* asked or not, carried out or not.  A pivot is given up only unsent: its   *)
(* breaker was open.                                                         *)
GivesUp(f) ==
  /\ flows[f].mode = "running" /\ ~flows[f].past /\ ~At(f, "commit")
  /\ At(f, "dispatch") => <<f, "dispatch">> \notin shipClaimed
  /\ At(f, "refund") => refundedBy # f /\ f \notin declined
  /\ Turns(f)
  /\ UNCHANGED <<store, ship, stock, money, wire>>

(* Out of reach past the bound of the step: at a pivot or after it, or while *)
(* undoing.  The flow is left for a person.                                  *)
Suspends(f) ==
  /\ \/ /\ flows[f].mode = "running"
        /\ flows[f].past \/ At(f, "refund") \/ At(f, "dispatch")
        /\ ~At(f, "await_delivery") /\ ~At(f, "await_return")
        /\ flows' = [flows EXCEPT ![f].mode = "suspended"]
     \/ /\ flows[f].mode = "undoing"
        /\ flows' = [flows EXCEPT ![f].mode = "uncompensated"]
  /\ UNCHANGED <<store, ship, stock, money, wire>>

(* A step claimed in the unit that runs it. *)
OnOrder(f, step, can, do) ==
  /\ Asked(f, step)
  /\ \/ <<f, step>> \notin claimed /\ can /\ do /\ Hears(f)
     \/ <<f, step>> \in claimed /\ UNCHANGED store /\ Answered(f)
     \/ <<f, step>> \notin claimed /\ ~can /\ UNCHANGED store /\ Refused(f)
  /\ UNCHANGED <<ship, stock, money, wire>>

OnShipment(f, step, can, do) ==
  /\ Asked(f, step)
  /\ \/ <<f, step>> \notin shipClaimed /\ can /\ do /\ Hears(f)
     \/ <<f, step>> \in shipClaimed /\ UNCHANGED ship /\ Answered(f)
     \/ <<f, step>> \notin shipClaimed /\ ~can /\ UNCHANGED ship /\ Refused(f)
  /\ UNCHANGED <<store, stock, money, wire>>

-----------------------------------------------------------------------------
(* Steps on the order *)

MoveStep(f, step, transition) ==
  OnOrder(f, step, Store!CanMove(O, transition),
          Store!Move(O, transition, <<f, step>>) /\ UNCHANGED closing)

Confirm(f) == MoveStep(f, "confirm", "confirm")

MarkDispatched(f) == MoveStep(f, "mark", "mark_dispatched")

CloseFulfilled(f) == MoveStep(f, "close_fulfilled", "close_fulfilled")

(* A bug in the next definition: a claim another cancellation holds answers  *)
(* like one's own.                                                           *)
ClaimCancelShared(f) ==
  \/ OnOrder(f, "claim", Store!CanMove(O, "claim_cancel"),
             Store!ClaimCancellation(O, <<f, "claim">>))
  \/ /\ Asked(f, "claim")
     /\ orders[O].status = "cancelling"
     /\ Answered(f)
     /\ UNCHANGED <<store, ship, stock, money, wire>>

ClaimCancel(f) ==
  OnOrder(f, "claim", Store!CanMove(O, "claim_cancel"),
          Store!ClaimCancellation(O, <<f, "claim">>))

(* `closed`, asked for `cancelled`: a read, then the settle or the close. *)
ReadToClose(f) ==
  /\ Asked(f, "close_cancelled")
  /\ \A k \in closing : k.command[1] # f
  /\ Store!ReadForClose(O, <<f, "close_cancelled">>)
  /\ UNCHANGED <<flows, ship, stock, money, wire>>

CloseCancelled(f) ==
  /\ Asked(f, "close_cancelled")
  /\ \/ <<f, "close_cancelled">> \in claimed /\ UNCHANGED store /\ Answered(f)
     \/ \E k \in closing :
          /\ k.command[1] = f
          /\ \/ (Store!SettleCancellation(k) \/ Store!CloseParcel(k)) /\ Hears(f)
             \/ /\ k.claimHeld /\ ~Store!CanMove(O, "settle_cancel")
                /\ Store!CloseEnds(k) /\ Answered(f)
             \/ /\ ~k.claimHeld /\ ~Store!CanMove(O, "close_cancelled")
                /\ Store!CloseEnds(k) /\ Refused(f)
  /\ UNCHANGED <<ship, stock, money, wire>>

(* payment.captured, delivered at least once and whenever the bus likes. *)
HearsCaptured ==
  /\ Card \/ collected
  /\ Store!MarkPaid(O, "captured")
  /\ UNCHANGED <<ship, flows, stock, money, wire>>

-----------------------------------------------------------------------------
(* Steps on the shipment *)

Opened == shipments[O] # Ship!Unopened

Open(f) ==
  OnShipment(f, "open", ~Opened, Ship!Open(O, <<f, "open">>))

(* A shipment not opened yet is not found, and refuses alike. *)
ShipStep(f, step) ==
  OnShipment(f, step, Ship!CanMove(O, step), Ship!FlowMove(O, step, <<f, step>>))

(* A bug in the next definition: a cancellation asks no shipment to wait. *)
HoldNothing(f) ==
  /\ At(f, "hold")
  /\ Answered(f)
  /\ UNCHANGED <<store, ship, stock, money, wire>>

Hold(f) == ShipStep(f, "hold")

Withdraw(f) == ShipStep(f, "withdraw")

Dispatch(f) == ShipStep(f, "dispatch")

-----------------------------------------------------------------------------
(* Steps on the ledger and the payments *)

(* A hold that is not held any more answers as it stands, and nothing is     *)
(* sold.                                                                     *)
Convert(f) ==
  /\ Asked(f, "convert")
  /\ hold' = IF hold = "held" THEN "converted" ELSE hold
  /\ Hears(f)
  /\ UNCHANGED <<store, ship, restored, money, wire>>

HoldRunsOut ==
  /\ hold = "held"
  /\ hold' = "released"
  /\ UNCHANGED <<store, ship, flows, restored, money, wire>>

Restore(f) ==
  /\ Asked(f, "restore")
  /\ restored' = restored \cup {f}
  /\ Hears(f)
  /\ UNCHANGED <<store, ship, hold, money, wire>>

(* All that is left of the order's share; its second refund finds nothing.   *)
(* A repeated command is answered as it was decided.                         *)
Refund(f) ==
  /\ Asked(f, "refund")
  /\ \/ /\ refundedBy = None /\ f \notin declined
        /\ refundedBy' = f /\ UNCHANGED declined /\ Hears(f)
     \/ /\ refundedBy = None /\ f \notin declined
        /\ declined' = declined \cup {f} /\ UNCHANGED refundedBy
        /\ Refused(f) \/ UNCHANGED flows
     \/ refundedBy = f /\ UNCHANGED <<refundedBy, declined>> /\ Answered(f)
     \/ /\ refundedBy \notin {None, f} \/ f \in declined
        /\ UNCHANGED <<refundedBy, declined>> /\ Refused(f)
  /\ UNCHANGED <<store, ship, stock, collected, wire>>

Collect(f) ==
  /\ Asked(f, "collect")
  /\ collected' = TRUE
  /\ Hears(f)
  /\ UNCHANGED <<store, ship, stock, refundedBy, declined, wire>>

(* flow.commit: no participant is called. *)
Commit(f) ==
  /\ At(f, "commit")
  /\ Answered(f)
  /\ UNCHANGED <<store, ship, stock, money, wire>>

-----------------------------------------------------------------------------
(* Undoing *)

Undoes(f, step) ==
  /\ flows[f].mode \in {"undoing", "uncompensated"}
  /\ flows[f].undo # <<>> /\ Head(flows[f].undo) = step

Undid(f) ==
  IF flows[f].mode = "undoing"
  THEN flows' = [flows EXCEPT ![f].undo = Tail(@),
                              ![f].mode = IF Len(flows[f].undo) = 1 THEN "undone" ELSE "undoing"]
  ELSE UNCHANGED flows

(* A bug in the next definition: the edge forgets, and a repeated release    *)
(* lets go whatever claim it finds.                                          *)
UnclaimAgain(f) ==
  /\ Undoes(f, "unclaim")
  /\ IF orders[O].status = "cancelling" THEN Store!ReleaseCancellation(O)
                                        ELSE UNCHANGED store
  /\ edge' = edge \cup {f}
  /\ Undid(f) \/ UNCHANGED flows
  /\ UNCHANGED <<ship, stock, money, signals>>

(* The claim is let go, once per key; what is not claimed answers 200 too. *)
Unclaim(f) ==
  /\ Undoes(f, "unclaim")
  /\ IF f \notin edge /\ orders[O].status = "cancelling"
     THEN Store!ReleaseCancellation(O) ELSE UNCHANGED store
  /\ edge' = edge \cup {f}
  /\ Undid(f) \/ UNCHANGED flows
  /\ UNCHANGED <<ship, stock, money, signals>>

Release(f) ==
  LET command == <<f, "release">>
  IN  /\ Undoes(f, "release")
      /\ \/ Ship!FlowMove(O, "release", command) /\ (Undid(f) \/ UNCHANGED flows)
         \/ command \in shipClaimed /\ UNCHANGED ship /\ Undid(f)
         \/ /\ command \notin shipClaimed /\ ~Ship!CanMove(O, "release")
            /\ UNCHANGED ship
            /\ IF flows[f].mode = "undoing"
               THEN flows' = [flows EXCEPT ![f].mode = "stranded"] ELSE UNCHANGED flows
      /\ UNCHANGED <<store, stock, money, wire>>

-----------------------------------------------------------------------------
(* Starting a flow *)

Starts(f, slip) ==
  /\ flows[f].mode = "unstarted"
  /\ flows' = [flows EXCEPT ![f].mode = "running", ![f].todo = slip]
  /\ UNCHANGED <<store, ship, stock, money, wire>>

(* The order is read first and may move before the flow's first step does.   *)
(* Whether a shipment is expected is worked out anew, from the vendor's      *)
(* entitlements of the day, whatever they were when the order was placed.    *)
StartCancellation(f) ==
  /\ Store!CanMove(O, "claim_cancel")
  /\ \E entitled \in BOOLEAN :
       Starts(f, CancellationSlip(placed.channel # "counter" /\ entitled))

StartDelivery(f) ==
  /\ Ship!CanMove(O, "dispatch")
  /\ Starts(f, DeliverySlip)

-----------------------------------------------------------------------------
(* The courier *)

OutcomeOf == [record_delivery |-> "delivered", record_refusal |-> "refused",
              record_return |-> "returned"]

(* The vendor records what the courier said, and the record is announced. *)
VendorRecords(move) ==
  /\ Ship!CourierReport(O, move)
  /\ signals' = [signals EXCEPT ![OutcomeOf[move]] = Attempts]
  /\ UNCHANGED <<store, flows, stock, money, edge>>

Parked(f) == At(f, "await_delivery") \/ At(f, "await_return")

Accepts(f, outcome) ==
  IF At(f, "await_delivery") THEN outcome \in {"delivered", "refused"}
                             ELSE outcome = "returned"

(* A bug in the next definition: a message out of deliveries comes again. *)
InTurnSpent(outcome) == outcome = "returned" => signals["refused"] < Attempts

(* Announcements of one parcel leave in order; one that failed waits its     *)
(* turn again, and the next overtakes it.                                    *)
InTurn(outcome) ==
  /\ signals[outcome] > 0
  /\ outcome = "returned" => signals["refused"] < Attempts

(* The consumer answers the parked wait, lets go of what it does not listen  *)
(* for, and tries again, a few times, while nothing is parked.               *)
HearsReport(outcome) ==
  /\ InTurn(outcome)
  /\ \/ \E f \in Deliveries :
          /\ Parked(f)
          /\ signals' = [signals EXCEPT ![outcome] = 0]
          /\ IF Accepts(f, outcome)
             THEN Proceed(f, IF At(f, "await_delivery") THEN Branch(outcome)
                                                        ELSE Tail(flows[f].todo))
             ELSE UNCHANGED flows
     \/ /\ \A f \in Deliveries : ~Parked(f)
        /\ signals' = [signals EXCEPT ![outcome] = @ - 1]
        /\ UNCHANGED flows
  /\ UNCHANGED <<store, ship, stock, money, edge>>

(* The delivery window counts as a refusal; the return window strands. *)
WindowCloses(f) ==
  /\ \/ At(f, "await_delivery") /\ Proceed(f, Branch("unanswered"))
     \/ /\ At(f, "await_return")
        /\ flows' = [flows EXCEPT ![f].mode = "stranded"]
  /\ UNCHANGED <<store, ship, stock, money, wire>>

-----------------------------------------------------------------------------
(* What the participants make of what f asks of them, or asked before it     *)
(* turned away.                                                              *)
Serves(f) ==
  \/ Confirm(f) \/ MarkDispatched(f) \/ CloseFulfilled(f)
  \/ ClaimCancel(f) \/ ReadToClose(f) \/ CloseCancelled(f)
  \/ Open(f) \/ Hold(f) \/ Withdraw(f) \/ Dispatch(f)
  \/ Convert(f) \/ Restore(f) \/ Refund(f) \/ Collect(f)
  \/ Unclaim(f) \/ Release(f)

Running(f) == flows[f].mode \in {"running", "undoing"}

Step(f) ==
  /\ UNCHANGED placed
  /\ Running(f)
  /\ Serves(f) \/ Commit(f) \/ WindowCloses(f)

(* No answer comes, or it comes too late. *)
Fails(f) ==
  /\ UNCHANGED placed
  /\ \/ GivesUp(f) \/ Suspends(f)
     \/ ~Running(f) /\ Serves(f)

Happens ==
  /\ UNCHANGED placed
  /\ \/ \E f \in Cancellations : StartCancellation(f)
     \/ \E f \in Deliveries : StartDelivery(f)
     \/ \E move \in Ship!CourierReports : VendorRecords(move)
     \/ \E outcome \in Outcomes : HearsReport(outcome)
     \/ HearsCaptured
     \/ HoldRunsOut

Next ==
  \/ \E f \in Flows : Step(f) \/ Fails(f)
  \/ Happens

Spec == Init /\ [][Next]_vars

(* The engine runs every flow it started, and its timers fire.  No step need *)
(* be given up, and nothing a flow turned from need ever be carried out.     *)
FairSpec == Spec /\ \A f \in Flows : WF_vars(Step(f))

-----------------------------------------------------------------------------
(* Properties *)

Locks(f) ==
  <<f, "claim">> \in claimed /\ f \notin edge /\ <<f, "close_cancelled">> \notin claimed

(* The claim is a lock: from the unit that takes it to the one that lets it  *)
(* go or settles it, the order stands at `cancelling` for one cancellation,  *)
(* whatever rivals, repeats and lost answers there are.                      *)
LockHeld ==
  /\ \A f, h \in Cancellations : Locks(f) /\ Locks(h) => f = h
  /\ orders[O].status = "cancelling" <=> \E f \in Cancellations : Locks(f)

(* Cancellations that claimed an order without holding a shipment first:     *)
(* there is none, or the vendor's entitlement to ship was gone by then.      *)
Unguarded == {f \in Cancellations : <<f, "claim">> \in claimed /\ <<f, "hold">> \notin shipClaimed}

(* The vendor still held, when each cancellation started, the entitlement    *)
(* the order's shipment was opened under.                                    *)
TermsStand == Opened => Unguarded = {}

(* Dispatch and cancel are serialized: as long as the vendor's terms stand,  *)
(* of all the flows that meet on one order one at most passes its commit     *)
(* point.                                                                    *)
OnePivot ==
  TermsStand =>
    \A f, h \in Cancellations \cup Deliveries :
      flows[f].past /\ flows[h].past => f = h

(* What a flow turned from undone, by itself or by a person's leave, and was *)
(* carried out all the same: nothing undoes it.                              *)
Stray(f, step) ==
  LeftAsked(f, step) /\ <<f, step>> \in claimed \cup shipClaimed

(* Past its commit point a flow only rolls forward: nothing another flow did *)
(* refuses it.  A parcel that never comes back and a refund the provider     *)
(* declines strand one, and a cancellation no shipment kept apart from it,   *)
(* and a claim left standing by a cancellation that had given it up and let  *)
(* its parcel go.  (An open breaker suspends a flow: that is no refusal.)    *)
PivotNeverRefused ==
  \A f \in Flows :
    flows[f].mode = "stranded" =>
      \/ f \in Deliveries /\ Head(flows[f].todo) \in {"await_return", "refund"}
      \/ f \notin Cancellations /\ Unguarded # {}
      \/ f \in Deliveries /\ \E c \in Cancellations : Stray(c, "claim")

(* However many ask for one order to be cancelled, and whatever the courier  *)
(* says, its goods go back once, and never while it may still be delivered.  *)
GoodsGoBackOnce ==
  TermsStand =>
    /\ Cardinality(restored) <= 1
    /\ restored # {} =>
         /\ orders[O].status \in {"cancelling", "dispatched", "cancelled"}
         /\ shipments[O].status \notin {"awaiting_dispatch", "dispatched", "delivered"}

AtRest == \A f \in Flows : flows[f].mode \in {"unstarted", "completed", "undone"}

(* Once every flow ended on its own, the four records tell one story: the    *)
(* order, its shipment, its money and its goods.  What a flow turned from    *)
(* and was carried out all the same is all that is left of the flow, and     *)
(* keeps the order or the parcel from moving.                                *)
RecordsAgree ==
  LET status == orders[O].status
      parcel == shipments[O].status
      shipped == placed.channel = "shipped"
      Left(step) == \E f \in Cancellations \cup Deliveries : Stray(f, step)
  IN  AtRest /\ TermsStand =>
     /\ hold # "held"
     /\ \/ /\ status = "confirmed" \/ (status = "cancelling" /\ Left("claim"))
           /\ restored = {} /\ refundedBy = None /\ ~collected
           /\ \/ parcel = IF shipped THEN "awaiting_dispatch" ELSE None
              \/ parcel = "held" /\ Left("hold")
              \/ parcel \in Ship!Gone /\ Left("dispatch")
        \/ /\ status = "fulfilled"
           /\ restored = {} /\ refundedBy = None
           /\ shipped => parcel = "delivered" /\ (Card \/ collected)
        \/ /\ status = "cancelled"
           /\ Cardinality(restored) = 1 /\ ~collected
           /\ Card => refundedBy # None
           /\ parcel = None \/ parcel \in {"withdrawn", "returned"}

(* Every flow that starts comes to an end: none runs on for ever, on a       *)
(* rival's lock or on a courier who says nothing.                            *)
FlowsEnd ==
  \A f \in Flows : []<>~Running(f)

(* What is announced of the order and of its parcel carries the versions     *)
(* 1, 2, ... in the order it is made, whichever flows, couriers and late     *)
(* captures moved them: a consumer ordering by version never drops one.      *)
AnnouncementsFollow == Store!VersionsFollow /\ Ship!VersionsFollow
=============================================================================
