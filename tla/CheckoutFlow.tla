----------------------------- MODULE CheckoutFlow -----------------------------
(***************************************************************************)
(* The checkout of one basket sold by several vendors, up to its commit    *)
(* point and out again (checkoutRecipe, flow-catalog/src/catalog.ts): the  *)
(* group is opened; every vendor's segment checks what it must, holds its  *)
(* goods and writes its order, side by side; one capture takes what is     *)
(* paid by card; then each segment sells its hold and confirms its order.  *)
(* What an order goes through after that is OrderFlows.                    *)
(*                                                                         *)
(* The workflow engine is outside this repository.  What its code and its  *)
(* dials (transaction/src/workflow) rely on: a request that was sent may   *)
(* be carried out later, and again, whatever became of the flow; before    *)
(* the commit point a step that gets no answer is given up and the flow    *)
(* undoes, last first, the steps it has an answer of, by the id the answer *)
(* gave; a capture that was sent is asked until it is answered; after it,  *)
(* a step is asked until its bound strands the flow.                       *)
(***************************************************************************)
EXTENDS Naturals, Sequences, FiniteSets

CONSTANTS
  Vendors,   \* the vendors of the basket
  OrderIds,  \* ids an order may be given
  Tenders    \* the ways the basket may be paid

ASSUME TendersAreTenders == Tenders \subseteq [Vendors -> {"card", "cod"}]

None == "none"

(* The whole basket, where a step is not one vendor's. *)
Basket == "basket"

G == "group"

VARIABLES
  groups, orders, claimed, closing, outbox,  \* the order store
  tender,   \* vendor -> how the buyer pays it
  hold,     \* vendor -> how the hold on its goods stands
  payment,  \* how the capture was decided
  shares,   \* vendor -> the order its captured share names
  mode,     \* how the flow stands
  sent,     \* steps whose request a participant has, or may still get
  heard,    \* steps the flow has an answer of
  undone    \* steps whose undoing was answered

Names == {"open", "eligible", "reserve", "write", "capture", "commit", "convert", "confirm"}

Steps == Names \X (Vendors \cup {Basket})

Store == INSTANCE ProductOrder WITH
  Groups <- {G}, Commands <- Steps, Captures <- {"captured"}

store == <<groups, orders, claimed, closing, outbox>>
flow  == <<mode, sent, heard, undone>>

vars == <<store, tender, hold, payment, shares, flow>>

-----------------------------------------------------------------------------
(* The slip *)

PaysNow == {v \in Vendors : tender[v] = "card"}

Open == <<"open", Basket>>

(* Money is the commit point, or the agreement of every vendor paid on       *)
(* delivery.                                                                 *)
Pivot == <<IF PaysNow # {} THEN "capture" ELSE "commit", Basket>>

Slip ==
  {Open, Pivot}
    \cup {<<"eligible", v>> : v \in Vendors \ PaysNow}
    \cup ({"reserve", "write", "convert", "confirm"} \X Vendors)

(* What a step waits for: its stage waits for the whole of the one before,   *)
(* and in a segment each step for the last.                                  *)
Needs(s) ==
  LET v == s[2]
  IN  CASE s = Open           -> {}
        [] s[1] = "eligible"  -> {Open}
        [] s[1] = "reserve"   -> IF v \in PaysNow THEN {Open} ELSE {<<"eligible", v>>}
        [] s[1] = "write"     -> {<<"reserve", v>>}
        [] s = Pivot          -> {"write"} \X Vendors
        [] s[1] = "convert"   -> {Pivot}
        [] s[1] = "confirm"   -> {<<"convert", v>>}

(* The order a vendor's segment wrote, as its answer named it. *)
Written(v) == {o \in OrderIds : orders[o] # Store!Unplaced /\ orders[o].by = <<"write", v>>}

OrderOf(v) == IF Written(v) = {} THEN None ELSE CHOOSE o \in Written(v) : TRUE

Past == Pivot \in heard

(* A bug in the next definition: the last step of each segment is undone and *)
(* those before it are forgotten.                                            *)
UndoableLast == {s \in heard : s = Open \/ s[1] = "write"}

(* The steps that leave something behind; a check does not. *)
Undoable == {s \in heard : s[1] \in {"open", "reserve", "write"}}

(* Undoing goes backwards. *)
UndoneBefore(s) ==
  CASE s[1] = "write"   -> {}
    [] s[1] = "reserve" -> {<<"write", s[2]>>} \cap Undoable
    [] s[1] = "open"    -> Undoable \ {Open}

-----------------------------------------------------------------------------
(* Every record has one of the values its participant can hold, and the flow *)
(* asks only for steps of its slip, each after those it waits for.           *)
TypeOK ==
  /\ Store!TypeOK
  /\ tender \in Tenders
  /\ hold \in [Vendors -> {None, "held", "released", "converted"}]
  /\ payment \in {None, "captured", "declined"}
  /\ \A v \in DOMAIN shares : v \in Vendors /\ shares[v] \in OrderIds
  /\ mode \in {"running", "undoing", "completed", "undone", "stranded"}
  /\ heard \subseteq sent /\ sent \subseteq Slip
  /\ \A s \in sent : Needs(s) \subseteq heard
  /\ undone \subseteq Undoable

Init ==
  /\ Store!Init
  /\ tender \in Tenders
  /\ hold = [v \in Vendors |-> None]
  /\ payment = None
  /\ shares = <<>>
  /\ mode = "running"
  /\ sent = {}
  /\ heard = {}
  /\ undone = {}

-----------------------------------------------------------------------------
(* The engine *)

(* A bug in the next definition: a stage starts before the last has ended. *)
SendEarly(s) ==
  /\ mode = "running"
  /\ s \notin sent
  /\ s = Open \/ Open \in heard
  /\ sent' = sent \cup {s}
  /\ UNCHANGED <<store, tender, hold, payment, shares, mode, heard, undone>>

Send(s) ==
  /\ mode = "running"
  /\ s \notin sent
  /\ Needs(s) \subseteq heard
  /\ sent' = sent \cup {s}
  /\ UNCHANGED <<store, tender, hold, payment, shares, mode, heard, undone>>

(* What a participant that carried a step out has to show for it; a check    *)
(* and the commit keep nothing.                                              *)
Done(s) ==
  CASE s[1] = "open"                -> groups[G].state # "unopened"
    [] s[1] = "reserve"             -> hold[s[2]] # None
    [] s[1] \in {"write", "confirm"} -> s \in claimed
    [] s[1] = "capture"             -> payment = "captured"
    [] s[1] = "convert"             -> hold[s[2]] # "held"
    [] s[1] \in {"eligible", "commit"} -> TRUE

Hear(s) ==
  /\ mode = "running"
  /\ s \in sent \ heard
  /\ Done(s)
  /\ heard' = heard \cup {s}
  /\ mode' = IF heard' = Slip THEN "completed" ELSE mode
  /\ UNCHANGED <<store, tender, hold, payment, shares, sent, undone>>

Undoes == IF Undoable = {} THEN mode' = "undone" ELSE mode' = "undoing"

(* Over the limit, out of stock or a card declined.  Only the last is kept:  *)
(* a repeated reservation may find stock.                                    *)
HearRefusal(s) ==
  /\ mode = "running"
  /\ s \in sent \ heard
  /\ \/ s[1] = "eligible"
     \/ (s[1] = "reserve" /\ ~Done(s))
     \/ (s[1] = "capture" /\ payment = "declined")
  /\ Undoes
  /\ UNCHANGED <<store, tender, hold, payment, shares, sent, heard, undone>>

(* Out of reach before the commit point, asked or not yet. *)
GivesUp(s) ==
  /\ mode = "running" /\ ~Past
  /\ s \notin heard /\ Needs(s) \subseteq heard
  /\ s[1] # "commit"
  /\ s[1] = "capture" => s \notin sent
  /\ Undoes
  /\ UNCHANGED <<store, tender, hold, payment, shares, sent, heard, undone>>

(* Out of reach after it, or while undoing, past the bound of a step. *)
Strands ==
  /\ mode = "undoing" \/ (mode = "running" /\ Past)
  /\ mode' = "stranded"
  /\ UNCHANGED <<store, tender, hold, payment, shares, sent, heard, undone>>

(* An answer to an undoing may be lost too; it is asked again. *)
Undid(s) ==
  \/ UNCHANGED <<undone, mode>>
  \/ /\ undone' = undone \cup {s}
     /\ mode' = IF undone' = Undoable THEN "undone" ELSE mode

Undo(s) ==
  /\ mode = "undoing"
  /\ s \in Undoable \ undone
  /\ UndoneBefore(s) \subseteq undone
  /\ CASE s[1] = "open" ->
            /\ IF groups[G].state = "open" THEN Store!RemoveGroup(G) ELSE UNCHANGED store
            /\ UNCHANGED hold
       [] s[1] = "write" ->
            /\ IF Store!Placed(OrderOf(s[2])) THEN Store!Remove(OrderOf(s[2]))
                                              ELSE UNCHANGED store
            /\ UNCHANGED hold
       [] s[1] = "reserve" ->
            /\ hold' = IF hold[s[2]] = "held" THEN [hold EXCEPT ![s[2]] = "released"]
                                              ELSE hold
            /\ UNCHANGED store
  /\ Undid(s)
  /\ UNCHANGED <<tender, payment, shares, sent, heard>>

-----------------------------------------------------------------------------
(* The participants, at any time after a request was sent *)

OpenGroup ==
  /\ Open \in sent
  /\ Store!OpenGroup(G)
  /\ UNCHANGED <<tender, hold, payment, shares, flow>>

(* Once per command: a hold that ended is not taken again. *)
Reserve(v) ==
  /\ <<"reserve", v>> \in sent
  /\ hold[v] = None
  /\ hold' = [hold EXCEPT ![v] = "held"]
  /\ UNCHANGED <<store, tender, payment, shares, flow>>

(* A group that is gone refuses the order, and nothing is kept of it. *)
Write(v) ==
  /\ <<"write", v>> \in sent
  /\ Store!Place(G, <<"write", v>>)
  /\ UNCHANGED <<tender, hold, payment, shares, flow>>

(* A bug in the next definition: every vendor's share is taken, those the    *)
(* courier is to be paid for too.                                            *)
CaptureAll ==
  /\ Pivot[1] = "capture" /\ Pivot \in sent
  /\ payment = None
  /\ \/ payment' = "captured" /\ shares' = [v \in Vendors |-> OrderOf(v)]
     \/ payment' = "declined" /\ UNCHANGED shares
  /\ UNCHANGED <<store, tender, hold, flow>>

(* One share for each vendor paid now, under the order its segment wrote. *)
Capture ==
  /\ Pivot[1] = "capture" /\ Pivot \in sent
  /\ payment = None
  /\ \/ payment' = "captured" /\ shares' = [v \in PaysNow |-> OrderOf(v)]
     \/ payment' = "declined" /\ UNCHANGED shares
  /\ UNCHANGED <<store, tender, hold, flow>>

(* Sells a hold that is still held; any other is answered as it stands. *)
Convert(v) ==
  /\ <<"convert", v>> \in sent
  /\ hold[v] = "held"
  /\ hold' = [hold EXCEPT ![v] = "converted"]
  /\ UNCHANGED <<store, tender, payment, shares, flow>>

Confirm(v) ==
  /\ <<"confirm", v>> \in sent
  /\ Store!Move(OrderOf(v), "confirm", <<"confirm", v>>)
  /\ UNCHANGED <<closing, tender, hold, payment, shares, flow>>

(* payment.captured, heard by the order store for each share. *)
HearsCaptured(v) ==
  /\ v \in DOMAIN shares
  /\ Store!MarkPaid(shares[v], "captured")
  /\ UNCHANGED <<tender, hold, payment, shares, flow>>

(* A bug in the next definition: only a hold its flow knows of runs out. *)
HoldRunsOutKnown(v) ==
  /\ hold[v] = "held"
  /\ <<"reserve", v>> \in heard
  /\ hold' = [hold EXCEPT ![v] = "released"]
  /\ UNCHANGED <<store, tender, payment, shares, flow>>

(* The sweep ends what nobody ended in time. *)
HoldRunsOut(v) ==
  /\ hold[v] = "held"
  /\ hold' = [hold EXCEPT ![v] = "released"]
  /\ UNCHANGED <<store, tender, payment, shares, flow>>

-----------------------------------------------------------------------------
Engine ==
  \/ \E s \in Slip : Send(s) \/ Hear(s) \/ Undo(s)
  \/ \E s \in Slip : HearRefusal(s) \/ GivesUp(s)
  \/ Strands

Participants ==
  \/ OpenGroup \/ Capture
  \/ \E v \in Vendors :
       Reserve(v) \/ Write(v) \/ Convert(v) \/ Confirm(v) \/ HearsCaptured(v)

Next == Engine \/ Participants \/ \E v \in Vendors : HoldRunsOut(v)

Spec == Init /\ [][Next]_vars

(* The engine runs a flow it started; a participant answers what it is asked *)
(* until it does; the sweep runs for ever.  Nothing refuses or strands a     *)
(* flow that need not be.                                                    *)
Fairness ==
  /\ \A s \in Steps : WF_vars(s \in Slip /\ (Send(s) \/ Hear(s)))
  /\ \A s \in Steps : WF_vars(s \in Slip /\ Undo(s) /\ undone' # undone)
  /\ WF_vars(Participants)
  /\ WF_vars(HearRefusal(<<"capture", Basket>>))
  /\ \A v \in Vendors : WF_vars(HoldRunsOut(v))

FairSpec == Spec /\ Fairness

-----------------------------------------------------------------------------
(* Properties *)

(* From the moment the buyer's card was charged, each share is one card      *)
(* vendor's and names an order that stands in the open group and is listed   *)
(* on the receipt, and no vendor of the basket is without one: nothing that  *)
(* was given up, refused or undone before left money without its order.      *)
MoneyHasOrders ==
  payment = "captured" =>
    /\ DOMAIN shares = PaysNow
    /\ groups[G].state = "open"
    /\ \A v \in Vendors : Store!Placed(OrderOf(v)) /\ OrderOf(v) \in groups[G].orderIds
    /\ \A v \in PaysNow : shares[v] = OrderOf(v)

(* A step that was given up without an answer: what it did, or still does,   *)
(* the flow has no id to undo it by.                                         *)
Unheard(s) == s \in sent \ heard

(* A checkout happens whole or not at all, as far as it can know.  Completed,*)
(* the receipt lists the vendors' orders and no other, each is confirmed and *)
(* its goods are sold or, if the hold ran out first, free again.  Undone,    *)
(* nobody was charged and nothing was sold; and a group, a hold or an order  *)
(* that still stands is one whose answer was never heard, such an order      *)
(* pending for good.                                                         *)
AllOrNothing ==
  /\ mode = "completed" =>
       /\ groups[G].orderIds = {OrderOf(v) : v \in Vendors}
       /\ \A v \in Vendors :
            orders[OrderOf(v)].status = "confirmed" /\ hold[v] \in {"converted", "released"}
  /\ mode = "undone" =>
       /\ payment # "captured"
       /\ groups[G].state = "open" => Unheard(Open)
       /\ \A v \in Vendors :
            /\ hold[v] # "converted"
            /\ hold[v] = "held" => Unheard(<<"reserve", v>>)
            /\ OrderOf(v) # None =>
                 \/ orders[OrderOf(v)].status = "removed"
                 \/ (orders[OrderOf(v)].status = "pending" /\ Unheard(<<"write", v>>))

(* Every checkout ends, and in the end no goods are kept for anybody: not    *)
(* those of a reservation that was carried out after the flow gave it up.    *)
Settles ==
  <>[](mode \notin {"running", "undoing"} /\ \A v \in Vendors : hold[v] # "held")
=============================================================================
