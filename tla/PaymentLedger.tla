----------------------------- MODULE PaymentLedger -----------------------------
(***************************************************************************)
(* Taking money and giving it back (take-payment.ts over payment-ledger.ts *)
(* and the provider's port).  A delivery is one run of a handler: commands *)
(* arrive at least once, so several deliveries of one command may run at   *)
(* the same time, and any of them may die between two of its steps, which  *)
(* is also what a provider or a store out of reach does to it.  Payments   *)
(* and refunds get a fresh id in the handler, so both are named here by    *)
(* the delivery that made them.                                            *)
(***************************************************************************)
EXTENDS Integers, FiniteSets

CONSTANTS
  Orders,
  Deliveries,   \* handler runs
  Captures,     \* commands taking a checkout group's card money
  Collections,  \* commands recording the cash a courier collected
  Refunds,      \* commands giving money back for one order
  Shares,       \* capture or collection -> order -> amount, 0 if not named
  RefundOf      \* refund -> its order and amount, 0 asking for what is left

Takings == Captures \cup Collections

Commands == Takings \cup Refunds

None == "none"

(* A command is a step's idempotency key, and a step is of one kind. *)
ASSUME CommandsApart ==
  /\ Captures \cap Collections = {}
  /\ Takings \cap Refunds = {}
  /\ None \notin Deliveries

(* sharesProblem refuses any other split before the provider is called. *)
ASSUME SharesArePaid ==
  /\ Shares \in [Takings -> [Orders -> Nat]]
  /\ \A c \in Takings : \E o \in Orders : Shares[c][o] > 0
  /\ RefundOf \in [Refunds -> [order : Orders, amount : Nat]]

VARIABLES
  calls,        \* delivery -> how far its handler got
  payments,     \* delivery -> the payment it recorded
  refunds,      \* delivery -> the refund it recorded
  allocations,  \* order -> its share of a payment
  claimed,      \* command -> the delivery whose record it remembers
  charged,      \* deliveries whose capture the provider made
  sentBack      \* deliveries whose refund the provider made

vars == <<calls, payments, refunds, allocations, claimed, charged, sentBack>>

-----------------------------------------------------------------------------
Idle == [at |-> "idle"]

Steps == {"charging", "recording", "reading", "reserving", "sending", "deciding"}

Answers == {"ok", "declined", "nothing", "exceeds", "duplicateKey"}

Call ==
  {Idle} \cup
  [at : Steps \cup Answers \cup {"dead"}, command : Commands, amount : Nat,
   outcome : {None, "captured", "authorized", "refunded", "failed"}]

Payment == [command : Takings, status : {"captured", "authorized", "failed"}]

Unrecorded == [status |-> None]

Refund == [order : Orders, amount : Nat \ {0},
           status : {"pending", "refunded", "failed"}]

(* Every row is one the ledger's schema and use cases allow, in particular  *)
(* no refund of nothing is ever stored, and every run stands at a known     *)
(* step.                                                                    *)
TypeOK ==
  /\ calls \in [Deliveries -> Call]
  /\ payments \in [Deliveries -> Payment \cup {Unrecorded}]
  /\ refunds \in [Deliveries -> Refund \cup {Unrecorded}]
  /\ allocations \in [Orders -> [captured : Nat, refunded : Nat]]
  /\ claimed \in [Commands -> Deliveries \cup {None}]
  /\ charged \in SUBSET Deliveries
  /\ sentBack \in SUBSET Deliveries

NoShare == [captured |-> 0, refunded |-> 0]

Init ==
  /\ calls = [d \in Deliveries |-> Idle]
  /\ payments = [d \in Deliveries |-> Unrecorded]
  /\ refunds = [d \in Deliveries |-> Unrecorded]
  /\ allocations = [o \in Orders |-> NoShare]
  /\ claimed = [c \in Commands |-> None]
  /\ charged = {}
  /\ sentBack = {}

At(d, step) == calls[d].at = step

Goes(d, step) == calls' = [calls EXCEPT ![d].at = step]

(* What a redelivery is answered with: the first delivery's decision. *)
Remembered(c) ==
  LET d == claimed[c]
  IN  IF c \in Refunds
      THEN IF refunds[d].status = "refunded" THEN "ok" ELSE "declined"
      ELSE IF payments[d].status = "captured" THEN "ok" ELSE "declined"

(* decidedPayment, decidedRefund: read before anything else is done. *)
LookUp(d, c) ==
  /\ At(d, "idle")
  /\ calls' = [calls EXCEPT ![d] =
       [at      |-> CASE claimed[c] # None -> Remembered(c)
                      [] claimed[c] = None /\ c \in Captures    -> "charging"
                      [] claimed[c] = None /\ c \in Collections -> "recording"
                      [] claimed[c] = None /\ c \in Refunds     -> "reading",
        command |-> c,
        amount  |-> 0,
        outcome |-> IF c \in Collections THEN "captured" ELSE None]]
  /\ UNCHANGED <<payments, refunds, allocations, claimed, charged, sentBack>>

(* The delivery ends without an answer. *)
Dies(d) ==
  /\ calls[d].at \in Steps
  /\ Goes(d, "dead")
  /\ UNCHANGED <<payments, refunds, allocations, claimed, charged, sentBack>>

-----------------------------------------------------------------------------
(* Taking money *)

(* provider.capture, under a payment id this delivery made up. *)
Charge(d) ==
  /\ At(d, "charging")
  /\ \E outcome \in {"captured", "authorized", "failed"} :
       /\ calls' = [calls EXCEPT ![d].at = "recording", ![d].outcome = outcome]
       /\ charged' = IF outcome = "captured" THEN charged \cup {d} ELSE charged
  /\ UNCHANGED <<payments, refunds, allocations, claimed, sentBack>>

Named(c) == {o \in Orders : Shares[c][o] > 0}

(* The unique index on an allocation's order. *)
PaidFor(c) == \E o \in Named(c) : allocations[o].captured > 0

(* A bug in the next definition: nothing stops an order being paid for again *)
(* by another command.                                                       *)
RecordCaptureAnyOrder(d) ==
  LET c == calls[d].command
      captured == calls[d].outcome = "captured"
  IN  /\ At(d, "recording")
      /\ claimed[c] = None
      /\ payments' = [payments EXCEPT ![d] = [command |-> c, status |-> calls[d].outcome]]
      /\ claimed' = [claimed EXCEPT ![c] = d]
      /\ allocations' =
           [o \in Orders |-> IF captured /\ o \in Named(c)
                             THEN [captured |-> Shares[c][o], refunded |-> 0]
                             ELSE allocations[o]]
      /\ Goes(d, IF captured THEN "ok" ELSE "declined")
      /\ UNCHANGED <<refunds, charged, sentBack>>

(* recordCapture, committed: a declined capture is recorded and allocates    *)
(* nothing.                                                                  *)
RecordCapture(d) ==
  LET c == calls[d].command
      captured == calls[d].outcome = "captured"
  IN  /\ At(d, "recording")
      /\ claimed[c] = None
      /\ captured => ~PaidFor(c)
      /\ payments' = [payments EXCEPT ![d] = [command |-> c, status |-> calls[d].outcome]]
      /\ claimed' = [claimed EXCEPT ![c] = d]
      /\ allocations' =
           [o \in Orders |-> IF captured /\ o \in Named(c)
                             THEN [captured |-> Shares[c][o], refunded |-> 0]
                             ELSE allocations[o]]
      /\ Goes(d, IF captured THEN "ok" ELSE "declined")
      /\ UNCHANGED <<refunds, charged, sentBack>>

(* recordCapture, not committed: another delivery of the command was first,  *)
(* or an order it names is paid for already; the claim is then not taken.    *)
CaptureNotRecorded(d) ==
  LET c == calls[d].command
  IN  /\ At(d, "recording")
      /\ \/ claimed[c] # None /\ Goes(d, Remembered(c))
         \/ /\ claimed[c] = None /\ calls[d].outcome = "captured" /\ PaidFor(c)
            /\ Goes(d, "duplicateKey")
      /\ UNCHANGED <<payments, refunds, allocations, claimed, charged, sentBack>>

-----------------------------------------------------------------------------
(* Giving money back *)

Remaining(o) == allocations[o].captured - allocations[o].refunded

(* A bug in the next definition: a refund of nothing is let through. *)
ReadShareZero(d) ==
  LET r == RefundOf[calls[d].command]
      amount == IF r.amount = 0 THEN Remaining(r.order) ELSE r.amount
  IN  /\ At(d, "reading")
      /\ IF allocations[r.order].captured = 0 THEN Goes(d, "nothing")
         ELSE IF amount > Remaining(r.order) THEN Goes(d, "exceeds")
         ELSE calls' = [calls EXCEPT ![d].at = "reserving", ![d].amount = amount]
      /\ UNCHANGED <<payments, refunds, allocations, claimed, charged, sentBack>>

(* allocationFor, and the checks made of what it read. *)
ReadShare(d) ==
  LET r == RefundOf[calls[d].command]
      amount == IF r.amount = 0 THEN Remaining(r.order) ELSE r.amount
  IN  /\ At(d, "reading")
      /\ IF allocations[r.order].captured = 0 THEN Goes(d, "nothing")
         ELSE IF amount = 0 \/ amount > Remaining(r.order) THEN Goes(d, "exceeds")
         ELSE calls' = [calls EXCEPT ![d].at = "reserving", ![d].amount = amount]
      /\ UNCHANGED <<payments, refunds, allocations, claimed, charged, sentBack>>

(* A bug in the next definition: the increment trusts the read made before   *)
(* it.                                                                       *)
ReserveRefundUnguarded(d) ==
  LET c == calls[d].command
      o == RefundOf[c].order
  IN  /\ At(d, "reserving")
      /\ claimed[c] = None
      /\ allocations' = [allocations EXCEPT ![o].refunded = @ + calls[d].amount]
      /\ refunds' = [refunds EXCEPT ![d] =
           [order |-> o, amount |-> calls[d].amount, status |-> "pending"]]
      /\ claimed' = [claimed EXCEPT ![c] = d]
      /\ Goes(d, "sending")
      /\ UNCHANGED <<payments, charged, sentBack>>

(* reserveRefund, committed: the amount comes off the share by one guarded   *)
(* increment, before the provider moves any money.                           *)
ReserveRefund(d) ==
  LET c == calls[d].command
      o == RefundOf[c].order
  IN  /\ At(d, "reserving")
      /\ claimed[c] = None
      /\ calls[d].amount <= Remaining(o)
      /\ allocations' = [allocations EXCEPT ![o].refunded = @ + calls[d].amount]
      /\ refunds' = [refunds EXCEPT ![d] =
           [order |-> o, amount |-> calls[d].amount, status |-> "pending"]]
      /\ claimed' = [claimed EXCEPT ![c] = d]
      /\ Goes(d, "sending")
      /\ UNCHANGED <<payments, charged, sentBack>>

(* reserveRefund, not committed. *)
RefundNotReserved(d) ==
  LET c == calls[d].command
  IN  /\ At(d, "reserving")
      /\ \/ claimed[c] # None /\ Goes(d, Remembered(c))
         \/ /\ claimed[c] = None /\ calls[d].amount > Remaining(RefundOf[c].order)
            /\ Goes(d, "exceeds")
      /\ UNCHANGED <<payments, refunds, allocations, claimed, charged, sentBack>>

(* provider.refund *)
SendBack(d) ==
  /\ At(d, "sending")
  /\ \E outcome \in {"refunded", "failed"} :
       /\ calls' = [calls EXCEPT ![d].at = "deciding", ![d].outcome = outcome]
       /\ sentBack' = IF outcome = "refunded" THEN sentBack \cup {d} ELSE sentBack
  /\ UNCHANGED <<payments, refunds, allocations, claimed, charged>>

(* A bug in the next definition: a declined refund keeps its share. *)
DecideRefundKeeps(d) ==
  /\ At(d, "deciding")
  /\ refunds' = [refunds EXCEPT ![d].status = calls[d].outcome]
  /\ Goes(d, IF calls[d].outcome = "refunded" THEN "ok" ELSE "declined")
  /\ UNCHANGED <<payments, allocations, claimed, charged, sentBack>>

(* decideRefund: a declined refund gives its share back.  Only the delivery  *)
(* that reserved a refund decides it, so it always finds it pending.         *)
DecideRefund(d) ==
  LET r == refunds[d]
  IN  /\ At(d, "deciding")
      /\ refunds' = [refunds EXCEPT ![d].status = calls[d].outcome]
      /\ allocations' = IF calls[d].outcome = "refunded" THEN allocations
                        ELSE [allocations EXCEPT ![r.order].refunded = @ - r.amount]
      /\ Goes(d, IF calls[d].outcome = "refunded" THEN "ok" ELSE "declined")
      /\ UNCHANGED <<payments, claimed, charged, sentBack>>

-----------------------------------------------------------------------------
Next ==
  \E d \in Deliveries :
    \/ \E c \in Commands : LookUp(d, c)
    \/ Dies(d)
    \/ Charge(d) \/ RecordCapture(d) \/ CaptureNotRecorded(d)
    \/ ReadShare(d) \/ ReserveRefund(d) \/ RefundNotReserved(d)
    \/ SendBack(d) \/ DecideRefund(d)

Spec == Init /\ [][Next]_vars

-----------------------------------------------------------------------------
(* Properties *)

RefundsOf(o) == {d \in Deliveries : refunds[d] # Unrecorded /\ refunds[d].order = o}

(* A sum of refunds is the size of a disjoint union of that many units each. *)
Units(d, n) == {d} \X (1 .. n)

Amount(ds) == Cardinality(UNION {Units(d, refunds[d].amount) : d \in ds})

(* What is off an order's share is what its refunds took, those declined     *)
(* aside, however many raced on it and wherever one of them died.            *)
BooksBalance ==
  \A o \in Orders :
    allocations[o].refunded =
      Amount({d \in RefundsOf(o) : refunds[d].status # "failed"})

(* However refunds of an order race, and however often each is delivered,    *)
(* the provider never sends back more than was taken for it, nor the money   *)
(* of one command twice.                                                     *)
NeverMoreBackThanTaken ==
  /\ \A o \in Orders :
       Amount(sentBack \cap RefundsOf(o)) <= allocations[o].captured
  /\ \A d, e \in sentBack : calls[d].command = calls[e].command => d = e

Answered(d) == calls[d].at \in {"ok", "declined"}

(* An order is paid for by one payment, and every delivery of a capture or a *)
(* collection is told the same of it: no flow rolls forward past a payment   *)
(* another delivery was told had failed.                                     *)
PaidOnce ==
  \A d, e \in Deliveries :
    /\ (/\ payments[d].status = "captured" /\ payments[e].status = "captured"
        /\ Named(payments[d].command) \cap Named(payments[e].command) # {})
         => d = e
    /\ (/\ Answered(d) /\ Answered(e)
        /\ calls[d].command = calls[e].command /\ calls[d].command \in Takings)
         => calls[d].at = calls[e].at

(* What the handler and the provider's port say: a redelivered capture does  *)
(* not charge twice.                                                         *)
ChargedOnce ==
  \A d, e \in charged : calls[d].command = calls[e].command => d = e
=============================================================================
