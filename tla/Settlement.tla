------------------------------ MODULE Settlement ------------------------------
(***************************************************************************)
(* The commission ledger and its payouts (settlement-store.ts).  Four      *)
(* announcements of an order come to it from two services, each at least   *)
(* once and in any order: its placing and its capture make a sale, its     *)
(* cancellation and a refund reverse it.  They meet on one join record per *)
(* order, and whichever completes a pair writes its line in the unit that  *)
(* claims it.  Sweeps on any number of replicas then settle what is        *)
(* unsettled: each reads the oldest line, and a unit of its own stamps     *)
(* every line since and pays each vendor what they come to.                *)
(***************************************************************************)
EXTENDS Integers, Sequences, FiniteSets

CONSTANTS
  Orders,
  Replicas,    \* processes that sweep
  Placements   \* the ways the orders may have been placed

(* `cut` is the commission at the rate its placing is folded at, `priced`    *)
(* says that the vendor has an agreement on file, and `part` is what a first *)
(* refund may send back of the price, or 0.  Cash is collected by the vendor.*)
Placement == [vendor : STRING, method : {"card", "cod"}, price : Nat \ {0},
              cut : Nat, part : Nat, currency : STRING, priced : BOOLEAN]

ASSUME PlacementsAssumption ==
  \A placing \in Placements :
    /\ placing \in [Orders -> Placement]
    /\ \A o \in Orders : /\ placing[o].cut <= placing[o].price
                         /\ placing[o].part < placing[o].price

VARIABLES
  placed,    \* order -> how it was placed
  sent,      \* message -> its date, 0 while it is not sent; money's are all that tell
  claimed,   \* messages whose claim a unit took
  sales,     \* order -> its join record
  ledger,    \* order and kind -> the line written for it
  sweeps,    \* replica -> the oldest line it read, 0 between passes
  runs       \* the settlement runs, in the order they were written

vars == <<placed, sent, claimed, sales, ledger, sweeps, runs>>

-----------------------------------------------------------------------------
Announcements == {"placed", "captured", "cancelled", "refunded_part", "refunded"}

RefundKinds == {"refunded_part", "refunded"}

Messages == Orders \X Announcements

Kinds == {"sale", "reversal"}

Unwritten == [at |-> 0]

Line == [sale : Int, cut : Int, at : Nat \ {0}, run : Nat]

Joined == [placed : BOOLEAN, decidedAt : Nat, cancelled : BOOLEAN,
           refundedAt : Nat, refunded : Nat,
           folded : BOOLEAN, reversed : BOOLEAN, voided : BOOLEAN]

NothingJoined ==
  [placed |-> FALSE, decidedAt |-> 0, cancelled |-> FALSE, refundedAt |-> 0,
   refunded |-> 0, folded |-> FALSE, reversed |-> FALSE, voided |-> FALSE]

Vendors == {placed[o].vendor : o \in Orders}

(* Every record is one the store can write: a run pays vendors, and every    *)
(* line was written at the time its message was decided.                     *)
TypeOK ==
  /\ placed \in Placements
  /\ sent \in [Messages -> Nat]
  /\ claimed \in SUBSET Messages
  /\ sales \in [Orders -> Joined]
  /\ ledger \in [Orders \X Kinds -> Line \cup {Unwritten}]
  /\ sweeps \in [Replicas -> Nat]
  /\ \A i \in 1 .. Len(runs) :
       /\ runs[i].status \in {"calculated", "cancelled"}
       /\ DOMAIN runs[i].payouts \subseteq Vendors
       /\ runs[i].payouts \in [DOMAIN runs[i].payouts -> Int]

Init ==
  /\ placed \in Placements
  /\ sent = [m \in Messages |-> 0]
  /\ claimed = {}
  /\ sales = [o \in Orders |-> NothingJoined]
  /\ ledger = [l \in Orders \X Kinds |-> Unwritten]
  /\ sweeps = [p \in Replicas |-> 0]
  /\ runs = <<>>

-----------------------------------------------------------------------------
(* What the other services announce *)

Sent(o, kind) == sent[<<o, kind>>] > 0

Money == {"captured"} \cup RefundKinds

Now == 1 + Cardinality({m \in Messages : m[2] \in Money /\ sent[m] > 0})

(* Cash is collected or its order cancelled, never both; a card is captured  *)
(* before its order may be cancelled; all that is left is refunded once, and *)
(* with a cancellation, which may be announced before it or after.           *)
Announce(o, kind) ==
  /\ ~Sent(o, kind)
  /\ kind # "placed" => Sent(o, "placed")
  /\ CASE kind = "captured" -> ~Sent(o, "cancelled")
       [] kind = "cancelled" -> Sent(o, "captured") <=> placed[o].method = "card"
       [] kind \in RefundKinds ->
            /\ placed[o].method = "card" /\ Sent(o, "captured") /\ ~Sent(o, "refunded")
            /\ kind = "refunded_part" => placed[o].part > 0
       [] OTHER -> TRUE
  /\ sent' = [sent EXCEPT ![<<o, kind>>] = IF kind \in Money THEN Now ELSE 1]
  /\ UNCHANGED <<placed, claimed, sales, ledger, sweeps, runs>>

Amount(o, kind) ==
  IF kind = "refunded_part" THEN placed[o].part
  ELSE placed[o].price - (IF Sent(o, "refunded_part") THEN placed[o].part ELSE 0)

-----------------------------------------------------------------------------
(* Folding a message *)

(* The half a message contributes; a second refund writes over the first.    *)
Merged(o, kind) ==
  CASE kind = "placed"      -> [sales[o] EXCEPT !.placed = TRUE]
    [] kind = "captured"    -> [sales[o] EXCEPT !.decidedAt = sent[<<o, kind>>]]
    [] kind = "cancelled"   -> [sales[o] EXCEPT !.cancelled = TRUE]
    [] kind \in RefundKinds -> [sales[o] EXCEPT !.refundedAt = sent[<<o, kind>>],
                                                !.refunded = Amount(o, kind)]

(* Cash that was never collected: nothing to settle or to reverse, ever.     *)
Voids(o, half) ==
  \/ half.voided
  \/ /\ ~half.folded /\ half.placed /\ placed[o].method = "cod"
     /\ half.cancelled /\ half.decidedAt = 0

(* A bug in the next definition: a sale does not wait for its capture.       *)
SaleCompletesUncaptured(half) == ~half.folded /\ half.placed

SaleCompletes(half) == ~half.folded /\ half.placed /\ half.decidedAt > 0

(* A bug in the next definition: a reversal does not wait for its sale.      *)
ReversalCompletesEarly(half) ==
  ~half.reversed /\ half.cancelled /\ half.refundedAt > 0

(* Only after the sale, or with it: the reversal mirrors it.                 *)
ReversalCompletes(half) ==
  /\ half.folded \/ SaleCompletes(half)
  /\ ~half.reversed /\ half.cancelled /\ half.refundedAt > 0

(* To the nearest minor unit.                                                *)
Rounded(n, d) == (2 * n + d) \div (2 * d)

SaleLine(o, half) ==
  [sale |-> placed[o].price, cut |-> placed[o].cut, at |-> half.decidedAt, run |-> 0]

(* A bug in the next definition: the whole sale is mirrored whatever share   *)
(* went back, and its cut is kept.                                           *)
ReversalLineKeepsCut(o, half) ==
  [sale |-> -placed[o].price, cut |-> 0, at |-> half.refundedAt, run |-> 0]

(* The share that went back, of the sale as it was recorded.                 *)
ReversalLine(o, half) ==
  [sale |-> -Rounded(placed[o].price * half.refunded, placed[o].price),
   cut  |-> -Rounded(placed[o].cut * half.refunded, placed[o].price),
   at   |-> half.refundedAt, run |-> 0]

(* A sale nobody can price joins like any other and writes no line.          *)
Write(o, half) ==
  ledger' =
    [l \in Orders \X Kinds |->
       IF l = <<o, "sale">> /\ placed[o].priced /\ SaleCompletes(half)
         THEN SaleLine(o, half)
       ELSE IF l = <<o, "reversal">> /\ placed[o].priced /\ ReversalCompletes(half)
         THEN ReversalLine(o, half)
       ELSE ledger[l]]

(* `contribute`: the claim, the half and whatever it completes, in one unit. *)
(* A message claimed already changes nothing.                                *)
Contribute(o, kind) ==
  LET half == Merged(o, kind)
  IN  /\ Sent(o, kind)
      /\ <<o, kind>> \notin claimed
      /\ claimed' = claimed \cup {<<o, kind>>}
      /\ \/ /\ Voids(o, half)
            /\ sales' = [sales EXCEPT ![o] = [half EXCEPT !.voided = TRUE]]
            /\ UNCHANGED ledger
         \/ /\ ~Voids(o, half)
            /\ sales' = [sales EXCEPT ![o] =
                 [half EXCEPT !.folded = @ \/ SaleCompletes(half),
                              !.reversed = @ \/ ReversalCompletes(half)]]
            /\ Write(o, half)
      /\ UNCHANGED <<placed, sent, sweeps, runs>>

-----------------------------------------------------------------------------
(* Settling *)

Written == {l \in Orders \X Kinds : ledger[l] # Unwritten}

Unsettled == {l \in Written : ledger[l].run = 0}

(* `settleOnce`, its first read, outside any unit.                           *)
ReadOldest(p) ==
  /\ sweeps[p] = 0
  /\ \E oldest \in Unsettled :
       /\ \A l \in Unsettled : ledger[oldest].at <= ledger[l].at
       /\ sweeps' = [sweeps EXCEPT ![p] = ledger[oldest].at]
  /\ UNCHANGED <<placed, sent, claimed, sales, ledger, runs>>

(* Cash the vendor holds already is not paid out again: only the cut is owed.*)
Owed(l) ==
  IF placed[l[1]].method = "cod" THEN -ledger[l].cut
                            ELSE ledger[l].sale - ledger[l].cut

Currencies(v, lines) ==
  {placed[l[1]].currency : l \in {k \in lines : placed[k[1]].vendor = v}}

(* payoutFor refuses the sum of two currencies, and the whole unit with it.  *)
Payable(lines) == \A v \in Vendors : Cardinality(Currencies(v, lines)) <= 1

(* A sum of debts and credits as the sizes of two disjoint unions of units.  *)
Units(l, n) == {l} \X (1 .. n)

Credits(lines) == UNION {Units(l, Owed(l)) : l \in lines}

Debts(lines) == UNION {Units(l, -Owed(l)) : l \in lines}

Total(lines) == Cardinality(Credits(lines)) - Cardinality(Debts(lines))

OfVendor(v, lines) == {l \in lines : placed[l[1]].vendor = v}

Pay(lines) ==
  [v \in {placed[l[1]].vendor : l \in lines} |-> Total(OfVendor(v, lines))]

(* Bugs in the next definition: a line another run has stamped is claimed    *)
(* again, or a line is claimed only at the very time that was read.          *)
ClaimedStamped(since) == {l \in Written : ledger[l].at >= since}

ClaimedAfter(since) == {l \in Unsettled : ledger[l].at > since}

(* The period ends now, after everything decided.                            *)
Claimed(since) == {l \in Unsettled : ledger[l].at >= since}

(* `settle`, committed: the run, its lines' stamps and its payouts.          *)
Settle(p) ==
  LET lines == Claimed(sweeps[p])
  IN  /\ sweeps[p] > 0
      /\ lines # {} /\ Payable(lines)
      /\ runs' = Append(runs, [status |-> "calculated", payouts |-> Pay(lines)])
      /\ ledger' = [l \in Orders \X Kinds |->
           IF l \in lines THEN [ledger[l] EXCEPT !.run = Len(runs) + 1] ELSE ledger[l]]
      /\ sweeps' = [sweeps EXCEPT ![p] = 0]
      /\ UNCHANGED <<placed, sent, claimed, sales>>

(* A rival took them first: the empty attempt is recorded.                   *)
SettleNothing(p) ==
  /\ sweeps[p] > 0
  /\ Claimed(sweeps[p]) = {}
  /\ runs' = Append(runs, [status |-> "cancelled", payouts |-> Pay({})])
  /\ sweeps' = [sweeps EXCEPT ![p] = 0]
  /\ UNCHANGED <<placed, sent, claimed, sales, ledger>>

(* The pass fails: the store, the process, or a vendor's two currencies.     *)
SettleFails(p) ==
  /\ sweeps[p] > 0
  /\ sweeps' = [sweeps EXCEPT ![p] = 0]
  /\ UNCHANGED <<placed, sent, claimed, sales, ledger, runs>>

-----------------------------------------------------------------------------
Next ==
  \/ \E o \in Orders, kind \in Announcements : Announce(o, kind) \/ Contribute(o, kind)
  \/ \E p \in Replicas : ReadOldest(p) \/ Settle(p) \/ SettleNothing(p) \/ SettleFails(p)

Spec == Init /\ [][Next]_vars

(* Every replica sweeps at its interval for as long as it lives, a pass that *)
(* fails is followed by the next, and the store does not fail them all.      *)
Fairness ==
  /\ WF_vars(\E p \in Replicas : ReadOldest(p))
  /\ SF_vars(\E p \in Replicas : Settle(p))

FairSpec == Spec /\ Fairness

-----------------------------------------------------------------------------
(* Properties *)

Heard(o) == {kind \in Announcements : <<o, kind>> \in claimed}

(* Arrival order is not assumed: what the ledger says of an order depends on *)
(* which of its messages were folded and never on the order they came in.    *)
LedgerIsOrderFree ==
  \A o \in Orders :
    /\ <<o, "sale">> \in Written
         <=> placed[o].priced /\ {"placed", "captured"} \subseteq Heard(o)
    /\ <<o, "reversal">> \in Written
         <=> /\ <<o, "sale">> \in Written
             /\ "cancelled" \in Heard(o) /\ RefundKinds \cap Heard(o) # {}

(* An order that went back whole, in one refund, costs nobody anything: its  *)
(* reversal cancels its sale, whatever was paid out in between.              *)
WhollyReversed ==
  \A o \in Orders :
    (<<o, "reversal">> \in Written /\ ~Sent(o, "refunded_part")) =>
      /\ ledger[<<o, "sale">>].sale + ledger[<<o, "reversal">>].sale = 0
      /\ ledger[<<o, "sale">>].cut + ledger[<<o, "reversal">>].cut = 0

(* However many replicas settle at a time, and whatever is folded meanwhile, *)
(* what a run pays a vendor stays what the vendor's lines under that run     *)
(* come to: no line is paid twice and none is stamped unpaid.                *)
PayoutsAreLedger ==
  /\ \A l \in Written \ Unsettled :
       /\ ledger[l].run \in 1 .. Len(runs)
       /\ placed[l[1]].vendor \in DOMAIN runs[ledger[l].run].payouts
  /\ \A i \in 1 .. Len(runs) :
       \A v \in DOMAIN runs[i].payouts :
         runs[i].payouts[v] = Total(OfVendor(v, {l \in Written : ledger[l].run = i}))

(* Every line is settled, even one folded late with a date no sweep looks    *)
(* back to, unless some vendor's unsettled lines are in two currencies,      *)
(* which fails the run of every vendor.                                      *)
EveryLineSettles ==
  \A o \in Orders, kind \in Kinds :
    <<o, kind>> \in Unsettled ~> (<<o, kind>> \notin Unsettled \/ ~Payable(Unsettled))
=============================================================================
