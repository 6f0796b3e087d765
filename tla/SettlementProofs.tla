---------------------------- MODULE SettlementProofs ----------------------------
(***************************************************************************)
(* Theorems about Settlement, for any orders, placements and replicas.     *)
(***************************************************************************)
EXTENDS Settlement, FiniteSetTheorems, SequenceTheorems, TLAPS

-----------------------------------------------------------------------------
(* The inductive invariant *)

(* What was claimed was sent, and cash is collected or its order cancelled.  *)
SentFirst ==
  /\ IsFiniteSet({m \in Messages : sent[m] > 0})
  /\ \A m \in claimed : sent[m] > 0
  /\ \A o \in Orders : Sent(o, "cancelled") /\ Sent(o, "captured") => placed[o].method = "card"

(* The join record says what was heard, and what it completed follows.       *)
Joins(o) ==
  LET half == sales[o]
  IN  /\ half.placed <=> "placed" \in Heard(o)
      /\ half.decidedAt > 0 <=> "captured" \in Heard(o)
      /\ half.cancelled <=> "cancelled" \in Heard(o)
      /\ half.refundedAt > 0 <=> RefundKinds \cap Heard(o) # {}
      /\ half.refundedAt > 0 /\ ~Sent(o, "refunded_part") => half.refunded = placed[o].price
      /\ half.voided => placed[o].method = "cod" /\ Sent(o, "cancelled")
      /\ half.folded <=> half.placed /\ half.decidedAt > 0
      /\ half.reversed <=> half.folded /\ half.cancelled /\ half.refundedAt > 0

(* A line is written by what was completed, and mirrors what it is a line of.*)
Lines(o) ==
  LET sale == ledger[<<o, "sale">>]
      reversal == ledger[<<o, "reversal">>]
  IN  /\ <<o, "sale">> \in Written <=> placed[o].priced /\ sales[o].folded
      /\ <<o, "reversal">> \in Written <=> placed[o].priced /\ sales[o].reversed
      /\ <<o, "sale">> \in Written => sale.sale = placed[o].price /\ sale.cut = placed[o].cut
      /\ <<o, "reversal">> \in Written /\ ~Sent(o, "refunded_part") =>
           reversal.sale = -placed[o].price /\ reversal.cut = -placed[o].cut

LedgerFinite == IsFiniteSet(Credits(Written)) /\ IsFiniteSet(Debts(Written))

Run ==
  [status : {"calculated", "cancelled"},
   payouts : UNION {[vendors -> Int] : vendors \in SUBSET Vendors}]

RunsTyped == runs \in Seq(Run)

SettlementInv ==
  /\ TypeOK
  /\ RunsTyped
  /\ SentFirst
  /\ \A o \in Orders : Joins(o) /\ Lines(o)
  /\ LedgerFinite
  /\ PayoutsAreLedger

-----------------------------------------------------------------------------
(* Placements and rounding *)

LEMMA PlacementOf ==
  ASSUME TypeOK, NEW o \in Orders
  PROVE  /\ placed[o].price \in Nat \ {0} /\ placed[o].cut \in Nat /\ placed[o].part \in Nat
         /\ placed[o].part < placed[o].price
         /\ placed[o].method \in {"card", "cod"} /\ placed[o].priced \in BOOLEAN
BY PlacementsAssumption DEF TypeOK, Placement

LEMMA HalfOf ==
  ASSUME TypeOK, NEW o \in Orders
  PROVE  /\ sales[o] \in Joined
         /\ sales[o].placed \in BOOLEAN /\ sales[o].decidedAt \in Nat
         /\ sales[o].cancelled \in BOOLEAN /\ sales[o].refundedAt \in Nat
         /\ sales[o].refunded \in Nat /\ sales[o].folded \in BOOLEAN
         /\ sales[o].reversed \in BOOLEAN /\ sales[o].voided \in BOOLEAN
BY DEF TypeOK, Joined

LEMMA RoundedInt ==
  ASSUME NEW n \in Nat, NEW d \in Nat \ {0}
  PROVE  Rounded(n, d) \in Int
BY DEF Rounded

LEMMA Quotient ==
  ASSUME NEW a \in Nat, NEW b \in Nat \ {0}
  PROVE  /\ a \div b \in Int
         /\ b * (a \div b) <= a /\ a < b * (a \div b) + b
OBVIOUS

LEMMA BetweenMultiples ==
  ASSUME NEW b \in Nat \ {0}, NEW q \in Int, NEW n \in Int,
         b * q < b * n + b, b * n < b * q + b
  PROVE  q = n
<1>1. ASSUME q >= n + 1 PROVE FALSE
  <2>1. b * q >= b * (n + 1)
    BY <1>1
  <2>2. b * (n + 1) = b * n + b
    OBVIOUS
  <2> QED BY <2>1, <2>2
<1>2. ASSUME n >= q + 1 PROVE FALSE
  <2>1. b * n >= b * (q + 1)
    BY <1>2
  <2>2. b * (q + 1) = b * q + b
    OBVIOUS
  <2> QED BY <2>1, <2>2
<1> QED BY <1>1, <1>2

(* A share that is the whole is rounded to itself.                           *)
LEMMA RoundedWhole ==
  ASSUME NEW n \in Nat, NEW d \in Nat \ {0}
  PROVE  Rounded(n * d, d) = n
<1> DEFINE a == 2 * (n * d) + d
           b == 2 * d
           q == a \div b
<1>1. a \in Nat /\ b \in Nat \ {0} /\ b * n + d = a /\ d < b
  OBVIOUS
<1>2. q \in Int /\ b * q <= a /\ a < b * q + b
  BY <1>1, Quotient
<1>3. Rounded(n * d, d) = q
  BY DEF Rounded
<1>4. b * n \in Int /\ b * q \in Int
  BY <1>1, <1>2
<1> HIDE DEF a, b, q
<1>5. b * q < b * n + b /\ b * n < b * q + b
  BY <1>1, <1>2, <1>4
<1>6. q = n
  BY <1>1, <1>2, <1>5, BetweenMultiples
<1> QED BY <1>3, <1>6

-----------------------------------------------------------------------------
(* The initial states *)

LEMMA InitialInv == Init => SettlementInv
<1> SUFFICES ASSUME Init PROVE SettlementInv
  OBVIOUS
<1>1. /\ \A o \in Orders : sales[o] = NothingJoined
      /\ \A l \in Orders \X Kinds : ledger[l] = Unwritten
      /\ \A m \in Messages : sent[m] = 0
      /\ claimed = {} /\ runs = <<>> /\ placed \in Placements
  BY DEF Init
<1>2. TypeOK /\ RunsTyped
  <2>1. sales \in [Orders -> Joined] /\ ledger \in [Orders \X Kinds -> Line \cup {Unwritten}]
    BY DEF Init, Joined, NothingJoined
  <2>2. Len(runs) = 0 /\ RunsTyped
    BY <1>1 DEF RunsTyped
  <2> QED BY <2>1, <2>2 DEF Init, TypeOK
<1>3. Written = {}
  BY <1>1 DEF Written
<1>4. SentFirst
  <2>1. {m \in Messages : sent[m] > 0} = {}
    BY <1>1
  <2>2. \A o \in Orders, kind \in Announcements : ~Sent(o, kind)
    BY <1>1 DEF Sent, Messages
  <2> QED BY <1>1, <2>1, <2>2, FS_EmptySet DEF SentFirst, Announcements
<1>5. ASSUME NEW o \in Orders PROVE Joins(o) /\ Lines(o)
  BY <1>1, <1>3 DEF Joins, Lines, NothingJoined, Heard
<1>6. LedgerFinite
  BY <1>3, FS_EmptySet DEF LedgerFinite, Credits, Debts
<1>7. PayoutsAreLedger
  BY <1>1, <1>3 DEF PayoutsAreLedger
<1> QED BY <1>2, <1>4, <1>5, <1>6, <1>7 DEF SettlementInv

-----------------------------------------------------------------------------
(* Steps that write no line *)

LEMMA LedgerSame ==
  ASSUME UNCHANGED <<placed, ledger, runs>>, LedgerFinite, PayoutsAreLedger
  PROVE  LedgerFinite' /\ PayoutsAreLedger'
<1>1. Written' = Written /\ Unsettled' = Unsettled
  BY DEF Written, Unsettled
<1>2. \A lines : Credits(lines)' = Credits(lines) /\ Debts(lines)' = Debts(lines)
  BY DEF Credits, Debts, Owed
<1>3. LedgerFinite'
  BY <1>1, <1>2 DEF LedgerFinite
<1>4. \A lines : Total(lines)' = Total(lines)
  BY <1>2 DEF Total
<1>5. PayoutsAreLedger'
  BY <1>1, <1>4 DEF PayoutsAreLedger, OfVendor
<1> QED BY <1>3, <1>5

LEMMA AnnounceKeeps ==
  ASSUME SettlementInv, NEW o \in Orders, NEW kind \in Announcements, Announce(o, kind)
  PROVE  SettlementInv'
<1> USE DEF SettlementInv
<1>1. /\ UNCHANGED <<placed, claimed, sales, ledger, sweeps, runs>>
      /\ ~Sent(o, kind)
  BY DEF Announce
<1>2. PICK at \in Nat \ {0} : sent' = [sent EXCEPT ![<<o, kind>>] = at]
  <2>1. Now \in Nat \ {0}
    <3> DEFINE M == {m \in Messages : m[2] \in Money /\ sent[m] > 0}
    <3>1. IsFiniteSet(M)
      BY FS_Subset DEF SentFirst
    <3>2. Cardinality(M) \in Nat
      BY <3>1, FS_CardinalityType
    <3> QED BY <3>2 DEF Now
  <2>2. PICK at \in Nat \ {0} : at = IF kind \in Money THEN Now ELSE 1
    BY <2>1
  <2>3. sent' = [sent EXCEPT ![<<o, kind>>] = at]
    BY <2>2 DEF Announce
  <2> QED BY <2>3
<1>3. <<o, kind>> \in Messages /\ sent \in [Messages -> Nat]
  BY DEF Messages, TypeOK
<1>4. /\ sent'[<<o, kind>>] = at
      /\ \A m \in Messages : m # <<o, kind>> => sent'[m] = sent[m]
  BY <1>2, <1>3
<1>5. \A p \in Orders, k \in Announcements :
        Sent(p, k)' <=> Sent(p, k) \/ (p = o /\ k = kind)
  BY <1>4 DEF Sent, Messages
<1>6. TypeOK' /\ RunsTyped'
  BY <1>1, <1>2, <1>3 DEF TypeOK, RunsTyped, Run, Vendors
<1>7. SentFirst'
  <2>1. IsFiniteSet({m \in Messages : sent[m] > 0}')
    <3>1. {m \in Messages : sent[m] > 0}'
            = {m \in Messages : sent[m] > 0} \cup {<<o, kind>>}
      BY <1>3, <1>4
    <3> QED BY <3>1, FS_AddElement DEF SentFirst
  <2>2. \A m \in claimed' : sent'[m] > 0
    <3> SUFFICES ASSUME NEW m \in claimed PROVE sent'[m] > 0
      BY <1>1
    <3>1. m \in Messages /\ sent[m] > 0
      BY DEF SentFirst, TypeOK
    <3> QED BY <1>4, <3>1
  <2>3. \A p \in Orders : Sent(p, "cancelled")' /\ Sent(p, "captured")' => placed'[p].method = "card"
    <3> SUFFICES ASSUME Sent(o, "cancelled")', Sent(o, "captured")', kind \in {"cancelled", "captured"}
                 PROVE  placed[o].method = "card"
      BY <1>1, <1>5 DEF SentFirst, Announcements
    <3>1. CASE kind = "captured"
      BY <1>5, <3>1 DEF Announce, Announcements
    <3>2. CASE kind = "cancelled"
      BY <1>5, <3>2 DEF Announce, Announcements
    <3> QED BY <3>1, <3>2
  <2> QED BY <2>1, <2>2, <2>3 DEF SentFirst
<1>8. ASSUME NEW p \in Orders PROVE Joins(p)' /\ Lines(p)'
  <2>1. Joins(p) /\ Lines(p) /\ Heard(p)' = Heard(p) /\ Written' = Written
    BY <1>1 DEF Heard, Written
  <2>2. /\ Sent(p, "refunded_part") => Sent(p, "refunded_part")'
        /\ Sent(p, "cancelled") => Sent(p, "cancelled")'
    BY <1>5 DEF Announcements
  <2>3. Joins(p)'
    BY <1>1, <2>1, <2>2 DEF Joins
  <2>4. Lines(p)'
    BY <1>1, <2>1, <2>2 DEF Lines
  <2> QED BY <2>3, <2>4
<1>9. LedgerFinite' /\ PayoutsAreLedger'
  BY <1>1, LedgerSame
<1> QED BY <1>6, <1>7, <1>8, <1>9

LEMMA SweepOnly ==
  ASSUME SettlementInv, UNCHANGED <<placed, sent, claimed, sales, ledger, runs>>,
         sweeps' \in [Replicas -> Nat]
  PROVE  SettlementInv'
<1> USE DEF SettlementInv
<1>1. TypeOK' /\ RunsTyped'
  BY DEF TypeOK, RunsTyped, Run, Vendors
<1>2. SentFirst'
  BY DEF SentFirst, Sent
<1>3. ASSUME NEW o \in Orders PROVE Joins(o)' /\ Lines(o)'
  BY DEF Joins, Lines, Heard, Written, Sent
<1>4. LedgerFinite' /\ PayoutsAreLedger'
  BY LedgerSame
<1> QED BY <1>1, <1>2, <1>3, <1>4

LEMMA SweepsKeep ==
  ASSUME SettlementInv, NEW p \in Replicas, ReadOldest(p) \/ SettleFails(p)
  PROVE  SettlementInv'
<1>1. UNCHANGED <<placed, sent, claimed, sales, ledger, runs>>
  BY DEF ReadOldest, SettleFails
<1>2. sweeps' \in [Replicas -> Nat]
  <2>1. CASE ReadOldest(p)
    <3>1. PICK oldest \in Unsettled : sweeps' = [sweeps EXCEPT ![p] = ledger[oldest].at]
      BY <2>1 DEF ReadOldest
    <3>2. ledger[oldest].at \in Nat
      BY DEF SettlementInv, TypeOK, Unsettled, Written, Line
    <3> QED BY <3>1, <3>2 DEF SettlementInv, TypeOK
  <2>2. CASE SettleFails(p)
    BY <2>2 DEF SettleFails, SettlementInv, TypeOK
  <2> QED BY <2>1, <2>2
<1> QED BY <1>1, <1>2, SweepOnly

-----------------------------------------------------------------------------
(* Units of debts and credits *)

LEMMA UnitsFinite ==
  ASSUME NEW l, NEW n \in Int
  PROVE  IsFiniteSet(Units(l, n))
<1>1. IsFiniteSet(1 .. n)
  BY FS_Interval
<1>2. IsFiniteSet({l})
  BY FS_Singleton
<1> QED BY <1>1, <1>2, FS_Product DEF Units

LEMMA UnionFinite ==
  ASSUME NEW S, IsFiniteSet(S), NEW T, IsFiniteSet(T)
  PROVE  IsFiniteSet(S \cup T)
BY FS_Union

LEMMA OwedInt ==
  ASSUME TypeOK, NEW l \in Written
  PROVE  Owed(l) \in Int
BY DEF TypeOK, Written, Owed, Line

(* A sum over some of the lines written is one of whole amounts.             *)
LEMMA TotalInt ==
  ASSUME LedgerFinite, NEW lines \in SUBSET Written
  PROVE  Total(lines) \in Int
<1>1. Credits(lines) \subseteq Credits(Written) /\ Debts(lines) \subseteq Debts(Written)
  BY DEF Credits, Debts
<1>2. IsFiniteSet(Credits(lines)) /\ IsFiniteSet(Debts(lines))
  BY <1>1, FS_Subset DEF LedgerFinite
<1> QED BY <1>2, FS_CardinalityType DEF Total

LEMMA TotalSame ==
  ASSUME NEW lines, \A l \in lines : Owed(l)' = Owed(l)
  PROVE  Credits(lines)' = Credits(lines) /\ Debts(lines)' = Debts(lines)
         /\ Total(lines)' = Total(lines)
<1>1. Credits(lines)' = Credits(lines) /\ Debts(lines)' = Debts(lines)
  BY DEF Credits, Debts
<1> QED BY <1>1 DEF Total

-----------------------------------------------------------------------------
(* A message is folded *)

LEMMA HalfHeard ==
  ASSUME SettlementInv, NEW o \in Orders, NEW kind \in Announcements, Sent(o, kind)
  PROVE  LET half == Merged(o, kind)
         IN  /\ half \in Joined
             /\ half.placed <=> sales[o].placed \/ kind = "placed"
             /\ half.decidedAt > 0 <=> sales[o].decidedAt > 0 \/ kind = "captured"
             /\ half.cancelled <=> sales[o].cancelled \/ kind = "cancelled"
             /\ half.refundedAt > 0 <=> sales[o].refundedAt > 0 \/ kind \in RefundKinds
             /\ half.refundedAt > 0 /\ ~Sent(o, "refunded_part") => half.refunded = placed[o].price
             /\ half.folded = sales[o].folded /\ half.reversed = sales[o].reversed
             /\ half.voided = sales[o].voided
<1>1. sales[o] \in Joined /\ Joins(o)
  BY HalfOf DEF SettlementInv
<1>2. sent[<<o, kind>>] \in Nat \ {0}
  BY DEF Sent, SettlementInv, TypeOK, Messages
<1>3. CASE kind = "placed"
  BY <1>1, <1>3 DEF Merged, Joined, Joins, RefundKinds
<1>4. CASE kind = "captured"
  BY <1>1, <1>2, <1>4 DEF Merged, Joined, Joins, RefundKinds
<1>5. CASE kind = "cancelled"
  BY <1>1, <1>5 DEF Merged, Joined, Joins, RefundKinds
<1>6. CASE kind \in RefundKinds
  <2>1. Amount(o, kind) \in Nat /\ (~Sent(o, "refunded_part") => Amount(o, kind) = placed[o].price)
    <3>1. /\ placed[o].price \in Nat \ {0} /\ placed[o].part \in Nat
          /\ placed[o].part < placed[o].price
      BY PlacementOf DEF SettlementInv
    <3> QED BY <1>6, <3>1 DEF Amount, RefundKinds
  <2>2. PICK at \in Nat \ {0}, back \in Nat :
           /\ at = sent[<<o, kind>>]
           /\ back = Amount(o, kind)
    BY <1>2, <2>1
  <2>3. Merged(o, kind) = [sales[o] EXCEPT !.refundedAt = at, !.refunded = back]
    BY <1>6, <2>2 DEF Merged, RefundKinds
  <2>4. /\ Merged(o, kind) \in Joined
        /\ Merged(o, kind).refundedAt > 0
        /\ ~Sent(o, "refunded_part") => Merged(o, kind).refunded = placed[o].price
    <3>1. Merged(o, kind) \in Joined
      BY <1>1, <2>3 DEF Joined
    <3>2. Merged(o, kind).refundedAt = at /\ Merged(o, kind).refunded = back
      BY <1>1, <2>3 DEF Joined
    <3>3. at > 0 /\ (~Sent(o, "refunded_part") => back = placed[o].price)
      BY <2>1, <2>2
    <3> QED BY <3>1, <3>2, <3>3
  <2>5. /\ Merged(o, kind).placed = sales[o].placed
        /\ Merged(o, kind).decidedAt = sales[o].decidedAt
        /\ Merged(o, kind).cancelled = sales[o].cancelled
        /\ Merged(o, kind).folded = sales[o].folded
        /\ Merged(o, kind).reversed = sales[o].reversed
        /\ Merged(o, kind).voided = sales[o].voided
    BY <1>1, <2>3 DEF Joined
  <2>6. kind \notin {"placed", "captured", "cancelled"}
    BY <1>6 DEF RefundKinds
  <2> QED BY <1>6, <2>4, <2>5, <2>6
<1> QED BY <1>3, <1>4, <1>5, <1>6 DEF Announcements, RefundKinds

(* New lines, under no run, leave every run what it paid.                    *)
LEMMA LedgerGrows ==
  ASSUME SettlementInv, UNCHANGED <<placed, runs>>, TypeOK',
         NEW o \in Orders, NEW new \in SUBSET {<<o, "sale">>, <<o, "reversal">>},
         new \cap Written = {},
         \A l \in new : ledger'[l] # Unwritten /\ ledger'[l].run = 0,
         \A l \in (Orders \X Kinds) \ new : ledger'[l] = ledger[l]
  PROVE  LedgerFinite' /\ PayoutsAreLedger'
<1>1. new \subseteq Orders \X Kinds
  BY DEF Kinds
<1>2. Written' = Written \cup new
  BY <1>1 DEF Written
<1>3. \A l \in Written : ledger'[l] = ledger[l] /\ Owed(l)' = Owed(l)
  BY DEF Written, Owed
<1>4. \A l \in new : Owed(l)' \in Int
  BY <1>1, <1>2 DEF TypeOK, Owed, Line
<1>5. LedgerFinite'
  <2>1. IsFiniteSet(Credits(new)') /\ IsFiniteSet(Debts(new)')
    <3> DEFINE S(l) == IF l \in new THEN Units(l, Owed(l)') ELSE {}
               T(l) == IF l \in new THEN Units(l, -Owed(l)') ELSE {}
    <3>1. \A l : IsFiniteSet(S(l)) /\ IsFiniteSet(T(l))
      <4> TAKE l
      <4>1. CASE l \in new
        BY <1>4, <4>1, UnitsFinite
      <4>2. CASE l \notin new
        BY <4>2, FS_EmptySet
      <4> QED BY <4>1, <4>2
    <3>2. /\ Credits(new)' = S(<<o, "sale">>) \cup S(<<o, "reversal">>)
          /\ Debts(new)' = T(<<o, "sale">>) \cup T(<<o, "reversal">>)
      BY DEF Credits, Debts
    <3>3. PICK c, d, e, f : /\ c = S(<<o, "sale">>) /\ d = S(<<o, "reversal">>)
                            /\ e = T(<<o, "sale">>) /\ f = T(<<o, "reversal">>)
      OBVIOUS
    <3>4. IsFiniteSet(c) /\ IsFiniteSet(d) /\ IsFiniteSet(e) /\ IsFiniteSet(f)
      BY <3>1, <3>3
    <3>5. IsFiniteSet(c \cup d) /\ IsFiniteSet(e \cup f)
      BY <3>4, UnionFinite
    <3> HIDE DEF S, T
    <3> QED BY <3>2, <3>3, <3>5
  <2>2. /\ Credits(Written)' = Credits(Written) \cup Credits(new)'
        /\ Debts(Written)' = Debts(Written) \cup Debts(new)'
    BY <1>2, <1>3 DEF Credits, Debts
  <2>3. PICK c, d, e, f : /\ c = Credits(Written) /\ d = Credits(new)'
                          /\ e = Debts(Written) /\ f = Debts(new)'
    OBVIOUS
  <2>4. IsFiniteSet(c \cup d) /\ IsFiniteSet(e \cup f)
    BY <2>1, <2>3, UnionFinite DEF SettlementInv, LedgerFinite
  <2> QED BY <2>2, <2>3, <2>4 DEF LedgerFinite
<1>6. PayoutsAreLedger'
  <2>1. \A l \in (Written \ Unsettled)' : l \in Written \ Unsettled /\ ledger'[l] = ledger[l]
    BY <1>2, <1>3 DEF Unsettled
  <2>2. ASSUME NEW i \in 1 .. Len(runs), NEW v \in DOMAIN runs[i].payouts
        PROVE  runs[i].payouts[v] = Total(OfVendor(v, {l \in Written : ledger[l].run = i}))'
    <3>1. PICK lines : lines = OfVendor(v, {l \in Written : ledger[l].run = i})
      OBVIOUS
    <3>2. OfVendor(v, {l \in Written : ledger[l].run = i})' = lines
      BY <1>2, <1>3, <3>1 DEF OfVendor
    <3>3. Total(lines)' = Total(lines)
      BY <1>3, <3>1, TotalSame DEF OfVendor
    <3>4. runs[i].payouts[v] = Total(lines)
      BY <3>1 DEF SettlementInv, PayoutsAreLedger
    <3> QED BY <3>2, <3>3, <3>4
  <2> QED BY <2>1, <2>2 DEF SettlementInv, PayoutsAreLedger
<1> QED BY <1>5, <1>6

(* What was claimed of an order, one more message with it.                   *)
LEMMA HeardNext ==
  ASSUME NEW o \in Orders, NEW kind \in Announcements,
         claimed' = claimed \cup {<<o, kind>>}
  PROVE  \A p \in Orders : Heard(p)' = IF p = o THEN Heard(p) \cup {kind} ELSE Heard(p)
BY DEF Heard

(* Whatever the orders' records become, the rest of the invariant holds.     *)
LEMMA ContributeRest ==
  ASSUME SettlementInv, NEW o \in Orders, NEW kind \in Announcements, Sent(o, kind),
         NEW r \in Joined, sales' = [sales EXCEPT ![o] = r],
         claimed' = claimed \cup {<<o, kind>>},
         ledger' \in [Orders \X Kinds -> Line \cup {Unwritten}],
         UNCHANGED <<placed, sent, sweeps, runs>>,
         \A l \in Orders \X Kinds : l[1] # o => ledger'[l] = ledger[l]
  PROVE  /\ TypeOK' /\ RunsTyped' /\ SentFirst'
         /\ \A p \in Orders \ {o} : Joins(p)' /\ Lines(p)'
<1>1. TypeOK' /\ RunsTyped'
  <2>1. <<o, kind>> \in Messages
    BY DEF Messages
  <2>2. sales' \in [Orders -> Joined] /\ claimed' \in SUBSET Messages
    BY <2>1 DEF SettlementInv, TypeOK
  <2>3. RunsTyped' /\ Vendors' = Vendors
    BY DEF SettlementInv, RunsTyped, Run, Vendors
  <2> QED BY <2>2, <2>3 DEF SettlementInv, TypeOK
<1>2. SentFirst'
  BY DEF SettlementInv, SentFirst, Sent
<1>3. ASSUME NEW p \in Orders \ {o} PROVE Joins(p)' /\ Lines(p)'
  <2>1. /\ sales'[p] = sales[p] /\ Heard(p)' = Heard(p)
        /\ \A k \in Announcements : Sent(p, k)' = Sent(p, k)
    BY HeardNext DEF SettlementInv, TypeOK, Sent
  <2>2. \A k \in Kinds : /\ ledger'[<<p, k>>] = ledger[<<p, k>>]
                         /\ <<p, k>> \in Written' <=> <<p, k>> \in Written
    BY DEF Written
  <2>3. Joins(p) /\ Lines(p)
    BY DEF SettlementInv
  <2>4. Joins(p)'
    BY <2>1, <2>3 DEF Joins, Announcements
  <2>5. Lines(p)'
    BY <2>1, <2>2, <2>3 DEF Lines, Kinds, Announcements
  <2> QED BY <2>4, <2>5
<1> QED BY <1>1, <1>2, <1>3

LEMMA VoidKeeps ==
  ASSUME SettlementInv, NEW o \in Orders, NEW kind \in Announcements,
         Contribute(o, kind), Voids(o, Merged(o, kind)), UNCHANGED ledger,
         sales' = [sales EXCEPT ![o] = [Merged(o, kind) EXCEPT !.voided = TRUE]]
  PROVE  SettlementInv'
<1>1. /\ Sent(o, kind) /\ claimed' = claimed \cup {<<o, kind>>}
      /\ UNCHANGED <<placed, sent, sweeps, runs>>
  BY DEF Contribute
<1>2. PICK half \in Joined : half = Merged(o, kind)
  BY <1>1, HalfHeard
<1>3. PICK r \in Joined : r = [half EXCEPT !.voided = TRUE]
  BY DEF Joined
<1>4. sales' = [sales EXCEPT ![o] = r] /\ sales'[o] = r
  BY <1>2, <1>3 DEF SettlementInv, TypeOK
<1>5. /\ TypeOK' /\ RunsTyped' /\ SentFirst'
      /\ \A p \in Orders \ {o} : Joins(p)' /\ Lines(p)'
  BY <1>1, <1>4, ContributeRest DEF SettlementInv, TypeOK
<1>6. Joins(o) /\ Lines(o) /\ SentFirst
  BY DEF SettlementInv
<1>7. Heard(o)' = Heard(o) \cup {kind} /\ \A k \in Heard(o)' : Sent(o, k)
  <2>1. Heard(o)' = Heard(o) \cup {kind}
    BY <1>1, HeardNext
  <2> QED BY <1>1, <1>6, <2>1 DEF Heard, SentFirst, Sent
<1>8. /\ half.placed <=> "placed" \in Heard(o)'
      /\ half.decidedAt > 0 <=> "captured" \in Heard(o)'
      /\ half.cancelled <=> "cancelled" \in Heard(o)'
      /\ half.refundedAt > 0 <=> RefundKinds \cap Heard(o)' # {}
      /\ half.refundedAt > 0 /\ ~Sent(o, "refunded_part") => half.refunded = placed[o].price
      /\ half.folded = sales[o].folded /\ half.reversed = sales[o].reversed
      /\ half.voided = sales[o].voided
  <2>1. Joins(o) BY <1>6
  <2> QED BY <1>1, <1>2, <1>7, <2>1, HalfHeard DEF Joins
<1>9. placed[o].method = "cod" /\ Sent(o, "cancelled")
  BY <1>2, <1>6, <1>7, <1>8 DEF Voids, Joins
<1>10. ~(half.decidedAt > 0) /\ ~half.folded /\ ~half.reversed
  <2>1. ~Sent(o, "captured")
    BY <1>6, <1>9 DEF SentFirst
  <2>2. ~(half.decidedAt > 0)
    BY <1>7, <1>8, <2>1
  <2>3. ~(sales[o].decidedAt > 0)
    BY <1>6, <1>7, <2>1 DEF Joins
  <2> QED BY <1>6, <1>8, <2>2, <2>3 DEF Joins
<1>11. Joins(o)'
  <2>1. /\ r.placed = half.placed /\ r.decidedAt = half.decidedAt
        /\ r.cancelled = half.cancelled /\ r.refundedAt = half.refundedAt
        /\ r.refunded = half.refunded /\ r.folded = half.folded
        /\ r.reversed = half.reversed
    BY <1>2, <1>3 DEF Joined
  <2>2. /\ Sent(o, "cancelled")' = Sent(o, "cancelled") /\ placed' = placed
        /\ Sent(o, "refunded_part")' = Sent(o, "refunded_part")
    BY <1>1 DEF Sent
  <2> QED BY <1>4, <1>8, <1>9, <1>10, <2>1, <2>2 DEF Joins
<1>12. Lines(o)'
  <2>1. sales'[o].folded = sales[o].folded /\ sales'[o].reversed = sales[o].reversed
    BY <1>2, <1>3, <1>4, <1>8 DEF Joined
  <2>2. Written' = Written /\ placed' = placed
        /\ Sent(o, "refunded_part")' = Sent(o, "refunded_part")
    BY <1>1 DEF Written, Sent
  <2> QED BY <1>6, <2>1, <2>2 DEF Lines
<1>13. LedgerFinite' /\ PayoutsAreLedger'
  BY <1>1, LedgerSame DEF SettlementInv
<1> QED BY <1>5, <1>11, <1>12, <1>13 DEF SettlementInv

(* The share of a sale that went back, of a sale that went back whole.       *)
LEMMA ReversalIsLine ==
  ASSUME TypeOK, NEW o \in Orders, NEW half \in Joined, half.refundedAt > 0
  PROVE  /\ ReversalLine(o, half) \in Line /\ ReversalLine(o, half).run = 0
         /\ half.refunded = placed[o].price =>
              /\ ReversalLine(o, half).sale = -placed[o].price
              /\ ReversalLine(o, half).cut = -placed[o].cut
<1>1. PICK price \in Nat \ {0}, cut \in Nat : price = placed[o].price /\ cut = placed[o].cut
  BY PlacementOf
<1>2. PICK back \in Nat, at \in Nat \ {0} : back = half.refunded /\ at = half.refundedAt
  BY DEF Joined
<1>3. /\ price * back \in Nat /\ cut * back \in Nat
  BY <1>1, <1>2
<1>4. Rounded(price * back, price) \in Int /\ Rounded(cut * back, price) \in Int
  BY <1>1, <1>3, RoundedInt
<1>5. ReversalLine(o, half) = [sale |-> -Rounded(price * back, price),
                               cut  |-> -Rounded(cut * back, price),
                               at   |-> at, run |-> 0]
  BY <1>1, <1>2 DEF ReversalLine
<1>6. back = price => Rounded(price * back, price) = price /\ Rounded(cut * back, price) = cut
  BY <1>1, RoundedWhole
<1>7. -Rounded(price * back, price) \in Int /\ -Rounded(cut * back, price) \in Int
  BY <1>4
<1>8. ReversalLine(o, half) \in Line /\ ReversalLine(o, half).run = 0
  BY <1>2, <1>5, <1>7 DEF Line
<1> QED BY <1>1, <1>2, <1>5, <1>6, <1>8

LEMMA FoldKeeps ==
  ASSUME SettlementInv, NEW o \in Orders, NEW kind \in Announcements,
         Contribute(o, kind), NEW half \in Joined, half = Merged(o, kind),
         ~Voids(o, half), Write(o, half),
         sales' = [sales EXCEPT ![o] =
           [half EXCEPT !.folded = @ \/ SaleCompletes(half),
                        !.reversed = @ \/ ReversalCompletes(half)]]
  PROVE  SettlementInv'
<1>1. /\ Sent(o, kind) /\ claimed' = claimed \cup {<<o, kind>>}
      /\ UNCHANGED <<placed, sent, sweeps, runs>>
  BY DEF Contribute
<1>2. PICK folded \in BOOLEAN, reversed \in BOOLEAN :
        /\ folded <=> half.folded \/ SaleCompletes(half)
        /\ reversed <=> half.reversed \/ ReversalCompletes(half)
  OBVIOUS
<1>3. PICK r \in Joined : r = [half EXCEPT !.folded = folded, !.reversed = reversed]
  BY DEF Joined
<1>4. sales' = [sales EXCEPT ![o] = r] /\ sales'[o] = r
  <2>1. r = [half EXCEPT !.folded = @ \/ SaleCompletes(half),
                         !.reversed = @ \/ ReversalCompletes(half)]
    BY <1>2, <1>3 DEF Joined, SaleCompletes, ReversalCompletes
  <2> QED BY <2>1 DEF SettlementInv, TypeOK
<1>5. /\ r.placed = half.placed /\ r.decidedAt = half.decidedAt
      /\ r.cancelled = half.cancelled /\ r.refundedAt = half.refundedAt
      /\ r.refunded = half.refunded /\ r.voided = half.voided
      /\ r.folded = folded /\ r.reversed = reversed
  BY <1>3 DEF Joined
<1>6. Joins(o) /\ Lines(o) /\ TypeOK /\ Heard(o)' = Heard(o) \cup {kind}
  BY <1>1, HeardNext DEF SettlementInv
<1>7. /\ half.placed <=> "placed" \in Heard(o)'
      /\ half.decidedAt > 0 <=> "captured" \in Heard(o)'
      /\ half.cancelled <=> "cancelled" \in Heard(o)'
      /\ half.refundedAt > 0 <=> RefundKinds \cap Heard(o)' # {}
      /\ half.refundedAt > 0 /\ ~Sent(o, "refunded_part") => half.refunded = placed[o].price
      /\ half.folded = sales[o].folded /\ half.reversed = sales[o].reversed
      /\ ~half.voided
  <2>1. ~half.voided
    BY DEF Voids
  <2> QED BY <1>1, <1>6, <2>1, HalfHeard DEF Joins
<1>8. /\ folded <=> half.placed /\ half.decidedAt > 0
      /\ reversed <=> folded /\ half.cancelled /\ half.refundedAt > 0
  <2>1. half.folded => half.placed /\ half.decidedAt > 0
    BY <1>6, <1>7 DEF Joins
  <2>2. half.reversed => half.folded /\ half.cancelled /\ half.refundedAt > 0
    BY <1>6, <1>7 DEF Joins
  <2> QED BY <1>2, <2>1, <2>2 DEF SaleCompletes, ReversalCompletes
<1>9. /\ Sent(o, "cancelled")' = Sent(o, "cancelled") /\ placed' = placed
      /\ Sent(o, "refunded_part")' = Sent(o, "refunded_part")
  BY <1>1 DEF Sent
<1>10. Joins(o)'
  BY <1>4, <1>5, <1>7, <1>8, <1>9 DEF Joins
<1>11. /\ half.decidedAt > 0 => SaleLine(o, half) \in Line /\ SaleLine(o, half).run = 0
       /\ half.refundedAt > 0 => ReversalLine(o, half) \in Line /\ ReversalLine(o, half).run = 0
  <2>1. placed[o].price \in Int /\ placed[o].cut \in Int /\ half.decidedAt \in Nat
    BY <1>6, PlacementOf DEF Joined
  <2> QED BY <1>6, <2>1, ReversalIsLine DEF SaleLine, Line
<1>12. PICK new \in SUBSET {<<o, "sale">>, <<o, "reversal">>} :
         /\ <<o, "sale">> \in new <=> placed[o].priced /\ SaleCompletes(half)
         /\ <<o, "reversal">> \in new <=> placed[o].priced /\ ReversalCompletes(half)
  <2> DEFINE sale == {l \in {<<o, "sale">>} : placed[o].priced /\ SaleCompletes(half)}
             back == {l \in {<<o, "reversal">>} : placed[o].priced /\ ReversalCompletes(half)}
  <2> WITNESS sale \cup back \in SUBSET {<<o, "sale">>, <<o, "reversal">>}
  <2> QED OBVIOUS
<1>13. /\ \A l \in (Orders \X Kinds) \ new : ledger'[l] = ledger[l]
       /\ <<o, "sale">> \in new => ledger'[<<o, "sale">>] = SaleLine(o, half)
       /\ <<o, "reversal">> \in new => ledger'[<<o, "reversal">>] = ReversalLine(o, half)
  BY <1>12 DEF Write, Kinds
<1>14. \A l \in new : ledger'[l] \in Line /\ ledger'[l].run = 0 /\ ledger'[l] # Unwritten
  <2>1. \A l \in new : ledger'[l] \in Line /\ ledger'[l].run = 0
    BY <1>11, <1>12, <1>13 DEF SaleCompletes, ReversalCompletes
  <2> QED BY <2>1 DEF Line, Unwritten
<1>15. ledger' \in [Orders \X Kinds -> Line \cup {Unwritten}]
  <2>1. \A l \in Orders \X Kinds : ledger'[l] \in Line \cup {Unwritten}
    BY <1>6, <1>13, <1>14 DEF TypeOK
  <2> QED BY <2>1 DEF Write
<1>16. /\ TypeOK' /\ RunsTyped' /\ SentFirst'
       /\ \A p \in Orders \ {o} : Joins(p)' /\ Lines(p)'
  <2>1. \A l \in Orders \X Kinds : l[1] # o => ledger'[l] = ledger[l]
    BY <1>13
  <2> QED BY <1>1, <1>4, <1>15, <2>1, ContributeRest
<1>17. new \cap Written = {}
  BY <1>6, <1>7, <1>12 DEF Lines, SaleCompletes, ReversalCompletes
<1>18. \A l \in {<<o, "sale">>, <<o, "reversal">>} : l \in Written' <=> l \in Written \/ l \in new
  BY <1>13, <1>14 DEF Written, Kinds
<1>19. Lines(o)'
  <2>1. <<o, "sale">> \in Written' <=> placed[o].priced /\ folded
    BY <1>2, <1>6, <1>7, <1>12, <1>18 DEF Lines
  <2>2. <<o, "reversal">> \in Written' <=> placed[o].priced /\ reversed
    BY <1>2, <1>6, <1>7, <1>12, <1>18 DEF Lines
  <2>3. <<o, "sale">> \in Written' => /\ ledger'[<<o, "sale">>].sale = placed[o].price
                                    /\ ledger'[<<o, "sale">>].cut = placed[o].cut
    BY <1>6, <1>13, <1>18 DEF Lines, SaleLine, Kinds
  <2>4. <<o, "reversal">> \in Written' /\ ~Sent(o, "refunded_part") =>
           /\ ledger'[<<o, "reversal">>].sale = -placed[o].price
           /\ ledger'[<<o, "reversal">>].cut = -placed[o].cut
    <3>1. CASE <<o, "reversal">> \in new
      <4>1. half.refundedAt > 0
        BY <1>12, <3>1 DEF ReversalCompletes
      <4> QED BY <1>6, <1>7, <1>13, <3>1, <4>1, ReversalIsLine
    <3>2. CASE <<o, "reversal">> \notin new
      BY <1>6, <1>13, <1>18, <3>2 DEF Lines, Kinds
    <3> QED BY <3>1, <3>2
  <2> QED BY <1>4, <1>5, <1>9, <2>1, <2>2, <2>3, <2>4 DEF Lines
<1>20. LedgerFinite' /\ PayoutsAreLedger'
  BY <1>1, <1>13, <1>14, <1>16, <1>17, LedgerGrows
<1> QED BY <1>10, <1>16, <1>19, <1>20 DEF SettlementInv

LEMMA ContributeKeeps ==
  ASSUME SettlementInv, NEW o \in Orders, NEW kind \in Announcements, Contribute(o, kind)
  PROVE  SettlementInv'
<1>1. PICK half \in Joined : half = Merged(o, kind)
  BY HalfHeard DEF Contribute
<1>2. CASE Voids(o, half)
  BY <1>1, <1>2, VoidKeeps DEF Contribute
<1>3. CASE ~Voids(o, half)
  <2>1. /\ Write(o, half)
        /\ sales' = [sales EXCEPT ![o] =
             [half EXCEPT !.folded = @ \/ SaleCompletes(half),
                          !.reversed = @ \/ ReversalCompletes(half)]]
    BY <1>1, <1>3 DEF Contribute
  <2> QED BY <1>1, <1>3, <2>1, FoldKeeps
<1> QED BY <1>2, <1>3

-----------------------------------------------------------------------------
(* A sweep settles *)

LEMMA PayTyped ==
  ASSUME SettlementInv, NEW lines \in SUBSET Written,
         NEW status \in {"calculated", "cancelled"}
  PROVE  [status |-> status, payouts |-> Pay(lines)] \in Run
<1> DEFINE vendors == {placed[l[1]].vendor : l \in lines}
<1>1. vendors \in SUBSET Vendors
  BY DEF Written, Vendors
<1>2. \A v \in vendors : Total(OfVendor(v, lines)) \in Int
  BY TotalInt DEF OfVendor, SettlementInv
<1>3. Pay(lines) \in [vendors -> Int]
  BY <1>2 DEF Pay
<1> QED BY <1>1, <1>3 DEF Run

(* A run is recorded, for lines no run has stamped.                          *)
LEMMA RunKeeps ==
  ASSUME SettlementInv, NEW p \in Replicas, NEW lines \in SUBSET Unsettled,
         NEW status \in {"calculated", "cancelled"},
         runs' = Append(runs, [status |-> status, payouts |-> Pay(lines)]),
         ledger' = [l \in Orders \X Kinds |->
           IF l \in lines THEN [ledger[l] EXCEPT !.run = Len(runs) + 1] ELSE ledger[l]],
         sweeps' = [sweeps EXCEPT ![p] = 0],
         UNCHANGED <<placed, sent, claimed, sales>>
  PROVE  SettlementInv'
<1>1. lines \subseteq Written /\ Written \subseteq Orders \X Kinds
  BY DEF Unsettled, Written
<1>2. PICK run \in Run : run = [status |-> status, payouts |-> Pay(lines)]
  BY <1>1, PayTyped
<1>3. runs \in Seq(Run)
  BY DEF SettlementInv, RunsTyped, Run
<1>4. PICK n \in Nat \ {0} : n = Len(runs) + 1
  BY <1>3, LenProperties
<1>5. /\ runs' \in Seq(Run) /\ Len(runs') = n
      /\ \A i \in 1 .. Len(runs) : runs'[i] = runs[i]
      /\ runs'[n] = run
  BY <1>2, <1>3, <1>4, AppendProperties
<1>6. /\ \A l \in Written : ledger[l] \in Line
      /\ \A l \in lines : ledger[l] \in Line /\ ledger[l].run = 0
  BY <1>1 DEF SettlementInv, TypeOK, Written, Unsettled
<1>7. \A l \in lines : /\ ledger'[l] \in Line /\ ledger'[l].run = n
                       /\ ledger'[l].sale = ledger[l].sale
                       /\ ledger'[l].cut = ledger[l].cut
                       /\ ledger'[l].at = ledger[l].at
  <2> SUFFICES ASSUME NEW l \in lines
               PROVE  /\ ledger'[l] \in Line /\ ledger'[l].run = n
                      /\ ledger'[l].sale = ledger[l].sale
                      /\ ledger'[l].cut = ledger[l].cut
                      /\ ledger'[l].at = ledger[l].at
    OBVIOUS
  <2>1. ledger'[l] = [ledger[l] EXCEPT !.run = n]
    BY <1>1, <1>4
  <2> QED BY <1>6, <2>1 DEF Line
<1>8. \A l \in (Orders \X Kinds) \ lines : ledger'[l] = ledger[l]
  OBVIOUS
<1>9. Written' = Written /\ Unsettled' = Unsettled \ lines
  <2>1. \A l \in lines : ledger'[l] # Unwritten /\ l \in Written
    BY <1>1, <1>7 DEF Line, Unwritten
  <2>2. Written' = Written
    BY <1>1, <1>8, <2>1 DEF Written
  <2> QED BY <1>1, <1>4, <1>7, <1>8, <2>2 DEF Unsettled
<1>10. TypeOK' /\ RunsTyped'
  <2>1. Run' = Run /\ Vendors' = Vendors
    BY DEF Run, Vendors
  <2>2. RunsTyped'
    BY <1>5, <2>1 DEF RunsTyped, Run
  <2>3. ledger' \in [Orders \X Kinds -> Line \cup {Unwritten}]
    <3>1. \A l \in Orders \X Kinds : ledger'[l] \in Line \cup {Unwritten}
      BY <1>7, <1>8 DEF SettlementInv, TypeOK
    <3> QED BY <3>1
  <2>4. \A i \in 1 .. Len(runs') : runs'[i] \in Run
    BY <1>5
  <2>5. \A r \in Run : /\ r.status \in {"calculated", "cancelled"}
                         /\ DOMAIN r.payouts \subseteq Vendors
                         /\ r.payouts \in [DOMAIN r.payouts -> Int]
    BY DEF Run
  <2>6. sweeps' \in [Replicas -> Nat]
    BY DEF SettlementInv, TypeOK
  <2>7. \A i \in 1 .. Len(runs') :
           /\ runs'[i].status \in {"calculated", "cancelled"}
           /\ DOMAIN runs'[i].payouts \subseteq Vendors
           /\ runs'[i].payouts \in [DOMAIN runs'[i].payouts -> Int]
    <3> SUFFICES ASSUME NEW i \in 1 .. Len(runs')
                 PROVE  /\ runs'[i].status \in {"calculated", "cancelled"}
                        /\ DOMAIN runs'[i].payouts \subseteq Vendors
                        /\ runs'[i].payouts \in [DOMAIN runs'[i].payouts -> Int]
      OBVIOUS
    <3>1. PICK r \in Run : r = runs'[i]
      BY <2>4
    <3> QED BY <2>5, <3>1
  <2>8. TypeOK'
    BY <2>1, <2>3, <2>6, <2>7 DEF SettlementInv, TypeOK
  <2> QED BY <2>2, <2>8
<1>11. SentFirst'
  BY DEF SettlementInv, SentFirst, Sent
<1>12. ASSUME NEW o \in Orders PROVE Joins(o)' /\ Lines(o)'
  <2>1. Joins(o) /\ Lines(o)
    BY DEF SettlementInv
  <2>2. Joins(o)'
    BY <2>1 DEF Joins, Heard, Sent
  <2>3. \A l \in Written : ledger'[l].sale = ledger[l].sale /\ ledger'[l].cut = ledger[l].cut
    BY <1>1, <1>7, <1>8
  <2>4. Lines(o)'
    BY <1>9, <2>1, <2>3 DEF Lines, Sent
  <2> QED BY <2>2, <2>4
<1>13. \A l \in Written : Owed(l)' = Owed(l)
  BY <1>1, <1>7, <1>8 DEF Owed
<1>14. LedgerFinite'
  BY <1>9, <1>13 DEF SettlementInv, LedgerFinite, Credits, Debts
<1>15. PayoutsAreLedger'
  <2>1. ASSUME NEW l \in (Written \ Unsettled)'
        PROVE  /\ ledger'[l].run \in 1 .. Len(runs')
               /\ placed'[l[1]].vendor \in DOMAIN runs'[ledger'[l].run].payouts
    <3>1. CASE l \in lines
      <4>1. ledger'[l].run = n /\ n \in 1 .. Len(runs')
        <5>1. n \in 1 .. n
          OBVIOUS
        <5>2. ledger'[l].run = n
          BY <1>7, <3>1
        <5> QED BY <1>5, <5>1, <5>2
      <4>2. placed[l[1]].vendor \in DOMAIN run.payouts
        BY <1>2, <3>1 DEF Pay
      <4> QED BY <1>5, <4>1, <4>2
    <3>2. CASE l \notin lines
      <4>1. l \in Written \ Unsettled /\ ledger'[l] = ledger[l]
        BY <1>1, <1>8, <1>9, <3>2
      <4>2. /\ ledger[l].run \in 1 .. Len(runs)
            /\ placed[l[1]].vendor \in DOMAIN runs[ledger[l].run].payouts
        BY <4>1 DEF SettlementInv, PayoutsAreLedger
      <4> QED BY <1>4, <1>5, <4>1, <4>2
    <3> QED BY <3>1, <3>2
  <2>2. ASSUME NEW i \in 1 .. Len(runs'), NEW v \in DOMAIN runs'[i].payouts
        PROVE  runs'[i].payouts[v] = Total(OfVendor(v, {l \in Written : ledger[l].run = i}))'
    <3>1. CASE i = n
      <4>1. \A l \in Written \ lines : ledger[l].run # n
        BY <1>4, <1>6 DEF SettlementInv, PayoutsAreLedger, Unsettled, Line
      <4>2. {l \in Written : ledger[l].run = i}' = lines
        BY <1>1, <1>7, <1>8, <1>9, <3>1, <4>1
      <4>3. PICK mine : mine = OfVendor(v, lines)
        OBVIOUS
      <4>4. OfVendor(v, {l \in Written : ledger[l].run = i})' = mine
        BY <4>2, <4>3 DEF OfVendor
      <4>5. Total(mine)' = Total(mine)
        BY <1>1, <1>13, <4>3, TotalSame DEF OfVendor
      <4>6. runs'[i].payouts[v] = Total(mine)
        BY <1>2, <1>5, <3>1, <4>3 DEF Pay
      <4> QED BY <4>4, <4>5, <4>6
    <3>2. CASE i # n
      <4>1. i \in 1 .. Len(runs) /\ runs'[i] = runs[i]
        BY <1>4, <1>5, <3>2
      <4>2. {l \in Written : ledger[l].run = i}' = {l \in Written : ledger[l].run = i}
        BY <1>1, <1>6, <1>7, <1>8, <1>9, <3>2, <4>1
      <4>3. PICK mine : mine = OfVendor(v, {l \in Written : ledger[l].run = i})
        OBVIOUS
      <4>4. OfVendor(v, {l \in Written : ledger[l].run = i})' = mine
        BY <4>2, <4>3 DEF OfVendor
      <4>5. Total(mine)' = Total(mine)
        BY <1>13, <4>3, TotalSame DEF OfVendor
      <4>6. runs[i].payouts[v] = Total(mine)
        BY <4>1, <4>3 DEF SettlementInv, PayoutsAreLedger
      <4> QED BY <4>1, <4>4, <4>5, <4>6
    <3> QED BY <3>1, <3>2
  <2> QED BY <2>1, <2>2 DEF PayoutsAreLedger
<1> QED BY <1>10, <1>11, <1>12, <1>14, <1>15 DEF SettlementInv

LEMMA SettlesKeep ==
  ASSUME SettlementInv, NEW p \in Replicas, Settle(p) \/ SettleNothing(p)
  PROVE  SettlementInv'
<1>1. CASE Settle(p)
  <2>1. PICK lines \in SUBSET Unsettled : lines = Claimed(sweeps[p])
    BY DEF Claimed
  <2> QED BY <1>1, <2>1, RunKeeps DEF Settle
<1>2. CASE SettleNothing(p)
  <2>1. ledger = [l \in Orders \X Kinds |->
          IF l \in {} THEN [ledger[l] EXCEPT !.run = Len(runs) + 1] ELSE ledger[l]]
    BY DEF SettlementInv, TypeOK
  <2>2. PICK lines \in SUBSET Unsettled : lines = {}
    OBVIOUS
  <2> QED BY <1>2, <2>1, <2>2, RunKeeps DEF SettleNothing
<1> QED BY <1>1, <1>2

-----------------------------------------------------------------------------
(* The theorems *)

LEMMA SettlementInductive == SettlementInv /\ [Next]_vars => SettlementInv'
<1> SUFFICES ASSUME SettlementInv, [Next]_vars PROVE SettlementInv'
  OBVIOUS
<1>1. ASSUME NEW o \in Orders, NEW kind \in Announcements, Announce(o, kind)
      PROVE  SettlementInv'
  BY <1>1, AnnounceKeeps
<1>2. ASSUME NEW o \in Orders, NEW kind \in Announcements, Contribute(o, kind)
      PROVE  SettlementInv'
  BY <1>2, ContributeKeeps
<1>3. ASSUME NEW p \in Replicas, ReadOldest(p) \/ SettleFails(p)
      PROVE  SettlementInv'
  BY <1>3, SweepsKeep
<1>4. ASSUME NEW p \in Replicas, Settle(p) \/ SettleNothing(p)
      PROVE  SettlementInv'
  BY <1>4, SettlesKeep
<1>5. CASE UNCHANGED vars
  <2>1. UNCHANGED <<placed, sent, claimed, sales, ledger, runs>> /\ sweeps' = sweeps
    BY <1>5 DEF vars
  <2>2. sweeps' \in [Replicas -> Nat]
    BY <2>1 DEF SettlementInv, TypeOK
  <2> QED BY <2>1, <2>2, SweepOnly
<1> QED BY <1>1, <1>2, <1>3, <1>4, <1>5 DEF Next

LEMMA SettlementInvAlways == Spec => []SettlementInv
BY InitialInv, SettlementInductive, PTL DEF Spec

(* Every join record, line, sweep and run is one settlement-store.ts can     *)
(* write, and what a run pays out is whole amounts, to vendors only.         *)
THEOREM TypeCorrect == Spec => []TypeOK
BY SettlementInvAlways, PTL DEF SettlementInv

(* Whichever order an order's announcements come in, and however often, the  *)
(* ledger has the lines of those that were folded: `fold` never misses the   *)
(* message that completes a pair and never writes what is not complete.      *)
THEOREM LedgerIsOrderFreeAlways == Spec => []LedgerIsOrderFree
<1>1. SettlementInv => LedgerIsOrderFree
  BY DEF SettlementInv, Joins, Lines, LedgerIsOrderFree
<1> QED BY <1>1, SettlementInvAlways, PTL

(* A sale refunded whole is reversed to the last minor unit, its commission  *)
(* with it, at any price and any rate: reversalOf's rounding loses nothing.  *)
THEOREM WhollyReversedAlways == Spec => []WhollyReversed
<1>1. ASSUME SettlementInv PROVE WhollyReversed
  <2> SUFFICES ASSUME NEW o \in Orders, <<o, "reversal">> \in Written,
                      ~Sent(o, "refunded_part")
               PROVE  /\ ledger[<<o, "sale">>].sale + ledger[<<o, "reversal">>].sale = 0
                      /\ ledger[<<o, "sale">>].cut + ledger[<<o, "reversal">>].cut = 0
    BY DEF WhollyReversed
  <2>1. Joins(o) /\ Lines(o)
    BY <1>1 DEF SettlementInv
  <2>2. <<o, "sale">> \in Written
    BY <2>1 DEF Joins, Lines
  <2>3. placed[o].price \in Nat /\ placed[o].cut \in Nat
    BY <1>1, PlacementOf DEF SettlementInv
  <2> QED BY <2>1, <2>2, <2>3 DEF Lines
<1> QED BY <1>1, SettlementInvAlways, PTL

(* With any number of replicas in `settle` at a time, over any lines folded  *)
(* meanwhile, each run's payouts are what the lines it stamped come to.      *)
THEOREM PayoutsAreLedgerAlways == Spec => []PayoutsAreLedger
BY SettlementInvAlways, PTL DEF SettlementInv

=================================================================================
