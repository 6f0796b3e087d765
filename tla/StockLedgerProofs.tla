-------------------------- MODULE StockLedgerProofs --------------------------
(***************************************************************************)
(* Theorems about StockLedger, for any offerings, ids, commands and        *)
(* quantities.                                                             *)
(***************************************************************************)
EXTENDS StockLedger, FiniteSetTheorems, TLAPS

-----------------------------------------------------------------------------
(* Type correctness *)

LEMMA HeldIsHold ==
  ASSUME TypeOK, NEW r \in ReservationIds, holds[r].status = "held"
  PROVE  holds[r] \in Hold
BY DEF TypeOK, NoHold, None

LEMMA ChangeTyped ==
  ASSUME TypeOK, NEW o \in Offerings, NEW x \in Int, NEW y \in Int, Change(o, x, y)
  PROVE  items' \in [Offerings -> Item] /\ outbox' \in SUBSET Event
BY DEF TypeOK, Change, Item, Event

LEMMA AppendTyped ==
  ASSUME TypeOK, NEW id \in MovementIds, NEW o \in Offerings,
         NEW q \in Int \ {0}, NEW reason \in Reasons,
         NEW by \in {"vendor", "hold", "restore"},
         AppendMovement(id, o, q, reason, by)
  PROVE  movements' \in SUBSET Movement
BY DEF TypeOK, AppendMovement, Movement

(* Every variable keeps its type. *)
THEOREM TypeCorrect == Spec => []TypeOK
<1>1. Init => TypeOK
  BY DEF Init, TypeOK, Item
<1>2. TypeOK /\ [Next]_vars => TypeOK'
  <2> SUFFICES ASSUME TypeOK, [Next]_vars PROVE TypeOK'
    OBVIOUS
  <2> USE CommandAssumption, VendorAssumption
  <2>1. ASSUME NEW c \in TakeCommands, Take(c) PROVE TypeOK'
    <3>1. OfferingOf[c] \in Offerings /\ QuantityOf[c] \in Nat \ {0} /\ c \in Commands
      BY DEF Commands
    <3>2. items' \in [Offerings -> Item] /\ outbox' \in SUBSET Event
      BY <2>1, <3>1, ChangeTyped DEF Take
    <3>3. holds' \in [ReservationIds -> Hold \cup {NoHold}]
      BY <2>1, <3>1 DEF Take, TypeOK, Hold
    <3>4. claimed' \in [Commands -> ReservationIds \cup MovementIds \cup {None}]
      BY <2>1, <3>1 DEF Take, TypeOK
    <3> QED BY <2>1, <3>2, <3>3, <3>4 DEF Take, TypeOK
  <2>2. ASSUME NEW r \in ReservationIds, Expire(r) PROVE TypeOK'
    <3>1. holds[r] \in Hold
      BY <2>2, HeldIsHold DEF Expire
    <3> QED BY <2>2, <3>1 DEF Expire, TypeOK, Hold
  <2>3. ASSUME NEW r \in ReservationIds, NEW to \in Ends, ReadHeld(r, to)
        PROVE  TypeOK'
    BY <2>3 DEF ReadHeld, TypeOK, EndRequest
  <2>4. ASSUME NEW e \in ending, Release(e) PROVE TypeOK'
    <3>1. e.id \in ReservationIds
      BY DEF TypeOK, EndRequest
    <3>2. holds[e.id] \in Hold
      BY <2>4, <3>1, HeldIsHold DEF Release
    <3>3. /\ holds[e.id].offering \in Offerings
          /\ -holds[e.id].quantity \in Int
      BY <3>2 DEF Hold
    <3>4. items' \in [Offerings -> Item] /\ outbox' \in SUBSET Event
      <4>1. Change(holds[e.id].offering, 0, -holds[e.id].quantity) /\ 0 \in Int
        BY <2>4 DEF Release
      <4> QED BY <3>3, <4>1, ChangeTyped
    <3>5. holds' \in [ReservationIds -> Hold \cup {NoHold}]
      BY <2>4, <3>1, <3>2 DEF Release, TypeOK, Hold, Ends
    <3> QED BY <2>4, <3>4, <3>5 DEF Release, TypeOK
  <2>5. ASSUME NEW e \in ending, Convert(e) PROVE TypeOK'
    <3>1. e.id \in ReservationIds
      BY DEF TypeOK, EndRequest
    <3>2. holds[e.id] \in Hold
      BY <2>5, <3>1, HeldIsHold DEF Convert
    <3>3. /\ holds[e.id].offering \in Offerings
          /\ holds[e.id].quantity \in Nat \ {0}
          /\ -holds[e.id].quantity \in Int \ {0}
      BY <3>2 DEF Hold
    <3>4. items' \in [Offerings -> Item] /\ outbox' \in SUBSET Event
      BY <2>5, <3>3, ChangeTyped DEF Convert
    <3>5. holds' \in [ReservationIds -> Hold \cup {NoHold}]
      BY <2>5, <3>1, <3>2 DEF Convert, TypeOK, Hold, Ends
    <3>6. movements' \in SUBSET Movement
      BY <2>5, <3>3, AppendTyped DEF Convert, FreshMovementIds, Reasons
    <3> QED BY <2>5, <3>4, <3>5, <3>6 DEF Convert, TypeOK
  <2>6. ASSUME NEW e \in ending, NotHeld(e) \/ EndFails(e) PROVE TypeOK'
    BY <2>6 DEF NotHeld, EndFails, TypeOK
  <2>7. ASSUME NEW o \in Offerings, NEW q \in VendorQuantities,
               NEW reason \in VendorReasons, Record(o, q, reason)
        PROVE  TypeOK'
    <3>1. q \in Int \ {0} /\ reason \in Reasons
      BY <2>7 DEF Record, IsConsistentMovement
    <3>2. items' \in [Offerings -> Item] /\ outbox' \in SUBSET Event
      BY <2>7, <3>1, ChangeTyped DEF Record
    <3>3. movements' \in SUBSET Movement
      BY <2>7, <3>1, AppendTyped DEF Record, FreshMovementIds
    <3> QED BY <2>7, <3>2, <3>3 DEF Record, TypeOK
  <2>8. ASSUME NEW c \in RestoreCommands, NEW cause \in {"cancellation", "return"},
               Restore(c, cause)
        PROVE  TypeOK'
    <3>1. OfferingOf[c] \in Offerings /\ QuantityOf[c] \in Nat \ {0} /\ c \in Commands
      BY DEF Commands
    <3>2. items' \in [Offerings -> Item] /\ outbox' \in SUBSET Event
      BY <2>8, <3>1, ChangeTyped DEF Restore
    <3>3. PICK m \in FreshMovementIds :
            /\ AppendMovement(m, OfferingOf[c], QuantityOf[c], cause, "restore")
            /\ claimed' = [claimed EXCEPT ![c] = m]
      BY <2>8 DEF Restore
    <3>4. movements' \in SUBSET Movement
      BY <3>1, <3>3, AppendTyped DEF FreshMovementIds, Reasons
    <3>5. claimed' \in [Commands -> ReservationIds \cup MovementIds \cup {None}]
      BY <3>1, <3>3 DEF TypeOK, FreshMovementIds
    <3> QED BY <2>8, <3>2, <3>4, <3>5 DEF Restore, TypeOK
  <2>9. CASE UNCHANGED vars
    BY <2>9 DEF vars, TypeOK
  <2> QED
    BY <2>1, <2>2, <2>3, <2>4, <2>5, <2>6, <2>7, <2>8, <2>9
    DEF Next, FlowEnds, SweepFinds, Ends
<1> QED BY <1>1, <1>2, PTL DEF Spec

-----------------------------------------------------------------------------
(* Counting units *)

LEMMA UnitsSize ==
  ASSUME NEW id, NEW n \in Nat
  PROVE  IsFiniteSet(Units(id, n)) /\ Cardinality(Units(id, n)) = n
<1>1. IsFiniteSet(1 .. n) /\ Cardinality(1 .. n) = n
  BY FS_Interval
<1>2. IsFiniteSet({id}) /\ Cardinality({id}) = 1
  BY FS_Singleton
<1> QED BY <1>1, <1>2, FS_Product DEF Units

LEMMA AddUnits ==
  ASSUME NEW S, IsFiniteSet(S), NEW id, NEW n \in Nat, S \cap Units(id, n) = {}
  PROVE  /\ IsFiniteSet(S \cup Units(id, n))
         /\ Cardinality(S \cup Units(id, n)) = Cardinality(S) + n
<1>1. Cardinality(S) \in Nat /\ Cardinality({}) = 0
  BY FS_CardinalityType, FS_EmptySet
<1>2. IsFiniteSet(Units(id, n)) /\ Cardinality(Units(id, n)) = n
  BY UnitsSize
<1>3. /\ IsFiniteSet(S \cup Units(id, n))
      /\ Cardinality(S \cup Units(id, n))
           = Cardinality(S) + n - Cardinality(S \cap Units(id, n))
  BY <1>2, FS_Union
<1>4. Cardinality(S \cap Units(id, n)) = 0
  BY <1>1
<1> QED BY <1>1, <1>3, <1>4

LEMMA RemoveUnits ==
  ASSUME NEW S, IsFiniteSet(S), NEW id, NEW n \in Nat, Units(id, n) \subseteq S
  PROVE  /\ IsFiniteSet(S \ Units(id, n))
         /\ Cardinality(S \ Units(id, n)) = Cardinality(S) - n
<1>1. S \cap Units(id, n) = Units(id, n)
  OBVIOUS
<1>2. Cardinality(Units(id, n)) = n
  BY UnitsSize
<1>3. /\ IsFiniteSet(S \ Units(id, n))
      /\ Cardinality(S \ Units(id, n))
           = Cardinality(S) - Cardinality(S \cap Units(id, n))
  BY FS_Difference
<1> QED BY <1>1, <1>2, <1>3

-----------------------------------------------------------------------------
(* What each kind of step does to the units a counter stands for *)

LEMMA HoldTaken ==
  ASSUME TypeOK, NEW r \in ReservationIds, NEW h \in Hold, holds[r] = NoHold,
         h.status = "held", holds' = [holds EXCEPT ![r] = h],
         NEW o \in Offerings
  PROVE  /\ HeldUnits(o) \cap Units(r, h.quantity) = {}
         /\ HeldUnits(o)' = IF h.offering = o
                              THEN HeldUnits(o) \cup Units(r, h.quantity)
                              ELSE HeldUnits(o)
<1>1. r \notin HeldOn(o)
  BY DEF HeldOn, NoHold, None
<1>2. HeldOn(o)' = IF h.offering = o THEN HeldOn(o) \cup {r} ELSE HeldOn(o)
  BY <1>1 DEF HeldOn, TypeOK
<1>3. \A x \in HeldOn(o) : holds'[x].quantity = holds[x].quantity
  BY <1>1 DEF HeldOn, TypeOK
<1>4. holds'[r].quantity = h.quantity
  BY DEF TypeOK
<1>5. HeldUnits(o) \cap Units(r, h.quantity) = {}
  BY <1>1 DEF HeldUnits, Units
<1>6. CASE h.offering = o
  BY <1>2, <1>3, <1>4, <1>5, <1>6 DEF HeldUnits, Units
<1>7. CASE h.offering # o
  BY <1>2, <1>3, <1>5, <1>7 DEF HeldUnits, Units
<1> QED BY <1>6, <1>7

LEMMA HoldEnded ==
  ASSUME TypeOK, NEW r \in ReservationIds, holds[r].status = "held",
         NEW to \in Ends, holds' = [holds EXCEPT ![r].status = to],
         NEW o \in Offerings
  PROVE  HeldUnits(o)' = IF holds[r].offering = o
                           THEN HeldUnits(o) \ Units(r, holds[r].quantity)
                           ELSE HeldUnits(o)
<1>1. holds[r] \in Hold
  BY HeldIsHold
<1>2. HeldOn(o)' = HeldOn(o) \ {r}
  BY <1>1 DEF HeldOn, TypeOK, Hold, Ends
<1>3. \A x \in HeldOn(o) : holds'[x].quantity = holds[x].quantity
  BY <1>1 DEF HeldOn, TypeOK, Hold
<1>4. CASE holds[r].offering = o
  BY <1>2, <1>3, <1>4 DEF HeldUnits, Units
<1>5. CASE holds[r].offering # o
  <2>1. HeldOn(o)' = HeldOn(o)
    BY <1>2, <1>5 DEF HeldOn
  <2> QED BY <2>1, <1>3, <1>5 DEF HeldUnits, Units
<1> QED BY <1>4, <1>5

LEMMA HeldOfOffering ==
  ASSUME TypeOK, NEW r \in ReservationIds, holds[r].status = "held"
  PROVE  Units(r, holds[r].quantity) \subseteq HeldUnits(holds[r].offering)
BY DEF HeldUnits, HeldOn

LEMMA SameHolds ==
  ASSUME UNCHANGED holds, NEW o PROVE HeldUnits(o)' = HeldUnits(o)
BY DEF HeldUnits, HeldOn

LEMMA SameMovements ==
  ASSUME UNCHANGED movements, NEW o
  PROVE  /\ UnitsIn(o)' = UnitsIn(o) /\ UnitsOut(o)' = UnitsOut(o)
         /\ UnitsWrittenOff(o)' = UnitsWrittenOff(o)
BY DEF UnitsIn, UnitsOut, UnitsWrittenOff, MovedIn, MovedOut

LEMMA MovementAppended ==
  ASSUME TypeOK, NEW id \in FreshMovementIds, NEW p \in Offerings,
         NEW q \in Int \ {0}, NEW reason, NEW by, AppendMovement(id, p, q, reason, by),
         NEW o \in Offerings
  PROVE  /\ UnitsIn(o)' = IF p = o /\ q > 0 THEN UnitsIn(o) \cup Units(id, q)
                                            ELSE UnitsIn(o)
         /\ UnitsOut(o)' = IF p = o /\ q < 0 THEN UnitsOut(o) \cup Units(id, -q)
                                             ELSE UnitsOut(o)
         /\ UnitsWrittenOff(o)' =
              IF p = o /\ q < 0 /\ by = "vendor"
                THEN UnitsWrittenOff(o) \cup Units(id, -q) ELSE UnitsWrittenOff(o)
         /\ UnitsIn(o) \cap Units(id, q) = {}
         /\ UnitsOut(o) \cap Units(id, -q) = {}
         /\ UnitsWrittenOff(o) \cap Units(id, -q) = {}
<1> DEFINE m == [id |-> id, offering |-> p, quantity |-> q, reason |-> reason,
                 by |-> by]
<1>1. movements' = movements \cup {m} /\ \A n \in movements : n.id # id
  BY DEF AppendMovement, FreshMovementIds
<1>2. /\ MovedIn(o)' = IF p = o /\ q > 0 THEN MovedIn(o) \cup {m} ELSE MovedIn(o)
      /\ MovedOut(o)' = IF p = o /\ q < 0 THEN MovedOut(o) \cup {m} ELSE MovedOut(o)
  BY <1>1 DEF MovedIn, MovedOut
<1>3. /\ UnitsIn(o) \cap Units(id, q) = {}
      /\ UnitsOut(o) \cap Units(id, -q) = {}
      /\ UnitsWrittenOff(o) \cap Units(id, -q) = {}
  BY <1>1 DEF UnitsIn, UnitsOut, UnitsWrittenOff, MovedIn, MovedOut, Units
<1>4. m.id = id /\ m.quantity = q /\ m.by = by
  OBVIOUS
<1> HIDE DEF m
<1>5. UnitsIn(o)' = IF p = o /\ q > 0 THEN UnitsIn(o) \cup Units(id, q) ELSE UnitsIn(o)
  <2>1. CASE p = o /\ q > 0
    BY <1>2, <1>4, <2>1 DEF UnitsIn
  <2>2. CASE ~(p = o /\ q > 0)
    BY <1>2, <2>2 DEF UnitsIn
  <2> QED BY <2>1, <2>2
<1>6. UnitsOut(o)' = IF p = o /\ q < 0 THEN UnitsOut(o) \cup Units(id, -q)
                                       ELSE UnitsOut(o)
  <2>1. CASE p = o /\ q < 0
    BY <1>2, <1>4, <2>1 DEF UnitsOut
  <2>2. CASE ~(p = o /\ q < 0)
    BY <1>2, <2>2 DEF UnitsOut
  <2> QED BY <2>1, <2>2
<1>7. UnitsWrittenOff(o)' =
        IF p = o /\ q < 0 /\ by = "vendor"
          THEN UnitsWrittenOff(o) \cup Units(id, -q) ELSE UnitsWrittenOff(o)
  <2> DEFINE B == {n \in MovedOut(o) : n.by = "vendor"}
  <2>1. CASE p = o /\ q < 0 /\ by = "vendor"
    <3>1. B' = B \cup {m}
      BY <1>2, <1>4, <2>1
    <3> QED BY <1>4, <2>1, <3>1 DEF UnitsWrittenOff
  <2>2. CASE ~(p = o /\ q < 0 /\ by = "vendor")
    <3>1. B' = B
      BY <1>2, <1>4, <2>2
    <3> QED BY <2>2, <3>1 DEF UnitsWrittenOff
  <2> QED BY <2>1, <2>2
<1> QED BY <1>3, <1>5, <1>6, <1>7

-----------------------------------------------------------------------------
(* The counters of one offering are the sizes of the sets they stand for. *)

FiniteUnits(o) ==
  /\ IsFiniteSet(HeldUnits(o))
  /\ IsFiniteSet(UnitsIn(o))
  /\ IsFiniteSet(UnitsOut(o))
  /\ IsFiniteSet(UnitsWrittenOff(o))

Counted(o) ==
  /\ FiniteUnits(o)
  /\ items[o].reserved = Cardinality(HeldUnits(o))
  /\ items[o].onHand = Cardinality(UnitsIn(o)) - Cardinality(UnitsOut(o))
  /\ Availability(o) + Cardinality(UnitsWrittenOff(o)) >= 0

LEMMA CountersMoved ==
  ASSUME TypeOK, NEW p \in Offerings, NEW x \in Int, NEW y \in Int, Change(p, x, y),
         NEW o \in Offerings
  PROVE  /\ items'[o].onHand = items[o].onHand + (IF o = p THEN x ELSE 0)
         /\ items'[o].reserved = items[o].reserved + (IF o = p THEN y ELSE 0)
         /\ items[o].onHand \in Int /\ items[o].reserved \in Int
BY DEF Change, TypeOK, Item

LEMMA TakeCounted ==
  ASSUME TypeOK, NEW c \in TakeCommands, Take(c), NEW o \in Offerings, Counted(o)
  PROVE  Counted(o)'
<1> DEFINE p == OfferingOf[c]
           q == QuantityOf[c]
<1>1. p \in Offerings /\ q \in Nat \ {0}
  BY CommandAssumption DEF Commands
<1>2. PICK r \in ReservationIds :
        /\ holds[r] = NoHold
        /\ holds' = [holds EXCEPT ![r] =
             [status |-> "held", offering |-> p, quantity |-> q, expired |-> FALSE]]
  BY DEF Take
<1> DEFINE h == [status |-> "held", offering |-> p, quantity |-> q, expired |-> FALSE]
<1>3. h \in Hold /\ h.status = "held" /\ h.offering = p /\ h.quantity = q
  BY <1>1 DEF Hold
<1>4. /\ HeldUnits(o) \cap Units(r, q) = {}
      /\ HeldUnits(o)' = IF p = o THEN HeldUnits(o) \cup Units(r, q) ELSE HeldUnits(o)
  <2> HIDE DEF h
  <2>1. holds' = [holds EXCEPT ![r] = h]
    BY <1>2 DEF h
  <2>2. /\ HeldUnits(o) \cap Units(r, h.quantity) = {}
        /\ HeldUnits(o)' = IF h.offering = o THEN HeldUnits(o) \cup Units(r, h.quantity)
                                             ELSE HeldUnits(o)
    <3>1. r \in ReservationIds /\ holds[r] = NoHold
      BY <1>2
    <3> QED BY <1>3, <2>1, <3>1, HoldTaken
  <2> QED BY <1>3, <2>2
<1>5. UnitsIn(o)' = UnitsIn(o) /\ UnitsOut(o)' = UnitsOut(o)
      /\ UnitsWrittenOff(o)' = UnitsWrittenOff(o)
  BY SameMovements DEF Take
<1>6. Change(p, 0, q) /\ items[p].onHand - items[p].reserved >= q /\ 0 \in Int
  BY DEF Take
<1>7. /\ items'[o].onHand = items[o].onHand
      /\ items'[o].reserved = items[o].reserved + (IF o = p THEN q ELSE 0)
      /\ items[o].onHand \in Int /\ items[o].reserved \in Int
  BY <1>1, <1>6 DEF Change, TypeOK, Item
<1>8. CASE o = p
  <2>1. IsFiniteSet(HeldUnits(o)') /\ Cardinality(HeldUnits(o)') = Cardinality(HeldUnits(o)) + q
    BY <1>1, <1>4, <1>8, AddUnits DEF Counted, FiniteUnits
  <2>2. Cardinality(UnitsWrittenOff(o)) \in Nat
    BY FS_CardinalityType DEF Counted, FiniteUnits
  <2> QED BY <1>1, <1>5, <1>6, <1>7, <1>8, <2>1, <2>2
          DEF Counted, FiniteUnits, Availability
<1>9. CASE o # p
  BY <1>4, <1>5, <1>7, <1>9 DEF Counted, FiniteUnits, Availability
<1> QED BY <1>8, <1>9

LEMMA ReleaseCounted ==
  ASSUME TypeOK, NEW e \in ending, Release(e), NEW o \in Offerings, Counted(o)
  PROVE  Counted(o)'
<1> DEFINE p == holds[e.id].offering
           q == holds[e.id].quantity
<1>1. e.id \in ReservationIds /\ holds[e.id].status = "held"
  BY DEF TypeOK, EndRequest, Release
<1>2. holds[e.id] \in Hold
  BY <1>1, HeldIsHold
<1>3. p \in Offerings /\ q \in Nat \ {0}
  BY <1>2 DEF Hold
<1>4. holds' = [holds EXCEPT ![e.id].status = "released"] /\ "released" \in Ends
  BY DEF Release, Ends
<1>5. HeldUnits(o)' = IF p = o THEN HeldUnits(o) \ Units(e.id, q) ELSE HeldUnits(o)
  BY <1>1, <1>4, HoldEnded
<1>6. /\ UnitsIn(o)' = UnitsIn(o) /\ UnitsOut(o)' = UnitsOut(o)
      /\ UnitsWrittenOff(o)' = UnitsWrittenOff(o)
  BY SameMovements DEF Release
<1>7. /\ items'[o].onHand = items[o].onHand
      /\ items'[o].reserved = items[o].reserved - (IF o = p THEN q ELSE 0)
      /\ items[o].onHand \in Int /\ items[o].reserved \in Int
  BY <1>3 DEF Release, Change, TypeOK, Item
<1>8. Cardinality(UnitsWrittenOff(o)) \in Nat
  BY FS_CardinalityType DEF Counted, FiniteUnits
<1>9. CASE o = p
  <2>1. Units(e.id, q) \subseteq HeldUnits(o)
    BY <1>1, <1>9, HeldOfOffering
  <2>2. /\ IsFiniteSet(HeldUnits(o)')
        /\ Cardinality(HeldUnits(o)') = Cardinality(HeldUnits(o)) - q
    BY <1>3, <1>5, <1>9, <2>1, RemoveUnits DEF Counted, FiniteUnits
  <2> QED BY <1>3, <1>6, <1>7, <1>8, <1>9, <2>2 DEF Counted, FiniteUnits, Availability
<1>10. CASE o # p
  BY <1>5, <1>6, <1>7, <1>10 DEF Counted, FiniteUnits, Availability
<1> QED BY <1>9, <1>10

LEMMA ConvertCounted ==
  ASSUME TypeOK, NEW e \in ending, Convert(e), NEW o \in Offerings, Counted(o)
  PROVE  Counted(o)'
<1> DEFINE p == holds[e.id].offering
           q == holds[e.id].quantity
<1>1. e.id \in ReservationIds /\ holds[e.id].status = "held"
  BY DEF TypeOK, EndRequest, Convert
<1>2. holds[e.id] \in Hold
  BY <1>1, HeldIsHold
<1>3. p \in Offerings /\ q \in Nat \ {0} /\ -q \in Int \ {0} /\ -(-q) = q
  BY <1>2 DEF Hold
<1>4. holds' = [holds EXCEPT ![e.id].status = "converted"] /\ "converted" \in Ends
  BY DEF Convert, Ends
<1>5. HeldUnits(o)' = IF p = o THEN HeldUnits(o) \ Units(e.id, q) ELSE HeldUnits(o)
  BY <1>1, <1>4, HoldEnded
<1>6. PICK m \in FreshMovementIds : AppendMovement(m, p, -q, "sale", "hold")
  BY DEF Convert
<1>7. /\ UnitsIn(o)' = UnitsIn(o)
      /\ UnitsOut(o)' = IF p = o THEN UnitsOut(o) \cup Units(m, q) ELSE UnitsOut(o)
      /\ UnitsWrittenOff(o)' = UnitsWrittenOff(o)
      /\ UnitsOut(o) \cap Units(m, q) = {}
  <2>1. ~(-q > 0) /\ -q < 0
    BY <1>3
  <2> HIDE DEF p, q
  <2> QED BY <1>3, <1>6, <2>1, MovementAppended
<1>8. /\ items'[o].onHand = items[o].onHand - (IF o = p THEN q ELSE 0)
      /\ items'[o].reserved = items[o].reserved - (IF o = p THEN q ELSE 0)
      /\ items[o].onHand \in Int /\ items[o].reserved \in Int
  BY <1>3 DEF Convert, Change, TypeOK, Item
<1>9. /\ Cardinality(UnitsWrittenOff(o)) \in Nat
      /\ Cardinality(UnitsIn(o)) \in Nat /\ Cardinality(UnitsOut(o)) \in Nat
  BY FS_CardinalityType DEF Counted, FiniteUnits
<1>10. CASE o = p
  <2>1. Units(e.id, q) \subseteq HeldUnits(o)
    BY <1>1, <1>10, HeldOfOffering
  <2>2. /\ IsFiniteSet(HeldUnits(o)')
        /\ Cardinality(HeldUnits(o)') = Cardinality(HeldUnits(o)) - q
    BY <1>3, <1>5, <1>10, <2>1, RemoveUnits DEF Counted, FiniteUnits
  <2>3. /\ IsFiniteSet(UnitsOut(o)')
        /\ Cardinality(UnitsOut(o)') = Cardinality(UnitsOut(o)) + q
    BY <1>3, <1>7, <1>10, AddUnits DEF Counted, FiniteUnits
  <2> QED BY <1>3, <1>7, <1>8, <1>9, <1>10, <2>2, <2>3
          DEF Counted, FiniteUnits, Availability
<1>11. CASE o # p
  BY <1>5, <1>7, <1>8, <1>11 DEF Counted, FiniteUnits, Availability
<1> QED BY <1>10, <1>11

(* A movement a vendor books or a restoration: only the shelf moves. *)
LEMMA MovementCounted ==
  ASSUME TypeOK, NEW m \in FreshMovementIds, NEW p \in Offerings,
         NEW q \in Int \ {0}, NEW reason, NEW by, AppendMovement(m, p, q, reason, by),
         q < 0 => by = "vendor",
         Change(p, q, 0), UNCHANGED holds, NEW o \in Offerings, Counted(o)
  PROVE  Counted(o)'
<1>1. HeldUnits(o)' = HeldUnits(o)
  BY SameHolds
<1>2. /\ items'[o].onHand = items[o].onHand + (IF o = p THEN q ELSE 0)
      /\ items'[o].reserved = items[o].reserved
      /\ items[o].onHand \in Int /\ items[o].reserved \in Int
  BY DEF Change, TypeOK, Item
<1>3. /\ UnitsIn(o)' = IF p = o /\ q > 0 THEN UnitsIn(o) \cup Units(m, q)
                                         ELSE UnitsIn(o)
      /\ UnitsOut(o)' = IF p = o /\ q < 0 THEN UnitsOut(o) \cup Units(m, -q)
                                          ELSE UnitsOut(o)
      /\ UnitsWrittenOff(o)' =
           IF p = o /\ q < 0 /\ by = "vendor"
             THEN UnitsWrittenOff(o) \cup Units(m, -q) ELSE UnitsWrittenOff(o)
      /\ UnitsIn(o) \cap Units(m, q) = {}
      /\ UnitsOut(o) \cap Units(m, -q) = {}
      /\ UnitsWrittenOff(o) \cap Units(m, -q) = {}
  BY MovementAppended
<1>4. /\ Cardinality(UnitsWrittenOff(o)) \in Nat
      /\ Cardinality(UnitsIn(o)) \in Nat /\ Cardinality(UnitsOut(o)) \in Nat
  BY FS_CardinalityType DEF Counted, FiniteUnits
<1>5. CASE o # p
  BY <1>1, <1>2, <1>3, <1>5 DEF Counted, FiniteUnits, Availability
<1>6. CASE o = p /\ q > 0
  <2>1. /\ IsFiniteSet(UnitsIn(o)')
        /\ Cardinality(UnitsIn(o)') = Cardinality(UnitsIn(o)) + q
    BY <1>3, <1>6, AddUnits DEF Counted, FiniteUnits
  <2> QED BY <1>1, <1>2, <1>3, <1>4, <1>6, <2>1 DEF Counted, FiniteUnits, Availability
<1>7. CASE o = p /\ q < 0
  <2> DEFINE n == -q
  <2>1. n \in Nat /\ q = -n
    BY <1>7
  <2>2. /\ UnitsIn(o)' = UnitsIn(o)
        /\ UnitsOut(o)' = UnitsOut(o) \cup Units(m, n)
        /\ UnitsWrittenOff(o)' = UnitsWrittenOff(o) \cup Units(m, n)
        /\ UnitsOut(o) \cap Units(m, n) = {}
        /\ UnitsWrittenOff(o) \cap Units(m, n) = {}
    BY <1>3, <1>7
  <2> HIDE DEF n
  <2>3. /\ IsFiniteSet(UnitsOut(o)')
        /\ Cardinality(UnitsOut(o)') = Cardinality(UnitsOut(o)) + n
    BY <2>1, <2>2, AddUnits DEF Counted, FiniteUnits
  <2>4. /\ IsFiniteSet(UnitsWrittenOff(o)')
        /\ Cardinality(UnitsWrittenOff(o)') = Cardinality(UnitsWrittenOff(o)) + n
    BY <2>1, <2>2, AddUnits DEF Counted, FiniteUnits
  <2> QED BY <1>1, <1>2, <1>4, <1>7, <2>1, <2>2, <2>3, <2>4
          DEF Counted, FiniteUnits, Availability
<1> QED BY <1>5, <1>6, <1>7

-----------------------------------------------------------------------------
(* The three safety properties of the counters *)

AllCounted == \A o \in Offerings : Counted(o)

LEMMA CountedInit == Init => AllCounted
<1> SUFFICES ASSUME Init, NEW o \in Offerings PROVE Counted(o)
  BY DEF AllCounted
<1>1. HeldUnits(o) = {} /\ UnitsIn(o) = {} /\ UnitsOut(o) = {} /\ UnitsWrittenOff(o) = {}
  BY DEF Init, HeldUnits, HeldOn, NoHold, None, UnitsIn, UnitsOut, UnitsWrittenOff,
         MovedIn, MovedOut
<1>2. IsFiniteSet({}) /\ Cardinality({}) = 0
  BY FS_EmptySet
<1>3. items[o].onHand = 0 /\ items[o].reserved = 0
  BY DEF Init
<1> QED BY <1>1, <1>2, <1>3 DEF Counted, FiniteUnits, Availability

LEMMA CountedStep == TypeOK /\ AllCounted /\ [Next]_vars => AllCounted'
<1> SUFFICES ASSUME TypeOK, AllCounted, [Next]_vars, NEW o \in Offerings
             PROVE  Counted(o)'
  BY DEF AllCounted
<1>0. Counted(o)
  BY DEF AllCounted
<1>1. ASSUME UNCHANGED <<items, movements>>, HeldUnits(o)' = HeldUnits(o)
      PROVE  Counted(o)'
  <2>1. /\ UnitsIn(o)' = UnitsIn(o) /\ UnitsOut(o)' = UnitsOut(o)
        /\ UnitsWrittenOff(o)' = UnitsWrittenOff(o)
    BY <1>1, SameMovements
  <2> QED BY <1>0, <1>1, <2>1 DEF Counted, FiniteUnits, Availability
<1>2. ASSUME NEW c \in TakeCommands, Take(c) PROVE Counted(o)'
  BY <1>0, <1>2, TakeCounted
<1>3. ASSUME NEW r \in ReservationIds, Expire(r) PROVE Counted(o)'
  <2>1. /\ holds[r] \in Hold /\ holds' = [holds EXCEPT ![r].expired = TRUE]
    BY <1>3, HeldIsHold DEF Expire
  <2>2. \A x \in ReservationIds : /\ holds'[x].status = holds[x].status
                                 /\ holds'[x].offering = holds[x].offering
                                 /\ holds'[x].quantity = holds[x].quantity
    BY <2>1 DEF TypeOK, Hold
  <2>3. HeldOn(o)' = HeldOn(o)
    BY <2>2 DEF HeldOn
  <2>4. HeldUnits(o)' = HeldUnits(o)
    BY <2>2, <2>3 DEF HeldUnits, HeldOn
  <2> QED BY <1>1, <1>3, <2>4 DEF Expire
<1>4. ASSUME NEW r \in ReservationIds, NEW to \in Ends, ReadHeld(r, to)
      PROVE  Counted(o)'
  BY <1>1, <1>4, SameHolds DEF ReadHeld
<1>5. ASSUME NEW e \in ending, Release(e) PROVE Counted(o)'
  BY <1>0, <1>5, ReleaseCounted
<1>6. ASSUME NEW e \in ending, Convert(e) PROVE Counted(o)'
  BY <1>0, <1>6, ConvertCounted
<1>7. ASSUME NEW e \in ending, NotHeld(e) \/ EndFails(e) PROVE Counted(o)'
  BY <1>1, <1>7, SameHolds DEF NotHeld, EndFails
<1>8. ASSUME NEW p \in Offerings, NEW q \in VendorQuantities,
             NEW reason \in VendorReasons, Record(p, q, reason)
      PROVE  Counted(o)'
  <2>1. q \in Int \ {0}
    BY <1>8, VendorAssumption DEF Record, IsConsistentMovement
  <2>2. PICK m \in FreshMovementIds : AppendMovement(m, p, q, reason, "vendor")
    BY <1>8 DEF Record
  <2>3. Change(p, q, 0) /\ UNCHANGED holds
    BY <1>8 DEF Record
  <2> QED BY <1>0, <2>1, <2>2, <2>3, MovementCounted
<1>9. ASSUME NEW c \in RestoreCommands, NEW cause \in {"cancellation", "return"},
             Restore(c, cause)
      PROVE  Counted(o)'
  <2> DEFINE p == OfferingOf[c]
             q == QuantityOf[c]
  <2>1. p \in Offerings /\ q \in Int \ {0} /\ ~(q < 0)
    BY CommandAssumption DEF Commands
  <2>2. PICK m \in FreshMovementIds : AppendMovement(m, p, q, cause, "restore")
    BY <1>9 DEF Restore
  <2>3. Change(p, q, 0) /\ UNCHANGED holds
    BY <1>9 DEF Restore
  <2> HIDE DEF p, q
  <2> QED BY <1>0, <2>1, <2>2, <2>3, MovementCounted
<1>10. CASE UNCHANGED vars
  BY <1>1, <1>10, SameHolds DEF vars
<1> QED
  BY <1>2, <1>3, <1>4, <1>5, <1>6, <1>7, <1>8, <1>9, <1>10
  DEF Next, FlowEnds, SweepFinds, Ends

LEMMA CountedAlways == Spec => []AllCounted
BY CountedInit, CountedStep, TypeCorrect, PTL DEF Spec

(* `reserved` is the sum of the live holds. *)
THEOREM ReservedIsHeldAlways == Spec => []ReservedIsHeld
<1>1. AllCounted => ReservedIsHeld
  BY DEF AllCounted, Counted, ReservedIsHeld
<1> QED BY <1>1, CountedAlways, PTL

(* The materialized total is the fold of the ledger. *)
THEOREM OnHandIsLedgerAlways == Spec => []OnHandIsLedger
<1>1. AllCounted => OnHandIsLedger
  BY DEF AllCounted, Counted, OnHandIsLedger
<1> QED BY <1>1, CountedAlways, PTL

(* Nothing is promised past the shelf but what a vendor wrote off. *)
THEOREM NoOversellAlways == Spec => []NoOversell
<1>1. AllCounted => NoOversell
  BY DEF AllCounted, Counted, NoOversell
<1> QED BY <1>1, CountedAlways, PTL

-----------------------------------------------------------------------------
(* Commands and what they were decided as *)

Given == {r \in ReservationIds : holds[r] # NoHold}

Restored == {m.id : m \in {n \in movements : n.by = "restore"}}

LEMMA MarkedHold ==
  ASSUME TypeOK, NEW r \in ReservationIds, holds[r].status = "held",
         \/ holds' = [holds EXCEPT ![r].expired = TRUE]
         \/ \E to \in Ends : holds' = [holds EXCEPT ![r].status = to]
  PROVE  Given' = Given
<1>1. holds[r] \in Hold /\ holds[r] # NoHold
  BY HeldIsHold DEF NoHold, None
<1>2. holds'[r] # NoHold /\ \A x \in ReservationIds \ {r} : holds'[x] = holds[x]
  BY <1>1 DEF TypeOK, Hold, NoHold, None, Ends
<1> QED BY <1>1, <1>2 DEF Given

LEMMA Appended ==
  ASSUME NEW id, NEW o, NEW q, NEW reason, NEW by, AppendMovement(id, o, q, reason, by)
  PROVE  Restored' = IF by = "restore" THEN Restored \cup {id} ELSE Restored
<1> DEFINE m == [id |-> id, offering |-> o, quantity |-> q, reason |-> reason, by |-> by]
<1>1. movements' = movements \cup {m} /\ m.id = id /\ m.by = by
  BY DEF AppendMovement
<1> HIDE DEF m
<1>2. {n \in movements' : n.by = "restore"} =
        {n \in movements : n.by = "restore"} \cup (IF by = "restore" THEN {m} ELSE {})
  BY <1>1
<1> QED BY <1>1, <1>2 DEF Restored

(* Nothing is decided anew: what commands were decided as is untouched.      *)
LEMMA NothingDecided ==
  ASSUME OneDecisionPerCommand, UNCHANGED claimed, Given' = Given, Restored' = Restored
  PROVE  OneDecisionPerCommand'
BY DEF OneDecisionPerCommand, Given, Restored

LEMMA DecisionStep == TypeOK /\ OneDecisionPerCommand /\ [Next]_vars => OneDecisionPerCommand'
<1> SUFFICES ASSUME TypeOK, OneDecisionPerCommand, [Next]_vars PROVE OneDecisionPerCommand'
  OBVIOUS
<1>1. /\ Given = {claimed[c] : c \in TakeCommands} \ {None}
      /\ Restored = {claimed[c] : c \in RestoreCommands} \ {None}
      /\ \A c, d \in Commands : claimed[c] = claimed[d] => c = d \/ claimed[c] = None
      /\ Given \subseteq ReservationIds /\ Restored \subseteq MovementIds
  BY DEF OneDecisionPerCommand, Given, Restored, TypeOK, Movement
<1>2. ASSUME UNCHANGED <<holds, movements, claimed>> PROVE OneDecisionPerCommand'
  BY <1>2, NothingDecided DEF Given, Restored
<1>3. ASSUME NEW c \in TakeCommands, Take(c) PROVE OneDecisionPerCommand'
  <2> DEFINE h == [status |-> "held", offering |-> OfferingOf[c],
                   quantity |-> QuantityOf[c], expired |-> FALSE]
  <2>1. PICK r \in ReservationIds : /\ holds[r] = NoHold
                                    /\ holds' = [holds EXCEPT ![r] = h]
                                    /\ claimed' = [claimed EXCEPT ![c] = r]
    BY <1>3 DEF Take
  <2>2. h # NoHold /\ claimed[c] = None /\ UNCHANGED movements
    BY <1>3 DEF Take, NoHold, None
  <2> HIDE DEF h
  <2>3. Given' = Given \cup {r} /\ Restored' = Restored
    BY <2>1, <2>2 DEF Given, Restored, TypeOK
  <2>4. \A d \in Commands : claimed'[d] = IF d = c THEN r ELSE claimed[d]
    BY <2>1 DEF TypeOK
  <2>5. r # None /\ \A d \in Commands : claimed[d] # r
    <3>1. r \notin Given /\ r \notin Restored /\ r # None
      BY <1>1, <2>1, IdAssumption DEF Given
    <3> QED BY <1>1, <3>1 DEF Commands
  <2>6. Given' = {claimed'[d] : d \in TakeCommands} \ {None}
    BY <1>1, <2>2, <2>3, <2>4, <2>5 DEF Commands
  <2>7. Restored' = {claimed'[d] : d \in RestoreCommands} \ {None}
    BY <1>1, <2>3, <2>4, CommandAssumption DEF Commands
  <2>8. \A d, e \in Commands : claimed'[d] = claimed'[e] => d = e \/ claimed'[d] = None
    BY <1>1, <2>4, <2>5
  <2> QED BY <2>6, <2>7, <2>8 DEF OneDecisionPerCommand, Given, Restored
<1>4. ASSUME NEW r \in ReservationIds, Expire(r) PROVE OneDecisionPerCommand'
  BY <1>4, MarkedHold, NothingDecided DEF Expire, Restored
<1>5. ASSUME NEW e \in ending, Release(e) PROVE OneDecisionPerCommand'
  <2>1. e.id \in ReservationIds /\ "released" \in Ends
    BY DEF TypeOK, EndRequest, Ends
  <2> QED BY <1>5, <2>1, MarkedHold, NothingDecided DEF Release, Restored
<1>6. ASSUME NEW e \in ending, Convert(e) PROVE OneDecisionPerCommand'
  <2>1. e.id \in ReservationIds /\ "converted" \in Ends
    BY DEF TypeOK, EndRequest, Ends
  <2>2. Given' = Given
    BY <1>6, <2>1, MarkedHold DEF Convert
  <2>3. Restored' = Restored
    <3>1. PICK m \in FreshMovementIds :
            AppendMovement(m, holds[e.id].offering, -holds[e.id].quantity, "sale", "hold")
      BY <1>6 DEF Convert
    <3> QED BY <3>1, Appended
  <2> QED BY <1>6, <2>2, <2>3, NothingDecided DEF Convert
<1>7. ASSUME NEW o \in Offerings, NEW q \in VendorQuantities, NEW reason \in VendorReasons,
             Record(o, q, reason)
      PROVE  OneDecisionPerCommand'
  <2>1. PICK m \in FreshMovementIds : AppendMovement(m, o, q, reason, "vendor")
    BY <1>7 DEF Record
  <2>2. Restored' = Restored
    BY <2>1, Appended
  <2> QED BY <1>7, <2>2, NothingDecided DEF Record, Given
<1>8. ASSUME NEW c \in RestoreCommands, NEW cause \in {"cancellation", "return"}, Restore(c, cause)
      PROVE  OneDecisionPerCommand'
  <2>1. PICK m \in FreshMovementIds :
          /\ AppendMovement(m, OfferingOf[c], QuantityOf[c], cause, "restore")
          /\ claimed' = [claimed EXCEPT ![c] = m]
    BY <1>8 DEF Restore
  <2>2. claimed[c] = None /\ UNCHANGED holds
    BY <1>8 DEF Restore
  <2>3. Given' = Given /\ Restored' = Restored \cup {m}
    BY <2>1, <2>2, Appended DEF Given
  <2>4. \A d \in Commands : claimed'[d] = IF d = c THEN m ELSE claimed[d]
    BY <2>1 DEF TypeOK
  <2>5. m # None /\ \A d \in Commands : claimed[d] # m
    <3>1. m \notin Given /\ m \notin Restored /\ m # None
      BY <1>1, <2>1, IdAssumption DEF Restored, FreshMovementIds
    <3> QED BY <1>1, <3>1 DEF Commands
  <2>6. Given' = {claimed'[d] : d \in TakeCommands} \ {None}
    BY <1>1, <2>3, <2>4, CommandAssumption DEF Commands
  <2>7. Restored' = {claimed'[d] : d \in RestoreCommands} \ {None}
    BY <1>1, <2>2, <2>3, <2>4, <2>5 DEF Commands
  <2>8. \A d, e \in Commands : claimed'[d] = claimed'[e] => d = e \/ claimed'[d] = None
    BY <1>1, <2>4, <2>5
  <2> QED BY <2>6, <2>7, <2>8 DEF OneDecisionPerCommand, Given, Restored
<1> QED
  BY <1>2, <1>3, <1>4, <1>5, <1>6, <1>7, <1>8
  DEF Next, FlowEnds, SweepFinds, ReadHeld, NotHeld, EndFails, vars, Ends

(* However often a reserve or a restore step is delivered, one hold or one   *)
(* movement comes of it.                                                     *)
THEOREM OneDecisionAlways == Spec => []OneDecisionPerCommand
<1>1. Init => OneDecisionPerCommand
  BY DEF Init, OneDecisionPerCommand, Commands
<1> QED BY <1>1, DecisionStep, TypeCorrect, PTL DEF Spec

-----------------------------------------------------------------------------
(* Announcements *)

Said(o) == {e \in outbox : e.offering = o}

SaidAll(o) ==
  /\ IsFiniteSet(Said(o))
  /\ {e.version : e \in Said(o)} = 1 .. items[o].version
  /\ Cardinality(Said(o)) = items[o].version
  /\ \A e \in Said(o) : e.version = items[o].version =>
       e.onHand = items[o].onHand /\ e.reserved = items[o].reserved

LEMMA ChangeSaid ==
  ASSUME TypeOK, \A p \in Offerings : SaidAll(p), NEW o \in Offerings, NEW x, NEW y,
         Change(o, x, y)
  PROVE  \A p \in Offerings : SaidAll(p)'
<1> DEFINE v == items[o].version
           a == items[o].onHand + x
           b == items[o].reserved + y
           e == [offering |-> o, version |-> v + 1, onHand |-> a, reserved |-> b]
<1>1. v \in Nat /\ items' = [items EXCEPT ![o] = [onHand |-> a, reserved |-> b, version |-> v + 1]]
      /\ outbox' = outbox \cup {e}
  BY DEF Change, TypeOK, Item
<1>2. e.offering = o /\ e.version = v + 1 /\ e.onHand = a /\ e.reserved = b
  OBVIOUS
<1>3. \A p \in Offerings : p # o => items'[p] = items[p]
  BY <1>1 DEF TypeOK
<1>4. items'[o].version = v + 1 /\ items'[o].onHand = a /\ items'[o].reserved = b
  BY <1>1 DEF TypeOK
<1> HIDE DEF e, a, b
<1>5. ASSUME NEW p \in Offerings, p # o PROVE SaidAll(p)'
  <2>1. Said(p)' = Said(p)
    BY <1>1, <1>2, <1>5 DEF Said
  <2> QED BY <1>3, <1>5, <2>1 DEF SaidAll
<1>6. SaidAll(o)'
  <2>1. Said(o)' = Said(o) \cup {e}
    BY <1>1, <1>2 DEF Said
  <2>2. \A f \in Said(o) : f.version \in 1 .. v
    BY DEF SaidAll
  <2>3. e \notin Said(o)
    BY <1>1, <1>2, <2>2
  <2>4. IsFiniteSet(Said(o)) /\ Cardinality(Said(o)) = v
    BY DEF SaidAll
  <2>5. IsFiniteSet(Said(o)') /\ Cardinality(Said(o)') = v + 1
    BY <2>1, <2>3, <2>4, FS_AddElement
  <2>6. {f.version : f \in Said(o)'} = 1 .. v + 1
    <3>1. {f.version : f \in Said(o)'} = {f.version : f \in Said(o)} \cup {v + 1}
      BY <1>2, <2>1
    <3>2. {f.version : f \in Said(o)} = 1 .. v
      BY DEF SaidAll
    <3> HIDE DEF v
    <3> QED BY <1>1, <3>1, <3>2
  <2>7. \A f \in Said(o)' : f.version = v + 1 => f = e
    BY <1>1, <2>1, <2>2
  <2> QED BY <1>2, <1>4, <2>5, <2>6, <2>7 DEF SaidAll
<1> QED BY <1>5, <1>6

LEMMA SaidStep ==
  TypeOK /\ (\A p \in Offerings : SaidAll(p)) /\ [Next]_vars => \A p \in Offerings : SaidAll(p)'
<1> SUFFICES ASSUME TypeOK, \A p \in Offerings : SaidAll(p), [Next]_vars
             PROVE  \A p \in Offerings : SaidAll(p)'
  OBVIOUS
<1>1. CASE UNCHANGED <<items, outbox>>
  BY <1>1 DEF SaidAll, Said
<1>2. CASE \E o \in Offerings, x, y \in Int : Change(o, x, y)
  BY <1>2, ChangeSaid
<1>3. ASSUME NEW c \in TakeCommands, Take(c) PROVE \E o \in Offerings, x, y \in Int : Change(o, x, y)
  <2>1. OfferingOf[c] \in Offerings /\ QuantityOf[c] \in Int /\ 0 \in Int
    BY CommandAssumption DEF Commands
  <2> QED BY <1>3, <2>1 DEF Take
<1>4. ASSUME NEW e \in ending, Release(e) \/ Convert(e)
      PROVE  \E o \in Offerings, x, y \in Int : Change(o, x, y)
  <2>1. e.id \in ReservationIds /\ holds[e.id].status = "held"
    BY <1>4 DEF TypeOK, EndRequest, Release, Convert
  <2>2. holds[e.id].offering \in Offerings /\ -holds[e.id].quantity \in Int /\ 0 \in Int
    BY <2>1, HeldIsHold DEF Hold
  <2> QED BY <1>4, <2>2 DEF Release, Convert
<1>5. ASSUME NEW o \in Offerings, NEW q \in VendorQuantities, NEW reason \in VendorReasons,
             Record(o, q, reason)
      PROVE  \E p \in Offerings, x, y \in Int : Change(p, x, y)
  <2>1. q \in Int /\ 0 \in Int
    BY VendorAssumption
  <2> QED BY <1>5, <2>1 DEF Record
<1>6. ASSUME NEW c \in RestoreCommands, NEW cause \in {"cancellation", "return"}, Restore(c, cause)
      PROVE  \E o \in Offerings, x, y \in Int : Change(o, x, y)
  <2>1. OfferingOf[c] \in Offerings /\ QuantityOf[c] \in Int /\ 0 \in Int
    BY CommandAssumption DEF Commands
  <2> QED BY <1>6, <2>1 DEF Restore
<1> QED
  BY <1>1, <1>2, <1>3, <1>4, <1>5, <1>6
  DEF Next, FlowEnds, SweepFinds, ReadHeld, Expire, NotHeld, EndFails, vars

(* Each version of an item is announced once, the newest as the item stands. *)
THEOREM EveryVersionAlways == Spec => []EveryVersionAnnounced
<1>1. Init => \A p \in Offerings : SaidAll(p)
  BY FS_EmptySet DEF Init, SaidAll, Said
<1>2. (\A p \in Offerings : SaidAll(p)) => EveryVersionAnnounced
  BY DEF SaidAll, Said, EveryVersionAnnounced
<1> DEFINE All == \A p \in Offerings : SaidAll(p)
<1>3. Spec => []All
  <2>1. Init => All
    BY <1>1
  <2>2. TypeOK /\ All /\ [Next]_vars => All'
    BY SaidStep
  <2> HIDE DEF All
  <2> QED BY <2>1, <2>2, TypeCorrect, PTL DEF Spec
<1>4. All => EveryVersionAnnounced
  BY <1>2
<1> HIDE DEF All
<1> QED BY <1>3, <1>4, PTL

-----------------------------------------------------------------------------
(* The ledger implements StockPromise *)

Free == [o \in Offerings |-> Availability(o)]

Promised == [r \in ReservationIds |-> PromiseOf(holds[r])]

LEMMA FreeMoved ==
  ASSUME TypeOK, NEW p \in Offerings, NEW x \in Int, NEW y \in Int, Change(p, x, y),
         NEW d, d = x - y
  PROVE  Free' = [Free EXCEPT ![p] = @ + d]
<1> SUFFICES ASSUME NEW o \in Offerings
             PROVE  Free'[o] = [Free EXCEPT ![p] = @ + d][o]
  BY DEF Free
<1> QED BY DEF Change, TypeOK, Item, Free, Availability

LEMMA PromiseEnds ==
  ASSUME TypeOK, NEW r \in ReservationIds, holds[r].status = "held",
         NEW to \in Ends, holds' = [holds EXCEPT ![r].status = to]
  PROVE  /\ Promised[r].status = "promised"
         /\ Promised[r].offering = holds[r].offering
         /\ Promised[r].quantity = holds[r].quantity
         /\ Promised' = [Promised EXCEPT ![r].status =
              IF to = "converted" THEN "kept" ELSE "withdrawn"]
<1>1. holds[r] \in Hold /\ holds[r] # NoHold
  BY HeldIsHold DEF NoHold, None
<1>2. PromiseOf(holds[r]) = [status |-> "promised", offering |-> holds[r].offering,
                             quantity |-> holds[r].quantity]
  BY <1>1 DEF PromiseOf
<1>3. holds'[r] = [holds[r] EXCEPT !.status = to] /\ holds'[r] # NoHold
  BY <1>1 DEF TypeOK, Hold, NoHold, None, Ends
<1>4. PromiseOf(holds'[r]) =
        [status |-> IF to = "converted" THEN "kept" ELSE "withdrawn",
         offering |-> holds[r].offering, quantity |-> holds[r].quantity]
  BY <1>1, <1>3 DEF PromiseOf, Hold, Ends
<1>5. \A x \in ReservationIds \ {r} : holds'[x] = holds[x]
  BY DEF TypeOK
<1> DEFINE w == IF to = "converted" THEN "kept" ELSE "withdrawn"
<1>6. Promised[r] = PromiseOf(holds[r])
  BY DEF Promised
<1>7. \A x \in ReservationIds : PromiseOf(holds'[x]) =
        IF x = r THEN [Promised[r] EXCEPT !.status = w] ELSE PromiseOf(holds[x])
  BY <1>2, <1>4, <1>5, <1>6
<1>8. Promised' = [Promised EXCEPT ![r].status = w]
  BY <1>7 DEF Promised
<1> QED BY <1>2, <1>6, <1>8

(* Every behaviour of the ledger is a behaviour of the abstract stock. *)
THEOREM LedgerImplementsPromise == Spec => ImplementsPromise
<1>1. Init => Promise!Init
  BY DEF Init, Promise!Init, Promise!Unmade, PromiseOf, NoHold, Availability
<1>2. TypeOK /\ [Next]_vars => [Promise!Next]_(Promise!vars)
  <2> SUFFICES ASSUME TypeOK, [Next]_vars PROVE [Promise!Next]_(Promise!vars)
    OBVIOUS
  <2>1. ASSUME UNCHANGED <<items, holds>> PROVE [Promise!Next]_(Promise!vars)
    BY <2>1 DEF Promise!vars, Availability, PromiseOf
  <2>2. ASSUME NEW c \in TakeCommands, Take(c) PROVE Promise!Next
    <3> DEFINE p == OfferingOf[c]
               q == QuantityOf[c]
               h == [status |-> "held", offering |-> p, quantity |-> q,
                     expired |-> FALSE]
    <3>1. p \in Offerings /\ q \in Nat \ {0}
      BY CommandAssumption DEF Commands
    <3>2. PICK r \in ReservationIds : holds[r] = NoHold /\ holds' = [holds EXCEPT ![r] = h]
      BY <2>2 DEF Take
    <3>3. Promised[r] = Promise!Unmade
      BY <3>2 DEF Promised, PromiseOf, Promise!Unmade
    <3>4. PromiseOf(h) = Promise!Made("promised", p, q)
      BY DEF PromiseOf, Promise!Made, NoHold, None
    <3>5. Promised' = [Promised EXCEPT ![r] = Promise!Made("promised", p, q)]
      BY <3>2, <3>4 DEF Promised, TypeOK
    <3>6. q <= Free[p]
      BY <2>2, <3>1 DEF Take, Free, Availability, TypeOK, Item
    <3>7. Free' = [Free EXCEPT ![p] = @ - q]
      BY <2>2, <3>1 DEF Take, Change, TypeOK, Item, Free, Availability
    <3>8. Promise!Make(r, p, q)
      BY <3>3, <3>5, <3>6, <3>7 DEF Promise!Make, Free, Promised
    <3> QED BY <3>1, <3>8 DEF Promise!Next
  <2>3. ASSUME NEW r \in ReservationIds, Expire(r) PROVE UNCHANGED Promise!vars
    <3>1. holds[r] \in Hold /\ holds' = [holds EXCEPT ![r].expired = TRUE]
      BY <2>3, HeldIsHold DEF Expire
    <3>2. PromiseOf(holds'[r]) = PromiseOf(holds[r])
      BY <3>1 DEF PromiseOf, TypeOK, Hold, NoHold, None
    <3>3. \A x \in ReservationIds : PromiseOf(holds'[x]) = PromiseOf(holds[x])
      BY <3>1, <3>2 DEF TypeOK
    <3> QED BY <2>3, <3>3 DEF Expire, Promise!vars, Availability
  <2>4. ASSUME NEW e \in ending, Release(e) PROVE Promise!Next
    <3>1. e.id \in ReservationIds /\ holds[e.id].status = "held" /\ "released" \in Ends
      BY <2>4 DEF TypeOK, EndRequest, Release, Ends
    <3>2. holds[e.id].offering \in Offerings /\ holds[e.id].quantity \in Nat
      BY <3>1, HeldIsHold DEF Hold
    <3>3. /\ Promised[e.id].status = "promised"
          /\ Promised[e.id].offering = holds[e.id].offering
          /\ Promised[e.id].quantity = holds[e.id].quantity
          /\ Promised' = [Promised EXCEPT ![e.id].status = "withdrawn"]
      BY <2>4, <3>1, PromiseEnds DEF Release
    <3>4. Free' = [Free EXCEPT ![holds[e.id].offering] = @ + holds[e.id].quantity]
      <4>1. /\ Change(holds[e.id].offering, 0, -holds[e.id].quantity)
            /\ 0 \in Int /\ -holds[e.id].quantity \in Int
            /\ holds[e.id].quantity = 0 - (-holds[e.id].quantity)
        BY <2>4, <3>2 DEF Release
      <4> QED BY <3>2, <4>1, FreeMoved
    <3>5. Promise!Withdraw(e.id)
      BY <3>3, <3>4 DEF Promise!Withdraw, Free, Promised
    <3> QED BY <3>1, <3>5 DEF Promise!Next
  <2>5. ASSUME NEW e \in ending, Convert(e) PROVE Promise!Next
    <3>1. e.id \in ReservationIds /\ holds[e.id].status = "held" /\ "converted" \in Ends
      BY <2>5 DEF TypeOK, EndRequest, Convert, Ends
    <3>2. holds[e.id].offering \in Offerings /\ holds[e.id].quantity \in Nat
      BY <3>1, HeldIsHold DEF Hold
    <3>3. /\ Promised[e.id].status = "promised"
          /\ Promised' = [Promised EXCEPT ![e.id].status = "kept"]
      BY <2>5, <3>1, PromiseEnds DEF Convert
    <3>4. Free' = Free
      BY <2>5, <3>2 DEF Convert, Change, TypeOK, Item, Free, Availability
    <3>5. Promise!Keep(e.id)
      BY <3>3, <3>4 DEF Promise!Keep, Free, Promised
    <3> QED BY <3>1, <3>5 DEF Promise!Next
  <2>6. ASSUME NEW o \in Offerings, NEW q \in VendorQuantities,
               NEW reason \in VendorReasons, Record(o, q, reason)
        PROVE  Promise!Next
    <3>1. q \in Int
      BY VendorAssumption
    <3>2. Free' = [Free EXCEPT ![o] = @ + q] /\ UNCHANGED holds
      <4>1. Change(o, q, 0) /\ 0 \in Int /\ q = q - 0 /\ UNCHANGED holds
        BY <2>6, <3>1 DEF Record
      <4> QED BY <3>1, <4>1, FreeMoved
    <3>3. Promise!Supply(o, q)
      BY <3>2 DEF Promise!Supply, Free, PromiseOf
    <3> QED BY <3>3 DEF Promise!Next
  <2>7. ASSUME NEW c \in RestoreCommands, NEW cause \in {"cancellation", "return"},
               Restore(c, cause)
        PROVE  Promise!Next
    <3> DEFINE o == OfferingOf[c]
               q == QuantityOf[c]
    <3>1. o \in Offerings /\ q \in Int
      BY CommandAssumption DEF Commands
    <3>2. Free' = [Free EXCEPT ![o] = @ + q] /\ UNCHANGED holds
      <4>1. Change(o, q, 0) /\ 0 \in Int /\ q = q - 0 /\ UNCHANGED holds
        BY <2>7, <3>1 DEF Restore
      <4> QED BY <3>1, <4>1, FreeMoved
    <3>3. Promise!Supply(o, q)
      BY <3>2 DEF Promise!Supply, Free, PromiseOf
    <3> QED BY <3>1, <3>3 DEF Promise!Next
  <2>8. ASSUME NEW r \in ReservationIds, NEW to \in Ends, ReadHeld(r, to)
        PROVE  [Promise!Next]_(Promise!vars)
    BY <2>1, <2>8 DEF ReadHeld
  <2>9. ASSUME NEW e \in ending, NotHeld(e) \/ EndFails(e)
        PROVE  [Promise!Next]_(Promise!vars)
    BY <2>1, <2>9 DEF NotHeld, EndFails
  <2>10. CASE UNCHANGED vars
    BY <2>1, <2>10 DEF vars
  <2> QED
    BY <2>2, <2>3, <2>4, <2>5, <2>6, <2>7, <2>8, <2>9, <2>10
    DEF Next, FlowEnds, SweepFinds, Ends
<1> QED BY <1>1, <1>2, TypeCorrect, PTL DEF Spec, ImplementsPromise, Promise!Spec
=============================================================================
