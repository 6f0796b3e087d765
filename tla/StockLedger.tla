----------------------------- MODULE StockLedger -----------------------------
(***************************************************************************)
(* The stock ledger of one organization (stock-ledger.ts): the counters    *)
(* of each offering, the holds taken on them, the append-only movements    *)
(* that explain them, the commands already claimed and the changes         *)
(* announced.  A unit of work is one Mongo transaction, hence one action;  *)
(* ending a hold is two, because it reads the hold before its unit runs.   *)
(* Organizations have separate databases and never meet.  Quantities are   *)
(* whole numbers of the smallest amount a vendor sells.                    *)
(***************************************************************************)
EXTENDS Integers, FiniteSets

CONSTANTS
  Offerings,        \* what the organization sells
  ReservationIds,   \* ids a hold may be given (random in the code)
  MovementIds,      \* ids a movement may be given; bounds the ledger's length
  TakeCommands,     \* idempotency keys of the reserve steps
  RestoreCommands,  \* idempotency keys of the restore steps
  OfferingOf,       \* command -> the offering its body names
  QuantityOf,       \* command -> the quantity its body names
  VendorQuantities, \* the signed quantities a vendor's own movement may carry
  VendorReasons     \* the reasons a vendor books it under

Commands == TakeCommands \cup RestoreCommands

(* isReservableQuantity and isConsistentMovement refuse anything else before *)
(* the ledger is reached.                                                    *)
ASSUME CommandAssumption ==
  /\ TakeCommands \cap RestoreCommands = {}
  /\ OfferingOf \in [Commands -> Offerings]
  /\ QuantityOf \in [Commands -> Nat \ {0}]

None == "none"

ASSUME IdAssumption ==
  None \notin ReservationIds \cup MovementIds /\ ReservationIds \cap MovementIds = {}

VARIABLES
  items,      \* offering -> its counters and version (0: no item yet)
  holds,      \* reservation id -> the reservation stored under it
  movements,  \* the append-only ledger
  claimed,    \* command -> the id its first decision remembered, or None
  ending,     \* end requests between their read and their unit of work
  outbox      \* every change announced

vars == <<items, holds, movements, claimed, ending, outbox>>

-----------------------------------------------------------------------------
(* Entities *)

Ends == {"released", "converted"}

NoHold == [status |-> None]

Hold == [status : {"held"} \cup Ends, offering : Offerings,
         quantity : Nat \ {0}, expired : BOOLEAN]

Reasons == {"receipt", "sale", "cancellation", "return", "adjustment"}

ASSUME VendorAssumption ==
  VendorQuantities \subseteq Int /\ VendorReasons \subseteq Reasons

Movement == [id : MovementIds, offering : Offerings, quantity : Int \ {0},
             reason : Reasons, by : {"vendor", "hold", "restore"}]

Event == [offering : Offerings, version : Nat, onHand : Int, reserved : Int]

Item == [onHand : Int, reserved : Int, version : Nat]

EndRequest == [id : ReservationIds, to : Ends]

(* A bug in the next definition: a movement of nothing is let through. *)
IsConsistentMovementZero(reason, q) ==
  /\ reason \in {"receipt", "cancellation", "return"} => q >= 0
  /\ reason = "sale" => q <= 0

(* movement-direction.ts: the reason carries the direction. *)
IsConsistentMovement(reason, q) ==
  /\ q # 0
  /\ reason \in {"receipt", "cancellation", "return"} => q > 0
  /\ reason = "sale" => q < 0

(* Every row is one the ledger's schema allows: no movement of nothing, no  *)
(* hold of nothing, no version below zero.                                  *)
TypeOK ==
  /\ items \in [Offerings -> Item]
  /\ holds \in [ReservationIds -> Hold \cup {NoHold}]
  /\ movements \in SUBSET Movement
  /\ claimed \in [Commands -> ReservationIds \cup MovementIds \cup {None}]
  /\ ending \in SUBSET EndRequest
  /\ outbox \in SUBSET Event

Init ==
  /\ items = [o \in Offerings |-> [onHand |-> 0, reserved |-> 0, version |-> 0]]
  /\ holds = [r \in ReservationIds |-> NoHold]
  /\ movements = {}
  /\ claimed = [c \in Commands |-> None]
  /\ ending = {}
  /\ outbox = {}

-----------------------------------------------------------------------------
(* The two writes every operation is made of *)

(* A bug in the next definition: only a move of `onHand` bumps the version. *)
ChangeQuietHold(o, onHand, reserved) ==
  LET now == [onHand   |-> items[o].onHand + onHand,
              reserved |-> items[o].reserved + reserved,
              version  |-> items[o].version + IF onHand = 0 THEN 0 ELSE 1]
  IN  /\ items' = [items EXCEPT ![o] = now]
      /\ outbox' = outbox \cup
           {[offering |-> o, version |-> now.version,
             onHand |-> now.onHand, reserved |-> now.reserved]}

(* `change`: the counters move, the version goes up by one, and the change  *)
(* is announced at that version in the same unit.                           *)
Change(o, onHand, reserved) ==
  LET now == [onHand   |-> items[o].onHand + onHand,
              reserved |-> items[o].reserved + reserved,
              version  |-> items[o].version + 1]
  IN  /\ items' = [items EXCEPT ![o] = now]
      /\ outbox' = outbox \cup
           {[offering |-> o, version |-> now.version,
             onHand |-> now.onHand, reserved |-> now.reserved]}

FreshMovementIds == MovementIds \ {m.id : m \in movements}

AppendMovement(id, o, q, reason, by) ==
  movements' = movements \cup
    {[id |-> id, offering |-> o, quantity |-> q, reason |-> reason, by |-> by]}

-----------------------------------------------------------------------------
(* Taking a hold *)

(* A bug in the next definition: what others hold is not taken off first. *)
TakeOnHand(c) ==
  LET o == OfferingOf[c]
      q == QuantityOf[c]
  IN  /\ claimed[c] = None
      /\ items[o].version > 0
      /\ items[o].onHand >= q
      /\ \E r \in ReservationIds :
           /\ holds[r] = NoHold
           /\ holds' = [holds EXCEPT ![r] =
                [status |-> "held", offering |-> o, quantity |-> q,
                 expired |-> FALSE]]
           /\ claimed' = [claimed EXCEPT ![c] = r]
      /\ Change(o, 0, q)
      /\ UNCHANGED <<movements, ending>>

(* A bug in the next definition: a redelivered command takes a second hold. *)
TakeUnclaimed(c) ==
  LET o == OfferingOf[c]
      q == QuantityOf[c]
  IN  /\ items[o].version > 0
      /\ items[o].onHand - items[o].reserved >= q
      /\ \E r \in ReservationIds :
           /\ holds[r] = NoHold
           /\ holds' = [holds EXCEPT ![r] =
                [status |-> "held", offering |-> o, quantity |-> q,
                 expired |-> FALSE]]
           /\ claimed' = [claimed EXCEPT ![c] = r]
      /\ Change(o, 0, q)
      /\ UNCHANGED <<movements, ending>>

(* `take`, committed: enough is free, the item exists, and the command was   *)
(* never decided.                                                            *)
Take(c) ==
  LET o == OfferingOf[c]
      q == QuantityOf[c]
  IN  /\ claimed[c] = None
      /\ items[o].version > 0
      /\ items[o].onHand - items[o].reserved >= q
      /\ \E r \in ReservationIds :
           /\ holds[r] = NoHold
           /\ holds' = [holds EXCEPT ![r] =
                [status |-> "held", offering |-> o, quantity |-> q,
                 expired |-> FALSE]]
           /\ claimed' = [claimed EXCEPT ![c] = r]
      /\ Change(o, 0, q)
      /\ UNCHANGED <<movements, ending>>

(* Refused (the unit aborts and the claim with it) or replayed: neither     *)
(* writes anything, so neither is a step.                                   *)

(* The hold's `expiresAt` passes. *)
Expire(r) ==
  /\ holds[r].status = "held"
  /\ ~holds[r].expired
  /\ holds' = [holds EXCEPT ![r].expired = TRUE]
  /\ UNCHANGED <<items, movements, claimed, ending, outbox>>

-----------------------------------------------------------------------------
(* Ending a hold *)

(* `endHold`, its first read: `held` or answered 'not-held' at once. *)
ReadHeld(r, to) ==
  /\ holds[r].status = "held"
  /\ ending' = ending \cup {[id |-> r, to |-> to]}
  /\ UNCHANGED <<items, holds, movements, claimed, outbox>>

(* A conversion or a compensation, dispatched at least once by a flow. *)
FlowEnds(r, to) == ReadHeld(r, to)

(* A bug in the next definition: the bound is an ISO string, which Mongo     *)
(* never orders against a stored date, so the sweep matches no hold.         *)
SweepFindsString(r) ==
  /\ holds[r].status = "held"
  /\ FALSE
  /\ ReadHeld(r, "released")

(* `releaseExpired` finds a hold past its expiry and ends it. *)
SweepFinds(r) ==
  /\ holds[r].status = "held"
  /\ holds[r].expired
  /\ ReadHeld(r, "released")

(* Bugs in the next definitions: the unit trusts the read made before it, or *)
(* a conversion gives the hold back and leaves the goods on the shelf.       *)
ReleaseUnchecked(e) ==
  /\ e.to = "released"
  /\ holds' = [holds EXCEPT ![e.id].status = "released"]
  /\ Change(holds[e.id].offering, 0, -holds[e.id].quantity)
  /\ ending' = ending \ {e}
  /\ UNCHANGED <<movements, claimed>>

ConvertUnchecked(e) ==
  /\ e.to = "converted"
  /\ holds' = [holds EXCEPT ![e.id].status = "converted"]
  /\ \E m \in FreshMovementIds :
       AppendMovement(m, holds[e.id].offering, -holds[e.id].quantity, "sale", "hold")
  /\ Change(holds[e.id].offering, -holds[e.id].quantity, -holds[e.id].quantity)
  /\ ending' = ending \ {e}
  /\ UNCHANGED claimed

ConvertOnShelf(e) ==
  /\ e.to = "converted"
  /\ holds[e.id].status = "held"
  /\ holds' = [holds EXCEPT ![e.id].status = "converted"]
  /\ \E m \in FreshMovementIds :
       AppendMovement(m, holds[e.id].offering, -holds[e.id].quantity, "sale", "hold")
  /\ Change(holds[e.id].offering, 0, -holds[e.id].quantity)
  /\ ending' = ending \ {e}
  /\ UNCHANGED claimed

(* The unit of `endHold`, conditional on `held` once more. *)
Release(e) ==
  /\ e.to = "released"
  /\ holds[e.id].status = "held"
  /\ holds' = [holds EXCEPT ![e.id].status = "released"]
  /\ Change(holds[e.id].offering, 0, -holds[e.id].quantity)
  /\ ending' = ending \ {e}
  /\ UNCHANGED <<movements, claimed>>

Convert(e) ==
  /\ e.to = "converted"
  /\ holds[e.id].status = "held"
  /\ holds' = [holds EXCEPT ![e.id].status = "converted"]
  /\ \E m \in FreshMovementIds :
       AppendMovement(m, holds[e.id].offering, -holds[e.id].quantity, "sale", "hold")
  /\ Change(holds[e.id].offering, -holds[e.id].quantity, -holds[e.id].quantity)
  /\ ending' = ending \ {e}
  /\ UNCHANGED claimed

(* The unit matched nothing: a rival ended the hold first. *)
NotHeld(e) ==
  /\ holds[e.id].status # "held"
  /\ ending' = ending \ {e}
  /\ UNCHANGED <<items, holds, movements, claimed, outbox>>

(* The store fails or the process dies before the unit commits. *)
EndFails(e) ==
  /\ ending' = ending \ {e}
  /\ UNCHANGED <<items, holds, movements, claimed, outbox>>

-----------------------------------------------------------------------------
(* Movements *)

(* `record`: a vendor's receipt, count or write-off, claimed by nothing; the *)
(* item is created by its first movement.                                    *)
Record(o, q, reason) ==
  /\ IsConsistentMovement(reason, q)
  /\ \E m \in FreshMovementIds : AppendMovement(m, o, q, reason, "vendor")
  /\ Change(o, q, 0)
  /\ UNCHANGED <<holds, claimed, ending>>

(* `restore`: a cancelled or returned line goes back, once per command. *)
Restore(c, cause) ==
  LET o == OfferingOf[c]
      q == QuantityOf[c]
  IN  /\ claimed[c] = None
      /\ IsConsistentMovement(cause, q)
      /\ \E m \in FreshMovementIds :
           /\ AppendMovement(m, o, q, cause, "restore")
           /\ claimed' = [claimed EXCEPT ![c] = m]
      /\ Change(o, q, 0)
      /\ UNCHANGED <<holds, ending>>

-----------------------------------------------------------------------------
Next ==
  \/ \E c \in TakeCommands : Take(c)
  \/ \E r \in ReservationIds : Expire(r) \/ SweepFinds(r)
  \/ \E r \in ReservationIds, to \in Ends : FlowEnds(r, to)
  \/ \E e \in ending : Release(e) \/ Convert(e) \/ NotHeld(e) \/ EndFails(e)
  \/ \E o \in Offerings, q \in VendorQuantities, reason \in VendorReasons :
       Record(o, q, reason)
  \/ \E c \in RestoreCommands, cause \in {"cancellation", "return"} :
       Restore(c, cause)

Spec == Init /\ [][Next]_vars

(* The sweep runs every 30 seconds for as long as the process lives and one  *)
(* pass that fails is followed by the next; the store does not fail every    *)
(* release of one hold for ever.                                             *)
Fairness ==
  \A r \in ReservationIds :
    /\ WF_vars(SweepFinds(r))
    /\ LET e == [id |-> r, to |-> "released"]
       IN  SF_vars(e \in ending /\ Release(e))

FairSpec == Spec /\ Fairness

-----------------------------------------------------------------------------
(* Properties *)

(* A quantity as a set of that many units, so that a sum over holds or       *)
(* movements is the size of a disjoint union.                                *)
Units(id, n) == {id} \X (1 .. n)

HeldOn(o) == {r \in ReservationIds :
                holds[r].status = "held" /\ holds[r].offering = o}

HeldUnits(o) == UNION {Units(r, holds[r].quantity) : r \in HeldOn(o)}

MovedIn(o) == {m \in movements : m.offering = o /\ m.quantity > 0}

MovedOut(o) == {m \in movements : m.offering = o /\ m.quantity < 0}

UnitsIn(o) == UNION {Units(m.id, m.quantity) : m \in MovedIn(o)}

UnitsOut(o) == UNION {Units(m.id, -m.quantity) : m \in MovedOut(o)}

(* What a vendor booked out by hand, past every hold. *)
UnitsWrittenOff(o) ==
  UNION {Units(m.id, -m.quantity) : m \in {n \in MovedOut(o) : n.by = "vendor"}}

Availability(o) == items[o].onHand - items[o].reserved

(* `reserved` is the sum of the live holds, however takes, conversions,      *)
(* compensations, redeliveries and the sweep interleave: nothing is promised *)
(* for ever and nothing is given back twice.                                 *)
ReservedIsHeld ==
  \A o \in Offerings : items[o].reserved = Cardinality(HeldUnits(o))

(* stock-item.rules.ts, isReconciled: the materialized total is always the   *)
(* fold of the ledger.                                                       *)
OnHandIsLedger ==
  \A o \in Offerings :
    items[o].onHand = Cardinality(UnitsIn(o)) - Cardinality(UnitsOut(o))

(* More is promised than is on the shelf only by as much as a vendor booked  *)
(* out by hand: no order of takes and endings oversells.                     *)
NoOversell ==
  \A o \in Offerings :
    Availability(o) + Cardinality(UnitsWrittenOff(o)) >= 0

(* However often a reserve or a restore step is delivered, one hold or one   *)
(* movement comes of it, and it is the one a redelivery is answered with.    *)
OneDecisionPerCommand ==
  /\ {r \in ReservationIds : holds[r] # NoHold}
       = {claimed[c] : c \in TakeCommands} \ {None}
  /\ {m.id : m \in {n \in movements : n.by = "restore"}}
       = {claimed[c] : c \in RestoreCommands} \ {None}
  /\ \A c, d \in Commands : claimed[c] = claimed[d] => c = d \/ claimed[c] = None

(* Each version of an item is announced once, and the newest announcement    *)
(* is the item as it stands: a consumer that keeps the highest version it    *)
(* saw converges, in whatever order announcements arrive.                    *)
EveryVersionAnnounced ==
  \A o \in Offerings :
    LET said == {e \in outbox : e.offering = o}
    IN  /\ {e.version : e \in said} = 1 .. items[o].version
        /\ Cardinality(said) = items[o].version
        /\ \A e \in said : e.version = items[o].version =>
             e.onHand = items[o].onHand /\ e.reserved = items[o].reserved

(* An abandoned basket does not promise a vendor's stock for ever.           *)
ExpiredHoldEnds ==
  \A r \in ReservationIds :
    (holds[r].status = "held" /\ holds[r].expired) ~> holds[r].status \in Ends

-----------------------------------------------------------------------------
(* The two counters implement one amount that is free. *)

PromiseOf(h) ==
  IF h = NoHold THEN [status |-> "unmade"]
  ELSE [status |-> CASE h.status = "held"      -> "promised"
                     [] h.status = "converted" -> "kept"
                     [] h.status = "released"  -> "withdrawn",
        offering |-> h.offering, quantity |-> h.quantity]

Promise == INSTANCE StockPromise WITH
  Promises <- ReservationIds,
  Sizes    <- {QuantityOf[c] : c \in TakeCommands},
  Supplies <- VendorQuantities \cup {QuantityOf[c] : c \in RestoreCommands},
  free     <- [o \in Offerings |-> Availability(o)],
  promise  <- [r \in ReservationIds |-> PromiseOf(holds[r])]

(* Every behaviour of the ledger is one of the abstract stock: holds are     *)
(* promises, each made from what is free and then kept or withdrawn once.    *)
ImplementsPromise == Promise!Spec
=============================================================================
