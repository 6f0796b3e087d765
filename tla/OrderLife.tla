------------------------------ MODULE OrderLife ------------------------------
(***************************************************************************)
(* What one vendor's order promises everybody who looks at it: a place in  *)
(* a line of standings, and a lock that a cancellation takes on top of the *)
(* standing and that leaves it exactly as it was when it is let go.  While *)
(* it is locked an order does not move.  Its end as cancelled is told once *)
(* and after its placing was.  ProductOrder implements it.                 *)
(***************************************************************************)
EXTENDS Naturals

CONSTANT Orders

VARIABLES
  stand,   \* order -> its standing
  locked,  \* order -> whether a cancellation holds it
  told     \* order -> how many announcements were made of it

vars == <<stand, locked, told>>

Init ==
  /\ stand = [o \in Orders |-> "unplaced"]
  /\ locked = [o \in Orders |-> FALSE]
  /\ told = [o \in Orders |-> 0]

(* One move along the line, of an order nobody holds. *)
Goes(o, from, to) ==
  /\ ~locked[o]
  /\ stand[o] \in from
  /\ stand' = [stand EXCEPT ![o] = to]
  /\ UNCHANGED locked

Place(o) ==
  Goes(o, {"unplaced"}, "pending") /\ told' = [told EXCEPT ![o] = @ + 1]

Advance(o) ==
  /\ \/ Goes(o, {"pending"}, "paid")
     \/ Goes(o, {"pending", "paid"}, "confirmed")
     \/ Goes(o, {"confirmed"}, "dispatched")
     \/ Goes(o, {"dispatched"}, "fulfilled")
  /\ UNCHANGED told

(* A parcel refused or returned. *)
ComeBack(o) ==
  Goes(o, {"dispatched"}, "cancelled") /\ told' = [told EXCEPT ![o] = @ + 1]

Lock(o) ==
  /\ ~locked[o]
  /\ stand[o] \in {"paid", "confirmed"}
  /\ locked' = [locked EXCEPT ![o] = TRUE]
  /\ UNCHANGED <<stand, told>>

Unlock(o) ==
  /\ locked[o]
  /\ locked' = [locked EXCEPT ![o] = FALSE]
  /\ UNCHANGED <<stand, told>>

Cancel(o) ==
  /\ locked[o]
  /\ stand' = [stand EXCEPT ![o] = "cancelled"]
  /\ locked' = [locked EXCEPT ![o] = FALSE]
  /\ told' = [told EXCEPT ![o] = @ + 1]

(* A step that should not have happened is undone, and nothing is said. *)
Undo(o) ==
  /\ stand[o] # "unplaced"
  /\ stand' = [stand EXCEPT ![o] = "undone"]
  /\ locked' = [locked EXCEPT ![o] = FALSE]
  /\ UNCHANGED told

Next ==
  \E o \in Orders :
    \/ Place(o) \/ Advance(o) \/ ComeBack(o)
    \/ Lock(o) \/ Unlock(o) \/ Cancel(o) \/ Undo(o)

Spec == Init /\ [][Next]_vars
=============================================================================
