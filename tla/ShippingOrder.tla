---------------------------- MODULE ShippingOrder ----------------------------
(***************************************************************************)
(* The shipment store of one organization (shipping-order-store.ts): one   *)
(* shipment per vendor order, under the order's own id, and the moves the  *)
(* flows and the vendor ask of it, each one conditional write in a unit of *)
(* work.  Flow steps carry a command and are claimed; a vendor's report    *)
(* carries none.                                                           *)
(***************************************************************************)
EXTENDS Naturals, Sequences

CONSTANTS
  Shipments,     \* shipment ids, which are vendor orders' ids
  ShipCommands   \* idempotency keys of the flows' steps

None == "none"

VARIABLES
  shipments,    \* shipment -> its status and the stamps its moves wrote
  shipClaimed,  \* the commands the store's units claimed
  reports       \* shipment -> what was announced of it, in order

-----------------------------------------------------------------------------
Statuses == {"awaiting_dispatch", "held", "dispatched", "delivered", "refused",
             "returned", "withdrawn"}

(* A bug in the next definition: a held parcel may still leave. *)
AfterDispatchHeld ==
  [hold            |-> [awaiting_dispatch |-> "held"],
   release         |-> [held |-> "awaiting_dispatch"],
   withdraw        |-> [awaiting_dispatch |-> "withdrawn", held |-> "withdrawn"],
   dispatch        |-> [awaiting_dispatch |-> "dispatched", held |-> "dispatched"],
   record_delivery |-> [dispatched |-> "delivered"],
   record_refusal  |-> [dispatched |-> "refused"],
   record_return   |-> [refused |-> "returned"]]

(* shipping-transition.ts *)
After ==
  [hold            |-> [awaiting_dispatch |-> "held"],
   release         |-> [held |-> "awaiting_dispatch"],
   withdraw        |-> [awaiting_dispatch |-> "withdrawn", held |-> "withdrawn"],
   dispatch        |-> [awaiting_dispatch |-> "dispatched"],
   record_delivery |-> [dispatched |-> "delivered"],
   record_refusal  |-> [dispatched |-> "refused"],
   record_return   |-> [refused |-> "returned"]]

FlowMoves == {"hold", "release", "withdraw", "dispatch"}

CourierReports == {"record_delivery", "record_refusal", "record_return"}

Announced == CourierReports \cup {"dispatch"}

(* Statuses of a parcel that left. *)
Gone == {"dispatched", "delivered", "refused", "returned"}

Unopened == [status |-> None, stamps |-> {}]

(* Every shipment has a listed status and stamps, and is announced under    *)
(* the versions of its moves.                                               *)
TypeOK ==
  /\ shipments \in [Shipments -> [status : Statuses \cup {None},
                                  stamps : SUBSET Announced]]
  /\ shipClaimed \in SUBSET ShipCommands
  /\ reports \in [Shipments -> Seq([move : Announced, version : 1 .. 3])]

Init ==
  /\ shipments = [s \in Shipments |-> Unopened]
  /\ shipClaimed = {}
  /\ reports = [s \in Shipments |-> <<>>]

(* A bug in the next definition: each verb is given a version of its own. *)
VersionByVerb(move) ==
  CASE move = "dispatch" -> 1 [] move = "record_delivery" -> 2
    [] move = "record_refusal" -> 3 [] move = "record_return" -> 3

(* A shipment's life is linear, so each announced move is a version. *)
Version(move) ==
  CASE move = "dispatch"                               -> 1
    [] move \in {"record_delivery", "record_refusal"}  -> 2
    [] move = "record_return"                          -> 3

-----------------------------------------------------------------------------
(* `open`, committed: the second insert of one id would break the key. *)
Open(s, c) ==
  /\ c \notin shipClaimed
  /\ shipments[s] = Unopened
  /\ shipments' = [shipments EXCEPT ![s].status = "awaiting_dispatch"]
  /\ shipClaimed' = shipClaimed \cup {c}
  /\ UNCHANGED reports

CanMove(s, move) == shipments[s].status \in DOMAIN After[move]

(* One conditional write: status, stamp and announcement together. *)
Transition(s, move) ==
  /\ CanMove(s, move)
  /\ shipments' = [shipments EXCEPT
       ![s] = [status |-> After[move][@.status],
               stamps |-> @.stamps \cup ({move} \cap Announced)]]
  /\ reports' = IF move \in Announced
                THEN [reports EXCEPT ![s] =
                        Append(@, [move |-> move, version |-> Version(move)])]
                ELSE reports

(* A flow's step, claimed on its command. *)
FlowMove(s, move, c) ==
  /\ c \notin shipClaimed
  /\ Transition(s, move)
  /\ shipClaimed' = shipClaimed \cup {c}

(* The vendor records what the courier said. *)
CourierReport(s, move) ==
  /\ Transition(s, move)
  /\ UNCHANGED shipClaimed

-----------------------------------------------------------------------------
(* Properties *)

(* A parcel's announcements carry the versions 1, 2, 3 in the order they are *)
(* made, whoever moved it and however often.                                 *)
VersionsFollow ==
  \A s \in Shipments :
    \A i \in 1 .. Len(reports[s]) : reports[s][i].version = i
=============================================================================
