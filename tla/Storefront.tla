------------------------------ MODULE Storefront ------------------------------
(***************************************************************************)
(* A buyer's browser and the checkouts it starts (shells/next/marketplace, *)
(* lib/cart): tabs that share one cookie jar, server actions that read the *)
(* jar when they begin and write it when they answer, the flow's events on *)
(* their way to the status projection and to the push stream, and the page *)
(* that puts the two together.  A flow is named by the idempotency key it  *)
(* was started under: the engine registers the key, so one names the other.*)
(***************************************************************************)
EXTENDS Naturals

CONSTANTS
  Keys,         \* idempotency keys, and the flows they start
  Tabs,         \* tabs of the one browser
  TicketsLapse  \* whether a page may stay open past the ticket's half hour

ASSUME TicketsLapseIsBoolean == TicketsLapse \in BOOLEAN

None == "none"

ASSUME NoneIsNoKey == None \notin Keys

VARIABLES
  flow,       \* key -> how the flow started under it stands
  announced,  \* flow events on the bus
  status,     \* key -> the projected record of the flow
  pushed,     \* events the push stream has carried
  early,      \* flows whose end was pushed before it was projected
  jar,        \* the browser's cookies
  posted,     \* keys a start was sent under
  page        \* tab -> what it shows, and its call under way

vars == <<flow, announced, status, pushed, early, jar, posted, page>>

-----------------------------------------------------------------------------
(* Flows and their events *)

(* FLOW_EVENT_STATES, as far as a page tells them apart: it waits on a flow  *)
(* that is suspended or parked as on one that runs.                          *)
States == {"running", "completed", "failed"}

Ended == {"completed", "failed"}

(* The version of an event is the ordinal of the step it was announced at.   *)
Ordinal == [running |-> 1, completed |-> 2, failed |-> 2]

Event == [flow : Keys, state : States]

Unread == [state |-> None, version |-> 0]

(* What a status read means for a checkout waiting to settle. *)
SettleDecision(state) ==
  IF state \in Ended THEN state ELSE "pending"

-----------------------------------------------------------------------------
(* Pages *)

Places == {"cart", "submitting", "waiting", "failed", "receipt", "expired"}

(* `caughtUp`: the read made on mount was answered.  `heard`: a settle is    *)
(* due.  `settling`: how far the one under way is.  `lost`: a push or a read *)
(* this page needed failed it.                                               *)
Page == [at : Places, flow : Keys \cup {None}, caughtUp : BOOLEAN, heard : BOOLEAN,
         settling : {"no", "reading", "answering"}, lost : BOOLEAN]

At(place, k) ==
  [at |-> place, flow |-> k, caughtUp |-> FALSE, heard |-> FALSE,
   settling |-> "no", lost |-> FALSE]

(* The order-status page of a flow, from the cookies alone. *)
Rendered(k, cookies) ==
  CASE cookies.receipt = k -> At("receipt", k)
    [] cookies.receipt # k /\ cookies.ticket = k -> At("waiting", k)
    [] OTHER -> At("expired", k)

Shows(t, p) == page' = [page EXCEPT ![t] = p]

-----------------------------------------------------------------------------
(* The cookies name flows that were started, the projection has read only    *)
(* what was announced, and a settle under way has read a completed flow      *)
(* before it answers.                                                        *)
TypeOK ==
  /\ flow \in [Keys -> States \cup {None}]
  /\ announced \subseteq Event /\ pushed \subseteq announced
  /\ \A e \in announced : flow[e.flow] # None
  /\ early \subseteq Keys
  /\ jar \in [ticket : Keys \cup {None}, receipt : Keys \cup {None}, cart : BOOLEAN]
  /\ jar.ticket # None => flow[jar.ticket] # None
  /\ status \in [Keys -> [state : States \cup {None}, version : 0 .. 2]]
  /\ \A k \in Keys :
       \/ status[k] = Unread
       \/ /\ [flow |-> k, state |-> status[k].state] \in announced
          /\ status[k].version = Ordinal[status[k].state]
  /\ {k \in Keys : flow[k] # None} \subseteq posted /\ posted \subseteq Keys
  /\ page \in [Tabs -> Page]
  /\ \A t \in Tabs : page[t].settling = "answering" => status[page[t].flow].state = "completed"

Init ==
  /\ flow = [k \in Keys |-> None]
  /\ announced = {}
  /\ status = [k \in Keys |-> Unread]
  /\ pushed = {}
  /\ early = {}
  /\ jar = [ticket |-> None, receipt |-> None, cart |-> TRUE]
  /\ posted = {}
  /\ page = [t \in Tabs |-> At("cart", None)]

-----------------------------------------------------------------------------
(* The flow, as its participants take it *)

Announce(k, state) ==
  /\ flow' = [flow EXCEPT ![k] = state]
  /\ announced' = announced \cup {[flow |-> k, state |-> state]}

(* The start endpoint: a repeated key answers the flow it began before.      *)
Start(k) ==
  /\ k \in posted
  /\ flow[k] = None
  /\ Announce(k, "running")
  /\ UNCHANGED <<status, pushed, early, jar, posted, page>>

End(k, state) ==
  /\ flow[k] = "running"
  /\ Announce(k, state)
  /\ UNCHANGED <<status, pushed, early, jar, posted, page>>

-----------------------------------------------------------------------------
(* The two readers of its events *)

(* A bug in the next definition: each message is written as it comes. *)
ApplyAny(e) ==
  /\ e \in announced
  /\ status' = [status EXCEPT ![e.flow] =
       [state |-> e.state, version |-> Ordinal[e.state]]]
  /\ UNCHANGED <<flow, announced, pushed, early, jar, posted, page>>

(* The projection: late, again and in any order; an older version changes    *)
(* nothing.                                                                  *)
Apply(e) ==
  /\ e \in announced
  /\ status[e.flow].version < Ordinal[e.state]
  /\ status' = [status EXCEPT ![e.flow] =
       [state |-> e.state, version |-> Ordinal[e.state]]]
  /\ UNCHANGED <<flow, announced, pushed, early, jar, posted, page>>

(* What a waiting page does with the push: a completed flow is settled, a    *)
(* failed one is shown as such.  A connection that is down loses it.         *)
OnSettled(p, e) ==
  IF p.at # "waiting" \/ p.flow # e.flow THEN {p}
  ELSE {[p EXCEPT !.lost = TRUE],
        IF e.state = "completed" THEN [p EXCEPT !.heard = TRUE] ELSE At("failed", e.flow)}

(* The stream: an end is carried once, to whoever is there to hear it. *)
Push(e) ==
  /\ e \in announced \ pushed /\ e.state \in Ended
  /\ pushed' = pushed \cup {e}
  /\ early' = IF status[e.flow].state = e.state THEN early ELSE early \cup {e.flow}
  /\ page' \in {p \in [Tabs -> UNION {OnSettled(page[t], e) : t \in Tabs}] :
                  \A t \in Tabs : p[t] \in OnSettled(page[t], e)}
  /\ UNCHANGED <<flow, announced, status, jar, posted>>

-----------------------------------------------------------------------------
(* Starting a checkout *)

Fill ==
  /\ ~jar.cart
  /\ jar' = [jar EXCEPT !.cart = TRUE]
  /\ UNCHANGED <<flow, announced, status, pushed, early, posted, page>>

Submits(t, k) ==
  /\ Shows(t, At("submitting", k))
  /\ posted' = posted \cup {k}

(* A checkout from the cart: a fresh key, whatever an earlier one came to.   *)
Checkout(t) ==
  /\ page[t].at = "cart"
  /\ jar.cart
  /\ \E k \in Keys \ posted : Submits(t, k)
  /\ UNCHANGED <<flow, announced, status, pushed, early, jar>>

(* The failed page's form: the key of the ticket in the jar, or a fresh one; *)
(* an empty cart is sent back to the cart page.                              *)
Retry(t) ==
  /\ page[t].at = "failed"
  /\ IF ~jar.cart
     THEN Shows(t, At("cart", None)) /\ UNCHANGED posted
     ELSE \E k \in IF jar.ticket # None THEN {jar.ticket} ELSE Keys \ posted :
            Submits(t, k)
  /\ UNCHANGED <<flow, announced, status, pushed, early, jar>>

(* A bug in the next definition: the ticket is kept before it is known that  *)
(* anything was started.                                                     *)
AcceptedEarly(t) ==
  /\ page[t].at = "submitting"
  /\ jar' = [jar EXCEPT !.ticket = page[t].flow]
  /\ Shows(t, Rendered(page[t].flow, jar'))
  /\ UNCHANGED <<flow, announced, status, pushed, early, posted>>

(* The 202: the ticket is written over whatever ticket there is, and the     *)
(* buyer is taken to the flow's page.                                        *)
Accepted(t) ==
  /\ page[t].at = "submitting"
  /\ flow[page[t].flow] # None
  /\ jar' = [jar EXCEPT !.ticket = page[t].flow]
  /\ Shows(t, Rendered(page[t].flow, jar'))
  /\ UNCHANGED <<flow, announced, status, pushed, early, posted>>

(* Refused, out of reach, or the answer lost: the cart page says it could    *)
(* not be started, and cannot tell.                                          *)
NotAccepted(t) ==
  /\ page[t].at = "submitting"
  /\ Shows(t, At("cart", None))
  /\ UNCHANGED <<flow, announced, status, pushed, early, jar, posted>>

-----------------------------------------------------------------------------
(* The order-status page *)

Waits(t) == page[t].at = "waiting"

(* A bug in the next definition: the page listens, and reads nothing when it *)
(* opens.                                                                    *)
CatchUpNothing(t) ==
  /\ Waits(t) /\ ~page[t].caughtUp
  /\ Shows(t, [page[t] EXCEPT !.caughtUp = TRUE])
  /\ UNCHANGED <<flow, announced, status, pushed, early, jar, posted>>

(* The read made once, on mount. *)
CatchUp(t) ==
  /\ Waits(t) /\ ~page[t].caughtUp
  /\ LET p == [page[t] EXCEPT !.caughtUp = TRUE]
         state == status[p.flow].state
     IN  \/ Shows(t, [p EXCEPT !.lost = TRUE])
         \/ Shows(t, CASE state = "completed" -> [p EXCEPT !.heard = TRUE]
                       [] state = "failed"    -> At("failed", p.flow)
                       [] OTHER               -> p)
  /\ UNCHANGED <<flow, announced, status, pushed, early, jar, posted>>

(* settleCheckout, as far as the cookies decide it. *)
Settle(t) ==
  /\ Waits(t) /\ page[t].heard /\ page[t].settling = "no"
  /\ LET k == page[t].flow
     IN  Shows(t, CASE jar.receipt = k -> Rendered(k, jar)
                    [] jar.receipt # k /\ jar.ticket # k -> At("failed", k)
                    [] OTHER -> [page[t] EXCEPT !.heard = FALSE, !.settling = "reading"])
  /\ UNCHANGED <<flow, announced, status, pushed, early, jar, posted>>

(* Its reads: the flow's status, then the receipt of a completed one.  Told  *)
(* to wait, the page does, and asks no more.                                 *)
SettleReads(t) ==
  /\ page[t].settling = "reading"
  /\ LET k == page[t].flow
         decided == SettleDecision(status[k].state)
     IN  \/ /\ decided = "completed"
            /\ Shows(t, [page[t] EXCEPT !.settling = "answering"])
         \/ /\ decided = "failed"
            /\ Shows(t, At("failed", k))
         \/ /\ decided = "pending"
            /\ Shows(t, [page[t] EXCEPT !.settling = "no"])
         \/ Shows(t, [page[t] EXCEPT !.settling = "no", !.lost = TRUE])
  /\ UNCHANGED <<flow, announced, status, pushed, early, jar, posted>>

(* A bug in the next definition: the receipt is of the checkout the jar      *)
(* names when the reads are done.                                            *)
SettleAnswersTicket(t) ==
  /\ page[t].settling = "answering"
  /\ jar' = [ticket |-> None, receipt |-> jar.ticket, cart |-> FALSE]
  /\ Shows(t, Rendered(page[t].flow, jar'))
  /\ UNCHANGED <<flow, announced, status, pushed, early, posted>>

(* Its answer: the receipt in; the cart and the ticket out, whatever they    *)
(* hold by now.                                                              *)
SettleAnswers(t) ==
  /\ page[t].settling = "answering"
  /\ jar' = [ticket |-> None, receipt |-> page[t].flow, cart |-> FALSE]
  /\ Shows(t, Rendered(page[t].flow, jar'))
  /\ UNCHANGED <<flow, announced, status, pushed, early, posted>>

(* The buyer loads a flow's page again, or goes back to the cart. *)
Reload(t) ==
  /\ page[t].at \in {"waiting", "failed", "receipt", "expired"} /\ page[t].settling = "no"
  /\ Shows(t, Rendered(page[t].flow, jar)) \/ Shows(t, At("cart", None))
  /\ UNCHANGED <<flow, announced, status, pushed, early, jar, posted>>

TicketLapses ==
  /\ TicketsLapse /\ jar.ticket # None
  /\ jar' = [jar EXCEPT !.ticket = None]
  /\ UNCHANGED <<flow, announced, status, pushed, early, posted, page>>

-----------------------------------------------------------------------------
FlowMoves ==
  \E k \in Keys : Start(k) \/ \E state \in Ended : End(k, state)

Buyer == Fill \/ \E t \in Tabs : Checkout(t) \/ Retry(t) \/ Reload(t)

Browser ==
  \E t \in Tabs : Accepted(t) \/ CatchUp(t) \/ Settle(t) \/ SettleReads(t) \/ SettleAnswers(t)

Next ==
  \/ FlowMoves \/ Buyer \/ Browser
  \/ \E e \in announced : Apply(e) \/ Push(e)
  \/ \E t \in Tabs : NotAccepted(t)
  \/ TicketLapses

Spec == Init /\ [][Next]_vars

(* Both consumers of the bus are retried until they take a message, and a    *)
(* page's own calls come back.  The buyer owes nothing.                      *)
Fairness ==
  /\ \A e \in Event : WF_vars(Apply(e)) /\ WF_vars(Push(e))
  /\ \A t \in Tabs :
       WF_vars(CatchUp(t)) /\ WF_vars(Settle(t)) /\ WF_vars(SettleReads(t))
         /\ WF_vars(SettleAnswers(t))

FairSpec == Spec /\ Fairness

-----------------------------------------------------------------------------
(* Properties *)

(* However late and in whatever order its events are read, a flow's status   *)
(* never goes back from an end, and never forward to what is older.          *)
StatusNeverGoesBack ==
  [][\A k \in Keys :
       /\ status[k].state \in Ended => status'[k].state = status[k].state
       /\ status'[k].state # status[k].state => status'[k].version > status[k].version]_status

(* A receipt is only ever of a flow that completed, whatever the tabs, late  *)
(* pushes and overwritten tickets made of the cookies: no buyer holds a      *)
(* receipt for a checkout that charged nothing; and the page that says an    *)
(* order could not be placed is wrong only where another checkout, or the    *)
(* half hour, has taken its ticket.                                          *)
PagesAreTrue ==
  /\ jar.receipt # None => flow[jar.receipt] = "completed"
  /\ \A t \in Tabs :
       /\ page[t].at = "receipt" => flow[page[t].flow] = "completed"
       /\ (page[t].at = "failed" /\ flow[page[t].flow] # "failed") =>
            \/ posted # {page[t].flow}
            \/ jar.ticket = None /\ jar.receipt # page[t].flow

(* The words of the failed page: "nothing was charged". *)
FailedWasNotCharged ==
  \A t \in Tabs : page[t].at = "failed" => flow[page[t].flow] # "completed"

Stuck(t) == Waits(t) /\ flow[page[t].flow] \in Ended

(* Left alone, a page that waits for a flow learns of its end, whether the   *)
(* flow ended before the page opened, as it did or long after, except where  *)
(* a message failed it, or the end was pushed before it was projected.       *)
PagesLearn ==
  \A t \in Tabs :
    \/ []<><<Reload(t) \/ Retry(t)>>_vars
    \/ <>[](Stuck(t) => page[t].lost \/ page[t].flow \in early)
=============================================================================
