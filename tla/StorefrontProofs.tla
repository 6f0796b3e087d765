--------------------------- MODULE StorefrontProofs ---------------------------
(***************************************************************************)
(* Theorems about Storefront, for any keys, any number of tabs and tickets *)
(* that lapse or do not.                                                   *)
(***************************************************************************)
EXTENDS Storefront, TLAPS

-----------------------------------------------------------------------------
(* The inductive invariant *)

(* An end was announced by the flow that came to it. *)
EndsAreTrue ==
  \A e \in announced : e.state \in Ended => flow[e.flow] = e.state

PageStands(p) ==
  /\ p \in Page
  /\ p.at = "cart" => p.flow = None
  /\ p.at # "cart" => p.flow \in posted
  /\ p.settling # "no" => p.at = "waiting"
  /\ p.settling = "answering" => status[p.flow].state = "completed"
  /\ p.at = "receipt" => flow[p.flow] = "completed"

FailedStands(p) ==
  (p.at = "failed" /\ flow[p.flow] # "failed") =>
     \/ posted # {p.flow}
     \/ jar.ticket = None /\ jar.receipt # p.flow

(* While there has been one checkout only, one tab at most is about it. *)
OneTab ==
  \A t, u \in Tabs :
    (posted = {page[t].flow} /\ page[u].flow = page[t].flow) => t = u

SiteInv ==
  /\ TypeOK /\ EndsAreTrue /\ OneTab
  /\ jar.receipt # None => flow[jar.receipt] = "completed"
  /\ \A t \in Tabs : PageStands(page[t]) /\ FailedStands(page[t])

-----------------------------------------------------------------------------
LEMMA InitInv == Init => SiteInv
<1> SUFFICES ASSUME Init PROVE SiteInv
  OBVIOUS
<1> DEFINE p == At("cart", None)
<1>1. p \in Page /\ p.at = "cart" /\ p.flow = None /\ p.settling = "no"
  BY DEF At, Page, Places
<1>2. \A t \in Tabs : page[t] = p
  BY DEF Init
<1>3. page \in [Tabs -> Page]
  BY <1>1 DEF Init
<1> HIDE DEF p
<1>4. TypeOK
  <2>1. status \in [Keys -> [state : States \cup {None}, version : 0 .. 2]]
    BY DEF Init, Unread
  <2>2. /\ flow \in [Keys -> States \cup {None}] /\ announced = {} /\ pushed = {} /\ early = {}
        /\ jar \in [ticket : Keys \cup {None}, receipt : Keys \cup {None}, cart : BOOLEAN]
        /\ jar.ticket = None /\ posted = {} /\ {k \in Keys : flow[k] # None} = {}
        /\ \A k \in Keys : status[k] = Unread
    BY DEF Init
  <2> QED BY <1>1, <1>2, <1>3, <2>1, <2>2 DEF TypeOK
<1>5. \A t \in Tabs : PageStands(page[t]) /\ FailedStands(page[t])
  BY <1>1, <1>2 DEF PageStands, FailedStands
<1>6. EndsAreTrue /\ OneTab /\ jar.receipt = None
  BY DEF Init, EndsAreTrue, OneTab
<1> QED BY <1>4, <1>5, <1>6 DEF SiteInv

(* What makes a page stand does not go away. *)
LEMMA PageKept ==
  ASSUME NEW p, PageStands(p), posted \subseteq posted',
         \A k \in Keys : status[k].state = "completed" => status'[k].state = "completed",
         \A k \in Keys : flow[k] = "completed" => flow'[k] = "completed",
         posted \subseteq Keys
  PROVE  PageStands(p)'
BY DEF PageStands

LEMMA FailedKept ==
  ASSUME NEW p, FailedStands(p), UNCHANGED <<posted, jar>>,
         flow[p.flow] = "failed" => flow'[p.flow] = "failed"
  PROVE  FailedStands(p)'
BY DEF FailedStands

(* An end that was read is the flow's. *)
LEMMA ReadIsTrue ==
  ASSUME SiteInv, NEW k \in Keys, status[k].state \in Ended
  PROVE  flow[k] = status[k].state
<1>1. status[k] # Unread
  BY DEF Unread, Ended, None
<1>2. [flow |-> k, state |-> status[k].state] \in announced
  BY <1>1 DEF SiteInv, TypeOK
<1> QED BY <1>2 DEF SiteInv, EndsAreTrue

-----------------------------------------------------------------------------
(* The flow and the two readers of its events *)

LEMMA AnnounceInv ==
  ASSUME SiteInv, NEW k \in Keys, NEW state \in States, Announce(k, state),
         flow[k] \notin Ended, k \in posted,
         UNCHANGED <<status, pushed, early, jar, posted, page>>
  PROVE  SiteInv'
<1> DEFINE e == [flow |-> k, state |-> state]
<1>1. flow' = [flow EXCEPT ![k] = state] /\ announced' = announced \cup {e}
  BY DEF Announce
<1>2. e \in Event /\ state # None
  BY DEF Event, States, None
<1>3. \A j \in Keys : flow'[j] = IF j = k THEN state ELSE flow[j]
  BY <1>1 DEF SiteInv, TypeOK
<1>4. \A j \in Keys : flow[j] \in Ended => flow'[j] = flow[j]
  BY <1>3
<1>5. e.flow = k /\ e.state = state
  OBVIOUS
<1> HIDE DEF e
<1>6. \A f \in announced : f.flow \in Keys
  BY DEF SiteInv, TypeOK, Event
<1>7. EndsAreTrue'
  BY <1>1, <1>3, <1>4, <1>5, <1>6 DEF SiteInv, EndsAreTrue
<1>8. OneTab'
  BY DEF SiteInv, OneTab
<1>9. /\ jar'.receipt # None => flow'[jar'.receipt] = "completed"
      /\ jar'.ticket # None => flow'[jar'.ticket] # None
  BY <1>2, <1>3, <1>4 DEF SiteInv, TypeOK, Ended
<1>10. TypeOK'
  <2>1. flow' \in [Keys -> States \cup {None}]
    BY <1>1 DEF SiteInv, TypeOK
  <2>2. announced' \subseteq Event /\ pushed' \subseteq announced'
    BY <1>1, <1>2 DEF SiteInv, TypeOK
  <2>3. \A f \in announced' : flow'[f.flow] # None
    BY <1>1, <1>2, <1>3, <1>5, <1>6 DEF SiteInv, TypeOK
  <2>4. {j \in Keys : flow'[j] # None} \subseteq posted'
    BY <1>3 DEF SiteInv, TypeOK
  <2>5. announced \subseteq announced'
    BY <1>1
  <2> QED BY <1>9, <2>1, <2>2, <2>3, <2>4, <2>5 DEF SiteInv, TypeOK
<1>11. ASSUME NEW t \in Tabs PROVE PageStands(page[t])' /\ FailedStands(page[t])'
  <2>1. PageStands(page[t]) /\ FailedStands(page[t]) /\ posted \subseteq Keys
    BY DEF SiteInv, TypeOK
  <2>2. PageStands(page[t])'
    BY <1>4, <2>1 DEF PageStands, Ended
  <2>3. FailedStands(page[t])'
    BY <1>4, <2>1 DEF PageStands, FailedStands, Ended
  <2> QED BY <2>2, <2>3
<1> QED BY <1>7, <1>8, <1>9, <1>10, <1>11 DEF SiteInv

LEMMA ApplyInv ==
  ASSUME SiteInv, NEW e \in announced, Apply(e)
  PROVE  SiteInv'
<1>1. e.flow \in Keys /\ e.state \in States /\ e = [flow |-> e.flow, state |-> e.state]
  BY DEF SiteInv, TypeOK, Event
<1>2. /\ status[e.flow].version < Ordinal[e.state]
      /\ status' = [status EXCEPT ![e.flow] = [state |-> e.state, version |-> Ordinal[e.state]]]
      /\ UNCHANGED <<flow, announced, pushed, early, jar, posted, page>>
  BY DEF Apply
<1>3. \A k \in Keys :
        status'[k] = IF k = e.flow THEN [state |-> e.state, version |-> Ordinal[e.state]]
                                   ELSE status[k]
  BY <1>2 DEF SiteInv, TypeOK
<1>4. Ordinal[e.state] \in 0 .. 2 /\ Ordinal[e.state] <= 2
  BY <1>1 DEF States, Ordinal
<1>5. \A k \in Keys : status[k].state \in Ended => status'[k] = status[k]
  <2> SUFFICES ASSUME NEW k \in Keys, status[k].state \in Ended PROVE status'[k] = status[k]
    OBVIOUS
  <2>1. status[k].version = 2
    <3>1. status[k] # Unread
      BY DEF Unread, Ended, None
    <3>2. status[k].version = Ordinal[status[k].state]
      BY <3>1 DEF SiteInv, TypeOK
    <3> QED BY <3>2 DEF Ordinal, Ended
  <2> QED BY <1>2, <1>3, <1>4, <2>1
<1>6. TypeOK'
  <2>1. status' \in [Keys -> [state : States \cup {None}, version : 0 .. 2]]
    BY <1>1, <1>2, <1>4 DEF SiteInv, TypeOK
  <2>2. \A k \in Keys :
          \/ status'[k] = Unread
          \/ /\ [flow |-> k, state |-> status'[k].state] \in announced
             /\ status'[k].version = Ordinal[status'[k].state]
    BY <1>1, <1>3 DEF SiteInv, TypeOK
  <2>3. \A t \in Tabs :
          page[t].settling = "answering" => status'[page[t].flow].state = "completed"
    <3> SUFFICES ASSUME NEW t \in Tabs, page[t].settling = "answering"
                 PROVE  status'[page[t].flow].state = "completed"
      OBVIOUS
    <3>1. page[t].flow \in Keys /\ status[page[t].flow].state = "completed"
      BY DEF SiteInv, TypeOK, PageStands
    <3> QED BY <1>5, <3>1 DEF Ended
  <2> QED BY <1>2, <2>1, <2>2, <2>3 DEF SiteInv, TypeOK
<1>7. ASSUME NEW t \in Tabs PROVE PageStands(page[t])' /\ FailedStands(page[t])'
  <2>1. PageStands(page[t]) /\ FailedStands(page[t]) /\ posted \subseteq Keys
    BY DEF SiteInv, TypeOK
  <2>2. PageStands(page[t])'
    BY <1>2, <1>5, <2>1 DEF PageStands, Ended
  <2> QED BY <1>2, <2>1, <2>2 DEF FailedStands
<1> QED BY <1>2, <1>6, <1>7 DEF SiteInv, EndsAreTrue, OneTab

-----------------------------------------------------------------------------
(* What a page does *)

JarStands ==
  /\ jar \in [ticket : Keys \cup {None}, receipt : Keys \cup {None}, cart : BOOLEAN]
  /\ jar.ticket # None => flow[jar.ticket] # None
  /\ jar.receipt # None => flow[jar.receipt] = "completed"

LEMMA PageStep ==
  ASSUME SiteInv, NEW t \in Tabs, NEW p, Shows(t, p),
         UNCHANGED <<flow, announced, status, pushed, early>>,
         posted \subseteq posted', posted' \subseteq Keys, JarStands',
         PageStands(p)', FailedStands(p)', OneTab',
         \A u \in Tabs \ {t} : FailedStands(page[u])'
  PROVE  SiteInv'
<1>1. page \in [Tabs -> Page] /\ page' = [page EXCEPT ![t] = p] /\ p \in Page
  BY DEF SiteInv, TypeOK, Shows, PageStands
<1>2. \A u \in Tabs : page'[u] = IF u = t THEN p ELSE page[u]
  BY <1>1
<1>3. ASSUME NEW u \in Tabs PROVE PageStands(page[u])' /\ FailedStands(page[u])'
  <2>1. CASE u = t
    BY <1>2, <2>1 DEF PageStands, FailedStands
  <2>2. CASE u # t
    <3>1. page'[u] = page[u] /\ PageStands(page[u]) /\ FailedStands(page[u])'
      BY <1>2, <2>2 DEF SiteInv
    <3> QED BY <3>1 DEF PageStands
  <2> QED BY <2>1, <2>2
<1>4. TypeOK'
  <2>1. page' \in [Tabs -> Page]
    BY <1>1
  <2>2. \A u \in Tabs :
          page'[u].settling = "answering" => status'[page'[u].flow].state = "completed"
    BY <1>3 DEF PageStands
  <2> QED BY <2>1, <2>2 DEF SiteInv, TypeOK, JarStands
<1> QED BY <1>3, <1>4 DEF SiteInv, EndsAreTrue, JarStands

LEMMA JarNow ==
  ASSUME SiteInv
  PROVE  JarStands /\ posted \subseteq Keys
BY DEF SiteInv, TypeOK, JarStands

(* A page that stays with its flow, or goes back to the cart. *)
LEMMA PageStays ==
  ASSUME SiteInv, NEW t \in Tabs, NEW p, Shows(t, p),
         UNCHANGED <<flow, announced, status, pushed, early, jar, posted>>,
         PageStands(p), FailedStands(p), p.flow \in {page[t].flow, None}
  PROVE  SiteInv'
<1>1. \A u \in Tabs : page'[u] = IF u = t THEN p ELSE page[u]
  BY DEF SiteInv, TypeOK, Shows
<1>2. PageStands(p)' /\ FailedStands(p)' /\ JarStands' /\ posted' \subseteq Keys
  BY JarNow DEF PageStands, FailedStands, JarStands
<1>3. \A u \in Tabs \ {t} : FailedStands(page[u])'
  BY <1>1 DEF SiteInv, FailedStands
<1>4. OneTab'
  BY <1>1, JarNow, NoneIsNoKey DEF SiteInv, OneTab
<1> QED BY <1>2, <1>3, <1>4, PageStep

(* A page that stays with its flow and writes the jar. *)
LEMMA PageWrites ==
  ASSUME SiteInv, NEW t \in Tabs, NEW p, Shows(t, p),
         UNCHANGED <<flow, announced, status, pushed, early, posted>>, JarStands',
         PageStands(p), p.at # "failed", p.flow = page[t].flow, page[t].flow \in posted
  PROVE  SiteInv'
<1>1. \A u \in Tabs : page'[u] = IF u = t THEN p ELSE page[u]
  BY DEF SiteInv, TypeOK, Shows
<1>2. PageStands(p)' /\ FailedStands(p)' /\ posted' \subseteq Keys
  BY JarNow DEF PageStands, FailedStands
<1>3. OneTab'
  BY <1>1 DEF SiteInv, OneTab
<1>4. ASSUME NEW u \in Tabs \ {t} PROVE FailedStands(page[u])'
  <2>1. page'[u] = page[u]
    BY <1>1
  <2>2. posted # {page[u].flow}
    BY DEF SiteInv, OneTab
  <2> QED BY <2>1, <2>2 DEF FailedStands
<1> QED BY <1>2, <1>3, <1>4, JarNow, PageStep

(* A page rendered from the cookies. *)
LEMMA RenderedStands ==
  ASSUME SiteInv, NEW k \in posted, NEW cookies, cookies.receipt = k => flow[k] = "completed"
  PROVE  /\ PageStands(Rendered(k, cookies)) /\ FailedStands(Rendered(k, cookies))
         /\ Rendered(k, cookies).at # "failed" /\ Rendered(k, cookies).flow = k
<1>1. k \in Keys
  BY JarNow
<1>2. /\ Rendered(k, cookies) \in {At("receipt", k), At("waiting", k), At("expired", k)}
      /\ Rendered(k, cookies) = At("receipt", k) => cookies.receipt = k
  BY DEF Rendered, At
<1>3. \A place \in Places :
        /\ At(place, k) \in Page /\ At(place, k).at = place /\ At(place, k).flow = k
        /\ At(place, k).settling = "no"
  BY <1>1 DEF At, Page
<1>4. {"receipt", "waiting", "expired"} \subseteq Places
  BY DEF Places
<1> QED BY <1>2, <1>3, <1>4 DEF PageStands, FailedStands

LEMMA CartStands ==
  /\ PageStands(At("cart", None)) /\ FailedStands(At("cart", None))
  /\ At("cart", None).flow = None
BY DEF At, Page, Places, PageStands, FailedStands

LEMMA FailedPage ==
  ASSUME SiteInv, NEW k \in posted
  PROVE  /\ PageStands(At("failed", k)) /\ At("failed", k).flow = k
         /\ flow[k] = "failed" => FailedStands(At("failed", k))
BY JarNow DEF At, Page, Places, PageStands, FailedStands

LEMMA PageNow ==
  ASSUME SiteInv, NEW t \in Tabs
  PROVE  PageStands(page[t]) /\ FailedStands(page[t]) /\ page[t] \in Page
BY DEF SiteInv, PageStands

(* A waiting page that only notes something. *)
LEMMA NotedStands ==
  ASSUME SiteInv, NEW t \in Tabs, NEW p \in Page, page[t].at = "waiting",
         p.at = "waiting", p.flow = page[t].flow,
         p.settling = "answering" => status[p.flow].state = "completed"
  PROVE  PageStands(p) /\ FailedStands(p)
BY PageNow DEF PageStands, FailedStands

LEMMA CatchUpInv ==
  ASSUME SiteInv, NEW t \in Tabs, CatchUp(t)
  PROVE  SiteInv'
<1> DEFINE p == [page[t] EXCEPT !.caughtUp = TRUE]
           k == p.flow
<1>1. page[t] \in Page /\ page[t].at = "waiting" /\ page[t].flow \in posted
  BY PageNow DEF CatchUp, Waits, PageStands
<1>2. /\ p \in Page /\ p.at = "waiting" /\ p.flow = page[t].flow
      /\ p.settling = page[t].settling
  BY <1>1 DEF Page
<1>3. p.settling = "answering" => status[p.flow].state = "completed"
  BY <1>2, PageNow DEF PageStands
<1>4. UNCHANGED <<flow, announced, status, pushed, early, jar, posted>>
  BY DEF CatchUp
<1>5. \/ Shows(t, [p EXCEPT !.lost = TRUE])
      \/ Shows(t, [p EXCEPT !.heard = TRUE])
      \/ status[k].state = "failed" /\ Shows(t, At("failed", k))
      \/ Shows(t, p)
  BY DEF CatchUp
<1> HIDE DEF p
<1>6. ASSUME NEW q \in {[p EXCEPT !.lost = TRUE], [p EXCEPT !.heard = TRUE], p}, Shows(t, q)
      PROVE  SiteInv'
  <2>1. /\ q \in Page /\ q.at = "waiting" /\ q.flow = page[t].flow
        /\ q.settling = p.settling
    BY <1>2 DEF Page
  <2>2. PageStands(q) /\ FailedStands(q)
    BY <1>1, <1>2, <1>3, <2>1, NotedStands
  <2> QED BY <1>4, <1>6, <2>1, <2>2, PageStays
<1>7. ASSUME status[k].state = "failed", Shows(t, At("failed", k)) PROVE SiteInv'
  <2>1. k \in Keys /\ flow[k] = "failed"
    BY <1>1, <1>2, <1>7, JarNow, ReadIsTrue DEF Ended
  <2> DEFINE q == At("failed", k)
  <2>2. PageStands(q) /\ FailedStands(q) /\ q.flow = page[t].flow
    BY <1>1, <1>2, <2>1, FailedPage
  <2>3. Shows(t, q)
    BY <1>7
  <2> HIDE DEF q
  <2> QED BY <1>4, <2>2, <2>3, PageStays
<1> QED BY <1>5, <1>6, <1>7

LEMMA SettleInv ==
  ASSUME SiteInv, NEW t \in Tabs, Settle(t)
  PROVE  SiteInv'
<1> DEFINE k == page[t].flow
<1>1. page[t] \in Page /\ page[t].at = "waiting" /\ k \in posted
  BY PageNow DEF Settle, Waits, PageStands
<1>2. UNCHANGED <<flow, announced, status, pushed, early, jar, posted>>
  BY DEF Settle
<1>3. \/ jar.receipt = k /\ Shows(t, Rendered(k, jar))
      \/ jar.receipt # k /\ jar.ticket # k /\ Shows(t, At("failed", k))
      \/ Shows(t, [page[t] EXCEPT !.heard = FALSE, !.settling = "reading"])
  BY DEF Settle
<1>4. CASE jar.receipt = k /\ Shows(t, Rendered(k, jar))
  <2> DEFINE q == Rendered(k, jar)
  <2>1. jar.receipt = k => flow[k] = "completed"
    BY <1>1, JarNow, NoneIsNoKey DEF JarStands
  <2>2. PageStands(q) /\ FailedStands(q) /\ q.flow = k
    BY <1>1, <2>1, RenderedStands
  <2>3. Shows(t, q)
    BY <1>4
  <2> HIDE DEF q
  <2> QED BY <1>2, <2>2, <2>3, PageStays
<1>5. CASE jar.receipt # k /\ jar.ticket # k /\ Shows(t, At("failed", k))
  <2> DEFINE q == At("failed", k)
  <2>1. PageStands(q) /\ q.flow = k
    BY <1>1, FailedPage
  <2>2. FailedStands(q)
    <3>1. jar.ticket # None => jar.ticket \in posted
      BY DEF SiteInv, TypeOK
    <3> QED BY <1>5, <2>1, <3>1 DEF FailedStands
  <2>3. Shows(t, q)
    BY <1>5
  <2> HIDE DEF q
  <2> QED BY <1>2, <2>1, <2>2, <2>3, PageStays
<1>6. CASE Shows(t, [page[t] EXCEPT !.heard = FALSE, !.settling = "reading"])
  <2> DEFINE q == [page[t] EXCEPT !.heard = FALSE, !.settling = "reading"]
  <2>1. q \in Page /\ q.at = "waiting" /\ q.flow = k /\ q.settling = "reading"
    BY <1>1 DEF Page
  <2>2. Shows(t, q)
    BY <1>6
  <2> HIDE DEF q
  <2>3. PageStands(q) /\ FailedStands(q)
    BY <1>1, <2>1, NotedStands
  <2> QED BY <1>2, <2>1, <2>2, <2>3, PageStays
<1> QED BY <1>3, <1>4, <1>5, <1>6

LEMMA SettleReadsInv ==
  ASSUME SiteInv, NEW t \in Tabs, SettleReads(t)
  PROVE  SiteInv'
<1> DEFINE k == page[t].flow
<1>1. page[t] \in Page /\ page[t].at = "waiting" /\ k \in posted
  BY PageNow DEF SettleReads, PageStands
<1>2. UNCHANGED <<flow, announced, status, pushed, early, jar, posted>>
  BY DEF SettleReads
<1>3. \/ /\ status[k].state = "completed"
         /\ Shows(t, [page[t] EXCEPT !.settling = "answering"])
      \/ status[k].state = "failed" /\ Shows(t, At("failed", k))
      \/ Shows(t, [page[t] EXCEPT !.settling = "no"])
      \/ Shows(t, [page[t] EXCEPT !.settling = "no", !.lost = TRUE])
  BY DEF SettleReads, SettleDecision, Ended
<1>4. ASSUME NEW q \in {[page[t] EXCEPT !.settling = "no"],
                        [page[t] EXCEPT !.settling = "no", !.lost = TRUE]}, Shows(t, q)
      PROVE  SiteInv'
  <2>1. q \in Page /\ q.at = "waiting" /\ q.flow = k /\ q.settling = "no"
    BY <1>1 DEF Page
  <2>2. PageStands(q) /\ FailedStands(q)
    BY <1>1, <2>1, NotedStands
  <2> QED BY <1>2, <1>4, <2>1, <2>2, PageStays
<1>5. CASE /\ status[k].state = "completed"
           /\ Shows(t, [page[t] EXCEPT !.settling = "answering"])
  <2> DEFINE q == [page[t] EXCEPT !.settling = "answering"]
  <2>1. q \in Page /\ q.at = "waiting" /\ q.flow = k /\ q.settling = "answering"
    BY <1>1 DEF Page
  <2>2. Shows(t, q)
    BY <1>5
  <2> HIDE DEF q
  <2>3. PageStands(q) /\ FailedStands(q)
    BY <1>1, <1>5, <2>1, NotedStands
  <2> QED BY <1>2, <2>1, <2>2, <2>3, PageStays
<1>6. CASE status[k].state = "failed" /\ Shows(t, At("failed", k))
  <2>1. k \in Keys /\ flow[k] = "failed"
    BY <1>1, <1>6, JarNow, ReadIsTrue DEF Ended
  <2> DEFINE q == At("failed", k)
  <2>2. PageStands(q) /\ FailedStands(q) /\ q.flow = page[t].flow
    BY <1>1, <2>1, FailedPage
  <2>3. Shows(t, q)
    BY <1>6
  <2> HIDE DEF q
  <2> QED BY <1>2, <2>2, <2>3, PageStays
<1> QED BY <1>3, <1>4, <1>5, <1>6

(* The ticket of a flow that was started. *)
LEMMA AcceptedInv ==
  ASSUME SiteInv, NEW t \in Tabs, Accepted(t)
  PROVE  SiteInv'
<1> DEFINE k == page[t].flow
           cookies == [jar EXCEPT !.ticket = k]
           q == Rendered(k, cookies)
<1>1. k \in posted /\ k \in Keys /\ flow[k] # None
  BY PageNow, JarNow DEF Accepted, PageStands
<1>2. /\ jar' = cookies /\ Shows(t, q)
      /\ UNCHANGED <<flow, announced, status, pushed, early, posted>>
  BY DEF Accepted
<1>3. /\ cookies \in [ticket : Keys \cup {None}, receipt : Keys \cup {None}, cart : BOOLEAN]
      /\ cookies.ticket = k /\ cookies.receipt = jar.receipt
  BY <1>1, JarNow DEF JarStands
<1> HIDE DEF cookies
<1>4. JarStands'
  BY <1>1, <1>2, <1>3, JarNow DEF JarStands
<1>5. cookies.receipt = k => flow[k] = "completed"
  BY <1>1, <1>3, JarNow, NoneIsNoKey DEF JarStands
<1>6. PageStands(q) /\ q.at # "failed" /\ q.flow = k
  BY <1>1, <1>5, RenderedStands
<1> HIDE DEF q
<1> QED BY <1>1, <1>2, <1>4, <1>6, PageWrites

(* The receipt of a flow that was read to have completed. *)
LEMMA SettleAnswersInv ==
  ASSUME SiteInv, NEW t \in Tabs, SettleAnswers(t)
  PROVE  SiteInv'
<1> DEFINE k == page[t].flow
           cookies == [ticket |-> None, receipt |-> k, cart |-> FALSE]
           q == Rendered(k, cookies)
<1>1. k \in posted /\ k \in Keys /\ status[k].state = "completed"
  BY PageNow, JarNow DEF SettleAnswers, PageStands
<1>2. flow[k] = "completed"
  BY <1>1, ReadIsTrue DEF Ended
<1>3. /\ jar' = cookies /\ Shows(t, q)
      /\ UNCHANGED <<flow, announced, status, pushed, early, posted>>
  BY DEF SettleAnswers
<1>4. /\ cookies \in [ticket : Keys \cup {None}, receipt : Keys \cup {None}, cart : BOOLEAN]
      /\ cookies.ticket = None /\ cookies.receipt = k
  BY <1>1
<1> HIDE DEF cookies
<1>5. JarStands'
  BY <1>2, <1>3, <1>4 DEF JarStands
<1>6. PageStands(q) /\ q.at # "failed" /\ q.flow = k
  BY <1>1, <1>2, RenderedStands
<1> HIDE DEF q
<1> QED BY <1>1, <1>3, <1>5, <1>6, PageWrites

(* A page loaded again, or a call that came to nothing. *)
LEMMA LoadedInv ==
  ASSUME SiteInv, NEW t \in Tabs, Reload(t) \/ NotAccepted(t)
  PROVE  SiteInv'
<1>1. UNCHANGED <<flow, announced, status, pushed, early, jar, posted>>
  BY DEF Reload, NotAccepted
<1>2. CASE Shows(t, At("cart", None))
  <2> DEFINE q == At("cart", None)
  <2>1. PageStands(q) /\ FailedStands(q) /\ q.flow = None /\ Shows(t, q)
    BY <1>2, CartStands
  <2> HIDE DEF q
  <2> QED BY <1>1, <2>1, PageStays
<1>3. CASE Reload(t) /\ Shows(t, Rendered(page[t].flow, jar))
  <2> DEFINE k == page[t].flow
             q == Rendered(k, jar)
  <2>1. k \in posted
    BY <1>3, PageNow DEF Reload, PageStands
  <2>2. jar.receipt = k => flow[k] = "completed"
    BY <2>1, JarNow, NoneIsNoKey DEF JarStands
  <2>3. PageStands(q) /\ FailedStands(q) /\ q.flow = page[t].flow /\ Shows(t, q)
    BY <1>3, <2>1, <2>2, RenderedStands
  <2> HIDE DEF q
  <2> QED BY <1>1, <2>3, PageStays
<1> QED BY <1>2, <1>3 DEF Reload, NotAccepted

(* A start is sent: under a key of its own, or once more under the key of    *)
(* the ticket.                                                               *)
LEMMA SubmitsInv ==
  ASSUME SiteInv, NEW t \in Tabs, NEW k \in Keys, Submits(t, k),
         UNCHANGED <<flow, announced, status, pushed, early, jar>>,
         \/ k \notin posted
         \/ page[t].flow \in posted /\ k \in posted
  PROVE  SiteInv'
<1> DEFINE p == At("submitting", k)
<1>1. p \in Page /\ p.at = "submitting" /\ p.flow = k /\ p.settling = "no"
  BY DEF At, Page, Places
<1>2. Shows(t, p) /\ posted' = posted \cup {k}
  BY DEF Submits
<1> HIDE DEF p
<1>3. \A u \in Tabs : page'[u] = IF u = t THEN p ELSE page[u]
  BY <1>2 DEF SiteInv, TypeOK, Shows
<1>4. PageStands(p)' /\ FailedStands(p)'
  BY <1>1, <1>2 DEF PageStands, FailedStands
<1>5. JarStands' /\ posted' \subseteq Keys
  BY <1>2, JarNow DEF JarStands
<1>6. \A u \in Tabs : page[u].flow = None \/ page[u].flow \in posted
  BY PageNow DEF PageStands
<1>7. OneTab'
  <2> SUFFICES ASSUME NEW u \in Tabs, NEW v \in Tabs,
                      posted' = {page'[u].flow}, page'[v].flow = page'[u].flow
               PROVE  u = v
    BY DEF OneTab
  <2>1. posted' = {k} /\ page'[u].flow = k /\ page'[v].flow = k
    BY <1>2
  <2>2. CASE k \notin posted
    <3>1. posted = {}
      BY <1>2, <2>1, <2>2
    <3>2. \A w \in Tabs \ {t} : page'[w].flow # k
      BY <1>3, <1>6, <3>1, NoneIsNoKey
    <3> QED BY <2>1, <3>2
  <2>3. CASE page[t].flow \in posted /\ k \in posted
    <3>1. posted = {k} /\ page[t].flow = k
      BY <1>2, <2>1, <2>3
    <3>2. \A w \in Tabs : page[w].flow = page'[w].flow \/ w = t
      BY <1>3
    <3> QED BY <2>1, <3>1, <3>2 DEF SiteInv, OneTab
  <2> QED BY <2>2, <2>3
<1>8. ASSUME NEW u \in Tabs \ {t} PROVE FailedStands(page[u])'
  <2>1. page'[u] = page[u] /\ FailedStands(page[u])
    BY <1>3, PageNow
  <2>2. page[u].at = "failed" => page[u].flow \in posted
    BY PageNow DEF PageStands
  <2>3. (page[u].at = "failed" /\ posted # {page[u].flow}) => posted' # {page[u].flow}
    BY <1>2, <2>2
  <2> QED BY <2>1, <2>3 DEF FailedStands
<1> QED BY <1>2, <1>4, <1>5, <1>7, <1>8, PageStep

LEMMA CheckoutInv ==
  ASSUME SiteInv, NEW t \in Tabs, Checkout(t)
  PROVE  SiteInv'
BY SubmitsInv DEF Checkout

LEMMA RetryInv ==
  ASSUME SiteInv, NEW t \in Tabs, Retry(t)
  PROVE  SiteInv'
<1>1. UNCHANGED <<flow, announced, status, pushed, early, jar>> /\ page[t].flow \in posted
  BY PageNow DEF Retry, PageStands
<1>2. CASE Shows(t, At("cart", None)) /\ UNCHANGED posted
  <2> DEFINE q == At("cart", None)
  <2>1. PageStands(q) /\ FailedStands(q) /\ q.flow = None /\ Shows(t, q)
    BY <1>2, CartStands
  <2> HIDE DEF q
  <2> QED BY <1>1, <1>2, <2>1, PageStays
<1>3. ASSUME NEW k \in IF jar.ticket # None THEN {jar.ticket} ELSE Keys \ posted, Submits(t, k)
      PROVE  SiteInv'
  <2>1. k \in Keys /\ (k \notin posted \/ k \in posted)
    BY JarNow DEF JarStands
  <2> QED BY <1>1, <1>3, <2>1, SubmitsInv
<1> QED BY <1>2, <1>3 DEF Retry

-----------------------------------------------------------------------------
(* The stream *)

LEMMA OnSettledStands ==
  ASSUME SiteInv, NEW e \in announced, e.state \in Ended, NEW t \in Tabs,
         NEW q \in OnSettled(page[t], e)
  PROVE  PageStands(q) /\ FailedStands(q) /\ q.flow = page[t].flow
<1>1. flow[e.flow] = e.state
  BY DEF SiteInv, EndsAreTrue
<1>2. CASE page[t].at # "waiting" \/ page[t].flow # e.flow
  BY <1>2, PageNow DEF OnSettled
<1>3. CASE page[t].at = "waiting" /\ page[t].flow = e.flow
  <2>1. page[t] \in Page /\ page[t].flow \in posted
    BY <1>3, PageNow DEF PageStands
  <2>2. page[t].settling = "answering" => status[page[t].flow].state = "completed"
    BY PageNow DEF PageStands
  <2>3. ASSUME q \in {[page[t] EXCEPT !.lost = TRUE], [page[t] EXCEPT !.heard = TRUE]}
        PROVE  PageStands(q) /\ FailedStands(q) /\ q.flow = page[t].flow
    <3>1. /\ q \in Page /\ q.at = "waiting" /\ q.flow = page[t].flow
          /\ q.settling = page[t].settling
      BY <1>3, <2>1, <2>3 DEF Page
    <3> QED BY <1>3, <2>2, <3>1, NotedStands
  <2>4. ASSUME e.state # "completed", q = At("failed", e.flow)
        PROVE  PageStands(q) /\ FailedStands(q) /\ q.flow = page[t].flow
    <3>1. flow[e.flow] = "failed" /\ e.flow \in posted
      BY <1>1, <1>3, <2>1, <2>4 DEF Ended
    <3> QED BY <1>3, <2>4, <3>1, FailedPage
  <2>5. \/ q \in {[page[t] EXCEPT !.lost = TRUE], [page[t] EXCEPT !.heard = TRUE]}
        \/ e.state # "completed" /\ q = At("failed", e.flow)
    BY <1>3 DEF OnSettled
  <2> QED BY <2>3, <2>4, <2>5
<1> QED BY <1>2, <1>3

LEMMA PushInv ==
  ASSUME SiteInv, NEW e \in announced, Push(e)
  PROVE  SiteInv'
<1>1. /\ e.state \in Ended /\ e.flow \in Keys /\ pushed' = pushed \cup {e}
      /\ early' \subseteq Keys /\ UNCHANGED <<flow, announced, status, jar, posted>>
  BY DEF Push, SiteInv, TypeOK, Event
<1>2. \A t \in Tabs : page'[t] \in OnSettled(page[t], e)
  BY DEF Push
<1>3. ASSUME NEW t \in Tabs
      PROVE  PageStands(page'[t]) /\ FailedStands(page'[t]) /\ page'[t].flow = page[t].flow
  BY <1>1, <1>2, OnSettledStands
<1>4. page' \in [Tabs -> Page]
  <2>1. \E S : page' \in [Tabs -> S]
    BY DEF Push
  <2> QED BY <1>3, <2>1 DEF PageStands
<1>5. ASSUME NEW t \in Tabs PROVE PageStands(page[t])' /\ FailedStands(page[t])'
  BY <1>1, <1>3 DEF PageStands, FailedStands
<1>6. TypeOK'
  <2>1. \A t \in Tabs :
          page'[t].settling = "answering" => status'[page'[t].flow].state = "completed"
    BY <1>5 DEF PageStands
  <2> QED BY <1>1, <1>4, <2>1 DEF SiteInv, TypeOK
<1>7. OneTab'
  BY <1>1, <1>3 DEF SiteInv, OneTab
<1> QED BY <1>1, <1>5, <1>6, <1>7 DEF SiteInv, EndsAreTrue

-----------------------------------------------------------------------------
(* The buyer's cart, and a ticket that lapses *)

LEMMA JarInv ==
  ASSUME SiteInv, UNCHANGED <<flow, announced, status, pushed, early, posted, page>>,
         JarStands', jar'.receipt = jar.receipt, jar'.ticket \in {jar.ticket, None}
  PROVE  SiteInv'
<1>1. TypeOK'
  BY DEF SiteInv, TypeOK, JarStands
<1>2. ASSUME NEW t \in Tabs PROVE PageStands(page[t])' /\ FailedStands(page[t])'
  BY PageNow DEF PageStands, FailedStands
<1> QED BY <1>1, <1>2 DEF SiteInv, EndsAreTrue, OneTab, JarStands

LEMMA FillInv ==
  ASSUME SiteInv, Fill \/ TicketLapses
  PROVE  SiteInv'
<1>1. /\ UNCHANGED <<flow, announced, status, pushed, early, posted, page>>
      /\ jar' = [jar EXCEPT !.cart = TRUE] \/ jar' = [jar EXCEPT !.ticket = None]
  BY DEF Fill, TicketLapses
<1>2. JarStands' /\ jar'.receipt = jar.receipt /\ jar'.ticket \in {jar.ticket, None}
  BY <1>1, JarNow DEF JarStands
<1> QED BY <1>1, <1>2, JarInv

-----------------------------------------------------------------------------
LEMMA StepInv == SiteInv /\ [Next]_vars => SiteInv'
<1> SUFFICES ASSUME SiteInv, [Next]_vars PROVE SiteInv'
  OBVIOUS
<1>1. ASSUME NEW k \in Keys, Start(k) PROVE SiteInv'
  <2>1. "running" \in States /\ flow[k] \notin Ended
    BY <1>1 DEF Start, States, Ended, None
  <2> QED BY <1>1, <2>1, AnnounceInv DEF Start
<1>2. ASSUME NEW k \in Keys, NEW state \in Ended, End(k, state) PROVE SiteInv'
  <2>1. state \in States /\ flow[k] \notin Ended /\ k \in posted
    BY <1>2 DEF End, States, Ended, SiteInv, TypeOK, None
  <2> QED BY <1>2, <2>1, AnnounceInv DEF End
<1>3. CASE UNCHANGED vars
  <2>1. JarStands'
    BY <1>3, JarNow DEF vars, JarStands
  <2> QED BY <1>3, <2>1, JarInv DEF vars
<1> QED BY <1>1, <1>2, <1>3, ApplyInv, PushInv, CatchUpInv, SettleInv, SettleReadsInv,
           AcceptedInv, SettleAnswersInv, LoadedInv, CheckoutInv, RetryInv, FillInv
        DEF Next, FlowMoves, Buyer, Browser

LEMMA SiteInvAlways == Spec => []SiteInv
BY InitInv, StepInv, PTL DEF Spec

(* The cookies and the projection name only what happened.                   *)
THEOREM TypeCorrect == Spec => []TypeOK
<1>1. SiteInv => TypeOK
  BY DEF SiteInv
<1> QED BY <1>1, SiteInvAlways, PTL

(* A receipt is of a completed flow, and the failed page is wrong only where *)
(* the flow's ticket is gone.                                                *)
THEOREM PagesAreTrueAlways == Spec => []PagesAreTrue
<1>1. SiteInv => PagesAreTrue
  BY DEF SiteInv, PageStands, FailedStands, PagesAreTrue
<1> QED BY <1>1, SiteInvAlways, PTL

(* A status read never goes back from an end. *)
THEOREM StatusForward == Spec => StatusNeverGoesBack
<1> DEFINE Forward ==
      \A k \in Keys :
        /\ status[k].state \in Ended => status'[k].state = status[k].state
        /\ status'[k].state # status[k].state => status'[k].version > status[k].version
<1>1. SiteInv /\ [Next]_vars => [Forward]_status
  <2> SUFFICES ASSUME SiteInv, [Next]_vars, status' # status PROVE Forward
    OBVIOUS
  <2>1. PICK e \in announced : Apply(e)
    BY DEF Next, FlowMoves, Buyer, Browser, Start, End, Push, Fill, Checkout, Retry, Reload,
           Accepted, CatchUp, Settle, SettleReads, SettleAnswers, NotAccepted, TicketLapses, vars
  <2>2. e.flow \in Keys /\ e.state \in States
    BY DEF SiteInv, TypeOK, Event
  <2>3. \A k \in Keys :
          status'[k] = IF k = e.flow THEN [state |-> e.state, version |-> Ordinal[e.state]]
                                     ELSE status[k]
    BY <2>1 DEF Apply, SiteInv, TypeOK
  <2>4. status[e.flow].version < Ordinal[e.state] /\ Ordinal[e.state] <= 2
    BY <2>1, <2>2 DEF Apply, Ordinal, States
  <2>5. \A k \in Keys : status[k].version \in Nat
    BY DEF SiteInv, TypeOK
  <2>6. status[e.flow].state \notin Ended
    <3> SUFFICES ASSUME status[e.flow].state \in Ended PROVE FALSE
      OBVIOUS
    <3>1. status[e.flow] # Unread
      BY DEF Unread, Ended, None
    <3>2. status[e.flow].version = Ordinal[status[e.flow].state]
      BY <2>2, <3>1 DEF SiteInv, TypeOK
    <3>3. status[e.flow].version = 2
      BY <3>2 DEF Ordinal, Ended
    <3> QED BY <2>2, <2>4, <3>3 DEF Ordinal, States
  <2> QED BY <2>3, <2>4, <2>5, <2>6
<1> QED BY <1>1, SiteInvAlways, PTL DEF Spec, StatusNeverGoesBack
=============================================================================
