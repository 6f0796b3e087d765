------------------------ MODULE PublishedCatalogProofs ------------------------
(***************************************************************************)
(* Theorems about PublishedCatalog, for any offerings, any number of       *)
(* moments and any number of decisions and saves under way.                *)
(***************************************************************************)
EXTENDS PublishedCatalog, TLAPS

-----------------------------------------------------------------------------
(* The inductive invariant *)

(* What a stored or carried row says was announced, if a decision made it.   *)
Standing(o, row) ==
  /\ row.status = "published" => row.at >= Seeded
  /\ row.at > Seeded \/ row.status = "unpublished" =>
       [offering |-> o, status |-> row.status, at |-> row.at] \in Announced

RowsStand ==
  /\ \A o \in Offerings : Standing(o, store[o])
  /\ \A s \in saves : Standing(s.offering, s.row)

(* A moment still to be committed is nobody else's. *)
Fresh(d) ==
  /\ d.at > Seeded /\ d.at <= now
  /\ \A f \in decisions : f.at = d.at => f = d
  /\ \A e \in Announced : e.at # d.at
  /\ \A o \in Offerings : store[o].at # d.at
  /\ \A s \in saves : s.row.at # d.at
  /\ \A w \in walk : w.at # d.at

(* No moment is yet to come. *)
Past ==
  /\ \A e \in Announced : e.at <= now
  /\ \A o \in Offerings : store[o].at <= now
  /\ \A s \in saves : s.row.at <= now
  /\ \A w \in walk : w.at <= now

(* The stamp is the moment of the newest announcement heard, and the         *)
(* offering is on sale as that one says.                                     *)
StampIsNewest ==
  /\ \A e \in heard : e.at <= stamp[e.offering]
  /\ \A o \in Offerings :
       \/ /\ o \notin onSale
          /\ stamp[o] = 0
          /\ \A e \in heard : e.offering # o
       \/ \E e \in heard :
            /\ e.offering = o
            /\ e.at = stamp[o]
            /\ o \in onSale <=> e.status = "published"

Moved == RowsStand /\ Past /\ \A d \in decisions : Fresh(d)

CatalogInv == TypeOK /\ Moved /\ StampIsNewest

-----------------------------------------------------------------------------
(* The outbox *)

Same(e) == {f \in Announced : f.offering = e.offering /\ f.at = e.at}

(* Putting an announcement of a moment of its own on the outbox. *)
LEMMA Enqueued ==
  ASSUME TypeOK, NEW e \in Announcement, outbox' = Enqueue(e), Same(e) \subseteq {e}
  PROVE  /\ Announced' = Announced \cup {e}
         /\ Announced' \subseteq Announcement
         /\ \A f \in Announced' : outbox'[f] \in {"pending", "sent", "quarantined"}
         /\ \A f, g \in Announced' : (f.offering = g.offering /\ f.at = g.at) => f = g
<1>1. Announced' = Announced \cup {e}
  BY DEF Announced, Enqueue
<1>2. \A f \in Announced' : outbox'[f] \in {"pending", "sent", "quarantined"}
  BY <1>1 DEF Enqueue, TypeOK
<1>3. \A f \in Announced : (f.offering = e.offering /\ f.at = e.at) => f = e
  BY DEF Same
<1> QED BY <1>1, <1>2, <1>3 DEF TypeOK

(* Changing how known announcements stand with the relay. *)
LEMMA SameAnnounced ==
  ASSUME TypeOK, UNCHANGED <<store, decisions, saves, now, shop>>,
         walk' \subseteq walk, Announced' = Announced,
         \A f \in Announced : outbox'[f] \in {"pending", "sent", "quarantined"}
  PROVE  TypeOK'
BY DEF TypeOK, shop, NewsOf, Announcement, Moments, Row

-----------------------------------------------------------------------------
LEMMA InitInv == Init => CatalogInv
<1> SUFFICES ASSUME Init PROVE CatalogInv
  OBVIOUS
<1>1. Announced = {}
  BY DEF Init, Announced
<1>2. now = 1 /\ now \in Moments /\ LastMoment \in Nat
  BY BoundsAreNat DEF Init, Seeded, Moments
<1>3. \A o \in Offerings :
        store[o] \in {[status |-> "draft", at |-> 0], [status |-> "published", at |-> 1]}
  BY DEF Init, Seeded
<1>4. TypeOK
  BY <1>1, <1>2, <1>3 DEF Init, TypeOK, Row, Statuses, Seeded, Moments
<1>5. Moved
  BY <1>1, <1>2, <1>3 DEF Init, Moved, RowsStand, Standing, Past, Seeded
<1>6. StampIsNewest
  BY DEF Init, StampIsNewest
<1> QED BY <1>4, <1>5, <1>6 DEF CatalogInv

(* What the storefront holds is not touched by what happens elsewhere.       *)
LEMMA ShopUntouched ==
  ASSUME StampIsNewest, UNCHANGED shop
  PROVE  StampIsNewest'
BY DEF StampIsNewest, shop

-----------------------------------------------------------------------------
(* The vendor *)

(* A moment is taken for a decision yet to be made. *)
LEMMA AskInv ==
  ASSUME TypeOK, Moved, NEW o \in Offerings, NEW transition \in {"publish", "unpublish"},
         Ask(o, transition)
  PROVE  TypeOK' /\ Moved'
<1> DEFINE d == [offering |-> o, transition |-> transition, from |-> None, to |-> None,
                 at |-> now + 1]
<1>1. LastMoment \in Nat /\ now \in Nat /\ now + 1 \in Moments /\ now + 1 > Seeded
  BY BoundsAreNat DEF Ask, TypeOK, Moments, Seeded
<1>2. d \in Decision /\ d.from = None
  BY <1>1 DEF Decision, After
<1>3. /\ decisions' = decisions \cup {d} /\ now' = now + 1
      /\ UNCHANGED <<store, saves, outbox, quarantine, heard, stamp, onSale, walk>>
  BY DEF Ask, shop
<1>4. Announced' = Announced
  BY <1>3 DEF Announced
<1>5. TypeOK'
  BY <1>1, <1>2, <1>3, <1>4 DEF TypeOK, NewsOf
<1>6. RowsStand'
  BY <1>3, <1>4 DEF Moved, RowsStand, Standing
<1>7. Past'
  BY <1>1, <1>3, <1>4 DEF Moved, Past, TypeOK, Row, Deleted, Announcement, Moments
<1>8. \A f \in decisions : f.at \in Nat /\ f.at <= now
  BY DEF Moved, Fresh, TypeOK, Decision, Moments
<1>9. ASSUME NEW f \in decisions PROVE Fresh(f)'
  BY <1>1, <1>3, <1>4, <1>8 DEF Moved, Fresh
<1>10. ASSUME NEW f \in decisions', f.at = now + 1 PROVE Fresh(f)'
  <2>1. f = d /\ \A g \in decisions : g.at # f.at
    BY <1>1, <1>3, <1>8, <1>10
  <2>2. \A p \in Offerings : store[p].at \in Nat /\ store[p].at <= now
    BY DEF Moved, Past, TypeOK, Row, Deleted
  <2>3. \A s \in saves : s.row.at \in Nat /\ s.row.at <= now
    BY DEF Moved, Past, TypeOK, Row
  <2>4. \A w \in walk : w.at \in Nat /\ w.at <= now
    BY DEF Moved, Past, TypeOK, Moments
  <2>5. \A e \in Announced : e.at \in Nat /\ e.at <= now
    BY DEF Moved, Past, TypeOK, Announcement, Moments
  <2>6. \A g \in decisions' : g.at = f.at => g = f
    BY <1>3, <2>1
  <2> HIDE DEF d
  <2> QED BY <1>1, <1>3, <1>4, <1>10, <2>2, <2>3, <2>4, <2>5, <2>6 DEF Fresh
<1>11. \A f \in decisions' : f \in decisions \/ f.at = now + 1
  BY <1>3
<1> QED BY <1>5, <1>6, <1>7, <1>9, <1>10, <1>11 DEF Moved

(* What was asked is decided over what it reads, at the same moment. *)
LEMMA DecideInv ==
  ASSUME TypeOK, Moved, NEW d \in decisions, Decide(d)
  PROVE  TypeOK' /\ Moved'
<1> DEFINE to == After[d.transition][store[d.offering].status]
           e == [d EXCEPT !.from = store[d.offering].status, !.to = to]
<1>1. /\ decisions' = (decisions \ {d}) \cup {e}
      /\ UNCHANGED <<store, saves, now, outbox, quarantine, heard, stamp, onSale, walk>>
  BY DEF Decide, shop
<1>2. to \in {"published", "unpublished"}
  <2>1. d.transition \in {"publish", "unpublish"}
    BY DEF TypeOK, Decision, After
  <2> QED BY <2>1 DEF Decide, After
<1>3. d \in Decision /\ store[d.offering].status \in Statuses
  BY DEF TypeOK, Decide, After, Decision, Deleted, None, Row
<1>4. e.offering = d.offering /\ e.at = d.at /\ e.to = to /\ e \in Decision
  BY <1>2, <1>3 DEF Decision
<1>5. Announced' = Announced
  BY <1>1 DEF Announced
<1>6. to # None
  BY <1>2 DEF None
<1> HIDE DEF to, e
<1>7. TypeOK'
  BY <1>1, <1>4, <1>5, <1>6 DEF TypeOK, NewsOf
<1>8. RowsStand' /\ Past'
  BY <1>1, <1>5 DEF Moved, RowsStand, Past, Standing
<1>9. ASSUME NEW f \in decisions' PROVE Fresh(f)'
  <2>1. Fresh(d) /\ \A g \in decisions : Fresh(g)
    BY DEF Moved
  <2>2. \A g \in decisions' : g = e \/ (g \in decisions /\ g # d)
    BY <1>1
  <2>3. \A g \in decisions' : g.at = f.at => g = f
    BY <1>4, <2>1, <2>2 DEF Fresh
  <2> QED BY <1>1, <1>4, <1>5, <2>1, <2>2, <2>3 DEF Fresh
<1> QED BY <1>7, <1>8, <1>9 DEF Moved

(* The decision's moment is announced by this commit and by no other.        *)
LEMMA CommitInv ==
  ASSUME TypeOK, Moved, NEW d \in decisions, Commit(d)
  PROVE  TypeOK' /\ Moved'
<1> DEFINE e == [offering |-> d.offering, status |-> d.to, at |-> d.at]
           row == [status |-> d.to, at |-> d.at]
<1>1. /\ d.offering \in Offerings /\ d.to \in {"published", "unpublished"}
      /\ d.at \in Moments /\ d.at > Seeded /\ d.at <= now /\ now \in Moments
  BY DEF TypeOK, Moved, Fresh, Commit, Decision
<1>2. /\ decisions' = decisions \ {d}
      /\ store' = [store EXCEPT ![d.offering] = row]
      /\ UNCHANGED <<saves, now, quarantine, heard, stamp, onSale, walk>>
  BY DEF Commit, shop
<1>3. e \in Announcement /\ \A f \in Announced : f.at # e.at
  BY <1>1 DEF Announcement, Moved, Fresh
<1>4. /\ Announced' = Announced \cup {e}
      /\ Announced' \subseteq Announcement
      /\ \A f \in Announced' : outbox'[f] \in {"pending", "sent", "quarantined"}
      /\ \A f, g \in Announced' : (f.offering = g.offering /\ f.at = g.at) => f = g
  <2>1. Same(e) = {}
    BY <1>3 DEF Same
  <2>2. outbox' = Enqueue(e)
    BY DEF Commit
  <2> HIDE DEF e
  <2> QED BY <1>3, <2>1, <2>2, Enqueued
<1>5. \A o \in Offerings : store'[o] = IF o = d.offering THEN row ELSE store[o]
  BY <1>1, <1>2 DEF TypeOK
<1>6. RowsStand'
  <2>1. ASSUME NEW o \in Offerings PROVE Standing(o, store[o])'
    <3>1. CASE o = d.offering
      <4>1. store'[o].status = d.to /\ store'[o].at = d.at
        BY <1>5, <3>1
      <4>2. [offering |-> o, status |-> d.to, at |-> d.at] \in Announced'
        BY <1>4, <3>1
      <4>3. d.at \in Nat /\ Seeded \in Nat
        BY <1>1 DEF Moments, Seeded
      <4> HIDE DEF e, row
      <4> QED BY <1>1, <4>1, <4>2, <4>3 DEF Standing
    <3>2. CASE o # d.offering
      <4>1. store'[o] = store[o] /\ Announced \subseteq Announced' /\ Standing(o, store[o])
        BY <1>4, <1>5, <3>2 DEF Moved, RowsStand
      <4> HIDE DEF e, row
      <4> QED BY <4>1 DEF Standing
    <3> QED BY <3>1, <3>2
  <2>2. ASSUME NEW s \in saves PROVE Standing(s.offering, s.row)'
    BY <1>4 DEF Standing, Moved, RowsStand
  <2> QED BY <1>2, <2>1, <2>2 DEF RowsStand
<1>7. TypeOK'
  <2>1. row \in Row
    BY <1>1 DEF Row, Statuses, Moments
  <2>2. store' \in [Offerings -> Row \cup {Deleted}]
    BY <1>2, <2>1 DEF TypeOK
  <2>3. \A o \in Offerings :
          store'[o].at > Seeded \/ store'[o].status = "unpublished" => NewsOf(o)' \in Announced'
    BY <1>6 DEF RowsStand, Standing, NewsOf
  <2> HIDE DEF row, e
  <2> QED BY <1>2, <1>4, <2>2, <2>3 DEF TypeOK
<1>8. Past'
  BY <1>1, <1>2, <1>4, <1>5 DEF Moved, Past
<1>9. ASSUME NEW f \in decisions' PROVE Fresh(f)'
  <2>1. f \in decisions /\ f.at # d.at /\ Fresh(f)
    BY <1>2 DEF Moved, Fresh
  <2> QED BY <1>2, <1>4, <1>5, <2>1 DEF Fresh
<1> QED BY <1>6, <1>7, <1>8, <1>9 DEF Moved

LEMMA QuietInv ==
  ASSUME TypeOK, Moved, UNCHANGED <<store, now, outbox, quarantine, heard, stamp, onSale, walk>>,
         decisions' \subseteq decisions, saves' \subseteq saves
  PROVE  TypeOK' /\ Moved'
<1>1. Announced' = Announced
  BY DEF Announced
<1>2. TypeOK'
  BY <1>1 DEF TypeOK, NewsOf
<1>3. RowsStand' /\ Past'
  BY <1>1 DEF Moved, RowsStand, Past, Standing
<1>4. \A d \in decisions' : Fresh(d)'
  BY <1>1 DEF Moved, Fresh
<1> QED BY <1>2, <1>3, <1>4 DEF Moved

LEMMA ReadToSaveInv ==
  ASSUME TypeOK, Moved, NEW o \in Offerings, ReadToSave(o)
  PROVE  TypeOK' /\ Moved'
<1>1. /\ saves' = saves \cup {[offering |-> o, row |-> store[o]]}
      /\ UNCHANGED <<store, decisions, now, outbox, quarantine, heard, stamp, onSale, walk>>
      /\ store[o] \in Row
  BY DEF ReadToSave, shop, TypeOK
<1>2. Announced' = Announced
  BY <1>1 DEF Announced
<1>3. TypeOK'
  BY <1>1, <1>2 DEF TypeOK, NewsOf
<1>4. RowsStand' /\ Past'
  BY <1>1, <1>2 DEF Moved, RowsStand, Past, Standing
<1>5. \A d \in decisions' : Fresh(d)'
  BY <1>1, <1>2 DEF Moved, Fresh
<1> QED BY <1>3, <1>4, <1>5 DEF Moved

(* A row written back, or none: what it says was announced in its day.       *)
LEMMA WrittenInv ==
  ASSUME TypeOK, Moved, NEW o \in Offerings, NEW row \in Row \cup {Deleted},
         store' = [store EXCEPT ![o] = row], saves' \subseteq saves,
         UNCHANGED <<decisions, now, outbox, quarantine, heard, stamp, onSale, walk>>,
         Standing(o, row), row.at <= now, \A d \in decisions : row.at # d.at
  PROVE  TypeOK' /\ Moved'
<1>1. Announced' = Announced
  BY DEF Announced
<1>2. \A p \in Offerings : store'[p] = IF p = o THEN row ELSE store[p]
  BY DEF TypeOK
<1>3. RowsStand'
  BY <1>1, <1>2 DEF Moved, RowsStand, Standing
<1>4. TypeOK'
  <2>1. store' \in [Offerings -> Row \cup {Deleted}]
    BY DEF TypeOK
  <2>2. \A p \in Offerings :
          store'[p].at > Seeded \/ store'[p].status = "unpublished" => NewsOf(p)' \in Announced'
    BY <1>3 DEF RowsStand, Standing, NewsOf
  <2> QED BY <1>1, <2>1, <2>2 DEF TypeOK
<1>5. Past'
  BY <1>1, <1>2 DEF Moved, Past
<1>6. \A d \in decisions' : Fresh(d)'
  BY <1>1, <1>2 DEF Moved, Fresh
<1> QED BY <1>3, <1>4, <1>5, <1>6 DEF Moved

LEMMA VendorInv ==
  ASSUME TypeOK, Moved, VendorActs
  PROVE  TypeOK' /\ Moved'
<1>1. ASSUME NEW d \in decisions, Dropped(d) PROVE TypeOK' /\ Moved'
  BY <1>1, QuietInv DEF Dropped, shop
<1>2. ASSUME NEW s \in saves, SaveFails(s) PROVE TypeOK' /\ Moved'
  BY <1>2, QuietInv DEF SaveFails, shop
<1>3. ASSUME NEW s \in saves, Save(s) PROVE TypeOK' /\ Moved'
  <2>1. s.offering \in Offerings /\ s.row \in Row /\ Standing(s.offering, s.row)
    BY DEF TypeOK, Moved, RowsStand
  <2>2. s.row.at <= now /\ \A d \in decisions : s.row.at # d.at
    BY DEF Moved, Past, Fresh
  <2> QED BY <1>3, <2>1, <2>2, WrittenInv DEF Save, shop
<1>4. ASSUME NEW o \in Offerings, Delete(o) PROVE TypeOK' /\ Moved'
  <2>1. Standing(o, Deleted) /\ Deleted.at <= now /\ \A d \in decisions : Deleted.at # d.at
    BY DEF Standing, Deleted, None, Seeded, TypeOK, Moments, Moved, Fresh
  <2> QED BY <1>4, <2>1, WrittenInv DEF Delete, shop
<1> QED BY <1>1, <1>2, <1>3, <1>4, AskInv, DecideInv, CommitInv, ReadToSaveInv DEF VendorActs

-----------------------------------------------------------------------------
(* The relay, the projection and the walk *)

(* Nothing but the relay's marks and the walk's own list moves.              *)
LEMMA MarkedInv ==
  ASSUME TypeOK, Moved, UNCHANGED vendor, UNCHANGED shop, walk' \subseteq walk,
         Announced' = Announced,
         \A e \in Announced : outbox'[e] \in {"pending", "sent", "quarantined"}
  PROVE  TypeOK' /\ Moved'
<1>1. TypeOK'
  BY SameAnnounced DEF vendor
<1>2. RowsStand' /\ Past'
  BY DEF Moved, RowsStand, Past, Standing, vendor
<1>3. \A d \in decisions' : Fresh(d)'
  BY DEF Moved, Fresh, vendor
<1> QED BY <1>1, <1>2, <1>3 DEF Moved

LEMMA SentInv ==
  ASSUME TypeOK, Moved, NEW e \in Announced, NEW as \in {"sent", "quarantined"}, Sent(e, as)
  PROVE  TypeOK' /\ Moved'
<1>1. outbox' = [outbox EXCEPT ![e] = as]
  BY DEF Sent
<1>2. Announced' = Announced
  BY <1>1 DEF Announced
<1>3. \A f \in Announced : outbox'[f] \in {"pending", "sent", "quarantined"}
  BY <1>1 DEF TypeOK, Announced
<1> QED BY <1>2, <1>3, MarkedInv DEF Sent

LEMMA ReannounceInv ==
  ASSUME TypeOK, Moved, NEW w \in walk, Reannounce(w)
  PROVE  TypeOK' /\ Moved'
<1> DEFINE e == [offering |-> w.offering, status |-> "published", at |-> w.at]
           same == {f \in Announced : f.offering = w.offering /\ f.at = w.at}
<1>1. /\ walk' \subseteq walk /\ UNCHANGED vendor /\ UNCHANGED shop
  BY DEF Reannounce
<1>2. CASE UNCHANGED outbox
  BY <1>1, <1>2, MarkedInv DEF Announced, TypeOK
<1>3. CASE same # {} /\ outbox' = [f \in Announced |-> IF f \in same THEN "pending" ELSE outbox[f]]
  <2>1. Announced' = Announced
    BY <1>3 DEF Announced
  <2>2. \A f \in Announced : outbox'[f] \in {"pending", "sent", "quarantined"}
    BY <1>3 DEF TypeOK
  <2> QED BY <1>1, <2>1, <2>2, MarkedInv
<1>4. CASE same = {} /\ outbox' = Enqueue(e)
  <2>1. e \in Announcement /\ w.at <= now /\ \A d \in decisions : d.at # w.at
    BY DEF TypeOK, Announcement, Moved, Past, Fresh
  <2>2. Same(e) = {}
    BY <1>4 DEF Same
  <2>3. /\ Announced' = Announced \cup {e}
        /\ Announced' \subseteq Announcement
        /\ \A f \in Announced' : outbox'[f] \in {"pending", "sent", "quarantined"}
        /\ \A f, g \in Announced' : (f.offering = g.offering /\ f.at = g.at) => f = g
    <3>1. outbox' = Enqueue(e)
      BY <1>4
    <3> HIDE DEF e
    <3> QED BY <2>1, <2>2, <3>1, Enqueued
  <2>4. UNCHANGED <<store, decisions, saves, now, quarantine, heard, stamp, onSale>>
    BY <1>1 DEF vendor, shop
  <2>5. e.at = w.at
    OBVIOUS
  <2> HIDE DEF e, same
  <2>6. TypeOK'
    BY <1>1, <2>3, <2>4 DEF TypeOK, NewsOf
  <2>7. RowsStand'
    BY <2>3, <2>4 DEF Moved, RowsStand, Standing
  <2>8. Past'
    BY <1>1, <2>1, <2>3, <2>4, <2>5 DEF Moved, Past
  <2>9. \A d \in decisions' : Fresh(d)'
    BY <1>1, <2>1, <2>3, <2>4, <2>5 DEF Moved, Fresh
  <2> QED BY <2>6, <2>7, <2>8, <2>9 DEF Moved
<1>5. \/ UNCHANGED outbox
      \/ same = {} /\ outbox' = Enqueue(e)
      \/ same # {} /\ outbox' = [f \in Announced |-> IF f \in same THEN "pending" ELSE outbox[f]]
  BY DEF Reannounce
<1> QED BY <1>2, <1>3, <1>4, <1>5

LEMMA BootInv ==
  ASSUME TypeOK, Moved, Boot
  PROVE  TypeOK' /\ Moved'
<1>1. /\ UNCHANGED <<store, decisions, saves, now, outbox, quarantine, heard, stamp, onSale>>
      /\ walk' = {[offering |-> o, at |-> store[o].at] :
                    o \in {p \in Offerings : store[p].status = "published"}}
  BY DEF Boot, vendor, shop
<1>2. \A w \in walk' : \E o \in Offerings :
        w.offering = o /\ w.at = store[o].at /\ store[o].status = "published"
  BY <1>1
<1>3. Announced' = Announced
  BY <1>1 DEF Announced
<1>4. \A o \in Offerings : store[o].status = "published" => store[o].at \in Moments
  <2> SUFFICES ASSUME NEW o \in Offerings, store[o].status = "published"
               PROVE  store[o].at \in Moments
    OBVIOUS
  <2>1. store[o] \in Row
    BY DEF TypeOK, Deleted, None
  <2>2. store[o].at >= 1
    BY DEF Moved, RowsStand, Standing, Seeded
  <2> QED BY <2>1, <2>2, BoundsAreNat DEF Row, Moments
<1>5. \A w \in walk' : w.offering \in Offerings /\ w.at \in Moments
  BY <1>2, <1>4
<1>6. TypeOK'
  BY <1>1, <1>3, <1>5 DEF TypeOK, NewsOf
<1>7. RowsStand' /\ Past'
  BY <1>1, <1>2, <1>3 DEF Moved, RowsStand, Standing, Past
<1>8. \A d \in decisions' : Fresh(d)'
  BY <1>1, <1>2, <1>3 DEF Moved, Fresh
<1> QED BY <1>6, <1>7, <1>8 DEF Moved

LEMMA ApplyInv ==
  ASSUME CatalogInv, NEW e \in Announced, Apply(e)
  PROVE  CatalogInv'
<1>1. /\ UNCHANGED <<store, decisions, saves, now, outbox, walk>>
      /\ heard' = heard \cup {e} /\ quarantine' = quarantine \ {e}
  BY DEF Apply, vendor
<1>2. Announced' = Announced
  BY <1>1 DEF Announced
<1>3. /\ e.offering \in Offerings /\ e.at \in Moments /\ e.at \in Nat
      /\ e.status \in {"published", "unpublished"}
  BY DEF CatalogInv, TypeOK, Announcement, Moments
<1>4. stamp \in [Offerings -> 0 .. LastMoment] /\ LastMoment \in Nat
  BY BoundsAreNat DEF CatalogInv, TypeOK
<1>5. Moved'
  <2>1. RowsStand' /\ Past'
    BY <1>1, <1>2 DEF CatalogInv, Moved, RowsStand, Past, Standing
  <2>2. \A d \in decisions' : Fresh(d)'
    BY <1>1, <1>2 DEF CatalogInv, Moved, Fresh
  <2> QED BY <2>1, <2>2 DEF Moved
<1>6. heard' \subseteq Announced' /\ \A f \in heard' : f.at \in Nat /\ f.offering \in Offerings
  BY <1>1, <1>2 DEF CatalogInv, TypeOK, Announcement, Moments
<1>7. CASE e.at < stamp[e.offering]
  <2>1. UNCHANGED <<stamp, onSale>>
    BY <1>7 DEF Apply
  <2>2. TypeOK'
    BY <1>1, <1>2, <1>6, <2>1 DEF CatalogInv, TypeOK, NewsOf
  <2>3. \A f \in heard' : f.at <= stamp'[f.offering]
    BY <1>1, <1>3, <1>4, <1>7, <2>1 DEF CatalogInv, StampIsNewest
  <2>4. StampIsNewest'
    <3> SUFFICES ASSUME NEW o \in Offerings
                 PROVE  \/ /\ o \notin onSale'
                           /\ stamp'[o] = 0
                           /\ \A f \in heard' : f.offering # o
                        \/ \E f \in heard' :
                             /\ f.offering = o
                             /\ f.at = stamp'[o]
                             /\ o \in onSale' <=> f.status = "published"
      BY <2>3 DEF StampIsNewest
    <3>1. CASE o = e.offering
      BY <1>1, <1>3, <1>4, <1>7, <2>1, <3>1 DEF CatalogInv, StampIsNewest
    <3>2. CASE o # e.offering
      BY <1>1, <2>1, <3>2 DEF CatalogInv, StampIsNewest
    <3> QED BY <3>1, <3>2
  <2> QED BY <1>5, <2>2, <2>4 DEF CatalogInv
<1>8. CASE ~(e.at < stamp[e.offering])
  <2>1. stamp' = [stamp EXCEPT ![e.offering] = e.at] /\ Shows(e)
    BY <1>8 DEF Apply
  <2>2. stamp' \in [Offerings -> 0 .. LastMoment] /\ onSale' \subseteq Offerings
    BY <1>3, <1>4, <2>1 DEF Shows, CatalogInv, TypeOK, Moments
  <2>3. TypeOK'
    BY <1>1, <1>2, <1>6, <2>2 DEF CatalogInv, TypeOK, NewsOf
  <2>4. \A o \in Offerings : stamp'[o] = IF o = e.offering THEN e.at ELSE stamp[o]
    BY <1>4, <2>1
  <2>5. \A o \in Offerings \ {e.offering} : o \in onSale' <=> o \in onSale
    BY <2>1 DEF Shows
  <2>6. e.offering \in onSale' <=> e.status = "published"
    BY <2>1 DEF Shows
  <2>7. \A f \in heard' : f.at <= stamp'[f.offering]
    BY <1>1, <1>3, <1>4, <1>6, <1>8, <2>4 DEF CatalogInv, StampIsNewest
  <2>8. StampIsNewest'
    <3> SUFFICES ASSUME NEW o \in Offerings
                 PROVE  \/ /\ o \notin onSale'
                           /\ stamp'[o] = 0
                           /\ \A f \in heard' : f.offering # o
                        \/ \E f \in heard' :
                             /\ f.offering = o
                             /\ f.at = stamp'[o]
                             /\ o \in onSale' <=> f.status = "published"
      BY <2>7 DEF StampIsNewest
    <3>1. CASE o = e.offering
      BY <1>1, <1>3, <2>4, <2>6, <3>1
    <3>2. CASE o # e.offering
      <4>1. stamp'[o] = stamp[o] /\ (o \in onSale' <=> o \in onSale)
        BY <2>4, <2>5, <3>2
      <4>2. \/ /\ o \notin onSale
               /\ stamp[o] = 0
               /\ \A f \in heard : f.offering # o
            \/ \E f \in heard :
                 /\ f.offering = o
                 /\ f.at = stamp[o]
                 /\ o \in onSale <=> f.status = "published"
        BY DEF CatalogInv, StampIsNewest
      <4> QED BY <1>1, <3>2, <4>1, <4>2
    <3> QED BY <3>1, <3>2
  <2> QED BY <1>5, <2>3, <2>8 DEF CatalogInv
<1> QED BY <1>7, <1>8

(* What is set aside was not heard, and nothing else moves. *)
LEMMA QuarantineInv ==
  ASSUME CatalogInv, NEW e \in Announced, Quarantine(e)
  PROVE  CatalogInv'
<1>1. /\ UNCHANGED <<store, decisions, saves, now, outbox, heard, stamp, onSale, walk>>
      /\ quarantine' = quarantine \cup {e} /\ e \notin heard
  BY DEF Quarantine, vendor
<1>2. Announced' = Announced
  BY <1>1 DEF Announced
<1>3. TypeOK'
  BY <1>1, <1>2 DEF CatalogInv, TypeOK, NewsOf
<1>4. RowsStand' /\ Past'
  BY <1>1, <1>2 DEF CatalogInv, Moved, RowsStand, Past, Standing
<1>5. \A d \in decisions' : Fresh(d)'
  BY <1>1, <1>2 DEF CatalogInv, Moved, Fresh
<1>6. StampIsNewest'
  BY <1>1 DEF CatalogInv, StampIsNewest
<1> QED BY <1>3, <1>4, <1>5, <1>6 DEF CatalogInv, Moved

-----------------------------------------------------------------------------
LEMMA StepInv == CatalogInv /\ [Next]_vars => CatalogInv'
<1> SUFFICES ASSUME CatalogInv, [Next]_vars PROVE CatalogInv'
  OBVIOUS
<1> USE DEF CatalogInv
<1>1. CASE VendorActs
  <2>1. UNCHANGED shop
    BY <1>1 DEF VendorActs, Ask, Decide, Commit, Dropped, ReadToSave, Save, SaveFails, Delete
  <2> QED BY <1>1, <2>1, VendorInv, ShopUntouched
<1>2. CASE Relay
  <2>1. UNCHANGED shop
    BY <1>2 DEF Relay, Sent
  <2> QED BY <1>2, <2>1, SentInv, ShopUntouched DEF Relay
<1>3. CASE \E e \in Announced : Apply(e)
  BY <1>3, ApplyInv
<1>7. CASE \E e \in Announced : Quarantine(e)
  BY <1>7, QuarantineInv
<1>4. CASE Boot
  <2>1. UNCHANGED shop
    BY <1>4 DEF Boot
  <2> QED BY <1>4, <2>1, BootInv, ShopUntouched
<1>5. CASE \E w \in walk : Reannounce(w)
  <2>1. UNCHANGED shop
    BY <1>5 DEF Reannounce
  <2> QED BY <1>5, <2>1, ReannounceInv, ShopUntouched
<1>6. CASE UNCHANGED vars
  <2>1. UNCHANGED shop
    BY <1>6 DEF vars, shop
  <2>2. TypeOK' /\ Moved'
    BY <1>6, QuietInv DEF vars
  <2> QED BY <2>1, <2>2, ShopUntouched
<1> QED BY <1>1, <1>2, <1>3, <1>4, <1>5, <1>6, <1>7 DEF Next

LEMMA CatalogInvAlways == Spec => []CatalogInv
BY InitInv, StepInv, PTL DEF Spec

(* An announcement's name tells it from every other: one status to an        *)
(* offering and a moment, whatever commits, saves and walks ran into each    *)
(* other.                                                                    *)
THEOREM TypeCorrect == Spec => []TypeOK
<1>1. CatalogInv => TypeOK
  BY DEF CatalogInv
<1> QED BY <1>1, CatalogInvAlways, PTL

(* The storefront shows what the newest announcement it was given says.      *)
THEOREM NewestWinsAlways == Spec => []NewestWins
<1>1. CatalogInv => NewestWins
  <2> SUFFICES ASSUME CatalogInv, NEW o \in Offerings
               PROVE  o \in onSale <=>
                        \E e \in {f \in heard : f.offering = o} :
                          /\ e.status = "published"
                          /\ \A f \in {g \in heard : g.offering = o} : f.at <= e.at
    BY DEF NewestWins
  <2>1. CASE o \notin onSale /\ \A e \in heard : e.offering # o
    BY <2>1
  <2>2. CASE \E e \in heard :
               /\ e.offering = o
               /\ e.at = stamp[o]
               /\ o \in onSale <=> e.status = "published"
    <3>1. PICK e \in heard :
            /\ e.offering = o
            /\ e.at = stamp[o]
            /\ o \in onSale <=> e.status = "published"
      BY <2>2
    <3>2. \A f \in heard : f.offering = o => f.at <= e.at
      BY <3>1 DEF CatalogInv, StampIsNewest
    <3>3. \A f \in heard : (f.offering = o /\ e.at <= f.at) => f = e
      <4>1. \A f \in heard : f.at \in Nat /\ f \in Announced
        BY DEF CatalogInv, TypeOK, Announcement, Moments
      <4> QED BY <3>1, <3>2, <4>1 DEF CatalogInv, TypeOK
    <3> QED BY <3>1, <3>2, <3>3
  <2> QED BY <2>1, <2>2 DEF CatalogInv, StampIsNewest
<1> QED BY <1>1, CatalogInvAlways, PTL
=============================================================================
