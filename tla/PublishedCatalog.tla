--------------------------- MODULE PublishedCatalog ---------------------------
(***************************************************************************)
(* Putting an offering on sale and taking it down: the two transitions in  *)
(* the vendor's own store (offering-flows.ts, offering-catalog.ts), the    *)
(* announcement that leaves with each through an outbox, the projection    *)
(* the storefront reads (published-catalog.ts), and the walk over the      *)
(* stores that repeats announcements at boot (ADR 0050).                   *)
(*                                                                         *)
(* An announcement is named by its offering and its moment, which is also  *)
(* its version.  Decisions are made at moments of their own: the code has  *)
(* them in milliseconds and off one clock.  The relay's order within an    *)
(* offering is not relied on: a redelivery breaks it.                      *)
(***************************************************************************)
EXTENDS Naturals, FiniteSets

CONSTANTS
  Offerings,    \* offerings of one vendor
  LastMoment,   \* bound: the last moment a decision is made at
  InFlight      \* bound: decisions and saves under way at one time

ASSUME BoundsAreNat == LastMoment \in Nat \ {0} /\ InFlight \in Nat

None == "none"

VARIABLES
  store,      \* offering -> its status, and the moment that was decided at
  decisions,  \* transitions asked for and not committed, `from` None before they read
  saves,      \* saves between the read that carries the status over and their write
  outbox,     \* announcement -> how it stands with the relay
  quarantine, \* announcements the projection's own queue has set aside
  heard,      \* announcements the projection was ever given
  stamp,      \* offering -> the moment its projected record stands at
  onSale,     \* offerings the storefront shows
  walk,       \* rows the rebuild has read and not yet announced again
  now

vars == <<store, decisions, saves, outbox, quarantine, heard, stamp, onSale, walk, now>>

vendor == <<store, decisions, saves, now>>
shop   == <<quarantine, heard, stamp, onSale>>

-----------------------------------------------------------------------------
Statuses == {"draft", "published", "unpublished"}

(* offering-transition.ts *)
After ==
  [publish   |-> [draft |-> "published", published |-> "published",
                  unpublished |-> "published"],
   unpublish |-> [published |-> "unpublished"]]

Moments == 1 .. LastMoment

(* The moment of what the seed stores, before any decision. *)
Seeded == 1

Deleted == [status |-> None, at |-> 0]

Row == [status : Statuses, at : 0 .. LastMoment]

Decision ==
  [offering : Offerings, transition : DOMAIN After, from : Statuses \cup {None},
   to : {"published", "unpublished", None}, at : Moments]

Announcement == [offering : Offerings, status : {"published", "unpublished"}, at : Moments]

(* The announcement a row was stored with. *)
NewsOf(o) == [offering |-> o, status |-> store[o].status, at |-> store[o].at]

Announced == DOMAIN outbox

Newest(o) ==
  LET mine == {e \in Announced : e.offering = o}
  IN  CHOOSE e \in mine : \A f \in mine : f.at <= e.at

(* One announcement to an offering and a moment, every moment a row carries  *)
(* is the seed's or was announced, and a takedown always was.                *)
TypeOK ==
  /\ store \in [Offerings -> Row \cup {Deleted}]
  /\ decisions \subseteq Decision
  /\ \A d \in decisions : d.from # None => d.to # None
  /\ \A s \in saves : s.offering \in Offerings /\ s.row \in Row
  /\ Announced \subseteq Announcement
  /\ \A e \in Announced : outbox[e] \in {"pending", "sent", "quarantined"}
  /\ \A e, f \in Announced : (e.offering = f.offering /\ e.at = f.at) => e = f
  /\ \A o \in Offerings :
       store[o].at > Seeded \/ store[o].status = "unpublished" => NewsOf(o) \in Announced
  /\ heard \subseteq Announced
  /\ quarantine \subseteq Announced \ heard
  /\ stamp \in [Offerings -> 0 .. LastMoment]
  /\ onSale \subseteq Offerings
  /\ \A w \in walk : w.offering \in Offerings /\ w.at \in Moments
  /\ now \in Moments

(* A new offering is a draft; the seed writes published ones nobody          *)
(* announced.                                                                *)
Init ==
  /\ store \in [Offerings -> {[status |-> "draft", at |-> 0],
                              [status |-> "published", at |-> Seeded]}]
  /\ decisions = {}
  /\ saves = {}
  /\ outbox = [e \in {} |-> None]
  /\ quarantine = {}
  /\ heard = {}
  /\ stamp = [o \in Offerings |-> 0]
  /\ onSale = {}
  /\ walk = {}
  /\ now = Seeded

-----------------------------------------------------------------------------
(* The two transitions *)

UnderWay == Cardinality(decisions) + Cardinality(saves)

(* transitionOfferingFor takes its moment before it reads anything. *)
Ask(o, transition) ==
  /\ UnderWay < InFlight /\ now < LastMoment
  /\ now' = now + 1
  /\ decisions' = decisions \cup
       {[offering |-> o, transition |-> transition, from |-> None, to |-> None, at |-> now']}
  /\ UNCHANGED <<store, saves, outbox, shop, walk>>

(* transitionOffering: refused where it is not legal (Dropped), and          *)
(* otherwise to be committed over what it read.  Every offering has its      *)
(* price and its specification here: without them nothing about it can be    *)
(* announced.                                                                *)
Decide(d) ==
  /\ d.from = None
  /\ store[d.offering].status \in DOMAIN After[d.transition]
  /\ decisions' = (decisions \ {d}) \cup
       {[d EXCEPT !.from = store[d.offering].status,
                  !.to   = After[d.transition][store[d.offering].status]]}
  /\ UNCHANGED <<store, saves, now, outbox, shop, walk>>

Enqueue(e) == [f \in Announced \cup {e} |-> IF f = e THEN "pending" ELSE outbox[f]]

(* A bug in the next definition: the announcement is left to follow the      *)
(* write.                                                                    *)
CommitQuiet(d) ==
  /\ d.from # None
  /\ decisions' = decisions \ {d}
  /\ store[d.offering].status = d.from
  /\ store' = [store EXCEPT ![d.offering] = [status |-> d.to, at |-> d.at]]
  /\ UNCHANGED <<saves, now, shop, walk, outbox>>

(* commitTransition: one unit, and only while the status is the one it was   *)
(* decided from.                                                             *)
Commit(d) ==
  /\ d.from # None
  /\ decisions' = decisions \ {d}
  /\ store[d.offering].status = d.from
  /\ store' = [store EXCEPT ![d.offering] = [status |-> d.to, at |-> d.at]]
  /\ outbox' = Enqueue([offering |-> d.offering, status |-> d.to, at |-> d.at])
  /\ UNCHANGED <<saves, now, shop, walk>>

(* Refused; `changed`: another landed first; or the request failed. *)
Dropped(d) ==
  /\ decisions' = decisions \ {d}
  /\ UNCHANGED <<store, saves, now, outbox, shop, walk>>

-----------------------------------------------------------------------------
(* The record API: saves and deletes *)

(* preserveOfferingLifecycle *)
ReadToSave(o) ==
  /\ UnderWay < InFlight
  /\ store[o] # Deleted
  /\ saves' = saves \cup {[offering |-> o, row |-> store[o]]}
  /\ UNCHANGED <<store, decisions, now, outbox, shop, walk>>

(* The whole document is written, with the status that was read. *)
Save(s) ==
  /\ saves' = saves \ {s}
  /\ store[s.offering] # Deleted
  /\ store' = [store EXCEPT ![s.offering] = s.row]
  /\ UNCHANGED <<decisions, now, outbox, shop, walk>>

SaveFails(s) ==
  /\ saves' = saves \ {s}
  /\ UNCHANGED <<store, decisions, now, outbox, shop, walk>>

(* Deleting announces nothing. *)
Delete(o) ==
  /\ store[o] # Deleted
  /\ store' = [store EXCEPT ![o] = Deleted]
  /\ UNCHANGED <<decisions, saves, now, outbox, shop, walk>>

-----------------------------------------------------------------------------
(* The relay: an entry is sent, or set aside when its attempts run out *)

Sent(e, as) ==
  /\ e \in Announced /\ outbox[e] = "pending"
  /\ outbox' = [outbox EXCEPT ![e] = as]
  /\ UNCHANGED <<vendor, shop, walk>>

-----------------------------------------------------------------------------
(* The projection *)

Shows(e) ==
  onSale' = IF e.status = "published" THEN onSale \cup {e.offering} ELSE onSale \ {e.offering}

(* A bug in the next definition, as the code once had it: only a publication *)
(* leaves its moment.                                                        *)
ApplyUnmarked(e) ==
  /\ e \in Announced /\ outbox[e] = "sent"
  /\ heard' = heard \cup {e}
  /\ quarantine' = quarantine \ {e}
  /\ IF e.at < stamp[e.offering]
     THEN UNCHANGED <<stamp, onSale>>
     ELSE /\ stamp' = IF e.status = "published" THEN [stamp EXCEPT ![e.offering] = e.at]
                                                ELSE stamp
          /\ Shows(e)
  /\ UNCHANGED <<vendor, outbox, walk>>

(* `apply`: in any order and again, a replay out of the quarantine included; *)
(* what is older than the stamp changes nothing, and every other writes it.  *)
Apply(e) ==
  /\ e \in Announced /\ outbox[e] = "sent"
  /\ heard' = heard \cup {e}
  /\ quarantine' = quarantine \ {e}
  /\ IF e.at < stamp[e.offering]
     THEN UNCHANGED <<stamp, onSale>>
     ELSE stamp' = [stamp EXCEPT ![e.offering] = e.at] /\ Shows(e)
  /\ UNCHANGED <<vendor, outbox, walk>>

(* Five attempts failed: the queue sets the announcement aside.  The outbox  *)
(* is not told, and goes on reading it as sent.                              *)
Quarantine(e) ==
  /\ e \in Announced \ heard /\ outbox[e] = "sent"
  /\ quarantine' = quarantine \cup {e}
  /\ UNCHANGED <<vendor, outbox, heard, stamp, onSale, walk>>

-----------------------------------------------------------------------------
(* The walk, at boot *)

(* rebuildPublications: a page of what stands published, each at its own     *)
(* moment.                                                                   *)
Boot ==
  /\ walk = {}
  /\ walk' = {[offering |-> o, at |-> store[o].at] :
                o \in {p \in Offerings : store[p].status = "published"}}
  /\ UNCHANGED <<vendor, outbox, shop>>

(* A bug in the next definition: what the outbox holds is left as it is.     *)
ReannounceNew(w) ==
  /\ walk' = IF store[w.offering] = Deleted THEN {} ELSE walk \ {w}
  /\ LET e == [offering |-> w.offering, status |-> "published", at |-> w.at]
     IN  IF store[w.offering] = Deleted \/ e \in Announced
         THEN UNCHANGED outbox
         ELSE outbox' = Enqueue(e)
  /\ UNCHANGED <<vendor, shop>>

(* The row is decided again, at the moment that was read; one gone since     *)
(* ends the whole walk.  An announcement the outbox never had is put on it,  *)
(* one that was set aside gets another life, any other stays; its name is    *)
(* the offering and the moment.                                              *)
Reannounce(w) ==
  /\ walk' = IF store[w.offering] = Deleted THEN {} ELSE walk \ {w}
  /\ LET e == [offering |-> w.offering, status |-> "published", at |-> w.at]
         same == {f \in Announced : f.offering = w.offering /\ f.at = w.at}
     IN  IF \/ store[w.offering] = Deleted
            \/ \E f \in same : outbox[f] # "quarantined"
         THEN UNCHANGED outbox
         ELSE outbox' = IF same = {} THEN Enqueue(e)
                        ELSE [f \in Announced |-> IF f \in same THEN "pending" ELSE outbox[f]]
  /\ UNCHANGED <<vendor, shop>>

-----------------------------------------------------------------------------
Relay == \E e \in Announced : Sent(e, "sent") \/ Sent(e, "quarantined")

VendorActs ==
  \/ \E o \in Offerings :
       \/ Ask(o, "publish") \/ Ask(o, "unpublish")
       \/ ReadToSave(o) \/ Delete(o)
  \/ \E d \in decisions : Decide(d) \/ Commit(d) \/ Dropped(d)
  \/ \E s \in saves : Save(s) \/ SaveFails(s)

Next ==
  \/ VendorActs
  \/ Relay \/ \E e \in Announced : Apply(e) \/ Quarantine(e)
  \/ Boot \/ \E w \in walk : Reannounce(w)

Spec == Init /\ [][Next]_vars

(* The relay sweeps for ever and the broker is not down at every attempt;    *)
(* the consumer takes what it is sent or sets it aside, and owes nothing to  *)
(* what it set aside; the service is booted again some day and finishes its  *)
(* walk.  The vendor owes nothing.                                           *)
Fairness ==
  /\ SF_vars(\E e \in Announced : Sent(e, "sent"))
  /\ WF_vars(\E e \in Announced \ (heard \cup quarantine) : Apply(e) \/ Quarantine(e))
  /\ WF_vars(Boot)
  /\ WF_vars(\E w \in walk : Reannounce(w))

FairSpec == Spec /\ Fairness

-----------------------------------------------------------------------------
(* Properties *)

(* Whatever order its announcements come in, how often, and whatever the     *)
(* walk repeats, the storefront shows an offering exactly when the newest it *)
(* was told of it is a publication: nothing withdrawn comes back.            *)
NewestWins ==
  \A o \in Offerings :
    LET mine == {e \in heard : e.offering = o}
    IN  o \in onSale <=>
          \E e \in mine : e.status = "published" /\ \A f \in mine : f.at <= e.at

(* The vendor's store stands where the newest announcement of it says, or is *)
(* as the seed left it.                                                      *)
InStep(o) ==
  \/ NewsOf(o) \in Announced /\ NewsOf(o) = Newest(o)
  \/ /\ \A e \in Announced : e.offering = o => e = NewsOf(o)
     /\ store[o] # Deleted

Agrees(o) == o \in onSale <=> store[o].status = "published"

SetAside(o) == NewsOf(o) \in Announced /\ outbox[NewsOf(o)] = "quarantined"

(* Once a vendor leaves an offering be, the storefront comes to show it just *)
(* as its store has it, though announcements were lost on the way to the bus *)
(* and never made at all; except one whose newest announcement the           *)
(* projection's own queue set aside, which nothing sends again, a withdrawal *)
(* the relay set aside, and an offering whose store a late commit, a save or *)
(* a delete has put out of step with what was announced.                     *)
StorefrontCatchesUp ==
  \/ []<><<VendorActs>>_vars
  \/ \A o \in Offerings :
       <>[](\/ Agrees(o) \/ ~InStep(o)
            \/ NewsOf(o) \in quarantine
            \/ SetAside(o) /\ store[o].status = "unpublished")

(* What the walk's record says of it: it repairs what the relay set aside    *)
(* (what the projection's queue set aside it does not speak of).             *)
WalkRepairs ==
  \/ []<><<VendorActs>>_vars
  \/ \A o \in Offerings : <>[](Agrees(o) \/ ~InStep(o) \/ NewsOf(o) \in quarantine)
=============================================================================
