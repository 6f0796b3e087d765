# Verification of r10c's order-to-cash core and of what its storefront shows

r10c is a marketplace built as a fleet of small Effect services over MongoDB. Each service owns a
store, is written in layers (`packages/business` the rules, `packages/implementation` the stores and
HTTP participants, `packages/shells/effect` the process), and takes part in *flows* that a transaction
service runs: a checkout, a cancellation, a delivery. This directory models the part of it where
money, goods and an order's state must agree although no transaction spans two services, and the two
places where a reader is shown the outcome: the buyer's browser and the storefront's catalog.

## 1. Inventory

Paths below are relative to `src/packages/` (`order-management` and its like are under `business/ts`); `PROJECT.json` gives every file in full.

| component | state it keeps | operations | interacts with | what is hard, and what makes it correct |
|---|---|---|---|---|
| **Stock ledger** (`implementation/stock/mongo`, `stock-management`) | counters per offering (on hand, reserved, version), append-only movements, reservations, claims | take, end a hold (release, convert), record, restore, sweep of expired holds | checkout and cancellation flows over HTTP; announces `stock-item.changed` | a hold is read before the unit that ends it, so a conversion, a compensation and the sweep race; the last unit is wanted twice. *Counters equal what the records say; nothing is oversold; a hold ends once; an expired one always ends.* |
| **Order store** (`implementation/order/mongo`, `order-management`) | checkout groups, orders with status and the state a cancellation claimed them from, claims, outbox | open and remove a group; place, remove, move; claim, release and settle a cancellation; mark paid | flows; the payment status projection (`payment.captured`) | requests repeat and arrive out of order; `closed` decides by an earlier read; the bus may be earlier or later than the flow. *Only legal transitions; one order per command; the receipt lists its orders; announcements follow.* |
| **Shipment store** (`implementation/fulfilment/mongo`, `shipping-order-management`) | one shipment per order in the vendor's database, with stamps | open, hold, release, withdraw, dispatch, and three courier reports | flows and the vendor's back office; announces `shipping-order.*` | dispatch and cancellation race on it: it is the lock between them. *A parcel that left is never held or withdrawn.* |
| **Payments** (`payment-management`, `implementation/payment/mongo`) | payments with their allocations, refunds, decisions remembered per command | capture, record a collection, refund | the provider; announces `payment.captured`, `payment.refunded` | the provider is called between units, and a handler may die around the call; refunds race on one share. *No more goes back than was taken; one decision per command; an order is paid once.* |
| **Flow recipes, starts and signals** (`shells/effect/flow-catalog`, `shells/effect/transaction`) | flow instances (the engine's), waits | checkout, cancellation, delivery; a consumer that answers a delivery's waits with the courier's reports | all of the above | several flows meet on one order, each sees the others only through the stores; answers are lost; reports overtake one another; windows close. *One flow passes its commit point, none is refused past it, goods go back once, the records agree at the end, every flow ends.* |
| **Settlement** (`settlement-management`, `implementation/settlement/mongo`, `shells/effect/settlement`) | a join record per order, commission lines, payouts, runs | fold four announcements; settle on an interval | the bus | arrival order; replicas settling at one time; lines folded late. *Lines depend on what was heard, never on the order; payouts equal what was settled; every line is settled.* |
| **Checkout before its commit point** (`shells/effect/flow-catalog`) | a flow instance, its slip | open a group; per vendor check, reserve, write an order; capture; sell and confirm; compensate | stock, order and payment participants | vendors' segments run side by side; an answer comes after the flow gave up; what was never answered has no id to undo it by. *Money never stands without its orders; whole or not at all; no hold outlives it.* |
| **Flow status and push** (`implementation/flow-status`, `shells/effect/realtime`) | a record per flow guarded by a version; streams | apply an event, read, push an end | the engine's events | events late, again and out of order; a push may come before the record it announces. *A status never goes back from an end.* |
| **Storefront checkout** (`shells/next/marketplace`, `lib/cart`) | one cookie jar (ticket, receipt, cart) shared by all tabs; what each tab shows | start, retry, catch up, settle, reload | the start endpoint, status reads, the stream | two tabs write one jar; a settle answers late; the ticket lapses. *A receipt is only of a completed flow; a waiting page learns the end.* |
| **Offering publication and published catalog** (`product-configuration-management`, `implementation/product-configuration`, `implementation/marketplace`, `shells/effect/marketplace`) | offerings with a status and its moment; an outbox; a projection with a stamp per offering | publish, unpublish, save, delete; apply; walk at boot | bus | announcements lost, set aside, repeated and overtaking; saves that race transitions. *The newest announcement wins; the storefront comes to agree with the store.* |
| Storefront cancellation, back-office applications | tickets of the same form; form state | — | services' APIs | not modelled: the cancellation's ticket and settle have the form of the checkout's. |
| Organization announcements | a versioned read model | announce, apply | bus | not modelled: orders by version as the published catalog does. |
| Authentication and sessions | sessions, a cursor over identity events | establish, revoke, reconcile | identity provider | a revocation missed between two polls. Not modelled yet. |
| Outbox, bus, workflow engine, HTTP edge | — | — | — | `@entifix` packages, not in the repository. Modelled by what their callers rely on. |
| Configuration, counter sales, contracts, hosts and tooling | — | — | — | not modelled: reads over SQL, a start of the checkout flow, data shapes, composition. |

`PROJECT.json` lists under `hazards` what is hard to test in this code, each at its line, with the
property that watches it.

## 2. Modules and how they correspond to the code

Every unit of work in the code is a MongoDB transaction, so one unit is one step, with its claim, its
writes and its announcement together. A handler with several units, or a read before its unit, is
several steps, and anything may happen in between. Announcements are kept as a sequence per
aggregate, in the order they were written.

- **`StockLedger`** — `items`, `holds`, `movements`, `claimed` and `outbox` are the store's collections, and
  `ending` the requests between a read and their unit. `Take` is one conditional increment with
  its claim; ending a hold is `ReadHeld` and then `Release`, `Convert`, `NotHeld` or `EndFails`;
  `Record` and `Restore` book movements; `SweepFinds` starts the same ending for a hold past its expiry.
  `Change` is the private helper every one of them goes through. Quantities are integers; time is a flag
  on a hold that `Expire` sets once.
- **`StockPromise`** — what the ledger promises a buyer, with no counters: a promise takes its quantity from what is
  free and only from there, and is then kept or withdrawn, once. `StockLedger` implements it with free as
  on hand less reserved.
- **`ProductOrder`** — `CanMove` is the transition table with the guards `shift` adds; `Place`, `Move`,
  `ClaimCancellation`, `ReleaseCancellation`, `SettleCancellation` and `MarkPaid` are the conditional
  updates. `closed` is `ReadForClose` followed by whichever branch that read chose.
- **`OrderLife`** — an order as its readers see it: the statuses it may go through, and one claim that
  is given back to where it was taken from. `ProductOrder` implements it.
- **`ShippingOrder`** — the transition table, `Open` and one `Transition` with its stamp and its
  announcement; `FlowMove` is the flows' (claimed), `CourierReport` the back office's (not claimed). It is
  checked where it is used, in `OrderFlows`.
- **`PaymentLedger`** — a handler run is a record with a program counter: it looks up a remembered
  decision, calls the provider, then opens its unit. `Dies` may end it anywhere. `charged` and
  `sentBack` are what the provider really did, which no line of the code can read.
- **`OrderFlows`** — composes `ProductOrder` and `ShippingOrder` by `INSTANCE` on one order, with the
  stock hold and the money reduced to what the flows can tell of them. The slips are sequences of steps
  taken from `catalog.ts`; each step's action is the participant's handler with the engine's reaction to
  its answer. The engine actions (`Proceed`, `Hears`, `Refused`, `Undoes`) are marked external. A flow may also stop
  half way: `GivesUp` is a participant out of reach before the commit point, upon which the flow undoes what it has an
  answer of and nothing else; `Suspends` is a step past its bound (`stepBoundMs`, ADR 0067) at a pivot, after it or while
  undoing, which leaves the flow `suspended` or `uncompensated` for a person. What such a flow had sent may still be
  carried out (`LeftAsked`): every participant's action takes a request that is *asked*, by a running flow or left under
  way by one that is not, and an answer to the latter moves nothing. A person's repair of a stopped flow is not modelled.
- **`Settlement`** — `Contribute` is `contribute` with the fold it runs; `ReadOldest` and `Settle`,
  `SettleNothing` or `SettleFails` are one pass. What other services may announce is `Announce`.
- **`CheckoutFlow`** — composes `ProductOrder` by `INSTANCE` with one reservation per vendor and one capture. `Slip` and
  `Needs` are the recipe's stages and segments. A step is `sent` when a participant has its request or may still
  get it, `heard` when the flow has its answer; the participants' actions depend on `sent` only, so a request is
  carried out at any time, after the flow turned back too. `HearRefusal`, `GivesUp` and `Strands` are the three ways a step
  fails; `Undo` goes backwards over what was heard. Once the commit point is passed, what one vendor's
  order goes through is `OrderFlows`.
- **`Storefront`** — `page` is what each tab shows and the call it has under way, `jar` the cookies a server action reads
  when it begins and writes when it answers, `status` the projection, `pushed` the stream. A flow is named by the
  idempotency key it was started under. `Settle`, `SettleReads` and `SettleAnswers` are the three moments of
  `settleCheckout`; `CatchUp` is the one read a page makes on mount.
- **`PublishedCatalog`** — `decisions` and `saves` are the requests between their read and their write; `outbox` holds every
  announcement with how it stands at the relay; `stamp` and `onSale` are the projection, `quarantine` what its own queue
  has set aside after five attempts. `Ask` takes a decision's moment, `Decide` reads the status, `Commit` writes; the moment is the
  announcement's version. `Boot` and `Reannounce` are the walk, which ends at the first row that has gone.
- **`StockLedgerProofs`, `ProductOrderProofs`, `PaymentLedgerProofs`, `OrderFlowsProofs`, `SettlementProofs`,
  `CheckoutFlowProofs`, `StorefrontProofs`, `PublishedCatalogProofs`** — section 5.

Composition: `OrderFlows` instantiates the order and the shipment store whole, and `CheckoutFlow` the order store, so their
guards and updates are the ones proved or checked by themselves. Stock and payments are modelled in full by themselves; in
the flows they are the few values a flow can tell (held, released, converted; captured, declined, refunded by whom;
collected). The two flow modules meet at the commit point: `OrderFlows` begins where `CheckoutFlow` has its pivot
answered, with one vendor's order standing and its goods held.

## 3. Runs, bounds, and what they show

All runs explore their whole state space. "V" marks a run that shows the code to differ from
what the repository says of it.

| run | instance | shows |
|---|---|---|
| `stock` | 1 offering, 2 holds, 3 movements, 2 take commands, 1 restore command | counters, ledger, announcements and the abstract promise stay in step under every race of two reserves, conversion, release, sweep and a vendor's bookings; an expired hold ends, though releases fail |
| `product_order` | 2 groups, 2 orders, 4 commands, 1 capture | any requests in any order, repeated: one order per command, receipts, and a legal life |
| `payment` | 5 handler runs on 2 orders of a basket; one capture, one collection that names an order of it again, a refund of a part and two of what is left, each delivered any number of times within the five | books balance, no more back than taken, an order paid once, any run dying anywhere |
| `payment_charged` V | as `payment`, 3 handler runs | the provider is charged twice |
| `flows` | the checkout's tail, 2 cancellations, 1 delivery; card or cash, shipped, unshipped or at a counter; any step given up, suspended or carried out late; 1 delivery of a report | one commit point, nothing refused after it, one lock, goods back once, announcements in order, four records agreeing |
| `flows_live` | 2 cancellations, 1 delivery, a cash parcel and a counter sale; 2 deliveries of a report; any step given up, suspended or carried out late | every flow ends |
| `settlement` | a card order refunded in one or two parts and a cash order; one vendor or two, one currency or two, with and without an agreement; 2 replicas | lines by what was heard, each run's payouts stay what its lines come to, every line settled |
| `checkout` | a basket of 2 vendors, paid by card, on delivery, or one of each | money has its orders, whole or not at all, every checkout and every hold ends |
| `storefront` | 2 tabs, 2 checkouts, the ticket may lapse | receipts are true, a status never goes back, pages learn the end |
| `storefront_failed` V | as `storefront`, and no ticket lapses | a page says "nothing was charged" of an order that was placed and paid |
| `catalog` | 1 offering, decisions at 2 moments after the seed's, 3 requests under way | the newest announcement wins; the storefront comes to agree |
| `catalog_rebuild` V | 1 offering, decisions at 2 moments after the seed's, 1 request under way | a withdrawal that was set aside is never repaired |

**Why the bounds are enough.** The hazards are races between two or three parties on one record: two
reserves for one unit, a conversion against a release, two refunds of one share, two cancellations and a
dispatch. The instances hold each of those, with one more to be the bystander. Two orders or offerings
tell apart what belongs to one from what belongs to the other; none of the code compares more. Commands
are bounded in number, not in when they come. `Attempts` is 5 in the code, 2 in `flows_live` (a report may be
retried, may be overtaken, and may run out) and 1 in `flows`, where a late request of a flow that stopped is what makes the
states many; with 2 attempts, both on this instance and on one cancellation and two deliveries, the same properties were checked on
1,812,528 and 521,218 states, too many for a run to be repeated often. Settlement has two lines of one order and one of another,
so a late line may be older than the one a pass read. Two vendors are the least at which one segment
fails while another goes on, and at which a basket is paid both ways. Two tabs and two checkouts are the
least at which one takes the other's ticket. One offering is enough for the catalog, whose records never
meet; two decisions after the seed's moment are the least at which two from one status land in the wrong order, and the third request under way is a save or another decision racing them. Flows of one kind are alike, hence the symmetry
set; the runs with a liveness property do not use it. `CHECK_DEADLOCK FALSE` is set where a model stops
because its commands are spent: the services themselves wait for more.

**Fairness.** `StockLedger`: the sweep is a daemon that repeats and never fails as a whole
(`reservation-sweep.ts`), so it keeps finding what expired; releases may fail, but not all of them for
ever. `OrderFlows`: the engine sends the step a running flow stands at until an answer is heard, and its
timers fire: weak fairness of each flow's `Step`. Giving up, suspending and what is carried out late are outside of it (`Fails`): they may happen or
not, so a flow ends completed, undone, stranded, suspended or uncompensated, and none runs on. Nothing is assumed of couriers, vendors, buyers or the
bus. `Settlement`: every replica repeats its pass for as long as it lives, and the store does not fail
every pass: strong fairness of some replica settling, because reads go stale in between. No message is
assumed to arrive. `CheckoutFlow`: the engine sends, hears and undoes; a participant
answers until it has; a declined capture is heard; the sweep runs for ever. Nothing forces a refusal, and nothing
forces a step to be given up. `Storefront`: both consumers of the bus are retried until they take a message, and the calls
a page makes come back, with an answer or without; the buyer owes nothing. `PublishedCatalog`: the relay sweeps for
ever and the broker is not down at each attempt (strong fairness: an entry may be set aside in between); the
consumer takes what it is sent or sets it aside, and owes nothing to what it has set aside (weak fairness of `Apply` or `Quarantine`
over what is neither heard nor set aside); the service is booted again some day and ends its walk. The vendor owes
nothing.

**Conditions inside the properties.** They are part of what the project says about the code.

- `OnePivot`, `GoodsGoBackOnce` and `RecordsAgree` hold *while the vendor's terms stand*
  (`TermsStand`): whether a cancellation holds a shipment first is worked out again from the
  entitlements of the day (`transaction/src/flow/flow-endpoints.ts:108`), so a vendor that lost its
  shipping entitlement after a shipment was opened has orders cancelled while the parcel travels.
  `docs/adr/0070-fulfilment-and-cash-on-delivery.md:68-69` speaks of serializing the two on the shipment without that
  case.
- `PivotNeverRefused` names what does strand past a commit point: a parcel that never comes back, a
  refund the provider declines after a delivery failed, and a flow that met a cancellation no shipment
  kept apart from it. The last happens at a counter or for a vendor that does not ship: a cancellation may
  claim an order from `paid`, before its own checkout confirmed it. A fourth is a delivery that met a claim left behind: a
  cancellation gave its claim up, let its parcel go, and the claim was carried out all the same; the delivery dispatches
  and then cannot mark its order. It speaks of `stranded` flows, which are those refused; a flow *suspended* or left
  *uncompensated* by a participant out of reach past the step's bound is a mode of its own, may be any flow, and no property
  says that it does not happen.
- `RecordsAgree` speaks of the time when every flow has ended by itself (completed, undone or never started), so not of a
  stranded or suspended one, which waits for a person. It names what is left by a flow that was undone while a request of
  its was under way (`Stray`): the order stays `cancelling`, the parcel `held`, or a parcel left under an order that did not move.
  Compensation undoes the calls that succeeded (ADR 0052), and a call nobody heard of is not one of them; no sweep looks for such an order.
- `WhollyReversed` leaves out orders refunded in two parts: the second refund writes over the
  first, and the reversal mirrors only one.
- `AllOrNothing` names what an undone checkout may leave behind, which is only what it never had an answer of: an
  order placed after the flow gave it up stays pending for good (there is no id to remove it by and no sweep of
  orders), a hold stays until the sweep, a group stays open and empty-handed. `MoneyHasOrders` has no exception.
- `PagesAreTrue` lets a page speak of a failure that was none where another checkout, or the half hour, took
  its ticket (`storefront_failed` shows it). `PagesLearn` leaves out a page that lost its push or its read, and one whose
  push came before the record: the page then settles, is told `pending`, and asks no more, although its
  text says that it updates on its own.
- `StorefrontCatchesUp` leaves out a withdrawal the relay set aside (`catalog_rebuild`), any announcement the
  storefront's own queue set aside (`publish-catalog.ts:22`: the outbox entry reads sent, so the walk answers
  `alreadyAnnounced`, and only a person's replay brings it back), and an offering whose store was put out of
  step with what was announced of it: by a commit that landed with an earlier moment, a save that wrote an older
  status back, or a delete.
- `EveryLineSettles` leaves out the time during which some vendor's unsettled lines are in two
  currencies: `payoutFor` then fails the unit, which is every vendor's.

## 4. Findings

Three runs show a disagreement with a sentence of the repository (quoted in `PROJECT.json`): a redelivered
capture charges twice; a page says that nothing was charged when another tab took its ticket; a withdrawal set
aside is never announced again by the walk.

Met while modelling, and stated above or left without a run of their own:

- A return is recorded from `refused` only (`shipping-transition.ts`), while the comments at
  `shipping-transition.ts:33-35` and `shipping-status.ts:8-9` speak of delivered parcels too.
- A `returned` report that overtakes a retried `refused` one meets a wait that does not listen for
  it and is let go (`shipping-signals.ts:76`, against the comment at 53-55); the return window then
  strands the flow.
- When `payment.captured` is folded after the checkout confirmed the order, `markPaid` moves nothing and
  `paidAt` is never set (`product-order-store.ts:387`, against `order-transition.ts:35-37`).
- `remove` deletes the order and leaves its id in the group's `orderIds` (`product-order-store.ts:263`), against
  `ports/product-order-store.ts:45` and `order-fragments.ts:54-55`.
- A refund whose first delivery died between the provider and the ledger is answered as declined for ever
  (`take-payment.ts:270`), and nobody declined it, against `payment-provider.ts:87-89` and `payment-fragments.ts:139-140`.
- A conversion of a hold that ran out answers 200 (`stock-api.ts:211`), so a cancellation may later restore goods
  that were never sold, against `docs/adr/0058-the-order-after-payment.md:287`.
- Two decisions from `published` both commit, since the compare is on the status alone, against
  `ports/offering-catalog.ts:18`; and a save that races a transition writes the old status back, against
  `catalog-api.ts:150-151`. Deleting a published offering announces nothing, so the storefront goes on selling it; and one that
  lost its price cannot be unpublished.
- A claim of an order, or a hold of a parcel, that is carried out unheard or after its cancellation gave it up stays for good: the order
  is `cancelling`, or the parcel `held`, and no flow and no sweep ends it (`RecordsAgree`).
- A 202 that is lost reads as "could not be started", and the next attempt takes a fresh key: two flows. A retry
  of a failed flow under its ticket is the same failed flow. A settle clears the cart and the ticket whatever they hold by
  then. A suspended or stranded flow reads as pending.

## 5. Proofs

Eight modules, 11,812 obligations, each theorem for every value of the constants that the named assumptions
allow. Every invariant and every action property that a passing run checks is a theorem here.

| module | assumes | theorems |
|---|---|---|
| `StockLedgerProofs` (950) | the assumptions `StockLedger` names: take and restore commands are disjoint, every command names an offering and a positive quantity, ids of holds and of movements are apart and none is `None`, vendor quantities are integers with listed reasons | `TypeCorrect`, `ReservedIsHeldAlways`, `OnHandIsLedgerAlways`, `NoOversellAlways`, `OneDecisionAlways`, `EveryVersionAlways`, `LedgerImplementsPromise` |
| `ProductOrderProofs` (830) | nothing | `TypeCorrect`, `OneOrderPerCommandAlways`, `ListedByItsGroupAlways`, `VersionsFollowAlways`, `StoreImplementsLife` |
| `PaymentLedgerProofs` (986) | commands of the three kinds are apart and no delivery is `None` (`CommandsApart`); a taking names at least one order, shares are numbers, a refund names an order (`SharesArePaid`) | `TypeCorrect`, `BooksBalanceAlways`, `NeverMoreBackAlways`, `PaidOnceAlways` |
| `OrderFlowsProofs` (5,586) | placements are those the recipes tell apart, reports are tried at least once, flows of different kinds have different names (`ConstantsMakeSense`) | `TypeCorrect`, `LockHeldAlways`, `OnePivotAlways`, `PivotNeverRefusedAlways`, `GoodsGoBackOnceAlways`, `RecordsAgreeAlways`, `AnnouncementsFollowAlways`, `FlowsUseStore`, `OrderLivesOn` |
| `SettlementProofs` (877) | a cut is no more than the price, a part refunded less than it (`PlacementsAssumption`) | `TypeCorrect`, `LedgerIsOrderFreeAlways`, `WhollyReversedAlways`, `PayoutsAreLedgerAlways` |
| `CheckoutFlowProofs` (1,332) | a basket is paid by card or on delivery | `TypeCorrect`, `MoneyHasOrdersAlways`, `AllOrNothingAlways`, `FlowUsesStore`, `OrdersLiveOn` |
| `StorefrontProofs` (668) | no key is the value for none | `TypeCorrect`, `PagesAreTrueAlways`, `StatusForward` |
| `PublishedCatalogProofs` (583) | the bounds are numbers | `TypeCorrect`, `NewestWinsAlways` |

**Stock.** A sum over the records of a set is awkward for the provers, so the properties state it as a
cardinality: `Units(id, n)` is a set of n units, and the held quantity of an offering is the size of the
disjoint union of its holds' units; likewise for movements in, out, and written off by hand. None of the
three invariants is inductive alone: availability does not follow from its own past, but from what the
counters stand for. The strengthening is `AllCounted`: for every offering, `Counted` says that the four
sets of units are finite, that the reserved counter is the size of the held units, that the on-hand
counter is units in less units out, and that availability plus units written off is not negative. With
`TypeOK` it is inductive. `AddUnits` and `RemoveUnits` are the two facts about cardinalities that carry it;
`HoldTaken`, `HoldEnded` and `MovementAppended` say what a take, an ending and a booking do to the sets;
`TakeCounted`, `ReleaseCounted`, `ConvertCounted` and `MovementCounted` combine them with `CountersMoved`,
one per way of writing. An ending removes its units once because the unit checks again that the hold is
held, whatever was read before; a booking's id is fresh, so its units are new. `OneDecisionAlways` is inductive with
the claims; `EveryVersionAlways` follows from `Change` announcing the version it writes. The refinement is
proved step by step: `FreeMoved` and `PromiseEnds` turn what an action writes into what the promise's action
writes, and the other actions stutter.

**Orders.** The inductive invariant `StoreInv` adds to the two properties what ties the records together:
an order that exists has its command claimed, what a claim was taken from is there to go back to
(`OrdersAreKept`); a group lists only orders placed into it and an open one all of them
(`GroupsAreKept`); how much was announced of an order follows from how it stands (`OutboxIsKept`), without which neither
the versions nor the refinement to `OrderLife` hold. One lemma per action, three of them through `Rewritten`.

**Payments.** Sums are cardinalities, as in the stock ledger. `TypeOK` is not inductive alone: that a handler never asks for a
refund of less than nothing rests on the books. `LedgerInv` says how far a run got and so what it wrote (`CallsStand`), that
records and the decisions remembered are of each other (`RecordsAreClaimed`, `ClaimsAreRecorded`), that what the provider
sent back is never let go of, even when its run died between the provider and the ledger (`SentIsKept`), and that the
share taken back is the units of the refunds that are not declined, never more than was captured (`BooksKept`). The last is
where the race is: two runs that read the same share both ask, and the guard of the unit lets in the one that still fits.
`NeverMoreBackThanTaken` is then a subset of the units the books count. `PaidByOne` needs `PaidIsAllocated`: a captured payment
holds every order it names, so the unique index refuses another.

**Flows.** `FlowsInv` speaks of `DoneBy`, the steps each flow *did* (whatever it heard), read off the records and their claims.
`SlipsOK` says, per kind of flow, where its slip may stand and what it has then done: what is behind it is done, what is ahead is
not, but for the step at its head, whose answer may have been lost; what it holds is still to be undone, or let go of.
`OrderOK` and `ParcelOK` say what the order's status and the parcel's are in terms of what *all* the flows did: one
cancellation at most holds either, the order is `cancelling` exactly while one does, the parcel is gone exactly when
one delivery dispatched it. `CourierOK` ties the branch of a delivery to its parcel; `ClosingOK` says that what a `closed` request
read still stands when its unit opens; `StrandedOK` why a flow is stranded; `HoldOK` that the goods are held only until the
checkout's conversion was answered. What a flow turned from and was carried out late is the step at the head of its slip
(`Ahead`), so a claim that outlives its flow is one that `Lingers`: it still holds the order in `OrderOK`, but its parcel may have been
let go, which is the one way two commitments to one order can meet, and a cancellation past its commit point never lingers. The order store's part (`P!StoreInv`) is taken over from
`ProductOrderProofs` by `StoreStep`. The proof has three layers: what a table of slips says of a next step, an answer, a refusal and an
undoing (`CancellationAnswered`, `DeliveryRefused`, ...), what a change of the order or the parcel leaves of `OrderAt` and
`ParcelAt` (`OrderClaimed`, `ParcelMoves`, ...), and one lemma per action (`ClaimKeeps`, `DispatchKeeps`, ...) that puts
them together. The properties follow: two flows past their commit points would both hold the parcel, or one would hold what the
other dispatched, unless a cancellation passed the shipment by, which is what `TermsStand` excludes. `RecordsAgree` takes one fact more, by an induction of its own on top of `FlowsInv`: cash was recorded by a
delivery past its commit point (`CashIsTaken`, with `PastKeeps`: no step takes a flow back behind its commit point). `OrderLivesOn` carries
the refinement of `OrderLife` through: under any number of flows an order does not move while it is claimed.

**Settlement.** `SettlementInv` says of each order's join record that it is what was heard (`Joins`), of its lines that they are
what the join completed, to the amounts of the order (`Lines`), and that the units of all lines are finite. That a line is stamped once
keeps the total of an earlier run: a later fold adds unstamped lines, a later run stamps only those. `RoundedWhole` is the
arithmetic: a share of the whole rounds to itself, at any price. Two replicas that read the same oldest line need no case of their
own, since the second stamps what is unstamped *then*.

**Checkout.** Each step of the flow is a step of the order store or leaves it alone (`StoreStep`), so `StoreInv` is taken over
from `ProductOrderProofs` by `INSTANCE` and not proved again. What the flow adds is `Rest`: whatever was heard was done and
whatever was done had been asked for (`GroupAsked`, `HoldsAsked`, `OrdersAsked`, `MoneyAsked`); nothing turns
back while money may be taken (`NoWayBack`); what was not to be undone stands (`Standing`); what was undone is gone
(`UndoingDone`). The heart is `BeforePivot`: once the capture was asked for, every step before it was heard, so nothing is left
that could be refused or given up but the capture itself.

**Storefront.** A page is right by what was read when its call began, and the jar may have changed since. `SiteInv` says of each
page, by where it stands, what must be true of its flow or of the jar for it to stand there (`PageStands`,
`FailedStands`), that an end was announced by the flow that came to it (`EndsAreTrue`), and that while there has been one
checkout only, one tab at most is about it (`OneTab`).

**Catalog.** `CatalogInv` says that moments are not given twice (`Moved`: a decision under way has a moment no other
decision, row or announcement has, and none is yet to come), that a row a decision made was announced
(`RowsStand`), and that the stamp of an offering is the newest moment heard of it (`StampIsNewest`). Then the newest wins whatever order announcements come in.

Only model-checked: all liveness (`ExpiredHoldEnds`, `FlowsEnd`, `EveryLineSettles`, `Settles`, `PagesLearn`,
`StorefrontCatchesUp`), since reasoning about fairness and `ENABLED` is out of the prover's reach, and so is induction
over data. The three runs that show a disagreement have no theorem, their properties being false. No module declares a
RECURSIVE operator; sums are cardinalities of disjoint unions wherever a theorem is about one.

What the proofs asked of the models: the flows' slips and branches are written out as tuples per kind of order (a
sequence put together with an IF at every place has no form a prover can read), and the totals of a payout and of
a refund are cardinalities instead of folds. `PayoutsAreLedger` speaks of each run's lines, which is more than the sum over
all runs that stood there before: the sum would allow a run to pay for another's lines.

## 6. Not modelled, and why

Formatting, links, receipts' content, scopes, capabilities and envelopes change no state. The engine, the edge's
memory of requests, the outbox and the bus are outside the repository: the models assume that a step is
sent until answered or given up, that an endpoint idempotent at the edge runs once per key, that a unit and its claim are
one transaction, and that messages are delivered at least once unless the relay sets them aside. A late duplicate of a
request that was carried out is a claimed command and changes nothing. An order has one vendor and one currency in `Settlement`, as the
checkout splits a basket; a vendor's lines of goods are one hold in the flows. Which amounts the simulated
provider declines is a free choice. A storefront page that shows a failure goes on listening to the stream until it is left, and would settle
once more on a late push; the model's page no longer listens. What a person does about a stranded, suspended or
uncompensated flow, and a replay of the storefront's quarantine other than as another delivery, are not modelled. A flow-status record retired by its age, an offering without a price and its
creation, stream audiences and resuming a stream are left out.

The share of the repository's lines the models stand for is small because most of them are user
interface, translations, seeds, data shapes, wiring and generators: they keep no state that two parties
change. The parts with such state that are left are sessions and their reconciler, the organizations' read
model and the cancellation from the receipt, each of them named above with its reason.

## 7. Plan

Done in this order: stock (with its promise), orders (with their life), shipments, payments, flows, settlement,
the checkout before its commit point, the storefront, the catalog; proofs of stock, orders, the checkout, the storefront,
the catalog, payments, settlement and the flows. Next:

1. **Abstract specifications** — `MoneyPromise` (what an order's money may do) implemented by
   `PaymentLedger`; `OrderOutcome` (confirmed, then delivered or cancelled, once) implemented by
   `OrderFlows`; both by refinement lemmas on top of `LedgerInv` and `FlowsInv`.
2. **Sessions** — the reconciler behind its cursor.
