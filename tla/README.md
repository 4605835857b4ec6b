# A TLA+ verification project for Taven

Taven quotes, sells, prints and ships 3D-printed parts.  Its backend is a NestJS
application over PostgreSQL (Prisma plus a large body of SQL triggers), BullMQ
and an S3 bucket; a separate slicer worker turns models into G-code, and a set
of small worker processes runs the outboxes, the deadlines and the retention
jobs.  Almost every guarantee the product makes - no customer pays twice, no
refund is sent twice, nothing paid is lost, no confirmed upload is deleted - is
kept by several processes that share database rows, leases and an outside
service, and by the order in which their transactions commit.  That is what
this project models.

The modules are TLA+ specifications translated from the TypeScript and the SQL.
TLC checks them on small instances; the safety properties that carry the money,
the capacity, the customers' files, the lifecycles and the services around them
are proved with TLAPS for every value of their constants.
`PROJECT.json` maps each definition to the lines it models, and lists the runs,
the mutants that show each property can fail, the findings, the hazards and the
theorems.

## How to run it

    tlc -workers 2 -config MCRefunds_races.cfg MCRefunds
    tlapm RefundsProofs.tla

Every run is one `MC*` module with one configuration, named in `PROJECT.json`
under `runs` (`lock_release` runs `LockOrder` itself).  The two runs that are expected
to end in a violation each document a disagreement between the code and what the
repository says of it; see *Disagreements*.

## Inventory

| Part | State it keeps | Operations | Hard behaviour | What makes it correct |
|---|---|---|---|---|
| Refund execution (`payment-outbox-dispatcher.service.ts`, SQL `taven_claim_refund_dispatch`, `taven_apply_refund_provider_result`, the refund commands of `orders.service.ts`) | `refund_transactions`, dispatch claims, provider receipts, payment status, outbox messages | request, dispatch, record a result, retry, suspend | a provider that cannot be replayed, expired leases, late and double success | one transfer per attempt, no success forgotten, totals within the capture |
| Checkout payments (`payments.service.ts`, `checkout-payment-deadline.service.ts`) | payments, order status, reservation set, provider events, void and refund commands | create, retry, webhook, cancel, expire, void, compensate | webhooks that read, release, plan and reacquire; late money; lost answers | one winning payment, a paid order holds its capacity, every other crown is returned |
| Uploads and retention (`upload.service.ts`, `retention.service.ts`) | upload intents, assets, deletion jobs, bucket objects | initiate, preflight, promote, reject, expire, hold, delete | copies that outlive their request, lost leases, two deletion passes | confirmed bytes survive, everything else is deleted |
| Slicing (`slicing-queue.publisher.ts`, `slicing-result-ingestion.service.ts`, `apps/slicer-worker`) | dispatch outbox, BullMQ entries, receipts, artifacts, dead letters | publish, consume, reconcile, ingest, dead-letter | cancellation while a slice is in the queue, retries, stalls | sealed G-code stays, a result leaves a trace, an accepted job ends |
| Orders and fulfilment (`orders.service.ts`, `packages/core/src/lifecycle`) | jobs, shipments, claims, replacements, adjustments | accept, print, QC, pack, ship, claim, reprint, cancel | operator commands against carrier events and deadlines | a part is delivered or paid back, once |
| Reservations and eligibility (`resources/`) | reservation sets, intervals, inventory lots, estimates | reserve, hold, consume, release, expire | competition for capacity, time to live, row locks | capacity is never sold twice; no circle of waiting, where locks are asked for in order |
| Quotes (`quotes/`, `automatic-quotes/`) | requests, offers, drafts, capabilities | offer, reissue, accept, withdraw, convert | acceptance against expiry and reissue | one order per accepted offer |
| Legal documents, operator authentication, measurement, the carrier's feed | revisions and publications, sessions, timers, a copy of the pickup points | publish, archive, accept, log in, revoke, time work, refresh | two clocks, repeated callbacks, stale copies, parallel validation | a customer accepts the text in force, one login is one session, an accepted point exists |
| Core package (`packages/core`) | none | transition policies, pricing, allocation, lock order | rounding, boundaries | sums are exact, lock targets are ranked |
| Slicer mathematics, user interfaces, reports, configuration | - | - | - | outside this project, see *Not modelled* |

How the parts interact.  HTTP commands change rows in one transaction and write
outbox messages in it.  The workers lease messages (`PROCESSING` with an
`attempts` count and an expiry), act on the outside world *between* two
transactions, and write the outcome in a second one.  Webhooks from the payment
provider and results from the slicer queue come back as transactions of their
own.  The database triggers are a second implementation of the same rules: a
service that breaks one has its transaction rolled back.  The hard behaviours are therefore
stale reads between two transactions, leases that run out under a
live worker, calls that succeed although the caller saw an error, answers that arrive
after a deadline, and triggers that refuse what a service needs to write.

## Modules

| Module | Models | Run | Proved in |
|---|---|---|---|
| `Refunds` | refund attempts of one captured payment, dispatchers, operators, provider | `refund_races`, `settling` | `RefundsProofs` |
| `CheckoutPayments` | the payments of one automatic order, its reservation, webhooks, cancellation, deadline, voids, compensation | `checkout_races`, `checkout_deadline` | `CheckoutProofs` |
| `Retention` | upload intents, promotion, assets, deletion jobs, the bucket | `retention` | `PlatformProofs` |
| `SlicingDispatch` | the production slices of one paid order: dispatch outbox, queue, slicer worker, result ingestion, operator commands | `slicing`, `slicing_refund` | `SlicingProofs` |
| `LifecycleOrder` | order, phase, job and shipment policies of `packages/core` | `refund_races` | `LifecycleProofs` |
| `LifecyclePayment`, `LifecycleClaim`, `LifecycleQuote` | the payment, claim and quote request policies | `lifecycle` | `LifecycleProofs` |
| `Fulfilment` | one confirmed order as `orders.service.ts` and the deferred triggers drive it | `fulfilment` | `FulfilmentProofs` |
| `Promise` | abstract: each slot's goods or its money | `fulfilment` (refined by `Fulfilment`) | `FulfilmentProofs` |
| `AutomaticQuotes` | one automatic quote session: draft, validation, binding, reservation, checkout | `lifecycle` | `LifecycleProofs` |
| `ReferencePreparation` | the slices a price waits for and the search for the plate's capacity | `settling` | - |
| `ResourcePlanning` | the searches for a plan and for machine time, against their definitions | `resources` | - |
| `Resources` | candidate estimates, reservations and prints of a machine, and its catalog | `resources` | `ResourceProofs` |
| `LockOrder` | the row locks of the transactions over machines and lots | `resources`, `lock_release` | `ResourceProofs` |
| `RecoveryPreparation` | fresh estimates for a failed job or lost parcel, and the commands that consume them | `refund_races` | `ResourceProofs` |
| `QuoteRequests` | assisted requests, their models, offers, acceptance, expiry, handoff | `resources` | `ResourceProofs` |
| `IndividualOrders` | resources and first payment of an accepted individual offer | `resources` | `ResourceProofs` |
| `LegalDocuments` | revisions, publications and acceptances of one legal document | `platform` | `PlatformProofs` |
| `OperatorAuth` | login attempts, callbacks, sessions, revocation | `platform` | `PlatformProofs` |
| `DeliveryFeed` | the copy of the carrier's points and the parallel validation of parcels | `platform` | `PlatformProofs` |
| `Measurement` | handling timers, their allocation to orders, cost evidence | `platform` | `SlicingProofs` |
| `ShipmentPlanning`, `Pricing`, `Offers` | packing, prices, gross-up, allocation, offers | `platform` | - |
| `SumLemmas` | facts about sums over finite sets that the proofs share | - | itself |

An `MC` module extends what it runs with what a finite instance needs: shapes
of orders, amounts, symmetry sets.  `MCRefunds`, `MCSettling`, `MCLifecycle`,
`MCResources` and `MCPlatform` extend several modules that share no variables: the variable
`part` picks one at the start of a behaviour and the others rest in their initial
state.

### Refunds

*State.* One function per column (`status`, `adjustment`, `replaces`,
`claimedAt`, `result`, `sourceSuccess`), the set of provider receipts, the
payment status, the outbox and, for each dispatcher, where it is in
`refundPayment`.  `sent` and `moved` are the provider's own books (external).

*Actions.* `refundAdjustment`, `retryRefund` and `recordRefundProviderResult` are
the operator's transactions.  A dispatcher leases a message, claims the refund
(`taven_claim_refund_dispatch`), rechecks it, calls the provider and records the
answer; each is an action, and each may be the last one before a crash.
`Apply` is the whole of `taven_apply_refund_provider_result` with the triggers
that can refuse its result: a branch that raises has no outcome.

*Abstractions.* One captured payment; the provider is one whose refunds cannot
be replayed (`MANUAL_RECONCILIATION`); only adjustment refunds are created,
since cancellation and claim refunds go through the same rows and applicator.
Leases are not timed: any `PROCESSING` message may be taken over at any moment,
which contains every real schedule.  Time is a logical clock that ticks at each
claim and receipt; operators record results only while it is below `MaxTime`.
`Tolerance` is the five-second evidence window in ticks.

### CheckoutPayments

*State.* Each payment's row, outbox messages and provider side, the order, the
generations of its reservation set, and each webhook handler's program counter
with what it read.

*Actions.* `createCheckout` in its transaction and its provider half, with lost
answers and replays; a webhook as its read, its release, its reacquisition and
its applying transaction; cancellation, the capture deadline, the reservation
expiry worker, the void command and compensation of money no attempt may keep.

*Abstractions.* One automatic order.  Amount, currency and delivery evidence
always match: the mismatches are rejected on entry.  The refund protocol is
reduced to its two outcomes, its detail is `Refunds`.  The provider may settle a
payment after a decline or a cancellation.  Two facts of time are kept: a
reservation may be stale (15 minutes) and a capture late (60 minutes).  The
children of a reservation set (jobs, production, inventory) follow it.  Bounds:
`Payments` (attempts), `MaxSets` (generations of the set), `Kinds` (webhook
results), `MaxRetries` (provider calls lost), `Expiring` (whose window may end).

### Retention

*State.* Upload intents, assets and their deletion jobs with lease, holds and
deadline; the objects of the quarantine and of the confirmed prefix; requests
that are streaming or copying, and workers with the lease they believe in.

*Actions.* Initiation, the client's upload, preflight, promotion under the row
lock, rejection, expiry, abandonment of the request while its copy goes on,
retention deadlines, order and claim holds (merged into one `hold`), and the
worker: recover leases, claim, delete in parts, the second upload pass, the
quarantine sweep, complete, fail, crash.

*Abstractions.* Leases untimed as above.  The API's clock may lag the database's.
Asset deadlines are counted in days: no transfer is in flight across a tick.
Likewise the second pass (one hour later) and the eight-day sweep assume that no
request lives that long.  Photos and models behave alike.  `completeClaim` and
`failClaim` read the lease without a lock, so they are two steps each.

### SlicingDispatch

*State.* The order and its jobs, each job's dispatch row with its lease, its
queue entry, its artifact in the store and the slice result that owns it, the
receipt of its result, its dead letters, the refund of the order with its
message, and where each publisher is.

*Actions.* `acceptJob`, `startPrinting`, `failJob` and `cancelOrder` are the
operator's transactions.  A publisher leases a dispatch, checks that the job
still wants it, adds it to the queue and marks it delivered; then it reads a finished
entry, checks its dispatch, ingests, dead-letters or quarantines it, cleans up and
removes it from the queue.  Each of these is an action of its own, and each may
be the last before a crash.  `Ingest` is the whole ingestion transaction of a
production result, `failProduction` included.

*Abstractions.* One order whose payment is captured; results of inspections,
reference slices and candidate estimates take the same path to ingestion and are
left out.  BullMQ and its worker are external: an entry is attempted `Attempts`
times, taken back from a dead worker once, and `add` with the identifier of an
existing entry does nothing.  An execution that lost its queue lock no longer
writes.  Leases are untimed as above.  The inputs of an accepted job (geometry,
profiles) do not change, which `Retention` and the immutable revisions provide.
A result is its fingerprint: two successes may differ, all rejections are alike.
`Sealed` jobs start with their G-code sealed; they are the siblings that an
operator prints, fails or cancels meanwhile.

### Lifecycle policies

*State.* `LifecycleOrder` keeps an order, its single phase, the current job of
each slot with its reservation and replacement request, and each parcel;
`LifecyclePayment` a payment, its refund transactions and the provider's events with
those recorded so far; `LifecycleClaim` a claim, the resolution of each slot, its
current parcel, replacement job and authorization; `LifecycleQuote` a request, its
quotes and draft orders, and the commands on their way.

*Actions.* One per command of the policies, with the rows of its transition table
and the guard over the other aggregates.  A policy is a pure function; the adapter
selects its evidence in the committing transaction, so the evidence is the current
state, except for a quote request, whose commands are prepared from what the
caller has seen and may be delivered late and twice.

*Abstractions.* Identity, command-key and result-id comparisons hold of the
current state.  Outbox payloads are left out.

### Fulfilment and Promise

*State.* The order as the service keeps it: jobs by slot, parcels by shipment
plan, replacement requests, claims with their resolutions, scoped refunds, the
balance, and outside it the carrier and the payment provider.

*Actions.* Each command of `orders.service.ts` locks the order row and is one
transaction, so it is one action; the deferred constraints of the database are the
operator `Commit`, and an action whose result breaks one is not possible.

*Refinement.* `Promise` says what a customer may rely on, slot by slot: goods owed,
sent, missing, delivered or dropped, money kept, claimed or returned.  `Fulfilment`
maps parcels and refunds to the two, and `CustomerPromise` is the abstract
specification as a property.

*Abstractions.* Every slot is worth one unit of money; slots of a plan change
outcome together and are kept per plan.  A retried refund is in `Refunds`.

### Quotes and resources

`AutomaticQuotes`: every transaction locks the session row and is one action; what a
request reads before and does after it are steps of their own, `call` holds what it
remembers.  One item, one parcel, one printing node; the active binding is the last
one made.  `ReferencePreparation`: inspection, geometry and the binary search for
the copies a plate holds; slices are named by their copies.  `QuoteRequests` and
`IndividualOrders` are the assisted way: time, terms and policy move on their own
between transactions.  `Resources` has one machine and one lot, every job one plate, and
`createCompletePlan` there makes a plan of one candidate; plans of several candidates are
in `ResourcePlanning`, with their plates, expiries, the occupied machine, the material
and the limit of plates, for one machine and one lot.

`LockOrder` keeps what each transaction holds and has yet to ask for; the scripts are the
statements of the services and SQL functions, the accounting trigger that locks a lot for
every inventory reservation that ends included.  `OrderedOperations` ask for their rows
in the order of `lock-order.ts`, or for one lot.  `UnorderedOperations` end several
reservations: the release of a set, the cancellation loop over the plates of an order, the
close of a checkout and the expiry worker, each in the order of a scan, which SQL leaves
open and the model leaves to any permutation.

`RecoveryPreparation` splits `prepare` where it reads outside the transaction that
commits.  The two sides of a choice are kept apart: the reader (`choicesForDispatches`,
`eligibleOutboxIds`) looks at each candidate alone, the command reserves source by source
from what the ones before left.  Ingestion gives a candidate machine time that no
reservation and no live candidate of the phase has.  A source has one option; a claim
opens again when its reprint, or the parcel that was found and sent on, is lost.
Prices, carriers and listings are left out.

### Platform services

`LegalDocuments`: a command holds the document's row lock but reads the clock twice; a
customer's transaction holds it in share mode while time goes on.  `OperatorAuth`: a
handler serves one browser request, and every statement outside a transaction is a
step.  `DeliveryFeed`: JavaScript runs a callback to its end, so an action is what
happens between two awaits.  `Measurement`: a command is one transaction, split at
its lock; at commit the deferred trigger computes the shares once more, and ranks the
remaining units by its own order of keys (`collated`) where the service ranks by code unit
(`id`).  `ShipmentPlanning`, `Pricing` and `Offers` are operators, compared with
definitions of what they should find; `part` asks one question of a grid per
behaviour.

## Runs

| Run | Bounds | Shows |
|---|---|---|
| `refund_races` | 2 attempts, 2 obligations that exceed the capture together, 2 dispatchers, operators record up to clock 6 | `AtMostOneRequest`, `LineageSound`, `MoneySound`, `HistoryPreserved`: no attempt is sent twice, no success is lost, a double success is an incident, money stays within the capture and each obligation |
| `refund_races`, the order | 2 slots, 2 parcels, 1 replacement | `OrderSound`: the guards of order, phase, job and parcel keep them consistent with each other |
| `refund_races`, the recovery | 2 operators and keys, 2 sources that draw on one lot, 2 windows, 2 preparations, 2 losses, 1 outside change at a time | `RecoverySound`: one preparation of a scope at a time and none after its recovery; what is shown and what is taken differ by the common lot alone |
| `checkout_races` | an attempt and its retry, 2 webhook handlers, 3 generations of the reservation; `OneRace` | `OneWinner`, `SingleReservation`, `MoneySettled`, `OutcomesKept`: one winning payment that holds capacity once, every other capture is returned, outcomes are final |
| `checkout_deadline` | 1 attempt, 1 handler, the window ends at any time, fair | `ClosedIsClosed`, `CheckoutSettles`: a closed order holds no capacity and no payable attempt; a payment made inside the window is recorded, a void command settles |
| `settling` | an attempt and its retry, 2 dispatchers; quantities 2 and 5, plates of 0, 1, 3, 5 copies, 3 configurations; fair | `WorkSettles`, `PreparationSound`: requested refunds are claimed and decided messages stop; reference slices reach the right answer and stay there |
| `retention` | 1 upload, 2 requests, 1 worker, 2 days, fair | `TypeOK`, `BytesRetained`, `DeletionsSound`, `DueIsDeleted`: confirmed bytes survive, deletions are licensed and complete, due assets go |
| `slicing` | 2 jobs, one sealed, 2 publishers, 2 attempts, fair | `SealedArtifactKept`, `CancelledStopsWork`, `ResultsKept`, `AcceptedIsDecided` |
| `lifecycle` | 3 refunds, 5 events; 2 claim slots; 4 commands, 2 quotes; an automatic quote with 2 calls, 5 revisions, 2 outside changes, 1 candidate | `PaymentSound`, `ClaimSound`, `QuoteDecidedAsSeen`: separate guards keep the aggregates consistent with each other; `BindingSound`, `PaidKeepsReservation`: what is paid is what was validated, acknowledged and reserved |
| `fulfilment` | two parcels paid at once, or one parcel of two jobs on a deposit; 1 replacement, 1 claim return | `ProductionSound`, `GoodsOrMoney`, `CustomerPromise` |
| `resources` | 3 slots, up to 3 candidates of 20 shapes in 5 circumstances; 2 jobs on a machine; 3 transactions of the ordered kinds over 2 units; 2 requests with 2 offers; 2 nodes and 2 payments | `PlanningExact`, `ReservationsSound`, `NoCircularWait`, `RequestSound`, `IndividualSound` |
| `platform` | 2 revisions, 3 publications; 2 handlers, 2 attempts; 2 timers; 2 callers, 3 parcels; price grids | `LegalSound`, `OneLoginOneSession`, `MeasurementSound`, `SelectionSound`, `PricesExact` |
| `slicing_refund` | 2 jobs, 1 publisher | a violation, see *Disagreements* |
| `lock_release` | a reservation and the release of a set, over 2 units | a violation, see *Disagreements* |

*Why the bounds are enough.*  Each bound is the smallest at which the race the
run is about exists: two dispatchers for one lease, an attempt and the one retry
the schema allows it (`replaces_refund_transaction_id` is unique), two webhooks
for one payment, a reservation lost and reacquired twice, a worker that loses its
lease beside two requests, two publishers for one dispatch (a deployment runs one, and two
while it is replaced), a job that fails beside one that prints, two parcels of
which one leaves, three transactions for a circle that no two of them close, a
third publication for the gap that cancelling the second leaves, three parcels for
two validation workers, two sources for what one lot cannot give to both.  The
candidates of the planning grid differ in plates, expiry, material, time and the
parts they print, so that count, material, time and ids each decide between two feasible
plans, and material, the limit of plates, expiry, a start in the past, too little time,
plates that overlap and the occupied machine each refuse one: leaving any one of them out of
the search violates `PlanningExact`.  `OneRace` keeps apart two races
of `checkout_races` that are each explored in full: two handlers with the generations of
one attempt, and an attempt with its retry under one handler at a time.  Where a theorem covers a
property, the bound matters only for the liveness and for the shape of the model.
Symmetry is used for identifiers that no definition compares, and never in a
run with a liveness property.  `CHECK_DEADLOCK FALSE`: every one of these
protocols may legitimately come to rest.

*Fairness.*  `settling`: the dispatcher process polls for ever, so each of its
steps is weakly fair, and every message comes up for a claim again and again (strong
fairness per refund); from some moment on no dispatcher crashes or loses its lease;
operators are not fair.  The page of a quote polls `prepare` every three
seconds (`useModelUploadQuote.ts` 316-330, 624-660, 816), so preparation goes on, and the
slicer answers.  `checkout_deadline`: the provider redelivers an unacknowledged
webhook, the workers poll, and crashes of one handler eventually stop.
`retention`: the worker polls, the store answers, and a failed attempt is retried;
a crash is always possible but its lease is recovered.  `slicing`: the worker and
the publishers go on with what they hold, and every poll takes up the oldest due
dispatches and finished entries, so each is reached again and again (strong fairness
per job); publishers stop crashing in the end.  Retries and stalls of an entry are
bounded by the queue itself.

## Proofs

Each theorem holds for every value of the constants that satisfies the named
assumptions of its module; those say only that identifiers differ from their
"none" value, that sets are finite where they are summed or counted, and that
bounds are numbers.  Every inductive invariant was checked with TLC before it was
proved.

`RefundsProofs`
- `TypeCorrect`, `AtMostOnce`.  That a dispatcher about to send finds nothing sent
  follows from the claim row: an attempt without a claim was never sent, and at most
  one dispatcher holds a *won* claim, only while nothing was sent.
- `MoneyIsSound`.  `MoneyInv` follows each obligation's committed sum through the
  guards; `RowsOwned` says which row belongs to which obligation.  Payment status and
  sums come from `SumLemmas`.
- `LineageIsSound`.  `LineageInv` adds who may replace whom (`RetriesOfRoots`), when a
  retry is suspended (`SuspendedRetries`) and that a success stays
  (`SuccessRetained`).  That a double success stays suspended rests on
  the constraint `refund_adjustment_required_amount_check`.
- `HistoryIsPreserved`, an action property.

`CheckoutProofs`
- `CheckoutTypes` is the invariant itself: the ledger of the provider's commands, the
  attempt and the generation each binding names, and what each handler between its
  transactions may still write.  `CheckoutHasOneWinner`, `CapacityHeldOnce`,
  `MoneyIsSettled` and `ClosedStaysClosed` follow from it, and so does the action
  property `OutcomesAreKept`.

`SlicingProofs`
- `TypeCorrect`, `Cancelled`, `SealedKept`.  `Custody` says who may delete an
  artifact: nobody while the dispatch has no receipt; afterwards only a publisher that
  holds a stale or rejected result of a job that, its receipt being there, will
  never be sealed.
- `NoResultLost` (`TraceKept`), for any number of publishers.
- `ResultsAreKept` (`NoneOrphaned`), with at most two.  With three it is false: a
  publisher at `add` whose lease is long lost adds the entry again after it was
  removed, the worker stores and completes, and another publisher that still stands at
  `remove` removes the new entry; the artifact has no owner left.
- `MeasurementsAreSound`, of `Measurement`, kept here because the two share nothing.  Under
  `MeasurementInv` the database accepts what the service commits: the lock keeps an operator's
  commands apart and the time is read under it, so a new session follows everything the
  operator has recorded (`OperatorsLocked`, `SessionsTimed`).  `SplitIsExact` shows that the
  shares of a largest-remainder split add up, for any validated targets.  The corrections of a
  scope and the rows they replace are in bijection (`EvidenceChained`), so as many rows are
  current as began a chain.  That the shares are those the trigger ranks for itself is
  proved under the hypothesis `KeysAlike` of the theorem, that the database collates the
  keys of a request's targets as code units compare.  Nothing in the repository pins the
  collation: the compose file runs an Alpine image, which compares bytes
  (`infra/docker/docker-compose.yml:82`), the CI a Debian one with a linguistic collation
  (`.github/workflows/backend-ci.yml:56`).  A key is order, item, phase, job and shipment,
  joined by colons (`20260907123000`:27), with lower-case ids; the two orders differ only
  when colons are compared with digits, for two targets of one order and item of which one
  has no job.  If such a pair ties for the last unit, a database with a linguistic collation
  refuses what the service accepted.

`LifecycleProofs`
- `QuotesDecidedAsSeen`: a prepared command names the quote it was shown (`NamesQuote`), a
  command issues and decides once (`IssuedOnce`, `DecidedOnce`), since it moves the result
  it was prepared from.
- `PaymentsAreSound`: promised refunds as sums of shares, the status as the projection of
  the refunds.
- `ClaimsAreSound`: `SlotInv` per slot, `GroupsTogether` for grouped replacements,
  `ClaimEnded` for the parent.
- `OrdersAreSound`: `OrderInv` ties a job to its reservation (`JobOwns`), a parcel to its
  jobs (`JobOfParcel`, `CancelledSlot`), and each stretch of an order's life to what its
  parcels and slots may be (`ParcelsByOrder`, `SlotsByOrder`, `PhaseFollowsOrder`).  The
  transition tables are restated row by row.
- `BindingsAreSound`, `PaidOrdersKeepReservation`, of automatic quotes, from `QuotesInv`.  A
  binding was made at a revision the draft has or had, for its frozen item and for what the
  carrier had answered; the one of the current revision had its risk answered
  (`BindingsSound`).  An accepted binding is the last one and its session `CONVERTED`, so
  no request can edit the draft any more (`AcceptedSound`).  Requests in flight remember
  bindings and plans that are only added to, never removed (`CallsSound`).  The set of a paid
  order is the only one (`PaidSound`): the deferred constraint makes it so at the capture,
  and the guards of release and reserve, which read the order again, keep it.

`PlatformProofs`
- `OneSessionPerLogin`: an attempt at a stage is owned by one handler (`AttemptOwned`), the
  operator's row is locked by one (`LockHeld`), a finished attempt names its session
  (`SessionRecorded`), and one session is unrevoked (`OneUnrevoked`).
- `SelectionsAreSound`: every parcel not yet accepted lies ahead on some worker's stride
  (`Reaches`); that the strides cover all parcels is shown by a least counterexample.
- `LegalHistoryStands`: standing publications tile the time, at most one is pending
  (`TilesInv`), a visit has seen what was in force when it decided (`VisitsInv`), and so
  an acceptance is of that text (`AcceptancesInv`).
- `TypeCorrect`, `BytesSafe`, `DeletionsAreSound`, of retention.  `Safe` says what each actor may
  rely on between its transactions: a job belongs to an intent, an asset to a
  confirmed intent, a claimed deletion freezes holds and deadline, a worker on an
  upload job is fenced from a confirmed intent, a request past the row lock is fenced
  from the cleanup.  `Clean` adds what a finished deletion has removed and who could still
  bring an object back.  An effect lemma per action says what it changes
  for one upload, request or worker.

`ResourceProofs`
- `TransactionsNeverDeadlock`, under the hypothesis `Operations \subseteq OrderedOperations`:
  ingestion, reservation, recovery, capture, settlement or release of one plate,
  availability, catalog.  Sets, profiles, machines, calibrations and lots are asked for in
  one order (`InOrder`); the children of a set are not, a capture and a settlement take
  them in different orders, and are asked for only under their set's lock (`Covered`).
  `LockInv` says both of what a transaction holds and still wants.  In a circle of
  waiting transactions the row that is last in the order would have no holder: a held
  row that is awaited is followed by the row its holder awaits, or is a child, and then the
  set's lock keeps the two apart.  The order has a last element because `Units` is finite.
  The kinds in `UnorderedOperations` are left out because it is false with them: run
  `lock_release` shows it of the release of a set.
- `ReservationsAreSound`, from `ResourcesInv`.  `JobSound`: only a job's last attempt can be
  open or have succeeded, so its candidate is written once and never changes; a plan
  carries the candidate's expiry, so the times compared when a phase is
  reserved are those of the candidate.  `NoDoubleBooking` is then kept by
  the exclusion constraint and by the check of a new availability against live sets.
  `MaterialSound` adds to `MaterialAccounted` that nothing counts as received before the
  lot has a receipt.
- `RecoveriesAreSound`, from `RecoveryInv`: preparations are ordered by their time
  (`PreparationsOrdered`), an unanswered one keeps others of its scope out for its 30
  minutes (`OneAtATime`), and once a recovery took one the target opens again only with
  newer evidence (`RecoveredOnce`).  That what is shown differs from what the command takes
  by the sum on each lot alone needs the history of the estimates: of two with one window
  the first had expired when the second came in (`WindowsApart`), so two that are shown
  together never compete for machine time.  For material, taking in turn succeeds exactly
  when the sum fits (`TakenInTurn` of `SumLemmas`).
- `RequestsAreSound`, from one invariant per request (`RowSound`).  An accepted request has
  one order because accepting leaves `QUOTED` for good; the file is kept because its
  deadline moves with that of the current offer and an order holds it.
- `IndividualOrdersAreSound`, from `IndividualInv`.  A plan is reserved once, for
  one payment (`PlansAged`, `PaymentsExclusive`), and what the order became decides what its
  plans may still hold (`StatusHolds`).

`FulfilmentProofs`
- `FulfilmentInvariant`, `ProductionStaysSound`, `GoodsOrMoneyAlways`.  A command of
  `orders.service.ts` ends a parcel, a slot or the whole order depending on what else has
  left, so `Next` is first split into the branches its handlers take (`NextBranches`), and
  each part of `FulfilmentInv` is kept branch by branch: a slot's job, reservation and
  parcel (`JobsSound`), the order with its phase and what is left to wait for
  (`AggregateSound`), what only an order that sent something can have (`ParcelsSound`), which
  refund a parcel has and when (`RefundsSound`), what a claim implies of its parcel
  (`ClaimsSound`).  Two of the deferred triggers are part of it: they hold in
  every committed state and the next command relies on them.
- `FulfilmentKeepsPromise`, the refinement.  Goods and money of a slot are those of its
  parcel, so each branch is shown to make one of ten moves of parcels (`PromiseStep`), and
  each move of parcels is a step of `Promise` for the slots in them (`PromiseLifts`).

`SumLemmas`: sums of natural numbers and of integers over finite sets (one element more
or less, monotonicity, split, scaling, counting), and that the first `n` elements of a
strict order are `n`, and that taking one after another from a store works out exactly when
it holds the sum.  Induction is done by a least counterexample over the naturals, as
the induction theorems of the library cannot be instantiated by the provers.

*Only model-checked.*  Liveness under fairness (`CheckoutSettles`, `WorkSettles`,
`DueIsDeleted`, `AcceptedIsDecided`) is out of the prover's reach.  `PlanningExact` and
`PricesExact` are about searches and recursive definitions, whose results for every input
need induction over data.  `PreparationSound` compares a binary search with its result in
the same way, and its last part is liveness.

## Disagreements

`slicing_refund` / `RefundDispatchable` shows one on a run: a production slice that fails
for good cancels the order and creates a `PENDING` refund, but no `refund_payment`
message, so no dispatcher ever sends it (`slicing-result-ingestion.service.ts:967` against
`docs/decisions/0003-core-transaction-boundaries.md:103-104`).

`lock_release` / `NoCircularWait` shows another: `taven_release_phase_reservation_set` ends
the inventory reservations of a set with one `UPDATE` (`20260830223000`:326-331), and the
accounting trigger locks a lot for each row (`20260827162048`:2508-2530), in the order of the
scan.  A reservation locks lots by their ids.  With two lots in the other order each waits
for the other, until PostgreSQL ends one with a deadlock error.  ADR 0003:46-50 says that
every mutating command declares its complete lock set first and acquires it in rank order,
sorted by identity within a rank; the comment in `20260923163000`:588-591 says that this
avoids order-dependent deadlocks across concurrent multi-job plans.  The cancellation loop
(`orders.service.ts` 6707-6728), `taven_close_initial_checkout_payment`
(`20260904220000`:1091-1135) and the expiry worker do the same; adding one of them to
`Operations` gives the same result.

Not a disagreement, but worth knowing: a recovery shown as `CANDIDATES_AVAILABLE` can be
refused by the command when two sources draw on one lot.  ADR 0029:78-82 says that the status
"does not assert that arbitrary choices form a feasible whole-parcel reservation";
`AvailableIsAccepted` states how far it may be off.

The following were found the same way; the refuted formulas stay in the modules, under the
name given; each can be checked by naming it in the configuration of its module's run
(`VoidEnds` under fairness of the carrier's confirmation).

- `Refunds!ProviderTruthRecordable`: a transfer the provider made after its attempt was
  recorded as failed cannot be recorded when no sibling is active: the applicator derives a
  payment status that `payment_status_transition_check` refuses (ADR 0003:137-139).
- `CheckoutPayments!ExpiryClosable`: once the expiry worker has marked an unpaid set
  `EXPIRED`, the overdue checkout cannot be closed, because the deferred trigger requires
  every set to be released (`taven-parametry.md:227`).
- `CheckoutPayments!CompensationFailureRecordable`: the failed refund of a late capture cannot
  be recorded while the retried attempt is active: returning the first payment to
  `CAPTURED` meets the unique index on active attempts (ADR 0028:269).
- `Fulfilment!ClaimHasRemedy`: a reprint whose failed job nobody replaces in time is refunded
  as a production failure, and its claim stays in `REPLACEMENT_PENDING`
  (`orders.service.ts:5465`).
- `Fulfilment!NothingWithoutMoney`: a late scan of one parcel withdraws the refund of the whole
  cancelled order; a slot that had failed before keeps neither goods nor money
  (`orders.service.ts:5899`).
- `Fulfilment!VoidEnds`: with two labels of a cancelled order waiting for their voids, the
  confirmation of the first can never commit (`orders.service.ts:2004`).
- `LifecyclePayment!CompensationRetried`: the policies offer no retry for the failed refund of
  a late capture (specification v1.3:653).

Read beside the model, without a formula: a paid order stays `QC_PASSED` after a failure and
replacement when its balance was captured before (`orders.service.ts` 5424-5463); handing
over one of two parcels after the balance is captured and before the other is packed leaves the
order in `AWAITING_BALANCE` with its phase `SHIPPED` (`orders.service.ts` 2305-2360; the
second case of `Fulfilment!PhaseFollowsOrder`, which is false without it); the
check of `AWAITING_BALANCE` looks at replaced jobs too (`20260906030000`:1782-1787); a
cancelled order never becomes `REFUNDED`; the reservation of a superseded price binding stays
until it expires and the capture of the new one fails until then; retiring a
calibration, or maintenance, while a set of several plates prints makes settling fail
(`20260827162048` 2885-2912, 3092-3150); the operator's page repeats the conditions of the order commands and disagrees in
places.

## Plan

Modelled: everything in the table above.  Proved: refunds, checkout, retention, slicing,
the lifecycle policies, authentication, the carrier's feed, legal documents, the row locks,
reservations, recovery, requests and individual orders, fulfilment and its refinement of
`Promise`, automatic quotes, measurement.

## Narrowed

Where a definition leaves out a case of its code that no property distinguishes:
`Resources!createCompletePlan` plans one candidate at a time (several are in
`ResourcePlanning`); `Fulfilment!createClaim` claims one plan and its current jobs;
`taven_reconcile_order_post_confirmation_lifecycle` there looks at current jobs and does
not count failed refunds, so it lets more happen than the code;
`AutomaticQuotes!releaseSupersededReservations` reads and releases in one step, which the
session's row lock makes one; `OperatorAuth!writeLastSeen` may write at any time where the
code waits a minute between two writes.

## Not modelled

Slicer mathematics and mesh inspection (numeric, an external process), the web
and admin applications (their requests are the inputs here), reports, audit and
metrics (reads and append-only records), the operator's read models, schemas and generated clients, startup
configuration.  Parsing and validation of uploads and webhooks appear only
as their verdicts.  Wall-clock time appears only as the order of deadlines; what lies
beyond the horizon of a protocol (purges after days, idempotency records that expire) is left
out.
