------------------------------ MODULE Resources ------------------------------
(***************************************************************************)
(* Production resources: candidate estimates of a machine are asked for,   *)
(* ingested, planned with and reserved (candidate-estimate.service.ts,     *)
(* eligibility-plan.service.ts, taven_create_phase_reservation) while an   *)
(* operator changes the machine, its availability and its material lot     *)
(* (operator-catalog.service.ts, resource-catalog.service.ts).             *)
(*                                                                         *)
(* One machine with one lot; every job is one plate of one slot, so that a *)
(* complete plan of a phase is a single candidate.  What a plan is in      *)
(* general is the subject of ResourcePlanning.                             *)
(***************************************************************************)
EXTENDS Integers, Sequences, FiniteSets, FiniteSetsExt, Functions

CONSTANTS
  EstimateJobs,     \* candidate_estimate jobs, numbers in the order of their keys
  PhaseMaps,        \* the order phases the jobs may estimate
  ExpressPhases,    \* phases whose price was bound with expressRequested
  Grams,            \* material a job needs
  Calendars,        \* availability revisions an operator may publish: sets of windows
  Deliveries,       \* amounts a supplier delivers
  Deltas,           \* inventory adjustments, one idempotency key each
  CandidateTTL,     \* CANDIDATE_TTL_MILLISECONDS and ELIGIBILITY_TTL_MILLISECONDS
  ReservationTTL,   \* the 15 minutes of a reservation set
  SearchHorizon,    \* bound: how far ahead machine time is looked for
  MaxDispatches, MaxVersion, MaxClock, MaxCatalogChanges

ASSUME ResourcesAssumption ==
  /\ EstimateJobs \subseteq Nat /\ IsFiniteSet(EstimateJobs)
  /\ \A j \in EstimateJobs : Grams[j] \in Nat
  /\ Deltas \subseteq Int /\ Deliveries \subseteq Nat /\ SearchHorizon \in Nat
  /\ CandidateTTL \in Nat /\ ReservationTTL \in Nat /\ ReservationTTL < CandidateTTL

VARIABLES
  phaseOf,          \* the order phase of a job, fixed
  clock,
  printer,          \* the machine: status, calibration state, availability selection
  lot,              \* the inventory: status, mount, balances, active receipt
  receipts,         \* terminal receipts and dead letters of every attempt of every job
  estimate,         \* candidate_resource_estimates by job
  planned,          \* expires_at of the plan made of a job's candidate, 0 when none
  booking,          \* reservation set of that plan, with its production reservation
  ledger,           \* adjustments applied and material consumed
  changes           \* catalog changes so far, for the bound

resourceVars == <<phaseOf, clock, printer, lot, receipts, estimate, planned, booking, ledger, changes>>

NoEstimate == [made |-> FALSE, from |-> 0, to |-> 0, expires |-> 0, version |-> 0]
NoBooking == [set |-> "NONE", expires |-> 0]
Live == {"RESERVED", "HELD", "PRINTING"}
Window(a, b) == [from |-> a, to |-> b]
Meet(a, b) == a.from < b.to /\ b.from < a.to
Inside(i, windows) == \E w \in windows : w.from <= i.from /\ i.to <= w.to
LiveJobs == {j \in EstimateJobs : booking[j].set \in Live}
Phase(p) == {j \in EstimateJobs : phaseOf[j] = p}
Phases == {phaseOf[j] : j \in EstimateJobs}

ResourcesInit ==
  /\ phaseOf \in PhaseMaps /\ clock = 0
  /\ printer = [status |-> "ACTIVE", calibration |-> "DRAFT", version |-> 0, windows |-> {}]
  /\ lot = [status |-> "AVAILABLE", mount |-> "UNMOUNTED", remaining |-> 0, reserved |-> 0,
            receipt |-> 0]
  /\ receipts = [j \in EstimateJobs |-> <<>>]
  /\ estimate = [j \in EstimateJobs |-> NoEstimate]
  /\ planned = [j \in EstimateJobs |-> 0]
  /\ booking = [j \in EstimateJobs |-> NoBooking]
  /\ ledger = [adjusted |-> {}, consumed |-> 0, received |-> 0]
  /\ changes = 0

(***************************************************************************)
(* Candidate estimates.                                                    *)
(***************************************************************************)
\* assertDispatchResources
dispatchable ==
  printer.status = "ACTIVE" /\ printer.calibration = "ACTIVE" /\ lot.status = "AVAILABLE"

stageDispatch(j) ==
  /\ MapThenSumSet(LAMBDA k : Len(receipts[k]), EstimateJobs) < MaxDispatches
  /\ receipts[j] # <<>> => "RETRYABLE" \in receipts[j][Len(receipts[j])]
  /\ dispatchable
  /\ receipts' = [receipts EXCEPT ![j] = Append(@, {})]
  /\ UNCHANGED <<phaseOf, clock, printer, lot, estimate, planned, booking, ledger, changes>>

\* No dead letter and no other terminal result of this attempt.
terminalOpen(j, n) == receipts[j][n] = {}

\* deadLetter of the queue publisher
dispatchDeadLettered(j, n) ==
  /\ receipts[j][n] = {}
  /\ receipts' = [receipts EXCEPT ![j][n] = {"DEAD"}]
  /\ UNCHANGED <<phaseOf, clock, printer, lot, estimate, planned, booking, ledger, changes>>

ingestFailed(j, n, class) ==
  /\ terminalOpen(j, n)
  /\ receipts' = [receipts EXCEPT ![j][n] = @ \cup {class}]
  /\ UNCHANGED <<phaseOf, clock, printer, lot, estimate, planned, booking, ledger, changes>>

\* The intervals a new candidate of a phase must leave free.
occupied(p) ==
  {estimate[j] : j \in {k \in LiveJobs : estimate[k].to > clock}}
  \cup {estimate[j] : j \in {k \in Phase(p) : estimate[k].expires > clock}}

\* The search for machine time begins when the candidate expires.
expiresAt == clock + CandidateTTL

Starts(p) == {t \in expiresAt..(expiresAt + SearchHorizon) :
                /\ Inside(Window(t, t + 1), printer.windows)
                /\ \A i \in occupied(p) : ~Meet(Window(t, t + 1), i)}

\* The candidate that is written: earliest time, expiry, selected availability.
newCandidate(start) ==
  [made |-> TRUE, from |-> start, to |-> start + 1,
   expires |-> clock + CandidateTTL, version |-> printer.version]

ingestSucceeded(j, n) ==
  /\ terminalOpen(j, n)
  /\ printer.version > 0
  /\ LET free == Starts(phaseOf[j])
     IN  /\ free # {}
         /\ estimate' = [estimate EXCEPT ![j] = newCandidate(Min(free))]
  /\ receipts' = [receipts EXCEPT ![j][n] = @ \cup {"SUCCEEDED"}]
  /\ UNCHANGED <<phaseOf, clock, printer, lot, planned, booking, ledger, changes>>

(***************************************************************************)
(* Plans and reservations.                                                 *)
(***************************************************************************)
resourcesActive(j) ==
  /\ printer.status = "ACTIVE" /\ printer.calibration = "ACTIVE" /\ lot.status = "AVAILABLE"
  /\ phaseOf[j] \in ExpressPhases => lot.mount = "MOUNTED"

availabilityCurrent(j) ==
  estimate[j].version = printer.version /\ Inside(estimate[j], printer.windows)

\* The candidate query of createCompletePlan with the checks of the search.
plannable(j) ==
  /\ estimate[j].made /\ estimate[j].expires > clock
  /\ resourcesActive(j) /\ availabilityCurrent(j) /\ lot.receipt > 0
  /\ Grams[j] <= lot.remaining - lot.reserved
  /\ \A k \in LiveJobs : ~Meet(estimate[j], estimate[k])

\* Only a phase that is still QUOTED is planned; capturing a payment moves it on.
phaseQuoted(p) == \A j \in Phase(p) : booking[j].set \notin {"HELD", "PRINTING", "SETTLED"}

createCompletePlan(p) ==
  LET usableJobs == {j \in Phase(p) : plannable(j)}
      best == CHOOSE j \in usableJobs : \A k \in usableJobs :
                Grams[j] < Grams[k] \/ (Grams[j] = Grams[k] /\ j <= k)
  IN  /\ phaseQuoted(p)
      /\ usableJobs # {}
      /\ estimate[best].expires > clock + ReservationTTL
      /\ planned[best] = 0
      /\ planned' = [planned EXCEPT ![best] = estimate[best].expires]
      /\ UNCHANGED <<phaseOf, clock, printer, lot, receipts, estimate, booking, ledger, changes>>

\* Inserting the inventory reservation: taven_pin_inventory_receipt and the
\* accounting trigger.
takeMaterial(j) ==
  /\ lot.receipt > 0 /\ lot.status = "AVAILABLE"
  /\ lot.remaining - lot.reserved >= Grams[j]
  /\ lot' = [lot EXCEPT !.reserved = @ + Grams[j]]

\* The exclusion constraint over live capacity reservations of a machine.
capacityFree(j) == \A k \in LiveJobs : ~Meet(estimate[j], estimate[k])

\* A capacity interval the reservation would already have begun
started(j) == estimate[j].from <= clock

reservePhase(j) ==
  /\ planned[j] > 0 /\ booking[j] = NoBooking
  /\ availabilityCurrent(j) /\ resourcesActive(j) /\ capacityFree(j) /\ ~started(j)
  /\ planned[j] > clock /\ clock + ReservationTTL <= planned[j]
  /\ takeMaterial(j)
  /\ booking' = [booking EXCEPT ![j] = [set |-> "RESERVED", expires |-> clock + ReservationTTL]]
  /\ UNCHANGED <<phaseOf, clock, printer, receipts, estimate, planned, ledger, changes>>

\* taven_phase_reservation_set_is_capture_eligible, then the set is held
holdForCapture(j) ==
  /\ booking[j].set = "RESERVED" /\ booking[j].expires > clock
  /\ \A k \in Phase(phaseOf[j]) \ {j} : booking[k].set \notin Live
  /\ resourcesActive(j) /\ Inside(estimate[j], printer.windows) /\ ~started(j)
  /\ booking' = [booking EXCEPT ![j].set = "HELD"]
  /\ UNCHANGED <<phaseOf, clock, printer, lot, receipts, estimate, planned, ledger, changes>>

startPrint(j) ==
  /\ booking[j].set = "HELD"
  /\ resourcesActive(j) /\ lot.mount = "MOUNTED"
  /\ booking' = [booking EXCEPT ![j].set = "PRINTING"]
  /\ UNCHANGED <<phaseOf, clock, printer, lot, receipts, estimate, planned, ledger, changes>>

giveBack(j, status) ==
  /\ booking' = [booking EXCEPT ![j].set = status]
  /\ lot' = [lot EXCEPT !.reserved = @ - Grams[j]]
  /\ UNCHANGED <<phaseOf, clock, printer, receipts, estimate, planned, ledger, changes>>

releaseBeforePrint(j) == booking[j].set \in {"RESERVED", "HELD"} /\ giveBack(j, "RELEASED")

expireReserved(j) ==
  booking[j].set = "RESERVED" /\ booking[j].expires <= clock /\ giveBack(j, "EXPIRED")

\* Mutant: what was not used stays reserved.
settleUsedOnly(j, used) ==
  /\ booking[j].set = "PRINTING" /\ used <= Grams[j]
  /\ booking' = [booking EXCEPT ![j].set = "SETTLED"]
  /\ lot' = [lot EXCEPT !.remaining = @ - used, !.reserved = @ - used]
  /\ ledger' = [ledger EXCEPT !.consumed = @ + used]
  /\ UNCHANGED <<phaseOf, clock, printer, receipts, estimate, planned, changes>>
settlePrinting(j, used) ==
  /\ booking[j].set = "PRINTING" /\ used <= Grams[j]
  /\ booking' = [booking EXCEPT ![j].set = "SETTLED"]
  /\ lot' = [lot EXCEPT !.remaining = @ - used, !.reserved = @ - Grams[j]]
  /\ ledger' = [ledger EXCEPT !.consumed = @ + used]
  /\ UNCHANGED <<phaseOf, clock, printer, receipts, estimate, planned, changes>>

(***************************************************************************)
(* The operator's catalog.                                                 *)
(***************************************************************************)
Change == changes < MaxCatalogChanges /\ changes' = changes + 1
machineUnchanged == UNCHANGED <<phaseOf, clock, lot, receipts, estimate, planned, booking, ledger>>
lotUnchanged == UNCHANGED <<phaseOf, clock, printer, receipts, estimate, planned, booking>>

updateMachineStatus(status) ==
  /\ Change /\ printer.status # status
  /\ printer' = [printer EXCEPT !.status = status]
  /\ machineUnchanged

\* transitionRevision: DRAFT to ACTIVE after its snapshot was verified, ACTIVE to RETIRED
transitionCalibration(from, to) ==
  /\ Change /\ printer.calibration = from
  /\ printer' = [printer EXCEPT !.calibration = to]
  /\ machineUnchanged

noneExcluded(windows) == \A j \in LiveJobs : Inside(estimate[j], windows)

\* expectedVersion is the version the operator was shown, and must be current
replaceMachineAvailability(windows, expectedVersion) ==
  /\ Change
  /\ printer.version = expectedVersion /\ expectedVersion < MaxVersion
  /\ noneExcluded(windows)
  /\ printer' = [printer EXCEPT !.version = @ + 1, !.windows = windows]
  /\ machineUnchanged

receiveInventory(amount) ==
  /\ lot.receipt = 0 /\ lot.remaining = 0 /\ amount > 0
  /\ lot' = [lot EXCEPT !.remaining = amount, !.receipt = 1]
  /\ ledger' = [ledger EXCEPT !.received = amount]
  /\ UNCHANGED changes /\ lotUnchanged

\* The mass of a correction only has to reach the current balance.
correctInventoryReceipt(supersedes) ==
  /\ Change /\ lot.receipt = supersedes /\ supersedes > 0 /\ supersedes < 2
  /\ lot' = [lot EXCEPT !.receipt = @ + 1]
  /\ UNCHANGED ledger /\ lotUnchanged

setInventoryMount(mount) ==
  /\ Change /\ lot.mount # mount
  /\ mount = "UNMOUNTED" => \A j \in EstimateJobs : booking[j].set # "PRINTING"
  /\ lot' = [lot EXCEPT !.mount = mount]
  /\ UNCHANGED ledger /\ lotUnchanged

updateInventoryStatus(status) ==
  /\ Change /\ lot.status # status
  /\ lot' = [lot EXCEPT !.status = status]
  /\ UNCHANGED ledger /\ lotUnchanged

\* command: a completed key is answered from its record and changes nothing
adjustInventory(delta) ==
  /\ Change /\ delta \notin ledger.adjusted
  /\ lot.remaining + delta >= 0 /\ lot.remaining + delta >= lot.reserved
  /\ lot' = [lot EXCEPT !.remaining = @ + delta]
  /\ ledger' = [ledger EXCEPT !.adjusted = @ \cup {delta}]
  /\ lotUnchanged

clockAdvances ==
  /\ clock < MaxClock /\ clock' = clock + 1
  /\ UNCHANGED <<phaseOf, printer, lot, receipts, estimate, planned, booking, ledger, changes>>

ResourcesNext ==
  \/ \E j \in EstimateJobs :
       \/ stageDispatch(j)
       \/ \E n \in DOMAIN receipts[j] :
            \/ dispatchDeadLettered(j, n) \/ ingestSucceeded(j, n)
            \/ \E class \in {"RETRYABLE", "FAILED"} : ingestFailed(j, n, class)
       \/ reservePhase(j) \/ holdForCapture(j) \/ startPrint(j)
       \/ releaseBeforePrint(j) \/ expireReserved(j)
       \/ \E used \in 0..Grams[j] : settlePrinting(j, used)
  \/ \E p \in Phases : createCompletePlan(p)
  \/ \E status \in {"ACTIVE", "MAINTENANCE"} : updateMachineStatus(status)
  \/ transitionCalibration("DRAFT", "ACTIVE") \/ transitionCalibration("ACTIVE", "RETIRED")
  \/ \E windows \in Calendars, v \in 0..MaxVersion : replaceMachineAvailability(windows, v)
  \/ \E amount \in Deliveries : receiveInventory(amount)
  \/ \E r \in 1..2 : correctInventoryReceipt(r)
  \/ \E mount \in {"MOUNTED", "UNMOUNTED"} : setInventoryMount(mount)
  \/ \E status \in {"AVAILABLE", "RETIRED"} : updateInventoryStatus(status)
  \/ \E delta \in Deltas : adjustInventory(delta)
  \/ clockAdvances

ResourcesSpec == ResourcesInit /\ [][ResourcesNext]_resourceVars

(***************************************************************************)
(* Properties.                                                             *)
(***************************************************************************)
\* Machine time that is reserved, held or printing is never promised twice,
\* and stays inside the availability an operator has published, however the
\* availability is replaced while candidates, plans and reservations exist.
NoDoubleBooking ==
  \A j \in LiveJobs :
    /\ Inside(estimate[j], printer.windows)
    /\ \A k \in LiveJobs \ {j} : ~Meet(estimate[j], estimate[k])

Adjustments == [delta \in Deltas |-> delta]

\* The lot's reserved amount is that of its live reservations and within what
\* remains, and what remains is what was received and adjusted (once per key)
\* less what was consumed; material is mounted while it prints.
MaterialAccounted ==
  /\ lot.reserved = SumFunctionOnSet(Grams, LiveJobs)
  /\ lot.reserved <= lot.remaining
  /\ lot.remaining = ledger.received + SumFunctionOnSet(Adjustments, ledger.adjusted)
                       - ledger.consumed
  /\ (\E j \in EstimateJobs : booking[j].set = "PRINTING") => lot.mount = "MOUNTED"

\* An attempt ends in one way only, although results and dead letters are
\* written by different processes; a job yields at most one candidate, from the
\* attempt that succeeded, and is tried again only after a retryable failure.
OneResultPerJob ==
  \A j \in EstimateJobs :
    /\ \A n \in DOMAIN receipts[j] : Cardinality(receipts[j][n]) <= 1
    /\ estimate[j].made <=> \E n \in DOMAIN receipts[j] : "SUCCEEDED" \in receipts[j][n]
    /\ \A n \in DOMAIN receipts[j] : n < Len(receipts[j]) => receipts[j][n] = {"RETRYABLE"}

\* A reservation that is not paid yet is over before its machine time begins:
\* the machine never stands idle for a set that can still be captured.
ReservedEndsBeforeStart ==
  \A j \in EstimateJobs : booking[j].set = "RESERVED" => booking[j].expires <= estimate[j].from

\* Machine time and material are booked once and given back, an estimate has one
\* result, a reservation ends before it can start.
ReservationsSound ==
  NoDoubleBooking /\ MaterialAccounted /\ OneResultPerJob /\ ReservedEndsBeforeStart
==============================================================================
