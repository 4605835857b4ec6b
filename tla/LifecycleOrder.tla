------------------------- MODULE LifecycleOrder -------------------------
(***************************************************************************)
(* The Order, OrderPhase(single), Job and Shipment policies of             *)
(* packages/core/src/lifecycle: the transition tables, and the guards that *)
(* tie one aggregate's move to the moves of the others.                    *)
(*                                                                         *)
(* A policy is a pure function of a command and its evidence.  The adapter *)
(* selects the evidence in the transaction that commits the result, so the *)
(* evidence here is the current state, and the exact-identity, result-id   *)
(* and command-key comparisons of a guard hold of it.  What is kept is     *)
(* what the evidence must say: which statuses, which complete sets, and    *)
(* which other aggregates move in the same result.  A result a guard calls *)
(* atomic is one action.                                                   *)
(***************************************************************************)
EXTENDS Naturals, FiniteSets

CONSTANTS Slots,            \* fulfilment slots; each has one current job
          Parcels,          \* shipment lineages
          MaxReplacements   \* bound: replacement jobs of one slot

ASSUME LifecycleAssumption ==
  /\ Slots # {} /\ Parcels # {}
  /\ IsFiniteSet(Slots) /\ IsFiniteSet(Parcels)
  /\ MaxReplacements \in Nat

VARIABLES order, phase,     \* statuses of the order and of its single phase
          parcelOf,         \* the parcel each slot is shipped in
          due, refundable,  \* is an amount due, is a balance refundable
          deposit,          \* is the initial payment a deposit
          job,              \* slot -> status and reservation of its current job
          request,          \* slot -> its replacement request
          replaced,         \* slot -> replacement jobs created so far
          ship, label,      \* parcel -> status of its leaf shipment, its label
          scanned,          \* parcels the carrier has physically accepted
          outcome,          \* slot -> fulfilment outcome
          claim,            \* slot -> is it owned by an unresolved claim
          reconciled        \* a refunded parcel's handoff has been reconciled

orderVars == <<order, phase, parcelOf, due, refundable, deposit, job, request,
               replaced, ship, label, scanned, outcome, claim, reconciled>>
money == <<due, refundable, deposit>>
frame == <<parcelOf, reconciled>>

OrderStatus == {"draft", "quoted", "confirmed", "in_production", "qc_passed",
  "awaiting_balance", "ready_to_ship", "shipped", "delivered", "completed",
  "recovery_pending", "cancelled", "refunded", "cancelled_settled",
  "partially_fulfilled", "expired"}
PhaseStatus == {"none", "quoted", "active", "in_production", "qc_passed", "shipped",
  "delivered", "completed", "recovery_pending", "cancelled", "cancelled_refunded",
  "cancelled_settled", "partially_fulfilled"}
JobStatus == {"none", "created", "accepted", "gcode_ready", "printing", "printed",
  "photo_submitted", "qc_approved", "qc_rejected", "packed", "handed_over",
  "settled", "failed", "cancelled"}
ShipmentStatus == {"none", "planned", "label_created", "cancellation_pending",
  "handed_over", "in_transit", "delivered", "cancelled", "lost", "returned",
  "recovered"}
ReservationStatus == {"none", "held", "scheduled", "printing", "released", "settled"}
SlotOutcome == {"pending", "delivered", "cancelled", "cancelled_refunded",
  "cancelled_settled"}

Pairs(from, to) == {from} \X to

\* orderPolicy.transitions
orderTransitions == UNION {
  Pairs("draft", {"quoted"}),
  Pairs("quoted", {"confirmed", "expired", "cancelled"}),
  Pairs("confirmed", {"in_production", "cancelled"}),
  Pairs("in_production", {"qc_passed", "recovery_pending", "cancelled"}),
  Pairs("qc_passed", {"awaiting_balance", "ready_to_ship", "recovery_pending",
                      "cancelled"}),
  Pairs("awaiting_balance", {"ready_to_ship", "shipped", "recovery_pending",
                             "cancelled", "cancelled_settled"}),
  Pairs("ready_to_ship", {"shipped", "recovery_pending", "cancelled"}),
  Pairs("shipped", {"delivered", "partially_fulfilled", "cancelled"}),
  Pairs("delivered", {"completed"}),
  Pairs("recovery_pending", {"qc_passed", "cancelled", "partially_fulfilled"}),
  Pairs("cancelled", {"shipped", "refunded", "cancelled_settled"}),
  Pairs("refunded", {"shipped", "cancelled"})}

\* singleOrderPhasePolicy.transitions
phaseTransitions == UNION {
  Pairs("none", {"quoted"}),
  Pairs("quoted", {"active", "cancelled"}),
  Pairs("active", {"in_production", "cancelled"}),
  Pairs("in_production", {"qc_passed", "recovery_pending", "cancelled"}),
  Pairs("qc_passed", {"shipped", "recovery_pending", "cancelled"}),
  Pairs("shipped", {"delivered", "partially_fulfilled", "cancelled_refunded"}),
  Pairs("delivered", {"completed"}),
  Pairs("recovery_pending", {"qc_passed", "partially_fulfilled",
                             "cancelled_refunded"}),
  Pairs("cancelled", {"shipped", "cancelled_refunded", "cancelled_settled"}),
  Pairs("cancelled_refunded", {"shipped", "cancelled"})}

\* jobPolicy.transitions
jobTransitions == UNION {
  Pairs("created", {"accepted", "cancelled"}),
  Pairs("accepted", {"gcode_ready", "failed", "cancelled"}),
  Pairs("gcode_ready", {"printing", "failed", "cancelled"}),
  Pairs("printing", {"printed", "failed", "cancelled"}),
  Pairs("printed", {"photo_submitted", "failed", "cancelled"}),
  Pairs("photo_submitted", {"qc_approved", "qc_rejected", "failed", "cancelled"}),
  Pairs("qc_approved", {"packed", "failed", "cancelled"}),
  Pairs("packed", {"handed_over", "failed", "cancelled"}),
  Pairs("cancelled", {"handed_over"}),
  Pairs("handed_over", {"settled"})}

\* shipmentPolicy.transitions
shipmentTransitions == UNION {
  Pairs("planned", {"label_created", "cancelled"}),
  Pairs("label_created", {"handed_over", "cancellation_pending"}),
  Pairs("cancellation_pending", {"cancelled", "handed_over"}),
  Pairs("cancelled", {"handed_over"}),
  Pairs("handed_over", {"in_transit", "delivered"}),
  Pairs("in_transit", {"delivered", "lost", "returned"}),
  Pairs("lost", {"recovered"})}

-----------------------------------------------------------------------------
\* transition() of the kernel: the target must be in the policy's table; a
\* command whose target is the current state is a replay and changes nothing.
MoveOrder(to) == /\ <<order, to>> \in orderTransitions
                 /\ order' = to
MovePhase(to) == /\ <<phase, to>> \in phaseTransitions
                 /\ phase' = to
MoveShipment(p, to) == /\ <<ship[p], to>> \in shipmentTransitions
                       /\ ship' = [ship EXCEPT ![p] = to]
JobMay(s, to) == <<job[s].st, to>> \in jobTransitions

SlotsIn(p) == {s \in Slots : parcelOf[s] = p}
Used == {parcelOf[s] : s \in Slots}

prePrint == {"accepted", "gcode_ready"}
onPrinter == {"printing", "printed", "photo_submitted", "qc_approved", "packed"}
cancellable == {"created"} \cup prePrint \cup onPrinter
custody == {"handed_over", "in_transit", "delivered", "lost", "returned", "recovered"}
preHandoff == {"planned", "label_created", "cancellation_pending"}

\* Mutant: only the refundable side of the balance is looked at.
requireNothingRefundable == ~refundable

\* requireZeroBalances
requireZeroBalances == ~due /\ ~refundable
\* requireZeroAmountDue and requireReconciliationRefundAllocation: nothing is
\* due; a refundable balance is allocated by the reconciliation itself.
requireZeroAmountDue == ~due

\* The reservation a job of status st must own, and where ending the job
\* leaves it: nothing printed is released, anything printed is settled.
\* requireJobResourceSettlement
ReservationBefore(st) == IF st = "created" THEN "held"
                         ELSE IF st \in prePrint THEN "scheduled" ELSE "printing"
requireJobResourceSettlement(j) ==
  /\ j.res = ReservationBefore(j.st)
ReservationAfter(j) == IF j.res = "printing" THEN "settled" ELSE "released"
EndJob(j, to) == [st |-> to, res |-> ReservationAfter(j)]

-----------------------------------------------------------------------------
\* Quoting, confirming and closing the checkout.

\* requireAtomicQuotedOrderTopology: one result creates the single quoted
\* phase and binds every slot of the authoritative set.
requireAtomicQuotedOrderTopology ==
  /\ phase = "none"
  /\ \A s \in Slots : outcome[s] = "pending"

QuoteOrder ==
  /\ requireAtomicQuotedOrderTopology
  /\ MoveOrder("quoted") /\ MovePhase("quoted")
  /\ UNCHANGED <<frame, money, job, request, replaced, ship, label, scanned,
                 outcome, claim>>

\* requireCompleteConfirmationJobLinks: one created job per planned job key,
\* each linked both ways with its own held reservation.
requireCompleteConfirmationJobLinks ==
  job' = [s \in Slots |-> [st |-> "created", res |-> "held"]]

\* requireAtomicConfirmationActivation
requireAtomicConfirmationActivation ==
  /\ order = "quoted" /\ phase = "quoted"
  /\ requireCompleteConfirmationJobLinks

\* requireInitialSettlementCaptureActivation: the capture of the full or the
\* deposit payment confirms the order in the same result.
CaptureInitialPayment ==
  /\ requireAtomicConfirmationActivation
  /\ MoveOrder("confirmed") /\ MovePhase("active")
  /\ due' = deposit
  /\ ship' = [p \in Parcels |-> IF p \in Used THEN "planned" ELSE "none"]
  /\ UNCHANGED <<frame, refundable, deposit, request, replaced, label, scanned,
                 outcome, claim>>

\* requireInitialCaptureWindowClosed, requireExactQuotedCheckoutOrderSource:
\* the checkout ends with its payment voided, its phase and slots cancelled
\* and its reservation set released, as one result.
requireInitialCaptureWindowClosed ==
  /\ order = "quoted" /\ phase = "quoted"
  /\ MovePhase("cancelled")
  /\ outcome' = [s \in Slots |-> "cancelled"]

CloseCheckout(target) ==
  /\ target \in {"expired", "cancelled"}
  /\ requireInitialCaptureWindowClosed
  /\ MoveOrder(target)
  /\ UNCHANGED <<frame, money, job, request, replaced, ship, label, scanned, claim>>

\* requireInitialCapacityCaptureCompensation: a capture whose reservation set
\* cannot be reacquired closes the checkout as cancelled; the capture is
\* refunded in full, outside the settlement, and creates no job.
CompensateCapacityCapture ==
  /\ requireInitialCaptureWindowClosed
  /\ MoveOrder("cancelled")
  /\ refundable' = TRUE
  /\ UNCHANGED <<frame, due, deposit, job, request, replaced, ship, label,
                 scanned, claim>>

-----------------------------------------------------------------------------
\* Jobs.

SetJob(s, st, res) == job' = [job EXCEPT ![s] = [st |-> st, res |-> res]]
jobOnly == <<order, phase, frame, money, request, replaced, ship, label, scanned,
             outcome, claim>>

\* requireJobAcceptanceOwnership: material held -> allocated and capacity
\* held -> scheduled, with a draft artifact of the reservation's snapshot.
AcceptJob(s) ==
  /\ JobMay(s, "accepted")
  /\ job[s].res = "held"
  /\ SetJob(s, "accepted", "scheduled")
  /\ UNCHANGED jobOnly

\* requireAtomicGcodeReadyProduction: the slice is of the scheduled
\* reservation's snapshot, and seals the draft artifact.
ReadyGcode(s) ==
  /\ JobMay(s, "gcode_ready")
  /\ job[s].res = "scheduled"
  /\ SetJob(s, "gcode_ready", "scheduled")
  /\ UNCHANGED jobOnly

\* requirePrintingReservationCommit: the scheduled reservation is committed
\* into material consumption.
StartPrinting(s) ==
  /\ JobMay(s, "printing")
  /\ job[s].res = "scheduled"
  /\ SetJob(s, "printing", "printing")
  /\ UNCHANGED jobOnly

\* printed and packed have no guard of their own; a photo and an approval
\* bind the exact job and its retained photo asset.
\* requireAtomicQcPhotoSubmission, requireExactQcDecision
AdvanceJob(s, to) ==
  /\ to \in {"printed", "photo_submitted", "qc_approved", "packed"}
  /\ JobMay(s, to)
  /\ SetJob(s, to, job[s].res)
  /\ UNCHANGED jobOnly

\* The flag labelCancellationBarrierCompleted: no label of the job's parcel
\* waits for its provider void.
labelCancellationBarrierCompleted(s) == ship[parcelOf[s]] # "cancellation_pending"

\* requireAtomicJobFailureSettlement, requireJobResourceSettlement and
\* requireJobReplacementObligation: the reservation ends with the job, and a
\* replacement request with a deadline is opened.
requireAtomicJobFailureSettlement(s, to) ==
  /\ JobMay(s, to)
  /\ requireJobResourceSettlement(job[s])
  /\ labelCancellationBarrierCompleted(s)
  /\ job' = [job EXCEPT ![s] = EndJob(@, to)]
  /\ request' = [request EXCEPT ![s] = "open"]

\* requireExactQcDecision "rejected", requireExactQcRejectionReplacement
RejectQc(s) ==
  /\ requireAtomicJobFailureSettlement(s, "qc_rejected")
  /\ UNCHANGED <<order, phase, frame, money, replaced, ship, label, scanned,
                 outcome, claim>>

\* kind "pre_handoff_recovery": the phase and the order go into recovery with
\* the job, and an active balance deadline is invalidated.
RecoverBeforeHandoff == MovePhase("recovery_pending") /\ MoveOrder("recovery_pending")

\* kind "post_handoff_slot_block": they stay shipped and the slot is blocked.
BlockAfterHandoff == phase = "shipped" /\ order = "shipped" /\ UNCHANGED <<order, phase>>

\* requirePostQcJobFailureResolution
requirePostQcJobFailureResolution == RecoverBeforeHandoff \/ BlockAfterHandoff

FailJob(s) ==
  /\ requireAtomicJobFailureSettlement(s, "failed")
  /\ \/ requirePostQcJobFailureResolution
     \/ /\ job[s].st \notin {"qc_approved", "packed"}
        /\ UNCHANGED <<order, phase>>
  /\ UNCHANGED <<frame, money, replaced, ship, label, scanned, outcome, claim>>

\* requireCreatedJobCancellationOwnership: every routing offer is closed and
\* the held reservation is released.
CancelCreatedJob(s) ==
  /\ job[s].st = "created" /\ JobMay(s, "cancelled")
  /\ requireJobResourceSettlement(job[s])
  /\ job' = [job EXCEPT ![s] = EndJob(@, "cancelled")]
  /\ UNCHANGED jobOnly

\* The scope of a post-acceptance cancellation: the jobs that still contribute
\* to the parcel besides the cancelled one.
RemainingContributors(s) ==
  {t \in SlotsIn(parcelOf[s]) \ {s} : job[t].st # "cancelled"}

\* The shipment scope: a current leaf the carrier does not have yet, with a
\* usable label unless it is only planned.
CancellableScope(p) ==
  /\ ship[p] \in preHandoff
  /\ ship[p] # "planned" => label[p] = "usable"

\* A shared shipment is preserved for the siblings; one left without
\* contributors is cancelled.
ShipmentAfterCancellation(s) ==
  ship' = [ship EXCEPT ![parcelOf[s]] =
             IF RemainingContributors(s) # {} THEN @ ELSE "cancelled"]

\* Its label is preserved, or invalidated by a succeeded provider void.
LabelAfterCancellation(s) ==
  label' = [label EXCEPT ![parcelOf[s]] =
              IF RemainingContributors(s) # {} \/ @ = "none" THEN @
              ELSE "invalidated"]

\* requireExactPostAcceptanceJobCancellation
CancelAcceptedJob(s) ==
  /\ job[s].st # "created" /\ JobMay(s, "cancelled")
  /\ requireJobResourceSettlement(job[s])
  /\ CancellableScope(parcelOf[s])
  /\ ShipmentAfterCancellation(s)
  /\ LabelAfterCancellation(s)
  /\ job' = [job EXCEPT ![s] = EndJob(@, "cancelled")]
  /\ UNCHANGED <<order, phase, frame, money, request, replaced, scanned, outcome,
                 claim>>

\* A replacement job is a new aggregate in the policy's initial state; it is
\* created by the adapter while the order is open and the parcel still takes it.
ReplaceJob(s) ==
  /\ request[s] = "open" /\ replaced[s] < MaxReplacements
  /\ order \in {"confirmed", "in_production", "recovery_pending", "shipped"}
  /\ ship[parcelOf[s]] \in {"planned", "label_created"}
  /\ outcome[s] = "pending"
  /\ SetJob(s, "created", "held")
  /\ request' = [request EXCEPT ![s] = "none"]
  /\ replaced' = [replaced EXCEPT ![s] = @ + 1]
  /\ UNCHANGED <<order, phase, frame, money, ship, label, scanned, outcome, claim>>

\* The claim-window record of a slot: elapsed, or its claim resolved with the
\* hold released.
ClaimWindowOver(s) == ~claim[s]

\* requireDeliveredJobSettlement: the slot was delivered with its lineage.
SettleJob(s) ==
  /\ JobMay(s, "settled")
  /\ outcome[s] = "delivered" /\ ship[parcelOf[s]] = "delivered"
  /\ ClaimWindowOver(s)
  /\ SetJob(s, "settled", job[s].res)
  /\ UNCHANGED jobOnly

-----------------------------------------------------------------------------
\* Shipments.

shipOnly == <<order, phase, frame, money, request, replaced, outcome>>

\* requireAtomicShipmentLabelCreation
CreateLabel(p) ==
  /\ ship[p] = "planned" /\ MoveShipment(p, "label_created")
  /\ label' = [label EXCEPT ![p] = "usable"]
  /\ UNCHANGED <<shipOnly, job, scanned, claim>>

\* The jobs a cancelled shipment takes with it.
CancelJobsOf(p) ==
  job' = [s \in Slots |->
            IF s \in SlotsIn(p) /\ job[s].st \in cancellable
            THEN EndJob(job[s], "cancelled") ELSE job[s]]

\* requireAtomicPlannedShipmentCancellation: every job of the shipment's
\* resource set is cancelled and every reservation released or settled.
CancelPlanned(p) ==
  /\ ship[p] = "planned" /\ MoveShipment(p, "cancelled")
  /\ \E s \in SlotsIn(p) : job[s].st \in cancellable
  /\ CancelJobsOf(p)
  /\ UNCHANGED <<shipOnly, label, scanned, claim>>

\* requireExactShipmentCancellationRequest: the label is invalidated and the
\* provider void is queued with the move.
RequestCancellation(p) ==
  /\ MoveShipment(p, "cancellation_pending")
  /\ label[p] = "usable"
  /\ label' = [label EXCEPT ![p] = "invalidated"]
  /\ UNCHANGED <<shipOnly, job, scanned, claim>>

\* requireExactVerifiedProviderVoid, requireShipmentCancellationReleased: the
\* authenticated void closes the request and releases jobs and reservations.
ConfirmVoid(p) ==
  /\ ship[p] = "cancellation_pending" /\ MoveShipment(p, "cancelled")
  /\ CancelJobsOf(p)
  /\ UNCHANGED <<shipOnly, label, scanned, claim>>

\* The carrier takes the parcel on a label whose void has not succeeded.  The
\* scan reaches the system later, possibly after the void.
CarrierAccepts(p) ==
  /\ ship[p] \in {"label_created", "cancellation_pending"} /\ p \notin scanned
  /\ scanned' = scanned \cup {p}
  /\ UNCHANGED <<shipOnly, job, ship, label, claim>>

\* requireVerifiedMatchingProviderShipmentEvent, requireExactShipmentProviderOutcome
Transit(p) ==
  /\ MoveShipment(p, "in_transit")
  /\ UNCHANGED <<shipOnly, job, label, scanned, claim>>

Deliver(p) ==
  /\ MoveShipment(p, "delivered")
  /\ outcome' = [s \in Slots |-> IF s \in SlotsIn(p) /\ outcome[s] = "pending"
                                 THEN "delivered" ELSE outcome[s]]
  /\ UNCHANGED <<order, phase, frame, money, request, replaced, job, label,
                 scanned, claim>>

\* The affected slots are exactly the shipment's own.
AffectedSlots(p) == SlotsIn(p)

\* Every affected slot is routed to an active claim: an owned slot stays with
\* its claim, the others share the one new incident claim.
RouteToClaims(p) == claim' = [s \in Slots |-> claim[s] \/ s \in AffectedSlots(p)]

\* requireAtomicShipmentIncidentRouting
Incident(p, to) ==
  /\ to \in {"lost", "returned"}
  /\ MoveShipment(p, to)
  /\ RouteToClaims(p)
  /\ UNCHANGED <<shipOnly, job, label, scanned>>

Recover(p) ==
  /\ MoveShipment(p, "recovered")
  /\ UNCHANGED <<shipOnly, job, label, scanned, claim>>

-----------------------------------------------------------------------------
\* Handing a parcel over.

\* requireExactJobHandoff, kind "ordinary"
requireExactJobHandoff(s, from) == job[s].st = from /\ JobMay(s, "handed_over")

\* The slots of a handoff: the shipment's complete set, each through its exact
\* contributing job.
HandoffSlots(p, from) ==
  /\ SlotsIn(p) # {}
  /\ \A s \in SlotsIn(p) : requireExactJobHandoff(s, from)

\* The jobs of a handoff: every contributing one moves.
HandJobsOver(p, from) ==
  /\ HandoffSlots(p, from)
  /\ job' = [s \in Slots |-> IF s \in SlotsIn(p)
                             THEN [job[s] EXCEPT !.st = "handed_over"] ELSE job[s]]

\* The aggregate part of requireAtomicOrdinaryHandoff: the first parcel ships
\* the phase and the order; a later parcel leaves them shipped.
FirstParcel(orderPrevious, phasePrevious) ==
  /\ order = orderPrevious /\ phase = phasePrevious
  /\ MoveOrder("shipped") /\ MovePhase("shipped")
LaterParcel ==
  /\ order = "shipped" /\ phase = "shipped"
  /\ UNCHANGED <<order, phase>>

\* requireAtomicOrdinaryHandoff, requireExactJobHandoff "ordinary": shipment,
\* order, phase, slots and jobs move on one verified scan.
requireAtomicOrdinaryHandoff(p) ==
  /\ HandJobsOver(p, "packed")
  /\ \/ FirstParcel("ready_to_ship", "qc_passed") /\ requireZeroBalances
     \/ LaterParcel

\* requireExactLabelledShipmentHandoff,
\* requireExactSelectedLabelledShipmentAggregate
HandOver(p) ==
  /\ p \in scanned /\ ship[p] = "label_created"
  /\ MoveShipment(p, "handed_over")
  /\ requireAtomicOrdinaryHandoff(p)
  /\ UNCHANGED <<frame, money, request, replaced, label, scanned, outcome, claim>>

\* hasExactRecoverableProviderVoidCancellationRace: the shipment was voided,
\* and the carrier had accepted it before.
hasExactRecoverableProviderVoidCancellationRace(p) ==
  p \in scanned /\ ship[p] = "cancelled"

\* requireVerifiedMatchingCancellationRaceScan: a verified acceptance of a
\* shipment whose cancellation is open, or was completed by such a void.
requireVerifiedMatchingCancellationRaceScan(p) ==
  \/ p \in scanned /\ ship[p] = "cancellation_pending"
  \/ hasExactRecoverableProviderVoidCancellationRace(p)

\* requireExactCancellationRaceHandoffResult: the order and phase statuses each
\* kind of race starts from.
RaceSources == [open |-> <<"ready_to_ship", "qc_passed">>,
                committed |-> <<"cancelled", "cancelled">>,
                unpaid |-> <<"awaiting_balance", "qc_passed">>,
                refunded |-> <<"refunded", "cancelled_refunded">>]
RacingParcel(kind) == FirstParcel(RaceSources[kind][1], RaceSources[kind][2])

\* requireExactHandoffShipmentOrigin
requireExactHandoffShipmentOrigin(p, previous) == ship[p] = previous

\* requireExactCancellationRaceHandoffResult, kind "ordinary": the scan wins
\* over a request still open, or over a committed cancellation, whose slots
\* become pending and whose refund is withdrawn again.
RaceHandOver(p) ==
  /\ requireVerifiedMatchingCancellationRaceScan(p)
  /\ MoveShipment(p, "handed_over")
  /\ \/ /\ requireExactHandoffShipmentOrigin(p, "cancellation_pending")
        /\ RacingParcel("open")
        /\ requireZeroBalances
        /\ HandJobsOver(p, "packed")
        /\ UNCHANGED <<refundable, outcome>>
     \/ /\ requireExactHandoffShipmentOrigin(p, "cancelled")
        /\ RacingParcel("committed")
        /\ requireZeroAmountDue
        /\ HandJobsOver(p, "cancelled")
        /\ \A s \in SlotsIn(p) : outcome[s] = "cancelled"
        /\ refundable' = FALSE
        /\ outcome' = [s \in Slots |-> IF s \in SlotsIn(p) THEN "pending"
                                       ELSE outcome[s]]
  /\ UNCHANGED <<frame, due, deposit, request, replaced, label, scanned, claim>>

\* requireExactRefundedHandoffFinancialProof: every payment of the order was
\* refunded in full and every slot of the parcel was cancelled with it.
RefundedInFull == requireZeroBalances
requireExactRefundedHandoffFinancialProof(p) ==
  /\ RefundedInFull
  /\ \A s \in SlotsIn(p) : outcome[s] = "cancelled_refunded"

\* hasExactRefundedCancellationRecoveryMarker: a refunded order is shipped
\* again once; its later parcels rely on the reconciliation already recorded.
hasExactRefundedCancellationRecoveryMarker ==
  \/ RacingParcel("refunded")
  \/ LaterParcel /\ reconciled

\* kind "unauthorized_reconciliation": a parcel that left before its balance
\* was paid, or after its order was refunded; the immutable settlement of the
\* handoff writes the amount off.
ReconcileHandoff(p) ==
  /\ requireVerifiedMatchingCancellationRaceScan(p)
  /\ MoveShipment(p, "handed_over")
  /\ \/ /\ RacingParcel("unpaid")
        /\ HandJobsOver(p, "packed")
        /\ due' = FALSE
        /\ UNCHANGED outcome
     \/ /\ requireExactHandoffShipmentOrigin(p, "cancelled")
        /\ hasExactRefundedCancellationRecoveryMarker
        /\ requireExactRefundedHandoffFinancialProof(p)
        /\ HandJobsOver(p, "cancelled")
        /\ outcome' = [s \in Slots |-> IF s \in SlotsIn(p) THEN "pending"
                                       ELSE outcome[s]]
        /\ UNCHANGED due
  /\ reconciled' = TRUE
  /\ UNCHANGED <<parcelOf, refundable, deposit, request, replaced, label, scanned,
                 claim>>

-----------------------------------------------------------------------------
\* The order and its phase.

aggOnly == <<frame, deposit, job, request, replaced, ship, label, scanned, claim>>

\* requireAtomicOrderPhaseProductionStart
StartProduction ==
  /\ order = "confirmed" /\ phase = "active"
  /\ MoveOrder("in_production") /\ MovePhase("in_production")
  /\ UNCHANGED <<aggOnly, due, refundable, outcome>>

qcReadyJobStatuses == {"qc_approved", "packed", "handed_over", "settled"}

\* One current job leaf past QC, no open replacement and no recovery block.
QcReadySource(s) == job[s].st \in qcReadyJobStatuses /\ request[s] = "none"

\* requireCompleteQcSlotSet: every slot of the authoritative set.
requireCompleteQcSlotSet == \A s \in Slots : QcReadySource(s)

\* requireAtomicOrderPhaseQcCompletion
CompleteQc ==
  /\ order \in {"in_production", "recovery_pending"} /\ phase = order
  /\ requireCompleteQcSlotSet
  /\ MoveOrder("qc_passed") /\ MovePhase("qc_passed")
  /\ UNCHANGED <<aggOnly, due, refundable, outcome>>

\* requireBalancePaymentDeadlineSetup: a pending balance payment with its
\* deadline; the phase stays qc_passed.
AwaitBalance ==
  /\ order = "qc_passed" /\ phase = "qc_passed" /\ due
  /\ MoveOrder("awaiting_balance")
  /\ UNCHANGED <<aggOnly, due, refundable, phase, outcome>>

CaptureBalance ==
  /\ order = "awaiting_balance" /\ due
  /\ due' = FALSE
  /\ UNCHANGED <<aggOnly, order, phase, refundable, outcome>>

\* requireCompleteShipmentReadiness: every current shipment of the
\* authoritative set has a usable label and only packed jobs.
requireCompleteShipmentReadiness ==
  \A p \in Used : /\ ship[p] = "label_created" /\ label[p] = "usable"
                  /\ \A s \in SlotsIn(p) : job[s].st = "packed"

MarkReadyToShip ==
  /\ order \in {"qc_passed", "awaiting_balance"}
  /\ requireZeroBalances
  /\ requireCompleteShipmentReadiness
  /\ MoveOrder("ready_to_ship")
  /\ UNCHANGED <<aggOnly, due, refundable, phase, outcome>>

\* The one current leaf of a lineage, as the delivery projection records it.
LineageLeafDelivered(p) == ship[p] = "delivered"

\* requireAllShipmentLineageLeavesDelivered, for the order and for its phase.
requireAllShipmentLineageLeavesDelivered == \A p \in Used : LineageLeafDelivered(p)

DeliverOrder ==
  /\ requireAllShipmentLineageLeavesDelivered
  /\ MoveOrder("delivered")
  /\ UNCHANGED <<aggOnly, due, refundable, phase, outcome>>

DeliverPhase ==
  /\ requireAllShipmentLineageLeavesDelivered
  /\ MovePhase("delivered")
  /\ UNCHANGED <<aggOnly, due, refundable, order, outcome>>

\* The outcomes a terminal target stands for.
expectedOutcomes(target) ==
  IF target = "completed" THEN {"delivered"}
  ELSE IF target = "partially_fulfilled" THEN {"delivered", "cancelled_refunded"}
  ELSE IF target \in {"refunded", "cancelled_refunded"} THEN {"cancelled_refunded"}
  ELSE {"cancelled_settled"}

\* requireProjectedCompletionTarget: the outcomes of the complete slot set
\* decide the one terminal target that may be taken.
requireProjectedCompletionTarget(target) ==
  {outcome[s] : s \in Slots} = expectedOutcomes(target)

\* requireAtomicOrderPhaseCompletion
CompleteOrder ==
  /\ order = "delivered" /\ phase = "delivered"
  /\ requireProjectedCompletionTarget("completed") /\ requireZeroBalances
  /\ MoveOrder("completed") /\ MovePhase("completed")
  /\ UNCHANGED <<aggOnly, due, refundable, outcome>>

\* expectedOrderTerminalPhaseDisposition
expectedOrderTerminalPhaseDisposition(target) ==
  {d \in {[from |-> "shipped", to |-> "partially_fulfilled",
           phases |-> {"shipped"}, target |-> "partially_fulfilled"],
          [from |-> "recovery_pending", to |-> "partially_fulfilled",
           phases |-> {"recovery_pending"}, target |-> "partially_fulfilled"],
          [from |-> "cancelled", to |-> "refunded",
           phases |-> {"cancelled"}, target |-> "cancelled_refunded"],
          [from |-> "cancelled", to |-> "cancelled_settled",
           phases |-> {"cancelled"}, target |-> "cancelled_settled"]} :
     d.from = order /\ d.to = target}

\* requireAtomicOrderTerminalPhaseDisposition: the phase takes its terminal
\* status in the same result, or took it in an earlier one.
TerminateOrder(target) ==
  /\ target \in {"partially_fulfilled", "refunded", "cancelled_settled"}
  /\ requireProjectedCompletionTarget(target) /\ requireZeroBalances
  /\ MoveOrder(target)
  /\ \E d \in expectedOrderTerminalPhaseDisposition(target) :
       \/ phase \in d.phases /\ MovePhase(d.target)
       \/ phase = d.target /\ UNCHANGED phase
  /\ UNCHANGED <<aggOnly, due, refundable, outcome>>

\* The phase's own terminal entry, committed before the order's: from
\* shipped or recovery_pending it needs its recovery settlement and every
\* pre-handoff shipment cancellation.
\* requireProjectedFinancialTerminalTarget
preHandoffShipmentCancellationsCompleted ==
  \A p \in Used : ship[p] \notin preHandoff

TerminatePhase(target) ==
  /\ target \in {"partially_fulfilled", "cancelled_refunded", "cancelled_settled"}
  /\ requireProjectedCompletionTarget(target) /\ requireZeroBalances
  /\ phase \in {"shipped", "recovery_pending"} /\ target = "cancelled_refunded" =>
       preHandoffShipmentCancellationsCompleted
  /\ MovePhase(target)
  /\ UNCHANGED <<aggOnly, order, due, refundable, outcome>>

\* expectedOrderCancellationPhaseDisposition
expectedOrderCancellationPhaseDisposition ==
  {d \in {[from |-> {"confirmed"}, phase |-> "active", target |-> "cancelled"],
          [from |-> {"in_production"}, phase |-> "in_production", target |-> "cancelled"],
          [from |-> {"qc_passed", "awaiting_balance", "ready_to_ship"},
           phase |-> "qc_passed", target |-> "cancelled"],
          [from |-> {"shipped"}, phase |-> "shipped", target |-> "cancelled_refunded"],
          [from |-> {"recovery_pending"}, phase |-> "recovery_pending",
           target |-> "cancelled_refunded"]} :
     order \in d.from}

\* expectedSinglePhaseCancellationDisposition: the phase's own entry, by the
\* order statuses it goes with.
expectedSinglePhaseCancellationDisposition(st) ==
  {o \in OrderStatus : <<st, o>> \in
     UNION {Pairs("quoted", {"quoted"}), Pairs("active", {"confirmed"}),
            Pairs("in_production", {"in_production"}),
            Pairs("qc_passed", {"qc_passed", "awaiting_balance", "ready_to_ship"})}}

\* requireAtomicOrderPhaseCancellation: the order and its phase are cancelled
\* in one result, after every pre-handoff shipment cancellation; a shipped or
\* recovering phase is cancelled as refunded, with its settlement complete.
CancelOrder ==
  \E d \in expectedOrderCancellationPhaseDisposition :
    /\ phase = d.phase
    /\ preHandoffShipmentCancellationsCompleted
    /\ MoveOrder("cancelled") /\ MovePhase(d.target)
    /\ \/ /\ d.target = "cancelled_refunded"
          /\ requireProjectedCompletionTarget("cancelled_refunded")
          /\ requireZeroBalances
          /\ UNCHANGED <<due, refundable, outcome>>
       \/ /\ d.target = "cancelled"
          /\ order \in expectedSinglePhaseCancellationDisposition(phase)
          /\ due' = FALSE /\ refundable' = TRUE
          /\ outcome' = [s \in Slots |-> IF outcome[s] = "pending"
                                         THEN "cancelled" ELSE outcome[s]]
    /\ UNCHANGED aggOnly

\* requireRoleSpecificPaymentVoidClosure, role "balance": the pending balance
\* payment is voided with the settlement of its order and phase.
balanceVoidClosure ==
  /\ order = "awaiting_balance" /\ phase = "qc_passed"
  /\ preHandoffShipmentCancellationsCompleted
  /\ order' = "cancelled_settled" /\ phase' = "cancelled_settled"

\* awaiting_balance -> cancelled_settled: the balance was never captured, the
\* deposit is kept; the phase is cancelled and settled in the same result.
SettleUnpaidBalance ==
  /\ due /\ balanceVoidClosure
  /\ MoveOrder("cancelled_settled")
  /\ due' = FALSE
  /\ outcome' = [s \in Slots |-> "cancelled_settled"]
  /\ UNCHANGED <<aggOnly, refundable>>

\* The financial settlement the terminal guards read: the cancelled slots are
\* refunded, or kept by a settlement.
SettleCancellation(to) ==
  /\ to \in {"cancelled_refunded", "cancelled_settled"}
  /\ order = "cancelled" /\ refundable
  /\ refundable' = FALSE
  /\ outcome' = [s \in Slots |-> IF outcome[s] = "cancelled" THEN to ELSE outcome[s]]
  /\ UNCHANGED <<aggOnly, order, phase, due>>

\* After the first handoff, or in recovery, a slot whose job failed or whose
\* parcel was lost, returned or cancelled is refunded on its own.
RefundSlot(s) ==
  /\ order \in {"shipped", "recovery_pending"} /\ outcome[s] = "pending"
  /\ \/ request[s] = "open" \/ job[s].st = "cancelled"
     \/ claim[s] /\ ship[parcelOf[s]] \in {"lost", "returned", "recovered"}
  /\ outcome' = [outcome EXCEPT ![s] = "cancelled_refunded"]
  /\ request' = [request EXCEPT ![s] = "none"]
  /\ claim' = [claim EXCEPT ![s] = FALSE]
  /\ UNCHANGED <<frame, money, order, phase, job, replaced, ship, label, scanned>>

\* The reopened aggregates: every slot had been cancelled and refunded, and
\* all of them are cancelled again with the order and its phase.
ReopenAggregates ==
  /\ order = "refunded" /\ phase = "cancelled_refunded"
  /\ MoveOrder("cancelled") /\ MovePhase("cancelled")
  /\ \A s \in Slots : outcome[s] = "cancelled_refunded"
  /\ outcome' = [s \in Slots |-> "cancelled"]

\* requireExactLateRefundFailureReconciliation, for the order and the phase: a
\* refund reported succeeded turns out to have failed.
LateRefundFailure ==
  /\ ReopenAggregates
  /\ refundable' = TRUE
  /\ UNCHANGED <<aggOnly, due>>

\* A customer opens, and the operator resolves, a quality claim on a slot.
OpenClaim(s) ==
  /\ outcome[s] = "delivered" /\ job[s].st = "handed_over" /\ ~claim[s]
  /\ claim' = [claim EXCEPT ![s] = TRUE]
  /\ UNCHANGED <<shipOnly, frame, job, ship, label, scanned>>
ResolveClaim(s) ==
  /\ claim[s] /\ outcome[s] = "delivered"
  /\ claim' = [claim EXCEPT ![s] = FALSE]
  /\ UNCHANGED <<shipOnly, frame, job, ship, label, scanned>>

-----------------------------------------------------------------------------
OrderInit ==
  /\ order = "draft" /\ phase = "none"
  /\ parcelOf \in [Slots -> Parcels]
  /\ due = FALSE /\ refundable = FALSE /\ deposit \in BOOLEAN
  /\ job = [s \in Slots |-> [st |-> "none", res |-> "none"]]
  /\ request = [s \in Slots |-> "none"]
  /\ replaced = [s \in Slots |-> 0]
  /\ ship = [p \in Parcels |-> "none"]
  /\ label = [p \in Parcels |-> "none"]
  /\ scanned = {}
  /\ outcome = [s \in Slots |-> "pending"]
  /\ claim = [s \in Slots |-> FALSE]
  /\ reconciled = FALSE

OrderCommand ==
  \/ QuoteOrder \/ CaptureInitialPayment \/ CompensateCapacityCapture
  \/ \E target \in {"expired", "cancelled"} : CloseCheckout(target)
  \/ StartProduction \/ CompleteQc \/ AwaitBalance \/ CaptureBalance
  \/ MarkReadyToShip \/ DeliverOrder \/ DeliverPhase \/ CompleteOrder \/ CancelOrder
  \/ SettleUnpaidBalance \/ LateRefundFailure
  \/ \E target \in OrderStatus : TerminateOrder(target)
  \/ \E target \in PhaseStatus : TerminatePhase(target)
  \/ \E to \in SlotOutcome : SettleCancellation(to)
JobCommand ==
  \E s \in Slots :
    \/ AcceptJob(s) \/ ReadyGcode(s) \/ StartPrinting(s)
    \/ \E to \in JobStatus : AdvanceJob(s, to)
    \/ RejectQc(s) \/ FailJob(s) \/ CancelCreatedJob(s) \/ CancelAcceptedJob(s)
    \/ ReplaceJob(s) \/ SettleJob(s) \/ RefundSlot(s) \/ OpenClaim(s)
    \/ ResolveClaim(s)
ShipmentCommand ==
  \E p \in Parcels :
    \/ CreateLabel(p) \/ CancelPlanned(p) \/ RequestCancellation(p) \/ ConfirmVoid(p)
    \/ CarrierAccepts(p) \/ Transit(p) \/ Deliver(p) \/ Recover(p)
    \/ \E to \in {"lost", "returned"} : Incident(p, to)
    \/ HandOver(p) \/ RaceHandOver(p) \/ ReconcileHandoff(p)
OrderNext == OrderCommand \/ JobCommand \/ ShipmentCommand

OrderSpec == OrderInit /\ [][OrderNext]_orderVars

-----------------------------------------------------------------------------
\* Every aggregate of an order holds a status of its policy.
LifecycleTypeOK ==
  /\ order \in OrderStatus /\ phase \in PhaseStatus
  /\ parcelOf \in [Slots -> Parcels]
  /\ due \in BOOLEAN /\ refundable \in BOOLEAN /\ deposit \in BOOLEAN
  /\ job \in [Slots -> [st : JobStatus, res : ReservationStatus]]
  /\ request \in [Slots -> {"none", "open"}]
  /\ replaced \in [Slots -> 0..MaxReplacements]
  /\ ship \in [Parcels -> ShipmentStatus]
  /\ label \in [Parcels -> {"none", "usable", "invalidated"}]
  /\ scanned \subseteq Parcels
  /\ outcome \in [Slots -> SlotOutcome]
  /\ claim \in [Slots -> BOOLEAN]
  /\ reconciled \in BOOLEAN

\* A parcel leaves whole: it is in the carrier's custody exactly when every
\* job of every slot in it has been handed over, whether it left by the
\* ordinary handoff, by a scan that beat its cancellation, or by a
\* reconciliation of a cancelled or refunded order.
ParcelsLeaveWhole ==
  \A s \in Slots : (ship[parcelOf[s]] \in custody)
                      <=> (job[s].st \in {"handed_over", "settled"})

\* A closed order owns nothing: once it is cancelled, refunded or settled no
\* job holds a reservation and no label can still be handed over, unless a
\* parcel that had already left brought it back to shipped.
ClosedOrderOwnsNothing ==
  order \in {"cancelled", "refunded", "cancelled_settled", "expired"} =>
    /\ \A s \in Slots : job[s].res \notin {"held", "scheduled"}
    /\ \A s \in Slots : job[s].res = "printing" => job[s].st \in {"handed_over", "settled"}
    /\ \A p \in Parcels : ship[p] \notin {"label_created", "cancellation_pending"}

\* The single phase tells the truth about its order: the two may differ only
\* where one of them takes the step the other has already taken.
PhaseFollowsOrder ==
  /\ order = "draft" => phase = "none"
  /\ order = "quoted" => phase = "quoted"
  /\ order = "confirmed" => phase = "active"
  /\ order = "in_production" => phase = "in_production"
  /\ order = "recovery_pending" =>
       phase \in {"recovery_pending", "partially_fulfilled", "cancelled_refunded"}
  /\ order \in {"qc_passed", "awaiting_balance", "ready_to_ship"} =>
       phase = "qc_passed"
  /\ order = "shipped" =>
       phase \in {"shipped", "delivered", "partially_fulfilled", "cancelled_refunded"}
  /\ order = "delivered" => phase \in {"shipped", "delivered"}
  /\ order = "cancelled" =>
       phase \in {"cancelled", "cancelled_refunded", "cancelled_settled"}
  /\ order = "refunded" => phase = "cancelled_refunded"
  /\ order = "expired" => phase = "cancelled"
  /\ order \in {"completed", "cancelled_settled", "partially_fulfilled"} => phase = order

\* No goods leave unpaid: while the order is shipped, delivered or completed
\* nothing is due on it, so a balance is captured or written off before or
\* with the first parcel.
NothingShipsUnpaid ==
  order \in {"ready_to_ship", "shipped", "delivered", "completed",
             "partially_fulfilled"} => ~due

\* Order, phase, jobs and parcels agree after every command of the fulfilment
\* policies, through recovery, cancellation and its races with the carrier.
OrderSound ==
  ParcelsLeaveWhole /\ ClosedOrderOwnsNothing /\ PhaseFollowsOrder /\ NothingShipsUnpaid
=============================================================================
