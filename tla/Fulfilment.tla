----------------------------- MODULE Fulfilment -----------------------------
(***************************************************************************)
(* One confirmed order as OrdersService drives it: its jobs, parcels,      *)
(* recovery requests, claims and scoped refunds, the carrier and the       *)
(* payment provider outside it, and the constraints the database checks    *)
(* when a command commits.  A command is one transaction (`command` locks  *)
(* the order row first), so it is one action, and an action whose result   *)
(* breaks a deferred constraint is not possible: `Commit`.                 *)
(*                                                                         *)
(* A job is named by the slot it produces and is the current job of that   *)
(* slot's lineage; a parcel is named by its shipment plan and is the       *)
(* current leaf of the plan's lineage.  The slots of one plan change       *)
(* outcome together, and so do the resolutions of a claim, so both are     *)
(* kept per plan.  Every slot is worth one unit of money.                  *)
(***************************************************************************)
EXTENDS Naturals, FiniteSets

CONSTANTS
  Slots,            \* fulfilment slots of the order
  Shapes,           \* accepted plans: the parcel each slot travels in, and
                    \* whether a balance is due after the deposit
  MaxReplacements,  \* bound: replacement jobs of the order
  MaxReturns        \* bound: parcels its claims reprint or reship

ASSUME ShapesAssumption ==
  \A h \in Shapes : /\ DOMAIN h.parcel = Slots
                    /\ h.split \in BOOLEAN
                    /\ h.split => Cardinality(Slots) > 1
ASSUME BoundsAssumption ==
  IsFiniteSet(Slots) /\ MaxReplacements \in Nat /\ MaxReturns \in Nat

VARIABLES
  shape,            \* the plan and payment schedule the customer accepted
  order, phase,     \* statuses of the order and of its single phase
  job,              \* status of the current job of a slot
  reservation,      \* its production reservation
  assigned,         \* packed into the current parcel of its plan
  request,          \* the replacement request of a failed current job
  origin,           \* what the current job is: the first, a replacement, a reprint
  replaced,         \* replacement jobs created so far
  leaf,             \* status of the current parcel of a plan
  scan,             \* how custody of the parcel was recorded
  accepted, voided, \* what the carrier did with the parcel's label
  outcome,          \* outcome of the slots of a plan
  claim,            \* the last claim about a plan's parcel, whether a carrier
  incident,         \* incident opened it, and its resolution
  resolution,
  returns,          \* successors claims have sent so far
  reprint,          \* whether the current parcel is a claim reprint, or one was
  reason, refund,   \* the refund scoped to a plan
  failedBefore,     \* some attempt of the order's refunds is FAILED for good
  cancellation,     \* the refund of the whole order, and whether it was
  retried,          \* retried
  balance           \* the balance payment

production == <<job, reservation, assigned, request, origin, replaced>>
parcels == <<leaf, scan, outcome, returns, reprint>>
carrier == <<accepted, voided>>
claims == <<claim, incident, resolution>>
scoped == <<reason, refund, failedBefore>>
money == <<scoped, cancellation, retried, balance>>
aggregate == <<shape, order, phase>>
vars == <<aggregate, production, parcels, carrier, claims, money>>

OrderStatus == {"CONFIRMED", "IN_PRODUCTION", "QC_PASSED", "AWAITING_BALANCE",
                "READY_TO_SHIP", "SHIPPED", "DELIVERED", "COMPLETED",
                "RECOVERY_PENDING", "PARTIALLY_FULFILLED", "CANCELLED", "REFUNDED"}
PhaseStatus == {"ACTIVE", "IN_PRODUCTION", "QC_PASSED", "SHIPPED", "DELIVERED",
                "COMPLETED", "RECOVERY_PENDING", "PARTIALLY_FULFILLED",
                "CANCELLED", "CANCELLED_REFUNDED"}
PreparedJobs == {"CREATED", "ACCEPTED", "GCODE_READY"}
StartedJobs == {"PRINTING", "PRINTED", "PHOTO_SUBMITTED", "QC_APPROVED", "PACKED"}
FailedJobs == {"FAILED", "QC_REJECTED"}
JobStatus == PreparedJobs \cup StartedJobs \cup FailedJobs
             \cup {"HANDED_OVER", "SETTLED", "CANCELLED"}
Custody == {"HANDED_OVER", "IN_TRANSIT", "DELIVERED", "LOST", "RETURNED", "RECOVERED"}
LiveLabels == {"LABEL_CREATED", "CANCELLATION_PENDING"}
ShipmentStatus == Custody \cup LiveLabels \cup {"NONE", "PLANNED", "CANCELLED"}
OpenClaims == {"OPEN", "ACTIVE"}
OpenRefunds == {"PENDING", "SENT"}

PlanOf == shape.parcel
SplitPayment == shape.split
Plans == {PlanOf[s] : s \in Slots}
SlotsOf(p) == {s \in Slots : PlanOf[s] = p}
Leaves(S) == {p \in Plans : leaf[p] \in S}
JobsOf(p) == {job[s] : s \in SlotsOf(p)}
AllJobs == {job[s] : s \in Slots}
Outcomes == {outcome[p] : p \in Plans}
OtherCustody(p) == \E q \in Plans \ {p} : leaf[q] \in Custody
ClaimOpen == \E p \in Plans : claim[p] \in OpenClaims
RefundOpen == \E p \in Plans : refund[p] \in OpenRefunds
ScopedRefund(p) == reason[p] \in {"PRODUCTION_FAILURE", "PARTIAL_CANCELLATION"}
RefundRequired(p) == {s \in SlotsOf(p) : request[s] = "REFUND_REQUIRED"}

(***************************************************************************)
(* Money, in slots.  An adjustment lowers the contract total; a captured   *)
(* balance completes the deposit of one unit.                              *)
(***************************************************************************)
Credited == {p \in Plans : reason[p] # "NONE"}
Paid == {p \in Plans : refund[p] = "SUCCEEDED"}
Worth(P) == Cardinality({s \in Slots : PlanOf[s] \in P})
contractTotal == Cardinality(Slots) - Worth(Credited)
captured == IF SplitPayment /\ balance # "CAPTURED" THEN 1 ELSE Cardinality(Slots)
refunded == IF cancellation = "SUCCEEDED" THEN captured ELSE Worth(Paid)
customerFunded == captured >= refunded + contractTotal
financialReady == /\ captured = refunded + contractTotal
                  /\ ~RefundOpen
                  /\ cancellation \notin OpenRefunds

(***************************************************************************)
(* What the database checks when a transaction commits.                    *)
(***************************************************************************)
RacedHandoff == \E p \in Plans : leaf[p] = "HANDED_OVER" /\ scan[p] = "RACE"
RefundedReconciliation == \E p \in Plans : scan[p] = "REFUNDED"
Recovering == \E s \in Slots : \/ request[s] \in {"OPEN", "REFUND_REQUIRED"}
                               \/ origin[s] # "FIRST"
ReprintedParcel == \E p \in Plans : reprint[p] # "NO"

\* A leaf that ended ended with its slots, and a slot with its leaf.
taven_reconcile_shipment_plan_slot_terminal_state ==
  \A p \in Plans :
    /\ leaf[p] = "DELIVERED" => outcome[p] = "DELIVERED"
    /\ leaf[p] = "CANCELLED" => outcome[p] \in {"CANCELLED", "CANCELLED_REFUNDED"}
    /\ outcome[p] = "DELIVERED" => leaf[p] = "DELIVERED"
    /\ outcome[p] = "CANCELLED" => leaf[p] \in {"NONE", "CANCELLED"}
    /\ outcome[p] = "CANCELLED_REFUNDED"
         => leaf[p] \in {"NONE", "CANCELLED", "LOST", "RETURNED"}

\* A job of a shipped order that is not on its way needs a reason.
ShippedJob(s) ==
  \/ job[s] \in {"PACKED", "HANDED_OVER"}
  \/ job[s] = "CANCELLED" /\ (RefundedReconciliation \/ ScopedRefund(PlanOf[s]))
  \/ job[s] \in FailedJobs \cup {"CANCELLED"} /\ ScopedRefund(PlanOf[s])
  \/ job[s] \in FailedJobs \cup {"CANCELLED"} /\ RefundRequired(PlanOf[s]) # {}
  \/ request[s] = "OPEN"
  \/ origin[s] # "FIRST"

ShippedOrder ==
  /\ phase = "SHIPPED"
  /\ Leaves(Custody) # {}
  /\ \A p \in Plans : \/ leaf[p] \in Custody \cup LiveLabels \cup {"NONE"}
                      \/ leaf[p] = "CANCELLED" /\ (RefundedReconciliation \/ ScopedRefund(p))
  /\ "HANDED_OVER" \in AllJobs
  /\ \A s \in Slots : ShippedJob(s)
  /\ \A p \in Plans : leaf[p] \in Custody <=> "HANDED_OVER" \in JobsOf(p)
  /\ \A p \in Leaves(Custody) : JobsOf(p) = {"HANDED_OVER"}
  /\ ~(Outcomes = {"DELIVERED"} /\ Leaves({"DELIVERED"}) = Plans)

RacedShippedOrder ==
  /\ RacedHandoff
  /\ phase = "SHIPPED"
  /\ AllJobs \subseteq {"QC_APPROVED", "PACKED", "HANDED_OVER"}
  /\ Leaves({"NONE", "PLANNED", "HANDED_OVER"} \cup LiveLabels) = Plans
  /\ Outcomes = {"PENDING"}

ClosedGraph(o) ==
  /\ AllJobs \subseteq FailedJobs \cup {"CANCELLED"}
  /\ Leaves({"NONE", "CANCELLED"}) = Plans
  /\ Outcomes = {o}

OrderGraph ==
  CASE order = "CONFIRMED" ->
         \/ Recovering
         \/ /\ phase = "ACTIVE"
            /\ AllJobs \subseteq PreparedJobs
            /\ Leaves({"NONE", "PLANNED"}) = Plans
            /\ Outcomes = {"PENDING"}
    [] order = "IN_PRODUCTION" ->
         /\ phase = "IN_PRODUCTION"
         /\ AllJobs \cap StartedJobs # {}
         /\ AllJobs \cap (FailedJobs \cup {"CANCELLED"}) = {}
         /\ Leaves({"NONE", "PLANNED"}) = Plans
         /\ Outcomes = {"PENDING"}
    [] order = "QC_PASSED" ->
         /\ phase = "QC_PASSED"
         /\ AllJobs \subseteq {"QC_APPROVED", "PACKED"}
         /\ Leaves({"NONE", "PLANNED", "LABEL_CREATED"}) = Plans
         /\ Outcomes = {"PENDING"}
    [] order = "READY_TO_SHIP" ->
         /\ phase = "QC_PASSED"
         /\ AllJobs = {"PACKED"}
         /\ Leaves(LiveLabels) = Plans
         /\ Outcomes = {"PENDING"}
    [] order = "SHIPPED" -> ReprintedParcel \/ RacedShippedOrder \/ ShippedOrder
    [] order = "DELIVERED" ->
         /\ phase = "DELIVERED"
         /\ Outcomes = {"DELIVERED"}
         /\ AllJobs \subseteq {"HANDED_OVER", "SETTLED"}
    [] order = "COMPLETED" -> phase = "COMPLETED" /\ AllJobs = {"SETTLED"}
    [] order = "RECOVERY_PENDING" ->
         /\ phase = "RECOVERY_PENDING"
         /\ Recovering \/ Leaves({"CANCELLATION_PENDING"}) # {}
         /\ Leaves(Custody) = {}
         /\ Outcomes = {"PENDING"}
    [] order = "PARTIALLY_FULFILLED" ->
         /\ phase = "PARTIALLY_FULFILLED"
         /\ "DELIVERED" \in Outcomes
         /\ Outcomes \subseteq {"DELIVERED", "CANCELLED_REFUNDED"}
         /\ ~ClaimOpen
         /\ ~RefundOpen
    [] order = "CANCELLED" -> phase = "CANCELLED" /\ ClosedGraph("CANCELLED")
    [] order = "REFUNDED" ->
         \/ /\ Outcomes = {"CANCELLED_REFUNDED"}
            /\ \E p \in Plans : incident[p] /\ claim[p] = "RESOLVED_REFUND"
            /\ ~RefundOpen
            /\ ~failedBefore
         \/ phase = "CANCELLED_REFUNDED" /\ ClosedGraph("CANCELLED_REFUNDED")
    [] OTHER -> TRUE

taven_reconcile_order_post_confirmation_lifecycle ==
  /\ OrderGraph
  /\ order \notin {"AWAITING_BALANCE"} /\ ~(order = "SHIPPED" /\ (ReprintedParcel \/ RacedShippedOrder))
       => /\ "HANDED_OVER" \in AllJobs
               => order \in {"SHIPPED", "DELIVERED", "PARTIALLY_FULFILLED", "REFUNDED"}
          /\ "SETTLED" \in AllJobs
               => order \in {"DELIVERED", "COMPLETED", "PARTIALLY_FULFILLED"}

\* A balance waits only for an order whose every job, the replaced ones too,
\* passed QC.
taven_reconcile_balance_payment_readiness ==
  order = "AWAITING_BALANCE"
    => /\ phase = "QC_PASSED"
       /\ AllJobs \subseteq {"QC_APPROVED", "PACKED"}
       /\ \A s \in Slots : origin[s] = "FIRST"
       /\ Leaves({"NONE", "PLANNED", "LABEL_CREATED"}) = Plans
       /\ Outcomes = {"PENDING"}

orderMoves ==
  [CONFIRMED |-> {"IN_PRODUCTION", "CANCELLED"},
   IN_PRODUCTION |-> {"QC_PASSED", "RECOVERY_PENDING", "CANCELLED"},
   QC_PASSED |-> {"READY_TO_SHIP", "AWAITING_BALANCE", "RECOVERY_PENDING", "CANCELLED"},
   AWAITING_BALANCE |-> {"READY_TO_SHIP", "RECOVERY_PENDING", "CANCELLED"},
   READY_TO_SHIP |-> {"SHIPPED", "RECOVERY_PENDING", "CANCELLED"},
   SHIPPED |-> {"DELIVERED", "PARTIALLY_FULFILLED", "CANCELLED", "REFUNDED"},
   DELIVERED |-> {"COMPLETED"},
   COMPLETED |-> {},
   RECOVERY_PENDING |-> {"QC_PASSED", "PARTIALLY_FULFILLED", "CANCELLED", "SHIPPED"},
   PARTIALLY_FULFILLED |-> {"SHIPPED"},
   CANCELLED |-> {"SHIPPED", "REFUNDED"},
   REFUNDED |-> {"SHIPPED", "CANCELLED"}]
phaseMoves ==
  [ACTIVE |-> {"IN_PRODUCTION", "CANCELLED"},
   IN_PRODUCTION |-> {"QC_PASSED", "RECOVERY_PENDING", "CANCELLED"},
   QC_PASSED |-> {"SHIPPED", "RECOVERY_PENDING", "CANCELLED"},
   SHIPPED |-> {"DELIVERED", "PARTIALLY_FULFILLED", "CANCELLED_REFUNDED"},
   DELIVERED |-> {"COMPLETED"},
   COMPLETED |-> {},
   RECOVERY_PENDING |-> {"QC_PASSED", "PARTIALLY_FULFILLED", "CANCELLED",
                         "CANCELLED_REFUNDED", "SHIPPED"},
   PARTIALLY_FULFILLED |-> {"SHIPPED"},
   CANCELLED |-> {"CANCELLED_REFUNDED", "SHIPPED"},
   CANCELLED_REFUNDED |-> {"SHIPPED", "CANCELLED"}]
taven_validate_order_status_transition == order' \in orderMoves[order] \cup {order}
taven_protect_order_phase_lifecycle == phase' \in phaseMoves[phase] \cup {phase}

\* Mutant: the trigger is not installed.
CancellationRefundUnchecked == TRUE

\* A cancellation refund belongs to a cancelled order, or to a handoff that
\* was reconciled with it.
taven_reconcile_customer_cancellation_refund_order ==
  cancellation \in OpenRefunds \cup {"SUCCEEDED"}
    => order \in {"CANCELLED", "REFUNDED"} \/ RefundedReconciliation

\* The refunds of a payment that are open or paid never exceed its capture.
Committed == {p \in Plans : refund[p] \in OpenRefunds \cup {"SUCCEEDED"}}
refund_captured_payment_check ==
  cancellation \in OpenRefunds \cup {"SUCCEEDED"} => Committed = {}

\* The triggers fire for a change of an order, phase, job, parcel or slot.
Commit ==
  /\ taven_validate_order_status_transition
  /\ taven_protect_order_phase_lifecycle
  /\ taven_reconcile_order_post_confirmation_lifecycle'
  /\ taven_reconcile_shipment_plan_slot_terminal_state'
  /\ taven_reconcile_customer_cancellation_refund_order'

Init ==
  /\ shape \in Shapes
  /\ order = "CONFIRMED" /\ phase = "ACTIVE"
  /\ job = [s \in Slots |-> "CREATED"]
  /\ reservation = [s \in Slots |-> "HELD"]
  /\ assigned = [s \in Slots |-> FALSE]
  /\ request = [s \in Slots |-> "NONE"]
  /\ origin = [s \in Slots |-> "FIRST"]
  /\ replaced = 0
  /\ leaf = [p \in Plans |-> "NONE"]
  /\ scan = [p \in Plans |-> "NONE"]
  /\ accepted = [p \in Plans |-> FALSE]
  /\ voided = [p \in Plans |-> FALSE]
  /\ outcome = [p \in Plans |-> "PENDING"]
  /\ claim = [p \in Plans |-> "NONE"]
  /\ incident = [p \in Plans |-> FALSE]
  /\ resolution = [p \in Plans |-> "NONE"]
  /\ returns = 0
  /\ reprint = [p \in Plans |-> "NO"]
  /\ reason = [p \in Plans |-> "NONE"]
  /\ refund = [p \in Plans |-> "NONE"]
  /\ failedBefore = FALSE
  /\ cancellation = "NONE" /\ retried = FALSE
  /\ balance = "NONE"

Move(status, sources, target) == IF status \in sources THEN target ELSE status
Closed(status) == Move(Move(status, {"PRINTING"}, "SETTLED"), {"HELD"}, "RELEASED")
UnfinishedJobs == PreparedJobs \cup StartedJobs

(***************************************************************************)
(* Production.                                                             *)
(***************************************************************************)
SetJob(s, from, to) == job[s] = from /\ job' = [job EXCEPT ![s] = to]

\* Acceptance enqueues the production slice; its ingested result is the G-code.
acceptJob(s) ==
  /\ \/ SetJob(s, "CREATED", "ACCEPTED")
     \/ SetJob(s, "ACCEPTED", "GCODE_READY")
  /\ UNCHANGED <<reservation, assigned, request, origin, replaced,
                 aggregate, parcels, carrier, claims, money>>
  /\ Commit

startPrinting(s) ==
  /\ SetJob(s, "GCODE_READY", "PRINTING")
  /\ reservation[s] = "HELD"
  /\ reservation' = [reservation EXCEPT ![s] = "PRINTING"]
  /\ phase' = Move(phase, {"ACTIVE"}, "IN_PRODUCTION")
  /\ order' = Move(order, {"CONFIRMED"}, "IN_PRODUCTION")
  /\ UNCHANGED <<shape, assigned, request, origin, replaced, parcels, carrier,
                 claims, money>>
  /\ Commit

finishPrinting(s) ==
  /\ SetJob(s, "PRINTING", "PRINTED")
  /\ reservation' = [reservation EXCEPT ![s] = "SETTLED"]
  /\ UNCHANGED <<assigned, request, origin, replaced, aggregate, parcels,
                 carrier, claims, money>>
  /\ Commit

submitQc(s) ==
  /\ SetJob(s, "PRINTED", "PHOTO_SUBMITTED")
  /\ UNCHANGED <<reservation, assigned, request, origin, replaced, aggregate,
                 parcels, carrier, claims, money>>
  /\ Commit

approveQc(s) ==
  LET passed == \A t \in Slots : job'[t] \in {"QC_APPROVED", "PACKED"}
      qc(status) == IF passed
                      THEN Move(status, {"IN_PRODUCTION", "RECOVERY_PENDING"}, "QC_PASSED")
                      ELSE status
  IN /\ SetJob(s, "PHOTO_SUBMITTED", "QC_APPROVED")
     /\ phase' = qc(phase)
     /\ order' = qc(order)
     /\ UNCHANGED <<shape, reservation, assigned, request, origin, replaced,
                    parcels, carrier, claims, money>>
     /\ Commit

\* The order is ready when every job is packed and every parcel labelled, and
\* no balance is due, or the one it waits for was captured.
Packed == (\A s \in Slots : job[s] = "PACKED") /\ (\A p \in Plans : leaf[p] \in {"LABEL_CREATED", "NONE"})
markReadyToShipWhenFinanciallyReady ==
  order' = IF ~Packed' THEN order
           ELSE IF ~SplitPayment THEN Move(order, {"QC_PASSED"}, "READY_TO_SHIP")
           ELSE IF balance = "CAPTURED" THEN Move(order, {"AWAITING_BALANCE"}, "READY_TO_SHIP")
           ELSE order

packJob(s) ==
  /\ SetJob(s, "QC_APPROVED", "PACKED")
  /\ leaf[PlanOf[s]] \in {"PLANNED", "LABEL_CREATED"}
  /\ assigned' = [assigned EXCEPT ![s] = TRUE]
  /\ UNCHANGED <<shape, phase, reservation, request, origin, replaced, parcels,
                 carrier, claims, money>>
  /\ markReadyToShipWhenFinanciallyReady
  /\ Commit

createShipment(p) ==
  /\ leaf[p] \in {"NONE", "CANCELLED"}
  /\ leaf' = [leaf EXCEPT ![p] = "PLANNED"]
  /\ UNCHANGED <<aggregate, production, scan, outcome, returns, reprint,
                 carrier, claims, money>>
  /\ Commit

labelShipment(p) ==
  /\ leaf[p] = "PLANNED"
  /\ leaf' = [leaf EXCEPT ![p] = "LABEL_CREATED"]
  /\ UNCHANGED <<shape, phase, production, scan, outcome, returns, reprint, carrier,
                 claims, money>>
  /\ markReadyToShipWhenFinanciallyReady
  /\ Commit

(***************************************************************************)
(* Failure, replacement and refund of production.  Once another parcel is  *)
(* with the carrier the order cannot be cancelled, so the failed parcel is *)
(* abandoned alone: its jobs are cancelled, its label voided or its plan   *)
(* cancelled, and its value credited and refunded.                         *)
(***************************************************************************)
Available == captured - Worth(Credited)
                      - (IF cancellation \in OpenRefunds \cup {"SUCCEEDED"} THEN captured ELSE 0)
Refundable(p) == reason[p] = "NONE" /\ Available >= Worth({p})

\* finalizePostHandoffProductionFailureRefund, finalizePartialCancellation and
\* refundClaim all end in an adjustment with its refunds.
CreditParcel(p, why) ==
  /\ Refundable(p)
  /\ reason' = [reason EXCEPT ![p] = why]
  /\ refund' = [refund EXCEPT ![p] = "PENDING"]
  /\ UNCHANGED <<failedBefore, cancellation, retried>>

\* Mutant: the jobs end and their reservations stay.
cancelSiblingJobsOnly(S) ==
  /\ \A t \in S : job[t] \in UnfinishedJobs
  /\ UNCHANGED reservation

cancelProductionFailureParcelSiblings(S) ==
  /\ \A t \in S : job[t] \in UnfinishedJobs
  /\ reservation' = [t \in Slots |-> IF t \in S THEN Closed(reservation[t]) ELSE reservation[t]]

voidOpenBalancePayments == balance' = Move(balance, {"CREATED", "PENDING"}, "VOIDED")

StopProduction(s) ==
  IF job[s] \in StartedJobs
    THEN /\ voidOpenBalancePayments
         /\ phase' = Move(phase, {"IN_PRODUCTION", "QC_PASSED"}, "RECOVERY_PENDING")
         /\ order' = Move(order, {"IN_PRODUCTION", "QC_PASSED", "AWAITING_BALANCE",
                                  "READY_TO_SHIP"}, "RECOVERY_PENDING")
         /\ UNCHANGED shape
    ELSE UNCHANGED <<balance, aggregate>>

FailedStatus(s) == IF job[s] = "PHOTO_SUBMITTED" THEN "QC_REJECTED" ELSE "FAILED"

\* The failed job s with the jobs of S, which its parcel takes down with it.
FailJobs(s, S, r) ==
  /\ job[s] \in UnfinishedJobs
  /\ cancelProductionFailureParcelSiblings(S \cup {s})
  /\ job' = [t \in Slots |-> IF t = s THEN FailedStatus(s)
                             ELSE IF t \in S THEN "CANCELLED" ELSE job[t]]
  /\ request' = [request EXCEPT ![s] = r]
  /\ UNCHANGED <<assigned, origin, replaced>>
  /\ StopProduction(s)

failJob(s) ==
  /\ \E r \in {"OPEN", "REFUND_REQUIRED"} :
       /\ r = "REFUND_REQUIRED" => origin[s] # "REPRINT" /\ ~OtherCustody(PlanOf[s])
       /\ FailJobs(s, {}, r)
  /\ UNCHANGED <<parcels, carrier, claims, scoped, cancellation, retried>>
  /\ Commit

Siblings(s) == SlotsOf(PlanOf[s]) \ {s}
RequestVoid(p) == leaf' = [leaf EXCEPT ![p] = "CANCELLATION_PENDING"]
CancelParcel(p) ==
  /\ leaf' = [leaf EXCEPT ![p] = "CANCELLED"]
  /\ outcome' = [outcome EXCEPT ![p] = "CANCELLED"]

prepareClaimReprintFailureRefund(s) ==
  LET p == PlanOf[s]
  IN /\ origin[s] = "REPRINT"
     /\ resolution[p] = "REPLACEMENT_PENDING"
     /\ FailJobs(s, Siblings(s), "REFUND_REQUIRED")
     /\ \/ /\ leaf[p] = "LABEL_CREATED"
           /\ RequestVoid(p)
           /\ UNCHANGED <<outcome, resolution>>
        \/ /\ leaf[p] = "PLANNED"
           /\ CancelParcel(p)
           /\ resolution' = [resolution EXCEPT ![p] = "PENDING"]
     /\ UNCHANGED <<scan, returns, reprint, carrier, claim, incident, scoped,
                    cancellation, retried>>
     /\ Commit

AbandonParcel(s) ==
  LET p == PlanOf[s]
  IN /\ origin[s] # "REPRINT"
     /\ OtherCustody(p)
     /\ \/ /\ leaf[p] = "LABEL_CREATED"
           /\ FailJobs(s, Siblings(s), "REFUND_REQUIRED")
           /\ RequestVoid(p)
           /\ UNCHANGED <<outcome, scoped, cancellation, retried>>
        \/ /\ leaf[p] = "PLANNED"
           /\ outcome[p] = "PENDING"
           /\ FailJobs(s, Siblings(s), "RESOLVED")
           /\ CancelParcel(p)
           /\ CreditParcel(p, "PRODUCTION_FAILURE")
     /\ UNCHANGED <<scan, returns, reprint, carrier, claims>>
     /\ Commit

createReplacement(s) ==
  /\ job[s] \in FailedJobs /\ request[s] = "OPEN"
  /\ replaced < MaxReplacements
  /\ job' = [job EXCEPT ![s] = "CREATED"]
  /\ reservation' = [reservation EXCEPT ![s] = "HELD"]
  /\ assigned' = [assigned EXCEPT ![s] = FALSE]
  /\ request' = [request EXCEPT ![s] = "NONE"]
  /\ origin' = [origin EXCEPT ![s] = "REPLACEMENT"]
  /\ replaced' = replaced + 1
  /\ UNCHANGED <<aggregate, parcels, carrier, claims, money>>
  /\ Commit

(***************************************************************************)
(* Cancellation.  Live labels are voided first; without one the whole      *)
(* order ends and every captured payment is refunded.                      *)
(***************************************************************************)
VoidLiveLabels ==
  leaf' = [p \in Plans |-> Move(leaf[p], {"LABEL_CREATED"}, "CANCELLATION_PENDING")]

\* `gone` is the parcel whose void is being confirmed, if any.
finalizeCancellation(gone, owed) ==
  /\ voidOpenBalancePayments
  /\ leaf' = [p \in Plans |-> IF p \in gone THEN "CANCELLED"
                              ELSE Move(leaf[p], {"PLANNED"}, "CANCELLED")]
  /\ reservation' = [s \in Slots |-> Closed(reservation[s])]
  /\ job' = [s \in Slots |-> Move(job[s], UnfinishedJobs, "CANCELLED")]
  /\ outcome' = [p \in Plans |-> Move(outcome[p], {"PENDING"}, "CANCELLED")]
  /\ phase' = "CANCELLED" /\ order' = "CANCELLED"
  /\ request' = [s \in Slots |-> IF s \in owed THEN "RESOLVED" ELSE request[s]]
  /\ cancellation' = IF Available > 0 THEN "PENDING" ELSE cancellation
  /\ UNCHANGED <<shape, assigned, origin, replaced, scan, returns, reprint,
                 claims, scoped, retried>>

Owed == {s \in Slots : request[s] = "REFUND_REQUIRED"}

cancelOrder ==
  /\ order \notin {"SHIPPED", "DELIVERED", "COMPLETED", "PARTIALLY_FULFILLED", "REFUNDED"}
  /\ phase # "CANCELLED"  \* its cancellation evidence is immutable
  /\ IF Leaves(LiveLabels) # {}
       THEN /\ VoidLiveLabels
            /\ IF order = "QC_PASSED"
                 THEN /\ phase' = Move(phase, {"QC_PASSED"}, "RECOVERY_PENDING")
                      /\ order' = "RECOVERY_PENDING"
                      /\ UNCHANGED shape
                 ELSE UNCHANGED aggregate
            /\ UNCHANGED <<production, scan, outcome, returns, reprint, claims, money>>
       ELSE finalizeCancellation({}, Owed)
  /\ UNCHANGED carrier
  /\ Commit

finalizeExpiredReplacement(s) ==
  LET p == PlanOf[s]
      required == [request EXCEPT ![s] = "REFUND_REQUIRED"]
  IN /\ \/ /\ OtherCustody(p)
           /\ cancelProductionFailureParcelSiblings(Siblings(s))
           /\ job' = [t \in Slots |-> IF t \in Siblings(s) THEN "CANCELLED" ELSE job[t]]
           /\ \/ /\ leaf[p] \in LiveLabels
                 /\ RequestVoid(p)
                 /\ request' = required
                 /\ UNCHANGED <<outcome, scoped, cancellation, retried>>
              \/ /\ leaf[p] = "PLANNED"
                 /\ outcome[p] = "PENDING"
                 /\ CancelParcel(p)
                 /\ CreditParcel(p, "PRODUCTION_FAILURE")
                 /\ request' = [request EXCEPT ![s] = "RESOLVED"]
           /\ UNCHANGED <<aggregate, assigned, origin, replaced, scan, returns,
                          reprint, claims, balance>>
        \/ /\ ~OtherCustody(p)
           /\ Leaves(LiveLabels) # {}
           /\ VoidLiveLabels
           /\ request' = required
           /\ UNCHANGED <<aggregate, job, reservation, assigned, origin, replaced,
                          scan, outcome, returns, reprint, claims, money>>
        \/ /\ ~OtherCustody(p)
           /\ Leaves(LiveLabels) = {}
           /\ finalizeCancellation({}, Owed \cup {s})
     /\ UNCHANGED carrier
     /\ Commit

\* Nobody replaced the job in time.
expireReplacement(s) ==
  /\ job[s] \in FailedJobs /\ request[s] = "OPEN"
  /\ finalizeExpiredReplacement(s)

finalizePartialCancellation(p) ==
  /\ "PACKED" \in JobsOf(p)
  /\ job' = [s \in Slots |-> IF s \in SlotsOf(p) THEN Move(job[s], {"PACKED"}, "CANCELLED")
                             ELSE job[s]]
  /\ CancelParcel(p)
  /\ CreditParcel(p, "PARTIAL_CANCELLATION")
  /\ UNCHANGED <<reservation, request>>

finalizePostHandoffProductionFailureRefund(p) ==
  \E s \in RefundRequired(p) :
    /\ RefundRequired(p) = {s}
    /\ \A t \in SlotsOf(p) : t # s => job[t] = "CANCELLED"
    /\ outcome[p] = "PENDING"
    /\ CancelParcel(p)
    /\ CreditParcel(p, "PRODUCTION_FAILURE")
    /\ request' = [request EXCEPT ![s] = "RESOLVED"]
    /\ UNCHANGED <<job, reservation>>

EndedJobs(p) == /\ JobsOf(p) \subseteq FailedJobs \cup {"CANCELLED"}
                /\ \E s \in RefundRequired(p) : job[s] \in FailedJobs

\* The carrier's answer to a void request.  An answer for a parcel that was
\* handed over meanwhile is only recorded.
VoidReprint(p) ==
  /\ reprint[p] = "LEAF"
  /\ resolution[p] = "REPLACEMENT_PENDING"
  /\ EndedJobs(p)
  /\ CancelParcel(p)
  /\ resolution' = [resolution EXCEPT ![p] = "PENDING"]
  /\ UNCHANGED <<aggregate, production, scan, returns, reprint, claim, incident, money>>

VoidOwnParcel(p) ==
  /\ reprint[p] # "LEAF"
  /\ IF OtherCustody(p)
       THEN /\ IF RefundRequired(p) # {} THEN finalizePostHandoffProductionFailureRefund(p)
                                         ELSE finalizePartialCancellation(p)
            /\ UNCHANGED <<aggregate, assigned, origin, replaced, scan, returns,
                           reprint, claims, balance>>
       ELSE IF Leaves(LiveLabels) = {p}
         THEN finalizeCancellation({p}, Owed)
         ELSE /\ leaf' = [leaf EXCEPT ![p] = "CANCELLED"]
              /\ UNCHANGED <<aggregate, production, scan, outcome, returns,
                             reprint, claims, money>>

confirmLabelVoid(p) ==
  /\ leaf[p] = "CANCELLATION_PENDING"
  /\ voided[p]
  /\ VoidReprint(p) \/ VoidOwnParcel(p)
  /\ UNCHANGED carrier
  /\ Commit

(***************************************************************************)
(* The carrier accepts a labelled parcel and voids a label on its own      *)
(* schedule; its scans reach the service later, in any order.              *)
(***************************************************************************)
CarrierAccepts(p) ==
  /\ leaf[p] \in LiveLabels
  /\ ~accepted[p] /\ ~voided[p]
  /\ accepted' = [accepted EXCEPT ![p] = TRUE]
  /\ UNCHANGED <<aggregate, production, parcels, voided, claims, money>>

CarrierVoids(p) ==
  /\ leaf[p] = "CANCELLATION_PENDING"
  /\ ~voided[p]
  /\ voided' = [voided EXCEPT ![p] = TRUE]
  /\ UNCHANGED <<aggregate, production, parcels, accepted, claims, money>>

packingReady(p, status) == \A s \in SlotsOf(p) : job[s] = status /\ assigned[s]

HandOver(p, how) ==
  /\ leaf' = [leaf EXCEPT ![p] = "HANDED_OVER"]
  /\ scan' = [scan EXCEPT ![p] = how]
  /\ job' = [s \in Slots |-> IF s \in SlotsOf(p) THEN "HANDED_OVER" ELSE job[s]]

\* A scan of a labelled parcel, or one that beats the void of its label.
handoffShipment(p) ==
  LET race == leaf[p] = "CANCELLATION_PENDING"
  IN /\ leaf[p] \in LiveLabels
     /\ accepted[p]
     /\ packingReady(p, "PACKED")
     /\ IF race THEN customerFunded ELSE financialReady
     /\ HandOver(p, IF race THEN "RACE" ELSE "ORDINARY")
     /\ phase' = Move(phase, {"QC_PASSED"} \cup (IF race THEN {"RECOVERY_PENDING"} ELSE {}), "SHIPPED")
     /\ order' = Move(order, {"READY_TO_SHIP"} \cup (IF race THEN {"RECOVERY_PENDING"} ELSE {}), "SHIPPED")
     /\ UNCHANGED <<shape, reservation, assigned, request, origin, replaced,
                    outcome, returns, reprint, carrier, claims, money>>
     /\ Commit

\* A scan that predates the confirmed void of a parcel never fully packed is
\* evidence for an operator.
RecordCustody(p) ==
  /\ leaf[p] = "CANCELLED" /\ scan[p] = "NONE"
  /\ accepted[p] /\ voided[p]
  /\ ~packingReady(p, "CANCELLED")
  /\ scan' = [scan EXCEPT ![p] = "DISPUTED"]
  /\ UNCHANGED <<aggregate, production, leaf, outcome, returns, reprint,
                 carrier, claims, money>>

\* One that predates the void of a fully packed parcel takes the cancellation
\* of its order back: an undispatched refund is superseded, a paid one stands
\* as the settlement of an unauthorised handoff.
reconcileCancelledShipmentHandoff(p) ==
  /\ leaf[p] = "CANCELLED" /\ scan[p] = "NONE"
  /\ accepted[p] /\ voided[p]
  /\ packingReady(p, "CANCELLED")
  /\ reason[p] # "PARTIAL_CANCELLATION"
  /\ \A s \in Slots : request[s] # "RESOLVED"
  /\ \A q \in Plans \ {p} : leaf[q] = "NONE"
  /\ \/ /\ cancellation = "SUCCEEDED"
        /\ SplitPayment => balance # "CAPTURED"
        /\ HandOver(p, "REFUNDED")
        /\ UNCHANGED cancellation
     \/ /\ cancellation \in {"PENDING", "FAILED"}
        /\ cancellation = "PENDING" => ~retried
        /\ HandOver(p, "RECONCILED")
        /\ cancellation' = Move(cancellation, {"PENDING"}, "SUPERSEDED")
  /\ outcome' = [outcome EXCEPT ![p] = "PENDING"]
  /\ phase' = "SHIPPED" /\ order' = "SHIPPED"
  /\ UNCHANGED <<shape, reservation, assigned, request, origin, replaced,
                 returns, reprint, carrier, claims, scoped, retried, balance>>
  /\ Commit

(***************************************************************************)
(* Carrier events of a parcel in custody.                                  *)
(***************************************************************************)
\* Mutant: a scan of any parcel in custody is applied, a late one too.
CarrierMovesInAnyOrder(p, from, to) ==
  /\ leaf[p] \in Custody
  /\ leaf' = [leaf EXCEPT ![p] = to]

CarrierMoves(p, from, to) ==
  /\ leaf[p] \in from
  /\ leaf' = [leaf EXCEPT ![p] = to]

\* Every slot resolved, one of them delivered.
PartlyDelivered(o) == /\ \E p \in Plans : o[p] = "DELIVERED"
                      /\ \A p \in Plans : o[p] \in {"DELIVERED", "CANCELLED_REFUNDED"}

ApplyDelivery(p) ==
  LET complete == Leaves({"DELIVERED"})' = Plans /\ Outcomes' = {"DELIVERED"}
      partial == PartlyDelivered(outcome') /\ ~ClaimOpen' /\ ~RefundOpen
                 /\ cancellation \notin OpenRefunds
      arrived(status) == IF complete THEN Move(status, {"SHIPPED"}, "DELIVERED")
                         ELSE IF partial THEN Move(status, {"SHIPPED"}, "PARTIALLY_FULFILLED")
                         ELSE status
      remedied == IF resolution[p] = "RESHIP_PENDING" THEN "RESHIP" ELSE "REPLACEMENT"
  IN /\ UNCHANGED shape
     /\ CarrierMoves(p, {"HANDED_OVER", "IN_TRANSIT"}, "DELIVERED")
     /\ outcome' = [outcome EXCEPT ![p] = Move(@, {"PENDING"}, "DELIVERED")]
     /\ IF resolution[p] \in {"RESHIP_PENDING", "REPLACEMENT_PENDING"}
          THEN /\ claim[p] = "ACTIVE"
               /\ resolution' = [resolution EXCEPT ![p] = "DELIVERED"]
               /\ claim' = [claim EXCEPT ![p] = IF remedied = "RESHIP" THEN "RESOLVED_RESHIP"
                                                ELSE "RESOLVED_REPLACEMENT"]
          ELSE UNCHANGED <<resolution, claim>>
     /\ phase' = arrived(phase)
     /\ order' = arrived(order)
     /\ UNCHANGED <<production, scan, returns, reprint, carrier, incident, money>>
     /\ Commit

\* A lost or returned remedy falls back to its claim; any other opens one.
ApplyIncident(p) ==
  /\ \E to \in {"LOST", "RETURNED"} : CarrierMoves(p, {"IN_TRANSIT"}, to)
  /\ IF resolution[p] \in {"RESHIP_PENDING", "REPLACEMENT_PENDING"}
       THEN UNCHANGED <<claim, incident>>
       ELSE /\ claim' = [claim EXCEPT ![p] = "OPEN"]
            /\ incident' = [incident EXCEPT ![p] = TRUE]
  /\ resolution' = [resolution EXCEPT ![p] = "PENDING"]
  /\ UNCHANGED <<aggregate, production, scan, outcome, returns, reprint,
                 carrier, money>>
  /\ Commit

ApplyProgress(p) ==
  /\ \/ CarrierMoves(p, {"HANDED_OVER"}, "IN_TRANSIT")
     \/ CarrierMoves(p, {"LOST"}, "RECOVERED")
  /\ UNCHANGED <<aggregate, production, scan, outcome, returns, reprint,
                 carrier, claims, money>>
  /\ Commit

(***************************************************************************)
(* Claims and their remedies.                                              *)
(***************************************************************************)
RemedyActive(p) == resolution[p] \in {"PENDING", "RESHIP_PENDING", "REPLACEMENT_PENDING",
                                      "REFUND_PENDING"}

createClaim(p) ==
  /\ ~RemedyActive(p)
  /\ \/ /\ order \in {"DELIVERED", "COMPLETED", "PARTIALLY_FULFILLED"}
        /\ outcome[p] = "DELIVERED"
        /\ incident' = [incident EXCEPT ![p] = FALSE]
     \/ /\ leaf[p] \in {"LOST", "RETURNED", "DELIVERED"}
        /\ leaf[p] = "DELIVERED" => outcome[p] = "DELIVERED"
        /\ reprint[p] # "LEAF"
        /\ incident' = [incident EXCEPT ![p] = TRUE]
  /\ claim' = [claim EXCEPT ![p] = "OPEN"]
  /\ resolution' = [resolution EXCEPT ![p] = "PENDING"]
  /\ UNCHANGED <<aggregate, production, parcels, carrier, money>>

\* An untouched quality claim ends.
CloseClaim(p, end) ==
  /\ claim[p] = "OPEN" /\ ~incident[p] /\ resolution[p] = "PENDING"
  /\ claim' = [claim EXCEPT ![p] = end]
  /\ resolution' = [resolution EXCEPT ![p] = "CLOSED"]
  /\ UNCHANGED <<aggregate, production, parcels, carrier, incident, money>>

rejectClaim(p) == CloseClaim(p, "RESOLVED_REJECTED")
withdrawClaim(p) == CloseClaim(p, "WITHDRAWN")

Remedy(p, lost) ==
  /\ order = "SHIPPED"
  /\ incident[p] /\ claim[p] \in OpenClaims
  /\ leaf[p] \in lost
  /\ resolution[p] = "PENDING" /\ outcome[p] = "PENDING"
  /\ reason[p] # "CLAIM"
  /\ JobsOf(p) \subseteq {"HANDED_OVER", "SETTLED"}
  /\ returns < MaxReturns
  /\ returns' = returns + 1
  /\ claim' = [claim EXCEPT ![p] = "ACTIVE"]
  /\ UNCHANGED <<aggregate, outcome, incident, money>>

createClaimReprint(p) ==
  LET new(f, v) == [s \in Slots |-> IF s \in SlotsOf(p) THEN v ELSE f[s]]
  IN /\ Remedy(p, {"LOST"})
     /\ leaf' = [leaf EXCEPT ![p] = "PLANNED"]
     /\ scan' = [scan EXCEPT ![p] = "NONE"]
     /\ accepted' = [accepted EXCEPT ![p] = FALSE]
     /\ voided' = [voided EXCEPT ![p] = FALSE]
     /\ reprint' = [reprint EXCEPT ![p] = "LEAF"]
     /\ resolution' = [resolution EXCEPT ![p] = "REPLACEMENT_PENDING"]
     /\ job' = new(job, "CREATED")
     /\ reservation' = new(reservation, "HELD")
     /\ assigned' = new(assigned, FALSE)
     /\ request' = new(request, "NONE")
     /\ origin' = new(origin, "REPRINT")
     /\ UNCHANGED replaced
     /\ Commit

handoffReshipment(p) ==
  /\ Remedy(p, {"RETURNED", "RECOVERED"})
  /\ ~RefundOpen /\ cancellation \notin OpenRefunds
  /\ leaf' = [leaf EXCEPT ![p] = "HANDED_OVER"]
  /\ scan' = [scan EXCEPT ![p] = "ORDINARY"]
  /\ reprint' = [reprint EXCEPT ![p] = Move(@, {"LEAF"}, "PAST")]
  /\ resolution' = [resolution EXCEPT ![p] = "RESHIP_PENDING"]
  /\ UNCHANGED <<production, carrier>>
  /\ Commit

refundClaim(p) ==
  /\ resolution[p] = "PENDING"
  /\ claim[p] \in OpenClaims
  /\ claim[p] = "ACTIVE"
       => \/ leaf[p] \in {"LOST", "RETURNED", "RECOVERED"}
          \/ leaf[p] = "CANCELLED" /\ EndedJobs(p)
  /\ \A q \in Credited : refund[q] = "SUCCEEDED"
  /\ CreditParcel(p, "CLAIM")
  /\ resolution' = [resolution EXCEPT ![p] = "REFUND_PENDING"]
  /\ claim' = [claim EXCEPT ![p] = "ACTIVE"]
  /\ request' = [s \in Slots |-> IF claim[p] = "ACTIVE" /\ s \in RefundRequired(p)
                                   THEN "RESOLVED" ELSE request[s]]
  /\ UNCHANGED <<aggregate, job, reservation, assigned, origin, replaced,
                 parcels, carrier, incident, balance>>

completeOrder ==
  /\ order = "DELIVERED"
  /\ job' = [s \in Slots |-> Move(job[s], {"HANDED_OVER"}, "SETTLED")]
  /\ phase' = "COMPLETED" /\ order' = "COMPLETED"
  /\ UNCHANGED <<shape, reservation, assigned, request, origin, replaced,
                 parcels, carrier, claims, money>>
  /\ Commit

(***************************************************************************)
(* Refunds at the provider.  Refunds of one order run independently; their *)
(* own retries and contradicting results are in module Refunds.            *)
(***************************************************************************)
dispatchRefund(p) ==
  /\ refund[p] = "PENDING"
  /\ refund' = [refund EXCEPT ![p] = "SENT"]
  /\ UNCHANGED <<aggregate, production, parcels, carrier, claims, reason,
                 failedBefore, cancellation, retried, balance>>

\* taven_reconcile_claim_refund_success and
\* taven_reconcile_partial_cancellation_refund_success.
RefundSucceeded(p) ==
  LET claimed == reason[p] = "CLAIM"
      nothing == \A q \in Plans : outcome'[q] = "CANCELLED_REFUNDED"
      partial == /\ PartlyDelivered(outcome')
                 /\ claimed \/ (~ClaimOpen /\ ~RefundOpen')
  IN /\ UNCHANGED shape
     /\ refund' = [refund EXCEPT ![p] = "SUCCEEDED"]
     /\ outcome' = [outcome EXCEPT ![p] =
                      Move(@, {"CANCELLED"} \cup (IF claimed THEN {"PENDING"} ELSE {}),
                           "CANCELLED_REFUNDED")]
     /\ IF claimed THEN /\ resolution' = [resolution EXCEPT ![p] = "REFUNDED"]
                        /\ claim' = [claim EXCEPT ![p] = "RESOLVED_REFUND"]
                   ELSE UNCHANGED <<resolution, claim>>
     /\ order' = IF partial THEN Move(order, {"SHIPPED"}, "PARTIALLY_FULFILLED")
                 ELSE IF claimed /\ nothing THEN Move(order, {"SHIPPED"}, "REFUNDED")
                 ELSE order
     /\ phase' = IF partial THEN Move(phase, {"SHIPPED"}, "PARTIALLY_FULFILLED")
                 ELSE IF claimed /\ nothing THEN Move(phase, {"SHIPPED"}, "CANCELLED_REFUNDED")
                 ELSE phase
     /\ UNCHANGED <<production, leaf, scan, returns, reprint, carrier, incident,
                    reason, failedBefore, cancellation, retried, balance>>
     /\ Commit

\* A late success corrects a failed attempt nobody retried.
recordRefundProviderResult(p) ==
  \/ /\ refund[p] \in {"SENT", "FAILED"}
     /\ RefundSucceeded(p)
  \/ /\ refund[p] = "SENT"
     /\ refund' = [refund EXCEPT ![p] = "FAILED"]
     /\ UNCHANGED <<aggregate, production, parcels, carrier, claims, reason,
                    failedBefore, cancellation, retried, balance>>

retryRefund(p) ==
  /\ refund[p] = "FAILED"
  /\ refund' = [refund EXCEPT ![p] = "PENDING"]
  /\ failedBefore' = TRUE
  /\ UNCHANGED <<aggregate, production, parcels, carrier, claims, reason,
                 cancellation, retried, balance>>

\* taven_block_incomplete_custody_refund_dispatch guards the dispatch.
settleCancellation ==
  /\ \/ /\ cancellation = "PENDING"
        /\ \A p \in Plans : scan[p] # "DISPUTED"
        /\ cancellation' = "SENT"
        /\ UNCHANGED <<retried, failedBefore>>
     \/ /\ cancellation \in {"SENT", "FAILED"}
        /\ cancellation' = "SUCCEEDED"
        /\ UNCHANGED <<retried, failedBefore>>
     \/ /\ cancellation = "SENT"
        /\ cancellation' = "FAILED"
        /\ UNCHANGED <<retried, failedBefore>>
     \/ /\ cancellation = "FAILED"
        /\ cancellation' = "PENDING"
        /\ retried' = TRUE /\ failedBefore' = TRUE
  /\ UNCHANGED <<aggregate, production, parcels, carrier, claims, reason, refund, balance>>
  /\ taven_reconcile_customer_cancellation_refund_order'
  /\ refund_captured_payment_check'

(***************************************************************************)
(* The balance: staged, intended at the provider, then captured or failed. *)
(***************************************************************************)
createBalancePayment ==
  /\ SplitPayment
  /\ \/ /\ balance \in {"NONE", "FAILED", "VOIDED"}
        /\ order \in {"QC_PASSED", "AWAITING_BALANCE"}
        /\ balance' = "CREATED"
        /\ UNCHANGED order
     \/ /\ balance = "CREATED"
        /\ balance' = "PENDING"
        /\ order' = Move(order, {"QC_PASSED"}, "AWAITING_BALANCE")
     \/ /\ balance = "CREATED"
        /\ balance' = "FAILED"
        /\ UNCHANGED order
  /\ UNCHANGED <<shape, phase, production, parcels, carrier, claims, scoped,
                 cancellation, retried>>
  /\ balance' = "PENDING" => taven_reconcile_balance_payment_readiness'

BalanceEvent ==
  /\ balance = "PENDING"
  /\ \/ /\ balance' = "FAILED"
        /\ UNCHANGED order
     \/ /\ order \in {"QC_PASSED", "AWAITING_BALANCE"}
        /\ balance' = "CAPTURED"
        /\ order' = IF Packed THEN "READY_TO_SHIP" ELSE order
  /\ UNCHANGED <<shape, phase, production, parcels, carrier, claims, scoped,
                 cancellation, retried>>
  /\ balance' = "CAPTURED" => taven_reconcile_balance_payment_readiness'
  /\ Commit

OrderStep == cancelOrder \/ completeOrder \/ settleCancellation \/ createBalancePayment
             \/ BalanceEvent
JobStep(s) == acceptJob(s) \/ startPrinting(s) \/ finishPrinting(s) \/ submitQc(s)
              \/ approveQc(s) \/ packJob(s) \/ failJob(s)
              \/ prepareClaimReprintFailureRefund(s) \/ AbandonParcel(s)
              \/ createReplacement(s) \/ expireReplacement(s)
ParcelStep(p) == createShipment(p) \/ labelShipment(p) \/ confirmLabelVoid(p)
                 \/ CarrierAccepts(p) \/ CarrierVoids(p) \/ handoffShipment(p)
                 \/ RecordCustody(p) \/ reconcileCancelledShipmentHandoff(p)
                 \/ ApplyDelivery(p) \/ ApplyIncident(p) \/ ApplyProgress(p)
ClaimStep(p) == createClaim(p) \/ rejectClaim(p) \/ withdrawClaim(p) \/ createClaimReprint(p)
                \/ handoffReshipment(p) \/ refundClaim(p)
RefundStep(p) == dispatchRefund(p) \/ recordRefundProviderResult(p) \/ retryRefund(p)

Next == \/ OrderStep
        \/ \E s \in Slots : JobStep(s)
        \/ \E p \in Plans : ParcelStep(p) \/ ClaimStep(p) \/ RefundStep(p)

Spec == Init /\ [][Next]_vars

\* A carrier answers a void request, and its answer is recorded; nothing else
\* is bound to happen.
FairSpec == /\ Spec
            /\ \A s \in Slots : WF_vars(CarrierVoids(PlanOf[s]))
            /\ \A s \in Slots : WF_vars(confirmLabelVoid(PlanOf[s]))

(***************************************************************************)
(* Properties.                                                             *)
(***************************************************************************)
TypeOK ==
  /\ shape \in Shapes
  /\ order \in OrderStatus /\ phase \in PhaseStatus
  /\ job \in [Slots -> JobStatus]
  /\ reservation \in [Slots -> {"HELD", "PRINTING", "SETTLED", "RELEASED"}]
  /\ assigned \in [Slots -> BOOLEAN]
  /\ request \in [Slots -> {"NONE", "OPEN", "REFUND_REQUIRED", "RESOLVED"}]
  /\ origin \in [Slots -> {"FIRST", "REPLACEMENT", "REPRINT"}]
  /\ replaced \in 0..MaxReplacements
  /\ leaf \in [Plans -> ShipmentStatus]
  /\ scan \in [Plans -> {"NONE", "ORDINARY", "RACE", "RECONCILED", "REFUNDED", "DISPUTED"}]
  /\ accepted \in [Plans -> BOOLEAN] /\ voided \in [Plans -> BOOLEAN]
  /\ outcome \in [Plans -> {"PENDING", "DELIVERED", "CANCELLED", "CANCELLED_REFUNDED"}]
  /\ claim \in [Plans -> OpenClaims \cup {"NONE", "WITHDRAWN", "RESOLVED_REJECTED",
                      "RESOLVED_REFUND", "RESOLVED_RESHIP", "RESOLVED_REPLACEMENT"}]
  /\ incident \in [Plans -> BOOLEAN]
  /\ resolution \in [Plans -> {"NONE", "PENDING", "RESHIP_PENDING", "REPLACEMENT_PENDING",
                      "REFUND_PENDING", "DELIVERED", "CLOSED", "REFUNDED"}]
  /\ returns \in 0..MaxReturns
  /\ reprint \in [Plans -> {"NO", "LEAF", "PAST"}]
  /\ reason \in [Plans -> {"NONE", "PRODUCTION_FAILURE", "PARTIAL_CANCELLATION", "CLAIM"}]
  /\ refund \in [Plans -> OpenRefunds \cup {"NONE", "SUCCEEDED", "FAILED"}]
  /\ failedBefore \in BOOLEAN /\ retried \in BOOLEAN
  /\ cancellation \in OpenRefunds \cup {"NONE", "SUCCEEDED", "FAILED", "SUPERSEDED"}
  /\ balance \in {"NONE", "CREATED", "PENDING", "CAPTURED", "FAILED", "VOIDED"}

\* A parcel leaves whole and its jobs leave with it: a parcel is with the
\* carrier exactly when every job of its slots was handed over, whichever of
\* the ordinary scan, the scan that beats a void, the reconciled scan or the
\* reshipment put it there (handoffShipment, reconcileCancelledShipmentHandoff,
\* handoffReshipment).
ParcelLeavesWhole ==
  \A p \in Plans :
    /\ leaf[p] \in Custody => JobsOf(p) \subseteq {"HANDED_OVER", "SETTLED"}
    /\ leaf[p] \notin Custody => JobsOf(p) \cap {"HANDED_OVER", "SETTLED"} = {}

\* A job that ended holds no printer time and no material: every way a job
\* ends (failure, parcel siblings, cancellation, void) settles or releases
\* its production reservation, and a live job always has its own.
ReservationFollowsJob ==
  \A s \in Slots :
    /\ job[s] \in PreparedJobs => reservation[s] = "HELD"
    /\ job[s] = "PRINTING" <=> reservation[s] = "PRINTING"
    /\ job[s] \in FailedJobs \cup {"CANCELLED", "HANDED_OVER", "SETTLED"}
         => reservation[s] \in {"SETTLED", "RELEASED"}

\* The order and its single phase never tell two stories, across every
\* handler that moves only one of them; except that handoffShipment lets a packed
\* parcel of a paid order go before the others are packed, and then moves the
\* phase and not the order, which still waits for its balance.
PhaseFollowsOrder ==
  LET follows == [CONFIRMED |-> "ACTIVE", AWAITING_BALANCE |-> "QC_PASSED",
                  READY_TO_SHIP |-> "QC_PASSED", REFUNDED |-> "CANCELLED_REFUNDED"]
  IN \/ phase = IF order \in DOMAIN follows THEN follows[order] ELSE order
     \/ /\ order = "AWAITING_BALANCE" /\ balance = "CAPTURED"
        /\ phase \in {"SHIPPED", "DELIVERED", "PARTIALLY_FULFILLED", "CANCELLED_REFUNDED"}
        /\ Leaves(Custody) # {} /\ \E p, q \in Plans : p # q

\* Jobs, reservations, parcels and phase stay in step through every command of
\* OrdersService and the triggers it fires.
ProductionSound == ParcelLeavesWhole /\ ReservationFollowsJob /\ PhaseFollowsOrder

\* No customer is paid back for goods that are on their way or arrived,
\* except by a claim, or when the carrier had taken a parcel whose
\* cancellation was already refunded: however a void, a late scan, a refund
\* and its retry interleave.
NeverGoodsAndMoney ==
  \A p \in Plans :
    leaf[p] \in {"HANDED_OVER", "IN_TRANSIT", "DELIVERED"}
      => /\ ~ScopedRefund(p)
         /\ cancellation \in OpenRefunds \cup {"SUCCEEDED"} => scan[p] = "REFUNDED"

\* Goods the service gave up are paid back: a dropped slot's money was
\* refunded, is owed by a refund of its parcel or of the whole order, or an
\* open claim still decides it.  A parcel the carrier turned out to have taken
\* withdraws the refund of its order, which may leave another parcel out
\* (NothingWithoutMoney).
Settling(p) == \/ reason[p] # "NONE"
               \/ cancellation \in OpenRefunds \cup {"SUCCEEDED", "FAILED"}
               \/ claim[p] \in OpenClaims
Dropped == {p \in Plans : outcome[p] \in {"CANCELLED", "CANCELLED_REFUNDED"}}
DroppedGoodsOwed == cancellation # "SUPERSEDED" => \A p \in Dropped : Settling(p)

\* Goods or money, never both and never neither, with the exceptions above.
GoodsOrMoney == NeverGoodsAndMoney /\ DroppedGoodsOwed

\* The same without the exception: the specification says a cancelled order's
\* slots end delivered or refunded.
NothingWithoutMoney == \A p \in Dropped : Settling(p)

\* A claim that is still open has a way to end: an answer still to be chosen,
\* a remedy parcel that is being made or is on its way, or a refund that is
\* not final.
ClaimHasRemedy ==
  \A p \in Plans : claim[p] \in OpenClaims =>
    \/ resolution[p] = "PENDING"
    \/ resolution[p] = "RESHIP_PENDING" /\ leaf[p] \in {"HANDED_OVER", "IN_TRANSIT"}
    \/ resolution[p] = "REPLACEMENT_PENDING" /\ reprint[p] = "LEAF"
         /\ leaf[p] \in {"PLANNED", "HANDED_OVER", "IN_TRANSIT"} \cup LiveLabels
    \/ resolution[p] = "REFUND_PENDING" /\ reason[p] = "CLAIM" /\ refund[p] # "SUCCEEDED"

\* The order as the customer sees it: every step of the service is a step of
\* the promise or leaves it alone.
GoodsOf(s) ==
  LET p == PlanOf[s]
  IN CASE leaf[p] \in {"HANDED_OVER", "IN_TRANSIT"} -> "SENT"
       [] leaf[p] = "DELIVERED" -> "DELIVERED"
       [] leaf[p] \in {"LOST", "RETURNED", "RECOVERED"} -> "MISSING"
       [] OTHER -> IF outcome[p] = "PENDING" THEN "OWED" ELSE "DROPPED"
MoneyOf(s) ==
  LET p == PlanOf[s]
  IN IF refund[p] = "SUCCEEDED" \/ cancellation = "SUCCEEDED" THEN "RETURNED"
     ELSE IF reason[p] # "NONE" \/ order = "CANCELLED" THEN "CLAIMED"
     ELSE "KEPT"
Customer == INSTANCE Promise WITH goods <- [s \in Slots |-> GoodsOf(s)],
                                  money <- [s \in Slots |-> MoneyOf(s)]
CustomerPromise == Customer!Spec

\* The void of a label ends, confirmed or overtaken by the parcel's own
\* handover: the specification says a confirmed void moves the parcel from
\* cancellation_pending to cancelled under the same lock.
VoidPending(s) == leaf[PlanOf[s]] = "CANCELLATION_PENDING"
VoidEnds == \A s \in Slots : VoidPending(s) ~> ~VoidPending(s)

=============================================================================
