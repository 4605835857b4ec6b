------------------------- MODULE FulfilmentProofs -------------------------
(***************************************************************************)
(* Proofs about the fulfilment of one order, for every finite set of slots *)
(* and every way to pack them into parcels and to split the payment: jobs, *)
(* reservations, parcels and phase stay in step (ProductionSound), goods   *)
(* and money are never both kept nor both lost (GoodsOrMoney), and every   *)
(* step is one the customer was promised (CustomerPromise, the refinement  *)
(* of Promise).                                                            *)
(*                                                                         *)
(* The commands of OrdersService are compound: one handler ends a parcel,  *)
(* the order or a single slot depending on what else has left.  The proofs *)
(* therefore split Next into its branches first (NextBranches), and show   *)
(* each part of the inductive invariant FulfilmentInv one branch at a time.*)
(***************************************************************************)
EXTENDS Fulfilment, FiniteSetTheorems, TLAPS

----------------------------------------------------------------------------
(* The inductive invariant, in parts: each slot, the order and its phase, *)
(* each parcel, each refund, each claim.                                  *)

\* A parcel of the order is away or was: the order says so, or its phase does
\* while the order still waits for its balance.
Gone == \/ order \in {"SHIPPED", "DELIVERED", "COMPLETED", "PARTIALLY_FULFILLED", "REFUNDED"}
        \/ order = "AWAITING_BALANCE" /\ phase # "QC_PASSED"

\* What a job is once its parcel left.
Away == {"HANDED_OVER", "SETTLED"}

\* The outcomes of a parcel the service gave up.
DroppedOutcomes == {"CANCELLED", "CANCELLED_REFUNDED"}

\* A job is away exactly when its parcel is, its reservation is the one its
\* status needs, and only a failed job waits for a replacement or its refund.
JobSound(s) ==
  /\ leaf[PlanOf[s]] \in Custody <=> job[s] \in Away
  /\ \/ job[s] \in PreparedJobs /\ reservation[s] = "HELD"
     \/ job[s] = "PRINTING" /\ reservation[s] = "PRINTING"
     \/ job[s] \notin PreparedJobs \cup {"PRINTING"} /\ reservation[s] \in {"SETTLED", "RELEASED"}
  /\ request[s] \in {"OPEN", "REFUND_REQUIRED"} => job[s] \in FailedJobs
JobsSound == \A s \in Slots : JobSound(s)

\* The phase the order names.
Follows ==
  /\ order = "CONFIRMED" => phase = "ACTIVE"
  /\ order \in {"AWAITING_BALANCE", "READY_TO_SHIP"} => phase = "QC_PASSED"
  /\ order = "REFUNDED" => phase = "CANCELLED_REFUNDED"
  /\ order \notin {"CONFIRMED", "AWAITING_BALANCE", "READY_TO_SHIP", "REFUNDED"} => phase = order

\* handoffShipment let a parcel go while the order waits for its balance: the
\* balance is paid, and the order has another parcel.
Ahead ==
  /\ order = "AWAITING_BALANCE" /\ balance = "CAPTURED"
  /\ phase \in {"SHIPPED", "DELIVERED", "PARTIALLY_FULFILLED", "CANCELLED_REFUNDED"}
  /\ Leaves(Custody) # {} /\ \E p, q \in Plans : p # q

\* An order waits for its balance only if it pays in two parts; once the
\* balance is captured it waits for a job, a label or another parcel.
AwaitingSound ==
  order = "AWAITING_BALANCE"
    => /\ SplitPayment
       /\ balance = "CAPTURED" /\ phase = "QC_PASSED"
            => \/ \E s \in Slots : job[s] # "PACKED"
               \/ \E p \in Plans : leaf[p] \notin LiveLabels
               \/ \E p, q \in Plans : p # q

\* A cancelled order has given up every parcel and every label.
CancelledSound ==
  order = "CANCELLED"
    => \A p \in Plans : outcome[p] = "CANCELLED" /\ leaf[p] \in {"NONE", "CANCELLED"}

\* A phase that ended refunded has every parcel refunded.
SettledSound ==
  phase = "CANCELLED_REFUNDED" => \A p \in Plans : outcome[p] = "CANCELLED_REFUNDED"
AggregateSound == PhaseFollowsOrder /\ AwaitingSound /\ CancelledSound /\ SettledSound

\* What can only be of an order that sent something: a parcel with the carrier,
\* a claim, a refund of one parcel, a parcel whose outcome is known (the last
\* also of a cancelled order).
ParcelGone(p) ==
  /\ leaf[p] \in Custody \/ claim[p] # "NONE" \/ reason[p] # "NONE" => Gone
  /\ outcome[p] # "PENDING" => Gone \/ order = "CANCELLED"

\* A label cancelled while the order lives belongs to a failed job whose refund
\* is owed or done, unless the customer cancelled that parcel.
CancelledLeaf(p) ==
  leaf[p] = "CANCELLED" /\ order # "CANCELLED" /\ reason[p] # "PARTIAL_CANCELLATION"
    => \E s \in SlotsOf(p) : /\ job[s] \in FailedJobs
                            /\ request[s] \in {"REFUND_REQUIRED", "RESOLVED"}
ParcelSound(p) == ParcelGone(p) /\ CancelledLeaf(p)
ParcelsSound == \A p \in Plans : ParcelSound(p)

\* A refund has a reason, an outcome of refunded is one of a refund that
\* succeeded, goods that were credited were never handed over, and a claim is
\* paid for a parcel the carrier had.
RefundTerms(p) ==
  /\ reason[p] = "NONE" <=> refund[p] = "NONE"
  /\ outcome[p] = "CANCELLED_REFUNDED" => refund[p] = "SUCCEEDED"
  /\ ScopedRefund(p) => leaf[p] = "CANCELLED"
  /\ reason[p] = "CLAIM"
       => leaf[p] \in {"LOST", "RETURNED", "RECOVERED", "DELIVERED", "CANCELLED"}

\* The cancelled order of parcel p was paid back before its scan was read, and
\* no other parcel of it is away.
RefundedAlone(p) ==
  /\ cancellation = "SUCCEEDED" /\ leaf[p] \in Custody
  /\ \A q \in Plans \ {p} : outcome[q] \in DroppedOutcomes /\ leaf[q] \in {"NONE", "CANCELLED"}
RefundedScan(p) == scan[p] = "REFUNDED" => RefundedAlone(p)
RefundSound(p) == RefundTerms(p) /\ RefundedScan(p)
RefundsSound == \A p \in Plans : RefundSound(p)

\* An active remedy has an open claim, an open claim has a parcel the carrier
\* reported, and a parcel given up without cancelling the order is being paid
\* back or under claim.
ClaimSound(p) ==
  /\ RemedyActive(p) => claim[p] \in OpenClaims
  /\ resolution[p] \in {"RESHIP_PENDING", "REPLACEMENT_PENDING"} => claim[p] = "ACTIVE"
  /\ claim[p] = "OPEN" => leaf[p] \in {"LOST", "RETURNED", "RECOVERED", "DELIVERED"}
  /\ cancellation = "NONE" /\ outcome[p] \in DroppedOutcomes
       => reason[p] # "NONE" \/ (claim[p] = "ACTIVE" /\ resolution[p] = "PENDING")
ClaimsSound == \A p \in Plans : ClaimSound(p)

\* The inductive invariant.
FulfilmentInv ==
  /\ TypeOK /\ JobsSound /\ AggregateSound /\ ParcelsSound /\ RefundsSound /\ ClaimsSound
  /\ taven_reconcile_shipment_plan_slot_terminal_state
  /\ taven_reconcile_customer_cancellation_refund_order

\* The two triggers a transaction of one parcel commits under.
Reconciled ==
  /\ taven_reconcile_shipment_plan_slot_terminal_state
  /\ taven_reconcile_customer_cancellation_refund_order

----------------------------------------------------------------------------
(* The branches of the compound handlers, each an action of its own.      *)

\* failJob for a reprint under claim, its label printed: the void is asked for.
(***************************************************************************)
(* The branches of the compound handlers, as actions of their own.         *)
(***************************************************************************)
FailReprintLabelled(s) ==
  LET p == PlanOf[s]
  IN /\ origin[s] = "REPRINT" /\ resolution[p] = "REPLACEMENT_PENDING"
     /\ FailJobs(s, Siblings(s), "REFUND_REQUIRED")
     /\ leaf[p] = "LABEL_CREATED"
     /\ RequestVoid(p)
     /\ UNCHANGED <<outcome, scan, returns, reprint, carrier, claims, scoped,
                    cancellation, retried>>
     /\ Commit

\* failJob for a reprint under claim, no label yet: the parcel is given up and
\* the claim is open again.
FailReprintPlanned(s) ==
  LET p == PlanOf[s]
  IN /\ origin[s] = "REPRINT" /\ resolution[p] = "REPLACEMENT_PENDING"
     /\ FailJobs(s, Siblings(s), "REFUND_REQUIRED")
     /\ leaf[p] = "PLANNED"
     /\ CancelParcel(p)
     /\ resolution' = [resolution EXCEPT ![p] = "PENDING"]
     /\ UNCHANGED <<scan, returns, reprint, carrier, claim, incident, scoped,
                    cancellation, retried>>
     /\ Commit

\* failJob without a replacement while another parcel is away, the label
\* printed.
AbandonLabelled(s) ==
  LET p == PlanOf[s]
  IN /\ origin[s] # "REPRINT" /\ OtherCustody(p)
     /\ leaf[p] = "LABEL_CREATED"
     /\ FailJobs(s, Siblings(s), "REFUND_REQUIRED")
     /\ RequestVoid(p)
     /\ UNCHANGED <<outcome, scoped, cancellation, retried, scan, returns, reprint,
                    carrier, claims>>
     /\ Commit

\* The same with no label: the parcel is given up and credited at once.
AbandonPlanned(s) ==
  LET p == PlanOf[s]
  IN /\ origin[s] # "REPRINT" /\ OtherCustody(p)
     /\ leaf[p] = "PLANNED" /\ outcome[p] = "PENDING"
     /\ FailJobs(s, Siblings(s), "RESOLVED")
     /\ CancelParcel(p)
     /\ CreditParcel(p, "PRODUCTION_FAILURE")
     /\ UNCHANGED <<scan, returns, reprint, carrier, claims>>
     /\ Commit

\* A replacement expires while another parcel is away: the jobs of the parcel
\* end.
ExpireSiblings(s) ==
  /\ job[s] \in FailedJobs /\ request[s] = "OPEN"
  /\ OtherCustody(PlanOf[s])
  /\ cancelProductionFailureParcelSiblings(Siblings(s))
  /\ job' = [t \in Slots |-> IF t \in Siblings(s) THEN "CANCELLED" ELSE job[t]]
  /\ UNCHANGED <<aggregate, assigned, origin, replaced, scan, returns, reprint,
                 claims, balance, carrier>>
  /\ Commit

\* Its label must be voided first.
ExpireLabelled(s) ==
  /\ ExpireSiblings(s)
  /\ leaf[PlanOf[s]] \in LiveLabels
  /\ RequestVoid(PlanOf[s])
  /\ request' = [request EXCEPT ![s] = "REFUND_REQUIRED"]
  /\ UNCHANGED <<outcome, scoped, cancellation, retried>>

\* It has no label and is credited at once.
ExpirePlanned(s) ==
  /\ ExpireSiblings(s)
  /\ leaf[PlanOf[s]] = "PLANNED" /\ outcome[PlanOf[s]] = "PENDING"
  /\ CancelParcel(PlanOf[s])
  /\ CreditParcel(PlanOf[s], "PRODUCTION_FAILURE")
  /\ request' = [request EXCEPT ![s] = "RESOLVED"]

\* A replacement expires with nothing away, and labels to void.
ExpireVoids(s) ==
  /\ job[s] \in FailedJobs /\ request[s] = "OPEN"
  /\ VoidLiveLabels
  /\ request' = [request EXCEPT ![s] = "REFUND_REQUIRED"]
  /\ UNCHANGED <<aggregate, job, reservation, assigned, origin, replaced, scan,
                 outcome, returns, reprint, claims, money, carrier>>
  /\ Commit

\* cancelOrder with labels to void first.
CancelVoids ==
  /\ order \notin {"SHIPPED", "DELIVERED", "COMPLETED", "PARTIALLY_FULFILLED", "REFUNDED"}
  /\ VoidLiveLabels
  /\ IF order = "QC_PASSED"
       THEN /\ phase' = Move(phase, {"QC_PASSED"}, "RECOVERY_PENDING")
            /\ order' = "RECOVERY_PENDING"
       ELSE UNCHANGED <<order, phase>>
  /\ UNCHANGED <<shape, production, scan, outcome, returns, reprint, claims, money, carrier>>
  /\ Commit

\* The order ends, by cancelOrder, a confirmed void or an expired replacement.
EndOrder(gone, owed) ==
  /\ finalizeCancellation(gone, owed)
  /\ Owed \subseteq owed /\ \A s \in owed : request[s] \in {"OPEN", "REFUND_REQUIRED"}
  /\ \A p \in Plans : leaf[p] \in LiveLabels => p \in gone
  /\ \A p \in gone : leaf[p] = "CANCELLATION_PENDING"
  /\ UNCHANGED carrier
  /\ Commit

\* confirmLabelVoid of a reprint.
VoidReprintLabel(p) ==
  /\ leaf[p] = "CANCELLATION_PENDING" /\ voided[p]
  /\ VoidReprint(p)
  /\ UNCHANGED carrier
  /\ Commit

\* confirmLabelVoid of one parcel while another is away.
VoidOne(p) ==
  /\ leaf[p] = "CANCELLATION_PENDING" /\ voided[p]
  /\ reprint[p] # "LEAF" /\ OtherCustody(p)
  /\ UNCHANGED <<aggregate, assigned, origin, replaced, scan, returns, reprint, claims,
                 balance, carrier>>
  /\ Commit

\* The void that a failed job waited for: its parcel is credited.
VoidRefundsFailure(p, s) ==
  /\ VoidOne(p)
  /\ RefundRequired(p) = {s}
  /\ \A t \in SlotsOf(p) : t # s => job[t] = "CANCELLED"
  /\ outcome[p] = "PENDING"
  /\ CancelParcel(p)
  /\ CreditParcel(p, "PRODUCTION_FAILURE")
  /\ request' = [request EXCEPT ![s] = "RESOLVED"]
  /\ UNCHANGED <<job, reservation>>

\* The void that a cancelled parcel waited for.
VoidCancelsParcel(p) == /\ VoidOne(p) /\ finalizePartialCancellation(p)
                        /\ RefundRequired(p) = {}

\* The void of one label among several.
VoidOnly(p) ==
  /\ leaf[p] = "CANCELLATION_PENDING"
  /\ leaf' = [leaf EXCEPT ![p] = "CANCELLED"]
  /\ UNCHANGED <<aggregate, production, scan, outcome, returns, reprint, claims, money, carrier>>
  /\ Commit

\* handoffShipment, and the scan that beats a requested void.
HandOverOrdinary(p) == handoffShipment(p) /\ leaf[p] = "LABEL_CREATED"
HandOverRace(p) == handoffShipment(p) /\ leaf[p] = "CANCELLATION_PENDING"

\* The scan of a parcel of a cancelled order that was fully packed.
ReconcileWith(p, how) ==
  /\ leaf[p] = "CANCELLED" /\ scan[p] = "NONE"
  /\ accepted[p] /\ voided[p]
  /\ packingReady(p, "CANCELLED")
  /\ reason[p] # "PARTIAL_CANCELLATION"
  /\ \A s \in Slots : request[s] # "RESOLVED"
  /\ \A q \in Plans \ {p} : leaf[q] = "NONE"
  /\ HandOver(p, how)
  /\ outcome' = [outcome EXCEPT ![p] = "PENDING"]
  /\ phase' = "SHIPPED" /\ order' = "SHIPPED"
  /\ UNCHANGED <<shape, reservation, assigned, request, origin, replaced,
                 returns, reprint, carrier, claims, scoped, retried, balance>>
  /\ Commit

\* The order was paid back before the scan was read, or its refund can still be
\* stopped.
ReconcilePaid(p) ==
  /\ ReconcileWith(p, "REFUNDED")
  /\ cancellation = "SUCCEEDED" /\ UNCHANGED cancellation
ReconcileUnpaid(p) ==
  /\ ReconcileWith(p, "RECONCILED")
  /\ cancellation \in {"PENDING", "FAILED"}
  /\ cancellation' = Move(cancellation, {"PENDING"}, "SUPERSEDED")

\* The two answers of the provider to a refund.
RefundArrives(p) == refund[p] \in {"SENT", "FAILED"} /\ RefundSucceeded(p)
RefundFails(p) ==
  /\ refund[p] = "SENT"
  /\ refund' = [refund EXCEPT ![p] = "FAILED"]
  /\ UNCHANGED <<aggregate, production, parcels, carrier, claims, reason,
                 failedBefore, cancellation, retried, balance>>

\* The refund of the whole order is sent, fails, is retried or succeeds.
CancellationMoves ==
  /\ \/ cancellation = "PENDING" /\ cancellation' = "SENT"
     \/ cancellation \in {"SENT", "FAILED"} /\ cancellation' = "SUCCEEDED"
     \/ cancellation = "SENT" /\ cancellation' = "FAILED"
     \/ cancellation = "FAILED" /\ cancellation' = "PENDING"
  /\ UNCHANGED <<aggregate, production, parcels, carrier, claims, reason, refund, balance>>
  /\ failedBefore' \in BOOLEAN /\ retried' \in BOOLEAN
  /\ taven_reconcile_customer_cancellation_refund_order'
  /\ refund_captured_payment_check'

\* A remedy parcel is lost or returned: its claim needs a new answer.
RemedyFails(p, to) ==
  /\ CarrierMoves(p, {"IN_TRANSIT"}, to)
  /\ resolution[p] \in {"RESHIP_PENDING", "REPLACEMENT_PENDING"}
  /\ resolution' = [resolution EXCEPT ![p] = "PENDING"]
  /\ UNCHANGED <<claim, incident, aggregate, production, scan, outcome, returns, reprint,
                 carrier, money>>
  /\ Commit

\* Any other parcel is lost or returned: a claim opens.
IncidentOpens(p, to) ==
  /\ CarrierMoves(p, {"IN_TRANSIT"}, to)
  /\ resolution[p] \notin {"RESHIP_PENDING", "REPLACEMENT_PENDING"}
  /\ claim' = [claim EXCEPT ![p] = "OPEN"]
  /\ incident' = [incident EXCEPT ![p] = TRUE]
  /\ resolution' = [resolution EXCEPT ![p] = "PENDING"]
  /\ UNCHANGED <<aggregate, production, scan, outcome, returns, reprint, carrier, money>>
  /\ Commit

\* createClaim, with whatever incident it is about.
OpenClaim(p) ==
  /\ ~RemedyActive(p)
  /\ outcome[p] = "DELIVERED" \/ leaf[p] \in {"LOST", "RETURNED", "DELIVERED"}
  /\ incident' \in [Plans -> BOOLEAN]
  /\ claim' = [claim EXCEPT ![p] = "OPEN"]
  /\ resolution' = [resolution EXCEPT ![p] = "PENDING"]
  /\ UNCHANGED <<aggregate, production, parcels, carrier, money>>

\* createClaimReprint: the parcel starts over.
Reprint(p) ==
  /\ Remedy(p, {"LOST"})
  /\ leaf' = [leaf EXCEPT ![p] = "PLANNED"]
  /\ scan' = [scan EXCEPT ![p] = "NONE"]
  /\ accepted' = [accepted EXCEPT ![p] = FALSE]
  /\ voided' = [voided EXCEPT ![p] = FALSE]
  /\ reprint' = [reprint EXCEPT ![p] = "LEAF"]
  /\ resolution' = [resolution EXCEPT ![p] = "REPLACEMENT_PENDING"]
  /\ job' = [s \in Slots |-> IF s \in SlotsOf(p) THEN "CREATED" ELSE job[s]]
  /\ reservation' = [s \in Slots |-> IF s \in SlotsOf(p) THEN "HELD" ELSE reservation[s]]
  /\ assigned' = [s \in Slots |-> IF s \in SlotsOf(p) THEN FALSE ELSE assigned[s]]
  /\ request' = [s \in Slots |-> IF s \in SlotsOf(p) THEN "NONE" ELSE request[s]]
  /\ origin' = [s \in Slots |-> IF s \in SlotsOf(p) THEN "REPRINT" ELSE origin[s]]
  /\ UNCHANGED replaced
  /\ Commit

\* Every branch of every handler.
Branches ==
  \/ \E s \in Slots : acceptJob(s)
  \/ \E s \in Slots : startPrinting(s)
  \/ \E s \in Slots : finishPrinting(s)
  \/ \E s \in Slots : submitQc(s)
  \/ \E s \in Slots : approveQc(s)
  \/ \E s \in Slots : packJob(s)
  \/ \E s \in Slots : failJob(s)
  \/ \E s \in Slots : FailReprintLabelled(s)
  \/ \E s \in Slots : FailReprintPlanned(s)
  \/ \E s \in Slots : AbandonLabelled(s)
  \/ \E s \in Slots : AbandonPlanned(s)
  \/ \E s \in Slots : createReplacement(s)
  \/ \E s \in Slots : ExpireLabelled(s)
  \/ \E s \in Slots : ExpirePlanned(s)
  \/ \E s \in Slots : ExpireVoids(s)
  \/ \E p \in Plans : createShipment(p)
  \/ \E p \in Plans : labelShipment(p)
  \/ \E p \in Plans : VoidReprintLabel(p)
  \/ \E p \in Plans, s \in Slots : VoidRefundsFailure(p, s)
  \/ \E p \in Plans : VoidCancelsParcel(p)
  \/ \E p \in Plans : VoidOnly(p)
  \/ \E p \in Plans : CarrierAccepts(p)
  \/ \E p \in Plans : CarrierVoids(p)
  \/ \E p \in Plans : HandOverOrdinary(p)
  \/ \E p \in Plans : HandOverRace(p)
  \/ \E p \in Plans : RecordCustody(p)
  \/ \E p \in Plans : ReconcilePaid(p)
  \/ \E p \in Plans : ReconcileUnpaid(p)
  \/ \E p \in Plans : ApplyDelivery(p)
  \/ \E p \in Plans, to \in {"LOST", "RETURNED"} : RemedyFails(p, to)
  \/ \E p \in Plans, to \in {"LOST", "RETURNED"} : IncidentOpens(p, to)
  \/ \E p \in Plans : ApplyProgress(p)
  \/ \E p \in Plans : OpenClaim(p)
  \/ \E p \in Plans, end \in {"RESOLVED_REJECTED", "WITHDRAWN"} : CloseClaim(p, end)
  \/ \E p \in Plans : Reprint(p)
  \/ \E p \in Plans : handoffReshipment(p)
  \/ \E p \in Plans : refundClaim(p)
  \/ \E p \in Plans : dispatchRefund(p)
  \/ \E p \in Plans : RefundArrives(p)
  \/ \E p \in Plans : RefundFails(p)
  \/ \E p \in Plans : retryRefund(p)
  \/ CancelVoids
  \/ \E gone \in SUBSET Plans, owed \in SUBSET Slots : EndOrder(gone, owed)
  \/ completeOrder
  \/ CancellationMoves
  \/ createBalancePayment
  \/ BalanceEvent

----------------------------------------------------------------------------
(* From handlers to branches, and what every branch keeps.                *)

\* What is derived from the shape of the order stays as long as the shape does.
LEMMA SameShape ==
  ASSUME shape' = shape
  PROVE  /\ Plans' = Plans /\ PlanOf' = PlanOf /\ SplitPayment' = SplitPayment
         /\ \A p : SlotsOf(p)' = SlotsOf(p)
BY DEF Plans, PlanOf, SplitPayment, SlotsOf

\* Every slot is packed in one of the parcels.
LEMMA SlotPlan ==
  ASSUME NEW s \in Slots PROVE PlanOf[s] \in Plans
BY DEF Plans

\* Every step of the fulfilment is one of the branches: the handlers of
\* OrdersService, split by the conditions they test.
LEMMA NextBranches ==
  ASSUME TypeOK, Next PROVE Branches
<1>1. ASSUME NEW s \in Slots, acceptJob(s) PROVE Branches
  BY <1>1 DEF Branches
<1>2. ASSUME NEW s \in Slots, startPrinting(s) PROVE Branches
  BY <1>2 DEF Branches
<1>3. ASSUME NEW s \in Slots, finishPrinting(s) PROVE Branches
  BY <1>3 DEF Branches
<1>4. ASSUME NEW s \in Slots, submitQc(s) PROVE Branches
  BY <1>4 DEF Branches
<1>5. ASSUME NEW s \in Slots, approveQc(s) PROVE Branches
  BY <1>5 DEF Branches
<1>6. ASSUME NEW s \in Slots, packJob(s) PROVE Branches
  BY <1>6 DEF Branches
<1>7. ASSUME NEW s \in Slots, failJob(s) PROVE Branches
  BY <1>7 DEF Branches
<1>8. ASSUME NEW s \in Slots, createReplacement(s) PROVE Branches
  BY <1>8 DEF Branches
<1>9. ASSUME NEW s \in Slots, prepareClaimReprintFailureRefund(s) PROVE Branches
  BY <1>9
  DEF Branches, prepareClaimReprintFailureRefund, FailReprintLabelled, FailReprintPlanned,
      claims
<1>10. ASSUME NEW s \in Slots, AbandonParcel(s) PROVE Branches
  BY <1>10 DEF Branches, AbandonParcel, AbandonLabelled, AbandonPlanned
<1>11. ASSUME NEW s \in Slots, expireReplacement(s) PROVE Branches
  <2>1. CASE OtherCustody(PlanOf[s])
    <3>1. ExpireLabelled(s) \/ ExpirePlanned(s)
      BY <1>11, <2>1
      DEF expireReplacement, finalizeExpiredReplacement, ExpireLabelled, ExpirePlanned,
          ExpireSiblings
    <3> QED BY <3>1 DEF Branches
  <2>2. CASE ~OtherCustody(PlanOf[s]) /\ Leaves(LiveLabels) # {}
    <3>1. ExpireVoids(s)
      BY <1>11, <2>2 DEF expireReplacement, finalizeExpiredReplacement, ExpireVoids
    <3> QED BY <3>1 DEF Branches
  <2>3. CASE ~OtherCustody(PlanOf[s]) /\ Leaves(LiveLabels) = {}
    <3>1. EndOrder({}, Owed \cup {s})
      BY <1>11, <2>3 DEF expireReplacement, finalizeExpiredReplacement, EndOrder, Leaves, Owed
    <3>2. Owed \cup {s} \in SUBSET Slots BY DEF Owed
    <3> QED BY <3>1, <3>2 DEF Branches
  <2> QED BY <2>1, <2>2, <2>3
<1>12. ASSUME NEW p \in Plans, createShipment(p) PROVE Branches
  BY <1>12 DEF Branches
<1>13. ASSUME NEW p \in Plans, labelShipment(p) PROVE Branches
  BY <1>13 DEF Branches
<1>14. ASSUME NEW p \in Plans, CarrierAccepts(p) PROVE Branches
  BY <1>14 DEF Branches
<1>15. ASSUME NEW p \in Plans, CarrierVoids(p) PROVE Branches
  BY <1>15 DEF Branches
<1>16. ASSUME NEW p \in Plans, RecordCustody(p) PROVE Branches
  BY <1>16 DEF Branches
<1>17. ASSUME NEW p \in Plans, ApplyDelivery(p) PROVE Branches
  BY <1>17 DEF Branches
<1>18. ASSUME NEW p \in Plans, ApplyProgress(p) PROVE Branches
  BY <1>18 DEF Branches
<1>19. ASSUME NEW p \in Plans, handoffReshipment(p) PROVE Branches
  BY <1>19 DEF Branches
<1>20. ASSUME NEW p \in Plans, refundClaim(p) PROVE Branches
  BY <1>20 DEF Branches
<1>21. ASSUME NEW p \in Plans, dispatchRefund(p) PROVE Branches
  BY <1>21 DEF Branches
<1>22. ASSUME NEW p \in Plans, retryRefund(p) PROVE Branches
  BY <1>22 DEF Branches
<1>23. ASSUME NEW p \in Plans, rejectClaim(p) PROVE Branches
  BY <1>23 DEF Branches, rejectClaim
<1>24. ASSUME NEW p \in Plans, createClaim(p) PROVE Branches
  <2>1. incident \in [Plans -> BOOLEAN] BY DEF TypeOK
  <2>2. incident' \in [Plans -> BOOLEAN] BY <1>24, <2>1 DEF createClaim
  <2>3. OpenClaim(p) BY <1>24, <2>2 DEF createClaim, OpenClaim
  <2> QED BY <2>3 DEF Branches
<1>25. ASSUME NEW p \in Plans, createClaimReprint(p) PROVE Branches
  <2>1. Reprint(p) BY <1>25 DEF createClaimReprint, Reprint
  <2> QED BY <2>1 DEF Branches
<1>26. ASSUME NEW p \in Plans, withdrawClaim(p) PROVE Branches
  BY <1>26 DEF Branches, withdrawClaim
<1>27. ASSUME NEW p \in Plans, handoffShipment(p) PROVE Branches
  BY <1>27 DEF Branches, HandOverOrdinary, HandOverRace, handoffShipment, LiveLabels
<1>28. ASSUME NEW p \in Plans, reconcileCancelledShipmentHandoff(p) PROVE Branches
  BY <1>28
  DEF Branches, reconcileCancelledShipmentHandoff, ReconcilePaid, ReconcileUnpaid, ReconcileWith
<1>29. ASSUME NEW p \in Plans, ApplyIncident(p) PROVE Branches
  BY <1>29 DEF Branches, ApplyIncident, RemedyFails, IncidentOpens
<1>30. ASSUME NEW p \in Plans, recordRefundProviderResult(p) PROVE Branches
  BY <1>30 DEF Branches, recordRefundProviderResult, RefundArrives, RefundFails
<1>31. ASSUME NEW p \in Plans, confirmLabelVoid(p) PROVE Branches
  <2>0. /\ leaf[p] = "CANCELLATION_PENDING" /\ voided[p]
        /\ VoidReprint(p) \/ VoidOwnParcel(p)
        /\ UNCHANGED carrier /\ Commit
    BY <1>31 DEF confirmLabelVoid
  <2>1. CASE VoidReprint(p)
    BY <2>0, <2>1 DEF VoidReprintLabel, Branches
  <2>2. CASE VoidOwnParcel(p)
    <3>1. CASE OtherCustody(p) /\ RefundRequired(p) # {}
      <4>1. PICK s \in RefundRequired(p) : VoidRefundsFailure(p, s)
        BY <2>0, <2>2, <3>1
        DEF VoidOwnParcel, VoidRefundsFailure, VoidOne,
            finalizePostHandoffProductionFailureRefund
      <4>2. s \in Slots BY DEF RefundRequired, SlotsOf
      <4> QED BY <4>1, <4>2 DEF Branches
    <3>2. CASE OtherCustody(p) /\ RefundRequired(p) = {}
      <4>1. VoidCancelsParcel(p)
        BY <2>0, <2>2, <3>2 DEF VoidOwnParcel, VoidCancelsParcel, VoidOne
      <4> QED BY <4>1 DEF Branches
    <3>3. CASE ~OtherCustody(p) /\ Leaves(LiveLabels) = {p}
      <4>1. EndOrder({p}, Owed) BY <2>0, <2>2, <3>3 DEF VoidOwnParcel, EndOrder, Leaves, Owed
      <4>2. Owed \in SUBSET Slots /\ {p} \in SUBSET Plans BY DEF Owed
      <4> QED BY <4>1, <4>2 DEF Branches
    <3>4. CASE ~OtherCustody(p) /\ Leaves(LiveLabels) # {p}
      <4>1. VoidOnly(p) BY <2>0, <2>2, <3>4 DEF VoidOwnParcel, VoidOnly
      <4> QED BY <4>1 DEF Branches
    <3> QED BY <3>1, <3>2, <3>3, <3>4
  <2> QED BY <2>0, <2>1, <2>2
<1>32. ASSUME completeOrder PROVE Branches
  BY <1>32 DEF Branches
<1>33. ASSUME createBalancePayment PROVE Branches
  BY <1>33 DEF Branches
<1>34. ASSUME BalanceEvent PROVE Branches
  BY <1>34 DEF Branches
<1>35. ASSUME cancelOrder PROVE Branches
  <2>1. CASE Leaves(LiveLabels) # {}
    BY <1>35, <2>1 DEF cancelOrder, CancelVoids, Branches, aggregate
  <2>2. CASE Leaves(LiveLabels) = {}
    <3>1. EndOrder({}, Owed)
      BY <1>35, <2>2 DEF cancelOrder, EndOrder, Leaves, Owed
    <3>2. Owed \in SUBSET Slots BY DEF Owed
    <3> QED BY <3>1, <3>2 DEF Branches
  <2> QED BY <2>1, <2>2
<1>36. ASSUME settleCancellation PROVE Branches
  <2>1. failedBefore \in BOOLEAN /\ retried \in BOOLEAN
    BY DEF TypeOK
  <2>2. CancellationMoves
    BY <1>36, <2>1 DEF settleCancellation, CancellationMoves
  <2> QED BY <2>2 DEF Branches
<1> QED
  BY <1>1, <1>2, <1>3, <1>4, <1>5, <1>6, <1>7, <1>8, <1>9, <1>10, <1>11, <1>12, <1>13, <1>14,
     <1>15, <1>16, <1>17, <1>18, <1>19, <1>20, <1>21, <1>22, <1>23, <1>24, <1>25, <1>26, <1>27,
     <1>28, <1>29, <1>30, <1>31, <1>32, <1>33, <1>34, <1>35, <1>36
  DEF Next, OrderStep, JobStep, ParcelStep, ClaimStep, RefundStep

\* No branch repacks an order or changes how it is paid.
LEMMA BranchKeepsShape ==
  ASSUME TRUE, Branches PROVE shape' = shape
<1> USE DEF aggregate, production, parcels, carrier, claims, scoped, money, Move
<1>1. ASSUME NEW s \in Slots, acceptJob(s) PROVE shape' = shape
  BY <1>1 DEF acceptJob, SetJob
<1>2. ASSUME NEW s \in Slots, startPrinting(s) PROVE shape' = shape
  BY <1>2 DEF startPrinting, SetJob
<1>3. ASSUME NEW s \in Slots, finishPrinting(s) PROVE shape' = shape
  BY <1>3 DEF finishPrinting, SetJob
<1>4. ASSUME NEW s \in Slots, submitQc(s) PROVE shape' = shape
  BY <1>4 DEF submitQc, SetJob
<1>5. ASSUME NEW s \in Slots, approveQc(s) PROVE shape' = shape
  BY <1>5 DEF approveQc, SetJob
<1>6. ASSUME NEW s \in Slots, packJob(s) PROVE shape' = shape
  BY <1>6 DEF packJob, SetJob, markReadyToShipWhenFinanciallyReady
<1>7. ASSUME NEW s \in Slots, failJob(s) PROVE shape' = shape
  BY <1>7
  DEF failJob, FailJobs, cancelProductionFailureParcelSiblings, StopProduction,
      voidOpenBalancePayments, Closed, FailedStatus, UnfinishedJobs
<1>8. ASSUME NEW s \in Slots, FailReprintLabelled(s) PROVE shape' = shape
  BY <1>8
  DEF FailReprintLabelled, FailJobs, cancelProductionFailureParcelSiblings, StopProduction,
      voidOpenBalancePayments, Closed, FailedStatus, UnfinishedJobs, Siblings, RequestVoid
<1>9. ASSUME NEW s \in Slots, FailReprintPlanned(s) PROVE shape' = shape
  BY <1>9
  DEF FailReprintPlanned, FailJobs, cancelProductionFailureParcelSiblings, StopProduction,
      voidOpenBalancePayments, Closed, FailedStatus, UnfinishedJobs, Siblings, CancelParcel
<1>10. ASSUME NEW s \in Slots, AbandonLabelled(s) PROVE shape' = shape
  BY <1>10
  DEF AbandonLabelled, FailJobs, cancelProductionFailureParcelSiblings, StopProduction,
      voidOpenBalancePayments, Closed, FailedStatus, UnfinishedJobs, Siblings, RequestVoid
<1>11. ASSUME NEW s \in Slots, AbandonPlanned(s) PROVE shape' = shape
  BY <1>11
  DEF AbandonPlanned, FailJobs, cancelProductionFailureParcelSiblings, StopProduction,
      voidOpenBalancePayments, Closed, FailedStatus, UnfinishedJobs, Siblings, CancelParcel,
      CreditParcel
<1>12. ASSUME NEW s \in Slots, createReplacement(s) PROVE shape' = shape
  BY <1>12 DEF createReplacement
<1>13. ASSUME NEW s \in Slots, ExpireLabelled(s) PROVE shape' = shape
  BY <1>13
  DEF ExpireLabelled, ExpireSiblings, cancelProductionFailureParcelSiblings, Closed,
      UnfinishedJobs, Siblings, RequestVoid
<1>14. ASSUME NEW s \in Slots, ExpirePlanned(s) PROVE shape' = shape
  BY <1>14
  DEF ExpirePlanned, ExpireSiblings, cancelProductionFailureParcelSiblings, Closed,
      UnfinishedJobs, Siblings, CancelParcel, CreditParcel
<1>15. ASSUME NEW s \in Slots, ExpireVoids(s) PROVE shape' = shape
  BY <1>15 DEF ExpireVoids, VoidLiveLabels
<1>16. ASSUME NEW p \in Plans, createShipment(p) PROVE shape' = shape
  BY <1>16 DEF createShipment
<1>17. ASSUME NEW p \in Plans, labelShipment(p) PROVE shape' = shape
  BY <1>17 DEF labelShipment, markReadyToShipWhenFinanciallyReady
<1>18. ASSUME NEW p \in Plans, VoidReprintLabel(p) PROVE shape' = shape
  BY <1>18 DEF VoidReprintLabel, VoidReprint, CancelParcel
<1>19. ASSUME NEW p \in Plans, NEW s \in Slots, VoidRefundsFailure(p, s) PROVE shape' = shape
  BY <1>19 DEF VoidRefundsFailure, VoidOne, CancelParcel, CreditParcel
<1>20. ASSUME NEW p \in Plans, VoidCancelsParcel(p) PROVE shape' = shape
  BY <1>20
  DEF VoidCancelsParcel, VoidOne, finalizePartialCancellation, CancelParcel, CreditParcel
<1>21. ASSUME NEW p \in Plans, VoidOnly(p) PROVE shape' = shape
  BY <1>21 DEF VoidOnly
<1>22. ASSUME NEW p \in Plans, CarrierAccepts(p) PROVE shape' = shape
  BY <1>22 DEF CarrierAccepts
<1>23. ASSUME NEW p \in Plans, CarrierVoids(p) PROVE shape' = shape
  BY <1>23 DEF CarrierVoids
<1>24. ASSUME NEW p \in Plans, HandOverOrdinary(p) PROVE shape' = shape
  BY <1>24 DEF HandOverOrdinary, handoffShipment, HandOver, packingReady
<1>25. ASSUME NEW p \in Plans, HandOverRace(p) PROVE shape' = shape
  BY <1>25 DEF HandOverRace, handoffShipment, HandOver, packingReady
<1>26. ASSUME NEW p \in Plans, RecordCustody(p) PROVE shape' = shape
  BY <1>26 DEF RecordCustody
<1>27. ASSUME NEW p \in Plans, ReconcilePaid(p) PROVE shape' = shape
  BY <1>27 DEF ReconcilePaid, ReconcileWith, HandOver, packingReady
<1>28. ASSUME NEW p \in Plans, ReconcileUnpaid(p) PROVE shape' = shape
  BY <1>28 DEF ReconcileUnpaid, ReconcileWith, HandOver, packingReady
<1>29. ASSUME NEW p \in Plans, ApplyDelivery(p) PROVE shape' = shape
  BY <1>29 DEF ApplyDelivery, CarrierMoves
<1>30. ASSUME NEW p \in Plans, NEW to \in {"LOST", "RETURNED"}, RemedyFails(p, to)
       PROVE  shape' = shape
  BY <1>30 DEF RemedyFails, CarrierMoves
<1>31. ASSUME NEW p \in Plans, NEW to \in {"LOST", "RETURNED"}, IncidentOpens(p, to)
       PROVE  shape' = shape
  BY <1>31 DEF IncidentOpens, CarrierMoves
<1>32. ASSUME NEW p \in Plans, ApplyProgress(p) PROVE shape' = shape
  BY <1>32 DEF ApplyProgress, CarrierMoves
<1>33. ASSUME NEW p \in Plans, OpenClaim(p) PROVE shape' = shape
  BY <1>33 DEF OpenClaim
<1>34. ASSUME NEW p \in Plans, NEW end \in {"RESOLVED_REJECTED", "WITHDRAWN"}, CloseClaim(p, end)
       PROVE  shape' = shape
  BY <1>34 DEF CloseClaim
<1>35. ASSUME NEW p \in Plans, Reprint(p) PROVE shape' = shape
  BY <1>35 DEF Reprint, Remedy
<1>36. ASSUME NEW p \in Plans, handoffReshipment(p) PROVE shape' = shape
  BY <1>36 DEF handoffReshipment, Remedy
<1>37. ASSUME NEW p \in Plans, refundClaim(p) PROVE shape' = shape
  BY <1>37 DEF refundClaim, CreditParcel
<1>38. ASSUME NEW p \in Plans, dispatchRefund(p) PROVE shape' = shape
  BY <1>38 DEF dispatchRefund
<1>39. ASSUME NEW p \in Plans, RefundArrives(p) PROVE shape' = shape
  BY <1>39 DEF RefundArrives, RefundSucceeded
<1>40. ASSUME NEW p \in Plans, RefundFails(p) PROVE shape' = shape
  BY <1>40 DEF RefundFails
<1>41. ASSUME NEW p \in Plans, retryRefund(p) PROVE shape' = shape
  BY <1>41 DEF retryRefund
<1>42. ASSUME CancelVoids PROVE shape' = shape
  BY <1>42 DEF CancelVoids, VoidLiveLabels
<1>43. ASSUME NEW gone \in SUBSET Plans, NEW owed \in SUBSET Slots, EndOrder(gone, owed)
       PROVE  shape' = shape
  BY <1>43 DEF EndOrder, finalizeCancellation, voidOpenBalancePayments, Closed, UnfinishedJobs
<1>44. ASSUME completeOrder PROVE shape' = shape
  BY <1>44 DEF completeOrder
<1>45. ASSUME CancellationMoves PROVE shape' = shape
  BY <1>45 DEF CancellationMoves
<1>46. ASSUME createBalancePayment PROVE shape' = shape
  BY <1>46 DEF createBalancePayment
<1>47. ASSUME BalanceEvent PROVE shape' = shape
  BY <1>47 DEF BalanceEvent
<1> QED
  BY <1>1, <1>2, <1>3, <1>4, <1>5, <1>6, <1>7, <1>8, <1>9, <1>10, <1>11, <1>12, <1>13, <1>14,
     <1>15, <1>16, <1>17, <1>18, <1>19, <1>20, <1>21, <1>22, <1>23, <1>24, <1>25, <1>26, <1>27,
     <1>28, <1>29, <1>30, <1>31, <1>32, <1>33, <1>34, <1>35, <1>36, <1>37, <1>38, <1>39, <1>40,
     <1>41, <1>42, <1>43, <1>44, <1>45, <1>46, <1>47 DEF Branches

\* Nor what is derived from that.
LEMMA BranchShape ==
  ASSUME Branches
  PROVE  /\ shape' = shape /\ Plans' = Plans /\ PlanOf' = PlanOf /\ SplitPayment' = SplitPayment
         /\ \A p : SlotsOf(p)' = SlotsOf(p)
BY BranchKeepsShape, SameShape, Zenon

\* Every branch keeps the types.
LEMMA TypeStep ==
  ASSUME TypeOK, Branches PROVE TypeOK'
<1> USE DEF aggregate, production, parcels, carrier, claims, scoped, money, Move, TypeOK,
            JobStatus, PreparedJobs, StartedJobs, FailedJobs, OrderStatus, PhaseStatus,
            ShipmentStatus, Custody, LiveLabels, OpenClaims, OpenRefunds
<1>0. shape' = shape /\ Plans' = Plans /\ PlanOf' = PlanOf
  BY BranchShape
<1>1. ASSUME NEW s \in Slots, acceptJob(s) PROVE TypeOK'
  BY <1>1, <1>0, SlotPlan, BoundsAssumption DEF acceptJob, SetJob
<1>2. ASSUME NEW s \in Slots, startPrinting(s) PROVE TypeOK'
  BY <1>2, <1>0, SlotPlan, BoundsAssumption DEF startPrinting, SetJob
<1>3. ASSUME NEW s \in Slots, finishPrinting(s) PROVE TypeOK'
  BY <1>3, <1>0, SlotPlan, BoundsAssumption DEF finishPrinting, SetJob
<1>4. ASSUME NEW s \in Slots, submitQc(s) PROVE TypeOK'
  BY <1>4, <1>0, SlotPlan, BoundsAssumption DEF submitQc, SetJob
<1>5. ASSUME NEW s \in Slots, approveQc(s) PROVE TypeOK'
  BY <1>5, <1>0, SlotPlan, BoundsAssumption DEF approveQc, SetJob
<1>6. ASSUME NEW s \in Slots, packJob(s) PROVE TypeOK'
  BY <1>6, <1>0, SlotPlan, BoundsAssumption
  DEF packJob, SetJob, markReadyToShipWhenFinanciallyReady
<1>7. ASSUME NEW s \in Slots, failJob(s) PROVE TypeOK'
  BY <1>7, <1>0, SlotPlan, BoundsAssumption
  DEF failJob, FailJobs, cancelProductionFailureParcelSiblings, StopProduction,
      voidOpenBalancePayments, Closed, FailedStatus, UnfinishedJobs
<1>8. ASSUME NEW s \in Slots, FailReprintLabelled(s) PROVE TypeOK'
  BY <1>8, <1>0, SlotPlan, BoundsAssumption
  DEF FailReprintLabelled, FailJobs, cancelProductionFailureParcelSiblings, StopProduction,
      voidOpenBalancePayments, Closed, FailedStatus, UnfinishedJobs, Siblings, RequestVoid
<1>9. ASSUME NEW s \in Slots, FailReprintPlanned(s) PROVE TypeOK'
  BY <1>9, <1>0, SlotPlan, BoundsAssumption
  DEF FailReprintPlanned, FailJobs, cancelProductionFailureParcelSiblings, StopProduction,
      voidOpenBalancePayments, Closed, FailedStatus, UnfinishedJobs, Siblings, CancelParcel
<1>10. ASSUME NEW s \in Slots, AbandonLabelled(s) PROVE TypeOK'
  BY <1>10, <1>0, SlotPlan, BoundsAssumption
  DEF AbandonLabelled, FailJobs, cancelProductionFailureParcelSiblings, StopProduction,
      voidOpenBalancePayments, Closed, FailedStatus, UnfinishedJobs, Siblings, RequestVoid
<1>11. ASSUME NEW s \in Slots, AbandonPlanned(s) PROVE TypeOK'
  BY <1>11, <1>0, SlotPlan, BoundsAssumption
  DEF AbandonPlanned, FailJobs, cancelProductionFailureParcelSiblings, StopProduction,
      voidOpenBalancePayments, Closed, FailedStatus, UnfinishedJobs, Siblings, CancelParcel,
      CreditParcel
<1>12. ASSUME NEW s \in Slots, createReplacement(s) PROVE TypeOK'
  BY <1>12, <1>0, SlotPlan, BoundsAssumption DEF createReplacement
<1>13. ASSUME NEW s \in Slots, ExpireLabelled(s) PROVE TypeOK'
  BY <1>13, <1>0, SlotPlan, BoundsAssumption
  DEF ExpireLabelled, ExpireSiblings, cancelProductionFailureParcelSiblings, Closed,
      UnfinishedJobs, Siblings, RequestVoid
<1>14. ASSUME NEW s \in Slots, ExpirePlanned(s) PROVE TypeOK'
  BY <1>14, <1>0, SlotPlan, BoundsAssumption
  DEF ExpirePlanned, ExpireSiblings, cancelProductionFailureParcelSiblings, Closed,
      UnfinishedJobs, Siblings, CancelParcel, CreditParcel
<1>15. ASSUME NEW s \in Slots, ExpireVoids(s) PROVE TypeOK'
  BY <1>15, <1>0, SlotPlan, BoundsAssumption DEF ExpireVoids, VoidLiveLabels
<1>16. ASSUME NEW p \in Plans, createShipment(p) PROVE TypeOK'
  BY <1>16, <1>0, SlotPlan, BoundsAssumption DEF createShipment
<1>17. ASSUME NEW p \in Plans, labelShipment(p) PROVE TypeOK'
  BY <1>17, <1>0, SlotPlan, BoundsAssumption
  DEF labelShipment, markReadyToShipWhenFinanciallyReady
<1>18. ASSUME NEW p \in Plans, VoidReprintLabel(p) PROVE TypeOK'
  BY <1>18, <1>0, SlotPlan, BoundsAssumption DEF VoidReprintLabel, VoidReprint, CancelParcel
<1>19. ASSUME NEW p \in Plans, NEW s \in Slots, VoidRefundsFailure(p, s) PROVE TypeOK'
  BY <1>19, <1>0, SlotPlan, BoundsAssumption
  DEF VoidRefundsFailure, VoidOne, CancelParcel, CreditParcel
<1>20. ASSUME NEW p \in Plans, VoidCancelsParcel(p) PROVE TypeOK'
  BY <1>20, <1>0, SlotPlan, BoundsAssumption
  DEF VoidCancelsParcel, VoidOne, finalizePartialCancellation, CancelParcel, CreditParcel
<1>21. ASSUME NEW p \in Plans, VoidOnly(p) PROVE TypeOK'
  BY <1>21, <1>0, SlotPlan, BoundsAssumption DEF VoidOnly
<1>22. ASSUME NEW p \in Plans, CarrierAccepts(p) PROVE TypeOK'
  BY <1>22, <1>0, SlotPlan, BoundsAssumption DEF CarrierAccepts
<1>23. ASSUME NEW p \in Plans, CarrierVoids(p) PROVE TypeOK'
  BY <1>23, <1>0, SlotPlan, BoundsAssumption DEF CarrierVoids
<1>24. ASSUME NEW p \in Plans, HandOverOrdinary(p) PROVE TypeOK'
  BY <1>24, <1>0, SlotPlan, BoundsAssumption
  DEF HandOverOrdinary, handoffShipment, HandOver, packingReady
<1>25. ASSUME NEW p \in Plans, HandOverRace(p) PROVE TypeOK'
  BY <1>25, <1>0, SlotPlan, BoundsAssumption
  DEF HandOverRace, handoffShipment, HandOver, packingReady
<1>26. ASSUME NEW p \in Plans, RecordCustody(p) PROVE TypeOK'
  BY <1>26, <1>0, SlotPlan, BoundsAssumption DEF RecordCustody
<1>27. ASSUME NEW p \in Plans, ReconcilePaid(p) PROVE TypeOK'
  BY <1>27, <1>0, SlotPlan, BoundsAssumption
  DEF ReconcilePaid, ReconcileWith, HandOver, packingReady
<1>28. ASSUME NEW p \in Plans, ReconcileUnpaid(p) PROVE TypeOK'
  BY <1>28, <1>0, SlotPlan, BoundsAssumption
  DEF ReconcileUnpaid, ReconcileWith, HandOver, packingReady
<1>29. ASSUME NEW p \in Plans, ApplyDelivery(p) PROVE TypeOK'
  BY <1>29, <1>0, SlotPlan, BoundsAssumption DEF ApplyDelivery, CarrierMoves
<1>30. ASSUME NEW p \in Plans, NEW to \in {"LOST", "RETURNED"}, RemedyFails(p, to) PROVE TypeOK'
  BY <1>30, <1>0, SlotPlan, BoundsAssumption DEF RemedyFails, CarrierMoves
<1>31. ASSUME NEW p \in Plans, NEW to \in {"LOST", "RETURNED"}, IncidentOpens(p, to)
       PROVE  TypeOK'
  BY <1>31, <1>0, SlotPlan, BoundsAssumption DEF IncidentOpens, CarrierMoves
<1>32. ASSUME NEW p \in Plans, ApplyProgress(p) PROVE TypeOK'
  BY <1>32, <1>0, SlotPlan, BoundsAssumption DEF ApplyProgress, CarrierMoves
<1>33. ASSUME NEW p \in Plans, OpenClaim(p) PROVE TypeOK'
  BY <1>33, <1>0, SlotPlan, BoundsAssumption DEF OpenClaim
<1>34. ASSUME NEW p \in Plans, NEW end \in {"RESOLVED_REJECTED", "WITHDRAWN"}, CloseClaim(p, end)
       PROVE  TypeOK'
  BY <1>34, <1>0, SlotPlan, BoundsAssumption DEF CloseClaim
<1>35. ASSUME NEW p \in Plans, Reprint(p) PROVE TypeOK'
  <2>1. /\ job' \in [Slots -> JobStatus]
        /\ reservation' \in [Slots -> {"HELD", "PRINTING", "SETTLED", "RELEASED"}]
        /\ request' \in [Slots -> {"NONE", "OPEN", "REFUND_REQUIRED", "RESOLVED"}]
        /\ origin' \in [Slots -> {"FIRST", "REPLACEMENT", "REPRINT"}]
    BY <1>35 DEF Reprint
  <2>5. assigned' \in [Slots -> BOOLEAN]
    <3>1. assigned \in [Slots -> BOOLEAN] OBVIOUS
    <3>2. assigned' = [s \in Slots |-> IF s \in SlotsOf(p) THEN FALSE ELSE assigned[s]]
      BY <1>35 DEF Reprint
    <3> QED BY <3>1, <3>2
  <2>2. returns' \in 0..MaxReturns
    BY <1>35, BoundsAssumption DEF Reprint, Remedy
  <2>3. replaced' = replaced /\ UNCHANGED <<aggregate, outcome, incident, money>>
    BY <1>35 DEF Reprint, Remedy
  <2>4. /\ leaf' \in [Plans -> ShipmentStatus]
        /\ scan' \in [Plans -> {"NONE", "ORDINARY", "RACE", "RECONCILED", "REFUNDED", "DISPUTED"}]
        /\ accepted' \in [Plans -> BOOLEAN] /\ voided' \in [Plans -> BOOLEAN]
        /\ claim' \in [Plans -> OpenClaims \cup {"NONE", "WITHDRAWN", "RESOLVED_REJECTED",
                      "RESOLVED_REFUND", "RESOLVED_RESHIP", "RESOLVED_REPLACEMENT"}]
        /\ resolution' \in [Plans -> {"NONE", "PENDING", "RESHIP_PENDING", "REPLACEMENT_PENDING",
                      "REFUND_PENDING", "DELIVERED", "CLOSED", "REFUNDED"}]
        /\ reprint' \in [Plans -> {"NO", "LEAF", "PAST"}]
    BY <1>35 DEF Reprint, Remedy
  <2> QED
    BY <1>0, <2>1, <2>2, <2>3, <2>4, <2>5
<1>36. ASSUME NEW p \in Plans, handoffReshipment(p) PROVE TypeOK'
  BY <1>36, <1>0, SlotPlan, BoundsAssumption DEF handoffReshipment, Remedy
<1>37. ASSUME NEW p \in Plans, refundClaim(p) PROVE TypeOK'
  BY <1>37, <1>0, SlotPlan, BoundsAssumption DEF refundClaim, CreditParcel
<1>38. ASSUME NEW p \in Plans, dispatchRefund(p) PROVE TypeOK'
  BY <1>38, <1>0, SlotPlan, BoundsAssumption DEF dispatchRefund
<1>39. ASSUME NEW p \in Plans, RefundArrives(p) PROVE TypeOK'
  BY <1>39, <1>0, SlotPlan, BoundsAssumption DEF RefundArrives, RefundSucceeded
<1>40. ASSUME NEW p \in Plans, RefundFails(p) PROVE TypeOK'
  BY <1>40, <1>0, SlotPlan, BoundsAssumption DEF RefundFails
<1>41. ASSUME NEW p \in Plans, retryRefund(p) PROVE TypeOK'
  BY <1>41, <1>0, SlotPlan, BoundsAssumption DEF retryRefund
<1>42. ASSUME CancelVoids PROVE TypeOK'
  BY <1>42, <1>0, SlotPlan, BoundsAssumption DEF CancelVoids, VoidLiveLabels
<1>43. ASSUME NEW gone \in SUBSET Plans, NEW owed \in SUBSET Slots, EndOrder(gone, owed)
       PROVE  TypeOK'
  BY <1>43, <1>0, SlotPlan, BoundsAssumption
  DEF EndOrder, finalizeCancellation, voidOpenBalancePayments, Closed, UnfinishedJobs
<1>44. ASSUME completeOrder PROVE TypeOK'
  BY <1>44, <1>0, SlotPlan, BoundsAssumption DEF completeOrder
<1>45. ASSUME CancellationMoves PROVE TypeOK'
  BY <1>45, <1>0, SlotPlan, BoundsAssumption DEF CancellationMoves
<1>46. ASSUME createBalancePayment PROVE TypeOK'
  BY <1>46, <1>0, SlotPlan, BoundsAssumption DEF createBalancePayment
<1>47. ASSUME BalanceEvent PROVE TypeOK'
  BY <1>47, <1>0, SlotPlan, BoundsAssumption DEF BalanceEvent
<1> HIDE DEF TypeOK
<1> QED
  BY <1>1, <1>2, <1>3, <1>4, <1>5, <1>6, <1>7, <1>8, <1>9, <1>10, <1>11, <1>12, <1>13, <1>14,
     <1>15, <1>16, <1>17, <1>18, <1>19, <1>20, <1>21, <1>22, <1>23, <1>24, <1>25, <1>26, <1>27,
     <1>28, <1>29, <1>30, <1>31, <1>32, <1>33, <1>34, <1>35, <1>36, <1>37, <1>38, <1>39, <1>40,
     <1>41, <1>42, <1>43, <1>44, <1>45, <1>46, <1>47 DEF Branches

----------------------------------------------------------------------------
(* Slots: a job is away with its parcel and holds what its status needs.  *)

\* Every branch that moves a job moves its parcel and its reservation with it.
LEMMA JobsStep ==
  ASSUME TypeOK, JobsSound, Branches PROVE JobsSound'
<1> USE DEF aggregate, production, parcels, carrier, claims, scoped, money, Move, TypeOK,
            SlotsOf, PreparedJobs, StartedJobs, FailedJobs, Custody, LiveLabels, Away
<1> SUFFICES ASSUME NEW t \in Slots PROVE JobSound(t)'
  BY DEF JobsSound
<1>0. shape' = shape /\ Plans' = Plans /\ PlanOf' = PlanOf
  BY BranchShape
<1>a. JobSound(t) /\ PlanOf[t] \in Plans
  BY SlotPlan DEF JobsSound
<1> USE <1>0, <1>a DEF JobSound
<1>1. ASSUME NEW s \in Slots, acceptJob(s) PROVE JobSound(t)'
  BY <1>1 DEF acceptJob, SetJob
<1>2. ASSUME NEW s \in Slots, startPrinting(s) PROVE JobSound(t)'
  BY <1>2 DEF startPrinting, SetJob
<1>3. ASSUME NEW s \in Slots, finishPrinting(s) PROVE JobSound(t)'
  BY <1>3 DEF finishPrinting, SetJob
<1>4. ASSUME NEW s \in Slots, submitQc(s) PROVE JobSound(t)'
  BY <1>4 DEF submitQc, SetJob
<1>5. ASSUME NEW s \in Slots, approveQc(s) PROVE JobSound(t)'
  BY <1>5 DEF approveQc, SetJob
<1>6. ASSUME NEW s \in Slots, packJob(s) PROVE JobSound(t)'
  BY <1>6 DEF packJob, SetJob, markReadyToShipWhenFinanciallyReady
<1>7. ASSUME NEW s \in Slots, failJob(s) PROVE JobSound(t)'
  BY <1>7
  DEF failJob, FailJobs, cancelProductionFailureParcelSiblings, StopProduction,
      voidOpenBalancePayments, Closed, FailedStatus, UnfinishedJobs
<1>8. ASSUME NEW s \in Slots, FailReprintLabelled(s) PROVE JobSound(t)'
  BY <1>8
  DEF FailReprintLabelled, FailJobs, cancelProductionFailureParcelSiblings, StopProduction,
      voidOpenBalancePayments, Closed, FailedStatus, UnfinishedJobs, Siblings, RequestVoid
<1>9. ASSUME NEW s \in Slots, FailReprintPlanned(s) PROVE JobSound(t)'
  BY <1>9
  DEF FailReprintPlanned, FailJobs, cancelProductionFailureParcelSiblings, StopProduction,
      voidOpenBalancePayments, Closed, FailedStatus, UnfinishedJobs, Siblings, CancelParcel
<1>10. ASSUME NEW s \in Slots, AbandonLabelled(s) PROVE JobSound(t)'
  BY <1>10
  DEF AbandonLabelled, FailJobs, cancelProductionFailureParcelSiblings, StopProduction,
      voidOpenBalancePayments, Closed, FailedStatus, UnfinishedJobs, Siblings, RequestVoid
<1>11. ASSUME NEW s \in Slots, AbandonPlanned(s) PROVE JobSound(t)'
  BY <1>11
  DEF AbandonPlanned, FailJobs, cancelProductionFailureParcelSiblings, StopProduction,
      voidOpenBalancePayments, Closed, FailedStatus, UnfinishedJobs, Siblings, CancelParcel,
      CreditParcel
<1>12. ASSUME NEW s \in Slots, createReplacement(s) PROVE JobSound(t)'
  BY <1>12 DEF createReplacement
<1>13. ASSUME NEW s \in Slots, ExpireLabelled(s) PROVE JobSound(t)'
  BY <1>13
  DEF ExpireLabelled, ExpireSiblings, cancelProductionFailureParcelSiblings, Closed,
      UnfinishedJobs, Siblings, RequestVoid
<1>14. ASSUME NEW s \in Slots, ExpirePlanned(s) PROVE JobSound(t)'
  BY <1>14
  DEF ExpirePlanned, ExpireSiblings, cancelProductionFailureParcelSiblings, Closed,
      UnfinishedJobs, Siblings, CancelParcel, CreditParcel
<1>15. ASSUME NEW s \in Slots, ExpireVoids(s) PROVE JobSound(t)'
  BY <1>15 DEF ExpireVoids, VoidLiveLabels
<1>16. ASSUME NEW p \in Plans, createShipment(p) PROVE JobSound(t)'
  BY <1>16 DEF createShipment
<1>17. ASSUME NEW p \in Plans, labelShipment(p) PROVE JobSound(t)'
  BY <1>17 DEF labelShipment, markReadyToShipWhenFinanciallyReady
<1>18. ASSUME NEW p \in Plans, VoidReprintLabel(p) PROVE JobSound(t)'
  BY <1>18 DEF VoidReprintLabel, VoidReprint, CancelParcel
<1>19. ASSUME NEW p \in Plans, NEW s \in Slots, VoidRefundsFailure(p, s) PROVE JobSound(t)'
  BY <1>19 DEF VoidRefundsFailure, VoidOne, CancelParcel, CreditParcel
<1>20. ASSUME NEW p \in Plans, VoidCancelsParcel(p) PROVE JobSound(t)'
  BY <1>20
  DEF VoidCancelsParcel, VoidOne, finalizePartialCancellation, CancelParcel, CreditParcel
<1>21. ASSUME NEW p \in Plans, VoidOnly(p) PROVE JobSound(t)'
  BY <1>21 DEF VoidOnly
<1>22. ASSUME NEW p \in Plans, CarrierAccepts(p) PROVE JobSound(t)'
  BY <1>22 DEF CarrierAccepts
<1>23. ASSUME NEW p \in Plans, CarrierVoids(p) PROVE JobSound(t)'
  BY <1>23 DEF CarrierVoids
<1>24. ASSUME NEW p \in Plans, HandOverOrdinary(p) PROVE JobSound(t)'
  BY <1>24 DEF HandOverOrdinary, handoffShipment, HandOver, packingReady
<1>25. ASSUME NEW p \in Plans, HandOverRace(p) PROVE JobSound(t)'
  BY <1>25 DEF HandOverRace, handoffShipment, HandOver, packingReady
<1>26. ASSUME NEW p \in Plans, RecordCustody(p) PROVE JobSound(t)'
  BY <1>26 DEF RecordCustody
<1>27. ASSUME NEW p \in Plans, ReconcilePaid(p) PROVE JobSound(t)'
  BY <1>27 DEF ReconcilePaid, ReconcileWith, HandOver, packingReady
<1>28. ASSUME NEW p \in Plans, ReconcileUnpaid(p) PROVE JobSound(t)'
  BY <1>28 DEF ReconcileUnpaid, ReconcileWith, HandOver, packingReady
<1>29. ASSUME NEW p \in Plans, ApplyDelivery(p) PROVE JobSound(t)'
  BY <1>29 DEF ApplyDelivery, CarrierMoves
<1>30. ASSUME NEW p \in Plans, NEW to \in {"LOST", "RETURNED"}, RemedyFails(p, to)
       PROVE  JobSound(t)'
  BY <1>30 DEF RemedyFails, CarrierMoves
<1>31. ASSUME NEW p \in Plans, NEW to \in {"LOST", "RETURNED"}, IncidentOpens(p, to)
       PROVE  JobSound(t)'
  BY <1>31 DEF IncidentOpens, CarrierMoves
<1>32. ASSUME NEW p \in Plans, ApplyProgress(p) PROVE JobSound(t)'
  BY <1>32 DEF ApplyProgress, CarrierMoves
<1>33. ASSUME NEW p \in Plans, OpenClaim(p) PROVE JobSound(t)'
  BY <1>33 DEF OpenClaim
<1>34. ASSUME NEW p \in Plans, NEW end \in {"RESOLVED_REJECTED", "WITHDRAWN"}, CloseClaim(p, end)
       PROVE  JobSound(t)'
  BY <1>34 DEF CloseClaim
<1>35. ASSUME NEW p \in Plans, Reprint(p) PROVE JobSound(t)'
  BY <1>35 DEF Reprint, Remedy
<1>36. ASSUME NEW p \in Plans, handoffReshipment(p) PROVE JobSound(t)'
  BY <1>36 DEF handoffReshipment, Remedy
<1>37. ASSUME NEW p \in Plans, refundClaim(p) PROVE JobSound(t)'
  BY <1>37 DEF refundClaim, CreditParcel
<1>38. ASSUME NEW p \in Plans, dispatchRefund(p) PROVE JobSound(t)'
  BY <1>38 DEF dispatchRefund
<1>39. ASSUME NEW p \in Plans, RefundArrives(p) PROVE JobSound(t)'
  BY <1>39 DEF RefundArrives, RefundSucceeded
<1>40. ASSUME NEW p \in Plans, RefundFails(p) PROVE JobSound(t)'
  BY <1>40 DEF RefundFails
<1>41. ASSUME NEW p \in Plans, retryRefund(p) PROVE JobSound(t)'
  BY <1>41 DEF retryRefund
<1>42. ASSUME CancelVoids PROVE JobSound(t)'
  BY <1>42 DEF CancelVoids, VoidLiveLabels
<1>43. ASSUME NEW gone \in SUBSET Plans, NEW owed \in SUBSET Slots, EndOrder(gone, owed)
       PROVE  JobSound(t)'
  BY <1>43 DEF EndOrder, finalizeCancellation, voidOpenBalancePayments, Closed, UnfinishedJobs
<1>44. ASSUME completeOrder PROVE JobSound(t)'
  BY <1>44 DEF completeOrder
<1>45. ASSUME CancellationMoves PROVE JobSound(t)'
  BY <1>45 DEF CancellationMoves
<1>46. ASSUME createBalancePayment PROVE JobSound(t)'
  BY <1>46 DEF createBalancePayment
<1>47. ASSUME BalanceEvent PROVE JobSound(t)'
  BY <1>47 DEF BalanceEvent
<1> HIDE DEF TypeOK, JobSound
<1> QED
  BY <1>1, <1>2, <1>3, <1>4, <1>5, <1>6, <1>7, <1>8, <1>9, <1>10, <1>11, <1>12, <1>13, <1>14,
     <1>15, <1>16, <1>17, <1>18, <1>19, <1>20, <1>21, <1>22, <1>23, <1>24, <1>25, <1>26, <1>27,
     <1>28, <1>29, <1>30, <1>31, <1>32, <1>33, <1>34, <1>35, <1>36, <1>37, <1>38, <1>39, <1>40,
     <1>41, <1>42, <1>43, <1>44, <1>45, <1>46, <1>47 DEF Branches

----------------------------------------------------------------------------
(* Order and phase.                                                       *)

\* What the deferred triggers guarantee at the end of every transaction.
LEMMA CommitTriggers ==
  ASSUME Commit PROVE Reconciled'
BY DEF Commit, Reconciled

\* The two triggers hold after every branch, also after the writes that do not
\* fire them.
LEMMA TriggersStep ==
  ASSUME TypeOK, taven_reconcile_shipment_plan_slot_terminal_state,
         taven_reconcile_customer_cancellation_refund_order, Branches
  PROVE  Reconciled'
<1> USE DEF aggregate, production, parcels, carrier, claims, scoped, money, Move, Reconciled
<1>0. shape' = shape /\ Plans' = Plans
  BY BranchShape
<1>1. ASSUME NEW s \in Slots, acceptJob(s) PROVE Reconciled'
  BY <1>1, CommitTriggers DEF acceptJob, SetJob
<1>2. ASSUME NEW s \in Slots, startPrinting(s) PROVE Reconciled'
  BY <1>2, CommitTriggers DEF startPrinting, SetJob
<1>3. ASSUME NEW s \in Slots, finishPrinting(s) PROVE Reconciled'
  BY <1>3, CommitTriggers DEF finishPrinting, SetJob
<1>4. ASSUME NEW s \in Slots, submitQc(s) PROVE Reconciled'
  BY <1>4, CommitTriggers DEF submitQc, SetJob
<1>5. ASSUME NEW s \in Slots, approveQc(s) PROVE Reconciled'
  BY <1>5, CommitTriggers DEF approveQc, SetJob
<1>6. ASSUME NEW s \in Slots, packJob(s) PROVE Reconciled'
  BY <1>6, CommitTriggers DEF packJob, SetJob, markReadyToShipWhenFinanciallyReady
<1>7. ASSUME NEW s \in Slots, failJob(s) PROVE Reconciled'
  BY <1>7, CommitTriggers
  DEF failJob, FailJobs, cancelProductionFailureParcelSiblings, StopProduction,
      voidOpenBalancePayments, Closed, FailedStatus, UnfinishedJobs
<1>8. ASSUME NEW s \in Slots, FailReprintLabelled(s) PROVE Reconciled'
  BY <1>8, CommitTriggers
  DEF FailReprintLabelled, FailJobs, cancelProductionFailureParcelSiblings, StopProduction,
      voidOpenBalancePayments, Closed, FailedStatus, UnfinishedJobs, Siblings, RequestVoid
<1>9. ASSUME NEW s \in Slots, FailReprintPlanned(s) PROVE Reconciled'
  BY <1>9, CommitTriggers
  DEF FailReprintPlanned, FailJobs, cancelProductionFailureParcelSiblings, StopProduction,
      voidOpenBalancePayments, Closed, FailedStatus, UnfinishedJobs, Siblings, CancelParcel
<1>10. ASSUME NEW s \in Slots, AbandonLabelled(s) PROVE Reconciled'
  BY <1>10, CommitTriggers
  DEF AbandonLabelled, FailJobs, cancelProductionFailureParcelSiblings, StopProduction,
      voidOpenBalancePayments, Closed, FailedStatus, UnfinishedJobs, Siblings, RequestVoid
<1>11. ASSUME NEW s \in Slots, AbandonPlanned(s) PROVE Reconciled'
  BY <1>11, CommitTriggers
  DEF AbandonPlanned, FailJobs, cancelProductionFailureParcelSiblings, StopProduction,
      voidOpenBalancePayments, Closed, FailedStatus, UnfinishedJobs, Siblings, CancelParcel,
      CreditParcel
<1>12. ASSUME NEW s \in Slots, createReplacement(s) PROVE Reconciled'
  BY <1>12, CommitTriggers DEF createReplacement
<1>13. ASSUME NEW s \in Slots, ExpireLabelled(s) PROVE Reconciled'
  BY <1>13, CommitTriggers
  DEF ExpireLabelled, ExpireSiblings, cancelProductionFailureParcelSiblings, Closed,
      UnfinishedJobs, Siblings, RequestVoid
<1>14. ASSUME NEW s \in Slots, ExpirePlanned(s) PROVE Reconciled'
  BY <1>14, CommitTriggers
  DEF ExpirePlanned, ExpireSiblings, cancelProductionFailureParcelSiblings, Closed,
      UnfinishedJobs, Siblings, CancelParcel, CreditParcel
<1>15. ASSUME NEW s \in Slots, ExpireVoids(s) PROVE Reconciled'
  BY <1>15, CommitTriggers DEF ExpireVoids, VoidLiveLabels
<1>16. ASSUME NEW p \in Plans, createShipment(p) PROVE Reconciled'
  BY <1>16, CommitTriggers DEF createShipment
<1>17. ASSUME NEW p \in Plans, labelShipment(p) PROVE Reconciled'
  BY <1>17, CommitTriggers DEF labelShipment, markReadyToShipWhenFinanciallyReady
<1>18. ASSUME NEW p \in Plans, VoidReprintLabel(p) PROVE Reconciled'
  BY <1>18, CommitTriggers DEF VoidReprintLabel, VoidReprint, CancelParcel
<1>19. ASSUME NEW p \in Plans, NEW s \in Slots, VoidRefundsFailure(p, s) PROVE Reconciled'
  BY <1>19, CommitTriggers DEF VoidRefundsFailure, VoidOne, CancelParcel, CreditParcel
<1>20. ASSUME NEW p \in Plans, VoidCancelsParcel(p) PROVE Reconciled'
  BY <1>20, CommitTriggers
  DEF VoidCancelsParcel, VoidOne, finalizePartialCancellation, CancelParcel, CreditParcel
<1>21. ASSUME NEW p \in Plans, VoidOnly(p) PROVE Reconciled'
  BY <1>21, CommitTriggers DEF VoidOnly
<1>22. ASSUME NEW p \in Plans, CarrierAccepts(p) PROVE Reconciled'
  BY <1>22, <1>0
  DEF CarrierAccepts, TypeOK, RefundedReconciliation, OpenRefunds,
      taven_reconcile_shipment_plan_slot_terminal_state,
      taven_reconcile_customer_cancellation_refund_order
<1>23. ASSUME NEW p \in Plans, CarrierVoids(p) PROVE Reconciled'
  BY <1>23, <1>0
  DEF CarrierVoids, TypeOK, RefundedReconciliation, OpenRefunds,
      taven_reconcile_shipment_plan_slot_terminal_state,
      taven_reconcile_customer_cancellation_refund_order
<1>24. ASSUME NEW p \in Plans, HandOverOrdinary(p) PROVE Reconciled'
  BY <1>24, CommitTriggers DEF HandOverOrdinary, handoffShipment, HandOver, packingReady
<1>25. ASSUME NEW p \in Plans, HandOverRace(p) PROVE Reconciled'
  BY <1>25, CommitTriggers DEF HandOverRace, handoffShipment, HandOver, packingReady
<1>26. ASSUME NEW p \in Plans, RecordCustody(p) PROVE Reconciled'
  BY <1>26, <1>0
  DEF RecordCustody, TypeOK, RefundedReconciliation, OpenRefunds,
      taven_reconcile_shipment_plan_slot_terminal_state,
      taven_reconcile_customer_cancellation_refund_order
<1>27. ASSUME NEW p \in Plans, ReconcilePaid(p) PROVE Reconciled'
  BY <1>27, CommitTriggers DEF ReconcilePaid, ReconcileWith, HandOver, packingReady
<1>28. ASSUME NEW p \in Plans, ReconcileUnpaid(p) PROVE Reconciled'
  BY <1>28, CommitTriggers DEF ReconcileUnpaid, ReconcileWith, HandOver, packingReady
<1>29. ASSUME NEW p \in Plans, ApplyDelivery(p) PROVE Reconciled'
  BY <1>29, CommitTriggers DEF ApplyDelivery, CarrierMoves
<1>30. ASSUME NEW p \in Plans, NEW to \in {"LOST", "RETURNED"}, RemedyFails(p, to)
       PROVE  Reconciled'
  BY <1>30, CommitTriggers DEF RemedyFails, CarrierMoves
<1>31. ASSUME NEW p \in Plans, NEW to \in {"LOST", "RETURNED"}, IncidentOpens(p, to)
       PROVE  Reconciled'
  BY <1>31, CommitTriggers DEF IncidentOpens, CarrierMoves
<1>32. ASSUME NEW p \in Plans, ApplyProgress(p) PROVE Reconciled'
  BY <1>32, CommitTriggers DEF ApplyProgress, CarrierMoves
<1>33. ASSUME NEW p \in Plans, OpenClaim(p) PROVE Reconciled'
  BY <1>33, <1>0
  DEF OpenClaim, TypeOK, RefundedReconciliation, OpenRefunds,
      taven_reconcile_shipment_plan_slot_terminal_state,
      taven_reconcile_customer_cancellation_refund_order
<1>34. ASSUME NEW p \in Plans, NEW end \in {"RESOLVED_REJECTED", "WITHDRAWN"}, CloseClaim(p, end)
       PROVE  Reconciled'
  BY <1>34, <1>0
  DEF CloseClaim, TypeOK, RefundedReconciliation, OpenRefunds,
      taven_reconcile_shipment_plan_slot_terminal_state,
      taven_reconcile_customer_cancellation_refund_order
<1>35. ASSUME NEW p \in Plans, Reprint(p) PROVE Reconciled'
  BY <1>35, CommitTriggers DEF Reprint, Remedy
<1>36. ASSUME NEW p \in Plans, handoffReshipment(p) PROVE Reconciled'
  BY <1>36, CommitTriggers DEF handoffReshipment, Remedy
<1>37. ASSUME NEW p \in Plans, refundClaim(p) PROVE Reconciled'
  BY <1>37, <1>0
  DEF refundClaim, CreditParcel, TypeOK, RefundedReconciliation, OpenRefunds,
      taven_reconcile_shipment_plan_slot_terminal_state,
      taven_reconcile_customer_cancellation_refund_order
<1>38. ASSUME NEW p \in Plans, dispatchRefund(p) PROVE Reconciled'
  BY <1>38, <1>0
  DEF dispatchRefund, TypeOK, RefundedReconciliation, OpenRefunds,
      taven_reconcile_shipment_plan_slot_terminal_state,
      taven_reconcile_customer_cancellation_refund_order
<1>39. ASSUME NEW p \in Plans, RefundArrives(p) PROVE Reconciled'
  BY <1>39, CommitTriggers DEF RefundArrives, RefundSucceeded
<1>40. ASSUME NEW p \in Plans, RefundFails(p) PROVE Reconciled'
  BY <1>40, <1>0
  DEF RefundFails, TypeOK, RefundedReconciliation, OpenRefunds,
      taven_reconcile_shipment_plan_slot_terminal_state,
      taven_reconcile_customer_cancellation_refund_order
<1>41. ASSUME NEW p \in Plans, retryRefund(p) PROVE Reconciled'
  BY <1>41, <1>0
  DEF retryRefund, TypeOK, RefundedReconciliation, OpenRefunds,
      taven_reconcile_shipment_plan_slot_terminal_state,
      taven_reconcile_customer_cancellation_refund_order
<1>42. ASSUME CancelVoids PROVE Reconciled'
  BY <1>42, CommitTriggers DEF CancelVoids, VoidLiveLabels
<1>43. ASSUME NEW gone \in SUBSET Plans, NEW owed \in SUBSET Slots, EndOrder(gone, owed)
       PROVE  Reconciled'
  BY <1>43, CommitTriggers
  DEF EndOrder, finalizeCancellation, voidOpenBalancePayments, Closed, UnfinishedJobs
<1>44. ASSUME completeOrder PROVE Reconciled'
  BY <1>44, CommitTriggers DEF completeOrder
<1>45. ASSUME CancellationMoves PROVE Reconciled'
  BY <1>45, <1>0
  DEF CancellationMoves, TypeOK, RefundedReconciliation, OpenRefunds,
      taven_reconcile_shipment_plan_slot_terminal_state,
      taven_reconcile_customer_cancellation_refund_order
<1>46. ASSUME createBalancePayment PROVE Reconciled'
  BY <1>46, <1>0
  DEF createBalancePayment, TypeOK, RefundedReconciliation, OpenRefunds,
      taven_reconcile_shipment_plan_slot_terminal_state,
      taven_reconcile_customer_cancellation_refund_order
<1>47. ASSUME BalanceEvent PROVE Reconciled'
  BY <1>47, CommitTriggers DEF BalanceEvent
<1> QED
  BY <1>1, <1>2, <1>3, <1>4, <1>5, <1>6, <1>7, <1>8, <1>9, <1>10, <1>11, <1>12, <1>13, <1>14,
     <1>15, <1>16, <1>17, <1>18, <1>19, <1>20, <1>21, <1>22, <1>23, <1>24, <1>25, <1>26, <1>27,
     <1>28, <1>29, <1>30, <1>31, <1>32, <1>33, <1>34, <1>35, <1>36, <1>37, <1>38, <1>39, <1>40,
     <1>41, <1>42, <1>43, <1>44, <1>45, <1>46, <1>47 DEF Branches

\* The two ways an order and its phase agree.
LEMMA FollowsCases == PhaseFollowsOrder <=> Follows \/ Ahead
BY DEF PhaseFollowsOrder, Follows, Ahead

\* The same after a step.
LEMMA FollowsCasesNext == PhaseFollowsOrder' <=> Follows' \/ Ahead'
BY FollowsCases, PTL

\* The trigger of the post-confirmation lifecycle lets an order commit only
\* with the phase it names.
LEMMA CommitPhase ==
  ASSUME Commit, order' \in OrderStatus,
         order' \notin {"CONFIRMED", "AWAITING_BALANCE", "SHIPPED", "REFUNDED"}
  PROVE  Follows'
BY DEF Commit, taven_reconcile_order_post_confirmation_lifecycle, OrderGraph, OrderStatus,
       Follows

\* The same trigger lets an order commit as cancelled only with every parcel
\* given up.
LEMMA CommitCancelled ==
  ASSUME Commit, order' = "CANCELLED"
  PROVE  \A p \in Plans' : outcome'[p] = "CANCELLED" /\ leaf'[p] \in {"NONE", "CANCELLED"}
BY DEF Commit, taven_reconcile_order_post_confirmation_lifecycle, OrderGraph, ClosedGraph,
       Leaves, Outcomes

\* Sums of money are natural numbers, at most the price of the order.
LEMMA WorthIsNat ==
  ASSUME NEW P
  PROVE  Worth(P) \in Nat /\ Worth(P) <= Cardinality(Slots) /\ Cardinality(Slots) \in Nat
<1>1. IsFiniteSet(Slots) BY BoundsAssumption
<1>2. {s \in Slots : PlanOf[s] \in P} \subseteq Slots OBVIOUS
<1>3. /\ IsFiniteSet({s \in Slots : PlanOf[s] \in P})
      /\ Cardinality({s \in Slots : PlanOf[s] \in P}) <= Cardinality(Slots)
  BY <1>1, <1>2, FS_Subset
<1> QED BY <1>1, <1>3, FS_CardinalityType DEF Worth

\* No parcel, no money.
LEMMA WorthOfNone ==
  ASSUME NEW P, \A p \in Plans : p \notin P PROVE Worth(P) = 0
<1>1. {s \in Slots : PlanOf[s] \in P} = {} BY SlotPlan
<1> QED BY <1>1, FS_EmptySet DEF Worth

\* An order that sent nothing and is not cancelled is not being paid back.
LEMMA NoCancellationRefund ==
  ASSUME TypeOK, ParcelsSound, RefundsSound, taven_reconcile_customer_cancellation_refund_order,
         ~Gone, order # "CANCELLED"
  PROVE  cancellation \notin OpenRefunds \cup {"SUCCEEDED"}
BY DEF ParcelsSound, ParcelSound, RefundsSound, RefundSound, Gone,
       taven_reconcile_customer_cancellation_refund_order, RefundedReconciliation, TypeOK,
       OrderStatus, ParcelGone, CancelledLeaf, RefundTerms, RefundedScan, RefundedAlone

\* An order that waits for its balance and is funded has had it captured:
\* nothing was credited, and a deposit alone is less than the price.
LEMMA AwaitingFunded ==
  ASSUME TypeOK, ParcelsSound, RefundsSound, taven_reconcile_customer_cancellation_refund_order,
         order = "AWAITING_BALANCE", phase = "QC_PASSED", SplitPayment,
         customerFunded \/ financialReady
  PROVE  balance = "CAPTURED"
<1>1. ~Gone BY DEF Gone
<1>2. cancellation # "SUCCEEDED" BY <1>1, NoCancellationRefund
<1>3. \A p \in Plans : p \notin Credited
  BY <1>1 DEF Credited, ParcelsSound, ParcelSound, ParcelGone, CancelledLeaf
<1>4. Worth(Credited) = 0 BY <1>3, WorthOfNone
<1>5. Worth(Paid) \in Nat /\ Cardinality(Slots) \in Nat BY WorthIsNat
<1>6. Cardinality(Slots) > 1
  <2>1. shape \in Shapes BY DEF TypeOK
  <2>2. shape.split BY DEF SplitPayment
  <2> QED BY <2>1, <2>2, ShapesAssumption
<1>7. refunded = Worth(Paid) BY <1>2 DEF refunded
<1>8. contractTotal = Cardinality(Slots) BY <1>4, <1>5 DEF contractTotal
<1>9. captured >= refunded + contractTotal
  BY <1>5, <1>7, <1>8 DEF customerFunded, financialReady, captured
<1> QED BY <1>5, <1>6, <1>7, <1>8, <1>9 DEF captured

\* Every branch leaves order and phase in agreement.
LEMMA PhaseStep ==
  ASSUME TypeOK, TypeOK', AggregateSound, ParcelsSound, RefundsSound,
         taven_reconcile_customer_cancellation_refund_order, Branches
  PROVE  PhaseFollowsOrder'
<1> USE DEF aggregate, production, parcels, carrier, claims, scoped, money, Move
<1>0. shape' = shape /\ Plans' = Plans /\ PlanOf' = PlanOf
  BY BranchShape
<1>a. Follows \/ Ahead
  BY FollowsCases DEF AggregateSound
<1>b. order' \in OrderStatus
  BY DEF TypeOK
<1>1. ASSUME NEW s \in Slots, acceptJob(s) PROVE Follows' \/ Ahead'
  BY <1>1, <1>0, <1>a, <1>b, CommitPhase
  DEF acceptJob, SetJob, Follows, Ahead, Leaves, Custody, LiveLabels, TypeOK
<1>2. ASSUME NEW s \in Slots, startPrinting(s) PROVE Follows' \/ Ahead'
  BY <1>2, <1>0, <1>a, <1>b, CommitPhase
  DEF startPrinting, SetJob, Follows, Ahead, Leaves, Custody, LiveLabels, TypeOK
<1>3. ASSUME NEW s \in Slots, finishPrinting(s) PROVE Follows' \/ Ahead'
  BY <1>3, <1>0, <1>a, <1>b, CommitPhase
  DEF finishPrinting, SetJob, Follows, Ahead, Leaves, Custody, LiveLabels, TypeOK
<1>4. ASSUME NEW s \in Slots, submitQc(s) PROVE Follows' \/ Ahead'
  BY <1>4, <1>0, <1>a, <1>b, CommitPhase
  DEF submitQc, SetJob, Follows, Ahead, Leaves, Custody, LiveLabels, TypeOK
<1>5. ASSUME NEW s \in Slots, approveQc(s) PROVE Follows' \/ Ahead'
  BY <1>5, <1>0, <1>a, <1>b, CommitPhase
  DEF approveQc, SetJob, Follows, Ahead, Leaves, Custody, LiveLabels, TypeOK
<1>6. ASSUME NEW s \in Slots, packJob(s) PROVE Follows' \/ Ahead'
  BY <1>6, <1>0, <1>a, <1>b, CommitPhase
  DEF packJob, SetJob, markReadyToShipWhenFinanciallyReady, Follows, Ahead, Leaves, Custody,
      LiveLabels, TypeOK
<1>7. ASSUME NEW s \in Slots, failJob(s) PROVE Follows' \/ Ahead'
  BY <1>7, <1>0, <1>a, <1>b, CommitPhase
  DEF failJob, FailJobs, cancelProductionFailureParcelSiblings, StopProduction,
      voidOpenBalancePayments, Closed, FailedStatus, UnfinishedJobs, Follows, Ahead, Leaves,
      Custody, LiveLabels, TypeOK
<1>8. ASSUME NEW s \in Slots, FailReprintLabelled(s) PROVE Follows' \/ Ahead'
  BY <1>8, <1>0, <1>a, <1>b, CommitPhase
  DEF FailReprintLabelled, FailJobs, cancelProductionFailureParcelSiblings, StopProduction,
      voidOpenBalancePayments, Closed, FailedStatus, UnfinishedJobs, Siblings, RequestVoid,
      Follows, Ahead, Leaves, Custody, LiveLabels, TypeOK
<1>9. ASSUME NEW s \in Slots, FailReprintPlanned(s) PROVE Follows' \/ Ahead'
  BY <1>9, <1>0, <1>a, <1>b, CommitPhase
  DEF FailReprintPlanned, FailJobs, cancelProductionFailureParcelSiblings, StopProduction,
      voidOpenBalancePayments, Closed, FailedStatus, UnfinishedJobs, Siblings, CancelParcel,
      Follows, Ahead, Leaves, Custody, LiveLabels, TypeOK
<1>10. ASSUME NEW s \in Slots, AbandonLabelled(s) PROVE Follows' \/ Ahead'
  BY <1>10, <1>0, <1>a, <1>b, CommitPhase
  DEF AbandonLabelled, FailJobs, cancelProductionFailureParcelSiblings, StopProduction,
      voidOpenBalancePayments, Closed, FailedStatus, UnfinishedJobs, Siblings, RequestVoid,
      Follows, Ahead, Leaves, Custody, LiveLabels, TypeOK
<1>11. ASSUME NEW s \in Slots, AbandonPlanned(s) PROVE Follows' \/ Ahead'
  BY <1>11, <1>0, <1>a, <1>b, CommitPhase
  DEF AbandonPlanned, FailJobs, cancelProductionFailureParcelSiblings, StopProduction,
      voidOpenBalancePayments, Closed, FailedStatus, UnfinishedJobs, Siblings, CancelParcel,
      CreditParcel, Follows, Ahead, Leaves, Custody, LiveLabels, TypeOK
<1>12. ASSUME NEW s \in Slots, createReplacement(s) PROVE Follows' \/ Ahead'
  BY <1>12, <1>0, <1>a, <1>b, CommitPhase
  DEF createReplacement, Follows, Ahead, Leaves, Custody, LiveLabels, TypeOK
<1>13. ASSUME NEW s \in Slots, ExpireLabelled(s) PROVE Follows' \/ Ahead'
  BY <1>13, <1>0, <1>a, <1>b, CommitPhase
  DEF ExpireLabelled, ExpireSiblings, cancelProductionFailureParcelSiblings, Closed,
      UnfinishedJobs, Siblings, RequestVoid, Follows, Ahead, Leaves, Custody, LiveLabels, TypeOK
<1>14. ASSUME NEW s \in Slots, ExpirePlanned(s) PROVE Follows' \/ Ahead'
  BY <1>14, <1>0, <1>a, <1>b, CommitPhase
  DEF ExpirePlanned, ExpireSiblings, cancelProductionFailureParcelSiblings, Closed,
      UnfinishedJobs, Siblings, CancelParcel, CreditParcel, Follows, Ahead, Leaves, Custody,
      LiveLabels, TypeOK
<1>15. ASSUME NEW s \in Slots, ExpireVoids(s) PROVE Follows' \/ Ahead'
  BY <1>15, <1>0, <1>a, <1>b, CommitPhase
  DEF ExpireVoids, VoidLiveLabels, Follows, Ahead, Leaves, Custody, LiveLabels, TypeOK
<1>16. ASSUME NEW p \in Plans, createShipment(p) PROVE Follows' \/ Ahead'
  BY <1>16, <1>0, <1>a, <1>b, CommitPhase
  DEF createShipment, Follows, Ahead, Leaves, Custody, LiveLabels, TypeOK
<1>17. ASSUME NEW p \in Plans, labelShipment(p) PROVE Follows' \/ Ahead'
  BY <1>17, <1>0, <1>a, <1>b, CommitPhase
  DEF labelShipment, markReadyToShipWhenFinanciallyReady, Follows, Ahead, Leaves, Custody,
      LiveLabels, TypeOK
<1>18. ASSUME NEW p \in Plans, VoidReprintLabel(p) PROVE Follows' \/ Ahead'
  BY <1>18, <1>0, <1>a, <1>b, CommitPhase
  DEF VoidReprintLabel, VoidReprint, CancelParcel, Follows, Ahead, Leaves, Custody, LiveLabels,
      TypeOK
<1>19. ASSUME NEW p \in Plans, NEW s \in Slots, VoidRefundsFailure(p, s)
       PROVE  Follows' \/ Ahead'
  BY <1>19, <1>0, <1>a, <1>b, CommitPhase
  DEF VoidRefundsFailure, VoidOne, CancelParcel, CreditParcel, Follows, Ahead, Leaves, Custody,
      LiveLabels, TypeOK
<1>20. ASSUME NEW p \in Plans, VoidCancelsParcel(p) PROVE Follows' \/ Ahead'
  BY <1>20, <1>0, <1>a, <1>b, CommitPhase
  DEF VoidCancelsParcel, VoidOne, finalizePartialCancellation, CancelParcel, CreditParcel,
      Follows, Ahead, Leaves, Custody, LiveLabels, TypeOK
<1>21. ASSUME NEW p \in Plans, VoidOnly(p) PROVE Follows' \/ Ahead'
  BY <1>21, <1>0, <1>a, <1>b, CommitPhase
  DEF VoidOnly, Follows, Ahead, Leaves, Custody, LiveLabels, TypeOK
<1>22. ASSUME NEW p \in Plans, CarrierAccepts(p) PROVE Follows' \/ Ahead'
  BY <1>22, <1>0, <1>a, <1>b
  DEF CarrierAccepts, Follows, Ahead, Leaves, Custody, LiveLabels, TypeOK
<1>23. ASSUME NEW p \in Plans, CarrierVoids(p) PROVE Follows' \/ Ahead'
  BY <1>23, <1>0, <1>a, <1>b
  DEF CarrierVoids, Follows, Ahead, Leaves, Custody, LiveLabels, TypeOK
<1>24. ASSUME NEW p \in Plans, HandOverOrdinary(p) PROVE Follows' \/ Ahead'
  <2>1. CASE order = "AWAITING_BALANCE" /\ phase = "QC_PASSED"
    <3>1. SplitPayment BY <2>1 DEF AggregateSound, AwaitingSound
    <3>2. customerFunded \/ financialReady BY <1>24 DEF HandOverOrdinary, handoffShipment
    <3>3. balance = "CAPTURED" BY <2>1, <3>1, <3>2, AwaitingFunded
    <3>4. \E q \in Plans : q # p
      <4>1. SUFFICES ASSUME Plans = {p} PROVE FALSE
        OBVIOUS
      <4>2. \A s \in Slots : job[s] = "PACKED"
        BY <1>24, <4>1, SlotPlan DEF HandOverOrdinary, handoffShipment, packingReady, SlotsOf
      <4>3. leaf[p] \in LiveLabels BY <1>24 DEF HandOverOrdinary, handoffShipment
      <4> QED BY <2>1, <3>3, <4>1, <4>2, <4>3 DEF AggregateSound, AwaitingSound
    <3>5. /\ order' = order /\ balance' = balance /\ phase' = "SHIPPED"
          /\ leaf' = [leaf EXCEPT ![p] = "HANDED_OVER"]
      BY <1>24, <2>1 DEF HandOverOrdinary, handoffShipment, HandOver
    <3>6. Leaves(Custody)' # {} BY <1>0, <3>5 DEF Leaves, Custody, TypeOK
    <3> QED BY <1>0, <2>1, <3>3, <3>4, <3>5, <3>6 DEF Ahead
  <2>2. CASE ~(order = "AWAITING_BALANCE" /\ phase = "QC_PASSED")
    BY <1>0, <1>a, <1>b, <1>24, <2>2, CommitPhase
    DEF HandOverOrdinary, handoffShipment, HandOver, Follows, Ahead, Leaves, Custody,
        LiveLabels, TypeOK
  <2> QED BY <2>1, <2>2
<1>25. ASSUME NEW p \in Plans, HandOverRace(p) PROVE Follows' \/ Ahead'
  <2>1. CASE order = "AWAITING_BALANCE" /\ phase = "QC_PASSED"
    <3>1. SplitPayment BY <2>1 DEF AggregateSound, AwaitingSound
    <3>2. customerFunded \/ financialReady BY <1>25 DEF HandOverRace, handoffShipment
    <3>3. balance = "CAPTURED" BY <2>1, <3>1, <3>2, AwaitingFunded
    <3>4. \E q \in Plans : q # p
      <4>1. SUFFICES ASSUME Plans = {p} PROVE FALSE
        OBVIOUS
      <4>2. \A s \in Slots : job[s] = "PACKED"
        BY <1>25, <4>1, SlotPlan DEF HandOverRace, handoffShipment, packingReady, SlotsOf
      <4>3. leaf[p] \in LiveLabels BY <1>25 DEF HandOverRace, handoffShipment
      <4> QED BY <2>1, <3>3, <4>1, <4>2, <4>3 DEF AggregateSound, AwaitingSound
    <3>5. /\ order' = order /\ balance' = balance /\ phase' = "SHIPPED"
          /\ leaf' = [leaf EXCEPT ![p] = "HANDED_OVER"]
      BY <1>25, <2>1 DEF HandOverRace, handoffShipment, HandOver
    <3>6. Leaves(Custody)' # {} BY <1>0, <3>5 DEF Leaves, Custody, TypeOK
    <3> QED BY <1>0, <2>1, <3>3, <3>4, <3>5, <3>6 DEF Ahead
  <2>2. CASE ~(order = "AWAITING_BALANCE" /\ phase = "QC_PASSED")
    BY <1>0, <1>a, <1>b, <1>25, <2>2, CommitPhase
    DEF HandOverRace, handoffShipment, HandOver, Follows, Ahead, Leaves, Custody, LiveLabels,
        TypeOK
  <2> QED BY <2>1, <2>2
<1>26. ASSUME NEW p \in Plans, RecordCustody(p) PROVE Follows' \/ Ahead'
  BY <1>26, <1>0, <1>a, <1>b
  DEF RecordCustody, Follows, Ahead, Leaves, Custody, LiveLabels, TypeOK
<1>27. ASSUME NEW p \in Plans, ReconcilePaid(p) PROVE Follows' \/ Ahead'
  BY <1>27, <1>0, <1>a, <1>b, CommitPhase
  DEF ReconcilePaid, ReconcileWith, HandOver, packingReady, Follows, Ahead, Leaves, Custody,
      LiveLabels, TypeOK
<1>28. ASSUME NEW p \in Plans, ReconcileUnpaid(p) PROVE Follows' \/ Ahead'
  BY <1>28, <1>0, <1>a, <1>b, CommitPhase
  DEF ReconcileUnpaid, ReconcileWith, HandOver, packingReady, Follows, Ahead, Leaves, Custody,
      LiveLabels, TypeOK
<1>29. ASSUME NEW p \in Plans, ApplyDelivery(p) PROVE Follows' \/ Ahead'
  BY <1>29, <1>0, <1>a, <1>b, CommitPhase
  DEF ApplyDelivery, CarrierMoves, Follows, Ahead, Leaves, Custody, LiveLabels, TypeOK
<1>30. ASSUME NEW p \in Plans, NEW to \in {"LOST", "RETURNED"}, RemedyFails(p, to)
       PROVE  Follows' \/ Ahead'
  BY <1>30, <1>0, <1>a, <1>b, CommitPhase
  DEF RemedyFails, CarrierMoves, Follows, Ahead, Leaves, Custody, LiveLabels, TypeOK
<1>31. ASSUME NEW p \in Plans, NEW to \in {"LOST", "RETURNED"}, IncidentOpens(p, to)
       PROVE  Follows' \/ Ahead'
  BY <1>31, <1>0, <1>a, <1>b, CommitPhase
  DEF IncidentOpens, CarrierMoves, Follows, Ahead, Leaves, Custody, LiveLabels, TypeOK
<1>32. ASSUME NEW p \in Plans, ApplyProgress(p) PROVE Follows' \/ Ahead'
  BY <1>32, <1>0, <1>a, <1>b, CommitPhase
  DEF ApplyProgress, CarrierMoves, Follows, Ahead, Leaves, Custody, LiveLabels, TypeOK
<1>33. ASSUME NEW p \in Plans, OpenClaim(p) PROVE Follows' \/ Ahead'
  BY <1>33, <1>0, <1>a, <1>b DEF OpenClaim, Follows, Ahead, Leaves, Custody, LiveLabels, TypeOK
<1>34. ASSUME NEW p \in Plans, NEW end \in {"RESOLVED_REJECTED", "WITHDRAWN"}, CloseClaim(p, end)
       PROVE  Follows' \/ Ahead'
  BY <1>34, <1>0, <1>a, <1>b DEF CloseClaim, Follows, Ahead, Leaves, Custody, LiveLabels, TypeOK
<1>35. ASSUME NEW p \in Plans, Reprint(p) PROVE Follows' \/ Ahead'
  BY <1>35, <1>0, <1>a, <1>b, CommitPhase
  DEF Reprint, Remedy, Follows, Ahead, Leaves, Custody, LiveLabels, TypeOK
<1>36. ASSUME NEW p \in Plans, handoffReshipment(p) PROVE Follows' \/ Ahead'
  BY <1>36, <1>0, <1>a, <1>b, CommitPhase
  DEF handoffReshipment, Remedy, Follows, Ahead, Leaves, Custody, LiveLabels, TypeOK
<1>37. ASSUME NEW p \in Plans, refundClaim(p) PROVE Follows' \/ Ahead'
  BY <1>37, <1>0, <1>a, <1>b
  DEF refundClaim, CreditParcel, Follows, Ahead, Leaves, Custody, LiveLabels, TypeOK
<1>38. ASSUME NEW p \in Plans, dispatchRefund(p) PROVE Follows' \/ Ahead'
  BY <1>38, <1>0, <1>a, <1>b
  DEF dispatchRefund, Follows, Ahead, Leaves, Custody, LiveLabels, TypeOK
<1>39. ASSUME NEW p \in Plans, RefundArrives(p) PROVE Follows' \/ Ahead'
  BY <1>39, <1>0, <1>a, <1>b, CommitPhase
  DEF RefundArrives, RefundSucceeded, Follows, Ahead, Leaves, Custody, LiveLabels, TypeOK
<1>40. ASSUME NEW p \in Plans, RefundFails(p) PROVE Follows' \/ Ahead'
  BY <1>40, <1>0, <1>a, <1>b
  DEF RefundFails, Follows, Ahead, Leaves, Custody, LiveLabels, TypeOK
<1>41. ASSUME NEW p \in Plans, retryRefund(p) PROVE Follows' \/ Ahead'
  BY <1>41, <1>0, <1>a, <1>b
  DEF retryRefund, Follows, Ahead, Leaves, Custody, LiveLabels, TypeOK
<1>42. ASSUME CancelVoids PROVE Follows' \/ Ahead'
  BY <1>42, <1>0, <1>a, <1>b, CommitPhase
  DEF CancelVoids, VoidLiveLabels, Follows, Ahead, Leaves, Custody, LiveLabels, TypeOK
<1>43. ASSUME NEW gone \in SUBSET Plans, NEW owed \in SUBSET Slots, EndOrder(gone, owed)
       PROVE  Follows' \/ Ahead'
  BY <1>43, <1>0, <1>a, <1>b, CommitPhase
  DEF EndOrder, finalizeCancellation, voidOpenBalancePayments, Closed, UnfinishedJobs, Follows,
      Ahead, Leaves, Custody, LiveLabels, TypeOK
<1>44. ASSUME completeOrder PROVE Follows' \/ Ahead'
  BY <1>44, <1>0, <1>a, <1>b, CommitPhase
  DEF completeOrder, Follows, Ahead, Leaves, Custody, LiveLabels, TypeOK
<1>45. ASSUME CancellationMoves PROVE Follows' \/ Ahead'
  BY <1>45, <1>0, <1>a, <1>b
  DEF CancellationMoves, Follows, Ahead, Leaves, Custody, LiveLabels, TypeOK
<1>46. ASSUME createBalancePayment PROVE Follows' \/ Ahead'
  BY <1>46, <1>0, <1>a, <1>b
  DEF createBalancePayment, Follows, Ahead, Leaves, Custody, LiveLabels, TypeOK
<1>47. ASSUME BalanceEvent PROVE Follows' \/ Ahead'
  BY <1>47, <1>0, <1>a, <1>b, CommitPhase
  DEF BalanceEvent, Follows, Ahead, Leaves, Custody, LiveLabels, TypeOK
<1>c. Follows' \/ Ahead'
  BY <1>1, <1>2, <1>3, <1>4, <1>5, <1>6, <1>7, <1>8, <1>9, <1>10, <1>11, <1>12, <1>13, <1>14,
     <1>15, <1>16, <1>17, <1>18, <1>19, <1>20, <1>21, <1>22, <1>23, <1>24, <1>25, <1>26, <1>27,
     <1>28, <1>29, <1>30, <1>31, <1>32, <1>33, <1>34, <1>35, <1>36, <1>37, <1>38, <1>39, <1>40,
     <1>41, <1>42, <1>43, <1>44, <1>45, <1>46, <1>47 DEF Branches
<1> QED BY <1>c, FollowsCasesNext

\* Every branch keeps what is known of an order that waits for its balance.
LEMMA AwaitingStep ==
  ASSUME TypeOK, AggregateSound, Branches PROVE AwaitingSound'
<1> USE DEF aggregate, production, parcels, carrier, claims, scoped, money, Move, AwaitingSound,
            Follows, Ahead, TypeOK, LiveLabels
<1>0. shape' = shape /\ Plans' = Plans /\ PlanOf' = PlanOf /\ SplitPayment' = SplitPayment
  BY BranchShape
<1>a. AwaitingSound /\ (Follows \/ Ahead)
  BY FollowsCases DEF AggregateSound
<1>1. ASSUME NEW s \in Slots, acceptJob(s) PROVE AwaitingSound'
  BY <1>1, <1>0, <1>a DEF acceptJob, SetJob
<1>2. ASSUME NEW s \in Slots, startPrinting(s) PROVE AwaitingSound'
  BY <1>2, <1>0, <1>a DEF startPrinting, SetJob
<1>3. ASSUME NEW s \in Slots, finishPrinting(s) PROVE AwaitingSound'
  BY <1>3, <1>0, <1>a DEF finishPrinting, SetJob
<1>4. ASSUME NEW s \in Slots, submitQc(s) PROVE AwaitingSound'
  BY <1>4, <1>0, <1>a DEF submitQc, SetJob
<1>5. ASSUME NEW s \in Slots, approveQc(s) PROVE AwaitingSound'
  BY <1>5, <1>0, <1>a DEF approveQc, SetJob
<1>6. ASSUME NEW s \in Slots, packJob(s) PROVE AwaitingSound'
  BY <1>6, <1>0, <1>a, SlotPlan DEF packJob, SetJob, markReadyToShipWhenFinanciallyReady, Packed
<1>7. ASSUME NEW s \in Slots, failJob(s) PROVE AwaitingSound'
  BY <1>7, <1>0, <1>a
  DEF failJob, FailJobs, cancelProductionFailureParcelSiblings, StopProduction,
      voidOpenBalancePayments, Closed, FailedStatus, UnfinishedJobs
<1>8. ASSUME NEW s \in Slots, FailReprintLabelled(s) PROVE AwaitingSound'
  BY <1>8, <1>0, <1>a
  DEF FailReprintLabelled, FailJobs, cancelProductionFailureParcelSiblings, StopProduction,
      voidOpenBalancePayments, Closed, FailedStatus, UnfinishedJobs, Siblings, RequestVoid
<1>9. ASSUME NEW s \in Slots, FailReprintPlanned(s) PROVE AwaitingSound'
  BY <1>9, <1>0, <1>a
  DEF FailReprintPlanned, FailJobs, cancelProductionFailureParcelSiblings, StopProduction,
      voidOpenBalancePayments, Closed, FailedStatus, UnfinishedJobs, Siblings, CancelParcel
<1>10. ASSUME NEW s \in Slots, AbandonLabelled(s) PROVE AwaitingSound'
  BY <1>10, <1>0, <1>a
  DEF AbandonLabelled, FailJobs, cancelProductionFailureParcelSiblings, StopProduction,
      voidOpenBalancePayments, Closed, FailedStatus, UnfinishedJobs, Siblings, RequestVoid
<1>11. ASSUME NEW s \in Slots, AbandonPlanned(s) PROVE AwaitingSound'
  BY <1>11, <1>0, <1>a
  DEF AbandonPlanned, FailJobs, cancelProductionFailureParcelSiblings, StopProduction,
      voidOpenBalancePayments, Closed, FailedStatus, UnfinishedJobs, Siblings, CancelParcel,
      CreditParcel
<1>12. ASSUME NEW s \in Slots, createReplacement(s) PROVE AwaitingSound'
  BY <1>12, <1>0, <1>a DEF createReplacement
<1>13. ASSUME NEW s \in Slots, ExpireLabelled(s) PROVE AwaitingSound'
  BY <1>13, <1>0, <1>a
  DEF ExpireLabelled, ExpireSiblings, cancelProductionFailureParcelSiblings, Closed,
      UnfinishedJobs, Siblings, RequestVoid
<1>14. ASSUME NEW s \in Slots, ExpirePlanned(s) PROVE AwaitingSound'
  BY <1>14, <1>0, <1>a
  DEF ExpirePlanned, ExpireSiblings, cancelProductionFailureParcelSiblings, Closed,
      UnfinishedJobs, Siblings, CancelParcel, CreditParcel
<1>15. ASSUME NEW s \in Slots, ExpireVoids(s) PROVE AwaitingSound'
  BY <1>15, <1>0, <1>a DEF ExpireVoids, VoidLiveLabels
<1>16. ASSUME NEW p \in Plans, createShipment(p) PROVE AwaitingSound'
  BY <1>16, <1>0, <1>a DEF createShipment
<1>17. ASSUME NEW p \in Plans, labelShipment(p) PROVE AwaitingSound'
  BY <1>17, <1>0, <1>a DEF labelShipment, markReadyToShipWhenFinanciallyReady, Packed
<1>18. ASSUME NEW p \in Plans, VoidReprintLabel(p) PROVE AwaitingSound'
  BY <1>18, <1>0, <1>a DEF VoidReprintLabel, VoidReprint, CancelParcel
<1>19. ASSUME NEW p \in Plans, NEW s \in Slots, VoidRefundsFailure(p, s) PROVE AwaitingSound'
  BY <1>19, <1>0, <1>a DEF VoidRefundsFailure, VoidOne, CancelParcel, CreditParcel
<1>20. ASSUME NEW p \in Plans, VoidCancelsParcel(p) PROVE AwaitingSound'
  BY <1>20, <1>0, <1>a
  DEF VoidCancelsParcel, VoidOne, finalizePartialCancellation, CancelParcel, CreditParcel
<1>21. ASSUME NEW p \in Plans, VoidOnly(p) PROVE AwaitingSound'
  BY <1>21, <1>0, <1>a DEF VoidOnly
<1>22. ASSUME NEW p \in Plans, CarrierAccepts(p) PROVE AwaitingSound'
  BY <1>22, <1>0, <1>a DEF CarrierAccepts
<1>23. ASSUME NEW p \in Plans, CarrierVoids(p) PROVE AwaitingSound'
  BY <1>23, <1>0, <1>a DEF CarrierVoids
<1>24. ASSUME NEW p \in Plans, HandOverOrdinary(p) PROVE AwaitingSound'
  BY <1>24, <1>0, <1>a DEF HandOverOrdinary, handoffShipment, HandOver, packingReady
<1>25. ASSUME NEW p \in Plans, HandOverRace(p) PROVE AwaitingSound'
  BY <1>25, <1>0, <1>a DEF HandOverRace, handoffShipment, HandOver, packingReady
<1>26. ASSUME NEW p \in Plans, RecordCustody(p) PROVE AwaitingSound'
  BY <1>26, <1>0, <1>a DEF RecordCustody
<1>27. ASSUME NEW p \in Plans, ReconcilePaid(p) PROVE AwaitingSound'
  BY <1>27, <1>0, <1>a DEF ReconcilePaid, ReconcileWith, HandOver, packingReady
<1>28. ASSUME NEW p \in Plans, ReconcileUnpaid(p) PROVE AwaitingSound'
  BY <1>28, <1>0, <1>a DEF ReconcileUnpaid, ReconcileWith, HandOver, packingReady
<1>29. ASSUME NEW p \in Plans, ApplyDelivery(p) PROVE AwaitingSound'
  BY <1>29, <1>0, <1>a DEF ApplyDelivery, CarrierMoves
<1>30. ASSUME NEW p \in Plans, NEW to \in {"LOST", "RETURNED"}, RemedyFails(p, to)
       PROVE  AwaitingSound'
  BY <1>30, <1>0, <1>a DEF RemedyFails, CarrierMoves
<1>31. ASSUME NEW p \in Plans, NEW to \in {"LOST", "RETURNED"}, IncidentOpens(p, to)
       PROVE  AwaitingSound'
  <2>1. /\ UNCHANGED <<order, phase, job, balance>>
        /\ leaf[p] = "IN_TRANSIT" /\ leaf' = [leaf EXCEPT ![p] = to]
    BY <1>31 DEF IncidentOpens, CarrierMoves
  <2> QED BY <2>1, <1>0, <1>a
<1>32. ASSUME NEW p \in Plans, ApplyProgress(p) PROVE AwaitingSound'
  BY <1>32, <1>0, <1>a DEF ApplyProgress, CarrierMoves
<1>33. ASSUME NEW p \in Plans, OpenClaim(p) PROVE AwaitingSound'
  BY <1>33, <1>0, <1>a DEF OpenClaim
<1>34. ASSUME NEW p \in Plans, NEW end \in {"RESOLVED_REJECTED", "WITHDRAWN"}, CloseClaim(p, end)
       PROVE  AwaitingSound'
  BY <1>34, <1>0, <1>a DEF CloseClaim
<1>35. ASSUME NEW p \in Plans, Reprint(p) PROVE AwaitingSound'
  BY <1>35, <1>0, <1>a DEF Reprint, Remedy
<1>36. ASSUME NEW p \in Plans, handoffReshipment(p) PROVE AwaitingSound'
  BY <1>36, <1>0, <1>a DEF handoffReshipment, Remedy
<1>37. ASSUME NEW p \in Plans, refundClaim(p) PROVE AwaitingSound'
  BY <1>37, <1>0, <1>a DEF refundClaim, CreditParcel
<1>38. ASSUME NEW p \in Plans, dispatchRefund(p) PROVE AwaitingSound'
  BY <1>38, <1>0, <1>a DEF dispatchRefund
<1>39. ASSUME NEW p \in Plans, RefundArrives(p) PROVE AwaitingSound'
  BY <1>39, <1>0, <1>a DEF RefundArrives, RefundSucceeded
<1>40. ASSUME NEW p \in Plans, RefundFails(p) PROVE AwaitingSound'
  BY <1>40, <1>0, <1>a DEF RefundFails
<1>41. ASSUME NEW p \in Plans, retryRefund(p) PROVE AwaitingSound'
  BY <1>41, <1>0, <1>a DEF retryRefund
<1>42. ASSUME CancelVoids PROVE AwaitingSound'
  BY <1>42, <1>0, <1>a DEF CancelVoids, VoidLiveLabels
<1>43. ASSUME NEW gone \in SUBSET Plans, NEW owed \in SUBSET Slots, EndOrder(gone, owed)
       PROVE  AwaitingSound'
  BY <1>43, <1>0, <1>a
  DEF EndOrder, finalizeCancellation, voidOpenBalancePayments, Closed, UnfinishedJobs
<1>44. ASSUME completeOrder PROVE AwaitingSound'
  BY <1>44, <1>0, <1>a DEF completeOrder
<1>45. ASSUME CancellationMoves PROVE AwaitingSound'
  BY <1>45, <1>0, <1>a DEF CancellationMoves
<1>46. ASSUME createBalancePayment PROVE AwaitingSound'
  BY <1>46, <1>0, <1>a DEF createBalancePayment
<1>47. ASSUME BalanceEvent PROVE AwaitingSound'
  BY <1>47, <1>0, <1>a
  DEF BalanceEvent, Packed, taven_reconcile_balance_payment_readiness, Leaves
<1> QED
  BY <1>1, <1>2, <1>3, <1>4, <1>5, <1>6, <1>7, <1>8, <1>9, <1>10, <1>11, <1>12, <1>13, <1>14,
     <1>15, <1>16, <1>17, <1>18, <1>19, <1>20, <1>21, <1>22, <1>23, <1>24, <1>25, <1>26, <1>27,
     <1>28, <1>29, <1>30, <1>31, <1>32, <1>33, <1>34, <1>35, <1>36, <1>37, <1>38, <1>39, <1>40,
     <1>41, <1>42, <1>43, <1>44, <1>45, <1>46, <1>47 DEF Branches

\* A cancelled order stays given up, but for the scan that takes it back.
LEMMA CancelledStep ==
  ASSUME TypeOK, AggregateSound, Branches PROVE CancelledSound'
<1> USE DEF aggregate, production, parcels, carrier, claims, scoped, money, Move, CancelledSound
<1>0. shape' = shape /\ Plans' = Plans /\ PlanOf' = PlanOf /\ SplitPayment' = SplitPayment
  BY BranchShape
<1>a. CancelledSound
  BY DEF AggregateSound
<1>1. ASSUME NEW s \in Slots, acceptJob(s) PROVE CancelledSound'
  BY <1>1, CommitCancelled DEF acceptJob, SetJob
<1>2. ASSUME NEW s \in Slots, startPrinting(s) PROVE CancelledSound'
  BY <1>2, CommitCancelled DEF startPrinting, SetJob
<1>3. ASSUME NEW s \in Slots, finishPrinting(s) PROVE CancelledSound'
  BY <1>3, CommitCancelled DEF finishPrinting, SetJob
<1>4. ASSUME NEW s \in Slots, submitQc(s) PROVE CancelledSound'
  BY <1>4, CommitCancelled DEF submitQc, SetJob
<1>5. ASSUME NEW s \in Slots, approveQc(s) PROVE CancelledSound'
  BY <1>5, CommitCancelled DEF approveQc, SetJob
<1>6. ASSUME NEW s \in Slots, packJob(s) PROVE CancelledSound'
  BY <1>6, CommitCancelled DEF packJob, SetJob, markReadyToShipWhenFinanciallyReady
<1>7. ASSUME NEW s \in Slots, failJob(s) PROVE CancelledSound'
  BY <1>7, CommitCancelled
  DEF failJob, FailJobs, cancelProductionFailureParcelSiblings, StopProduction,
      voidOpenBalancePayments, Closed, FailedStatus, UnfinishedJobs
<1>8. ASSUME NEW s \in Slots, FailReprintLabelled(s) PROVE CancelledSound'
  BY <1>8, CommitCancelled
  DEF FailReprintLabelled, FailJobs, cancelProductionFailureParcelSiblings, StopProduction,
      voidOpenBalancePayments, Closed, FailedStatus, UnfinishedJobs, Siblings, RequestVoid
<1>9. ASSUME NEW s \in Slots, FailReprintPlanned(s) PROVE CancelledSound'
  BY <1>9, CommitCancelled
  DEF FailReprintPlanned, FailJobs, cancelProductionFailureParcelSiblings, StopProduction,
      voidOpenBalancePayments, Closed, FailedStatus, UnfinishedJobs, Siblings, CancelParcel
<1>10. ASSUME NEW s \in Slots, AbandonLabelled(s) PROVE CancelledSound'
  BY <1>10, CommitCancelled
  DEF AbandonLabelled, FailJobs, cancelProductionFailureParcelSiblings, StopProduction,
      voidOpenBalancePayments, Closed, FailedStatus, UnfinishedJobs, Siblings, RequestVoid
<1>11. ASSUME NEW s \in Slots, AbandonPlanned(s) PROVE CancelledSound'
  BY <1>11, CommitCancelled
  DEF AbandonPlanned, FailJobs, cancelProductionFailureParcelSiblings, StopProduction,
      voidOpenBalancePayments, Closed, FailedStatus, UnfinishedJobs, Siblings, CancelParcel,
      CreditParcel
<1>12. ASSUME NEW s \in Slots, createReplacement(s) PROVE CancelledSound'
  BY <1>12, CommitCancelled DEF createReplacement
<1>13. ASSUME NEW s \in Slots, ExpireLabelled(s) PROVE CancelledSound'
  BY <1>13, CommitCancelled
  DEF ExpireLabelled, ExpireSiblings, cancelProductionFailureParcelSiblings, Closed,
      UnfinishedJobs, Siblings, RequestVoid
<1>14. ASSUME NEW s \in Slots, ExpirePlanned(s) PROVE CancelledSound'
  BY <1>14, CommitCancelled
  DEF ExpirePlanned, ExpireSiblings, cancelProductionFailureParcelSiblings, Closed,
      UnfinishedJobs, Siblings, CancelParcel, CreditParcel
<1>15. ASSUME NEW s \in Slots, ExpireVoids(s) PROVE CancelledSound'
  BY <1>15, CommitCancelled DEF ExpireVoids, VoidLiveLabels
<1>16. ASSUME NEW p \in Plans, createShipment(p) PROVE CancelledSound'
  BY <1>16, CommitCancelled DEF createShipment
<1>17. ASSUME NEW p \in Plans, labelShipment(p) PROVE CancelledSound'
  BY <1>17, CommitCancelled DEF labelShipment, markReadyToShipWhenFinanciallyReady
<1>18. ASSUME NEW p \in Plans, VoidReprintLabel(p) PROVE CancelledSound'
  BY <1>18, CommitCancelled DEF VoidReprintLabel, VoidReprint, CancelParcel
<1>19. ASSUME NEW p \in Plans, NEW s \in Slots, VoidRefundsFailure(p, s) PROVE CancelledSound'
  BY <1>19, CommitCancelled DEF VoidRefundsFailure, VoidOne, CancelParcel, CreditParcel
<1>20. ASSUME NEW p \in Plans, VoidCancelsParcel(p) PROVE CancelledSound'
  BY <1>20, CommitCancelled
  DEF VoidCancelsParcel, VoidOne, finalizePartialCancellation, CancelParcel, CreditParcel
<1>21. ASSUME NEW p \in Plans, VoidOnly(p) PROVE CancelledSound'
  BY <1>21, CommitCancelled DEF VoidOnly
<1>22. ASSUME NEW p \in Plans, CarrierAccepts(p) PROVE CancelledSound'
  BY <1>22, <1>0, <1>a DEF CarrierAccepts, Follows, TypeOK
<1>23. ASSUME NEW p \in Plans, CarrierVoids(p) PROVE CancelledSound'
  BY <1>23, <1>0, <1>a DEF CarrierVoids, Follows, TypeOK
<1>24. ASSUME NEW p \in Plans, HandOverOrdinary(p) PROVE CancelledSound'
  BY <1>24, CommitCancelled DEF HandOverOrdinary, handoffShipment, HandOver, packingReady
<1>25. ASSUME NEW p \in Plans, HandOverRace(p) PROVE CancelledSound'
  BY <1>25, CommitCancelled DEF HandOverRace, handoffShipment, HandOver, packingReady
<1>26. ASSUME NEW p \in Plans, RecordCustody(p) PROVE CancelledSound'
  BY <1>26, <1>0, <1>a DEF RecordCustody, Follows, TypeOK
<1>27. ASSUME NEW p \in Plans, ReconcilePaid(p) PROVE CancelledSound'
  BY <1>27, CommitCancelled DEF ReconcilePaid, ReconcileWith, HandOver, packingReady
<1>28. ASSUME NEW p \in Plans, ReconcileUnpaid(p) PROVE CancelledSound'
  BY <1>28, CommitCancelled DEF ReconcileUnpaid, ReconcileWith, HandOver, packingReady
<1>29. ASSUME NEW p \in Plans, ApplyDelivery(p) PROVE CancelledSound'
  BY <1>29, CommitCancelled DEF ApplyDelivery, CarrierMoves
<1>30. ASSUME NEW p \in Plans, NEW to \in {"LOST", "RETURNED"}, RemedyFails(p, to)
       PROVE  CancelledSound'
  BY <1>30, CommitCancelled DEF RemedyFails, CarrierMoves
<1>31. ASSUME NEW p \in Plans, NEW to \in {"LOST", "RETURNED"}, IncidentOpens(p, to)
       PROVE  CancelledSound'
  BY <1>31, CommitCancelled DEF IncidentOpens, CarrierMoves
<1>32. ASSUME NEW p \in Plans, ApplyProgress(p) PROVE CancelledSound'
  BY <1>32, CommitCancelled DEF ApplyProgress, CarrierMoves
<1>33. ASSUME NEW p \in Plans, OpenClaim(p) PROVE CancelledSound'
  BY <1>33, <1>0, <1>a DEF OpenClaim, Follows, TypeOK
<1>34. ASSUME NEW p \in Plans, NEW end \in {"RESOLVED_REJECTED", "WITHDRAWN"}, CloseClaim(p, end)
       PROVE  CancelledSound'
  BY <1>34, <1>0, <1>a DEF CloseClaim, Follows, TypeOK
<1>35. ASSUME NEW p \in Plans, Reprint(p) PROVE CancelledSound'
  BY <1>35, CommitCancelled DEF Reprint, Remedy
<1>36. ASSUME NEW p \in Plans, handoffReshipment(p) PROVE CancelledSound'
  BY <1>36, CommitCancelled DEF handoffReshipment, Remedy
<1>37. ASSUME NEW p \in Plans, refundClaim(p) PROVE CancelledSound'
  BY <1>37, <1>0, <1>a DEF refundClaim, CreditParcel, Follows, TypeOK
<1>38. ASSUME NEW p \in Plans, dispatchRefund(p) PROVE CancelledSound'
  BY <1>38, <1>0, <1>a DEF dispatchRefund, Follows, TypeOK
<1>39. ASSUME NEW p \in Plans, RefundArrives(p) PROVE CancelledSound'
  BY <1>39, CommitCancelled DEF RefundArrives, RefundSucceeded
<1>40. ASSUME NEW p \in Plans, RefundFails(p) PROVE CancelledSound'
  BY <1>40, <1>0, <1>a DEF RefundFails, Follows, TypeOK
<1>41. ASSUME NEW p \in Plans, retryRefund(p) PROVE CancelledSound'
  BY <1>41, <1>0, <1>a DEF retryRefund, Follows, TypeOK
<1>42. ASSUME CancelVoids PROVE CancelledSound'
  BY <1>42, CommitCancelled DEF CancelVoids, VoidLiveLabels
<1>43. ASSUME NEW gone \in SUBSET Plans, NEW owed \in SUBSET Slots, EndOrder(gone, owed)
       PROVE  CancelledSound'
  BY <1>43, CommitCancelled
  DEF EndOrder, finalizeCancellation, voidOpenBalancePayments, Closed, UnfinishedJobs
<1>44. ASSUME completeOrder PROVE CancelledSound'
  BY <1>44, CommitCancelled DEF completeOrder
<1>45. ASSUME CancellationMoves PROVE CancelledSound'
  BY <1>45, <1>0, <1>a DEF CancellationMoves, Follows, TypeOK
<1>46. ASSUME createBalancePayment PROVE CancelledSound'
  BY <1>46, <1>0, <1>a DEF createBalancePayment, Follows, TypeOK
<1>47. ASSUME BalanceEvent PROVE CancelledSound'
  BY <1>47, CommitCancelled DEF BalanceEvent
<1> QED
  BY <1>1, <1>2, <1>3, <1>4, <1>5, <1>6, <1>7, <1>8, <1>9, <1>10, <1>11, <1>12, <1>13, <1>14,
     <1>15, <1>16, <1>17, <1>18, <1>19, <1>20, <1>21, <1>22, <1>23, <1>24, <1>25, <1>26, <1>27,
     <1>28, <1>29, <1>30, <1>31, <1>32, <1>33, <1>34, <1>35, <1>36, <1>37, <1>38, <1>39, <1>40,
     <1>41, <1>42, <1>43, <1>44, <1>45, <1>46, <1>47 DEF Branches

\* A refunded phase stays refunded.
LEMMA SettledStep ==
  ASSUME TypeOK, AggregateSound, taven_reconcile_shipment_plan_slot_terminal_state, Branches
  PROVE  SettledSound'
<1> USE DEF aggregate, production, parcels, carrier, claims, scoped, money, Move, SettledSound,
            TypeOK, LiveLabels, taven_reconcile_shipment_plan_slot_terminal_state
<1>0. shape' = shape /\ Plans' = Plans /\ PlanOf' = PlanOf /\ SplitPayment' = SplitPayment
  BY BranchShape
<1>a. SettledSound
  BY DEF AggregateSound
<1>1. ASSUME NEW s \in Slots, acceptJob(s) PROVE SettledSound'
  BY <1>1, <1>0, <1>a DEF acceptJob, SetJob
<1>2. ASSUME NEW s \in Slots, startPrinting(s) PROVE SettledSound'
  BY <1>2, <1>0, <1>a DEF startPrinting, SetJob
<1>3. ASSUME NEW s \in Slots, finishPrinting(s) PROVE SettledSound'
  BY <1>3, <1>0, <1>a DEF finishPrinting, SetJob
<1>4. ASSUME NEW s \in Slots, submitQc(s) PROVE SettledSound'
  BY <1>4, <1>0, <1>a DEF submitQc, SetJob
<1>5. ASSUME NEW s \in Slots, approveQc(s) PROVE SettledSound'
  BY <1>5, <1>0, <1>a DEF approveQc, SetJob
<1>6. ASSUME NEW s \in Slots, packJob(s) PROVE SettledSound'
  BY <1>6, <1>0, <1>a DEF packJob, SetJob, markReadyToShipWhenFinanciallyReady
<1>7. ASSUME NEW s \in Slots, failJob(s) PROVE SettledSound'
  BY <1>7, <1>0, <1>a
  DEF failJob, FailJobs, cancelProductionFailureParcelSiblings, StopProduction,
      voidOpenBalancePayments, Closed, FailedStatus, UnfinishedJobs
<1>8. ASSUME NEW s \in Slots, FailReprintLabelled(s) PROVE SettledSound'
  BY <1>8, <1>0, <1>a
  DEF FailReprintLabelled, FailJobs, cancelProductionFailureParcelSiblings, StopProduction,
      voidOpenBalancePayments, Closed, FailedStatus, UnfinishedJobs, Siblings, RequestVoid
<1>9. ASSUME NEW s \in Slots, FailReprintPlanned(s) PROVE SettledSound'
  BY <1>9, <1>0, <1>a
  DEF FailReprintPlanned, FailJobs, cancelProductionFailureParcelSiblings, StopProduction,
      voidOpenBalancePayments, Closed, FailedStatus, UnfinishedJobs, Siblings, CancelParcel
<1>10. ASSUME NEW s \in Slots, AbandonLabelled(s) PROVE SettledSound'
  BY <1>10, <1>0, <1>a
  DEF AbandonLabelled, FailJobs, cancelProductionFailureParcelSiblings, StopProduction,
      voidOpenBalancePayments, Closed, FailedStatus, UnfinishedJobs, Siblings, RequestVoid
<1>11. ASSUME NEW s \in Slots, AbandonPlanned(s) PROVE SettledSound'
  BY <1>11, <1>0, <1>a
  DEF AbandonPlanned, FailJobs, cancelProductionFailureParcelSiblings, StopProduction,
      voidOpenBalancePayments, Closed, FailedStatus, UnfinishedJobs, Siblings, CancelParcel,
      CreditParcel
<1>12. ASSUME NEW s \in Slots, createReplacement(s) PROVE SettledSound'
  BY <1>12, <1>0, <1>a DEF createReplacement
<1>13. ASSUME NEW s \in Slots, ExpireLabelled(s) PROVE SettledSound'
  BY <1>13, <1>0, <1>a
  DEF ExpireLabelled, ExpireSiblings, cancelProductionFailureParcelSiblings, Closed,
      UnfinishedJobs, Siblings, RequestVoid
<1>14. ASSUME NEW s \in Slots, ExpirePlanned(s) PROVE SettledSound'
  BY <1>14, <1>0, <1>a
  DEF ExpirePlanned, ExpireSiblings, cancelProductionFailureParcelSiblings, Closed,
      UnfinishedJobs, Siblings, CancelParcel, CreditParcel
<1>15. ASSUME NEW s \in Slots, ExpireVoids(s) PROVE SettledSound'
  BY <1>15, <1>0, <1>a DEF ExpireVoids, VoidLiveLabels
<1>16. ASSUME NEW p \in Plans, createShipment(p) PROVE SettledSound'
  BY <1>16, <1>0, <1>a DEF createShipment
<1>17. ASSUME NEW p \in Plans, labelShipment(p) PROVE SettledSound'
  BY <1>17, <1>0, <1>a DEF labelShipment, markReadyToShipWhenFinanciallyReady
<1>18. ASSUME NEW p \in Plans, VoidReprintLabel(p) PROVE SettledSound'
  BY <1>18, <1>0, <1>a DEF VoidReprintLabel, VoidReprint, CancelParcel
<1>19. ASSUME NEW p \in Plans, NEW s \in Slots, VoidRefundsFailure(p, s) PROVE SettledSound'
  BY <1>19, <1>0, <1>a DEF VoidRefundsFailure, VoidOne, CancelParcel, CreditParcel
<1>20. ASSUME NEW p \in Plans, VoidCancelsParcel(p) PROVE SettledSound'
  BY <1>20, <1>0, <1>a
  DEF VoidCancelsParcel, VoidOne, finalizePartialCancellation, CancelParcel, CreditParcel
<1>21. ASSUME NEW p \in Plans, VoidOnly(p) PROVE SettledSound'
  BY <1>21, <1>0, <1>a DEF VoidOnly
<1>22. ASSUME NEW p \in Plans, CarrierAccepts(p) PROVE SettledSound'
  BY <1>22, <1>0, <1>a DEF CarrierAccepts
<1>23. ASSUME NEW p \in Plans, CarrierVoids(p) PROVE SettledSound'
  BY <1>23, <1>0, <1>a DEF CarrierVoids
<1>24. ASSUME NEW p \in Plans, HandOverOrdinary(p) PROVE SettledSound'
  BY <1>24, <1>0, <1>a DEF HandOverOrdinary, handoffShipment, HandOver, packingReady
<1>25. ASSUME NEW p \in Plans, HandOverRace(p) PROVE SettledSound'
  BY <1>25, <1>0, <1>a DEF HandOverRace, handoffShipment, HandOver, packingReady
<1>26. ASSUME NEW p \in Plans, RecordCustody(p) PROVE SettledSound'
  BY <1>26, <1>0, <1>a DEF RecordCustody
<1>27. ASSUME NEW p \in Plans, ReconcilePaid(p) PROVE SettledSound'
  BY <1>27, <1>0, <1>a DEF ReconcilePaid, ReconcileWith, HandOver, packingReady
<1>28. ASSUME NEW p \in Plans, ReconcileUnpaid(p) PROVE SettledSound'
  BY <1>28, <1>0, <1>a DEF ReconcileUnpaid, ReconcileWith, HandOver, packingReady
<1>29. ASSUME NEW p \in Plans, ApplyDelivery(p) PROVE SettledSound'
  BY <1>29, <1>0, <1>a DEF ApplyDelivery, CarrierMoves
<1>30. ASSUME NEW p \in Plans, NEW to \in {"LOST", "RETURNED"}, RemedyFails(p, to)
       PROVE  SettledSound'
  BY <1>30, <1>0, <1>a DEF RemedyFails, CarrierMoves
<1>31. ASSUME NEW p \in Plans, NEW to \in {"LOST", "RETURNED"}, IncidentOpens(p, to)
       PROVE  SettledSound'
  BY <1>31, <1>0, <1>a DEF IncidentOpens, CarrierMoves
<1>32. ASSUME NEW p \in Plans, ApplyProgress(p) PROVE SettledSound'
  BY <1>32, <1>0, <1>a DEF ApplyProgress, CarrierMoves
<1>33. ASSUME NEW p \in Plans, OpenClaim(p) PROVE SettledSound'
  BY <1>33, <1>0, <1>a DEF OpenClaim
<1>34. ASSUME NEW p \in Plans, NEW end \in {"RESOLVED_REJECTED", "WITHDRAWN"}, CloseClaim(p, end)
       PROVE  SettledSound'
  BY <1>34, <1>0, <1>a DEF CloseClaim
<1>35. ASSUME NEW p \in Plans, Reprint(p) PROVE SettledSound'
  BY <1>35, <1>0, <1>a DEF Reprint, Remedy
<1>36. ASSUME NEW p \in Plans, handoffReshipment(p) PROVE SettledSound'
  BY <1>36, <1>0, <1>a DEF handoffReshipment, Remedy
<1>37. ASSUME NEW p \in Plans, refundClaim(p) PROVE SettledSound'
  BY <1>37, <1>0, <1>a DEF refundClaim, CreditParcel
<1>38. ASSUME NEW p \in Plans, dispatchRefund(p) PROVE SettledSound'
  BY <1>38, <1>0, <1>a DEF dispatchRefund
<1>39. ASSUME NEW p \in Plans, RefundArrives(p) PROVE SettledSound'
  BY <1>39, <1>0, <1>a DEF RefundArrives, RefundSucceeded
<1>40. ASSUME NEW p \in Plans, RefundFails(p) PROVE SettledSound'
  BY <1>40, <1>0, <1>a DEF RefundFails
<1>41. ASSUME NEW p \in Plans, retryRefund(p) PROVE SettledSound'
  BY <1>41, <1>0, <1>a DEF retryRefund
<1>42. ASSUME CancelVoids PROVE SettledSound'
  BY <1>42, <1>0, <1>a DEF CancelVoids, VoidLiveLabels
<1>43. ASSUME NEW gone \in SUBSET Plans, NEW owed \in SUBSET Slots, EndOrder(gone, owed)
       PROVE  SettledSound'
  BY <1>43, <1>0, <1>a
  DEF EndOrder, finalizeCancellation, voidOpenBalancePayments, Closed, UnfinishedJobs
<1>44. ASSUME completeOrder PROVE SettledSound'
  BY <1>44, <1>0, <1>a DEF completeOrder
<1>45. ASSUME CancellationMoves PROVE SettledSound'
  BY <1>45, <1>0, <1>a DEF CancellationMoves
<1>46. ASSUME createBalancePayment PROVE SettledSound'
  BY <1>46, <1>0, <1>a DEF createBalancePayment
<1>47. ASSUME BalanceEvent PROVE SettledSound'
  BY <1>47, <1>0, <1>a DEF BalanceEvent
<1> QED
  BY <1>1, <1>2, <1>3, <1>4, <1>5, <1>6, <1>7, <1>8, <1>9, <1>10, <1>11, <1>12, <1>13, <1>14,
     <1>15, <1>16, <1>17, <1>18, <1>19, <1>20, <1>21, <1>22, <1>23, <1>24, <1>25, <1>26, <1>27,
     <1>28, <1>29, <1>30, <1>31, <1>32, <1>33, <1>34, <1>35, <1>36, <1>37, <1>38, <1>39, <1>40,
     <1>41, <1>42, <1>43, <1>44, <1>45, <1>46, <1>47 DEF Branches

----------------------------------------------------------------------------
(* Parcels, refunds and claims.                                           *)

\* Every parcel holds a slot.
LEMMA PlanSlot ==
  ASSUME NEW p \in Plans PROVE \E s \in Slots : PlanOf[s] = p
BY DEF Plans

\* The trigger that protects the phase lets it become cancelled only before a
\* parcel left.
LEMMA CommitPhaseMoves ==
  ASSUME Commit, phase' = "CANCELLED", phase \in PhaseStatus
  PROVE  phase \in {"ACTIVE", "IN_PRODUCTION", "QC_PASSED", "RECOVERY_PENDING", "CANCELLED",
                    "CANCELLED_REFUNDED"}
BY DEF Commit, taven_protect_order_phase_lifecycle, phaseMoves, PhaseStatus

\* A job is handed over only in an order that says so when the transaction
\* commits.
LEMMA CommitHandedOver ==
  ASSUME Commit, NEW s \in Slots, job'[s] = "HANDED_OVER"
  PROVE  order' \in {"AWAITING_BALANCE", "SHIPPED", "DELIVERED", "PARTIALLY_FULFILLED",
                     "REFUNDED"}
BY DEF Commit, taven_reconcile_order_post_confirmation_lifecycle, AllJobs

\* An order that sent something never forgets it.
LEMMA GoneStep ==
  ASSUME TypeOK, TypeOK', AggregateSound, Gone, NEW x \in Plans, Branches PROVE Gone'
<1> USE DEF aggregate, production, parcels, carrier, claims, scoped, money, Move, TypeOK,
            Follows, Ahead, Gone
<1>0. shape' = shape /\ Plans' = Plans /\ PlanOf' = PlanOf /\ (\A p : SlotsOf(p)' = SlotsOf(p))
  BY BranchShape
<1>a. SettledSound /\ (Follows \/ Ahead)
  BY FollowsCases DEF AggregateSound
<1>b. order' \in OrderStatus
  OBVIOUS
<1>1. ASSUME NEW s \in Slots, acceptJob(s) PROVE Gone'
  BY <1>1, <1>0, <1>a, <1>b, CommitPhase DEF acceptJob, SetJob
<1>2. ASSUME NEW s \in Slots, startPrinting(s) PROVE Gone'
  BY <1>2, <1>0, <1>a, <1>b, CommitPhase DEF startPrinting, SetJob
<1>3. ASSUME NEW s \in Slots, finishPrinting(s) PROVE Gone'
  BY <1>3, <1>0, <1>a, <1>b, CommitPhase DEF finishPrinting, SetJob
<1>4. ASSUME NEW s \in Slots, submitQc(s) PROVE Gone'
  BY <1>4, <1>0, <1>a, <1>b, CommitPhase DEF submitQc, SetJob
<1>5. ASSUME NEW s \in Slots, approveQc(s) PROVE Gone'
  BY <1>5, <1>0, <1>a, <1>b, CommitPhase DEF approveQc, SetJob
<1>6. ASSUME NEW s \in Slots, packJob(s) PROVE Gone'
  BY <1>6, <1>0, <1>a, <1>b, CommitPhase
  DEF packJob, SetJob, markReadyToShipWhenFinanciallyReady
<1>7. ASSUME NEW s \in Slots, failJob(s) PROVE Gone'
  BY <1>7, <1>0, <1>a, <1>b, CommitPhase
  DEF failJob, FailJobs, cancelProductionFailureParcelSiblings, StopProduction,
      voidOpenBalancePayments, Closed, FailedStatus, UnfinishedJobs
<1>8. ASSUME NEW s \in Slots, FailReprintLabelled(s) PROVE Gone'
  BY <1>8, <1>0, <1>a, <1>b, CommitPhase
  DEF FailReprintLabelled, FailJobs, cancelProductionFailureParcelSiblings, StopProduction,
      voidOpenBalancePayments, Closed, FailedStatus, UnfinishedJobs, Siblings, RequestVoid
<1>9. ASSUME NEW s \in Slots, FailReprintPlanned(s) PROVE Gone'
  BY <1>9, <1>0, <1>a, <1>b, CommitPhase
  DEF FailReprintPlanned, FailJobs, cancelProductionFailureParcelSiblings, StopProduction,
      voidOpenBalancePayments, Closed, FailedStatus, UnfinishedJobs, Siblings, CancelParcel
<1>10. ASSUME NEW s \in Slots, AbandonLabelled(s) PROVE Gone'
  BY <1>10, <1>0, <1>a, <1>b, CommitPhase
  DEF AbandonLabelled, FailJobs, cancelProductionFailureParcelSiblings, StopProduction,
      voidOpenBalancePayments, Closed, FailedStatus, UnfinishedJobs, Siblings, RequestVoid
<1>11. ASSUME NEW s \in Slots, AbandonPlanned(s) PROVE Gone'
  BY <1>11, <1>0, <1>a, <1>b, CommitPhase
  DEF AbandonPlanned, FailJobs, cancelProductionFailureParcelSiblings, StopProduction,
      voidOpenBalancePayments, Closed, FailedStatus, UnfinishedJobs, Siblings, CancelParcel,
      CreditParcel
<1>12. ASSUME NEW s \in Slots, createReplacement(s) PROVE Gone'
  BY <1>12, <1>0, <1>a, <1>b, CommitPhase DEF createReplacement
<1>13. ASSUME NEW s \in Slots, ExpireLabelled(s) PROVE Gone'
  BY <1>13, <1>0, <1>a, <1>b, CommitPhase
  DEF ExpireLabelled, ExpireSiblings, cancelProductionFailureParcelSiblings, Closed,
      UnfinishedJobs, Siblings, RequestVoid
<1>14. ASSUME NEW s \in Slots, ExpirePlanned(s) PROVE Gone'
  BY <1>14, <1>0, <1>a, <1>b, CommitPhase
  DEF ExpirePlanned, ExpireSiblings, cancelProductionFailureParcelSiblings, Closed,
      UnfinishedJobs, Siblings, CancelParcel, CreditParcel
<1>15. ASSUME NEW s \in Slots, ExpireVoids(s) PROVE Gone'
  BY <1>15, <1>0, <1>a, <1>b, CommitPhase DEF ExpireVoids, VoidLiveLabels
<1>16. ASSUME NEW p \in Plans, createShipment(p) PROVE Gone'
  BY <1>16, <1>0, <1>a, <1>b, CommitPhase DEF createShipment
<1>17. ASSUME NEW p \in Plans, labelShipment(p) PROVE Gone'
  BY <1>17, <1>0, <1>a, <1>b, CommitPhase DEF labelShipment, markReadyToShipWhenFinanciallyReady
<1>18. ASSUME NEW p \in Plans, VoidReprintLabel(p) PROVE Gone'
  BY <1>18, <1>0, <1>a, <1>b, CommitPhase DEF VoidReprintLabel, VoidReprint, CancelParcel
<1>19. ASSUME NEW p \in Plans, NEW s \in Slots, VoidRefundsFailure(p, s) PROVE Gone'
  BY <1>19, <1>0, <1>a, <1>b, CommitPhase
  DEF VoidRefundsFailure, VoidOne, CancelParcel, CreditParcel
<1>20. ASSUME NEW p \in Plans, VoidCancelsParcel(p) PROVE Gone'
  BY <1>20, <1>0, <1>a, <1>b, CommitPhase
  DEF VoidCancelsParcel, VoidOne, finalizePartialCancellation, CancelParcel, CreditParcel
<1>21. ASSUME NEW p \in Plans, VoidOnly(p) PROVE Gone'
  BY <1>21, <1>0, <1>a, <1>b, CommitPhase DEF VoidOnly
<1>22. ASSUME NEW p \in Plans, CarrierAccepts(p) PROVE Gone'
  BY <1>22, <1>0, <1>a, <1>b DEF CarrierAccepts
<1>23. ASSUME NEW p \in Plans, CarrierVoids(p) PROVE Gone'
  BY <1>23, <1>0, <1>a, <1>b DEF CarrierVoids
<1>24. ASSUME NEW p \in Plans, HandOverOrdinary(p) PROVE Gone'
  BY <1>24, <1>0, <1>a, <1>b, CommitPhase
  DEF HandOverOrdinary, handoffShipment, HandOver, packingReady
<1>25. ASSUME NEW p \in Plans, HandOverRace(p) PROVE Gone'
  BY <1>25, <1>0, <1>a, <1>b, CommitPhase
  DEF HandOverRace, handoffShipment, HandOver, packingReady
<1>26. ASSUME NEW p \in Plans, RecordCustody(p) PROVE Gone'
  BY <1>26, <1>0, <1>a, <1>b DEF RecordCustody
<1>27. ASSUME NEW p \in Plans, ReconcilePaid(p) PROVE Gone'
  BY <1>27, <1>0, <1>a, <1>b, CommitPhase
  DEF ReconcilePaid, ReconcileWith, HandOver, packingReady
<1>28. ASSUME NEW p \in Plans, ReconcileUnpaid(p) PROVE Gone'
  BY <1>28, <1>0, <1>a, <1>b, CommitPhase
  DEF ReconcileUnpaid, ReconcileWith, HandOver, packingReady
<1>29. ASSUME NEW p \in Plans, ApplyDelivery(p) PROVE Gone'
  BY <1>29, <1>0, <1>a, <1>b, CommitPhase DEF ApplyDelivery, CarrierMoves
<1>30. ASSUME NEW p \in Plans, NEW to \in {"LOST", "RETURNED"}, RemedyFails(p, to) PROVE Gone'
  BY <1>30, <1>0, <1>a, <1>b, CommitPhase DEF RemedyFails, CarrierMoves
<1>31. ASSUME NEW p \in Plans, NEW to \in {"LOST", "RETURNED"}, IncidentOpens(p, to) PROVE Gone'
  BY <1>31, <1>0, <1>a, <1>b, CommitPhase DEF IncidentOpens, CarrierMoves
<1>32. ASSUME NEW p \in Plans, ApplyProgress(p) PROVE Gone'
  BY <1>32, <1>0, <1>a, <1>b, CommitPhase DEF ApplyProgress, CarrierMoves
<1>33. ASSUME NEW p \in Plans, OpenClaim(p) PROVE Gone'
  BY <1>33, <1>0, <1>a, <1>b DEF OpenClaim
<1>34. ASSUME NEW p \in Plans, NEW end \in {"RESOLVED_REJECTED", "WITHDRAWN"}, CloseClaim(p, end)
       PROVE  Gone'
  BY <1>34, <1>0, <1>a, <1>b DEF CloseClaim
<1>35. ASSUME NEW p \in Plans, Reprint(p) PROVE Gone'
  BY <1>35, <1>0, <1>a, <1>b, CommitPhase DEF Reprint, Remedy
<1>36. ASSUME NEW p \in Plans, handoffReshipment(p) PROVE Gone'
  BY <1>36, <1>0, <1>a, <1>b, CommitPhase DEF handoffReshipment, Remedy
<1>37. ASSUME NEW p \in Plans, refundClaim(p) PROVE Gone'
  BY <1>37, <1>0, <1>a, <1>b DEF refundClaim, CreditParcel
<1>38. ASSUME NEW p \in Plans, dispatchRefund(p) PROVE Gone'
  BY <1>38, <1>0, <1>a, <1>b DEF dispatchRefund
<1>39. ASSUME NEW p \in Plans, RefundArrives(p) PROVE Gone'
  BY <1>39, <1>0, <1>a, <1>b, CommitPhase DEF RefundArrives, RefundSucceeded
<1>40. ASSUME NEW p \in Plans, RefundFails(p) PROVE Gone'
  BY <1>40, <1>0, <1>a, <1>b DEF RefundFails
<1>41. ASSUME NEW p \in Plans, retryRefund(p) PROVE Gone'
  BY <1>41, <1>0, <1>a, <1>b DEF retryRefund
<1>42. ASSUME CancelVoids PROVE Gone'
  BY <1>42, <1>0, <1>a, <1>b, CommitPhase DEF CancelVoids, VoidLiveLabels
<1>43. ASSUME NEW gone \in SUBSET Plans, NEW owed \in SUBSET Slots, EndOrder(gone, owed)
       PROVE  Gone'
  <2>1. order' = "CANCELLED" /\ phase' = "CANCELLED" /\ Commit
    BY <1>43 DEF EndOrder, finalizeCancellation
  <2>2. phase = "CANCELLED_REFUNDED"
    BY <1>a, <2>1, CommitPhaseMoves
  <2>3. outcome'[x] = "CANCELLED_REFUNDED"
    BY <1>43, <1>a, <2>2 DEF EndOrder, finalizeCancellation, SettledSound
  <2> QED BY <1>0, <2>1, <2>3, CommitCancelled
<1>44. ASSUME completeOrder PROVE Gone'
  BY <1>44, <1>0, <1>a, <1>b, CommitPhase DEF completeOrder
<1>45. ASSUME CancellationMoves PROVE Gone'
  BY <1>45, <1>0, <1>a, <1>b DEF CancellationMoves
<1>46. ASSUME createBalancePayment PROVE Gone'
  BY <1>46, <1>0, <1>a, <1>b DEF createBalancePayment
<1>47. ASSUME BalanceEvent PROVE Gone'
  BY <1>47, <1>0, <1>a, <1>b, CommitPhase DEF BalanceEvent
<1> HIDE DEF TypeOK, Follows, Ahead, Gone
<1> QED
  BY <1>1, <1>2, <1>3, <1>4, <1>5, <1>6, <1>7, <1>8, <1>9, <1>10, <1>11, <1>12, <1>13, <1>14,
     <1>15, <1>16, <1>17, <1>18, <1>19, <1>20, <1>21, <1>22, <1>23, <1>24, <1>25, <1>26, <1>27,
     <1>28, <1>29, <1>30, <1>31, <1>32, <1>33, <1>34, <1>35, <1>36, <1>37, <1>38, <1>39, <1>40,
     <1>41, <1>42, <1>43, <1>44, <1>45, <1>46, <1>47 DEF Branches

\* A parcel reaches the carrier, a claim or a refund only in an order that sent
\* something.
LEMMA ParcelGoneStep ==
  ASSUME FulfilmentInv, TypeOK', NEW x \in Plans, Branches PROVE ParcelGone(x)'
<1> USE DEF aggregate, production, parcels, carrier, claims, scoped, money, Move, ParcelSound,
            TypeOK, OtherCustody, Custody, LiveLabels,
            taven_reconcile_shipment_plan_slot_terminal_state, ParcelGone, CancelledLeaf
<1>0. shape' = shape /\ Plans' = Plans /\ PlanOf' = PlanOf /\ (\A p : SlotsOf(p)' = SlotsOf(p))
  BY BranchShape
<1>a. /\ TypeOK /\ (\A p \in Plans : ParcelSound(p) /\ RefundSound(p) /\ ClaimSound(p))
      /\ taven_reconcile_shipment_plan_slot_terminal_state
  BY DEF FulfilmentInv, ParcelsSound, RefundsSound, ClaimsSound
<1>b. Gone => Gone'
  BY GoneStep DEF FulfilmentInv
<1>c. Follows \/ Ahead
  BY FollowsCases DEF FulfilmentInv, AggregateSound
<1>1. ASSUME NEW s \in Slots, acceptJob(s) PROVE ParcelGone(x)'
  BY <1>1, <1>0, <1>a, <1>b DEF acceptJob, SetJob
<1>2. ASSUME NEW s \in Slots, startPrinting(s) PROVE ParcelGone(x)'
  BY <1>2, <1>0, <1>a, <1>b DEF startPrinting, SetJob
<1>3. ASSUME NEW s \in Slots, finishPrinting(s) PROVE ParcelGone(x)'
  BY <1>3, <1>0, <1>a, <1>b DEF finishPrinting, SetJob
<1>4. ASSUME NEW s \in Slots, submitQc(s) PROVE ParcelGone(x)'
  BY <1>4, <1>0, <1>a, <1>b DEF submitQc, SetJob
<1>5. ASSUME NEW s \in Slots, approveQc(s) PROVE ParcelGone(x)'
  BY <1>5, <1>0, <1>a, <1>b DEF approveQc, SetJob
<1>6. ASSUME NEW s \in Slots, packJob(s) PROVE ParcelGone(x)'
  BY <1>6, <1>0, <1>a, <1>b DEF packJob, SetJob, markReadyToShipWhenFinanciallyReady
<1>7. ASSUME NEW s \in Slots, failJob(s) PROVE ParcelGone(x)'
  BY <1>7, <1>0, <1>a, <1>b
  DEF failJob, FailJobs, cancelProductionFailureParcelSiblings, StopProduction,
      voidOpenBalancePayments, Closed, FailedStatus, UnfinishedJobs
<1>8. ASSUME NEW s \in Slots, FailReprintLabelled(s) PROVE ParcelGone(x)'
  BY <1>8, <1>0, <1>a, <1>b, SlotPlan
  DEF FailReprintLabelled, FailJobs, cancelProductionFailureParcelSiblings, StopProduction,
      voidOpenBalancePayments, Closed, FailedStatus, UnfinishedJobs, Siblings, RequestVoid,
      ClaimSound
<1>9. ASSUME NEW s \in Slots, FailReprintPlanned(s) PROVE ParcelGone(x)'
  BY <1>9, <1>0, <1>a, <1>b, SlotPlan
  DEF FailReprintPlanned, FailJobs, cancelProductionFailureParcelSiblings, StopProduction,
      voidOpenBalancePayments, Closed, FailedStatus, UnfinishedJobs, Siblings, CancelParcel,
      ClaimSound
<1>10. ASSUME NEW s \in Slots, AbandonLabelled(s) PROVE ParcelGone(x)'
  BY <1>10, <1>0, <1>a, <1>b, SlotPlan
  DEF AbandonLabelled, FailJobs, cancelProductionFailureParcelSiblings, StopProduction,
      voidOpenBalancePayments, Closed, FailedStatus, UnfinishedJobs, Siblings, RequestVoid
<1>11. ASSUME NEW s \in Slots, AbandonPlanned(s) PROVE ParcelGone(x)'
  BY <1>11, <1>0, <1>a, <1>b, SlotPlan
  DEF AbandonPlanned, FailJobs, cancelProductionFailureParcelSiblings, StopProduction,
      voidOpenBalancePayments, Closed, FailedStatus, UnfinishedJobs, Siblings, CancelParcel,
      CreditParcel
<1>12. ASSUME NEW s \in Slots, createReplacement(s) PROVE ParcelGone(x)'
  BY <1>12, <1>0, <1>a, <1>b DEF createReplacement
<1>13. ASSUME NEW s \in Slots, ExpireLabelled(s) PROVE ParcelGone(x)'
  BY <1>13, <1>0, <1>a, <1>b, SlotPlan
  DEF ExpireLabelled, ExpireSiblings, cancelProductionFailureParcelSiblings, Closed,
      UnfinishedJobs, Siblings, RequestVoid
<1>14. ASSUME NEW s \in Slots, ExpirePlanned(s) PROVE ParcelGone(x)'
  BY <1>14, <1>0, <1>a, <1>b, SlotPlan
  DEF ExpirePlanned, ExpireSiblings, cancelProductionFailureParcelSiblings, Closed,
      UnfinishedJobs, Siblings, CancelParcel, CreditParcel
<1>15. ASSUME NEW s \in Slots, ExpireVoids(s) PROVE ParcelGone(x)'
  BY <1>15, <1>0, <1>a, <1>b DEF ExpireVoids, VoidLiveLabels
<1>16. ASSUME NEW p \in Plans, createShipment(p) PROVE ParcelGone(x)'
  BY <1>16, <1>0, <1>a, <1>b DEF createShipment
<1>17. ASSUME NEW p \in Plans, labelShipment(p) PROVE ParcelGone(x)'
  BY <1>17, <1>0, <1>a, <1>b DEF labelShipment, markReadyToShipWhenFinanciallyReady
<1>18. ASSUME NEW p \in Plans, VoidReprintLabel(p) PROVE ParcelGone(x)'
  BY <1>18, <1>0, <1>a, <1>b DEF VoidReprintLabel, VoidReprint, CancelParcel, ClaimSound
<1>19. ASSUME NEW p \in Plans, NEW s \in Slots, VoidRefundsFailure(p, s) PROVE ParcelGone(x)'
  BY <1>19, <1>0, <1>a, <1>b DEF VoidRefundsFailure, VoidOne, CancelParcel, CreditParcel
<1>20. ASSUME NEW p \in Plans, VoidCancelsParcel(p) PROVE ParcelGone(x)'
  BY <1>20, <1>0, <1>a, <1>b
  DEF VoidCancelsParcel, VoidOne, finalizePartialCancellation, CancelParcel, CreditParcel
<1>21. ASSUME NEW p \in Plans, VoidOnly(p) PROVE ParcelGone(x)'
  BY <1>21, <1>0, <1>a, <1>b DEF VoidOnly
<1>22. ASSUME NEW p \in Plans, CarrierAccepts(p) PROVE ParcelGone(x)'
  BY <1>22, <1>0, <1>a, <1>b DEF CarrierAccepts
<1>23. ASSUME NEW p \in Plans, CarrierVoids(p) PROVE ParcelGone(x)'
  BY <1>23, <1>0, <1>a, <1>b DEF CarrierVoids
<1>24. ASSUME NEW p \in Plans, HandOverOrdinary(p) PROVE ParcelGone(x)'
  BY <1>24, <1>0, <1>a, <1>b, PlanSlot, CommitHandedOver
  DEF HandOverOrdinary, handoffShipment, HandOver, packingReady, Gone, Follows, Ahead, SlotsOf
<1>25. ASSUME NEW p \in Plans, HandOverRace(p) PROVE ParcelGone(x)'
  BY <1>25, <1>0, <1>a, <1>b, PlanSlot, CommitHandedOver
  DEF HandOverRace, handoffShipment, HandOver, packingReady, Gone, Follows, Ahead, SlotsOf
<1>26. ASSUME NEW p \in Plans, RecordCustody(p) PROVE ParcelGone(x)'
  BY <1>26, <1>0, <1>a, <1>b DEF RecordCustody
<1>27. ASSUME NEW p \in Plans, ReconcilePaid(p) PROVE ParcelGone(x)'
  BY <1>27, <1>0, <1>a, <1>b DEF ReconcilePaid, ReconcileWith, HandOver, packingReady, Gone
<1>28. ASSUME NEW p \in Plans, ReconcileUnpaid(p) PROVE ParcelGone(x)'
  BY <1>28, <1>0, <1>a, <1>b DEF ReconcileUnpaid, ReconcileWith, HandOver, packingReady, Gone
<1>29. ASSUME NEW p \in Plans, ApplyDelivery(p) PROVE ParcelGone(x)'
  BY <1>29, <1>0, <1>a, <1>b DEF ApplyDelivery, CarrierMoves
<1>30. ASSUME NEW p \in Plans, NEW to \in {"LOST", "RETURNED"}, RemedyFails(p, to)
       PROVE  ParcelGone(x)'
  BY <1>30, <1>0, <1>a, <1>b DEF RemedyFails, CarrierMoves
<1>31. ASSUME NEW p \in Plans, NEW to \in {"LOST", "RETURNED"}, IncidentOpens(p, to)
       PROVE  ParcelGone(x)'
  BY <1>31, <1>0, <1>a, <1>b DEF IncidentOpens, CarrierMoves
<1>32. ASSUME NEW p \in Plans, ApplyProgress(p) PROVE ParcelGone(x)'
  BY <1>32, <1>0, <1>a, <1>b DEF ApplyProgress, CarrierMoves
<1>33. ASSUME NEW p \in Plans, OpenClaim(p) PROVE ParcelGone(x)'
  BY <1>33, <1>0, <1>a, <1>b DEF OpenClaim
<1>34. ASSUME NEW p \in Plans, NEW end \in {"RESOLVED_REJECTED", "WITHDRAWN"}, CloseClaim(p, end)
       PROVE  ParcelGone(x)'
  BY <1>34, <1>0, <1>a, <1>b DEF CloseClaim
<1>35. ASSUME NEW p \in Plans, Reprint(p) PROVE ParcelGone(x)'
  BY <1>35, <1>0, <1>a, <1>b DEF Reprint, Remedy, OpenClaims
<1>36. ASSUME NEW p \in Plans, handoffReshipment(p) PROVE ParcelGone(x)'
  BY <1>36, <1>0, <1>a, <1>b DEF handoffReshipment, Remedy, OpenClaims
<1>37. ASSUME NEW p \in Plans, refundClaim(p) PROVE ParcelGone(x)'
  BY <1>37, <1>0, <1>a, <1>b DEF refundClaim, CreditParcel, OpenClaims
<1>38. ASSUME NEW p \in Plans, dispatchRefund(p) PROVE ParcelGone(x)'
  BY <1>38, <1>0, <1>a, <1>b DEF dispatchRefund
<1>39. ASSUME NEW p \in Plans, RefundArrives(p) PROVE ParcelGone(x)'
  BY <1>39, <1>0, <1>a, <1>b
  DEF RefundArrives, RefundSucceeded, RefundSound, RefundTerms, RefundedScan, RefundedAlone
<1>40. ASSUME NEW p \in Plans, RefundFails(p) PROVE ParcelGone(x)'
  BY <1>40, <1>0, <1>a, <1>b DEF RefundFails
<1>41. ASSUME NEW p \in Plans, retryRefund(p) PROVE ParcelGone(x)'
  BY <1>41, <1>0, <1>a, <1>b DEF retryRefund
<1>42. ASSUME CancelVoids PROVE ParcelGone(x)'
  BY <1>42, <1>0, <1>a, <1>b DEF CancelVoids, VoidLiveLabels
<1>43. ASSUME NEW gone \in SUBSET Plans, NEW owed \in SUBSET Slots, EndOrder(gone, owed)
       PROVE  ParcelGone(x)'
  BY <1>43, <1>0, <1>a, <1>b
  DEF EndOrder, finalizeCancellation, voidOpenBalancePayments, Closed, UnfinishedJobs
<1>44. ASSUME completeOrder PROVE ParcelGone(x)'
  BY <1>44, <1>0, <1>a, <1>b DEF completeOrder
<1>45. ASSUME CancellationMoves PROVE ParcelGone(x)'
  BY <1>45, <1>0, <1>a, <1>b DEF CancellationMoves
<1>46. ASSUME createBalancePayment PROVE ParcelGone(x)'
  BY <1>46, <1>0, <1>a, <1>b DEF createBalancePayment
<1>47. ASSUME BalanceEvent PROVE ParcelGone(x)'
  BY <1>47, <1>0, <1>a, <1>b DEF BalanceEvent
<1> QED
  BY <1>1, <1>2, <1>3, <1>4, <1>5, <1>6, <1>7, <1>8, <1>9, <1>10, <1>11, <1>12, <1>13, <1>14,
     <1>15, <1>16, <1>17, <1>18, <1>19, <1>20, <1>21, <1>22, <1>23, <1>24, <1>25, <1>26, <1>27,
     <1>28, <1>29, <1>30, <1>31, <1>32, <1>33, <1>34, <1>35, <1>36, <1>37, <1>38, <1>39, <1>40,
     <1>41, <1>42, <1>43, <1>44, <1>45, <1>46, <1>47 DEF Branches

\* A label is cancelled in a living order only for a failed job that is paid
\* back or by the customer.
LEMMA CancelledLeafStep ==
  ASSUME FulfilmentInv, TypeOK', Branches, NEW x \in Plans,
         leaf'[x] = "CANCELLED", order' # "CANCELLED", reason'[x] # "PARTIAL_CANCELLATION"
  PROVE  \E s \in SlotsOf(x) : /\ job'[s] \in FailedJobs
                               /\ request'[s] \in {"REFUND_REQUIRED", "RESOLVED"}
<1> USE DEF aggregate, production, parcels, carrier, claims, scoped, money, Move, ParcelSound,
            JobSound, TypeOK, SlotsOf, PreparedJobs, StartedJobs, FailedJobs, Custody,
            taven_reconcile_shipment_plan_slot_terminal_state, ParcelGone, CancelledLeaf
<1> DEFINE Ended(s) == job'[s] \in FailedJobs /\ request'[s] \in {"REFUND_REQUIRED", "RESOLVED"}
<1>0. shape' = shape /\ Plans' = Plans /\ PlanOf' = PlanOf /\ (\A p : SlotsOf(p)' = SlotsOf(p))
  BY BranchShape
<1>a. /\ TypeOK /\ (\A p \in Plans : ParcelSound(p)) /\ (\A s \in Slots : JobSound(s))
      /\ taven_reconcile_shipment_plan_slot_terminal_state
  BY DEF FulfilmentInv, ParcelsSound, JobsSound
<1>b. taven_reconcile_shipment_plan_slot_terminal_state'
  BY TriggersStep DEF FulfilmentInv, Reconciled
<1>1. ASSUME NEW s \in Slots, acceptJob(s) PROVE \E t \in SlotsOf(x) : Ended(t)
  BY <1>1, <1>0, <1>a, <1>b, SlotPlan DEF acceptJob, SetJob
<1>2. ASSUME NEW s \in Slots, startPrinting(s) PROVE \E t \in SlotsOf(x) : Ended(t)
  BY <1>2, <1>0, <1>a, <1>b, SlotPlan DEF startPrinting, SetJob
<1>3. ASSUME NEW s \in Slots, finishPrinting(s) PROVE \E t \in SlotsOf(x) : Ended(t)
  BY <1>3, <1>0, <1>a, <1>b, SlotPlan DEF finishPrinting, SetJob
<1>4. ASSUME NEW s \in Slots, submitQc(s) PROVE \E t \in SlotsOf(x) : Ended(t)
  BY <1>4, <1>0, <1>a, <1>b, SlotPlan DEF submitQc, SetJob
<1>5. ASSUME NEW s \in Slots, approveQc(s) PROVE \E t \in SlotsOf(x) : Ended(t)
  BY <1>5, <1>0, <1>a, <1>b, SlotPlan DEF approveQc, SetJob
<1>6. ASSUME NEW s \in Slots, packJob(s) PROVE \E t \in SlotsOf(x) : Ended(t)
  BY <1>6, <1>0, <1>a, <1>b, SlotPlan DEF packJob, SetJob, markReadyToShipWhenFinanciallyReady
<1>7. ASSUME NEW s \in Slots, failJob(s) PROVE \E t \in SlotsOf(x) : Ended(t)
  BY <1>7, <1>0, <1>a, <1>b, SlotPlan
  DEF failJob, FailJobs, cancelProductionFailureParcelSiblings, StopProduction,
      voidOpenBalancePayments, Closed, FailedStatus, UnfinishedJobs
<1>8. ASSUME NEW s \in Slots, FailReprintLabelled(s) PROVE \E t \in SlotsOf(x) : Ended(t)
  BY <1>8, <1>0, <1>a, <1>b, SlotPlan
  DEF FailReprintLabelled, FailJobs, cancelProductionFailureParcelSiblings, StopProduction,
      voidOpenBalancePayments, Closed, FailedStatus, UnfinishedJobs, Siblings, RequestVoid
<1>9. ASSUME NEW s \in Slots, FailReprintPlanned(s) PROVE \E t \in SlotsOf(x) : Ended(t)
  BY <1>9, <1>0, <1>a, <1>b, SlotPlan
  DEF FailReprintPlanned, FailJobs, cancelProductionFailureParcelSiblings, StopProduction,
      voidOpenBalancePayments, Closed, FailedStatus, UnfinishedJobs, Siblings, CancelParcel
<1>10. ASSUME NEW s \in Slots, AbandonLabelled(s) PROVE \E t \in SlotsOf(x) : Ended(t)
  BY <1>10, <1>0, <1>a, <1>b, SlotPlan
  DEF AbandonLabelled, FailJobs, cancelProductionFailureParcelSiblings, StopProduction,
      voidOpenBalancePayments, Closed, FailedStatus, UnfinishedJobs, Siblings, RequestVoid
<1>11. ASSUME NEW s \in Slots, AbandonPlanned(s) PROVE \E t \in SlotsOf(x) : Ended(t)
  BY <1>11, <1>0, <1>a, <1>b, SlotPlan
  DEF AbandonPlanned, FailJobs, cancelProductionFailureParcelSiblings, StopProduction,
      voidOpenBalancePayments, Closed, FailedStatus, UnfinishedJobs, Siblings, CancelParcel,
      CreditParcel
<1>12. ASSUME NEW s \in Slots, createReplacement(s) PROVE \E t \in SlotsOf(x) : Ended(t)
  BY <1>12, <1>0, <1>a, <1>b, SlotPlan DEF createReplacement
<1>13. ASSUME NEW s \in Slots, ExpireLabelled(s) PROVE \E t \in SlotsOf(x) : Ended(t)
  BY <1>13, <1>0, <1>a, <1>b, SlotPlan
  DEF ExpireLabelled, ExpireSiblings, cancelProductionFailureParcelSiblings, Closed,
      UnfinishedJobs, Siblings, RequestVoid
<1>14. ASSUME NEW s \in Slots, ExpirePlanned(s) PROVE \E t \in SlotsOf(x) : Ended(t)
  BY <1>14, <1>0, <1>a, <1>b, SlotPlan
  DEF ExpirePlanned, ExpireSiblings, cancelProductionFailureParcelSiblings, Closed,
      UnfinishedJobs, Siblings, CancelParcel, CreditParcel
<1>15. ASSUME NEW s \in Slots, ExpireVoids(s) PROVE \E t \in SlotsOf(x) : Ended(t)
  BY <1>15, <1>0, <1>a, <1>b, SlotPlan DEF ExpireVoids, VoidLiveLabels
<1>16. ASSUME NEW p \in Plans, createShipment(p) PROVE \E t \in SlotsOf(x) : Ended(t)
  BY <1>16, <1>0, <1>a, <1>b, SlotPlan DEF createShipment
<1>17. ASSUME NEW p \in Plans, labelShipment(p) PROVE \E t \in SlotsOf(x) : Ended(t)
  BY <1>17, <1>0, <1>a, <1>b, SlotPlan DEF labelShipment, markReadyToShipWhenFinanciallyReady
<1>18. ASSUME NEW p \in Plans, VoidReprintLabel(p) PROVE \E t \in SlotsOf(x) : Ended(t)
  BY <1>18, <1>0, <1>a, <1>b, SlotPlan
  DEF VoidReprintLabel, VoidReprint, CancelParcel, EndedJobs, RefundRequired
<1>19. ASSUME NEW p \in Plans, NEW s \in Slots, VoidRefundsFailure(p, s)
       PROVE  \E t \in SlotsOf(x) : Ended(t)
  BY <1>19, <1>0, <1>a, <1>b, SlotPlan
  DEF VoidRefundsFailure, VoidOne, CancelParcel, CreditParcel, RefundRequired
<1>20. ASSUME NEW p \in Plans, VoidCancelsParcel(p) PROVE \E t \in SlotsOf(x) : Ended(t)
  BY <1>20, <1>0, <1>a, <1>b, SlotPlan
  DEF VoidCancelsParcel, VoidOne, finalizePartialCancellation, CancelParcel, CreditParcel
<1>21. ASSUME NEW p \in Plans, VoidOnly(p) PROVE \E t \in SlotsOf(x) : Ended(t)
  BY <1>21, <1>0, <1>a, <1>b, SlotPlan DEF VoidOnly
<1>22. ASSUME NEW p \in Plans, CarrierAccepts(p) PROVE \E t \in SlotsOf(x) : Ended(t)
  BY <1>22, <1>0, <1>a, <1>b, SlotPlan DEF CarrierAccepts
<1>23. ASSUME NEW p \in Plans, CarrierVoids(p) PROVE \E t \in SlotsOf(x) : Ended(t)
  BY <1>23, <1>0, <1>a, <1>b, SlotPlan DEF CarrierVoids
<1>24. ASSUME NEW p \in Plans, HandOverOrdinary(p) PROVE \E t \in SlotsOf(x) : Ended(t)
  BY <1>24, <1>0, <1>a, <1>b, SlotPlan
  DEF HandOverOrdinary, handoffShipment, HandOver, packingReady
<1>25. ASSUME NEW p \in Plans, HandOverRace(p) PROVE \E t \in SlotsOf(x) : Ended(t)
  BY <1>25, <1>0, <1>a, <1>b, SlotPlan DEF HandOverRace, handoffShipment, HandOver, packingReady
<1>26. ASSUME NEW p \in Plans, RecordCustody(p) PROVE \E t \in SlotsOf(x) : Ended(t)
  BY <1>26, <1>0, <1>a, <1>b, SlotPlan DEF RecordCustody
<1>27. ASSUME NEW p \in Plans, ReconcilePaid(p) PROVE \E t \in SlotsOf(x) : Ended(t)
  BY <1>27, <1>0, <1>a, <1>b, SlotPlan DEF ReconcilePaid, ReconcileWith, HandOver, packingReady
<1>28. ASSUME NEW p \in Plans, ReconcileUnpaid(p) PROVE \E t \in SlotsOf(x) : Ended(t)
  BY <1>28, <1>0, <1>a, <1>b, SlotPlan
  DEF ReconcileUnpaid, ReconcileWith, HandOver, packingReady
<1>29. ASSUME NEW p \in Plans, ApplyDelivery(p) PROVE \E t \in SlotsOf(x) : Ended(t)
  BY <1>29, <1>0, <1>a, <1>b, SlotPlan DEF ApplyDelivery, CarrierMoves
<1>30. ASSUME NEW p \in Plans, NEW to \in {"LOST", "RETURNED"}, RemedyFails(p, to)
       PROVE  \E t \in SlotsOf(x) : Ended(t)
  BY <1>30, <1>0, <1>a, <1>b, SlotPlan DEF RemedyFails, CarrierMoves
<1>31. ASSUME NEW p \in Plans, NEW to \in {"LOST", "RETURNED"}, IncidentOpens(p, to)
       PROVE  \E t \in SlotsOf(x) : Ended(t)
  BY <1>31, <1>0, <1>a, <1>b, SlotPlan DEF IncidentOpens, CarrierMoves
<1>32. ASSUME NEW p \in Plans, ApplyProgress(p) PROVE \E t \in SlotsOf(x) : Ended(t)
  BY <1>32, <1>0, <1>a, <1>b, SlotPlan DEF ApplyProgress, CarrierMoves
<1>33. ASSUME NEW p \in Plans, OpenClaim(p) PROVE \E t \in SlotsOf(x) : Ended(t)
  BY <1>33, <1>0, <1>a, <1>b, SlotPlan DEF OpenClaim
<1>34. ASSUME NEW p \in Plans, NEW end \in {"RESOLVED_REJECTED", "WITHDRAWN"}, CloseClaim(p, end)
       PROVE  \E t \in SlotsOf(x) : Ended(t)
  BY <1>34, <1>0, <1>a, <1>b, SlotPlan DEF CloseClaim
<1>35. ASSUME NEW p \in Plans, Reprint(p) PROVE \E t \in SlotsOf(x) : Ended(t)
  BY <1>35, <1>0, <1>a, <1>b, SlotPlan DEF Reprint, Remedy
<1>36. ASSUME NEW p \in Plans, handoffReshipment(p) PROVE \E t \in SlotsOf(x) : Ended(t)
  BY <1>36, <1>0, <1>a, <1>b, SlotPlan DEF handoffReshipment, Remedy
<1>37. ASSUME NEW p \in Plans, refundClaim(p) PROVE \E t \in SlotsOf(x) : Ended(t)
  <2>1. leaf' = leaf /\ order' = order /\ job' = job
    BY <1>37 DEF refundClaim
  <2>2. reason[x] # "PARTIAL_CANCELLATION"
    BY <1>37, <1>a DEF refundClaim, CreditParcel, Refundable
  <2>3. PICK t \in SlotsOf(x) : /\ job[t] \in FailedJobs
                                /\ request[t] \in {"REFUND_REQUIRED", "RESOLVED"}
    BY <1>a, <2>1, <2>2
  <2>4. t \in Slots OBVIOUS
  <2>5. request'[t] \in {"REFUND_REQUIRED", "RESOLVED"}
    BY <1>37, <2>3, <2>4 DEF refundClaim
  <2> QED BY <2>1, <2>3, <2>5
<1>38. ASSUME NEW p \in Plans, dispatchRefund(p) PROVE \E t \in SlotsOf(x) : Ended(t)
  BY <1>38, <1>0, <1>a, <1>b, SlotPlan DEF dispatchRefund
<1>39. ASSUME NEW p \in Plans, RefundArrives(p) PROVE \E t \in SlotsOf(x) : Ended(t)
  BY <1>39, <1>0, <1>a, <1>b, SlotPlan DEF RefundArrives, RefundSucceeded
<1>40. ASSUME NEW p \in Plans, RefundFails(p) PROVE \E t \in SlotsOf(x) : Ended(t)
  BY <1>40, <1>0, <1>a, <1>b, SlotPlan DEF RefundFails
<1>41. ASSUME NEW p \in Plans, retryRefund(p) PROVE \E t \in SlotsOf(x) : Ended(t)
  BY <1>41, <1>0, <1>a, <1>b, SlotPlan DEF retryRefund
<1>42. ASSUME CancelVoids PROVE \E t \in SlotsOf(x) : Ended(t)
  BY <1>42, <1>0, <1>a, <1>b, SlotPlan DEF CancelVoids, VoidLiveLabels
<1>43. ASSUME NEW gone \in SUBSET Plans, NEW owed \in SUBSET Slots, EndOrder(gone, owed)
       PROVE  \E t \in SlotsOf(x) : Ended(t)
  BY <1>43, <1>0, <1>a, <1>b, SlotPlan
  DEF EndOrder, finalizeCancellation, voidOpenBalancePayments, Closed, UnfinishedJobs, Owed
<1>44. ASSUME completeOrder PROVE \E t \in SlotsOf(x) : Ended(t)
  BY <1>44, <1>0, <1>a, <1>b, SlotPlan DEF completeOrder
<1>45. ASSUME CancellationMoves PROVE \E t \in SlotsOf(x) : Ended(t)
  BY <1>45, <1>0, <1>a, <1>b, SlotPlan DEF CancellationMoves
<1>46. ASSUME createBalancePayment PROVE \E t \in SlotsOf(x) : Ended(t)
  BY <1>46, <1>0, <1>a, <1>b, SlotPlan DEF createBalancePayment
<1>47. ASSUME BalanceEvent PROVE \E t \in SlotsOf(x) : Ended(t)
  BY <1>47, <1>0, <1>a, <1>b, SlotPlan DEF BalanceEvent
<1> QED
  BY <1>1, <1>2, <1>3, <1>4, <1>5, <1>6, <1>7, <1>8, <1>9, <1>10, <1>11, <1>12, <1>13, <1>14,
     <1>15, <1>16, <1>17, <1>18, <1>19, <1>20, <1>21, <1>22, <1>23, <1>24, <1>25, <1>26, <1>27,
     <1>28, <1>29, <1>30, <1>31, <1>32, <1>33, <1>34, <1>35, <1>36, <1>37, <1>38, <1>39, <1>40,
     <1>41, <1>42, <1>43, <1>44, <1>45, <1>46, <1>47 DEF Branches

\* A cancelled and packed parcel is one of a cancelled order.
LEMMA ReconcileOrder ==
  ASSUME FulfilmentInv, NEW p \in Plans, leaf[p] = "CANCELLED",
         reason[p] # "PARTIAL_CANCELLATION", packingReady(p, "CANCELLED")
  PROVE  order = "CANCELLED" /\ reason[p] = "NONE"
<1>1. ParcelSound(p) BY DEF FulfilmentInv, ParcelsSound
<1>2. order = "CANCELLED"
  BY <1>1 DEF ParcelSound, packingReady, FailedJobs, ParcelGone, CancelledLeaf
<1> QED BY <1>1, <1>2 DEF ParcelSound, Gone, ParcelGone, CancelledLeaf

\* Every branch keeps what is known of the refund of one parcel.
LEMMA RefundTermsStep ==
  ASSUME FulfilmentInv, TypeOK', NEW x \in Plans, Branches PROVE RefundTerms(x)'
<1> USE DEF aggregate, production, parcels, carrier, claims, scoped, money, Move, TypeOK,
            RefundSound, ScopedRefund, Refundable, Custody, LiveLabels,
            taven_reconcile_shipment_plan_slot_terminal_state, RefundTerms, RefundedScan,
            RefundedAlone
<1>0. shape' = shape /\ Plans' = Plans /\ PlanOf' = PlanOf /\ (\A p : SlotsOf(p)' = SlotsOf(p))
  BY BranchShape
<1>a. /\ TypeOK /\ ParcelSound(x) /\ RefundSound(x) /\ ClaimSound(x)
      /\ taven_reconcile_shipment_plan_slot_terminal_state
  BY DEF FulfilmentInv, ParcelsSound, RefundsSound, ClaimsSound
<1>b. taven_reconcile_shipment_plan_slot_terminal_state'
  BY TriggersStep DEF FulfilmentInv, Reconciled
<1>1. ASSUME NEW s \in Slots, acceptJob(s) PROVE RefundTerms(x)'
  BY <1>1, <1>0, <1>a, <1>b DEF acceptJob, SetJob
<1>2. ASSUME NEW s \in Slots, startPrinting(s) PROVE RefundTerms(x)'
  BY <1>2, <1>0, <1>a, <1>b DEF startPrinting, SetJob
<1>3. ASSUME NEW s \in Slots, finishPrinting(s) PROVE RefundTerms(x)'
  BY <1>3, <1>0, <1>a, <1>b DEF finishPrinting, SetJob
<1>4. ASSUME NEW s \in Slots, submitQc(s) PROVE RefundTerms(x)'
  BY <1>4, <1>0, <1>a, <1>b DEF submitQc, SetJob
<1>5. ASSUME NEW s \in Slots, approveQc(s) PROVE RefundTerms(x)'
  BY <1>5, <1>0, <1>a, <1>b DEF approveQc, SetJob
<1>6. ASSUME NEW s \in Slots, packJob(s) PROVE RefundTerms(x)'
  BY <1>6, <1>0, <1>a, <1>b DEF packJob, SetJob, markReadyToShipWhenFinanciallyReady
<1>7. ASSUME NEW s \in Slots, failJob(s) PROVE RefundTerms(x)'
  BY <1>7, <1>0, <1>a, <1>b
  DEF failJob, FailJobs, cancelProductionFailureParcelSiblings, StopProduction,
      voidOpenBalancePayments, Closed, FailedStatus, UnfinishedJobs
<1>8. ASSUME NEW s \in Slots, FailReprintLabelled(s) PROVE RefundTerms(x)'
  BY <1>8, <1>0, <1>a, <1>b
  DEF FailReprintLabelled, FailJobs, cancelProductionFailureParcelSiblings, StopProduction,
      voidOpenBalancePayments, Closed, FailedStatus, UnfinishedJobs, Siblings, RequestVoid
<1>9. ASSUME NEW s \in Slots, FailReprintPlanned(s) PROVE RefundTerms(x)'
  BY <1>9, <1>0, <1>a, <1>b
  DEF FailReprintPlanned, FailJobs, cancelProductionFailureParcelSiblings, StopProduction,
      voidOpenBalancePayments, Closed, FailedStatus, UnfinishedJobs, Siblings, CancelParcel
<1>10. ASSUME NEW s \in Slots, AbandonLabelled(s) PROVE RefundTerms(x)'
  BY <1>10, <1>0, <1>a, <1>b
  DEF AbandonLabelled, FailJobs, cancelProductionFailureParcelSiblings, StopProduction,
      voidOpenBalancePayments, Closed, FailedStatus, UnfinishedJobs, Siblings, RequestVoid
<1>11. ASSUME NEW s \in Slots, AbandonPlanned(s) PROVE RefundTerms(x)'
  BY <1>11, <1>0, <1>a, <1>b
  DEF AbandonPlanned, FailJobs, cancelProductionFailureParcelSiblings, StopProduction,
      voidOpenBalancePayments, Closed, FailedStatus, UnfinishedJobs, Siblings, CancelParcel,
      CreditParcel
<1>12. ASSUME NEW s \in Slots, createReplacement(s) PROVE RefundTerms(x)'
  BY <1>12, <1>0, <1>a, <1>b DEF createReplacement
<1>13. ASSUME NEW s \in Slots, ExpireLabelled(s) PROVE RefundTerms(x)'
  BY <1>13, <1>0, <1>a, <1>b
  DEF ExpireLabelled, ExpireSiblings, cancelProductionFailureParcelSiblings, Closed,
      UnfinishedJobs, Siblings, RequestVoid
<1>14. ASSUME NEW s \in Slots, ExpirePlanned(s) PROVE RefundTerms(x)'
  BY <1>14, <1>0, <1>a, <1>b
  DEF ExpirePlanned, ExpireSiblings, cancelProductionFailureParcelSiblings, Closed,
      UnfinishedJobs, Siblings, CancelParcel, CreditParcel
<1>15. ASSUME NEW s \in Slots, ExpireVoids(s) PROVE RefundTerms(x)'
  BY <1>15, <1>0, <1>a, <1>b DEF ExpireVoids, VoidLiveLabels
<1>16. ASSUME NEW p \in Plans, createShipment(p) PROVE RefundTerms(x)'
  BY <1>16, <1>0, <1>a, <1>b DEF createShipment
<1>17. ASSUME NEW p \in Plans, labelShipment(p) PROVE RefundTerms(x)'
  BY <1>17, <1>0, <1>a, <1>b DEF labelShipment, markReadyToShipWhenFinanciallyReady
<1>18. ASSUME NEW p \in Plans, VoidReprintLabel(p) PROVE RefundTerms(x)'
  BY <1>18, <1>0, <1>a, <1>b DEF VoidReprintLabel, VoidReprint, CancelParcel
<1>19. ASSUME NEW p \in Plans, NEW s \in Slots, VoidRefundsFailure(p, s) PROVE RefundTerms(x)'
  BY <1>19, <1>0, <1>a, <1>b DEF VoidRefundsFailure, VoidOne, CancelParcel, CreditParcel
<1>20. ASSUME NEW p \in Plans, VoidCancelsParcel(p) PROVE RefundTerms(x)'
  BY <1>20, <1>0, <1>a, <1>b
  DEF VoidCancelsParcel, VoidOne, finalizePartialCancellation, CancelParcel, CreditParcel
<1>21. ASSUME NEW p \in Plans, VoidOnly(p) PROVE RefundTerms(x)'
  BY <1>21, <1>0, <1>a, <1>b DEF VoidOnly
<1>22. ASSUME NEW p \in Plans, CarrierAccepts(p) PROVE RefundTerms(x)'
  BY <1>22, <1>0, <1>a, <1>b DEF CarrierAccepts
<1>23. ASSUME NEW p \in Plans, CarrierVoids(p) PROVE RefundTerms(x)'
  BY <1>23, <1>0, <1>a, <1>b DEF CarrierVoids
<1>24. ASSUME NEW p \in Plans, HandOverOrdinary(p) PROVE RefundTerms(x)'
  BY <1>24, <1>0, <1>a, <1>b DEF HandOverOrdinary, handoffShipment, HandOver, packingReady
<1>25. ASSUME NEW p \in Plans, HandOverRace(p) PROVE RefundTerms(x)'
  BY <1>25, <1>0, <1>a, <1>b DEF HandOverRace, handoffShipment, HandOver, packingReady
<1>26. ASSUME NEW p \in Plans, RecordCustody(p) PROVE RefundTerms(x)'
  BY <1>26, <1>0, <1>a, <1>b DEF RecordCustody
<1>27. ASSUME NEW p \in Plans, ReconcilePaid(p) PROVE RefundTerms(x)'
  BY <1>27, <1>0, <1>a, <1>b, ReconcileOrder
  DEF ReconcilePaid, ReconcileWith, HandOver, packingReady
<1>28. ASSUME NEW p \in Plans, ReconcileUnpaid(p) PROVE RefundTerms(x)'
  BY <1>28, <1>0, <1>a, <1>b, ReconcileOrder
  DEF ReconcileUnpaid, ReconcileWith, HandOver, packingReady
<1>29. ASSUME NEW p \in Plans, ApplyDelivery(p) PROVE RefundTerms(x)'
  BY <1>29, <1>0, <1>a, <1>b DEF ApplyDelivery, CarrierMoves
<1>30. ASSUME NEW p \in Plans, NEW to \in {"LOST", "RETURNED"}, RemedyFails(p, to)
       PROVE  RefundTerms(x)'
  BY <1>30, <1>0, <1>a, <1>b DEF RemedyFails, CarrierMoves
<1>31. ASSUME NEW p \in Plans, NEW to \in {"LOST", "RETURNED"}, IncidentOpens(p, to)
       PROVE  RefundTerms(x)'
  BY <1>31, <1>0, <1>a, <1>b DEF IncidentOpens, CarrierMoves
<1>32. ASSUME NEW p \in Plans, ApplyProgress(p) PROVE RefundTerms(x)'
  BY <1>32, <1>0, <1>a, <1>b DEF ApplyProgress, CarrierMoves
<1>33. ASSUME NEW p \in Plans, OpenClaim(p) PROVE RefundTerms(x)'
  BY <1>33, <1>0, <1>a, <1>b DEF OpenClaim
<1>34. ASSUME NEW p \in Plans, NEW end \in {"RESOLVED_REJECTED", "WITHDRAWN"}, CloseClaim(p, end)
       PROVE  RefundTerms(x)'
  BY <1>34, <1>0, <1>a, <1>b DEF CloseClaim
<1>35. ASSUME NEW p \in Plans, Reprint(p) PROVE RefundTerms(x)'
  BY <1>35, <1>0, <1>a, <1>b DEF Reprint, Remedy
<1>36. ASSUME NEW p \in Plans, handoffReshipment(p) PROVE RefundTerms(x)'
  BY <1>36, <1>0, <1>a, <1>b DEF handoffReshipment, Remedy
<1>37. ASSUME NEW p \in Plans, refundClaim(p) PROVE RefundTerms(x)'
  BY <1>37, <1>0, <1>a, <1>b DEF refundClaim, CreditParcel, ClaimSound, OpenClaims
<1>38. ASSUME NEW p \in Plans, dispatchRefund(p) PROVE RefundTerms(x)'
  BY <1>38, <1>0, <1>a, <1>b DEF dispatchRefund
<1>39. ASSUME NEW p \in Plans, RefundArrives(p) PROVE RefundTerms(x)'
  BY <1>39, <1>0, <1>a, <1>b DEF RefundArrives, RefundSucceeded
<1>40. ASSUME NEW p \in Plans, RefundFails(p) PROVE RefundTerms(x)'
  BY <1>40, <1>0, <1>a, <1>b DEF RefundFails
<1>41. ASSUME NEW p \in Plans, retryRefund(p) PROVE RefundTerms(x)'
  BY <1>41, <1>0, <1>a, <1>b DEF retryRefund
<1>42. ASSUME CancelVoids PROVE RefundTerms(x)'
  BY <1>42, <1>0, <1>a, <1>b DEF CancelVoids, VoidLiveLabels
<1>43. ASSUME NEW gone \in SUBSET Plans, NEW owed \in SUBSET Slots, EndOrder(gone, owed)
       PROVE  RefundTerms(x)'
  BY <1>43, <1>0, <1>a, <1>b
  DEF EndOrder, finalizeCancellation, voidOpenBalancePayments, Closed, UnfinishedJobs
<1>44. ASSUME completeOrder PROVE RefundTerms(x)'
  BY <1>44, <1>0, <1>a, <1>b DEF completeOrder
<1>45. ASSUME CancellationMoves PROVE RefundTerms(x)'
  BY <1>45, <1>0, <1>a, <1>b DEF CancellationMoves
<1>46. ASSUME createBalancePayment PROVE RefundTerms(x)'
  BY <1>46, <1>0, <1>a, <1>b DEF createBalancePayment
<1>47. ASSUME BalanceEvent PROVE RefundTerms(x)'
  BY <1>47, <1>0, <1>a, <1>b DEF BalanceEvent
<1> QED
  BY <1>1, <1>2, <1>3, <1>4, <1>5, <1>6, <1>7, <1>8, <1>9, <1>10, <1>11, <1>12, <1>13, <1>14,
     <1>15, <1>16, <1>17, <1>18, <1>19, <1>20, <1>21, <1>22, <1>23, <1>24, <1>25, <1>26, <1>27,
     <1>28, <1>29, <1>30, <1>31, <1>32, <1>33, <1>34, <1>35, <1>36, <1>37, <1>38, <1>39, <1>40,
     <1>41, <1>42, <1>43, <1>44, <1>45, <1>46, <1>47 DEF Branches

\* After the scan of an order already paid back, nothing else of it leaves.
LEMMA RefundedScanStep ==
  ASSUME FulfilmentInv, TypeOK', NEW x \in Plans, scan'[x] = "REFUNDED", Branches
  PROVE  RefundedAlone(x)'
<1> USE DEF aggregate, production, parcels, carrier, claims, scoped, money, Move, TypeOK,
            RefundSound, ScopedRefund, Refundable, Custody, LiveLabels,
            taven_reconcile_shipment_plan_slot_terminal_state, DroppedOutcomes, RefundTerms,
            RefundedScan, RefundedAlone
<1>0. shape' = shape /\ Plans' = Plans /\ PlanOf' = PlanOf /\ (\A p : SlotsOf(p)' = SlotsOf(p))
  BY BranchShape
<1>a. /\ TypeOK /\ ParcelSound(x) /\ RefundSound(x) /\ ClaimSound(x)
      /\ taven_reconcile_shipment_plan_slot_terminal_state
  BY DEF FulfilmentInv, ParcelsSound, RefundsSound, ClaimsSound
<1>b. taven_reconcile_shipment_plan_slot_terminal_state'
  BY TriggersStep DEF FulfilmentInv, Reconciled
<1>c. Gone => Gone'
  BY GoneStep DEF FulfilmentInv
<1>1. ASSUME NEW s \in Slots, acceptJob(s) PROVE RefundedAlone(x)'
  BY <1>1, <1>0, <1>a, <1>b DEF acceptJob, SetJob
<1>2. ASSUME NEW s \in Slots, startPrinting(s) PROVE RefundedAlone(x)'
  BY <1>2, <1>0, <1>a, <1>b DEF startPrinting, SetJob
<1>3. ASSUME NEW s \in Slots, finishPrinting(s) PROVE RefundedAlone(x)'
  BY <1>3, <1>0, <1>a, <1>b DEF finishPrinting, SetJob
<1>4. ASSUME NEW s \in Slots, submitQc(s) PROVE RefundedAlone(x)'
  BY <1>4, <1>0, <1>a, <1>b DEF submitQc, SetJob
<1>5. ASSUME NEW s \in Slots, approveQc(s) PROVE RefundedAlone(x)'
  BY <1>5, <1>0, <1>a, <1>b DEF approveQc, SetJob
<1>6. ASSUME NEW s \in Slots, packJob(s) PROVE RefundedAlone(x)'
  BY <1>6, <1>0, <1>a, <1>b DEF packJob, SetJob, markReadyToShipWhenFinanciallyReady
<1>7. ASSUME NEW s \in Slots, failJob(s) PROVE RefundedAlone(x)'
  BY <1>7, <1>0, <1>a, <1>b
  DEF failJob, FailJobs, cancelProductionFailureParcelSiblings, StopProduction,
      voidOpenBalancePayments, Closed, FailedStatus, UnfinishedJobs
<1>8. ASSUME NEW s \in Slots, FailReprintLabelled(s) PROVE RefundedAlone(x)'
  BY <1>8, <1>0, <1>a, <1>b
  DEF FailReprintLabelled, FailJobs, cancelProductionFailureParcelSiblings, StopProduction,
      voidOpenBalancePayments, Closed, FailedStatus, UnfinishedJobs, Siblings, RequestVoid
<1>9. ASSUME NEW s \in Slots, FailReprintPlanned(s) PROVE RefundedAlone(x)'
  BY <1>9, <1>0, <1>a, <1>b
  DEF FailReprintPlanned, FailJobs, cancelProductionFailureParcelSiblings, StopProduction,
      voidOpenBalancePayments, Closed, FailedStatus, UnfinishedJobs, Siblings, CancelParcel
<1>10. ASSUME NEW s \in Slots, AbandonLabelled(s) PROVE RefundedAlone(x)'
  BY <1>10, <1>0, <1>a, <1>b
  DEF AbandonLabelled, FailJobs, cancelProductionFailureParcelSiblings, StopProduction,
      voidOpenBalancePayments, Closed, FailedStatus, UnfinishedJobs, Siblings, RequestVoid
<1>11. ASSUME NEW s \in Slots, AbandonPlanned(s) PROVE RefundedAlone(x)'
  BY <1>11, <1>0, <1>a, <1>b
  DEF AbandonPlanned, FailJobs, cancelProductionFailureParcelSiblings, StopProduction,
      voidOpenBalancePayments, Closed, FailedStatus, UnfinishedJobs, Siblings, CancelParcel,
      CreditParcel
<1>12. ASSUME NEW s \in Slots, createReplacement(s) PROVE RefundedAlone(x)'
  BY <1>12, <1>0, <1>a, <1>b DEF createReplacement
<1>13. ASSUME NEW s \in Slots, ExpireLabelled(s) PROVE RefundedAlone(x)'
  BY <1>13, <1>0, <1>a, <1>b
  DEF ExpireLabelled, ExpireSiblings, cancelProductionFailureParcelSiblings, Closed,
      UnfinishedJobs, Siblings, RequestVoid
<1>14. ASSUME NEW s \in Slots, ExpirePlanned(s) PROVE RefundedAlone(x)'
  BY <1>14, <1>0, <1>a, <1>b
  DEF ExpirePlanned, ExpireSiblings, cancelProductionFailureParcelSiblings, Closed,
      UnfinishedJobs, Siblings, CancelParcel, CreditParcel
<1>15. ASSUME NEW s \in Slots, ExpireVoids(s) PROVE RefundedAlone(x)'
  BY <1>15, <1>0, <1>a, <1>b DEF ExpireVoids, VoidLiveLabels
<1>16. ASSUME NEW p \in Plans, createShipment(p) PROVE RefundedAlone(x)'
  BY <1>16, <1>0, <1>a, <1>b DEF createShipment
<1>17. ASSUME NEW p \in Plans, labelShipment(p) PROVE RefundedAlone(x)'
  BY <1>17, <1>0, <1>a, <1>b DEF labelShipment, markReadyToShipWhenFinanciallyReady
<1>18. ASSUME NEW p \in Plans, VoidReprintLabel(p) PROVE RefundedAlone(x)'
  BY <1>18, <1>0, <1>a, <1>b DEF VoidReprintLabel, VoidReprint, CancelParcel
<1>19. ASSUME NEW p \in Plans, NEW s \in Slots, VoidRefundsFailure(p, s) PROVE RefundedAlone(x)'
  BY <1>19, <1>0, <1>a, <1>b DEF VoidRefundsFailure, VoidOne, CancelParcel, CreditParcel
<1>20. ASSUME NEW p \in Plans, VoidCancelsParcel(p) PROVE RefundedAlone(x)'
  BY <1>20, <1>0, <1>a, <1>b
  DEF VoidCancelsParcel, VoidOne, finalizePartialCancellation, CancelParcel, CreditParcel
<1>21. ASSUME NEW p \in Plans, VoidOnly(p) PROVE RefundedAlone(x)'
  BY <1>21, <1>0, <1>a, <1>b DEF VoidOnly
<1>22. ASSUME NEW p \in Plans, CarrierAccepts(p) PROVE RefundedAlone(x)'
  BY <1>22, <1>0, <1>a, <1>b DEF CarrierAccepts
<1>23. ASSUME NEW p \in Plans, CarrierVoids(p) PROVE RefundedAlone(x)'
  BY <1>23, <1>0, <1>a, <1>b DEF CarrierVoids
<1>24. ASSUME NEW p \in Plans, HandOverOrdinary(p) PROVE RefundedAlone(x)'
  BY <1>24, <1>0, <1>a, <1>b DEF HandOverOrdinary, handoffShipment, HandOver, packingReady
<1>25. ASSUME NEW p \in Plans, HandOverRace(p) PROVE RefundedAlone(x)'
  BY <1>25, <1>0, <1>a, <1>b DEF HandOverRace, handoffShipment, HandOver, packingReady
<1>26. ASSUME NEW p \in Plans, RecordCustody(p) PROVE RefundedAlone(x)'
  BY <1>26, <1>0, <1>a, <1>b DEF RecordCustody
<1>27. ASSUME NEW p \in Plans, ReconcilePaid(p) PROVE RefundedAlone(x)'
  <2>1. order = "CANCELLED"
    BY <1>27, ReconcileOrder DEF ReconcilePaid, ReconcileWith
  <2>2. \A q \in Plans : outcome[q] = "CANCELLED"
    BY <2>1 DEF FulfilmentInv, AggregateSound, CancelledSound
  <2> QED BY <1>27, <1>0, <1>a, <2>2 DEF ReconcilePaid, ReconcileWith, HandOver
<1>28. ASSUME NEW p \in Plans, ReconcileUnpaid(p) PROVE RefundedAlone(x)'
  <2>1. order = "CANCELLED"
    BY <1>28, ReconcileOrder DEF ReconcileUnpaid, ReconcileWith
  <2>2. \A q \in Plans : outcome[q] = "CANCELLED"
    BY <2>1 DEF FulfilmentInv, AggregateSound, CancelledSound
  <2> QED BY <1>28, <1>0, <1>a, <2>2 DEF ReconcileUnpaid, ReconcileWith, HandOver
<1>29. ASSUME NEW p \in Plans, ApplyDelivery(p) PROVE RefundedAlone(x)'
  BY <1>29, <1>0, <1>a, <1>b DEF ApplyDelivery, CarrierMoves
<1>30. ASSUME NEW p \in Plans, NEW to \in {"LOST", "RETURNED"}, RemedyFails(p, to)
       PROVE  RefundedAlone(x)'
  BY <1>30, <1>0, <1>a, <1>b DEF RemedyFails, CarrierMoves
<1>31. ASSUME NEW p \in Plans, NEW to \in {"LOST", "RETURNED"}, IncidentOpens(p, to)
       PROVE  RefundedAlone(x)'
  BY <1>31, <1>0, <1>a, <1>b DEF IncidentOpens, CarrierMoves
<1>32. ASSUME NEW p \in Plans, ApplyProgress(p) PROVE RefundedAlone(x)'
  BY <1>32, <1>0, <1>a, <1>b DEF ApplyProgress, CarrierMoves
<1>33. ASSUME NEW p \in Plans, OpenClaim(p) PROVE RefundedAlone(x)'
  BY <1>33, <1>0, <1>a, <1>b DEF OpenClaim
<1>34. ASSUME NEW p \in Plans, NEW end \in {"RESOLVED_REJECTED", "WITHDRAWN"}, CloseClaim(p, end)
       PROVE  RefundedAlone(x)'
  BY <1>34, <1>0, <1>a, <1>b DEF CloseClaim
<1>35. ASSUME NEW p \in Plans, Reprint(p) PROVE RefundedAlone(x)'
  BY <1>35, <1>0, <1>a, <1>b DEF Reprint, Remedy
<1>36. ASSUME NEW p \in Plans, handoffReshipment(p) PROVE RefundedAlone(x)'
  BY <1>36, <1>0, <1>a, <1>b DEF handoffReshipment, Remedy
<1>37. ASSUME NEW p \in Plans, refundClaim(p) PROVE RefundedAlone(x)'
  BY <1>37, <1>0, <1>a, <1>b DEF refundClaim, CreditParcel
<1>38. ASSUME NEW p \in Plans, dispatchRefund(p) PROVE RefundedAlone(x)'
  BY <1>38, <1>0, <1>a, <1>b DEF dispatchRefund
<1>39. ASSUME NEW p \in Plans, RefundArrives(p) PROVE RefundedAlone(x)'
  BY <1>39, <1>0, <1>a, <1>b DEF RefundArrives, RefundSucceeded
<1>40. ASSUME NEW p \in Plans, RefundFails(p) PROVE RefundedAlone(x)'
  BY <1>40, <1>0, <1>a, <1>b DEF RefundFails
<1>41. ASSUME NEW p \in Plans, retryRefund(p) PROVE RefundedAlone(x)'
  BY <1>41, <1>0, <1>a, <1>b DEF retryRefund
<1>42. ASSUME CancelVoids PROVE RefundedAlone(x)'
  BY <1>42, <1>0, <1>a, <1>b DEF CancelVoids, VoidLiveLabels
<1>43. ASSUME NEW gone \in SUBSET Plans, NEW owed \in SUBSET Slots, EndOrder(gone, owed)
       PROVE  RefundedAlone(x)'
  BY <1>43, <1>0, <1>a, <1>b, <1>c
  DEF EndOrder, finalizeCancellation, voidOpenBalancePayments, Closed, UnfinishedJobs,
      ParcelSound, Gone, ParcelGone, CancelledLeaf
<1>44. ASSUME completeOrder PROVE RefundedAlone(x)'
  BY <1>44, <1>0, <1>a, <1>b DEF completeOrder
<1>45. ASSUME CancellationMoves PROVE RefundedAlone(x)'
  BY <1>45, <1>0, <1>a, <1>b DEF CancellationMoves
<1>46. ASSUME createBalancePayment PROVE RefundedAlone(x)'
  BY <1>46, <1>0, <1>a, <1>b DEF createBalancePayment
<1>47. ASSUME BalanceEvent PROVE RefundedAlone(x)'
  BY <1>47, <1>0, <1>a, <1>b DEF BalanceEvent
<1> QED
  BY <1>1, <1>2, <1>3, <1>4, <1>5, <1>6, <1>7, <1>8, <1>9, <1>10, <1>11, <1>12, <1>13, <1>14,
     <1>15, <1>16, <1>17, <1>18, <1>19, <1>20, <1>21, <1>22, <1>23, <1>24, <1>25, <1>26, <1>27,
     <1>28, <1>29, <1>30, <1>31, <1>32, <1>33, <1>34, <1>35, <1>36, <1>37, <1>38, <1>39, <1>40,
     <1>41, <1>42, <1>43, <1>44, <1>45, <1>46, <1>47 DEF Branches

\* An order ends before anything left, and its payment starts to go back.
LEMMA EndOrderRefunds ==
  ASSUME FulfilmentInv, TypeOK', Branches, NEW x \in Plans,
         NEW gone \in SUBSET Plans, NEW owed \in SUBSET Slots, EndOrder(gone, owed)
  PROVE  ~Gone /\ (cancellation = "NONE" => cancellation' = "PENDING")
<1>1. order' = "CANCELLED" BY DEF EndOrder, finalizeCancellation
<1>2. ~Gone' BY <1>1 DEF Gone
<1>3. ~Gone BY <1>2, GoneStep DEF FulfilmentInv
<1>4. \A p \in Plans : p \notin Credited
  BY <1>3 DEF Credited, FulfilmentInv, ParcelsSound, ParcelSound, ParcelGone, CancelledLeaf
<1>5. Worth(Credited) = 0 BY <1>4, WorthOfNone
<1>6. IsFiniteSet(Slots) /\ Slots # {} BY BoundsAssumption, PlanSlot
<1>7. Cardinality(Slots) \in Nat /\ Cardinality(Slots) # 0
  BY <1>6, FS_EmptySet, FS_CardinalityType
<1>8. captured > 0 BY <1>7 DEF captured
<1>9. captured \in Nat BY <1>7 DEF captured
<1>10. cancellation = "NONE" => Available > 0
  BY <1>5, <1>8, <1>9 DEF Available, OpenRefunds
<1> QED BY <1>3, <1>10 DEF EndOrder, finalizeCancellation

\* Every branch keeps what is known of a claim.
LEMMA ClaimTermsStep ==
  ASSUME FulfilmentInv, TypeOK', NEW x \in Plans, Branches PROVE ClaimSound(x)'
<1> USE DEF aggregate, production, parcels, carrier, claims, scoped, money, Move, TypeOK,
            ClaimSound, RemedyActive, OpenClaims, OpenRefunds, LiveLabels, DroppedOutcomes,
            Refundable, taven_reconcile_shipment_plan_slot_terminal_state
<1>0. shape' = shape /\ Plans' = Plans /\ PlanOf' = PlanOf /\ (\A p : SlotsOf(p)' = SlotsOf(p))
  BY BranchShape
<1>a. /\ TypeOK /\ ParcelSound(x) /\ RefundSound(x) /\ ClaimSound(x)
      /\ taven_reconcile_shipment_plan_slot_terminal_state
  BY DEF FulfilmentInv, ParcelsSound, RefundsSound, ClaimsSound
<1>b. taven_reconcile_shipment_plan_slot_terminal_state'
  BY TriggersStep DEF FulfilmentInv, Reconciled
<1>1. ASSUME NEW s \in Slots, acceptJob(s) PROVE ClaimSound(x)'
  BY <1>1, <1>0, <1>a, <1>b DEF acceptJob, SetJob
<1>2. ASSUME NEW s \in Slots, startPrinting(s) PROVE ClaimSound(x)'
  BY <1>2, <1>0, <1>a, <1>b DEF startPrinting, SetJob
<1>3. ASSUME NEW s \in Slots, finishPrinting(s) PROVE ClaimSound(x)'
  BY <1>3, <1>0, <1>a, <1>b DEF finishPrinting, SetJob
<1>4. ASSUME NEW s \in Slots, submitQc(s) PROVE ClaimSound(x)'
  BY <1>4, <1>0, <1>a, <1>b DEF submitQc, SetJob
<1>5. ASSUME NEW s \in Slots, approveQc(s) PROVE ClaimSound(x)'
  BY <1>5, <1>0, <1>a, <1>b DEF approveQc, SetJob
<1>6. ASSUME NEW s \in Slots, packJob(s) PROVE ClaimSound(x)'
  BY <1>6, <1>0, <1>a, <1>b DEF packJob, SetJob, markReadyToShipWhenFinanciallyReady
<1>7. ASSUME NEW s \in Slots, failJob(s) PROVE ClaimSound(x)'
  BY <1>7, <1>0, <1>a, <1>b
  DEF failJob, FailJobs, cancelProductionFailureParcelSiblings, StopProduction,
      voidOpenBalancePayments, Closed, FailedStatus, UnfinishedJobs
<1>8. ASSUME NEW s \in Slots, FailReprintLabelled(s) PROVE ClaimSound(x)'
  BY <1>8, <1>0, <1>a, <1>b
  DEF FailReprintLabelled, FailJobs, cancelProductionFailureParcelSiblings, StopProduction,
      voidOpenBalancePayments, Closed, FailedStatus, UnfinishedJobs, Siblings, RequestVoid
<1>9. ASSUME NEW s \in Slots, FailReprintPlanned(s) PROVE ClaimSound(x)'
  BY <1>9, <1>0, <1>a, <1>b
  DEF FailReprintPlanned, FailJobs, cancelProductionFailureParcelSiblings, StopProduction,
      voidOpenBalancePayments, Closed, FailedStatus, UnfinishedJobs, Siblings, CancelParcel
<1>10. ASSUME NEW s \in Slots, AbandonLabelled(s) PROVE ClaimSound(x)'
  BY <1>10, <1>0, <1>a, <1>b
  DEF AbandonLabelled, FailJobs, cancelProductionFailureParcelSiblings, StopProduction,
      voidOpenBalancePayments, Closed, FailedStatus, UnfinishedJobs, Siblings, RequestVoid
<1>11. ASSUME NEW s \in Slots, AbandonPlanned(s) PROVE ClaimSound(x)'
  BY <1>11, <1>0, <1>a, <1>b
  DEF AbandonPlanned, FailJobs, cancelProductionFailureParcelSiblings, StopProduction,
      voidOpenBalancePayments, Closed, FailedStatus, UnfinishedJobs, Siblings, CancelParcel,
      CreditParcel
<1>12. ASSUME NEW s \in Slots, createReplacement(s) PROVE ClaimSound(x)'
  BY <1>12, <1>0, <1>a, <1>b DEF createReplacement
<1>13. ASSUME NEW s \in Slots, ExpireLabelled(s) PROVE ClaimSound(x)'
  BY <1>13, <1>0, <1>a, <1>b
  DEF ExpireLabelled, ExpireSiblings, cancelProductionFailureParcelSiblings, Closed,
      UnfinishedJobs, Siblings, RequestVoid
<1>14. ASSUME NEW s \in Slots, ExpirePlanned(s) PROVE ClaimSound(x)'
  BY <1>14, <1>0, <1>a, <1>b
  DEF ExpirePlanned, ExpireSiblings, cancelProductionFailureParcelSiblings, Closed,
      UnfinishedJobs, Siblings, CancelParcel, CreditParcel
<1>15. ASSUME NEW s \in Slots, ExpireVoids(s) PROVE ClaimSound(x)'
  BY <1>15, <1>0, <1>a, <1>b DEF ExpireVoids, VoidLiveLabels
<1>16. ASSUME NEW p \in Plans, createShipment(p) PROVE ClaimSound(x)'
  BY <1>16, <1>0, <1>a, <1>b DEF createShipment
<1>17. ASSUME NEW p \in Plans, labelShipment(p) PROVE ClaimSound(x)'
  BY <1>17, <1>0, <1>a, <1>b DEF labelShipment, markReadyToShipWhenFinanciallyReady
<1>18. ASSUME NEW p \in Plans, VoidReprintLabel(p) PROVE ClaimSound(x)'
  BY <1>18, <1>0, <1>a, <1>b DEF VoidReprintLabel, VoidReprint, CancelParcel
<1>19. ASSUME NEW p \in Plans, NEW s \in Slots, VoidRefundsFailure(p, s) PROVE ClaimSound(x)'
  BY <1>19, <1>0, <1>a, <1>b DEF VoidRefundsFailure, VoidOne, CancelParcel, CreditParcel
<1>20. ASSUME NEW p \in Plans, VoidCancelsParcel(p) PROVE ClaimSound(x)'
  BY <1>20, <1>0, <1>a, <1>b
  DEF VoidCancelsParcel, VoidOne, finalizePartialCancellation, CancelParcel, CreditParcel
<1>21. ASSUME NEW p \in Plans, VoidOnly(p) PROVE ClaimSound(x)'
  BY <1>21, <1>0, <1>a, <1>b DEF VoidOnly
<1>22. ASSUME NEW p \in Plans, CarrierAccepts(p) PROVE ClaimSound(x)'
  BY <1>22, <1>0, <1>a, <1>b DEF CarrierAccepts
<1>23. ASSUME NEW p \in Plans, CarrierVoids(p) PROVE ClaimSound(x)'
  BY <1>23, <1>0, <1>a, <1>b DEF CarrierVoids
<1>24. ASSUME NEW p \in Plans, HandOverOrdinary(p) PROVE ClaimSound(x)'
  BY <1>24, <1>0, <1>a, <1>b DEF HandOverOrdinary, handoffShipment, HandOver, packingReady
<1>25. ASSUME NEW p \in Plans, HandOverRace(p) PROVE ClaimSound(x)'
  BY <1>25, <1>0, <1>a, <1>b DEF HandOverRace, handoffShipment, HandOver, packingReady
<1>26. ASSUME NEW p \in Plans, RecordCustody(p) PROVE ClaimSound(x)'
  BY <1>26, <1>0, <1>a, <1>b DEF RecordCustody
<1>27. ASSUME NEW p \in Plans, ReconcilePaid(p) PROVE ClaimSound(x)'
  BY <1>27, <1>0, <1>a, <1>b DEF ReconcilePaid, ReconcileWith, HandOver, packingReady
<1>28. ASSUME NEW p \in Plans, ReconcileUnpaid(p) PROVE ClaimSound(x)'
  BY <1>28, <1>0, <1>a, <1>b DEF ReconcileUnpaid, ReconcileWith, HandOver, packingReady
<1>29. ASSUME NEW p \in Plans, ApplyDelivery(p) PROVE ClaimSound(x)'
  BY <1>29, <1>0, <1>a, <1>b DEF ApplyDelivery, CarrierMoves
<1>30. ASSUME NEW p \in Plans, NEW to \in {"LOST", "RETURNED"}, RemedyFails(p, to)
       PROVE  ClaimSound(x)'
  BY <1>30, <1>0, <1>a, <1>b DEF RemedyFails, CarrierMoves
<1>31. ASSUME NEW p \in Plans, NEW to \in {"LOST", "RETURNED"}, IncidentOpens(p, to)
       PROVE  ClaimSound(x)'
  BY <1>31, <1>0, <1>a, <1>b DEF IncidentOpens, CarrierMoves
<1>32. ASSUME NEW p \in Plans, ApplyProgress(p) PROVE ClaimSound(x)'
  BY <1>32, <1>0, <1>a, <1>b DEF ApplyProgress, CarrierMoves
<1>33. ASSUME NEW p \in Plans, OpenClaim(p) PROVE ClaimSound(x)'
  BY <1>33, <1>0, <1>a, <1>b DEF OpenClaim
<1>34. ASSUME NEW p \in Plans, NEW end \in {"RESOLVED_REJECTED", "WITHDRAWN"}, CloseClaim(p, end)
       PROVE  ClaimSound(x)'
  BY <1>34, <1>0, <1>a, <1>b DEF CloseClaim
<1>35. ASSUME NEW p \in Plans, Reprint(p) PROVE ClaimSound(x)'
  BY <1>35, <1>0, <1>a, <1>b DEF Reprint, Remedy
<1>36. ASSUME NEW p \in Plans, handoffReshipment(p) PROVE ClaimSound(x)'
  BY <1>36, <1>0, <1>a, <1>b DEF handoffReshipment, Remedy
<1>37. ASSUME NEW p \in Plans, refundClaim(p) PROVE ClaimSound(x)'
  BY <1>37, <1>0, <1>a, <1>b DEF refundClaim, CreditParcel
<1>38. ASSUME NEW p \in Plans, dispatchRefund(p) PROVE ClaimSound(x)'
  BY <1>38, <1>0, <1>a, <1>b DEF dispatchRefund
<1>39. ASSUME NEW p \in Plans, RefundArrives(p) PROVE ClaimSound(x)'
  BY <1>39, <1>0, <1>a, <1>b
  DEF RefundArrives, RefundSucceeded, RefundSound, RefundTerms, RefundedScan, RefundedAlone
<1>40. ASSUME NEW p \in Plans, RefundFails(p) PROVE ClaimSound(x)'
  BY <1>40, <1>0, <1>a, <1>b DEF RefundFails
<1>41. ASSUME NEW p \in Plans, retryRefund(p) PROVE ClaimSound(x)'
  BY <1>41, <1>0, <1>a, <1>b DEF retryRefund
<1>42. ASSUME CancelVoids PROVE ClaimSound(x)'
  BY <1>42, <1>0, <1>a, <1>b DEF CancelVoids, VoidLiveLabels
<1>43. ASSUME NEW gone \in SUBSET Plans, NEW owed \in SUBSET Slots, EndOrder(gone, owed)
       PROVE  ClaimSound(x)'
  <2>1. ~Gone /\ (cancellation = "NONE" => cancellation' = "PENDING")
    BY <1>43, EndOrderRefunds
  <2>2. cancellation' # "NONE"
    BY <1>43, <2>1 DEF EndOrder, finalizeCancellation
  <2>3. claim[x] = "NONE" BY <1>a, <2>1 DEF ParcelSound, ParcelGone, CancelledLeaf
  <2>4. claim' = claim /\ resolution' = resolution
    BY <1>43 DEF EndOrder, finalizeCancellation
  <2> QED BY <1>a, <2>2, <2>3, <2>4
<1>44. ASSUME completeOrder PROVE ClaimSound(x)'
  BY <1>44, <1>0, <1>a, <1>b DEF completeOrder
<1>45. ASSUME CancellationMoves PROVE ClaimSound(x)'
  BY <1>45, <1>0, <1>a, <1>b DEF CancellationMoves
<1>46. ASSUME createBalancePayment PROVE ClaimSound(x)'
  BY <1>46, <1>0, <1>a, <1>b DEF createBalancePayment
<1>47. ASSUME BalanceEvent PROVE ClaimSound(x)'
  BY <1>47, <1>0, <1>a, <1>b DEF BalanceEvent
<1> HIDE DEF TypeOK, ClaimSound, RemedyActive
<1> QED
  BY <1>1, <1>2, <1>3, <1>4, <1>5, <1>6, <1>7, <1>8, <1>9, <1>10, <1>11, <1>12, <1>13, <1>14,
     <1>15, <1>16, <1>17, <1>18, <1>19, <1>20, <1>21, <1>22, <1>23, <1>24, <1>25, <1>26, <1>27,
     <1>28, <1>29, <1>30, <1>31, <1>32, <1>33, <1>34, <1>35, <1>36, <1>37, <1>38, <1>39, <1>40,
     <1>41, <1>42, <1>43, <1>44, <1>45, <1>46, <1>47 DEF Branches

----------------------------------------------------------------------------
(* The invariant and what follows from it.                                *)

\* The confirmed order satisfies the invariant.
LEMMA FulfilmentInit ==
  ASSUME Init PROVE FulfilmentInv
<1>1. TypeOK
  <2>1. /\ assigned \in [Slots -> BOOLEAN] /\ accepted \in [Plans -> BOOLEAN]
        /\ voided \in [Plans -> BOOLEAN] /\ incident \in [Plans -> BOOLEAN]
        /\ failedBefore \in BOOLEAN /\ retried \in BOOLEAN
    BY DEF Init
  <2>2. replaced \in 0..MaxReplacements /\ returns \in 0..MaxReturns
    BY BoundsAssumption DEF Init
  <2>3. /\ shape \in Shapes /\ order \in OrderStatus /\ phase \in PhaseStatus
        /\ job \in [Slots -> JobStatus]
        /\ reservation \in [Slots -> {"HELD", "PRINTING", "SETTLED", "RELEASED"}]
        /\ request \in [Slots -> {"NONE", "OPEN", "REFUND_REQUIRED", "RESOLVED"}]
        /\ origin \in [Slots -> {"FIRST", "REPLACEMENT", "REPRINT"}]
    BY DEF Init, OrderStatus, PhaseStatus, JobStatus, PreparedJobs
  <2> QED
    BY <2>1, <2>2, <2>3 DEF Init, TypeOK, ShipmentStatus, OpenClaims, OpenRefunds
<1>2. JobsSound BY SlotPlan DEF Init, JobsSound, JobSound, PreparedJobs, Custody, Away
<1>3. AggregateSound
  BY FollowsCases DEF Init, AggregateSound, Follows, AwaitingSound, CancelledSound, SettledSound
<1>4. ParcelsSound BY DEF Init, ParcelsSound, ParcelSound, Custody, ParcelGone, CancelledLeaf
<1>5. RefundsSound
  BY DEF Init, RefundsSound, RefundSound, ScopedRefund, RefundTerms, RefundedScan, RefundedAlone
<1>6. ClaimsSound BY DEF Init, ClaimsSound, ClaimSound, RemedyActive, DroppedOutcomes
<1>7. taven_reconcile_shipment_plan_slot_terminal_state
  BY DEF Init, taven_reconcile_shipment_plan_slot_terminal_state
<1>8. taven_reconcile_customer_cancellation_refund_order
  BY DEF Init, taven_reconcile_customer_cancellation_refund_order, OpenRefunds
<1> QED BY <1>1, <1>2, <1>3, <1>4, <1>5, <1>6, <1>7, <1>8 DEF FulfilmentInv

\* Every step keeps it: one lemma for each part.
LEMMA FulfilmentStep ==
  ASSUME FulfilmentInv, Next PROVE FulfilmentInv'
<1>0. Branches BY NextBranches DEF FulfilmentInv
<1>1. TypeOK' BY <1>0, TypeStep DEF FulfilmentInv
<1>2. JobsSound' BY <1>0, JobsStep DEF FulfilmentInv
<1>3. AggregateSound'
  BY <1>0, <1>1, PhaseStep, AwaitingStep, CancelledStep, SettledStep
  DEF FulfilmentInv, AggregateSound
<1>p. Plans' = Plans /\ (\A p : SlotsOf(p)' = SlotsOf(p)) BY <1>0, BranchShape
<1>4. ParcelsSound'
  <2> SUFFICES ASSUME NEW p \in Plans PROVE ParcelSound(p)' BY <1>p DEF ParcelsSound
  <2>1. ParcelGone(p)'
    BY <1>0, <1>1, ParcelGoneStep
  <2>2. CancelledLeaf(p)'
    BY <1>0, <1>1, <1>p, CancelledLeafStep DEF CancelledLeaf
  <2> QED BY <1>p, <2>1, <2>2 DEF ParcelSound, ParcelGone, CancelledLeaf
<1>5. RefundsSound'
  <2> SUFFICES ASSUME NEW p \in Plans PROVE RefundSound(p)' BY <1>p DEF RefundsSound
  <2>1. RefundTerms(p)'
    BY <1>0, <1>1, RefundTermsStep
  <2>2. RefundedScan(p)'
    BY <1>0, <1>1, RefundedScanStep DEF RefundedScan
  <2> QED BY <1>p, <2>1, <2>2 DEF RefundSound, RefundTerms, RefundedScan, RefundedAlone
<1>6. ClaimsSound' BY <1>0, <1>1, <1>p, ClaimTermsStep DEF ClaimsSound
<1>7. Reconciled'
  BY <1>0, TriggersStep DEF FulfilmentInv, Reconciled
<1> QED BY <1>1, <1>2, <1>3, <1>4, <1>5, <1>6, <1>7 DEF FulfilmentInv, Reconciled

\* A step that changes nothing keeps it.
LEMMA FulfilmentStutter ==
  ASSUME FulfilmentInv, UNCHANGED vars PROVE FulfilmentInv'
<1>1. /\ UNCHANGED <<shape, order, phase>>
      /\ UNCHANGED <<job, reservation, assigned, request, origin, replaced>>
      /\ UNCHANGED <<leaf, scan, outcome, returns, reprint, accepted, voided>>
      /\ UNCHANGED <<claim, incident, resolution>>
      /\ UNCHANGED <<reason, refund, failedBefore, cancellation, retried, balance>>
  BY DEF vars, aggregate, production, parcels, carrier, claims, money, scoped
<1>2. /\ Plans' = Plans /\ PlanOf' = PlanOf /\ SplitPayment' = SplitPayment
      /\ \A p : SlotsOf(p)' = SlotsOf(p)
  BY <1>1, SameShape
<1>3. TypeOK' BY <1>1, <1>2 DEF FulfilmentInv, TypeOK
<1>4. JobsSound' BY <1>1, <1>2 DEF FulfilmentInv, JobsSound, JobSound
<1>5. AggregateSound'
  <2>1. Follows' \/ Ahead'
    BY <1>1, <1>2, FollowsCases DEF FulfilmentInv, AggregateSound, Follows, Ahead, Leaves
  <2> QED
    BY <1>1, <1>2, <2>1, FollowsCasesNext
    DEF FulfilmentInv, AggregateSound, AwaitingSound, CancelledSound, SettledSound
<1>6. ParcelsSound'
  BY <1>1, <1>2 DEF FulfilmentInv, ParcelsSound, ParcelSound, Gone, ParcelGone, CancelledLeaf
<1>7. RefundsSound'
  BY <1>1, <1>2
  DEF FulfilmentInv, RefundsSound, RefundSound, ScopedRefund, RefundTerms, RefundedScan,
      RefundedAlone
<1>8. ClaimsSound' BY <1>1, <1>2 DEF FulfilmentInv, ClaimsSound, ClaimSound, RemedyActive
<1>9. Reconciled'
  BY <1>1, <1>2
  DEF FulfilmentInv, taven_reconcile_shipment_plan_slot_terminal_state,
      taven_reconcile_customer_cancellation_refund_order, RefundedReconciliation, Reconciled
<1> QED BY <1>3, <1>4, <1>5, <1>6, <1>7, <1>8, <1>9 DEF FulfilmentInv, Reconciled

\* The inductive invariant holds in every state of every order, the types
\* included.
THEOREM FulfilmentInvariant == Spec => []FulfilmentInv
<1>1. Init => FulfilmentInv BY FulfilmentInit
<1>2. FulfilmentInv /\ [Next]_vars => FulfilmentInv' BY FulfilmentStep, FulfilmentStutter
<1> QED BY <1>1, <1>2, PTL DEF Spec

\* The invariant implies that production is sound.
LEMMA ProductionIsSound == ASSUME FulfilmentInv PROVE ProductionSound
<1>1. ParcelLeavesWhole
  BY DEF FulfilmentInv, JobsSound, JobSound, ParcelLeavesWhole, JobsOf, SlotsOf, Away
<1>2. ReservationFollowsJob
  BY DEF FulfilmentInv, JobsSound, JobSound, ReservationFollowsJob, PreparedJobs, FailedJobs
<1>3. PhaseFollowsOrder BY DEF FulfilmentInv, AggregateSound
<1> QED BY <1>1, <1>2, <1>3 DEF ProductionSound

\* Jobs, reservations, parcels and phase stay in step through every command of
\* OrdersService, for every number of slots and parcels.
THEOREM ProductionStaysSound == Spec => []ProductionSound
BY FulfilmentInvariant, ProductionIsSound, PTL

\* While the whole order is being paid back, only the parcel it was paid for is
\* away.
LEMMA CancellationTakesGoods ==
  ASSUME FulfilmentInv, cancellation \in OpenRefunds \cup {"SUCCEEDED"}, NEW p \in Plans,
         leaf[p] \in {"HANDED_OVER", "IN_TRANSIT", "DELIVERED"}
  PROVE  scan[p] = "REFUNDED"
<1>1. CASE order = "CANCELLED"
  BY <1>1 DEF FulfilmentInv, AggregateSound, CancelledSound
<1>2. CASE order = "REFUNDED"
  <2>1. phase = "CANCELLED_REFUNDED"
    BY <1>2, FollowsCases DEF FulfilmentInv, AggregateSound, Follows, Ahead
  <2>2. outcome[p] = "CANCELLED_REFUNDED"
    BY <2>1 DEF FulfilmentInv, AggregateSound, SettledSound
  <2> QED BY <2>2 DEF FulfilmentInv, taven_reconcile_shipment_plan_slot_terminal_state
<1>3. CASE RefundedReconciliation
  <2>1. PICK q \in Plans : scan[q] = "REFUNDED" BY <1>3 DEF RefundedReconciliation
  <2>2. RefundSound(q) BY DEF FulfilmentInv, RefundsSound
  <2>3. q = p BY <2>1, <2>2 DEF RefundSound, RefundTerms, RefundedScan, RefundedAlone
  <2> QED BY <2>1, <2>3
<1> QED
  BY <1>1, <1>2, <1>3 DEF FulfilmentInv, taven_reconcile_customer_cancellation_refund_order

\* The invariant implies that nobody has both the goods and the money, nor
\* neither.
LEMMA GoodsAreOrMoney == ASSUME FulfilmentInv PROVE GoodsOrMoney
<1>1. NeverGoodsAndMoney
  <2> SUFFICES ASSUME NEW p \in Plans, leaf[p] \in {"HANDED_OVER", "IN_TRANSIT", "DELIVERED"}
               PROVE  /\ ~ScopedRefund(p)
                      /\ cancellation \in OpenRefunds \cup {"SUCCEEDED"} => scan[p] = "REFUNDED"
    BY DEF NeverGoodsAndMoney
  <2>1. ~ScopedRefund(p)
    BY DEF FulfilmentInv, RefundsSound, RefundSound, RefundTerms, RefundedScan, RefundedAlone
  <2> QED BY <2>1, CancellationTakesGoods
<1>2. DroppedGoodsOwed
  BY DEF FulfilmentInv, ClaimsSound, ClaimSound, DroppedGoodsOwed, Dropped, DroppedOutcomes,
         Settling, TypeOK, OpenRefunds, OpenClaims
<1> QED BY <1>1, <1>2 DEF GoodsOrMoney

\* No order ends, or ever is, with both the goods and the money on one side,
\* but for the cases the specification names, however scans, voids, refunds and
\* claims interleave.
THEOREM GoodsOrMoneyAlways == Spec => []GoodsOrMoney
BY FulfilmentInvariant, GoodsAreOrMoney, PTL

----------------------------------------------------------------------------
(* The refinement. Goods and money of a slot are those of its parcel, so  *)
(* the promise is kept parcel by parcel: each branch makes one of the     *)
(* moves below, and each move is a step of Promise.                       *)

\* Where the goods of a parcel are, and where its money is.
ParcelGoods(p) ==
  IF leaf[p] \in {"HANDED_OVER", "IN_TRANSIT"} THEN "SENT"
  ELSE IF leaf[p] = "DELIVERED" THEN "DELIVERED"
  ELSE IF leaf[p] \in {"LOST", "RETURNED", "RECOVERED"} THEN "MISSING"
  ELSE IF outcome[p] = "PENDING" THEN "OWED" ELSE "DROPPED"
ParcelMoney(p) ==
  IF refund[p] = "SUCCEEDED" \/ cancellation = "SUCCEEDED" THEN "RETURNED"
  ELSE IF reason[p] # "NONE" \/ order = "CANCELLED" THEN "CLAIMED" ELSE "KEPT"

\* The goods, or the money, of the parcels P move from one of the states from
\* to the state to, and the others stay.
GoodsMove(P, from, to) ==
  /\ \A q \in P : ParcelGoods(q) \in from /\ ParcelGoods(q)' = to
  /\ \A q \in Plans \ P : ParcelGoods(q)' = ParcelGoods(q)
MoneyMove(P, from, to) ==
  /\ \A q \in P : ParcelMoney(q) \in from /\ ParcelMoney(q)' = to
  /\ \A q \in Plans \ P : ParcelMoney(q)' = ParcelMoney(q)
SameGoods == \A q \in Plans : ParcelGoods(q)' = ParcelGoods(q)
SameMoney == \A q \in Plans : ParcelMoney(q)' = ParcelMoney(q)

\* The moves of Promise, for sets of parcels.
ParcelsKept == SameGoods /\ SameMoney
ParcelSent(P) == GoodsMove(P, {"OWED", "MISSING"}, "SENT") /\ MoneyMove(P, {"KEPT"}, "KEPT")
ParcelArrived(P) == GoodsMove(P, {"SENT"}, "DELIVERED") /\ SameMoney
ParcelLost(P) == GoodsMove(P, {"SENT"}, "MISSING") /\ SameMoney
ParcelRedone(P) == GoodsMove(P, {"MISSING"}, "OWED") /\ MoneyMove(P, {"KEPT"}, "KEPT")
ParcelDropped(P) == GoodsMove(P, {"OWED"}, "DROPPED") /\ MoneyMove(P, {"KEPT"}, "KEPT")
ParcelDroppedAndClaimed(P) ==
  GoodsMove(P, {"OWED"}, "DROPPED") /\ MoneyMove(P, {"KEPT"}, "CLAIMED")
ParcelClaimed(P) ==
  /\ SameGoods /\ MoneyMove(P, {"KEPT"}, "CLAIMED")
  /\ \A q \in P : ParcelGoods(q) \in {"DROPPED", "MISSING", "DELIVERED"}
ParcelReturned(P) == SameGoods /\ MoneyMove(P, {"CLAIMED"}, "RETURNED")
ParcelTakenBack(P) == GoodsMove(P, {"DROPPED"}, "SENT") /\ MoneyMove(Plans, {"CLAIMED"}, "KEPT")
ParcelForfeited(P) == GoodsMove(P, {"DROPPED"}, "SENT") /\ MoneyMove(P, {"RETURNED"}, "RETURNED")

\* A step makes one of the moves or none.
PromiseStep ==
  \/ ParcelsKept
  \/ \E P \in (SUBSET Plans) \ {{}} :
       \/ ParcelSent(P)
       \/ ParcelArrived(P)
       \/ ParcelLost(P)
       \/ ParcelRedone(P)
       \/ ParcelDropped(P)
       \/ ParcelDroppedAndClaimed(P)
       \/ ParcelClaimed(P)
       \/ ParcelReturned(P)
       \/ ParcelTakenBack(P)
       \/ ParcelForfeited(P)

\* The money of a slot is that of its parcel.
LEMMA SlotMoney ==
  ASSUME NEW s \in Slots PROVE MoneyOf(s) = ParcelMoney(PlanOf[s])
BY DEF MoneyOf, ParcelMoney

\* The goods of a slot are those of its parcel.
LEMMA SlotGoods ==
  ASSUME NEW s \in Slots
  PROVE  GoodsOf(s) = ParcelGoods(PlanOf[s]) /\ MoneyOf(s) = ParcelMoney(PlanOf[s])
<1> DEFINE p == PlanOf[s]
<1>1. CASE leaf[p] \in {"HANDED_OVER", "IN_TRANSIT"}
  <2>1. GoodsOf(s) = "SENT" BY <1>1 DEF GoodsOf
  <2> QED BY <1>1, <2>1, SlotMoney DEF ParcelGoods
<1>2. CASE leaf[p] = "DELIVERED"
  <2>1. GoodsOf(s) = "DELIVERED" BY <1>2 DEF GoodsOf
  <2> QED BY <1>2, <2>1, SlotMoney DEF ParcelGoods
<1>3. CASE leaf[p] \in {"LOST", "RETURNED", "RECOVERED"}
  <2>1. GoodsOf(s) = "MISSING" BY <1>3 DEF GoodsOf
  <2> QED BY <1>3, <2>1, SlotMoney DEF ParcelGoods
<1>4. CASE leaf[p] \notin {"HANDED_OVER", "IN_TRANSIT", "DELIVERED", "LOST", "RETURNED",
                            "RECOVERED"}
  <2>1. GoodsOf(s) = IF outcome[p] = "PENDING" THEN "OWED" ELSE "DROPPED" BY <1>4 DEF GoodsOf
  <2> QED BY <1>4, <2>1, SlotMoney DEF ParcelGoods
<1> QED BY <1>1, <1>2, <1>3, <1>4

\* The same after a step.
LEMMA SlotGoodsNext ==
  ASSUME NEW s \in Slots, PlanOf' = PlanOf
  PROVE  GoodsOf(s)' = ParcelGoods(PlanOf[s])' /\ MoneyOf(s)' = ParcelMoney(PlanOf[s])'
<1> DEFINE p == PlanOf[s]
<1>0. MoneyOf(s)' = ParcelMoney(p)' BY DEF MoneyOf, ParcelMoney
<1>1. CASE leaf'[p] \in {"HANDED_OVER", "IN_TRANSIT"}
  <2>1. GoodsOf(s)' = "SENT" BY <1>1 DEF GoodsOf
  <2> QED BY <1>0, <1>1, <2>1 DEF ParcelGoods
<1>2. CASE leaf'[p] = "DELIVERED"
  <2>1. GoodsOf(s)' = "DELIVERED" BY <1>2 DEF GoodsOf
  <2> QED BY <1>0, <1>2, <2>1 DEF ParcelGoods
<1>3. CASE leaf'[p] \in {"LOST", "RETURNED", "RECOVERED"}
  <2>1. GoodsOf(s)' = "MISSING" BY <1>3 DEF GoodsOf
  <2> QED BY <1>0, <1>3, <2>1 DEF ParcelGoods
<1>4. CASE leaf'[p] \notin {"HANDED_OVER", "IN_TRANSIT", "DELIVERED", "LOST", "RETURNED",
                            "RECOVERED"}
  <2>1. GoodsOf(s)' = IF outcome'[p] = "PENDING" THEN "OWED" ELSE "DROPPED" BY <1>4 DEF GoodsOf
  <2> QED BY <1>0, <1>4, <2>1 DEF ParcelGoods
<1> QED BY <1>1, <1>2, <1>3, <1>4

\* A move of parcels is a step of Promise for the slots packed in them.
LEMMA PromiseLifts ==
  ASSUME PlanOf' = PlanOf, PromiseStep
  PROVE  [Customer!Next]_(Customer!vars)
<1> DEFINE G == [s \in Slots |-> GoodsOf(s)]
           M == [s \in Slots |-> MoneyOf(s)]
           Of(P) == {s \in Slots : PlanOf[s] \in P}
<1>1. \A s \in Slots : /\ PlanOf[s] \in Plans
                       /\ G[s] = ParcelGoods(PlanOf[s]) /\ M[s] = ParcelMoney(PlanOf[s])
  BY SlotGoods, SlotPlan
<1>2. \A s \in Slots : G'[s] = ParcelGoods(PlanOf[s])' /\ M'[s] = ParcelMoney(PlanOf[s])'
  BY SlotGoodsNext
<1>3. \A P \in (SUBSET Plans) \ {{}} : Of(P) \in (SUBSET Slots) \ {{}}
  BY PlanSlot
<1>4. DOMAIN G = Slots /\ DOMAIN M = Slots OBVIOUS
<1>g. ASSUME NEW P \in SUBSET Plans, NEW from, NEW to, GoodsMove(P, from, to)
      PROVE Customer!Goods(Of(P), from, to)
  BY <1>g, <1>1, <1>2, <1>4 DEF GoodsMove, Customer!Goods
<1>m. ASSUME NEW P \in SUBSET Plans, NEW from, NEW to, MoneyMove(P, from, to)
      PROVE Customer!Money(Of(P), from, to)
  BY <1>m, <1>1, <1>2, <1>4 DEF MoneyMove, Customer!Money
<1>sg. SameGoods => G' = G BY <1>1, <1>2, <1>4 DEF SameGoods
<1>sm. SameMoney => M' = M BY <1>1, <1>2, <1>4 DEF SameMoney
<1>5. CASE ParcelsKept
  BY <1>5, <1>sg, <1>sm DEF ParcelsKept, Customer!vars
<1>6. ASSUME NEW P \in (SUBSET Plans) \ {{}},
             \/ ParcelSent(P)
             \/ ParcelArrived(P)
             \/ ParcelLost(P)
             \/ ParcelRedone(P)
             \/ ParcelDropped(P)
             \/ ParcelDroppedAndClaimed(P)
             \/ ParcelClaimed(P)
             \/ ParcelReturned(P)
             \/ ParcelTakenBack(P)
             \/ ParcelForfeited(P)
      PROVE Customer!Next
  <2>0. Of(P) \in (SUBSET Slots) \ {{}} BY <1>3
  <2>1. CASE ParcelSent(P)
    <3>1. Customer!Send(Of(P)) BY <1>g, <1>m, <1>sg, <1>sm, <2>1 DEF ParcelSent, Customer!Send
    <3> QED BY <2>0, <3>1 DEF Customer!Next
  <2>2. CASE ParcelArrived(P)
    <3>1. Customer!Arrive(Of(P))
      BY <1>g, <1>m, <1>sg, <1>sm, <2>2 DEF ParcelArrived, Customer!Arrive
    <3> QED BY <2>0, <3>1 DEF Customer!Next
  <2>3. CASE ParcelLost(P)
    <3>1. Customer!Lose(Of(P)) BY <1>g, <1>m, <1>sg, <1>sm, <2>3 DEF ParcelLost, Customer!Lose
    <3> QED BY <2>0, <3>1 DEF Customer!Next
  <2>4. CASE ParcelRedone(P)
    <3>1. Customer!Redo(Of(P)) BY <1>g, <1>m, <1>sg, <1>sm, <2>4 DEF ParcelRedone, Customer!Redo
    <3> QED BY <2>0, <3>1 DEF Customer!Next
  <2>5. CASE ParcelDropped(P)
    <3>1. Customer!Drop(Of(P))
      BY <1>g, <1>m, <1>sg, <1>sm, <2>5 DEF ParcelDropped, Customer!Drop
    <3> QED BY <2>0, <3>1 DEF Customer!Next
  <2>6. CASE ParcelDroppedAndClaimed(P)
    <3>1. Customer!DropAndClaim(Of(P))
      BY <1>g, <1>m, <1>sg, <1>sm, <2>6 DEF ParcelDroppedAndClaimed, Customer!DropAndClaim
    <3> QED BY <2>0, <3>1 DEF Customer!Next
  <2>7. CASE ParcelClaimed(P)
    <3>1. Customer!Money(Of(P), {"KEPT"}, "CLAIMED") BY <1>m, <2>7 DEF ParcelClaimed
    <3>2. G' = G BY <1>sg, <2>7 DEF ParcelClaimed
    <3>3. \A s \in Of(P) : G[s] \in {"DROPPED", "MISSING", "DELIVERED"}
      BY <1>1, <2>7 DEF ParcelClaimed
    <3>4. Customer!Goods({}, {}, "OWED") BY <3>2, <1>4 DEF Customer!Goods
    <3>5. Customer!Claim(Of(P)) BY <3>1, <3>3, <3>4 DEF Customer!Claim
    <3> QED BY <2>0, <3>5 DEF Customer!Next
  <2>8. CASE ParcelReturned(P)
    <3>1. Customer!Return(Of(P))
      BY <1>g, <1>m, <1>sg, <1>sm, <2>8 DEF ParcelReturned, Customer!Return
    <3> QED BY <2>0, <3>1 DEF Customer!Next
  <2>9. CASE ParcelTakenBack(P)
    <3>1. Customer!Goods(Of(P), {"DROPPED"}, "SENT") BY <1>g, <2>9 DEF ParcelTakenBack
    <3>2. Customer!Money(Of(Plans), {"CLAIMED"}, "KEPT") BY <1>m, <2>9 DEF ParcelTakenBack
    <3>3. Of(P) \subseteq Of(Plans) /\ Of(Plans) \in SUBSET Slots OBVIOUS
    <3>4. Customer!TakeBack(Of(P)) BY <3>1, <3>2, <3>3 DEF Customer!TakeBack
    <3> QED BY <2>0, <3>4 DEF Customer!Next
  <2>10. CASE ParcelForfeited(P)
    <3>1. Customer!Forfeit(Of(P))
      BY <1>g, <1>m, <1>sg, <1>sm, <2>10 DEF ParcelForfeited, Customer!Forfeit
    <3> QED BY <2>0, <3>1 DEF Customer!Next
  <2> QED BY <1>6, <2>1, <2>2, <2>3, <2>4, <2>5, <2>6, <2>7, <2>8, <2>9, <2>10
<1> QED BY <1>5, <1>6 DEF PromiseStep

\* A parcel that is still to leave has its money kept.
LEMMA ActiveLeaf ==
  ASSUME FulfilmentInv, NEW p \in Plans, leaf[p] \in {"PLANNED"} \cup LiveLabels
  PROVE  /\ outcome[p] = "PENDING" /\ reason[p] = "NONE" /\ refund[p] = "NONE"
         /\ cancellation # "SUCCEEDED" /\ order # "CANCELLED"
<1>1. outcome[p] = "PENDING"
  BY DEF FulfilmentInv, TypeOK, LiveLabels, taven_reconcile_shipment_plan_slot_terminal_state
<1>2. reason[p] = "NONE" /\ refund[p] = "NONE"
  BY DEF FulfilmentInv, TypeOK, LiveLabels, RefundsSound, RefundSound, ScopedRefund,
         RefundTerms, RefundedScan, RefundedAlone
<1>3. order # "CANCELLED"
  BY <1>1 DEF FulfilmentInv, AggregateSound, CancelledSound
<1>4. order # "REFUNDED"
  <2>1. phase # "CANCELLED_REFUNDED" BY <1>1 DEF FulfilmentInv, AggregateSound, SettledSound
  <2> QED BY <2>1, FollowsCases DEF FulfilmentInv, AggregateSound, Follows, Ahead
<1>5. ~RefundedReconciliation
  BY DEF FulfilmentInv, RefundsSound, RefundSound, RefundedReconciliation, LiveLabels, Custody,
         RefundTerms, RefundedScan, RefundedAlone
<1> QED
  BY <1>1, <1>2, <1>3, <1>4, <1>5
  DEF FulfilmentInv, taven_reconcile_customer_cancellation_refund_order

\* Nothing of an order that sent nothing is lost or paid back.
LEMMA UndeliveredOrder ==
  ASSUME FulfilmentInv, ~Gone, order # "CANCELLED", NEW p \in Plans
  PROVE  ParcelGoods(p) = "OWED" /\ ParcelMoney(p) = "KEPT"
<1>1. cancellation # "SUCCEEDED" BY NoCancellationRefund DEF FulfilmentInv
<1>2. ParcelSound(p) /\ RefundSound(p) BY DEF FulfilmentInv, ParcelsSound, RefundsSound
<1> QED
  BY <1>1, <1>2
  DEF ParcelSound, RefundSound, ParcelGoods, ParcelMoney, Custody, ParcelGone, CancelledLeaf,
      RefundTerms, RefundedScan, RefundedAlone

\* Everything of a cancelled order is given up, and its money claimed or back.
LEMMA CancelledOrder ==
  ASSUME FulfilmentInv, order = "CANCELLED", NEW p \in Plans
  PROVE  /\ ParcelGoods(p) = "DROPPED" /\ reason[p] = "NONE" /\ refund[p] = "NONE"
         /\ ParcelMoney(p) = IF cancellation = "SUCCEEDED" THEN "RETURNED" ELSE "CLAIMED"
<1>1. outcome[p] = "CANCELLED" /\ leaf[p] \in {"NONE", "CANCELLED"}
  BY DEF FulfilmentInv, AggregateSound, CancelledSound
<1>2. ParcelSound(p) /\ RefundSound(p) BY DEF FulfilmentInv, ParcelsSound, RefundsSound
<1>3. reason[p] = "NONE" /\ refund[p] = "NONE"
  BY <1>2
  DEF ParcelSound, RefundSound, Gone, ParcelGone, CancelledLeaf, RefundTerms, RefundedScan,
      RefundedAlone
<1> QED BY <1>1, <1>3 DEF ParcelGoods, ParcelMoney

\* A parcel that was paid back with its order is not sent again.
LEMMA RemedyKeepsMoney ==
  ASSUME FulfilmentInv, FulfilmentInv', Plans' = Plans, NEW p \in Plans,
         leaf[p] \in {"LOST", "RETURNED", "RECOVERED"}, reason[p] # "CLAIM",
         order = "SHIPPED", order' = "SHIPPED", cancellation' = cancellation,
         scan'[p] # "REFUNDED", \A q \in Plans : q # p => scan'[q] = scan[q]
  PROVE  reason[p] = "NONE" /\ refund[p] = "NONE" /\ cancellation # "SUCCEEDED"
<1>1. RefundSound(p) BY DEF FulfilmentInv, RefundsSound
<1>2. reason[p] = "NONE" /\ refund[p] = "NONE"
  BY <1>1
  DEF FulfilmentInv, TypeOK, RefundSound, ScopedRefund, RefundTerms, RefundedScan, RefundedAlone
<1>3. ASSUME cancellation = "SUCCEEDED" PROVE FALSE
  <2>1. RefundedReconciliation'
    BY <1>3 DEF FulfilmentInv, taven_reconcile_customer_cancellation_refund_order
  <2>2. PICK q \in Plans : q # p /\ scan[q] = "REFUNDED" BY <2>1 DEF RefundedReconciliation
  <2>3. RefundSound(q) BY DEF FulfilmentInv, RefundsSound
  <2> QED BY <2>2, <2>3 DEF RefundSound, RefundTerms, RefundedScan, RefundedAlone
<1> QED BY <1>2, <1>3

\* Nor is its claim paid a second time.
LEMMA ClaimPaidOnce ==
  ASSUME FulfilmentInv, NEW p \in Plans, Refundable(p) PROVE cancellation # "SUCCEEDED"
<1> SUFFICES ASSUME cancellation = "SUCCEEDED" PROVE FALSE OBVIOUS
<1>1. PICK s \in Slots : PlanOf[s] = p BY PlanSlot
<1> DEFINE S == {t \in Slots : PlanOf[t] \in {p}}
<1>2. IsFiniteSet(S) /\ S # {} BY <1>1, BoundsAssumption, FS_Subset
<1>3. Cardinality(S) \in Nat /\ Cardinality(S) # 0 BY <1>2, FS_EmptySet, FS_CardinalityType
<1>4. Worth({p}) = Cardinality(S) BY DEF Worth
<1>5. Worth(Credited) \in Nat /\ captured \in Nat BY WorthIsNat DEF captured
<1>6. Available = captured - Worth(Credited) - captured BY DEF Available
<1> QED BY <1>3, <1>4, <1>5, <1>6 DEF Refundable

\* Every branch makes a move the customer was promised.
LEMMA PromiseKept ==
  ASSUME FulfilmentInv, FulfilmentInv', Branches PROVE PromiseStep
<1> USE DEF aggregate, production, parcels, carrier, claims, scoped, money, Move, SameGoods,
            SameMoney, ParcelGoods, ParcelMoney, LiveLabels, TypeOK,
            taven_reconcile_shipment_plan_slot_terminal_state
<1>0. shape' = shape /\ Plans' = Plans /\ PlanOf' = PlanOf
  BY BranchShape
<1>a. /\ TypeOK /\ taven_reconcile_shipment_plan_slot_terminal_state
      /\ taven_reconcile_shipment_plan_slot_terminal_state'
  BY DEF FulfilmentInv
<1>1. ASSUME NEW s \in Slots, acceptJob(s) PROVE PromiseStep
  <2>1. ParcelsKept
    BY <1>1, <1>0, <1>a DEF acceptJob, SetJob, ParcelsKept
  <2> QED BY <2>1 DEF PromiseStep
<1>2. ASSUME NEW s \in Slots, startPrinting(s) PROVE PromiseStep
  <2>1. ParcelsKept
    BY <1>2, <1>0, <1>a DEF startPrinting, SetJob, ParcelsKept
  <2> QED BY <2>1 DEF PromiseStep
<1>3. ASSUME NEW s \in Slots, finishPrinting(s) PROVE PromiseStep
  <2>1. ParcelsKept
    BY <1>3, <1>0, <1>a DEF finishPrinting, SetJob, ParcelsKept
  <2> QED BY <2>1 DEF PromiseStep
<1>4. ASSUME NEW s \in Slots, submitQc(s) PROVE PromiseStep
  <2>1. ParcelsKept
    BY <1>4, <1>0, <1>a DEF submitQc, SetJob, ParcelsKept
  <2> QED BY <2>1 DEF PromiseStep
<1>5. ASSUME NEW s \in Slots, approveQc(s) PROVE PromiseStep
  <2>1. ParcelsKept
    BY <1>5, <1>0, <1>a DEF approveQc, SetJob, ParcelsKept
  <2> QED BY <2>1 DEF PromiseStep
<1>6. ASSUME NEW s \in Slots, packJob(s) PROVE PromiseStep
  <2>1. ParcelsKept
    BY <1>6, <1>0, <1>a DEF packJob, SetJob, markReadyToShipWhenFinanciallyReady, ParcelsKept
  <2> QED BY <2>1 DEF PromiseStep
<1>7. ASSUME NEW s \in Slots, failJob(s) PROVE PromiseStep
  <2>1. ParcelsKept
    BY <1>7, <1>0, <1>a
    DEF failJob, FailJobs, cancelProductionFailureParcelSiblings, StopProduction,
        voidOpenBalancePayments, Closed, FailedStatus, UnfinishedJobs, ParcelsKept
  <2> QED BY <2>1 DEF PromiseStep
<1>8. ASSUME NEW s \in Slots, FailReprintLabelled(s) PROVE PromiseStep
  <2>1. ParcelsKept
    BY <1>8, <1>0, <1>a
    DEF FailReprintLabelled, FailJobs, cancelProductionFailureParcelSiblings, StopProduction,
        voidOpenBalancePayments, Closed, FailedStatus, UnfinishedJobs, Siblings, RequestVoid,
        ParcelsKept
  <2> QED BY <2>1 DEF PromiseStep
<1>9. ASSUME NEW s \in Slots, FailReprintPlanned(s) PROVE PromiseStep
  <2>0. PICK p \in Plans : p = PlanOf[s] BY SlotPlan
  <2>1. leaf[p] \in {"PLANNED"} \cup LiveLabels
    BY <2>0, <1>9 DEF FailReprintPlanned
  <2>2. /\ outcome[p] = "PENDING" /\ reason[p] = "NONE" /\ refund[p] = "NONE"
        /\ cancellation # "SUCCEEDED" /\ order # "CANCELLED"
    BY <2>0, <2>1, ActiveLeaf
  <2>3. ParcelDropped({p})
    BY <1>9, <1>0, <1>a, <2>0, <2>1, <2>2
    DEF ParcelDropped, FailReprintPlanned, FailJobs, cancelProductionFailureParcelSiblings,
        StopProduction, voidOpenBalancePayments, Closed, FailedStatus, UnfinishedJobs, Siblings,
        CancelParcel, GoodsMove, MoneyMove
  <2> QED BY <2>0, <2>3 DEF PromiseStep
<1>10. ASSUME NEW s \in Slots, AbandonLabelled(s) PROVE PromiseStep
  <2>1. ParcelsKept
    BY <1>10, <1>0, <1>a
    DEF AbandonLabelled, FailJobs, cancelProductionFailureParcelSiblings, StopProduction,
        voidOpenBalancePayments, Closed, FailedStatus, UnfinishedJobs, Siblings, RequestVoid,
        ParcelsKept
  <2> QED BY <2>1 DEF PromiseStep
<1>11. ASSUME NEW s \in Slots, AbandonPlanned(s) PROVE PromiseStep
  <2>0. PICK p \in Plans : p = PlanOf[s] BY SlotPlan
  <2>1. leaf[p] \in {"PLANNED"} \cup LiveLabels
    BY <2>0, <1>11 DEF AbandonPlanned
  <2>2. /\ outcome[p] = "PENDING" /\ reason[p] = "NONE" /\ refund[p] = "NONE"
        /\ cancellation # "SUCCEEDED" /\ order # "CANCELLED"
    BY <2>0, <2>1, ActiveLeaf
  <2>3. ParcelDroppedAndClaimed({p})
    BY <1>11, <1>0, <1>a, <2>0, <2>1, <2>2
    DEF ParcelDroppedAndClaimed, AbandonPlanned, FailJobs,
        cancelProductionFailureParcelSiblings, StopProduction, voidOpenBalancePayments, Closed,
        FailedStatus, UnfinishedJobs, Siblings, CancelParcel, CreditParcel, GoodsMove, MoneyMove
  <2> QED BY <2>0, <2>3 DEF PromiseStep
<1>12. ASSUME NEW s \in Slots, createReplacement(s) PROVE PromiseStep
  <2>1. ParcelsKept
    BY <1>12, <1>0, <1>a DEF createReplacement, ParcelsKept
  <2> QED BY <2>1 DEF PromiseStep
<1>13. ASSUME NEW s \in Slots, ExpireLabelled(s) PROVE PromiseStep
  <2>1. ParcelsKept
    BY <1>13, <1>0, <1>a
    DEF ExpireLabelled, ExpireSiblings, cancelProductionFailureParcelSiblings, Closed,
        UnfinishedJobs, Siblings, RequestVoid, ParcelsKept
  <2> QED BY <2>1 DEF PromiseStep
<1>14. ASSUME NEW s \in Slots, ExpirePlanned(s) PROVE PromiseStep
  <2>0. PICK p \in Plans : p = PlanOf[s] BY SlotPlan
  <2>1. leaf[p] \in {"PLANNED"} \cup LiveLabels
    BY <2>0, <1>14 DEF ExpirePlanned, ExpireSiblings
  <2>2. /\ outcome[p] = "PENDING" /\ reason[p] = "NONE" /\ refund[p] = "NONE"
        /\ cancellation # "SUCCEEDED" /\ order # "CANCELLED"
    BY <2>0, <2>1, ActiveLeaf
  <2>3. ParcelDroppedAndClaimed({p})
    BY <1>14, <1>0, <1>a, <2>0, <2>1, <2>2
    DEF ParcelDroppedAndClaimed, ExpirePlanned, ExpireSiblings,
        cancelProductionFailureParcelSiblings, Closed, UnfinishedJobs, Siblings, CancelParcel,
        CreditParcel, GoodsMove, MoneyMove
  <2> QED BY <2>0, <2>3 DEF PromiseStep
<1>15. ASSUME NEW s \in Slots, ExpireVoids(s) PROVE PromiseStep
  <2>1. ParcelsKept
    BY <1>15, <1>0, <1>a DEF ExpireVoids, VoidLiveLabels, ParcelsKept
  <2> QED BY <2>1 DEF PromiseStep
<1>16. ASSUME NEW p \in Plans, createShipment(p) PROVE PromiseStep
  <2>1. ParcelsKept
    BY <1>16, <1>0, <1>a DEF createShipment, ParcelsKept
  <2> QED BY <2>1 DEF PromiseStep
<1>17. ASSUME NEW p \in Plans, labelShipment(p) PROVE PromiseStep
  <2>1. ParcelsKept
    BY <1>17, <1>0, <1>a DEF labelShipment, markReadyToShipWhenFinanciallyReady, ParcelsKept
  <2> QED BY <2>1 DEF PromiseStep
<1>18. ASSUME NEW p \in Plans, VoidReprintLabel(p) PROVE PromiseStep
  <2>0. p \in Plans OBVIOUS
  <2>1. leaf[p] \in {"PLANNED"} \cup LiveLabels
    BY <1>18 DEF VoidReprintLabel
  <2>2. /\ outcome[p] = "PENDING" /\ reason[p] = "NONE" /\ refund[p] = "NONE"
        /\ cancellation # "SUCCEEDED" /\ order # "CANCELLED"
    BY <2>0, <2>1, ActiveLeaf
  <2>3. ParcelDropped({p})
    BY <1>18, <1>0, <1>a, <2>0, <2>1, <2>2
    DEF ParcelDropped, VoidReprintLabel, VoidReprint, CancelParcel, GoodsMove, MoneyMove
  <2> QED BY <2>0, <2>3 DEF PromiseStep
<1>19. ASSUME NEW p \in Plans, NEW s \in Slots, VoidRefundsFailure(p, s) PROVE PromiseStep
  <2>0. p \in Plans OBVIOUS
  <2>1. leaf[p] \in {"PLANNED"} \cup LiveLabels
    BY <1>19 DEF VoidRefundsFailure, VoidOne
  <2>2. /\ outcome[p] = "PENDING" /\ reason[p] = "NONE" /\ refund[p] = "NONE"
        /\ cancellation # "SUCCEEDED" /\ order # "CANCELLED"
    BY <2>0, <2>1, ActiveLeaf
  <2>3. ParcelDroppedAndClaimed({p})
    BY <1>19, <1>0, <1>a, <2>0, <2>1, <2>2
    DEF ParcelDroppedAndClaimed, VoidRefundsFailure, VoidOne, CancelParcel, CreditParcel,
        GoodsMove, MoneyMove
  <2> QED BY <2>0, <2>3 DEF PromiseStep
<1>20. ASSUME NEW p \in Plans, VoidCancelsParcel(p) PROVE PromiseStep
  <2>0. p \in Plans OBVIOUS
  <2>1. leaf[p] \in {"PLANNED"} \cup LiveLabels
    BY <1>20 DEF VoidCancelsParcel, VoidOne
  <2>2. /\ outcome[p] = "PENDING" /\ reason[p] = "NONE" /\ refund[p] = "NONE"
        /\ cancellation # "SUCCEEDED" /\ order # "CANCELLED"
    BY <2>0, <2>1, ActiveLeaf
  <2>3. ParcelDroppedAndClaimed({p})
    BY <1>20, <1>0, <1>a, <2>0, <2>1, <2>2
    DEF ParcelDroppedAndClaimed, VoidCancelsParcel, VoidOne, finalizePartialCancellation,
        CancelParcel, CreditParcel, GoodsMove, MoneyMove
  <2> QED BY <2>0, <2>3 DEF PromiseStep
<1>21. ASSUME NEW p \in Plans, VoidOnly(p) PROVE PromiseStep
  <2>1. ParcelsKept
    BY <1>21, <1>0, <1>a DEF VoidOnly, ParcelsKept
  <2> QED BY <2>1 DEF PromiseStep
<1>22. ASSUME NEW p \in Plans, CarrierAccepts(p) PROVE PromiseStep
  <2>1. ParcelsKept
    BY <1>22, <1>0, <1>a DEF CarrierAccepts, ParcelsKept
  <2> QED BY <2>1 DEF PromiseStep
<1>23. ASSUME NEW p \in Plans, CarrierVoids(p) PROVE PromiseStep
  <2>1. ParcelsKept
    BY <1>23, <1>0, <1>a DEF CarrierVoids, ParcelsKept
  <2> QED BY <2>1 DEF PromiseStep
<1>24. ASSUME NEW p \in Plans, HandOverOrdinary(p) PROVE PromiseStep
  <2>0. p \in Plans OBVIOUS
  <2>1. leaf[p] \in {"PLANNED"} \cup LiveLabels
    BY <1>24 DEF HandOverOrdinary, handoffShipment
  <2>2. /\ outcome[p] = "PENDING" /\ reason[p] = "NONE" /\ refund[p] = "NONE"
        /\ cancellation # "SUCCEEDED" /\ order # "CANCELLED"
    BY <2>0, <2>1, ActiveLeaf
  <2>3. ParcelSent({p})
    BY <1>24, <1>0, <1>a, <2>0, <2>1, <2>2
    DEF ParcelSent, HandOverOrdinary, handoffShipment, HandOver, packingReady, GoodsMove,
        MoneyMove
  <2> QED BY <2>0, <2>3 DEF PromiseStep
<1>25. ASSUME NEW p \in Plans, HandOverRace(p) PROVE PromiseStep
  <2>0. p \in Plans OBVIOUS
  <2>1. leaf[p] \in {"PLANNED"} \cup LiveLabels
    BY <1>25 DEF HandOverRace, handoffShipment
  <2>2. /\ outcome[p] = "PENDING" /\ reason[p] = "NONE" /\ refund[p] = "NONE"
        /\ cancellation # "SUCCEEDED" /\ order # "CANCELLED"
    BY <2>0, <2>1, ActiveLeaf
  <2>3. ParcelSent({p})
    BY <1>25, <1>0, <1>a, <2>0, <2>1, <2>2
    DEF ParcelSent, HandOverRace, handoffShipment, HandOver, packingReady, GoodsMove, MoneyMove
  <2> QED BY <2>0, <2>3 DEF PromiseStep
<1>26. ASSUME NEW p \in Plans, RecordCustody(p) PROVE PromiseStep
  <2>1. ParcelsKept
    BY <1>26, <1>0, <1>a DEF RecordCustody, ParcelsKept
  <2> QED BY <2>1 DEF PromiseStep
<1>27. ASSUME NEW p \in Plans, ReconcilePaid(p) PROVE PromiseStep
  <2>1. /\ order' = "SHIPPED" /\ reason' = reason /\ refund' = refund
        /\ leaf' = [leaf EXCEPT ![p] = "HANDED_OVER"]
        /\ outcome' = [outcome EXCEPT ![p] = "PENDING"]
    BY <1>27 DEF ReconcilePaid, ReconcileWith, HandOver
  <2>2. order = "CANCELLED" BY <1>27, ReconcileOrder DEF ReconcilePaid, ReconcileWith
  <2>3. \A q \in Plans : /\ ParcelGoods(q) = "DROPPED" /\ reason[q] = "NONE" /\ refund[q] = "NONE"
                         /\ ParcelMoney(q) = IF cancellation = "SUCCEEDED" THEN "RETURNED"
                                             ELSE "CLAIMED"
    BY <2>2, CancelledOrder
  <2>4. GoodsMove({p}, {"DROPPED"}, "SENT")
    BY <1>a, <2>1, <2>3 DEF GoodsMove
  <2>5. cancellation = "SUCCEEDED" /\ cancellation' = "SUCCEEDED" BY <1>27 DEF ReconcilePaid
  <2>6. MoneyMove({p}, {"RETURNED"}, "RETURNED") BY <2>3, <2>5 DEF MoneyMove
  <2>7. ParcelForfeited({p}) BY <2>4, <2>6 DEF ParcelForfeited
  <2> QED BY <2>7 DEF PromiseStep
<1>28. ASSUME NEW p \in Plans, ReconcileUnpaid(p) PROVE PromiseStep
  <2>1. /\ order' = "SHIPPED" /\ reason' = reason /\ refund' = refund
        /\ leaf' = [leaf EXCEPT ![p] = "HANDED_OVER"]
        /\ outcome' = [outcome EXCEPT ![p] = "PENDING"]
    BY <1>28 DEF ReconcileUnpaid, ReconcileWith, HandOver
  <2>2. order = "CANCELLED" BY <1>28, ReconcileOrder DEF ReconcileUnpaid, ReconcileWith
  <2>3. \A q \in Plans : /\ ParcelGoods(q) = "DROPPED" /\ reason[q] = "NONE" /\ refund[q] = "NONE"
                         /\ ParcelMoney(q) = IF cancellation = "SUCCEEDED" THEN "RETURNED"
                                             ELSE "CLAIMED"
    BY <2>2, CancelledOrder
  <2>4. GoodsMove({p}, {"DROPPED"}, "SENT")
    BY <1>a, <2>1, <2>3 DEF GoodsMove
  <2>5. cancellation # "SUCCEEDED" /\ cancellation' # "SUCCEEDED" BY <1>28 DEF ReconcileUnpaid
  <2>6. MoneyMove(Plans, {"CLAIMED"}, "KEPT")
    BY <2>1, <2>3, <2>5 DEF MoneyMove
  <2>7. ParcelTakenBack({p}) BY <2>4, <2>6 DEF ParcelTakenBack
  <2> QED BY <2>7 DEF PromiseStep
<1>29. ASSUME NEW p \in Plans, ApplyDelivery(p) PROVE PromiseStep
  <2>0. p \in Plans OBVIOUS
  <2>3. ParcelArrived({p})
    BY <1>29, <1>0, <1>a DEF ParcelArrived, ApplyDelivery, CarrierMoves, GoodsMove, MoneyMove
  <2> QED BY <2>0, <2>3 DEF PromiseStep
<1>30. ASSUME NEW p \in Plans, NEW to \in {"LOST", "RETURNED"}, RemedyFails(p, to)
       PROVE  PromiseStep
  <2>0. p \in Plans OBVIOUS
  <2>3. ParcelLost({p})
    BY <1>30, <1>0, <1>a DEF ParcelLost, RemedyFails, CarrierMoves, GoodsMove, MoneyMove
  <2> QED BY <2>0, <2>3 DEF PromiseStep
<1>31. ASSUME NEW p \in Plans, NEW to \in {"LOST", "RETURNED"}, IncidentOpens(p, to)
       PROVE  PromiseStep
  <2>0. p \in Plans OBVIOUS
  <2>3. ParcelLost({p})
    BY <1>31, <1>0, <1>a DEF ParcelLost, IncidentOpens, CarrierMoves, GoodsMove, MoneyMove
  <2> QED BY <2>0, <2>3 DEF PromiseStep
<1>32. ASSUME NEW p \in Plans, ApplyProgress(p) PROVE PromiseStep
  <2>1. ParcelsKept
    BY <1>32, <1>0, <1>a DEF ApplyProgress, CarrierMoves, ParcelsKept
  <2> QED BY <2>1 DEF PromiseStep
<1>33. ASSUME NEW p \in Plans, OpenClaim(p) PROVE PromiseStep
  <2>1. ParcelsKept
    BY <1>33, <1>0, <1>a DEF OpenClaim, ParcelsKept
  <2> QED BY <2>1 DEF PromiseStep
<1>34. ASSUME NEW p \in Plans, NEW end \in {"RESOLVED_REJECTED", "WITHDRAWN"}, CloseClaim(p, end)
       PROVE  PromiseStep
  <2>1. ParcelsKept
    BY <1>34, <1>0, <1>a DEF CloseClaim, ParcelsKept
  <2> QED BY <2>1 DEF PromiseStep
<1>35. ASSUME NEW p \in Plans, Reprint(p) PROVE PromiseStep
  <2>0. p \in Plans OBVIOUS
  <2>1. /\ leaf[p] \in {"LOST", "RETURNED", "RECOVERED"} /\ reason[p] # "CLAIM"
        /\ order = "SHIPPED" /\ order' = "SHIPPED" /\ cancellation' = cancellation
        /\ scan'[p] # "REFUNDED" /\ \A q \in Plans : q # p => scan'[q] = scan[q]
    BY <1>35, <1>a DEF Reprint, Remedy
  <2>2. reason[p] = "NONE" /\ refund[p] = "NONE" /\ cancellation # "SUCCEEDED"
    BY <1>0, <2>1, RemedyKeepsMoney
  <2>3. ParcelRedone({p})
    BY <1>35, <1>0, <1>a, <2>1, <2>2 DEF ParcelRedone, Reprint, Remedy, GoodsMove, MoneyMove
  <2> QED BY <2>0, <2>3 DEF PromiseStep
<1>36. ASSUME NEW p \in Plans, handoffReshipment(p) PROVE PromiseStep
  <2>0. p \in Plans OBVIOUS
  <2>1. /\ leaf[p] \in {"LOST", "RETURNED", "RECOVERED"} /\ reason[p] # "CLAIM"
        /\ order = "SHIPPED" /\ order' = "SHIPPED" /\ cancellation' = cancellation
        /\ scan'[p] # "REFUNDED" /\ \A q \in Plans : q # p => scan'[q] = scan[q]
    BY <1>36, <1>a DEF handoffReshipment, Remedy
  <2>2. reason[p] = "NONE" /\ refund[p] = "NONE" /\ cancellation # "SUCCEEDED"
    BY <1>0, <2>1, RemedyKeepsMoney
  <2>3. ParcelSent({p})
    BY <1>36, <1>0, <1>a, <2>1, <2>2
    DEF ParcelSent, handoffReshipment, Remedy, GoodsMove, MoneyMove
  <2> QED BY <2>0, <2>3 DEF PromiseStep
<1>37. ASSUME NEW p \in Plans, refundClaim(p) PROVE PromiseStep
  <2>1. /\ UNCHANGED <<order, leaf, outcome, cancellation>> /\ Refundable(p)
        /\ reason' = [reason EXCEPT ![p] = "CLAIM"] /\ refund' = [refund EXCEPT ![p] = "PENDING"]
    BY <1>37 DEF refundClaim, CreditParcel
  <2>2. ParcelSound(p) /\ RefundSound(p) /\ ClaimSound(p)
    BY DEF FulfilmentInv, ParcelsSound, RefundsSound, ClaimsSound
  <2>3. claim[p] \in OpenClaims /\ reason[p] = "NONE" /\ refund[p] = "NONE"
    BY <1>37, <2>1, <2>2
    DEF refundClaim, Refundable, RefundSound, RefundTerms, RefundedScan, RefundedAlone
  <2>4. cancellation # "SUCCEEDED" BY <2>1, ClaimPaidOnce
  <2>5. order # "CANCELLED"
    BY <2>2, <2>3 DEF ParcelSound, OpenClaims, Gone, ParcelGone, CancelledLeaf
  <2>6. leaf[p] \in {"LOST", "RETURNED", "RECOVERED", "DELIVERED", "CANCELLED"}
    BY <1>37, <2>2 DEF refundClaim, ClaimSound, OpenClaims
  <2>7. ParcelGoods(p) \in {"DROPPED", "MISSING", "DELIVERED"}
    BY <1>a, <2>6
  <2>8. SameGoods BY <2>1
  <2>9. MoneyMove({p}, {"KEPT"}, "CLAIMED")
    BY <1>a, <2>1, <2>3, <2>4, <2>5 DEF MoneyMove
  <2>10. ParcelClaimed({p}) BY <2>7, <2>8, <2>9 DEF ParcelClaimed
  <2> QED BY <2>10 DEF PromiseStep
<1>38. ASSUME NEW p \in Plans, dispatchRefund(p) PROVE PromiseStep
  <2>1. ParcelsKept
    BY <1>38, <1>0, <1>a DEF dispatchRefund, ParcelsKept
  <2> QED BY <2>1 DEF PromiseStep
<1>39. ASSUME NEW p \in Plans, RefundArrives(p) PROVE PromiseStep
  <2>1. /\ leaf' = leaf /\ reason' = reason /\ cancellation' = cancellation
        /\ refund' = [refund EXCEPT ![p] = "SUCCEEDED"]
        /\ order' = "CANCELLED" <=> order = "CANCELLED"
    BY <1>39 DEF RefundArrives, RefundSucceeded
  <2>2. RefundSound(p) BY DEF FulfilmentInv, RefundsSound
  <2>3. refund[p] \in {"SENT", "FAILED"} /\ reason[p] # "NONE"
    BY <1>39, <2>2 DEF RefundArrives, RefundSound, RefundTerms, RefundedScan, RefundedAlone
  <2>4. \A q \in Plans : q # p => outcome'[q] = outcome[q]
    BY <1>39, <1>a DEF RefundArrives, RefundSucceeded
  <2>5. leaf[p] \in {"LOST", "RETURNED", "RECOVERED", "DELIVERED", "CANCELLED"}
    BY <1>a, <2>2, <2>3 DEF RefundSound, ScopedRefund, RefundTerms, RefundedScan, RefundedAlone
  <2>10. ParcelGoods(p)' = ParcelGoods(p)
    BY <1>0, <1>a, <2>1, <2>5
  <2>6. SameGoods
    BY <2>1, <2>4, <2>10
  <2>7. CASE cancellation = "SUCCEEDED"
    <3>1. SameMoney BY <2>1, <2>7
    <3> QED BY <2>6, <3>1 DEF PromiseStep, ParcelsKept
  <2>8. CASE cancellation # "SUCCEEDED"
    <3>1. MoneyMove({p}, {"CLAIMED"}, "RETURNED")
      BY <1>a, <2>1, <2>3, <2>8 DEF MoneyMove
    <3>2. ParcelReturned({p}) BY <2>6, <3>1 DEF ParcelReturned
    <3> QED BY <3>2 DEF PromiseStep
  <2> QED BY <2>7, <2>8
<1>40. ASSUME NEW p \in Plans, RefundFails(p) PROVE PromiseStep
  <2>1. ParcelsKept
    BY <1>40, <1>0, <1>a DEF RefundFails, ParcelsKept
  <2> QED BY <2>1 DEF PromiseStep
<1>41. ASSUME NEW p \in Plans, retryRefund(p) PROVE PromiseStep
  <2>1. ParcelsKept
    BY <1>41, <1>0, <1>a DEF retryRefund, ParcelsKept
  <2> QED BY <2>1 DEF PromiseStep
<1>42. ASSUME CancelVoids PROVE PromiseStep
  <2>1. ParcelsKept
    BY <1>42, <1>0, <1>a DEF CancelVoids, VoidLiveLabels, ParcelsKept
  <2> QED BY <2>1 DEF PromiseStep
<1>43. ASSUME NEW gone \in SUBSET Plans, NEW owed \in SUBSET Slots, EndOrder(gone, owed)
       PROVE  PromiseStep
  <2>1. /\ order' = "CANCELLED" /\ reason' = reason /\ refund' = refund
        /\ cancellation' = IF Available > 0 THEN "PENDING" ELSE cancellation
    BY <1>43 DEF EndOrder, finalizeCancellation
  <2>2. \A q \in Plans : outcome'[q] = "CANCELLED" /\ leaf'[q] \in {"NONE", "CANCELLED"}
    BY <1>0, <1>43, CommitCancelled DEF EndOrder, finalizeCancellation
  <2>3. \A q \in Plans : ParcelGoods(q)' = "DROPPED" BY <2>2
  <2>4. CASE order # "CANCELLED" /\ Plans # {}
    <3>1. ~Gone BY <1>43, <2>4, EndOrderRefunds DEF FulfilmentInv
    <3>2. \A q \in Plans : ParcelGoods(q) = "OWED" /\ ParcelMoney(q) = "KEPT"
      BY <2>4, <3>1, UndeliveredOrder
    <3>3. \A q \in Plans : ParcelMoney(q)' = "CLAIMED"
      BY <2>1, <3>2
    <3>4. PICK P : P = Plans OBVIOUS
    <3>5. ParcelDroppedAndClaimed(P)
      BY <2>3, <3>2, <3>3, <3>4 DEF ParcelDroppedAndClaimed, GoodsMove, MoneyMove
    <3> QED BY <2>4, <3>4, <3>5 DEF PromiseStep
  <2>5. CASE order = "CANCELLED"
    <3>1. \A q \in Plans : ParcelGoods(q) = "DROPPED" /\ reason[q] = "NONE" /\ refund[q] = "NONE"
      BY <2>5, CancelledOrder
    <3>2. Worth(Credited) \in Nat /\ captured \in Nat BY WorthIsNat DEF captured
    <3>3. cancellation = "SUCCEEDED" => cancellation' = "SUCCEEDED"
      BY <2>1, <3>2 DEF Available
    <3>4. cancellation # "SUCCEEDED" => cancellation' # "SUCCEEDED" BY <2>1
    <3>5. SameMoney BY <2>1, <2>5, <3>1, <3>3, <3>4
    <3>6. SameGoods BY <2>3, <3>1
    <3> QED BY <3>5, <3>6 DEF PromiseStep, ParcelsKept
  <2>6. CASE Plans = {}
    BY <2>6 DEF PromiseStep, ParcelsKept
  <2> QED BY <2>4, <2>5, <2>6
<1>44. ASSUME completeOrder PROVE PromiseStep
  <2>1. ParcelsKept
    BY <1>44, <1>0, <1>a DEF completeOrder, ParcelsKept
  <2> QED BY <2>1 DEF PromiseStep
<1>45. ASSUME CancellationMoves PROVE PromiseStep
  <2>1. UNCHANGED <<order, leaf, outcome, refund, reason, scan>>
    BY <1>45 DEF CancellationMoves
  <2>2. SameGoods BY <2>1
  <2>3. CASE cancellation' # "SUCCEEDED"
    <3>1. cancellation # "SUCCEEDED" BY <1>45 DEF CancellationMoves
    <3>2. SameMoney BY <2>1, <2>3, <3>1
    <3> QED BY <2>2, <3>2 DEF PromiseStep, ParcelsKept
  <2>4. CASE cancellation' = "SUCCEEDED" /\ Plans # {}
    <3>1. cancellation # "SUCCEEDED" BY <1>45, <2>4 DEF CancellationMoves
    <3>2. ~RefundedReconciliation
      BY <3>1
      DEF FulfilmentInv, RefundsSound, RefundSound, RefundedReconciliation, RefundTerms,
          RefundedScan, RefundedAlone
    <3>3. order \in {"CANCELLED", "REFUNDED"}
      BY <1>0, <2>1, <2>4, <3>2
      DEF FulfilmentInv, RefundedReconciliation,
          taven_reconcile_customer_cancellation_refund_order
    <3>4. order # "REFUNDED"
      <4>1. SUFFICES ASSUME order = "REFUNDED" PROVE FALSE OBVIOUS
      <4>2. phase = "CANCELLED_REFUNDED"
        BY <4>1, FollowsCases DEF FulfilmentInv, AggregateSound, Follows, Ahead
      <4>3. \A q \in Plans : refund[q] = "SUCCEEDED"
        BY <4>2
        DEF FulfilmentInv, AggregateSound, SettledSound, RefundsSound, RefundSound, RefundTerms,
            RefundedScan, RefundedAlone
      <4>4. Committed' = {}
        BY <1>45, <2>4 DEF CancellationMoves, refund_captured_payment_check
      <4> QED BY <1>0, <2>1, <2>4, <4>3, <4>4 DEF Committed
    <3>5. \A q \in Plans : ParcelMoney(q) = "CLAIMED"
      BY <3>1, <3>3, <3>4, CancelledOrder
    <3>6. \A q \in Plans : ParcelMoney(q)' = "RETURNED" BY <2>4
    <3>7. PICK P : P = Plans OBVIOUS
    <3>8. ParcelReturned(P) BY <2>2, <3>5, <3>6, <3>7 DEF ParcelReturned, MoneyMove
    <3> QED BY <2>4, <3>7, <3>8 DEF PromiseStep
  <2>5. CASE Plans = {}
    BY <2>5 DEF PromiseStep, ParcelsKept
  <2> QED BY <2>3, <2>4, <2>5
<1>46. ASSUME createBalancePayment PROVE PromiseStep
  <2>1. ParcelsKept
    BY <1>46, <1>0, <1>a DEF createBalancePayment, ParcelsKept
  <2> QED BY <2>1 DEF PromiseStep
<1>47. ASSUME BalanceEvent PROVE PromiseStep
  <2>1. ParcelsKept
    BY <1>47, <1>0, <1>a DEF BalanceEvent, ParcelsKept
  <2> QED BY <2>1 DEF PromiseStep
<1> QED
  BY <1>1, <1>2, <1>3, <1>4, <1>5, <1>6, <1>7, <1>8, <1>9, <1>10, <1>11, <1>12, <1>13, <1>14,
     <1>15, <1>16, <1>17, <1>18, <1>19, <1>20, <1>21, <1>22, <1>23, <1>24, <1>25, <1>26, <1>27,
     <1>28, <1>29, <1>30, <1>31, <1>32, <1>33, <1>34, <1>35, <1>36, <1>37, <1>38, <1>39, <1>40,
     <1>41, <1>42, <1>43, <1>44, <1>45, <1>46, <1>47 DEF Branches

\* The confirmed order owes the goods and keeps the money.
LEMMA PromiseInit == ASSUME Init PROVE Customer!Init
<1>1. \A s \in Slots : PlanOf[s] \in Plans BY SlotPlan
<1>2. \A s \in Slots : GoodsOf(s) = "OWED" /\ MoneyOf(s) = "KEPT"
  BY <1>1, SlotGoods DEF Init, ParcelGoods, ParcelMoney
<1> QED BY <1>2 DEF Customer!Init

\* A step that changes nothing moves neither.
LEMMA PromiseStutters ==
  ASSUME UNCHANGED vars PROVE UNCHANGED Customer!vars
<1>1. shape' = shape /\ leaf' = leaf /\ outcome' = outcome /\ refund' = refund
      /\ cancellation' = cancellation /\ reason' = reason /\ order' = order
  BY DEF vars, aggregate, parcels, money, scoped
<1>2. PlanOf' = PlanOf BY <1>1, SameShape
<1>3. \A s \in Slots : GoodsOf(s)' = GoodsOf(s) /\ MoneyOf(s)' = MoneyOf(s)
  BY <1>1, <1>2, SlotGoods, SlotGoodsNext DEF ParcelGoods, ParcelMoney
<1> QED BY <1>3 DEF Customer!vars

\* The fulfilment of every order implements Promise: whatever the interleaving,
\* each slot follows the moves of goods and money the customer was promised.
THEOREM FulfilmentKeepsPromise == Spec => CustomerPromise
<1>1. Init => Customer!Init BY PromiseInit
<1>2. FulfilmentInv /\ FulfilmentInv' /\ [Next]_vars => [Customer!Next]_(Customer!vars)
  <2>1. ASSUME FulfilmentInv, FulfilmentInv', Next PROVE [Customer!Next]_(Customer!vars)
    <3>1. Branches BY <2>1, NextBranches DEF FulfilmentInv
    <3>2. PromiseStep BY <2>1, <3>1, PromiseKept
    <3> QED BY <3>1, <3>2, BranchShape, PromiseLifts
  <2> QED BY <2>1, PromiseStutters
<1> QED BY <1>1, <1>2, FulfilmentInvariant, PTL DEF Spec, CustomerPromise, Customer!Spec

=============================================================================
