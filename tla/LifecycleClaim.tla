------------------------- MODULE LifecycleClaim -------------------------
(***************************************************************************)
(* The Claim and ClaimSlotResolution policies of                           *)
(* packages/core/src/lifecycle: one claim over a set of slots, each slot   *)
(* taking its own remedy (reship, reprint or refund), under one parent     *)
(* that ends only when every child has ended.                              *)
(*                                                                         *)
(* As in LifecycleOrder, the evidence of a guard is the current state, and *)
(* a result the guard calls atomic is one action.                          *)
(***************************************************************************)
EXTENDS Naturals, FiniteSets

CONSTANTS ClaimSlots,    \* the slots the claim owns
          MaxRemedies    \* bound: remedy shipments started for one slot

ASSUME ClaimAssumption == /\ ClaimSlots # {} /\ IsFiniteSet(ClaimSlots)
                          /\ MaxRemedies \in Nat

VARIABLES claimStatus,   \* ClaimStatus
          origin,        \* "post_delivery_quality" or "shipment_incident"
          grouped,       \* are replacements set up as one resource-group set
          clean,         \* no incident and no handed-off remedy so far
          resolution,    \* slot -> ClaimSlotResolutionStatus
          parcel,        \* slot -> status of the current shipment lineage leaf
          leaf,          \* slot -> what that leaf is
          rjob,          \* slot -> status of its current replacement job
          auth,          \* slot -> its reshipment or fulfilment authorization
          rset,          \* slot -> the replacement set it was started in
          remedies,      \* slot -> remedy shipments started
          owned          \* slots whose active claim this is; the retention
                         \* hold lasts while there is one

claimVars == <<claimStatus, origin, grouped, clean, resolution, parcel, leaf, rjob,
               auth, rset, remedies, owned>>
parentVars == <<claimStatus, origin, grouped, owned>>

ClaimStatus == {"opened", "investigating", "active", "resolved_rejected",
  "resolved_reprint", "resolved_reship", "resolved_refund", "resolved_mixed",
  "withdrawn"}
ResolutionStatus == {"pending", "rejected", "reship_pending", "reship_shipped",
  "delivered_reship", "reprint_pending", "replacement_in_production",
  "replacement_shipped", "delivered_reprint", "refund_pending", "refunded",
  "recovery_pending", "withdrawn"}
ParcelStatus == {"planned", "label_created", "cancellation_pending", "cancelled",
  "handed_over", "in_transit", "delivered", "lost", "returned", "recovered"}
LeafKind == {"original", "reship", "reprint"}
JobState == {"none", "created", "packed", "failed", "cancelled", "handed_over"}
AuthStatus == {"none", "issued", "consumed", "invalidated"}

\* claimPolicy.transitions
claimTransitions ==
  UNION {{"opened"} \X {"investigating", "withdrawn"},
         {"investigating"} \X {"active", "resolved_rejected", "withdrawn"},
         {"active"} \X {"resolved_reprint", "resolved_reship", "resolved_refund",
                        "resolved_mixed", "withdrawn"}}

\* claimSlotResolutionPolicy.transitions
resolutionTransitions ==
  UNION {{"pending"} \X {"rejected", "reship_pending", "reprint_pending",
                         "refund_pending", "withdrawn"},
         {"reship_pending"} \X {"reship_shipped", "refund_pending", "withdrawn"},
         {"reship_shipped"} \X {"delivered_reship", "recovery_pending"},
         {"reprint_pending"} \X {"replacement_in_production", "refund_pending",
                                 "withdrawn"},
         {"replacement_in_production"} \X {"replacement_shipped", "refund_pending",
                                           "recovery_pending", "withdrawn"},
         {"replacement_shipped"} \X {"delivered_reprint", "recovery_pending"},
         {"refund_pending"} \X {"refunded"},
         {"recovery_pending"} \X {"reship_pending", "reprint_pending",
                                  "refund_pending", "withdrawn"}}

MoveClaim(to) == /\ <<claimStatus, to>> \in claimTransitions
                 /\ claimStatus' = to
\* Every slot of S moves to the target in one result.
MoveSlots(S, to) ==
  /\ S # {} /\ \A s \in S : <<resolution[s], to>> \in resolutionTransitions
  /\ resolution' = [s \in ClaimSlots |-> IF s \in S THEN to ELSE resolution[s]]
SetOn(f, S, v) == [s \in ClaimSlots |-> IF s \in S THEN v ELSE f[s]]

preHandoffParcel == {"planned", "label_created", "cancellation_pending"}
liveJob == {"created", "packed"}
terminalClaim == ClaimStatus \ {"opened", "investigating", "active"}

\* claimTerminalProjection
claimTerminalProjection ==
  [rejected |-> "resolved_rejected", delivered_reship |-> "resolved_reship",
   delivered_reprint |-> "resolved_reprint", refunded |-> "resolved_refund",
   withdrawn |-> "withdrawn"]

\* projectClaimTerminalStatus: nothing for a set with a child that has not
\* ended, or that mixes rejected or withdrawn children with others.
projectClaimTerminalStatus(statuses) ==
  {t \in terminalClaim :
     /\ statuses \subseteq DOMAIN claimTerminalProjection
     /\ \/ \E c \in statuses : statuses = {c} /\ t = claimTerminalProjection[c]
        \/ /\ Cardinality(statuses) > 1
           /\ statuses \cap {"rejected", "withdrawn"} = {}
           /\ t = "resolved_mixed"}

\* The status of every owned child after the result.
ChildStatuses == {resolution'[s] : s \in ClaimSlots}

\* requireCompleteClaimResolutionSet: the terminal target is the projection of
\* the complete child set, and every slot and the retention hold are released.
requireCompleteClaimResolutionSet(to) ==
  /\ to \in projectClaimTerminalStatus(ChildStatuses)
  /\ owned' = {}

-----------------------------------------------------------------------------
\* The parent.

\* requireExactClaimInvestigationSource
Investigate ==
  /\ MoveClaim("investigating")
  /\ UNCHANGED <<origin, grouped, clean, resolution, parcel, leaf, rjob, auth, rset, remedies,
                 owned>>

\* requireAtomicWholeClaimRejection
RejectClaim ==
  /\ clean
  /\ MoveSlots(ClaimSlots, "rejected")
  /\ MoveClaim("resolved_rejected")
  /\ requireCompleteClaimResolutionSet("resolved_rejected")
  /\ UNCHANGED <<origin, grouped, clean, parcel, leaf, rjob, auth, rset, remedies>>

\* The slots of S with a remedy that has not been handed off, each with the
\* evidence of its shipment and label.
OpenRemedies(S) == {s \in S : leaf[s] # "original" /\ parcel[s] \in preHandoffParcel}

CancelRemedyShipments(S) == parcel' = SetOn(parcel, OpenRemedies(S), "cancelled")
CancelRemedyJobs(S) ==
  rjob' = SetOn(rjob, {s \in S : rjob[s] \in liveJob}, "cancelled")
InvalidateAuthorizations(S) ==
  auth' = SetOn(auth, {s \in S : auth[s] = "issued"}, "invalidated")

\* The cancellation a withdrawal, a refund and a recovery wait for: each remedy
\* shipment is cancelled (a label only by a succeeded provider void), its job
\* cancelled with its reservation settled, its authorization invalidated.
CancelRemedies(S) ==
  /\ CancelRemedyShipments(S)
  /\ CancelRemedyJobs(S)
  /\ InvalidateAuthorizations(S)

\* requireAtomicWholeClaimWithdrawal: every child withdraws at once, with the
\* complete pre-handoff cancellation when any child had left pending.
WithdrawClaim ==
  /\ clean
  /\ MoveSlots(ClaimSlots, "withdrawn")
  /\ MoveClaim("withdrawn")
  /\ requireCompleteClaimResolutionSet("withdrawn")
  /\ CancelRemedies(ClaimSlots)
  /\ UNCHANGED <<origin, grouped, clean, leaf, rset, remedies>>

ConcludeClaim(to) ==
  /\ claimStatus = "active" /\ to # "withdrawn" /\ MoveClaim(to)
  /\ UNCHANGED resolution
  /\ requireCompleteClaimResolutionSet(to)
  /\ UNCHANGED <<origin, grouped, clean, parcel, leaf, rjob, auth, rset, remedies>>

-----------------------------------------------------------------------------
\* Choosing a remedy.  The first choice activates the claim in the same
\* result.  requireAtomicClaimActivation
Choosing == \/ claimStatus = "active" /\ UNCHANGED claimStatus
            \/ claimStatus = "investigating" /\ MoveClaim("active")

\* requireExactReshipmentSetup: custody of a returned or recovered parcel that
\* passed fresh QC; a new planned shipment takes over as the lineage leaf, with
\* its own authorization.
SelectReship(s) ==
  /\ Choosing
  /\ parcel[s] \in {"returned", "recovered"} /\ remedies[s] < MaxRemedies
  /\ MoveSlots({s}, "reship_pending")
  /\ parcel' = [parcel EXCEPT ![s] = "planned"]
  /\ leaf' = [leaf EXCEPT ![s] = "reship"]
  /\ auth' = [auth EXCEPT ![s] = "issued"]
  /\ rset' = [rset EXCEPT ![s] = {s}]
  /\ remedies' = [remedies EXCEPT ![s] = @ + 1]
  /\ UNCHANGED <<origin, grouped, owned, clean, rjob>>

\* requireExactReprintSelection: the retained canonical artifact of the slot.
SelectReprint(s) ==
  /\ Choosing /\ remedies[s] < MaxRemedies
  /\ MoveSlots({s}, "reprint_pending")
  /\ UNCHANGED <<origin, grouped, owned, clean, parcel, leaf, rjob, auth, rset, remedies>>

\* requireIndependentReplacementResourceSet: every slot gets a request, a
\* reservation, a shipment and a job of its own.
requireIndependentReplacementResourceSet(S) ==
  /\ parcel' = SetOn(parcel, S, "planned")
  /\ leaf' = SetOn(leaf, S, "reprint")
  /\ rjob' = SetOn(rjob, S, "created")
  /\ auth' = SetOn(auth, S, "issued")

\* requireCompleteReplacementRequiredSlotSet: all or none of the required slots.
requireCompleteReplacementRequiredSlotSet(S) ==
  /\ MoveSlots(S, "replacement_in_production")
  /\ rset' = SetOn(rset, S, S)

\* requireExactReplacementResolutionSource
StartReplacement(S) ==
  /\ claimStatus = "active"
  /\ requireCompleteReplacementRequiredSlotSet(S)
  /\ requireIndependentReplacementResourceSet(S)
  /\ remedies' = [s \in ClaimSlots |-> remedies[s] + IF s \in S THEN 1 ELSE 0]
  /\ UNCHANGED <<parentVars, clean>>

\* The replacement job prints to packed, or fails; the shipment gets a label or
\* is asked to be cancelled (their own policies are LifecycleOrder's).
AdvanceReplacement(s, st) ==
  /\ rjob[s] = "created" /\ st \in {"packed", "failed"}
  /\ rjob' = [rjob EXCEPT ![s] = st]
  /\ UNCHANGED <<parentVars, clean, resolution, parcel, leaf, auth, rset, remedies>>

LabelRemedy(s, st) ==
  /\ leaf[s] # "original"
  /\ <<parcel[s], st>> \in {<<"planned", "label_created">>,
                            <<"label_created", "cancellation_pending">>}
  /\ parcel' = [parcel EXCEPT ![s] = st]
  /\ UNCHANGED <<parentVars, clean, resolution, leaf, rjob, auth, rset, remedies>>

-----------------------------------------------------------------------------
\* Handing a remedy over.  A scan may beat the cancellation of its label: the
\* race hands over from cancellation_pending instead of label_created.

\* requireExactCancellationRaceHandoffResult, kinds "replacement" and "reship".
HandoffSources == {"label_created", "cancellation_pending"}

\* Mutant: one slot of a resource-group set is handed over on its own.
groupAlone(s) == {s}

\* What one handoff covers.  A set of resource groups leaves whole; with
\* requests of their own, the slots of the selected shipment leave alone.
handoffScope(s) == IF grouped THEN rset[s] ELSE {s}

\* Only the selected shipment may lose a race with its cancellation; the
\* others of the set still have their labels.
ReplacementShipmentSource(s, t, from) ==
  parcel[t] = IF t = s THEN from ELSE "label_created"

\* requireExactJobHandoff, kind "replacement"
replacementJobHandoff(t) == rjob[t] = "packed" /\ rjob'[t] = "handed_over"

\* requireIndependentReplacementHandoff: the resources of the setup, unchanged,
\* on one-shot authorizations.
requireIndependentReplacementHandoff(s, S, from) ==
  \A t \in S : ReplacementShipmentSource(s, t, from) /\ auth[t] = "issued"

\* Every resource group hands over its current packed job.
ReplacementGroupsPacked(S) ==
  /\ rjob' = SetOn(rjob, S, "handed_over")
  /\ \A t \in S : replacementJobHandoff(t)

\* requireAtomicCompleteReplacementHandoff
HandOffReplacement(s, from) ==
  LET S == handoffScope(s)
  IN  /\ leaf[s] = "reprint" /\ from \in HandoffSources
      /\ requireIndependentReplacementHandoff(s, S, from)
      /\ ReplacementGroupsPacked(S)
      /\ MoveSlots(S, "replacement_shipped")
      /\ parcel' = SetOn(parcel, S, "handed_over")
      /\ auth' = SetOn(auth, S, "consumed")
      /\ clean' = FALSE
      /\ UNCHANGED <<parentVars, leaf, rset, remedies>>

\* requireExactReshipmentHandoff: the shipment alone moves; the original job
\* stays handed over.
HandOffReship(s, from) ==
  /\ leaf[s] = "reship" /\ from \in HandoffSources
  /\ parcel[s] = from /\ auth[s] = "issued"
  /\ MoveSlots({s}, "reship_shipped")
  /\ parcel' = [parcel EXCEPT ![s] = "handed_over"]
  /\ auth' = [auth EXCEPT ![s] = "consumed"]
  /\ clean' = FALSE
  /\ UNCHANGED <<parentVars, leaf, rjob, rset, remedies>>

TransitRemedy(s) ==
  /\ leaf[s] # "original" /\ parcel[s] = "handed_over"
  /\ parcel' = [parcel EXCEPT ![s] = "in_transit"]
  /\ UNCHANGED <<parentVars, clean, resolution, leaf, rjob, auth, rset, remedies>>

\* requireVerifiedCurrentRemedyDelivery: the child ends with the delivery of
\* its current lineage leaf.
DeliverRemedy(s) ==
  /\ leaf[s] # "original" /\ parcel[s] = "in_transit"
  /\ parcel' = [parcel EXCEPT ![s] = "delivered"]
  /\ MoveSlots({s}, IF leaf[s] = "reship" THEN "delivered_reship"
                    ELSE "delivered_reprint")
  /\ UNCHANGED <<parentVars, clean, leaf, rjob, auth, rset, remedies>>

\* requireVerifiedCurrentRemedyIncident
LoseRemedy(s, st) ==
  /\ leaf[s] # "original" /\ parcel[s] = "in_transit" /\ st \in {"lost", "returned"}
  /\ parcel' = [parcel EXCEPT ![s] = st]
  /\ MoveSlots({s}, "recovery_pending")
  /\ UNCHANGED <<parentVars, clean, leaf, rjob, auth, rset, remedies>>

RecoverParcel(s) ==
  /\ parcel[s] = "lost"
  /\ parcel' = [parcel EXCEPT ![s] = "recovered"]
  /\ UNCHANGED <<parentVars, clean, resolution, leaf, rjob, auth, rset, remedies>>

-----------------------------------------------------------------------------
\* Changing one's mind before the handoff.

\* requireExactReplacementRecoveryCancellation: the complete set is cancelled
\* and its children go back to recovery.
RecoverReplacement(s) ==
  LET S == rset[s]
  IN  /\ leaf[s] = "reprint" /\ \A t \in S : parcel[t] \in preHandoffParcel
      /\ MoveSlots(S, "recovery_pending")
      /\ CancelRemedies(S)
      /\ UNCHANGED <<parentVars, clean, leaf, rset, remedies>>

\* remedyCancellationCompleted: the barrier before a refund replaces a chosen
\* remedy; the children keep their status until the refund is set up.
CompleteRemedyCancellation(s) ==
  /\ resolution[s] \in {"reship_pending", "replacement_in_production"}
  /\ \A t \in rset[s] : parcel[t] \in preHandoffParcel
  /\ CancelRemedies(rset[s])
  /\ UNCHANGED <<parentVars, clean, resolution, leaf, rset, remedies>>

remedyCancellationCompleted(s) ==
  /\ OpenRemedies({s}) = {}
  /\ rjob[s] \notin liveJob

\* A child of a refund scope has its own financial operation, and its chosen
\* remedy has been cancelled first.
RefundableChild(s) ==
  resolution[s] \notin {"pending", "recovery_pending"} => remedyCancellationCompleted(s)

\* requireExactClaimRefundScope: the scope holds exactly the children that move
\* to refund_pending in this result.
requireExactClaimRefundScope(T) ==
  /\ MoveSlots(T, "refund_pending")
  /\ \A s \in T : RefundableChild(s)

RefundSlots(T) ==
  /\ Choosing
  /\ requireExactClaimRefundScope(T)
  /\ UNCHANGED <<origin, grouped, owned, clean, parcel, leaf, rjob, auth, rset, remedies>>

\* requireExactClaimRefundCompletion
CompleteSlotRefund(s) ==
  /\ MoveSlots({s}, "refunded")
  /\ UNCHANGED <<parentVars, clean, parcel, leaf, rjob, auth, rset, remedies>>

-----------------------------------------------------------------------------
ClaimInit ==
  /\ claimStatus = "opened" /\ owned = ClaimSlots /\ grouped \in BOOLEAN
  /\ \/ /\ origin = "post_delivery_quality" /\ clean = TRUE
        /\ parcel = [s \in ClaimSlots |-> "delivered"]
     \/ /\ origin = "shipment_incident" /\ clean = FALSE
        /\ parcel \in [ClaimSlots -> {"lost", "returned"}]
  /\ resolution = [s \in ClaimSlots |-> "pending"]
  /\ leaf = [s \in ClaimSlots |-> "original"]
  /\ rjob = [s \in ClaimSlots |-> "none"]
  /\ auth = [s \in ClaimSlots |-> "none"]
  /\ rset = [s \in ClaimSlots |-> {}]
  /\ remedies = [s \in ClaimSlots |-> 0]

ClaimNext ==
  \/ Investigate \/ RejectClaim \/ WithdrawClaim
  \/ \E to \in terminalClaim : ConcludeClaim(to)
  \/ \E S \in SUBSET ClaimSlots : StartReplacement(S) \/ RefundSlots(S)
  \/ \E s \in ClaimSlots :
       \/ SelectReship(s) \/ SelectReprint(s) \/ TransitRemedy(s) \/ DeliverRemedy(s)
       \/ RecoverParcel(s) \/ RecoverReplacement(s) \/ CompleteRemedyCancellation(s)
       \/ CompleteSlotRefund(s)
       \/ \E st \in JobState : AdvanceReplacement(s, st)
       \/ \E st \in ParcelStatus : LabelRemedy(s, st) \/ LoseRemedy(s, st)
                                   \/ HandOffReplacement(s, st) \/ HandOffReship(s, st)

ClaimSpec == ClaimInit /\ [][ClaimNext]_claimVars

-----------------------------------------------------------------------------
\* The claim, its children and their remedies hold values of their policies.
ClaimTypeOK ==
  /\ claimStatus \in ClaimStatus /\ clean \in BOOLEAN /\ grouped \in BOOLEAN
  /\ origin \in {"post_delivery_quality", "shipment_incident"}
  /\ resolution \in [ClaimSlots -> ResolutionStatus]
  /\ parcel \in [ClaimSlots -> ParcelStatus] /\ leaf \in [ClaimSlots -> LeafKind]
  /\ rjob \in [ClaimSlots -> JobState] /\ auth \in [ClaimSlots -> AuthStatus]
  /\ rset \in [ClaimSlots -> SUBSET ClaimSlots]
  /\ remedies \in [ClaimSlots -> 0..MaxRemedies] /\ owned \subseteq ClaimSlots

\* A closed claim leaves nothing that can still be sent: no remedy shipment
\* short of the carrier, no authorization to hand one over, no replacement job.
ClosedClaimSendsNothing ==
  claimStatus \in terminalClaim =>
    \A s \in ClaimSlots : /\ leaf[s] # "original" => parcel[s] \notin preHandoffParcel
                          /\ auth[s] # "issued" /\ rjob[s] \notin liveJob

\* A customer never gets both the goods and the money: a slot being refunded
\* has no remedy shipment the carrier still carries or has delivered, and none
\* that can still be handed over.
NeverGoodsAndMoney ==
  \A s \in ClaimSlots :
    resolution[s] \in {"refund_pending", "refunded"} /\ leaf[s] # "original" =>
      parcel[s] \in {"cancelled", "lost", "returned", "recovered"}

\* The slots of one resource-group set leave together or not at all.
ReplacementLeavesWhole ==
  grouped => \A s, t \in ClaimSlots :
    leaf[s] = "reprint" /\ leaf[t] = "reprint" /\ rset[s] = rset[t]
      /\ rjob[s] = "handed_over"
    => rjob[t] = "handed_over"

\* Claim, slots and remedies agree after every command of the claim policies.
ClaimSound == ClosedClaimSendsNothing /\ NeverGoodsAndMoney /\ ReplacementLeavesWhole
=============================================================================
