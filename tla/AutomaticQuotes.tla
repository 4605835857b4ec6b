--------------------------- MODULE AutomaticQuotes ---------------------------
(***************************************************************************)
(* One automatic quote session as AutomaticQuotesService drives it: the    *)
(* draft the customer edits, the slicing its price needs, the carrier and  *)
(* the policies it is validated against, the price bindings, the resource  *)
(* plans and reservations behind them, and the checkout that accepts one.  *)
(*                                                                         *)
(* Every service transaction locks the session row, so it is one action.   *)
(* What a request reads before its transaction, and the work it does after *)
(* it, are steps of their own: `call` holds what it remembers in between.  *)
(*                                                                         *)
(* The draft has one item and one parcel, and one node prints it.  Slices  *)
(* are named by the copies on their plate.  The active binding is the last *)
(* one made: persistBinding makes every binding it creates the active one. *)
(***************************************************************************)
EXTENDS Naturals, Sequences, FiniteSets

CONSTANTS
  Calls,             \* requests of the customer's browser tabs in flight
  Configs,           \* item configurations: whether the preflight warns about
                     \* one, and whether its fit matters
  Endpoints,         \* delivery endpoints
  Packeta,           \* whether the carrier validates concrete parcels
  MaxRevision,       \* bound: changes of the draft
  MaxChanges,        \* bound: changes of policy, terms, carrier data and
                     \* catalogue, and resource plans made, taken together
  MaxCandidates      \* bound: candidate estimates of a binding

None == [none |-> TRUE]

ASSUME ConfigsAssumption ==
  /\ \A g \in Configs : {g.warns, g.fitSensitive} \subseteq BOOLEAN
  /\ Packeta \in BOOLEAN
  /\ {MaxRevision, MaxChanges, MaxCandidates} \subseteq Nat

VARIABLES
  session, expired,     \* quote session status, and whether its time is over
  orderStatus,          \* status of the order
  frozen,               \* order items exist: the configuration is frozen
  draft,                \* item, revision, express and destination
  decision,             \* risk decisions, by configuration fingerprint
  policy, terms, carrier,  \* selected price list, effective terms, carrier data
  offers,               \* version of the inventory and machines on offer
  evidence,             \* slices of a configuration
  bindings,             \* price bindings, each with its candidates and plans
  accepted, payment,    \* the binding checkout froze, and its payment
  handoff,              \* whether a handoff capability was issued
  call

external == <<policy, terms, carrier, offers>>
checkout == <<accepted, payment>>
vars == <<session, expired, orderStatus, frozen, draft, decision, external, evidence,
          bindings, checkout, handoff, call>>

\* Every other version of the catalogue lacks what the item needs.
stock == offers % 2 = 1
draftInventoryAvailable == stock
candidateResourcesAvailable == stock
Active == Len(bindings)
Editable == session = "OPEN" /\ ~expired
Available == ~expired
\* taven_lock_automatic_order_session, which guards the resource tables.
CommerceOpen == session = "CONVERTED" \/ ~expired

\* bindingMatchesAutomaticDraft, without and with the effective terms.
Matches(b) == /\ b # 0
              /\ bindings[b].destination = draft.destination
              /\ bindings[b].express = draft.express
              /\ bindings[b].revision = draft.revision
MatchesTerms(b) == Matches(b) /\ bindings[b].terms = terms

Warned == draft.item # None /\ draft.item.warns
\* riskAllowsAutomaticQuote over the findings of the current configuration.
riskAllowsAutomaticQuote == /\ ~draft.item.fitSensitive
                            /\ decision[draft.item] # "DECLINED"
                            /\ draft.item.warns => decision[draft.item] = "ACKNOWLEDGED"

(***************************************************************************)
(* The slices the price of a configuration needs: ReferencePreparation     *)
(* shows that a configuration once READY or FAILED stays so.               *)
(***************************************************************************)
allReferenceSliced == draft.item # None /\ evidence[draft.item] = "READY"
preprocessingRequiresHandoff == evidence[draft.item] = "FAILED"

(***************************************************************************)
(* Candidates, plans and reservations of a binding.                        *)
(***************************************************************************)
Plans(b) == bindings[b].plans
LastPlan(b) == Len(Plans(b))
LivePlan(b, i) == i # 0 /\ Plans(b)[i].live
Reserved(b, i) == LivePlan(b, i) /\ Plans(b)[i].set = "RESERVED"
AllSets == UNION {{<<b, i>> : i \in 1..LastPlan(b)} : b \in 1..Active}
SetsIn(S) == {s \in AllSets : Plans(s[1])[s[2]].set \in S}
BelowBound == policy + terms + carrier + offers + Cardinality(AllSets) < 4 + MaxChanges
SetPlan(b, i, p) == bindings' = [bindings EXCEPT ![b].plans[i] = p]

hasLiveCandidatePlan(b) == \E i \in 1..LastPlan(b) : Plans(b)[i].live
automaticCandidateFrontier(b) == <<bindings[b].candidate, offers>>
candidateEstimationRequiresHandoff ==
  /\ Matches(Active)
  /\ ~hasLiveCandidatePlan(Active)
  /\ \/ bindings[Active].candidate.state = "FAILED"
     \/ automaticCandidateFrontier(Active) \in bindings[Active].markers

\* confirmed_order_reservation_hold_check, deferred to the commit.
HoldKept == orderStatus' = "CONFIRMED" =>
              \E s \in SetsIn({"HELD"})' : SetsIn({"RESERVED", "HELD"})' = {s}
\* Mutant: nothing is checked when the transaction commits.
releaseUnchecked(b, i) ==
  IF Plans(b)[i].set \in {"RESERVED", "HELD"}
  THEN SetPlan(b, i, [Plans(b)[i] EXCEPT !.set = "RELEASED"])
  ELSE UNCHANGED bindings
\* releaseBeforePrint; a refused commit is a conflict the caller swallows.
releaseBeforePrint(b, i) ==
  IF Plans(b)[i].set \in {"RESERVED", "HELD"} /\ orderStatus # "CONFIRMED"
  THEN SetPlan(b, i, [Plans(b)[i] EXCEPT !.set = "RELEASED"])
  ELSE UNCHANGED bindings

Init ==
  /\ session = "OPEN" /\ expired = FALSE /\ orderStatus = "DRAFT" /\ frozen = FALSE
  /\ draft = [item |-> None, revision |-> 1, express |-> FALSE, destination |-> None]
  /\ decision = [g \in Configs |-> "NONE"]
  /\ policy = 1 /\ terms = 1 /\ carrier = 1 /\ offers = 1
  /\ evidence = [g \in Configs |-> "MISSING"]
  /\ bindings = <<>> /\ accepted = 0 /\ payment = "NONE"
  /\ handoff = FALSE
  /\ call = [c \in Calls |-> [at |-> "idle"]]

Idle(c) == call[c].at = "idle"
Continue(c, next) == call' = [call EXCEPT ![c] = next]
End(c) == Continue(c, [at |-> "idle"])

(***************************************************************************)
(* Editing the draft.                                                      *)
(***************************************************************************)
\* parcelConfigurationChange: a validated parcel no longer fits its endpoint.
parcelConfigurationChange(item) ==
  draft' = [draft EXCEPT !.item = item, !.revision = @ + 1,
                         !.destination = IF Packeta THEN None ELSE @]

configurable == Editable /\ ~frozen /\ draft.revision < MaxRevision

configureItem(g) ==
  /\ configurable /\ draftInventoryAvailable
  /\ draft.item # g
  /\ parcelConfigurationChange(g)
  /\ UNCHANGED <<session, expired, orderStatus, frozen, decision, external, evidence,
                 bindings, checkout, handoff, call>>

replaceConfiguration(g) ==
  /\ configurable /\ draftInventoryAvailable
  /\ draft.item # g
  /\ parcelConfigurationChange(g)
  /\ decision' = [h \in Configs |-> "NONE"]
  /\ UNCHANGED <<session, expired, orderStatus, frozen, external, evidence,
                 bindings, checkout, handoff, call>>

removeItem ==
  /\ configurable
  /\ draft.item # None
  /\ parcelConfigurationChange(None)
  /\ decision' = [h \in Configs |-> "NONE"]
  /\ UNCHANGED <<session, expired, orderStatus, frozen, external, evidence,
                 bindings, checkout, handoff, call>>

riskRevision == draft.revision + 1

decideRisk(c, answer) ==
  /\ Idle(c) /\ Editable
  /\ Warned /\ decision[draft.item] # answer
  /\ draft.revision < MaxRevision
  /\ decision' = [decision EXCEPT ![draft.item] = answer]
  /\ draft' = [draft EXCEPT !.revision = riskRevision]
  /\ Continue(c, [at |-> "release"])
  /\ UNCHANGED <<session, expired, orderStatus, frozen, external, evidence,
                 bindings, checkout, handoff>>

setExpress(c, requested) ==
  /\ Idle(c) /\ Editable
  /\ draft.express # requested
  /\ requested => bindings = <<>>
  /\ draft.revision < MaxRevision
  /\ draft' = [draft EXCEPT !.express = requested, !.revision = @ + 1]
  /\ Continue(c, [at |-> "release"])
  /\ UNCHANGED <<session, expired, orderStatus, frozen, decision, external, evidence,
                 bindings, checkout, handoff>>

\* prevalidateDestination and the carrier's answer, before the transaction.
prevalidateDestination(c, e) ==
  /\ Idle(c) /\ Available
  /\ draft.item # None
  /\ Packeta => allReferenceSliced
  /\ Continue(c, [at |-> "select", policy |-> policy, revision |-> draft.revision,
                  endpoint |-> e, carrier |-> carrier])
  /\ UNCHANGED <<session, expired, orderStatus, frozen, draft, decision, external, evidence,
                 bindings, checkout, handoff>>

selectable(c) == /\ call[c].policy = policy
                 /\ call[c].revision = draft.revision
                 /\ accepted = 0

selectDestination(c) ==
  /\ call[c].at = "select"
  /\ LET same == /\ draft.destination # None
                 /\ draft.destination.endpoint = call[c].endpoint
                 /\ draft.destination.carrier = call[c].carrier
     IN IF Available /\ selectable(c) /\ ~same /\ draft.revision < MaxRevision
        THEN /\ draft' = [draft EXCEPT
                   !.destination = [id |-> draft.revision, endpoint |-> call[c].endpoint,
                                    carrier |-> call[c].carrier],
                   !.revision = @ + 1]
             /\ Continue(c, [at |-> "release"])
        ELSE /\ End(c)
             /\ UNCHANGED draft
  /\ UNCHANGED <<session, expired, orderStatus, frozen, decision, external, evidence,
                 bindings, checkout, handoff>>

\* The reservations of the active binding, once the draft has left it.
releaseSupersededReservations(c) ==
  /\ call[c].at = "release"
  /\ IF Active # 0 /\ ~Matches(Active) /\ orderStatus # "CONFIRMED"
     THEN bindings' = [bindings EXCEPT ![Active].plans =
            [i \in DOMAIN @ |-> IF @[i].set = "RESERVED" THEN [@[i] EXCEPT !.set = "RELEASED"]
                                                         ELSE @[i]]]
     ELSE UNCHANGED bindings
  /\ End(c)
  /\ UNCHANGED <<session, expired, orderStatus, frozen, draft, decision, external, evidence,
                 checkout, handoff>>

(***************************************************************************)
(* prepare: validate with the carrier, then price under the session lock.  *)
(***************************************************************************)
\* bindingValidationInput: what the carrier's answer is about.
inputFingerprint == [policy |-> policy, revision |-> draft.revision,
                     destination |-> draft.destination]

prevalidateFreshBinding(c) ==
  /\ Idle(c) /\ Available
  /\ LET asks == /\ draft.destination # None /\ draft.item # None
                 /\ accepted = 0
                 /\ ~MatchesTerms(Active)
                 /\ allReferenceSliced
     IN /\ asks => draft.destination.carrier = carrier
        /\ Continue(c, [at |-> "prepare",
                        validation |-> IF asks THEN inputFingerprint ELSE None])
  /\ UNCHANGED <<session, expired, orderStatus, frozen, draft, decision, external, evidence,
                 bindings, checkout, handoff>>

\* Mutant: the carrier's answer is used for whatever the draft is now.
validationUsed(c) == call[c].validation # None
validationCurrent(c) == call[c].validation = inputFingerprint

\* stageOrFinalizeBinding up to persistBinding.
Binding(c) == [revision |-> draft.revision, destination |-> draft.destination,
               express |-> draft.express, item |-> draft.item,
               policy |-> policy, terms |-> terms, checked |-> call[c].validation,
               candidate |-> [n |-> 0, state |-> "NONE"], markers |-> {}, plans |-> <<>>]
persistBinding(c) == bindings' = Append(bindings, Binding(c))
\* ensureOrderItems and ensureQuoteTopology
ensureQuoteTopology == frozen' = TRUE
stageOrFinalizeBinding(c) ==
  IF /\ riskAllowsAutomaticQuote
     /\ draft.destination # None
     /\ ~MatchesTerms(Active)
     /\ call[c].validation # None
     /\ candidateResourcesAvailable
  THEN persistBinding(c) /\ ensureQuoteTopology
  ELSE UNCHANGED <<bindings, frozen>>

\* hasRetryableAutomaticCheckoutPayment, or nothing accepted yet.
preparable == accepted = 0 \/ (orderStatus = "QUOTED" /\ payment = "FAILED")

prepareRefused(c) ==
  \/ ~Available
  \/ call[c].validation # None /\ call[c].validation.policy # policy
  \/ ~preparable
prepare(c) ==
  /\ call[c].at = "prepare"
  /\ LET done == allReferenceSliced
         stale == /\ done /\ accepted = 0 /\ call[c].validation # None
                  /\ riskAllowsAutomaticQuote /\ draft.destination # None
                  /\ ~MatchesTerms(Active)
                  /\ ~validationCurrent(c)
     IN IF prepareRefused(c) \/ stale
        THEN /\ End(c)
             /\ UNCHANGED <<evidence, bindings, frozen>>
        ELSE /\ evidence' = [g \in Configs |-> IF g = draft.item /\ evidence[g] = "MISSING"
                                               THEN "PENDING" ELSE evidence[g]]
             /\ IF done /\ accepted = 0 THEN stageOrFinalizeBinding(c)
                                       ELSE UNCHANGED <<bindings, frozen>>
             /\ Continue(c, [at |-> "advance"])
  /\ UNCHANGED <<session, expired, orderStatus, draft, decision, external, checkout, handoff>>

(***************************************************************************)
(* advanceEligibility: candidates, a plan, a reservation, the quote.       *)
(***************************************************************************)
\* nextAutomaticCandidateDispatch: a first estimate, or the successor of one
\* that failed on infrastructure or has expired (both OVER).
dispatchOrderCandidates(k) ==
  IF candidateResourcesAvailable /\ k.state \in {"NONE", "OVER"} /\ k.n < MaxCandidates
  THEN [n |-> k.n + 1, state |-> "PENDING"] ELSE k

\* An express plan must still print inside its window.
Fits(b) == IF bindings[b].express THEN BOOLEAN ELSE {TRUE}

needsSuccessor(b, i) == ~LivePlan(b, i) \/ Plans(b)[i].set # "NONE"

\* Read the active binding, dispatch what it lacks, then look at its frontier
\* and its latest plan.  Later steps hold on to what is read here.
advanceEligibility(c) ==
  /\ call[c].at = "advance"
  /\ IF ~Matches(Active) THEN End(c) /\ UNCHANGED bindings ELSE
     LET b == Active
         i == LastPlan(b)
         k == dispatchOrderCandidates(bindings[b].candidate)
     IN /\ bindings' = [bindings EXCEPT ![b].candidate = k]
        /\ \E fits \in Fits(b) :
           CASE k.state = "NONE" ->
                  Continue(c, [at |-> "marker", b |-> b, frontier |-> <<k, offers>>])
             [] k.state = "SUCCEEDED" /\ Reserved(b, i) /\ fits ->
                  Continue(c, [at |-> "finalize", b |-> b, i |-> i, again |-> TRUE])
             [] k.state = "SUCCEEDED" /\ Reserved(b, i) /\ ~fits ->
                  Continue(c, [at |-> "drop", b |-> b, i |-> i])
             [] k.state = "SUCCEEDED" /\ ~Reserved(b, i) ->
                  Continue(c, [at |-> "plan", b |-> b, frontier |-> <<k, offers>>,
                               next |-> IF needsSuccessor(b, i) THEN i + 1 ELSE i])
             [] OTHER -> End(c)
  /\ UNCHANGED <<session, expired, orderStatus, frozen, draft, decision, external, evidence,
                 checkout, handoff>>

\* A reservation outside the express window is given back before the next plan.
dropUnfitReservation(c) ==
  /\ call[c].at = "drop"
  /\ releaseBeforePrint(call[c].b, call[c].i)
  /\ Continue(c, [at |-> "plan", b |-> call[c].b, next |-> call[c].i + 1,
                  frontier |-> automaticCandidateFrontier(call[c].b)])
  /\ UNCHANGED <<session, expired, orderStatus, frozen, draft, decision, external, evidence,
                 checkout, handoff>>

\* createCompletePlan, idempotent by a key that names its predecessor.  Without
\* free resources it says so; any other conflict ends the attempt.
createCompletePlan(c) ==
  /\ call[c].at = "plan"
  /\ LET b == call[c].b
         k == call[c].next
     IN CASE k <= LastPlan(b) ->
               /\ Continue(c, [at |-> "reserve", b |-> b, i |-> k])
               /\ UNCHANGED bindings
          [] k > LastPlan(b) /\ stock /\ CommerceOpen /\ BelowBound ->
               /\ bindings' = [bindings EXCEPT ![b].plans =
                                 Append(@, [live |-> TRUE, set |-> "NONE"])]
               /\ Continue(c, [at |-> "reserve", b |-> b, i |-> k])
          [] k > LastPlan(b) /\ ~stock /\ ~bindings[b].express ->
               /\ Continue(c, [at |-> "marker", b |-> b, frontier |-> call[c].frontier])
               /\ UNCHANGED bindings
          [] OTHER -> End(c) /\ UNCHANGED bindings
  /\ UNCHANGED <<session, expired, orderStatus, frozen, draft, decision, external, evidence,
                 checkout, handoff>>

\* taven_create_phase_reservation: the key's live set again, or a new one.
reserve(c) ==
  /\ call[c].at = "reserve"
  /\ LET b == call[c].b
         i == call[c].i
     IN CASE Plans(b)[i].set = "HELD" \/ Reserved(b, i) ->
               /\ Continue(c, [at |-> "finalize", b |-> b, i |-> i, again |-> FALSE])
               /\ UNCHANGED bindings
          [] Plans(b)[i].set = "NONE" /\ LivePlan(b, i) /\ stock /\ CommerceOpen
               /\ orderStatus \in {"DRAFT", "QUOTED"} ->
               /\ SetPlan(b, i, [Plans(b)[i] EXCEPT !.set = "RESERVED"])
               /\ Continue(c, [at |-> "finalize", b |-> b, i |-> i, again |-> FALSE])
          [] OTHER -> End(c) /\ UNCHANGED bindings
  /\ UNCHANGED <<session, expired, orderStatus, frozen, draft, decision, external, evidence,
                 checkout, handoff>>

\* finalizeAutomaticQuote.  A reservation that was not finalized goes back; a
\* second look then plans its successor.
finalizeAutomaticQuote(c) ==
  /\ call[c].at = "finalize"
  /\ LET b == call[c].b
         i == call[c].i
     IN \E fits \in Fits(b) :
        IF CommerceOpen /\ b = Active /\ Reserved(b, i) /\ fits /\ Matches(b)
        THEN /\ orderStatus' = IF orderStatus = "DRAFT" THEN "QUOTED" ELSE orderStatus
             /\ session' = IF session = "OPEN" THEN "CONVERTED" ELSE session
             /\ End(c)
        ELSE /\ Continue(c, IF CommerceOpen THEN [call[c] EXCEPT !.at = "giveBack"]
                                            ELSE [at |-> "idle"])
             /\ UNCHANGED <<orderStatus, session>>
  /\ UNCHANGED <<expired, frozen, draft, decision, external, evidence,
                 bindings, checkout, handoff>>

giveBackReservation(c) ==
  /\ call[c].at = "giveBack"
  /\ releaseBeforePrint(call[c].b, call[c].i)
  /\ IF call[c].again /\ orderStatus # "CONFIRMED"
     THEN Continue(c, [at |-> "plan", b |-> call[c].b, next |-> call[c].i + 1,
                       frontier |-> automaticCandidateFrontier(call[c].b)])
     ELSE End(c)
  /\ UNCHANGED <<session, expired, orderStatus, frozen, draft, decision, external, evidence,
                 checkout, handoff>>

\* The marker is kept only while the frontier it was derived from still stands.
recordCandidateEstimationHandoff(c) ==
  /\ call[c].at = "marker"
  /\ LET b == call[c].b
         k == bindings[b].candidate.state
     IN IF /\ CommerceOpen
           /\ b = Active /\ Matches(b) /\ ~hasLiveCandidatePlan(b)
           /\ call[c].frontier = automaticCandidateFrontier(b)
           /\ k = "NONE" \/ (k = "SUCCEEDED" /\ ~bindings[b].express)
        THEN bindings' = [bindings EXCEPT ![b].markers = @ \cup {call[c].frontier}]
        ELSE UNCHANGED bindings
  /\ End(c)
  /\ UNCHANGED <<session, expired, orderStatus, frozen, draft, decision, external, evidence,
                 checkout, handoff>>

\* Whether there is a reason for an assisted request.
buildHandoffSnapshot ==
  \/ draft.item.fitSensitive
  \/ decision[draft.item] = "DECLINED"
  \/ preprocessingRequiresHandoff
  \/ candidateEstimationRequiresHandoff
createHandoffCapability ==
  /\ Editable /\ ~handoff
  /\ draft.item # None
  /\ buildHandoffSnapshot
  /\ handoff' = TRUE
  /\ UNCHANGED <<session, expired, orderStatus, frozen, draft, decision, external, evidence,
                 bindings, checkout, call>>

(***************************************************************************)
(* Checkout, as PaymentsService gates it (CheckoutPayments has the rest).  *)
(***************************************************************************)
assertCheckoutTopology == MatchesTerms(Active)

createCheckout ==
  /\ session = "CONVERTED" /\ ~expired /\ orderStatus = "QUOTED"
  /\ IF accepted = 0 THEN payment = "NONE" /\ assertCheckoutTopology
                     ELSE payment = "FAILED" /\ accepted = Active
  /\ \E i \in 1..LastPlan(Active) : Reserved(Active, i)
  /\ accepted' = Active
  /\ payment' = "PENDING"
  /\ UNCHANGED <<session, expired, orderStatus, frozen, draft, decision, external, evidence,
                 bindings, handoff, call>>

failPayment ==
  /\ payment = "PENDING"
  /\ payment' = "FAILED"
  /\ UNCHANGED <<session, expired, orderStatus, frozen, draft, decision, external, evidence,
                 bindings, accepted, handoff, call>>

\* The last reservation made is held; a competing one would fail the commit.
capturePayment ==
  /\ payment = "PENDING"
  /\ \E s \in SetsIn({"RESERVED"}) :
       /\ s[1] = accepted /\ Reserved(s[1], s[2])
       /\ SetPlan(s[1], s[2], [Plans(s[1])[s[2]] EXCEPT !.set = "HELD"])
  /\ payment' = "CAPTURED" /\ orderStatus' = "CONFIRMED"
  /\ HoldKept
  /\ UNCHANGED <<session, expired, frozen, draft, decision, external, evidence,
                 accepted, handoff, call>>

(***************************************************************************)
(* The world outside the service.                                          *)
(***************************************************************************)
preprocessingResult ==
  /\ \E g \in Configs : \E o \in {"READY", "FAILED"} :
       /\ evidence[g] = "PENDING"
       /\ evidence' = [evidence EXCEPT ![g] = o]
  /\ UNCHANGED <<session, expired, orderStatus, frozen, draft, decision, external,
                 bindings, checkout, handoff, call>>
candidateResult ==
  /\ \E b \in 1..Active : LET k == bindings[b].candidate.state IN
       \E o \in {"FAILED", "SUCCEEDED", "OVER"} :
         /\ k = "PENDING" \/ (k = "SUCCEEDED" /\ o = "OVER")
         /\ bindings' = [bindings EXCEPT ![b].candidate.state = o]
  /\ UNCHANGED <<session, expired, orderStatus, frozen, draft, decision, external, evidence,
                 checkout, handoff, call>>
\* The life of a plan and of its reservation ends; a worker then expires the set.
planExpires ==
  /\ \E b \in 1..Active : \E i \in 1..LastPlan(b) :
       /\ Plans(b)[i].live /\ Plans(b)[i].set # "HELD"
       /\ SetPlan(b, i, [Plans(b)[i] EXCEPT !.live = FALSE])
  /\ UNCHANGED <<session, expired, orderStatus, frozen, draft, decision, external, evidence,
                 checkout, handoff, call>>
expireReservations ==
  /\ \E s \in SetsIn({"RESERVED"}) :
       /\ ~Plans(s[1])[s[2]].live
       /\ SetPlan(s[1], s[2], [Plans(s[1])[s[2]] EXCEPT !.set = "EXPIRED"])
  /\ UNCHANGED <<session, expired, orderStatus, frozen, draft, decision, external, evidence,
                 checkout, handoff, call>>
worldChanges ==
  /\ BelowBound
  /\ \/ policy' = policy + 1 /\ UNCHANGED <<terms, carrier, offers>>
     \/ terms' = terms + 1 /\ UNCHANGED <<policy, carrier, offers>>
     \/ carrier' = carrier + 1 /\ UNCHANGED <<policy, terms, offers>>
     \/ offers' = offers + 1 /\ UNCHANGED <<policy, terms, carrier>>
  /\ UNCHANGED <<session, expired, orderStatus, frozen, draft, decision, evidence,
                 bindings, checkout, handoff, call>>
sessionExpires ==
  /\ ~expired
  /\ expired' = TRUE
  /\ UNCHANGED <<session, orderStatus, frozen, draft, decision, external, evidence,
                 bindings, checkout, handoff, call>>

Step(c) ==
  \/ \E answer \in {"ACKNOWLEDGED", "DECLINED"} : decideRisk(c, answer)
  \/ \E requested \in BOOLEAN : setExpress(c, requested)
  \/ \E e \in Endpoints : prevalidateDestination(c, e)
  \/ selectDestination(c) \/ releaseSupersededReservations(c)
  \/ prevalidateFreshBinding(c) \/ prepare(c)
  \/ advanceEligibility(c)
  \/ dropUnfitReservation(c) \/ createCompletePlan(c) \/ reserve(c)
  \/ finalizeAutomaticQuote(c) \/ giveBackReservation(c)
  \/ recordCandidateEstimationHandoff(c)

Next ==
  \/ removeItem
  \/ \E g \in Configs : configureItem(g) \/ replaceConfiguration(g)
  \/ \E c \in Calls : Step(c)
  \/ createHandoffCapability
  \/ createCheckout \/ failPayment \/ capturePayment
  \/ preprocessingResult \/ candidateResult
  \/ planExpires \/ expireReservations \/ worldChanges \/ sessionExpires

Spec == Init /\ [][Next]_vars

-----------------------------------------------------------------------------
\* A binding the checkout froze stays the one the draft describes: the request
\* that validated a new destination before checkout cannot land after it
\* (selectDestination, createCheckout).
AcceptedBindingCurrent == accepted # 0 => accepted = Active /\ Matches(accepted)

\* A binding is priced for exactly what the carrier accepted: neither the policy
\* nor the draft moved between the answer and the transaction that used it
\* (prevalidateFreshBinding, prepare, stageOrFinalizeBinding).
BindingValidated ==
  \A b \in 1..Active : LET k == bindings[b] IN
    k.checked = [policy |-> k.policy, revision |-> k.revision, destination |-> k.destination]

\* Every binding prices the item the customer still has in the draft: the order
\* items of the first one freeze it (configureItem, ensureOrderItems).
ConfigurationFrozen == \A b \in 1..Active : bindings[b].item = draft.item

\* What a customer pays for was never declined: the answer that was in force
\* when the price was made is in force when it is accepted (decideRisk,
\* riskAllowsAutomaticQuote, finalizeAutomaticQuote).
RiskAcknowledged == accepted # 0 => riskAllowsAutomaticQuote

\* A paid order keeps exactly the reservation it was paid with, although a
\* request that began before the payment may still be giving reservations back
\* (advanceEligibility, releaseSupersededReservations, capture).
PaidKeepsReservation ==
  orderStatus = "CONFIRMED" => \E s \in SetsIn({"HELD"}) : SetsIn({"RESERVED", "HELD"}) = {s}

\* What the customer accepts is what was validated, priced and acknowledged.
BindingSound ==
  AcceptedBindingCurrent /\ BindingValidated /\ ConfigurationFrozen /\ RiskAcknowledged
=============================================================================
