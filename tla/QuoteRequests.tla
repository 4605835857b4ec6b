---------------------------- MODULE QuoteRequests ----------------------------
(***************************************************************************)
(* Assisted quotes: a customer's request, the models an operator prepares  *)
(* for it, the offers issued and reissued, and the customer's decision.    *)
(* An offer is named by its version.  Time, the effective legal terms and  *)
(* the selected commercial policy move on their own between any two        *)
(* transactions; each action below is one transaction under the lock of    *)
(* the request row.                                                        *)
(***************************************************************************)
EXTENDS Integers, Sequences, FiniteSets, SequencesExt

CONSTANTS
  Requests,
  Reviewed,            \* bound: requests an operator gets round to
  ClientMaxIssued,     \* ANONYMOUS_QUOTE_CLIENT_MAX_ISSUED
  RetentionDays,       \* source_retention_days
  MaxJobAttempts,      \* MAX_SLICING_JOB_ATTEMPTS
  HandoffExpires,      \* expiresAt of the handoff capability
  MaxTime, MaxRevision, MaxOffers   \* bounds

ASSUME RequestsAssumption == Reviewed \subseteq Requests /\ IsFiniteSet(Requests)
ASSUME BoundsAssumption ==
  /\ MaxTime \in Nat /\ MaxRevision \in Nat /\ MaxOffers \in Nat
  /\ RetentionDays \in Nat \ {0} /\ HandoffExpires \in Nat /\ ClientMaxIssued \in Nat
  /\ MaxJobAttempts \in Nat \ {0}

VARIABLES
  now,
  terms,       \* the effective revision of the terms and the claims rules
  policy,      \* selectionVersion of the commercial policy
  issued,      \* anonymous requests counted in the running window
  handoff,     \* requests that consumed the handoff capability
  request,     \* [Requests -> status, current offer, session, reply time]
  offers,      \* [Requests -> Seq of immutable offers]
  orders,      \* [Requests -> versions an order was made from]
  composer,    \* what the operator's offer form was loaded with
  previewed,   \* offers a customer's page found overdue, still to be expired
  file,        \* [Requests -> the model file and its retention]
  jobs         \* [Requests -> inspection, canonical geometry, reference slices]

quoteVars == <<now, terms, policy, issued, handoff, request, offers, orders, composer,
               previewed, file, jobs>>
worldVars == <<now, terms, policy>>

Statuses == {"NONE", "NEW", "IN_REVIEW", "QUOTED", "ACCEPTED", "REJECTED", "EXPIRED"}
JobKinds == {"inspection", "geometry", "slices"}
NoJob == [attempt |-> 0, state |-> "NONE"]
NoFile == [attached |-> FALSE, deleteAfter |-> 0, hold |-> "NONE", deleted |-> FALSE]

(***************************************************************************)
(* Guards.                                                                 *)
(***************************************************************************)
Current(r) == request[r].current
CurrentOffer(r) == offers[r][Current(r)]
overdue(offer) == offer.expiresAt <= now
availableSource(f) ==
  f.attached /\ ~f.deleted /\ (f.hold # "NONE" \/ f.deleteAfter > now)
lockActiveRequest(r) == request[r].status \in {"NEW", "IN_REVIEW", "QUOTED"}

assertCurrentOffer(r, v) == v = Current(r)

\* Mutant: the terms of the offer are not compared with those in effect.
assertAnyTerms(r, v) == TRUE
assertEffectiveTerms(r, v) == offers[r][v].terms = terms

handoffAvailable == handoff = {} /\ HandoffExpires > now

\* quoteRequestPolicy: the moves between statuses.
quoteRequestPolicy(from, to) ==
  <<from, to>> \in
    {<<"NEW", "IN_REVIEW">>, <<"NEW", "REJECTED">>, <<"IN_REVIEW", "QUOTED">>,
     <<"IN_REVIEW", "REJECTED">>, <<"QUOTED", "QUOTED">>, <<"QUOTED", "ACCEPTED">>,
     <<"QUOTED", "REJECTED">>, <<"QUOTED", "EXPIRED">>}
applyTransition(r, to) ==
  /\ quoteRequestPolicy(request[r].status, to)
  /\ request' = [request EXCEPT ![r].status = to]
applyExpirationTransition(r, v) ==
  /\ overdue(offers[r][v]) /\ applyTransition(r, "EXPIRED")

(***************************************************************************)
(* The request.                                                            *)
(***************************************************************************)
Init ==
  /\ now = 0 /\ terms = 1 /\ policy = 1 /\ issued = 0 /\ handoff = {}
  /\ request = [r \in Requests |-> [status |-> "NONE", current |-> 0, session |-> "NONE",
                                    responded |-> FALSE]]
  /\ offers = [r \in Requests |-> <<>>]
  /\ orders = [r \in Requests |-> {}]
  /\ composer = [request |-> "none", policy |-> 0, current |-> 0]
  /\ previewed = {}
  /\ file = [r \in Requests |-> NoFile]
  /\ jobs = [r \in Requests |-> [k \in JobKinds |-> NoJob]]

reserveAnonymousQuote == issued < ClientMaxIssued /\ issued' = issued + 1

createRequest(r, withHandoff) ==
  /\ request[r].status = "NONE"
  /\ reserveAnonymousQuote
  /\ request' = [request EXCEPT ![r].status = "NEW", ![r].session = "OPEN"]
  /\ withHandoff => handoffAvailable
  /\ handoff' = IF withHandoff THEN handoff \cup {r} ELSE handoff
  /\ UNCHANGED <<worldVars, offers, orders, composer, previewed, file, jobs>>

beginReview(r) ==
  /\ r \in Reviewed /\ request[r].status = "NEW"
  /\ applyTransition(r, "IN_REVIEW")
  /\ UNCHANGED <<worldVars, issued, handoff, offers, orders, composer, previewed, file, jobs>>

declineRequest(r) ==
  /\ r \in Reviewed /\ request[r].status \in {"NEW", "IN_REVIEW"} /\ Current(r) = 0
  /\ quoteRequestPolicy(request[r].status, "REJECTED")
  /\ request' = [request EXCEPT ![r].status = "REJECTED", ![r].responded = TRUE]
  /\ UNCHANGED <<worldVars, issued, handoff, offers, orders, composer, previewed, file, jobs>>

(***************************************************************************)
(* Model preparation by the operator.                                      *)
(***************************************************************************)
\* Unlike an automatic quote, an operator may try a dead-lettered job again.
nextOperatorAttempt(j) ==
  IF j = NoJob \/ (j.state \in {"RETRYABLE", "DEAD"} /\ j.attempt < MaxJobAttempts)
  THEN [attempt |-> j.attempt + 1, state |-> "PENDING"]
  ELSE j
enqueue(r, k) == jobs' = [jobs EXCEPT ![r][k] = nextOperatorAttempt(@)]

\* The file of the handoff, or one the operator uploads for the request.
attachModel(r) ==
  /\ r \in Reviewed /\ lockActiveRequest(r) /\ ~file[r].attached
  /\ file' = [file EXCEPT ![r] = [@ EXCEPT !.attached = TRUE,
                                           !.deleteAfter = now + RetentionDays]]
  /\ enqueue(r, "inspection")
  /\ UNCHANGED <<worldVars, issued, handoff, request, offers, orders, composer, previewed>>

\* importHandoffModel of a file already attached: another attempt.
importHandoffModel(r) ==
  /\ lockActiveRequest(r) /\ availableSource(file[r])
  /\ nextOperatorAttempt(jobs[r]["inspection"]) # jobs[r]["inspection"]
  /\ enqueue(r, "inspection")
  /\ UNCHANGED <<worldVars, issued, handoff, request, offers, orders, composer, previewed,
                 file>>

inspectionForJob(r) == jobs[r]["inspection"].state
selectBodies(r) ==
  /\ lockActiveRequest(r) /\ availableSource(file[r])
  /\ inspectionForJob(r) = "DONE"
  /\ enqueue(r, "geometry") /\ jobs' # jobs
  /\ UNCHANGED <<worldVars, issued, handoff, request, offers, orders, composer, previewed,
                 file>>

prepareReference(r) ==
  /\ lockActiveRequest(r) /\ availableSource(file[r])
  /\ jobs[r]["geometry"].state = "DONE"
  /\ enqueue(r, "slices") /\ jobs' # jobs
  /\ UNCHANGED <<worldVars, issued, handoff, request, offers, orders, composer, previewed,
                 file>>

\* External: the slicer's answer.
preprocessingResult(r, k) ==
  /\ jobs[r][k].state = "PENDING"
  /\ \E s \in {"DONE", "RETRYABLE", "DEAD", "INVALID"} : jobs' = [jobs EXCEPT ![r][k].state = s]
  /\ UNCHANGED <<worldVars, issued, handoff, request, offers, orders, composer, previewed,
                 file>>

(***************************************************************************)
(* Offers.                                                                 *)
(***************************************************************************)
\* The operator opens the form: the policy and the current offer it shows may
\* both be out of date when it is sent.
composerChoices(r) ==
  /\ r \in Reviewed /\ request[r].status \in {"IN_REVIEW", "QUOTED"}
  /\ composer' = [request |-> r, policy |-> policy, current |-> Current(r)]
  /\ composer' # composer
  /\ UNCHANGED <<worldVars, issued, handoff, request, offers, orders, previewed, file, jobs>>

selectionVersionCurrent == composer.policy = policy

validateOfferItemReferences(r) ==
  availableSource(file[r]) /\ jobs[r]["slices"].state = "DONE"

\* taven_extend_quote_source_retention, for an offer that is live when it is stored.
\* The second that expires_at must be after issued_at is less than a unit of now.
extendQuoteSourceRetention(f, expiresAt) ==
  LET kept == expiresAt + RetentionDays
  IN  IF kept > now /\ expiresAt > now /\ f.deleteAfter < kept
      THEN [f EXCEPT !.deleteAfter = kept] ELSE f

\* The request becomes QUOTED, with the next version as its current offer.
applyIssuanceTransition(r) ==
  /\ quoteRequestPolicy(request[r].status, "QUOTED")
  /\ request' = [request EXCEPT ![r].status = "QUOTED", ![r].current = Len(offers[r]) + 1,
                                ![r].responded = TRUE]
\* The immutable offer with its items, price, parcels and payment schedule; its
\* items keep the model they name.
storeOffer(r, expiresAt) ==
  /\ Len(offers[r]) < MaxOffers
  /\ offers' = [offers EXCEPT ![r] = Append(@, [terms |-> terms, expiresAt |-> expiresAt])]
  /\ file' = [file EXCEPT ![r] = extendQuoteSourceRetention(@, expiresAt)]

issueOffer(r, expiresAt) ==
  /\ composer.request = r /\ composer.current = 0
  /\ selectionVersionCurrent
  /\ request[r].status = "IN_REVIEW"
  /\ expiresAt > now
  /\ validateOfferItemReferences(r)
  /\ applyIssuanceTransition(r) /\ storeOffer(r, expiresAt)
  /\ UNCHANGED <<worldVars, issued, handoff, orders, composer, previewed, jobs>>

\* A stale form is refused, and an overdue current offer expires instead.
reissueEligible(r) ==
  /\ request[r].status = "QUOTED" /\ Current(r) # 0 /\ composer.current = Current(r)
reissueOffer(r, expiresAt) ==
  /\ composer.request = r /\ composer.current # 0
  /\ selectionVersionCurrent
  /\ reissueEligible(r) /\ ~overdue(CurrentOffer(r)) /\ orders[r] = {}
  /\ expiresAt > now
  /\ validateOfferItemReferences(r)
  /\ applyIssuanceTransition(r) /\ storeOffer(r, expiresAt)
  /\ UNCHANGED <<worldVars, issued, handoff, orders, composer, previewed, jobs>>
reissueFindsOverdue(r) ==
  /\ composer.request = r /\ composer.current # 0
  /\ selectionVersionCurrent
  /\ reissueEligible(r) /\ applyExpirationTransition(r, Current(r))
  /\ UNCHANGED <<worldVars, issued, handoff, offers, orders, composer, previewed, file, jobs>>

(***************************************************************************)
(* The customer's decision.                                                *)
(***************************************************************************)
\* The page reads the offer without a lock and, if it is overdue, expires it
\* in a second transaction.
previewOffer(r, v) ==
  /\ assertCurrentOffer(r, v) /\ overdue(offers[r][v]) /\ <<r, v>> \notin previewed
  /\ request[r].status = "QUOTED"
  /\ previewed' = previewed \cup {<<r, v>>}
  /\ UNCHANGED <<worldVars, issued, handoff, request, offers, orders, composer, file, jobs>>
expireOverdueOffer(r, v) ==
  /\ <<r, v>> \in previewed
  /\ previewed' = previewed \ {<<r, v>>}
  /\ IF v = Current(r) /\ request[r].status = "QUOTED" /\ overdue(offers[r][v])
     THEN applyExpirationTransition(r, v)
     ELSE UNCHANGED request
  /\ UNCHANGED <<worldVars, issued, handoff, offers, orders, composer, file, jobs>>

acceptable(r, v) == assertCurrentOffer(r, v) /\ request[r].status = "QUOTED"

holdSources(r) == file' = [file EXCEPT ![r].hold = "ACTIVE_ORDER"]
acceptOffer(r, v) ==
  /\ acceptable(r, v) /\ ~overdue(offers[r][v])
  /\ assertEffectiveTerms(r, v)
  /\ quoteRequestPolicy(request[r].status, "ACCEPTED")
  /\ availableSource(file[r])           \* order_items_geometry_source_available
  /\ request' = [request EXCEPT ![r].status = "ACCEPTED", ![r].session = "CONVERTED"]
  /\ orders' = [orders EXCEPT ![r] = @ \cup {[offer |-> v, terms |-> terms, at |-> now]}]
  /\ holdSources(r)
  /\ UNCHANGED <<worldVars, issued, handoff, offers, composer, previewed, jobs>>
acceptTooLate(r, v) ==
  /\ acceptable(r, v) /\ applyExpirationTransition(r, v)
  /\ UNCHANGED <<worldVars, issued, handoff, offers, orders, composer, previewed, file, jobs>>

rejectOffer(r, v) ==
  /\ acceptable(r, v) /\ ~overdue(offers[r][v])
  /\ applyTransition(r, "REJECTED")
  /\ UNCHANGED <<worldVars, issued, handoff, offers, orders, composer, previewed, file, jobs>>

expireOffer(r) ==
  /\ r \in Reviewed /\ request[r].status = "QUOTED" /\ Current(r) # 0
  /\ applyExpirationTransition(r, Current(r))
  /\ UNCHANGED <<worldVars, issued, handoff, offers, orders, composer, previewed, file, jobs>>

(***************************************************************************)
(* The world.                                                              *)
(***************************************************************************)
\* External: the clock, a new legal revision, another commercial policy.  The
\* clock passing a window also starts a new count of anonymous requests.
timePasses ==
  /\ now < MaxTime /\ now' = now + 1 /\ issued' = 0
  /\ UNCHANGED <<terms, policy, handoff, request, offers, orders, composer, previewed, file,
                 jobs>>
termsChange ==
  /\ terms < MaxRevision /\ terms' = terms + 1
  /\ UNCHANGED <<now, policy, issued, handoff, request, offers, orders, composer, previewed,
                 file, jobs>>
policyChanges ==
  /\ policy < MaxRevision /\ policy' = policy + 1
  /\ UNCHANGED <<now, terms, issued, handoff, request, offers, orders, composer, previewed,
                 file, jobs>>
\* The retention worker, in one step (module Retention has its own).
deleteSource(r) ==
  /\ file[r].attached /\ ~file[r].deleted /\ file[r].hold = "NONE" /\ file[r].deleteAfter <= now
  /\ file' = [file EXCEPT ![r].deleted = TRUE]
  /\ UNCHANGED <<worldVars, issued, handoff, request, offers, orders, composer, previewed,
                 jobs>>

Next ==
  \/ \E r \in Requests, h \in BOOLEAN : createRequest(r, h)
  \/ \E r \in Requests :
       beginReview(r) \/ declineRequest(r) \/ attachModel(r) \/ importHandoffModel(r)
       \/ selectBodies(r) \/ prepareReference(r) \/ composerChoices(r)
       \/ reissueFindsOverdue(r) \/ expireOffer(r) \/ deleteSource(r)
  \/ \E r \in Requests, k \in JobKinds : preprocessingResult(r, k)
  \/ \E r \in Requests, t \in 1..MaxTime : issueOffer(r, t) \/ reissueOffer(r, t)
  \/ \E r \in Requests : \E v \in DOMAIN offers[r] :
       previewOffer(r, v) \/ expireOverdueOffer(r, v) \/ acceptOffer(r, v)
       \/ acceptTooLate(r, v) \/ rejectOffer(r, v)
  \/ timePasses \/ termsChange \/ policyChanges

Spec == Init /\ [][Next]_quoteVars

(***************************************************************************)
(* Properties.                                                             *)
(***************************************************************************)
TypeOK ==
  /\ now \in 0..MaxTime /\ terms \in 1..MaxRevision /\ policy \in 1..MaxRevision
  /\ handoff \subseteq Requests
  /\ \A r \in Requests :
       /\ request[r].status \in Statuses
       /\ Current(r) = Len(offers[r])
       /\ Len(offers[r]) <= MaxOffers

\* A request becomes at most one order, exactly when it is ACCEPTED, and the
\* order is made from the offer that is current, at a time before it expired
\* and under the terms it was issued with (acceptOffer against reissueOffer,
\* expiry and changes of the terms in any order).
OneOrderPerRequest ==
  \A r \in Requests :
    /\ (request[r].status = "ACCEPTED") = (orders[r] # {})
    /\ Cardinality(orders[r]) <= 1
    /\ \A o \in orders[r] :
         /\ o.offer = Current(r)
         /\ o.at < offers[r][o.offer].expiresAt
         /\ o.terms = offers[r][o.offer].terms

\* While a customer can still accept an offer, or has, the model file it is
\* for is not deleted (taven_extend_quote_source_retention, acceptOffer's hold).
OfferedModelKept ==
  \A r \in Requests :
    (request[r].status = "QUOTED" /\ ~overdue(CurrentOffer(r))) \/ orders[r] # {}
      => ~file[r].deleted

\* An offer ends in one order at most, for a model that is still there.
RequestSound == OneOrderPerRequest /\ OfferedModelKept
==============================================================================
