------------------------ MODULE LifecyclePayment ------------------------
(***************************************************************************)
(* The Payment policy of packages/core/src/lifecycle: capture and its      *)
(* cutoff, full compensation of a late capture, ordinary refunds, and the  *)
(* reconciliation of a refund whose provider result is later contradicted. *)
(*                                                                         *)
(* The provider's refund events are immutable facts in occurrence order;   *)
(* they reach the payment late, in any order and more than once.  The      *)
(* guards decide over the complete set recorded so far.                    *)
(***************************************************************************)
EXTENDS Naturals, FiniteSets, Sequences, FiniteSetsExt, Functions

CONSTANTS Refunds,      \* identities of refund transactions
          Captured,     \* captured amount, in minor units
          MaxEvents,    \* bound: provider refund events over all refunds
          NoRefund      \* "replaces no refund"

ASSUME PaymentAssumption ==
  /\ IsFiniteSet(Refunds) /\ NoRefund \notin Refunds
  /\ Captured \in Nat \ {0} /\ MaxEvents \in Nat

VARIABLES pay,          \* PaymentStatus
          captureKind,  \* how its money was captured
          windowOpen,   \* is the capture window before its immutable cutoff
          intent,       \* does a provider intent exist
          failureEvent, \* did a verified provider failure close it
          refund,       \* refund -> its transaction
          hist,         \* refund -> the provider's events, by occurrence
          got,          \* refund -> the events recorded so far
          interim       \* target of a started late-success reconciliation

paymentVars == <<pay, captureKind, windowOpen, intent, failureEvent, refund, hist,
                 got, interim>>
captureVars == <<captureKind, windowOpen, intent, failureEvent>>

PaymentStatus == {"created", "pending", "captured", "failed", "voided",
                  "refund_pending", "partially_refunded", "refunded"}
CaptureKind == {"none", "settlement", "initial_checkout_capacity", "late_capture"}
RefundStatus == {"none", "pending", "succeeded", "failed", "superseded", "suspended"}
EventKind == {"succeeded", "failed"}

\* paymentPolicy.transitions
paymentTransitions ==
  UNION {{"created"} \X {"pending", "failed", "voided"},
         {"pending"} \X {"captured", "failed", "voided", "refund_pending"},
         {"failed", "captured", "voided"} \X {"refund_pending"},
         {"partially_refunded"} \X {"captured", "refund_pending"},
         {"refund_pending"} \X {"captured", "partially_refunded", "refunded"},
         {"refunded"} \X {"captured", "partially_refunded", "refund_pending"}}

MovePayment(to) == /\ <<pay, to>> \in paymentTransitions
                   /\ pay' = to

-----------------------------------------------------------------------------
\* The projections over a complete refund set R.  parseRefundSet
WithStatus(R, S) == {r \in Refunds : R[r].st \in S}
Amounts(R) == [r \in Refunds |-> R[r].amount]
Succeeded(R) == SumFunctionOnSet(Amounts(R), WithStatus(R, {"succeeded"}))
Unsettled(R) == WithStatus(R, {"pending", "suspended"})
PendingAmount(R) == SumFunctionOnSet(Amounts(R), Unsettled(R))

\* The refund sets of an ordinary completion and of a late failure hold no
\* superseded and no suspended transaction.
PlainSet(R) == WithStatus(R, {"superseded", "suspended"}) = {}

\* expectedSource and expectedTarget of the three reconciliation guards.
Projected(R) == IF Unsettled(R) # {} THEN "refund_pending"
                ELSE IF Succeeded(R) = 0 THEN "captured"
                ELSE IF Succeeded(R) = Captured THEN "refunded"
                ELSE "partially_refunded"

\* An event that is strictly newer than everything recorded for its refund.
LatestPrior(r) == IF got[r] = {} THEN 0 ELSE Max(got[r])
Newest(r, i) == i \in 1..Len(hist[r]) /\ i > LatestPrior(r)
Record(r, i) == got' = [got EXCEPT ![r] = @ \cup {i}]

Fresh(r, amount, of) == [st |-> "pending", amount |-> amount, of |-> of,
                         sent |-> FALSE]
SetStatus(r, st) == [refund EXCEPT ![r].st = st]

-----------------------------------------------------------------------------
\* Opening, closing and capturing.

\* requireExactPaymentIntentSetup
CreateIntent ==
  /\ windowOpen /\ MovePayment("pending")
  /\ pay = "created"
  /\ intent' = TRUE
  /\ UNCHANGED <<captureKind, windowOpen, failureEvent, refund, hist, got, interim>>

\* The cutoff passes with the payment still pending.
PassCutoff ==
  /\ windowOpen /\ pay = "pending"
  /\ windowOpen' = FALSE
  /\ UNCHANGED <<pay, captureKind, intent, failureEvent, refund, hist, got, interim>>

\* requireExactPaymentIntentCreationFailure: no intent came to exist, so there
\* is no provider event either; the moment of the failure is the cutoff.
requireExactPaymentIntentCreationFailure ==
  pay = "created" /\ ~intent /\ failureEvent' = FALSE

\* requireExactPendingPaymentFailure: on a verified provider event of the
\* payment's own intent.  requireVerifiedMatchingProviderPaymentEvent
requireExactPendingPaymentFailure ==
  pay = "pending" /\ intent /\ failureEvent' = TRUE

FailPayment ==
  /\ MovePayment("failed")
  /\ requireExactPaymentIntentCreationFailure \/ requireExactPendingPaymentFailure
  /\ windowOpen' = FALSE
  /\ UNCHANGED <<captureKind, intent, refund, hist, got, interim>>

\* requireCreatedPaymentVoidClosure: the checkout closes before an intent
\* exists, and nothing is voided at the provider.
requireCreatedPaymentVoidClosure == pay = "created" /\ ~intent

\* requireRoleSpecificPaymentVoidClosure: the checkout or the balance deadline
\* closes, and the void of the intent is queued with it.
requireRoleSpecificPaymentVoidClosure == pay = "pending" /\ intent

VoidPayment ==
  /\ MovePayment("voided")
  /\ requireCreatedPaymentVoidClosure \/ requireRoleSpecificPaymentVoidClosure
  /\ windowOpen' = FALSE
  /\ UNCHANGED <<captureKind, intent, failureEvent, refund, hist, got, interim>>

\* requireExactPendingCaptureWindow "within_window",
\* requireInitialSettlementCaptureActivation
CaptureSettlement ==
  /\ windowOpen /\ MovePayment("captured") /\ pay = "pending"
  /\ captureKind' = "settlement"
  /\ UNCHANGED <<windowOpen, intent, failureEvent, refund, hist, got, interim>>

\* The one full refund a compensation creates with the capture it excludes
\* from the settlement.
FullRefund(r) == /\ refund[r].st = "none"
                 /\ refund' = [refund EXCEPT ![r] = Fresh(r, Captured, NoRefund)]

\* requireInitialCapacityCaptureCompensation: captured in time, but the
\* reservation set could not be reacquired.
CompensateCapacity(r) ==
  /\ pay = "pending" /\ windowOpen
  /\ MovePayment("refund_pending") /\ FullRefund(r)
  /\ captureKind' = "initial_checkout_capacity" /\ windowOpen' = FALSE
  /\ UNCHANGED <<intent, failureEvent, hist, got, interim>>

\* hasExactNoIntentPaymentTerminalSnapshot: failed or voided before there was
\* an intent; such a payment is terminal.
noIntentTerminal == pay \in {"failed", "voided"} /\ ~intent

\* The refund and the excluded capture record of a late capture.
LateCaptureRefund(r) == FullRefund(r) /\ captureKind' = "late_capture"

\* requireVerifiedLateCaptureCompensation: a capture verified at or after the
\* cutoff of a voided, failed or expired payment; a failed one must hold its
\* provider failure event.
CompensateLateCapture(r) ==
  /\ pay \in {"voided", "failed", "pending"} /\ ~windowOpen /\ ~noIntentTerminal
  /\ pay = "failed" => failureEvent
  /\ MovePayment("refund_pending") /\ LateCaptureRefund(r)
  /\ UNCHANGED <<windowOpen, intent, failureEvent, hist, got, interim>>

-----------------------------------------------------------------------------
\* Refunds.

\* The statuses from which a refund may be set up: a settlement payment's
\* ordinary refund, a compensation's retry.
RefundSources(kind) == IF kind = "settlement" THEN {"captured", "partially_refunded"}
                       ELSE {"partially_refunded"}

\* requireExactOrdinaryRefundSetup, requireCompensationRefundRetry,
\* requireExactPartiallyRefundedPaymentSource: the amount is the active
\* adjustment's, or the outstanding captured balance.  A refund that repeats a
\* failed one names it.
SetUpRefund(r, amount, of) ==
  /\ pay \in RefundSources(captureKind) /\ interim = "none"
  /\ refund[r].st = "none"
  /\ amount \in 1..(Captured - Succeeded(refund))
  /\ of \in WithStatus(refund, {"failed"}) \cup {NoRefund}
  /\ of # NoRefund => /\ refund[of].amount = amount
                      /\ \A q \in Refunds : refund[q].of # of
  /\ MovePayment("refund_pending")
  /\ refund' = [refund EXCEPT ![r] = Fresh(r, amount, of)]
  /\ UNCHANGED <<captureVars, hist, got, interim>>

\* The dispatcher claims a pending refund; from here on the provider may act.
DispatchRefund(r) ==
  /\ refund[r].st = "pending" /\ ~refund[r].sent
  /\ refund' = [refund EXCEPT ![r].sent = TRUE]
  /\ UNCHANGED <<pay, captureVars, hist, got, interim>>

\* The provider decides, and may later revise, a refund it was sent.
ProviderDecides(r, kind) ==
  /\ refund[r].sent
  /\ hist[r] # <<>> => hist[r][Len(hist[r])] # kind
  /\ MapThenSumSet(LAMBDA q : Len(hist[q]), Refunds) < MaxEvents
  /\ hist' = [hist EXCEPT ![r] = Append(@, kind)]
  /\ UNCHANGED <<pay, captureVars, refund, got, interim>>

\* An event older than the newest recorded one, or one of a reconciled refund,
\* is kept as evidence and moves nothing.
RecordStale(r, i) ==
  /\ i \in 1..Len(hist[r]) /\ i \notin got[r]
  /\ i < LatestPrior(r) \/ refund[r].st \in {"superseded", "suspended"}
  /\ Record(r, i)
  /\ UNCHANGED <<pay, captureVars, refund, hist, interim>>

\* requireExactPaymentRefundCompletion: the only pending refund succeeds.
requireExactPaymentRefundCompletion(r) ==
  /\ PlainSet(refund)
  /\ refund[r].st = "pending" /\ Unsettled(refund) = {r}
  /\ Succeeded(refund) + refund[r].amount <= Captured

CompleteRefund(r, i) ==
  /\ pay = "refund_pending" /\ interim = "none"
  /\ requireExactPaymentRefundCompletion(r)
  /\ Newest(r, i) /\ hist[r][i] = "succeeded" /\ Record(r, i)
  /\ refund' = SetStatus(r, "succeeded")
  /\ MovePayment(Projected(refund'))
  /\ UNCHANGED <<captureVars, hist, interim>>

\* The restored payment: the failed refund leaves what has really been refunded.
RestorePayment(r) ==
  /\ refund' = SetStatus(r, "failed")
  /\ MovePayment(Projected(refund'))

\* requireExactRefundFailureRollback: the last pending refund fails.
RollBackRefund(r, i) ==
  /\ pay = "refund_pending" /\ interim = "none"
  /\ refund[r].st = "pending" /\ Unsettled(refund) = {r}
  /\ Succeeded(refund) < Captured
  /\ Newest(r, i) /\ hist[r][i] = "failed" /\ Record(r, i)
  /\ RestorePayment(r)
  /\ UNCHANGED <<captureVars, hist, interim>>

-----------------------------------------------------------------------------
\* readExactLateRefundFailureProof: a refund whose latest recorded event is a
\* success fails on a strictly newer event.
lateRefundFailureProof(r, i) ==
  /\ PlainSet(refund) /\ refund[r].st = "succeeded"
  /\ Newest(r, i) /\ hist[r][i] = "failed"
  /\ got[r] # {} /\ hist[r][LatestPrior(r)] = "succeeded"
  /\ Succeeded(refund) <= Captured

\* requireExactLateRefundFailureReconciliation, payment scope.  While another
\* refund keeps the payment pending, the failed one may be retried at once;
\* otherwise the payment falls back to its projection.
FailSucceededRefund(r, i) ==
  /\ interim = "none" /\ lateRefundFailureProof(r, i)
  /\ pay = Projected(refund)
  /\ Record(r, i)
  /\ refund' = SetStatus(r, "failed")
  /\ pay' = Projected(refund')
  /\ pay # "refund_pending" => MovePayment(pay')
  /\ UNCHANGED <<captureVars, hist, interim>>

FailAndRetryRefund(r, i, q) ==
  /\ interim = "none" /\ lateRefundFailureProof(r, i)
  /\ pay = "refund_pending" /\ Unsettled(refund) # {}
  /\ refund[q].st = "none" /\ \A p \in Refunds : refund[p].of # r
  /\ Record(r, i)
  /\ refund' = [SetStatus(r, "failed") EXCEPT ![q] = Fresh(q, refund[r].amount, r)]
  /\ UNCHANGED <<pay, captureVars, hist, interim>>

\* The event set of a late success: a failure was recorded, and the success is
\* uniquely the latest.
lateRefundSuccessProof(r, i) ==
  /\ refund[r].st = "failed"
  /\ Newest(r, i) /\ hist[r][i] = "succeeded"
  /\ \E k \in got[r] : hist[r][k] = "failed"

\* requireExactLateRefundSuccessReconciliation: the totals every phase checks.
lateRefundSuccessTotals ==
  /\ Succeeded(refund) + PendingAmount(refund) <= Captured
  /\ Succeeded(refund') + PendingAmount(refund') <= Captured

Retries(r) == {q \in Refunds : refund[q].of = r}

\* phase "start": no refund is pending and the command names no retry; the
\* payment passes through refund_pending.
StartLateSuccess(r, i) ==
  /\ interim = "none" /\ lateRefundSuccessProof(r, i)
  /\ Unsettled(refund) = {} /\ pay \in {"captured", "partially_refunded"}
  /\ pay = Projected(refund)
  /\ Record(r, i)
  /\ refund' = SetStatus(r, "succeeded")
  /\ lateRefundSuccessTotals
  /\ MovePayment("refund_pending")
  /\ interim' = Projected(refund')
  /\ UNCHANGED <<captureVars, hist>>

\* phase "complete", through requireExactPaymentRefundCompletion.
CompleteLateSuccess ==
  /\ interim # "none" /\ pay = "refund_pending"
  /\ MovePayment(interim)
  /\ interim' = "none"
  /\ UNCHANGED <<captureVars, refund, hist, got>>

\* Mutant: a retry still pending is superseded whether or not it was claimed.
lateRefundSuccessRetryUnclaimed(q) ==
  IF refund[q].st = "pending" THEN "superseded" ELSE "suspended"

\* phase "reconcile_pending_retry": the late success meets the retry of its
\* own refund.  One never dispatched is superseded and the success counts; one
\* already claimed or succeeded is suspended, and the books wait.
lateRefundSuccessRetryStatus(q) ==
  IF refund[q].st = "pending" /\ ~refund[q].sent THEN "superseded" ELSE "suspended"

ReconcileRetry(r, i, q) ==
  /\ interim = "none" /\ lateRefundSuccessProof(r, i)
  /\ q \in Retries(r) /\ refund[q].amount = refund[r].amount
  /\ refund[q].st = "pending" \/ (refund[q].st = "succeeded" /\ refund[q].sent)
  /\ Record(r, i)
  /\ refund' = [refund EXCEPT
       ![q].st = lateRefundSuccessRetryStatus(q),
       ![r].st = IF lateRefundSuccessRetryStatus(q) = "superseded"
                 THEN "succeeded" ELSE "failed"]
  /\ lateRefundSuccessTotals
  /\ pay = Projected(refund)
  /\ pay' = Projected(refund')
  /\ pay # pay' => MovePayment(pay')
  /\ UNCHANGED <<captureVars, hist, interim>>

-----------------------------------------------------------------------------
PaymentInit ==
  /\ pay = "created" /\ captureKind = "none" /\ windowOpen = TRUE
  /\ intent = FALSE /\ failureEvent = FALSE
  /\ refund = [r \in Refunds |-> [st |-> "none", amount |-> 0, of |-> NoRefund,
                                  sent |-> FALSE]]
  /\ hist = [r \in Refunds |-> <<>>]
  /\ got = [r \in Refunds |-> {}]
  /\ interim = "none"

PaymentNext ==
  \/ CreateIntent \/ PassCutoff \/ FailPayment \/ VoidPayment \/ CaptureSettlement
  \/ CompleteLateSuccess
  \/ \E r \in Refunds :
       \/ CompensateCapacity(r) \/ CompensateLateCapture(r) \/ DispatchRefund(r)
       \/ \E amount \in 1..Captured, of \in Refunds \cup {NoRefund} :
            SetUpRefund(r, amount, of)
       \/ \E kind \in EventKind : ProviderDecides(r, kind)
       \/ \E i \in 1..MaxEvents :
            \/ RecordStale(r, i) \/ CompleteRefund(r, i) \/ RollBackRefund(r, i)
            \/ FailSucceededRefund(r, i) \/ StartLateSuccess(r, i)
            \/ \E q \in Refunds \ {r} : \/ FailAndRetryRefund(r, i, q)
                                        \/ ReconcileRetry(r, i, q)

PaymentSpec == PaymentInit /\ [][PaymentNext]_paymentVars

-----------------------------------------------------------------------------
\* Every field of the payment and of its refunds has its declared values.
PaymentTypeOK ==
  /\ pay \in PaymentStatus /\ captureKind \in CaptureKind
  /\ windowOpen \in BOOLEAN /\ intent \in BOOLEAN /\ failureEvent \in BOOLEAN
  /\ refund \in [Refunds -> [st : RefundStatus, amount : 0..Captured,
                             of : Refunds \cup {NoRefund}, sent : BOOLEAN]]
  /\ hist \in [Refunds -> Seq(EventKind)]
  /\ got \in [Refunds -> SUBSET (1..MaxEvents)]
  /\ interim \in {"none", "partially_refunded", "refunded"}

\* The customer is never promised more than was captured: what succeeded and
\* what may still succeed stay within the captured amount, through every
\* contradiction of an earlier provider result.
PromisedWithinCapture == Succeeded(refund) + PendingAmount(refund) <= Captured

\* The payment's status is the projection of its refunds, whatever order their
\* results came in: nobody reading it mistakes an owed refund for a paid one.
StatusProjectsRefunds ==
  captureKind # "none" =>
    IF interim = "none" THEN pay = Projected(refund)
    ELSE pay = "refund_pending" /\ interim = Projected(refund)

\* A retry dropped because its original succeeded after all was never executed
\* by the provider, whichever of dispatch, provider result and late success
\* came first: supersession is only for retries nobody has claimed.
SupersededNeverPaid ==
  \A r \in Refunds : refund[r].st = "superseded" => hist[r] = <<>> /\ ~refund[r].sent

\* A capture that came too late is owed back until it is repaid: while its
\* compensation is outstanding, a refund is on its way or can be set up again.
CompensationRetried ==
  captureKind \in {"late_capture", "initial_checkout_capacity"}
    /\ Succeeded(refund) < Captured /\ interim = "none"
  => \/ Unsettled(refund) # {}
     \/ pay \in RefundSources(captureKind)

\* Payment and refunds agree after every command of the payment policies and
\* every provider event, in whatever order the events come.
PaymentSound == PromisedWithinCapture /\ StatusProjectsRefunds /\ SupersededNeverPaid
=============================================================================
