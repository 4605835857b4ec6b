------------------------------ MODULE Refunds ------------------------------
(***************************************************************************)
(* The refund attempts of one captured Payment whose provider cannot be     *)
(* replayed (refundRetrySafety() = MANUAL_RECONCILIATION):                  *)
(*                                                                          *)
(*   - refund_transactions rows and the SQL that guards them;               *)
(*   - the outbox and the payment dispatcher that sends refunds;            *)
(*   - the one receipt applicator, taven_apply_refund_provider_result;      *)
(*   - the operator commands refundAdjustment, recordRefundProviderResult   *)
(*     and retryRefund;                                                     *)
(*   - the provider itself (external).                                      *)
(*                                                                          *)
(* Every action is one database transaction or one provider exchange, so    *)
(* dispatchers, operators and the provider interleave between any two of    *)
(* the dispatcher's steps.  The lease of an outbox message is not timed: a  *)
(* PROCESSING message may be taken over at any moment, which contains every *)
(* schedule in which five minutes went by.  Its attempts counter only tells *)
(* one lease from another; leaseHolder names the dispatcher of the last     *)
(* lease instead, so that no bound on the number of leases is needed.       *)
(* Time is a logical clock that ticks at each claim and at each receipt.    *)
(***************************************************************************)
EXTENDS Integers, FiniteSets, Functions

CONSTANTS
    Refunds,      \* identifiers of refund_transactions rows
    Adjustments,  \* price adjustments of the order that name this Payment
    Required,     \* their refund_required_minor
    Captured,     \* captured_amount_minor of the Payment
    Workers,      \* dispatcher instances
    Tolerance,    \* the five-second evidence tolerance, in clock ticks
    MaxTime,      \* bound: operators record results while the clock is below it
    NoRefund, NoAdjustment, NoReceipt, NoWorker

ASSUME RefundsAssumption ==
    /\ IsFiniteSet(Refunds)
    /\ Captured \in Nat \ {0}
    /\ Required \in [Adjustments -> Nat \ {0}]
    /\ Tolerance \in Nat
    /\ MaxTime \in Nat
    /\ NoRefund \notin Refunds
    /\ NoAdjustment \notin Adjustments
    /\ NoWorker \notin Workers

VARIABLES
    status,        \* refund_status of each row; "NONE" before the row exists
    adjustment,    \* price_adjustment_id
    replaces,      \* replaces_refund_transaction_id
    claimedAt,     \* refund_dispatch_claims.claimed_at, 0 when unclaimed
    result,        \* provider_result_event_id, the selected receipt
    sourceSuccess, \* source_success_provider_event_id
    receipts,      \* payment_provider_events of the refunds
    payment,       \* payments.status
    outbox,        \* outbox_messages.status of refund_payment:v1:<refund>
    leaseHolder,   \* dispatcher whose lease is the message's latest
    pc,            \* where each dispatcher is in refundPayment
    task,           \* the refund each dispatcher works on
    won,           \* whether its taven_claim_refund_dispatch won the claim
    sent,          \* external: refund requests sent to the provider
    moved,         \* external: transfers the provider made for them
    now            \* logical database clock

refundVars == <<status, adjustment, replaces, result, sourceSuccess>>
providerVars == <<sent, moved>>
workerVars == <<pc, task, won>>
vars == <<status, adjustment, replaces, claimedAt, result, sourceSuccess,
          receipts, payment, outbox, leaseHolder, pc, task, won, sent, moved,
          now>>

-----------------------------------------------------------------------------
(* Rows.                                                                    *)

RefundStatus == {"NONE", "PENDING", "SUCCEEDED", "FAILED", "SUPERSEDED",
                 "SUSPENDED"}
PaymentStatus == {"CAPTURED", "REFUND_PENDING", "PARTIALLY_REFUNDED",
                  "REFUNDED"}
Committing == {"PENDING", "SUSPENDED", "SUCCEEDED"}
Kinds == {"SUCCEEDED", "FAILED"}

\* A receipt: the dispatcher's event identifier is a hash of the refund, the
\* operator's a hash of refund, outcome and occurrence, so the fields are the
\* identity of the event.
Receipt(r, by, kind, at) == [refund |-> r, by |-> by, kind |-> kind, at |-> at]
Receipts == [refund : Refunds, by : {"api", "operator"}, kind : Kinds, at : Int]

ASSUME NoReceiptAssumption == NoReceipt \notin Receipts

Exists(r) == status[r] # "NONE"
Replacements(r) == {c \in Refunds : replaces[c] = r}
Amount(r) ==
    IF adjustment[r] = NoAdjustment THEN 0 ELSE Required[adjustment[r]]

Init ==
    /\ status = [r \in Refunds |-> "NONE"]
    /\ adjustment = [r \in Refunds |-> NoAdjustment]
    /\ replaces = [r \in Refunds |-> NoRefund]
    /\ claimedAt = [r \in Refunds |-> 0]
    /\ result = [r \in Refunds |-> NoReceipt]
    /\ sourceSuccess = [r \in Refunds |-> NoReceipt]
    /\ receipts = {}
    /\ payment = "CAPTURED"
    /\ outbox = [r \in Refunds |-> "NONE"]
    /\ leaseHolder = [r \in Refunds |-> NoWorker]
    /\ pc = [w \in Workers |-> "idle"]
    /\ task = [w \in Workers |-> NoRefund]
    /\ won = [w \in Workers |-> FALSE]
    /\ sent = [r \in Refunds |-> 0]
    /\ moved = [r \in Refunds |-> 0]
    /\ now = 1

-----------------------------------------------------------------------------
(* Money guards of the database.                                            *)

Amounts == [r \in Refunds |-> Amount(r)]
Total(rows) == SumFunctionOnSet(Amounts, rows)
CommittedRows(st) == {r \in Refunds : st[r] \in Committing}
Committed(st) == Total(CommittedRows(st))

\* refund_captured_payment_check and refund_adjustment_required_amount_check.
\* Both look at the row set as the statement leaves it.
WithinCapture(st) == Committed(st) <= Captured
WithinAdjustments(st) ==
    \A a \in Adjustments :
        Total({r \in CommittedRows(st) : adjustment[r] = a}) <= Required[a]

\* The Payment status the applicator derives from the whole refund set.
DerivedPayment(st) ==
    LET succeeded == Total({r \in Refunds : st[r] = "SUCCEEDED"})
    IN  IF \E r \in Refunds : st[r] \in {"PENDING", "SUSPENDED"}
        THEN "REFUND_PENDING"
        ELSE IF succeeded = Captured THEN "REFUNDED"
        ELSE IF succeeded > 0 THEN "PARTIALLY_REFUNDED"
        ELSE "CAPTURED"

\* payment_status_transition_check for the statuses of a captured Payment;
\* leaving REFUNDED needs a suspended incident in the new refund set.
PaymentTransition(old, new, st) ==
    \/ old = new
    \/ old = "CAPTURED" /\ new = "REFUND_PENDING"
    \/ old = "REFUND_PENDING"
    \/ old = "PARTIALLY_REFUNDED" /\ new \in {"REFUND_PENDING", "REFUNDED"}
    \/ /\ old = "REFUNDED" /\ new = "REFUND_PENDING"
       /\ \E r \in Refunds : st[r] = "SUSPENDED"

\* refund_result_event_order_check: a selected receipt is strictly the latest
\* of its refund by occurrence.
StrictlyLatest(rc, others) ==
    \A o \in others : o.refund = rc.refund /\ o # rc => o.at < rc.at

-----------------------------------------------------------------------------
(* taven_apply_refund_provider_result.  An outcome is the refund rows after  *)
(* the receipt was applied; the branch that raises has no outcome.           *)

Outcome(st, res, src) == [status |-> st, result |-> res, source |-> src]

\* PENDING: the receipt decides the attempt.
PendingOutcome(r, rc) ==
    IF status[r] = "PENDING"
    THEN {Outcome([status EXCEPT ![r] = rc.kind],
                  [result EXCEPT ![r] = rc], sourceSuccess)}
    ELSE {}

\* The source of a late success is a FAILED attempt whose selected failure
\* occurred earlier, and which is not itself a resolved retry.
LateSuccess(r, rc) ==
    /\ status[r] = "FAILED"
    /\ rc.kind = "SUCCEEDED"
    /\ result[r].kind = "FAILED"
    /\ rc.at > result[r].at
    /\ sourceSuccess[r] = NoReceipt

\* ... with no replacement, or with a replacement that has failed: the source
\* itself succeeds.
LateOutcome(r, rc) ==
    IF /\ LateSuccess(r, rc)
       /\ \A c \in Replacements(r) : status[c] = "FAILED"
       /\ StrictlyLatest(rc, receipts)
    THEN {Outcome([status EXCEPT ![r] = "SUCCEEDED"],
                  [result EXCEPT ![r] = rc], sourceSuccess)}
    ELSE {}

\* ... with a replacement nobody has claimed: it is superseded.
SupersedeOutcome(r, rc) ==
    {Outcome([status EXCEPT ![r] = "SUCCEEDED", ![c] = "SUPERSEDED"],
             [result EXCEPT ![r] = rc],
             [sourceSuccess EXCEPT ![c] = rc]) :
        c \in {c \in Replacements(r) :
                 /\ LateSuccess(r, rc)
                 /\ status[c] = "PENDING"
                 /\ claimedAt[c] = 0
                 /\ StrictlyLatest(rc, receipts)}}

\* ... with a claimed replacement, pending or already successful: it becomes
\* the suspended incident that retains the source's success.
SuspendOutcome(r, rc) ==
    {Outcome([status EXCEPT ![c] = "SUSPENDED"], result,
             [sourceSuccess EXCEPT ![c] = rc]) :
        c \in {c \in Replacements(r) :
                 /\ LateSuccess(r, rc)
                 /\ status[c] \in {"PENDING", "SUCCEEDED"}
                 /\ claimedAt[c] # 0}}

\* Mutation: the retry fails, and its source stays FAILED.
ResolveOutcomeSourceForgotten(r, rc) ==
    IF /\ status[r] = "SUSPENDED" /\ rc.kind = "FAILED"
       /\ claimedAt[r] # 0 /\ result[r] = NoReceipt
    THEN {Outcome([status EXCEPT ![r] = "FAILED"],
                  [result EXCEPT ![r] = rc], sourceSuccess)}
    ELSE {}

\* Failure of a suspended retry: the retained source success is applied.
ResolveOutcome(r, rc) ==
    {Outcome([status EXCEPT ![r] = "FAILED", ![s] = "SUCCEEDED"],
             [result EXCEPT ![r] = rc, ![s] = sourceSuccess[r]],
             sourceSuccess) :
        s \in {s \in Refunds :
                 /\ status[r] = "SUSPENDED" /\ rc.kind = "FAILED"
                 /\ claimedAt[r] # 0 /\ result[r] = NoReceipt
                 /\ s = replaces[r] /\ status[s] = "FAILED"
                 /\ StrictlyLatest(rc, receipts)
                 /\ StrictlyLatest(sourceSuccess[r], receipts)}}

\* Success of a suspended retry: the double success stays an incident.
DoubleSuccessOutcome(r, rc) ==
    IF /\ status[r] = "SUSPENDED" /\ rc.kind = "SUCCEEDED"
       /\ StrictlyLatest(rc, receipts)
    THEN {Outcome(status, [result EXCEPT ![r] = rc], sourceSuccess)}
    ELSE {}

Outcomes(r, rc) ==
    {o \in UNION {PendingOutcome(r, rc), LateOutcome(r, rc),
                  SupersedeOutcome(r, rc), SuspendOutcome(r, rc),
                  ResolveOutcome(r, rc), DoubleSuccessOutcome(r, rc)} :
        /\ WithinCapture(o.status)
        /\ WithinAdjustments(o.status)
        /\ PaymentTransition(payment, DerivedPayment(o.status), o.status)}

\* refund_result_scope_check: evidence does not predate the dispatch claim.
InScope(r, at) == claimedAt[r] # 0 => at >= claimedAt[r] - Tolerance

ApplyRefundProviderResult(r, rc) ==
    /\ InScope(r, rc.at)
    /\ \E o \in Outcomes(r, rc) :
          /\ status' = o.status
          /\ result' = o.result
          /\ sourceSuccess' = o.source
          /\ payment' = DerivedPayment(o.status)
    /\ receipts' = receipts \cup {rc}
    /\ now' = now + 1
    /\ UNCHANGED <<adjustment, replaces, claimedAt>>

Accepts(r, rc) == InScope(r, rc.at) /\ Outcomes(r, rc) # {}

-----------------------------------------------------------------------------
(* Operator commands.                                                       *)

\* refund_payment:v1:<refund> is enqueued in the transaction that creates the
\* row, and the Payment becomes REFUND_PENDING.
CreateRefund(r, a, source) ==
    /\ status' = [status EXCEPT ![r] = "PENDING"]
    /\ adjustment' = [adjustment EXCEPT ![r] = a]
    /\ replaces' = [replaces EXCEPT ![r] = source]
    /\ outbox' = [outbox EXCEPT ![r] = "PENDING"]
    /\ payment' = "REFUND_PENDING"
    /\ UNCHANGED <<claimedAt, result, sourceSuccess, receipts, leaseHolder,
                   pc, task, won, sent, moved, now>>

\* Mutation: only successful refunds count against the capture.
RefundAdjustmentPendingUncounted(a, r) ==
    /\ ~ Exists(r)
    /\ \A x \in Refunds : Exists(x) => adjustment[x] # a
    /\ Captured - Total({x \in Refunds : status[x] = "SUCCEEDED"}) >= Required[a]
    /\ CreateRefund(r, a, NoRefund)

\* refundAdjustment, for an adjustment that selects this Payment: one refund
\* per adjustment, funded by what the Payment has not committed yet.
RefundAdjustment(a, r) ==
    /\ ~ Exists(r)
    /\ \A x \in Refunds : Exists(x) => adjustment[x] # a
    /\ Captured - Committed(status) >= Required[a]
    /\ CreateRefund(r, a, NoRefund)

Unresolved(r) ==
    status[r] = "SUSPENDED" \/ (status[r] = "PENDING" /\ claimedAt[r] # 0)

\* retryRefund: one replacement of a root attempt that finally failed.
RetryRefund(s, r) ==
    /\ ~ Exists(r)
    /\ status[s] = "FAILED" /\ replaces[s] = NoRefund
    /\ result[s].kind = "FAILED"
    /\ Replacements(s) = {}
    /\ sourceSuccess[s] = NoReceipt
    /\ ~ \E x \in Refunds : Unresolved(x)
    /\ ~ \E rc \in receipts : /\ rc.refund = s /\ rc.kind = "SUCCEEDED"
                              /\ rc.at > result[s].at
    /\ Captured - Committed(status) >= Amount(s)
    /\ Required[adjustment[s]]
         - Total({x \in CommittedRows(status) :
                    adjustment[x] = adjustment[s]}) >= Amount(s)
    /\ CreateRefund(r, adjustment[s], s)

\* recordRefundProviderResult: an operator attests the final outcome of a
\* claimed attempt while no dispatcher holds its message.  A success is
\* attested from the provider's own record of a transfer (external evidence);
\* a failure may be contradicted by the provider later.
RecordRefundProviderResult(r, kind, at) ==
    /\ now < MaxTime                                    \* bound
    /\ claimedAt[r] # 0
    /\ outbox[r] # "PROCESSING"
    /\ at <= now + 1 /\ at >= claimedAt[r] - Tolerance
    /\ kind = "SUCCEEDED" => moved[r] > 0
    /\ \/ status[r] \in {"PENDING", "SUSPENDED"}
       \/ status[r] = "FAILED" /\ kind = "SUCCEEDED"
    /\ Receipt(r, "operator", kind, at) \notin receipts
    /\ ApplyRefundProviderResult(r, Receipt(r, "operator", kind, at))
    /\ UNCHANGED <<outbox, leaseHolder, workerVars, providerVars>>

-----------------------------------------------------------------------------
(* PaymentOutboxDispatcherService, one message per dispatcher at a time.     *)

GoTo(w, label) == pc' = [pc EXCEPT ![w] = label]

\* refundPayment returned, threw or died with the process: its locals are gone.
Finish(w) ==
    /\ pc' = [pc EXCEPT ![w] = "idle"]
    /\ task' = [task EXCEPT ![w] = NoRefund]
    /\ won' = [won EXCEPT ![w] = FALSE]

\* claim(): a due message, or one whose lease ran out.
ClaimMessage(w, r) ==
    /\ pc[w] = "idle"
    /\ outbox[r] \in {"PENDING", "FAILED", "PROCESSING"}
    /\ outbox' = [outbox EXCEPT ![r] = "PROCESSING"]
    /\ leaseHolder' = [leaseHolder EXCEPT ![r] = w]
    /\ task' = [task EXCEPT ![w] = r]
    /\ won' = [won EXCEPT ![w] = FALSE]
    /\ GoTo(w, "read")
    /\ UNCHANGED <<refundVars, claimedAt, receipts, payment, providerVars, now>>

\* Mutation: decided work is an error instead of being settled.
ReadRefundDecidedThrows(w) ==
    /\ pc[w] = "read"
    /\ GoTo(w, IF status[task[w]] = "PENDING" THEN "claim" ELSE "fail")
    /\ UNCHANGED <<refundVars, claimedAt, receipts, payment, outbox,
                   leaseHolder, task, won, providerVars, now>>

\* refundPayment reads the row: work that is no longer PENDING is settled.
ReadRefund(w) ==
    /\ pc[w] = "read"
    /\ GoTo(w, IF status[task[w]] = "PENDING" THEN "claim" ELSE "deliver")
    /\ UNCHANGED <<refundVars, claimedAt, receipts, payment, outbox,
                   leaseHolder, task, won, providerVars, now>>

\* Mutation: a second claim of a pending attempt is granted.
ClaimableAgain(r) == status[r] = "PENDING" /\ result[r] = NoReceipt

\* taven_claim_refund_dispatch: the claim row is inserted once, and only while
\* the attempt is PENDING and undecided.
Claimable(r) ==
    /\ status[r] = "PENDING"
    /\ claimedAt[r] = 0
    /\ result[r] = NoReceipt
    /\ sourceSuccess[r] = NoReceipt

ClaimRefundDispatch(w) ==
    /\ pc[w] = "claim"
    /\ IF Claimable(task[w])
       THEN /\ claimedAt' = [claimedAt EXCEPT ![task[w]] = now + 1]
            /\ won' = [won EXCEPT ![w] = TRUE]
            /\ now' = now + 1
       ELSE /\ won' = [won EXCEPT ![w] = FALSE]
            /\ UNCHANGED <<claimedAt, now>>
    /\ GoTo(w, "recheck")
    /\ UNCHANGED <<refundVars, receipts, payment, outbox, leaseHolder, task,
                   providerVars>>

\* Mutation: the ambiguity fence of an unreplayable provider is missing.
RecheckRefundUnfenced(w) ==
    /\ pc[w] = "recheck"
    /\ GoTo(w, IF status[task[w]] # "PENDING" THEN "deliver" ELSE "call")
    /\ UNCHANGED <<refundVars, claimedAt, receipts, payment, outbox,
                   leaseHolder, task, won, providerVars, now>>

\* A final result may have won while the claim waited for its locks; and a
\* claim that was lost to an earlier dispatch is ambiguous.
RecheckRefund(w) ==
    /\ pc[w] = "recheck"
    /\ GoTo(w, IF status[task[w]] # "PENDING" THEN "deliver"
               ELSE IF ~ won[w] THEN "fail" ELSE "call")
    /\ UNCHANGED <<refundVars, claimedAt, receipts, payment, outbox,
                   leaseHolder, task, won, providerVars, now>>

SendRefund(w) ==
    /\ pc[w] = "call"
    /\ sent' = [sent EXCEPT ![task[w]] = @ + 1]
    /\ GoTo(w, "await")
    /\ UNCHANGED <<refundVars, claimedAt, receipts, payment, outbox,
                   leaseHolder, task, won, moved, now>>

\* The provider's answer: success once the transfer was made; an error or a
\* timeout says nothing about the transfer.
ReceiveAnswer(w) ==
    /\ pc[w] = "await"
    /\ \/ moved[task[w]] = sent[task[w]] /\ GoTo(w, "persist")
       \/ GoTo(w, "fail")
    /\ UNCHANGED <<refundVars, claimedAt, receipts, payment, outbox,
                   leaseHolder, task, won, providerVars, now>>

\* One attempt of the persistence loop.  The provider reports no occurrence
\* instant, so the receipt occurs at database time; its event identifier is
\* the refund's, so an earlier api receipt of the refund is a replay.
ApiReceipts(r) == {rc \in receipts : rc.refund = r /\ rc.by = "api"}

PersistResult(w) ==
    LET r  == task[w]
        rc == Receipt(r, "api", "SUCCEEDED", now + 1)
    IN  /\ pc[w] = "persist"
        /\ \/ /\ ApiReceipts(r) # {}                  \* recorded = false
              /\ GoTo(w, "deliver")
              /\ UNCHANGED <<refundVars, claimedAt, receipts, payment, now>>
           \/ /\ ApiReceipts(r) = {}
              /\ ApplyRefundProviderResult(r, rc)
              \* committed, with or without the acknowledgement arriving
              /\ GoTo(w, "deliver") \/ GoTo(w, "persist")
           \/ /\ GoTo(w, "fail")                      \* raised every time
              /\ UNCHANGED <<refundVars, claimedAt, receipts, payment, now>>
        /\ UNCHANGED <<outbox, leaseHolder, task, won, providerVars>>

\* The message is written only under the lease the dispatcher still holds; a
\* dispatcher that lost it writes nothing, in runOnce() and in fail() alike.
HoldsLease(w) == outbox[task[w]] = "PROCESSING" /\ leaseHolder[task[w]] = w

EndLease(w, new) ==
    IF HoldsLease(w)
    THEN /\ outbox' = [outbox EXCEPT ![task[w]] = new]
         /\ leaseHolder' = [leaseHolder EXCEPT ![task[w]] = NoWorker]
    ELSE UNCHANGED <<outbox, leaseHolder>>

DeliverMessage(w) ==
    /\ pc[w] = "deliver"
    /\ EndLease(w, "DELIVERED")
    /\ Finish(w)
    /\ UNCHANGED <<refundVars, claimedAt, receipts, payment, providerVars, now>>

FailMessage(w) ==
    /\ pc[w] = "fail"
    /\ EndLease(w, "FAILED")
    /\ Finish(w)
    /\ UNCHANGED <<refundVars, claimedAt, receipts, payment, providerVars, now>>

\* The process stops between two steps and restarts with nothing in memory.
CrashWorker(w) ==
    /\ pc[w] # "idle"
    /\ Finish(w)
    /\ UNCHANGED <<refundVars, claimedAt, receipts, payment, outbox,
                   leaseHolder, providerVars, now>>

\* External: the provider executes a request it has received, possibly long
\* after the dispatcher stopped waiting.
ProviderTransfers(r) ==
    /\ moved[r] < sent[r]
    /\ moved' = [moved EXCEPT ![r] = @ + 1]
    /\ UNCHANGED <<refundVars, claimedAt, receipts, payment, outbox,
                   leaseHolder, workerVars, sent, now>>

-----------------------------------------------------------------------------
WorkerStep(w) ==
    \/ ReadRefund(w) \/ ClaimRefundDispatch(w) \/ RecheckRefund(w)
    \/ SendRefund(w) \/ ReceiveAnswer(w) \/ PersistResult(w)
    \/ DeliverMessage(w) \/ FailMessage(w)

OperatorStep ==
    \/ \E a \in Adjustments, r \in Refunds : RefundAdjustment(a, r)
    \/ \E s, r \in Refunds : RetryRefund(s, r)
    \/ \E r \in Refunds, kind \in Kinds, at \in -Tolerance..(now + 1) :
          RecordRefundProviderResult(r, kind, at)

Next ==
    \/ OperatorStep
    \/ \E w \in Workers : WorkerStep(w) \/ CrashWorker(w)
    \/ \E w \in Workers, r \in Refunds : ClaimMessage(w, r)
    \/ \E r \in Refunds : ProviderTransfers(r)

Spec == Init /\ [][Next]_vars
\* Fairness: a dispatcher that is not stopped runs on, every due message is
\* eventually picked up, and from some moment on no dispatcher crashes and no
\* lease runs out under a dispatcher that is still at work on it.
Disturbance(w) ==
    \/ CrashWorker(w)
    \/ \E r \in Refunds : /\ ClaimMessage(w, r)
                          /\ \E v \in Workers : task[v] = r /\ leaseHolder[r] = v
Fairness ==
    /\ \A w \in Workers : WF_vars(WorkerStep(w))
    /\ \A r \in Refunds : SF_vars(\E w \in Workers : ClaimMessage(w, r))
    /\ <>[][\A w \in Workers : ~ Disturbance(w)]_vars
FairSpec == Spec /\ Fairness

-----------------------------------------------------------------------------
(* Properties.                                                              *)

Labels == {"idle", "read", "claim", "recheck", "call", "await", "persist",
           "deliver", "fail"}

\* Every variable keeps its type.
TypeOK ==
    /\ status \in [Refunds -> RefundStatus]
    /\ adjustment \in [Refunds -> Adjustments \cup {NoAdjustment}]
    /\ replaces \in [Refunds -> Refunds \cup {NoRefund}]
    /\ claimedAt \in [Refunds -> Nat]
    /\ result \in [Refunds -> Receipts \cup {NoReceipt}]
    /\ sourceSuccess \in [Refunds -> Receipts \cup {NoReceipt}]
    /\ receipts \in SUBSET Receipts
    /\ payment \in PaymentStatus
    /\ outbox \in [Refunds -> {"NONE", "PENDING", "PROCESSING", "FAILED",
                               "DELIVERED"}]
    /\ leaseHolder \in [Refunds -> Workers \cup {NoWorker}]
    /\ pc \in [Workers -> Labels]
    /\ task \in [Workers -> Refunds \cup {NoRefund}]
    /\ won \in [Workers -> BOOLEAN]
    /\ sent \in [Refunds -> Nat]
    /\ moved \in [Refunds -> Nat]
    /\ now \in Nat

\* The provider that cannot deduplicate is asked at most once per attempt,
\* whatever leases expire, dispatchers crash or operators decide meanwhile.
AtMostOneRequest == \A r \in Refunds : sent[r] <= 1

\* A retry that was superseded by its source's late success has never been
\* sent, and no dispatcher is about to send it.
SupersededNeverSent ==
    \A r \in Refunds : status[r] = "SUPERSEDED" =>
        /\ sent[r] = 0
        /\ \A w \in Workers : task[w] = r => pc[w] # "call"

\* Committed refund work never exceeds the capture, nor any adjustment's
\* cash obligation, however failures free budget and late successes claim it.
MoneyWithinLimits == WithinCapture(status) /\ WithinAdjustments(status)

\* The Payment never hides or invents refund work: its status is the one the
\* refund set implies after every command and every receipt.
PaymentReflectsRefunds == payment = DerivedPayment(status)

HasSuccess(r) == \E rc \in receipts : rc.refund = r /\ rc.kind = "SUCCEEDED"

\* Two recorded successes for one obligation are the suspended incident, with
\* the Payment held at REFUND_PENDING; they never count as two refunds.
DoubleSuccessSuspended ==
    \A c \in Refunds : replaces[c] # NoRefund /\ HasSuccess(c)
                       /\ HasSuccess(replaces[c]) =>
        status[c] = "SUSPENDED" /\ payment = "REFUND_PENDING"

\* A recorded success is never dropped: its attempt is SUCCEEDED with it, or
\* suspended with it, or the suspended replacement retains it.
SuccessRetained ==
    \A rc \in receipts : rc.kind = "SUCCEEDED" =>
        \/ status[rc.refund] = "SUCCEEDED" /\ result[rc.refund] = rc
        \/ status[rc.refund] = "SUSPENDED"
        \/ \E c \in Replacements(rc.refund) :
              status[c] = "SUSPENDED" /\ sourceSuccess[c] = rc

\* The attempts of one obligation stay a lineage with one outcome, in whatever
\* order the results of source and retry are recorded
\* (taven_apply_refund_provider_result).
LineageSound == SupersededNeverSent /\ DoubleSuccessSuspended /\ SuccessRetained

\* Refund work is bounded by what was captured and owed, and the Payment row
\* tells it (taven_reconcile_refund_payment_capture, the derived status).
MoneySound == MoneyWithinLimits /\ PaymentReflectsRefunds

\* What the provider was told or did is final: a success leaves SUCCEEDED only
\* for the suspended incident, a superseded attempt never changes, a failure
\* only yields to a success, and a claim is never withdrawn.
HistoryPreserved ==
    [][\A r \in Refunds :
          /\ status[r] = "SUCCEEDED" => status'[r] \in {"SUCCEEDED", "SUSPENDED"}
          /\ status[r] = "SUPERSEDED" => status'[r] = "SUPERSEDED"
          /\ status[r] = "FAILED" => status'[r] \in {"FAILED", "SUCCEEDED"}
          /\ claimedAt[r] # 0 => claimedAt'[r] = claimedAt[r]]_vars

\* Refund work that was requested is eventually claimed for dispatch (or was
\* decided before).
PendingIsDispatched ==
    \A r \in Refunds :
        status[r] = "PENDING" ~> (claimedAt[r] # 0 \/ status[r] # "PENDING")

\* The message of a decided attempt settles: it is not resent forever.
DecidedIsDelivered ==
    \A r \in Refunds :
        (Exists(r) /\ status[r] # "PENDING") ~> outbox[r] = "DELIVERED"

\* Nothing that was asked for is left lying, and nothing decided is resent for
\* ever (PaymentOutboxDispatcher.runOnce with its leases).
WorkSettles == PendingIsDispatched /\ DecidedIsDelivered

\* What the retry protocol promises: a transfer the provider really made can
\* always be recorded, in whatever order the results of the attempts arrive.
ProviderTruthRecordable ==
    \A r \in Refunds : moved[r] > 0 /\ ~ HasSuccess(r) =>
        Accepts(r, Receipt(r, "api", "SUCCEEDED", now + 1))
=============================================================================
