-------------------------- MODULE CheckoutPayments --------------------------
(***************************************************************************)
(* The initial payment of one automatic order, from checkout to a confirmed *)
(* order or a compensated capture:                                          *)
(*                                                                          *)
(*   - payments rows, the order and its phase reservation sets;             *)
(*   - PaymentsService.createCheckoutPayment: stage, call the provider,     *)
(*     finalize, and its recovery from lost answers;                        *)
(*   - customer cancellation, the deadline sweeper, reservation expiry;     *)
(*   - webhook handlers: consumeProviderEvent with reacquisition of an      *)
(*     expired reservation, and taven_apply_checkout_payment_event;         *)
(*   - the void command, and the compensation refund of a late capture;     *)
(*   - the payment provider and the customer (external).                    *)
(*                                                                          *)
(* Every action is one database transaction, one unlocked read or one       *)
(* provider exchange; every writer takes the Order/Phase/Payment envelope   *)
(* first, so transactions of the order are atomic and interleave freely.    *)
(* Whether the 15-minute life of a reservation and the 60-minute capture    *)
(* window have ended are facts that become true at some moment.             *)
(* Amounts, currencies and delivery evidence always match: a mismatch is    *)
(* refused before any state changes.                                        *)
(***************************************************************************)
EXTENDS Integers, FiniteSets

CONSTANTS
    Payments,   \* identifiers of payments rows (= merchant references)
    Handlers,   \* webhook requests that may be served at once
    MaxSets,    \* bound on the reservation sets of the order's phase
    Expiring,   \* payments whose capture window may end
    Kinds,      \* kinds of event the provider reports
    MaxRetries, \* bound on the retries of a failed compensation refund
    NoPayment

ASSUME CheckoutAssumption ==
    /\ MaxSets \in Nat \ {0}
    /\ Expiring \subseteq Payments
    /\ Kinds \subseteq {"PENDING", "FAILED", "CAPTURED"}
    /\ MaxRetries \in 0..1
    /\ NoPayment \notin Payments

Sets == 1..MaxSets

VARIABLES
    order,       \* orders.status
    status,      \* payments.status, "NONE" before the row exists
    authorized,  \* payments with capture_authorized (no capture_cutoff_at)
    intent,      \* payments with provider_intent_id
    url,         \* payments with provider_checkout_url
    staged,      \* payments with a checkout.verified_capture_staged event
    command,     \* idempotency record: "PROCESSING", or the status it answered
    refund,      \* the compensation refund of a late capture
    voidMsg,     \* outbox message void_payment:v1:<payment>
    receipts,    \* payment_provider_events
    sets,        \* phase_reservation_sets.status, in order of creation
    stale,       \* sets whose expires_at has passed
    late,        \* payments whose checkout_capture_expires_at has passed
    creator,     \* where the createCheckoutPayment call of each payment is
    handler,     \* locals of the webhook handlers
    provider     \* external: the intent of each payment at the provider

dbVars == <<order, status, authorized, intent, url, staged, command, refund,
            voidMsg, receipts, sets>>
clockVars == <<stale, late>>
vars == <<dbVars, clockVars, creator, handler, provider>>

-----------------------------------------------------------------------------
Open == {"CREATED", "PENDING"}
Active == {"CREATED", "PENDING", "CAPTURED"}
Idle == [pc |-> "idle", payment |-> NoPayment, kind |-> "PENDING",
         context |-> FALSE, prev |-> 0, resolved |-> FALSE, forced |-> FALSE]

Init ==
    /\ order = "QUOTED"
    /\ status = [p \in Payments |-> "NONE"]
    /\ authorized = {} /\ intent = {} /\ url = {} /\ staged = {}
    /\ command = [p \in Payments |-> "NONE"]
    /\ refund = [p \in Payments |-> "NONE"]
    /\ voidMsg = [p \in Payments |-> "NONE"]
    /\ receipts = {}
    /\ sets = [g \in Sets |-> IF g = 1 THEN "RESERVED" ELSE "NONE"]
    /\ stale = {} /\ late = {}
    /\ creator = [p \in Payments |-> "none"]
    /\ handler = [h \in Handlers |-> Idle]
    /\ provider = [p \in Payments |-> "NONE"]

Live(g) == sets[g] = "RESERVED" /\ g \notin stale
Newest(S) == CHOOSE g \in S : \A f \in S : f <= g
Reserved == {g \in Sets : sets[g] = "RESERVED"}
SetsAs(from, to) == [g \in Sets |-> IF sets[g] \in from THEN to ELSE sets[g]]

-----------------------------------------------------------------------------
(* taven_close_initial_checkout_payment.                                    *)

\* A cancellation that waited past the deadline is an expiry.
CloseReason(p, reason) ==
    IF reason = "CUSTOMER_CANCELLED" /\ p \in late THEN "CHECKOUT_EXPIRED"
    ELSE reason

\* expired_order_reservation_release_check,
\* cancelled_order_reservation_terminal_check and
\* confirmed_order_reservation_hold_check, deferred to the commit.
ReservationsReconciled(o, ss) ==
    /\ o = "CONFIRMED" => /\ Cardinality({g \in Sets : ss[g] = "HELD"}) = 1
                          /\ \A g \in Sets : ss[g] # "RESERVED"
    /\ o = "EXPIRED" => \A g \in Sets : ss[g] \in {"NONE", "RELEASED"}
    /\ o = "CANCELLED" => \A g \in Sets : ss[g] \notin {"RESERVED", "HELD"}

EnqueueVoid(p) ==
    voidMsg' = [voidMsg EXCEPT ![p] = IF @ = "NONE" THEN "PENDING" ELSE @]

\* Mutation: the reservation sets are left to expire by themselves.
CloseKeepsReservations(p, reason, final) ==
    LET effective == CloseReason(p, reason)
    IN  /\ effective = "CHECKOUT_EXPIRED" => p \in late
        /\ effective = "CAPACITY_UNAVAILABLE" => p \notin late
        /\ status' = [status EXCEPT ![p] = final]
        /\ authorized' = authorized \ {p}
        /\ sets' = sets
        /\ order' = IF order # "QUOTED" THEN order
                    ELSE IF effective = "CHECKOUT_EXPIRED" THEN "EXPIRED"
                    ELSE "CANCELLED"

\* The payment ends in final (VOIDED, or REFUND_PENDING when the closing
\* transaction goes on to compensate), every reservation is released and a
\* quoted order is terminated, in one transaction.
Close(p, reason, final) ==
    LET effective == CloseReason(p, reason)
    IN  /\ effective = "CHECKOUT_EXPIRED" => p \in late
        /\ effective = "CAPACITY_UNAVAILABLE" => p \notin late
        /\ status' = [status EXCEPT ![p] = final]
        /\ authorized' = authorized \ {p}
        /\ sets' = SetsAs({"RESERVED", "HELD"}, "RELEASED")
        /\ order' = IF order # "QUOTED" THEN order
                    ELSE IF effective = "CHECKOUT_EXPIRED" THEN "EXPIRED"
                    ELSE "CANCELLED"
        /\ ReservationsReconciled(order', sets')

CloseOpen(p, reason) ==
    /\ status[p] \in Open
    /\ Close(p, reason, "VOIDED")
    /\ IF p \in intent THEN EnqueueVoid(p) ELSE UNCHANGED voidMsg

\* cancelCheckoutPayment; a payment that is not open is left alone.
CustomerCancel(p) ==
    /\ CloseOpen(p, "CUSTOMER_CANCELLED")
    /\ UNCHANGED <<intent, url, staged, command, refund, receipts, clockVars,
                   creator, handler, provider>>

\* CheckoutPaymentDeadlineService: the sweep of this order's payment.
DeadlineSweep(p) ==
    /\ p \in late
    /\ CloseOpen(p, "CHECKOUT_EXPIRED")
    /\ UNCHANGED <<intent, url, staged, command, refund, receipts, clockVars,
                   creator, handler, provider>>

-----------------------------------------------------------------------------
(* createCheckoutPayment.                                                   *)

CreatorAt(p, label) == creator' = [creator EXCEPT ![p] = label]

\* Mutation: a completed command is answered again.
CompleteAgain(p, answer) == command' = [command EXCEPT ![p] = answer]

\* idempotency_records_completed_result_immutable: a completed command keeps
\* its answer.
Complete(p, answer) ==
    /\ command[p] \in {"PROCESSING", answer}
    /\ command' = [command EXCEPT ![p] = answer]

\* frozenCheckoutEvidence: after the first acceptance only a failed attempt
\* without an active sibling may be retried.
RetryAllowed ==
    \/ \A q \in Payments : status[q] = "NONE"
    \/ /\ \E q \in Payments : status[q] = "FAILED"
       /\ \A q \in Payments : status[q] \notin Active

StageCheckout(p) ==
    /\ status[p] = "NONE"
    /\ order = "QUOTED"
    /\ RetryAllowed
    /\ status' = [status EXCEPT ![p] = "CREATED"]
    /\ authorized' = authorized \cup {p}
    /\ command' = [command EXCEPT ![p] = "PROCESSING"]
    /\ CreatorAt(p, "call")
    /\ UNCHANGED <<order, intent, url, staged, refund, voidMsg, receipts, sets,
                   clockVars, handler, provider>>

CallCreateIntent(p) ==
    /\ creator[p] = "call"
    /\ provider' = [provider EXCEPT ![p] = "REQUESTED"]
    /\ CreatorAt(p, "await")
    /\ UNCHANGED <<dbVars, clockVars, handler>>

\* The adapter's answer: an intent with its URL, an unusable answer that names
\* the intent, a definitive refusal, or nothing that can be relied on.
ReceiveIntent(p) ==
    /\ creator[p] = "await"
    /\ \/ /\ provider[p] \in {"OPEN", "DECLINED", "PAID"}
          /\ CreatorAt(p, "finalize") \/ CreatorAt(p, "close")
       \/ provider[p] = "REJECTED" /\ CreatorAt(p, "rejected")
       \/ CreatorAt(p, "ambiguous")
    /\ UNCHANGED <<dbVars, clockVars, handler, provider>>

\* The finalizing transaction, whose acknowledgement may be lost.
FinalizeIntent(p) ==
    /\ creator[p] = "finalize"
    /\ \/ /\ status[p] = "CREATED"
          /\ status' = [status EXCEPT ![p] = "PENDING"]
          /\ intent' = intent \cup {p}
          /\ url' = url \cup {p}
          /\ Complete(p, "PENDING")
          /\ CreatorAt(p, "done") \/ CreatorAt(p, "reconcile")
       \/ /\ status[p] # "CREATED" /\ p \in intent
          /\ url' = IF status[p] = "PENDING" THEN url \cup {p} ELSE url
          /\ Complete(p, status[p])
          /\ CreatorAt(p, "done") \/ CreatorAt(p, "reconcile")
          /\ UNCHANGED <<status, intent>>
       \/ /\ CreatorAt(p, "reconcile")        \* refused, or failed
          /\ UNCHANGED <<status, intent, url, command>>
    /\ UNCHANGED <<order, authorized, staged, refund, voidMsg, receipts, sets,
                   clockVars, handler, provider>>

\* readCommittedIntentFinalization.
CommittedFinalization(p) ==
    /\ p \in intent
    /\ \/ command[p] = "PENDING" /\ p \in url
       \/ command[p] = "FAILED" /\ status[p] = "FAILED" /\ p \notin url

ReconcileFinalization(p) ==
    /\ creator[p] = "reconcile"
    /\ \/ CreatorAt(p, IF CommittedFinalization(p) THEN "done" ELSE "close")
       \/ CreatorAt(p, "done")                \* every read failed
    /\ UNCHANGED <<dbVars, clockVars, handler, provider>>

\* closeReturnedIntentAfterLock, once a capture recovery does not own the
\* intent: an attempt nobody can pay any more is voided, with a void command
\* for the intent the provider returned.
CaptureOwnsIntent(p) == p \in intent /\ p \in staged
Abandoned(p) ==
    status[p] = "CREATED"
    \/ (status[p] = "PENDING" /\ p \in intent /\ p \notin url)

CloseReturned(p) ==
    /\ ~ CaptureOwnsIntent(p)
    /\ \/ Abandoned(p) /\ Close(p, "CUSTOMER_CANCELLED", "VOIDED")
       \/ status[p] = "VOIDED" /\ UNCHANGED <<status, authorized, sets, order>>
    /\ EnqueueVoid(p)
    /\ Complete(p, "VOIDED")

CloseReturnedIntent(p) ==
    /\ creator[p] = "close"
    /\ \/ CloseReturned(p) /\ CreatorAt(p, "done")
       \/ /\ CaptureOwnsIntent(p) \/ Abandoned(p) \/ status[p] = "VOIDED"
          /\ CreatorAt(p, "done")             \* left alone, or failed
          /\ UNCHANGED <<order, status, authorized, sets, voidMsg, command>>
       \/ /\ ~ CaptureOwnsIntent(p) /\ ~ Abandoned(p) /\ status[p] # "VOIDED"
          /\ CreatorAt(p, "cancel")
          /\ UNCHANGED <<order, status, authorized, sets, voidMsg, command>>
    /\ UNCHANGED <<intent, url, staged, refund, receipts, clockVars, handler,
                   provider>>

\* Best effort: the provider cancels the intent, or the call fails.
CancelReturnedIntent(p) ==
    /\ creator[p] = "cancel"
    /\ \/ /\ provider[p] = "OPEN"
          /\ provider' = [provider EXCEPT ![p] = "CANCELLED"]
       \/ UNCHANGED provider
    /\ CreatorAt(p, "done")
    /\ UNCHANGED <<dbVars, clockVars, handler>>

RecordIntentFailure(p) ==
    /\ creator[p] = "rejected"
    /\ \/ /\ status[p] = "CREATED"
          /\ status' = [status EXCEPT ![p] = "FAILED"]
          /\ authorized' = authorized \ {p}
          /\ Complete(p, "FAILED")
       \/ /\ status[p] = "FAILED" /\ Complete(p, "FAILED")
          /\ UNCHANGED <<status, authorized>>
       \/ UNCHANGED <<status, authorized, command>>   \* null, or failed
    /\ CreatorAt(p, "done")
    /\ UNCHANGED <<order, intent, url, staged, refund, voidMsg, receipts, sets,
                   clockVars, handler, provider>>

RecordIntentAmbiguity(p) ==
    /\ creator[p] = "ambiguous"
    /\ \/ status[p] = "PENDING" /\ Abandoned(p) /\ CloseReturned(p)
       \/ /\ status[p] \notin Open /\ Complete(p, status[p])
          /\ UNCHANGED <<order, status, authorized, sets, voidMsg>>
       \/ UNCHANGED <<order, status, authorized, sets, voidMsg, command>>
    /\ CreatorAt(p, "done")
    /\ UNCHANGED <<intent, url, staged, refund, receipts, clockVars, handler,
                   provider>>

CrashCreator(p) ==
    /\ creator[p] \notin {"none", "done"}
    /\ CreatorAt(p, "done")
    /\ UNCHANGED <<dbVars, clockVars, handler, provider>>

\* The same key again (checkoutIdempotencyAfterLock): an unanswered command is
\* answered from a payment whose outcome is known.
ReplayCheckout(p) ==
    /\ command[p] = "PROCESSING"
    /\ status[p] \notin {"NONE", "CREATED"}
    /\ status[p] = "PENDING" => p \in url
    /\ Complete(p, status[p])
    /\ UNCHANGED <<order, status, authorized, intent, url, staged, refund,
                   voidMsg, receipts, sets, clockVars, creator, handler,
                   provider>>

-----------------------------------------------------------------------------
(* consumeProviderEvent: one webhook request. Between the steps the handler *)
(* holds no lock, so everything it read may be stale when it is used.       *)

Goto(h, label) == handler' = [handler EXCEPT ![h].pc = label]
Answer(h, resolved) ==
    handler' = [handler EXCEPT ![h].pc = "apply", ![h].resolved = resolved,
                               ![h].prev = 0]
Finish(h) == handler' = [handler EXCEPT ![h] = Idle]

\* The adapter asks the provider for the current state of the intent.
Kind(p) == IF provider[p] = "PAID" THEN "CAPTURED"
           ELSE IF provider[p] = "OPEN" THEN "PENDING" ELSE "FAILED"

Deliver(h, p) ==
    /\ handler[h].pc = "idle"
    /\ status[p] # "NONE"
    /\ provider[p] \in {"OPEN", "DECLINED", "CANCELLED", "PAID"}
    /\ Kind(p) \in Kinds
    /\ handler' = [handler EXCEPT ![h] =
           [Idle EXCEPT !.pc = IF Kind(p) = "CAPTURED" THEN "context" ELSE "apply",
                        !.payment = p, !.kind = Kind(p), !.context = TRUE]]
    /\ UNCHANGED <<dbVars, clockVars, creator, provider>>

\* isCaptureContextCurrent: a quoted order may still have lost its price
\* binding or its delivery evidence.
ReadContext(h) ==
    /\ handler[h].pc = "context"
    /\ \/ order = "QUOTED" /\ Goto(h, "read")
       \/ handler' = [handler EXCEPT ![h].pc = "apply", ![h].context = FALSE]
    /\ UNCHANGED <<dbVars, clockVars, creator, provider>>

\* tryReacquireForCapture, up to the staging of a payment still CREATED.
ReadPayment(h) ==
    LET p == handler[h].payment
    IN  /\ handler[h].pc = "read"
        /\ IF status[p] \notin Open \/ p \notin authorized THEN Answer(h, FALSE)
           ELSE Goto(h, IF status[p] = "CREATED" THEN "stage" ELSE "sets")
        /\ UNCHANGED <<dbVars, clockVars, creator, provider>>

\* taven_stage_created_checkout_payment_for_capture.
StageCapture(h) ==
    LET p == handler[h].payment
    IN  /\ handler[h].pc = "stage"
        /\ IF status[p] \notin Open \/ p \notin authorized \/ p \in late
           THEN Answer(h, FALSE) /\ UNCHANGED <<status, intent, staged>>
           ELSE /\ staged' = staged \cup {p}
                /\ status' = [status EXCEPT ![p] = "PENDING"]
                /\ intent' = intent \cup {p}
                /\ Goto(h, "sets")
        /\ UNCHANGED <<order, authorized, url, command, refund, voidMsg, receipts,
                       sets, clockVars, creator, provider>>

Latest == Newest({g \in Sets : sets[g] # "NONE"})

ReadSets(h) ==
    LET p == handler[h].payment
    IN  /\ handler[h].pc = "sets"
        /\ IF p \in late THEN Answer(h, FALSE)
           ELSE IF \E g \in Sets : Live(g) THEN Answer(h, handler[h].forced)
           ELSE handler' = [handler EXCEPT
                    ![h].prev = Latest,
                    ![h].pc = IF sets[Latest] = "RESERVED" THEN "release" ELSE "plan"]
        /\ UNCHANGED <<dbVars, clockVars, creator, provider>>

\* releaseBeforeCapture.
ReleaseStale(h) ==
    /\ handler[h].pc = "release"
    /\ sets' = [sets EXCEPT ![handler[h].prev] =
                   IF @ \in {"RESERVED", "HELD"} THEN "RELEASED" ELSE @]
    /\ Goto(h, "plan")
    /\ UNCHANGED <<order, status, authorized, intent, url, staged, command, refund,
                   voidMsg, receipts, clockVars, creator, provider>>

\* createCompletePlan: a quoted phase may still have no eligible candidates.
CreatePlan(h) ==
    /\ handler[h].pc = "plan"
    /\ \/ order = "QUOTED" /\ Goto(h, "reacquire")
       \/ Answer(h, TRUE)
    /\ UNCHANGED <<dbVars, clockVars, creator, provider>>

\* Mutation: a live replacement installed meanwhile is not looked for.
MayReacquireUnfenced(p, prev) ==
    /\ status[p] \in {"PENDING", "CAPTURED"} /\ p \in authorized /\ p \notin late
    /\ sets[prev] \in {"RELEASED", "EXPIRED"}

\* taven_reacquire_phase_reservation_for_capture: no live replacement won
\* meanwhile, and the previous set is terminal.
MayReacquire(p, prev) ==
    /\ status[p] \in {"PENDING", "CAPTURED"} /\ p \in authorized /\ p \notin late
    /\ status[p] = "PENDING" => \A g \in Sets : ~ Live(g)
    /\ sets[prev] \in {"RELEASED", "EXPIRED"}

\* A conflict (capacity gone, a fence, the bound on sets) counts as resolved:
\* the event transaction decides what the capture becomes.
Reacquire(h) ==
    LET p == handler[h].payment
        prev == handler[h].prev
        free == {g \in Sets : sets[g] = "NONE"}
    IN  /\ handler[h].pc = "reacquire"
        /\ \/ /\ MayReacquire(p, prev)
              /\ \E g \in free : /\ \A f \in free : g <= f
                                 /\ sets' = [sets EXCEPT ![g] = "RESERVED"]
              /\ ReservationsReconciled(order, sets')
           \/ UNCHANGED sets
        /\ Answer(h, TRUE)
        /\ UNCHANGED <<order, status, authorized, intent, url, staged, command,
                       refund, voidMsg, receipts, clockVars, creator, provider>>

-----------------------------------------------------------------------------
(* taven_apply_checkout_payment_event, on the row as bound to its intent.   *)

\* Mutation: an attempt voided before its intent was known is not found.
LocatorIntentOrCreated(p) == p \in intent \/ status[p] = "CREATED"

\* The provider transaction identifies the row, by its intent or, for an
\* attempt whose intent was never recorded, by its merchant reference.
Locator(p) == p \in intent \/ status[p] \in {"CREATED", "VOIDED"}

Receipted(p, kind) == receipts' = receipts \cup {<<p, kind>>}

BindIntent(p) == intent' = IF status[p] = "CREATED" THEN intent \cup {p} ELSE intent

ApplyPending(p) ==
    /\ status' = [status EXCEPT ![p] = IF @ = "CREATED" THEN "PENDING" ELSE @]
    /\ UNCHANGED <<order, authorized, sets, refund, voidMsg>>

ApplyFailed(p) ==
    /\ status' = [status EXCEPT ![p] = IF @ \in Open THEN "FAILED" ELSE @]
    /\ authorized' = IF status[p] \in Open THEN authorized \ {p} ELSE authorized
    /\ UNCHANGED <<order, sets, refund, voidMsg>>

\* The newest reserved set, which a capture would hold, and its life.
ActiveLive == Reserved # {} /\ Live(Newest(Reserved))

\* The reservation went stale after the handler looked at it.
ReacquireRequired(p, context, resolved) ==
    /\ status[p] = "PENDING" /\ p \in authorized /\ p \notin late
    /\ context /\ order = "QUOTED"
    /\ ~ ActiveLive
    /\ ~ resolved

\* Mutation: the authorization of the attempt is not looked at again.
CaptureWinsUnauthorized(p, context, eligible) ==
    /\ p \notin late
    /\ context /\ order = "QUOTED"
    /\ eligible /\ ActiveLive

CaptureWins(p, context, eligible) ==
    /\ status[p] \in Open /\ p \in authorized /\ p \notin late
    /\ context /\ order = "QUOTED"
    /\ eligible /\ ActiveLive

Capture(p) ==
    /\ status' = [status EXCEPT ![p] = "CAPTURED"]
    /\ sets' = [sets EXCEPT ![Newest(Reserved)] = "HELD"]
    /\ order' = "CONFIRMED"
    /\ ReservationsReconciled(order', sets')
    /\ UNCHANGED <<authorized, refund, voidMsg>>

\* Why an open payment that cannot be captured is closed.
LateReason(p, context, eligible) ==
    IF p \in late THEN "CHECKOUT_EXPIRED"
    ELSE IF context /\ ~ (eligible /\ ActiveLive)
    THEN "CAPACITY_UNAVAILABLE"
    ELSE "CUSTOMER_CANCELLED"

Compensable == {"FAILED", "VOIDED"}

\* Mutation: only a closed checkout is compensated, not a failed attempt.
CompensateVoidedOnly(p) ==
    IF status[p] = "VOIDED"
    THEN /\ status' = [status EXCEPT ![p] = "REFUND_PENDING"]
         /\ refund' = [refund EXCEPT ![p] = "PENDING"]
         /\ UNCHANGED <<order, authorized, sets, voidMsg>>
    ELSE UNCHANGED <<order, status, authorized, sets, refund, voidMsg>>

\* Money that arrives after another winner is refunded; a capture already
\* recorded is ignored.
Compensate(p) ==
    IF status[p] \in Compensable
    THEN /\ status' = [status EXCEPT ![p] = "REFUND_PENDING"]
         /\ refund' = [refund EXCEPT ![p] = "PENDING"]
         /\ UNCHANGED <<order, authorized, sets, voidMsg>>
    ELSE UNCHANGED <<order, status, authorized, sets, refund, voidMsg>>

CloseAndCompensate(p, context, eligible) ==
    /\ Close(p, LateReason(p, context, eligible), "REFUND_PENDING")
    /\ EnqueueVoid(p)
    /\ refund' = [refund EXCEPT ![p] = "PENDING"]

ApplyCaptured(p, context, eligible) ==
    IF CaptureWins(p, context, eligible) THEN Capture(p)
    ELSE IF status[p] \in Open THEN CloseAndCompensate(p, context, eligible)
    ELSE Compensate(p)

\* The receipt and everything it causes commit together.
ApplyEvent(h) ==
    LET p == handler[h].payment
        kind == handler[h].kind
        context == handler[h].context
    IN  /\ handler[h].pc = "apply"
        /\ <<p, kind>> \notin receipts /\ Locator(p)
        /\ \/ kind = "PENDING" /\ ApplyPending(p)
           \/ kind = "FAILED" /\ ApplyFailed(p)
           \/ /\ kind = "CAPTURED"
              /\ ~ ReacquireRequired(p, context, handler[h].resolved)
              /\ \E eligible \in BOOLEAN : ApplyCaptured(p, context, eligible)
        /\ BindIntent(p)
        /\ Receipted(p, kind)
        /\ Finish(h)
        /\ UNCHANGED <<url, staged, command, clockVars, creator, provider>>

\* REACQUIRE_REQUIRED is answered with one forced reacquisition; a second one
\* ends the request (502), and the provider delivers again.
AskReacquire(h) ==
    LET p == handler[h].payment
    IN  /\ handler[h].pc = "apply" /\ handler[h].kind = "CAPTURED"
        /\ <<p, "CAPTURED">> \notin receipts /\ Locator(p)
        /\ ReacquireRequired(p, handler[h].context, handler[h].resolved)
        /\ IF handler[h].forced THEN Finish(h)
           ELSE handler' = [handler EXCEPT ![h].pc = "read", ![h].forced = TRUE]
        /\ UNCHANGED <<dbVars, clockVars, creator, provider>>

\* A deferred check refuses the commit: a stale competitor of the set to be
\* held, or an expired set of an order that is about to expire.
RefusedAtCommit(p) ==
    \/ ActiveLive /\ Cardinality(Reserved) > 1
    \/ p \in late /\ status[p] \in Open /\ \E g \in Sets : sets[g] = "EXPIRED"

\* DUPLICATE, or an exception: nothing is recorded.
ApplyNothing(h) ==
    LET p == handler[h].payment
        kind == handler[h].kind
    IN  /\ handler[h].pc = "apply"
        /\ \/ <<p, kind>> \in receipts \/ ~ Locator(p)
           \/ kind = "CAPTURED" /\ RefusedAtCommit(p)
        /\ Finish(h)
        /\ UNCHANGED <<dbVars, clockVars, creator, provider>>

CrashHandler(h) ==
    /\ handler[h].pc # "idle"
    /\ Finish(h)
    /\ UNCHANGED <<dbVars, clockVars, creator, provider>>

-----------------------------------------------------------------------------
(* Reservation life, the capture window, and ResourceReservationExpiryService. *)

TtlPasses(g) ==
    /\ sets[g] = "RESERVED" /\ g \notin stale
    /\ stale' = stale \cup {g}
    /\ UNCHANGED <<dbVars, late, creator, handler, provider>>

\* The reservation made before checkout (15 minutes) ends before the window
\* that checkout opens (60 minutes).
DeadlinePasses(p) ==
    /\ p \in Expiring \ late /\ status[p] # "NONE" /\ 1 \in stale
    /\ late' = late \cup {p}
    /\ UNCHANGED <<dbVars, stale, creator, handler, provider>>

ExpireSet(g) ==
    /\ sets[g] = "RESERVED" /\ g \in stale
    /\ sets' = [sets EXCEPT ![g] = "EXPIRED"]
    /\ UNCHANGED <<order, status, authorized, intent, url, staged, command, refund,
                   voidMsg, receipts, clockVars, creator, handler, provider>>

-----------------------------------------------------------------------------
(* PaymentOutboxDispatcher.voidPayment, and the compensation refund (the    *)
(* refund protocol itself is module Refunds).                               *)

\* cancelIntent succeeds on an open intent and on one already cancelled.
VoidedAtProvider(p) == provider[p] \in {"OPEN", "CANCELLED", "DECLINED"}

\* The message of a payment that is no longer VOIDED has nothing to do; a
\* cancellation the provider refuses is retried.
VoidPayment(p) ==
    /\ voidMsg[p] = "PENDING"
    /\ \/ status[p] # "VOIDED" /\ UNCHANGED provider
       \/ /\ status[p] = "VOIDED" /\ VoidedAtProvider(p)
          /\ provider' = [provider EXCEPT ![p] = IF @ = "OPEN" THEN "CANCELLED" ELSE @]
    /\ voidMsg' = [voidMsg EXCEPT ![p] = "DELIVERED"]
    /\ UNCHANGED <<order, status, authorized, intent, url, staged, command, refund,
                   receipts, sets, clockVars, creator, handler>>

CompensationSucceeds(p) ==
    /\ refund[p] \in {"PENDING", "RETRYING"}
    /\ refund' = [refund EXCEPT ![p] = "SUCCEEDED"]
    /\ status' = [status EXCEPT ![p] = "REFUNDED"]
    /\ UNCHANGED <<order, authorized, intent, url, staged, command, voidMsg,
                   receipts, sets, clockVars, creator, handler, provider>>

\* payments_one_active_attempt_per_schedule_key.
NoOtherActive(p) == \A q \in Payments \ {p} : status[q] \notin Active

CompensationFails(p) ==
    /\ refund[p] \in {"PENDING", "RETRYING"}
    /\ NoOtherActive(p)
    /\ refund' = [refund EXCEPT ![p] = IF @ = "PENDING" THEN "FAILED" ELSE "RETRY_FAILED"]
    /\ status' = [status EXCEPT ![p] = "CAPTURED"]
    /\ UNCHANGED <<order, authorized, intent, url, staged, command, voidMsg,
                   receipts, sets, clockVars, creator, handler, provider>>

RetryCompensation(p) ==
    /\ refund[p] = "FAILED" /\ MaxRetries > 0
    /\ refund' = [refund EXCEPT ![p] = "RETRYING"]
    /\ status' = [status EXCEPT ![p] = "REFUND_PENDING"]
    /\ UNCHANGED <<order, authorized, intent, url, staged, command, voidMsg,
                   receipts, sets, clockVars, creator, handler, provider>>

-----------------------------------------------------------------------------
(* The provider and the customer (external). A payment in flight may settle *)
(* after the intent was declined or cancelled.                              *)

ProviderMoves(p, from, to) ==
    /\ provider[p] \in from
    /\ provider' = [provider EXCEPT ![p] = to]
    /\ UNCHANGED <<dbVars, clockVars, creator, handler>>

ProviderAccepts(p) == ProviderMoves(p, {"REQUESTED"}, "OPEN")
ProviderRejects(p) == ProviderMoves(p, {"REQUESTED"}, "REJECTED")
ProviderDeclines(p) == ProviderMoves(p, {"OPEN"}, "DECLINED")
CustomerPays(p) == ProviderMoves(p, {"OPEN", "DECLINED", "CANCELLED"}, "PAID")

-----------------------------------------------------------------------------
CreatorStep(p) ==
    \/ CallCreateIntent(p) \/ ReceiveIntent(p) \/ FinalizeIntent(p)
    \/ ReconcileFinalization(p) \/ CloseReturnedIntent(p)
    \/ CancelReturnedIntent(p) \/ RecordIntentFailure(p)
    \/ RecordIntentAmbiguity(p)

HandlerStep(h) ==
    \/ ReadContext(h) \/ ReadPayment(h) \/ StageCapture(h) \/ ReadSets(h)
    \/ ReleaseStale(h) \/ CreatePlan(h) \/ Reacquire(h)
    \/ ApplyEvent(h) \/ AskReacquire(h) \/ ApplyNothing(h)

PaymentStep(p) ==
    \/ CustomerCancel(p) \/ DeadlineSweep(p)
    \/ StageCheckout(p) \/ CreatorStep(p) \/ CrashCreator(p) \/ ReplayCheckout(p)
    \/ DeadlinePasses(p) \/ VoidPayment(p)
    \/ CompensationSucceeds(p) \/ CompensationFails(p) \/ RetryCompensation(p)
    \/ ProviderAccepts(p) \/ ProviderRejects(p) \/ ProviderDeclines(p)
    \/ CustomerPays(p)

Next ==
    \/ \E p \in Payments : PaymentStep(p)
    \/ \E h \in Handlers :
          HandlerStep(h) \/ CrashHandler(h) \/ (\E p \in Payments : Deliver(h, p))
    \/ \E g \in Sets : TtlPasses(g) \/ ExpireSet(g)

Spec == Init /\ [][Next]_vars

\* A request that was started runs on unless its process dies, processes stop
\* dying, the provider delivers a payment until it gets an answer, and the
\* expiry and outbox workers run periodically. Nobody has to pay or cancel.
DeliverCapture(p) ==
    \E h \in Handlers :
        <<p, "CAPTURED">> \notin receipts /\ Kind(p) = "CAPTURED" /\ Deliver(h, p)

Killed(h) == CrashHandler(h) /\ ~ ApplyNothing(h) /\ ~ AskReacquire(h)

Fairness ==
    /\ \A h \in Handlers : WF_vars(HandlerStep(h))
    /\ \A p \in Payments : SF_vars(DeliverCapture(p)) /\ WF_vars(VoidPayment(p))
    /\ \A g \in Sets : WF_vars(ExpireSet(g))
    /\ <>[][\A h \in Handlers : ~ Killed(h)]_vars
FairSpec == Spec /\ Fairness

-----------------------------------------------------------------------------
StatusValues == {"NONE", "CREATED", "PENDING", "FAILED", "VOIDED", "CAPTURED",
                 "REFUND_PENDING", "REFUNDED"}

CreatorLabels == {"none", "call", "await", "finalize", "reconcile", "close",
                  "cancel", "rejected", "ambiguous", "done"}
HandlerLabels == {"idle", "context", "read", "stage", "sets", "release", "plan",
                  "reacquire", "apply"}
HandlerStates ==
    [pc : HandlerLabels, payment : Payments \cup {NoPayment},
     kind : {"PENDING", "FAILED", "CAPTURED"}, context : BOOLEAN,
     prev : Sets \cup {0}, resolved : BOOLEAN, forced : BOOLEAN]

\* Types, and the payments_* checks the columns obey together: only a row
\* that exists is authorized or bound, a URL belongs to a bound intent.
TypeOK ==
    /\ order \in {"QUOTED", "CONFIRMED", "CANCELLED", "EXPIRED"}
    /\ status \in [Payments -> StatusValues]
    /\ authorized \subseteq {p \in Payments : status[p] \in Active}
    /\ intent \subseteq {p \in Payments : status[p] \notin {"NONE", "CREATED"}}
    /\ url \subseteq intent
    /\ staged \subseteq intent
    /\ command \in [Payments -> StatusValues \cup {"PROCESSING"}]
    /\ refund \in [Payments -> {"NONE", "PENDING", "RETRYING", "FAILED",
                                "RETRY_FAILED", "SUCCEEDED"}]
    /\ voidMsg \in [Payments -> {"NONE", "PENDING", "DELIVERED"}]
    /\ receipts \subseteq Payments \X {"PENDING", "FAILED", "CAPTURED"}
    /\ sets \in [Sets -> {"NONE", "RESERVED", "HELD", "RELEASED", "EXPIRED"}]
    /\ stale \subseteq Sets
    /\ late \subseteq Expiring
    /\ creator \in [Payments -> CreatorLabels]
    /\ handler \in [Handlers -> HandlerStates]
    /\ provider \in [Payments -> {"NONE", "REQUESTED", "OPEN", "REJECTED", "DECLINED",
                                  "CANCELLED", "PAID"}]

Winners == {p \in authorized : status[p] = "CAPTURED"}

\* Capture, cancellation, failure and expiry have one winner: the order is
\* confirmed exactly when one attempt was captured with its authorization
\* intact, and that attempt's reservation is the one held.
OneWinner ==
    /\ order = "CONFIRMED" <=> Cardinality(Winners) = 1
    /\ order = "CONFIRMED" <=> Cardinality({g \in Sets : sets[g] = "HELD"}) = 1
    /\ order # "CONFIRMED" => Winners = {} /\ \A g \in Sets : sets[g] # "HELD"

\* Money is never kept for nothing and never returned unreceived: a recorded
\* capture either won the order or is compensated, whatever the attempt was
\* when it arrived, and nothing else is compensated.
MoneySettled ==
    \A p \in Payments :
        /\ <<p, "CAPTURED">> \in receipts => (refund[p] = "NONE" <=> p \in Winners)
        /\ refund[p] # "NONE" => <<p, "CAPTURED">> \in receipts

\* A closed order gives its capacity back and cannot be paid any more, whoever
\* closed it and whatever a webhook was reacquiring meanwhile.
ClosedHoldsNothing ==
    order \in {"CANCELLED", "EXPIRED"} =>
        /\ \A g \in Sets : sets[g] \notin {"RESERVED", "HELD"}
        /\ \A p \in Payments : status[p] \notin Open

\* Two webhooks that reacquire at once never occupy capacity twice.
SingleReservation == Cardinality({g \in Sets : sets[g] = "HELD" \/ Live(g)}) <= 1

\* An intent this service cancelled at the provider is never the intent of an
\* attempt the customer is still offered (closeReturnedIntent after a lost
\* acknowledgement of the finalizing commit).
CancelledNotPayable == \A p \in Payments : provider[p] = "CANCELLED" => status[p] \notin Open

\* What this service closed stays closed: neither the provider's page nor the
\* reservation of a closed attempt can still be used (closeReturnedIntent,
\* taven_close_initial_checkout_payment).
ClosedIsClosed == CancelledNotPayable /\ ClosedHoldsNothing

\* No step takes an outcome back: a closed attempt only moves on to
\* compensation, an order leaves QUOTED once, a held set stays held, a
\* withdrawn authorization does not return, an answered command keeps its
\* answer.
OutcomesKept ==
    [][/\ order # "QUOTED" => order' = order
       /\ \A p \in Payments :
            /\ status[p] \in Compensable => status'[p] \in {status[p], "REFUND_PENDING"}
            /\ p \in authorized' \ authorized => status[p] = "NONE"
            /\ command[p] \notin {"NONE", "PROCESSING"} => command'[p] = command[p]
       /\ \A g \in Sets : sets[g] = "HELD" => sets'[g] = "HELD"
       /\ receipts \subseteq receipts']_vars

\* Every payment the customer makes is eventually recorded unless the capture
\* window ends first (see ExpiryClosable for what happens then), and by
\* MoneySettled wins the order or is compensated.
PaidIsSettled ==
    \A p \in Payments :
        provider[p] = "PAID" ~> (p \in late \/ <<p, "CAPTURED">> \in receipts)

\* A void command does not retry for ever: the intent is cancelled, or the
\* money that beat the cancellation is recorded.
VoidSettles == \A p \in Payments : voidMsg[p] = "PENDING" ~> voidMsg[p] = "DELIVERED"

\* Whatever was lost on the way, payments and void commands come to an end
\* (redelivered webhooks, the outbox dispatcher).
CheckoutSettles == PaidIsSettled /\ VoidSettles

\* Documented, refuted: an overdue open checkout can always be closed, which
\* needs every set released, though the expiry worker marks unpaid sets
\* EXPIRED long before the capture window ends.
ExpiryClosable ==
    \A p \in late : status[p] \in Open =>
        ReservationsReconciled("EXPIRED", SetsAs({"RESERVED", "HELD"}, "RELEASED"))

\* Documented, refuted: the failure of a compensation refund can be recorded
\* (which makes its Payment CAPTURED) even when the customer has retried.
CompensationFailureRecordable ==
    \A p \in Payments : refund[p] \in {"PENDING", "RETRYING"} => NoOtherActive(p)
=============================================================================
