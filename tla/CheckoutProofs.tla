--------------------------- MODULE CheckoutProofs ---------------------------
(***************************************************************************)
(* Proofs about CheckoutPayments, for every number of attempts, webhook     *)
(* requests and reservation sets.                                           *)
(***************************************************************************)
EXTENDS CheckoutPayments, SumLemmas, TLAPS

USE CheckoutAssumption

\* A set of reservations that is not empty has a newest one.
LEMMA NewestExists ==
    ASSUME NEW S \in SUBSET Sets, S # {}
    PROVE  Newest(S) \in S /\ \A g \in S : g <= Newest(S)
<1> DEFINE Ages == {MaxSets - g : g \in S}
<1>1. Ages \in SUBSET Nat /\ Ages # {}
  BY DEF Sets
<1>2. PICK n \in Ages : \A m \in Ages : n <= m
  BY <1>1, LeastNatural
<1>3. PICK g \in S : n = MaxSets - g
  BY <1>2
<1>4. \A f \in S : f <= g
  BY <1>2, <1>3 DEF Sets
<1> QED
  BY <1>4 DEF Newest

-----------------------------------------------------------------------------
(* Handlers.  What each step of a webhook request does to its locals.        *)

\* A step of one webhook request leaves the other requests where they are and
\* changes its own row to one of the rows a request can have.
LEMMA HandlerMoves ==
    ASSUME TypeOK, NEW h \in Handlers
    PROVE  /\ \A l \in HandlerLabels :
                 Goto(h, l) =>
                    /\ handler' \in [Handlers -> HandlerStates]
                    /\ handler'[h].pc = l
                    /\ handler'[h].payment = handler[h].payment
                    /\ handler'[h].prev = handler[h].prev
                    /\ \A k \in Handlers \ {h} : handler'[k] = handler[k]
           /\ \A b \in BOOLEAN :
                 Answer(h, b) =>
                    /\ handler' \in [Handlers -> HandlerStates]
                    /\ handler'[h].pc = "apply"
                    /\ handler'[h].payment = handler[h].payment
                    /\ \A k \in Handlers \ {h} : handler'[k] = handler[k]
           /\ Finish(h) =>
                    /\ handler' \in [Handlers -> HandlerStates]
                    /\ handler'[h].pc = "idle"
                    /\ \A k \in Handlers \ {h} : handler'[k] = handler[k]
<1>1. handler \in [Handlers -> HandlerStates] /\ handler[h] \in HandlerStates
  BY DEF TypeOK
<1>2. ASSUME NEW l \in HandlerLabels, Goto(h, l)
      PROVE  /\ handler' \in [Handlers -> HandlerStates]
             /\ handler'[h].pc = l
             /\ handler'[h].payment = handler[h].payment
             /\ handler'[h].prev = handler[h].prev
             /\ \A k \in Handlers \ {h} : handler'[k] = handler[k]
  BY <1>1, <1>2 DEF Goto, HandlerStates
<1>3. ASSUME NEW b \in BOOLEAN, Answer(h, b)
      PROVE  /\ handler' \in [Handlers -> HandlerStates]
             /\ handler'[h].pc = "apply"
             /\ handler'[h].payment = handler[h].payment
             /\ \A k \in Handlers \ {h} : handler'[k] = handler[k]
  BY <1>1, <1>3 DEF Answer, HandlerStates, HandlerLabels
<1>4. ASSUME Finish(h)
      PROVE  /\ handler' \in [Handlers -> HandlerStates]
             /\ handler'[h].pc = "idle"
             /\ \A k \in Handlers \ {h} : handler'[k] = handler[k]
  BY <1>1, <1>4 DEF Finish, HandlerStates, HandlerLabels, Idle
<1> QED
  BY <1>2, <1>3, <1>4

\* A busy request serves an attempt that exists, and the set it is about to
\* release was stale when it was read.
HandlersSane ==
    \A h \in Handlers :
        /\ handler[h].pc # "idle" =>
              handler[h].payment \in Payments /\ status[handler[h].payment] # "NONE"
        /\ handler[h].pc = "release" => handler[h].prev \in stale

\* The phase always has the reservation made before the checkout.
FirstSet == sets[1] # "NONE"

\* Whatever step a request takes, its locals stay well formed; it never comes
\* to serve another attempt, and it only goes on to release a stale set.
LEMMA HandlerStepSane ==
    ASSUME TypeOK, FirstSet, HandlersSane, NEW h \in Handlers, HandlerStep(h)
    PROVE  /\ handler' \in [Handlers -> HandlerStates]
           /\ handler[h].pc # "idle"
           /\ handler'[h].pc # "idle" => handler'[h].payment = handler[h].payment
           /\ handler'[h].pc = "release" => handler'[h].prev \in stale
           /\ \A k \in Handlers \ {h} : handler'[k] = handler[k]
<1> DEFINE Sane == /\ handler' \in [Handlers -> HandlerStates]
                   /\ handler[h].pc # "idle"
                   /\ handler'[h].pc # "idle" => handler'[h].payment = handler[h].payment
                   /\ handler'[h].pc = "release" => handler'[h].prev \in stale
                   /\ \A k \in Handlers \ {h} : handler'[k] = handler[k]
<1>0. handler \in [Handlers -> HandlerStates] /\ handler[h] \in HandlerStates
  BY DEF TypeOK
<1>1. CASE ReadContext(h)
  <2>1. handler[h].pc = "context"
    BY <1>1 DEF ReadContext
  <2>2. CASE Goto(h, "read")
    BY <2>1, <2>2, HandlerMoves DEF HandlerLabels
  <2>3. CASE handler' = [handler EXCEPT ![h].pc = "apply", ![h].context = FALSE]
    BY <1>0, <2>1, <2>3 DEF HandlerStates, HandlerLabels
  <2> QED
    BY <1>1, <2>2, <2>3 DEF ReadContext
<1>2. CASE ReadPayment(h)
  <2>1. handler[h].pc = "read"
        /\ (Answer(h, FALSE) \/ Goto(h, "stage") \/ Goto(h, "sets"))
    BY <1>2 DEF ReadPayment
  <2> QED
    BY <2>1, HandlerMoves DEF HandlerLabels
<1>3. CASE StageCapture(h)
  <2>1. handler[h].pc = "stage" /\ (Answer(h, FALSE) \/ Goto(h, "sets"))
    BY <1>3 DEF StageCapture
  <2> QED
    BY <2>1, HandlerMoves DEF HandlerLabels
<1>4. CASE ReadSets(h)
  <2>0. handler[h].pc = "sets"
    BY <1>4 DEF ReadSets
  <2>1. CASE Answer(h, FALSE) \/ Answer(h, handler[h].forced)
    <3>1. handler[h].forced \in BOOLEAN
      BY <1>0 DEF HandlerStates
    <3> QED
      BY <2>0, <2>1, <3>1, HandlerMoves DEF HandlerLabels
  <2>2. CASE /\ \A g \in Sets : ~ Live(g)
             /\ handler' = [handler EXCEPT
                   ![h].prev = Latest,
                   ![h].pc = IF sets[Latest] = "RESERVED" THEN "release" ELSE "plan"]
    <3>1. Latest \in Sets
      <4>1. {g \in Sets : sets[g] # "NONE"} # {}
        BY DEF FirstSet, Sets
      <4> QED
        BY <4>1, NewestExists DEF Latest
    <3>2. sets[Latest] = "RESERVED" => Latest \in stale
      BY <2>2, <3>1 DEF Live
    <3> HIDE DEF Latest
    <3> QED
      BY <1>0, <2>0, <2>2, <3>1, <3>2 DEF HandlerStates, HandlerLabels
  <2> QED
    BY <1>4, <2>1, <2>2 DEF ReadSets
<1>5. CASE ReleaseStale(h)
  BY <1>5, HandlerMoves DEF ReleaseStale, HandlerLabels
<1>6. CASE CreatePlan(h)
  <2>1. handler[h].pc = "plan" /\ (Answer(h, TRUE) \/ Goto(h, "reacquire"))
    BY <1>6 DEF CreatePlan
  <2> QED
    BY <2>1, HandlerMoves DEF HandlerLabels
<1>7. CASE Reacquire(h)
  <2>1. handler[h].pc = "reacquire" /\ Answer(h, TRUE)
    BY <1>7 DEF Reacquire
  <2> QED
    BY <2>1, HandlerMoves DEF HandlerLabels
<1>8. CASE ApplyEvent(h)
  <2>1. handler[h].pc = "apply" /\ Finish(h)
    BY <1>8 DEF ApplyEvent
  <2> QED
    BY <2>1, HandlerMoves DEF HandlerLabels
<1>9. CASE AskReacquire(h)
  <2>0. handler[h].pc = "apply"
    BY <1>9 DEF AskReacquire
  <2>1. CASE Finish(h)
    BY <2>0, <2>1, HandlerMoves DEF HandlerLabels
  <2>2. CASE handler' = [handler EXCEPT ![h].pc = "read", ![h].forced = TRUE]
    BY <1>0, <2>0, <2>2 DEF HandlerStates, HandlerLabels
  <2> QED
    BY <1>9, <2>1, <2>2 DEF AskReacquire
<1>10. CASE ApplyNothing(h)
  <2>1. handler[h].pc = "apply" /\ Finish(h)
    BY <1>10 DEF ApplyNothing
  <2> QED
    BY <2>1, HandlerMoves DEF HandlerLabels
<1> QED
  BY <1>1, <1>2, <1>3, <1>4, <1>5, <1>6, <1>7, <1>8, <1>9, <1>10 DEF HandlerStep

-----------------------------------------------------------------------------
(* The ledger.  The winner of a checkout is decided by the order, the status *)
(* and authorization of its attempts, what was paid and refunded, and the    *)
(* reservation sets.  Every step of the system is one of the moves below on  *)
(* these, whichever actor takes it and however stale what it read is.        *)

Paid == {p \in Payments : <<p, "CAPTURED">> \in receipts}

StatusTo(p, s) == status' = [status EXCEPT ![p] = s]
Withdrawn(p) == authorized' = authorized \ {p}
PaidAs(p) == p \notin Paid /\ Paid' = Paid \cup {p}

\* A first attempt, or a retry after a failed one.
Starts(p) ==
    /\ status[p] = "NONE" /\ order = "QUOTED"
    /\ \A q \in Payments : status[q] \notin Active
    /\ StatusTo(p, "CREATED") /\ authorized' = authorized \cup {p}
    /\ Paid' = Paid /\ UNCHANGED <<order, refund, sets, stale>>

\* The provider's intent becomes known.
Pends(p) ==
    /\ status[p] \in Open
    /\ StatusTo(p, "PENDING")
    /\ Paid' = Paid /\ UNCHANGED <<order, authorized, refund, sets, stale>>

\* The attempt fails.
Fails(p) ==
    /\ status[p] \in Open
    /\ StatusTo(p, "FAILED") /\ Withdrawn(p)
    /\ Paid' = Paid /\ UNCHANGED <<order, refund, sets, stale>>

\* An open attempt is closed, without money or with money to return.
Releases ==
    /\ sets' = SetsAs({"RESERVED", "HELD"}, "RELEASED")
    /\ \/ order # "QUOTED" /\ order' = order
       \/ order = "QUOTED" /\ order' \in {"EXPIRED", "CANCELLED"}
    /\ UNCHANGED stale

Voids(p) ==
    /\ status[p] \in Open /\ Releases
    /\ StatusTo(p, "VOIDED") /\ Withdrawn(p)
    /\ Paid' = Paid /\ UNCHANGED refund

Returns(p) ==
    /\ status[p] \in Open /\ Releases
    /\ StatusTo(p, "REFUND_PENDING") /\ Withdrawn(p)
    /\ PaidAs(p) /\ refund' = [refund EXCEPT ![p] = "PENDING"]

\* The capture wins the order, and its live reservation is held.
Wins(p) ==
    /\ status[p] \in Open /\ p \in authorized /\ order = "QUOTED"
    /\ StatusTo(p, "CAPTURED") /\ order' = "CONFIRMED" /\ PaidAs(p)
    /\ \E g \in Sets : Live(g) /\ sets' = [sets EXCEPT ![g] = "HELD"]
    /\ \A g \in Sets : sets'[g] # "RESERVED"
    /\ UNCHANGED <<authorized, refund, stale>>

\* Money for an attempt that is over.
Compensates(p) ==
    /\ status[p] \in Compensable
    /\ StatusTo(p, "REFUND_PENDING") /\ PaidAs(p)
    /\ refund' = [refund EXCEPT ![p] = "PENDING"]
    /\ UNCHANGED <<order, authorized, sets, stale>>

\* A first receipt for an attempt in any other status: no such step is
\* possible, because only a receipt takes an attempt there.
Ignores(p) ==
    /\ status[p] \notin Open \cup Compensable \cup {"NONE"}
    /\ PaidAs(p)
    /\ UNCHANGED <<order, status, authorized, refund, sets, stale>>

\* The compensation refund ends, or is tried again.
Refunded(p) ==
    /\ refund[p] \in {"PENDING", "RETRYING"}
    /\ \/ StatusTo(p, "REFUNDED") /\ refund' = [refund EXCEPT ![p] = "SUCCEEDED"]
       \/ /\ NoOtherActive(p) /\ StatusTo(p, "CAPTURED")
          /\ \E s \in {"FAILED", "RETRY_FAILED"} : refund' = [refund EXCEPT ![p] = s]
    /\ Paid' = Paid /\ UNCHANGED <<order, authorized, sets, stale>>

Retried(p) ==
    /\ refund[p] = "FAILED"
    /\ StatusTo(p, "REFUND_PENDING") /\ refund' = [refund EXCEPT ![p] = "RETRYING"]
    /\ Paid' = Paid /\ UNCHANGED <<order, authorized, sets, stale>>

\* Reservations are made for an attempt, released, expired, or grow old.
Reserves(p, g) ==
    /\ status[p] \in {"PENDING", "CAPTURED"} /\ p \in authorized
    /\ status[p] = "PENDING" => \A f \in Sets : ~ Live(f)
    /\ sets[g] = "NONE" /\ sets' = [sets EXCEPT ![g] = "RESERVED"]
    /\ ReservationsReconciled(order, sets')
    /\ Paid' = Paid /\ UNCHANGED <<order, status, authorized, refund, stale>>

Ends(g) ==
    /\ g \in stale
    /\ \E s \in {"RELEASED", "EXPIRED", sets[g]} : sets' = [sets EXCEPT ![g] = s]
    /\ Paid' = Paid /\ UNCHANGED <<order, status, authorized, refund, stale>>

Ages(g) ==
    /\ sets[g] = "RESERVED" /\ stale' = stale \cup {g}
    /\ Paid' = Paid /\ UNCHANGED <<order, status, authorized, refund, sets>>

LedgerSame ==
    Paid' = Paid /\ UNCHANGED <<order, status, authorized, refund, sets, stale>>

LedgerMove ==
    \/ \E p \in Payments : \/ Starts(p) \/ Pends(p) \/ Fails(p) \/ Voids(p)
                           \/ Returns(p) \/ Wins(p) \/ Compensates(p) \/ Ignores(p)
                           \/ Refunded(p) \/ Retried(p)
    \/ \E p \in Payments, g \in Sets : Reserves(p, g)
    \/ \E g \in Sets : Ends(g) \/ Ages(g)
    \/ LedgerSame

\* Closing an attempt without money is a move of the ledger.
LEMMA CloseVoids ==
    ASSUME TypeOK, NEW p \in Payments, NEW reason, status[p] \in Open,
           Close(p, reason, "VOIDED"), UNCHANGED <<refund, receipts, stale>>
    PROVE  Voids(p)
BY DEF Close, Voids, Releases, StatusTo, Withdrawn, Paid, Compensable

\* So is every step of an attempt outside the webhook handlers.
LEMMA PaymentMove ==
    ASSUME TypeOK, NEW p \in Payments, PaymentStep(p)
    PROVE  LedgerMove
<1> USE DEF dbVars, clockVars
<1>1. CASE CustomerCancel(p)
  <2>1. Voids(p)
    BY <1>1, CloseVoids DEF CustomerCancel, CloseOpen
  <2> QED
    BY <2>1 DEF LedgerMove
<1>2. CASE DeadlineSweep(p)
  <2>1. Voids(p)
    BY <1>2, CloseVoids DEF DeadlineSweep, CloseOpen
  <2> QED
    BY <2>1 DEF LedgerMove
<1>3. CASE StageCheckout(p)
  <2>1. Starts(p)
    BY <1>3 DEF StageCheckout, RetryAllowed, Starts, StatusTo, Active, Paid
  <2> QED
    BY <2>1 DEF LedgerMove
<1>4. CASE FinalizeIntent(p)
  <2>1. Pends(p) \/ LedgerSame
    BY <1>4 DEF FinalizeIntent, Pends, LedgerSame, StatusTo, Open, Paid
  <2> QED
    BY <2>1 DEF LedgerMove
<1>5. CASE CloseReturnedIntent(p) \/ RecordIntentAmbiguity(p)
  <2>1. UNCHANGED <<refund, receipts, stale>>
    BY <1>5 DEF CloseReturnedIntent, RecordIntentAmbiguity
  <2>2. \/ Abandoned(p) /\ Close(p, "CUSTOMER_CANCELLED", "VOIDED")
        \/ UNCHANGED <<order, status, authorized, sets>>
    BY <1>5 DEF CloseReturnedIntent, RecordIntentAmbiguity, CloseReturned
  <2>3. CASE Abandoned(p) /\ Close(p, "CUSTOMER_CANCELLED", "VOIDED")
    <3>1. Voids(p)
      BY <2>1, <2>3, CloseVoids DEF Abandoned, Open
    <3> QED
      BY <3>1 DEF LedgerMove
  <2>4. CASE UNCHANGED <<order, status, authorized, sets>>
    BY <2>1, <2>4 DEF LedgerMove, LedgerSame, Paid
  <2> QED
    BY <2>2, <2>3, <2>4
<1>6. CASE RecordIntentFailure(p)
  <2>1. Fails(p) \/ LedgerSame
    BY <1>6 DEF RecordIntentFailure, Fails, LedgerSame, StatusTo, Withdrawn,
                Open, Paid
  <2> QED
    BY <2>1 DEF LedgerMove
<1>7. CASE \/ CompensationSucceeds(p) \/ CompensationFails(p)
  <2>1. Refunded(p)
    BY <1>7 DEF CompensationSucceeds, CompensationFails, Refunded, StatusTo, Paid,
                TypeOK
  <2> QED
    BY <2>1 DEF LedgerMove
<1>8. CASE RetryCompensation(p)
  <2>1. Retried(p)
    BY <1>8 DEF RetryCompensation, Retried, StatusTo, Paid
  <2> QED
    BY <2>1 DEF LedgerMove
<1>9. CASE \/ CallCreateIntent(p) \/ ReceiveIntent(p) \/ ReconcileFinalization(p)
           \/ CancelReturnedIntent(p) \/ CrashCreator(p) \/ ReplayCheckout(p)
           \/ DeadlinePasses(p) \/ VoidPayment(p) \/ ProviderAccepts(p)
           \/ ProviderRejects(p) \/ ProviderDeclines(p) \/ CustomerPays(p)
  <2>1. UNCHANGED <<order, status, authorized, refund, sets, stale, receipts>>
    BY <1>9 DEF CallCreateIntent, ReceiveIntent, ReconcileFinalization,
                CancelReturnedIntent, CrashCreator, ReplayCheckout, DeadlinePasses,
                VoidPayment, ProviderAccepts, ProviderRejects, ProviderDeclines,
                CustomerPays, ProviderMoves
  <2> QED
    BY <2>1 DEF LedgerMove, LedgerSame, Paid
<1> QED
  BY <1>1, <1>2, <1>3, <1>4, <1>5, <1>6, <1>7, <1>8, <1>9
  DEF PaymentStep, CreatorStep

\* Recording a receipt for p marks p as paid, if it is a capture.
LEMMA ReceiptPaid ==
    ASSUME NEW p \in Payments, NEW kind, Receipted(p, kind)
    PROVE  /\ kind = "CAPTURED" /\ <<p, kind>> \notin receipts => PaidAs(p)
           /\ kind # "CAPTURED" => Paid' = Paid
BY DEF Receipted, PaidAs, Paid

\* A webhook event that is applied is a move of the ledger.
LEMMA EventMove ==
    ASSUME TypeOK, HandlersSane, NEW h \in Handlers, ApplyEvent(h)
    PROVE  LedgerMove
<1> DEFINE p == handler[h].payment
           kind == handler[h].kind
           context == handler[h].context
<1>0. /\ p \in Payments /\ status[p] # "NONE"
      /\ <<p, kind>> \notin receipts /\ Receipted(p, kind) /\ stale' = stale
      /\ \/ kind = "PENDING" /\ ApplyPending(p)
         \/ kind = "FAILED" /\ ApplyFailed(p)
         \/ kind = "CAPTURED" /\ \E eligible \in BOOLEAN :
                                    ApplyCaptured(p, context, eligible)
  BY DEF ApplyEvent, HandlersSane, clockVars
<1> HIDE DEF p, kind, context
<1>1. CASE kind = "PENDING" /\ ApplyPending(p)
  <2>1. Paid' = Paid
    BY <1>0, <1>1, ReceiptPaid
  <2>2. Pends(p) \/ LedgerSame
    BY <1>0, <1>1, <2>1 DEF ApplyPending, Pends, LedgerSame, StatusTo, Open, TypeOK
  <2> QED
    BY <1>0, <2>2 DEF LedgerMove
<1>2. CASE kind = "FAILED" /\ ApplyFailed(p)
  <2>1. Paid' = Paid
    BY <1>0, <1>2, ReceiptPaid
  <2>2. Fails(p) \/ LedgerSame
    BY <1>0, <1>2, <2>1
    DEF ApplyFailed, Fails, LedgerSame, StatusTo, Withdrawn, TypeOK
  <2> QED
    BY <1>0, <2>2 DEF LedgerMove
<1>3. ASSUME kind = "CAPTURED", NEW eligible \in BOOLEAN,
             ApplyCaptured(p, context, eligible)
      PROVE  LedgerMove
  <2>0. PaidAs(p)
    BY <1>0, <1>3, ReceiptPaid
  <2>1. CASE CaptureWins(p, context, eligible)
    <3>1. Reserved \in SUBSET Sets /\ Reserved # {} /\ Live(Newest(Reserved))
      BY <2>1 DEF CaptureWins, ActiveLive, Reserved
    <3>2. Newest(Reserved) \in Sets
      BY <3>1, NewestExists
    <3>3. Capture(p)
      BY <1>3, <2>1 DEF ApplyCaptured
    <3>4. Wins(p)
      BY <1>0, <2>0, <2>1, <3>1, <3>2, <3>3
      DEF Wins, CaptureWins, Capture, StatusTo, ReservationsReconciled
    <3> QED
      BY <1>0, <3>4 DEF LedgerMove
  <2>2. CASE ~ CaptureWins(p, context, eligible) /\ status[p] \in Open
    <3>1. CloseAndCompensate(p, context, eligible)
      BY <1>3, <2>2 DEF ApplyCaptured
    <3>2. Returns(p)
      BY <1>0, <2>0, <2>2, <3>1
      DEF CloseAndCompensate, Close, Returns, Releases, StatusTo, Withdrawn
    <3> QED
      BY <1>0, <3>2 DEF LedgerMove
  <2>3. CASE ~ CaptureWins(p, context, eligible) /\ status[p] \notin Open
    <3>1. Compensate(p)
      BY <1>3, <2>3 DEF ApplyCaptured
    <3>2. Compensates(p) \/ Ignores(p)
      BY <1>0, <2>0, <2>3, <3>1
      DEF Compensate, Compensates, Ignores, StatusTo
    <3> QED
      BY <1>0, <3>2 DEF LedgerMove
  <2> QED
    BY <2>1, <2>2, <2>3
<1> QED
  BY <1>0, <1>1, <1>2, <1>3

\* Every step of a webhook request is a move of the ledger.
LEMMA HandlerMove ==
    ASSUME TypeOK, HandlersSane, NEW h \in Handlers, HandlerStep(h)
    PROVE  LedgerMove
<1> USE DEF dbVars, clockVars
<1> DEFINE p == handler[h].payment
           prev == handler[h].prev
<1>0. handler[h].pc # "idle" => p \in Payments
  BY DEF HandlersSane
<1> HIDE DEF p, prev
<1>1. CASE StageCapture(h)
  <2>1. p \in Payments
    BY <1>0, <1>1 DEF StageCapture
  <2>2. Pends(p) \/ LedgerSame
    BY <1>1 DEF StageCapture, Pends, LedgerSame, StatusTo, Paid, p
  <2> QED
    BY <2>1, <2>2 DEF LedgerMove
<1>2. CASE ReleaseStale(h)
  <2>1. prev \in stale /\ prev \in Sets
    BY <1>2 DEF ReleaseStale, HandlersSane, TypeOK, prev
  <2>2. Ends(prev)
    BY <1>2, <2>1 DEF ReleaseStale, Ends, Paid, prev
  <2> QED
    BY <2>1, <2>2 DEF LedgerMove
<1>3. CASE Reacquire(h)
  <2>1. p \in Payments
    BY <1>0, <1>3 DEF Reacquire
  <2>2. LedgerSame \/ \E g \in Sets : Reserves(p, g)
    BY <1>3 DEF Reacquire, MayReacquire, Reserves, LedgerSame, Paid, p, prev
  <2> QED
    BY <2>1, <2>2 DEF LedgerMove
<1>4. CASE ApplyEvent(h)
  BY <1>4, EventMove
<1>5. CASE \/ ReadContext(h) \/ ReadPayment(h) \/ ReadSets(h) \/ CreatePlan(h)
           \/ AskReacquire(h) \/ ApplyNothing(h)
  <2>1. UNCHANGED <<order, status, authorized, refund, sets, stale, receipts>>
    BY <1>5 DEF ReadContext, ReadPayment, ReadSets, CreatePlan, AskReacquire,
                ApplyNothing
  <2> QED
    BY <2>1 DEF LedgerMove, LedgerSame, Paid
<1> QED
  BY <1>1, <1>2, <1>3, <1>4, <1>5 DEF HandlerStep

\* Every step of the system is a move of the ledger.
LEMMA LedgerStep ==
    ASSUME TypeOK, HandlersSane, [Next]_vars
    PROVE  LedgerMove
<1> USE DEF dbVars, clockVars
<1>1. ASSUME NEW h \in Handlers, NEW p \in Payments, Deliver(h, p)
      PROVE  LedgerMove
  <2>1. UNCHANGED <<order, status, authorized, refund, sets, stale, receipts>>
    BY <1>1 DEF Deliver
  <2> QED
    BY <2>1 DEF LedgerMove, LedgerSame, Paid
<1>2. ASSUME NEW h \in Handlers, CrashHandler(h)
      PROVE  LedgerMove
  <2>1. UNCHANGED <<order, status, authorized, refund, sets, stale, receipts>>
    BY <1>2 DEF CrashHandler
  <2> QED
    BY <2>1 DEF LedgerMove, LedgerSame, Paid
<1>3. ASSUME NEW g \in Sets, TtlPasses(g)
      PROVE  LedgerMove
  <2>1. Ages(g)
    BY <1>3 DEF TtlPasses, Ages, Paid
  <2> QED
    BY <2>1 DEF LedgerMove
<1>4. ASSUME NEW g \in Sets, ExpireSet(g)
      PROVE  LedgerMove
  <2>1. Ends(g)
    BY <1>4 DEF ExpireSet, Ends, Paid
  <2> QED
    BY <2>1 DEF LedgerMove
<1>5. CASE UNCHANGED vars
  BY <1>5 DEF vars, LedgerMove, LedgerSame, Paid
<1> QED
  BY <1>1, <1>2, <1>3, <1>4, <1>5, PaymentMove, HandlerMove DEF Next

-----------------------------------------------------------------------------
(* The ledger's invariant.                                                   *)

Holds(g) == sets[g] = "HELD" \/ Live(g)
Winner(p) == p \in authorized /\ status[p] = "CAPTURED"

\* payments_one_active_attempt_per_schedule_key.
OneActive ==
    \A p, q \in Payments : status[p] \in Active /\ status[q] \in Active => p = q

\* Only a recorded capture takes an attempt past its end, and what is not the
\* winner's is being returned; an attempt whose money is being returned has no
\* authorization left.
MoneyTraced ==
    \A p \in Payments :
        /\ status[p] \in {"CAPTURED", "REFUND_PENDING", "REFUNDED"} => p \in Paid
        /\ p \in Paid => (refund[p] = "NONE" <=> Winner(p))
        /\ refund[p] # "NONE" =>
              /\ p \in Paid /\ p \notin authorized
              /\ status[p] \in {"CAPTURED", "REFUND_PENDING", "REFUNDED"}
        /\ refund[p] \in {"PENDING", "RETRYING"} => status[p] = "REFUND_PENDING"

\* A confirmed order has its winner and its held set, and no other order has.
OrderDecided ==
    /\ order = "CONFIRMED" =>
          /\ \E p \in Payments : Winner(p)
          /\ \E g \in Sets : sets[g] = "HELD"
          /\ \A g \in Sets : sets[g] # "RESERVED"
    /\ order # "CONFIRMED" =>
          /\ \A p \in Payments : ~ Winner(p)
          /\ \A g \in Sets : sets[g] # "HELD"

\* One set occupies capacity, and a held one is never stale: this is what a
\* request about to release a stale set relies on.
OneHolding ==
    /\ \A f, g \in Sets : Holds(f) /\ Holds(g) => f = g
    /\ \A g \in Sets : sets[g] = "HELD" => g \notin stale

LedgerTypes ==
    /\ order \in {"QUOTED", "CONFIRMED", "CANCELLED", "EXPIRED"}
    /\ status \in [Payments -> StatusValues]
    /\ authorized \subseteq {p \in Payments : status[p] \in Active}
    /\ refund \in [Payments -> {"NONE", "PENDING", "RETRYING", "FAILED",
                                "RETRY_FAILED", "SUCCEEDED"}]
    /\ sets \in [Sets -> {"NONE", "RESERVED", "HELD", "RELEASED", "EXPIRED"}]
    /\ stale \subseteq Sets
    /\ FirstSet

LedgerInv == /\ LedgerTypes /\ OneActive /\ MoneyTraced /\ OrderDecided
             /\ OneHolding /\ ClosedHoldsNothing

\* An attempt starts only while none is active.
LEMMA StartsInv ==
    ASSUME LedgerInv, NEW p \in Payments, Starts(p)
    PROVE  LedgerInv'
<1> USE DEF LedgerInv, LedgerTypes, Starts, Winner, StatusTo, Withdrawn,
            PaidAs, Releases, SetsAs, Open, Active, Compensable, FirstSet
<1>1. LedgerTypes'
  BY DEF StatusValues, MoneyTraced
<1>2. OneActive'
  BY DEF OneActive, MoneyTraced, NoOtherActive
<1>3. MoneyTraced'
  BY DEF MoneyTraced, StatusValues, OrderDecided
<1>4. OrderDecided'
  BY DEF OrderDecided, MoneyTraced, OneActive, OneHolding,
         ReservationsReconciled, Live
<1>5. OneHolding'
  BY DEF OneHolding, OrderDecided, Holds, Live, ReservationsReconciled
<1>6. ClosedHoldsNothing'
  BY DEF ClosedHoldsNothing, OneActive, ReservationsReconciled
<1> QED
  BY <1>1, <1>2, <1>3, <1>4, <1>5, <1>6

\* Learning the intent changes nothing that was decided.
LEMMA PendsInv ==
    ASSUME LedgerInv, NEW p \in Payments, Pends(p)
    PROVE  LedgerInv'
<1> USE DEF LedgerInv, LedgerTypes, Pends, Winner, StatusTo, Withdrawn,
            PaidAs, Releases, SetsAs, Open, Active, Compensable, FirstSet
<1>1. LedgerTypes'
  BY DEF StatusValues, MoneyTraced
<1>2. OneActive'
  BY DEF OneActive, MoneyTraced, NoOtherActive
<1>3. MoneyTraced'
  BY DEF MoneyTraced, StatusValues, OrderDecided
<1>4. OrderDecided'
  BY DEF OrderDecided, MoneyTraced, OneActive, OneHolding,
         ReservationsReconciled, Live
<1>5. OneHolding'
  BY DEF OneHolding, OrderDecided, Holds, Live, ReservationsReconciled
<1>6. ClosedHoldsNothing'
  BY DEF ClosedHoldsNothing, OneActive, ReservationsReconciled
<1> QED
  BY <1>1, <1>2, <1>3, <1>4, <1>5, <1>6

\* A failed attempt gives its authorization up.
LEMMA FailsInv ==
    ASSUME LedgerInv, NEW p \in Payments, Fails(p)
    PROVE  LedgerInv'
<1> USE DEF LedgerInv, LedgerTypes, Fails, Winner, StatusTo, Withdrawn,
            PaidAs, Releases, SetsAs, Open, Active, Compensable, FirstSet
<1>1. LedgerTypes'
  BY DEF StatusValues, MoneyTraced
<1>2. OneActive'
  BY DEF OneActive, MoneyTraced, NoOtherActive
<1>3. MoneyTraced'
  BY DEF MoneyTraced, StatusValues, OrderDecided
<1>4. OrderDecided'
  BY DEF OrderDecided, MoneyTraced, OneActive, OneHolding,
         ReservationsReconciled, Live
<1>5. OneHolding'
  BY DEF OneHolding, OrderDecided, Holds, Live, ReservationsReconciled
<1>6. ClosedHoldsNothing'
  BY DEF ClosedHoldsNothing, OneActive, ReservationsReconciled
<1> QED
  BY <1>1, <1>2, <1>3, <1>4, <1>5, <1>6

\* An attempt is closed while it is the active one, so no order was won.
LEMMA VoidsInv ==
    ASSUME LedgerInv, NEW p \in Payments, Voids(p)
    PROVE  LedgerInv'
<1> USE DEF LedgerInv, LedgerTypes, Voids, Winner, StatusTo, Withdrawn,
            PaidAs, Releases, SetsAs, Open, Active, Compensable, FirstSet
<1>1. LedgerTypes'
  <2>1. 1 \in Sets /\ Sets = Sets'
    BY DEF Sets
  <2>2. sets' \in [Sets -> {"NONE", "RESERVED", "HELD", "RELEASED", "EXPIRED"}]
        /\ sets'[1] # "NONE"
    BY <2>1
  <2> QED
    BY <2>2 DEF StatusValues, MoneyTraced
<1>2. OneActive'
  BY DEF OneActive, MoneyTraced, NoOtherActive
<1>3. MoneyTraced'
  BY DEF MoneyTraced, StatusValues, OrderDecided
<1>4. OrderDecided'
  BY DEF OrderDecided, MoneyTraced, OneActive, OneHolding,
         ReservationsReconciled, Live
<1>5. OneHolding'
  BY DEF OneHolding, OrderDecided, Holds, Live, ReservationsReconciled
<1>6. ClosedHoldsNothing'
  BY DEF ClosedHoldsNothing, OneActive, ReservationsReconciled
<1> QED
  BY <1>1, <1>2, <1>3, <1>4, <1>5, <1>6

\* Closing with money returns exactly that money.
LEMMA ReturnsInv ==
    ASSUME LedgerInv, NEW p \in Payments, Returns(p)
    PROVE  LedgerInv'
<1> USE DEF LedgerInv, LedgerTypes, Returns, Winner, StatusTo, Withdrawn,
            PaidAs, Releases, SetsAs, Open, Active, Compensable, FirstSet
<1>1. LedgerTypes'
  <2>1. 1 \in Sets /\ Sets = Sets'
    BY DEF Sets
  <2>2. sets' \in [Sets -> {"NONE", "RESERVED", "HELD", "RELEASED", "EXPIRED"}]
        /\ sets'[1] # "NONE"
    BY <2>1
  <2> QED
    BY <2>2 DEF StatusValues, MoneyTraced
<1>2. OneActive'
  BY DEF OneActive, MoneyTraced, NoOtherActive
<1>3. MoneyTraced'
  BY DEF MoneyTraced, StatusValues, OrderDecided
<1>4. OrderDecided'
  BY DEF OrderDecided, MoneyTraced, OneActive, OneHolding,
         ReservationsReconciled, Live
<1>5. OneHolding'
  BY DEF OneHolding, OrderDecided, Holds, Live, ReservationsReconciled
<1>6. ClosedHoldsNothing'
  BY DEF ClosedHoldsNothing, OneActive, ReservationsReconciled
<1> QED
  BY <1>1, <1>2, <1>3, <1>4, <1>5, <1>6

\* The first capture of a quoted order wins it.
LEMMA WinsInv ==
    ASSUME LedgerInv, NEW p \in Payments, Wins(p)
    PROVE  LedgerInv'
<1> USE DEF LedgerInv, LedgerTypes, Wins, Winner, StatusTo, Withdrawn,
            PaidAs, Releases, SetsAs, Open, Active, Compensable, FirstSet
<1>1. LedgerTypes'
  BY DEF StatusValues, MoneyTraced
<1>2. OneActive'
  BY DEF OneActive, MoneyTraced, NoOtherActive
<1>3. MoneyTraced'
  BY DEF MoneyTraced, StatusValues, OrderDecided
<1>4. OrderDecided'
  BY DEF OrderDecided, MoneyTraced, OneActive, OneHolding,
         ReservationsReconciled, Live
<1>5. OneHolding'
  BY DEF OneHolding, OrderDecided, Holds, Live, ReservationsReconciled
<1>6. ClosedHoldsNothing'
  BY DEF ClosedHoldsNothing, OneActive, ReservationsReconciled
<1> QED
  BY <1>1, <1>2, <1>3, <1>4, <1>5, <1>6

\* A late capture is returned.
LEMMA CompensatesInv ==
    ASSUME LedgerInv, NEW p \in Payments, Compensates(p)
    PROVE  LedgerInv'
<1> USE DEF LedgerInv, LedgerTypes, Compensates, Winner, StatusTo, Withdrawn,
            PaidAs, Releases, SetsAs, Open, Active, Compensable, FirstSet
<1>1. LedgerTypes'
  BY DEF StatusValues, MoneyTraced
<1>2. OneActive'
  BY DEF OneActive, MoneyTraced, NoOtherActive
<1>3. MoneyTraced'
  BY DEF MoneyTraced, StatusValues, OrderDecided
<1>4. OrderDecided'
  BY DEF OrderDecided, MoneyTraced, OneActive, OneHolding,
         ReservationsReconciled, Live
<1>5. OneHolding'
  BY DEF OneHolding, OrderDecided, Holds, Live, ReservationsReconciled
<1>6. ClosedHoldsNothing'
  BY DEF ClosedHoldsNothing, OneActive, ReservationsReconciled
<1> QED
  BY <1>1, <1>2, <1>3, <1>4, <1>5, <1>6

\* No first receipt finds an attempt that is already past its end.
LEMMA IgnoresInv ==
    ASSUME LedgerInv, NEW p \in Payments, Ignores(p)
    PROVE  LedgerInv'
<1> USE DEF LedgerInv, LedgerTypes, Ignores, Winner, StatusTo, Withdrawn,
            PaidAs, Releases, SetsAs, Open, Active, Compensable, FirstSet
<1>1. LedgerTypes'
  BY DEF StatusValues, MoneyTraced
<1>2. OneActive'
  BY DEF OneActive, MoneyTraced, NoOtherActive
<1>3. MoneyTraced'
  BY DEF MoneyTraced, StatusValues, OrderDecided
<1>4. OrderDecided'
  BY DEF OrderDecided, MoneyTraced, OneActive, OneHolding,
         ReservationsReconciled, Live
<1>5. OneHolding'
  BY DEF OneHolding, OrderDecided, Holds, Live, ReservationsReconciled
<1>6. ClosedHoldsNothing'
  BY DEF ClosedHoldsNothing, OneActive, ReservationsReconciled
<1> QED
  BY <1>1, <1>2, <1>3, <1>4, <1>5, <1>6

\* The end of a compensation makes no winner.
LEMMA RefundedInv ==
    ASSUME LedgerInv, NEW p \in Payments, Refunded(p)
    PROVE  LedgerInv'
<1> USE DEF LedgerInv, LedgerTypes, Refunded, Winner, StatusTo, Withdrawn,
            PaidAs, Releases, SetsAs, Open, Active, Compensable, FirstSet
<1>1. LedgerTypes'
  BY DEF StatusValues, MoneyTraced
<1>2. OneActive'
  BY DEF OneActive, MoneyTraced, NoOtherActive
<1>3. MoneyTraced'
  BY DEF MoneyTraced, StatusValues, OrderDecided
<1>4. OrderDecided'
  BY DEF OrderDecided, MoneyTraced, OneActive, OneHolding,
         ReservationsReconciled, Live
<1>5. OneHolding'
  BY DEF OneHolding, OrderDecided, Holds, Live, ReservationsReconciled
<1>6. ClosedHoldsNothing'
  BY DEF ClosedHoldsNothing, OneActive, ReservationsReconciled
<1> QED
  BY <1>1, <1>2, <1>3, <1>4, <1>5, <1>6

\* Neither does its retry.
LEMMA RetriedInv ==
    ASSUME LedgerInv, NEW p \in Payments, Retried(p)
    PROVE  LedgerInv'
<1> USE DEF LedgerInv, LedgerTypes, Retried, Winner, StatusTo, Withdrawn,
            PaidAs, Releases, SetsAs, Open, Active, Compensable, FirstSet
<1>1. LedgerTypes'
  BY DEF StatusValues, MoneyTraced
<1>2. OneActive'
  BY DEF OneActive, MoneyTraced, NoOtherActive
<1>3. MoneyTraced'
  BY DEF MoneyTraced, StatusValues, OrderDecided
<1>4. OrderDecided'
  BY DEF OrderDecided, MoneyTraced, OneActive, OneHolding,
         ReservationsReconciled, Live
<1>5. OneHolding'
  BY DEF OneHolding, OrderDecided, Holds, Live, ReservationsReconciled
<1>6. ClosedHoldsNothing'
  BY DEF ClosedHoldsNothing, OneActive, ReservationsReconciled
<1> QED
  BY <1>1, <1>2, <1>3, <1>4, <1>5, <1>6

\* A new reservation never competes with a held or a live one.
LEMMA ReservesInv ==
    ASSUME LedgerInv, NEW p \in Payments, NEW g \in Sets, Reserves(p, g)
    PROVE  LedgerInv'
<1> USE DEF LedgerInv, LedgerTypes, Reserves, Winner, StatusTo, Withdrawn,
            PaidAs, Releases, SetsAs, Open, Active, Compensable, FirstSet
<1>1. LedgerTypes'
  BY DEF StatusValues, MoneyTraced
<1>2. OneActive'
  BY DEF OneActive, MoneyTraced, NoOtherActive
<1>3. MoneyTraced'
  BY DEF MoneyTraced, StatusValues, OrderDecided
<1>4. OrderDecided'
  BY DEF OrderDecided, MoneyTraced, OneActive, OneHolding,
         ReservationsReconciled, Live
<1>5. OneHolding'
  BY DEF OneHolding, OrderDecided, Holds, Live, ReservationsReconciled
<1>6. ClosedHoldsNothing'
  BY DEF ClosedHoldsNothing, OneActive, ReservationsReconciled
<1> QED
  BY <1>1, <1>2, <1>3, <1>4, <1>5, <1>6

\* Ending a stale set never ends a held one.
LEMMA EndsInv ==
    ASSUME LedgerInv, NEW g \in Sets, Ends(g)
    PROVE  LedgerInv'
<1> USE DEF LedgerInv, LedgerTypes, Ends, Winner, StatusTo, Withdrawn,
            PaidAs, Releases, SetsAs, Open, Active, Compensable, FirstSet
<1>1. LedgerTypes'
  BY DEF StatusValues, MoneyTraced
<1>2. OneActive'
  BY DEF OneActive, MoneyTraced, NoOtherActive
<1>3. MoneyTraced'
  BY DEF MoneyTraced, StatusValues, OrderDecided
<1>4. OrderDecided'
  BY DEF OrderDecided, MoneyTraced, OneActive, OneHolding,
         ReservationsReconciled, Live
<1>5. OneHolding'
  BY DEF OneHolding, OrderDecided, Holds, Live, ReservationsReconciled
<1>6. ClosedHoldsNothing'
  BY DEF ClosedHoldsNothing, OneActive, ReservationsReconciled
<1> QED
  BY <1>1, <1>2, <1>3, <1>4, <1>5, <1>6

\* Growing old only takes life away.
LEMMA AgesInv ==
    ASSUME LedgerInv, NEW g \in Sets, Ages(g)
    PROVE  LedgerInv'
<1> USE DEF LedgerInv, LedgerTypes, Ages, Winner, StatusTo, Withdrawn,
            PaidAs, Releases, SetsAs, Open, Active, Compensable, FirstSet
<1>1. LedgerTypes'
  BY DEF StatusValues, MoneyTraced
<1>2. OneActive'
  BY DEF OneActive, MoneyTraced, NoOtherActive
<1>3. MoneyTraced'
  BY DEF MoneyTraced, StatusValues, OrderDecided
<1>4. OrderDecided'
  BY DEF OrderDecided, MoneyTraced, OneActive, OneHolding,
         ReservationsReconciled, Live
<1>5. OneHolding'
  BY DEF OneHolding, OrderDecided, Holds, Live, ReservationsReconciled
<1>6. ClosedHoldsNothing'
  BY DEF ClosedHoldsNothing, OneActive, ReservationsReconciled
<1> QED
  BY <1>1, <1>2, <1>3, <1>4, <1>5, <1>6


\* No move of the ledger breaks its invariant.
LEMMA LedgerInvStep ==
    ASSUME LedgerInv, LedgerMove
    PROVE  LedgerInv'
<1>1. CASE LedgerSame
  BY <1>1 DEF LedgerSame, LedgerInv, LedgerTypes, OneActive, MoneyTraced,
              OrderDecided, OneHolding, ClosedHoldsNothing, FirstSet, Winner,
              Holds, Live
<1> QED
  BY <1>1, StartsInv, PendsInv, FailsInv, VoidsInv, ReturnsInv, WinsInv,
     CompensatesInv, IgnoresInv, RefundedInv, RetriedInv, ReservesInv, EndsInv,
     AgesInv
  DEF LedgerMove

-----------------------------------------------------------------------------
(* Bindings: the intent of an attempt, its page, and the calls that create   *)
(* and cancel it.  A page is offered only by the finalizing commit, which    *)
(* also answers the command; so a call that does not find its commit may     *)
(* cancel the intent it got.                                                 *)

BindingTypes ==
    /\ intent \subseteq {p \in Payments : status[p] \notin {"NONE", "CREATED"}}
    /\ url \subseteq intent
    /\ staged \subseteq intent
    /\ command \in [Payments -> StatusValues \cup {"PROCESSING"}]
    /\ voidMsg \in [Payments -> {"NONE", "PENDING", "DELIVERED"}]
    /\ receipts \subseteq Payments \X {"PENDING", "FAILED", "CAPTURED"}
    /\ late \subseteq Expiring
    /\ creator \in [Payments -> CreatorLabels]
    /\ provider \in [Payments -> {"NONE", "REQUESTED", "OPEN", "REJECTED",
                                  "DECLINED", "CANCELLED", "PAID"}]

Ended(p) == status[p] \notin {"NONE", "CREATED", "PENDING"}

Cancellable ==
    \A p \in Payments :
        /\ creator[p] = "none" <=> status[p] = "NONE"
        /\ status[p] = "NONE" => command[p] = "NONE"
        /\ p \in url => command[p] = "PENDING" /\ creator[p] \in {"reconcile", "done"}
        /\ status[p] = "PENDING" => p \in intent
        /\ creator[p] = "cancel" => Ended(p)
        /\ provider[p] = "CANCELLED" => Ended(p)

BindingInv == BindingTypes /\ Cancellable

\* The types are the ledger's, the bindings' and the handlers'.
LEMMA TypeParts ==
    ASSUME FirstSet
    PROVE  TypeOK <=> /\ LedgerTypes /\ BindingTypes
                      /\ handler \in [Handlers -> HandlerStates]
BY DEF TypeOK, LedgerTypes, BindingTypes

\* An attempt that exists goes on existing, and one that ended is not reopened.
LEMMA EndedStays ==
    ASSUME LedgerInv, LedgerMove, NEW p \in Payments
    PROVE  /\ status[p] # "NONE" => status'[p] # "NONE"
           /\ Ended(p) => Ended(p)'
<1> USE DEF LedgerInv, LedgerTypes, StatusTo, Ended, Open
<1>1. ASSUME NEW q \in Payments,
             \/ Starts(q) \/ Pends(q) \/ Fails(q) \/ Voids(q) \/ Returns(q)
             \/ Wins(q) \/ Compensates(q) \/ Ignores(q) \/ Refunded(q) \/ Retried(q)
      PROVE  /\ status[p] # "NONE" => status'[p] # "NONE"
             /\ Ended(p) => Ended(p)'
  BY <1>1 DEF Starts, Pends, Fails, Voids, Returns, Wins, Compensates, Ignores,
              Refunded, Retried
<1>2. CASE UNCHANGED status
  BY <1>2
<1> QED
  BY <1>1, <1>2 DEF LedgerMove, Reserves, Ends, Ages, LedgerSame

\* A step of an attempt outside the webhook handlers keeps the bindings.
LEMMA PaymentBinding ==
    ASSUME TypeOK, LedgerInv, BindingInv, NEW p \in Payments, PaymentStep(p)
    PROVE  BindingInv' /\ handler' = handler
<1> USE DEF LedgerInv, LedgerTypes, BindingInv, BindingTypes, Cancellable, Ended,
            Open, dbVars, clockVars, CreatorAt, CreatorLabels, StatusValues
<1>0. LedgerMove
  BY PaymentMove
<1>a. \A x \in Payments : /\ status[x] # "NONE" => status'[x] # "NONE"
                          /\ Ended(x) => Ended(x)'
  BY <1>0, EndedStays
<1>1. CASE CustomerCancel(p)
  BY <1>a, <1>1 DEF CustomerCancel, CloseOpen, Close, EnqueueVoid
<1>2. CASE DeadlineSweep(p)
  BY <1>a, <1>2 DEF DeadlineSweep, CloseOpen, Close, EnqueueVoid
<1>3. CASE StageCheckout(p)
  BY <1>a, <1>3 DEF StageCheckout
<1>4. CASE CallCreateIntent(p)
  BY <1>a, <1>4 DEF CallCreateIntent
<1>5. CASE ReceiveIntent(p)
  BY <1>a, <1>5 DEF ReceiveIntent
<1>6. CASE FinalizeIntent(p)
  BY <1>a, <1>6 DEF FinalizeIntent, Complete
<1>7. CASE ReconcileFinalization(p)
  BY <1>a, <1>7 DEF ReconcileFinalization, CommittedFinalization
<1>8. CASE CloseReturnedIntent(p)
  <2>0. /\ creator[p] = "close"
        /\ UNCHANGED <<intent, url, staged, refund, receipts, late, handler, provider>>
    BY <1>8 DEF CloseReturnedIntent
  <2>1. CASE CloseReturned(p) /\ CreatorAt(p, "done")
    <3>1. /\ creator' = [creator EXCEPT ![p] = "done"]
          /\ command' = [command EXCEPT ![p] = "VOIDED"]
          /\ status' = [status EXCEPT ![p] = "VOIDED"]
          /\ voidMsg' \in [Payments -> {"NONE", "PENDING", "DELIVERED"}]
          /\ status[p] # "NONE"
      BY <2>1 DEF CloseReturned, Abandoned, Close, EnqueueVoid, Complete
    <3> QED
      BY <2>0, <3>1
  <2>2. CASE /\ CreatorAt(p, "done")
             /\ UNCHANGED <<order, status, authorized, sets, voidMsg, command>>
    BY <2>0, <2>2
  <2>3. CASE /\ ~ CaptureOwnsIntent(p) /\ ~ Abandoned(p)
             /\ CreatorAt(p, "cancel")
             /\ UNCHANGED <<order, status, authorized, sets, voidMsg, command>>
    <3>1. Ended(p)
      BY <2>0, <2>3 DEF CaptureOwnsIntent, Abandoned
    <3> QED
      BY <2>0, <2>3, <3>1
  <2> QED
    BY <1>8, <2>1, <2>2, <2>3 DEF CloseReturnedIntent
<1>9. CASE CancelReturnedIntent(p)
  BY <1>a, <1>9 DEF CancelReturnedIntent
<1>10. CASE RecordIntentFailure(p)
  BY <1>a, <1>10 DEF RecordIntentFailure, Complete
<1>11. CASE RecordIntentAmbiguity(p)
  BY <1>a, <1>11 DEF RecordIntentAmbiguity, CloseReturned, Abandoned, Close,
                     EnqueueVoid, Complete
<1>12. CASE CrashCreator(p)
  BY <1>a, <1>12 DEF CrashCreator
<1>13. CASE ReplayCheckout(p)
  BY <1>a, <1>13 DEF ReplayCheckout, Complete
<1>14. CASE DeadlinePasses(p)
  BY <1>a, <1>14 DEF DeadlinePasses
<1>15. CASE VoidPayment(p)
  BY <1>a, <1>15 DEF VoidPayment
<1>16. CASE CompensationSucceeds(p)
  BY <1>a, <1>16 DEF CompensationSucceeds, MoneyTraced
<1>17. CASE CompensationFails(p)
  BY <1>a, <1>17 DEF CompensationFails, MoneyTraced
<1>18. CASE RetryCompensation(p)
  BY <1>a, <1>18 DEF RetryCompensation, MoneyTraced
<1>19. CASE ProviderAccepts(p)
  BY <1>a, <1>19 DEF ProviderAccepts, ProviderMoves
<1>20. CASE ProviderRejects(p)
  BY <1>a, <1>20 DEF ProviderRejects, ProviderMoves
<1>21. CASE ProviderDeclines(p)
  BY <1>a, <1>21 DEF ProviderDeclines, ProviderMoves
<1>22. CASE CustomerPays(p)
  BY <1>a, <1>22 DEF CustomerPays, ProviderMoves
<1> QED
  BY <1>1, <1>2, <1>3, <1>4, <1>5, <1>6, <1>7, <1>8, <1>9, <1>10, <1>11, <1>12,
     <1>13, <1>14, <1>15, <1>16, <1>17, <1>18, <1>19, <1>20, <1>21, <1>22
  DEF PaymentStep, CreatorStep

\* A step of a webhook request keeps the bindings.
LEMMA HandlerBinding ==
    ASSUME TypeOK, LedgerInv, BindingInv, HandlersSane, NEW h \in Handlers,
           HandlerStep(h)
    PROVE  BindingInv'
<1> USE DEF LedgerInv, LedgerTypes, BindingInv, BindingTypes, Cancellable, Ended,
            Open, dbVars, clockVars, StatusValues
<1> DEFINE p == handler[h].payment
           kind == handler[h].kind
<1>0. LedgerMove
  BY HandlerMove
<1>a. \A x \in Payments : /\ status[x] # "NONE" => status'[x] # "NONE"
                          /\ Ended(x) => Ended(x)'
  BY <1>0, EndedStays
<1>b. handler[h].pc # "idle" => p \in Payments /\ status[p] # "NONE"
  BY DEF HandlersSane
<1>c. kind \in {"PENDING", "FAILED", "CAPTURED"}
  BY DEF TypeOK, HandlerStates
<1> HIDE DEF p, kind
<1>1. CASE StageCapture(h)
  <2>1. \/ UNCHANGED <<status, intent, staged>>
        \/ /\ status[p] \in Open /\ staged' = staged \cup {p}
           /\ status' = [status EXCEPT ![p] = "PENDING"] /\ intent' = intent \cup {p}
    BY <1>1 DEF StageCapture, p
  <2>2. /\ p \in Payments
        /\ UNCHANGED <<url, command, voidMsg, receipts, late, creator, provider>>
    BY <1>1, <1>b DEF StageCapture
  <2> QED
    BY <1>a, <2>1, <2>2
<1>2. CASE ApplyEvent(h)
  <2>1. /\ p \in Payments /\ status[p] # "NONE" /\ BindIntent(p)
        /\ Receipted(p, kind)
        /\ UNCHANGED <<url, staged, command, late, creator, provider>>
        /\ \/ ApplyPending(p) \/ ApplyFailed(p)
           \/ \E eligible \in BOOLEAN : ApplyCaptured(p, handler[h].context, eligible)
    BY <1>2, <1>b DEF ApplyEvent, p, kind
  <2>2. receipts' \subseteq Payments \X {"PENDING", "FAILED", "CAPTURED"}
    BY <1>c, <2>1 DEF Receipted
  <2>3. /\ voidMsg' \in [Payments -> {"NONE", "PENDING", "DELIVERED"}]
        /\ \E s : status' = [status EXCEPT ![p] = s]
        /\ status'[p] # "CREATED"
        /\ status'[p] = "PENDING" => status[p] \in Open
    <3>1. CASE ApplyPending(p)
      BY <2>1, <3>1, ZenonT(60) DEF ApplyPending
    <3>2. CASE ApplyFailed(p)
      BY <2>1, <3>2, ZenonT(60) DEF ApplyFailed
    <3>3. ASSUME NEW eligible \in BOOLEAN,
                 ApplyCaptured(p, handler[h].context, eligible)
          PROVE  /\ voidMsg' \in [Payments -> {"NONE", "PENDING", "DELIVERED"}]
                 /\ \E s : status' = [status EXCEPT ![p] = s]
                 /\ status'[p] # "CREATED"
                 /\ status'[p] = "PENDING" => status[p] \in Open
      <4>1. CASE Capture(p)
        BY <2>1, <4>1, ZenonT(60) DEF Capture
      <4>2. CASE CloseAndCompensate(p, handler[h].context, eligible)
        BY <2>1, <4>2, ZenonT(60) DEF CloseAndCompensate, Close, EnqueueVoid
      <4>3. CASE status[p] \notin Open /\ Compensate(p)
        <5>1. \/ status' = [status EXCEPT ![p] = "REFUND_PENDING"]
              \/ status' = [status EXCEPT ![p] = status[p]]
          BY <2>1, <4>3 DEF Compensate
        <5>2. voidMsg' = voidMsg
          BY <4>3 DEF Compensate
        <5> QED
          BY <2>1, <4>3, <5>1, <5>2
      <4> QED
        BY <3>3, <4>1, <4>2, <4>3 DEF ApplyCaptured
    <3> QED
      BY <2>1, <3>1, <3>2, <3>3
  <2>4. \A x \in Payments \ {p} : status'[x] = status[x]
    BY <2>1, <2>3
  <2>5. intent' = IF status[p] = "CREATED" THEN intent \cup {p} ELSE intent
    BY <2>1 DEF BindIntent
  <2>6. BindingTypes'
    BY <1>a, <2>1, <2>2, <2>3, <2>4, <2>5
  <2>7. Cancellable'
    BY <1>a, <2>1, <2>3, <2>4, <2>5
  <2> QED
    BY <2>6, <2>7
<1>3. CASE \/ ReadContext(h) \/ ReadPayment(h) \/ ReadSets(h) \/ ReleaseStale(h)
           \/ CreatePlan(h) \/ Reacquire(h) \/ AskReacquire(h) \/ ApplyNothing(h)
  <2>1. UNCHANGED <<status, intent, url, staged, command, voidMsg, receipts, late,
                    creator, provider>>
    BY <1>3 DEF ReadContext, ReadPayment, ReadSets, ReleaseStale, CreatePlan,
                Reacquire, AskReacquire, ApplyNothing
  <2> QED
    BY <2>1
<1> QED
  BY <1>1, <1>2, <1>3 DEF HandlerStep

-----------------------------------------------------------------------------
(* The whole invariant.                                                      *)

CheckoutInv == TypeOK /\ LedgerInv /\ BindingInv /\ HandlersSane

\* A request never forgets what it serves: attempts and stale sets stay.
LEMMA RequestsStay ==
    ASSUME CheckoutInv, LedgerMove, NEW h \in Handlers, NEW k \in HandlerStates,
           k = handler[h]
    PROVE  /\ k.pc # "idle" => k.payment \in Payments /\ status'[k.payment] # "NONE"
           /\ k.pc = "release" => k.prev \in stale'
<1>1. stale \subseteq stale'
  BY DEF LedgerMove, Starts, Pends, Fails, Voids, Returns, Wins, Compensates,
         Ignores, Refunded, Retried, Reserves, Ends, Ages, LedgerSame, Releases
<1>2. \A p \in Payments : status[p] # "NONE" => status'[p] # "NONE"
  BY EndedStays DEF CheckoutInv
<1> QED
  BY <1>1, <1>2 DEF CheckoutInv, HandlersSane

\* Every step keeps the whole invariant.
LEMMA CheckoutStep ==
    ASSUME CheckoutInv, [Next]_vars
    PROVE  CheckoutInv'
<1> USE DEF dbVars, clockVars
<1>0. TypeOK /\ LedgerInv /\ BindingInv /\ HandlersSane /\ FirstSet
  BY DEF CheckoutInv, LedgerInv, LedgerTypes
<1>1. LedgerMove
  BY <1>0, LedgerStep
<1>2. LedgerInv'
  BY <1>0, <1>1, LedgerInvStep
<1>3. LedgerTypes' /\ FirstSet'
  BY <1>2 DEF LedgerInv, LedgerTypes
<1>4. handler \in [Handlers -> HandlerStates]
  BY <1>0 DEF TypeOK
<1>5. \A h \in Handlers :
        /\ handler[h].pc # "idle" =>
              handler[h].payment \in Payments /\ status'[handler[h].payment] # "NONE"
        /\ handler[h].pc = "release" => handler[h].prev \in stale'
  BY <1>1, <1>4, RequestsStay
<1>6. stale \subseteq stale'
  BY <1>1 DEF LedgerMove, Starts, Pends, Fails, Voids, Returns, Wins, Compensates,
              Ignores, Refunded, Retried, Reserves, Ends, Ages, LedgerSame, Releases
<1> DEFINE Goal == /\ BindingInv' /\ handler' \in [Handlers -> HandlerStates]
                   /\ HandlersSane'
<1>a. ASSUME NEW p \in Payments, PaymentStep(p)
      PROVE  Goal
  <2>1. BindingInv' /\ handler' = handler
    BY <1>0, <1>a, PaymentBinding
  <2> QED
    BY <1>4, <1>5, <2>1 DEF HandlersSane
<1>b. ASSUME NEW h \in Handlers, HandlerStep(h)
      PROVE  Goal
  <2>1. BindingInv'
    BY <1>0, <1>b, HandlerBinding
  <2>2. /\ handler' \in [Handlers -> HandlerStates]
        /\ handler[h].pc # "idle"
        /\ handler'[h].pc # "idle" => handler'[h].payment = handler[h].payment
        /\ handler'[h].pc = "release" => handler'[h].prev \in stale
        /\ \A k \in Handlers \ {h} : handler'[k] = handler[k]
    BY <1>0, <1>b, HandlerStepSane
  <2> QED
    BY <1>5, <1>6, <2>1, <2>2 DEF HandlersSane
<1>c. ASSUME NEW h \in Handlers, CrashHandler(h)
      PROVE  Goal
  <2>1. UNCHANGED <<dbVars, clockVars, creator, provider>>
    BY <1>c DEF CrashHandler
  <2>2. /\ handler' \in [Handlers -> HandlerStates]
        /\ handler'[h].pc = "idle"
        /\ \A k \in Handlers \ {h} : handler'[k] = handler[k]
    BY <1>0, <1>c, HandlerMoves DEF CrashHandler
  <2>3. BindingInv'
    BY <1>0, <2>1 DEF BindingInv, BindingTypes, Cancellable, Ended
  <2> QED
    BY <1>5, <2>2, <2>3 DEF HandlersSane
<1>d. ASSUME NEW h \in Handlers, NEW p \in Payments, Deliver(h, p)
      PROVE  Goal
  <2>1. UNCHANGED <<dbVars, clockVars, creator, provider>>
    BY <1>d DEF Deliver
  <2>2. /\ handler' \in [Handlers -> HandlerStates]
        /\ handler'[h].pc \in {"context", "apply"} /\ handler'[h].payment = p
        /\ status[p] # "NONE"
        /\ \A k \in Handlers \ {h} : handler'[k] = handler[k]
    BY <1>4, <1>d DEF Deliver, HandlerStates, HandlerLabels, Idle, Kind
  <2>3. BindingInv'
    BY <1>0, <2>1 DEF BindingInv, BindingTypes, Cancellable, Ended
  <2> QED
    BY <1>5, <2>1, <2>2, <2>3 DEF HandlersSane
<1>e. ASSUME NEW g \in Sets, TtlPasses(g) \/ ExpireSet(g)
      PROVE  Goal
  <2>1. UNCHANGED <<status, intent, url, staged, command, voidMsg, receipts, late,
                    creator, handler, provider>>
    BY <1>e DEF TtlPasses, ExpireSet
  <2>2. BindingInv'
    BY <1>0, <2>1 DEF BindingInv, BindingTypes, Cancellable, Ended
  <2> QED
    BY <1>4, <1>5, <2>1, <2>2 DEF HandlersSane
<1>f. ASSUME UNCHANGED vars
      PROVE  Goal
  <2>1. BindingInv'
    BY <1>0, <1>f DEF vars, BindingInv, BindingTypes, Cancellable, Ended
  <2> QED
    BY <1>4, <1>5, <1>f, <2>1 DEF HandlersSane, vars
<1> HIDE DEF Goal
<1>g. Goal
  BY <1>a, <1>b, <1>c, <1>d, <1>e, <1>f DEF Next
<1>h. TypeOK'
  BY <1>3, <1>g, TypeParts DEF Goal, BindingInv, TypeOK, LedgerTypes, BindingTypes
<1> QED
  BY <1>2, <1>g, <1>h DEF CheckoutInv, Goal

\* A quoted order with its first reservation satisfies it.
LEMMA CheckoutInit == Init => CheckoutInv
<1> SUFFICES ASSUME Init PROVE CheckoutInv
  OBVIOUS
<1>0. 1 \in Sets
  BY DEF Sets
<1>1. Idle \in HandlerStates
  BY DEF Idle, HandlerStates, HandlerLabels
<1>2. HandlersSane
  BY DEF Init, HandlersSane, Idle
<1>3. LedgerTypes
  BY <1>0 DEF Init, LedgerTypes, FirstSet, StatusValues
<1>4. BindingInv
  BY DEF Init, BindingInv, BindingTypes, Cancellable, CreatorLabels, StatusValues
<1>5. Paid = {} /\ \A g \in Sets : sets[g] = IF g = 1 THEN "RESERVED" ELSE "NONE"
  BY DEF Init, Paid
<1>6. OneActive /\ MoneyTraced /\ OrderDecided /\ ClosedHoldsNothing
  BY <1>5 DEF Init, OneActive, MoneyTraced, OrderDecided, ClosedHoldsNothing,
              Winner, Active
<1>7. OneHolding
  BY <1>5 DEF Init, OneHolding, Holds, Live
<1>8. handler \in [Handlers -> HandlerStates]
  BY <1>1 DEF Init
<1>9. TypeOK
  BY <1>3, <1>4, <1>8, TypeParts DEF LedgerTypes, BindingInv
<1> QED
  BY <1>2, <1>3, <1>4, <1>6, <1>7, <1>9 DEF CheckoutInv, LedgerInv

\* The invariant holds in every reachable state of the checkout; in particular
\* every variable keeps its type.
THEOREM CheckoutTypes == Spec => [](TypeOK /\ CheckoutInv)
<1>1. CheckoutInv => TypeOK
  BY DEF CheckoutInv
<1> QED
  BY <1>1, CheckoutInit, CheckoutStep, PTL DEF Spec

\* A set in which any two elements are equal has at most one.
LEMMA AtMostOne ==
    ASSUME NEW S, \A x, y \in S : x = y
    PROVE  /\ IsFiniteSet(S) /\ Cardinality(S) \in Nat /\ Cardinality(S) <= 1
           /\ Cardinality(S) = 1 <=> S # {}
<1>1. CASE S = {}
  BY <1>1, FS_EmptySet
<1>2. CASE S # {}
  <2>1. PICK x : S = {x}
    BY <1>2
  <2>2. IsFiniteSet({x}) /\ Cardinality({x}) = 1
    BY FS_Singleton
  <2> QED
    BY <1>2, <2>1, <2>2
<1> QED
  BY <1>1, <1>2

\* Capture, cancellation, failure and expiry race through any number of webhook
\* requests and attempts, and have one winner: the order is confirmed exactly
\* when one attempt was captured with its authorization intact and its
\* reservation is the one held.
THEOREM CheckoutHasOneWinner == Spec => []OneWinner
<1>1. CheckoutInv => OneWinner
  <2> SUFFICES ASSUME CheckoutInv PROVE OneWinner
    OBVIOUS
  <2> DEFINE Held == {g \in Sets : sets[g] = "HELD"}
  <2>0. /\ OneActive /\ OrderDecided /\ OneHolding /\ LedgerTypes
    BY DEF CheckoutInv, LedgerInv
  <2>1. \A p, q \in Winners : p = q
    BY <2>0 DEF Winners, OneActive, Active, LedgerTypes
  <2>2. \A f, g \in Held : f = g
    BY <2>0 DEF OneHolding, Holds
  <2>3. (Cardinality(Winners) = 1 <=> Winners # {})
        /\ (Cardinality(Held) = 1 <=> Held # {})
    BY <2>1, <2>2, AtMostOne
  <2>4. (order = "CONFIRMED" <=> Winners # {}) /\ (order = "CONFIRMED" <=> Held # {})
    BY <2>0 DEF OrderDecided, Winner, Winners, LedgerTypes
  <2> QED
    BY <2>3, <2>4 DEF OneWinner
<1> QED
  BY <1>1, CheckoutTypes, PTL

\* However many webhook requests reacquire at once, capacity is occupied once.
THEOREM CapacityHeldOnce == Spec => []SingleReservation
<1>1. CheckoutInv => SingleReservation
  <2> SUFFICES ASSUME CheckoutInv PROVE SingleReservation
    OBVIOUS
  <2>1. \A f, g \in {g \in Sets : sets[g] = "HELD" \/ Live(g)} : f = g
    BY DEF CheckoutInv, LedgerInv, OneHolding, Holds
  <2> QED
    BY <2>1, AtMostOne DEF SingleReservation
<1> QED
  BY <1>1, CheckoutTypes, PTL

\* A recorded capture won the order or is being returned, and nothing that was
\* not received is returned.
THEOREM MoneyIsSettled == Spec => []MoneySettled
<1>1. CheckoutInv => MoneySettled
  BY DEF CheckoutInv, LedgerInv, LedgerTypes, MoneyTraced, MoneySettled, Paid,
         Winner, Winners
<1> QED
  BY <1>1, CheckoutTypes, PTL

\* A cancelled or expired order holds no capacity and offers no attempt, and an
\* intent this service cancelled is not one the customer is still offered.
THEOREM ClosedStaysClosed == Spec => []ClosedIsClosed
<1>1. CheckoutInv => ClosedIsClosed
  BY DEF CheckoutInv, LedgerInv, BindingInv, Cancellable, ClosedIsClosed,
         CancelledNotPayable, Ended, Open
<1> QED
  BY <1>1, CheckoutTypes, PTL

\* What a move of the ledger may change of what was decided.
LEMMA LedgerOutcomes ==
    ASSUME LedgerInv, LedgerMove
    PROVE  /\ order # "QUOTED" => order' = order
           /\ \A p \in Payments :
                 /\ status[p] \in Compensable =>
                       status'[p] \in {status[p], "REFUND_PENDING"}
                 /\ p \in authorized' \ authorized => status[p] = "NONE"
           /\ \A g \in Sets : sets[g] = "HELD" => sets'[g] = "HELD"
<1> USE DEF LedgerInv, LedgerTypes, StatusTo, Withdrawn, Compensable, Open
<1> DEFINE Kept == /\ order # "QUOTED" => order' = order
                   /\ \A p \in Payments :
                        /\ status[p] \in Compensable =>
                              status'[p] \in {status[p], "REFUND_PENDING"}
                        /\ p \in authorized' \ authorized => status[p] = "NONE"
                   /\ \A g \in Sets : sets[g] = "HELD" => sets'[g] = "HELD"
<1>1. ASSUME NEW p \in Payments, Starts(p) \/ Pends(p) \/ Fails(p) \/ Compensates(p)
                                 \/ Ignores(p)
      PROVE  Kept
  BY <1>1 DEF Starts, Pends, Fails, Compensates, Ignores
<1>2. ASSUME NEW p \in Payments, Voids(p) \/ Returns(p)
      PROVE  Kept
  <2>1. \A g \in Sets : sets[g] # "HELD"
    BY <1>2 DEF OneActive, OrderDecided, Winner, Active, Voids, Returns
  <2> QED
    BY <1>2, <2>1 DEF Voids, Returns, Releases
<1>3. ASSUME NEW p \in Payments, Wins(p)
      PROVE  Kept
  BY <1>3 DEF Wins
<1>4. ASSUME NEW p \in Payments, Refunded(p) \/ Retried(p)
      PROVE  Kept
  BY <1>4 DEF Refunded, Retried, MoneyTraced
<1>5. ASSUME NEW p \in Payments, NEW g \in Sets, Reserves(p, g)
      PROVE  Kept
  BY <1>5 DEF Reserves
<1>6. ASSUME NEW g \in Sets, Ends(g) \/ Ages(g)
      PROVE  Kept
  BY <1>6 DEF Ends, Ages, OneHolding
<1>7. ASSUME LedgerSame PROVE Kept
  BY <1>7 DEF LedgerSame
<1> HIDE DEF Kept
<1>8. Kept
  BY <1>1, <1>2, <1>3, <1>4, <1>5, <1>6, <1>7 DEF LedgerMove
<1> QED
  BY <1>8 DEF Kept

\* An answered command keeps its answer, and receipts are never lost.
LEMMA AnswersKept ==
    ASSUME CheckoutInv, [Next]_vars
    PROVE  /\ \A p \in Payments :
                 command[p] \notin {"NONE", "PROCESSING"} => command'[p] = command[p]
           /\ receipts \subseteq receipts'
<1> USE DEF dbVars, clockVars
<1> DEFINE Kept == /\ \A p \in Payments : command[p] \notin {"NONE", "PROCESSING"}
                                             => command'[p] = command[p]
                   /\ receipts \subseteq receipts'
<1>0. /\ command \in [Payments -> StatusValues \cup {"PROCESSING"}]
      /\ Cancellable /\ BindingTypes
  BY DEF CheckoutInv, TypeOK, BindingInv
<1>1. ASSUME NEW p \in Payments, PaymentStep(p)
      PROVE  Kept
  <2>1. receipts' = receipts
    BY <1>1 DEF PaymentStep, CreatorStep, CustomerCancel, DeadlineSweep,
        StageCheckout, CallCreateIntent, ReceiveIntent, FinalizeIntent,
        ReconcileFinalization, CloseReturnedIntent, CancelReturnedIntent,
        RecordIntentFailure, RecordIntentAmbiguity, CrashCreator, ReplayCheckout,
        DeadlinePasses, VoidPayment, CompensationSucceeds, CompensationFails,
        RetryCompensation, ProviderAccepts, ProviderRejects, ProviderDeclines,
        CustomerPays, ProviderMoves
  <2> DEFINE Answered == \/ command' = command
                         \/ \E answer : Complete(p, answer)
                         \/ StageCheckout(p)
  <2>2. Answered
    <3>1. ASSUME \/ CustomerCancel(p) \/ DeadlineSweep(p) \/ StageCheckout(p)
                 \/ CrashCreator(p) \/ DeadlinePasses(p) \/ VoidPayment(p)
                 \/ CompensationSucceeds(p) \/ CompensationFails(p)
                 \/ RetryCompensation(p) \/ ProviderAccepts(p)
                 \/ ProviderRejects(p) \/ ProviderDeclines(p) \/ CustomerPays(p)
          PROVE  command' = command \/ StageCheckout(p)
      BY <3>1 DEF CustomerCancel, DeadlineSweep, CrashCreator, DeadlinePasses,
          VoidPayment, CompensationSucceeds, CompensationFails, RetryCompensation,
          ProviderAccepts, ProviderRejects, ProviderDeclines, CustomerPays,
          ProviderMoves
    <3>2. ASSUME \/ CallCreateIntent(p) \/ ReceiveIntent(p)
                 \/ ReconcileFinalization(p) \/ CancelReturnedIntent(p)
          PROVE  command' = command
      BY <3>2 DEF CallCreateIntent, ReceiveIntent, ReconcileFinalization,
          CancelReturnedIntent
    <3>3. ASSUME FinalizeIntent(p) PROVE Answered
      BY <3>3 DEF FinalizeIntent
    <3>4. ASSUME CloseReturned(p) PROVE Answered
      BY <3>4 DEF CloseReturned
    <3>5. ASSUME CloseReturnedIntent(p) PROVE Answered
      BY <3>4, <3>5 DEF CloseReturnedIntent
    <3>6. ASSUME RecordIntentFailure(p) PROVE Answered
      BY <3>6 DEF RecordIntentFailure
    <3>7. ASSUME RecordIntentAmbiguity(p) PROVE Answered
      BY <3>4, <3>7 DEF RecordIntentAmbiguity
    <3>8. ASSUME ReplayCheckout(p) PROVE Answered
      BY <3>8 DEF ReplayCheckout
    <3> QED
      BY <1>1, <3>1, <3>2, <3>3, <3>5, <3>6, <3>7, <3>8 DEF PaymentStep, CreatorStep
  <2>3. ASSUME NEW answer, Complete(p, answer)
        PROVE  Kept
    BY <1>0, <2>1, <2>3 DEF Complete
  <2>4. ASSUME StageCheckout(p)
        PROVE  Kept
    BY <1>0, <2>1, <2>4 DEF StageCheckout, Cancellable
  <2> QED
    BY <2>1, <2>2, <2>3, <2>4
<1>2. ASSUME NEW h \in Handlers, HandlerStep(h)
      PROVE  Kept
  <2>1. command' = command
    BY <1>2 DEF HandlerStep, ReadContext, ReadPayment, StageCapture, ReadSets,
        ReleaseStale, CreatePlan, Reacquire, ApplyEvent, AskReacquire, ApplyNothing
  <2>2. receipts \subseteq receipts'
    BY <1>2 DEF HandlerStep, ReadContext, ReadPayment, StageCapture, ReadSets,
        ReleaseStale, CreatePlan, Reacquire, ApplyEvent, AskReacquire,
        ApplyNothing, Receipted
  <2> QED
    BY <2>1, <2>2
<1>3. ASSUME NEW h \in Handlers, NEW p \in Payments, Deliver(h, p)
      PROVE  Kept
  BY <1>3 DEF Deliver
<1>4. ASSUME NEW h \in Handlers, CrashHandler(h)
      PROVE  Kept
  BY <1>4 DEF CrashHandler
<1>5. ASSUME NEW g \in Sets, TtlPasses(g) \/ ExpireSet(g)
      PROVE  Kept
  BY <1>5 DEF TtlPasses, ExpireSet
<1>6. ASSUME UNCHANGED vars PROVE Kept
  BY <1>6 DEF vars
<1> HIDE DEF Kept
<1>7. Kept
  BY <1>1, <1>2, <1>3, <1>4, <1>5, <1>6 DEF Next
<1> QED
  BY <1>7 DEF Kept

\* THEOREM: no later event undoes an outcome: a decided order, a compensation
\* that is due, an answered command, a held set and a receipt stay, and
\* authority is only ever given to a new payment.
THEOREM OutcomesAreKept == Spec => OutcomesKept
<1> DEFINE Kept == /\ order # "QUOTED" => order' = order
                   /\ \A p \in Payments :
                        /\ status[p] \in Compensable =>
                              status'[p] \in {status[p], "REFUND_PENDING"}
                        /\ p \in authorized' \ authorized => status[p] = "NONE"
                        /\ command[p] \notin {"NONE", "PROCESSING"}
                              => command'[p] = command[p]
                   /\ \A g \in Sets : sets[g] = "HELD" => sets'[g] = "HELD"
                   /\ receipts \subseteq receipts'
<1>1. CheckoutInv /\ [Next]_vars => Kept
  <2> SUFFICES ASSUME CheckoutInv, [Next]_vars PROVE Kept
    OBVIOUS
  <2>1. LedgerInv /\ LedgerMove
    BY LedgerStep DEF CheckoutInv
  <2> QED
    BY <2>1, LedgerOutcomes, AnswersKept
<1> HIDE DEF Kept
<1>2. Spec => [][Kept]_vars
  BY <1>1, CheckoutTypes, PTL DEF Spec
<1> QED
  BY <1>2 DEF OutcomesKept, Kept
=============================================================================
