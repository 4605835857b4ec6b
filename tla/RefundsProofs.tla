--------------------------- MODULE RefundsProofs ---------------------------
(***************************************************************************)
(* Proofs about Refunds, for every set of refunds, adjustments and          *)
(* dispatchers and every bound on the clock.                                *)
(***************************************************************************)
EXTENDS Refunds, SumLemmas, TLAPS

USE RefundsAssumption

\* The receipts an action may hand to the applicator are well formed.
LEMMA ReceiptType ==
    ASSUME NEW r \in Refunds, NEW by \in {"api", "operator"},
           NEW kind \in Kinds, NEW at \in Int
    PROVE  Receipt(r, by, kind, at) \in Receipts
BY DEF Receipt, Receipts

\* The status a Payment derives from its refunds is one the schema knows.
LEMMA DerivedPaymentType ==
    ASSUME NEW st PROVE DerivedPayment(st) \in PaymentStatus
BY DEF DerivedPayment, PaymentStatus

\* The six ways the applicator can decide a receipt.
LEMMA OutcomeCases ==
    ASSUME NEW r, NEW rc, NEW o \in Outcomes(r, rc)
    PROVE  \/ o \in PendingOutcome(r, rc)
           \/ o \in LateOutcome(r, rc)
           \/ o \in SupersedeOutcome(r, rc)
           \/ o \in SuspendOutcome(r, rc)
           \/ o \in ResolveOutcome(r, rc)
           \/ o \in DoubleSuccessOutcome(r, rc)
BY Zenon DEF Outcomes

\* Whatever the applicator decides, the refund rows it writes are well formed.
LEMMA OutcomeType ==
    ASSUME TypeOK, NEW r \in Refunds, NEW rc \in Receipts,
           NEW o \in Outcomes(r, rc)
    PROVE  /\ o.status \in [Refunds -> RefundStatus]
           /\ o.result \in [Refunds -> Receipts \cup {NoReceipt}]
           /\ o.source \in [Refunds -> Receipts \cup {NoReceipt}]
<1> USE DEF TypeOK
<1>0. rc.kind \in {"SUCCEEDED", "FAILED"}
  BY DEF Receipts, Kinds
<1>1. CASE o \in PendingOutcome(r, rc)
  BY <1>0, <1>1 DEF PendingOutcome, Outcome, RefundStatus
<1>2. CASE o \in LateOutcome(r, rc)
  BY <1>2 DEF LateOutcome, Outcome, RefundStatus
<1>3. CASE o \in SupersedeOutcome(r, rc)
  BY <1>3 DEF SupersedeOutcome, Outcome, RefundStatus, Replacements
<1>4. CASE o \in SuspendOutcome(r, rc)
  BY <1>4 DEF SuspendOutcome, Outcome, RefundStatus, Replacements
<1>5. CASE o \in ResolveOutcome(r, rc)
  BY <1>5 DEF ResolveOutcome, Outcome, RefundStatus
<1>6. CASE o \in DoubleSuccessOutcome(r, rc)
  BY <1>6 DEF DoubleSuccessOutcome, Outcome, RefundStatus
<1> QED
  BY OutcomeCases, <1>1, <1>2, <1>3, <1>4, <1>5, <1>6

\* The applicator keeps every type.
LEMMA ApplyType ==
    ASSUME TypeOK, NEW r \in Refunds, NEW rc \in Receipts,
           ApplyRefundProviderResult(r, rc)
    PROVE  /\ status' \in [Refunds -> RefundStatus]
           /\ result' \in [Refunds -> Receipts \cup {NoReceipt}]
           /\ sourceSuccess' \in [Refunds -> Receipts \cup {NoReceipt}]
           /\ receipts' \in SUBSET Receipts
           /\ payment' \in PaymentStatus
           /\ now' \in Nat
           /\ UNCHANGED <<adjustment, replaces, claimedAt>>
<1> PICK o \in Outcomes(r, rc) : /\ status' = o.status
                                 /\ result' = o.result
                                 /\ sourceSuccess' = o.source
                                 /\ payment' = DerivedPayment(o.status)
  BY DEF ApplyRefundProviderResult
<1>1. now' \in Nat /\ receipts' \in SUBSET Receipts
      /\ UNCHANGED <<adjustment, replaces, claimedAt>>
  BY DEF ApplyRefundProviderResult, TypeOK
<1> QED
  BY <1>1, OutcomeType, DerivedPaymentType

\* A Payment that was just captured, without refunds, is well typed.
LEMMA TypeInit == Init => TypeOK
BY DEF Init, TypeOK, RefundStatus, PaymentStatus, Labels

\* A dispatcher that is not idle works on a refund of the Payment.
BusyHasJob == \A w \in Workers : pc[w] # "idle" => task[w] \in Refunds

\* No dispatcher works on anything at the start.
LEMMA BusyInit == Init => BusyHasJob
BY DEF Init, BusyHasJob

\* Every API call, dispatcher step, crash and tick keeps the types, and a busy
\* dispatcher keeps the refund it works on.
LEMMA TypeStep ==
    ASSUME TypeOK, BusyHasJob, [Next]_vars
    PROVE  TypeOK' /\ BusyHasJob'
<1> USE DEF TypeOK, BusyHasJob, refundVars, providerVars, workerVars
<1>1. ASSUME NEW a \in Adjustments, NEW r \in Refunds, RefundAdjustment(a, r)
      PROVE  TypeOK' /\ BusyHasJob'
  BY <1>1 DEF RefundAdjustment, CreateRefund, RefundStatus, PaymentStatus
<1>2. ASSUME NEW s \in Refunds, NEW r \in Refunds, RetryRefund(s, r)
      PROVE  TypeOK' /\ BusyHasJob'
  BY <1>2 DEF RetryRefund, CreateRefund, RefundStatus, PaymentStatus
<1>3. ASSUME NEW r \in Refunds, NEW kind \in Kinds,
             NEW at \in -Tolerance..(now + 1),
             RecordRefundProviderResult(r, kind, at)
      PROVE  TypeOK' /\ BusyHasJob'
  <2>1. Receipt(r, "operator", kind, at) \in Receipts
    BY ReceiptType
  <2>2. ApplyRefundProviderResult(r, Receipt(r, "operator", kind, at))
        /\ UNCHANGED <<outbox, leaseHolder, pc, task, won, sent, moved>>
    BY <1>3 DEF RecordRefundProviderResult
  <2> QED
    BY <2>1, <2>2, ApplyType
<1>4. ASSUME NEW w \in Workers, WorkerStep(w)
      PROVE  TypeOK' /\ BusyHasJob'
  <2>1. CASE ReadRefund(w)
    BY <2>1 DEF ReadRefund, GoTo, Labels
  <2>2. CASE ClaimRefundDispatch(w)
    <3>1. now' \in Nat /\ claimedAt' \in [Refunds -> Nat]
      BY <2>2 DEF ClaimRefundDispatch
    <3>2. won' \in [Workers -> BOOLEAN]
      BY <2>2 DEF ClaimRefundDispatch
    <3> QED
      BY <2>2, <3>1, <3>2 DEF ClaimRefundDispatch, GoTo, Labels
  <2>3. CASE RecheckRefund(w)
    BY <2>3 DEF RecheckRefund, GoTo, Labels
  <2>4. CASE SendRefund(w)
    BY <2>4 DEF SendRefund, GoTo, Labels
  <2>5. CASE ReceiveAnswer(w)
    BY <2>5 DEF ReceiveAnswer, GoTo, Labels
  <2>6. CASE PersistResult(w)
    <3>1. pc' \in [Workers -> Labels]
          /\ UNCHANGED <<outbox, leaseHolder, task, won, sent, moved>>
          /\ (\A v \in Workers : pc'[v] # "idle" => pc[v] # "idle")
      BY <2>6 DEF PersistResult, GoTo, Labels
    <3>2. \/ UNCHANGED <<status, adjustment, replaces, result, sourceSuccess,
                         claimedAt, receipts, payment, now>>
          \/ ApplyRefundProviderResult(task[w],
                 Receipt(task[w], "api", "SUCCEEDED", now + 1))
      BY <2>6 DEF PersistResult
    <3>3. task[w] \in Refunds
      BY <2>6 DEF PersistResult
    <3>4. Receipt(task[w], "api", "SUCCEEDED", now + 1) \in Receipts
      BY <3>3, ReceiptType DEF Kinds
    <3> QED
      BY <3>1, <3>2, <3>3, <3>4, ApplyType
  <2>7. CASE DeliverMessage(w)
    BY <2>7 DEF DeliverMessage, EndLease, HoldsLease, Finish, Labels
  <2>8. CASE FailMessage(w)
    BY <2>8 DEF FailMessage, EndLease, HoldsLease, Finish, Labels
  <2> QED
    BY <1>4, <2>1, <2>2, <2>3, <2>4, <2>5, <2>6, <2>7, <2>8 DEF WorkerStep
<1>5. ASSUME NEW w \in Workers, CrashWorker(w)
      PROVE  TypeOK' /\ BusyHasJob'
  BY <1>5 DEF CrashWorker, Finish, Labels
<1>6. ASSUME NEW w \in Workers, NEW r \in Refunds, ClaimMessage(w, r)
      PROVE  TypeOK' /\ BusyHasJob'
  BY <1>6 DEF ClaimMessage, GoTo, Labels
<1>7. ASSUME NEW r \in Refunds, ProviderTransfers(r)
      PROVE  TypeOK' /\ BusyHasJob'
  BY <1>7 DEF ProviderTransfers
<1>8. CASE UNCHANGED vars
  BY <1>8 DEF vars
<1> QED
  BY <1>1, <1>2, <1>3, <1>4, <1>5, <1>6, <1>7, <1>8 DEF Next, OperatorStep

\* Type correctness of the refund protocol: every reachable state of the
\* tables, the outbox and the dispatchers is well formed.
THEOREM TypeCorrect == Spec => [](TypeOK /\ BusyHasJob)
<1>1. Init => TypeOK /\ BusyHasJob
  BY TypeInit, BusyInit
<1>2. TypeOK /\ BusyHasJob /\ [Next]_vars => (TypeOK /\ BusyHasJob)'
  BY TypeStep
<1> QED
  BY <1>1, <1>2, PTL DEF Spec

-----------------------------------------------------------------------------
(* At most one request.  The claim row is what makes it true: whoever may    *)
(* still send an attempt (Ready) holds the only claim of it and has not sent *)
(* it yet.                                                                   *)

Ready(w) == pc[w] \in {"recheck", "call"} /\ won[w]

DispatchInv ==
    /\ \A r \in Refunds : sent[r] <= 1
    /\ \A r \in Refunds : sent[r] > 0 => claimedAt[r] # 0
    /\ \A w \in Workers : pc[w] = "call" => won[w]
    /\ \A w \in Workers : Ready(w) => claimedAt[task[w]] # 0 /\ sent[task[w]] = 0
    /\ \A v, w \in Workers : v # w /\ Ready(v) /\ Ready(w) => task[v] # task[w]
    /\ \A r \in Refunds : status[r] = "SUPERSEDED" => claimedAt[r] = 0

\* Only an unclaimed attempt is ever superseded.
LEMMA SupersededUnclaimed ==
    ASSUME TypeOK, NEW r \in Refunds, NEW rc \in Receipts,
           NEW o \in Outcomes(r, rc), NEW x \in Refunds,
           o.status[x] = "SUPERSEDED"
    PROVE  status[x] = "SUPERSEDED" \/ claimedAt[x] = 0
<1> USE DEF TypeOK
<1>0. rc.kind \in {"SUCCEEDED", "FAILED"}
  BY DEF Receipts, Kinds
<1>1. CASE o \in PendingOutcome(r, rc)
  BY <1>0, <1>1 DEF PendingOutcome, Outcome
<1>2. CASE o \in LateOutcome(r, rc)
  BY <1>2 DEF LateOutcome, Outcome
<1>3. CASE o \in SupersedeOutcome(r, rc)
  BY <1>3 DEF SupersedeOutcome, Outcome, Replacements
<1>4. CASE o \in SuspendOutcome(r, rc)
  BY <1>4 DEF SuspendOutcome, Outcome, Replacements
<1>5. CASE o \in ResolveOutcome(r, rc)
  BY <1>5 DEF ResolveOutcome, Outcome
<1>6. CASE o \in DoubleSuccessOutcome(r, rc)
  BY <1>6 DEF DoubleSuccessOutcome, Outcome
<1> QED
  BY OutcomeCases, <1>1, <1>2, <1>3, <1>4, <1>5, <1>6

\* Applying a provider result never touches what the dispatch claims and the
\* requests sent to the provider say of each other.
LEMMA ApplyDispatchInv ==
    ASSUME TypeOK, DispatchInv, NEW r \in Refunds, NEW rc \in Receipts,
           ApplyRefundProviderResult(r, rc)
    PROVE  /\ claimedAt' = claimedAt
           /\ \A x \in Refunds : status'[x] = "SUPERSEDED" => claimedAt[x] = 0
BY SupersededUnclaimed DEF ApplyRefundProviderResult, DispatchInv

\* Every step keeps the dispatch claim the only licence to call the provider.
LEMMA DispatchStep ==
    ASSUME TypeOK, BusyHasJob, DispatchInv, [Next]_vars
    PROVE  DispatchInv'
<1> USE DEF TypeOK, BusyHasJob, DispatchInv, Ready, refundVars, providerVars,
            workerVars
<1>1. ASSUME NEW a \in Adjustments, NEW r \in Refunds, RefundAdjustment(a, r)
      PROVE  DispatchInv'
  BY <1>1 DEF RefundAdjustment, CreateRefund
<1>2. ASSUME NEW s \in Refunds, NEW r \in Refunds, RetryRefund(s, r)
      PROVE  DispatchInv'
  BY <1>2 DEF RetryRefund, CreateRefund
<1>3. ASSUME NEW r \in Refunds, NEW kind \in Kinds,
             NEW at \in -Tolerance..(now + 1),
             RecordRefundProviderResult(r, kind, at)
      PROVE  DispatchInv'
  <2>1. Receipt(r, "operator", kind, at) \in Receipts
    BY ReceiptType
  <2>2. ApplyRefundProviderResult(r, Receipt(r, "operator", kind, at))
        /\ UNCHANGED <<outbox, leaseHolder, pc, task, won, sent, moved>>
    BY <1>3 DEF RecordRefundProviderResult
  <2>3. /\ claimedAt' = claimedAt
        /\ \A x \in Refunds : status'[x] = "SUPERSEDED" => claimedAt[x] = 0
    BY <2>1, <2>2, ApplyDispatchInv
  <2> QED
    BY <2>2, <2>3
<1>4. ASSUME NEW w \in Workers, WorkerStep(w)
      PROVE  DispatchInv'
  <2>1. CASE ReadRefund(w)
    BY <2>1 DEF ReadRefund, GoTo
  <2>2. CASE ClaimRefundDispatch(w)
    <3> DEFINE r == task[w]
    <3>0. /\ r \in Refunds
          /\ pc[w] = "claim"
          /\ pc' = [pc EXCEPT ![w] = "recheck"]
          /\ UNCHANGED <<status, task, sent>>
      BY <2>2 DEF ClaimRefundDispatch, GoTo
    <3>1. CASE Claimable(r)
      <4>1. /\ won' = [won EXCEPT ![w] = TRUE]
            /\ claimedAt' = [claimedAt EXCEPT ![r] = now + 1]
            /\ claimedAt[r] = 0 /\ status[r] = "PENDING"
        BY <2>2, <3>1 DEF ClaimRefundDispatch, Claimable
      <4>2. sent[r] = 0
        BY <3>0, <4>1
      <4>3. \A v \in Workers : v # w /\ Ready(v) => task[v] # r
        BY <3>0, <4>1
      <4> QED
        BY <3>0, <4>1, <4>2, <4>3
    <3>2. CASE ~ Claimable(r)
      <4>1. won' = [won EXCEPT ![w] = FALSE] /\ claimedAt' = claimedAt
        BY <2>2, <3>2 DEF ClaimRefundDispatch
      <4> QED
        BY <3>0, <4>1
    <3> QED
      BY <3>1, <3>2
  <2>3. CASE RecheckRefund(w)
    BY <2>3 DEF RecheckRefund, GoTo
  <2>4. CASE SendRefund(w)
    BY <2>4 DEF SendRefund, GoTo
  <2>5. CASE ReceiveAnswer(w)
    BY <2>5 DEF ReceiveAnswer, GoTo
  <2>6. CASE PersistResult(w)
    <3>1. /\ pc[w] = "persist" /\ pc'[w] \notin {"recheck", "call"}
          /\ \A v \in Workers : v # w => pc'[v] = pc[v]
          /\ UNCHANGED <<outbox, leaseHolder, task, won, sent, moved>>
      BY <2>6 DEF PersistResult, GoTo
    <3>2. \/ UNCHANGED <<status, claimedAt>>
          \/ ApplyRefundProviderResult(task[w],
                 Receipt(task[w], "api", "SUCCEEDED", now + 1))
      BY <2>6 DEF PersistResult
    <3>3. Receipt(task[w], "api", "SUCCEEDED", now + 1) \in Receipts
      BY <3>1, ReceiptType DEF Kinds
    <3>4. /\ claimedAt' = claimedAt
          /\ \A x \in Refunds : status'[x] = "SUPERSEDED" => claimedAt[x] = 0
      BY <3>1, <3>2, <3>3, ApplyDispatchInv
    <3> QED
      BY <3>1, <3>4
  <2>7. CASE DeliverMessage(w)
    BY <2>7 DEF DeliverMessage, Finish
  <2>8. CASE FailMessage(w)
    BY <2>8 DEF FailMessage, Finish
  <2> QED
    BY <1>4, <2>1, <2>2, <2>3, <2>4, <2>5, <2>6, <2>7, <2>8 DEF WorkerStep
<1>5. ASSUME NEW w \in Workers, CrashWorker(w)
      PROVE  DispatchInv'
  BY <1>5 DEF CrashWorker, Finish
<1>6. ASSUME NEW w \in Workers, NEW r \in Refunds, ClaimMessage(w, r)
      PROVE  DispatchInv'
  BY <1>6 DEF ClaimMessage, GoTo
<1>7. ASSUME NEW r \in Refunds, ProviderTransfers(r)
      PROVE  DispatchInv'
  BY <1>7 DEF ProviderTransfers
<1>8. CASE UNCHANGED vars
  BY <1>8 DEF vars
<1> QED
  BY <1>1, <1>2, <1>3, <1>4, <1>5, <1>6, <1>7, <1>8 DEF Next, OperatorStep

\* For any number of dispatchers, crashes, expired leases and operator
\* decisions: a provider that cannot be replayed receives at most one refund
\* request per attempt, and none for a superseded attempt.
THEOREM AtMostOnce == Spec => [](AtMostOneRequest /\ SupersededNeverSent)
<1>1. Init => DispatchInv
  BY DEF Init, DispatchInv, Ready
<1>2. TypeOK /\ BusyHasJob /\ DispatchInv /\ [Next]_vars => DispatchInv'
  BY DispatchStep
<1>3. TypeOK /\ BusyHasJob /\ DispatchInv
        => AtMostOneRequest /\ SupersededNeverSent
  BY DEF TypeOK, BusyHasJob, DispatchInv, Ready, AtMostOneRequest,
         SupersededNeverSent
<1> QED
  BY <1>1, <1>2, <1>3, TypeCorrect, PTL DEF Spec

-----------------------------------------------------------------------------
(* What a step may do to the refund rows.  Every step is one of four: an     *)
(* adjustment gets its first refund, a failed refund is retried, a provider  *)
(* result is applied, or the rows, the receipts and the Payment stay.        *)

rowVars == <<status, adjustment, replaces, result, sourceSuccess, receipts,
             payment>>

\* Every step is one of those four.
LEMMA RowStep ==
    ASSUME TypeOK, BusyHasJob, [Next]_vars
    PROVE  \/ \E a \in Adjustments, r \in Refunds : RefundAdjustment(a, r)
           \/ \E s, r \in Refunds : RetryRefund(s, r)
           \/ \E r \in Refunds, rc \in Receipts :
                 rc.refund = r /\ ApplyRefundProviderResult(r, rc)
           \/ /\ UNCHANGED rowVars
              /\ \A r \in Refunds : claimedAt[r] # 0 => claimedAt'[r] = claimedAt[r]
<1> USE DEF refundVars, providerVars, workerVars, rowVars
<1> DEFINE Idle == /\ UNCHANGED rowVars
                   /\ \A r \in Refunds :
                         claimedAt[r] # 0 => claimedAt'[r] = claimedAt[r]
           Applied == \E r \in Refunds, rc \in Receipts :
                         rc.refund = r /\ ApplyRefundProviderResult(r, rc)
<1>1. ASSUME NEW r \in Refunds, NEW kind \in Kinds,
             NEW at \in -Tolerance..(now + 1),
             RecordRefundProviderResult(r, kind, at)
      PROVE  Applied
  <2>1. at \in Int
    BY DEF TypeOK
  <2>2. Receipt(r, "operator", kind, at) \in Receipts
        /\ Receipt(r, "operator", kind, at).refund = r
    BY <2>1, ReceiptType DEF Receipt
  <2> QED
    BY <1>1, <2>2 DEF RecordRefundProviderResult
<1>2. ASSUME NEW w \in Workers, WorkerStep(w)
      PROVE  Applied \/ Idle
  <2>1. CASE PersistResult(w)
    <3>1. \/ UNCHANGED rowVars /\ claimedAt' = claimedAt
          \/ ApplyRefundProviderResult(task[w],
                 Receipt(task[w], "api", "SUCCEEDED", now + 1))
      BY <2>1 DEF PersistResult
    <3>2. task[w] \in Refunds
      BY <2>1 DEF PersistResult, BusyHasJob
    <3>3. Receipt(task[w], "api", "SUCCEEDED", now + 1) \in Receipts
          /\ Receipt(task[w], "api", "SUCCEEDED", now + 1).refund = task[w]
      BY <3>2, ReceiptType DEF Receipt, Kinds, TypeOK
    <3> QED
      BY <3>1, <3>2, <3>3
  <2>2. CASE ClaimRefundDispatch(w)
    BY <2>2 DEF ClaimRefundDispatch, Claimable, TypeOK
  <2>3. CASE ~ PersistResult(w) /\ ~ ClaimRefundDispatch(w)
    BY <1>2, <2>3 DEF WorkerStep, ReadRefund, RecheckRefund, SendRefund,
                      ReceiveAnswer, DeliverMessage, FailMessage
  <2> QED
    BY <2>1, <2>2, <2>3
<1>3. ASSUME NEW w \in Workers, CrashWorker(w)
      PROVE  Idle
  BY <1>3 DEF CrashWorker
<1>4. ASSUME NEW w \in Workers, NEW r \in Refunds, ClaimMessage(w, r)
      PROVE  Idle
  BY <1>4 DEF ClaimMessage
<1>5. ASSUME NEW r \in Refunds, ProviderTransfers(r)
      PROVE  Idle
  BY <1>5 DEF ProviderTransfers
<1>6. UNCHANGED vars => Idle
  BY DEF vars
<1> HIDE DEF Idle, Applied
<1>7. \/ \E a \in Adjustments, r \in Refunds : RefundAdjustment(a, r)
      \/ \E s, r \in Refunds : RetryRefund(s, r)
      \/ Applied \/ Idle
  BY <1>1, <1>2, <1>3, <1>4, <1>5, <1>6 DEF Next, OperatorStep
<1> QED
  BY <1>7 DEF Applied, Idle

\* What the applicator may do to one attempt: decide a PENDING one, turn a
\* failure into a success, suspend a success, or resolve a suspended one.
LEMMA OutcomeHistory ==
    ASSUME TypeOK, NEW r \in Refunds, NEW rc \in Receipts,
           NEW o \in Outcomes(r, rc), NEW x \in Refunds
    PROVE  /\ status[x] = "SUCCEEDED" => o.status[x] \in {"SUCCEEDED", "SUSPENDED"}
           /\ status[x] = "SUPERSEDED" => o.status[x] = "SUPERSEDED"
           /\ status[x] = "FAILED" => o.status[x] \in {"FAILED", "SUCCEEDED"}
<1> USE DEF TypeOK
<1>1. CASE o \in PendingOutcome(r, rc)
  BY <1>1 DEF PendingOutcome, Outcome
<1>2. CASE o \in LateOutcome(r, rc)
  BY <1>2 DEF LateOutcome, LateSuccess, Outcome
<1>3. CASE o \in SupersedeOutcome(r, rc)
  BY <1>3 DEF SupersedeOutcome, LateSuccess, Outcome, Replacements
<1>4. CASE o \in SuspendOutcome(r, rc)
  BY <1>4 DEF SuspendOutcome, Outcome, Replacements
<1>5. CASE o \in ResolveOutcome(r, rc)
  BY <1>5 DEF ResolveOutcome, Outcome
<1>6. CASE o \in DoubleSuccessOutcome(r, rc)
  BY <1>6 DEF DoubleSuccessOutcome, Outcome
<1> QED
  BY OutcomeCases, <1>1, <1>2, <1>3, <1>4, <1>5, <1>6

\* What the provider was told or did is final, in every run of the protocol: no
\* command, dispatcher step or receipt withdraws a claim, undoes a supersession
\* or turns a recorded success into anything but the suspended incident.
THEOREM HistoryIsPreserved == Spec => HistoryPreserved
<1> DEFINE Kept == \A r \in Refunds :
          /\ status[r] = "SUCCEEDED" => status'[r] \in {"SUCCEEDED", "SUSPENDED"}
          /\ status[r] = "SUPERSEDED" => status'[r] = "SUPERSEDED"
          /\ status[r] = "FAILED" => status'[r] \in {"FAILED", "SUCCEEDED"}
          /\ claimedAt[r] # 0 => claimedAt'[r] = claimedAt[r]
<1>1. TypeOK /\ BusyHasJob /\ [Next]_vars => Kept
  <2> SUFFICES ASSUME TypeOK, BusyHasJob, [Next]_vars PROVE Kept
    OBVIOUS
  <2>1. ASSUME NEW a \in Adjustments, NEW r \in Refunds, RefundAdjustment(a, r)
        PROVE  Kept
    BY <2>1 DEF RefundAdjustment, CreateRefund, Exists, TypeOK
  <2>2. ASSUME NEW s \in Refunds, NEW r \in Refunds, RetryRefund(s, r)
        PROVE  Kept
    BY <2>2 DEF RetryRefund, CreateRefund, Exists, TypeOK
  <2>3. ASSUME NEW r \in Refunds, NEW rc \in Receipts,
               ApplyRefundProviderResult(r, rc)
        PROVE  Kept
    <3>1. PICK o \in Outcomes(r, rc) : status' = o.status
      BY <2>3 DEF ApplyRefundProviderResult
    <3> QED
      BY <2>3, <3>1, OutcomeHistory DEF ApplyRefundProviderResult
  <2>4. (/\ UNCHANGED rowVars
         /\ \A r \in Refunds : claimedAt[r] # 0 => claimedAt'[r] = claimedAt[r])
        => Kept
    BY DEF rowVars
  <2> HIDE DEF Kept
  <2> QED
    BY RowStep, <2>1, <2>2, <2>3, <2>4
<1>2. TypeOK /\ BusyHasJob /\ [Next]_vars => [Kept]_vars
  BY <1>1
<1> HIDE DEF Kept
<1>3. Spec => [][Kept]_vars
  BY <1>2, TypeCorrect, PTL DEF Spec
<1> QED
  BY <1>3 DEF HistoryPreserved, Kept

-----------------------------------------------------------------------------
(* Money.  Every row that exists belongs to an adjustment, so a row that is  *)
(* created adds exactly its obligation to the totals; a receipt is applied   *)
(* only when the database's money checks accept the rows it leaves.          *)

RowsOwned == \A r \in Refunds : Exists(r) <=> adjustment[r] \in Adjustments

MoneyInv == RowsOwned /\ MoneyWithinLimits /\ PaymentReflectsRefunds

\* Any set of refunds is finite, and its amounts are natural numbers.
LEMMA RowsSummable ==
    ASSUME TypeOK, NEW S \in SUBSET Refunds
    PROVE  /\ IsFiniteSet(S)
           /\ \A r \in S : Amounts[r] \in Nat
           /\ SumFunctionOnSet(Amounts, S) \in Nat
<1>1. IsFiniteSet(S)
  BY FS_Subset
<1>2. \A r \in S : Amounts[r] \in Nat
  BY DEF Amounts, Amount, TypeOK
<1> QED
  BY <1>1, <1>2, SumRemove

\* A new row of adjustment a adds Required[a] to a total, and no other row's
\* amount changes.
LEMMA RowAdded ==
    ASSUME TypeOK, NEW S \in SUBSET Refunds, NEW r \in Refunds, r \notin S,
           NEW a \in Adjustments, adjustment' = [adjustment EXCEPT ![r] = a]
    PROVE  /\ SumFunctionOnSet(Amounts', S \cup {r})
                = Required[a] + SumFunctionOnSet(Amounts, S)
           /\ SumFunctionOnSet(Amounts', S) = SumFunctionOnSet(Amounts, S)
           /\ SumFunctionOnSet(Amounts, S) \in Nat
<1>1. /\ IsFiniteSet(S)
      /\ \A x \in S : Amounts[x] \in Nat
      /\ SumFunctionOnSet(Amounts, S) \in Nat
  BY RowsSummable
<1>2. /\ \A x \in S : Amounts'[x] = Amounts[x]
      /\ Amounts'[r] = Required[a]
  BY DEF Amounts, Amount, TypeOK
<1>3. SumFunctionOnSet(Amounts', S) = SumFunctionOnSet(Amounts, S)
  BY <1>1, <1>2, SumSame
<1>4. IsFiniteSet(S \cup {r}) /\ \A x \in S \cup {r} : Amounts'[x] \in Nat
  BY <1>1, <1>2, FS_AddElement
<1>5. SumFunctionOnSet(Amounts', S \cup {r})
        = Amounts'[r] + SumFunctionOnSet(Amounts', (S \cup {r}) \ {r})
  BY <1>4, SumRemove
<1>6. (S \cup {r}) \ {r} = S
  OBVIOUS
<1> QED
  BY <1>1, <1>2, <1>3, <1>5, <1>6

\* A refund that both budgets can carry keeps the limits when it is created,
\* and the Payment shows it.
LEMMA CreateMoney ==
    ASSUME TypeOK, MoneyInv, NEW r \in Refunds, ~ Exists(r),
           NEW a \in Adjustments, NEW source, CreateRefund(r, a, source),
           Captured - Committed(status) >= Required[a],
           Total({x \in CommittedRows(status) : adjustment[x] = a}) = 0
    PROVE  MoneyInv'
<1> DEFINE C == CommittedRows(status)
           Of(b) == {x \in CommittedRows(status) : adjustment[x] = b}
<1>0. /\ status' = [status EXCEPT ![r] = "PENDING"]
      /\ adjustment' = [adjustment EXCEPT ![r] = a]
      /\ payment' = "REFUND_PENDING"
  BY DEF CreateRefund
<1>1. C \in SUBSET Refunds /\ r \notin C
  BY DEF CommittedRows, Committing, Exists
<1>2. {x \in Refunds : status'[x] \in Committing} = C \cup {r}
  BY <1>0 DEF CommittedRows, Committing, TypeOK, Exists
<1>3. RowsOwned'
  BY <1>0 DEF RowsOwned, Exists, MoneyInv, TypeOK
<1>4. WithinCapture(status)'
  <2>1. SumFunctionOnSet(Amounts', C \cup {r})
          = Required[a] + SumFunctionOnSet(Amounts, C)
        /\ SumFunctionOnSet(Amounts, C) \in Nat
    BY <1>0, <1>1, RowAdded
  <2>2. Captured - SumFunctionOnSet(Amounts, C) >= Required[a]
    BY DEF Committed, Total
  <2>3. SumFunctionOnSet(Amounts', C \cup {r}) <= Captured
    BY <2>1, <2>2
  <2> HIDE DEF C
  <2> QED
    BY <1>2, <2>3 DEF WithinCapture, Committed, Total, CommittedRows
<1>5. ASSUME NEW b \in Adjustments
      PROVE  SumFunctionOnSet(Amounts',
                {x \in Refunds : status'[x] \in Committing /\ adjustment'[x] = b})
                <= Required[b]
  <2> DEFINE New == {x \in Refunds : status'[x] \in Committing
                                     /\ adjustment'[x] = b}
  <2>0. Of(b) \in SUBSET Refunds /\ r \notin Of(b)
    BY <1>1 DEF CommittedRows
  <2>1. /\ SumFunctionOnSet(Amounts', Of(b) \cup {r})
             = Required[a] + SumFunctionOnSet(Amounts, Of(b))
        /\ SumFunctionOnSet(Amounts', Of(b)) = SumFunctionOnSet(Amounts, Of(b))
    BY <1>0, <2>0, RowAdded
  <2>2. SumFunctionOnSet(Amounts, Of(b)) <= Required[b]
    BY DEF MoneyInv, MoneyWithinLimits, WithinAdjustments, Total
  <2>3. CASE a = b
    <3>1. New = Of(b) \cup {r}
      BY <1>0, <1>1, <1>2, <2>3 DEF TypeOK
    <3>2. SumFunctionOnSet(Amounts, Of(b)) = 0
      BY <2>3 DEF Total
    <3> HIDE DEF New, Of
    <3>3. SumFunctionOnSet(Amounts', New) = Required[b]
      BY <2>1, <2>3, <3>1, <3>2
    <3> QED
      BY <3>3 DEF New
  <2>4. CASE a # b
    <3>1. New = Of(b)
      BY <1>0, <1>1, <1>2, <2>4 DEF TypeOK
    <3> HIDE DEF New, Of
    <3>2. SumFunctionOnSet(Amounts', New) <= Required[b]
      BY <2>1, <2>2, <3>1
    <3> QED
      BY <3>2 DEF New
  <2> QED
    BY <2>3, <2>4
<1>6. WithinAdjustments(status)'
  <2>1. ASSUME NEW b \in Adjustments
        PROVE  {x \in Refunds : status'[x] \in Committing /\ adjustment'[x] = b}
                 = {x \in CommittedRows(status)' : adjustment'[x] = b}
    BY DEF CommittedRows
  <2> QED
    BY <1>5, <2>1 DEF WithinAdjustments, Total
<1>7. PaymentReflectsRefunds'
  BY <1>0 DEF PaymentReflectsRefunds, DerivedPayment, TypeOK
<1> QED
  BY <1>3, <1>4, <1>6, <1>7 DEF MoneyInv, MoneyWithinLimits

\* Applying a receipt neither creates nor removes a row.
LEMMA OutcomeExistence ==
    ASSUME TypeOK, NEW r \in Refunds, NEW rc \in Receipts,
           NEW o \in Outcomes(r, rc), NEW x \in Refunds
    PROVE  o.status[x] = "NONE" <=> status[x] = "NONE"
<1> USE DEF TypeOK
<1>0. rc.kind \in {"SUCCEEDED", "FAILED"}
  BY DEF Receipts, Kinds
<1>1. CASE o \in PendingOutcome(r, rc)
  BY <1>0, <1>1 DEF PendingOutcome, Outcome
<1>2. CASE o \in LateOutcome(r, rc)
  BY <1>2 DEF LateOutcome, LateSuccess, Outcome
<1>3. CASE o \in SupersedeOutcome(r, rc)
  BY <1>3 DEF SupersedeOutcome, LateSuccess, Outcome, Replacements
<1>4. CASE o \in SuspendOutcome(r, rc)
  BY <1>4 DEF SuspendOutcome, Outcome, Replacements
<1>5. CASE o \in ResolveOutcome(r, rc)
  BY <1>5 DEF ResolveOutcome, Outcome
<1>6. CASE o \in DoubleSuccessOutcome(r, rc)
  BY <1>6 DEF DoubleSuccessOutcome, Outcome
<1> QED
  BY OutcomeCases, <1>1, <1>2, <1>3, <1>4, <1>5, <1>6

\* The applicator writes only rows the money checks accept, and the Payment
\* status they imply.
LEMMA ApplyMoney ==
    ASSUME TypeOK, MoneyInv, NEW r \in Refunds, NEW rc \in Receipts,
           ApplyRefundProviderResult(r, rc)
    PROVE  MoneyInv'
<1>1. PICK o \in Outcomes(r, rc) : /\ status' = o.status
                                   /\ payment' = DerivedPayment(o.status)
  BY DEF ApplyRefundProviderResult
<1>2. adjustment' = adjustment
  BY DEF ApplyRefundProviderResult
<1>3. WithinCapture(o.status) /\ WithinAdjustments(o.status)
  BY DEF Outcomes
<1>4. \A x \in Refunds : o.status[x] = "NONE" <=> status[x] = "NONE"
  BY OutcomeExistence
<1>5. Amounts' = Amounts
  BY <1>2 DEF Amounts, Amount
<1>6. RowsOwned'
  BY <1>1, <1>2, <1>4 DEF RowsOwned, Exists, MoneyInv
<1>7. MoneyWithinLimits'
  BY <1>1, <1>2, <1>3, <1>5
  DEF MoneyWithinLimits, WithinCapture, WithinAdjustments, Committed, Total,
      CommittedRows
<1>8. PaymentReflectsRefunds'
  BY <1>1, <1>5 DEF PaymentReflectsRefunds, DerivedPayment, Total
<1> QED
  BY <1>6, <1>7, <1>8 DEF MoneyInv

\* Every step keeps the money within its limits and the Payment truthful.
LEMMA MoneyStep ==
    ASSUME TypeOK, BusyHasJob, MoneyInv, [Next]_vars
    PROVE  MoneyInv'
<1>1. ASSUME NEW a \in Adjustments, NEW r \in Refunds, RefundAdjustment(a, r)
      PROVE  MoneyInv'
  <2>1. {x \in CommittedRows(status) : adjustment[x] = a} = {}
    BY <1>1 DEF RefundAdjustment, CommittedRows, Committing, Exists
  <2>2. Total({x \in CommittedRows(status) : adjustment[x] = a}) = 0
    BY <2>1, SumEmpty DEF Total
  <2> QED
    BY <1>1, <2>2, CreateMoney DEF RefundAdjustment
<1>2. ASSUME NEW s \in Refunds, NEW r \in Refunds, RetryRefund(s, r)
      PROVE  MoneyInv'
  <2> DEFINE a == adjustment[s]
             T == {x \in CommittedRows(status) : adjustment[x] = a}
  <2>1. a \in Adjustments /\ Amount(s) = Required[a]
    BY <1>2 DEF RetryRefund, MoneyInv, RowsOwned, Exists, Amount
  <2>2. Total(T) \in Nat
    <3>1. T \in SUBSET Refunds
      BY DEF CommittedRows
    <3> QED
      BY <3>1, RowsSummable DEF Total
  <2>3. Required[a] - Total(T) >= Required[a]
    BY <1>2, <2>1 DEF RetryRefund
  <2>4. Total(T) = 0
    BY <2>1, <2>2, <2>3
  <2>5. Captured - Committed(status) >= Required[a] /\ ~ Exists(r)
        /\ CreateRefund(r, a, s)
    BY <1>2, <2>1 DEF RetryRefund
  <2> QED
    BY <2>1, <2>4, <2>5, CreateMoney
<1>3. ASSUME NEW r \in Refunds, NEW rc \in Receipts,
             ApplyRefundProviderResult(r, rc)
      PROVE  MoneyInv'
  BY <1>3, ApplyMoney
<1>4. CASE UNCHANGED rowVars
  <2>1. Amounts' = Amounts
    BY <1>4 DEF rowVars, Amounts, Amount
  <2>2. RowsOwned'
    BY <1>4 DEF rowVars, RowsOwned, Exists, MoneyInv
  <2>3. MoneyWithinLimits'
    BY <1>4, <2>1
    DEF rowVars, MoneyInv, MoneyWithinLimits, WithinCapture, WithinAdjustments,
        Committed, Total, CommittedRows
  <2>4. PaymentReflectsRefunds'
    BY <1>4, <2>1 DEF rowVars, MoneyInv, PaymentReflectsRefunds, DerivedPayment,
                      Total
  <2> QED
    BY <2>2, <2>3, <2>4 DEF MoneyInv
<1> QED
  BY RowStep, <1>1, <1>2, <1>3, <1>4

\* Before the first refund nothing is committed.
LEMMA MoneyInit == Init => MoneyInv
<1> SUFFICES ASSUME Init PROVE MoneyInv
  OBVIOUS
<1>1. CommittedRows(status) = {} /\ {r \in Refunds : status[r] = "SUCCEEDED"} = {}
  BY DEF Init, CommittedRows, Committing
<1>2. \A a \in Adjustments : {r \in CommittedRows(status) : adjustment[r] = a} = {}
  BY <1>1
<1>3. Total({}) = 0
  BY SumEmpty DEF Total
<1>4. MoneyWithinLimits
  BY <1>1, <1>2, <1>3
  DEF MoneyWithinLimits, WithinCapture, WithinAdjustments, Committed
<1>5. PaymentReflectsRefunds
  BY <1>1, <1>3, SMTT(20) DEF PaymentReflectsRefunds, DerivedPayment, Init
<1>6. RowsOwned
  BY DEF RowsOwned, Exists, Init
<1> QED
  BY <1>4, <1>5, <1>6 DEF MoneyInv

\* However refunds are requested, fail, are retried and succeed late: committed
\* refund work stays within the capture and within every adjustment's
\* obligation, and the Payment's status is the one its refunds imply.
THEOREM MoneyIsSound == Spec => []MoneySound
<1>1. MoneyInv => MoneySound
  BY DEF MoneyInv, MoneySound
<1> QED
  BY <1>1, MoneyInit, MoneyStep, TypeCorrect, PTL DEF Spec

-----------------------------------------------------------------------------
(* Lineage.  A retry replaces one root attempt that failed, at most one      *)
(* retry replaces it, and while the retry is suspended its source is still   *)
(* FAILED, so a source can gain no second outcome of its own meanwhile.      *)

\* One retry per root attempt, for the same obligation, of a decided source.
RetriesOfRoots ==
    /\ \A c \in Refunds : replaces[c] # NoRefund =>
          /\ Exists(c)
          /\ replaces[replaces[c]] = NoRefund
          /\ status[replaces[c]] \in {"FAILED", "SUCCEEDED"}
          /\ adjustment[replaces[c]] = adjustment[c]
    /\ \A c, d \in Refunds :
          replaces[c] = replaces[d] /\ replaces[c] # NoRefund => c = d

\* A suspended attempt is a retry whose source has not been decided again; a
\* success of its own is the selected result.
SuspendedRetries ==
    \A c \in Refunds : status[c] = "SUSPENDED" =>
        /\ replaces[c] # NoRefund
        /\ status[replaces[c]] = "FAILED"
        /\ HasSuccess(c) => result[c] # NoReceipt

LineageInv == RetriesOfRoots /\ SuspendedRetries /\ SuccessRetained

\* Who has a recorded success is SUCCEEDED, suspended, or the FAILED source of
\* a suspended retry.
LEMMA SuccessPlaces ==
    ASSUME TypeOK, LineageInv, NEW x \in Refunds, HasSuccess(x)
    PROVE  \/ status[x] = "SUCCEEDED"
           \/ status[x] = "SUSPENDED"
           \/ /\ status[x] = "FAILED"
              /\ \E c \in Refunds : replaces[c] = x /\ status[c] = "SUSPENDED"
BY DEF TypeOK, LineageInv, SuspendedRetries, SuccessRetained, HasSuccess,
       Replacements

\* A new attempt starts without receipts and leaves every lineage as it was.
LEMMA CreateLineage ==
    ASSUME TypeOK, LineageInv, NEW r \in Refunds, ~ Exists(r),
           NEW a \in Adjustments, NEW source, CreateRefund(r, a, source),
           \/ source = NoRefund
           \/ /\ source \in Refunds /\ status[source] = "FAILED"
              /\ replaces[source] = NoRefund /\ Replacements(source) = {}
              /\ adjustment[source] = a
    PROVE  LineageInv'
<1> USE DEF TypeOK
<1>0. /\ status' = [status EXCEPT ![r] = "PENDING"]
      /\ adjustment' = [adjustment EXCEPT ![r] = a]
      /\ replaces' = [replaces EXCEPT ![r] = source]
      /\ UNCHANGED <<result, sourceSuccess, receipts>>
      /\ status[r] = "NONE"
  BY DEF CreateRefund, Exists
<1>1. replaces[r] = NoRefund /\ \A c \in Refunds : replaces[c] # r
  BY <1>0 DEF LineageInv, RetriesOfRoots, Exists
<1>2. ~ HasSuccess(r)
  BY <1>0, SuccessPlaces
<1>3. RetriesOfRoots'
  BY <1>0, <1>1 DEF LineageInv, RetriesOfRoots, Exists, Replacements
<1>4. SuspendedRetries'
  BY <1>0, <1>1 DEF LineageInv, SuspendedRetries, HasSuccess
<1>5. SuccessRetained'
  <2> SUFFICES ASSUME NEW rc \in receipts, rc.kind = "SUCCEEDED"
               PROVE  \/ status'[rc.refund] = "SUCCEEDED"
                         /\ result'[rc.refund] = rc
                      \/ status'[rc.refund] = "SUSPENDED"
                      \/ \E c \in Refunds : /\ replaces'[c] = rc.refund
                                            /\ status'[c] = "SUSPENDED"
                                            /\ sourceSuccess'[c] = rc
    BY <1>0 DEF SuccessRetained, Replacements
  <2>1. rc.refund \in Refunds /\ rc.refund # r
    BY <1>2 DEF HasSuccess, Receipts
  <2> QED
    BY <1>0, <1>1, <2>1 DEF LineageInv, SuccessRetained, Replacements
<1> QED
  BY <1>3, <1>4, <1>5 DEF LineageInv

\* A receipt of r was applied: the rows are the outcome's, the receipt is kept,
\* and no lineage changes its members.
Applied(r, rc, st, res, src) ==
    /\ status' = st /\ result' = res /\ sourceSuccess' = src
    /\ receipts' = receipts \cup {rc}
    /\ UNCHANGED <<adjustment, replaces>>
    /\ rc.refund = r

\* A PENDING attempt is decided: it had no recorded success before.
LEMMA PendingLineage ==
    ASSUME TypeOK, LineageInv, NEW r \in Refunds, NEW rc \in Receipts,
           status[r] = "PENDING", rc.kind \in Kinds,
           Applied(r, rc, [status EXCEPT ![r] = rc.kind],
                   [result EXCEPT ![r] = rc], sourceSuccess)
    PROVE  LineageInv'
<1> USE DEF TypeOK, Applied
<1>1. ~ HasSuccess(r)
  BY SuccessPlaces
<1>2. rc.kind \in {"SUCCEEDED", "FAILED"} /\ \A c \in Refunds : replaces[c] # r
  BY DEF Kinds, LineageInv, RetriesOfRoots
<1>3. RetriesOfRoots'
  BY <1>2 DEF LineageInv, RetriesOfRoots, Exists
<1>4. SuspendedRetries'
  BY <1>1, <1>2
  DEF LineageInv, RetriesOfRoots, SuspendedRetries, HasSuccess,
      SuccessRetained, Replacements
<1>5. SuccessRetained'
  <2> SUFFICES ASSUME NEW e \in receipts \cup {rc}, e.kind = "SUCCEEDED"
               PROVE  \/ status'[e.refund] = "SUCCEEDED" /\ result'[e.refund] = e
                      \/ status'[e.refund] = "SUSPENDED"
                      \/ \E c \in Refunds : /\ replaces[c] = e.refund
                                            /\ status'[c] = "SUSPENDED"
                                            /\ sourceSuccess'[c] = e
    BY DEF SuccessRetained, Replacements
  <2>0. e.refund \in Refunds
    BY DEF Receipts
  <2>1. CASE e = rc
    BY <1>2, <2>1
  <2>2. CASE e \in receipts
    BY <1>1, <1>2, <2>0, <2>2
    DEF LineageInv, RetriesOfRoots, SuspendedRetries, SuccessRetained,
        HasSuccess, Replacements
  <2> QED
    BY <2>1, <2>2
<1> QED
  BY <1>3, <1>4, <1>5 DEF LineageInv

\* A failed attempt succeeds late, and its retry, if any, has failed.
LEMMA LateLineage ==
    ASSUME TypeOK, LineageInv, NEW r \in Refunds, NEW rc \in Receipts,
           status[r] = "FAILED", \A c \in Replacements(r) : status[c] = "FAILED",
           Applied(r, rc, [status EXCEPT ![r] = "SUCCEEDED"],
                   [result EXCEPT ![r] = rc], sourceSuccess)
    PROVE  LineageInv'
<1> USE DEF TypeOK, Applied
<1>1. ~ HasSuccess(r)
  BY SuccessPlaces DEF Replacements
<1>2. \A c \in Refunds : replaces[c] = r => status[c] = "FAILED"
  BY DEF Replacements
<1>3. RetriesOfRoots'
  BY <1>2 DEF LineageInv, RetriesOfRoots, Exists
<1>4. SuspendedRetries'
  BY <1>1, <1>2
  DEF LineageInv, RetriesOfRoots, SuspendedRetries, HasSuccess,
      SuccessRetained, Replacements
<1>5. SuccessRetained'
  <2> SUFFICES ASSUME NEW e \in receipts \cup {rc}, e.kind = "SUCCEEDED"
               PROVE  \/ status'[e.refund] = "SUCCEEDED" /\ result'[e.refund] = e
                      \/ status'[e.refund] = "SUSPENDED"
                      \/ \E c \in Refunds : /\ replaces[c] = e.refund
                                            /\ status'[c] = "SUSPENDED"
                                            /\ sourceSuccess'[c] = e
    BY DEF SuccessRetained, Replacements
  <2>0. e.refund \in Refunds
    BY DEF Receipts
  <2>1. CASE e = rc
    BY <1>2, <2>1
  <2>2. CASE e \in receipts
    BY <1>1, <1>2, <2>0, <2>2
    DEF LineageInv, RetriesOfRoots, SuspendedRetries, SuccessRetained,
        HasSuccess, Replacements
  <2> QED
    BY <2>1, <2>2
<1> QED
  BY <1>3, <1>4, <1>5 DEF LineageInv

\* A failed attempt succeeds late, and its retry, which nobody claimed, is
\* superseded.
LEMMA SupersedeLineage ==
    ASSUME TypeOK, LineageInv, NEW r \in Refunds, NEW rc \in Receipts,
           status[r] = "FAILED", NEW c \in Replacements(r), status[c] = "PENDING",
           Applied(r, rc, [status EXCEPT ![r] = "SUCCEEDED", ![c] = "SUPERSEDED"],
                   [result EXCEPT ![r] = rc], [sourceSuccess EXCEPT ![c] = rc])
    PROVE  LineageInv'
<1> USE DEF TypeOK, Applied
<1>0. c \in Refunds /\ c # r /\ replaces[c] = r
      /\ \A d \in Refunds : replaces[d] = r => d = c
  BY DEF Replacements, LineageInv, RetriesOfRoots
<1>1. ~ HasSuccess(r) /\ ~ HasSuccess(c)
  BY <1>0, SuccessPlaces
<1>2. /\ status' = [status EXCEPT ![r] = "SUCCEEDED", ![c] = "SUPERSEDED"]
      /\ \A d \in Refunds : replaces[d] # c
  BY <1>0 DEF LineageInv, RetriesOfRoots
<1>3. RetriesOfRoots'
  BY <1>0, <1>2 DEF LineageInv, RetriesOfRoots, Exists
<1>4. SuspendedRetries'
  BY <1>0, <1>1, <1>2
  DEF LineageInv, RetriesOfRoots, SuspendedRetries, HasSuccess,
      SuccessRetained, Replacements
<1>5. SuccessRetained'
  <2> SUFFICES ASSUME NEW e \in receipts \cup {rc}, e.kind = "SUCCEEDED"
               PROVE  \/ status'[e.refund] = "SUCCEEDED" /\ result'[e.refund] = e
                      \/ status'[e.refund] = "SUSPENDED"
                      \/ \E d \in Refunds : /\ replaces[d] = e.refund
                                            /\ status'[d] = "SUSPENDED"
                                            /\ sourceSuccess'[d] = e
    BY DEF SuccessRetained, Replacements
  <2>0. e.refund \in Refunds
    BY DEF Receipts
  <2>1. CASE e = rc
    BY <1>0, <1>2, <2>1
  <2>2. CASE e \in receipts
    BY <1>0, <1>1, <1>2, <2>0, <2>2
    DEF LineageInv, RetriesOfRoots, SuspendedRetries, SuccessRetained,
        HasSuccess, Replacements
  <2> QED
    BY <2>1, <2>2
<1> QED
  BY <1>3, <1>4, <1>5 DEF LineageInv

\* The source of a claimed retry succeeds late: the retry is suspended and
\* retains the receipt.
LEMMA SuspendLineage ==
    ASSUME TypeOK, LineageInv, NEW r \in Refunds, NEW rc \in Receipts,
           status[r] = "FAILED", NEW c \in Replacements(r),
           status[c] \in {"PENDING", "SUCCEEDED"},
           Applied(r, rc, [status EXCEPT ![c] = "SUSPENDED"], result,
                   [sourceSuccess EXCEPT ![c] = rc])
    PROVE  LineageInv'
<1> USE DEF TypeOK, Applied
<1>0. c \in Refunds /\ c # r /\ replaces[c] = r
      /\ \A d \in Refunds : replaces[d] = r => d = c
  BY DEF Replacements, LineageInv, RetriesOfRoots
<1>1. ~ HasSuccess(r)
  BY <1>0, SuccessPlaces
<1>2. \A d \in Refunds : replaces[d] # c
  BY <1>0 DEF LineageInv, RetriesOfRoots
<1>3. RetriesOfRoots'
  BY <1>0, <1>2 DEF LineageInv, RetriesOfRoots, Exists
<1>4. SuspendedRetries'
  BY <1>0, <1>1, <1>2, NoReceiptAssumption
  DEF LineageInv, RetriesOfRoots, SuspendedRetries, HasSuccess,
      SuccessRetained, Replacements
<1>5. SuccessRetained'
  <2> SUFFICES ASSUME NEW e \in receipts \cup {rc}, e.kind = "SUCCEEDED"
               PROVE  \/ status'[e.refund] = "SUCCEEDED" /\ result'[e.refund] = e
                      \/ status'[e.refund] = "SUSPENDED"
                      \/ \E d \in Refunds : /\ replaces[d] = e.refund
                                            /\ status'[d] = "SUSPENDED"
                                            /\ sourceSuccess'[d] = e
    BY DEF SuccessRetained, Replacements
  <2>0. e.refund \in Refunds
    BY DEF Receipts
  <2>1. CASE e = rc
    BY <1>0, <1>2, <2>1
  <2>2. CASE e \in receipts
    BY <1>0, <1>1, <1>2, <2>0, <2>2
    DEF LineageInv, RetriesOfRoots, SuspendedRetries, SuccessRetained,
        HasSuccess, Replacements
  <2> QED
    BY <2>1, <2>2
<1> QED
  BY <1>3, <1>4, <1>5 DEF LineageInv

\* A suspended retry fails: the success it retains becomes its source's.
LEMMA ResolveLineage ==
    ASSUME TypeOK, LineageInv, NEW r \in Refunds, NEW rc \in Receipts,
           status[r] = "SUSPENDED", rc.kind = "FAILED", result[r] = NoReceipt,
           NEW s \in Refunds, s = replaces[r],
           Applied(r, rc, [status EXCEPT ![r] = "FAILED", ![s] = "SUCCEEDED"],
                   [result EXCEPT ![r] = rc, ![s] = sourceSuccess[r]],
                   sourceSuccess)
    PROVE  LineageInv'
<1> USE DEF TypeOK, Applied
<1>0. s # r /\ status[s] = "FAILED" /\ replaces[r] # NoRefund
      /\ \A d \in Refunds : replaces[d] = s => d = r
  BY DEF LineageInv, RetriesOfRoots, SuspendedRetries
<1>1. ~ HasSuccess(r)
  BY DEF LineageInv, SuspendedRetries
<1>2. \A d \in Refunds : replaces[d] # r
  BY DEF LineageInv, RetriesOfRoots
<1>3. RetriesOfRoots'
  BY <1>0, <1>2 DEF LineageInv, RetriesOfRoots, Exists
<1>4. SuspendedRetries'
  BY <1>0, <1>1, <1>2
  DEF LineageInv, RetriesOfRoots, SuspendedRetries, HasSuccess,
      SuccessRetained, Replacements
<1>5. SuccessRetained'
  <2>a. receipts' = receipts \cup {rc} /\ replaces' = replaces
    OBVIOUS
  <2> HIDE DEF TypeOK, Applied
  <2> SUFFICES ASSUME NEW e \in receipts \cup {rc}, e.kind = "SUCCEEDED"
               PROVE  \/ status'[e.refund] = "SUCCEEDED" /\ result'[e.refund] = e
                      \/ status'[e.refund] = "SUSPENDED"
                      \/ \E c \in Refunds : /\ replaces[c] = e.refund
                                            /\ status'[c] = "SUSPENDED"
                                            /\ sourceSuccess'[c] = e
    BY <2>a DEF SuccessRetained, Replacements
  <2> USE DEF TypeOK, Applied
  <2>0. e.refund \in Refunds
    BY DEF Receipts
  <2>1. CASE e = rc
    BY <1>0, <1>2, <2>1
  <2>2. CASE e \in receipts
    BY <1>0, <1>1, <1>2, <2>0, <2>2
    DEF LineageInv, RetriesOfRoots, SuspendedRetries, SuccessRetained,
        HasSuccess, Replacements
  <2> QED
    BY <2>1, <2>2
<1> QED
  BY <1>3, <1>4, <1>5 DEF LineageInv

\* A suspended retry succeeds as well: the incident stays suspended, with the
\* success as its selected result.
LEMMA DoubleLineage ==
    ASSUME TypeOK, LineageInv, NEW r \in Refunds, NEW rc \in Receipts,
           status[r] = "SUSPENDED",
           Applied(r, rc, status, [result EXCEPT ![r] = rc], sourceSuccess)
    PROVE  LineageInv'
<1> USE DEF TypeOK, Applied
<1>1. rc # NoReceipt
  BY NoReceiptAssumption
<1>2. \A d \in Refunds : replaces[d] # r
  BY DEF LineageInv, RetriesOfRoots
<1>3. RetriesOfRoots'
  BY <1>2 DEF LineageInv, RetriesOfRoots, Exists
<1>4. SuspendedRetries'
  BY <1>1, <1>2
  DEF LineageInv, RetriesOfRoots, SuspendedRetries, HasSuccess,
      SuccessRetained, Replacements
<1>5. SuccessRetained'
  <2> SUFFICES ASSUME NEW e \in receipts \cup {rc}, e.kind = "SUCCEEDED"
               PROVE  \/ status'[e.refund] = "SUCCEEDED" /\ result'[e.refund] = e
                      \/ status'[e.refund] = "SUSPENDED"
                      \/ \E c \in Refunds : /\ replaces[c] = e.refund
                                            /\ status'[c] = "SUSPENDED"
                                            /\ sourceSuccess'[c] = e
    BY DEF SuccessRetained, Replacements
  <2>0. e.refund \in Refunds
    BY DEF Receipts
  <2>1. CASE e = rc
    BY <1>2, <2>1
  <2>2. CASE e \in receipts
    BY <1>1, <1>2, <2>0, <2>2
    DEF LineageInv, RetriesOfRoots, SuspendedRetries, SuccessRetained,
        HasSuccess, Replacements
  <2> QED
    BY <2>1, <2>2
<1> QED
  BY <1>3, <1>4, <1>5 DEF LineageInv

\* The applicator keeps every lineage.
LEMMA ApplyLineage ==
    ASSUME TypeOK, LineageInv, NEW r \in Refunds, NEW rc \in Receipts,
           rc.refund = r, ApplyRefundProviderResult(r, rc)
    PROVE  LineageInv'
<1>0. rc.kind \in Kinds
  BY DEF Receipts
<1>1. PICK o \in Outcomes(r, rc) : Applied(r, rc, o.status, o.result, o.source)
  BY DEF ApplyRefundProviderResult, Applied
<1>2. CASE o \in PendingOutcome(r, rc)
  <2>1. /\ status[r] = "PENDING"
        /\ o = Outcome([status EXCEPT ![r] = rc.kind],
                       [result EXCEPT ![r] = rc], sourceSuccess)
    BY <1>2 DEF PendingOutcome
  <2> QED
    BY <1>0, <1>1, <2>1, PendingLineage DEF Outcome
<1>3. CASE o \in LateOutcome(r, rc)
  <2>1. /\ status[r] = "FAILED"
        /\ \A c \in Replacements(r) : status[c] = "FAILED"
        /\ o = Outcome([status EXCEPT ![r] = "SUCCEEDED"],
                       [result EXCEPT ![r] = rc], sourceSuccess)
    BY <1>3 DEF LateOutcome, LateSuccess
  <2> QED
    BY <1>1, <2>1, LateLineage DEF Outcome
<1>4. CASE o \in SupersedeOutcome(r, rc)
  <2>1. PICK c \in Replacements(r) :
          /\ status[r] = "FAILED" /\ status[c] = "PENDING"
          /\ o = Outcome([status EXCEPT ![r] = "SUCCEEDED", ![c] = "SUPERSEDED"],
                         [result EXCEPT ![r] = rc],
                         [sourceSuccess EXCEPT ![c] = rc])
    BY <1>4 DEF SupersedeOutcome, LateSuccess
  <2> QED
    BY <1>1, <2>1, SupersedeLineage DEF Outcome
<1>5. CASE o \in SuspendOutcome(r, rc)
  <2>1. PICK c \in Replacements(r) :
          /\ status[r] = "FAILED" /\ status[c] \in {"PENDING", "SUCCEEDED"}
          /\ o = Outcome([status EXCEPT ![c] = "SUSPENDED"], result,
                         [sourceSuccess EXCEPT ![c] = rc])
    BY <1>5 DEF SuspendOutcome, LateSuccess
  <2> QED
    BY <1>1, <2>1, SuspendLineage DEF Outcome
<1>6. CASE o \in ResolveOutcome(r, rc)
  <2>1. PICK s \in Refunds :
          /\ status[r] = "SUSPENDED" /\ rc.kind = "FAILED"
          /\ result[r] = NoReceipt /\ s = replaces[r]
          /\ o = Outcome([status EXCEPT ![r] = "FAILED", ![s] = "SUCCEEDED"],
                         [result EXCEPT ![r] = rc, ![s] = sourceSuccess[r]],
                         sourceSuccess)
    BY <1>6 DEF ResolveOutcome
  <2> QED
    BY <1>1, <2>1, ResolveLineage DEF Outcome
<1>7. CASE o \in DoubleSuccessOutcome(r, rc)
  <2>1. /\ status[r] = "SUSPENDED"
        /\ o = Outcome(status, [result EXCEPT ![r] = rc], sourceSuccess)
    BY <1>7 DEF DoubleSuccessOutcome
  <2> QED
    BY <1>1, <2>1, DoubleLineage DEF Outcome
<1> QED
  BY OutcomeCases, <1>2, <1>3, <1>4, <1>5, <1>6, <1>7

\* Every step keeps the lineages.
LEMMA LineageStep ==
    ASSUME TypeOK, BusyHasJob, MoneyInv, LineageInv, [Next]_vars
    PROVE  LineageInv'
<1>1. ASSUME NEW a \in Adjustments, NEW r \in Refunds, RefundAdjustment(a, r)
      PROVE  LineageInv'
  BY <1>1, CreateLineage DEF RefundAdjustment
<1>2. ASSUME NEW s \in Refunds, NEW r \in Refunds, RetryRefund(s, r)
      PROVE  LineageInv'
  <2>1. adjustment[s] \in Adjustments
    BY <1>2 DEF RetryRefund, MoneyInv, RowsOwned, Exists
  <2> QED
    BY <1>2, <2>1, CreateLineage DEF RetryRefund
<1>3. ASSUME NEW r \in Refunds, NEW rc \in Receipts, rc.refund = r,
             ApplyRefundProviderResult(r, rc)
      PROVE  LineageInv'
  BY <1>3, ApplyLineage
<1>4. CASE UNCHANGED rowVars
  BY <1>4 DEF rowVars, LineageInv, RetriesOfRoots, SuspendedRetries,
              SuccessRetained, HasSuccess, Replacements, Exists
<1> QED
  BY RowStep, <1>1, <1>2, <1>3, <1>4

\* Two successes of one obligation cannot both be booked: the second would
\* exceed the adjustment, so the retry is the suspended incident.
LEMMA DoubleSuccess ==
    ASSUME TypeOK, MoneyInv, LineageInv
    PROVE  DoubleSuccessSuspended
<1> SUFFICES ASSUME NEW c \in Refunds, replaces[c] # NoRefund, HasSuccess(c),
                    HasSuccess(replaces[c])
             PROVE  status[c] = "SUSPENDED" /\ payment = "REFUND_PENDING"
  BY DEF DoubleSuccessSuspended
<1> DEFINE s == replaces[c]
           a == adjustment[c]
           Of == {r \in CommittedRows(status) : adjustment[r] = a}
<1>1. /\ s \in Refunds /\ s # c /\ adjustment[s] = a /\ a \in Adjustments
      /\ \A d \in Refunds : replaces[d] # c /\ (replaces[d] = s => d = c)
      /\ status[s] \in {"FAILED", "SUCCEEDED"}
  BY DEF TypeOK, MoneyInv, RowsOwned, LineageInv, RetriesOfRoots
<1>2. status[c] \in {"SUCCEEDED", "SUSPENDED"}
  BY <1>1, SuccessPlaces
<1>3. status[s] = "SUCCEEDED" \/ status[c] = "SUSPENDED"
  BY <1>1, SuccessPlaces
<1>4. ~ (status[c] = "SUCCEEDED" /\ status[s] = "SUCCEEDED")
  <2> SUFFICES ASSUME status[c] = "SUCCEEDED", status[s] = "SUCCEEDED"
               PROVE  FALSE
    OBVIOUS
  <2>1. Of \in SUBSET Refunds /\ c \in Of /\ s \in Of
    BY <1>1 DEF CommittedRows, Committing
  <2>2. IsFiniteSet(Of) /\ (\A r \in Of : Amounts[r] \in Nat)
        /\ SumFunctionOnSet(Amounts, Of) \in Nat
    BY <2>1, RowsSummable
  <2>3. Amounts[c] + Amounts[s] <= SumFunctionOnSet(Amounts, Of)
    BY <1>1, <2>1, <2>2, SumElements
  <2>4. Amounts[c] = Required[a] /\ Amounts[s] = Required[a]
    BY <1>1 DEF Amounts, Amount
  <2>5. SumFunctionOnSet(Amounts, Of) <= Required[a]
    BY <1>1 DEF MoneyInv, MoneyWithinLimits, WithinAdjustments, Total
  <2>6. Required[a] \in Nat \ {0}
    BY <1>1
  <2> QED
    BY <2>2, <2>3, <2>4, <2>5, <2>6
<1>5. status[c] = "SUSPENDED"
  BY <1>2, <1>3, <1>4
<1>6. payment = "REFUND_PENDING"
  BY <1>5 DEF MoneyInv, PaymentReflectsRefunds, DerivedPayment
<1> QED
  BY <1>5, <1>6

\* In whatever order the results of an attempt and its retry are recorded: no
\* recorded success is lost, two successes of one obligation stay the suspended
\* incident, and a superseded retry is never sent.
THEOREM LineageIsSound == Spec => []LineageSound
<1>1. Init => LineageInv
  BY DEF Init, LineageInv, RetriesOfRoots, SuspendedRetries, SuccessRetained,
         HasSuccess, Replacements, Exists
<1>2. MoneyInv /\ LineageInv /\ TypeOK /\ SupersededNeverSent => LineageSound
  BY DoubleSuccess DEF LineageSound, LineageInv
<1> QED
  BY <1>1, <1>2, LineageStep, MoneyInit, MoneyStep, TypeCorrect, AtMostOnce, PTL
  DEF Spec
=============================================================================
