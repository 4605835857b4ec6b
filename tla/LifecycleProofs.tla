--------------------------- MODULE LifecycleProofs ---------------------------
(***************************************************************************)
(* What the lifecycle policies guarantee for every number of slots, parcels, *)
(* refunds, commands and quotes, and what automatic quotes guarantee for     *)
(* every number of requests in flight and every configuration.  The machines *)
(* share no state; each section proves one of them on its own.               *)
(***************************************************************************)
EXTENDS AutomaticQuotes, LifecycleOrder, LifecyclePayment, LifecycleClaim, LifecycleQuote, SequenceTheorems, SumLemmas

-----------------------------------------------------------------------------
(* Quote requests.  Commands are prepared from what the caller has seen and   *)
(* arrive late, twice and out of order; a command that issues or accepts acts *)
(* once, because it moves the result it was prepared from.                    *)

Targets == {"in_review", "rejected", "accepted", "expired", "quoted"}
Commands == [target : Targets, seen : Nat, quote : Nat, expiresAt : Nat]
Quotes == [issuedAt : Nat, expiresAt : Nat, command : Nat]
Drafts == [quote : Nat, at : Nat, seen : Nat]

QuoteTypeOK ==
  /\ quoteRequest \in [status : Targets \cup {"new"}, result : Nat, command : Nat]
  /\ issuedQuotes \in Seq(Quotes) /\ draftOrders \in Seq(Drafts)
  /\ prepared \in Seq(Commands)
  /\ expiredBy \in [quote : Nat, at : Nat] /\ quoteClock \in Nat

\* A command that accepts or expires names an issued quote.
NamesQuote ==
  \A c \in 1..Len(prepared) :
    prepared[c].target \in {"accepted", "expired"} => prepared[c].quote \in 1..Len(issuedQuotes)

\* The command of an issued quote has acted: the result it saw is gone.
IssuedOnce ==
  /\ \A i \in 1..Len(issuedQuotes) :
       /\ issuedQuotes[i].command \in 1..Len(prepared)
       /\ prepared[issuedQuotes[i].command].seen < quoteRequest.result
  /\ \A i, j \in 1..Len(issuedQuotes) :
       issuedQuotes[i].command = issuedQuotes[j].command => i = j

\* Acceptance and expiry, as the property states them, of quotes that exist.
DecidedOnce ==
  /\ quoteRequest.status # "accepted" => Len(draftOrders) = 0
  /\ quoteRequest.status = "accepted" =>
       /\ Len(draftOrders) = 1
       /\ draftOrders[1].quote \in 1..Len(issuedQuotes)
       /\ issuedQuotes[draftOrders[1].quote].issuedAt <= draftOrders[1].at
       /\ draftOrders[1].at < issuedQuotes[draftOrders[1].quote].expiresAt
       /\ draftOrders[1].seen + 1 = quoteRequest.result
  /\ quoteRequest.status = "expired" =>
       /\ expiredBy.quote \in 1..Len(issuedQuotes)
       /\ expiredBy.at >= issuedQuotes[expiredBy.quote].expiresAt

QuoteInv == QuoteTypeOK /\ NamesQuote /\ IssuedOnce /\ DecidedOnce

\* A move of the request: it left no final status, and its result is new.
LEMMA RequestMoves ==
    ASSUME QuoteTypeOK, NEW c \in 1..Len(prepared), NEW to \in Targets, moves(c, to)
    PROVE  /\ quoteRequest.status \notin {"accepted", "rejected", "expired"}
           /\ quoteRequest' \in [status : Targets \cup {"new"}, result : Nat, command : Nat]
           /\ quoteRequest'.status = to /\ quoteRequest'.result = quoteRequest.result + 1
           /\ prepared[c].target = to
           /\ UNCHANGED <<prepared, quoteClock>>
<1>1. /\ quoteRequest' = [status |-> to, result |-> quoteRequest.result + 1, command |-> c]
      /\ UNCHANGED <<prepared, quoteClock>> /\ prepared[c].target = to
      /\ to \in transitions[quoteRequest.status]
  BY DEF moves
<1>2. quoteRequest.status \notin {"accepted", "rejected", "expired"}
  BY <1>1 DEF transitions
<1>3. c \in Nat /\ quoteRequest.result + 1 \in Nat
  BY DEF QuoteTypeOK
<1> QED
  BY <1>1, <1>2, <1>3

\* Every step of a quote request keeps its invariant.
LEMMA QuoteStep ==
    ASSUME QuoteInv, [QuoteNext]_requestVars
    PROVE  QuoteInv'
<1> USE DEF QuoteInv
<1>0. Len(prepared) \in Nat /\ Len(issuedQuotes) \in Nat /\ Len(draftOrders) \in Nat
      /\ DOMAIN prepared = 1..Len(prepared) /\ DOMAIN issuedQuotes = 1..Len(issuedQuotes)
  BY DEF QuoteTypeOK
<1>a. \A c \in 1..Len(prepared) : prepared[c] \in Commands
  BY DEF QuoteTypeOK
<1>b. /\ \A c \in 1..Len(prepared) : 
           prepared[c].seen \in Nat /\ prepared[c].quote \in Nat /\ prepared[c].expiresAt \in Nat
      /\ quoteRequest.result \in Nat /\ quoteClock \in Nat
  BY <1>a DEF QuoteTypeOK, Commands
<1>1. CASE UNCHANGED requestVars
  BY <1>1 DEF requestVars, QuoteTypeOK, NamesQuote, IssuedOnce, DecidedOnce
<1>2. ASSUME NEW target \in Targets, NEW q \in Nat, NEW expiresAt \in Nat,
             prepareCommand(target, q, expiresAt)
      PROVE  QuoteInv'
  <2> DEFINE cmd == [target |-> target, seen |-> quoteRequest.result, quote |-> q,
                     expiresAt |-> expiresAt]
  <2>1. /\ cmd \in Commands /\ prepared' = Append(prepared, cmd)
        /\ UNCHANGED <<quoteRequest, issuedQuotes, draftOrders, expiredBy, quoteClock>>
        /\ target \in {"accepted", "expired"} => q \in 1..Len(issuedQuotes)
    BY <1>0, <1>2 DEF prepareCommand, QuoteTypeOK, Commands
  <2>2. /\ prepared' \in Seq(Commands) /\ Len(prepared') = Len(prepared) + 1
        /\ \A i \in 1..Len(prepared) : prepared'[i] = prepared[i]
        /\ prepared'[Len(prepared) + 1] = cmd
    BY <2>1, AppendProperties DEF QuoteTypeOK
  <2>3. cmd.target = target /\ cmd.quote = q
    OBVIOUS
  <2> HIDE DEF cmd
  <2>4. QuoteTypeOK'
    BY <2>1, <2>2 DEF QuoteTypeOK
  <2>5. NamesQuote'
    BY <1>0, <2>1, <2>2, <2>3 DEF NamesQuote
  <2>6. IssuedOnce'
    BY <1>0, <2>1, <2>2 DEF IssuedOnce
  <2>7. DecidedOnce'
    BY <2>1 DEF DecidedOnce
  <2> QED
    BY <2>4, <2>5, <2>6, <2>7
<1>3. ASSUME NEW c \in 1..Len(prepared), takeReview(c) \/ reject(c)
      PROVE  QuoteInv'
  <2>1. PICK to \in {"in_review", "rejected"} : moves(c, to)
    BY <1>3 DEF takeReview, reject
  <2>2. UNCHANGED <<issuedQuotes, draftOrders, expiredBy>>
    BY <1>3 DEF takeReview, reject
  <2>3. /\ quoteRequest.status \notin {"accepted", "rejected", "expired"}
        /\ quoteRequest' \in [status : Targets \cup {"new"}, result : Nat, command : Nat]
        /\ quoteRequest'.status = to /\ quoteRequest'.result = quoteRequest.result + 1
        /\ UNCHANGED <<prepared, quoteClock>>
    BY <2>1, RequestMoves DEF Targets
  <2>4. QuoteTypeOK' /\ NamesQuote'
    BY <2>2, <2>3 DEF QuoteTypeOK, NamesQuote
  <2>5. IssuedOnce'
    BY <1>b, <2>2, <2>3 DEF IssuedOnce
  <2>6. DecidedOnce'
    BY <2>1, <2>2, <2>3 DEF DecidedOnce
  <2> QED
    BY <2>4, <2>5, <2>6
<1>4. ASSUME NEW c \in 1..Len(prepared), requireAtomicIssuedQuoteCreation(c)
      PROVE  QuoteInv'
  <2> DEFINE issue == [issuedAt |-> quoteClock, expiresAt |-> prepared[c].expiresAt,
                       command |-> c]
  <2>1. /\ moves(c, "quoted") /\ prepared[c].seen = quoteRequest.result
        /\ issuedQuotes' = Append(issuedQuotes, issue)
        /\ UNCHANGED <<draftOrders, expiredBy>>
    BY <1>4 DEF requireAtomicIssuedQuoteCreation, expectedState
  <2>2. issue \in Quotes
    BY <1>b DEF Quotes
  <2>3. /\ issuedQuotes' \in Seq(Quotes) /\ Len(issuedQuotes') = Len(issuedQuotes) + 1
        /\ \A i \in 1..Len(issuedQuotes) : issuedQuotes'[i] = issuedQuotes[i]
        /\ issuedQuotes'[Len(issuedQuotes) + 1].command = c
    BY <2>1, <2>2, AppendProperties DEF QuoteTypeOK
  <2>4. /\ quoteRequest.status \notin {"accepted", "rejected", "expired"}
        /\ quoteRequest' \in [status : Targets \cup {"new"}, result : Nat, command : Nat]
        /\ quoteRequest'.status = "quoted" /\ quoteRequest'.result = quoteRequest.result + 1
        /\ UNCHANGED <<prepared, quoteClock>>
    BY <2>1, RequestMoves DEF Targets
  <2> HIDE DEF issue
  <2>5. QuoteTypeOK'
    BY <2>1, <2>3, <2>4 DEF QuoteTypeOK
  <2>6. NamesQuote'
    BY <1>0, <2>3, <2>4 DEF NamesQuote
  <2>7. \A i \in 1..Len(issuedQuotes) : issuedQuotes[i].command # c
    BY <1>b, <2>1 DEF IssuedOnce
  <2>8. IssuedOnce'
    <3>1. \A i \in 1..Len(issuedQuotes)' :
            i \in 1..Len(issuedQuotes) \/ i = Len(issuedQuotes) + 1
      BY <1>0, <2>3
    <3>2. \A i \in 1..Len(issuedQuotes)' :
            /\ issuedQuotes'[i].command \in 1..Len(prepared')
            /\ prepared'[issuedQuotes'[i].command].seen < quoteRequest'.result
      BY <1>b, <2>1, <2>3, <2>4, <3>1, SMTT(20) DEF IssuedOnce
    <3>3. \A i, j \in 1..Len(issuedQuotes)' :
            issuedQuotes'[i].command = issuedQuotes'[j].command => i = j
      BY <2>3, <2>7, <3>1 DEF IssuedOnce
    <3> QED
      BY <3>2, <3>3 DEF IssuedOnce
  <2>9. DecidedOnce'
    BY <2>1, <2>4 DEF DecidedOnce
  <2> QED
    BY <2>5, <2>6, <2>8, <2>9
<1>5. ASSUME NEW c \in 1..Len(prepared), accept(c)
      PROVE  QuoteInv'
  <2> DEFINE q == prepared[c].quote
             newDraft == [quote |-> q, at |-> quoteClock, seen |-> prepared[c].seen]
  <2>1. /\ moves(c, "accepted") /\ prepared[c].seen = quoteRequest.result
        /\ issuedQuotes[q].issuedAt <= quoteClock /\ quoteClock < issuedQuotes[q].expiresAt
        /\ draftOrders' = Append(draftOrders, newDraft)
        /\ UNCHANGED <<issuedQuotes, expiredBy>>
    BY <1>5 DEF accept, requireQuoteAcceptanceAvailability, canAcceptQuote, expectedState,
       requireAcceptedQuoteOrderCreation
  <2>2. /\ quoteRequest.status \notin {"accepted", "rejected", "expired"}
        /\ quoteRequest' \in [status : Targets \cup {"new"}, result : Nat, command : Nat]
        /\ quoteRequest'.status = "accepted" /\ quoteRequest'.result = quoteRequest.result + 1
        /\ prepared[c].target = "accepted"
        /\ UNCHANGED <<prepared, quoteClock>>
    BY <2>1, RequestMoves DEF Targets
  <2>3. newDraft \in Drafts /\ q \in 1..Len(issuedQuotes)
    BY <1>b, <2>2 DEF Drafts, NamesQuote
  <2>4. Len(draftOrders) = 0
    BY <2>2 DEF DecidedOnce
  <2>5. /\ draftOrders' \in Seq(Drafts) /\ Len(draftOrders') = 1
        /\ draftOrders'[1] = newDraft
    BY <2>1, <2>3, <2>4, AppendProperties DEF QuoteTypeOK
  <2>6. newDraft.quote = q /\ newDraft.at = quoteClock /\ newDraft.seen = prepared[c].seen
    OBVIOUS
  <2> HIDE DEF newDraft
  <2>7. QuoteTypeOK' /\ NamesQuote'
    BY <2>1, <2>2, <2>5 DEF QuoteTypeOK, NamesQuote
  <2>8. IssuedOnce'
    BY <1>b, <2>1, <2>2, SMTT(20) DEF IssuedOnce
  <2>9. DecidedOnce'
    BY <2>1, <2>2, <2>3, <2>5, <2>6 DEF DecidedOnce
  <2> QED
    BY <2>7, <2>8, <2>9
<1>6. ASSUME NEW c \in 1..Len(prepared), expire(c)
      PROVE  QuoteInv'
  <2> DEFINE q == prepared[c].quote
  <2>1. /\ moves(c, "expired") /\ quoteClock >= issuedQuotes[q].expiresAt
        /\ expiredBy' = [quote |-> q, at |-> quoteClock]
        /\ UNCHANGED <<issuedQuotes, draftOrders>>
    BY <1>6 DEF expire, requireQuoteExpirationReached
  <2>2. /\ quoteRequest.status \notin {"accepted", "rejected", "expired"}
        /\ quoteRequest' \in [status : Targets \cup {"new"}, result : Nat, command : Nat]
        /\ quoteRequest'.status = "expired" /\ quoteRequest'.result = quoteRequest.result + 1
        /\ prepared[c].target = "expired"
        /\ UNCHANGED <<prepared, quoteClock>>
    BY <2>1, RequestMoves DEF Targets
  <2>3. q \in Nat /\ q \in 1..Len(issuedQuotes)
    BY <1>b, <2>2 DEF NamesQuote
  <2>4. QuoteTypeOK' /\ NamesQuote'
    BY <2>1, <2>2, <2>3 DEF QuoteTypeOK, NamesQuote
  <2>5. IssuedOnce'
    BY <1>b, <2>1, <2>2, SMTT(20) DEF IssuedOnce
  <2>6. DecidedOnce'
    BY <2>1, <2>2, <2>3 DEF DecidedOnce
  <2> QED
    BY <2>4, <2>5, <2>6
<1>7. CASE QuoteTick
  BY <1>7 DEF QuoteTick, QuoteTypeOK, NamesQuote, IssuedOnce, DecidedOnce
<1>8. \A q \in 0..MaxQuotes : q \in Nat
  BY QuoteAssumption
<1>9. \A life \in Lifetimes : quoteClock + life \in Nat
  BY QuoteAssumption DEF QuoteTypeOK
<1>10. ASSUME NEW c \in DOMAIN prepared,
              \/ alreadyApplied(c) \/ takeReview(c) \/ reject(c)
              \/ requireAtomicIssuedQuoteCreation(c) \/ accept(c) \/ expire(c)
       PROVE  QuoteInv'
  BY <1>0, <1>1, <1>3, <1>4, <1>5, <1>6, <1>10 DEF alreadyApplied
<1> HIDE DEF QuoteInv
<1> QED
  BY <1>1, <1>2, <1>7, <1>8, <1>9, <1>10 DEF QuoteNext, Targets

\* A customer who accepts gets the quote they saw, inside its window and once;
\* a command delivered twice issues one quote; an expired request had a quote
\* past its deadline: for any number of commands and quotes (the guards of
\* quoteRequestPolicy).
THEOREM QuotesDecidedAsSeen == QuoteSpec => []QuoteDecidedAsSeen
<1>1. QuoteInit => QuoteInv
  <2> SUFFICES ASSUME QuoteInit PROVE QuoteInv
    OBVIOUS
  <2>1. QuoteTypeOK
    BY DEF QuoteInit, QuoteTypeOK, NotExpired
  <2>2. Len(issuedQuotes) = 0 /\ Len(prepared) = 0 /\ Len(draftOrders) = 0
    BY DEF QuoteInit
  <2> QED
    BY <2>1, <2>2 DEF QuoteInit, QuoteInv, NamesQuote, IssuedOnce, DecidedOnce
<1>2. QuoteInv /\ [QuoteNext]_requestVars => QuoteInv'
  BY QuoteStep
<1>3. QuoteInv => QuoteDecidedAsSeen
  <2> SUFFICES ASSUME QuoteInv PROVE QuoteDecidedAsSeen
    OBVIOUS
  <2>1. /\ DOMAIN issuedQuotes = 1..Len(issuedQuotes)
        /\ DOMAIN draftOrders = 1..Len(draftOrders)
    BY DEF QuoteInv, QuoteTypeOK
  <2>2. \A i \in DOMAIN draftOrders : i = 1 /\ quoteRequest.status = "accepted"
    BY <2>1 DEF QuoteInv, DecidedOnce
  <2> QED
    BY <2>1, <2>2 DEF QuoteInv, IssuedOnce, DecidedOnce, QuoteDecidedAsSeen
<1> QED
  BY <1>1, <1>2, <1>3, PTL DEF QuoteSpec

-----------------------------------------------------------------------------
(* Payments.  The projections are sums over the complete refund set, so the  *)
(* argument is about what one changed refund does to them.                   *)

RefundRows == [Refunds -> [st : RefundStatus, amount : 0..Captured,
                           of : Refunds \cup {NoRefund}, sent : BOOLEAN]]

\* A row's share of the sum over the rows in a status of S.
Share(R, r, S) == IF R[r].st \in S THEN R[r].amount ELSE 0
SumOf(R, S) == SumFunctionOnSet(Amounts(R), WithStatus(R, S))

\* A sum over refunds is a number; the refund r contributes its share.
LEMMA ShareOfSum ==
    ASSUME NEW R \in RefundRows, NEW S, NEW r \in Refunds
    PROVE  LET rest == SumFunctionOnSet(Amounts(R), WithStatus(R, S) \ {r})
           IN  /\ SumOf(R, S) = Share(R, r, S) + rest
               /\ rest \in Nat /\ SumOf(R, S) \in Nat /\ Share(R, r, S) \in Nat
<1> DEFINE W == WithStatus(R, S)
<1>1. IsFiniteSet(W) /\ W \subseteq Refunds
  BY PaymentAssumption, FS_Subset DEF WithStatus
<1>2. IsFiniteSet(W \ {r}) /\ \A x \in Refunds : Amounts(R)[x] \in Nat /\ Amounts(R)[x] = R[x].amount
  BY <1>1, FS_RemoveElement, PaymentAssumption DEF RefundRows, Amounts
<1>3. SumFunctionOnSet(Amounts(R), W \ {r}) \in Nat
  BY <1>1, <1>2, SumRemove
<1>4. CASE r \in W
  <2>1. SumFunctionOnSet(Amounts(R), W) = Amounts(R)[r] + SumFunctionOnSet(Amounts(R), W \ {r})
    BY <1>1, <1>2, <1>4, SumRemove
  <2>2. Share(R, r, S) = Amounts(R)[r]
    BY <1>2, <1>4 DEF Share, WithStatus
  <2> QED
    BY <1>2, <1>3, <2>1, <2>2 DEF SumOf
<1>5. CASE r \notin W
  <2>1. W \ {r} = W /\ Share(R, r, S) = 0
    BY <1>5 DEF Share, WithStatus
  <2> QED
    BY <1>3, <2>1 DEF SumOf
<1> QED
  BY <1>4, <1>5

\* Two refund sets that agree on the status and the amount of every refund but r.
SameBut(R, Q, r) ==
  \A q \in Refunds : q # r => Q[q].st = R[q].st /\ Q[q].amount = R[q].amount

\* When one refund changes, a sum changes by the difference of its shares.
LEMMA OneRefundChanges ==
    ASSUME NEW R \in RefundRows, NEW Q \in RefundRows, NEW S, NEW r \in Refunds,
           SameBut(R, Q, r)
    PROVE  /\ SumOf(Q, S) + Share(R, r, S) = SumOf(R, S) + Share(Q, r, S)
           /\ SumOf(R, S) \in Nat /\ SumOf(Q, S) \in Nat
           /\ Share(R, r, S) \in Nat /\ Share(Q, r, S) \in Nat
<1> DEFINE rest == SumFunctionOnSet(Amounts(R), WithStatus(R, S) \ {r})
           last == SumFunctionOnSet(Amounts(Q), WithStatus(Q, S) \ {r})
<1>1. WithStatus(Q, S) \ {r} = WithStatus(R, S) \ {r}
  BY DEF SameBut, WithStatus
<1>2. /\ IsFiniteSet(WithStatus(R, S) \ {r})
      /\ \A x \in WithStatus(R, S) \ {r} : /\ Amounts(R)[x] \in Nat
                                           /\ Amounts(Q)[x] = Amounts(R)[x]
  <2>1. WithStatus(R, S) \ {r} \subseteq Refunds
    BY DEF WithStatus
  <2> QED
    BY <2>1, PaymentAssumption, FS_Subset DEF SameBut, RefundRows, Amounts
<1>3. last = rest
  BY <1>1, <1>2, SumSame
<1>4. SumOf(R, S) = Share(R, r, S) + rest /\ SumOf(Q, S) = Share(Q, r, S) + last
      /\ rest \in Nat /\ SumOf(R, S) \in Nat /\ SumOf(Q, S) \in Nat
      /\ Share(R, r, S) \in Nat /\ Share(Q, r, S) \in Nat
  BY ShareOfSum
<1> HIDE DEF rest, last
<1> QED
  BY <1>3, <1>4

\* The two sums of the payment policy, when one refund changes.
LEMMA TotalsChange ==
    ASSUME NEW R \in RefundRows, NEW Q \in RefundRows, NEW r \in Refunds, SameBut(R, Q, r)
    PROVE  /\ Succeeded(Q) + Share(R, r, {"succeeded"}) = Succeeded(R) + Share(Q, r, {"succeeded"})
           /\ PendingAmount(Q) + Share(R, r, {"pending", "suspended"})
                = PendingAmount(R) + Share(Q, r, {"pending", "suspended"})
           /\ Succeeded(R) \in Nat /\ Succeeded(Q) \in Nat
           /\ PendingAmount(R) \in Nat /\ PendingAmount(Q) \in Nat
BY OneRefundChanges DEF Succeeded, PendingAmount, Unsettled, SumOf

\* Money is captured, or the payment is before or beside a capture and has no
\* refund; a refund nobody claimed has no provider event.
PaymentInv ==
  /\ refund \in RefundRows /\ hist \in [Refunds -> Seq(EventKind)]
  /\ captureKind = "none" =>
       /\ interim = "none" /\ pay \in {"created", "pending", "failed", "voided"}
       /\ \A r \in Refunds : refund[r].st = "none"
  /\ \A r \in Refunds : /\ refund[r].st \in {"none", "superseded"} => ~ refund[r].sent
                        /\ ~ refund[r].sent => hist[r] = <<>>
  /\ PromisedWithinCapture /\ StatusProjectsRefunds

\* The refunds and the money, without the status.
RowsInv(R) ==
  /\ R \in RefundRows
  /\ \A r \in Refunds : R[r].st \in {"none", "superseded"} => ~ R[r].sent
  /\ Succeeded(R) + PendingAmount(R) <= Captured

\* The projection is one of the four statuses of a captured payment.
LEMMA ProjectedStatus ==
    ASSUME NEW R
    PROVE  Projected(R) \in {"refund_pending", "captured", "refunded", "partially_refunded"}
BY DEF Projected

\* Claimed refunds stay claimed, and a changed refund set fits the history.
Keeps ==
  \A r \in Refunds : refund[r].sent => refund'[r].sent \/ refund[r].st = "none"

\* A step that leaves the history alone and fits the new refunds.
LEMMA PaymentMoves ==
    ASSUME PaymentInv, RowsInv(refund'), captureKind' # "none", hist' = hist, Keeps,
           IF interim' = "none" THEN pay' = Projected(refund')
           ELSE pay' = "refund_pending" /\ interim' = Projected(refund')
    PROVE  PaymentInv'
<1>1. \A r \in Refunds : refund[r].st = "none" => ~ refund[r].sent
  BY DEF PaymentInv
<1>2. \A r \in Refunds : ~ refund'[r].sent => hist[r] = <<>>
  BY <1>1 DEF PaymentInv, Keeps
<1> QED
  BY <1>2 DEF PaymentInv, RowsInv, PromisedWithinCapture, StatusProjectsRefunds

\* Every step of the payment policy keeps its invariant.
LEMMA PaymentStep ==
    ASSUME PaymentInv, [PaymentNext]_paymentVars
    PROVE  PaymentInv'
<1>0. /\ refund \in RefundRows /\ RowsInv(refund) /\ Captured \in Nat
      /\ Succeeded(refund) \in Nat /\ PendingAmount(refund) \in Nat
      /\ \A r \in Refunds : refund[r].amount \in 0..Captured
  <2>1. refund \in RefundRows /\ RowsInv(refund) /\ Captured \in Nat
    BY PaymentAssumption DEF PaymentInv, RowsInv, PromisedWithinCapture
  <2>2. CASE Refunds = {}
    <3>1. WithStatus(refund, {"succeeded"}) = {} /\ Unsettled(refund) = {}
      BY <2>2 DEF WithStatus, Unsettled
    <3> QED
      BY <2>1, <2>2, <3>1, SumEmpty DEF Succeeded, PendingAmount
  <2>3. CASE Refunds # {}
    BY <2>1, <2>3, TotalsChange DEF SameBut, RefundRows
  <2> QED
    BY <2>2, <2>3
<1>1. ASSUME UNCHANGED <<captureKind, interim, refund, hist>>,
             pay \in {"created", "pending", "failed", "voided"},
             pay' \in {"created", "pending", "failed", "voided"}
      PROVE  PaymentInv'
  <2>1. captureKind = "none"
    BY <1>1, ProjectedStatus DEF PaymentInv, StatusProjectsRefunds
  <2> QED
    BY <1>1, <2>1 DEF PaymentInv, PromisedWithinCapture, StatusProjectsRefunds
<1>2. CASE UNCHANGED paymentVars
  BY <1>2 DEF paymentVars, PaymentInv, PromisedWithinCapture, StatusProjectsRefunds
<1>3. CASE CreateIntent \/ PassCutoff \/ FailPayment \/ VoidPayment
  BY <1>1, <1>3 DEF CreateIntent, PassCutoff, FailPayment, VoidPayment, MovePayment,
     requireExactPaymentIntentCreationFailure, requireExactPendingPaymentFailure,
     requireCreatedPaymentVoidClosure, requireRoleSpecificPaymentVoidClosure
<1>4. ASSUME pay \in {"created", "pending", "failed", "voided"}
      PROVE  /\ captureKind = "none" /\ interim = "none"
             /\ \A r \in Refunds : refund[r].st = "none"
             /\ Succeeded(refund) = 0 /\ PendingAmount(refund) = 0 /\ Unsettled(refund) = {}
  <2>1. captureKind = "none"
    BY <1>4, ProjectedStatus DEF PaymentInv, StatusProjectsRefunds
  <2>2. \A r \in Refunds : refund[r].st = "none"
    BY <2>1 DEF PaymentInv
  <2>3. WithStatus(refund, {"succeeded"}) = {} /\ Unsettled(refund) = {}
    BY <2>2 DEF WithStatus, Unsettled
  <2> QED
    BY <2>1, <2>2, <2>3, SumEmpty DEF PaymentInv, Succeeded, PendingAmount
<1>5. CASE CaptureSettlement
  <2>1. pay = "pending" /\ pay' = "captured" /\ captureKind' = "settlement"
        /\ UNCHANGED <<refund, hist, interim>>
    BY <1>5 DEF CaptureSettlement, MovePayment
  <2>2. Projected(refund) = "captured" /\ interim = "none"
    BY <1>4, <2>1 DEF Projected
  <2> QED
    BY <1>0, <2>1, <2>2, PaymentMoves DEF Keeps
<1>6. ASSUME NEW r \in Refunds, NEW amount \in 1..Captured, NEW of \in Refunds \cup {NoRefund},
             refund' = [refund EXCEPT ![r] = Fresh(r, amount, of)], refund[r].st = "none",
             Succeeded(refund) + amount <= Captured, Unsettled(refund) = {},
             captureKind' # "none", hist' = hist, interim' = "none", pay' = "refund_pending"
      PROVE  PaymentInv'
  <2>1. /\ refund' \in RefundRows /\ SameBut(refund, refund', r)
        /\ refund'[r].st = "pending" /\ refund'[r].amount = amount /\ ~ refund'[r].sent
        /\ \A q \in Refunds : q # r => refund'[q] = refund[q]
    <3> DEFINE row == Fresh(r, amount, of)
    <3>1. amount \in 0..Captured
      BY <1>0
    <3>2. /\ row \in [st : RefundStatus, amount : 0..Captured,
                      of : Refunds \cup {NoRefund}, sent : BOOLEAN]
          /\ row.st = "pending" /\ row.amount = amount /\ row.sent = FALSE
      BY <3>1 DEF Fresh, RefundStatus
    <3>3. refund' = [refund EXCEPT ![r] = row]
      BY <1>6
    <3> HIDE DEF row
    <3> QED
      BY <1>0, <3>2, <3>3 DEF RefundRows, SameBut
  <2>2. PendingAmount(refund) = 0
    BY <1>6, SumEmpty DEF PendingAmount
  <2>3. /\ Share(refund, r, {"succeeded"}) = 0 /\ Share(refund', r, {"succeeded"}) = 0
        /\ Share(refund, r, {"pending", "suspended"}) = 0
        /\ Share(refund', r, {"pending", "suspended"}) = amount
    BY <1>6, <2>1 DEF Share
  <2>4. Succeeded(refund') = Succeeded(refund) /\ PendingAmount(refund') = amount
    BY <1>0, <2>1, <2>2, <2>3, TotalsChange
  <2>5. RowsInv(refund') /\ Keeps
    BY <1>0, <1>6, <2>1, <2>4 DEF RowsInv, Keeps
  <2>6. Projected(refund') = "refund_pending"
    BY <2>1 DEF Projected, Unsettled, WithStatus
  <2> QED
    BY <1>6, <2>5, <2>6, PaymentMoves
<1>7. ASSUME NEW r \in Refunds, CompensateCapacity(r) \/ CompensateLateCapture(r)
      PROVE  PaymentInv'
  <2>1. /\ pay \in {"pending", "voided", "failed"} /\ pay' = "refund_pending"
        /\ refund[r].st = "none" /\ refund' = [refund EXCEPT ![r] = Fresh(r, Captured, NoRefund)]
        /\ captureKind' # "none" /\ UNCHANGED <<hist, interim>>
    BY <1>7 DEF CompensateCapacity, CompensateLateCapture, MovePayment, FullRefund,
       LateCaptureRefund
  <2>2. Captured \in 1..Captured /\ NoRefund \in Refunds \cup {NoRefund}
    BY PaymentAssumption
  <2>3. Succeeded(refund) + Captured <= Captured /\ Unsettled(refund) = {} /\ interim' = "none"
    BY <1>0, <1>4, <2>1
  <2> QED
    BY <1>6, <2>1, <2>2, <2>3
<1>8. ASSUME interim = "none", pay \in {"captured", "partially_refunded", "refunded"}
      PROVE  captureKind # "none" /\ Unsettled(refund) = {} /\ pay = Projected(refund)
  BY <1>8 DEF PaymentInv, StatusProjectsRefunds, Projected
<1>9. ASSUME NEW r \in Refunds, NEW amount \in 1..Captured, NEW of \in Refunds \cup {NoRefund},
             SetUpRefund(r, amount, of)
      PROVE  PaymentInv'
  <2>1. /\ pay \in {"captured", "partially_refunded"} /\ interim = "none"
        /\ refund[r].st = "none" /\ amount <= Captured - Succeeded(refund)
        /\ pay' = "refund_pending" /\ UNCHANGED <<captureKind, hist, interim>>
        /\ refund' = [refund EXCEPT ![r] = Fresh(r, amount, of)]
    BY <1>9 DEF SetUpRefund, RefundSources, MovePayment, captureVars
  <2>2. /\ Succeeded(refund) + amount <= Captured /\ Unsettled(refund) = {}
        /\ captureKind' # "none" /\ interim' = "none"
    BY <1>0, <1>8, <2>1
  <2> QED
    BY <1>6, <2>1, <2>2
<1>10. ASSUME NEW r \in Refunds, DispatchRefund(r)
       PROVE  PaymentInv'
  <2>1. /\ refund' \in RefundRows /\ SameBut(refund, refund', r)
        /\ refund'[r].st = "pending" /\ refund'[r].amount = refund[r].amount /\ refund'[r].sent
        /\ refund[r].st = "pending"
        /\ \A q \in Refunds : q # r => refund'[q] = refund[q]
        /\ UNCHANGED <<pay, captureKind, hist, interim>>
    BY <1>0, <1>10 DEF DispatchRefund, captureVars, RefundRows, SameBut
  <2>2. Succeeded(refund') = Succeeded(refund) /\ PendingAmount(refund') = PendingAmount(refund)
    BY <1>0, <2>1, TotalsChange DEF Share
  <2>3. Unsettled(refund') = Unsettled(refund)
    BY <2>1 DEF Unsettled, WithStatus
  <2>4. RowsInv(refund') /\ Keeps
    BY <1>0, <2>1, <2>2 DEF RowsInv, Keeps
  <2>5. Projected(refund') = Projected(refund)
    BY <2>2, <2>3 DEF Projected
  <2>6. captureKind # "none"
    BY <2>1 DEF PaymentInv
  <2> QED
    BY <2>1, <2>4, <2>5, <2>6, PaymentMoves DEF PaymentInv, StatusProjectsRefunds
<1>11. ASSUME NEW r \in Refunds, NEW kind \in EventKind, ProviderDecides(r, kind)
       PROVE  PaymentInv'
  <2>1. /\ refund[r].sent /\ hist' = [hist EXCEPT ![r] = Append(@, kind)]
        /\ UNCHANGED <<pay, captureKind, refund, interim>>
    BY <1>11 DEF ProviderDecides, captureVars
  <2>2. /\ hist' \in [Refunds -> Seq(EventKind)]
        /\ \A q \in Refunds : q # r => hist'[q] = hist[q]
    BY <2>1 DEF PaymentInv
  <2>3. \A q \in Refunds : ~ refund'[q].sent => hist'[q] = <<>>
    BY <2>1, <2>2 DEF PaymentInv
  <2> QED
    BY <2>1, <2>2, <2>3 DEF PaymentInv, PromisedWithinCapture, StatusProjectsRefunds
<1>12. ASSUME NEW r \in Refunds, NEW i, RecordStale(r, i)
       PROVE  PaymentInv'
  BY <1>12 DEF RecordStale, captureVars, PaymentInv, PromisedWithinCapture,
     StatusProjectsRefunds
<1>13. ASSUME NEW r \in Refunds, NEW st \in {"succeeded", "failed"},
              refund' = SetStatus(r, st), refund[r].st \in {"pending", "succeeded", "failed"},
              refund[r].st = "pending" \/ st = "failed"
                 \/ Succeeded(refund') + PendingAmount(refund') <= Captured
       PROVE  RowsInv(refund') /\ Keeps /\ captureKind # "none"
  <2>1. /\ refund' \in RefundRows /\ SameBut(refund, refund', r)
        /\ refund'[r].st = st /\ refund'[r].amount = refund[r].amount
        /\ refund'[r].sent = refund[r].sent
        /\ \A q \in Refunds : q # r => refund'[q] = refund[q]
    BY <1>0, <1>13 DEF SetStatus, RefundRows, RefundStatus, SameBut
  <2>2. /\ Succeeded(refund') + Share(refund, r, {"succeeded"})
             = Succeeded(refund) + Share(refund', r, {"succeeded"})
        /\ PendingAmount(refund') + Share(refund, r, {"pending", "suspended"})
             = PendingAmount(refund) + Share(refund', r, {"pending", "suspended"})
        /\ Succeeded(refund') \in Nat /\ PendingAmount(refund') \in Nat
    BY <1>0, <2>1, TotalsChange
  <2>3. Succeeded(refund') + PendingAmount(refund') <= Captured
    <3>1. Succeeded(refund) + PendingAmount(refund) <= Captured
      BY <1>0 DEF RowsInv
    <3> QED
      BY <1>0, <1>13, <2>1, <2>2, <3>1 DEF Share
  <2> QED
    BY <1>0, <1>13, <2>1, <2>3 DEF RowsInv, Keeps, PaymentInv
<1>14. ASSUME NEW r \in Refunds, NEW i,
              CompleteRefund(r, i) \/ RollBackRefund(r, i) \/ FailSucceededRefund(r, i)
       PROVE  PaymentInv'
  <2>1. PICK st \in {"succeeded", "failed"} :
          /\ refund' = SetStatus(r, st) /\ refund[r].st \in {"pending", "succeeded"}
          /\ refund[r].st = "pending" \/ st = "failed"
    BY <1>14 DEF CompleteRefund, RollBackRefund, FailSucceededRefund, RestorePayment,
       requireExactPaymentRefundCompletion, lateRefundFailureProof
  <2>2. pay' = Projected(refund') /\ interim = "none" /\ UNCHANGED <<captureKind, hist, interim>>
    BY <1>14 DEF CompleteRefund, RollBackRefund, FailSucceededRefund, RestorePayment,
       MovePayment, captureVars
  <2> QED
    BY <1>13, <2>1, <2>2, PaymentMoves
<1>15. ASSUME NEW r \in Refunds, NEW i, StartLateSuccess(r, i)
       PROVE  PaymentInv'
  <2>1. /\ refund' = SetStatus(r, "succeeded") /\ refund[r].st = "failed"
        /\ Succeeded(refund') + PendingAmount(refund') <= Captured
        /\ pay' = "refund_pending" /\ interim' = Projected(refund')
        /\ UNCHANGED <<captureKind, hist>>
    BY <1>15 DEF StartLateSuccess, lateRefundSuccessProof, lateRefundSuccessTotals,
       MovePayment, captureVars
  <2>2. interim' # "none"
    BY <2>1, ProjectedStatus
  <2> QED
    BY <1>13, <2>1, <2>2, PaymentMoves
<1>16. CASE CompleteLateSuccess
  <2>1. /\ interim # "none" /\ pay' = interim /\ interim' = "none"
        /\ UNCHANGED <<captureKind, refund, hist>>
    BY <1>16 DEF CompleteLateSuccess, MovePayment, captureVars
  <2>2. captureKind # "none" /\ interim = Projected(refund)
    BY <2>1 DEF PaymentInv, StatusProjectsRefunds
  <2> QED
    BY <1>0, <2>1, <2>2, PaymentMoves DEF Keeps
<1>17. ASSUME NEW r \in Refunds, NEW i, NEW q \in Refunds \ {r}, FailAndRetryRefund(r, i, q)
       PROVE  PaymentInv'
  <2> DEFINE mid == SetStatus(r, "failed")
  <2>1. /\ interim = "none" /\ pay = "refund_pending" /\ refund[r].st = "succeeded"
        /\ refund[q].st = "none" /\ refund' = [mid EXCEPT ![q] = Fresh(q, refund[r].amount, r)]
        /\ UNCHANGED <<pay, captureKind, hist, interim>>
    BY <1>17 DEF FailAndRetryRefund, lateRefundFailureProof, captureVars
  <2>2. /\ mid \in RefundRows /\ SameBut(refund, mid, r)
        /\ mid[r].st = "failed" /\ mid[r].amount = refund[r].amount
        /\ mid[r].sent = refund[r].sent
        /\ \A p \in Refunds : p # r => mid[p] = refund[p]
    BY <1>0 DEF SetStatus, RefundRows, RefundStatus, SameBut
  <2> HIDE DEF mid
  <2>3. /\ refund' \in RefundRows /\ SameBut(mid, refund', q)
        /\ refund'[q].st = "pending" /\ refund'[q].amount = refund[r].amount
        /\ ~ refund'[q].sent
        /\ \A p \in Refunds : p # q => refund'[p] = mid[p]
    <3> DEFINE row == Fresh(q, refund[r].amount, r)
    <3>1. /\ row \in [st : RefundStatus, amount : 0..Captured,
                      of : Refunds \cup {NoRefund}, sent : BOOLEAN]
          /\ row.st = "pending" /\ row.amount = refund[r].amount /\ row.sent = FALSE
      BY <1>0 DEF Fresh, RefundStatus
    <3>2. refund' = [mid EXCEPT ![q] = row]
      BY <2>1
    <3> HIDE DEF row
    <3> QED
      BY <1>0, <1>17, <2>2, <3>1, <3>2 DEF RefundRows, SameBut
  <2>4. /\ Succeeded(mid) + refund[r].amount = Succeeded(refund)
        /\ PendingAmount(mid) = PendingAmount(refund)
        /\ Succeeded(mid) \in Nat /\ PendingAmount(mid) \in Nat
    BY <1>0, <2>1, <2>2, TotalsChange DEF Share
  <2>5. /\ Succeeded(refund') = Succeeded(mid)
        /\ PendingAmount(refund') = PendingAmount(mid) + refund[r].amount
    <3>1. /\ Share(mid, q, {"succeeded"}) = 0 /\ Share(refund', q, {"succeeded"}) = 0
          /\ Share(mid, q, {"pending", "suspended"}) = 0
          /\ Share(refund', q, {"pending", "suspended"}) = refund[r].amount
      BY <1>17, <2>1, <2>2, <2>3 DEF Share
    <3> QED
      BY <1>0, <2>2, <2>3, <2>4, <3>1, TotalsChange
  <2>6. Succeeded(refund') + PendingAmount(refund') <= Captured
    BY <1>0, <2>4, <2>5 DEF RowsInv
  <2>7. RowsInv(refund') /\ Keeps
    BY <1>0, <1>17, <2>1, <2>2, <2>3, <2>6 DEF RowsInv, Keeps
  <2>8. Projected(refund') = "refund_pending"
    BY <2>3 DEF Projected, Unsettled, WithStatus
  <2>9. captureKind # "none"
    BY <2>1 DEF PaymentInv
  <2> QED
    BY <2>1, <2>7, <2>8, <2>9, PaymentMoves
<1>18. ASSUME NEW r \in Refunds, NEW i, NEW q \in Refunds \ {r}, ReconcileRetry(r, i, q)
       PROVE  PaymentInv'
  <2> DEFINE to == lateRefundSuccessRetryStatus(q)
             end == IF to = "superseded" THEN "succeeded" ELSE "failed"
  <2>1. /\ interim = "none" /\ refund[r].st = "failed"
        /\ refund[q].st = "pending" \/ (refund[q].st = "succeeded" /\ refund[q].sent)
        /\ refund' = [refund EXCEPT ![q].st = to, ![r].st = end]
        /\ Succeeded(refund') + PendingAmount(refund') <= Captured
        /\ pay' = Projected(refund') /\ UNCHANGED <<captureKind, hist, interim>>
    BY <1>18 DEF ReconcileRetry, lateRefundSuccessProof, lateRefundSuccessTotals, captureVars
  <2>2. /\ to \in {"superseded", "suspended"} /\ end \in {"succeeded", "failed"}
        /\ to = "superseded" => ~ refund[q].sent
    BY DEF lateRefundSuccessRetryStatus
  <2> HIDE DEF to, end
  <2>3. /\ refund' \in RefundRows
        /\ refund'[q].st = to /\ refund'[q].sent = refund[q].sent
        /\ refund'[r].st = end /\ refund'[r].sent = refund[r].sent
        /\ \A p \in Refunds \ {r, q} : refund'[p] = refund[p]
    BY <1>0, <2>1, <2>2, SMTT(20) DEF RefundRows, RefundStatus
  <2>4. RowsInv(refund') /\ Keeps
    BY <1>0, <2>1, <2>2, <2>3 DEF RowsInv, Keeps
  <2>5. captureKind # "none"
    BY <2>1 DEF PaymentInv
  <2> QED
    BY <2>1, <2>4, <2>5, PaymentMoves
<1> QED
  BY <1>2, <1>3, <1>5, <1>7, <1>9, <1>10, <1>11, <1>12, <1>14, <1>15, <1>16, <1>17, <1>18
     DEF PaymentNext

\* For any number of refunds and any captured amount: what is refunded or may
\* still be never exceeds the capture, the status of the Payment is the
\* projection of its refunds, and a superseded retry was never sent, whatever
\* order the provider's events come in (paymentPolicy and its reconciliation
\* guards).
THEOREM PaymentsAreSound == PaymentSpec => []PaymentSound
<1>1. PaymentInit => PaymentInv
  <2> SUFFICES ASSUME PaymentInit PROVE PaymentInv
    OBVIOUS
  <2>1. refund \in RefundRows /\ \A r \in Refunds : refund[r].st = "none" /\ ~ refund[r].sent
    BY PaymentAssumption DEF PaymentInit, RefundRows, RefundStatus
  <2>2. WithStatus(refund, {"succeeded"}) = {} /\ Unsettled(refund) = {}
    BY <2>1 DEF WithStatus, Unsettled
  <2>3. PromisedWithinCapture
    BY <2>2, SumEmpty, PaymentAssumption DEF PromisedWithinCapture, Succeeded, PendingAmount
  <2>4. hist \in [Refunds -> Seq(EventKind)] /\ \A r \in Refunds : hist[r] = <<>>
    BY DEF PaymentInit
  <2> QED
    BY <2>1, <2>3, <2>4 DEF PaymentInit, PaymentInv, StatusProjectsRefunds
<1>2. PaymentInv /\ [PaymentNext]_paymentVars => PaymentInv'
  BY PaymentStep
<1>3. PaymentInv => PaymentSound
  BY DEF PaymentInv, PaymentSound, SupersededNeverPaid
<1> QED
  BY <1>1, <1>2, <1>3, PTL DEF PaymentSpec

-----------------------------------------------------------------------------
(* Claims.  What a child's status says about its remedy: nothing under way,   *)
(* waiting for the carrier, with the carrier, or delivered.                   *)

EndedChild == {"rejected", "delivered_reship", "delivered_reprint", "refunded", "withdrawn"}
GoneParcel == {"cancelled", "lost", "returned", "recovered"}

NoJob(s) == auth[s] # "issued" /\ rjob[s] \notin liveJob
NothingUnderWay(s) == NoJob(s) /\ (leaf[s] = "original" \/ parcel[s] \in GoneParcel)
Waiting(s) == \/ parcel[s] \in preHandoffParcel
              \/ parcel[s] = "cancelled" /\ NoJob(s)

SlotInv(s) ==
  /\ leaf[s] = "original" => parcel[s] \in {"delivered", "lost", "returned", "recovered"}
  /\ leaf[s] = "reprint" => s \in rset[s]
  /\ resolution[s] \in {"pending", "rejected", "reprint_pending", "recovery_pending",
                        "refund_pending", "refunded", "withdrawn"} => NothingUnderWay(s)
  /\ resolution[s] = "reship_pending" =>
       leaf[s] = "reship" /\ Waiting(s) /\ rjob[s] \notin liveJob
  /\ resolution[s] = "replacement_in_production" => leaf[s] = "reprint" /\ Waiting(s)
  /\ resolution[s] \in {"reship_shipped", "replacement_shipped"} =>
       NoJob(s) /\ leaf[s] # "original" /\ parcel[s] \in {"handed_over", "in_transit"}
  /\ resolution[s] \in {"delivered_reship", "delivered_reprint"} =>
       NoJob(s) /\ parcel[s] = "delivered"

\* The slots of a resource-group set stay in it until it leaves or is refunded.
GroupsTogether ==
  grouped => \A s \in ClaimSlots : resolution[s] = "replacement_in_production" =>
    \A t \in rset[s] :
      /\ rset[t] = rset[s] /\ leaf[t] = "reprint"
      /\ resolution[t] \in {"replacement_in_production", "refund_pending", "refunded"}

ClaimTyped ==
  /\ resolution \in [ClaimSlots -> ResolutionStatus]
  /\ parcel \in [ClaimSlots -> ParcelStatus] /\ leaf \in [ClaimSlots -> LeafKind]
  /\ rjob \in [ClaimSlots -> JobState] /\ auth \in [ClaimSlots -> AuthStatus]
  /\ rset \in [ClaimSlots -> SUBSET ClaimSlots]

ClaimEnded ==
  claimStatus \in terminalClaim => \A s \in ClaimSlots : resolution[s] \in EndedChild

ClaimInv ==
  /\ ClaimTyped /\ ClaimEnded /\ GroupsTogether /\ ReplacementLeavesWhole
  /\ \A s \in ClaimSlots : SlotInv(s)

\* Where a child may come from: claimSlotResolutionPolicy.transitions, by target.
LEMMA ResolutionSources ==
    ASSUME NEW a, NEW to, <<a, to>> \in resolutionTransitions
    PROVE  /\ a \notin EndedChild /\ to \in ResolutionStatus \ {"pending"}
           /\ to = "rejected" => a = "pending"
           /\ to \in {"reship_pending", "reprint_pending"} => a \in {"pending", "recovery_pending"}
           /\ to \in {"refund_pending", "withdrawn"} =>
                a \in {"pending", "reship_pending", "reprint_pending",
                       "replacement_in_production", "recovery_pending"}
           /\ to = "reship_shipped" => a = "reship_pending"
           /\ to = "delivered_reship" => a = "reship_shipped"
           /\ to = "recovery_pending" =>
                a \in {"reship_shipped", "replacement_in_production", "replacement_shipped"}
           /\ to = "replacement_in_production" => a = "reprint_pending"
           /\ to = "replacement_shipped" => a = "replacement_in_production"
           /\ to = "delivered_reprint" => a = "replacement_shipped"
           /\ to = "refunded" => a = "refund_pending"
BY DEF resolutionTransitions, EndedChild, ResolutionStatus

\* What a move of the children of S does.
LEMMA SlotsMoved ==
    ASSUME ClaimTyped, NEW S \in SUBSET ClaimSlots, NEW to, MoveSlots(S, to)
    PROVE  /\ S # {} /\ to \in ResolutionStatus \ {"pending"}
           /\ resolution' \in [ClaimSlots -> ResolutionStatus]
           /\ \A s \in S : resolution'[s] = to /\ <<resolution[s], to>> \in resolutionTransitions
           /\ \A s \in ClaimSlots \ S : resolution'[s] = resolution[s]
<1>1. S # {} /\ \A s \in S : <<resolution[s], to>> \in resolutionTransitions
  BY DEF MoveSlots
<1>2. to \in ResolutionStatus \ {"pending"}
  BY <1>1, ResolutionSources
<1> QED
  BY <1>1, <1>2 DEF MoveSlots, ClaimTyped

\* The move of a single child.
LEMMA SlotMoved ==
    ASSUME ClaimTyped, NEW s \in ClaimSlots, NEW to, MoveSlots({s}, to)
    PROVE  /\ resolution' \in [ClaimSlots -> ResolutionStatus] /\ resolution'[s] = to
           /\ <<resolution[s], to>> \in resolutionTransitions
           /\ \A t \in ClaimSlots \ {s} : resolution'[t] = resolution[t]
<1>1. {s} \in SUBSET ClaimSlots
  OBVIOUS
<1> QED
  BY <1>1, SlotsMoved

\* What is assigned to the slots of S.
LEMMA SetOnValue ==
    ASSUME NEW T, NEW f \in [ClaimSlots -> T], NEW S, NEW v \in T
    PROVE  /\ SetOn(f, S, v) \in [ClaimSlots -> T]
           /\ \A s \in ClaimSlots : SetOn(f, S, v)[s] = IF s \in S THEN v ELSE f[s]
BY DEF SetOn

\* The remedies of S are cancelled, and everything else is left alone.
LEMMA RemediesCancelled ==
    ASSUME ClaimTyped, NEW S \in SUBSET ClaimSlots, CancelRemedies(S)
    PROVE  /\ parcel' \in [ClaimSlots -> ParcelStatus] /\ rjob' \in [ClaimSlots -> JobState]
           /\ auth' \in [ClaimSlots -> AuthStatus]
           /\ \A s \in ClaimSlots :
                /\ parcel'[s] = IF s \in S /\ leaf[s] # "original" /\ parcel[s] \in preHandoffParcel
                                THEN "cancelled" ELSE parcel[s]
                /\ rjob'[s] = IF s \in S /\ rjob[s] \in liveJob THEN "cancelled" ELSE rjob[s]
                /\ auth'[s] = IF s \in S /\ auth[s] = "issued" THEN "invalidated" ELSE auth[s]
<1>1. /\ parcel' = SetOn(parcel, OpenRemedies(S), "cancelled")
      /\ rjob' = SetOn(rjob, {s \in S : rjob[s] \in liveJob}, "cancelled")
      /\ auth' = SetOn(auth, {s \in S : auth[s] = "issued"}, "invalidated")
  BY DEF CancelRemedies, CancelRemedyShipments, CancelRemedyJobs, InvalidateAuthorizations
<1>2. /\ "cancelled" \in ParcelStatus /\ "cancelled" \in JobState /\ "invalidated" \in AuthStatus
  BY DEF ParcelStatus, JobState, AuthStatus
<1> QED
  BY <1>1, <1>2 DEF SetOn, OpenRemedies, ClaimTyped

InProduction(s) == resolution[s] = "replacement_in_production"
InSet(s) == resolution[s] \in {"replacement_in_production", "refund_pending", "refunded"}

\* A step that starts no replacement and hands none over keeps the sets: what
\* stays in production keeps its set, and so do the other slots of that set.
LEMMA SetsKept ==
    ASSUME ClaimInv, ClaimTyped', grouped' = grouped,
           \A s \in ClaimSlots : InProduction(s)' =>
             /\ InProduction(s) /\ rset'[s] = rset[s]
             /\ \A t \in rset[s] : InSet(t) =>
                  InSet(t)' /\ rset'[t] = rset[t] /\ leaf'[t] = leaf[t],
           \A s \in ClaimSlots : leaf'[s] = "reprint" =>
             /\ leaf[s] = "reprint" /\ rset'[s] = rset[s]
             /\ rjob'[s] = "handed_over" <=> rjob[s] = "handed_over"
    PROVE  GroupsTogether' /\ ReplacementLeavesWhole'
<1>1. GroupsTogether'
  <2> SUFFICES ASSUME grouped, NEW s \in ClaimSlots, InProduction(s)', NEW t \in rset'[s]
               PROVE  rset'[t] = rset'[s] /\ leaf'[t] = "reprint" /\ InSet(t)'
    BY DEF GroupsTogether, InProduction, InSet
  <2>1. rset[t] = rset[s] /\ leaf[t] = "reprint" /\ InSet(t)
    BY DEF ClaimInv, GroupsTogether, InProduction, InSet
  <2> QED
    BY <2>1
<1>2. ReplacementLeavesWhole'
  BY DEF ClaimInv, ReplacementLeavesWhole
<1> QED
  BY <1>1, <1>2

\* A child of which nothing changes keeps its invariant.
LEMMA SlotSame ==
    ASSUME NEW s \in ClaimSlots, SlotInv(s), resolution'[s] = resolution[s],
           parcel'[s] = parcel[s], leaf'[s] = leaf[s], rjob'[s] = rjob[s],
           auth'[s] = auth[s], rset'[s] = rset[s]
    PROVE  SlotInv(s)'
BY DEF SlotInv, NothingUnderWay, Waiting, NoJob

\* A claim that has ended has no child left to move.
LEMMA EndedKept ==
    ASSUME ClaimInv, NEW S \in SUBSET ClaimSlots, NEW to, MoveSlots(S, to),
           claimStatus' = claimStatus \/ claimStatus' \notin terminalClaim
    PROVE  ClaimEnded'
<1>1. PICK s \in S : <<resolution[s], to>> \in resolutionTransitions
  BY SlotsMoved DEF ClaimInv
<1>2. claimStatus \notin terminalClaim
  BY <1>1, ResolutionSources DEF ClaimInv, ClaimEnded
<1> QED
  BY <1>2 DEF ClaimEnded

\* The choice of a remedy leaves the claim open.
LEMMA ChoosingOpens ==
    ASSUME Choosing PROVE claimStatus' \notin terminalClaim
BY DEF Choosing, MoveClaim, terminalClaim

\* A terminal status is taken with every child ended.
LEMMA ClaimEnds ==
    ASSUME NEW to, requireCompleteClaimResolutionSet(to)
    PROVE  \A s \in ClaimSlots : resolution'[s] \in EndedChild
<1>1. ChildStatuses \subseteq DOMAIN claimTerminalProjection
  BY DEF requireCompleteClaimResolutionSet, projectClaimTerminalStatus
<1>2. DOMAIN claimTerminalProjection = EndedChild
  BY DEF claimTerminalProjection, EndedChild
<1> QED
  BY <1>1, <1>2 DEF ChildStatuses

\* The commands of the parent keep the invariant.
LEMMA ClaimParentStep ==
    ASSUME ClaimInv,
           \/ Investigate \/ RejectClaim \/ WithdrawClaim
           \/ \E to \in terminalClaim : ConcludeClaim(to)
    PROVE  ClaimInv'
<1> USE DEF ClaimInv
<1>1. CASE Investigate \/ \E to \in terminalClaim : ConcludeClaim(to)
  <2>1. UNCHANGED <<grouped, resolution, parcel, leaf, rjob, auth, rset>>
    BY <1>1 DEF Investigate, ConcludeClaim
  <2>2. ClaimEnded'
    <3>1. CASE Investigate
      BY <3>1 DEF Investigate, MoveClaim, ClaimEnded, terminalClaim
    <3>2. CASE \E to \in terminalClaim : ConcludeClaim(to)
      BY <3>2, ClaimEnds DEF ConcludeClaim, ClaimEnded
    <3> QED
      BY <1>1, <3>1, <3>2
  <2>3. ClaimTyped' /\ GroupsTogether' /\ ReplacementLeavesWhole'
    BY <2>1 DEF ClaimTyped, GroupsTogether, ReplacementLeavesWhole
  <2>4. \A s \in ClaimSlots : SlotInv(s)'
    BY <2>1, SlotSame
  <2> QED
    BY <2>2, <2>3, <2>4
<1>2. CASE RejectClaim
  <2>1. UNCHANGED <<grouped, parcel, leaf, rjob, auth, rset>>
        /\ MoveSlots(ClaimSlots, "rejected")
    BY <1>2 DEF RejectClaim
  <2>2. /\ resolution' \in [ClaimSlots -> ResolutionStatus]
        /\ \A s \in ClaimSlots : resolution'[s] = "rejected"
                                 /\ <<resolution[s], "rejected">> \in resolutionTransitions
    BY <2>1, SlotsMoved
  <2>3. \A s \in ClaimSlots : resolution[s] = "pending"
    BY <2>2, ResolutionSources
  <2>4. ClaimTyped' /\ ClaimEnded'
    BY <2>1, <2>2 DEF ClaimTyped, ClaimEnded, EndedChild
  <2>5. \A s \in ClaimSlots : SlotInv(s)'
    BY <2>1, <2>2, <2>3 DEF SlotInv, NothingUnderWay, NoJob
  <2>6. GroupsTogether' /\ ReplacementLeavesWhole'
    BY <2>1, <2>2, <2>4, SetsKept DEF InProduction
  <2> QED
    BY <2>4, <2>5, <2>6
<1>3. CASE WithdrawClaim
  <2>1. UNCHANGED <<grouped, leaf, rset>> /\ MoveSlots(ClaimSlots, "withdrawn")
        /\ CancelRemedies(ClaimSlots)
    BY <1>3 DEF WithdrawClaim
  <2>2. /\ resolution' \in [ClaimSlots -> ResolutionStatus]
        /\ \A s \in ClaimSlots : resolution'[s] = "withdrawn"
                                 /\ <<resolution[s], "withdrawn">> \in resolutionTransitions
    BY <2>1, SlotsMoved
  <2>3. \A s \in ClaimSlots :
          resolution[s] \in {"pending", "reship_pending", "reprint_pending",
                             "replacement_in_production", "recovery_pending"}
    BY <2>2, ResolutionSources
  <2>4. /\ parcel' \in [ClaimSlots -> ParcelStatus] /\ rjob' \in [ClaimSlots -> JobState]
        /\ auth' \in [ClaimSlots -> AuthStatus]
        /\ \A s \in ClaimSlots :
             /\ parcel'[s] = IF leaf[s] # "original" /\ parcel[s] \in preHandoffParcel
                             THEN "cancelled" ELSE parcel[s]
             /\ rjob'[s] = IF rjob[s] \in liveJob THEN "cancelled" ELSE rjob[s]
             /\ auth'[s] = IF auth[s] = "issued" THEN "invalidated" ELSE auth[s]
    BY <2>1, RemediesCancelled
  <2>5. ClaimTyped' /\ ClaimEnded'
    BY <2>1, <2>2, <2>4 DEF ClaimTyped, ClaimEnded, EndedChild
  <2>6. \A s \in ClaimSlots : SlotInv(s)'
    <3> SUFFICES ASSUME NEW s \in ClaimSlots PROVE SlotInv(s)'
      OBVIOUS
    <3>1. SlotInv(s) /\ resolution'[s] = "withdrawn" /\ UNCHANGED <<leaf, rset>>
      BY <2>1, <2>2
    <3>2. NoJob(s)'
      BY <2>4 DEF NoJob, liveJob
    <3>3. leaf[s] = "original" => parcel'[s] = parcel[s]
      BY <2>4
    <3>4. leaf[s] = "original" \/ parcel'[s] \in GoneParcel
      <4>1. leaf[s] = "original" \/ parcel[s] \in GoneParcel \/ Waiting(s)
        BY <2>3, <3>1 DEF SlotInv, NothingUnderWay
      <4> QED
        BY <2>4, <4>1 DEF Waiting, GoneParcel, preHandoffParcel
    <3> QED
      BY <3>1, <3>2, <3>3, <3>4 DEF SlotInv, NothingUnderWay
  <2>7. GroupsTogether' /\ ReplacementLeavesWhole'
    BY <2>1, <2>2, <2>4, <2>5, SetsKept DEF InProduction, liveJob
  <2> QED
    BY <2>5, <2>6, <2>7
<1> QED
  BY <1>1, <1>2, <1>3

\* Choosing a remedy or a refund, and the end of a refund, keep the invariant.
LEMMA ClaimChoiceStep ==
    ASSUME ClaimInv,
           \/ \E s \in ClaimSlots : SelectReship(s) \/ SelectReprint(s) \/ CompleteSlotRefund(s)
           \/ \E T \in SUBSET ClaimSlots : RefundSlots(T)
    PROVE  ClaimInv'
<1> USE DEF ClaimInv
<1>1. ASSUME NEW T \in SUBSET ClaimSlots, NEW to, MoveSlots(T, to),
             to \in {"reprint_pending", "refund_pending", "refunded"},
             claimStatus' = claimStatus \/ claimStatus' \notin terminalClaim,
             to = "refund_pending" => \A s \in T : RefundableChild(s),
             UNCHANGED <<grouped, parcel, leaf, rjob, auth, rset>>
      PROVE  ClaimInv'
  <2>1. /\ resolution' \in [ClaimSlots -> ResolutionStatus]
        /\ \A s \in T : resolution'[s] = to /\ <<resolution[s], to>> \in resolutionTransitions
        /\ \A s \in ClaimSlots \ T : resolution'[s] = resolution[s]
    BY <1>1, SlotsMoved
  <2>2. \A s \in T :
          /\ to = "reprint_pending" => resolution[s] \in {"pending", "recovery_pending"}
          /\ to = "refunded" => resolution[s] = "refund_pending"
          /\ to = "refund_pending" =>
               resolution[s] \in {"pending", "reship_pending", "reprint_pending",
                                  "replacement_in_production", "recovery_pending"}
    BY <2>1, ResolutionSources
  <2>3. ClaimTyped' /\ ClaimEnded'
    BY <1>1, <2>1, EndedKept DEF ClaimTyped
  <2>4. ASSUME NEW s \in T PROVE SlotInv(s)'
    <3>1. NothingUnderWay(s)
      <4>1. CASE resolution[s] \in {"pending", "recovery_pending", "reprint_pending", "refund_pending"}
        BY <4>1 DEF SlotInv
      <4>2. CASE resolution[s] \in {"reship_pending", "replacement_in_production"}
        <5>1. remedyCancellationCompleted(s) /\ Waiting(s) /\ leaf[s] # "original"
          BY <1>1, <2>2, <4>2 DEF RefundableChild, SlotInv
        <5>2. parcel[s] \notin preHandoffParcel
          BY <5>1 DEF remedyCancellationCompleted, OpenRemedies
        <5> QED
          BY <5>1, <5>2 DEF Waiting, NothingUnderWay, GoneParcel
      <4> QED
        BY <1>1, <2>2, <4>1, <4>2
    <3>2. SlotInv(s) /\ s \in ClaimSlots
      OBVIOUS
    <3> QED
      BY <1>1, <2>1, <3>1, <3>2 DEF SlotInv, NothingUnderWay, NoJob
  <2>5. \A s \in ClaimSlots : SlotInv(s)'
    BY <1>1, <2>1, <2>4, SlotSame
  <2>6. \A s \in ClaimSlots : InProduction(s)' => InProduction(s)
    BY <1>1, <2>1 DEF InProduction
  <2>7. \A s \in ClaimSlots : InSet(s) => InSet(s)'
    BY <1>1, <2>1, <2>2 DEF InSet
  <2>8. \A s \in ClaimSlots : rset[s] \subseteq ClaimSlots
    BY DEF ClaimTyped
  <2>9. GroupsTogether' /\ ReplacementLeavesWhole'
    BY <1>1, <2>3, <2>6, <2>7, <2>8, SetsKept
  <2> QED
    BY <2>3, <2>5, <2>9
<1>2. ASSUME NEW s \in ClaimSlots, SelectReprint(s) \/ CompleteSlotRefund(s)
      PROVE  ClaimInv'
  <2>1. PICK to \in {"reprint_pending", "refunded"} : MoveSlots({s}, to)
    BY <1>2 DEF SelectReprint, CompleteSlotRefund
  <2>2. /\ UNCHANGED <<grouped, parcel, leaf, rjob, auth, rset>>
        /\ claimStatus' = claimStatus \/ claimStatus' \notin terminalClaim
    BY <1>2, ChoosingOpens DEF SelectReprint, CompleteSlotRefund, parentVars
  <2> QED
    BY <1>1, <2>1, <2>2
<1>3. ASSUME NEW T \in SUBSET ClaimSlots, RefundSlots(T)
      PROVE  ClaimInv'
  <2>1. /\ UNCHANGED <<grouped, parcel, leaf, rjob, auth, rset>>
        /\ claimStatus' \notin terminalClaim
        /\ MoveSlots(T, "refund_pending") /\ \A s \in T : RefundableChild(s)
    BY <1>3, ChoosingOpens DEF RefundSlots, requireExactClaimRefundScope
  <2> QED
    BY <1>1, <2>1
<1>4. ASSUME NEW s \in ClaimSlots, SelectReship(s)
      PROVE  ClaimInv'
  <2>1. /\ MoveSlots({s}, "reship_pending") /\ claimStatus' \notin terminalClaim
        /\ parcel' = [parcel EXCEPT ![s] = "planned"]
        /\ leaf' = [leaf EXCEPT ![s] = "reship"]
        /\ auth' = [auth EXCEPT ![s] = "issued"]
        /\ rset' = [rset EXCEPT ![s] = {s}]
        /\ UNCHANGED <<grouped, rjob>>
    BY <1>4, ChoosingOpens DEF SelectReship
  <2>2. /\ resolution' \in [ClaimSlots -> ResolutionStatus]
        /\ resolution'[s] = "reship_pending"
        /\ <<resolution[s], "reship_pending">> \in resolutionTransitions
        /\ \A t \in ClaimSlots \ {s} : resolution'[t] = resolution[t]
    BY <2>1, SlotMoved
  <2>3. resolution[s] \in {"pending", "recovery_pending"}
    BY <2>2, ResolutionSources
  <2>4. ClaimTyped' /\ ClaimEnded'
    <3>1. ClaimEnded'
      BY <2>1, EndedKept
    <3>2. "planned" \in ParcelStatus /\ "reship" \in LeafKind /\ "issued" \in AuthStatus
      BY DEF ParcelStatus, LeafKind, AuthStatus
    <3> QED
      BY <2>1, <2>2, <3>1, <3>2 DEF ClaimTyped
  <2>5. \A t \in ClaimSlots \ {s} : /\ parcel'[t] = parcel[t] /\ leaf'[t] = leaf[t]
                                    /\ auth'[t] = auth[t] /\ rset'[t] = rset[t]
                                    /\ rjob'[t] = rjob[t]
    BY <2>1 DEF ClaimTyped
  <2>6. /\ parcel'[s] = "planned" /\ leaf'[s] = "reship" /\ rjob'[s] = rjob[s]
        /\ rjob[s] \notin liveJob
    BY <2>1, <2>3 DEF ClaimTyped, SlotInv, NothingUnderWay, NoJob
  <2>7. SlotInv(s)'
    BY <2>2, <2>6 DEF SlotInv, Waiting, preHandoffParcel
  <2>8. \A t \in ClaimSlots : SlotInv(t)'
    BY <2>2, <2>5, <2>7, SlotSame
  <2>9. \A t \in ClaimSlots : rset[t] \subseteq ClaimSlots
    BY DEF ClaimTyped
  <2>10. GroupsTogether' /\ ReplacementLeavesWhole'
    <3>1. \A t \in ClaimSlots : InSet(t) => t # s
      BY <2>3 DEF InSet
    <3>2. \A t \in ClaimSlots : InProduction(t)' => t # s
      BY <2>2 DEF InProduction
    <3>3. \A t \in ClaimSlots \ {s} : (InSet(t) <=> InSet(t)') /\ (InProduction(t) <=> InProduction(t)')
      BY <2>2 DEF InSet, InProduction
    <3> QED
      BY <2>1, <2>4, <2>5, <2>6, <2>9, <3>1, <3>2, <3>3, SetsKept
  <2> QED
    BY <2>4, <2>8, <2>10
<1> QED
  BY <1>2, <1>3, <1>4

\* What one slot's parcel and job do on their way keeps the invariant.
LEMMA ClaimRemedyStep ==
    ASSUME ClaimInv, NEW s \in ClaimSlots,
           \/ TransitRemedy(s) \/ DeliverRemedy(s) \/ RecoverParcel(s)
           \/ \E st \in JobState : AdvanceReplacement(s, st)
           \/ \E st \in ParcelStatus : LabelRemedy(s, st) \/ LoseRemedy(s, st) \/ HandOffReship(s, st)
    PROVE  ClaimInv'
<1> USE DEF ClaimInv
<1>0. SlotInv(s) /\ resolution[s] \in ResolutionStatus /\ leaf[s] \in LeafKind
      /\ \A t \in ClaimSlots : rset[t] \subseteq ClaimSlots
  BY DEF ClaimTyped
<1>1. ASSUME ClaimTyped', SlotInv(s)', ClaimEnded',
             UNCHANGED <<grouped, leaf, rset>>,
             \A t \in ClaimSlots \ {s} : /\ resolution'[t] = resolution[t] /\ parcel'[t] = parcel[t]
                                         /\ rjob'[t] = rjob[t] /\ auth'[t] = auth[t],
             resolution'[s] = resolution[s] \/ (~ InSet(s) /\ ~ InSet(s)'),
             rjob'[s] = "handed_over" <=> rjob[s] = "handed_over"
      PROVE  ClaimInv'
  <2>1. \A t \in ClaimSlots : SlotInv(t)'
    BY <1>1, SlotSame
  <2>2. \A t \in ClaimSlots : (InSet(t) <=> InSet(t)') /\ (InProduction(t) <=> InProduction(t)')
    BY <1>1 DEF InSet, InProduction
  <2>3. GroupsTogether' /\ ReplacementLeavesWhole'
    BY <1>0, <1>1, <2>2, SetsKept
  <2> QED
    BY <1>1, <2>1, <2>3
<1>2. ASSUME NEW st \in ParcelStatus, parcel' = [parcel EXCEPT ![s] = st],
             UNCHANGED <<claimStatus, grouped, resolution, leaf, rjob, auth, rset>>,
             \/ leaf[s] # "original" /\ st = "in_transit" /\ parcel[s] = "handed_over"
             \/ parcel[s] = "lost" /\ st = "recovered"
             \/ parcel[s] \in preHandoffParcel /\ st \in preHandoffParcel /\ leaf[s] # "original"
      PROVE  ClaimInv'
  <2>1. /\ parcel'[s] = st /\ \A t \in ClaimSlots \ {s} : parcel'[t] = parcel[t]
        /\ ClaimTyped'
    BY <1>2 DEF ClaimTyped
  <2>2. ClaimEnded'
    BY <1>2 DEF ClaimEnded
  <2>3. SlotInv(s)'
    BY <1>0, <1>2, <2>1 DEF SlotInv, NothingUnderWay, Waiting, NoJob, GoneParcel,
       preHandoffParcel, ResolutionStatus
  <2> QED
    BY <1>1, <1>2, <2>1, <2>2, <2>3
<1>3. CASE TransitRemedy(s) \/ RecoverParcel(s) \/ \E st \in ParcelStatus : LabelRemedy(s, st)
  <2>1. "in_transit" \in ParcelStatus /\ "recovered" \in ParcelStatus
    BY DEF ParcelStatus
  <2> QED
    BY <1>2, <1>3, <2>1 DEF TransitRemedy, RecoverParcel, LabelRemedy, parentVars, preHandoffParcel
<1>4. ASSUME NEW st \in JobState, AdvanceReplacement(s, st)
      PROVE  ClaimInv'
  <2>1. /\ rjob[s] = "created" /\ st \in {"packed", "failed"}
        /\ rjob' = [rjob EXCEPT ![s] = st]
        /\ UNCHANGED <<claimStatus, grouped, resolution, parcel, leaf, auth, rset>>
    BY <1>4 DEF AdvanceReplacement, parentVars
  <2>2. /\ rjob'[s] = st /\ \A t \in ClaimSlots \ {s} : rjob'[t] = rjob[t]
        /\ ClaimTyped' /\ ClaimEnded'
    BY <2>1 DEF ClaimTyped, ClaimEnded
  <2>3. SlotInv(s)'
    BY <1>0, <2>1, <2>2 DEF SlotInv, NothingUnderWay, Waiting, NoJob, liveJob, ResolutionStatus
  <2> QED
    BY <1>1, <2>1, <2>2, <2>3
<1>5. ASSUME NEW st \in ParcelStatus, NEW to, MoveSlots({s}, to),
             parcel' = [parcel EXCEPT ![s] = st], auth' \in [ClaimSlots -> AuthStatus],
             auth'[s] # "issued", \A t \in ClaimSlots \ {s} : auth'[t] = auth[t],
             UNCHANGED <<claimStatus, grouped, leaf, rjob, rset>>, leaf[s] # "original",
             \/ parcel[s] = "in_transit" /\ st = "delivered"
                  /\ to \in {"delivered_reship", "delivered_reprint"}
             \/ parcel[s] = "in_transit" /\ st \in {"lost", "returned"} /\ to = "recovery_pending"
             \/ st = "handed_over" /\ to = "reship_shipped"
      PROVE  ClaimInv'
  <2>1. /\ resolution' \in [ClaimSlots -> ResolutionStatus] /\ resolution'[s] = to
        /\ <<resolution[s], to>> \in resolutionTransitions
        /\ \A t \in ClaimSlots \ {s} : resolution'[t] = resolution[t]
    BY <1>5, SlotMoved
  <2>2. /\ to \in {"delivered_reship", "delivered_reprint", "recovery_pending"} =>
             resolution[s] \in {"reship_shipped", "replacement_shipped", "replacement_in_production"}
        /\ to = "reship_shipped" => resolution[s] = "reship_pending"
    BY <2>1, ResolutionSources
  <2>3. resolution[s] \in {"reship_shipped", "replacement_shipped", "reship_pending"}
        /\ rjob[s] \notin liveJob
    BY <1>0, <1>5, <2>2 DEF SlotInv, Waiting, NoJob, preHandoffParcel
  <2>4. /\ parcel'[s] = st /\ \A t \in ClaimSlots \ {s} : parcel'[t] = parcel[t]
        /\ ClaimTyped'
    BY <1>5, <2>1 DEF ClaimTyped
  <2>5. ClaimEnded'
    BY <1>5, EndedKept
  <2>6. SlotInv(s)'
    BY <1>0, <1>5, <2>1, <2>3, <2>4 DEF SlotInv, NothingUnderWay, NoJob, GoneParcel
  <2>7. ~ InSet(s) /\ ~ InSet(s)'
    BY <1>5, <2>1, <2>3 DEF InSet
  <2> QED
    BY <1>1, <1>5, <2>1, <2>4, <2>5, <2>6, <2>7
<1>6. CASE DeliverRemedy(s) \/ \E st \in ParcelStatus : LoseRemedy(s, st)
  <2>1. leaf[s] # "original" /\ parcel[s] = "in_transit"
        /\ UNCHANGED <<claimStatus, grouped, leaf, rjob, auth, rset>>
    BY <1>6 DEF DeliverRemedy, LoseRemedy, parentVars
  <2>2. auth[s] # "issued" /\ auth \in [ClaimSlots -> AuthStatus]
    BY <1>0, <2>1 DEF SlotInv, NothingUnderWay, Waiting, NoJob, GoneParcel, preHandoffParcel,
       ResolutionStatus, ClaimTyped
  <2>3. CASE DeliverRemedy(s)
    <3>1. /\ parcel' = [parcel EXCEPT ![s] = "delivered"] /\ "delivered" \in ParcelStatus
          /\ \E to \in {"delivered_reship", "delivered_reprint"} : MoveSlots({s}, to)
      BY <2>3 DEF DeliverRemedy, ParcelStatus
    <3> QED
      BY <1>5, <2>1, <2>2, <3>1
  <2>4. CASE \E st \in ParcelStatus : LoseRemedy(s, st)
    BY <1>5, <2>1, <2>2, <2>4 DEF LoseRemedy
  <2> QED
    BY <1>6, <2>3, <2>4
<1>7. ASSUME NEW from \in ParcelStatus, HandOffReship(s, from)
      PROVE  ClaimInv'
  <2>1. /\ leaf[s] = "reship" /\ MoveSlots({s}, "reship_shipped")
        /\ parcel' = [parcel EXCEPT ![s] = "handed_over"]
        /\ auth' = [auth EXCEPT ![s] = "consumed"]
        /\ UNCHANGED <<claimStatus, grouped, leaf, rjob, rset>>
    BY <1>7 DEF HandOffReship, parentVars
  <2>2. /\ auth' \in [ClaimSlots -> AuthStatus] /\ auth'[s] # "issued"
        /\ \A t \in ClaimSlots \ {s} : auth'[t] = auth[t]
        /\ "handed_over" \in ParcelStatus
    BY <2>1 DEF ClaimTyped, AuthStatus, ParcelStatus
  <2> QED
    BY <1>5, <2>1, <2>2
<1> QED
  BY <1>3, <1>4, <1>6, <1>7

\* Starting, handing over and recovering a set of replacements keep the invariant.
LEMMA ClaimSetStep ==
    ASSUME ClaimInv,
           \/ \E S \in SUBSET ClaimSlots : StartReplacement(S)
           \/ \E s \in ClaimSlots : \/ RecoverReplacement(s) \/ CompleteRemedyCancellation(s)
                                    \/ \E from \in ParcelStatus : HandOffReplacement(s, from)
    PROVE  ClaimInv'
<1> USE DEF ClaimInv
<1>0. \A s \in ClaimSlots : SlotInv(s) /\ rset[s] \in SUBSET ClaimSlots
  BY DEF ClaimTyped
<1>1. ASSUME NEW S \in SUBSET ClaimSlots, StartReplacement(S)
      PROVE  ClaimInv'
  <2>1. /\ MoveSlots(S, "replacement_in_production")
        /\ rset' = SetOn(rset, S, S) /\ parcel' = SetOn(parcel, S, "planned")
        /\ leaf' = SetOn(leaf, S, "reprint") /\ rjob' = SetOn(rjob, S, "created")
        /\ auth' = SetOn(auth, S, "issued") /\ UNCHANGED <<claimStatus, grouped>>
    BY <1>1 DEF StartReplacement, requireCompleteReplacementRequiredSlotSet, parentVars,
       requireIndependentReplacementResourceSet
  <2>2. /\ resolution' \in [ClaimSlots -> ResolutionStatus]
        /\ \A s \in S : resolution'[s] = "replacement_in_production"
                        /\ <<resolution[s], "replacement_in_production">> \in resolutionTransitions
        /\ \A s \in ClaimSlots \ S : resolution'[s] = resolution[s]
    BY <2>1, SlotsMoved
  <2>3. \A s \in S : resolution[s] = "reprint_pending"
    BY <2>2, ResolutionSources
  <2>4. /\ "planned" \in ParcelStatus /\ "reprint" \in LeafKind /\ "created" \in JobState
        /\ "issued" \in AuthStatus
    BY DEF ParcelStatus, LeafKind, JobState, AuthStatus
  <2>5. ClaimTyped'
    BY <2>1, <2>2, <2>4 DEF ClaimTyped, SetOn
  <2>6. /\ \A s \in S : /\ rset'[s] = S /\ parcel'[s] = "planned" /\ leaf'[s] = "reprint"
                        /\ rjob'[s] = "created" /\ auth'[s] = "issued"
        /\ \A s \in ClaimSlots \ S : /\ rset'[s] = rset[s] /\ parcel'[s] = parcel[s]
                                     /\ leaf'[s] = leaf[s] /\ rjob'[s] = rjob[s]
                                     /\ auth'[s] = auth[s]
    BY <2>1 DEF SetOn
  <2>7. ClaimEnded'
    BY <2>1, EndedKept
  <2>8. \A s \in S : SlotInv(s)'
    BY <2>2, <2>6 DEF SlotInv, Waiting, preHandoffParcel
  <2>9. \A s \in ClaimSlots : SlotInv(s)'
    BY <2>2, <2>6, <2>8, SlotSame
  <2>10. GroupsTogether'
    <3> SUFFICES ASSUME grouped, NEW s \in ClaimSlots, InProduction(s)', NEW t \in rset'[s]
                 PROVE  rset'[t] = rset'[s] /\ leaf'[t] = "reprint" /\ InSet(t)'
      BY <2>1 DEF GroupsTogether, InProduction, InSet
    <3>1. CASE s \in S
      BY <2>2, <2>6, <3>1 DEF InSet
    <3>2. CASE s \notin S
      <4>1. InProduction(s) /\ rset'[s] = rset[s] /\ t \in ClaimSlots
        BY <1>0, <2>2, <2>6, <3>2 DEF InProduction
      <4>2. rset[t] = rset[s] /\ leaf[t] = "reprint" /\ InSet(t)
        BY <4>1 DEF GroupsTogether, InProduction, InSet
      <4>3. t \notin S
        BY <2>3, <4>2 DEF InSet
      <4> QED
        BY <2>2, <2>6, <4>1, <4>2, <4>3 DEF InSet
    <3> QED
      BY <3>1, <3>2
  <2>11. ReplacementLeavesWhole'
    <3> SUFFICES ASSUME grouped, NEW s \in ClaimSlots, NEW t \in ClaimSlots,
                        leaf'[s] = "reprint", leaf'[t] = "reprint", rset'[s] = rset'[t],
                        rjob'[s] = "handed_over"
                 PROVE  rjob'[t] = "handed_over"
      BY <2>1 DEF ReplacementLeavesWhole
    <3>1. s \notin S
      BY <2>6
    <3>2. t \notin S
      <4>1. s \in rset[s] /\ rset'[s] = rset[s]
        BY <1>0, <2>6, <3>1 DEF SlotInv
      <4> QED
        BY <2>6, <3>1, <4>1
    <3> QED
      BY <2>6, <3>1, <3>2 DEF ReplacementLeavesWhole
  <2> QED
    BY <2>5, <2>7, <2>9, <2>10, <2>11
<1>2. ASSUME NEW S \in SUBSET ClaimSlots, CancelRemedies(S),
             \A s \in S : resolution[s] \in {"reship_pending", "replacement_in_production"},
             UNCHANGED <<grouped, leaf, rset>>, ClaimEnded',
             resolution' \in [ClaimSlots -> ResolutionStatus],
             \/ resolution' = resolution
             \/ /\ \A s \in S : resolution'[s] = "recovery_pending"
                /\ \A s \in ClaimSlots \ S : resolution'[s] = resolution[s]
                /\ grouped => \A s \in ClaimSlots, t \in S :
                     InProduction(s) /\ t \in rset[s] => s \in S
      PROVE  ClaimInv'
  <2>1. /\ parcel' \in [ClaimSlots -> ParcelStatus] /\ rjob' \in [ClaimSlots -> JobState]
        /\ auth' \in [ClaimSlots -> AuthStatus]
        /\ \A s \in ClaimSlots :
             /\ parcel'[s] = IF s \in S /\ leaf[s] # "original" /\ parcel[s] \in preHandoffParcel
                             THEN "cancelled" ELSE parcel[s]
             /\ rjob'[s] = IF s \in S /\ rjob[s] \in liveJob THEN "cancelled" ELSE rjob[s]
             /\ auth'[s] = IF s \in S /\ auth[s] = "issued" THEN "invalidated" ELSE auth[s]
    BY <1>2, RemediesCancelled
  <2>2. ClaimTyped'
    BY <1>2, <2>1 DEF ClaimTyped
  <2>3. \A s \in S : leaf[s] # "original" /\ Waiting(s)
    BY <1>0, <1>2 DEF SlotInv
  <2>4. \A s \in S : parcel'[s] = "cancelled" /\ NoJob(s)'
    BY <2>1, <2>3 DEF Waiting, NoJob, liveJob, preHandoffParcel
  <2>5. ASSUME NEW s \in S PROVE SlotInv(s)'
    <3>1. SlotInv(s) /\ (resolution'[s] = resolution[s] \/ resolution'[s] = "recovery_pending")
      BY <1>0, <1>2
    <3> QED
      BY <1>2, <2>3, <2>4, <3>1 DEF SlotInv, Waiting, NothingUnderWay, NoJob, GoneParcel
  <2>6. \A s \in ClaimSlots \ S : SlotInv(s)'
    BY <1>0, <1>2, <2>1, SlotSame
  <2>7. GroupsTogether'
    <3> SUFFICES ASSUME grouped, NEW s \in ClaimSlots, InProduction(s)', NEW t \in rset[s]
                 PROVE  rset[t] = rset[s] /\ leaf[t] = "reprint" /\ InSet(t)'
      BY <1>2 DEF GroupsTogether, InProduction, InSet
    <3>1. InProduction(s) /\ t \in ClaimSlots
      BY <1>0, <1>2 DEF InProduction
    <3>2. rset[t] = rset[s] /\ leaf[t] = "reprint" /\ InSet(t)
      BY <3>1 DEF GroupsTogether, InProduction, InSet
    <3>3. resolution'[t] = resolution[t]
      BY <1>2, <3>1 DEF InProduction
    <3> QED
      BY <3>2, <3>3 DEF InSet
  <2>8. ReplacementLeavesWhole'
    BY <1>2, <2>1 DEF ReplacementLeavesWhole, liveJob
  <2> QED
    BY <1>2, <2>2, <2>5, <2>6, <2>7, <2>8
<1>3. ASSUME NEW s \in ClaimSlots, grouped, InProduction(s), NEW u \in ClaimSlots,
             InProduction(u), NEW t \in rset[s], t \in rset[u]
      PROVE  u \in rset[s]
  <2>1. rset[t] = rset[s] /\ rset[t] = rset[u] /\ leaf[u] = "reprint"
    BY <1>0, <1>3 DEF GroupsTogether, InProduction, SlotInv
  <2> QED
    BY <1>0, <1>3, <2>1 DEF SlotInv
<1>4. ASSUME NEW s \in ClaimSlots, RecoverReplacement(s)
      PROVE  ClaimInv'
  <2> DEFINE S == rset[s]
  <2>1. /\ leaf[s] = "reprint" /\ \A t \in S : parcel[t] \in preHandoffParcel
        /\ MoveSlots(S, "recovery_pending") /\ CancelRemedies(S)
        /\ UNCHANGED <<claimStatus, grouped, leaf, rset>>
    BY <1>4 DEF RecoverReplacement, parentVars
  <2>2. S \in SUBSET ClaimSlots /\ s \in S
    BY <1>0, <2>1 DEF SlotInv
  <2> HIDE DEF S
  <2>3. /\ resolution' \in [ClaimSlots -> ResolutionStatus]
        /\ \A t \in S : resolution'[t] = "recovery_pending"
                        /\ <<resolution[t], "recovery_pending">> \in resolutionTransitions
        /\ \A t \in ClaimSlots \ S : resolution'[t] = resolution[t]
    BY <2>1, <2>2, SlotsMoved
  <2>4. \A t \in S : InProduction(t)
    <3>1. \A t \in S : resolution[t] \in {"reship_shipped", "replacement_in_production",
                                          "replacement_shipped"}
      BY <2>3, ResolutionSources
    <3> QED
      BY <1>0, <2>1, <2>2, <3>1 DEF SlotInv, InProduction, preHandoffParcel
  <2>5. grouped => \A u \in ClaimSlots, t \in S : InProduction(u) /\ t \in rset[u] => u \in S
    BY <1>3, <2>2, <2>4 DEF S
  <2>6. ClaimEnded'
    BY <2>1, <2>2, EndedKept
  <2> QED
    BY <1>2, <2>1, <2>2, <2>3, <2>4, <2>5, <2>6 DEF InProduction
<1>5. ASSUME NEW s \in ClaimSlots, CompleteRemedyCancellation(s)
      PROVE  ClaimInv'
  <2>1. /\ \A t \in rset[s] : parcel[t] \in preHandoffParcel
        /\ CancelRemedies(rset[s])
        /\ UNCHANGED <<claimStatus, grouped, resolution, leaf, rset>>
    BY <1>5 DEF CompleteRemedyCancellation, parentVars
  <2>2. \A t \in rset[s] : resolution[t] \in {"reship_pending", "replacement_in_production"}
    <3>1. \A t \in rset[s] : resolution[t] \in ResolutionStatus /\ SlotInv(t)
      BY <1>0 DEF ClaimTyped
    <3> QED
      BY <2>1, <3>1 DEF SlotInv, NothingUnderWay, preHandoffParcel, GoneParcel, ResolutionStatus
  <2>3. ClaimEnded' /\ resolution' \in [ClaimSlots -> ResolutionStatus]
    BY <2>1 DEF ClaimEnded, ClaimTyped
  <2> QED
    BY <1>0, <1>2, <2>1, <2>2, <2>3
<1>6. ASSUME NEW s \in ClaimSlots, NEW from \in ParcelStatus, HandOffReplacement(s, from)
      PROVE  ClaimInv'
  <2> DEFINE S == handoffScope(s)
  <2>1. /\ leaf[s] = "reprint" /\ MoveSlots(S, "replacement_shipped")
        /\ rjob' = SetOn(rjob, S, "handed_over")
        /\ parcel' = SetOn(parcel, S, "handed_over") /\ auth' = SetOn(auth, S, "consumed")
        /\ UNCHANGED <<claimStatus, grouped, leaf, rset>>
    BY <1>6 DEF HandOffReplacement, ReplacementGroupsPacked, parentVars
  <2>2. /\ S \in SUBSET ClaimSlots /\ s \in S
        /\ grouped => S = rset[s]
    BY <1>0, <2>1 DEF SlotInv, handoffScope
  <2> HIDE DEF S
  <2>3. /\ resolution' \in [ClaimSlots -> ResolutionStatus]
        /\ \A t \in S : resolution'[t] = "replacement_shipped"
                        /\ <<resolution[t], "replacement_shipped">> \in resolutionTransitions
        /\ \A t \in ClaimSlots \ S : resolution'[t] = resolution[t]
    BY <2>1, <2>2, SlotsMoved
  <2>4. \A t \in S : InProduction(t) /\ leaf[t] = "reprint"
    <3>1. \A t \in S : InProduction(t)
      BY <2>3, ResolutionSources DEF InProduction
    <3> QED
      BY <1>0, <2>2, <3>1 DEF SlotInv, InProduction
  <2>5. "handed_over" \in ParcelStatus /\ "handed_over" \in JobState /\ "consumed" \in AuthStatus
    BY DEF ParcelStatus, JobState, AuthStatus
  <2>6. ClaimTyped'
    BY <2>1, <2>3, <2>5 DEF ClaimTyped, SetOn
  <2>7. /\ \A t \in S : parcel'[t] = "handed_over" /\ rjob'[t] = "handed_over"
                        /\ auth'[t] = "consumed"
        /\ \A t \in ClaimSlots \ S : parcel'[t] = parcel[t] /\ rjob'[t] = rjob[t]
                                     /\ auth'[t] = auth[t]
    BY <2>1, <2>2 DEF SetOn
  <2>8. ClaimEnded'
    BY <2>1, <2>2, EndedKept
  <2>9. ASSUME NEW t \in S PROVE SlotInv(t)'
    <3>1. t \in rset[t] /\ leaf'[t] = "reprint" /\ rset'[t] = rset[t]
      BY <1>0, <2>1, <2>2, <2>4 DEF SlotInv
    <3>2. NoJob(t)'
      BY <2>7 DEF NoJob, liveJob
    <3> QED
      BY <2>3, <2>7, <3>1, <3>2 DEF SlotInv
  <2>10. \A t \in ClaimSlots : SlotInv(t)'
    BY <1>0, <2>1, <2>3, <2>7, <2>9, SlotSame
  <2>11. GroupsTogether'
    <3> SUFFICES ASSUME grouped, NEW u \in ClaimSlots, InProduction(u)', NEW t \in rset[u]
                 PROVE  rset[t] = rset[u] /\ leaf[t] = "reprint" /\ InSet(t)'
      BY <2>1 DEF GroupsTogether, InProduction, InSet
    <3>1. InProduction(u) /\ u \notin S /\ t \in ClaimSlots
      BY <1>0, <2>3 DEF InProduction
    <3>2. rset[t] = rset[u] /\ leaf[t] = "reprint" /\ InSet(t)
      BY <3>1 DEF GroupsTogether, InProduction, InSet
    <3>3. t \notin S
      BY <1>3, <2>2, <2>4, <3>1
    <3> QED
      BY <2>3, <3>1, <3>2, <3>3 DEF InSet
  <2>12. ReplacementLeavesWhole'
    <3> SUFFICES ASSUME grouped, NEW u \in ClaimSlots, NEW t \in ClaimSlots,
                        leaf[u] = "reprint", leaf[t] = "reprint", rset[u] = rset[t],
                        rjob'[u] = "handed_over", t \notin S
                 PROVE  rjob'[t] = "handed_over"
      BY <2>1, <2>7 DEF ReplacementLeavesWhole
    <3>1. u \notin S
      <4>1. \A v \in S : rset[v] = S
        BY <2>2, <2>4 DEF GroupsTogether, InProduction
      <4> QED
        BY <1>0, <4>1 DEF SlotInv
    <3> QED
      BY <2>7, <3>1 DEF ReplacementLeavesWhole
  <2> QED
    BY <2>6, <2>8, <2>10, <2>11, <2>12
<1> QED
  BY <1>1, <1>4, <1>5, <1>6

\* Every step of a claim keeps the invariant.
LEMMA ClaimStep ==
    ASSUME ClaimInv, [ClaimNext]_claimVars
    PROVE  ClaimInv'
<1>1. CASE UNCHANGED claimVars
  <2>1. \A s \in ClaimSlots : SlotInv(s)'
    BY <1>1, SlotSame DEF ClaimInv, claimVars
  <2> QED
    BY <1>1, <2>1 DEF ClaimInv, claimVars, ClaimTyped, ClaimEnded, GroupsTogether,
       ReplacementLeavesWhole
<1> QED
  BY <1>1, ClaimParentStep, ClaimChoiceStep, ClaimRemedyStep, ClaimSetStep DEF ClaimNext

\* For any number of slots and remedies: a closed claim leaves nothing that can
\* still be sent, no slot gets both goods and money, and a resource-group set
\* leaves whole (claimPolicy and claimSlotResolutionPolicy).
THEOREM ClaimsAreSound == ClaimSpec => []ClaimSound
<1>1. ClaimInit => ClaimInv
  <2> SUFFICES ASSUME ClaimInit PROVE ClaimInv
    OBVIOUS
  <2>1. ClaimTyped
    BY DEF ClaimInit, ClaimTyped, ResolutionStatus, ParcelStatus, LeafKind, JobState, AuthStatus
  <2>2. /\ claimStatus \notin terminalClaim
        /\ \A s \in ClaimSlots : /\ resolution[s] = "pending" /\ leaf[s] = "original"
                                 /\ rjob[s] = "none" /\ auth[s] = "none"
                                 /\ parcel[s] \in {"delivered", "lost", "returned"}
    BY DEF ClaimInit, terminalClaim
  <2> QED
    BY <2>1, <2>2 DEF ClaimInv, ClaimEnded, GroupsTogether, ReplacementLeavesWhole, SlotInv,
       NothingUnderWay, NoJob, liveJob
<1>2. ClaimInv /\ [ClaimNext]_claimVars => ClaimInv'
  BY ClaimStep
<1>3. ClaimInv => ClaimSound
  <2> SUFFICES ASSUME ClaimInv PROVE ClaimSound
    OBVIOUS
  <2>1. ClosedClaimSendsNothing
    BY DEF ClaimInv, ClaimEnded, EndedChild, ClosedClaimSendsNothing, SlotInv, NothingUnderWay,
       NoJob, GoneParcel, preHandoffParcel
  <2>2. NeverGoodsAndMoney
    BY DEF ClaimInv, NeverGoodsAndMoney, SlotInv, NothingUnderWay, GoneParcel
  <2> QED
    BY <2>1, <2>2 DEF ClaimInv, ClaimSound
<1> QED
  BY <1>1, <1>2, <1>3, PTL DEF ClaimSpec

-----------------------------------------------------------------------------
(* Orders.  Order, phase, jobs and parcels agree after every command of the   *)
(* fulfilment policies, for every number of slots, parcels and replacements.  *)
(* The invariant ties three things together: the status of a job and the      *)
(* reservation it owns, the parcel of a slot and its job, and what each       *)
(* stretch of an order's life allows its parcels to be.  The transition       *)
(* tables are restated row by row, so that a step reads off where its         *)
(* aggregate came from.                                                       *)

\* The statuses before the first handoff, the closed ones, a job that ended
\* before it left and one that left.
OpenOrder == {"confirmed", "in_production", "qc_passed", "awaiting_balance",
              "ready_to_ship", "recovery_pending"}
ClosedOrder == {"cancelled", "refunded", "cancelled_settled", "expired"}
EndedJob == {"failed", "qc_rejected", "cancelled"}
LeftJob == {"handed_over", "settled"}

\* The reservation a job owns by its status; a job that left with a parcel the
\* carrier took despite its cancellation had settled its own before.
JobOwns(s) ==
  /\ job[s].st = "none" => job[s].res = "none"
  /\ job[s].st \in cancellable => requireJobResourceSettlement(job[s])
  /\ job[s].st \in EndedJob => job[s].res \in {"released", "settled"}
  /\ job[s].st \in LeftJob => job[s].res \in {"printing", "released", "settled"}

\* Where a slot's parcel stands tells what its job may be.
JobOfParcel(s) ==
  /\ job[s].st = "none" <=> ship[parcelOf[s]] = "none"
  /\ ship[parcelOf[s]] = "cancelled" => job[s].st \in EndedJob
  /\ ship[parcelOf[s]] \in custody <=> job[s].st \in LeftJob
  /\ request[s] = "open" => job[s].st \in {"failed", "qc_rejected"}

\* A slot that was cancelled is not delivered any more: its job has ended, or
\* its parcel met an incident.
CancelledSlot(s) ==
  outcome[s] \notin {"pending", "delivered"} =>
    \/ job[s].st \in EndedJob \cup {"none"}
    \/ ship[parcelOf[s]] \in {"lost", "returned", "recovered"}

\* Which parcels and slots each stretch of an order's life allows.
ParcelsByOrder ==
  /\ \A p \in Parcels : p \notin Used => ship[p] = "none"
  /\ order \in {"draft", "quoted"} => \A p \in Parcels : ship[p] = "none"
  /\ order \in OpenOrder => \A p \in Parcels : ship[p] \notin custody
  /\ order = "delivered" => \A s \in Slots : ship[parcelOf[s]] = "delivered"
  /\ order \in ClosedOrder => \A p \in Parcels : ship[p] \notin preHandoff

SlotsByOrder ==
  /\ order \in {"draft", "quoted"} => \A s \in Slots : outcome[s] = "pending"
  /\ order = "expired" => \A s \in Slots : outcome[s] = "cancelled"
  /\ order = "shipped" /\ phase \in {"partially_fulfilled", "cancelled_refunded"} =>
       \E s \in Slots : outcome[s] = "cancelled_refunded"

OrderInv ==
  /\ LifecycleTypeOK
  /\ \A s \in Slots : JobOwns(s) /\ JobOfParcel(s) /\ CancelledSlot(s)
  /\ ParcelsByOrder /\ SlotsByOrder
  /\ PhaseFollowsOrder /\ NothingShipsUnpaid

\* The transition tables, row by row.
LEMMA OrderTable ==
  \A a, b : <<a, b>> \in orderTransitions <=>
    \/ a = "draft" /\ b \in {"quoted"}
    \/ a = "quoted" /\ b \in {"confirmed", "expired", "cancelled"}
    \/ a = "confirmed" /\ b \in {"in_production", "cancelled"}
    \/ a = "in_production" /\ b \in {"qc_passed", "recovery_pending", "cancelled"}
    \/ a = "qc_passed" /\ b \in {"awaiting_balance", "ready_to_ship",
                                 "recovery_pending", "cancelled"}
    \/ a = "awaiting_balance" /\ b \in {"ready_to_ship", "shipped", "recovery_pending",
                                        "cancelled", "cancelled_settled"}
    \/ a = "ready_to_ship" /\ b \in {"shipped", "recovery_pending", "cancelled"}
    \/ a = "shipped" /\ b \in {"delivered", "partially_fulfilled", "cancelled"}
    \/ a = "delivered" /\ b \in {"completed"}
    \/ a = "recovery_pending" /\ b \in {"qc_passed", "cancelled", "partially_fulfilled"}
    \/ a = "cancelled" /\ b \in {"shipped", "refunded", "cancelled_settled"}
    \/ a = "refunded" /\ b \in {"shipped", "cancelled"}
  BY DEF orderTransitions, Pairs

\* The rows of singleOrderPhasePolicy.transitions.
LEMMA PhaseTable ==
  \A a, b : <<a, b>> \in phaseTransitions <=>
    \/ a = "none" /\ b \in {"quoted"}
    \/ a = "quoted" /\ b \in {"active", "cancelled"}
    \/ a = "active" /\ b \in {"in_production", "cancelled"}
    \/ a = "in_production" /\ b \in {"qc_passed", "recovery_pending", "cancelled"}
    \/ a = "qc_passed" /\ b \in {"shipped", "recovery_pending", "cancelled"}
    \/ a = "shipped" /\ b \in {"delivered", "partially_fulfilled", "cancelled_refunded"}
    \/ a = "delivered" /\ b \in {"completed"}
    \/ a = "recovery_pending" /\ b \in {"qc_passed", "partially_fulfilled",
                                        "cancelled_refunded"}
    \/ a = "cancelled" /\ b \in {"shipped", "cancelled_refunded", "cancelled_settled"}
    \/ a = "cancelled_refunded" /\ b \in {"shipped", "cancelled"}
  BY DEF phaseTransitions, Pairs

\* The rows of jobPolicy.transitions.
LEMMA JobTable ==
  \A a, b : <<a, b>> \in jobTransitions <=>
    \/ a = "created" /\ b \in {"accepted", "cancelled"}
    \/ a = "accepted" /\ b \in {"gcode_ready", "failed", "cancelled"}
    \/ a = "gcode_ready" /\ b \in {"printing", "failed", "cancelled"}
    \/ a = "printing" /\ b \in {"printed", "failed", "cancelled"}
    \/ a = "printed" /\ b \in {"photo_submitted", "failed", "cancelled"}
    \/ a = "photo_submitted" /\ b \in {"qc_approved", "qc_rejected", "failed", "cancelled"}
    \/ a = "qc_approved" /\ b \in {"packed", "failed", "cancelled"}
    \/ a = "packed" /\ b \in {"handed_over", "failed", "cancelled"}
    \/ a = "cancelled" /\ b \in {"handed_over"}
    \/ a = "handed_over" /\ b \in {"settled"}
  BY DEF jobTransitions, Pairs

\* The rows of shipmentPolicy.transitions.
LEMMA ShipmentTable ==
  \A a, b : <<a, b>> \in shipmentTransitions <=>
    \/ a = "planned" /\ b \in {"label_created", "cancelled"}
    \/ a = "label_created" /\ b \in {"handed_over", "cancellation_pending"}
    \/ a = "cancellation_pending" /\ b \in {"cancelled", "handed_over"}
    \/ a = "cancelled" /\ b \in {"handed_over"}
    \/ a = "handed_over" /\ b \in {"in_transit", "delivered"}
    \/ a = "in_transit" /\ b \in {"delivered", "lost", "returned"}
    \/ a = "lost" /\ b \in {"recovered"}
  BY DEF shipmentTransitions, Pairs

\* A command that moves one job and nothing else need only look at its slot.
LEMMA OneJobMoves ==
  ASSUME OrderInv, NEW s \in Slots, UNCHANGED jobOnly,
         NEW st \in JobStatus, NEW res \in ReservationStatus,
         job' = [job EXCEPT ![s] = [st |-> st, res |-> res]],
         JobOwns(s)', JobOfParcel(s)', CancelledSlot(s)'
  PROVE  OrderInv'
<1> USE DEF jobOnly, frame, money
<1>1. LifecycleTypeOK'
  BY DEF OrderInv, LifecycleTypeOK
<1>2. ASSUME NEW t \in Slots, t # s
      PROVE  JobOwns(t)' /\ JobOfParcel(t)' /\ CancelledSlot(t)'
  <2>1. job'[t] = job[t]
    BY <1>2 DEF OrderInv, LifecycleTypeOK
  <2>2. JobOwns(t) /\ JobOfParcel(t) /\ CancelledSlot(t)
    BY DEF OrderInv
  <2> QED
    BY <2>1, <2>2 DEF JobOwns, JobOfParcel, CancelledSlot, requireJobResourceSettlement
<1>3. ParcelsByOrder' /\ SlotsByOrder' /\ PhaseFollowsOrder' /\ NothingShipsUnpaid'
  BY DEF OrderInv, ParcelsByOrder, SlotsByOrder, PhaseFollowsOrder, NothingShipsUnpaid,
         Used
<1> QED
  BY <1>1, <1>2, <1>3 DEF OrderInv

\* Accepting a job schedules the reservation it held.
LEMMA AcceptKeeps ==
  ASSUME OrderInv, NEW s \in Slots, AcceptJob(s)
  PROVE  OrderInv'
<1>1. job[s].st = "created"
  BY JobTable DEF AcceptJob, JobMay
<1>2. job'[s] = [st |-> "accepted", res |-> "scheduled"]
  BY DEF AcceptJob, SetJob, OrderInv, LifecycleTypeOK
<1>3. JobOwns(s)' /\ JobOfParcel(s)' /\ CancelledSlot(s)'
  BY <1>1, <1>2 DEF OrderInv, LifecycleTypeOK, JobOwns, JobOfParcel, CancelledSlot, AcceptJob, jobOnly,
     frame, requireJobResourceSettlement, ReservationBefore, cancellable, prePrint, onPrinter,
     EndedJob, LeftJob
<1> QED
  BY <1>3, OneJobMoves DEF AcceptJob, SetJob, JobStatus, ReservationStatus

\* Slicing keeps the scheduled reservation, printing commits it.
LEMMA SliceAndPrintKeep ==
  ASSUME OrderInv, NEW s \in Slots, ReadyGcode(s) \/ StartPrinting(s)
  PROVE  OrderInv'
<1> USE DEF JobOwns, JobOfParcel, CancelledSlot, jobOnly, frame,
            requireJobResourceSettlement, ReservationBefore, cancellable, prePrint,
            onPrinter, EndedJob, LeftJob
<1>1. CASE ReadyGcode(s)
  <2>1. job[s].st = "accepted"
    BY <1>1, JobTable DEF ReadyGcode, JobMay
  <2>2. job'[s] = [st |-> "gcode_ready", res |-> "scheduled"]
    BY <1>1 DEF ReadyGcode, SetJob, OrderInv, LifecycleTypeOK
  <2>3. JobOwns(s)' /\ JobOfParcel(s)' /\ CancelledSlot(s)'
    BY <1>1, <2>1, <2>2 DEF OrderInv, LifecycleTypeOK, ReadyGcode
  <2> QED
    BY <1>1, <2>3, OneJobMoves DEF ReadyGcode, SetJob, JobStatus, ReservationStatus
<1>2. CASE StartPrinting(s)
  <2>1. job[s].st = "gcode_ready"
    BY <1>2, JobTable DEF StartPrinting, JobMay
  <2>2. job'[s] = [st |-> "printing", res |-> "printing"]
    BY <1>2 DEF StartPrinting, SetJob, OrderInv, LifecycleTypeOK
  <2>3. JobOwns(s)' /\ JobOfParcel(s)' /\ CancelledSlot(s)'
    BY <1>2, <2>1, <2>2 DEF OrderInv, LifecycleTypeOK, StartPrinting
  <2> QED
    BY <1>2, <2>3, OneJobMoves DEF StartPrinting, SetJob, JobStatus, ReservationStatus
<1> QED
  BY <1>1, <1>2

\* Between printing and packing the reservation stays committed.
LEMMA AdvanceKeeps ==
  ASSUME OrderInv, NEW s \in Slots, NEW to \in JobStatus, AdvanceJob(s, to)
  PROVE  OrderInv'
<1>1. /\ job[s].st \in {"printing", "printed", "photo_submitted", "qc_approved"}
      /\ to \in {"printed", "photo_submitted", "qc_approved", "packed"}
  BY JobTable DEF AdvanceJob, JobMay
<1>2. job'[s] = [st |-> to, res |-> job[s].res] /\ job[s].res \in ReservationStatus
  BY DEF AdvanceJob, SetJob, OrderInv, LifecycleTypeOK
<1>3. JobOwns(s)' /\ JobOfParcel(s)' /\ CancelledSlot(s)'
  BY <1>1, <1>2 DEF OrderInv, LifecycleTypeOK, JobOwns, JobOfParcel, CancelledSlot,
     AdvanceJob, jobOnly, frame, requireJobResourceSettlement, ReservationBefore,
     cancellable, prePrint, onPrinter, EndedJob, LeftJob
<1> QED
  BY <1>2, <1>3, OneJobMoves DEF AdvanceJob, SetJob

\* Settling a delivered job leaves it with its parcel.
LEMMA SettleJobKeeps ==
  ASSUME OrderInv, NEW s \in Slots, SettleJob(s)
  PROVE  OrderInv'
<1>1. job[s].st = "handed_over"
  BY JobTable DEF SettleJob, JobMay
<1>2. job'[s] = [st |-> "settled", res |-> job[s].res] /\ job[s].res \in ReservationStatus
  BY DEF SettleJob, SetJob, OrderInv, LifecycleTypeOK
<1>3. JobOwns(s)' /\ JobOfParcel(s)' /\ CancelledSlot(s)'
  BY <1>1, <1>2 DEF OrderInv, LifecycleTypeOK, JobOwns, JobOfParcel, CancelledSlot,
     SettleJob, jobOnly, frame, cancellable, prePrint, onPrinter, EndedJob, LeftJob
<1> QED
  BY <1>2, <1>3, OneJobMoves DEF SettleJob, SetJob, JobStatus

\* Ending a job takes it off a live status and lets go of its reservation.
LEMMA EndJobResult ==
  ASSUME OrderInv, NEW s \in Slots, NEW to \in EndedJob, JobMay(s, to)
  PROVE  /\ job[s].st \in cancellable
         /\ EndJob(job[s], to).st = to
         /\ EndJob(job[s], to).res \in {"released", "settled"}
         /\ EndJob(job[s], to) = [st |-> to, res |-> ReservationAfter(job[s])]
<1>1. job[s].st \in cancellable
  BY JobTable DEF JobMay, EndedJob, cancellable, prePrint, onPrinter
<1> QED
  BY <1>1 DEF EndJob, ReservationAfter

\* Cancelling a created job releases what it held.
LEMMA CancelCreatedKeeps ==
  ASSUME OrderInv, NEW s \in Slots, CancelCreatedJob(s)
  PROVE  OrderInv'
<1>1. /\ job'[s].st = "cancelled" /\ job[s].st = "created"
      /\ job'[s].res \in {"released", "settled"}
      /\ job' = [job EXCEPT ![s] = [st |-> "cancelled", res |-> ReservationAfter(job[s])]]
  BY EndJobResult DEF CancelCreatedJob, EndedJob, OrderInv, LifecycleTypeOK, EndJob
<1>2. JobOwns(s)' /\ JobOfParcel(s)' /\ CancelledSlot(s)'
  BY <1>1 DEF OrderInv, LifecycleTypeOK, JobOwns, JobOfParcel, CancelledSlot,
     CancelCreatedJob, jobOnly, frame, cancellable, prePrint, onPrinter, EndedJob, LeftJob
<1>3. ReservationAfter(job[s]) \in ReservationStatus
  BY DEF ReservationAfter, ReservationStatus
<1> QED
  BY <1>1, <1>2, <1>3, OneJobMoves DEF CancelCreatedJob, JobStatus

\* A slot whose job, request, outcome and parcel a command leaves alone.
LEMMA SlotUntouched ==
  ASSUME OrderInv, NEW t \in Slots, UNCHANGED parcelOf,
         job'[t] = job[t], request'[t] = request[t], outcome'[t] = outcome[t],
         ship'[parcelOf[t]] = ship[parcelOf[t]]
  PROVE  JobOwns(t)' /\ JobOfParcel(t)' /\ CancelledSlot(t)'
<1>1. JobOwns(t) /\ JobOfParcel(t) /\ CancelledSlot(t)
  BY DEF OrderInv
<1> QED
  BY <1>1 DEF JobOwns, JobOfParcel, CancelledSlot, requireJobResourceSettlement

\* What is said of the order as a whole, when its statuses, parcels and
\* outcomes stay.
LEMMA OrderUntouched ==
  ASSUME OrderInv, UNCHANGED <<order, phase, due, parcelOf, ship, outcome>>
  PROVE  ParcelsByOrder' /\ SlotsByOrder' /\ PhaseFollowsOrder' /\ NothingShipsUnpaid'
  BY DEF OrderInv, ParcelsByOrder, SlotsByOrder, PhaseFollowsOrder, NothingShipsUnpaid,
         Used

\* A failure takes an order into recovery before its first handoff, or leaves
\* a shipped one where it is.
LEMMA RecoveryKeeps ==
  ASSUME OrderInv, UNCHANGED <<due, parcelOf, ship, outcome>>,
         requirePostQcJobFailureResolution \/ UNCHANGED <<order, phase>>
  PROVE  /\ order' \in OrderStatus /\ phase' \in PhaseStatus
         /\ ParcelsByOrder' /\ SlotsByOrder' /\ PhaseFollowsOrder' /\ NothingShipsUnpaid'
<1>1. CASE UNCHANGED <<order, phase>>
  BY <1>1, OrderUntouched DEF OrderInv, LifecycleTypeOK
<1>2. CASE RecoverBeforeHandoff
  <2>1. /\ order' = "recovery_pending" /\ phase' = "recovery_pending"
        /\ order \in {"in_production", "qc_passed", "awaiting_balance", "ready_to_ship"}
    BY <1>2, OrderTable DEF RecoverBeforeHandoff, MoveOrder, MovePhase
  <2> QED
    BY <2>1 DEF OrderInv, ParcelsByOrder, SlotsByOrder, PhaseFollowsOrder,
       NothingShipsUnpaid, Used, OpenOrder, ClosedOrder, OrderStatus, PhaseStatus
<1> QED
  BY <1>1, <1>2 DEF requirePostQcJobFailureResolution, BlockAfterHandoff

\* A rejected or failed job ends with its reservation and opens a replacement
\* request.
LEMMA FailureKeeps ==
  ASSUME OrderInv, NEW s \in Slots, RejectQc(s) \/ FailJob(s)
  PROVE  OrderInv'
<1>1. PICK to \in {"qc_rejected", "failed"} : requireAtomicJobFailureSettlement(s, to)
  BY DEF RejectQc, FailJob
<1>2. /\ UNCHANGED <<frame, money, replaced, ship, label, scanned, outcome, claim>>
      /\ requirePostQcJobFailureResolution \/ UNCHANGED <<order, phase>>
  BY DEF RejectQc, FailJob
<1>3. /\ job[s].st \in cancellable
      /\ job'[s].st = to /\ job'[s].res \in {"released", "settled"}
      /\ job' = [job EXCEPT ![s] = [st |-> to, res |-> ReservationAfter(job[s])]]
      /\ request' = [request EXCEPT ![s] = "open"]
  BY <1>1, EndJobResult
     DEF requireAtomicJobFailureSettlement, EndedJob, OrderInv, LifecycleTypeOK, EndJob
<1>4. LifecycleTypeOK'
  <2>1. ReservationAfter(job[s]) \in ReservationStatus
    BY DEF ReservationAfter, ReservationStatus
  <2> QED
    BY <1>2, <1>3, <2>1, RecoveryKeeps
       DEF OrderInv, LifecycleTypeOK, frame, money, JobStatus
<1>5. JobOwns(s)' /\ JobOfParcel(s)' /\ CancelledSlot(s)'
  BY <1>2, <1>3 DEF OrderInv, LifecycleTypeOK, JobOwns, JobOfParcel, CancelledSlot,
     frame, cancellable, prePrint, onPrinter, EndedJob, LeftJob
<1>6. ASSUME NEW t \in Slots, t # s
      PROVE  JobOwns(t)' /\ JobOfParcel(t)' /\ CancelledSlot(t)'
  <2>1. job'[t] = job[t] /\ request'[t] = request[t]
    BY <1>3, <1>6 DEF OrderInv, LifecycleTypeOK
  <2> QED
    BY <2>1, <1>2, SlotUntouched DEF frame
<1>7. ParcelsByOrder' /\ SlotsByOrder' /\ PhaseFollowsOrder' /\ NothingShipsUnpaid'
  BY <1>2, RecoveryKeeps DEF frame, money
<1> QED
  BY <1>4, <1>5, <1>6, <1>7 DEF OrderInv

\* Cancelling an accepted job cancels its parcel only when every sibling was
\* cancelled before.
LEMMA CancelAcceptedKeeps ==
  ASSUME OrderInv, NEW s \in Slots, CancelAcceptedJob(s)
  PROVE  OrderInv'
<1> DEFINE p == parcelOf[s]
<1>1. /\ job[s].st \in cancellable /\ job[s].st # "created"
      /\ job'[s].st = "cancelled" /\ job'[s].res \in {"released", "settled"}
      /\ job' = [job EXCEPT ![s] = [st |-> "cancelled", res |-> ReservationAfter(job[s])]]
  BY EndJobResult DEF CancelAcceptedJob, EndedJob, OrderInv, LifecycleTypeOK, EndJob
<1>2. /\ p \in Parcels /\ ship[p] \in preHandoff
      /\ UNCHANGED <<order, phase, frame, money, request, replaced, scanned, outcome, claim>>
      /\ ship' = [ship EXCEPT ![p] = IF RemainingContributors(s) # {} THEN ship[p]
                                     ELSE "cancelled"]
  BY DEF CancelAcceptedJob, CancellableScope, ShipmentAfterCancellation, OrderInv,
         LifecycleTypeOK
<1>3. LifecycleTypeOK'
  <2>1. ReservationAfter(job[s]) \in ReservationStatus
    BY DEF ReservationAfter, ReservationStatus
  <2>2. label' \in [Parcels -> {"none", "usable", "invalidated"}]
    BY <1>2 DEF CancelAcceptedJob, LabelAfterCancellation, OrderInv, LifecycleTypeOK
  <2>3. ship' \in [Parcels -> ShipmentStatus]
    BY <1>2 DEF OrderInv, LifecycleTypeOK, ShipmentStatus
  <2> QED
    BY <1>1, <1>2, <2>1, <2>2, <2>3 DEF OrderInv, LifecycleTypeOK, frame, money, JobStatus
<1>4. JobOwns(s)' /\ JobOfParcel(s)' /\ CancelledSlot(s)'
  BY <1>1, <1>2 DEF OrderInv, LifecycleTypeOK, JobOwns, JobOfParcel, CancelledSlot,
     frame, cancellable, prePrint, onPrinter, EndedJob, LeftJob, preHandoff, custody
<1>5. ASSUME NEW t \in Slots, t # s
      PROVE  JobOwns(t)' /\ JobOfParcel(t)' /\ CancelledSlot(t)'
  <2>1. job'[t] = job[t] /\ request'[t] = request[t] /\ outcome'[t] = outcome[t]
    BY <1>1, <1>2, <1>5 DEF OrderInv, LifecycleTypeOK
  <2>2. CASE ship'[parcelOf[t]] = ship[parcelOf[t]]
    BY <2>1, <2>2, <1>2, SlotUntouched DEF frame
  <2>3. CASE ship'[parcelOf[t]] # ship[parcelOf[t]]
    <3>1. parcelOf[t] = p /\ RemainingContributors(s) = {} /\ ship'[p] = "cancelled"
      BY <2>3, <1>2 DEF OrderInv, LifecycleTypeOK
    <3>2. job[t].st = "cancelled"
      BY <3>1, <1>5 DEF RemainingContributors, SlotsIn
    <3>3. JobOwns(t) /\ JobOfParcel(t)
      BY DEF OrderInv
    <3> QED
      BY <3>1, <3>2, <3>3, <2>1, <1>2 DEF JobOwns, JobOfParcel, CancelledSlot, frame,
         requireJobResourceSettlement, cancellable, prePrint, onPrinter, EndedJob, LeftJob,
         custody
  <2> QED
    BY <2>2, <2>3
<1>6. ParcelsByOrder'
  <2>1. p \in Used
    BY DEF Used
  <2>2. \A q \in Parcels : ship'[q] = ship[q] \/ (q = p /\ ship'[q] = "cancelled")
    BY <1>2 DEF OrderInv, LifecycleTypeOK
  <2>3. order \notin {"draft", "quoted"}
    BY <1>2 DEF OrderInv, ParcelsByOrder, preHandoff
  <2> QED
    BY <2>1, <2>2, <2>3, <1>2 DEF OrderInv, ParcelsByOrder, Used, frame, custody, preHandoff
<1>7. SlotsByOrder' /\ PhaseFollowsOrder' /\ NothingShipsUnpaid'
  BY <1>2 DEF OrderInv, SlotsByOrder, PhaseFollowsOrder, NothingShipsUnpaid, money
<1> QED
  BY <1>3, <1>4, <1>5, <1>6, <1>7 DEF OrderInv

\* A replacement starts over in a parcel that has not left and in a slot that is
\* still pending.
LEMMA ReplaceKeeps ==
  ASSUME OrderInv, NEW s \in Slots, ReplaceJob(s)
  PROVE  OrderInv'
<1>1. /\ job'[s] = [st |-> "created", res |-> "held"] /\ request'[s] = "none"
      /\ ship[parcelOf[s]] \in {"planned", "label_created"} /\ outcome[s] = "pending"
      /\ UNCHANGED <<order, phase, frame, money, ship, label, scanned, outcome, claim>>
  BY DEF ReplaceJob, SetJob, OrderInv, LifecycleTypeOK
<1>2. LifecycleTypeOK'
  <2>1. replaced' \in [Slots -> 0..MaxReplacements]
    BY LifecycleAssumption DEF ReplaceJob, OrderInv, LifecycleTypeOK
  <2>2. job' \in [Slots -> [st : JobStatus, res : ReservationStatus]]
    BY DEF ReplaceJob, SetJob, OrderInv, LifecycleTypeOK, JobStatus, ReservationStatus
  <2>3. request' \in [Slots -> {"none", "open"}]
    BY DEF ReplaceJob, OrderInv, LifecycleTypeOK
  <2> QED
    BY <2>1, <2>2, <2>3, <1>1 DEF OrderInv, LifecycleTypeOK, frame, money
<1>3. JobOwns(s)' /\ JobOfParcel(s)' /\ CancelledSlot(s)'
  BY <1>1 DEF JobOwns, JobOfParcel, CancelledSlot, frame, requireJobResourceSettlement,
     ReservationBefore, cancellable, prePrint, onPrinter, EndedJob, LeftJob, custody
<1>4. ASSUME NEW t \in Slots, t # s
      PROVE  JobOwns(t)' /\ JobOfParcel(t)' /\ CancelledSlot(t)'
  <2>1. job'[t] = job[t] /\ request'[t] = request[t]
    BY <1>4 DEF ReplaceJob, SetJob, OrderInv, LifecycleTypeOK
  <2> QED
    BY <2>1, <1>1, SlotUntouched DEF frame
<1>5. ParcelsByOrder' /\ SlotsByOrder' /\ PhaseFollowsOrder' /\ NothingShipsUnpaid'
  BY <1>1, OrderUntouched DEF frame, money
<1> QED
  BY <1>2, <1>3, <1>4, <1>5 DEF OrderInv

\* A slot is refunded on its own only when its job ended or its parcel met an
\* incident, so it is never delivered afterwards.
LEMMA RefundSlotKeeps ==
  ASSUME OrderInv, NEW s \in Slots, RefundSlot(s)
  PROVE  OrderInv'
<1>1. /\ outcome' = [outcome EXCEPT ![s] = "cancelled_refunded"]
      /\ request' = [request EXCEPT ![s] = "none"]
      /\ claim' = [claim EXCEPT ![s] = FALSE]
      /\ order \in {"shipped", "recovery_pending"}
      /\ UNCHANGED <<frame, money, order, phase, job, replaced, ship, label, scanned>>
  BY DEF RefundSlot
<1>2. LifecycleTypeOK'
  BY <1>1 DEF OrderInv, LifecycleTypeOK, frame, money, SlotOutcome
<1>3. JobOwns(s)' /\ JobOfParcel(s)' /\ CancelledSlot(s)'
  <2>1. JobOwns(s) /\ JobOfParcel(s)
    BY DEF OrderInv
  <2>2. request'[s] = "none"
    BY <1>1 DEF OrderInv, LifecycleTypeOK
  <2>3. \/ job[s].st \in EndedJob
        \/ ship[parcelOf[s]] \in {"lost", "returned", "recovered"}
    BY <2>1 DEF RefundSlot, JobOfParcel, EndedJob
  <2> QED
    BY <2>1, <2>2, <2>3, <1>1
       DEF JobOwns, JobOfParcel, CancelledSlot, frame, requireJobResourceSettlement
<1>4. ASSUME NEW t \in Slots, t # s
      PROVE  JobOwns(t)' /\ JobOfParcel(t)' /\ CancelledSlot(t)'
  <2>1. outcome'[t] = outcome[t] /\ request'[t] = request[t]
    BY <1>1, <1>4 DEF OrderInv, LifecycleTypeOK
  <2> QED
    BY <2>1, <1>1, SlotUntouched DEF frame
<1>5. SlotsByOrder'
  <2>1. \A t \in Slots : outcome[t] = "cancelled_refunded" => outcome'[t] = "cancelled_refunded"
    BY <1>1 DEF OrderInv, LifecycleTypeOK
  <2> QED
    BY <2>1, <1>1 DEF OrderInv, SlotsByOrder
<1>6. ParcelsByOrder' /\ PhaseFollowsOrder' /\ NothingShipsUnpaid'
  BY <1>1 DEF OrderInv, ParcelsByOrder, PhaseFollowsOrder, NothingShipsUnpaid, Used, frame,
     money
<1> QED
  BY <1>2, <1>3, <1>4, <1>5, <1>6 DEF OrderInv

\* Quality claims touch neither goods nor money of the order.
LEMMA QualityClaimKeeps ==
  ASSUME OrderInv, NEW s \in Slots, OpenClaim(s) \/ ResolveClaim(s)
  PROVE  OrderInv'
<1>1. /\ UNCHANGED <<shipOnly, frame, job, ship, label, scanned>>
      /\ claim' \in [Slots -> BOOLEAN]
  BY DEF OpenClaim, ResolveClaim, OrderInv, LifecycleTypeOK
<1>2. LifecycleTypeOK'
  BY <1>1 DEF OrderInv, LifecycleTypeOK, shipOnly, frame, money
<1>3. ASSUME NEW t \in Slots
      PROVE  JobOwns(t)' /\ JobOfParcel(t)' /\ CancelledSlot(t)'
  BY <1>1, SlotUntouched DEF shipOnly, frame
<1>4. ParcelsByOrder' /\ SlotsByOrder' /\ PhaseFollowsOrder' /\ NothingShipsUnpaid'
  BY <1>1, OrderUntouched DEF shipOnly, frame, money
<1> QED
  BY <1>2, <1>3, <1>4 DEF OrderInv

\* Every command on one slot.
LEMMA JobCommandKeeps ==
  ASSUME OrderInv, JobCommand
  PROVE  OrderInv'
  BY AcceptKeeps, SliceAndPrintKeep, AdvanceKeeps, SettleJobKeeps, CancelCreatedKeeps,
     FailureKeeps, CancelAcceptedKeeps, ReplaceKeeps, RefundSlotKeeps, QualityClaimKeeps
     DEF JobCommand

-----------------------------------------------------------------------------
\* A command on the order and its phase alone: jobs, parcels and outcomes stay.
LEMMA StatusesMove ==
  ASSUME OrderInv, UNCHANGED <<aggOnly, refundable, outcome>>, due' \in BOOLEAN,
         order' \in OrderStatus, phase' \in PhaseStatus,
         ParcelsByOrder', SlotsByOrder', PhaseFollowsOrder', NothingShipsUnpaid'
  PROVE  OrderInv'
<1>1. LifecycleTypeOK'
  BY DEF OrderInv, LifecycleTypeOK, aggOnly, frame
<1>2. ASSUME NEW t \in Slots
      PROVE  JobOwns(t)' /\ JobOfParcel(t)' /\ CancelledSlot(t)'
  BY SlotUntouched DEF aggOnly, frame
<1> QED
  BY <1>1, <1>2 DEF OrderInv

\* Quoting a draft.
LEMMA QuoteKeeps ==
  ASSUME OrderInv, QuoteOrder
  PROVE  OrderInv'
<1>1. order = "draft" /\ order' = "quoted" /\ phase' = "quoted"
  BY OrderTable DEF QuoteOrder, MoveOrder, MovePhase
<1> QED
  BY <1>1, StatusesMove DEF QuoteOrder, OrderInv, LifecycleTypeOK, ParcelsByOrder, SlotsByOrder,
     PhaseFollowsOrder, NothingShipsUnpaid, Used, OpenOrder, ClosedOrder, OrderStatus,
     PhaseStatus, aggOnly, frame, money

\* Production, quality control and the balance.
LEMMA ProgressKeeps ==
  ASSUME OrderInv,
         StartProduction \/ CompleteQc \/ AwaitBalance \/ CaptureBalance \/ MarkReadyToShip
  PROVE  OrderInv'
<1>1. /\ UNCHANGED <<aggOnly, refundable, outcome>>
      /\ due' = due \/ due' = FALSE
      /\ order \in OpenOrder /\ order' \in OpenOrder
      /\ \/ order' = "in_production" /\ phase' = "in_production"
         \/ order' = "qc_passed" /\ phase' = "qc_passed"
         \/ order' \in {"awaiting_balance", "ready_to_ship"} /\ phase' = phase
              /\ order \in {"qc_passed", "awaiting_balance"}
      /\ order' = "ready_to_ship" => ~due'
  BY DEF StartProduction, CompleteQc, AwaitBalance, CaptureBalance,
     MarkReadyToShip, MoveOrder, MovePhase, OpenOrder, requireZeroBalances
<1>2. phase' \in PhaseStatus /\ order' \in OrderStatus /\ due' \in BOOLEAN
  BY <1>1 DEF OrderInv, LifecycleTypeOK, PhaseStatus, OrderStatus, OpenOrder
<1>3. ParcelsByOrder'
  BY <1>1 DEF OrderInv, ParcelsByOrder, Used, aggOnly, frame, OpenOrder, ClosedOrder
<1>4. SlotsByOrder' /\ PhaseFollowsOrder' /\ NothingShipsUnpaid'
  BY <1>1 DEF OrderInv, SlotsByOrder, PhaseFollowsOrder, NothingShipsUnpaid, OpenOrder
<1> QED
  BY <1>1, <1>2, <1>3, <1>4, StatusesMove

\* A command on the order, its phase, its balance and its outcomes: jobs and
\* parcels stay.
LEMMA OutcomesMove ==
  ASSUME OrderInv, UNCHANGED aggOnly,
         due' \in BOOLEAN, refundable' \in BOOLEAN, outcome' \in [Slots -> SlotOutcome],
         order' \in OrderStatus, phase' \in PhaseStatus,
         \A t \in Slots : CancelledSlot(t)',
         ParcelsByOrder', SlotsByOrder', PhaseFollowsOrder', NothingShipsUnpaid'
  PROVE  OrderInv'
<1>1. LifecycleTypeOK'
  BY DEF OrderInv, LifecycleTypeOK, aggOnly, frame
<1>2. ASSUME NEW t \in Slots
      PROVE  JobOwns(t)' /\ JobOfParcel(t)'
  <2>1. JobOwns(t) /\ JobOfParcel(t)
    BY DEF OrderInv
  <2> QED
    BY <2>1 DEF JobOwns, JobOfParcel, requireJobResourceSettlement, aggOnly, frame
<1> QED
  BY <1>1, <1>2 DEF OrderInv

\* The initial capture creates one job per slot and plans every parcel in use.
LEMMA CaptureKeeps ==
  ASSUME OrderInv, CaptureInitialPayment
  PROVE  OrderInv'
<1>1. /\ order' = "confirmed" /\ phase' = "active" /\ due' = deposit
      /\ UNCHANGED <<frame, refundable, deposit, request, replaced, label, scanned, outcome,
                     claim>>
      /\ job' = [s \in Slots |-> [st |-> "created", res |-> "held"]]
      /\ ship' = [p \in Parcels |-> IF p \in Used THEN "planned" ELSE "none"]
      /\ order = "quoted" /\ phase = "quoted"
  BY DEF CaptureInitialPayment, MoveOrder, MovePhase, requireAtomicConfirmationActivation,
         requireCompleteConfirmationJobLinks
<1>2. LifecycleTypeOK'
  BY <1>1 DEF OrderInv, LifecycleTypeOK, frame, OrderStatus, PhaseStatus, JobStatus,
     ReservationStatus, ShipmentStatus
<1>3. ASSUME NEW t \in Slots
      PROVE  JobOwns(t)' /\ JobOfParcel(t)' /\ CancelledSlot(t)'
  <2>1. ship'[parcelOf[t]] = "planned" /\ job'[t] = [st |-> "created", res |-> "held"]
    BY <1>1 DEF OrderInv, LifecycleTypeOK, Used
  <2>2. job[t].st = "none" /\ JobOfParcel(t) /\ CancelledSlot(t)
    BY <1>1 DEF OrderInv, ParcelsByOrder, JobOfParcel, LifecycleTypeOK
  <2>3. request[t] = "none"
    BY <2>2 DEF JobOfParcel, EndedJob, OrderInv, LifecycleTypeOK
  <2>4. outcome[t] = "pending"
    BY <1>1 DEF OrderInv, SlotsByOrder
  <2> QED
    BY <1>1, <2>1, <2>3, <2>4 DEF JobOwns, JobOfParcel, CancelledSlot, frame, requireJobResourceSettlement,
       ReservationBefore, cancellable, prePrint, onPrinter, EndedJob, LeftJob, custody
<1>4. ParcelsByOrder' /\ SlotsByOrder' /\ PhaseFollowsOrder' /\ NothingShipsUnpaid'
  BY <1>1 DEF ParcelsByOrder, SlotsByOrder, PhaseFollowsOrder, NothingShipsUnpaid, Used,
     frame, OpenOrder, ClosedOrder, custody
<1> QED
  BY <1>2, <1>3, <1>4 DEF OrderInv

\* A checkout that is closed has no job and no parcel yet.
LEMMA CloseKeeps ==
  ASSUME OrderInv,
         CompensateCapacityCapture \/ \E target \in {"expired", "cancelled"} : CloseCheckout(target)
  PROVE  OrderInv'
<1>1. /\ order = "quoted" /\ order' \in {"expired", "cancelled"} /\ phase' = "cancelled"
      /\ outcome' = [s \in Slots |-> "cancelled"]
      /\ UNCHANGED <<aggOnly, due>>
      /\ refundable' = refundable \/ refundable' = TRUE
  BY DEF CompensateCapacityCapture, CloseCheckout, requireInitialCaptureWindowClosed, MoveOrder,
         MovePhase, aggOnly, frame, money
<1>2. \A t \in Slots : job[t].st = "none" /\ UNCHANGED job
  BY <1>1 DEF OrderInv, ParcelsByOrder, JobOfParcel, LifecycleTypeOK, aggOnly
<1>3. /\ due' \in BOOLEAN /\ refundable' \in BOOLEAN /\ outcome' \in [Slots -> SlotOutcome]
      /\ order' \in OrderStatus /\ phase' \in PhaseStatus
  BY <1>1 DEF OrderInv, LifecycleTypeOK, SlotOutcome, OrderStatus, PhaseStatus
<1>4. \A t \in Slots : CancelledSlot(t)'
  BY <1>2 DEF CancelledSlot
<1>5. ParcelsByOrder'
  BY <1>1 DEF OrderInv, ParcelsByOrder, Used, aggOnly, frame, OpenOrder, ClosedOrder, preHandoff
<1>6. SlotsByOrder' /\ PhaseFollowsOrder' /\ NothingShipsUnpaid'
  BY <1>1 DEF SlotsByOrder, PhaseFollowsOrder, NothingShipsUnpaid
<1> QED
  BY <1>1, <1>3, <1>4, <1>5, <1>6, OutcomesMove

\* A slot whose parcel was delivered is not a cancelled one.
LEMMA DeliveredSlots ==
  ASSUME OrderInv, NEW s \in Slots, ship[parcelOf[s]] = "delivered"
  PROVE  outcome[s] \in {"pending", "delivered"}
<1>1. JobOfParcel(s) /\ CancelledSlot(s)
  BY DEF OrderInv
<1> QED
  BY <1>1 DEF JobOfParcel, CancelledSlot, custody, LeftJob, EndedJob

\* Order and phase are delivered when every parcel is; a slot cancelled before
\* rules that out.
LEMMA DeliveryKeeps ==
  ASSUME OrderInv, DeliverOrder \/ DeliverPhase
  PROVE  OrderInv'
<1>1. /\ \A s \in Slots : outcome[s] # "cancelled_refunded"
      /\ \A s \in Slots : ship[parcelOf[s]] = "delivered"
  BY DeliveredSlots DEF DeliverOrder, DeliverPhase, requireAllShipmentLineageLeavesDelivered,
     LineageLeafDelivered, Used
<1>2. /\ UNCHANGED <<aggOnly, due, refundable, outcome>>
      /\ \/ order = "shipped" /\ order' = "delivered" /\ phase' = phase
         \/ phase = "shipped" /\ phase' = "delivered" /\ order' = order
  BY OrderTable, PhaseTable DEF DeliverOrder, DeliverPhase, MoveOrder, MovePhase
<1>3. order \in {"shipped", "delivered"} /\ order' \in {"shipped", "delivered"}
  BY <1>2 DEF OrderInv, PhaseFollowsOrder, LifecycleTypeOK, OrderStatus
<1>4. phase \notin {"partially_fulfilled", "cancelled_refunded"}
  BY <1>1, <1>3 DEF OrderInv, SlotsByOrder, PhaseFollowsOrder
<1>5. order' \in OrderStatus /\ phase' \in PhaseStatus /\ due' \in BOOLEAN
  BY <1>2 DEF OrderInv, LifecycleTypeOK, OrderStatus, PhaseStatus
<1>6. ParcelsByOrder'
  BY <1>1, <1>2, <1>3 DEF OrderInv, ParcelsByOrder, Used, aggOnly, frame, OpenOrder,
     ClosedOrder
<1>7. SlotsByOrder' /\ PhaseFollowsOrder' /\ NothingShipsUnpaid'
  BY <1>2, <1>3, <1>4 DEF OrderInv, SlotsByOrder, PhaseFollowsOrder, NothingShipsUnpaid
<1> QED
  BY <1>2, <1>5, <1>6, <1>7, StatusesMove

\* Completing a delivered order.
LEMMA CompleteKeeps ==
  ASSUME OrderInv, CompleteOrder
  PROVE  OrderInv'
<1>1. /\ UNCHANGED <<aggOnly, due, refundable, outcome>>
      /\ order = "delivered" /\ order' = "completed" /\ phase' = "completed"
  BY DEF CompleteOrder, MoveOrder, MovePhase
<1>2. order' \in OrderStatus /\ phase' \in PhaseStatus /\ due' \in BOOLEAN
  BY <1>1 DEF OrderInv, LifecycleTypeOK, OrderStatus, PhaseStatus
<1>3. ParcelsByOrder'
  BY <1>1 DEF OrderInv, ParcelsByOrder, Used, aggOnly, frame, OpenOrder, ClosedOrder
<1>4. SlotsByOrder' /\ PhaseFollowsOrder' /\ NothingShipsUnpaid'
  BY <1>1 DEF OrderInv, SlotsByOrder, PhaseFollowsOrder, NothingShipsUnpaid
<1> QED
  BY <1>1, <1>2, <1>3, <1>4, StatusesMove

\* The order takes its terminal status with its phase, or after it.
LEMMA TerminateOrderKeeps ==
  ASSUME OrderInv, NEW target \in OrderStatus, TerminateOrder(target)
  PROVE  OrderInv'
<1>1. /\ UNCHANGED <<aggOnly, due, refundable, outcome>> /\ ~due
      /\ order' = target
      /\ \/ /\ order \in {"shipped", "recovery_pending"} /\ target = "partially_fulfilled"
            /\ phase' = "partially_fulfilled"
         \/ order = "cancelled" /\ target = "refunded" /\ phase' = "cancelled_refunded"
         \/ order = "cancelled" /\ target = "cancelled_settled" /\ phase' = "cancelled_settled"
  BY DEF TerminateOrder, MoveOrder, MovePhase, expectedOrderTerminalPhaseDisposition,
         requireZeroBalances
<1>2. order' \in OrderStatus /\ phase' \in PhaseStatus /\ due' \in BOOLEAN
  BY <1>1 DEF OrderInv, LifecycleTypeOK, OrderStatus, PhaseStatus
<1>3. ParcelsByOrder'
  BY <1>1 DEF OrderInv, ParcelsByOrder, Used, aggOnly, frame, OpenOrder, ClosedOrder
<1>4. SlotsByOrder' /\ PhaseFollowsOrder' /\ NothingShipsUnpaid'
  BY <1>1 DEF OrderInv, SlotsByOrder, PhaseFollowsOrder, NothingShipsUnpaid
<1> QED
  BY <1>1, <1>2, <1>3, <1>4, StatusesMove

\* The phase takes a terminal status first; an expired order and a delivered one
\* have no slot that would let it.
LEMMA TerminatePhaseKeeps ==
  ASSUME OrderInv, NEW target \in PhaseStatus, TerminatePhase(target)
  PROVE  OrderInv'
<1>1. /\ UNCHANGED <<aggOnly, order, due, refundable, outcome>>
      /\ phase' = target
      /\ target \in {"partially_fulfilled", "cancelled_refunded", "cancelled_settled"}
      /\ requireProjectedCompletionTarget(target)
      /\ \/ phase \in {"shipped", "recovery_pending"} /\ target # "cancelled_settled"
         \/ phase = "cancelled" /\ target # "partially_fulfilled"
  BY PhaseTable DEF TerminatePhase, MovePhase
<1>2. /\ \E s \in Slots : outcome[s] # "cancelled"
      /\ target # "cancelled_settled" => \E s \in Slots : outcome[s] = "cancelled_refunded"
  BY <1>1, LifecycleAssumption DEF requireProjectedCompletionTarget, expectedOutcomes
<1>3. order # "expired"
  BY <1>2 DEF OrderInv, SlotsByOrder
<1>4. order \in {"shipped", "recovery_pending", "cancelled"}
  <2>1. order # "delivered"
    BY <1>1, <1>2, DeliveredSlots DEF OrderInv, ParcelsByOrder, PhaseFollowsOrder
  <2> QED
    BY <1>1, <1>3, <2>1 DEF OrderInv, PhaseFollowsOrder, LifecycleTypeOK, OrderStatus
<1>5. order' \in OrderStatus /\ phase' \in PhaseStatus /\ due' \in BOOLEAN
  BY <1>1 DEF OrderInv, LifecycleTypeOK, OrderStatus, PhaseStatus
<1>6. ParcelsByOrder'
  BY <1>1 DEF OrderInv, ParcelsByOrder, Used, aggOnly, frame, OpenOrder, ClosedOrder
<1>7. SlotsByOrder' /\ PhaseFollowsOrder' /\ NothingShipsUnpaid'
  BY <1>1, <1>2, <1>3, <1>4 DEF OrderInv, SlotsByOrder, PhaseFollowsOrder, NothingShipsUnpaid
<1> QED
  BY <1>1, <1>5, <1>6, <1>7, StatusesMove

\* Cancelling an open order finds every parcel's cancellation completed and
\* none at the carrier, so every job has ended.
LEMMA OpenOrderEnded ==
  ASSUME OrderInv, order \in OpenOrder, preHandoffShipmentCancellationsCompleted,
         NEW s \in Slots
  PROVE  job[s].st \in EndedJob \cup {"none"}
<1>1. parcelOf[s] \in Parcels /\ parcelOf[s] \in Used /\ ship[parcelOf[s]] \in ShipmentStatus
  BY DEF OrderInv, LifecycleTypeOK, Used
<1>2. ship[parcelOf[s]] \in {"none", "cancelled"}
  BY <1>1 DEF OrderInv, ParcelsByOrder, preHandoffShipmentCancellationsCompleted,
     ShipmentStatus, preHandoff, custody
<1> QED
  BY <1>2 DEF OrderInv, JobOfParcel

\* With every pre-handoff cancellation completed no parcel waits to leave.
LEMMA CompletedCancellations ==
  ASSUME OrderInv, preHandoffShipmentCancellationsCompleted, NEW p \in Parcels
  PROVE  ship[p] \notin preHandoff
  BY DEF OrderInv, ParcelsByOrder, preHandoffShipmentCancellationsCompleted, preHandoff

\* Cancelling the order with its phase.
LEMMA CancelKeeps ==
  ASSUME OrderInv, CancelOrder
  PROVE  OrderInv'
<1>1. PICK d \in expectedOrderCancellationPhaseDisposition :
        /\ phase = d.phase
        /\ preHandoffShipmentCancellationsCompleted
        /\ order' = "cancelled" /\ phase' = d.target
        /\ \/ /\ d.target = "cancelled_refunded"
              /\ requireZeroBalances
              /\ UNCHANGED <<due, refundable, outcome>>
           \/ /\ d.target = "cancelled"
              /\ due' = FALSE /\ refundable' = TRUE
              /\ outcome' = [s \in Slots |-> IF outcome[s] = "pending"
                                             THEN "cancelled" ELSE outcome[s]]
        /\ UNCHANGED aggOnly
  BY DEF CancelOrder, MoveOrder, MovePhase
<1>2. /\ phase' \in {"cancelled", "cancelled_refunded"}
      /\ d.target = "cancelled" => order \in OpenOrder
      /\ order \in OpenOrder \cup {"shipped"}
  BY <1>1 DEF expectedOrderCancellationPhaseDisposition, OpenOrder
<1>3. /\ due' \in BOOLEAN /\ refundable' \in BOOLEAN /\ outcome' \in [Slots -> SlotOutcome]
      /\ order' \in OrderStatus /\ phase' \in PhaseStatus
  BY <1>1, <1>2 DEF OrderInv, LifecycleTypeOK, SlotOutcome, OrderStatus, PhaseStatus
<1>4. ASSUME NEW t \in Slots
      PROVE  CancelledSlot(t)'
  <2>1. CancelledSlot(t) /\ UNCHANGED <<job, ship, parcelOf>>
    BY <1>1 DEF OrderInv, aggOnly, frame
  <2>2. CASE d.target = "cancelled_refunded"
    BY <2>1, <2>2, <1>1 DEF CancelledSlot
  <2>3. CASE d.target = "cancelled"
    <3>1. job[t].st \in EndedJob \cup {"none"}
      BY <2>3, <1>1, <1>2, OpenOrderEnded
    <3> QED
      BY <3>1, <2>1 DEF CancelledSlot
  <2> QED
    BY <2>2, <2>3, <1>1
<1>5. ParcelsByOrder'
  BY <1>1, <1>2, CompletedCancellations DEF OrderInv, ParcelsByOrder, Used, aggOnly, frame,
     OpenOrder, ClosedOrder
<1>6. SlotsByOrder' /\ PhaseFollowsOrder' /\ NothingShipsUnpaid'
  BY <1>1, <1>2 DEF SlotsByOrder, PhaseFollowsOrder, NothingShipsUnpaid
<1> QED
  BY <1>1, <1>3, <1>4, <1>5, <1>6, OutcomesMove

\* An order whose balance was never paid is settled once nothing of it can leave.
LEMMA SettleUnpaidKeeps ==
  ASSUME OrderInv, SettleUnpaidBalance
  PROVE  OrderInv'
<1>1. /\ order = "awaiting_balance" /\ preHandoffShipmentCancellationsCompleted
      /\ order' = "cancelled_settled" /\ phase' = "cancelled_settled" /\ due' = FALSE
      /\ outcome' = [s \in Slots |-> "cancelled_settled"]
      /\ UNCHANGED <<aggOnly, refundable>>
  BY DEF SettleUnpaidBalance, balanceVoidClosure
<1>2. /\ due' \in BOOLEAN /\ refundable' \in BOOLEAN /\ outcome' \in [Slots -> SlotOutcome]
      /\ order' \in OrderStatus /\ phase' \in PhaseStatus
  BY <1>1 DEF OrderInv, LifecycleTypeOK, SlotOutcome, OrderStatus, PhaseStatus
<1>3. ASSUME NEW t \in Slots
      PROVE  CancelledSlot(t)'
  BY <1>1, OpenOrderEnded DEF CancelledSlot, OpenOrder, aggOnly, frame
<1>4. ParcelsByOrder'
  BY <1>1, CompletedCancellations DEF OrderInv, ParcelsByOrder, Used, aggOnly, frame,
     OpenOrder, ClosedOrder
<1>5. SlotsByOrder' /\ PhaseFollowsOrder' /\ NothingShipsUnpaid'
  BY <1>1 DEF SlotsByOrder, PhaseFollowsOrder, NothingShipsUnpaid
<1> QED
  BY <1>1, <1>2, <1>3, <1>4, <1>5, OutcomesMove

\* Money moves of a cancelled order rename outcomes and leave the goods alone.
LEMMA CancellationMoneyKeeps ==
  ASSUME OrderInv, LateRefundFailure \/ \E to \in SlotOutcome : SettleCancellation(to)
  PROVE  OrderInv'
<1>1. /\ order \in {"refunded", "cancelled"} /\ order' = "cancelled"
      /\ phase' = phase \/ phase' = "cancelled"
      /\ UNCHANGED <<aggOnly, due>>
      /\ refundable' \in BOOLEAN
  BY DEF LateRefundFailure, ReopenAggregates, SettleCancellation, MoveOrder, MovePhase
<1>2. /\ outcome' \in [Slots -> SlotOutcome]
      /\ \A t \in Slots : outcome'[t] \in {"pending", "delivered"} =>
                            outcome[t] \in {"pending", "delivered"}
      /\ \A t \in Slots : outcome[t] \in {"pending", "delivered"} => outcome'[t] = outcome[t]
  BY DEF LateRefundFailure, ReopenAggregates, SettleCancellation, SlotOutcome, OrderInv,
         LifecycleTypeOK
<1>3. /\ due' \in BOOLEAN /\ order' \in OrderStatus /\ phase' \in PhaseStatus
  BY <1>1 DEF OrderInv, LifecycleTypeOK, OrderStatus, PhaseStatus
<1>4. ASSUME NEW t \in Slots
      PROVE  CancelledSlot(t)'
  <2>1. CancelledSlot(t) /\ UNCHANGED <<job, ship, parcelOf>>
    BY <1>1 DEF OrderInv, aggOnly, frame
  <2> QED
    BY <2>1, <1>2 DEF CancelledSlot
<1>5. ParcelsByOrder'
  BY <1>1 DEF OrderInv, ParcelsByOrder, Used, aggOnly, frame, OpenOrder, ClosedOrder
<1>6. SlotsByOrder' /\ PhaseFollowsOrder' /\ NothingShipsUnpaid'
  BY <1>1 DEF OrderInv, SlotsByOrder, PhaseFollowsOrder, NothingShipsUnpaid
<1> QED
  BY <1>1, <1>2, <1>3, <1>4, <1>5, <1>6, OutcomesMove

\* Every command on the order and its phase.
LEMMA OrderCommandKeeps ==
  ASSUME OrderInv, OrderCommand
  PROVE  OrderInv'
  BY QuoteKeeps, CaptureKeeps, CloseKeeps, ProgressKeeps, DeliveryKeeps, CompleteKeeps,
     CancelKeeps, SettleUnpaidKeeps, CancellationMoneyKeeps, TerminateOrderKeeps,
     TerminatePhaseKeeps
     DEF OrderCommand

-----------------------------------------------------------------------------
\* One parcel moves by its table, short of a handoff: it was in use, and it
\* neither enters the carrier's custody nor leaves it.
LEMMA ParcelSteps ==
  ASSUME OrderInv, NEW p \in Parcels, NEW to, to # "handed_over", MoveShipment(p, to),
         UNCHANGED <<order, parcelOf>>
  PROVE  /\ p \in Used /\ ship' \in [Parcels -> ShipmentStatus]
         /\ ship[p] \in custody <=> to \in custody
         /\ ParcelsByOrder'
<1>1. /\ ship' = [ship EXCEPT ![p] = to]
      /\ \/ ship[p] \in preHandoff /\ to \in {"label_created", "cancellation_pending",
                                              "cancelled"}
         \/ /\ ship[p] \in {"handed_over", "in_transit", "lost"}
            /\ to \in {"in_transit", "delivered", "lost", "returned", "recovered"}
  BY ShipmentTable DEF MoveShipment, preHandoff
<1>2. p \in Used /\ order \notin {"draft", "quoted"}
  BY <1>1 DEF OrderInv, ParcelsByOrder, preHandoff
<1>3. PICK s \in Slots : parcelOf[s] = p
  BY <1>2 DEF Used
<1>4. order # "delivered"
  BY <1>1, <1>3 DEF OrderInv, ParcelsByOrder, preHandoff
<1>5. \A q \in Parcels : ship'[q] = IF q = p THEN to ELSE ship[q]
  BY <1>1 DEF OrderInv, LifecycleTypeOK
<1>6. ship' \in [Parcels -> ShipmentStatus]
  BY <1>1 DEF OrderInv, LifecycleTypeOK, ShipmentStatus
<1>7. ship[p] \in custody <=> to \in custody
  BY <1>1 DEF custody, preHandoff
<1>8. ParcelsByOrder'
  BY <1>1, <1>2, <1>4, <1>5, <1>7 DEF OrderInv, ParcelsByOrder, Used, custody, preHandoff
<1> QED
  BY <1>2, <1>6, <1>7, <1>8

\* A label is made or withdrawn, or the carrier reports on a parcel it has.
LEMMA CarrierKeeps ==
  ASSUME OrderInv, NEW p \in Parcels,
         \/ CreateLabel(p) \/ RequestCancellation(p) \/ Transit(p) \/ Recover(p)
         \/ Deliver(p) \/ \E to \in {"lost", "returned"} : Incident(p, to)
  PROVE  OrderInv'
<1>1. PICK to : /\ MoveShipment(p, to)
                /\ to \notin {"handed_over", "cancelled"}
                /\ UNCHANGED <<order, phase, frame, money, request, replaced, job, scanned>>
                /\ outcome' # outcome => to = "delivered"
  BY DEF CreateLabel, RequestCancellation, Transit, Recover, Deliver, Incident, shipOnly
<1>2. /\ label' \in [Parcels -> {"none", "usable", "invalidated"}]
      /\ claim' \in [Slots -> BOOLEAN]
      /\ outcome' \in [Slots -> SlotOutcome]
      /\ \A s \in Slots : outcome'[s] = outcome[s]
                          \/ (outcome[s] = "pending" /\ outcome'[s] = "delivered")
  BY DEF CreateLabel, RequestCancellation, Transit, Recover, Deliver, Incident, shipOnly,
         RouteToClaims, OrderInv, LifecycleTypeOK, SlotOutcome
<1>3. /\ p \in Used /\ ship' \in [Parcels -> ShipmentStatus]
      /\ ship[p] \in custody <=> to \in custody
      /\ ParcelsByOrder'
  BY <1>1, ParcelSteps DEF frame
<1>4. LifecycleTypeOK'
  BY <1>1, <1>2, <1>3 DEF OrderInv, LifecycleTypeOK, frame, money
<1>5. ASSUME NEW s \in Slots
      PROVE  JobOwns(s)' /\ JobOfParcel(s)' /\ CancelledSlot(s)'
  <2>1. /\ ship[p] \in {"planned", "label_created", "handed_over", "in_transit", "lost"}
        /\ to \in {"label_created", "cancellation_pending", "in_transit", "delivered", "lost",
                   "returned", "recovered"}
        /\ ship[p] = "lost" => to = "recovered"
        /\ ship'[parcelOf[s]] = IF parcelOf[s] = p THEN to ELSE ship[parcelOf[s]]
    BY <1>1, ShipmentTable DEF MoveShipment, OrderInv, LifecycleTypeOK
  <2>2. JobOwns(s) /\ JobOfParcel(s) /\ CancelledSlot(s) /\ UNCHANGED <<parcelOf, job, request>>
    BY <1>1 DEF OrderInv, frame
  <2>3. JobOwns(s)'
    BY <2>2 DEF JobOwns, requireJobResourceSettlement
  <2>4. JobOfParcel(s)'
    BY <2>1, <2>2, <1>3 DEF JobOfParcel
  <2>5. CancelledSlot(s)'
    BY <2>1, <2>2, <1>2 DEF CancelledSlot
  <2> QED
    BY <2>3, <2>4, <2>5
<1>6. SlotsByOrder'
  <2>1. order \in {"draft", "quoted"} => ship[p] = "none"
    BY DEF OrderInv, ParcelsByOrder
  <2>2. order \notin {"draft", "quoted"}
    BY <2>1, <1>1, ShipmentTable DEF MoveShipment
  <2> QED
    BY <2>2, <1>1, <1>2 DEF OrderInv, SlotsByOrder
<1>7. PhaseFollowsOrder' /\ NothingShipsUnpaid'
  BY <1>1 DEF OrderInv, PhaseFollowsOrder, NothingShipsUnpaid, money
<1> QED
  BY <1>3, <1>4, <1>5, <1>6, <1>7 DEF OrderInv

\* The carrier takes a parcel; no aggregate moves yet.
LEMMA AcceptanceKeeps ==
  ASSUME OrderInv, NEW p \in Parcels, CarrierAccepts(p)
  PROVE  OrderInv'
<1>1. /\ UNCHANGED <<shipOnly, job, ship, label, claim>>
      /\ scanned' \subseteq Parcels
  BY DEF CarrierAccepts, OrderInv, LifecycleTypeOK
<1>2. LifecycleTypeOK'
  BY <1>1 DEF OrderInv, LifecycleTypeOK, shipOnly, frame, money
<1>3. ASSUME NEW t \in Slots
      PROVE  JobOwns(t)' /\ JobOfParcel(t)' /\ CancelledSlot(t)'
  BY <1>1, SlotUntouched DEF shipOnly, frame
<1>4. ParcelsByOrder' /\ SlotsByOrder' /\ PhaseFollowsOrder' /\ NothingShipsUnpaid'
  BY <1>1, OrderUntouched DEF shipOnly, frame, money
<1> QED
  BY <1>2, <1>3, <1>4 DEF OrderInv

\* A shipment cancelled before its handoff takes every live job with it.
LEMMA ShipmentCancelKeeps ==
  ASSUME OrderInv, NEW p \in Parcels, CancelPlanned(p) \/ ConfirmVoid(p)
  PROVE  OrderInv'
<1>1. /\ MoveShipment(p, "cancelled") /\ ship[p] \in preHandoff
      /\ CancelJobsOf(p)
      /\ UNCHANGED <<shipOnly, label, scanned, claim>>
  BY DEF CancelPlanned, ConfirmVoid, preHandoff
<1>2. /\ p \in Used /\ ship' \in [Parcels -> ShipmentStatus]
      /\ ParcelsByOrder'
  BY <1>1, ParcelSteps DEF shipOnly, frame
<1>3. ASSUME NEW s \in Slots
      PROVE  /\ ReservationAfter(job[s]) \in {"released", "settled"}
             /\ job'[s] = IF parcelOf[s] = p /\ job[s].st \in cancellable
                          THEN [st |-> "cancelled", res |-> ReservationAfter(job[s])]
                          ELSE job[s]
  BY <1>1 DEF CancelJobsOf, EndJob, SlotsIn, ReservationAfter
<1>4. job' \in [Slots -> [st : JobStatus, res : ReservationStatus]]
  BY <1>1, <1>3 DEF CancelJobsOf, OrderInv, LifecycleTypeOK, JobStatus, ReservationStatus, EndJob,
     ReservationAfter
<1>5. LifecycleTypeOK'
  BY <1>1, <1>2, <1>4 DEF OrderInv, LifecycleTypeOK, shipOnly, frame, money
<1>6. ASSUME NEW s \in Slots
      PROVE  JobOwns(s)' /\ JobOfParcel(s)' /\ CancelledSlot(s)'
  <2>1. UNCHANGED <<parcelOf, request, outcome>>
    BY <1>1 DEF shipOnly, frame
  <2>2. ship'[parcelOf[s]] = IF parcelOf[s] = p THEN "cancelled" ELSE ship[parcelOf[s]]
    BY <1>1 DEF MoveShipment, OrderInv, LifecycleTypeOK
  <2>3. CASE parcelOf[s] # p
    BY <2>1, <2>2, <2>3, <1>3, SlotUntouched
  <2>4. CASE parcelOf[s] = p
    <3>1. JobOwns(s) /\ JobOfParcel(s) /\ CancelledSlot(s) /\ job[s].st \in JobStatus
      BY DEF OrderInv, LifecycleTypeOK
    <3>2. job[s].st \in cancellable \cup EndedJob
      BY <3>1, <2>4, <1>1 DEF JobOfParcel, JobStatus, LeftJob, EndedJob, cancellable, prePrint,
         onPrinter, preHandoff, custody
    <3>3. /\ job'[s].st \in EndedJob /\ job'[s].res \in {"released", "settled"}
          /\ request[s] = "open" => job'[s].st \in {"failed", "qc_rejected"}
      <4>1. CASE job[s].st \in cancellable
        <5>1. /\ ReservationAfter(job[s]) \in {"released", "settled"}
              /\ job'[s] = [st |-> "cancelled", res |-> ReservationAfter(job[s])]
          BY <4>1, <2>4, <1>3
        <5>2. request[s] # "open"
          BY <4>1, <3>1 DEF JobOfParcel, cancellable, prePrint, onPrinter
        <5> QED
          BY <5>1, <5>2 DEF EndedJob
      <4>2. CASE job[s].st \notin cancellable
        BY <4>2, <3>1, <3>2, <1>3 DEF JobOwns, JobOfParcel
      <4> QED
        BY <4>1, <4>2
    <3> QED
      BY <3>3, <2>1, <2>2, <2>4 DEF JobOwns, JobOfParcel, CancelledSlot, LeftJob, EndedJob,
         cancellable, prePrint, onPrinter, custody
  <2> QED
    BY <2>3, <2>4
<1>7. SlotsByOrder' /\ PhaseFollowsOrder' /\ NothingShipsUnpaid'
  BY <1>1 DEF OrderInv, SlotsByOrder, PhaseFollowsOrder, NothingShipsUnpaid, shipOnly, money
<1> QED
  BY <1>2, <1>5, <1>6, <1>7 DEF OrderInv

\* A parcel is handed over whole, by whichever of the ways: every job in it is
\* packed, or was cancelled with a shipment the carrier had already accepted and
\* is pending again; the order and its phase are shipped with nothing due.
LEMMA HandoffKeeps ==
  ASSUME OrderInv, NEW p \in Parcels, NEW from \in {"packed", "cancelled"},
         MoveShipment(p, "handed_over"), HandJobsOver(p, from),
         UNCHANGED <<parcelOf, deposit, request, replaced, label, scanned, claim>>,
         order' = "shipped", phase' = "shipped", due' = FALSE,
         refundable' \in BOOLEAN, reconciled' \in BOOLEAN,
         IF from = "packed" THEN UNCHANGED outcome
         ELSE outcome' = [s \in Slots |-> IF s \in SlotsIn(p) THEN "pending" ELSE outcome[s]]
  PROVE  OrderInv'
<1>1. /\ ship[p] \in {"label_created", "cancellation_pending", "cancelled"}
      /\ ship' = [ship EXCEPT ![p] = "handed_over"]
  BY ShipmentTable DEF MoveShipment
<1>2. \A s \in Slots : parcelOf[s] = p => job[s].st = from
  BY DEF HandJobsOver, HandoffSlots, requireExactJobHandoff, SlotsIn
<1>3. job' = [s \in Slots |-> IF parcelOf[s] = p
                              THEN [job[s] EXCEPT !.st = "handed_over"] ELSE job[s]]
  BY DEF HandJobsOver, SlotsIn
<1>4. LifecycleTypeOK'
  <2>1. job' \in [Slots -> [st : JobStatus, res : ReservationStatus]]
    BY <1>3 DEF OrderInv, LifecycleTypeOK, JobStatus
  <2>2. ship' \in [Parcels -> ShipmentStatus]
    BY <1>1 DEF OrderInv, LifecycleTypeOK, ShipmentStatus
  <2>3. outcome' \in [Slots -> SlotOutcome]
    BY DEF OrderInv, LifecycleTypeOK, SlotOutcome
  <2> QED
    BY <2>1, <2>2, <2>3 DEF OrderInv, LifecycleTypeOK, OrderStatus, PhaseStatus
<1>5. ASSUME NEW s \in Slots
      PROVE  JobOwns(s)' /\ JobOfParcel(s)' /\ CancelledSlot(s)'
  <2>1. ship'[parcelOf[s]] = IF parcelOf[s] = p THEN "handed_over" ELSE ship[parcelOf[s]]
    BY <1>1 DEF OrderInv, LifecycleTypeOK
  <2>2. CASE parcelOf[s] # p
    <3>1. job'[s] = job[s] /\ outcome'[s] = outcome[s]
      BY <1>3, <2>2 DEF SlotsIn
    <3> QED
      BY <3>1, <2>1, <2>2, SlotUntouched
  <2>3. CASE parcelOf[s] = p
    <3>1. /\ job'[s].st = "handed_over" /\ job'[s].res = job[s].res
          /\ job[s].st = from
      BY <1>2, <1>3, <2>3 DEF OrderInv, LifecycleTypeOK
    <3>2. JobOwns(s) /\ JobOfParcel(s) /\ CancelledSlot(s)
      BY DEF OrderInv
    <3>3. job[s].res \in {"printing", "released", "settled"}
      BY <3>1, <3>2 DEF JobOwns, requireJobResourceSettlement, ReservationBefore, EndedJob,
         cancellable, prePrint, onPrinter
    <3>4. request'[s] # "open"
      BY <3>1, <3>2 DEF JobOfParcel
    <3>5. outcome'[s] \in {"pending", "delivered"}
      <4>1. CASE from = "packed"
        BY <4>1, <3>1, <3>2, <2>3, <1>1 DEF CancelledSlot, EndedJob
      <4>2. CASE from = "cancelled"
        BY <4>2, <2>3 DEF SlotsIn
      <4> QED
        BY <4>1, <4>2
    <3> QED
      BY <3>1, <3>3, <3>4, <3>5, <2>1, <2>3 DEF JobOwns, JobOfParcel, CancelledSlot, LeftJob,
         EndedJob, cancellable, prePrint, onPrinter, custody
  <2> QED
    BY <2>2, <2>3
<1>6. ParcelsByOrder'
  <2>1. p \in Used
    BY <1>1 DEF OrderInv, ParcelsByOrder
  <2> QED
    BY <2>1, <1>1 DEF OrderInv, LifecycleTypeOK, ParcelsByOrder, Used, OpenOrder, ClosedOrder
<1>7. SlotsByOrder' /\ PhaseFollowsOrder' /\ NothingShipsUnpaid'
  BY DEF SlotsByOrder, PhaseFollowsOrder, NothingShipsUnpaid
<1> QED
  BY <1>4, <1>5, <1>6, <1>7 DEF OrderInv

\* The ordinary handoff.
LEMMA HandOverKeeps ==
  ASSUME OrderInv, NEW p \in Parcels, HandOver(p)
  PROVE  OrderInv'
<1>1. order' = "shipped" /\ phase' = "shipped"
  BY DEF HandOver, requireAtomicOrdinaryHandoff, FirstParcel, LaterParcel, MoveOrder, MovePhase
<1>2. due' = FALSE
  BY DEF HandOver, requireAtomicOrdinaryHandoff, FirstParcel, LaterParcel, money,
     requireZeroBalances, OrderInv, NothingShipsUnpaid, LifecycleTypeOK
<1> QED
  BY <1>1, <1>2, HandoffKeeps DEF HandOver, requireAtomicOrdinaryHandoff, frame, money,
     OrderInv, LifecycleTypeOK

\* A scan that beats a cancellation, open or committed.
LEMMA RaceKeeps ==
  ASSUME OrderInv, NEW p \in Parcels, RaceHandOver(p)
  PROVE  OrderInv'
<1>1. order' = "shipped" /\ phase' = "shipped"
  BY DEF RaceHandOver, RacingParcel, FirstParcel, MoveOrder, MovePhase
<1>2. due' = FALSE
  BY DEF RaceHandOver, requireZeroBalances, requireZeroAmountDue, OrderInv, LifecycleTypeOK
<1>3. PICK from \in {"packed", "cancelled"} :
        /\ HandJobsOver(p, from)
        /\ refundable' \in BOOLEAN
        /\ IF from = "packed" THEN UNCHANGED outcome
           ELSE outcome' = [s \in Slots |-> IF s \in SlotsIn(p) THEN "pending" ELSE outcome[s]]
  BY DEF RaceHandOver, OrderInv, LifecycleTypeOK
<1> QED
  BY <1>1, <1>2, <1>3, HandoffKeeps DEF RaceHandOver, frame, OrderInv, LifecycleTypeOK

\* A parcel that left unpaid, or after its order was refunded.
LEMMA ReconcileKeeps ==
  ASSUME OrderInv, NEW p \in Parcels, ReconcileHandoff(p)
  PROVE  OrderInv'
<1>1. order' = "shipped" /\ phase' = "shipped"
  BY DEF ReconcileHandoff, RacingParcel, FirstParcel, LaterParcel, MoveOrder, MovePhase,
     hasExactRefundedCancellationRecoveryMarker
<1>2. due' = FALSE
  BY DEF ReconcileHandoff, requireExactRefundedHandoffFinancialProof, RefundedInFull,
     requireZeroBalances, OrderInv, LifecycleTypeOK
<1>3. PICK from \in {"packed", "cancelled"} :
        /\ HandJobsOver(p, from)
        /\ IF from = "packed" THEN UNCHANGED outcome
           ELSE outcome' = [s \in Slots |-> IF s \in SlotsIn(p) THEN "pending" ELSE outcome[s]]
  BY DEF ReconcileHandoff
<1> QED
  BY <1>1, <1>2, <1>3, HandoffKeeps DEF ReconcileHandoff, OrderInv, LifecycleTypeOK

\* Every command on one parcel.
LEMMA ShipmentCommandKeeps ==
  ASSUME OrderInv, ShipmentCommand
  PROVE  OrderInv'
  BY CarrierKeeps, AcceptanceKeeps, ShipmentCancelKeeps, HandOverKeeps, RaceKeeps,
     ReconcileKeeps
     DEF ShipmentCommand

\* A draft order satisfies the invariant.
LEMMA OrderInitially ==
  OrderInit => OrderInv
<1> SUFFICES ASSUME OrderInit PROVE OrderInv
  OBVIOUS
<1>1. LifecycleTypeOK
  <2>1. 0 \in 0..MaxReplacements
    BY LifecycleAssumption
  <2>2. replaced \in [Slots -> 0..MaxReplacements]
    BY <2>1 DEF OrderInit
  <2> QED
    BY <2>2 DEF OrderInit, LifecycleTypeOK, OrderStatus, PhaseStatus, JobStatus,
     ReservationStatus, ShipmentStatus, SlotOutcome
<1>2. ASSUME NEW s \in Slots
      PROVE  JobOwns(s) /\ JobOfParcel(s) /\ CancelledSlot(s)
  BY DEF OrderInit, JobOwns, JobOfParcel, CancelledSlot, LeftJob, EndedJob, cancellable,
     prePrint, onPrinter, custody
<1>3. ParcelsByOrder /\ SlotsByOrder /\ PhaseFollowsOrder /\ NothingShipsUnpaid
  BY DEF OrderInit, ParcelsByOrder, SlotsByOrder, PhaseFollowsOrder, NothingShipsUnpaid,
     OpenOrder, ClosedOrder, Used
<1> QED
  BY <1>1, <1>2, <1>3 DEF OrderInv

\* The invariant says what the run checks.
LEMMA OrderInvSound ==
  OrderInv => OrderSound
<1> SUFFICES ASSUME OrderInv PROVE OrderSound
  OBVIOUS
<1>1. ParcelsLeaveWhole
  BY DEF OrderInv, JobOfParcel, ParcelsLeaveWhole, LeftJob
<1>2. ClosedOrderOwnsNothing
  <2> SUFFICES ASSUME order \in ClosedOrder PROVE ClosedOrderOwnsNothing
    BY DEF ClosedOrderOwnsNothing, ClosedOrder
  <2>1. \A p \in Parcels : ship[p] \notin preHandoff
    BY DEF OrderInv, ParcelsByOrder
  <2>2. ASSUME NEW s \in Slots
        PROVE  /\ job[s].res \notin {"held", "scheduled"}
               /\ job[s].res = "printing" => job[s].st \in {"handed_over", "settled"}
    <3>1. /\ JobOwns(s) /\ JobOfParcel(s)
          /\ ship[parcelOf[s]] \in {"none", "cancelled"} \cup custody
      BY <2>1 DEF OrderInv, LifecycleTypeOK, ShipmentStatus, preHandoff, custody
    <3>2. job[s].st \in {"none"} \cup EndedJob \cup LeftJob
      BY <3>1 DEF JobOfParcel
    <3> QED
      BY <3>1, <3>2 DEF JobOwns, EndedJob, LeftJob
  <2> QED
    BY <2>1, <2>2 DEF ClosedOrderOwnsNothing, preHandoff
<1> QED
  BY <1>1, <1>2 DEF OrderSound, OrderInv

\* For any slots, parcels and replacements, order, phase, jobs and parcels agree
\* after every command of the fulfilment policies (policies.ts): parcels leave
\* whole, a closed order owns nothing, the phase follows its order and nothing
\* ships unpaid.
THEOREM OrdersAreSound == OrderSpec => []OrderSound
<1>1. OrderInit => OrderInv
  BY OrderInitially
<1>2. OrderInv /\ [OrderNext]_orderVars => OrderInv'
  <2> SUFFICES ASSUME OrderInv, [OrderNext]_orderVars PROVE OrderInv'
    OBVIOUS
  <2>1. CASE UNCHANGED orderVars
    BY <2>1 DEF orderVars, OrderInv, LifecycleTypeOK, JobOwns, JobOfParcel, CancelledSlot,
       requireJobResourceSettlement, ParcelsByOrder, SlotsByOrder, PhaseFollowsOrder,
       NothingShipsUnpaid, Used
  <2> QED
    BY <2>1, OrderCommandKeeps, JobCommandKeeps, ShipmentCommandKeeps DEF OrderNext
<1> QED
  BY <1>1, <1>2, OrderInvSound, PTL DEF OrderSpec

-----------------------------------------------------------------------------
(* Automatic quotes.  The configuration a binding prices is the frozen one,   *)
(* the decision and the carrier check it uses are those of its revision, and  *)
(* a paid order's set is the only one, whatever the requests still in flight   *)
(* read before.                                                                *)

\* The rows of the draft, of bindings and of resource plans.
QuoteItems == Configs \cup {None}
Destinations == [id : Nat, endpoint : Endpoints, carrier : Nat] \cup {None}
DraftRows == [item : QuoteItems, revision : Nat, express : BOOLEAN, destination : Destinations]
CheckRows == [policy : Nat, revision : Nat, destination : Destinations] \cup {None}
EstimateRows == [n : Nat, state : {"NONE", "PENDING", "FAILED", "SUCCEEDED", "OVER"}]
ReservedPlans == [live : BOOLEAN, set : {"NONE", "RESERVED", "HELD", "RELEASED", "EXPIRED"}]
BindingRows ==
  [revision : Nat, destination : Destinations, express : BOOLEAN, item : QuoteItems,
   policy : Nat, terms : Nat, checked : CheckRows, candidate : EstimateRows,
   markers : SUBSET (EstimateRows \X Nat), plans : Seq(ReservedPlans)]

\* Types.
QuotesTyped ==
  /\ session \in {"OPEN", "CONVERTED"} /\ frozen \in BOOLEAN
  /\ draft \in DraftRows
  /\ decision \in [Configs -> {"NONE", "ACKNOWLEDGED", "DECLINED"}]
  /\ policy \in Nat /\ terms \in Nat /\ carrier \in Nat /\ offers \in Nat
  /\ bindings \in Seq(BindingRows) /\ accepted \in Nat

\* What a request in flight remembers names bindings and plans of bs.
CallSound(k, bs) ==
  /\ k.at = "select" => k.endpoint \in Endpoints /\ k.carrier \in Nat
  /\ k.at = "prepare" => k.validation \in CheckRows
  /\ k.at \in {"marker", "plan"} => k.b \in 1..Len(bs) /\ k.frontier \in EstimateRows \X Nat
  /\ k.at = "plan" => k.next \in 1..(Len(bs[k.b].plans) + 1)
  /\ k.at \in {"drop", "reserve", "finalize", "giveBack"}
       => k.b \in 1..Len(bs) /\ k.i \in 1..Len(bs[k.b].plans)
  /\ k.at = "finalize" => k = [at |-> "finalize", b |-> k.b, i |-> k.i, again |-> k.again]
CallsSound == call = [c \in Calls |-> call[c]] /\ \A c \in Calls : CallSound(call[c], bindings)

\* The bindings were made in the past of the draft, for its item and as checked.
\* The one made for the draft as it is now was made with the risk answered.
BindingsSound ==
  /\ Active # 0 => frozen
  /\ \A b \in 1..Active : LET k == bindings[b] IN
       /\ k.revision <= draft.revision /\ k.item = draft.item
       /\ k.checked = [policy |-> k.policy, revision |-> k.revision, destination |-> k.destination]
  /\ Active # 0 /\ bindings[Active].revision = draft.revision => riskAllowsAutomaticQuote

\* The accepted binding is the last one, and nothing edits the draft any more.
AcceptedSound == accepted # 0 => session = "CONVERTED" /\ accepted = Active /\ Matches(accepted)

\* One set of the bindings is held and no other is reserved.
HeldOnce(bs) ==
  \E b \in 1..Len(bs) : \E i \in 1..Len(bs[b].plans) :
    /\ bs[b].plans[i].set = "HELD"
    /\ \A d \in 1..Len(bs) : \A j \in 1..Len(bs[d].plans) :
         bs[d].plans[j].set \in {"RESERVED", "HELD"} => d = b /\ j = i
PaidSound == orderStatus = "CONFIRMED" => HeldOnce(bindings)

QuotesInv == QuotesTyped /\ CallsSound /\ BindingsSound /\ AcceptedSound /\ PaidSound


-----------------------------------------------------------------------------
(* Edits of a binding: its estimate, its markers and its plans change, what it *)
(* prices does not, and plans are only added.                                  *)
Priced(bs, ds) ==
  /\ Len(ds) = Len(bs)
  /\ \A b \in 1..Len(bs) :
       /\ ds[b].revision = bs[b].revision /\ ds[b].destination = bs[b].destination
       /\ ds[b].express = bs[b].express /\ ds[b].item = bs[b].item
       /\ ds[b].policy = bs[b].policy /\ ds[b].terms = bs[b].terms
       /\ ds[b].checked = bs[b].checked
       /\ Len(ds[b].plans) >= Len(bs[b].plans)

\* A held set stays held, and no set becomes reserved or held.
NoneReserved(bs, ds) ==
  \A b \in 1..Len(bs) :
    /\ \A j \in 1..Len(bs[b].plans) :
         bs[b].plans[j].set = "HELD" => ds[b].plans[j].set = "HELD"
    /\ \A j \in 1..Len(ds[b].plans) :
         ds[b].plans[j].set \in {"RESERVED", "HELD"}
           => /\ j \in 1..Len(bs[b].plans)
              /\ bs[b].plans[j].set \in {"RESERVED", "HELD"}

\* The bindings are a sequence of rows, and so are the plans of each.
LEMMA BindingFacts ==
  ASSUME NEW bs \in Seq(BindingRows)
  PROVE  /\ Len(bs) \in Nat /\ DOMAIN bs = 1..Len(bs)
         /\ \A b \in 1..Len(bs) :
              /\ bs[b] \in BindingRows /\ bs[b].plans \in Seq(ReservedPlans)
              /\ bs[b].revision \in Nat /\ bs[b].candidate \in EstimateRows
              /\ Len(bs[b].plans) \in Nat /\ DOMAIN bs[b].plans = 1..Len(bs[b].plans)
              /\ \A i \in 1..Len(bs[b].plans) : bs[b].plans[i] \in ReservedPlans
<1>1. Len(bs) \in Nat /\ DOMAIN bs = 1..Len(bs) /\ \A b \in 1..Len(bs) : bs[b] \in BindingRows
  OBVIOUS
<1>2. ASSUME NEW b \in 1..Len(bs)
      PROVE  /\ bs[b].plans \in Seq(ReservedPlans) /\ bs[b].revision \in Nat
             /\ bs[b].candidate \in EstimateRows
  BY <1>1 DEF BindingRows
<1> QED BY <1>1, <1>2

\* One row changes, and what it prices does not.
LEMMA RowEdited ==
  ASSUME NEW bs \in Seq(BindingRows), NEW ds \in Seq(BindingRows), Len(ds) = Len(bs),
         NEW b \in 1..Len(bs), \A d \in 1..Len(bs) : d # b => ds[d] = bs[d],
         /\ ds[b].revision = bs[b].revision /\ ds[b].destination = bs[b].destination
         /\ ds[b].express = bs[b].express /\ ds[b].item = bs[b].item
         /\ ds[b].policy = bs[b].policy /\ ds[b].terms = bs[b].terms /\ ds[b].checked = bs[b].checked,
         Len(ds[b].plans) >= Len(bs[b].plans)
  PROVE  Priced(bs, ds)
<1>1. \A d \in 1..Len(bs) : Len(bs[d].plans) \in Nat BY BindingFacts
<1> QED BY <1>1 DEF Priced

\* The bindings with new plans, a changed plan or a new estimate of one of them.
WithPlans(bs, b, ps) == [bs EXCEPT ![b].plans = ps]
WithPlan(bs, b, i, p) == [bs EXCEPT ![b].plans[i] = p]
WithEstimate(bs, b, k) == [bs EXCEPT ![b].candidate = k]

\* New plans of one binding.
LEMMA PlansEdited ==
  ASSUME NEW bs \in Seq(BindingRows), NEW b \in 1..Len(bs), NEW ps \in Seq(ReservedPlans),
         NEW ds, ds = WithPlans(bs, b, ps), Len(ps) >= Len(bs[b].plans)
  PROVE  /\ ds \in Seq(BindingRows) /\ Priced(bs, ds)
         /\ ds[b].plans = ps /\ ds[b].candidate = bs[b].candidate
         /\ \A d \in 1..Len(bs) : d # b => ds[d] = bs[d]
<1> DEFINE r == [bs[b] EXCEPT !.plans = ps]
<1>1. bs[b] \in BindingRows /\ Len(bs[b].plans) \in Nat /\ Len(bs) \in Nat /\ DOMAIN bs = 1..Len(bs)
  BY BindingFacts
<1>2. /\ r \in BindingRows /\ r.plans = ps /\ r.candidate = bs[b].candidate
      /\ r.revision = bs[b].revision /\ r.destination = bs[b].destination
      /\ r.express = bs[b].express /\ r.item = bs[b].item
      /\ r.policy = bs[b].policy /\ r.terms = bs[b].terms /\ r.checked = bs[b].checked
  BY <1>1 DEF BindingRows
<1>3. ds = [bs EXCEPT ![b] = r] BY DEF WithPlans
<1> HIDE DEF r
<1>4. /\ ds \in Seq(BindingRows) /\ Len(ds) = Len(bs) /\ ds[b] = r
      /\ \A d \in 1..Len(bs) : d # b => ds[d] = bs[d]
  BY <1>1, <1>2, <1>3
<1>5. Len(ds[b].plans) >= Len(bs[b].plans) BY <1>1, <1>2, <1>4
<1>6. /\ ds[b].revision = bs[b].revision /\ ds[b].destination = bs[b].destination
      /\ ds[b].express = bs[b].express /\ ds[b].item = bs[b].item
      /\ ds[b].policy = bs[b].policy /\ ds[b].terms = bs[b].terms /\ ds[b].checked = bs[b].checked
  BY <1>2, <1>4
<1>7. Priced(bs, ds) BY <1>4, <1>5, <1>6, RowEdited
<1> QED BY <1>2, <1>4, <1>7

\* A new estimate of one binding.
LEMMA EstimateEdited ==
  ASSUME NEW bs \in Seq(BindingRows), NEW b \in 1..Len(bs), NEW k \in EstimateRows,
         NEW ds, ds = WithEstimate(bs, b, k)
  PROVE  /\ ds \in Seq(BindingRows) /\ Priced(bs, ds)
         /\ NoneReserved(bs, ds)
         /\ \A d \in 1..Len(bs) : ds[d].plans = bs[d].plans
<1> DEFINE r == [bs[b] EXCEPT !.candidate = k]
<1>1. bs[b] \in BindingRows /\ Len(bs[b].plans) \in Nat /\ Len(bs) \in Nat /\ DOMAIN bs = 1..Len(bs)
  BY BindingFacts
<1>2. /\ r \in BindingRows /\ r.plans = bs[b].plans
      /\ r.revision = bs[b].revision /\ r.destination = bs[b].destination
      /\ r.express = bs[b].express /\ r.item = bs[b].item
      /\ r.policy = bs[b].policy /\ r.terms = bs[b].terms /\ r.checked = bs[b].checked
  BY <1>1 DEF BindingRows
<1>3. ds = [bs EXCEPT ![b] = r] BY DEF WithEstimate
<1> HIDE DEF r
<1>4. /\ ds \in Seq(BindingRows) /\ Len(ds) = Len(bs) /\ ds[b] = r
      /\ \A d \in 1..Len(bs) : d # b => ds[d] = bs[d]
  BY <1>1, <1>2, <1>3
<1>5. Len(ds[b].plans) >= Len(bs[b].plans) BY <1>1, <1>2, <1>4
<1>6. Priced(bs, ds) BY <1>2, <1>4, <1>5, RowEdited
<1>7. \A d \in 1..Len(bs) : ds[d].plans = bs[d].plans BY <1>2, <1>4
<1> QED BY <1>4, <1>6, <1>7 DEF NoneReserved

\* New markers of one binding.
LEMMA MarkersEdited ==
  ASSUME NEW bs \in Seq(BindingRows), NEW b \in 1..Len(bs), NEW m \in SUBSET (EstimateRows \X Nat),
         NEW ds, ds = [bs EXCEPT ![b].markers = m]
  PROVE  /\ ds \in Seq(BindingRows) /\ Priced(bs, ds)
         /\ NoneReserved(bs, ds)
<1> DEFINE r == [bs[b] EXCEPT !.markers = m]
<1>1. bs[b] \in BindingRows /\ Len(bs[b].plans) \in Nat /\ Len(bs) \in Nat /\ DOMAIN bs = 1..Len(bs)
  BY BindingFacts
<1>2. /\ r \in BindingRows /\ r.plans = bs[b].plans
      /\ r.revision = bs[b].revision /\ r.destination = bs[b].destination
      /\ r.express = bs[b].express /\ r.item = bs[b].item
      /\ r.policy = bs[b].policy /\ r.terms = bs[b].terms /\ r.checked = bs[b].checked
  BY <1>1 DEF BindingRows
<1>3. ds = [bs EXCEPT ![b] = r] OBVIOUS
<1> HIDE DEF r
<1>4. /\ ds \in Seq(BindingRows) /\ Len(ds) = Len(bs) /\ ds[b] = r
      /\ \A d \in 1..Len(bs) : d # b => ds[d] = bs[d]
  BY <1>1, <1>2, <1>3
<1>5. Len(ds[b].plans) >= Len(bs[b].plans) BY <1>1, <1>2, <1>4
<1>6. Priced(bs, ds) BY <1>2, <1>4, <1>5, RowEdited
<1>7. \A d \in 1..Len(bs) : ds[d].plans = bs[d].plans BY <1>2, <1>4
<1> QED BY <1>4, <1>6, <1>7 DEF NoneReserved

\* One plan of one binding changes.
LEMMA PlanEdited ==
  ASSUME NEW bs \in Seq(BindingRows), NEW b \in 1..Len(bs), NEW i \in 1..Len(bs[b].plans),
         NEW p \in ReservedPlans, NEW ds, ds = WithPlan(bs, b, i, p)
  PROVE  /\ ds \in Seq(BindingRows) /\ Priced(bs, ds)
         /\ (/\ bs[b].plans[i].set = "HELD" => p.set = "HELD"
             /\ p.set \in {"RESERVED", "HELD"} => bs[b].plans[i].set \in {"RESERVED", "HELD"})
              => NoneReserved(bs, ds)
<1> DEFINE ps == [bs[b].plans EXCEPT ![i] = p]
<1>1. /\ bs[b].plans \in Seq(ReservedPlans) /\ Len(bs[b].plans) \in Nat
      /\ DOMAIN bs[b].plans = 1..Len(bs[b].plans)
  BY BindingFacts
<1>2. ps \in Seq(ReservedPlans) /\ Len(ps) = Len(bs[b].plans) /\ ps[i] = p
      /\ \A j \in 1..Len(bs[b].plans) : j # i => ps[j] = bs[b].plans[j]
  BY <1>1
<1>3. ds = WithPlans(bs, b, ps) BY DEF WithPlan, WithPlans
<1>0. Len(ps) >= Len(bs[b].plans) BY <1>1, <1>2
<1> HIDE DEF ps
<1>4. /\ ds \in Seq(BindingRows) /\ Priced(bs, ds) /\ ds[b].plans = ps
      /\ \A d \in 1..Len(bs) : d # b => ds[d] = bs[d]
  BY <1>0, <1>2, <1>3, PlansEdited
<1>5. ASSUME bs[b].plans[i].set = "HELD" => p.set = "HELD",
             p.set \in {"RESERVED", "HELD"} => bs[b].plans[i].set \in {"RESERVED", "HELD"}
      PROVE  NoneReserved(bs, ds)
  <2>1. ASSUME NEW d \in 1..Len(bs), d # b
        PROVE  ds[d].plans = bs[d].plans
    BY <1>4, <2>1
  <2>2. ASSUME NEW j \in 1..Len(bs[b].plans), bs[b].plans[j].set = "HELD"
        PROVE  ds[b].plans[j].set = "HELD"
    BY <1>2, <1>4, <1>5, <2>2
  <2>3. ASSUME NEW j \in 1..Len(ds[b].plans), ds[b].plans[j].set \in {"RESERVED", "HELD"}
        PROVE  j \in 1..Len(bs[b].plans) /\ bs[b].plans[j].set \in {"RESERVED", "HELD"}
    BY <1>2, <1>4, <1>5, <2>3
  <2> QED BY <2>1, <2>2, <2>3 DEF NoneReserved
<1> QED BY <1>4, <1>5

\* A held set stays the only one.
LEMMA HoldStays ==
  ASSUME NEW bs, NEW ds, Priced(bs, ds), NoneReserved(bs, ds), HeldOnce(bs),
         \A b \in 1..Len(bs) : Len(bs[b].plans) \in Nat /\ Len(ds[b].plans) \in Nat
  PROVE  HeldOnce(ds)
<1>0. PICK b \in 1..Len(bs) : \E i \in 1..Len(bs[b].plans) :
        /\ bs[b].plans[i].set = "HELD"
        /\ \A d \in 1..Len(bs) : \A j \in 1..Len(bs[d].plans) :
             bs[d].plans[j].set \in {"RESERVED", "HELD"} => d = b /\ j = i
  BY DEF HeldOnce
<1>1. PICK i \in 1..Len(bs[b].plans) :
        /\ bs[b].plans[i].set = "HELD"
        /\ \A d \in 1..Len(bs) : \A j \in 1..Len(bs[d].plans) :
             bs[d].plans[j].set \in {"RESERVED", "HELD"} => d = b /\ j = i
  BY <1>0
<1>2. b \in 1..Len(ds) /\ i \in 1..Len(ds[b].plans) /\ ds[b].plans[i].set = "HELD"
  BY <1>1 DEF Priced, NoneReserved
<1>3. ASSUME NEW d \in 1..Len(ds), NEW j \in 1..Len(ds[d].plans),
             ds[d].plans[j].set \in {"RESERVED", "HELD"}
      PROVE  d = b /\ j = i
  <2>1. d \in 1..Len(bs) BY DEF Priced
  <2>2. j \in 1..Len(bs[d].plans) /\ bs[d].plans[j].set \in {"RESERVED", "HELD"}
    BY <1>3, <2>1 DEF NoneReserved
  <2> QED BY <1>1, <2>1, <2>2
<1> QED BY <1>2, <1>3 DEF HeldOnce

\* What a request remembers stays valid while bindings and plans are only added.
LEMMA CallStays ==
  ASSUME NEW k, NEW bs, NEW ds, CallSound(k, bs), Len(bs) \in Nat, Len(ds) \in Nat,
         Len(ds) >= Len(bs),
         \A b \in 1..Len(bs) : /\ Len(bs[b].plans) \in Nat /\ Len(ds[b].plans) \in Nat
                               /\ Len(ds[b].plans) >= Len(bs[b].plans)
  PROVE  CallSound(k, ds)
<1>1. k.b \in 1..Len(bs)
        => /\ k.b \in 1..Len(ds)
           /\ Len(bs[k.b].plans) \in Nat /\ Len(ds[k.b].plans) \in Nat
           /\ Len(ds[k.b].plans) >= Len(bs[k.b].plans)
  OBVIOUS
<1>2. k.at = "plan" => k.next \in 1..(Len(ds[k.b].plans) + 1)
  <2>1. ASSUME k.at = "plan" PROVE k.next \in 1..(Len(ds[k.b].plans) + 1)
    <3>1. k.b \in 1..Len(bs) /\ k.next \in 1..(Len(bs[k.b].plans) + 1) BY <2>1 DEF CallSound
    <3> QED BY <1>1, <3>1
  <2> QED BY <2>1
<1>3. k.at \in {"drop", "reserve", "finalize", "giveBack"}
        => k.b \in 1..Len(ds) /\ k.i \in 1..Len(ds[k.b].plans)
  <2>1. ASSUME k.at \in {"drop", "reserve", "finalize", "giveBack"}
        PROVE  k.b \in 1..Len(ds) /\ k.i \in 1..Len(ds[k.b].plans)
    <3>1. k.b \in 1..Len(bs) /\ k.i \in 1..Len(bs[k.b].plans) BY <2>1 DEF CallSound
    <3> QED BY <1>1, <3>1
  <2> QED BY <2>1
<1> QED BY <1>1, <1>2, <1>3 DEF CallSound

\* Bindings and plans are only added.
Grows(bs, ds) ==
  Len(ds) >= Len(bs) /\ \A b \in 1..Len(bs) : Len(ds[b].plans) >= Len(bs[b].plans)

\* The facts of the invariant that the steps use.
LEMMA QuoteFacts ==
  ASSUME QuotesInv
  PROVE  /\ bindings \in Seq(BindingRows) /\ Active = Len(bindings) /\ Active \in Nat
         /\ DOMAIN bindings = 1..Active
         /\ draft \in DraftRows /\ draft.revision \in Nat /\ draft.item \in QuoteItems
         /\ draft.express \in BOOLEAN /\ draft.destination \in Destinations
         /\ draft = [item |-> draft.item, revision |-> draft.revision,
                     express |-> draft.express, destination |-> draft.destination]
         /\ \A b \in 1..Active :
              /\ bindings[b] \in BindingRows /\ Plans(b) = bindings[b].plans
              /\ Plans(b) \in Seq(ReservedPlans) /\ bindings[b].revision \in Nat
              /\ bindings[b].candidate \in EstimateRows
              /\ LastPlan(b) = Len(bindings[b].plans) /\ LastPlan(b) \in Nat
              /\ DOMAIN Plans(b) = 1..LastPlan(b)
              /\ \A i \in 1..LastPlan(b) : Plans(b)[i] \in ReservedPlans
<1>1. bindings \in Seq(BindingRows) /\ draft \in DraftRows BY DEF QuotesInv, QuotesTyped
<1>2. /\ draft.revision \in Nat /\ draft.item \in QuoteItems
      /\ draft.express \in BOOLEAN /\ draft.destination \in Destinations
      /\ draft = [item |-> draft.item, revision |-> draft.revision,
                  express |-> draft.express, destination |-> draft.destination]
  BY <1>1 DEF DraftRows
<1> QED BY <1>1, <1>2, BindingFacts DEF Active, Plans, LastPlan

\* A step that leaves the bindings alone grows them trivially.
LEMMA SameGrows == ASSUME QuotesInv PROVE Grows(bindings, bindings) /\ Priced(bindings, bindings)
                                            /\ NoneReserved(bindings, bindings)
<1>1. Len(bindings) \in Nat /\ \A b \in 1..Len(bindings) : Len(bindings[b].plans) \in Nat
  BY QuoteFacts, BindingFacts
<1> QED BY <1>1 DEF Grows, Priced, NoneReserved

\* What the requests remember after one of them goes on.
LEMMA CallsAfter ==
  ASSUME QuotesInv, bindings' \in Seq(BindingRows), Grows(bindings, bindings'),
         NEW c \in Calls, NEW k, call' = [call EXCEPT ![c] = k], CallSound(k, bindings')
  PROVE  CallsSound'
<1>1. call = [d \in Calls |-> call[d]] /\ \A d \in Calls : CallSound(call[d], bindings)
  BY DEF QuotesInv, CallsSound
<1>2. /\ Len(bindings) \in Nat /\ Len(bindings') \in Nat
      /\ \A b \in 1..Len(bindings) : Len(bindings[b].plans) \in Nat
      /\ \A b \in 1..Len(bindings') : Len(bindings'[b].plans) \in Nat
  BY QuoteFacts, BindingFacts
<1>3. \A d \in Calls : CallSound(call[d], bindings')
  BY <1>1, <1>2, CallStays DEF Grows
<1>4. \A d \in Calls : call'[d] = IF d = c THEN k ELSE call[d] BY <1>1
<1>5. call' = [d \in Calls |-> call'[d]] BY <1>1
<1> QED BY <1>3, <1>4, <1>5 DEF CallsSound

\* What they remember after a step of nobody.
LEMMA CallsAsBefore ==
  ASSUME QuotesInv, bindings' \in Seq(BindingRows), Grows(bindings, bindings'), call' = call
  PROVE  CallsSound'
<1>1. call = [d \in Calls |-> call[d]] /\ \A d \in Calls : CallSound(call[d], bindings)
  BY DEF QuotesInv, CallsSound
<1>2. /\ Len(bindings) \in Nat /\ Len(bindings') \in Nat
      /\ \A b \in 1..Len(bindings) : Len(bindings[b].plans) \in Nat
      /\ \A b \in 1..Len(bindings') : Len(bindings'[b].plans) \in Nat
  BY QuoteFacts, BindingFacts
<1>3. \A d \in Calls : CallSound(call[d], bindings')
  BY <1>1, <1>2, CallStays DEF Grows
<1> QED BY <1>1, <1>3 DEF CallsSound

\* A step that edits bindings and leaves the draft alone.
LEMMA EditKeeps ==
  ASSUME QuotesInv, bindings' \in Seq(BindingRows), Priced(bindings, bindings'),
         UNCHANGED <<frozen, draft, decision, accepted>>,
         policy' \in Nat, terms' \in Nat, carrier' \in Nat, offers' \in Nat,
         session' = session \/ session' = "CONVERTED"
  PROVE  /\ QuotesTyped' /\ BindingsSound' /\ AcceptedSound'
         /\ Grows(bindings, bindings')
<1>1. QuotesTyped' BY DEF QuotesInv, QuotesTyped
<1>2. Active' = Active /\ Active \in Nat BY QuoteFacts DEF Active, Priced
<1>3. \A b \in 1..Active :
        /\ bindings'[b].revision = bindings[b].revision
        /\ bindings'[b].destination = bindings[b].destination
        /\ bindings'[b].express = bindings[b].express /\ bindings'[b].item = bindings[b].item
        /\ bindings'[b].policy = bindings[b].policy
        /\ bindings'[b].checked = bindings[b].checked
  BY QuoteFacts DEF Priced
<1>4. riskAllowsAutomaticQuote' = riskAllowsAutomaticQuote BY DEF riskAllowsAutomaticQuote
<1>5. BindingsSound' BY <1>2, <1>3, <1>4 DEF QuotesInv, BindingsSound
<1>6. AcceptedSound' BY <1>2, <1>3 DEF QuotesInv, AcceptedSound, Matches
<1>7. Grows(bindings, bindings') BY <1>2 DEF Grows, Priced, Active
<1> QED BY <1>1, <1>5, <1>6, <1>7

\* A step after which the order is as paid as before.
LEMMA PaidKeeps ==
  ASSUME QuotesInv, bindings' \in Seq(BindingRows), Priced(bindings, bindings'),
         orderStatus' = "CONFIRMED" => /\ orderStatus = "CONFIRMED"
                                       /\ NoneReserved(bindings, bindings')
  PROVE  PaidSound'
<1>1. \A b \in 1..Len(bindings) : Len(bindings[b].plans) \in Nat /\ Len(bindings'[b].plans) \in Nat
  BY QuoteFacts, BindingFacts DEF Priced
<1> QED BY <1>1, HoldStays DEF QuotesInv, PaidSound

\* A step that changes neither the draft nor the bindings nor the order.
LEMMA CallOnly ==
  ASSUME QuotesInv, UNCHANGED <<session, orderStatus, frozen, draft, decision, external, bindings,
                                accepted>>,
         CallsSound'
  PROVE  QuotesInv'
<1>1. /\ bindings' \in Seq(BindingRows) /\ Priced(bindings, bindings')
      /\ NoneReserved(bindings, bindings')
  BY QuoteFacts, SameGrows
<1>2. policy' \in Nat /\ terms' \in Nat /\ carrier' \in Nat /\ offers' \in Nat
  BY DEF QuotesInv, QuotesTyped, external
<1>3. QuotesTyped' /\ BindingsSound' /\ AcceptedSound' BY <1>1, <1>2, EditKeeps
<1>4. PaidSound' BY <1>1, PaidKeeps
<1> QED BY <1>3, <1>4 DEF QuotesInv

-----------------------------------------------------------------------------
(* Editing the draft. *)

\* The configuration of the item changes only while nothing was priced.
LEMMA ConfigurationKeeps ==
  ASSUME QuotesInv, configurable, NEW item \in QuoteItems, parcelConfigurationChange(item),
         decision' = decision \/ decision' = [h \in Configs |-> "NONE"],
         UNCHANGED <<session, orderStatus, frozen, external, bindings, accepted, call>>
  PROVE  QuotesInv'
<1>1. Active = 0 /\ accepted = 0
  BY DEF QuotesInv, BindingsSound, AcceptedSound, configurable, Editable
<1>2. draft' \in DraftRows
  <2>1. draft.revision + 1 \in Nat /\ None \in Destinations BY QuoteFacts DEF Destinations
  <2>2. Packeta \in BOOLEAN BY ConfigsAssumption
  <2>3. draft' = [item |-> item, revision |-> draft.revision + 1, express |-> draft.express,
                  destination |-> IF Packeta THEN None ELSE draft.destination]
    BY QuoteFacts DEF parcelConfigurationChange
  <2> QED BY <2>1, <2>2, <2>3, QuoteFacts DEF DraftRows
<1>3. decision' \in [Configs -> {"NONE", "ACKNOWLEDGED", "DECLINED"}] BY DEF QuotesInv, QuotesTyped
<1>4. QuotesTyped' BY <1>2, <1>3 DEF QuotesInv, QuotesTyped, external
<1>5. Active' = 0 /\ accepted' = 0 BY <1>1 DEF Active
<1>6. BindingsSound' /\ AcceptedSound' BY <1>5 DEF BindingsSound, AcceptedSound
<1>7. PaidSound' BY DEF QuotesInv, PaidSound
<1>8. CallsSound' BY DEF QuotesInv, CallsSound
<1> QED BY <1>4, <1>6, <1>7, <1>8 DEF QuotesInv

\* A change that counts as a revision leaves every binding behind.
LEMMA RevisionKeeps ==
  ASSUME QuotesInv, accepted = 0, draft' \in DraftRows, draft'.item = draft.item,
         draft'.revision = draft.revision + 1,
         decision' \in [Configs -> {"NONE", "ACKNOWLEDGED", "DECLINED"}],
         UNCHANGED <<session, orderStatus, frozen, external, bindings, accepted>>,
         CallsSound'
  PROVE  QuotesInv'
<1>1. QuotesTyped' BY DEF QuotesInv, QuotesTyped, external
<1>2. Active' = Active /\ accepted' = 0 BY DEF Active
<1>3. \A b \in 1..Active :
        /\ bindings[b].revision \in Nat /\ draft.revision \in Nat
        /\ bindings[b].revision <= draft.revision
  BY QuoteFacts DEF QuotesInv, BindingsSound
<1>4. Active # 0 => Active \in 1..Active BY QuoteFacts
<1>5. \A b \in 1..Active :
        bindings[b].revision <= draft'.revision /\ bindings[b].revision # draft'.revision
  BY <1>3
<1>6. BindingsSound' BY <1>2, <1>4, <1>5 DEF QuotesInv, BindingsSound
<1>7. AcceptedSound' BY <1>2 DEF AcceptedSound
<1>8. PaidSound' BY DEF QuotesInv, PaidSound
<1> QED BY <1>1, <1>6, <1>7, <1>8 DEF QuotesInv

\* A request whose next step needs nothing of the bindings.
LEMMA CallRests ==
  ASSUME NEW bs, NEW k, k.at \in {"idle", "release", "advance"} PROVE CallSound(k, bs)
BY DEF CallSound

LEMMA DecideRiskKeeps ==
  ASSUME QuotesInv, NEW c \in Calls, NEW answer \in {"ACKNOWLEDGED", "DECLINED"},
         decideRisk(c, answer)
  PROVE  QuotesInv'
<1>1. accepted = 0 BY DEF decideRisk, Editable, QuotesInv, AcceptedSound
<1>2. draft' = [item |-> draft.item, revision |-> draft.revision + 1,
                express |-> draft.express, destination |-> draft.destination]
  BY QuoteFacts DEF decideRisk, riskRevision
<1>3. draft' \in DraftRows /\ draft'.item = draft.item /\ draft'.revision = draft.revision + 1
  BY <1>2, QuoteFacts DEF DraftRows
<1>4. decision' \in [Configs -> {"NONE", "ACKNOWLEDGED", "DECLINED"}]
  BY DEF decideRisk, QuotesInv, QuotesTyped
<1>5. call' = [call EXCEPT ![c] = [at |-> "release"]] /\ bindings' = bindings
  BY DEF decideRisk, Continue
<1>6. CallSound([at |-> "release"], bindings') BY CallRests
<1>7. CallsSound' BY <1>5, <1>6, QuoteFacts, SameGrows, CallsAfter
<1> QED BY <1>1, <1>3, <1>4, <1>7, RevisionKeeps DEF decideRisk, checkout, external

LEMMA SetExpressKeeps ==
  ASSUME QuotesInv, NEW c \in Calls, NEW requested \in BOOLEAN, setExpress(c, requested)
  PROVE  QuotesInv'
<1>1. accepted = 0 BY DEF setExpress, Editable, QuotesInv, AcceptedSound
<1>2. draft' = [item |-> draft.item, revision |-> draft.revision + 1,
                express |-> requested, destination |-> draft.destination]
  BY QuoteFacts DEF setExpress
<1>3. draft' \in DraftRows /\ draft'.item = draft.item /\ draft'.revision = draft.revision + 1
  BY <1>2, QuoteFacts DEF DraftRows
<1>4. decision' \in [Configs -> {"NONE", "ACKNOWLEDGED", "DECLINED"}]
  BY DEF setExpress, QuotesInv, QuotesTyped
<1>5. call' = [call EXCEPT ![c] = [at |-> "release"]] /\ bindings' = bindings
  BY DEF setExpress, Continue
<1>6. CallSound([at |-> "release"], bindings') BY CallRests
<1>7. CallsSound' BY <1>5, <1>6, QuoteFacts, SameGrows, CallsAfter
<1> QED BY <1>1, <1>3, <1>4, <1>7, RevisionKeeps DEF setExpress, checkout, external

LEMMA PrevalidateDestinationKeeps ==
  ASSUME QuotesInv, NEW c \in Calls, NEW e \in Endpoints, prevalidateDestination(c, e)
  PROVE  QuotesInv'
<1> DEFINE k == [at |-> "select", policy |-> policy, revision |-> draft.revision,
                 endpoint |-> e, carrier |-> carrier]
<1>1. call' = [call EXCEPT ![c] = k] /\ bindings' = bindings
  BY DEF prevalidateDestination, Continue
<1>2. CallSound(k, bindings') BY DEF CallSound, QuotesInv, QuotesTyped
<1> HIDE DEF k
<1>3. CallsSound' BY <1>1, <1>2, QuoteFacts, SameGrows, CallsAfter
<1> QED BY <1>3, CallOnly DEF prevalidateDestination, checkout, external

LEMMA SelectDestinationKeeps ==
  ASSUME QuotesInv, NEW c \in Calls, selectDestination(c) PROVE QuotesInv'
<1>1. CallSound(call[c], bindings) BY DEF QuotesInv, CallsSound
<1>2. call[c].endpoint \in Endpoints /\ call[c].carrier \in Nat
  BY <1>1 DEF selectDestination, CallSound
<1>3. bindings' = bindings BY DEF selectDestination
<1>4. CASE End(c) /\ draft' = draft
  <2>1. call' = [call EXCEPT ![c] = [at |-> "idle"]] BY <1>4 DEF End, Continue
  <2>2. CallSound([at |-> "idle"], bindings') BY CallRests
  <2>3. CallsSound' BY <1>3, <2>1, <2>2, QuoteFacts, SameGrows, CallsAfter
  <2> QED BY <1>4, <2>3, CallOnly DEF selectDestination, checkout, external
<1>5. CASE /\ selectable(c)
           /\ draft' = [draft EXCEPT
                !.destination = [id |-> draft.revision, endpoint |-> call[c].endpoint,
                                 carrier |-> call[c].carrier],
                !.revision = @ + 1]
           /\ Continue(c, [at |-> "release"])
  <2> DEFINE d == [id |-> draft.revision, endpoint |-> call[c].endpoint,
                   carrier |-> call[c].carrier]
  <2>1. d \in Destinations BY <1>2, QuoteFacts DEF Destinations
  <2> HIDE DEF d
  <2>2. draft' = [item |-> draft.item, revision |-> draft.revision + 1,
                  express |-> draft.express, destination |-> d]
    BY <1>5, QuoteFacts DEF d
  <2>3. draft' \in DraftRows /\ draft'.item = draft.item /\ draft'.revision = draft.revision + 1
    BY <2>1, <2>2, QuoteFacts DEF DraftRows
  <2>4. call' = [call EXCEPT ![c] = [at |-> "release"]] BY <1>5 DEF Continue
  <2>5. CallSound([at |-> "release"], bindings') BY CallRests
  <2>6. CallsSound' BY <1>3, <2>4, <2>5, QuoteFacts, SameGrows, CallsAfter
  <2>7. decision' \in [Configs -> {"NONE", "ACKNOWLEDGED", "DECLINED"}]
    BY DEF selectDestination, QuotesInv, QuotesTyped
  <2>8. accepted = 0 BY <1>5 DEF selectable
  <2> QED BY <2>3, <2>6, <2>7, <2>8, RevisionKeeps DEF selectDestination, checkout, external
<1> QED BY <1>4, <1>5 DEF selectDestination

LEMMA ReleaseSupersededKeeps ==
  ASSUME QuotesInv, NEW c \in Calls, releaseSupersededReservations(c) PROVE QuotesInv'
<1>1. call' = [call EXCEPT ![c] = [at |-> "idle"]]
  BY DEF releaseSupersededReservations, End, Continue
<1>2. CallSound([at |-> "idle"], bindings') BY CallRests
<1>3. CASE bindings' = bindings
  <2>1. CallsSound' BY <1>1, <1>2, <1>3, QuoteFacts, SameGrows, CallsAfter
  <2> QED BY <1>3, <2>1, CallOnly DEF releaseSupersededReservations, checkout, external
<1>4. CASE /\ Active # 0 /\ orderStatus # "CONFIRMED"
           /\ bindings' = [bindings EXCEPT ![Active].plans =
                [i \in DOMAIN @ |-> IF @[i].set = "RESERVED" THEN [@[i] EXCEPT !.set = "RELEASED"]
                                                             ELSE @[i]]]
  <2> DEFINE b == Active
             ps == [i \in DOMAIN Plans(b) |->
                      IF Plans(b)[i].set = "RESERVED" THEN [Plans(b)[i] EXCEPT !.set = "RELEASED"]
                                                      ELSE Plans(b)[i]]
  <2>1. b \in 1..Len(bindings) BY <1>4, QuoteFacts
  <2>2. /\ Plans(b) = bindings[b].plans /\ LastPlan(b) = Len(bindings[b].plans)
        /\ LastPlan(b) \in Nat /\ DOMAIN Plans(b) = 1..LastPlan(b)
        /\ \A i \in 1..LastPlan(b) : Plans(b)[i] \in ReservedPlans
    BY <2>1, QuoteFacts
  <2>3. \A i \in 1..LastPlan(b) : [Plans(b)[i] EXCEPT !.set = "RELEASED"] \in ReservedPlans
    BY <2>2 DEF ReservedPlans
  <2>4. ps \in Seq(ReservedPlans) /\ Len(ps) = Len(bindings[b].plans)
    BY <2>2, <2>3
  <2>5. bindings' = WithPlans(bindings, b, ps) BY <1>4, <2>2 DEF WithPlans
  <2>6. Len(ps) >= Len(bindings[b].plans) BY <2>2, <2>4
  <2> HIDE DEF b, ps
  <2>7. bindings' \in Seq(BindingRows) /\ Priced(bindings, bindings')
    BY <2>1, <2>4, <2>5, <2>6, QuoteFacts, PlansEdited
  <2>8. policy' \in Nat /\ terms' \in Nat /\ carrier' \in Nat /\ offers' \in Nat
        /\ UNCHANGED <<session, orderStatus, frozen, draft, decision, accepted>>
    BY DEF QuotesInv, QuotesTyped, releaseSupersededReservations, checkout, external
  <2>9. QuotesTyped' /\ BindingsSound' /\ AcceptedSound' /\ Grows(bindings, bindings')
    BY <2>7, <2>8, EditKeeps
  <2>10. PaidSound' BY <1>4, <2>7, <2>8, PaidKeeps
  <2>11. CallsSound' BY <1>1, <1>2, <2>7, <2>9, CallsAfter
  <2> QED BY <2>9, <2>10, <2>11 DEF QuotesInv
<1> QED BY <1>3, <1>4 DEF releaseSupersededReservations

-----------------------------------------------------------------------------
(* Pricing. *)

LEMMA PrevalidateBindingKeeps ==
  ASSUME QuotesInv, NEW c \in Calls, prevalidateFreshBinding(c) PROVE QuotesInv'
<1>1. inputFingerprint \in CheckRows /\ None \in CheckRows
  BY QuoteFacts DEF inputFingerprint, CheckRows, QuotesInv, QuotesTyped
<1>2. PICK v \in CheckRows :
        call' = [call EXCEPT ![c] = [at |-> "prepare", validation |-> v]] /\ bindings' = bindings
  BY <1>1 DEF prevalidateFreshBinding, Continue
<1>3. CallSound([at |-> "prepare", validation |-> v], bindings') BY DEF CallSound
<1>4. CallsSound' BY <1>2, <1>3, QuoteFacts, SameGrows, CallsAfter
<1> QED BY <1>4, CallOnly DEF prevalidateFreshBinding, checkout, external

\* A new binding is of the draft as it is, checked as it is, its risk answered.
LEMMA PersistKeeps ==
  ASSUME QuotesInv, NEW c \in Calls, accepted = 0, riskAllowsAutomaticQuote,
         call[c].validation = inputFingerprint, persistBinding(c), frozen' = TRUE,
         UNCHANGED <<session, orderStatus, draft, decision, external, accepted>>,
         call' = [call EXCEPT ![c] = [at |-> "advance"]]
  PROVE  QuotesInv'
<1> DEFINE r == Binding(c)
           n == Len(bindings)
<1>1. r = [revision |-> draft.revision, destination |-> draft.destination,
           express |-> draft.express, item |-> draft.item,
           policy |-> policy, terms |-> terms, checked |-> call[c].validation,
           candidate |-> [n |-> 0, state |-> "NONE"], markers |-> {}, plans |-> <<>>]
  BY DEF Binding
<1>2. /\ r.revision = draft.revision /\ r.item = draft.item /\ r.plans = <<>>
      /\ r.checked = [policy |-> r.policy, revision |-> r.revision, destination |-> r.destination]
  BY <1>1 DEF inputFingerprint
<1>3. r \in BindingRows
  <2>1. inputFingerprint \in CheckRows
    BY QuoteFacts DEF inputFingerprint, CheckRows, QuotesInv, QuotesTyped
  <2>2. [n |-> 0, state |-> "NONE"] \in EstimateRows BY DEF EstimateRows
  <2>3. <<>> \in Seq(ReservedPlans) OBVIOUS
  <2>4. policy \in Nat /\ terms \in Nat BY DEF QuotesInv, QuotesTyped
  <2> QED BY <1>1, <2>1, <2>2, <2>3, <2>4, QuoteFacts DEF BindingRows
<1> HIDE DEF r
<1>4. bindings' = Append(bindings, r) BY DEF persistBinding, r
<1>5. /\ n \in Nat /\ bindings' \in Seq(BindingRows) /\ Len(bindings') = n + 1
      /\ bindings'[n + 1] = r /\ \A b \in 1..n : bindings'[b] = bindings[b]
  BY <1>3, <1>4, QuoteFacts
<1> HIDE DEF n
<1>6. Active' = n + 1 /\ Active = n BY <1>5 DEF Active, n
<1>7. QuotesTyped' BY <1>5 DEF QuotesInv, QuotesTyped, external
<1>8. \A b \in 1..n : /\ bindings[b].revision <= draft.revision /\ bindings[b].item = draft.item
                      /\ bindings[b].checked = [policy |-> bindings[b].policy,
                                                revision |-> bindings[b].revision,
                                                destination |-> bindings[b].destination]
  BY <1>6 DEF QuotesInv, BindingsSound
<1>9. \A b \in 1..(n + 1) :
        /\ bindings'[b].revision <= draft.revision /\ bindings'[b].item = draft.item
        /\ bindings'[b].checked = [policy |-> bindings'[b].policy,
                                   revision |-> bindings'[b].revision,
                                   destination |-> bindings'[b].destination]
  <2>1. ASSUME NEW b \in 1..(n + 1)
        PROVE /\ bindings'[b].revision <= draft.revision /\ bindings'[b].item = draft.item
              /\ bindings'[b].checked = [policy |-> bindings'[b].policy,
                                         revision |-> bindings'[b].revision,
                                         destination |-> bindings'[b].destination]
    <3>1. CASE b \in 1..n BY <1>5, <1>8, <3>1
    <3>2. CASE b = n + 1
      <4>1. draft.revision \in Nat BY QuoteFacts
      <4> QED BY <1>2, <1>5, <3>2, <4>1
    <3> QED BY <1>5, <3>1, <3>2
  <2> QED BY <2>1
<1>10. riskAllowsAutomaticQuote' BY DEF riskAllowsAutomaticQuote
<1>11. BindingsSound' BY <1>6, <1>9, <1>10 DEF BindingsSound
<1>12. AcceptedSound' BY DEF AcceptedSound
<1>13. \A b \in 1..n : Len(bindings[b].plans) \in Nat BY QuoteFacts DEF n
<1>14. Grows(bindings, bindings') BY <1>5, <1>13 DEF Grows, n
<1>15. CallSound([at |-> "advance"], bindings') BY CallRests
<1>16. CallsSound' BY <1>5, <1>14, <1>15, CallsAfter
<1>17. ASSUME HeldOnce(bindings) PROVE HeldOnce(bindings')
  <2>0. PICK b \in 1..n : \E i \in 1..Len(bindings[b].plans) :
          /\ bindings[b].plans[i].set = "HELD"
          /\ \A d \in 1..n : \A j \in 1..Len(bindings[d].plans) :
               bindings[d].plans[j].set \in {"RESERVED", "HELD"} => d = b /\ j = i
    BY <1>17 DEF HeldOnce, n
  <2>1. PICK i \in 1..Len(bindings[b].plans) :
          /\ bindings[b].plans[i].set = "HELD"
          /\ \A d \in 1..n : \A j \in 1..Len(bindings[d].plans) :
               bindings[d].plans[j].set \in {"RESERVED", "HELD"} => d = b /\ j = i
    BY <2>0
  <2>2. b \in 1..(n + 1) /\ bindings'[b] = bindings[b] BY <1>5
  <2>3. ASSUME NEW d \in 1..(n + 1), NEW j \in 1..Len(bindings'[d].plans),
               bindings'[d].plans[j].set \in {"RESERVED", "HELD"}
        PROVE  d = b /\ j = i
    <3>1. CASE d \in 1..n BY <1>5, <2>1, <2>3, <3>1
    <3>2. CASE d = n + 1
      <4>1. bindings'[d].plans = <<>> BY <1>2, <1>5, <3>2
      <4> QED BY <4>1, <2>3
    <3> QED BY <1>5, <3>1, <3>2
  <2> QED BY <1>5, <2>1, <2>2, <2>3 DEF HeldOnce
<1>18. PaidSound' BY <1>17 DEF QuotesInv, PaidSound
<1> QED BY <1>7, <1>11, <1>12, <1>16, <1>18 DEF QuotesInv

LEMMA PrepareKeeps ==
  ASSUME QuotesInv, NEW c \in Calls, prepare(c) PROVE QuotesInv'
<1>1. UNCHANGED <<session, orderStatus, draft, decision, external, accepted>>
  BY DEF prepare, checkout, external
<1>2. CASE UNCHANGED <<bindings, frozen>>
  <2>1. \/ call' = [call EXCEPT ![c] = [at |-> "idle"]]
        \/ call' = [call EXCEPT ![c] = [at |-> "advance"]]
    BY <1>2 DEF prepare, End, Continue
  <2>2. CallSound([at |-> "idle"], bindings') /\ CallSound([at |-> "advance"], bindings')
    BY CallRests
  <2>3. CallsSound' BY <1>2, <2>1, <2>2, QuoteFacts, SameGrows, CallsAfter
  <2> QED BY <1>1, <1>2, <2>3, CallOnly
<1>3. CASE ~UNCHANGED <<bindings, frozen>>
  <2>1. /\ accepted = 0 /\ allReferenceSliced /\ stageOrFinalizeBinding(c)
        /\ ~(/\ call[c].validation # None /\ riskAllowsAutomaticQuote /\ draft.destination # None
             /\ ~MatchesTerms(Active) /\ ~validationCurrent(c))
        /\ call' = [call EXCEPT ![c] = [at |-> "advance"]]
    BY <1>3 DEF prepare, Continue
  <2>2. /\ riskAllowsAutomaticQuote /\ draft.destination # None /\ ~MatchesTerms(Active)
        /\ call[c].validation # None /\ persistBinding(c) /\ frozen' = TRUE
    BY <1>3, <2>1 DEF stageOrFinalizeBinding, ensureQuoteTopology
  <2>3. call[c].validation = inputFingerprint BY <2>1, <2>2 DEF validationCurrent
  <2> QED BY <1>1, <2>1, <2>2, <2>3, PersistKeeps
<1> QED BY <1>2, <1>3

-----------------------------------------------------------------------------
(* Estimates, plans and reservations. *)

\* A step of a request that edits bindings, as far as the draft is concerned.
LEMMA RequestEdits ==
  ASSUME QuotesInv, NEW c \in Calls, NEW k, call' = [call EXCEPT ![c] = k],
         bindings' \in Seq(BindingRows), Priced(bindings, bindings'),
         CallSound(k, bindings'), orderStatus = "CONFIRMED" => NoneReserved(bindings, bindings'),
         UNCHANGED <<session, orderStatus, frozen, draft, decision, external, accepted>>
  PROVE  QuotesInv'
<1>1. policy' \in Nat /\ terms' \in Nat /\ carrier' \in Nat /\ offers' \in Nat
  BY DEF QuotesInv, QuotesTyped, external
<1>2. QuotesTyped' /\ BindingsSound' /\ AcceptedSound' /\ Grows(bindings, bindings')
  BY <1>1, EditKeeps
<1>3. PaidSound' BY PaidKeeps
<1>4. CallsSound' BY <1>2, CallsAfter
<1> QED BY <1>2, <1>3, <1>4 DEF QuotesInv

\* The same of a step outside the requests.
LEMMA OutsideEdits ==
  ASSUME QuotesInv, call' = call, bindings' \in Seq(BindingRows), Priced(bindings, bindings'),
         orderStatus = "CONFIRMED" => NoneReserved(bindings, bindings'),
         UNCHANGED <<session, orderStatus, frozen, draft, decision, external, accepted>>
  PROVE  QuotesInv'
<1>1. policy' \in Nat /\ terms' \in Nat /\ carrier' \in Nat /\ offers' \in Nat
  BY DEF QuotesInv, QuotesTyped, external
<1>2. QuotesTyped' /\ BindingsSound' /\ AcceptedSound' /\ Grows(bindings, bindings')
  BY <1>1, EditKeeps
<1>3. PaidSound' BY PaidKeeps
<1>4. CallsSound' BY <1>2, CallsAsBefore
<1> QED BY <1>2, <1>3, <1>4 DEF QuotesInv

LEMMA EligibilityKeeps ==
  ASSUME QuotesInv, NEW c \in Calls, advanceEligibility(c) PROVE QuotesInv'
<1>1. UNCHANGED <<session, orderStatus, frozen, draft, decision, external, accepted>>
  BY DEF advanceEligibility, checkout, external
<1>2. CASE End(c) /\ bindings' = bindings
  <2>1. call' = [call EXCEPT ![c] = [at |-> "idle"]] BY <1>2 DEF End, Continue
  <2>2. CallSound([at |-> "idle"], bindings') BY CallRests
  <2> QED BY <1>1, <1>2, <2>1, <2>2, QuoteFacts, SameGrows, RequestEdits
<1>3. CASE Matches(Active)
  <2> DEFINE b == Active
             i == LastPlan(b)
             k == dispatchOrderCandidates(bindings[b].candidate)
  <2>1. b \in 1..Len(bindings) /\ b \in 1..Active BY <1>3, QuoteFacts DEF Matches
  <2>2. bindings[b].candidate \in EstimateRows /\ i = Len(bindings[b].plans) /\ i \in Nat
    BY <2>1, QuoteFacts
  <2>3. k \in EstimateRows
    <3>1. bindings[b].candidate.n + 1 \in Nat BY <2>2 DEF EstimateRows
    <3> QED BY <2>2, <3>1 DEF dispatchOrderCandidates, EstimateRows
  <2>4. bindings' = WithEstimate(bindings, b, k) BY <1>3 DEF advanceEligibility, WithEstimate
  <2>5. PICK fits \in Fits(b) :
           CASE k.state = "NONE" ->
                  Continue(c, [at |-> "marker", b |-> b, frontier |-> <<k, offers>>])
             [] k.state = "SUCCEEDED" /\ Reserved(b, i) /\ fits ->
                  Continue(c, [at |-> "finalize", b |-> b, i |-> i, again |-> TRUE])
             [] k.state = "SUCCEEDED" /\ Reserved(b, i) /\ ~fits ->
                  Continue(c, [at |-> "drop", b |-> b, i |-> i])
             [] k.state = "SUCCEEDED" /\ ~Reserved(b, i) ->
                  Continue(c, [at |-> "plan", b |-> b, frontier |-> <<k, offers>>,
                               next |-> IF needsSuccessor(b, i) THEN i + 1 ELSE i])
             [] OTHER -> End(c)
    BY <1>3 DEF advanceEligibility
  <2>6. <<k, offers>> \in EstimateRows \X Nat BY <2>3 DEF QuotesInv, QuotesTyped
  <2> HIDE DEF k, b
  <2>7. /\ bindings' \in Seq(BindingRows) /\ Priced(bindings, bindings')
        /\ NoneReserved(bindings, bindings')
        /\ \A d \in 1..Len(bindings) : bindings'[d].plans = bindings[d].plans
    <3>1. bindings \in Seq(BindingRows) BY QuoteFacts
    <3> QED BY <2>1, <2>3, <2>4, <3>1, EstimateEdited
  <2>8. b \in 1..Len(bindings') /\ Len(bindings'[b].plans) = i BY <2>1, <2>2, <2>7 DEF Priced
  <2>9. Reserved(b, i) => i # 0 BY DEF Reserved, LivePlan
  <2>10. ~needsSuccessor(b, i) => i # 0 BY DEF needsSuccessor, LivePlan
  <2> HIDE DEF i
  <2>11. CASE k.state = "NONE"
    <3> DEFINE n == [at |-> "marker", b |-> b, frontier |-> <<k, offers>>]
    <3>1. call' = [call EXCEPT ![c] = n] BY <2>5, <2>11 DEF Continue
    <3>2. CallSound(n, bindings') BY <2>6, <2>8 DEF CallSound
    <3> HIDE DEF n
    <3> QED BY <1>1, <2>7, <3>1, <3>2, RequestEdits
  <2>12. CASE k.state = "SUCCEEDED" /\ Reserved(b, i) /\ fits
    <3> DEFINE n == [at |-> "finalize", b |-> b, i |-> i, again |-> TRUE]
    <3>1. call' = [call EXCEPT ![c] = n] BY <2>5, <2>12 DEF Continue
    <3>2. CallSound(n, bindings') BY <2>2, <2>8, <2>9, <2>12 DEF CallSound
    <3> HIDE DEF n
    <3> QED BY <1>1, <2>7, <3>1, <3>2, RequestEdits
  <2>13. CASE k.state = "SUCCEEDED" /\ Reserved(b, i) /\ ~fits
    <3> DEFINE n == [at |-> "drop", b |-> b, i |-> i]
    <3>1. call' = [call EXCEPT ![c] = n] BY <2>5, <2>13 DEF Continue
    <3>2. CallSound(n, bindings') BY <2>2, <2>8, <2>9, <2>13 DEF CallSound
    <3> HIDE DEF n
    <3> QED BY <1>1, <2>7, <3>1, <3>2, RequestEdits
  <2>14. CASE k.state = "SUCCEEDED" /\ ~Reserved(b, i)
    <3> DEFINE m == IF needsSuccessor(b, i) THEN i + 1 ELSE i
               n == [at |-> "plan", b |-> b, frontier |-> <<k, offers>>, next |-> m]
    <3>1. call' = [call EXCEPT ![c] = n] BY <2>5, <2>14 DEF Continue
    <3>2. m \in 1..(i + 1) BY <2>2, <2>10
    <3> HIDE DEF m
    <3>3. CallSound(n, bindings') BY <2>6, <2>8, <3>2 DEF CallSound
    <3> HIDE DEF n
    <3> QED BY <1>1, <2>7, <3>1, <3>3, RequestEdits
  <2>15. CASE k.state \notin {"NONE", "SUCCEEDED"}
    <3>1. call' = [call EXCEPT ![c] = [at |-> "idle"]] BY <2>5, <2>15 DEF End, Continue
    <3>2. CallSound([at |-> "idle"], bindings') BY CallRests
    <3> QED BY <1>1, <2>7, <3>1, <3>2, RequestEdits
  <2> QED BY <2>11, <2>12, <2>13, <2>14, <2>15
<1> QED BY <1>2, <1>3 DEF advanceEligibility

\* Giving a reservation back before its order is paid.
LEMMA ReleaseEdits ==
  ASSUME QuotesInv, NEW b \in 1..Active, NEW i \in 1..LastPlan(b), releaseBeforePrint(b, i)
  PROVE  /\ bindings' \in Seq(BindingRows) /\ Priced(bindings, bindings')
         /\ orderStatus = "CONFIRMED" => NoneReserved(bindings, bindings')
         /\ bindings'[b].candidate = bindings[b].candidate
         /\ Len(bindings'[b].plans) >= LastPlan(b)
<1>1. CASE bindings' = bindings
  <2>1. LastPlan(b) = Len(bindings[b].plans) /\ LastPlan(b) \in Nat BY QuoteFacts
  <2> QED BY <1>1, <2>1, QuoteFacts, SameGrows
<1>2. CASE /\ orderStatus # "CONFIRMED"
           /\ SetPlan(b, i, [Plans(b)[i] EXCEPT !.set = "RELEASED"])
  <2> DEFINE p == [Plans(b)[i] EXCEPT !.set = "RELEASED"]
             ps == [bindings[b].plans EXCEPT ![i] = p]
  <2>1. p \in ReservedPlans BY QuoteFacts DEF ReservedPlans
  <2> HIDE DEF p
  <2>2. bindings' = WithPlan(bindings, b, i, p) BY <1>2 DEF SetPlan, p, WithPlan
  <2>3. b \in 1..Len(bindings) /\ i \in 1..Len(bindings[b].plans) BY QuoteFacts
  <2>4. bindings' \in Seq(BindingRows) /\ Priced(bindings, bindings')
    BY <2>1, <2>2, <2>3, QuoteFacts, PlanEdited
  <2>5. bindings'[b].candidate = bindings[b].candidate
    <3>1. bindings[b] \in BindingRows /\ DOMAIN bindings = 1..Len(bindings) BY <2>3, QuoteFacts
    <3>2. bindings'[b] = [bindings[b] EXCEPT !.plans = ps] BY <2>2, <2>3, <3>1 DEF WithPlan
    <3> QED BY <3>1, <3>2 DEF BindingRows
  <2>6. Len(bindings'[b].plans) >= LastPlan(b) BY <2>3, <2>4, QuoteFacts DEF Priced
  <2> QED BY <1>2, <2>4, <2>5, <2>6
<1> QED BY <1>1, <1>2 DEF releaseBeforePrint

\* What the next attempt at a plan remembers.
LEMMA PlansAgain ==
  ASSUME QuotesInv, NEW b \in 1..Active, NEW i \in 1..LastPlan(b),
         bindings' \in Seq(BindingRows), Priced(bindings, bindings')
  PROVE  CallSound([at |-> "plan", b |-> b, next |-> i + 1,
                    frontier |-> automaticCandidateFrontier(b)], bindings')
<1>1. /\ b \in 1..Len(bindings) /\ LastPlan(b) = Len(bindings[b].plans) /\ LastPlan(b) \in Nat
      /\ bindings[b].candidate \in EstimateRows
  BY QuoteFacts
<1>2. automaticCandidateFrontier(b) \in EstimateRows \X Nat
  BY <1>1 DEF automaticCandidateFrontier, QuotesInv, QuotesTyped
<1>3. b \in 1..Len(bindings') /\ Len(bindings'[b].plans) >= LastPlan(b) BY <1>1 DEF Priced
<1>4. Len(bindings'[b].plans) \in Nat BY <1>3, BindingFacts
<1>5. i + 1 \in 1..(Len(bindings'[b].plans) + 1) BY <1>1, <1>3, <1>4
<1> QED BY <1>2, <1>3, <1>5 DEF CallSound

LEMMA DropKeeps ==
  ASSUME QuotesInv, NEW c \in Calls, dropUnfitReservation(c) PROVE QuotesInv'
<1> DEFINE b == call[c].b
           i == call[c].i
<1>1. CallSound(call[c], bindings) BY DEF QuotesInv, CallsSound
<1>2. b \in 1..Active /\ i \in 1..LastPlan(b)
  BY <1>1, QuoteFacts DEF dropUnfitReservation, CallSound
<1>3. releaseBeforePrint(b, i) BY DEF dropUnfitReservation
<1>4. call' = [call EXCEPT ![c] = [at |-> "plan", b |-> b, next |-> i + 1,
                                   frontier |-> automaticCandidateFrontier(b)]]
  BY DEF dropUnfitReservation, Continue
<1>5. UNCHANGED <<session, orderStatus, frozen, draft, decision, external, accepted>>
  BY DEF dropUnfitReservation, checkout, external
<1> HIDE DEF b, i
<1>6. /\ bindings' \in Seq(BindingRows) /\ Priced(bindings, bindings')
      /\ orderStatus = "CONFIRMED" => NoneReserved(bindings, bindings')
  BY <1>2, <1>3, ReleaseEdits
<1>7. CallSound([at |-> "plan", b |-> b, next |-> i + 1,
                 frontier |-> automaticCandidateFrontier(b)], bindings')
  BY <1>2, <1>6, PlansAgain
<1> QED BY <1>4, <1>5, <1>6, <1>7, RequestEdits

LEMMA GiveBackKeeps ==
  ASSUME QuotesInv, NEW c \in Calls, giveBackReservation(c) PROVE QuotesInv'
<1> DEFINE b == call[c].b
           i == call[c].i
<1>1. CallSound(call[c], bindings) BY DEF QuotesInv, CallsSound
<1>2. b \in 1..Active /\ i \in 1..LastPlan(b)
  BY <1>1, QuoteFacts DEF giveBackReservation, CallSound
<1>3. releaseBeforePrint(b, i) BY DEF giveBackReservation
<1>4. \/ call' = [call EXCEPT ![c] = [at |-> "plan", b |-> b, next |-> i + 1,
                                      frontier |-> automaticCandidateFrontier(b)]]
      \/ call' = [call EXCEPT ![c] = [at |-> "idle"]]
  BY DEF giveBackReservation, End, Continue
<1>5. UNCHANGED <<session, orderStatus, frozen, draft, decision, external, accepted>>
  BY DEF giveBackReservation, checkout, external
<1> HIDE DEF b, i
<1>6. /\ bindings' \in Seq(BindingRows) /\ Priced(bindings, bindings')
      /\ orderStatus = "CONFIRMED" => NoneReserved(bindings, bindings')
  BY <1>2, <1>3, ReleaseEdits
<1>7. CallSound([at |-> "plan", b |-> b, next |-> i + 1,
                 frontier |-> automaticCandidateFrontier(b)], bindings')
  BY <1>2, <1>6, PlansAgain
<1>8. CallSound([at |-> "idle"], bindings') BY CallRests
<1> QED BY <1>4, <1>5, <1>6, <1>7, <1>8, RequestEdits

LEMMA CreatePlanKeeps ==
  ASSUME QuotesInv, NEW c \in Calls, createCompletePlan(c) PROVE QuotesInv'
<1> DEFINE b == call[c].b
           k == call[c].next
<1>1. CallSound(call[c], bindings) BY DEF QuotesInv, CallsSound
<1>2. /\ b \in 1..Active /\ k \in 1..(Len(bindings[b].plans) + 1)
      /\ call[c].frontier \in EstimateRows \X Nat
  BY <1>1, QuoteFacts DEF createCompletePlan, CallSound
<1>3. /\ b \in 1..Len(bindings) /\ LastPlan(b) = Len(bindings[b].plans) /\ LastPlan(b) \in Nat
      /\ bindings[b].plans \in Seq(ReservedPlans)
  BY <1>2, QuoteFacts
<1>4. UNCHANGED <<session, orderStatus, frozen, draft, decision, external, accepted>>
  BY DEF createCompletePlan, checkout, external
<1>5. CASE k <= LastPlan(b) /\ bindings' = bindings
           /\ Continue(c, [at |-> "reserve", b |-> b, i |-> k])
  <2> DEFINE n == [at |-> "reserve", b |-> b, i |-> k]
  <2>1. call' = [call EXCEPT ![c] = n] BY <1>5 DEF Continue
  <2>2. CallSound(n, bindings') BY <1>2, <1>3, <1>5 DEF CallSound
  <2> HIDE DEF n
  <2> QED BY <1>4, <1>5, <2>1, <2>2, QuoteFacts, SameGrows, RequestEdits
<1>6. CASE /\ k > LastPlan(b)
           /\ bindings' = [bindings EXCEPT ![b].plans = Append(@, [live |-> TRUE, set |-> "NONE"])]
           /\ Continue(c, [at |-> "reserve", b |-> b, i |-> k])
  <2> DEFINE p == [live |-> TRUE, set |-> "NONE"]
             qs == bindings[b].plans
             ps == Append(qs, p)
             n == [at |-> "reserve", b |-> b, i |-> k]
  <2>1. p \in ReservedPlans /\ p.set = "NONE" BY DEF ReservedPlans
  <2>2. bindings' = WithPlans(bindings, b, ps) BY <1>6 DEF WithPlans
  <2>3. call' = [call EXCEPT ![c] = n] BY <1>6 DEF Continue
  <2>a. qs \in Seq(ReservedPlans) /\ Len(qs) \in Nat BY <1>3
  <2> HIDE DEF p, qs
  <2>4. /\ ps \in Seq(ReservedPlans) /\ Len(ps) = Len(qs) + 1 /\ ps[Len(qs) + 1] = p
        /\ \A j \in 1..Len(qs) : ps[j] = qs[j]
    BY <2>1, <2>a
  <2>b. Len(ps) >= Len(qs) BY <2>4, <2>a
  <2> HIDE DEF ps
  <2>5. /\ bindings' \in Seq(BindingRows) /\ Priced(bindings, bindings')
        /\ bindings'[b].plans = ps
        /\ \A d \in 1..Len(bindings) : d # b => bindings'[d] = bindings[d]
    <3>1. bindings \in Seq(BindingRows) /\ Len(ps) >= Len(bindings[b].plans) BY <2>b, QuoteFacts DEF qs
    <3> QED BY <1>3, <2>2, <2>4, <3>1, PlansEdited
  <2>6. NoneReserved(bindings, bindings')
    <3>1. ASSUME NEW j \in 1..Len(qs), qs[j].set = "HELD" PROVE bindings'[b].plans[j].set = "HELD"
      BY <2>4, <2>5, <3>1
    <3>2. ASSUME NEW j \in 1..Len(ps), ps[j].set \in {"RESERVED", "HELD"}
          PROVE  j \in 1..Len(qs) /\ qs[j].set \in {"RESERVED", "HELD"}
      <4>1. j # Len(qs) + 1 BY <2>1, <2>4, <3>2
      <4>2. j \in 1..Len(qs) BY <2>4, <2>a, <4>1
      <4> QED BY <2>4, <3>2, <4>2
    <3> QED BY <2>5, <3>1, <3>2 DEF NoneReserved, qs
  <2>7. b \in 1..Len(bindings') /\ k \in 1..Len(bindings'[b].plans)
    BY <1>2, <1>3, <2>4, <2>5 DEF Priced, qs
  <2>8. CallSound(n, bindings') BY <2>7 DEF CallSound
  <2> HIDE DEF n
  <2> QED BY <1>4, <2>3, <2>5, <2>6, <2>8, RequestEdits
<1>7. CASE bindings' = bindings
           /\ Continue(c, [at |-> "marker", b |-> b, frontier |-> call[c].frontier])
  <2> DEFINE n == [at |-> "marker", b |-> b, frontier |-> call[c].frontier]
  <2>1. call' = [call EXCEPT ![c] = n] BY <1>7 DEF Continue
  <2>2. CallSound(n, bindings') BY <1>2, <1>3, <1>7 DEF CallSound
  <2> HIDE DEF n
  <2> QED BY <1>4, <1>7, <2>1, <2>2, QuoteFacts, SameGrows, RequestEdits
<1>8. CASE bindings' = bindings /\ End(c)
  <2>1. call' = [call EXCEPT ![c] = [at |-> "idle"]] BY <1>8 DEF End, Continue
  <2>2. CallSound([at |-> "idle"], bindings') BY CallRests
  <2> QED BY <1>4, <1>8, <2>1, <2>2, QuoteFacts, SameGrows, RequestEdits
<1>9. k \in Nat BY <1>2, <1>3
<1>10. CASE k <= LastPlan(b)
  <2>1. bindings' = bindings /\ Continue(c, [at |-> "reserve", b |-> b, i |-> k])
    BY <1>3, <1>9, <1>10 DEF createCompletePlan
  <2> QED BY <1>5, <1>10, <2>1
<1>11. CASE k > LastPlan(b) /\ stock /\ CommerceOpen /\ BelowBound
  <2>0. ~(k <= LastPlan(b)) BY <1>3, <1>9, <1>11
  <2>1. /\ bindings' = [bindings EXCEPT ![b].plans = Append(@, [live |-> TRUE, set |-> "NONE"])]
        /\ Continue(c, [at |-> "reserve", b |-> b, i |-> k])
    BY <1>11, <2>0 DEF createCompletePlan
  <2> QED BY <1>6, <1>11, <2>1
<1>12. CASE k > LastPlan(b) /\ ~stock /\ ~bindings[b].express
  <2>0. ~(k <= LastPlan(b)) BY <1>3, <1>9, <1>12
  <2>1. bindings' = bindings /\ Continue(c, [at |-> "marker", b |-> b, frontier |-> call[c].frontier])
    BY <1>12, <2>0 DEF createCompletePlan
  <2> QED BY <1>7, <2>1
<1>13. CASE /\ ~(k <= LastPlan(b)) /\ ~(k > LastPlan(b) /\ stock /\ CommerceOpen /\ BelowBound)
            /\ ~(k > LastPlan(b) /\ ~stock /\ ~bindings[b].express)
  <2>1. bindings' = bindings /\ End(c)
    BY <1>13 DEF createCompletePlan
  <2> QED BY <1>8, <2>1
<1> QED BY <1>10, <1>11, <1>12, <1>13

LEMMA ReserveKeeps ==
  ASSUME QuotesInv, NEW c \in Calls, reserve(c) PROVE QuotesInv'
<1> DEFINE b == call[c].b
           i == call[c].i
           n == [at |-> "finalize", b |-> b, i |-> i, again |-> FALSE]
           p == [Plans(b)[i] EXCEPT !.set = "RESERVED"]
<1>1. CallSound(call[c], bindings) BY DEF QuotesInv, CallsSound
<1>2. b \in 1..Active /\ i \in 1..LastPlan(b) BY <1>1, QuoteFacts DEF reserve, CallSound
<1>3. /\ b \in 1..Len(bindings) /\ i \in 1..Len(bindings[b].plans)
      /\ Plans(b)[i] \in ReservedPlans
  BY <1>2, QuoteFacts
<1>a. p \in ReservedPlans BY <1>3 DEF ReservedPlans
<1>4. UNCHANGED <<session, orderStatus, frozen, draft, decision, external, accepted>>
  BY DEF reserve, checkout, external
<1>5. \/ bindings' = bindings /\ Continue(c, n)
      \/ orderStatus # "CONFIRMED" /\ SetPlan(b, i, p) /\ Continue(c, n)
      \/ bindings' = bindings /\ End(c)
  BY DEF reserve
<1> HIDE DEF p, b, i
<1>6. CASE bindings' = bindings /\ Continue(c, n)
  <2>1. call' = [call EXCEPT ![c] = n] BY <1>6 DEF Continue
  <2>2. CallSound(n, bindings') BY <1>3, <1>6 DEF CallSound
  <2> HIDE DEF n
  <2> QED BY <1>4, <1>6, <2>1, <2>2, QuoteFacts, SameGrows, RequestEdits
<1>7. CASE orderStatus # "CONFIRMED" /\ SetPlan(b, i, p) /\ Continue(c, n)
  <2>1. call' = [call EXCEPT ![c] = n] BY <1>7 DEF Continue
  <2>2. bindings' = WithPlan(bindings, b, i, p) BY <1>7 DEF SetPlan, WithPlan
  <2>3. bindings' \in Seq(BindingRows) /\ Priced(bindings, bindings')
    BY <1>3, <1>a, <2>2, QuoteFacts, PlanEdited
  <2>4. b \in 1..Len(bindings') /\ Len(bindings[b].plans) \in Nat
        /\ Len(bindings'[b].plans) \in Nat /\ Len(bindings'[b].plans) >= Len(bindings[b].plans)
    BY <1>3, <2>3, QuoteFacts, BindingFacts DEF Priced
  <2>5. i \in 1..Len(bindings'[b].plans) BY <1>3, <2>4
  <2>6. CallSound(n, bindings') BY <2>4, <2>5 DEF CallSound
  <2> HIDE DEF n
  <2> QED BY <1>4, <1>7, <2>1, <2>3, <2>6, RequestEdits
<1>8. CASE bindings' = bindings /\ End(c)
  <2>1. call' = [call EXCEPT ![c] = [at |-> "idle"]] BY <1>8 DEF End, Continue
  <2>2. CallSound([at |-> "idle"], bindings') BY CallRests
  <2> QED BY <1>4, <1>8, <2>1, <2>2, QuoteFacts, SameGrows, RequestEdits
<1> QED BY <1>5, <1>6, <1>7, <1>8

LEMMA FinalizeKeeps ==
  ASSUME QuotesInv, NEW c \in Calls, finalizeAutomaticQuote(c) PROVE QuotesInv'
<1>1. CallSound(call[c], bindings) BY DEF QuotesInv, CallsSound
<1>2. /\ call[c].b \in 1..Len(bindings) /\ call[c].i \in 1..Len(bindings[call[c].b].plans)
      /\ call[c] = [at |-> "finalize", b |-> call[c].b, i |-> call[c].i, again |-> call[c].again]
  BY <1>1 DEF finalizeAutomaticQuote, CallSound
<1>3. /\ UNCHANGED <<frozen, draft, decision, external, accepted, bindings>>
      /\ session' = session \/ session' = "CONVERTED"
      /\ orderStatus' = orderStatus \/ orderStatus' = "QUOTED"
  BY DEF finalizeAutomaticQuote, checkout, external
<1>4. \/ call' = [call EXCEPT ![c] = [at |-> "idle"]]
      \/ call' = [call EXCEPT ![c] = [call[c] EXCEPT !.at = "giveBack"]]
  BY DEF finalizeAutomaticQuote, End, Continue
<1>5. [call[c] EXCEPT !.at = "giveBack"]
        = [at |-> "giveBack", b |-> call[c].b, i |-> call[c].i, again |-> call[c].again]
  BY <1>2
<1>6. CallSound([at |-> "giveBack", b |-> call[c].b, i |-> call[c].i, again |-> call[c].again],
                bindings')
  BY <1>2, <1>3 DEF CallSound
<1>7. CallSound([at |-> "idle"], bindings') BY CallRests
<1>8. CallsSound' BY <1>3, <1>4, <1>5, <1>6, <1>7, QuoteFacts, SameGrows, CallsAfter
<1>9. policy' \in Nat /\ terms' \in Nat /\ carrier' \in Nat /\ offers' \in Nat
  BY <1>3 DEF QuotesInv, QuotesTyped, external
<1>10. QuotesTyped' /\ BindingsSound' /\ AcceptedSound'
  BY <1>3, <1>9, QuoteFacts, SameGrows, EditKeeps
<1>11. PaidSound' BY <1>3, QuoteFacts, SameGrows, PaidKeeps
<1> QED BY <1>8, <1>10, <1>11 DEF QuotesInv

LEMMA MarkerKeeps ==
  ASSUME QuotesInv, NEW c \in Calls, recordCandidateEstimationHandoff(c) PROVE QuotesInv'
<1> DEFINE b == call[c].b
           m == bindings[b].markers \cup {call[c].frontier}
<1>1. CallSound(call[c], bindings) BY DEF QuotesInv, CallsSound
<1>2. b \in 1..Len(bindings) /\ call[c].frontier \in EstimateRows \X Nat
  BY <1>1 DEF recordCandidateEstimationHandoff, CallSound
<1>3. bindings[b] \in BindingRows BY <1>2, QuoteFacts
<1>4. m \in SUBSET (EstimateRows \X Nat) BY <1>2, <1>3 DEF BindingRows
<1>5. UNCHANGED <<session, orderStatus, frozen, draft, decision, external, accepted>>
  BY DEF recordCandidateEstimationHandoff, checkout, external
<1>6. call' = [call EXCEPT ![c] = [at |-> "idle"]]
  BY DEF recordCandidateEstimationHandoff, End, Continue
<1>7. CallSound([at |-> "idle"], bindings') BY CallRests
<1>8. bindings' = bindings \/ bindings' = [bindings EXCEPT ![b].markers = m]
  BY DEF recordCandidateEstimationHandoff
<1> HIDE DEF m, b
<1>9. /\ bindings' \in Seq(BindingRows) /\ Priced(bindings, bindings')
      /\ NoneReserved(bindings, bindings')
  <2>1. CASE bindings' = bindings BY <2>1, QuoteFacts, SameGrows
  <2>2. CASE bindings' = [bindings EXCEPT ![b].markers = m]
    BY <1>2, <1>4, <2>2, QuoteFacts, MarkersEdited
  <2> QED BY <1>8, <2>1, <2>2
<1> QED BY <1>5, <1>6, <1>7, <1>9, RequestEdits

-----------------------------------------------------------------------------
(* Checkout and the world outside. *)

LEMMA CreateCheckoutKeeps ==
  ASSUME QuotesInv, createCheckout PROVE QuotesInv'
<1>1. /\ UNCHANGED <<session, orderStatus, frozen, draft, decision, external, bindings, call>>
      /\ session = "CONVERTED" /\ accepted' = Active
  BY DEF createCheckout, external
<1>2. Matches(Active) BY DEF createCheckout, assertCheckoutTopology, MatchesTerms,
                             QuotesInv, AcceptedSound
<1>3. Active \in Nat /\ Active' = Active BY <1>1, QuoteFacts DEF Active
<1>4. QuotesTyped' BY <1>1, <1>3 DEF QuotesInv, QuotesTyped, external
<1>5. riskAllowsAutomaticQuote' = riskAllowsAutomaticQuote BY <1>1 DEF riskAllowsAutomaticQuote
<1>6. BindingsSound' BY <1>1, <1>3, <1>5 DEF QuotesInv, BindingsSound
<1>7. AcceptedSound' BY <1>1, <1>2, <1>3 DEF AcceptedSound, Matches
<1>8. PaidSound' /\ CallsSound' BY <1>1 DEF QuotesInv, PaidSound, CallsSound
<1> QED BY <1>4, <1>6, <1>7, <1>8 DEF QuotesInv

\* The sets of the bindings, one by one.
LEMMA SetsOfBindings ==
  ASSUME QuotesInv, NEW S
  PROVE  /\ \A s \in SetsIn(S) : /\ s[1] \in 1..Len(bindings)
                                 /\ s[2] \in 1..Len(bindings[s[1]].plans)
                                 /\ bindings[s[1]].plans[s[2]].set \in S
                                 /\ s = <<s[1], s[2]>>
         /\ \A b \in 1..Len(bindings) : \A i \in 1..Len(bindings[b].plans) :
              bindings[b].plans[i].set \in S => <<b, i>> \in SetsIn(S)
<1>1. AllSets = UNION {{<<b, i>> : i \in 1..Len(bindings[b].plans)} : b \in 1..Len(bindings)}
  BY DEF AllSets, LastPlan, Plans, Active
<1>2. \A s \in AllSets : \E b \in 1..Len(bindings) : \E i \in 1..Len(bindings[b].plans) : s = <<b, i>>
  BY <1>1, Zenon
<1>3. \A b \in 1..Len(bindings) : \A i \in 1..Len(bindings[b].plans) : <<b, i>> \in AllSets
  <2> TAKE b \in 1..Len(bindings)
  <2> TAKE i \in 1..Len(bindings[b].plans)
  <2>1. <<b, i>> \in {<<b, j>> : j \in 1..Len(bindings[b].plans)} BY Zenon
  <2>2. {<<b, j>> : j \in 1..Len(bindings[b].plans)}
          \in {{<<d, j>> : j \in 1..Len(bindings[d].plans)} : d \in 1..Len(bindings)}
    BY Zenon
  <2> QED BY <1>1, <2>1, <2>2, Zenon
<1>4. SetsIn(S) = {s \in AllSets : bindings[s[1]].plans[s[2]].set \in S} BY DEF SetsIn, Plans
<1>5. ASSUME NEW s \in SetsIn(S)
      PROVE  /\ s[1] \in 1..Len(bindings) /\ s[2] \in 1..Len(bindings[s[1]].plans)
             /\ bindings[s[1]].plans[s[2]].set \in S /\ s = <<s[1], s[2]>>
  <2>1. s \in AllSets /\ bindings[s[1]].plans[s[2]].set \in S BY <1>4
  <2>2. PICK b \in 1..Len(bindings) : \E i \in 1..Len(bindings[b].plans) : s = <<b, i>>
    BY <1>2, <2>1
  <2>3. PICK i \in 1..Len(bindings[b].plans) : s = <<b, i>> BY <2>2
  <2> QED BY <2>1, <2>3
<1>6. ASSUME NEW b \in 1..Len(bindings), NEW i \in 1..Len(bindings[b].plans),
             bindings[b].plans[i].set \in S
      PROVE  <<b, i>> \in SetsIn(S)
  BY <1>3, <1>4, <1>6
<1> QED BY <1>5, <1>6

\* The same after a step.
LEMMA SetsOfBindingsNext ==
  ASSUME NEW S
  PROVE  /\ \A s \in SetsIn(S)' : /\ s[1] \in 1..Len(bindings')
                                  /\ s[2] \in 1..Len(bindings'[s[1]].plans)
                                  /\ bindings'[s[1]].plans[s[2]].set \in S
                                  /\ s = <<s[1], s[2]>>
         /\ \A b \in 1..Len(bindings') : \A i \in 1..Len(bindings'[b].plans) :
              bindings'[b].plans[i].set \in S => <<b, i>> \in SetsIn(S)'
<1>1. AllSets' = UNION {{<<b, i>> : i \in 1..Len(bindings'[b].plans)} : b \in 1..Len(bindings')}
  BY DEF AllSets, LastPlan, Plans, Active
<1>2. \A s \in AllSets' : \E b \in 1..Len(bindings') : \E i \in 1..Len(bindings'[b].plans) : s = <<b, i>>
  BY <1>1, Zenon
<1>3. \A b \in 1..Len(bindings') : \A i \in 1..Len(bindings'[b].plans) : <<b, i>> \in AllSets'
  <2> TAKE b \in 1..Len(bindings')
  <2> TAKE i \in 1..Len(bindings'[b].plans)
  <2>1. <<b, i>> \in {<<b, j>> : j \in 1..Len(bindings'[b].plans)} BY Zenon
  <2>2. {<<b, j>> : j \in 1..Len(bindings'[b].plans)}
          \in {{<<d, j>> : j \in 1..Len(bindings'[d].plans)} : d \in 1..Len(bindings')}
    BY Zenon
  <2> QED BY <1>1, <2>1, <2>2, Zenon
<1>4. SetsIn(S)' = {s \in AllSets' : bindings'[s[1]].plans[s[2]].set \in S} BY DEF SetsIn, Plans
<1>5. ASSUME NEW s \in SetsIn(S)'
      PROVE  /\ s[1] \in 1..Len(bindings') /\ s[2] \in 1..Len(bindings'[s[1]].plans)
             /\ bindings'[s[1]].plans[s[2]].set \in S /\ s = <<s[1], s[2]>>
  <2>1. s \in AllSets' /\ bindings'[s[1]].plans[s[2]].set \in S BY <1>4
  <2>2. PICK b \in 1..Len(bindings') : \E i \in 1..Len(bindings'[b].plans) : s = <<b, i>>
    BY <1>2, <2>1
  <2>3. PICK i \in 1..Len(bindings'[b].plans) : s = <<b, i>> BY <2>2
  <2> QED BY <2>1, <2>3
<1>6. ASSUME NEW b \in 1..Len(bindings'), NEW i \in 1..Len(bindings'[b].plans),
             bindings'[b].plans[i].set \in S
      PROVE  <<b, i>> \in SetsIn(S)'
  BY <1>3, <1>4, <1>6
<1> QED BY <1>5, <1>6

\* The deferred constraint is the invariant of a paid order.
LEMMA CapturePaymentKeeps ==
  ASSUME QuotesInv, capturePayment PROVE QuotesInv'
<1>1. UNCHANGED <<session, frozen, draft, decision, external, accepted, call>>
  BY DEF capturePayment, external
<1>2. PICK s \in SetsIn({"RESERVED"}) :
        SetPlan(s[1], s[2], [Plans(s[1])[s[2]] EXCEPT !.set = "HELD"])
  BY DEF capturePayment
<1> DEFINE b == s[1]
           i == s[2]
           p == [Plans(b)[i] EXCEPT !.set = "HELD"]
<1>3. b \in 1..Len(bindings) /\ i \in 1..Len(bindings[b].plans) BY SetsOfBindings
<1>4. p \in ReservedPlans BY <1>3, QuoteFacts DEF ReservedPlans
<1>5. bindings' = WithPlan(bindings, b, i, p) BY <1>2 DEF SetPlan, WithPlan
<1> HIDE DEF b, i, p
<1>6. bindings' \in Seq(BindingRows) /\ Priced(bindings, bindings')
  BY <1>3, <1>4, <1>5, QuoteFacts, PlanEdited
<1>7. policy' \in Nat /\ terms' \in Nat /\ carrier' \in Nat /\ offers' \in Nat
  BY <1>1 DEF QuotesInv, QuotesTyped, external
<1>8. QuotesTyped' /\ BindingsSound' /\ AcceptedSound' /\ Grows(bindings, bindings')
  BY <1>1, <1>6, <1>7, EditKeeps
<1>9. CallsSound' BY <1>1, <1>6, <1>8, CallsAsBefore
<1>10. PICK h \in SetsIn({"HELD"})' : SetsIn({"RESERVED", "HELD"})' = {h}
  BY DEF capturePayment, HoldKept
<1>11. /\ h[1] \in 1..Len(bindings') /\ h[2] \in 1..Len(bindings'[h[1]].plans)
       /\ bindings'[h[1]].plans[h[2]].set = "HELD" /\ h = <<h[1], h[2]>>
  <2>1. /\ h[1] \in 1..Len(bindings') /\ h[2] \in 1..Len(bindings'[h[1]].plans)
        /\ bindings'[h[1]].plans[h[2]].set \in {"HELD"} /\ h = <<h[1], h[2]>>
    BY <1>10, SetsOfBindingsNext
  <2> QED BY <2>1
<1>12. ASSUME NEW d \in 1..Len(bindings'), NEW j \in 1..Len(bindings'[d].plans),
              bindings'[d].plans[j].set \in {"RESERVED", "HELD"}
       PROVE  d = h[1] /\ j = h[2]
  <2>1. <<d, j>> \in SetsIn({"RESERVED", "HELD"})' BY <1>12, SetsOfBindingsNext
  <2>2. <<d, j>> = h BY <1>10, <2>1
  <2> QED BY <1>11, <2>2
<1>13. HeldOnce(bindings') BY <1>11, <1>12 DEF HeldOnce
<1> QED BY <1>8, <1>9, <1>13 DEF QuotesInv, PaidSound

LEMMA CandidateResultKeeps ==
  ASSUME QuotesInv, candidateResult PROVE QuotesInv'
<1>1. PICK b \in 1..Active, o \in {"FAILED", "SUCCEEDED", "OVER"} :
        bindings' = [bindings EXCEPT ![b].candidate.state = o]
  BY DEF candidateResult
<1> DEFINE k == [bindings[b].candidate EXCEPT !.state = o]
<1>2. b \in 1..Len(bindings) /\ bindings[b].candidate \in EstimateRows BY QuoteFacts
<1>3. k \in EstimateRows BY <1>2 DEF EstimateRows
<1>4. bindings' = WithEstimate(bindings, b, k) BY <1>1 DEF WithEstimate
<1> HIDE DEF k
<1>5. /\ bindings' \in Seq(BindingRows) /\ Priced(bindings, bindings')
      /\ NoneReserved(bindings, bindings')
  BY <1>2, <1>3, <1>4, QuoteFacts, EstimateEdited
<1> QED BY <1>5, OutsideEdits DEF candidateResult, checkout, external

LEMMA PlanExpiresKeeps ==
  ASSUME QuotesInv, planExpires PROVE QuotesInv'
<1>1. PICK b \in 1..Active : \E i \in 1..LastPlan(b) :
        Plans(b)[i].set # "HELD" /\ SetPlan(b, i, [Plans(b)[i] EXCEPT !.live = FALSE])
  BY DEF planExpires
<1>2. PICK i \in 1..LastPlan(b) :
        Plans(b)[i].set # "HELD" /\ SetPlan(b, i, [Plans(b)[i] EXCEPT !.live = FALSE])
  BY <1>1
<1> DEFINE p == [Plans(b)[i] EXCEPT !.live = FALSE]
<1>3. /\ b \in 1..Len(bindings) /\ i \in 1..Len(bindings[b].plans)
      /\ Plans(b)[i] \in ReservedPlans /\ Plans(b)[i] = bindings[b].plans[i]
  BY QuoteFacts
<1>4. p \in ReservedPlans /\ p.set = bindings[b].plans[i].set BY <1>3 DEF ReservedPlans
<1>5. bindings' = WithPlan(bindings, b, i, p) BY <1>2 DEF SetPlan, WithPlan
<1> HIDE DEF p
<1>6. /\ bindings' \in Seq(BindingRows) /\ Priced(bindings, bindings')
      /\ NoneReserved(bindings, bindings')
  <2>1. bindings \in Seq(BindingRows) BY QuoteFacts
  <2>2. /\ bindings[b].plans[i].set = "HELD" => p.set = "HELD"
        /\ p.set \in {"RESERVED", "HELD"} => bindings[b].plans[i].set \in {"RESERVED", "HELD"}
    BY <1>4
  <2> QED BY <1>3, <1>4, <1>5, <2>1, <2>2, PlanEdited
<1> QED BY <1>6, OutsideEdits DEF planExpires, checkout, external

LEMMA ExpireReservationsKeeps ==
  ASSUME QuotesInv, expireReservations PROVE QuotesInv'
<1>1. PICK s \in SetsIn({"RESERVED"}) :
        SetPlan(s[1], s[2], [Plans(s[1])[s[2]] EXCEPT !.set = "EXPIRED"])
  BY DEF expireReservations
<1> DEFINE b == s[1]
           i == s[2]
           p == [Plans(b)[i] EXCEPT !.set = "EXPIRED"]
<1>2. /\ b \in 1..Len(bindings) /\ i \in 1..Len(bindings[b].plans)
      /\ bindings[b].plans[i].set = "RESERVED"
  <2>1. /\ b \in 1..Len(bindings) /\ i \in 1..Len(bindings[b].plans)
        /\ bindings[b].plans[i].set \in {"RESERVED"}
    BY SetsOfBindings
  <2> QED BY <2>1
<1>3. Plans(b)[i] \in ReservedPlans BY <1>2, QuoteFacts
<1>4. p \in ReservedPlans /\ p.set = "EXPIRED" BY <1>3 DEF ReservedPlans
<1>5. bindings' = WithPlan(bindings, b, i, p) BY <1>1 DEF SetPlan, WithPlan
<1> HIDE DEF b, i, p
<1>6. /\ bindings' \in Seq(BindingRows) /\ Priced(bindings, bindings')
      /\ NoneReserved(bindings, bindings')
  BY <1>2, <1>4, <1>5, QuoteFacts, PlanEdited
<1> QED BY <1>6, OutsideEdits DEF expireReservations, checkout, external

LEMMA WorldKeeps ==
  ASSUME QuotesInv, worldChanges PROVE QuotesInv'
<1>1. UNCHANGED <<session, orderStatus, frozen, draft, decision, bindings, accepted, call>>
  BY DEF worldChanges, checkout
<1>2. policy' \in Nat /\ terms' \in Nat /\ carrier' \in Nat /\ offers' \in Nat
  BY DEF worldChanges, QuotesInv, QuotesTyped
<1>3. QuotesTyped' /\ BindingsSound' /\ AcceptedSound'
  BY <1>1, <1>2, QuoteFacts, SameGrows, EditKeeps
<1>4. PaidSound' /\ CallsSound' BY <1>1 DEF QuotesInv, PaidSound, CallsSound
<1> QED BY <1>3, <1>4 DEF QuotesInv

\* A step that touches nothing the invariant speaks of.
LEMMA ElseKeeps ==
  ASSUME QuotesInv, UNCHANGED <<session, orderStatus, frozen, draft, decision, external, bindings,
                                accepted, call>>
  PROVE  QuotesInv'
<1>1. CallsSound' BY DEF QuotesInv, CallsSound
<1> QED BY <1>1, CallOnly

LEMMA StepKeeps ==
  ASSUME QuotesInv, NEW c \in Calls, Step(c) PROVE QuotesInv'
BY DecideRiskKeeps, SetExpressKeeps, PrevalidateDestinationKeeps, SelectDestinationKeeps,
   ReleaseSupersededKeeps, PrevalidateBindingKeeps, PrepareKeeps, EligibilityKeeps, DropKeeps,
   CreatePlanKeeps, ReserveKeeps, FinalizeKeeps, GiveBackKeeps, MarkerKeeps DEF Step

LEMMA QuotesStep ==
  ASSUME QuotesInv, [Next]_vars PROVE QuotesInv'
<1>1. ASSUME removeItem PROVE QuotesInv'
  <2>1. None \in QuoteItems BY DEF QuoteItems
  <2> QED BY <1>1, <2>1, ConfigurationKeeps DEF removeItem, checkout, external
<1>2. ASSUME NEW g \in Configs, configureItem(g) PROVE QuotesInv'
  <2>1. g \in QuoteItems BY DEF QuoteItems
  <2> QED BY <1>2, <2>1, ConfigurationKeeps DEF configureItem, checkout, external
<1>3. ASSUME NEW g \in Configs, replaceConfiguration(g) PROVE QuotesInv'
  <2>1. g \in QuoteItems BY DEF QuoteItems
  <2> QED BY <1>3, <2>1, ConfigurationKeeps DEF replaceConfiguration, checkout, external
<1>4. ASSUME NEW c \in Calls, Step(c) PROVE QuotesInv'
  BY <1>4, StepKeeps
<1>5. ASSUME createHandoffCapability PROVE QuotesInv'
  BY <1>5, ElseKeeps DEF createHandoffCapability, checkout, external
<1>6. ASSUME failPayment PROVE QuotesInv'
  BY <1>6, ElseKeeps DEF failPayment, external
<1>7. ASSUME preprocessingResult PROVE QuotesInv'
  BY <1>7, ElseKeeps DEF preprocessingResult, checkout, external
<1>8. ASSUME sessionExpires PROVE QuotesInv'
  BY <1>8, ElseKeeps DEF sessionExpires, checkout, external
<1>9. ASSUME UNCHANGED vars PROVE QuotesInv'
  BY <1>9, ElseKeeps DEF vars, checkout, external
<1> QED BY <1>1, <1>2, <1>3, <1>4, <1>5, <1>6, <1>7, <1>8, <1>9, CreateCheckoutKeeps, CapturePaymentKeeps,
           CandidateResultKeeps, PlanExpiresKeeps, ExpireReservationsKeeps, WorldKeeps DEF Next

\* An empty draft.
LEMMA QuotesBegin == ASSUME Init PROVE QuotesInv
<1>1. bindings = <<>> /\ Active = 0 /\ bindings \in Seq(BindingRows) BY DEF Init, Active
<1>2. draft \in DraftRows
  <2>1. None \in QuoteItems /\ None \in Destinations BY DEF QuoteItems, Destinations
  <2> QED BY <2>1 DEF Init, DraftRows
<1>3. QuotesTyped BY <1>1, <1>2 DEF Init, QuotesTyped
<1>4. CallsSound
  <2>1. call = [c \in Calls |-> [at |-> "idle"]] BY DEF Init
  <2>2. call = [c \in Calls |-> call[c]] /\ \A c \in Calls : call[c].at = "idle" BY <2>1
  <2> QED BY <2>2, CallRests DEF CallsSound
<1>5. BindingsSound /\ AcceptedSound /\ PaidSound
  BY <1>1 DEF Init, BindingsSound, AcceptedSound, PaidSound
<1> QED BY <1>3, <1>4, <1>5 DEF QuotesInv

\* The invariant implies both properties.
LEMMA InvariantGivesBinding == ASSUME QuotesInv PROVE BindingSound /\ PaidKeepsReservation
<1>1. AcceptedBindingCurrent BY DEF QuotesInv, AcceptedSound, AcceptedBindingCurrent
<1>2. BindingValidated /\ ConfigurationFrozen
  BY DEF QuotesInv, BindingsSound, BindingValidated, ConfigurationFrozen
<1>3. RiskAcknowledged
  <2>1. accepted # 0 => Active # 0 /\ bindings[Active].revision = draft.revision
    BY DEF QuotesInv, AcceptedSound, Matches
  <2> QED BY <2>1 DEF QuotesInv, BindingsSound, RiskAcknowledged
<1>4. ASSUME HeldOnce(bindings)
      PROVE  \E s \in SetsIn({"HELD"}) : SetsIn({"RESERVED", "HELD"}) = {s}
  <2>1. PICK b \in 1..Len(bindings) : \E i \in 1..Len(bindings[b].plans) :
          /\ bindings[b].plans[i].set = "HELD"
          /\ \A d \in 1..Len(bindings) : \A j \in 1..Len(bindings[d].plans) :
               bindings[d].plans[j].set \in {"RESERVED", "HELD"} => d = b /\ j = i
    BY <1>4 DEF HeldOnce
  <2>2. PICK i \in 1..Len(bindings[b].plans) :
          /\ bindings[b].plans[i].set = "HELD"
          /\ \A d \in 1..Len(bindings) : \A j \in 1..Len(bindings[d].plans) :
               bindings[d].plans[j].set \in {"RESERVED", "HELD"} => d = b /\ j = i
    BY <2>1
  <2>3. <<b, i>> \in SetsIn({"HELD"}) /\ <<b, i>> \in SetsIn({"RESERVED", "HELD"})
    BY <2>2, SetsOfBindings
  <2>4. ASSUME NEW s \in SetsIn({"RESERVED", "HELD"}) PROVE s = <<b, i>>
    <3>1. /\ s[1] \in 1..Len(bindings) /\ s[2] \in 1..Len(bindings[s[1]].plans)
          /\ bindings[s[1]].plans[s[2]].set \in {"RESERVED", "HELD"} /\ s = <<s[1], s[2]>>
      BY SetsOfBindings
    <3> QED BY <2>2, <3>1
  <2>5. SetsIn({"RESERVED", "HELD"}) = {<<b, i>>} BY <2>3, <2>4, Zenon
  <2> QED BY <2>3, <2>5
<1> QED BY <1>1, <1>2, <1>3, <1>4 DEF QuotesInv, PaidSound, BindingSound, PaidKeepsReservation

\* What a customer pays for is what was validated, priced and acknowledged: for
\* every number of requests in flight and every order of their steps, the
\* customer's edits, the carrier's answers and the outside changes.
THEOREM BindingsAreSound == Spec => []BindingSound
<1>1. Init => QuotesInv BY QuotesBegin
<1>2. QuotesInv /\ [Next]_vars => QuotesInv' BY QuotesStep
<1>3. QuotesInv => BindingSound BY InvariantGivesBinding
<1> QED BY <1>1, <1>2, <1>3, PTL DEF Spec

\* A paid order keeps exactly the reservation it was paid with, whatever requests
\* that began before the payment still do.
THEOREM PaidOrdersKeepReservation == Spec => []PaidKeepsReservation
<1>1. Init => QuotesInv BY QuotesBegin
<1>2. QuotesInv /\ [Next]_vars => QuotesInv' BY QuotesStep
<1>3. QuotesInv => PaidKeepsReservation BY InvariantGivesBinding
<1> QED BY <1>1, <1>2, <1>3, PTL DEF Spec
=============================================================================
