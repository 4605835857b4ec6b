--------------------------- MODULE LifecycleQuote ---------------------------
(* quoteRequestPolicy of the lifecycle policies: a request, the immutable     *)
(* quotes issued for it and the draft order its acceptance creates. A command *)
(* is prepared from the state its caller has seen and may be delivered late,  *)
(* or more than once; the policy decides each delivery against the row.       *)
EXTENDS Naturals, Sequences

CONSTANTS Lifetimes,        \* how long an issued quote is valid
          MaxCommands, MaxQuotes, MaxQuoteTime

ASSUME QuoteAssumption ==
  /\ Lifetimes \subseteq Nat
  /\ MaxCommands \in Nat /\ MaxQuotes \in Nat /\ MaxQuoteTime \in Nat

VARIABLES quoteRequest,     \* status, the result that produced it, and that result's command
          issuedQuotes,     \* IssuedQuote rows in order of issue
          draftOrders,      \* orders created by acceptance
          prepared,         \* commands, each with its own idempotency key, in order of preparation
          expiredBy,        \* the command and time of the expiration, if any
          quoteClock

requestVars == <<quoteRequest, issuedQuotes, draftOrders, prepared, expiredBy, quoteClock>>

NotExpired == [quote |-> 0, at |-> 0]

QuoteInit ==
  /\ quoteRequest = [status |-> "new", result |-> 0, command |-> 0]
  /\ issuedQuotes = <<>> /\ draftOrders = <<>>
  /\ prepared = <<>>
  /\ expiredBy = NotExpired
  /\ quoteClock = 0

(* The caller reads the request and decides what to ask, about a quote it sees. *)
prepareCommand(target, quote, expiresAt) ==
  /\ Len(prepared) < MaxCommands
  /\ quote \in IF target \in {"accepted", "expired"} THEN DOMAIN issuedQuotes ELSE {0}
  /\ prepared' = Append(prepared,
       [target |-> target, seen |-> quoteRequest.result, quote |-> quote, expiresAt |-> expiresAt])
  /\ UNCHANGED <<quoteRequest, issuedQuotes, draftOrders, expiredBy, quoteClock>>

(* The kernel: a command equal to the one that produced the current state has *)
(* been applied already; any other must be a move of the policy's table.      *)
alreadyApplied(c) ==
  /\ prepared[c].target = quoteRequest.status /\ quoteRequest.command = c
  /\ UNCHANGED requestVars
transitions ==
  [new |-> {"in_review", "rejected"}, in_review |-> {"quoted", "rejected"},
   quoted |-> {"quoted", "accepted", "rejected", "expired"},
   accepted |-> {}, rejected |-> {}, expired |-> {}]
moves(c, target) ==
  /\ prepared[c].target = target /\ target \in transitions[quoteRequest.status]
  /\ target = quoteRequest.status => quoteRequest.command # c
  /\ quoteRequest' = [status |-> target, result |-> quoteRequest.result + 1, command |-> c]
  /\ UNCHANGED <<prepared, quoteClock>>

\* The expected request of the command is the row the adapter has selected.
anyState(c) == TRUE
expectedState(c) == prepared[c].seen = quoteRequest.result

takeReview(c) ==
  /\ moves(c, "in_review")
  /\ UNCHANGED <<issuedQuotes, draftOrders, expiredBy>>

(* A request is declined before an offer only while no quote was issued; the  *)
(* policy asks nothing of the rejection of an offer.                          *)
reject(c) ==
  /\ moves(c, "rejected")
  /\ quoteRequest.status \in {"new", "in_review"} => issuedQuotes = <<>>
  /\ UNCHANGED <<issuedQuotes, draftOrders, expiredBy>>

(* The quote and the move to quoted are one result; a request that is already *)
(* quoted is reconciled to its next quote the same way.                       *)
requireAtomicIssuedQuoteCreation(c) ==
  /\ moves(c, "quoted") /\ expectedState(c)
  /\ quoteClock < prepared[c].expiresAt /\ Len(issuedQuotes) < MaxQuotes
  /\ issuedQuotes' = Append(issuedQuotes,
       [issuedAt |-> quoteClock, expiresAt |-> prepared[c].expiresAt, command |-> c])
  /\ UNCHANGED <<draftOrders, expiredBy>>

\* canAcceptQuote and isQuoteAvailable: the window is closed at its start, open at its end.
canAcceptQuote(q) ==
  /\ quoteRequest.status = "quoted"
  /\ issuedQuotes[q].issuedAt <= quoteClock /\ quoteClock < issuedQuotes[q].expiresAt

requireQuoteAcceptanceAvailability(c) ==
  expectedState(c) /\ canAcceptQuote(prepared[c].quote)

\* Acceptance creates the draft order of exactly that quote, in the same result.
requireAcceptedQuoteOrderCreation(c) ==
  draftOrders' = Append(draftOrders,
    [quote |-> prepared[c].quote, at |-> quoteClock, seen |-> prepared[c].seen])
accept(c) ==
  /\ moves(c, "accepted")
  /\ requireQuoteAcceptanceAvailability(c) /\ requireAcceptedQuoteOrderCreation(c)
  /\ UNCHANGED <<issuedQuotes, expiredBy>>

requireQuoteExpirationReached(c) ==
  expectedState(c) /\ quoteClock >= issuedQuotes[prepared[c].quote].expiresAt
expire(c) ==
  /\ moves(c, "expired")
  /\ requireQuoteExpirationReached(c)
  /\ expiredBy' = [quote |-> prepared[c].quote, at |-> quoteClock]
  /\ UNCHANGED <<issuedQuotes, draftOrders>>

QuoteTick ==
  /\ quoteClock < MaxQuoteTime
  /\ quoteClock' = quoteClock + 1
  /\ UNCHANGED <<quoteRequest, issuedQuotes, draftOrders, prepared, expiredBy>>

QuoteNext ==
  \/ \E target \in {"in_review", "rejected", "accepted", "expired"}, q \in 0..MaxQuotes :
       prepareCommand(target, q, 0)
  \/ \E life \in Lifetimes : prepareCommand("quoted", 0, quoteClock + life)
  \/ \E c \in DOMAIN prepared :
       \/ alreadyApplied(c) \/ takeReview(c) \/ reject(c)
       \/ requireAtomicIssuedQuoteCreation(c) \/ accept(c) \/ expire(c)
  \/ QuoteTick

QuoteSpec == QuoteInit /\ [][QuoteNext]_requestVars

----------------------------------------------------------------------------
(* What a customer gets is what they saw: an accepted request has one draft    *)
(* order, made inside the window of an issued quote and with no quote issued   *)
(* between the customer's reading and the acceptance; only an accepted request *)
(* has one; an expired request had a quote whose deadline had passed; and a    *)
(* command delivered twice issues one quote (the guards of quoteRequestPolicy, *)
(* whose commands arrive late, twice and out of order).                        *)
QuoteDecidedAsSeen ==
  /\ Len(draftOrders) = (IF quoteRequest.status = "accepted" THEN 1 ELSE 0)
  /\ \A i \in DOMAIN draftOrders :
       LET d == draftOrders[i]
           q == issuedQuotes[d.quote] IN
       /\ q.issuedAt <= d.at /\ d.at < q.expiresAt
       /\ d.seen + 1 = quoteRequest.result
  /\ quoteRequest.status = "expired" =>
       expiredBy.at >= issuedQuotes[expiredBy.quote].expiresAt
  /\ \A i, j \in DOMAIN issuedQuotes :
       issuedQuotes[i].command = issuedQuotes[j].command => i = j
==============================================================================
