------------------------- MODULE RecoveryPreparation -------------------------
(***************************************************************************)
(* Fresh resource estimates for a failed job or a lost parcel              *)
(* (recovery-candidate-preparation.service.ts) and the commands that       *)
(* consume them (createReplacement, createClaimReprint of orders.service). *)
(* Operators prepare in two steps without a common transaction; results    *)
(* of the slicer, provider evidence, the deadline, catalog changes and     *)
(* reservations of other orders come in between.  Every source has one     *)
(* option, on one machine; a window is machine time by its start, and two  *)
(* are disjoint or the same.                                               *)
(***************************************************************************)
EXTENDS Integers, Sequences, FiniteSets, Functions

CONSTANTS
  RecoveryKinds,    \* subset of {"JOB_REPLACEMENT", "LOST_CLAIM_REPRINT"}
  SourceJobs,       \* jobs to print again when the kind is a reprint, in the order of their ids
  SourceNeeds,      \* material the parts of a source need
  RecoveryLots, LotSize, RecoveryWindows,
  OneJob,           \* the failed job of a replacement
  Operators, Keys,
  PreparationTTL,   \* 30 minutes in which a preparation counts as running
  SelectionMargin,  \* 15 minutes a chosen candidate must still live
  EstimateTTL,      \* life of a candidate
  Deadline,         \* of the replacement request
  MaxPreparations, MaxScope, MaxResources, MaxRecoveryTime

ASSUME RecoveryAssumption ==
  /\ PreparationTTL \in Nat /\ SelectionMargin \in Nat
  /\ EstimateTTL \in Nat /\ EstimateTTL > SelectionMargin
  /\ OneJob \in SourceJobs /\ SourceJobs \subseteq Nat /\ IsFiniteSet(SourceJobs)
  /\ SourceNeeds \in [SourceJobs -> Nat] /\ RecoveryWindows \subseteq Nat
  /\ RecoveryLots \subseteq Nat /\ LotSize \in Nat

VARIABLES
  recoveryKind,     \* fixed
  recoveryNow,
  evidence,         \* the loss the scope fingerprint covers: parcel, incident evidence, sources
  target,           \* OPEN while it can be recovered, UNDERWAY to the customer, SETTLED
  stock,            \* version of the machine, lot and revisions the options name
  freeMaterial,     \* what a lot has left beyond its reservations
  bookedWindows,    \* capacity reservations that count
  callers,          \* what an operator's prepare has read
  preparations,     \* recovery_candidate_preparations with their dispatches, by generation
  answered,         \* generation the idempotency record of a key answers with, 0 for none
  recovered         \* generations whose estimates a recovery took

recoveryVars ==
  <<recoveryKind, recoveryNow, evidence, target, stock, freeMaterial, bookedWindows,
    callers, preparations, answered, recovered>>
resourcesUnchanged == UNCHANGED <<stock, freeMaterial, bookedWindows>>

NotAsked == [step |-> "IDLE", key |-> "none", scope |-> 0, stock |-> 0]
Sources == IF recoveryKind = "JOB_REPLACEMENT" THEN {OneJob} ELSE SourceJobs
Pending == [outcome |-> "PENDING", at |-> 0, stock |-> 0, lot |-> 0, window |-> 0]
\* A dispatch is pending until it has a terminal result or a dead letter.
IsPending(p) == \E s \in DOMAIN p.dispatch : p.dispatch[s].outcome = "PENDING"
Latest == Len(preparations)

RecoveryInit ==
  /\ recoveryKind \in RecoveryKinds
  /\ recoveryNow = 0 /\ evidence = 1 /\ target = "OPEN" /\ stock = 1
  /\ freeMaterial = [l \in RecoveryLots |-> LotSize] /\ bookedWindows = {}
  /\ callers = [o \in Operators |-> NotAsked]
  /\ preparations = <<>>
  /\ answered = [k \in Keys |-> 0]
  /\ recovered = {}

targetOpen == target = "OPEN"
\* resolveScope succeeds and its fingerprint is the one given
scopeIs(s) ==
  /\ targetOpen
  /\ recoveryKind = "JOB_REPLACEMENT" => recoveryNow < Deadline
  /\ evidence = s

(***************************************************************************)
(* Preparing.                                                              *)
(***************************************************************************)
\* The transaction that looks for a replay, the one that resolves the scope, and
\* after them frozenInputs.enumerate and prepareDispatchBatch outside of any.  The
\* committing transaction checks scope and resources again, so that it does not
\* matter that they were read one after the other.
prepareScope(o, k) ==
  /\ callers[o].step = "IDLE"
  /\ answered[k] = 0
  /\ scopeIs(evidence)
  /\ callers' = [callers EXCEPT ![o] = [step |-> "READ", key |-> k, scope |-> evidence, stock |-> stock]]
  /\ resourcesUnchanged
  /\ UNCHANGED <<recoveryKind, recoveryNow, evidence, target, preparations, answered, recovered>>

\* The latest preparation has the current scope, a pending dispatch and time left.
preparationInProgress(o) ==
  /\ preparations # <<>>
  /\ LET latest == preparations[Latest]
     IN  /\ latest.scope = evidence
         /\ IsPending(latest)
         /\ recoveryNow < latest.at + PreparationTTL

\* resolveScope again under the order lock, and the request still open.
scopeUnchanged(o) == scopeIs(callers[o].scope)

\* The committing transaction creates record, preparation and dispatches.
preparationCommits(o) ==
  /\ callers[o].step = "READ"
  /\ answered[callers[o].key] = 0
  /\ scopeUnchanged(o)
  /\ ~preparationInProgress(o)
  /\ callers[o].stock = stock                      \* lockAndCheckResources
  /\ Latest < MaxPreparations
  /\ preparations' = Append(preparations,
       [scope |-> callers[o].scope, at |-> recoveryNow, dispatch |-> [s \in Sources |-> Pending]])
  /\ answered' = [answered EXCEPT ![callers[o].key] = Latest + 1]
  /\ callers' = [callers EXCEPT ![o] = NotAsked]
  /\ resourcesUnchanged
  /\ UNCHANGED <<recoveryKind, recoveryNow, evidence, target, recovered>>

\* A replay found by the committing transaction, or any of its conflicts.
preparationRefused(o) ==
  /\ callers[o].step = "READ"
  /\ \/ answered[callers[o].key] # 0
     \/ ~scopeUnchanged(o)
     \/ preparationInProgress(o)
     \/ callers[o].stock # stock
     \/ Latest = MaxPreparations
  /\ callers' = [callers EXCEPT ![o] = NotAsked]
  /\ resourcesUnchanged
  /\ UNCHANGED <<recoveryKind, recoveryNow, evidence, target, preparations, answered, recovered>>

(***************************************************************************)
(* What happens meanwhile.                                                 *)
(***************************************************************************)
Estimate(g, s) == preparations[g].dispatch[s]
Succeeded(g, s) == Estimate(g, s).outcome = "SUCCEEDED"
ExpiresAt(g, s) == Estimate(g, s).at + EstimateTTL

estimateEnds(g, s, result) ==
  /\ Estimate(g, s).outcome = "PENDING"
  /\ preparations' = [preparations EXCEPT ![g].dispatch[s] = result]
  /\ resourcesUnchanged
  /\ UNCHANGED <<recoveryKind, recoveryNow, evidence, target, callers, answered, recovered>>

\* A failure the slicer reports, or a dead letter.
estimateFails(g, s) == estimateEnds(g, s, [Pending EXCEPT !.outcome = "FAILED"])

\* Mutant: only reservations take machine time.
windowUnbooked(w) == w \notin bookedWindows
\* Machine time is taken by reservations, and by the candidates of the phase that
\* have not expired, those of earlier preparations too.
windowUnclaimed(w) ==
  /\ w \notin bookedWindows
  /\ \A h \in 1..Latest, t \in Sources :
       Succeeded(h, t) /\ ExpiresAt(h, t) > recoveryNow => Estimate(h, t).window # w

\* ingest: the candidate's plates come after it expires, where they meet nothing
estimateSucceeds(g, s, l, w) ==
  /\ w >= recoveryNow + EstimateTTL
  /\ windowUnclaimed(w)
  /\ estimateEnds(g, s, [outcome |-> "SUCCEEDED", at |-> recoveryNow, stock |-> stock,
                         lot |-> l, window |-> w])

\* applyShipmentEvent: the lost parcel is found, to be sent again.
parcelFound ==
  /\ recoveryKind = "LOST_CLAIM_REPRINT" /\ targetOpen
  /\ target' = "UNDERWAY"
  /\ resourcesUnchanged
  /\ UNCHANGED <<recoveryKind, recoveryNow, evidence, callers, preparations, answered, recovered>>

\* applyShipmentEvent: what was sent or printed again is lost as well.  The claim
\* is a target anew, with another parcel and its evidence.
parcelLostAgain ==
  /\ target = "UNDERWAY" /\ evidence < MaxScope
  /\ target' = "OPEN" /\ evidence' = evidence + 1
  /\ resourcesUnchanged
  /\ UNCHANGED <<recoveryKind, recoveryNow, callers, preparations, answered, recovered>>

\* The request or the claim ends another way: refundClaim, withdrawClaim,
\* finalizeExpiredReplacement, or what is underway arrives.
targetCloses ==
  /\ target # "SETTLED"
  /\ target' = "SETTLED"
  /\ resourcesUnchanged
  /\ UNCHANGED <<recoveryKind, recoveryNow, evidence, callers, preparations, answered, recovered>>

\* Catalog changes and reservations of other orders.  Bound: MaxResources counts
\* the versions and the reservations there are at a time; once the target is closed
\* only the calls in flight are followed.
mayDisturb == targetOpen /\ stock + Cardinality(bookedWindows) < MaxResources

catalogChanges ==
  /\ mayDisturb
  /\ stock' = stock + 1
  /\ UNCHANGED <<recoveryKind, recoveryNow, evidence, target, freeMaterial, bookedWindows,
                 callers, preparations, answered, recovered>>

reservedElsewhere(l, n, w) ==
  /\ mayDisturb
  /\ n <= freeMaterial[l] /\ w \notin bookedWindows
  /\ freeMaterial' = [freeMaterial EXCEPT ![l] = @ - n]
  /\ bookedWindows' = bookedWindows \cup {w}
  /\ UNCHANGED <<recoveryKind, recoveryNow, evidence, target, stock,
                 callers, preparations, answered, recovered>>

releasedElsewhere(l, n, w) ==
  /\ targetOpen
  /\ freeMaterial[l] + n <= LotSize /\ w \in bookedWindows
  /\ freeMaterial' = [freeMaterial EXCEPT ![l] = @ + n]
  /\ bookedWindows' = bookedWindows \ {w}
  /\ UNCHANGED <<recoveryKind, recoveryNow, evidence, target, stock,
                 callers, preparations, answered, recovered>>

timeGoesOn ==
  /\ targetOpen /\ recoveryNow < MaxRecoveryTime
  /\ recoveryNow' = recoveryNow + 1
  /\ resourcesUnchanged
  /\ UNCHANGED <<recoveryKind, evidence, target, callers, preparations, answered, recovered>>

(***************************************************************************)
(* Choosing.  An estimate is named by its generation: the dispatch of a    *)
(* source job in that generation produced it.                              *)
(***************************************************************************)
\* PREPARATION_SUPERSEDED or RECOVERY_CONTEXT_CHANGED
preparationBlocked(g) == g # Latest \/ ~scopeIs(preparations[g].scope)

\* eligibleOutboxIds: the rows a candidate names are as it found them, and what it
\* needs is there, for this candidate alone
eligible(g, s) ==
  /\ Estimate(g, s).stock = stock
  /\ SourceNeeds[s] <= freeMaterial[Estimate(g, s).lot]
  /\ Estimate(g, s).window \notin bookedWindows

\* choicesForDispatches shows no blocker: the reader's side
choiceSelectable(g, s) ==
  /\ Succeeded(g, s)
  /\ ~preparationBlocked(g)
  /\ Estimate(g, s).at >= preparations[g].at
  /\ ExpiresAt(g, s) > recoveryNow + SelectionMargin
  /\ Estimate(g, s).window > recoveryNow
  /\ eligible(g, s)

\* projectBatch counts per source what can be selected
coverageAvailable(g) == \A s \in Sources : choiceSelectable(g, s)

\* status of preparationAvailability
availability(g) ==
  LET expired == recoveryNow >= preparations[g].at + PreparationTTL
  IN  IF g # Latest THEN "SUPERSEDED"
      ELSE IF ~scopeIs(preparations[g].scope) THEN "BLOCKED"
      ELSE IF coverageAvailable(g) THEN "CANDIDATES_AVAILABLE"
      ELSE IF IsPending(preparations[g]) THEN IF expired THEN "EXPIRED" ELSE "PREPARING"
      ELSE "BLOCKED"

\* assertRecoveryCandidateProvenance: the latest preparation, its scope, its dispatches
provenance(choice) ==
  /\ preparations # <<>>
  /\ scopeIs(preparations[Latest].scope)
  /\ DOMAIN choice = Sources
  /\ \A s \in Sources :
       /\ choice[s] = Latest
       /\ Succeeded(Latest, s)
       /\ Estimate(Latest, s).at >= preparations[Latest].at

\* What the choices of other sources, of a set, take of a lot.
drawn(choice, l, others) ==
  SumFunctionOnSet(SourceNeeds, {t \in others : Estimate(choice[t], t).lot = l})

\* the rest of the command, source by source: freshness, and the reservation of
\* what the ones before have left (taven_create_phase_reservation)
acceptableChoice(choice) ==
  \A s \in Sources :
    LET e == Estimate(choice[s], s)
        earlier == {t \in Sources : t < s}
    IN  /\ ExpiresAt(choice[s], s) > recoveryNow + SelectionMargin
        /\ e.window > recoveryNow
        /\ e.stock = stock
        /\ SourceNeeds[s] <= freeMaterial[e.lot] - drawn(choice, e.lot, earlier)
        /\ e.window \notin bookedWindows \cup {Estimate(choice[t], t).window : t \in earlier}

\* createReplacement or createClaimReprint: every source gets its replacement job
recover(choice) ==
  /\ targetOpen
  /\ provenance(choice)
  /\ acceptableChoice(choice)
  /\ recovered' = recovered \cup {Latest}
  /\ target' = IF recoveryKind = "JOB_REPLACEMENT" THEN "SETTLED" ELSE "UNDERWAY"
  /\ freeMaterial' = [l \in RecoveryLots |-> freeMaterial[l] - drawn(choice, l, Sources)]
  /\ bookedWindows' = bookedWindows \cup {Estimate(choice[s], s).window : s \in Sources}
  /\ UNCHANGED <<recoveryKind, recoveryNow, evidence, stock, callers, preparations, answered>>

RecoveryNext ==
  \/ \E o \in Operators : \/ \E k \in Keys : prepareScope(o, k)
                          \/ preparationCommits(o)
                          \/ preparationRefused(o)
  \/ \E g \in 1..Latest, s \in Sources :
       \/ estimateFails(g, s)
       \/ \E l \in RecoveryLots, w \in RecoveryWindows : estimateSucceeds(g, s, l, w)
  \/ \E choice \in [Sources -> 1..Latest] : recover(choice)
  \/ \E l \in RecoveryLots, n \in 1..LotSize, w \in RecoveryWindows :
       reservedElsewhere(l, n, w) \/ releasedElsewhere(l, n, w)
  \/ parcelFound \/ parcelLostAgain \/ targetCloses \/ catalogChanges \/ timeGoesOn

RecoverySpec == RecoveryInit /\ [][RecoveryNext]_recoveryVars

(***************************************************************************)
(* Properties                                                              *)
(***************************************************************************)
\* Whichever operators and keys race from the unlocked reads to the committing
\* transaction of prepare: while dispatches of a preparation are unanswered, no
\* second preparation of the same scope is made within its 30 minutes; and once a
\* recovery was accepted no other preparation of its scope is ever made, so that no
\* machine is asked for parts createReplacement or createClaimReprint already replaced,
\* although a reprint that is lost in turn opens the same claim again.
PreparationExclusive ==
  /\ \A g, h \in 1..Latest :
       (g < h /\ preparations[g].scope = preparations[h].scope /\ IsPending(preparations[g]))
         => preparations[h].at >= preparations[g].at + PreparationTTL
  /\ \A g \in recovered, h \in 1..Latest :
       g < h => preparations[g].scope # preparations[h].scope

\* The reader checks the candidate of each source alone, the command reserves one
\* after the other.  Of what is shown as available the command takes all but what
\* the lots cannot give together: two estimates that may be chosen at once never
\* share machine time, however results, expiries and earlier preparations mixed,
\* since ingest keeps clear of the phase's live candidates; and the command takes
\* nothing that is not shown (projectBatch, assertRecoveryCandidateProvenance,
\* createClaimReprint, createReplacement).
AvailableIsAccepted ==
  \A g \in 1..Latest :
    LET choice == [s \in Sources |-> g]
    IN  targetOpen /\ provenance(choice) /\ acceptableChoice(choice)
          <=> /\ availability(g) = "CANDIDATES_AVAILABLE"
              /\ \A l \in RecoveryLots : drawn(choice, l, Sources) <= freeMaterial[l]

\* A recovery is prepared once, and what is offered is what the command accepts.
RecoverySound == PreparationExclusive /\ AvailableIsAccepted
==============================================================================
