-------------------------- MODULE SlicingDispatch --------------------------
(***************************************************************************)
(* The production slices of one paid order, from the acceptance of a job   *)
(* to its sealed G-code:                                                   *)
(*                                                                         *)
(*   - the operator commands acceptJob, startPrinting, failJob and         *)
(*     cancelOrder of OrdersService;                                       *)
(*   - the dispatch outbox and SlicingQueuePublisher, which leases a        *)
(*     dispatch, checks that the job still wants it, adds it to the queue,  *)
(*     marks it delivered, and reconciles what the queue has finished;      *)
(*   - SlicingResultIngestionService for production slices;                *)
(*   - the BullMQ queue, its slicer workers and the object store.           *)
(*                                                                         *)
(* Every action is one database transaction, one queue operation or one    *)
(* store operation, so publishers, workers and operators interleave between *)
(* any two of them.  A lease is not timed: a PROCESSING dispatch may be     *)
(* taken over at any moment.  lease names the publisher of the latest one,  *)
(* which is what the attempts counter of the row tells apart.               *)
(* A job has one dispatch, one queue entry identifier and one artifact key, *)
(* all derived from its own identifier.  Its inputs (reservation, geometry, *)
(* profiles) are the accepted ones for as long as its reservation is held.  *)
(* The payment of the order was captured before production began.           *)
(***************************************************************************)
EXTENDS Integers, FiniteSets

CONSTANTS
    Jobs,          \* the jobs of the order
    Sealed,        \* those whose G-code is sealed when the model begins
    Publishers,    \* slicing-dispatch-worker processes
    Attempts,      \* attempts the publisher grants a queue entry
    NoJob, NoPublisher

ASSUME SlicingAssumption ==
    /\ Attempts \in Nat \ {0}
    /\ Sealed \subseteq Jobs
    /\ NoJob \notin Jobs /\ NoPublisher \notin Publishers

VARIABLES
    order,         \* orders.status
    job,           \* jobs.status; the production reservation follows it
    dispatch,      \* outbox_messages.status of the job's dispatch
    lease,         \* publisher of its latest lease
    entry,         \* the BullMQ entry of the dispatch
    artifact,      \* jobs whose artifact object is in the store
    sliced,        \* jobs whose artifact a slice_results row owns
    receipt,       \* the materialization of the recorded result
    letters,       \* dispatches with a dead letter
    strays,        \* entries quarantined without a durable dispatch
    refund,        \* refund_transactions of the order's payment
    message,       \* whether its refund_payment message was enqueued
    publisher      \* where each publisher is, and what it read

orderVars == <<order, job, refund, message>>
dispatchVars == <<dispatch, lease>>
resultVars == <<sliced, receipt, letters, strays>>
vars == <<order, job, dispatch, lease, entry, artifact, sliced, receipt,
          letters, strays, refund, message, publisher>>

-----------------------------------------------------------------------------
(* Rows, entries and publishers.                                            *)

JobStatus == {"CREATED", "ACCEPTED", "GCODE_READY", "PRINTING", "FAILED",
              "CANCELLED"}
OrderStatus == {"CONFIRMED", "IN_PRODUCTION", "RECOVERY_PENDING", "CANCELLED"}
PrePrint == {"CREATED", "ACCEPTED", "GCODE_READY"}
Unfinished == PrePrint \cup {"PRINTING"}
\* Two slices of one job may report their artifact with different metrics or
\* engines, so that their fingerprints differ.
Successes == {"succeeded", "resliced"}
Values == Successes \cup {"none", "invalid", "exhausted"}

\* An entry counts its finished attempts and keeps the attempt whose retryable
\* result is its progress envelope; STORED is an active entry whose artifact
\* the worker has stored or found.
NoEntry == [state |-> "NONE", attempts |-> 0, envelope |-> 0,
            stalled |-> FALSE, value |-> "none"]
Added == [NoEntry EXCEPT !.state = "WAITING"]
Present(j) == entry[j].state # "NONE"
Active(j) == entry[j].state \in {"ACTIVE", "STORED"}

NoReceipt == [value |-> "none", status |-> "none"]

Idle == [pc |-> "idle", job |-> NoJob, result |-> "none"]
At(p, label) == publisher[p].pc = label
Work(p) == publisher[p].job
Result(p) == publisher[p].result
\* A publisher forgets the result with the last step that reads it.
GoTo(p, label) ==
    publisher' = [publisher EXCEPT
        ![p].pc = label,
        ![p].result = IF label \in {"ingest", "discard"} THEN @ ELSE "none"]
Leave(p) == publisher' = [publisher EXCEPT ![p] = Idle]

Init ==
    /\ order = "CONFIRMED"
    /\ job = [j \in Jobs |-> IF j \in Sealed THEN "GCODE_READY" ELSE "CREATED"]
    /\ dispatch = [j \in Jobs |-> IF j \in Sealed THEN "DELIVERED" ELSE "NONE"]
    /\ lease = [j \in Jobs |-> NoPublisher]
    /\ entry = [j \in Jobs |-> NoEntry]
    /\ artifact = Sealed /\ sliced = Sealed
    /\ receipt = [j \in Jobs |-> IF j \in Sealed
                     THEN [value |-> "succeeded", status |-> "materialized"]
                     ELSE NoReceipt]
    /\ letters = {} /\ strays = {}
    /\ refund = "NONE" /\ message = FALSE
    /\ publisher = [p \in Publishers |-> Idle]

-----------------------------------------------------------------------------
(* Operator commands.  Each locks the order and its job first.              *)

\* acceptJob upserts the dispatch in the transaction that accepts the job.
AcceptJob(j) ==
    /\ job[j] = "CREATED"
    /\ job' = [job EXCEPT ![j] = "ACCEPTED"]
    /\ dispatch' = [dispatch EXCEPT ![j] = "PENDING"]
    /\ UNCHANGED <<order, lease, entry, artifact, resultVars, refund, message,
                   publisher>>

StartPrinting(j) ==
    /\ job[j] = "GCODE_READY"
    /\ job' = [job EXCEPT ![j] = "PRINTING"]
    /\ order' = IF order = "CONFIRMED" THEN "IN_PRODUCTION" ELSE order
    /\ UNCHANGED <<dispatchVars, entry, artifact, resultVars, refund, message,
                   publisher>>

\* failJob before handoff: the reservation is released or settled, a
\* replacement request is opened, and the order of a printing job recovers.
FailJob(j) ==
    /\ job[j] \in Unfinished
    /\ job' = [job EXCEPT ![j] = "FAILED"]
    /\ order' = IF job[j] = "PRINTING" /\ order = "IN_PRODUCTION"
                THEN "RECOVERY_PENDING" ELSE order
    /\ UNCHANGED <<dispatchVars, entry, artifact, resultVars, refund, message,
                   publisher>>

\* The refund of what was captured and not yet refunded, with its message.
CancellationRefund ==
    IF refund = "NONE" THEN refund' = "PENDING" /\ message' = TRUE
                       ELSE UNCHANGED <<refund, message>>

FinalizeCancellation ==
    /\ job' = [j \in Jobs |-> IF job[j] \in Unfinished THEN "CANCELLED" ELSE job[j]]
    /\ order' = "CANCELLED"
    /\ CancellationRefund

\* No parcel of the order has a label yet, and nothing was handed over.
CancelOrder ==
    /\ FinalizeCancellation
    /\ UNCHANGED <<dispatchVars, entry, artifact, resultVars, publisher>>

-----------------------------------------------------------------------------
(* The queue and the slicer worker.  The queue is external: its operations  *)
(* are those BullMQ documents for the options the code passes.              *)

Move(j, state) == entry' = [entry EXCEPT ![j].state = state]
QueueOnly == UNCHANGED <<orderVars, dispatchVars, resultVars, publisher>>

StartEntry(j) ==
    /\ entry[j].state = "WAITING"
    /\ Move(j, "ACTIVE")
    /\ QueueOnly /\ UNCHANGED artifact

\* reusableArtifact: the stored artifact is reused, or produced and stored.
StoreArtifact(j) ==
    /\ entry[j].state = "ACTIVE"
    /\ Move(j, "STORED")
    /\ artifact' = artifact \cup {j}
    /\ QueueOnly

\* Nothing reads the counters of an entry that has a return value.
Finish(j, value) ==
    entry' = [entry EXCEPT ![j] = [NoEntry EXCEPT !.state = "COMPLETED", !.value = value]]

SliceSucceeds(j, value) ==
    /\ entry[j].state = "STORED"
    /\ Finish(j, value)
    /\ QueueOnly /\ UNCHANGED artifact

\* A failure that a retry cannot change is an ordinary result.
SliceRejected(j) ==
    /\ entry[j].state = "ACTIVE"
    /\ Finish(j, "invalid")
    /\ QueueOnly /\ UNCHANGED artifact

\* processWithRetryableProgress: the envelope of this attempt is written, or
\* its write fails, and the attempt throws; the queue retries or gives up.
SliceRetryable(j, written) ==
    /\ Active(j)
    /\ LET made == entry[j].attempts + 1
       IN entry' = [entry EXCEPT
            ![j].attempts = made,
            ![j].envelope = IF written THEN made ELSE @,
            ![j].state = IF made < Attempts THEN "WAITING" ELSE "FAILED"]
    /\ QueueOnly /\ UNCHANGED artifact

\* The worker dies: the queue takes the entry back once (maxStalledCount 1).
EntryStalls(j) ==
    /\ Active(j)
    /\ entry' = [entry EXCEPT ![j].state = IF entry[j].stalled
                                           THEN "FAILED" ELSE "WAITING",
                              ![j].stalled = TRUE]
    /\ QueueOnly /\ UNCHANGED artifact
-----------------------------------------------------------------------------
(* SlicingQueuePublisher.publishPending, one dispatch at a time.            *)

\* A crash loses what the publisher remembers, never its lease; an error that
\* ends the poll has the same effect.
CrashPublisher(p) ==
    /\ ~ At(p, "idle")
    /\ Leave(p)
    /\ UNCHANGED <<orderVars, dispatchVars, entry, artifact, resultVars>>

\* Mutation: a lease that ran out is not taken over.
ClaimDispatchUnleased(p, j) ==
    /\ At(p, "idle")
    /\ dispatch[j] \in {"PENDING", "FAILED"}
    /\ dispatch' = [dispatch EXCEPT ![j] = "PROCESSING"]
    /\ lease' = [lease EXCEPT ![j] = p]
    /\ publisher' = [publisher EXCEPT ![p] = [Idle EXCEPT !.pc = "authorize", !.job = j]]
    /\ UNCHANGED <<orderVars, entry, artifact, resultVars>>

\* A live lease may run out too: the publisher that held it goes on.
ClaimDispatch(p, j) ==
    /\ At(p, "idle")
    /\ dispatch[j] \in {"PENDING", "FAILED", "PROCESSING"}
    /\ dispatch' = [dispatch EXCEPT ![j] = "PROCESSING"]
    /\ lease' = [lease EXCEPT ![j] = p]
    /\ publisher' = [publisher EXCEPT ![p] = [Idle EXCEPT !.pc = "authorize", !.job = j]]
    /\ UNCHANGED <<orderVars, entry, artifact, resultVars>>

\* assertProductionSliceAuthorized.
Authorize(p) ==
    /\ At(p, "authorize")
    /\ GoTo(p, IF job[Work(p)] = "ACCEPTED" THEN "add" ELSE "fail")
    /\ UNCHANGED <<orderVars, dispatchVars, entry, artifact, resultVars>>

\* queue.add is a no-op while an entry of that identifier exists.
Enqueued(j) == IF Present(j) THEN entry ELSE [entry EXCEPT ![j] = Added]

AddEntry(p) ==
    /\ At(p, "add")
    /\ entry' = Enqueued(Work(p))
    /\ GoTo(p, "deliver")
    /\ UNCHANGED <<orderVars, dispatchVars, artifact, resultVars>>

\* ensureJobSnapshots or the queue fails; the entry may be there all the same.
AddFails(p) ==
    /\ At(p, "add")
    /\ entry' \in {entry, Enqueued(Work(p))}
    /\ GoTo(p, "fail")
    /\ UNCHANGED <<orderVars, dispatchVars, artifact, resultVars>>

OwnsLease(p) == dispatch[Work(p)] = "PROCESSING" /\ lease[Work(p)] = p

\* The update names the lease: who lost it changes nothing, and neither does
\* the fail() that follows.
EndLease(p, status) ==
    IF OwnsLease(p)
    THEN /\ dispatch' = [dispatch EXCEPT ![Work(p)] = status]
         /\ lease' = [lease EXCEPT ![Work(p)] = NoPublisher]
    ELSE UNCHANGED dispatchVars

MarkDelivered(p) ==
    /\ At(p, "deliver")
    /\ EndLease(p, "DELIVERED")
    /\ Leave(p)
    /\ UNCHANGED <<orderVars, entry, artifact, resultVars>>

MarkDeliveredFails(p) ==
    /\ At(p, "deliver")
    /\ GoTo(p, "fail")
    /\ UNCHANGED <<orderVars, dispatchVars, entry, artifact, resultVars>>

FailDispatch(p) ==
    /\ At(p, "fail")
    /\ EndLease(p, "FAILED")
    /\ Leave(p)
    /\ UNCHANGED <<orderVars, entry, artifact, resultVars>>

-----------------------------------------------------------------------------
(* SlicingQueuePublisher.reconcileCompleted, one finished entry at a time.   *)

\* The return value, or the envelope of the last attempt of an exhausted entry
\* (exhaustedRetryableResult); "none" when there is no validated result.
Verdict(e) ==
    IF e.state = "COMPLETED" THEN e.value
    ELSE IF e.attempts = Attempts /\ e.envelope = Attempts THEN "exhausted"
    ELSE "none"

\* The poll works on the copy of the entry it read.
ReadFinished(p, j) ==
    /\ At(p, "idle")
    /\ entry[j].state \in {"COMPLETED", "FAILED"}
    /\ publisher' = [publisher EXCEPT ![p] =
                        [pc |-> "check", job |-> j, result |-> Verdict(entry[j])]]
    /\ UNCHANGED <<orderVars, dispatchVars, entry, artifact, resultVars>>

\* assertDurableDispatch, then the choice of the result.
CheckDispatch(p) ==
    /\ At(p, "check")
    /\ GoTo(p, IF dispatch[Work(p)] # "DELIVERED" THEN "stray"
               ELSE IF Result(p) = "none" THEN "letter"
               ELSE "ingest")
    /\ UNCHANGED <<orderVars, dispatchVars, entry, artifact, resultVars>>

DeadLetterQueueEntry(p) ==
    /\ At(p, "stray")
    /\ strays' = strays \cup {Work(p)}
    /\ GoTo(p, "remove")
    /\ UNCHANGED <<orderVars, dispatchVars, entry, artifact, sliced, receipt,
                   letters>>

DeadLetter(p) ==
    /\ At(p, "letter")
    /\ letters' = letters \cup {Work(p)}
    /\ GoTo(p, "remove")
    /\ UNCHANGED <<orderVars, dispatchVars, entry, artifact, sliced, receipt,
                   strays>>

\* queued.remove() throws while a worker holds the entry, which ends the poll.
RemoveEntry(p) ==
    /\ At(p, "remove")
    /\ entry' = IF Active(Work(p)) THEN entry ELSE [entry EXCEPT ![Work(p)] = NoEntry]
    /\ Leave(p)
    /\ UNCHANGED <<orderVars, dispatchVars, artifact, resultVars>>

-----------------------------------------------------------------------------
(* SlicingResultIngestionService.ingest of a production result.             *)

\* Mutation: siblings that are printing are not looked at.
CanCancelPreProductionOrderOpen(j) ==
    order \in {"CONFIRMED", "IN_PRODUCTION"} /\ refund # "PENDING"

CanCancelPreProductionOrder(j) ==
    /\ order \in {"CONFIRMED", "IN_PRODUCTION"}
    /\ \A i \in Jobs \ {j} : job[i] \in PrePrint \cup {"CANCELLED"}
    /\ refund # "PENDING"

Record(j, value, status) ==
    receipt' = [receipt EXCEPT ![j] = [value |-> value, status |-> status]]

\* failProduction: the order is cancelled and its capture is owed back.
FailProduction(j) ==
    /\ job' = [i \in Jobs |-> IF i = j THEN "FAILED"
                              ELSE IF job[i] \in PrePrint THEN "CANCELLED"
                              ELSE job[i]]
    /\ order' = "CANCELLED"
    /\ refund' = "PENDING"
    /\ UNCHANGED <<sliced, message>>

\* ingestProduction under the locks of the order, the job and its reservation.
MaterializeFailure(j, value) ==
    \/ /\ job[j] = "ACCEPTED" /\ CanCancelPreProductionOrder(j)
       /\ FailProduction(j)
       /\ Record(j, value, "failed")
    \/ /\ job[j] = "ACCEPTED" /\ ~ CanCancelPreProductionOrder(j)
       /\ Record(j, value, "manual")
       /\ UNCHANGED <<orderVars, sliced>>
    \/ /\ job[j] # "ACCEPTED"
       /\ Record(j, value, "stale")
       /\ UNCHANGED <<orderVars, sliced>>

MaterializeSuccess(j, value) ==
    \/ /\ job[j] = "ACCEPTED"
       /\ job' = [job EXCEPT ![j] = "GCODE_READY"]
       /\ sliced' = sliced \cup {j}
       /\ Record(j, value, "materialized")
       /\ UNCHANGED <<order, refund, message>>
    \/ /\ job[j] # "ACCEPTED"
       /\ Record(j, value, "cleanup")
       /\ UNCHANGED <<orderVars, sliced>>

\* The dispatch has no receipt: the result is materialized and recorded.
Ingest(p) ==
    LET j == Work(p)
        value == Result(p)
    IN  /\ At(p, "ingest")
        /\ receipt[j] = NoReceipt
        /\ IF value \in Successes THEN MaterializeSuccess(j, value)
                                 ELSE MaterializeFailure(j, value)
        /\ GoTo(p, IF value \in Successes /\ job[j] # "ACCEPTED"
                   THEN "cleanup" ELSE "remove")
        /\ UNCHANGED <<dispatchVars, entry, artifact, letters, strays>>

\* Mutation: a replayed result repeats nothing, its cleanup included.
IngestAgainNoCleanup(p) ==
    /\ At(p, "ingest")
    /\ receipt[Work(p)] # NoReceipt
    /\ GoTo(p, IF receipt[Work(p)].value # Result(p)
               THEN "discard" ELSE "remove")
    /\ UNCHANGED <<orderVars, dispatchVars, entry, artifact, resultVars>>

\* It has one: the same result repeats its cleanup, another is rejected.
IngestAgain(p) ==
    /\ At(p, "ingest")
    /\ receipt[Work(p)] # NoReceipt
    /\ GoTo(p, IF receipt[Work(p)].value # Result(p) THEN "discard"
               ELSE IF receipt[Work(p)].status = "cleanup" THEN "cleanup"
               ELSE "remove")
    /\ UNCHANGED <<orderVars, dispatchVars, entry, artifact, resultVars>>

DeleteArtifact(p, next) ==
    /\ artifact' = artifact \ {Work(p)}
    /\ GoTo(p, next)
    /\ UNCHANGED <<orderVars, dispatchVars, entry, resultVars>>

CleanUp(p) == At(p, "cleanup") /\ DeleteArtifact(p, "remove")

\* Mutation: the owner of the key is not looked up.
FindOwnerSkipped(p) ==
    /\ At(p, "discard")
    /\ GoTo(p, IF Result(p) \in Successes THEN "delete" ELSE "letter")
    /\ UNCHANGED <<orderVars, dispatchVars, entry, artifact, resultVars>>

\* deleteUnownedUploadedArtifacts reads the owner, then deletes.
FindOwner(p) ==
    /\ At(p, "discard")
    /\ GoTo(p, IF /\ Result(p) \in Successes
                  /\ Work(p) \notin sliced
               THEN "delete" ELSE "letter")
    /\ UNCHANGED <<orderVars, dispatchVars, entry, artifact, resultVars>>

DeleteUnowned(p) == At(p, "delete") /\ DeleteArtifact(p, "letter")

-----------------------------------------------------------------------------
WorkerStep(j) ==
    \/ StartEntry(j) \/ StoreArtifact(j) \/ SliceRejected(j)
    \/ \E value \in Successes : SliceSucceeds(j, value)
    \/ \E written \in BOOLEAN : SliceRetryable(j, written)

\* What a publisher does next with the dispatch or the entry it holds.
PublisherStep(p) ==
    \/ Authorize(p) \/ AddEntry(p) \/ MarkDelivered(p) \/ FailDispatch(p)
    \/ CheckDispatch(p) \/ DeadLetterQueueEntry(p) \/ DeadLetter(p) \/ RemoveEntry(p)
    \/ Ingest(p) \/ IngestAgain(p) \/ CleanUp(p) \/ FindOwner(p) \/ DeleteUnowned(p)

PublisherFault(p) == CrashPublisher(p) \/ AddFails(p) \/ MarkDeliveredFails(p)

OperatorStep ==
    \/ \E j \in Jobs : AcceptJob(j) \/ StartPrinting(j) \/ FailJob(j)
    \/ CancelOrder

Next ==
    \/ OperatorStep
    \/ \E j \in Jobs : WorkerStep(j) \/ EntryStalls(j)
    \/ \E p \in Publishers, j \in Jobs : ClaimDispatch(p, j) \/ ReadFinished(p, j)
    \/ \E p \in Publishers : PublisherStep(p) \/ PublisherFault(p)

Spec == Init /\ [][Next]_vars

\* Workers and publishers go on with what they hold.  Every poll reads both
\* the due dispatches and the finished entries, oldest first, so each is taken
\* up again and again until it is done.  Publishers stop failing in the end.
Fairness ==
    /\ \A j \in Jobs \ Sealed : WF_vars(WorkerStep(j))
    /\ \A p \in Publishers : WF_vars(PublisherStep(p))
    /\ \A j \in Jobs \ Sealed : SF_vars(\E p \in Publishers : ClaimDispatch(p, j))
    /\ \A j \in Jobs \ Sealed : SF_vars(\E p \in Publishers : ReadFinished(p, j))
    /\ <>[][~ \E p \in Publishers : PublisherFault(p)]_vars

FairSpec == Spec /\ Fairness

-----------------------------------------------------------------------------
(* Properties.                                                              *)

Places == {"idle", "authorize", "add", "deliver", "fail", "check", "stray",
           "letter", "ingest", "cleanup", "discard", "delete", "remove"}

Entries == [state : {"NONE", "WAITING", "ACTIVE", "STORED", "COMPLETED", "FAILED"},
            attempts : 0 .. Attempts, envelope : 0 .. Attempts,
            stalled : BOOLEAN, value : Values]

\* The values the variables take; no entry is attempted more often than the
\* publisher asked for, and an envelope never comes from a later attempt.
TypeOK ==
    /\ order \in OrderStatus
    /\ job \in [Jobs -> JobStatus]
    /\ dispatch \in [Jobs -> {"NONE", "PENDING", "PROCESSING", "DELIVERED", "FAILED"}]
    /\ lease \in [Jobs -> Publishers \cup {NoPublisher}]
    /\ entry \in [Jobs -> Entries]
    /\ \A j \in Jobs : entry[j].envelope <= entry[j].attempts
    /\ artifact \subseteq Jobs /\ sliced \subseteq Jobs
    /\ receipt \in [Jobs -> [value : Values,
                 status : {"none", "materialized", "cleanup", "failed", "manual", "stale"}]]
    /\ letters \subseteq Jobs /\ strays \subseteq Jobs
    /\ refund \in {"NONE", "PENDING"} /\ message \in BOOLEAN
    /\ publisher \in [Publishers -> [pc : Places, job : Jobs \cup {NoJob}, result : Values]]

\* The G-code a job was sealed with stays in the store until it has been
\* printed: neither the cleanup of a stale result nor the one of a rejected
\* second result deletes the key the sealed one is stored under.
SealedArtifactKept ==
    \A j \in Jobs : job[j] \in {"GCODE_READY", "PRINTING"} => j \in artifact

\* A cancelled order has nothing left to make and its payment is owed back,
\* whoever cancelled it, whatever results arrive afterwards.
CancelledStopsWork ==
    order = "CANCELLED" =>
        /\ \A j \in Jobs : job[j] \notin Unfinished
        /\ refund # "NONE"

Quiet(j) == ~ Present(j) /\ \A p \in Publishers : Work(p) # j

\* Once a successful result has been reconciled, its artifact is either owned
\* by a slice result or gone; crashes, retries and late entries of the same
\* dispatch leave nothing behind that no dead letter tells of.  Stated for at
\* most two publishers: with three, one that lost its lease long ago may add
\* the entry again between two removals, and the second removal orphans what
\* the worker stored in between.
NoOrphanArtifact ==
    \A j \in Jobs :
        (receipt[j].value \in Successes /\ j \notin letters \cup strays /\ Quiet(j))
            => (j \in artifact => j \in sliced)

\* A delivered dispatch is still in the queue until its result is recorded or
\* dead-lettered: no crash and no lost lease between two steps of a publisher
\* makes a result vanish without a trace.
ResultNotLost ==
    \A j \in Jobs :
        (dispatch[j] = "DELIVERED" /\ receipt[j] = NoReceipt /\ j \notin letters \cup strays)
            => Present(j)

\* A result is kept exactly once: it cannot vanish between queue and database,
\* and what it stored is owned or removed.
ResultsKept == NoOrphanArtifact /\ ResultNotLost

\* An accepted job does not wait for its G-code for ever: it is sealed, ended,
\* or an operator finds its recorded failure or its dead letter.
AcceptedIsDecided ==
    \A j \in Jobs \ Sealed :
        (job[j] = "ACCEPTED") ~>
            (job[j] # "ACCEPTED" \/ receipt[j] # NoReceipt \/ j \in letters \cup strays)

\* Every refund that is owed has the message that makes a dispatcher pay it.
RefundDispatchable == refund = "PENDING" => message
=============================================================================
