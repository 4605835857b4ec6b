--------------------------- MODULE SlicingProofs ---------------------------
(***************************************************************************)
(* Proofs about SlicingDispatch, for every set of jobs and publishers and   *)
(* every number of attempts, and about Measurement, for every set of        *)
(* requests.                                                                *)
(***************************************************************************)
EXTENDS SlicingDispatch, Measurement, SumLemmas, SequenceTheorems, TLAPS

USE SlicingAssumption

\* A publisher that is at work knows its job, and an entry that is not finished
\* has an attempt left: what keeps the types inductive.
BusyHasJob == \A p \in Publishers : publisher[p].pc # "idle" => publisher[p].job \in Jobs
AttemptsLeft ==
    \A j \in Jobs : entry[j].state \in {"WAITING", "ACTIVE", "STORED"}
                        => entry[j].attempts < Attempts
Typed == TypeOK /\ BusyHasJob /\ AttemptsLeft

PublisherStates == [pc : Places, job : Jobs \cup {NoJob}, result : Values]

-----------------------------------------------------------------------------
(* What the shared parts of the actions do.                                 *)

\* Moving a publisher on keeps its job and at most forgets its result.
LEMMA GoToEffect ==
    ASSUME Typed, NEW p \in Publishers, NEW l \in Places, GoTo(p, l),
           publisher[p].pc # "idle"
    PROVE  /\ publisher' \in [Publishers -> PublisherStates]
           /\ publisher'[p].pc = l
           /\ publisher'[p].job = publisher[p].job
           /\ publisher'[p].result \in {publisher[p].result, "none"}
           /\ \A q \in Publishers : q # p => publisher'[q] = publisher[q]
           /\ BusyHasJob'
<1> DEFINE res == IF l \in {"ingest", "discard"} THEN publisher[p].result ELSE "none"
           new == [publisher[p] EXCEPT !.pc = l, !.result = res]
<1>1. publisher' = [publisher EXCEPT ![p] = new]
  BY DEF GoTo
<1>2. publisher \in [Publishers -> PublisherStates]
  BY DEF Typed, TypeOK, PublisherStates
<1>3. publisher[p] \in PublisherStates
  BY <1>2
<1>4. res \in Values /\ res \in {publisher[p].result, "none"}
  BY <1>3 DEF PublisherStates, Values
<1> HIDE DEF res
<1>5. /\ new \in PublisherStates /\ new.pc = l /\ new.result = res
      /\ new.job = publisher[p].job
  BY <1>3, <1>4 DEF PublisherStates
<1> HIDE DEF new
<1>6. /\ publisher' \in [Publishers -> PublisherStates]
      /\ publisher'[p] = new
      /\ \A q \in Publishers : q # p => publisher'[q] = publisher[q]
  BY <1>1, <1>2, <1>5
<1>7. BusyHasJob'
  BY <1>5, <1>6 DEF BusyHasJob, Typed
<1> QED
  BY <1>4, <1>5, <1>6, <1>7

\* A publisher that leaves is idle.
LEMMA LeaveEffect ==
    ASSUME Typed, NEW p \in Publishers, Leave(p)
    PROVE  /\ publisher' \in [Publishers -> PublisherStates]
           /\ publisher'[p] = Idle
           /\ \A q \in Publishers : q # p => publisher'[q] = publisher[q]
           /\ BusyHasJob'
<1>1. publisher \in [Publishers -> PublisherStates]
  BY DEF Typed, TypeOK, PublisherStates
<1>2. Idle \in PublisherStates
  BY DEF Idle, PublisherStates, Places, Values
<1> QED
  BY <1>1, <1>2 DEF Leave, BusyHasJob, Typed, Idle

\* Nobody moves.
LEMMA StayEffect ==
    ASSUME Typed, UNCHANGED publisher
    PROVE  publisher' \in [Publishers -> PublisherStates] /\ BusyHasJob'
  BY DEF Typed, TypeOK, BusyHasJob, PublisherStates

\* An entry is replaced by another one.
LEMMA EntryEffect ==
    ASSUME Typed, NEW j \in Jobs, NEW e \in Entries, e.envelope <= e.attempts,
           e.state \in {"WAITING", "ACTIVE", "STORED"} => e.attempts < Attempts,
           entry' = [entry EXCEPT ![j] = e]
    PROVE  /\ entry' \in [Jobs -> Entries]
           /\ \A i \in Jobs : entry'[i].envelope <= entry'[i].attempts
           /\ AttemptsLeft'
           /\ entry'[j] = e
           /\ \A i \in Jobs : i # j => entry'[i] = entry[i]
<1>1. entry \in [Jobs -> Entries] /\ \A i \in Jobs : entry[i].envelope <= entry[i].attempts
  BY DEF Typed, TypeOK
<1>2. /\ entry' \in [Jobs -> Entries] /\ entry'[j] = e
      /\ \A i \in Jobs : i # j => entry'[i] = entry[i]
  BY <1>1
<1> QED
  BY <1>1, <1>2 DEF AttemptsLeft, Typed

\* An absent queue entry and a freshly added one are entries, and the added
\* one still has attempts left.
LEMMA EmptyEntry ==
    /\ NoEntry \in Entries /\ NoEntry.envelope <= NoEntry.attempts
    /\ NoEntry.state = "NONE" /\ NoEntry.value = "none"
    /\ Added \in Entries /\ Added.envelope <= Added.attempts
    /\ Added.attempts < Attempts /\ Added.state = "WAITING" /\ Added.value = "none"
<1>1. Attempts \in Nat /\ 0 < Attempts /\ 0 \in 0 .. Attempts
  BY DEF SlicingAssumption
<1>2. "none" \in Values
  BY DEF Values
<1>3. NoEntry \in Entries
  BY <1>1, <1>2 DEF NoEntry, Entries
<1>4. NoEntry.envelope = 0 /\ NoEntry.attempts = 0
      /\ NoEntry.state = "NONE" /\ NoEntry.value = "none"
  BY DEF NoEntry
<1>5. Added \in Entries
  BY <1>3 DEF Added, Entries
<1>6. /\ Added.envelope = NoEntry.envelope /\ Added.attempts = NoEntry.attempts
      /\ Added.state = "WAITING" /\ Added.value = NoEntry.value
  BY <1>3 DEF Added, Entries
<1> QED
  BY <1>1, <1>3, <1>4, <1>5, <1>6

\* Worker and queue replace the entry of one job, and may add its artifact.
LEMMA WorkerEffect ==
    ASSUME Typed, NEW j \in Jobs, WorkerStep(j) \/ EntryStalls(j)
    PROVE  /\ entry' \in [Jobs -> Entries]
           /\ \A i \in Jobs : entry'[i].envelope <= entry'[i].attempts
           /\ AttemptsLeft'
           /\ \A i \in Jobs : i # j => entry'[i] = entry[i]
           /\ artifact' \in {artifact, artifact \cup {j}}
           /\ entry'[j].state = "STORED" => j \in artifact'
           /\ entry'[j].value \in Successes
                => entry[j].state = "STORED" \/ entry[j].value \in Successes
           /\ UNCHANGED <<orderVars, dispatchVars, resultVars, publisher>>
<1>1. /\ entry \in [Jobs -> Entries] /\ entry[j] \in Entries
      /\ entry[j].envelope <= entry[j].attempts
  BY DEF Typed, TypeOK
<1>2. /\ entry[j].attempts \in 0 .. Attempts /\ entry[j].envelope \in 0 .. Attempts
      /\ Attempts \in Nat
  BY <1>1 DEF Entries, SlicingAssumption
<1> DEFINE Moved(st) == [entry[j] EXCEPT !.state = st]
<1>3. \A st \in {"WAITING", "ACTIVE", "STORED"} :
        /\ Moved(st) \in Entries /\ Moved(st).state = st
        /\ Moved(st).attempts = entry[j].attempts
        /\ Moved(st).envelope = entry[j].envelope
        /\ Moved(st).value = entry[j].value
  BY <1>1 DEF Entries
<1>4. ASSUME NEW st \in {"ACTIVE", "STORED"}, Move(j, st),
             entry[j].state \in {"WAITING", "ACTIVE"}
      PROVE  /\ entry' \in [Jobs -> Entries]
             /\ \A i \in Jobs : entry'[i].envelope <= entry'[i].attempts
             /\ AttemptsLeft'
             /\ \A i \in Jobs : i # j => entry'[i] = entry[i]
             /\ entry'[j].state = st /\ entry'[j].value = entry[j].value
  <2>1. entry' = [entry EXCEPT ![j] = Moved(st)]
    BY <1>4 DEF Move
  <2>2. entry[j].attempts < Attempts
    BY <1>4 DEF Typed, AttemptsLeft
  <2> HIDE DEF Moved
  <2> QED
    BY <1>1, <1>2, <1>3, <2>1, <2>2, EntryEffect
<1>5. CASE StartEntry(j)
  BY <1>4, <1>5 DEF StartEntry, QueueOnly
<1>6. CASE StoreArtifact(j)
  BY <1>4, <1>6 DEF StoreArtifact, QueueOnly
<1>7. ASSUME NEW v \in Values, Finish(j, v)
      PROVE  /\ entry' \in [Jobs -> Entries]
             /\ \A i \in Jobs : entry'[i].envelope <= entry'[i].attempts
             /\ AttemptsLeft'
             /\ \A i \in Jobs : i # j => entry'[i] = entry[i]
             /\ entry'[j].state = "COMPLETED" /\ entry'[j].value = v
  <2> DEFINE e == [NoEntry EXCEPT !.state = "COMPLETED", !.value = v]
  <2>1. entry' = [entry EXCEPT ![j] = e]
    BY <1>7 DEF Finish
  <2>2. /\ e \in Entries /\ e.state = "COMPLETED" /\ e.value = v
        /\ e.envelope = NoEntry.envelope /\ e.attempts = NoEntry.attempts
    BY EmptyEntry DEF Entries
  <2> HIDE DEF e
  <2> QED
    BY <2>1, <2>2, EmptyEntry, EntryEffect
<1>8. CASE \E v \in Successes : SliceSucceeds(j, v)
  BY <1>7, <1>8 DEF SliceSucceeds, QueueOnly, Values
<1>9. CASE SliceRejected(j)
  BY <1>7, <1>9 DEF SliceRejected, QueueOnly, Values, Successes
<1>10. ASSUME NEW w \in BOOLEAN, SliceRetryable(j, w)
       PROVE  /\ entry' \in [Jobs -> Entries]
              /\ \A i \in Jobs : entry'[i].envelope <= entry'[i].attempts
              /\ AttemptsLeft'
              /\ \A i \in Jobs : i # j => entry'[i] = entry[i]
              /\ entry'[j].state # "STORED" /\ entry'[j].value = entry[j].value
  <2> DEFINE made == entry[j].attempts + 1
             env == IF w THEN made ELSE entry[j].envelope
             st == IF made < Attempts THEN "WAITING" ELSE "FAILED"
             e == [entry[j] EXCEPT !.attempts = made, !.envelope = env, !.state = st]
  <2>1. entry' = [entry EXCEPT ![j] = e]
    BY <1>10 DEF SliceRetryable
  <2>2. entry[j].attempts < Attempts
    BY <1>10 DEF SliceRetryable, Active, Typed, AttemptsLeft
  <2>3. made \in 0 .. Attempts /\ env \in 0 .. Attempts /\ env <= made
    BY <1>1, <1>2, <2>2
  <2>4. /\ st \in {"WAITING", "FAILED"}
        /\ st = "WAITING" => made < Attempts
    OBVIOUS
  <2> HIDE DEF made, env, st
  <2>5. /\ e \in Entries /\ e.state = st /\ e.value = entry[j].value
        /\ e.envelope = env /\ e.attempts = made
    BY <1>1, <2>3, <2>4 DEF Entries
  <2> HIDE DEF e
  <2> QED
    BY <2>1, <2>3, <2>4, <2>5, EntryEffect
<1>11. CASE \E w \in BOOLEAN : SliceRetryable(j, w)
  BY <1>10, <1>11 DEF SliceRetryable, QueueOnly
<1>12. CASE EntryStalls(j)
  <2> DEFINE st == IF entry[j].stalled THEN "FAILED" ELSE "WAITING"
             e == [entry[j] EXCEPT !.state = st, !.stalled = TRUE]
  <2>1. entry' = [entry EXCEPT ![j] = e]
    BY <1>12 DEF EntryStalls
  <2>2. entry[j].attempts < Attempts
    BY <1>12 DEF EntryStalls, Active, Typed, AttemptsLeft
  <2>3. st \in {"WAITING", "FAILED"}
    OBVIOUS
  <2> HIDE DEF st
  <2>4. /\ e \in Entries /\ e.state = st /\ e.value = entry[j].value
        /\ e.envelope = entry[j].envelope /\ e.attempts = entry[j].attempts
    BY <1>1, <2>3 DEF Entries
  <2> HIDE DEF e
  <2>5. /\ entry' \in [Jobs -> Entries]
        /\ \A i \in Jobs : entry'[i].envelope <= entry'[i].attempts
        /\ AttemptsLeft'
        /\ \A i \in Jobs : i # j => entry'[i] = entry[i]
        /\ entry'[j].state # "STORED" /\ entry'[j].value = entry[j].value
    BY <1>1, <2>1, <2>2, <2>3, <2>4, EntryEffect
  <2> QED
    BY <1>12, <2>5 DEF EntryStalls, QueueOnly
<1> QED
  BY <1>5, <1>6, <1>8, <1>9, <1>11, <1>12 DEF WorkerStep

\* Adding an entry that exists changes nothing.
LEMMA EnqueuedEffect ==
    ASSUME Typed, NEW j \in Jobs, entry' = Enqueued(j)
    PROVE  /\ entry' \in [Jobs -> Entries]
           /\ \A i \in Jobs : entry'[i].envelope <= entry'[i].attempts
           /\ AttemptsLeft'
           /\ \A i \in Jobs : entry'[i] = entry[i] \/ entry'[i] = Added
<1>1. CASE Present(j)
  BY <1>1 DEF Enqueued, Typed, TypeOK, AttemptsLeft
<1>2. CASE ~ Present(j)
  BY <1>2, EmptyEntry, EntryEffect DEF Enqueued
<1> QED
  BY <1>1, <1>2

-----------------------------------------------------------------------------
(* The types.                                                               *)

\* Everything but entry and publisher keeps its type.
RowsTyped ==
    /\ order \in OrderStatus
    /\ job \in [Jobs -> JobStatus]
    /\ dispatch \in [Jobs -> {"NONE", "PENDING", "PROCESSING", "DELIVERED", "FAILED"}]
    /\ lease \in [Jobs -> Publishers \cup {NoPublisher}]
    /\ artifact \subseteq Jobs /\ sliced \subseteq Jobs
    /\ receipt \in [Jobs -> [value : Values,
                 status : {"none", "materialized", "cleanup", "failed", "manual", "stale"}]]
    /\ letters \subseteq Jobs /\ strays \subseteq Jobs
    /\ refund \in {"NONE", "PENDING"} /\ message \in BOOLEAN

EntriesTyped ==
    /\ entry \in [Jobs -> Entries]
    /\ \A j \in Jobs : entry[j].envelope <= entry[j].attempts
    /\ AttemptsLeft

PublishersTyped == publisher \in [Publishers -> PublisherStates] /\ BusyHasJob

\* The types are those of the rows, the queue entries and the publishers.
LEMMA TypedParts == Typed <=> RowsTyped /\ EntriesTyped /\ PublishersTyped
  BY DEF Typed, TypeOK, RowsTyped, EntriesTyped, PublishersTyped, PublisherStates

\* The same in the next state.
LEMMA TypedNext ==
    ASSUME RowsTyped', EntriesTyped', PublishersTyped'
    PROVE  Typed'
  BY DEF Typed, TypeOK, RowsTyped, EntriesTyped, PublishersTyped, PublisherStates

\* The initial state is typed.
LEMMA TypeInit == Init => Typed
<1> SUFFICES ASSUME Init PROVE Typed
  OBVIOUS
<1>1. RowsTyped
  BY DEF Init, RowsTyped, OrderStatus, JobStatus, NoReceipt, Values, Successes, SlicingAssumption
<1>2. EntriesTyped
  BY EmptyEntry DEF Init, EntriesTyped, AttemptsLeft
<1>3. PublishersTyped
  <2>1. Idle \in PublisherStates
    BY DEF Idle, PublisherStates, Places, Values
  <2> QED
    BY <2>1 DEF Init, PublishersTyped, BusyHasJob, Idle
<1> QED
  BY <1>1, <1>2, <1>3, TypedParts

\* The job of a publisher at work.
LEMMA WorkType ==
    ASSUME Typed, NEW p \in Publishers, publisher[p].pc # "idle"
    PROVE  Work(p) \in Jobs /\ Result(p) \in Values
  BY DEF Typed, TypeOK, BusyHasJob, Work, Result

\* The operators' commands.
LEMMA OperatorTypes ==
    ASSUME Typed, OperatorStep
    PROVE  Typed'
<1>1. RowsTyped /\ EntriesTyped /\ PublishersTyped
  BY TypedParts
<1>2. UNCHANGED <<entry, publisher>>
  BY DEF OperatorStep, AcceptJob, StartPrinting, FailJob, CancelOrder
<1>3. RowsTyped'
  <2>1. CASE \E j \in Jobs : AcceptJob(j) \/ StartPrinting(j) \/ FailJob(j)
    BY <1>1, <2>1 DEF RowsTyped, AcceptJob, StartPrinting, FailJob, OrderStatus, JobStatus,
       resultVars, dispatchVars
  <2>2. CASE CancelOrder
    <3>1. job' \in [Jobs -> JobStatus] /\ order' \in OrderStatus
      BY <1>1, <2>2 DEF RowsTyped, CancelOrder, FinalizeCancellation, OrderStatus, JobStatus
    <3>2. refund' \in {"NONE", "PENDING"} /\ message' \in BOOLEAN
      BY <1>1, <2>2 DEF RowsTyped, CancelOrder, FinalizeCancellation, CancellationRefund
    <3> QED
      BY <1>1, <2>2, <3>1, <3>2 DEF RowsTyped, CancelOrder, resultVars, dispatchVars
  <2> QED
    BY <2>1, <2>2 DEF OperatorStep
<1>4. EntriesTyped' /\ PublishersTyped'
  BY <1>1, <1>2 DEF EntriesTyped, PublishersTyped, AttemptsLeft, BusyHasJob
<1> QED
  BY <1>3, <1>4, TypedNext

\* The worker and the queue.
LEMMA WorkerTypes ==
    ASSUME Typed, NEW j \in Jobs, WorkerStep(j) \/ EntryStalls(j)
    PROVE  Typed'
<1>1. RowsTyped /\ EntriesTyped /\ PublishersTyped
  BY TypedParts
<1>2. EntriesTyped'
  BY WorkerEffect DEF EntriesTyped
<1>3. PublishersTyped'
  BY <1>1, WorkerEffect, StayEffect DEF PublishersTyped
<1>4. RowsTyped'
  BY <1>1, WorkerEffect DEF RowsTyped, orderVars, dispatchVars, resultVars
<1> QED
  BY <1>2, <1>3, <1>4, TypedNext

\* A publisher takes a dispatch or an entry.
LEMMA TakeTypes ==
    ASSUME Typed, NEW p \in Publishers, NEW j \in Jobs,
           ClaimDispatch(p, j) \/ ReadFinished(p, j)
    PROVE  Typed'
<1>1. RowsTyped /\ EntriesTyped /\ PublishersTyped
  BY TypedParts
<1>2. EntriesTyped'
  BY <1>1 DEF ClaimDispatch, ReadFinished, EntriesTyped, AttemptsLeft
<1>3. RowsTyped'
  <2>1. /\ dispatch' \in [Jobs -> {"NONE", "PENDING", "PROCESSING", "DELIVERED", "FAILED"}]
        /\ lease' \in [Jobs -> Publishers \cup {NoPublisher}]
    <3>1. CASE ClaimDispatch(p, j)
      BY <1>1, <3>1 DEF ClaimDispatch, RowsTyped
    <3>2. CASE ReadFinished(p, j)
      BY <1>1, <3>2 DEF ReadFinished, RowsTyped, dispatchVars
    <3> QED
      BY <3>1, <3>2
  <2>2. UNCHANGED <<orderVars, artifact, resultVars>>
    BY DEF ClaimDispatch, ReadFinished
  <2> QED
    BY <1>1, <2>1, <2>2 DEF RowsTyped, orderVars, resultVars
<1>4. ASSUME NEW new \in PublisherStates, new.job = j,
             publisher' = [publisher EXCEPT ![p] = new]
      PROVE  PublishersTyped'
  BY <1>1, <1>4 DEF PublishersTyped, BusyHasJob
<1>5. CASE ClaimDispatch(p, j)
  <2> DEFINE new == [Idle EXCEPT !.pc = "authorize", !.job = j]
  <2>1. Idle \in PublisherStates
    BY DEF Idle, PublisherStates, Places, Values
  <2>2. new \in PublisherStates /\ new.job = j
    BY <2>1 DEF PublisherStates, Places
  <2>3. publisher' = [publisher EXCEPT ![p] = new]
    BY <1>5 DEF ClaimDispatch
  <2> HIDE DEF new
  <2> QED
    BY <1>2, <1>3, <1>4, <2>2, <2>3, TypedNext
<1>6. CASE ReadFinished(p, j)
  <2> DEFINE new == [pc |-> "check", job |-> j, result |-> Verdict(entry[j])]
  <2>1. entry[j].value \in Values
    BY <1>1 DEF EntriesTyped, Entries
  <2>2. Verdict(entry[j]) \in Values
    BY <2>1 DEF Verdict, Values
  <2>3. new \in PublisherStates /\ new.job = j
    BY <2>2 DEF PublisherStates, Places
  <2>4. publisher' = [publisher EXCEPT ![p] = new]
    BY <1>6 DEF ReadFinished
  <2> HIDE DEF new
  <2> QED
    BY <1>2, <1>3, <1>4, <2>3, <2>4, TypedNext
<1> QED
  BY <1>5, <1>6

\* A publisher that has nothing to say moves on or leaves.
LEMMA MoveTypes ==
    ASSUME Typed, NEW p \in Publishers, publisher[p].pc # "idle",
           (\E l \in Places : GoTo(p, l)) \/ Leave(p)
    PROVE  PublishersTyped'
  BY GoToEffect, LeaveEffect DEF PublishersTyped

\* Recording a result in its transaction.
LEMMA IngestTypes ==
    ASSUME Typed, NEW p \in Publishers, Ingest(p)
    PROVE  Typed'
<1> DEFINE j == Work(p)
           value == Result(p)
<1>1. RowsTyped /\ EntriesTyped /\ PublishersTyped
  BY TypedParts
<1>2. At(p, "ingest") /\ publisher[p].pc # "idle"
  BY DEF Ingest, At
<1>3. j \in Jobs /\ value \in Values
  BY <1>2, WorkType
<1> HIDE DEF j, value
<1>4. ASSUME NEW st \in {"materialized", "cleanup", "failed", "manual", "stale"},
             Record(j, value, st)
      PROVE  receipt' \in [Jobs -> [value : Values,
                 status : {"none", "materialized", "cleanup", "failed", "manual", "stale"}]]
  BY <1>1, <1>3, <1>4 DEF RowsTyped, Record
<1>5. IF value \in Successes THEN MaterializeSuccess(j, value) ELSE MaterializeFailure(j, value)
  BY DEF Ingest, j, value
<1>6. /\ order' \in OrderStatus /\ job' \in [Jobs -> JobStatus]
      /\ sliced' \subseteq Jobs /\ refund' \in {"NONE", "PENDING"}
      /\ UNCHANGED message
  BY <1>1, <1>3, <1>5 DEF MaterializeSuccess, MaterializeFailure, FailProduction, RowsTyped,
     OrderStatus, JobStatus, orderVars
<1>7. receipt' \in [Jobs -> [value : Values,
                 status : {"none", "materialized", "cleanup", "failed", "manual", "stale"}]]
  BY <1>4, <1>5 DEF MaterializeSuccess, MaterializeFailure
<1>8. RowsTyped'
  BY <1>1, <1>6, <1>7 DEF RowsTyped, Ingest, dispatchVars
<1>9. EntriesTyped'
  BY <1>1 DEF EntriesTyped, AttemptsLeft, Ingest
<1>10. \E l \in Places : GoTo(p, l)
  BY DEF Ingest, Places
<1> QED
  BY <1>2, <1>8, <1>9, <1>10, MoveTypes, TypedNext

\* The steps of a publisher that write no row but the dispatch, a dead letter
\* or an artifact.
LEMMA PublisherTypes ==
    ASSUME Typed, NEW p \in Publishers, PublisherStep(p) \/ PublisherFault(p)
    PROVE  Typed'
<1>1. RowsTyped /\ EntriesTyped /\ PublishersTyped
  BY TypedParts
<1>2. publisher[p].pc # "idle"
  BY DEF PublisherStep, PublisherFault, Authorize, AddEntry, MarkDelivered, FailDispatch,
     CheckDispatch, DeadLetterQueueEntry, DeadLetter, RemoveEntry, Ingest, IngestAgain,
     CleanUp, FindOwner, DeleteUnowned, CrashPublisher, AddFails, MarkDeliveredFails, At
<1>3. Work(p) \in Jobs
  BY <1>2, WorkType
<1>4. CASE Ingest(p)
  BY <1>4, IngestTypes
<1>5. ASSUME UNCHANGED <<orderVars, dispatchVars, artifact, resultVars>>
      PROVE  RowsTyped'
  BY <1>1, <1>5 DEF RowsTyped, orderVars, dispatchVars, resultVars
<1>6. ASSUME UNCHANGED entry
      PROVE  EntriesTyped'
  BY <1>1, <1>6 DEF EntriesTyped, AttemptsLeft
<1>7. CASE Authorize(p) \/ CheckDispatch(p) \/ IngestAgain(p) \/ FindOwner(p)
           \/ CrashPublisher(p) \/ MarkDeliveredFails(p)
  <2>1. (\E l \in Places : GoTo(p, l)) \/ Leave(p)
    BY <1>7 DEF Authorize, CheckDispatch, IngestAgain, FindOwner, CrashPublisher,
       MarkDeliveredFails, Places
  <2>2. UNCHANGED <<orderVars, dispatchVars, entry, artifact, resultVars>>
    BY <1>7 DEF Authorize, CheckDispatch, IngestAgain, FindOwner, CrashPublisher,
       MarkDeliveredFails
  <2> QED
    BY <1>2, <1>5, <1>6, <2>1, <2>2, MoveTypes, TypedNext
<1>8. CASE AddEntry(p) \/ AddFails(p) \/ RemoveEntry(p)
  <2>1. (\E l \in Places : GoTo(p, l)) \/ Leave(p)
    BY <1>8 DEF AddEntry, AddFails, RemoveEntry, Places
  <2>2. UNCHANGED <<orderVars, dispatchVars, artifact, resultVars>>
    BY <1>8 DEF AddEntry, AddFails, RemoveEntry
  <2>3. \/ UNCHANGED entry
        \/ entry' = Enqueued(Work(p))
        \/ entry' = [entry EXCEPT ![Work(p)] = NoEntry]
    BY <1>8 DEF AddEntry, AddFails, RemoveEntry
  <2>4. EntriesTyped'
    BY <1>3, <1>6, <2>3, EnqueuedEffect, EntryEffect, EmptyEntry DEF EntriesTyped
  <2> QED
    BY <1>2, <1>5, <2>1, <2>2, <2>4, MoveTypes, TypedNext
<1>9. CASE MarkDelivered(p) \/ FailDispatch(p)
  <2>1. Leave(p) /\ UNCHANGED <<orderVars, entry, artifact, resultVars>>
    BY <1>9 DEF MarkDelivered, FailDispatch
  <2>2. EndLease(p, "DELIVERED") \/ EndLease(p, "FAILED")
    BY <1>9 DEF MarkDelivered, FailDispatch
  <2>3. /\ dispatch' \in [Jobs -> {"NONE", "PENDING", "PROCESSING", "DELIVERED", "FAILED"}]
        /\ lease' \in [Jobs -> Publishers \cup {NoPublisher}]
    BY <1>1, <1>3, <2>2 DEF RowsTyped, EndLease, dispatchVars
  <2>4. RowsTyped'
    BY <1>1, <2>1, <2>3 DEF RowsTyped, orderVars, resultVars
  <2> QED
    BY <1>2, <1>6, <2>1, <2>4, MoveTypes, TypedNext
<1>10. CASE DeadLetterQueueEntry(p) \/ DeadLetter(p)
  <2>1. /\ \E l \in Places : GoTo(p, l)
        /\ UNCHANGED <<orderVars, dispatchVars, entry, artifact, sliced, receipt>>
    BY <1>10 DEF DeadLetterQueueEntry, DeadLetter, Places
  <2>2. letters' \subseteq Jobs /\ strays' \subseteq Jobs
    BY <1>1, <1>3, <1>10 DEF DeadLetterQueueEntry, DeadLetter, RowsTyped
  <2>3. RowsTyped'
    BY <1>1, <2>1, <2>2 DEF RowsTyped, orderVars, dispatchVars
  <2> QED
    BY <1>2, <1>6, <2>1, <2>3, MoveTypes, TypedNext
<1>11. CASE CleanUp(p) \/ DeleteUnowned(p)
  <2>1. /\ \E l \in Places : GoTo(p, l)
        /\ UNCHANGED <<orderVars, dispatchVars, entry, resultVars>>
        /\ artifact' = artifact \ {Work(p)}
    BY <1>11 DEF CleanUp, DeleteUnowned, DeleteArtifact, Places
  <2>2. RowsTyped'
    BY <1>1, <2>1 DEF RowsTyped, orderVars, dispatchVars, resultVars
  <2> QED
    BY <1>2, <1>6, <2>1, <2>2, MoveTypes, TypedNext
<1> QED
  BY <1>4, <1>7, <1>8, <1>9, <1>10, <1>11 DEF PublisherStep, PublisherFault

\* Every step keeps the types.
LEMMA TypeStep == Typed /\ [Next]_vars => Typed'
<1> SUFFICES ASSUME Typed, [Next]_vars PROVE Typed'
  OBVIOUS
<1>1. CASE UNCHANGED vars
  BY <1>1 DEF vars, Typed, TypeOK, BusyHasJob, AttemptsLeft
<1>2. CASE Next
  BY <1>2, OperatorTypes, WorkerTypes, TakeTypes, PublisherTypes DEF Next
<1> QED
  BY <1>1, <1>2

\* Every variable keeps its type: no entry is attempted more often than the
\* publisher asked for and no envelope is newer than the attempts made.
THEOREM TypeCorrect == Spec => []TypeOK
<1>1. Init => Typed
  BY TypeInit
<1>2. Typed /\ [Next]_vars => Typed'
  BY TypeStep
<1>3. Typed => TypeOK
  BY DEF Typed
<1> QED
  BY <1>1, <1>2, <1>3, PTL DEF Spec

-----------------------------------------------------------------------------
(* A cancelled order.                                                       *)

\* Every step keeps the jobs of a cancelled order out of work.
LEMMA CancelledStep ==
    Typed /\ CancelledStopsWork /\ [Next]_vars => CancelledStopsWork'
<1> SUFFICES ASSUME Typed, CancelledStopsWork, [Next]_vars PROVE CancelledStopsWork'
  OBVIOUS
<1>1. job \in [Jobs -> JobStatus]
  BY DEF Typed, TypeOK
<1>2. ASSUME UNCHANGED orderVars PROVE CancelledStopsWork'
  BY <1>2 DEF CancelledStopsWork, orderVars
<1>3. CASE \E j \in Jobs : AcceptJob(j) \/ StartPrinting(j) \/ FailJob(j)
  BY <1>1, <1>3 DEF CancelledStopsWork, AcceptJob, StartPrinting, FailJob, Unfinished, PrePrint
<1>4. CASE CancelOrder
  BY <1>1, <1>4 DEF CancelledStopsWork, CancelOrder, FinalizeCancellation, CancellationRefund,
     Unfinished, PrePrint
<1>5. CASE \E p \in Publishers : Ingest(p)
  <2>1. PICK p \in Publishers : Ingest(p)
    BY <1>5
  <2> DEFINE j == Work(p)
  <2>2. j \in Jobs
    BY <2>1, WorkType DEF Ingest, At
  <2>3. \/ MaterializeSuccess(j, Result(p))
        \/ MaterializeFailure(j, Result(p))
    BY <2>1 DEF Ingest
  <2> HIDE DEF j
  <2>4. CASE MaterializeSuccess(j, Result(p))
    BY <1>1, <1>2, <2>2, <2>4 DEF MaterializeSuccess, CancelledStopsWork, orderVars,
       Unfinished, PrePrint
  <2>5. CASE MaterializeFailure(j, Result(p))
    BY <1>1, <1>2, <2>2, <2>5 DEF MaterializeFailure, FailProduction,
       CanCancelPreProductionOrder, CancelledStopsWork, Unfinished, PrePrint
  <2> QED
    BY <2>3, <2>4, <2>5
<1>6. ASSUME NEW p \in Publishers, PublisherStep(p), ~ Ingest(p)
      PROVE  UNCHANGED orderVars
  BY <1>6 DEF PublisherStep, Authorize, AddEntry, MarkDelivered, FailDispatch,
     CheckDispatch, DeadLetterQueueEntry, DeadLetter, RemoveEntry, IngestAgain,
     CleanUp, FindOwner, DeleteUnowned, DeleteArtifact
<1>7. ASSUME NEW p \in Publishers, PublisherFault(p)
      PROVE  UNCHANGED orderVars
  BY <1>7 DEF PublisherFault, CrashPublisher, AddFails, MarkDeliveredFails
<1>8. ASSUME NEW p \in Publishers, NEW j \in Jobs, ClaimDispatch(p, j) \/ ReadFinished(p, j)
      PROVE  UNCHANGED orderVars
  BY <1>8 DEF ClaimDispatch, ReadFinished
<1>9. ASSUME NEW j \in Jobs, WorkerStep(j) \/ EntryStalls(j)
      PROVE  UNCHANGED orderVars
  BY <1>9, WorkerEffect
<1>10. CASE UNCHANGED vars
  BY <1>2, <1>10 DEF vars, orderVars
<1> QED
  BY <1>2, <1>3, <1>4, <1>5, <1>6, <1>7, <1>8, <1>9, <1>10 DEF Next, OperatorStep

\* For any number of jobs and publishers, a cancelled order has no job left to
\* make and its payment is owed back: neither a late success nor the failure of
\* one slice beside printing siblings breaks it.
THEOREM Cancelled == Spec => []CancelledStopsWork
<1>1. Init => Typed /\ CancelledStopsWork
  BY TypeInit DEF Init, CancelledStopsWork
<1>2. Typed /\ CancelledStopsWork /\ [Next]_vars => (Typed /\ CancelledStopsWork)'
  BY TypeStep, CancelledStep
<1> QED
  BY <1>1, <1>2, PTL DEF Spec

-----------------------------------------------------------------------------
(* Who may delete an artifact, and when.                                    *)

\* A sealed job has its artifact, which a slice result owns, and its receipt.
SealedOwned ==
    \A j \in Jobs : job[j] \in {"GCODE_READY", "PRINTING"} =>
        j \in artifact /\ j \in sliced /\ receipt[j].status = "materialized"

\* Nothing is dispatched before the job is accepted, and a result is ingested
\* only for a delivered dispatch.
DispatchedAccepted == \A j \in Jobs : job[j] = "CREATED" => dispatch[j] = "NONE"
IngestDelivered ==
    \A p \in Publishers : publisher[p].pc = "ingest" => dispatch[publisher[p].job] = "DELIVERED"

\* A stale success belongs to a job that has ended for good.
StaleEnded ==
    \A j \in Jobs : receipt[j].status = "cleanup" => job[j] \in {"FAILED", "CANCELLED"}

\* Whoever is about to delete holds a stale or a rejected result.
DeletersLicensed ==
    \A p \in Publishers :
        /\ publisher[p].pc = "cleanup" => receipt[publisher[p].job].status = "cleanup"
        /\ publisher[p].pc = "discard" => receipt[publisher[p].job] # NoReceipt
        /\ publisher[p].pc = "delete" => /\ receipt[publisher[p].job] # NoReceipt
                                         /\ publisher[p].job \notin sliced

\* Until a receipt exists, a success still finds its artifact.
SuccessStored ==
    \A j \in Jobs : receipt[j] = NoReceipt =>
        /\ entry[j].state = "STORED" \/ entry[j].value \in Successes => j \in artifact
        /\ \A p \in Publishers :
               publisher[p].job = j /\ publisher[p].result \in Successes => j \in artifact

Custody == /\ SealedOwned /\ DispatchedAccepted /\ IngestDelivered
           /\ StaleEnded /\ DeletersLicensed /\ SuccessStored

\* What a publisher must know to be where it is, in the words of Custody.
Justified(p) ==
    /\ publisher[p].pc = "ingest" => dispatch[publisher[p].job] = "DELIVERED"
    /\ publisher[p].pc = "cleanup" => receipt[publisher[p].job].status = "cleanup"
    /\ publisher[p].pc = "discard" => receipt[publisher[p].job] # NoReceipt
    /\ publisher[p].pc = "delete" => /\ receipt[publisher[p].job] # NoReceipt
                                     /\ publisher[p].job \notin sliced
    /\ \A j \in Jobs : (publisher[p].job = j /\ publisher[p].result \in Successes
                            /\ receipt[j] = NoReceipt) => j \in artifact

\* A publisher moves while jobs, receipts and artifacts stay as they are.
LEMMA CustodyMove ==
    ASSUME Typed, Custody, NEW p \in Publishers,
           UNCHANGED <<job, artifact, sliced, receipt>>,
           \A i \in Jobs : dispatch[i] \in {"NONE", "DELIVERED"} => dispatch'[i] = dispatch[i],
           \A i \in Jobs : \/ entry'[i] = entry[i]
                          \/ (entry'[i].state # "STORED" /\ entry'[i].value \notin Successes),
           \A q \in Publishers : q # p => publisher'[q] = publisher[q],
           Justified(p)'
    PROVE  Custody'
<1>1. BusyHasJob
  BY DEF Typed
<1>2. SealedOwned' /\ DispatchedAccepted' /\ StaleEnded'
  BY DEF Custody, SealedOwned, DispatchedAccepted, StaleEnded
<1>3. IngestDelivered'
  BY <1>1 DEF Custody, IngestDelivered, Justified, BusyHasJob
<1>4. DeletersLicensed'
  BY DEF Custody, DeletersLicensed, Justified
<1>5. SuccessStored'
  BY DEF Custody, SuccessStored, Justified
<1> QED
  BY <1>2, <1>3, <1>4, <1>5 DEF Custody

\* Operators: a job only leaves the sealed states, and never a final one.
LEMMA CustodyOperator ==
    ASSUME Typed, Custody, OperatorStep
    PROVE  Custody'
<1>1. job \in [Jobs -> JobStatus] /\ BusyHasJob
  BY DEF Typed, TypeOK
<1>2. dispatch \in [Jobs -> {"NONE", "PENDING", "PROCESSING", "DELIVERED", "FAILED"}]
  BY DEF Typed, TypeOK
<1>3. UNCHANGED <<artifact, sliced, receipt, entry, publisher>>
  BY DEF OperatorStep, AcceptJob, StartPrinting, FailJob, CancelOrder, resultVars
<1>4. \A i \in Jobs :
        /\ job'[i] \in {"GCODE_READY", "PRINTING"} => job[i] \in {"GCODE_READY", "PRINTING"}
        /\ job[i] \in {"FAILED", "CANCELLED"} => job'[i] \in {"FAILED", "CANCELLED"}
        /\ job'[i] = "CREATED" => job[i] = "CREATED" /\ dispatch'[i] = dispatch[i]
        /\ dispatch[i] = "DELIVERED" => dispatch'[i] = "DELIVERED"
  <2>1. CASE \E j \in Jobs : AcceptJob(j)
    BY <1>1, <1>2, <2>1 DEF AcceptJob, Custody, DispatchedAccepted
  <2>2. CASE \E j \in Jobs : StartPrinting(j) \/ FailJob(j)
    BY <1>1, <2>2 DEF StartPrinting, FailJob, Unfinished, PrePrint, dispatchVars
  <2>3. CASE CancelOrder
    BY <1>1, <2>3 DEF CancelOrder, FinalizeCancellation, Unfinished, PrePrint, dispatchVars
  <2> QED
    BY <2>1, <2>2, <2>3 DEF OperatorStep
<1>5. SealedOwned' /\ DispatchedAccepted' /\ StaleEnded'
  BY <1>3, <1>4 DEF Custody, SealedOwned, DispatchedAccepted, StaleEnded
<1>6. IngestDelivered'
  BY <1>1, <1>3, <1>4 DEF Custody, IngestDelivered, BusyHasJob
<1>7. DeletersLicensed' /\ SuccessStored'
  BY <1>3 DEF Custody, DeletersLicensed, SuccessStored
<1> QED
  BY <1>5, <1>6, <1>7 DEF Custody

\* The worker only adds artifacts.
LEMMA CustodyWorker ==
    ASSUME Typed, Custody, NEW j \in Jobs, WorkerStep(j) \/ EntryStalls(j)
    PROVE  Custody'
<1>1. UNCHANGED <<job, dispatch, sliced, receipt, publisher>> /\ artifact \subseteq artifact'
  BY WorkerEffect DEF orderVars, dispatchVars, resultVars
<1>2. SealedOwned' /\ DispatchedAccepted' /\ StaleEnded'
  BY <1>1 DEF Custody, SealedOwned, DispatchedAccepted, StaleEnded
<1>3. IngestDelivered' /\ DeletersLicensed'
  BY <1>1 DEF Custody, IngestDelivered, DeletersLicensed
<1>4. SuccessStored'
  BY <1>1, WorkerEffect DEF Custody, SuccessStored
<1> QED
  BY <1>2, <1>3, <1>4 DEF Custody

\* A publisher that takes a dispatch has no result yet; one that reads a
\* finished entry takes its result over.
LEMMA CustodyTake ==
    ASSUME Typed, Custody, NEW p \in Publishers, NEW j \in Jobs,
           ClaimDispatch(p, j) \/ ReadFinished(p, j)
    PROVE  Custody'
<1>1. publisher \in [Publishers -> PublisherStates]
  BY TypedParts DEF PublishersTyped
<1>2. UNCHANGED <<job, artifact, sliced, receipt, entry>>
  BY DEF ClaimDispatch, ReadFinished, orderVars, resultVars
<1>3. \A i \in Jobs : dispatch[i] \in {"NONE", "DELIVERED"} => dispatch'[i] = dispatch[i]
  BY DEF ClaimDispatch, ReadFinished, dispatchVars, Typed, TypeOK
<1>4. \A q \in Publishers : q # p => publisher'[q] = publisher[q]
  BY <1>1 DEF ClaimDispatch, ReadFinished
<1>5. CASE ClaimDispatch(p, j)
  <2>1. publisher'[p] = [Idle EXCEPT !.pc = "authorize", !.job = j]
    BY <1>1, <1>5 DEF ClaimDispatch
  <2>2. publisher'[p].pc = "authorize" /\ publisher'[p].result = "none"
    BY <2>1 DEF Idle
  <2>3. Justified(p)'
    BY <2>2 DEF Justified, Successes
  <2> QED
    BY <1>2, <1>3, <1>4, <2>3, CustodyMove
<1>6. CASE ReadFinished(p, j)
  <2>1. /\ publisher'[p].pc = "check" /\ publisher'[p].job = j
        /\ publisher'[p].result = Verdict(entry[j])
    BY <1>1, <1>6 DEF ReadFinished
  <2>2. Verdict(entry[j]) \in Successes => entry[j].value \in Successes
    BY DEF Verdict, Successes
  <2>3. Justified(p)'
    BY <1>2, <2>1, <2>2 DEF Justified, Custody, SuccessStored
  <2> QED
    BY <1>2, <1>3, <1>4, <2>3, CustodyMove
<1> QED
  BY <1>5, <1>6

\* A publisher that leaves needs no justification.
LEMMA IdleJustified ==
    ASSUME NEW p \in Publishers, publisher'[p] = Idle
    PROVE  Justified(p)'
<1>1. publisher'[p].pc = "idle" /\ publisher'[p].result = "none"
  BY DEF Idle
<1> QED
  BY <1>1 DEF Justified, Successes

\* Every other step of a publisher that writes no receipt and deletes nothing.
LEMMA CustodyPublisher ==
    ASSUME Typed, Custody, NEW p \in Publishers, PublisherStep(p) \/ PublisherFault(p),
           ~ Ingest(p), ~ CleanUp(p), ~ DeleteUnowned(p)
    PROVE  Custody'
<1>1. publisher[p].pc # "idle"
  BY DEF PublisherStep, PublisherFault, Authorize, AddEntry, MarkDelivered, FailDispatch,
     CheckDispatch, DeadLetterQueueEntry, DeadLetter, RemoveEntry, Ingest, IngestAgain,
     CleanUp, FindOwner, DeleteUnowned, CrashPublisher, AddFails, MarkDeliveredFails, At
<1>2. Work(p) \in Jobs
  BY <1>1, WorkType
<1>3. UNCHANGED <<job, artifact, sliced, receipt>>
  BY DEF PublisherStep, PublisherFault, Authorize, AddEntry, MarkDelivered, FailDispatch,
     CheckDispatch, DeadLetterQueueEntry, DeadLetter, RemoveEntry, IngestAgain,
     FindOwner, CrashPublisher, AddFails, MarkDeliveredFails, orderVars, resultVars
<1>4. \A i \in Jobs : dispatch[i] \in {"NONE", "DELIVERED"} => dispatch'[i] = dispatch[i]
  <2>1. CASE MarkDelivered(p) \/ FailDispatch(p)
    BY <1>2, <2>1 DEF MarkDelivered, FailDispatch, EndLease, OwnsLease, dispatchVars, Typed, TypeOK
  <2>2. CASE ~ (MarkDelivered(p) \/ FailDispatch(p))
    BY <2>2 DEF PublisherStep, PublisherFault, Authorize, AddEntry, CheckDispatch,
       DeadLetterQueueEntry, DeadLetter, RemoveEntry, IngestAgain,
       FindOwner, CrashPublisher, AddFails, MarkDeliveredFails, dispatchVars
  <2> QED
    BY <2>1, <2>2
<1>5. \A i \in Jobs : \/ entry'[i] = entry[i]
                     \/ (entry'[i].state # "STORED" /\ entry'[i].value \notin Successes)
  <2>1. \/ UNCHANGED entry
        \/ entry' = Enqueued(Work(p))
        \/ entry' = [entry EXCEPT ![Work(p)] = NoEntry]
    BY DEF PublisherStep, PublisherFault, Authorize, AddEntry, MarkDelivered, FailDispatch,
       CheckDispatch, DeadLetterQueueEntry, DeadLetter, RemoveEntry, IngestAgain,
       FindOwner, CrashPublisher, AddFails, MarkDeliveredFails
  <2>2. CASE entry' = Enqueued(Work(p))
    BY <1>2, <2>2, EnqueuedEffect, EmptyEntry DEF Successes
  <2>3. CASE entry' = [entry EXCEPT ![Work(p)] = NoEntry]
    BY <1>2, <2>3, EntryEffect, EmptyEntry DEF Successes
  <2> QED
    BY <2>1, <2>2, <2>3
<1>6. ASSUME Leave(p) PROVE Custody'
  BY <1>3, <1>4, <1>5, <1>6, LeaveEffect, IdleJustified, CustodyMove
<1>7. ASSUME NEW l \in Places \ {"ingest", "cleanup", "discard", "delete"}, GoTo(p, l)
      PROVE  Custody'
  <2>1. Justified(p)'
    BY <1>1, <1>3, <1>7, GoToEffect DEF Justified, Custody, SuccessStored, Successes
  <2> QED
    BY <1>1, <1>3, <1>4, <1>5, <1>7, <2>1, GoToEffect, CustodyMove
<1>8. CASE CheckDispatch(p)
  <2>1. CASE dispatch[Work(p)] = "DELIVERED" /\ GoTo(p, "ingest")
    <3>1. Justified(p)'
      BY <1>1, <1>2, <1>3, <1>4, <2>1, GoToEffect
         DEF Justified, Custody, SuccessStored, Successes, Places, Work
    <3> QED
      BY <1>1, <1>3, <1>4, <1>5, <2>1, <3>1, GoToEffect, CustodyMove DEF Places
  <2> QED
    BY <1>7, <1>8, <2>1 DEF CheckDispatch, Places
<1>9. CASE IngestAgain(p)
  <2>1. receipt[Work(p)] # NoReceipt
    BY <1>9 DEF IngestAgain
  <2>2. CASE GoTo(p, "discard")
    <3>1. Justified(p)'
      BY <1>1, <1>2, <1>3, <2>1, <2>2, GoToEffect
         DEF Justified, Custody, SuccessStored, Successes, Places, Work
    <3> QED
      BY <1>1, <1>3, <1>4, <1>5, <2>2, <3>1, GoToEffect, CustodyMove DEF Places
  <2>3. CASE receipt[Work(p)].status = "cleanup" /\ GoTo(p, "cleanup")
    <3>1. Justified(p)'
      BY <1>1, <1>2, <1>3, <2>3, GoToEffect
         DEF Justified, Custody, SuccessStored, Successes, Places, Work
    <3> QED
      BY <1>1, <1>3, <1>4, <1>5, <2>3, <3>1, GoToEffect, CustodyMove DEF Places
  <2> QED
    BY <1>7, <1>9, <2>2, <2>3 DEF IngestAgain, Places
<1>10. CASE FindOwner(p)
  <2>1. receipt[Work(p)] # NoReceipt
    BY <1>10 DEF FindOwner, At, Work, Custody, DeletersLicensed
  <2>2. CASE Work(p) \notin sliced /\ GoTo(p, "delete")
    <3>1. Justified(p)'
      BY <1>1, <1>2, <1>3, <2>1, <2>2, GoToEffect
         DEF Justified, Custody, SuccessStored, Successes, Places, Work
    <3> QED
      BY <1>1, <1>3, <1>4, <1>5, <2>2, <3>1, GoToEffect, CustodyMove DEF Places
  <2> QED
    BY <1>7, <1>10, <2>2 DEF FindOwner, Places
<1>11. CASE Authorize(p) \/ AddEntry(p) \/ AddFails(p) \/ MarkDeliveredFails(p)
            \/ DeadLetterQueueEntry(p) \/ DeadLetter(p)
  <2>1. \E l \in Places \ {"ingest", "cleanup", "discard", "delete"} : GoTo(p, l)
    BY <1>11 DEF Authorize, AddEntry, AddFails, MarkDeliveredFails, DeadLetterQueueEntry,
       DeadLetter, Places
  <2> QED
    BY <1>7, <2>1
<1>12. CASE MarkDelivered(p) \/ FailDispatch(p) \/ RemoveEntry(p) \/ CrashPublisher(p)
  BY <1>6, <1>12 DEF MarkDelivered, FailDispatch, RemoveEntry, CrashPublisher
<1> QED
  BY <1>8, <1>9, <1>10, <1>11, <1>12 DEF PublisherStep, PublisherFault

\* What ingesting does to the job it works on and to the other ones: only a
\* success of an accepted job seals, and only a success too late is stale.
LEMMA IngestEffect ==
    ASSUME Typed, Custody, NEW p \in Publishers, Ingest(p)
    PROVE  /\ receipt'[Work(p)] # NoReceipt
           /\ \A i \in Jobs : i # Work(p) => receipt'[i] = receipt[i]
           /\ sliced' \in {sliced, sliced \cup {Work(p)}}
           /\ \A i \in Jobs :
                job'[i] \in {"GCODE_READY", "PRINTING"} =>
                    \/ job[i] \in {"GCODE_READY", "PRINTING"}
                    \/ /\ i = Work(p) /\ Work(p) \in sliced' /\ Result(p) \in Successes
                       /\ receipt'[i].status = "materialized"
           /\ \A i \in Jobs : job[i] \in {"FAILED", "CANCELLED"}
                                => job'[i] \in {"FAILED", "CANCELLED"}
           /\ \A i \in Jobs : job'[i] = "CREATED" => job[i] = "CREATED"
           /\ receipt'[Work(p)].status = "cleanup" <=>
                  Result(p) \in Successes /\ job[Work(p)] # "ACCEPTED"
<1> DEFINE j == Work(p)
           value == Result(p)
<1>1. j \in Jobs /\ value \in Values
  BY WorkType DEF Ingest, At
<1>2. job \in [Jobs -> JobStatus] /\ j \in DOMAIN receipt
  BY <1>1 DEF Typed, TypeOK
<1>3. IF value \in Successes THEN MaterializeSuccess(j, value) ELSE MaterializeFailure(j, value)
  BY DEF Ingest
<1> HIDE DEF j, value
<1>4. ASSUME NEW st \in {"materialized", "cleanup", "failed", "manual", "stale"},
             Record(j, value, st)
      PROVE  /\ receipt'[j] = [value |-> value, status |-> st]
             /\ receipt'[j].status = st
             /\ receipt'[j] # NoReceipt
             /\ \A i \in Jobs : i # j => receipt'[i] = receipt[i]
  <2>1. receipt'[j] = [value |-> value, status |-> st]
    BY <1>1, <1>2, <1>4 DEF Record, Typed, TypeOK
  <2>2. receipt'[j].status = st /\ NoReceipt.status = "none"
    BY <2>1 DEF NoReceipt
  <2>3. \A i \in Jobs : i # j => receipt'[i] = receipt[i]
    BY <1>1, <1>4 DEF Record, Typed, TypeOK
  <2> QED
    BY <2>1, <2>2, <2>3
<1>5. CASE value \in Successes
  BY <1>1, <1>2, <1>3, <1>4, <1>5 DEF MaterializeSuccess, orderVars, j, value
<1>6. CASE value \notin Successes
  <2>1. CASE FailProduction(j) /\ Record(j, value, "failed") /\ job[j] = "ACCEPTED"
    BY <1>1, <1>2, <1>4, <1>6, <2>1 DEF FailProduction, PrePrint, j, value
  <2>2. CASE /\ Record(j, value, "manual") \/ Record(j, value, "stale")
             /\ UNCHANGED <<orderVars, sliced>>
    BY <1>1, <1>2, <1>4, <1>6, <2>2 DEF orderVars, j, value
  <2> QED
    BY <1>3, <1>6, <2>1, <2>2 DEF MaterializeFailure
<1> QED
  BY <1>5, <1>6

\* Recording a result seals an artifact that is there, and licenses a cleanup
\* only of a job that has ended.
LEMMA CustodyIngest ==
    ASSUME Typed, Custody, NEW p \in Publishers, Ingest(p)
    PROVE  Custody'
<1> DEFINE j == Work(p)
           value == Result(p)
<1>1. /\ publisher[p].pc = "ingest" /\ j = publisher[p].job /\ value = publisher[p].result
      /\ j \in Jobs /\ receipt[j] = NoReceipt /\ receipt[j].status = "none"
  BY WorkType DEF Ingest, At, Work, Result, NoReceipt
<1>2. UNCHANGED <<dispatch, entry, artifact>>
  BY DEF Ingest, dispatchVars
<1>3. job \in [Jobs -> JobStatus] /\ BusyHasJob
  BY DEF Typed, TypeOK
<1>4. value \in Successes => j \in artifact
  BY <1>1 DEF Custody, SuccessStored
<1>5. job[j] # "ACCEPTED" => job[j] \in {"FAILED", "CANCELLED"}
  <2>1. dispatch[j] = "DELIVERED"
    BY <1>1 DEF Custody, IngestDelivered
  <2>2. job[j] # "CREATED"
    BY <1>1, <2>1 DEF Custody, DispatchedAccepted
  <2>3. job[j] \notin {"GCODE_READY", "PRINTING"}
    BY <1>1 DEF Custody, SealedOwned
  <2> QED
    BY <1>1, <1>3, <2>2, <2>3 DEF JobStatus
<1> DEFINE label == IF value \in Successes /\ job[j] # "ACCEPTED" THEN "cleanup" ELSE "remove"
<1>6. GoTo(p, label) /\ label \in {"cleanup", "remove"} /\ label \in Places
  BY DEF Ingest, Places
<1>7. label = "cleanup" => receipt'[j].status = "cleanup"
  BY IngestEffect
<1> HIDE DEF j, value, label
<1>8. /\ publisher'[p].pc = label /\ publisher'[p].job = j
      /\ publisher'[p].result \in {value, "none"}
      /\ \A q \in Publishers : q # p => publisher'[q] = publisher[q]
  BY <1>1, <1>6, GoToEffect
<1>9. SealedOwned'
  BY <1>1, <1>2, <1>4, IngestEffect DEF Custody, SealedOwned, j, value
<1>10. DispatchedAccepted'
  BY <1>2, IngestEffect DEF Custody, DispatchedAccepted
<1>11. StaleEnded'
  BY <1>1, <1>5, IngestEffect DEF Custody, StaleEnded, j
<1>12. IngestDelivered'
  BY <1>2, <1>6, <1>8 DEF Custody, IngestDelivered
<1>13. DeletersLicensed'
  <2>1. SUFFICES ASSUME NEW q \in Publishers
                 PROVE  /\ publisher'[q].pc = "cleanup"
                             => receipt'[publisher'[q].job].status = "cleanup"
                        /\ publisher'[q].pc = "discard"
                             => receipt'[publisher'[q].job] # NoReceipt
                        /\ publisher'[q].pc = "delete"
                             => /\ receipt'[publisher'[q].job] # NoReceipt
                                /\ publisher'[q].job \notin sliced'
    BY DEF DeletersLicensed
  <2>2. CASE q = p
    BY <1>6, <1>7, <1>8, <2>2
  <2>3. CASE q # p /\ publisher[q].pc \in {"cleanup", "discard", "delete"}
    <3>1. publisher'[q] = publisher[q] /\ publisher[q].job \in Jobs
      BY <1>3, <1>8, <2>3 DEF BusyHasJob
    <3>2. publisher[q].job # j
      BY <1>1, <2>3 DEF Custody, DeletersLicensed
    <3> QED
      BY <3>1, <3>2, IngestEffect DEF Custody, DeletersLicensed, j
  <2> QED
    BY <1>8, <2>2, <2>3
<1>14. SuccessStored'
  BY <1>1, <1>2, <1>8, IngestEffect DEF Custody, SuccessStored, j
<1> QED
  BY <1>9, <1>10, <1>11, <1>12, <1>13, <1>14 DEF Custody

\* Only the artifact of a job that is not sealed, and whose result is already
\* recorded, is deleted.
LEMMA CustodyDelete ==
    ASSUME Typed, Custody, NEW p \in Publishers, CleanUp(p) \/ DeleteUnowned(p)
    PROVE  Custody'
<1> DEFINE j == Work(p)
<1>1. /\ publisher[p].pc \in {"cleanup", "delete"}
      /\ j = publisher[p].job /\ j \in Jobs
  BY WorkType DEF CleanUp, DeleteUnowned, At, Work
<1>2. /\ artifact' = artifact \ {j}
      /\ UNCHANGED <<job, dispatch, entry, sliced, receipt>>
      /\ GoTo(p, "remove") \/ GoTo(p, "letter")
  BY DEF CleanUp, DeleteUnowned, DeleteArtifact, orderVars, dispatchVars, resultVars
<1> HIDE DEF j
<1>3. receipt[j] # NoReceipt
  BY <1>1 DEF Custody, DeletersLicensed, NoReceipt
<1>4. job[j] \notin {"GCODE_READY", "PRINTING"}
  <2>1. CASE publisher[p].pc = "cleanup"
    BY <1>1, <2>1 DEF Custody, DeletersLicensed, StaleEnded
  <2>2. CASE publisher[p].pc = "delete"
    BY <1>1, <2>2 DEF Custody, DeletersLicensed, SealedOwned
  <2> QED
    BY <1>1, <2>1, <2>2
<1>5. /\ publisher'[p].pc \in {"remove", "letter"}
      /\ publisher'[p].job = publisher[p].job
      /\ publisher'[p].result \in {publisher[p].result, "none"}
      /\ \A q \in Publishers : q # p => publisher'[q] = publisher[q]
  BY <1>1, <1>2, GoToEffect DEF Places
<1>6. SealedOwned' /\ DispatchedAccepted' /\ StaleEnded'
  BY <1>2, <1>4 DEF Custody, SealedOwned, DispatchedAccepted, StaleEnded
<1>7. IngestDelivered' /\ DeletersLicensed'
  BY <1>2, <1>5 DEF Custody, IngestDelivered, DeletersLicensed
<1>8. SuccessStored'
  BY <1>1, <1>2, <1>3, <1>5 DEF Custody, SuccessStored, Successes
<1> QED
  BY <1>6, <1>7, <1>8 DEF Custody

\* Custody holds in the initial state.
LEMMA CustodyInit == Init => Custody
<1> SUFFICES ASSUME Init PROVE Custody
  OBVIOUS
<1>1. SealedOwned /\ DispatchedAccepted /\ StaleEnded
  BY DEF Init, SealedOwned, DispatchedAccepted, StaleEnded, NoReceipt
<1>2. \A p \in Publishers : publisher[p].pc = "idle" /\ publisher[p].result = "none"
  BY DEF Init, Idle
<1>3. IngestDelivered /\ DeletersLicensed
  BY <1>2 DEF IngestDelivered, DeletersLicensed
<1>4. SuccessStored
  BY <1>2, EmptyEntry DEF Init, SuccessStored, Successes
<1> QED
  BY <1>1, <1>3, <1>4 DEF Custody

\* Every step keeps custody.
LEMMA CustodyStep ==
    ASSUME Typed, Custody, [Next]_vars
    PROVE  Custody'
<1>1. CASE UNCHANGED vars
  BY <1>1 DEF vars, Custody, SealedOwned, DispatchedAccepted, IngestDelivered, StaleEnded,
     DeletersLicensed, SuccessStored
<1>2. ASSUME NEW p \in Publishers, PublisherStep(p) \/ PublisherFault(p)
      PROVE  Custody'
  BY <1>2, CustodyIngest, CustodyDelete, CustodyPublisher
<1> QED
  BY <1>1, <1>2, CustodyOperator, CustodyWorker, CustodyTake DEF Next

\* For any number of jobs, publishers and attempts: the G-code of a job that is
\* ready or printing is in the store, whatever late, repeated or rejected
\* results the publishers clean up after.
THEOREM SealedKept == Spec => []SealedArtifactKept
<1>1. Init => Typed /\ Custody
  BY TypeInit, CustodyInit
<1>2. Typed /\ Custody /\ [Next]_vars => (Typed /\ Custody)'
  BY TypeStep, CustodyStep
<1>3. Custody => SealedArtifactKept
  BY DEF Custody, SealedOwned, SealedArtifactKept
<1> QED
  BY <1>1, <1>2, <1>3, PTL DEF Spec

-----------------------------------------------------------------------------
(* Results.  An entry is removed only after its result was recorded or dead- *)
(* lettered, so a delivered dispatch is in the queue or has left a trace.    *)

Traced(j) == receipt[j] # NoReceipt \/ j \in letters \cup strays
Accounted(j) == Present(j) \/ Traced(j)

\* What a publisher that is about to deliver, or to remove, relies on.
Accountable(p) ==
    /\ publisher[p].pc = "deliver" => Accounted(publisher[p].job)
    /\ publisher[p].pc = "remove" => Traced(publisher[p].job)

TraceKept ==
    /\ \A j \in Jobs : dispatch[j] = "DELIVERED" => Accounted(j)
    /\ \A p \in Publishers : Accountable(p)

\* At most two publishers: the deployment runs one, and two overlap while a new
\* version takes over.  With a third, the second removal of an entry can hit
\* the entry that a publisher with a lease lost long ago has added again.
AtMostTwo == \E a, b : Publishers \subseteq {a, b}

\* Nothing is known of this job's dispatch but its own receipt.
Unlettered(j) == j \notin letters \cup strays
Finished(j) == entry[j].state \in {"COMPLETED", "FAILED"}
Reconciling == {"check", "stray", "letter", "ingest", "cleanup", "discard", "delete",
                "remove"}

\* The entry a publisher reads is finished, or the other publisher has removed
\* it and nobody can add it again.
ReaderSafe(p) ==
    publisher[p].pc \in Reconciling /\ Unlettered(publisher[p].job) =>
        \/ Finished(publisher[p].job)
        \/ /\ ~ Present(publisher[p].job) /\ dispatch[publisher[p].job] = "DELIVERED"
           /\ \A q \in Publishers : publisher[q].job = publisher[p].job
                                       => publisher[q].pc \notin {"authorize", "add"}

\* A publisher past the check works for a delivered dispatch, and removes an
\* entry only after the cleanup its receipt asks for.
ReaderDone(p) ==
    Unlettered(publisher[p].job) =>
        /\ publisher[p].pc \in Reconciling \ {"check", "stray"} =>
              dispatch[publisher[p].job] = "DELIVERED"
        /\ publisher[p].pc = "remove" /\ receipt[publisher[p].job].status = "cleanup" =>
              publisher[p].job \notin artifact

\* A stale artifact has an entry whose reconciliation deletes it.
StaleReachable ==
    \A j \in Jobs :
        /\ receipt[j].value \in Successes => receipt[j].status = "cleanup" \/ j \in sliced
        /\ receipt[j].status = "cleanup" /\ j \in artifact /\ Unlettered(j) => Present(j)

NoneOrphaned ==
    /\ \A p \in Publishers : ReaderSafe(p) /\ ReaderDone(p)
    /\ StaleReachable

\* What a step of a publisher may do to the rows, the entries and the others.
PublisherMove(p) ==
    /\ \A q \in Publishers : q # p => publisher'[q] = publisher[q]
    /\ \A i \in Jobs : receipt'[i] = receipt[i]
                       \/ (At(p, "ingest") /\ i = Work(p) /\ receipt[i] = NoReceipt
                              /\ receipt'[i] # NoReceipt)
    /\ letters \subseteq letters' /\ strays \subseteq strays'
    /\ sliced \subseteq sliced' /\ artifact' \subseteq artifact
    /\ \A i \in Jobs : dispatch[i] = "DELIVERED" => dispatch'[i] = "DELIVERED"
    /\ \A i \in Jobs : dispatch'[i] = "DELIVERED" =>
          dispatch[i] = "DELIVERED" \/ (At(p, "deliver") /\ i = Work(p))
    /\ \A i \in Jobs :
          \/ entry'[i] = entry[i]
          \/ At(p, "add") /\ i = Work(p) /\ ~ Present(i) /\ entry'[i] = Added
          \/ /\ At(p, "remove") /\ i = Work(p) /\ ~ Active(i)
             /\ entry'[i] = NoEntry /\ publisher'[p].pc = "idle"

\* Where a publisher at work goes, and what it has done by then.
PublisherTurn(p) ==
    LET j == publisher[p].job
        to == publisher'[p].pc
    IN  \/ to = "idle"
        \/ /\ publisher'[p].job = j
           /\ \/ to = "fail" \/ (to = "add" /\ At(p, "authorize"))
              \/ to = "deliver" /\ At(p, "add") /\ entry'[j].state # "NONE"
              \/ to = "stray" /\ At(p, "check")
              \/ to \in {"letter", "ingest"} /\ At(p, "check") /\ dispatch[j] = "DELIVERED"
              \/ to = "letter" /\ publisher[p].pc \in {"discard", "delete"}
              \/ to = "remove" /\ At(p, "stray") /\ j \in strays'
              \/ to = "remove" /\ At(p, "letter") /\ j \in letters'
              \/ to = "remove" /\ At(p, "cleanup") /\ j \notin artifact'
              \/ /\ to = "remove" /\ At(p, "ingest") /\ receipt'[j] # NoReceipt
                 /\ receipt'[j].status # "cleanup"
              \/ to \in {"cleanup", "discard"} /\ At(p, "ingest") /\ receipt'[j] # NoReceipt
              \/ to = "delete" /\ At(p, "discard")

\* Every step of a publisher at work is such a move and such a turn.
LEMMA PublisherMoves ==
    ASSUME Typed, Custody, NEW p \in Publishers, PublisherStep(p) \/ PublisherFault(p)
    PROVE  PublisherMove(p) /\ PublisherTurn(p) /\ publisher[p].pc # "idle"
           /\ publisher[p].job \in Jobs
<1> DEFINE j == publisher[p].job
<1>1. publisher[p].pc # "idle"
  BY DEF PublisherStep, PublisherFault, Authorize, AddEntry, MarkDelivered, FailDispatch,
     CheckDispatch, DeadLetterQueueEntry, DeadLetter, RemoveEntry, Ingest, IngestAgain,
     CleanUp, FindOwner, DeleteUnowned, CrashPublisher, AddFails, MarkDeliveredFails, At
<1>2. /\ j \in Jobs /\ j = Work(p)
      /\ entry \in [Jobs -> Entries] /\ dispatch \in [Jobs ->
            {"NONE", "PENDING", "PROCESSING", "DELIVERED", "FAILED"}]
      /\ lease \in [Jobs -> Publishers \cup {NoPublisher}]
  BY <1>1, WorkType DEF Work, Typed, TypeOK
<1> SUFFICES PublisherMove(p) /\ PublisherTurn(p)
  BY <1>1, <1>2
<1>3. ASSUME NEW l \in Places, GoTo(p, l)
      PROVE  /\ publisher'[p].pc = l /\ publisher'[p].job = j
             /\ \A q \in Publishers : q # p => publisher'[q] = publisher[q]
  BY <1>1, <1>3, GoToEffect
<1>4. ASSUME Leave(p)
      PROVE  /\ publisher'[p].pc = "idle"
             /\ \A q \in Publishers : q # p => publisher'[q] = publisher[q]
  BY <1>4, LeaveEffect DEF Idle
<1> HIDE DEF j
<1> USE DEF orderVars, dispatchVars, resultVars
<1>5. CASE CrashPublisher(p)
  BY <1>2, <1>4, <1>5 DEF CrashPublisher, PublisherMove, PublisherTurn
<1>6. CASE Authorize(p) \/ MarkDeliveredFails(p)
  <2>1. PICK l \in Places : GoTo(p, l) /\ (l = "fail" \/ (l = "add" /\ At(p, "authorize")))
    BY <1>6 DEF Authorize, MarkDeliveredFails, Places
  <2> QED
    BY <1>2, <1>3, <1>6, <2>1 DEF Authorize, MarkDeliveredFails, PublisherMove,
        PublisherTurn, j
<1>7. ASSUME entry' = Enqueued(j), At(p, "add")
      PROVE  /\ \A i \in Jobs : entry'[i] = entry[i]
                               \/ (i = j /\ ~ Present(i) /\ entry'[i] = Added)
             /\ entry'[j].state # "NONE"
  <2>1. CASE Present(j)
    BY <1>2, <1>7, <2>1 DEF Enqueued, Present
  <2>2. CASE ~ Present(j)
    <3>1. entry' = [entry EXCEPT ![j] = Added]
      BY <1>7, <2>2 DEF Enqueued
    <3>2. entry'[j] = Added /\ \A i \in Jobs : i # j => entry'[i] = entry[i]
      BY <1>2, <3>1
    <3>3. Added.state = "WAITING"
      BY EmptyEntry
    <3> QED
      BY <2>2, <3>2, <3>3 DEF Present
  <2> QED
    BY <2>1, <2>2
<1>8. CASE AddEntry(p)
  <2>1. GoTo(p, "deliver") /\ "deliver" \in Places /\ entry' = Enqueued(j) /\ At(p, "add")
    BY <1>2, <1>8 DEF AddEntry, Places
  <2> QED
    BY <1>2, <1>3, <1>7, <1>8, <2>1 DEF AddEntry, PublisherMove, PublisherTurn, j
<1>9. CASE AddFails(p)
  <2>1. GoTo(p, "fail") /\ "fail" \in Places /\ At(p, "add")
        /\ (entry' = entry \/ entry' = Enqueued(j))
    BY <1>2, <1>9 DEF AddFails, Places
  <2> QED
    BY <1>2, <1>3, <1>7, <1>9, <2>1 DEF AddFails, PublisherMove, PublisherTurn, j
<1>10. ASSUME NEW st \in {"DELIVERED", "FAILED"}, EndLease(p, st)
      PROVE  /\ \A i \in Jobs : dispatch[i] = "DELIVERED" => dispatch'[i] = "DELIVERED"
             /\ \A i \in Jobs : dispatch'[i] = "DELIVERED" =>
                   dispatch[i] = "DELIVERED" \/ (st = "DELIVERED" /\ i = j)
  BY <1>2, <1>10 DEF EndLease, OwnsLease
<1>11. CASE MarkDelivered(p) \/ FailDispatch(p)
  BY <1>2, <1>4, <1>10, <1>11 DEF MarkDelivered, FailDispatch, PublisherMove,
      PublisherTurn
<1>12. CASE CheckDispatch(p)
  <2>1. PICK l \in Places : /\ GoTo(p, l) /\ At(p, "check")
                            /\ \/ l = "stray"
                               \/ l \in {"letter", "ingest"} /\ dispatch[j] = "DELIVERED"
    BY <1>2, <1>12 DEF CheckDispatch, Places
  <2> QED
    BY <1>2, <1>3, <1>12, <2>1 DEF CheckDispatch, PublisherMove, PublisherTurn, j
<1>13. CASE DeadLetterQueueEntry(p)
  <2>1. GoTo(p, "remove") /\ "remove" \in Places /\ At(p, "stray")
        /\ strays' = strays \cup {j}
    BY <1>2, <1>13 DEF DeadLetterQueueEntry, Places
  <2> QED
    BY <1>2, <1>3, <1>13, <2>1 DEF DeadLetterQueueEntry, PublisherMove, PublisherTurn, j
<1>14. CASE DeadLetter(p)
  <2>1. GoTo(p, "remove") /\ "remove" \in Places /\ At(p, "letter")
        /\ letters' = letters \cup {j}
    BY <1>2, <1>14 DEF DeadLetter, Places
  <2> QED
    BY <1>2, <1>3, <1>14, <2>1 DEF DeadLetter, PublisherMove, PublisherTurn, j
<1>15. CASE RemoveEntry(p)
  <2>1. Leave(p) /\ At(p, "remove")
        /\ entry' = IF Active(j) THEN entry ELSE [entry EXCEPT ![j] = NoEntry]
    BY <1>2, <1>15 DEF RemoveEntry
  <2>2. \A i \in Jobs : entry'[i] = entry[i]
                        \/ (i = j /\ ~ Active(i) /\ entry'[i] = NoEntry)
    BY <1>2, <2>1
  <2> QED
    BY <1>2, <1>4, <1>15, <2>1, <2>2 DEF RemoveEntry, PublisherMove, PublisherTurn
<1>16. CASE Ingest(p)
  <2>1. /\ receipt[j] = NoReceipt /\ receipt'[j] # NoReceipt
        /\ \A i \in Jobs : i # j => receipt'[i] = receipt[i]
        /\ sliced \subseteq sliced'
        /\ receipt'[j].status = "cleanup" <=>
               Result(p) \in Successes /\ job[j] # "ACCEPTED"
    BY <1>2, <1>16, IngestEffect DEF Ingest
  <2>2. PICK l \in Places : /\ GoTo(p, l) /\ l \in {"cleanup", "remove"}
                            /\ l = "remove" => receipt'[j].status # "cleanup"
    BY <1>2, <1>16, <2>1 DEF Ingest, Places
  <2>3. At(p, "ingest") /\ UNCHANGED <<dispatch, entry, artifact, letters, strays>>
    BY <1>16 DEF Ingest
  <2> QED
    BY <1>2, <1>3, <2>1, <2>2, <2>3 DEF PublisherMove, PublisherTurn, j
<1>17. CASE IngestAgain(p)
  <2>1. PICK l \in Places : /\ GoTo(p, l) /\ l \in {"cleanup", "remove", "discard"}
                            /\ l = "remove" => receipt[j].status # "cleanup"
    BY <1>2, <1>17 DEF IngestAgain, Places
  <2>2. At(p, "ingest") /\ receipt[j] # NoReceipt
    BY <1>2, <1>17 DEF IngestAgain
  <2> QED
    BY <1>2, <1>3, <1>17, <2>1, <2>2 DEF IngestAgain, PublisherMove, PublisherTurn, j
<1>18. CASE CleanUp(p)
  <2>1. GoTo(p, "remove") /\ "remove" \in Places /\ At(p, "cleanup")
        /\ artifact' = artifact \ {j}
    BY <1>2, <1>18 DEF CleanUp, DeleteArtifact, Places
  <2> QED
    BY <1>2, <1>3, <1>18, <2>1 DEF CleanUp, DeleteArtifact, PublisherMove,
        PublisherTurn, j
<1>19. CASE DeleteUnowned(p)
  <2>1. GoTo(p, "letter") /\ "letter" \in Places /\ At(p, "delete")
        /\ artifact' = artifact \ {j}
    BY <1>2, <1>19 DEF DeleteUnowned, DeleteArtifact, Places
  <2> QED
    BY <1>2, <1>3, <1>19, <2>1 DEF DeleteUnowned, DeleteArtifact, PublisherMove,
        PublisherTurn, At, j
<1>20. CASE FindOwner(p)
  <2>1. PICK l \in Places : GoTo(p, l) /\ l \in {"delete", "letter"} /\ At(p, "discard")
    BY <1>20 DEF FindOwner, Places
  <2> QED
    BY <1>2, <1>3, <1>20, <2>1 DEF FindOwner, PublisherMove, PublisherTurn, At, j
<1> QED
  BY <1>1, <1>2, <1>5, <1>6, <1>8, <1>9, <1>11, <1>12, <1>13, <1>14, <1>15, <1>16,
     <1>17, <1>18, <1>19, <1>20 DEF PublisherStep, PublisherFault, j

\* A step in which a publisher at rest takes a dispatch or a finished entry.
LEMMA PublisherTakes ==
    ASSUME Typed, NEW p \in Publishers, NEW j \in Jobs,
           ClaimDispatch(p, j) \/ ReadFinished(p, j)
    PROVE  /\ PublisherMove(p)
           /\ publisher[p].pc = "idle" /\ publisher'[p].job = j
           /\ UNCHANGED <<entry, artifact, receipt, letters, strays, sliced>>
           /\ \/ publisher'[p].pc = "authorize" /\ dispatch[j] # "DELIVERED"
              \/ publisher'[p].pc = "check" /\ Finished(j)
<1>1. publisher \in [Publishers -> PublisherStates]
  BY TypedParts DEF PublishersTyped
<1>2. UNCHANGED <<entry, artifact, receipt, letters, strays, sliced>>
  BY DEF ClaimDispatch, ReadFinished, resultVars
<1>3. /\ publisher[p].pc = "idle" /\ publisher'[p].job = j
      /\ \/ publisher'[p].pc = "authorize" /\ dispatch[j] # "DELIVERED"
         \/ publisher'[p].pc = "check" /\ Finished(j)
  <2>1. CASE ClaimDispatch(p, j)
    <3>1. publisher'[p] = [Idle EXCEPT !.pc = "authorize", !.job = j]
      BY <1>1, <2>1 DEF ClaimDispatch
    <3>2. publisher'[p].pc = "authorize" /\ publisher'[p].job = j
      BY <3>1 DEF Idle
    <3> QED
      BY <2>1, <3>2 DEF ClaimDispatch, At
  <2>2. CASE ReadFinished(p, j)
    BY <1>1, <2>2 DEF ReadFinished, At, Finished
  <2> QED
    BY <2>1, <2>2
<1>4. \A i \in Jobs : dispatch'[i] = "DELIVERED" <=> dispatch[i] = "DELIVERED"
  BY DEF ClaimDispatch, ReadFinished, dispatchVars, Typed, TypeOK
<1>5. \A q \in Publishers : q # p => publisher'[q] = publisher[q]
  BY <1>1 DEF ClaimDispatch, ReadFinished
<1> QED
  BY <1>2, <1>3, <1>4, <1>5 DEF PublisherMove

\* A step of an operator or of the queue moves no publisher and keeps every
\* receipt; the queue works on unfinished entries alone.
OtherMove ==
    /\ UNCHANGED <<publisher, receipt, letters, strays, sliced>>
    /\ \A i \in Jobs : dispatch'[i] = "DELIVERED" <=> dispatch[i] = "DELIVERED"
    /\ \A i \in Jobs :
          \/ entry'[i] = entry[i] /\ (i \in artifact' <=> i \in artifact)
          \/ ~ Finished(i) /\ Present(i) /\ Present(i)'

\* Every step of an operator or of the queue is such a move.
LEMMA OtherMoves ==
    ASSUME Typed, Custody,
           OperatorStep \/ UNCHANGED vars
           \/ \E j \in Jobs : WorkerStep(j) \/ EntryStalls(j)
    PROVE  OtherMove
<1>1. CASE UNCHANGED vars
  BY <1>1 DEF vars, OtherMove
<1>2. CASE OperatorStep
  <2>1. UNCHANGED <<publisher, receipt, letters, strays, sliced, entry, artifact>>
    BY <1>2 DEF OperatorStep, AcceptJob, StartPrinting, FailJob, CancelOrder, resultVars
  <2>2. \A i \in Jobs : dispatch'[i] = "DELIVERED" <=> dispatch[i] = "DELIVERED"
    BY <1>2 DEF OperatorStep, AcceptJob, StartPrinting, FailJob, CancelOrder,
        dispatchVars, Typed, TypeOK, Custody, DispatchedAccepted
  <2> QED
    BY <2>1, <2>2 DEF OtherMove
<1>3. ASSUME NEW j \in Jobs, WorkerStep(j) \/ EntryStalls(j)
      PROVE  OtherMove
  <2>1. UNCHANGED <<publisher, receipt, letters, strays, sliced, dispatch>>
    BY <1>3, WorkerEffect DEF dispatchVars, resultVars
  <2>2. \A i \in Jobs : i # j => entry'[i] = entry[i] /\ (i \in artifact' <=> i \in artifact)
    BY <1>3, WorkerEffect
  <2>3. entry[j].state \in {"WAITING", "ACTIVE", "STORED"}
    BY <1>3 DEF WorkerStep, StartEntry, StoreArtifact, SliceSucceeds, SliceRejected,
        SliceRetryable, EntryStalls, Active
  <2>4. entry'[j].state \in {"WAITING", "ACTIVE", "STORED", "COMPLETED", "FAILED"}
    <3>1. entry[j] \in Entries /\ entry \in [Jobs -> Entries]
      BY DEF Typed, TypeOK
    <3>2. ASSUME NEW st, Move(j, st)
          PROVE  entry'[j].state = st
      BY <3>1, <3>2 DEF Move, Entries
    <3>3. ASSUME NEW v, Finish(j, v)
          PROVE  entry'[j].state = "COMPLETED"
      BY <3>1, <3>3 DEF Finish, NoEntry
    <3>4. ASSUME NEW written \in BOOLEAN, SliceRetryable(j, written)
          PROVE  entry'[j].state \in {"WAITING", "FAILED"}
      BY <3>1, <3>4 DEF SliceRetryable, Entries
    <3>5. CASE EntryStalls(j)
      BY <3>1, <3>5 DEF EntryStalls, Entries
    <3> QED
      BY <1>3, <3>2, <3>3, <3>4, <3>5 DEF WorkerStep, StartEntry, StoreArtifact,
          SliceSucceeds, SliceRejected
  <2> QED
    BY <2>1, <2>2, <2>3, <2>4 DEF OtherMove, Finished, Present
<1> QED
  BY <1>1, <1>2, <1>3

\* Every step keeps the traces.
LEMMA TraceStep ==
    ASSUME Typed, Custody, TraceKept, [Next]_vars
    PROVE  TraceKept'
<1>0. BusyHasJob
  BY DEF Typed
<1>1. ASSUME OtherMove PROVE TraceKept'
  <2>1. \A i \in Jobs : Traced(i) <=> Traced(i)'
    BY <1>1 DEF OtherMove, Traced
  <2>2. \A i \in Jobs : Accounted(i) => Accounted(i)'
    BY <1>1, <2>1 DEF OtherMove, Accounted, Present
  <2>3. \A p \in Publishers : Accountable(p)'
    BY <1>0, <1>1, <2>1, <2>2 DEF OtherMove, TraceKept, Accountable, BusyHasJob
  <2> QED
    BY <1>1, <2>2, <2>3 DEF OtherMove, TraceKept
<1>2. ASSUME NEW p \in Publishers, PublisherMove(p), Accountable(p)'
      PROVE  TraceKept'
  <2>1. \A i \in Jobs : Traced(i) => Traced(i)'
    BY <1>2 DEF PublisherMove, Traced
  <2>2. \A i \in Jobs : Accounted(i) => Accounted(i)'
    <3> SUFFICES ASSUME NEW i \in Jobs, Present(i), ~ Traced(i)
                 PROVE  Present(i)'
      BY <2>1 DEF Accounted
    <3>1. Added.state = "WAITING"
      BY EmptyEntry
    <3>2. ~ (At(p, "remove") /\ i = Work(p))
      BY DEF At, Work, TraceKept, Accountable
    <3> QED
      BY <1>2, <3>1, <3>2 DEF PublisherMove, Present
  <2>3. \A q \in Publishers : Accountable(q)'
    BY <1>0, <1>2, <2>1, <2>2 DEF PublisherMove, TraceKept, Accountable, BusyHasJob
  <2>4. \A i \in Jobs : dispatch'[i] = "DELIVERED" => Accounted(i)
    BY <1>2 DEF PublisherMove, TraceKept, Accountable, At, Work
  <2> QED
    BY <2>2, <2>3, <2>4 DEF TraceKept
<1>3. ASSUME NEW p \in Publishers, PublisherStep(p) \/ PublisherFault(p)
      PROVE  TraceKept'
  <2>1. PublisherMove(p) /\ PublisherTurn(p) /\ publisher[p].job \in Jobs
    BY <1>3, PublisherMoves
  <2>2. /\ publisher[p].pc = "cleanup" => Traced(publisher[p].job)
        /\ Traced(publisher[p].job) => /\ \/ receipt'[publisher[p].job] # NoReceipt
                                          \/ publisher[p].job \in letters' \cup strays'
    BY <2>1 DEF PublisherMove, Traced, Custody, DeletersLicensed, NoReceipt
  <2>3. Accountable(p)'
    BY <2>1, <2>2 DEF PublisherTurn, Accountable, Accounted, Traced, Present, At
  <2> QED
    BY <1>2, <2>1, <2>3
<1>4. ASSUME NEW p \in Publishers, NEW j \in Jobs, ClaimDispatch(p, j) \/ ReadFinished(p, j)
      PROVE  TraceKept'
  <2>1. PublisherMove(p) /\ publisher'[p].pc \in {"authorize", "check"}
    BY <1>4, PublisherTakes
  <2>2. Accountable(p)'
    BY <2>1 DEF Accountable
  <2> QED
    BY <1>2, <2>1, <2>2
<1> QED
  BY <1>1, <1>3, <1>4, OtherMoves DEF Next

\* The initial state leaves no result without a trace.
LEMMA TraceInit == Init => TraceKept
<1> SUFFICES ASSUME Init PROVE TraceKept
  OBVIOUS
<1>1. \A p \in Publishers : publisher[p].pc = "idle"
  BY DEF Init, Idle
<1>2. \A j \in Jobs : dispatch[j] = "DELIVERED" => receipt[j] # NoReceipt
  BY DEF Init, NoReceipt
<1> QED
  BY <1>1, <1>2 DEF TraceKept, Accountable, Accounted, Traced

\* THEOREM: however publishers crash and lose their leases between two steps,
\* a delivered dispatch is in the queue until its result has been recorded or
\* dead-lettered (SlicingQueuePublisher.reconcileCompleted).
THEOREM NoResultLost == Spec => []ResultNotLost
<1>1. Init => Typed /\ Custody /\ TraceKept
  BY TypeInit, CustodyInit, TraceInit
<1>2. Typed /\ Custody /\ TraceKept /\ [Next]_vars => (Typed /\ Custody /\ TraceKept)'
  BY TypeStep, CustodyStep, TraceStep
<1>3. TraceKept => ResultNotLost
  BY DEF TraceKept, ResultNotLost, Accounted, Traced
<1> QED
  BY <1>1, <1>2, <1>3, PTL DEF Spec

-----------------------------------------------------------------------------
(* Artifacts nobody owns.                                                    *)

\* Every step keeps stale artifacts reachable, with at most two publishers.
LEMMA OrphanStep ==
    ASSUME AtMostTwo, Typed, Custody, TraceKept, NoneOrphaned, [Next]_vars
    PROVE  NoneOrphaned'
<1>0. /\ BusyHasJob
      /\ \A i \in Jobs : i \in artifact \/ i \notin artifact
  BY DEF Typed
<1>1. ASSUME OtherMove PROVE NoneOrphaned'
  <2>1. \A p \in Publishers : ReaderSafe(p)'
    <3> SUFFICES ASSUME NEW p \in Publishers, publisher[p].pc \in Reconciling,
                        Unlettered(publisher[p].job)
                 PROVE  ReaderSafe(p)'
      BY <1>1 DEF OtherMove, ReaderSafe, Unlettered
    <3>1. publisher[p].job \in Jobs
      BY <1>0 DEF BusyHasJob, Reconciling
    <3>2. entry'[publisher[p].job] = entry[publisher[p].job]
      BY <1>1, <3>1 DEF OtherMove, NoneOrphaned, ReaderSafe
    <3> QED
      BY <1>1, <3>1, <3>2 DEF OtherMove, NoneOrphaned, ReaderSafe, Finished, Present
  <2>2. \A p \in Publishers : ReaderDone(p)'
    <3> SUFFICES ASSUME NEW p \in Publishers, publisher[p].pc \in Reconciling,
                        Unlettered(publisher[p].job)
                 PROVE  ReaderDone(p)'
      BY <1>1 DEF OtherMove, ReaderDone, Unlettered, Reconciling
    <3>1. publisher[p].job \in Jobs
      BY <1>0 DEF BusyHasJob, Reconciling
    <3>2. publisher[p].job \in artifact' <=> publisher[p].job \in artifact
      BY <1>1, <3>1 DEF OtherMove, NoneOrphaned, ReaderSafe
    <3> QED
      BY <1>1, <3>1, <3>2 DEF OtherMove, NoneOrphaned, ReaderDone
  <2>3. StaleReachable'
    BY <1>1 DEF OtherMove, NoneOrphaned, StaleReachable, Unlettered, Present
  <2> QED
    BY <2>1, <2>2, <2>3 DEF NoneOrphaned
<1>2. ASSUME NEW p \in Publishers, PublisherStep(p) \/ PublisherFault(p)
      PROVE  NoneOrphaned'
  <2> DEFINE j == publisher[p].job
  <2>1. PublisherMove(p) /\ PublisherTurn(p) /\ j \in Jobs /\ publisher[p].pc # "idle"
    BY <1>2, PublisherMoves
  <2>2. \A i \in Jobs : Unlettered(i)' => Unlettered(i)
    BY <2>1 DEF PublisherMove, Unlettered
  <2>3. \A i \in Jobs : Unlettered(i) /\ At(p, "remove") /\ i = j =>
            receipt[i] # NoReceipt /\ dispatch[i] = "DELIVERED"
    BY DEF TraceKept, Accountable, Traced, Unlettered, At, NoneOrphaned, ReaderDone,
           Reconciling
  <2>4. ASSUME NEW q \in Publishers, q # p
        PROVE  ReaderSafe(q)' /\ ReaderDone(q)'
    <3> SUFFICES ASSUME publisher[q].pc \in Reconciling, Unlettered(publisher[q].job)'
                 PROVE  ReaderSafe(q)' /\ ReaderDone(q)'
      BY <2>1, <2>4 DEF PublisherMove, ReaderSafe, ReaderDone, Reconciling
    <3>0. PICK k \in Jobs : publisher[q].job = k
      BY <1>0 DEF BusyHasJob, Reconciling
    <3>1. k \in Jobs /\ publisher'[q] = publisher[q] /\ Unlettered(k)
          /\ publisher[q].job = k /\ publisher'[q].job = k
      BY <2>1, <2>2, <2>4, <3>0 DEF PublisherMove, Unlettered
    <3>2. /\ dispatch[k] = "DELIVERED" => dispatch'[k] = "DELIVERED"
          /\ k \in artifact' => k \in artifact
      BY <2>1, <3>1 DEF PublisherMove
    <3>3. publisher[q].pc = "remove" => receipt'[k] = receipt[k]
      BY <2>1, <3>1 DEF PublisherMove, TraceKept, Accountable, Traced, Unlettered
    <3>4. ReaderDone(q)'
      BY <3>1, <3>2, <3>3 DEF NoneOrphaned, ReaderDone
    <3> SUFFICES ReaderSafe(q)'
      BY <3>4
    <3>5. ReaderSafe(q)
      BY DEF NoneOrphaned
    <3>6. CASE Finished(k) /\ entry'[k] = entry[k]
      BY <3>1, <3>6 DEF ReaderSafe, Finished
    <3>7. CASE Finished(k) /\ entry'[k] # entry[k]
      <4>1. At(p, "remove") /\ k = j /\ entry'[k] = NoEntry /\ publisher'[p].pc = "idle"
        BY <2>1, <3>1, <3>7 DEF PublisherMove, Finished, Present, Work
      <4>2. dispatch'[k] = "DELIVERED"
        BY <2>3, <3>1, <3>2, <4>1
      <4>3. entry'[k].state = "NONE"
        BY <4>1, EmptyEntry
      <4>4. \A r \in Publishers : publisher'[r].pc \notin {"authorize", "add"}
        <5>1. \A r \in Publishers : r \in {p, q}
          BY <2>4 DEF AtMostTwo
        <5> QED
          BY <3>1, <4>1, <5>1 DEF Reconciling
      <4> QED
        BY <3>1, <4>2, <4>3, <4>4 DEF ReaderSafe, Present
    <3>8. CASE ~ Finished(k)
      <4>1. /\ ~ Present(k) /\ dispatch[k] = "DELIVERED"
            /\ \A r \in Publishers : publisher[r].job = k
                                        => publisher[r].pc \notin {"authorize", "add"}
        BY <3>1, <3>5, <3>8 DEF ReaderSafe
      <4>2. entry'[k] = entry[k] \/ entry'[k] = NoEntry
        BY <2>1, <3>1, <4>1 DEF PublisherMove, At, Work
      <4>3. entry'[k].state = "NONE"
        BY <4>1, <4>2, EmptyEntry DEF Present
      <4>4. \A r \in Publishers : publisher'[r].job = k
                                     => publisher'[r].pc \notin {"authorize", "add"}
        <5>1. publisher'[p].job = k => publisher'[p].pc \notin {"authorize", "add"}
          BY <2>1, <4>1 DEF PublisherTurn, At
        <5> QED
          BY <2>1, <4>1, <5>1 DEF PublisherMove
      <4> QED
        BY <3>1, <3>2, <4>1, <4>3, <4>4 DEF ReaderSafe, Present
    <3> QED
      BY <3>4, <3>6, <3>7, <3>8
  <2>5. ReaderDone(p)'
    <3> SUFFICES ASSUME publisher'[p].pc \in Reconciling, Unlettered(publisher[p].job)'
                 PROVE  ReaderDone(p)'
      BY DEF ReaderDone, Reconciling
    <3>1. publisher'[p].job = j /\ Unlettered(j)
      BY <2>1, <2>2 DEF PublisherTurn, Reconciling, Unlettered
    <3>2. publisher'[p].pc # "stray" => dispatch[j] = "DELIVERED"
      BY <2>1, <3>1 DEF PublisherTurn, NoneOrphaned, ReaderDone, Reconciling, At,
          Unlettered
    <3>3. dispatch[j] = "DELIVERED" => dispatch'[j] = "DELIVERED"
      BY <2>1 DEF PublisherMove
    <3>4. publisher'[p].pc = "remove" /\ receipt'[j].status = "cleanup" => j \notin artifact'
      BY <2>1, <3>1 DEF PublisherTurn, Reconciling, Unlettered
    <3> QED
      BY <3>1, <3>2, <3>3, <3>4 DEF ReaderDone
  <2>6. ReaderSafe(p)'
    <3> SUFFICES ASSUME publisher'[p].pc \in Reconciling, Unlettered(publisher[p].job)'
                 PROVE  ReaderSafe(p)'
      BY DEF ReaderSafe
    <3>1. publisher'[p].job = j /\ Unlettered(j)
      BY <2>1, <2>2 DEF PublisherTurn, Reconciling, Unlettered
    <3>2. publisher[p].pc \in Reconciling \ {"remove"}
      BY <2>1 DEF PublisherTurn, Reconciling, At
    <3>3. entry'[j] = entry[j]
      BY <2>1, <3>2 DEF PublisherMove, At, Reconciling
    <3>4. dispatch[j] = "DELIVERED" => dispatch'[j] = "DELIVERED"
      BY <2>1 DEF PublisherMove
    <3>5. ReaderSafe(p)
      BY DEF NoneOrphaned
    <3>6. publisher'[p].pc \notin {"authorize", "add"}
      BY DEF Reconciling
    <3>7. CASE Finished(j)
      BY <3>1, <3>3, <3>7 DEF ReaderSafe, Finished
    <3>8. CASE ~ Finished(j)
      <4>1. /\ ~ Present(j) /\ dispatch[j] = "DELIVERED"
            /\ \A r \in Publishers : publisher[r].job = j
                                        => publisher[r].pc \notin {"authorize", "add"}
        BY <3>1, <3>2, <3>5, <3>8 DEF ReaderSafe
      <4>2. \A r \in Publishers : publisher'[r].job = j
                                     => publisher'[r].pc \notin {"authorize", "add"}
        BY <2>1, <3>6, <4>1 DEF PublisherMove
      <4>3. entry'[j].state = "NONE"
        BY <3>3, <4>1 DEF Present
      <4> HIDE DEF j
      <4> QED
        BY <3>1, <3>4, <4>1, <4>2, <4>3 DEF ReaderSafe, Present
    <3> QED
      BY <3>7, <3>8
  <2>7. StaleReachable'
    <3> SUFFICES ASSUME NEW i \in Jobs
                 PROVE  /\ receipt'[i].value \in Successes =>
                              receipt'[i].status = "cleanup" \/ i \in sliced'
                        /\ receipt'[i].status = "cleanup" /\ i \in artifact'
                              /\ Unlettered(i)' => Present(i)'
      BY DEF StaleReachable
    <3>1. CASE receipt'[i] = receipt[i]
      <4>1. receipt[i].value \in Successes => receipt[i].status = "cleanup" \/ i \in sliced'
        BY <2>1 DEF PublisherMove, NoneOrphaned, StaleReachable
      <4>2. ASSUME receipt[i].status = "cleanup", i \in artifact', Unlettered(i)'
            PROVE  Present(i)'
        <5>1. Present(i) /\ i \in artifact /\ Unlettered(i)
          BY <2>1, <2>2, <4>2 DEF PublisherMove, NoneOrphaned, StaleReachable
        <5>2. ~ (At(p, "remove") /\ i = Work(p))
          BY <4>2, <5>1 DEF NoneOrphaned, ReaderDone, At, Work
        <5> QED
          BY <2>1, <5>1, <5>2 DEF PublisherMove, Present
      <4> QED
        BY <3>1, <4>1, <4>2
    <3>2. CASE receipt'[i] # receipt[i]
      <4>1. At(p, "ingest") /\ i = Work(p) /\ receipt[i] = NoReceipt /\ i = j
        BY <2>1, <3>2 DEF PublisherMove, Work
      <4>2. Ingest(p)
        BY <1>2, <3>2, <4>1 DEF PublisherStep, PublisherFault, Authorize, AddEntry,
           MarkDelivered, FailDispatch, CheckDispatch, DeadLetterQueueEntry, DeadLetter,
           RemoveEntry, IngestAgain, CleanUp, FindOwner, DeleteUnowned, DeleteArtifact,
           CrashPublisher, AddFails, MarkDeliveredFails, resultVars
      <4>3. receipt'[i].value \in Successes => receipt'[i].status = "cleanup" \/ i \in sliced'
        <5>1. /\ i \in DOMAIN receipt
              /\ IF Result(p) \in Successes THEN MaterializeSuccess(i, Result(p))
                                            ELSE MaterializeFailure(i, Result(p))
          BY <4>1, <4>2 DEF Ingest, Typed, TypeOK
        <5>2. ASSUME NEW st, Record(i, Result(p), st)
              PROVE  receipt'[i].value = Result(p) /\ receipt'[i].status = st
          <6>1. receipt'[i] = [value |-> Result(p), status |-> st]
            BY <5>1, <5>2 DEF Record, Typed, TypeOK
          <6> QED
            BY <6>1
        <5>3. receipt'[i].value = Result(p)
          BY <5>1, <5>2 DEF MaterializeSuccess, MaterializeFailure
        <5>4. CASE Result(p) \in Successes
          BY <5>1, <5>2, <5>4 DEF MaterializeSuccess
        <5>5. CASE Result(p) \notin Successes
          BY <5>3, <5>5
        <5> QED
          BY <5>4, <5>5
      <4>4. Unlettered(i)' => Present(i)'
        <5>1. dispatch[i] = "DELIVERED"
          BY <4>1 DEF Custody, IngestDelivered, At
        <5>2. Unlettered(i) => Present(i)
          BY <4>1, <5>1 DEF TraceKept, Accounted, Traced, Unlettered
        <5>3. entry' = entry
          BY <4>2 DEF Ingest
        <5> QED
          BY <2>2, <5>2, <5>3 DEF Present
      <4> QED
        BY <4>3, <4>4
    <3> QED
      BY <3>1, <3>2
  <2> QED
    BY <2>4, <2>5, <2>6, <2>7 DEF NoneOrphaned
<1>3. ASSUME NEW p \in Publishers, NEW j \in Jobs, ClaimDispatch(p, j) \/ ReadFinished(p, j)
      PROVE  NoneOrphaned'
  <2>1. /\ PublisherMove(p)
        /\ publisher[p].pc = "idle" /\ publisher'[p].job = j
        /\ UNCHANGED <<entry, artifact, receipt, letters, strays, sliced>>
        /\ \/ publisher'[p].pc = "authorize" /\ dispatch[j] # "DELIVERED"
           \/ publisher'[p].pc = "check" /\ Finished(j)
    BY <1>3, PublisherTakes
  <2>2. ReaderSafe(p)' /\ ReaderDone(p)'
    BY <2>1 DEF ReaderSafe, ReaderDone, Reconciling, Finished
  <2>3. ASSUME NEW q \in Publishers, q # p
        PROVE  ReaderSafe(q)' /\ ReaderDone(q)'
    <3> SUFFICES ASSUME publisher[q].pc \in Reconciling, Unlettered(publisher[q].job)
                 PROVE  ReaderSafe(q)' /\ ReaderDone(q)'
      BY <2>1, <2>3 DEF PublisherMove, ReaderSafe, ReaderDone, Reconciling, Unlettered
    <3>0. PICK k \in Jobs : publisher[q].job = k
      BY <1>0 DEF BusyHasJob, Reconciling
    <3>1. k \in Jobs /\ publisher'[q] = publisher[q]
          /\ publisher[q].job = k /\ publisher'[q].job = k
      BY <2>1, <2>3, <3>0 DEF PublisherMove
    <3>2. dispatch[k] = "DELIVERED" => dispatch'[k] = "DELIVERED"
      BY <2>1, <3>1 DEF PublisherMove
    <3>3. ReaderSafe(q) /\ ReaderDone(q)
      BY DEF NoneOrphaned
    <3>4. ReaderDone(q)'
      BY <2>1, <3>1, <3>2, <3>3 DEF ReaderDone, Unlettered
    <3> SUFFICES ReaderSafe(q)'
      BY <3>4
    <3>5. CASE Finished(k)
      BY <2>1, <3>1, <3>5 DEF ReaderSafe, Finished
    <3>6. CASE ~ Finished(k)
      <4>1. /\ ~ Present(k) /\ dispatch[k] = "DELIVERED"
            /\ \A r \in Publishers : publisher[r].job = k
                                        => publisher[r].pc \notin {"authorize", "add"}
        BY <3>1, <3>3, <3>6 DEF ReaderSafe
      <4>2. \A r \in Publishers : publisher'[r].job = k
                                     => publisher'[r].pc \notin {"authorize", "add"}
        BY <2>1, <4>1 DEF PublisherMove
      <4> QED
        BY <2>1, <3>1, <3>2, <4>1, <4>2 DEF ReaderSafe, Present
    <3> QED
      BY <3>4, <3>5, <3>6
  <2>4. StaleReachable'
    BY <2>1 DEF NoneOrphaned, StaleReachable, Unlettered, Present
  <2> QED
    BY <2>2, <2>3, <2>4 DEF NoneOrphaned
<1> QED
  BY <1>1, <1>2, <1>3, OtherMoves DEF Next

\* The initial state has no artifact to lose.
LEMMA OrphanInit == Init => NoneOrphaned
<1> SUFFICES ASSUME Init PROVE NoneOrphaned
  OBVIOUS
<1>1. \A p \in Publishers : publisher[p].pc = "idle"
  BY DEF Init, Idle
<1>2. StaleReachable
  BY DEF Init, StaleReachable, NoReceipt, Successes
<1> QED
  BY <1>1, <1>2 DEF NoneOrphaned, ReaderSafe, ReaderDone, Reconciling

\* With at most two publishers, a result is not lost and an artifact nobody
\* owns is still reached by an entry of the queue, a dead letter or a publisher
\* at work (SlicingQueuePublisher.reconcileCompleted,
\* SlicingResultIngestionService.ingest).
THEOREM ResultsAreKept ==
    ASSUME AtMostTwo
    PROVE  Spec => []ResultsKept
<1>1. Init => Typed /\ Custody /\ TraceKept /\ NoneOrphaned
  BY TypeInit, CustodyInit, TraceInit, OrphanInit
<1>2. Typed /\ Custody /\ TraceKept /\ NoneOrphaned /\ [Next]_vars
         => (Typed /\ Custody /\ TraceKept /\ NoneOrphaned)'
  BY TypeStep, CustodyStep, TraceStep, OrphanStep
<1>3. TraceKept /\ NoneOrphaned => ResultsKept
  <2> SUFFICES ASSUME TraceKept, NoneOrphaned PROVE ResultsKept
    OBVIOUS
  <2>1. ResultNotLost
    BY DEF TraceKept, ResultNotLost, Accounted, Traced
  <2>2. NoOrphanArtifact
    BY DEF NoneOrphaned, StaleReachable, NoOrphanArtifact, Unlettered, Present, Quiet,
        NoReceipt, Successes
  <2> QED
    BY <2>1, <2>2 DEF ResultsKept
<1> QED
  BY <1>1, <1>2, <1>3, PTL DEF Spec

-----------------------------------------------------------------------------
(* The measurement of handling time and cost evidence.  It shares no state     *)
(* with slicing.  An operator's commands are kept apart by a lock, and the     *)
(* time written is read under it; the shares of a session add up because a     *)
(* largest-remainder split gives one more to as many targets as units remain.  *)

\* The rows of sessions and of requests in progress.
AskedRequests == UNION RequestSets
HandlingAsked == {r \in AskedRequests : r.kind \in {"start", "complete", "manual"}}
TargetSets == {r.targets : r \in HandlingAsked} \cup {{}}
Splits == UNION {[T -> Nat] : T \in TargetSets}
SessionRows ==
  [op : {r.op : r \in HandlingAsked}, component : {r.component : r \in HandlingAsked},
   source : {"TIMER", "MANUAL"}, lifecycle : {"OPEN", "COMPLETED", "VOIDED"},
   from : Nat, to : Nat, targets : TargetSets, durations : Splits, costs : Splits]
RecorderRows ==
  [pc : {"RESTING", "BEGUN", "LOCKED"}, req : AskedRequests \cup {Resting.req}, at : Nat]

\* Types; no request has met an internal error.
MeasurementTyped ==
  /\ handlingSessions \in Seq(SessionRows) /\ workers \in [Workers -> RecorderRows]
  /\ asked \in RequestSets /\ clock \in Nat
  /\ \A w \in Workers : workers[w].pc # "RESTING" => workers[w].req \in AskedRequests

\* No session lies in the future, and only a running timer is open.
TimedBy(s, t) == s.from <= t /\ s.to <= t
SessionsTimed ==
  \A i \in DOMAIN handlingSessions : LET s == handlingSessions[i] IN
    TimedBy(s, clock) /\ (s.lifecycle = "OPEN" => s.source = "TIMER" /\ s.to = 0)

\* One command of an operator holds the lock, and it was given the lock after
\* everything the operator's other commands have written.
OperatorsLocked ==
  \A w \in Workers : workers[w].pc = "LOCKED" =>
    /\ workers[w].at <= clock
    /\ \A i \in DOMAIN handlingSessions :
         handlingSessions[i].op = workers[w].req.op => TimedBy(handlingSessions[i], workers[w].at)
    /\ \A v \in Workers :
         workers[v].pc = "LOCKED" /\ workers[v].req.op = workers[w].req.op => v = w

\* A source names one row of its ledger; a row is corrected once, by a row of its
\* scope.
EvidenceChained ==
  /\ IsFiniteSet(evidence)
  /\ \A e \in evidence : e.source # 0
  /\ \A e, f \in evidence : e.ledger = f.ledger /\ e.source = f.source => e = f
  /\ \A e, f \in evidence :
       e.ledger = f.ledger /\ e.supersedes = f.supersedes /\ e.supersedes # 0 => e = f
  /\ \A e \in evidence : e.supersedes # 0 =>
       \E f \in evidence : f.ledger = e.ledger /\ f.source = e.supersedes /\ f.scope = e.scope

MeasurementInv ==
  /\ MeasurementTyped /\ databaseAccepts(handlingSessions) /\ SessionsTimed
  /\ OperatorsLocked /\ EvidenceChained

\* A division with remainder.
LEMMA Division ==
  ASSUME NEW a \in Nat, NEW b \in Nat, b > 0
  PROVE  /\ a \div b \in Nat /\ a % b \in Nat /\ a % b < b
         /\ a = b * (a \div b) + (a % b)
OBVIOUS

\* A factor cancels.
LEMMA FactorCancels ==
  ASSUME NEW b \in Nat, b > 0, NEW x \in Int, NEW n \in Nat, 0 <= b * x, b * x <= b * n
  PROVE  x \in Nat /\ x <= n
<1>1. \A y \in Int : y >= 1 => b * y >= b
  OBVIOUS
<1>2. ASSUME x < 0 PROVE FALSE
  <2>1. 0 - x >= 1 /\ 0 - x \in Int BY <1>2
  <2>2. b * (0 - x) >= b BY <1>1, <2>1
  <2>3. b * (0 - x) = 0 - b * x OBVIOUS
  <2> QED BY <2>2, <2>3
<1>3. ASSUME x > n PROVE FALSE
  <2>1. x - n >= 1 /\ x - n \in Int BY <1>3
  <2>2. b * (x - n) >= b BY <1>1, <2>1
  <2>3. b * (x - n) = b * x - b * n OBVIOUS
  <2> QED BY <2>2, <2>3
<1> QED BY <1>2, <1>3

\* The shares of a largest-remainder split add up to what is split, and where
\* keys compare alike the trigger computes the same.
LEMMA SplitIsExact ==
  ASSUME NEW total \in Nat, NEW T, IsFiniteSet(T), validateTargets(T),
         \A t \in T : t.id \in Nat /\ t.collated \in Nat /\ t.units \in Nat,
         \A t, u \in T : t.id < u.id <=> t.collated < u.collated
  PROVE  /\ allocateByServedUnits(total, T) \in [T -> Nat]
         /\ SumFunctionOnSet(allocateByServedUnits(total, T), T) = total
         /\ databaseShares(total, T) = allocateByServedUnits(total, T)
<1> DEFINE served == [t \in T |-> t.units]
           units == SumFunctionOnSet(served, T)
           whole == [t \in T |-> total * t.units]
           floor == [t \in T |-> (total * t.units) \div units]
           remainder == [t \in T |-> (total * t.units) % units]
           scaled == [t \in T |-> units * floor[t]]
           remaining == total - SumFunctionOnSet(floor, T)
           before == [t \in T |->
                        {u \in T : \/ remainder[u] > remainder[t]
                                   \/ remainder[u] = remainder[t] /\ u.id < t.id}]
           more == [t \in T |-> IF t \in First(T, before, remaining) THEN 1 ELSE 0]
           split == [t \in T |-> floor[t] + (IF Cardinality(before[t]) < remaining THEN 1 ELSE 0)]
           above == [t \in T |->
                       {u \in T : \/ remainder[u] > remainder[t]
                                  \/ remainder[u] = remainder[t] /\ u.collated < t.collated}]
           rank == [t \in T |->
                      1 + Cardinality({u \in T :
                            \/ remainder[u] > remainder[t]
                            \/ remainder[u] = remainder[t] /\ u.collated < t.collated})]
           ranked == [t \in T |-> floor[t] + (IF rank[t] <= remaining THEN 1 ELSE 0)]
<1>a. databaseShares(total, T) = ranked
  BY DEF databaseShares
<1>0. allocateByServedUnits(total, T) = split
  BY DEF allocateByServedUnits
<1>1. units \in Nat /\ units > 0
  <2>1. \A t \in T : served[t] \in Nat /\ served[t] > 0
    BY DEF validateTargets
  <2>2. PICK t \in T : TRUE
    BY DEF validateTargets
  <2>3. units \in Nat /\ units = served[t] + SumFunctionOnSet(served, T \ {t})
    BY <2>1, SumRemove
  <2>4. IsFiniteSet(T \ {t})
    BY FS_RemoveElement
  <2>5. SumFunctionOnSet(served, T \ {t}) \in Nat
    BY <2>1, <2>4, SumRemove
  <2> HIDE DEF served, units
  <2> QED BY <2>1, <2>2, <2>3, <2>5
<1>2. ASSUME NEW t \in T
      PROVE  /\ whole[t] \in Nat /\ floor[t] \in Nat /\ remainder[t] \in Nat
             /\ remainder[t] <= units /\ whole[t] = scaled[t] + remainder[t]
             /\ scaled[t] = units * floor[t] /\ scaled[t] \in Nat
             /\ served[t] \in Nat /\ whole[t] = total * served[t]
  <2>1. t.units \in Nat
    OBVIOUS
  <2> HIDE DEF units
  <2>2. total * t.units \in Nat
    BY <2>1
  <2> DEFINE a == total * t.units
  <2>3. /\ a \div units \in Nat /\ a % units \in Nat /\ a % units < units
        /\ a = units * (a \div units) + (a % units)
    <3> HIDE DEF a
    <3>1. a \in Nat BY <2>2 DEF a
    <3> QED BY <1>1, <3>1, Division
  <2>4. whole[t] = a /\ floor[t] = a \div units /\ remainder[t] = a % units
        /\ scaled[t] = units * (a \div units) /\ served[t] = t.units
    OBVIOUS
  <2>5. units * (a \div units) \in Nat
    <3> HIDE DEF a
    <3> QED BY <1>1, <2>3
  <2> HIDE DEF a
  <2>6. whole[t] = total * t.units
    OBVIOUS
  <2> HIDE DEF whole, floor, remainder, scaled, served
  <2> QED BY <1>1, <2>1, <2>2, <2>3, <2>4, <2>5, <2>6
<1> DEFINE F == SumFunctionOnSet(floor, T)
<1>3. remaining = total - F
  OBVIOUS
<1>4. split \in [T -> Nat] /\ \A t \in T : split[t] = floor[t] + more[t]
  <2>1. \A t \in T : more[t] = IF Cardinality(before[t]) < remaining THEN 1 ELSE 0
    <3> HIDE DEF before, remaining
    <3> QED BY DEF First
  <2>2. \A t \in T : floor[t] \in Nat BY <1>2
  <2>3. split = [t \in T |-> floor[t] + (IF Cardinality(before[t]) < remaining THEN 1 ELSE 0)]
    OBVIOUS
  <2> HIDE DEF remaining, before, more, floor, split
  <2> QED BY <2>1, <2>2, <2>3
<1>5. StrictOrder(T, before)
  <2>1. \A t \in T : \A u \in T :
          u \in before[t] <=> \/ remainder[u] > remainder[t]
                              \/ remainder[u] = remainder[t] /\ u.id < t.id
    <3> HIDE DEF remainder
    <3> QED OBVIOUS
  <2>2. before \in [T -> SUBSET T]
    <3> HIDE DEF remainder
    <3> QED OBVIOUS
  <2> HIDE DEF before, remainder, units
  <2>3. \A x \in T : remainder[x] \in Nat /\ x.id \in Nat
    BY <1>2
  <2>4. \A x \in T : x \notin before[x]
    BY <2>1, <2>3
  <2>5. ASSUME NEW x \in T, NEW y \in before[x], NEW z \in before[y] PROVE z \in before[x]
    <3>1. y \in T /\ z \in T BY <2>2
    <3> QED BY <2>1, <2>3, <3>1
  <2>6. ASSUME NEW x \in T, NEW y \in T, x # y PROVE x \in before[y] \/ y \in before[x]
    <3>1. x.id # y.id BY <2>6 DEF validateTargets
    <3> QED BY <2>1, <2>3, <3>1
  <2>7. \A x \in T : \A y \in before[x] : before[y] \subseteq before[x]
    BY <2>5
  <2> QED BY <2>2, <2>4, <2>6, <2>7 DEF StrictOrder
<1>b. above = before /\ \A t \in T : rank[t] = 1 + Cardinality(above[t])
  <2> HIDE DEF remainder
  <2>1. ASSUME NEW t \in T PROVE above[t] = before[t]
    OBVIOUS
  <2>2. above = [t \in T |-> above[t]] /\ before = [t \in T |-> before[t]]
    OBVIOUS
  <2>3. \A t \in T : rank[t] = 1 + Cardinality(above[t])
    OBVIOUS
  <2> HIDE DEF above, before
  <2> QED BY <2>1, <2>2, <2>3
<1>c. /\ ranked = [t \in T |-> floor[t] + (IF rank[t] <= remaining THEN 1 ELSE 0)]
      /\ split = [t \in T |-> floor[t] + (IF Cardinality(before[t]) < remaining THEN 1 ELSE 0)]
  OBVIOUS
<1> HIDE DEF served, units, whole, floor, remainder, scaled, before, remaining, split, more,
             above, rank, ranked
<1>6. F \in Nat
  BY <1>2, SumRemove
<1> HIDE DEF F
<1>7. SumFunctionOnSet(whole, T) = total * units
  <2>1. \A t \in T : served[t] \in Int /\ whole[t] = total * served[t] BY <1>2
  <2> QED BY <2>1, SumScaled DEF units
<1>8. SumFunctionOnSet(scaled, T) = units * F
  <2>1. \A t \in T : floor[t] \in Int /\ scaled[t] = units * floor[t] BY <1>2
  <2>2. units \in Int BY <1>1
  <2>3. SumFunctionOnSet(scaled, T) = units * SumFunctionOnSet(floor, T) BY <2>1, <2>2, SumScaled
  <2> QED BY <2>3 DEF F
<1>9. SumFunctionOnSet(whole, T) = SumFunctionOnSet(scaled, T) + SumFunctionOnSet(remainder, T)
  <2>1. \A t \in T : /\ scaled[t] \in Int /\ remainder[t] \in Int
                     /\ whole[t] = scaled[t] + remainder[t]
    BY <1>2
  <2> QED BY <2>1, SumPlus
<1>10. SumFunctionOnSet(remainder, T) \in Nat
  BY <1>2, SumRemove
<1>11. SumFunctionOnSet(remainder, T) <= units * Cardinality(T)
  <2>1. \A t \in T : remainder[t] \in Nat /\ remainder[t] <= units BY <1>2
  <2> QED BY <1>1, <2>1, SumAtMost
<1>12. Cardinality(T) \in Nat
  BY FS_CardinalityType
<1>13. units * remaining = SumFunctionOnSet(remainder, T)
  <2>1. units * (total - F) = total * units - units * F
    BY <1>1, <1>6
  <2> QED BY <1>1, <1>3, <1>6, <1>7, <1>8, <1>9, <1>10, <2>1
<1>14. remaining \in Nat /\ remaining <= Cardinality(T)
  <2>1. remaining \in Int BY <1>3, <1>6
  <2> QED BY <1>1, <1>10, <1>11, <1>12, <1>13, <2>1, FactorCancels
<1>15. Cardinality(First(T, before, remaining)) = remaining
  BY <1>5, <1>14, FirstCounts
<1>16. First(T, before, remaining) \in SUBSET T
  BY DEF First
<1>17. /\ SumFunctionOnSet(more, T) = remaining
       /\ \A t \in T : more[t] \in Int
  <2>1. \A t \in T : more[t] = IF t \in First(T, before, remaining) THEN 1 ELSE 0
    BY DEF more
  <2> QED BY <1>15, <1>16, <2>1, SumCounts
<1>18. SumFunctionOnSet(split, T) = F + remaining
  <2>1. \A t \in T : floor[t] \in Int /\ more[t] \in Int /\ split[t] = floor[t] + more[t]
    BY <1>2, <1>4, <1>17
  <2>2. SumFunctionOnSet(split, T) = SumFunctionOnSet(floor, T) + SumFunctionOnSet(more, T)
    BY <2>1, SumPlus
  <2> QED BY <1>17, <2>2 DEF F
<1>19. SumFunctionOnSet(split, T) = total
  BY <1>3, <1>6, <1>18
<1>20. ranked = split
  <2>1. ASSUME NEW t \in T PROVE rank[t] <= remaining <=> Cardinality(before[t]) < remaining
    <3>1. before[t] \subseteq T BY <1>5 DEF StrictOrder
    <3>2. IsFiniteSet(before[t]) BY <3>1, FS_Subset
    <3>3. Cardinality(before[t]) \in Nat BY <3>2, FS_CardinalityType
    <3> QED BY <1>b, <1>14, <3>3
  <2> QED BY <1>c, <2>1
<1> QED BY <1>0, <1>4, <1>19, <1>20, <1>a

\* The service asks of targets what the trigger asks.
LEMMA LineagesAgree ==
  ASSUME NEW c, NEW T, lineageAllowed(c, T), NEW t \in T PROVE lineageTriggers(c, t)
BY DEF lineageAllowed, lineageTriggers

\* A session's cost is an amount.
LEMMA CostIsAmount ==
  ASSUME NEW d \in Nat PROVE calculateHandlingCostMinor(d) \in Nat
<1>1. d * RateNumerator \in Nat BY RateAssumption
<1> DEFINE a == d * RateNumerator + RateDenominator - 1
<1>2. a \in Nat BY <1>1, RateAssumption
<1> HIDE DEF a
<1>3. a \div RateDenominator \in Nat BY <1>2, RateAssumption, Division
<1> QED BY <1>3 DEF a, calculateHandlingCostMinor

\* A session completed with validated targets is one the database accepts.
LEMMA CompletedRow ==
  ASSUME NEW s \in SessionRows, NEW e \in Nat, e > s.from, NEW T \in TargetSets, IsFiniteSet(T),
         \A t \in T : t.id \in Nat /\ t.collated \in Nat /\ t.units \in Nat,
         \A t, u \in T : t.id < u.id <=> t.collated < u.collated,
         lineageAllowed(s.component, T), validateTargets(T),
         NEW x, x = completeSession(s, e, T)
  PROVE  /\ x \in SessionRows /\ reconciled(x)
         /\ x.op = s.op /\ x.from = s.from /\ x.to = e
         /\ x.lifecycle = "COMPLETED" /\ x.source = s.source
<1> DEFINE d == e - s.from
           k == calculateHandlingCostMinor(d)
           ds == allocateByServedUnits(d, T)
           ks == allocateByServedUnits(k, T)
<1>1. s.from \in Nat /\ d \in Nat BY DEF SessionRows
<1>2. k \in Nat BY <1>1, CostIsAmount
<1>3. x = [s EXCEPT !.lifecycle = "COMPLETED", !.to = e, !.targets = T, !.durations = ds, !.costs = ks]
  BY DEF completeSession
<1> HIDE DEF k
<1>4. ds \in [T -> Nat] /\ SumFunctionOnSet(ds, T) = d /\ ds = databaseShares(d, T)
  BY <1>1, SplitIsExact
<1>5. ks \in [T -> Nat] /\ SumFunctionOnSet(ks, T) = k /\ ks = databaseShares(k, T)
  BY <1>2, SplitIsExact
<1> HIDE DEF ds, ks
<1>6. ds \in Splits /\ ks \in Splits BY <1>4, <1>5 DEF Splits
<1>7. /\ x.op = s.op /\ x.from = s.from /\ x.to = e /\ x.component = s.component
      /\ x.lifecycle = "COMPLETED" /\ x.source = s.source
      /\ x.targets = T /\ x.durations = ds /\ x.costs = ks
      /\ x["durations"] = ds /\ x["costs"] = ks
  BY <1>3 DEF SessionRows
<1>8. x \in SessionRows BY <1>3, <1>6 DEF SessionRows
<1>9. shares(x, "durations") = d /\ shares(x, "costs") = k
  BY <1>4, <1>5, <1>7 DEF shares
<1>10. T # {} BY DEF validateTargets
<1>11. \A t \in T : lineageTriggers(s.component, t) BY LineagesAgree
<1>12. s.component = "HANDLING_ORDER_FIX" => Cardinality(T) = 1 BY DEF lineageAllowed
<1>13. reconciled(x) BY <1>4, <1>5, <1>7, <1>9, <1>10, <1>11, <1>12 DEF reconciled, k
<1> QED BY <1>7, <1>8, <1>13

\* The facts of the invariant that the steps use.
LEMMA MeasurementFacts ==
  ASSUME MeasurementInv
  PROVE  /\ Len(handlingSessions) \in Nat /\ DOMAIN handlingSessions = 1..Len(handlingSessions)
         /\ handlingSessions \in Seq(SessionRows) /\ clock \in Nat /\ asked \in RequestSets
         /\ \A i \in DOMAIN handlingSessions : LET s == handlingSessions[i] IN
              s \in SessionRows /\ s.from \in Nat /\ s.to \in Nat /\ reconciled(s)
         /\ \A w \in Workers :
              /\ workers[w] \in RecorderRows /\ workers[w].at \in Nat
              /\ workers[w].pc \in {"RESTING", "BEGUN", "LOCKED"}
              /\ workers[w].pc # "RESTING" => workers[w].req \in AskedRequests
<1>1. /\ handlingSessions \in Seq(SessionRows) /\ clock \in Nat /\ asked \in RequestSets
      /\ workers \in [Workers -> RecorderRows]
      /\ \A w \in Workers : workers[w].pc # "RESTING" => workers[w].req \in AskedRequests
  BY DEF MeasurementInv, MeasurementTyped
<1>2. /\ Len(handlingSessions) \in Nat /\ DOMAIN handlingSessions = 1..Len(handlingSessions)
      /\ \A i \in DOMAIN handlingSessions : handlingSessions[i] \in SessionRows
  BY <1>1
<1>3. ASSUME NEW i \in DOMAIN handlingSessions
      PROVE  /\ handlingSessions[i].from \in Nat /\ handlingSessions[i].to \in Nat
             /\ reconciled(handlingSessions[i])
  <2>1. handlingSessions[i] \in SessionRows BY <1>2
  <2>2. handlingSessions[i].from \in Nat /\ handlingSessions[i].to \in Nat BY <2>1 DEF SessionRows
  <2>3. reconciled(handlingSessions[i])
    BY DEF MeasurementInv, databaseAccepts
  <2> QED BY <2>2, <2>3
<1>4. ASSUME NEW w \in Workers
      PROVE  /\ workers[w] \in RecorderRows /\ workers[w].at \in Nat
             /\ workers[w].pc \in {"RESTING", "BEGUN", "LOCKED"}
  BY <1>1 DEF RecorderRows
<1> QED BY <1>1, <1>2, <1>3, <1>4

\* S has one row that is new or changed.
RowWritten(S, k) ==
  /\ S \in Seq(SessionRows) /\ k \in DOMAIN S
  /\ \A j \in DOMAIN S : j # k => j \in DOMAIN handlingSessions /\ S[j] = handlingSessions[j]
  /\ reconciled(S[k])
  /\ S[k].lifecycle # "VOIDED" =>
       \A j \in Counted(handlingSessions) : j # k => Disjoint(S[k], handlingSessions[j])

\* The database accepts such a row.
LEMMA RowIsAccepted ==
  ASSUME MeasurementInv, NEW S, NEW k, RowWritten(S, k) PROVE databaseAccepts(S)
<1>1. ASSUME NEW i \in Counted(S), NEW j \in Counted(S), i # j PROVE Disjoint(S[i], S[j])
  <2>1. i \in DOMAIN S /\ j \in DOMAIN S /\ S[i].lifecycle # "VOIDED" /\ S[j].lifecycle # "VOIDED"
    BY DEF Counted
  <2>2. CASE i # k /\ j # k
    <3>1. i \in Counted(handlingSessions) /\ j \in Counted(handlingSessions)
      BY <2>1, <2>2 DEF RowWritten, Counted
    <3>2. S[i] = handlingSessions[i] /\ S[j] = handlingSessions[j] BY <2>1, <2>2 DEF RowWritten
    <3> QED BY <1>1, <3>1, <3>2 DEF MeasurementInv, databaseAccepts
  <2>3. CASE i = k
    <3>1. j \in Counted(handlingSessions) /\ S[j] = handlingSessions[j]
      BY <1>1, <2>1, <2>3 DEF RowWritten, Counted
    <3> QED BY <1>1, <2>1, <2>3, <3>1 DEF RowWritten
  <2>4. CASE j = k
    <3>1. i \in Counted(handlingSessions) /\ S[i] = handlingSessions[i]
      BY <1>1, <2>1, <2>4 DEF RowWritten, Counted
    <3>2. Disjoint(S[j], S[i]) BY <1>1, <2>1, <2>4, <3>1 DEF RowWritten
    <3> QED BY <3>2 DEF Disjoint
  <2> QED BY <2>2, <2>3, <2>4
<1>2. ASSUME NEW i \in DOMAIN S PROVE reconciled(S[i])
  <2>1. CASE i = k BY <2>1 DEF RowWritten
  <2>2. CASE i # k BY <2>2, MeasurementFacts DEF RowWritten
  <2> QED BY <2>1, <2>2
<1> QED BY <1>1, <1>2 DEF databaseAccepts

\* Rows that stay are still accepted.
LEMMA RowsStay ==
  ASSUME MeasurementInv, UNCHANGED handlingSessions PROVE databaseAccepts(handlingSessions)'
<1>1. databaseAccepts(handlingSessions') BY DEF MeasurementInv
<1> QED BY <1>1 DEF databaseAccepts, Counted, Disjoint, lineageTriggers, shares,
     calculateHandlingCostMinor, reconciled, databaseShares

\* A request ends: the others keep what they have.
LEMMA RequestEnds ==
  ASSUME MeasurementInv, NEW w \in Workers, workers' = [workers EXCEPT ![w] = Resting]
  PROVE  /\ workers' \in [Workers -> RecorderRows]
         /\ \A v \in Workers : workers'[v].pc # "RESTING" =>
              v # w /\ workers'[v] = workers[v] /\ workers'[v].req \in AskedRequests
<1>1. workers \in [Workers -> RecorderRows] BY DEF MeasurementInv, MeasurementTyped
<1>2. Resting \in RecorderRows /\ Resting.pc = "RESTING" BY DEF Resting, RecorderRows
<1>3. workers' \in [Workers -> RecorderRows] BY <1>1, <1>2
<1>4. workers'[w] = Resting /\ \A v \in Workers : v # w => workers'[v] = workers[v] BY <1>1
<1> QED BY <1>2, <1>3, <1>4, MeasurementFacts

\* A command that writes one row commits.
LEMMA CommitKeeps ==
  ASSUME MeasurementInv, NEW w \in Workers, NEW S, NEW k, RowWritten(S, k), Commit(w, S),
         TimedBy(S[k], clock),
         S[k].lifecycle = "OPEN" => S[k].source = "TIMER" /\ S[k].to = 0,
         \A v \in Workers :
           v # w /\ workers[v].pc = "LOCKED" /\ S[k].op = workers[v].req.op
             => TimedBy(S[k], workers[v].at)
  PROVE  MeasurementInv'
<1>1. databaseAccepts(S) BY RowIsAccepted
<1>2. /\ handlingSessions' = S /\ workers' = [workers EXCEPT ![w] = Resting]
      /\ UNCHANGED <<evidence, clock, asked>>
  BY <1>1 DEF Commit
<1>3. /\ workers' \in [Workers -> RecorderRows]
      /\ \A v \in Workers : workers'[v].pc # "RESTING" =>
           v # w /\ workers'[v] = workers[v] /\ workers'[v].req \in AskedRequests
  BY <1>2, RequestEnds
<1>4. MeasurementTyped'
  BY <1>2, <1>3 DEF MeasurementInv, MeasurementTyped, RowWritten
<1>5. databaseAccepts(handlingSessions)'
  <2>1. databaseAccepts(handlingSessions') BY <1>1, <1>2
  <2> QED BY <2>1 DEF databaseAccepts, Counted, Disjoint, lineageTriggers, shares,
     calculateHandlingCostMinor, reconciled, databaseShares
<1>6. SessionsTimed'
  <2>1. ASSUME NEW i \in DOMAIN S
        PROVE  TimedBy(S[i], clock) /\ (S[i].lifecycle = "OPEN" => S[i].source = "TIMER" /\ S[i].to = 0)
    <3>1. CASE i = k BY <3>1
    <3>2. CASE i # k BY <3>2 DEF RowWritten, MeasurementInv, SessionsTimed
    <3> QED BY <3>1, <3>2
  <2> QED BY <1>2, <2>1 DEF SessionsTimed, TimedBy
<1>7. OperatorsLocked'
  <2>1. ASSUME NEW v \in Workers, workers'[v].pc = "LOCKED"
        PROVE  /\ workers'[v].at <= clock
               /\ \A i \in DOMAIN S : S[i].op = workers'[v].req.op => TimedBy(S[i], workers'[v].at)
               /\ \A u \in Workers :
                    workers'[u].pc = "LOCKED" /\ workers'[u].req.op = workers'[v].req.op => u = v
    <3>1. v # w /\ workers'[v] = workers[v] /\ workers[v].pc = "LOCKED" BY <1>3, <2>1
    <3>2. workers[v].at <= clock BY <3>1 DEF MeasurementInv, OperatorsLocked
    <3>3. ASSUME NEW i \in DOMAIN S, S[i].op = workers[v].req.op PROVE TimedBy(S[i], workers[v].at)
      <4>1. CASE i = k BY <3>1, <3>3, <4>1
      <4>2. CASE i # k
        <5>1. i \in DOMAIN handlingSessions /\ S[i] = handlingSessions[i] BY <4>2 DEF RowWritten
        <5> QED BY <3>1, <3>3, <5>1 DEF MeasurementInv, OperatorsLocked
      <4> QED BY <4>1, <4>2
    <3>4. ASSUME NEW u \in Workers, workers'[u].pc = "LOCKED", workers'[u].req.op = workers[v].req.op
          PROVE  u = v
      <4>1. workers'[u] = workers[u] BY <1>3, <3>4
      <4> QED BY <3>1, <3>4, <4>1 DEF MeasurementInv, OperatorsLocked
    <3> QED BY <3>1, <3>2, <3>3, <3>4
  <2> QED BY <1>2, <2>1 DEF OperatorsLocked, TimedBy
<1>8. EvidenceChained' BY <1>2 DEF MeasurementInv, EvidenceChained
<1> QED BY <1>4, <1>5, <1>6, <1>7, <1>8 DEF MeasurementInv

\* A step that writes no session and no evidence: who is locked does not grow.
LEMMA QuietKeeps ==
  ASSUME MeasurementInv, UNCHANGED <<handlingSessions, evidence, asked>>, clock' \in Nat, clock <= clock',
         workers' \in [Workers -> RecorderRows],
         \A v \in Workers : workers'[v].pc # "RESTING" => workers'[v].req \in AskedRequests,
         \A v \in Workers : workers'[v].pc = "LOCKED" => workers[v].pc = "LOCKED" /\ workers'[v] = workers[v]
  PROVE  MeasurementInv'
<1>1. MeasurementTyped' BY DEF MeasurementInv, MeasurementTyped
<1>2. databaseAccepts(handlingSessions)'
  BY RowsStay
<1>3. SessionsTimed'
  <2>1. ASSUME NEW i \in DOMAIN handlingSessions
        PROVE  TimedBy(handlingSessions[i], clock')
    <3>1. TimedBy(handlingSessions[i], clock) BY DEF MeasurementInv, SessionsTimed
    <3> QED BY <3>1, MeasurementFacts DEF TimedBy
  <2> QED BY <2>1 DEF MeasurementInv, SessionsTimed, TimedBy
<1>4. OperatorsLocked'
  <2>1. ASSUME NEW v \in Workers, workers'[v].pc = "LOCKED"
        PROVE  /\ workers'[v].at <= clock'
               /\ \A i \in DOMAIN handlingSessions :
                    handlingSessions[i].op = workers'[v].req.op => TimedBy(handlingSessions[i], workers'[v].at)
               /\ \A u \in Workers :
                    workers'[u].pc = "LOCKED" /\ workers'[u].req.op = workers'[v].req.op => u = v
    <3>1. workers[v].pc = "LOCKED" /\ workers'[v] = workers[v] BY <2>1
    <3>2. workers[v].at <= clock /\ workers[v].at \in Nat /\ clock \in Nat
      BY <3>1, MeasurementFacts DEF MeasurementInv, OperatorsLocked
    <3>3. workers'[v].at <= clock' BY <3>1, <3>2
    <3> QED BY <3>1, <3>3 DEF MeasurementInv, OperatorsLocked
  <2> QED BY <2>1 DEF OperatorsLocked, TimedBy
<1>5. EvidenceChained' BY DEF MeasurementInv, EvidenceChained
<1> QED BY <1>1, <1>2, <1>3, <1>4, <1>5 DEF MeasurementInv

LEMMA RejectedKeeps ==
  ASSUME MeasurementInv, NEW w \in Workers, Rejected(w) PROVE MeasurementInv'
<1>1. workers' = [workers EXCEPT ![w] = Resting] /\ UNCHANGED <<handlingSessions, evidence, clock, asked>>
  BY DEF Rejected
<1>2. /\ workers' \in [Workers -> RecorderRows]
      /\ \A v \in Workers : workers'[v].pc # "RESTING" =>
           v # w /\ workers'[v] = workers[v] /\ workers'[v].req \in AskedRequests
  BY <1>1, RequestEnds
<1>3. clock \in Nat /\ clock' = clock BY <1>1, MeasurementFacts
<1>4. \A v \in Workers : workers'[v].pc = "LOCKED" => workers[v].pc = "LOCKED" /\ workers'[v] = workers[v]
  BY <1>2
<1> QED BY <1>1, <1>2, <1>3, <1>4, QuietKeeps

LEMMA CommandKeeps ==
  ASSUME MeasurementInv, NEW w \in Workers, NEW r \in asked, command(w, r) PROVE MeasurementInv'
<1> DEFINE n == [pc |-> "BEGUN", req |-> r, at |-> clock]
<1>1. workers' = [workers EXCEPT ![w] = n] /\ UNCHANGED <<handlingSessions, evidence, clock, asked>>
  BY DEF command
<1>2. workers \in [Workers -> RecorderRows] BY DEF MeasurementInv, MeasurementTyped
<1>3. r \in AskedRequests BY MeasurementFacts DEF AskedRequests
<1>4. n \in RecorderRows /\ n.pc = "BEGUN" /\ n.req = r BY <1>3, MeasurementFacts DEF RecorderRows
<1> HIDE DEF n
<1>5. /\ workers' \in [Workers -> RecorderRows] /\ workers'[w] = n
      /\ \A v \in Workers : v # w => workers'[v] = workers[v]
  BY <1>1, <1>2, <1>4
<1>6. \A v \in Workers : workers'[v].pc # "RESTING" => workers'[v].req \in AskedRequests
  BY <1>3, <1>4, <1>5, MeasurementFacts
<1>7. \A v \in Workers : workers'[v].pc = "LOCKED" => workers[v].pc = "LOCKED" /\ workers'[v] = workers[v]
  BY <1>4, <1>5
<1>8. clock \in Nat /\ clock' = clock BY <1>1, MeasurementFacts
<1> QED BY <1>1, <1>5, <1>6, <1>7, <1>8, QuietKeeps

LEMMA TickKeeps ==
  ASSUME MeasurementInv, MeasurementTick PROVE MeasurementInv'
<1>1. clock' = clock + 1 /\ UNCHANGED <<handlingSessions, evidence, workers, asked>>
  BY DEF MeasurementTick
<1>2. clock \in Nat /\ clock' \in Nat /\ clock <= clock' BY <1>1, MeasurementFacts
<1>3. workers' \in [Workers -> RecorderRows] BY <1>1 DEF MeasurementInv, MeasurementTyped
<1>4. \A v \in Workers : workers'[v].pc # "RESTING" => workers'[v].req \in AskedRequests
  BY <1>1, MeasurementFacts
<1> QED BY <1>1, <1>2, <1>3, <1>4, QuietKeeps

\* Who gets the lock sees everything that was written under it, in the past.
LEMMA LockKeeps ==
  ASSUME MeasurementInv, NEW w \in Workers, lockHandlingOperator(w) PROVE MeasurementInv'
<1> DEFINE n == [workers[w] EXCEPT !.pc = "LOCKED", !.at = clock]
<1>1. /\ workers[w].pc = "BEGUN" /\ operatorFree(workers[w].req.op)
      /\ workers' = [workers EXCEPT ![w] = n]
      /\ UNCHANGED <<handlingSessions, evidence, clock, asked>>
  BY MeasurementFacts DEF lockHandlingOperator, clockWhenLocked, MeasurementInv, MeasurementTyped
<1>2. workers \in [Workers -> RecorderRows] BY DEF MeasurementInv, MeasurementTyped
<1>3. n \in RecorderRows /\ n.pc = "LOCKED" /\ n.req = workers[w].req /\ n.at = clock
  <2>1. workers[w] \in RecorderRows /\ clock \in Nat BY MeasurementFacts
  <2> QED BY <2>1 DEF RecorderRows
<1> HIDE DEF n
<1>4. /\ workers' \in [Workers -> RecorderRows] /\ workers'[w] = n
      /\ \A v \in Workers : v # w => workers'[v] = workers[v]
  BY <1>1, <1>2, <1>3
<1>5. MeasurementTyped'
  <2>1. \A v \in Workers : workers'[v].pc # "RESTING" => workers'[v].req \in AskedRequests
    BY <1>1, <1>3, <1>4, MeasurementFacts
  <2> QED BY <1>1, <1>4, <2>1 DEF MeasurementInv, MeasurementTyped
<1>6. databaseAccepts(handlingSessions)'
  BY <1>1, RowsStay
<1>7. SessionsTimed' BY <1>1 DEF MeasurementInv, SessionsTimed, TimedBy
<1>8. OperatorsLocked'
  <2>1. ASSUME NEW v \in Workers, workers'[v].pc = "LOCKED"
        PROVE  /\ workers'[v].at <= clock
               /\ \A i \in DOMAIN handlingSessions :
                    handlingSessions[i].op = workers'[v].req.op => TimedBy(handlingSessions[i], workers'[v].at)
               /\ \A u \in Workers :
                    workers'[u].pc = "LOCKED" /\ workers'[u].req.op = workers'[v].req.op => u = v
    <3>1. CASE v = w
      <4>1. workers'[v].at = clock /\ clock \in Nat BY <1>3, <1>4, <3>1, MeasurementFacts
      <4>2. \A i \in DOMAIN handlingSessions : TimedBy(handlingSessions[i], clock)
        BY DEF MeasurementInv, SessionsTimed
      <4>3. \A u \in Workers :
              workers'[u].pc = "LOCKED" /\ workers'[u].req.op = workers'[v].req.op => u = v
        BY <1>1, <1>3, <1>4, <3>1 DEF operatorFree
      <4> QED BY <4>1, <4>2, <4>3
    <3>2. CASE v # w
      <4>1. workers'[v] = workers[v] /\ workers[v].pc = "LOCKED" BY <1>4, <2>1, <3>2
      <4>2. workers[v].req.op # workers[w].req.op BY <1>1, <4>1 DEF operatorFree
      <4>3. ASSUME NEW u \in Workers, workers'[u].pc = "LOCKED", workers'[u].req.op = workers[v].req.op
            PROVE  u = v
        <5>1. u # w BY <1>3, <1>4, <4>2, <4>3
        <5>2. workers'[u] = workers[u] BY <1>4, <5>1
        <5> QED BY <4>1, <4>3, <5>2 DEF MeasurementInv, OperatorsLocked
      <4> QED BY <4>1, <4>3 DEF MeasurementInv, OperatorsLocked
    <3> QED BY <3>1, <3>2
  <2> QED BY <1>1, <2>1 DEF OperatorsLocked, TimedBy
<1>9. EvidenceChained' BY <1>1 DEF MeasurementInv, EvidenceChained
<1> QED BY <1>5, <1>6, <1>7, <1>8, <1>9 DEF MeasurementInv

\* What a locked command knows.
LEMMA LockedFacts ==
  ASSUME MeasurementInv, NEW w \in Workers, workers[w].pc = "LOCKED",
         workers[w].req.kind \in {"start", "complete", "manual"}
  PROVE  /\ workers[w].req \in HandlingAsked /\ workers[w].at \in Nat /\ workers[w].at <= clock
         /\ \A i \in DOMAIN handlingSessions :
              handlingSessions[i].op = workers[w].req.op => TimedBy(handlingSessions[i], workers[w].at)
         /\ \A v \in Workers : v # w /\ workers[v].pc = "LOCKED" => workers[v].req.op # workers[w].req.op
<1>1. workers[w].req \in HandlingAsked /\ workers[w].at \in Nat BY MeasurementFacts DEF HandlingAsked
<1> QED BY <1>1 DEF MeasurementInv, OperatorsLocked

\* A new row.
LEMMA AppendedRow ==
  ASSUME MeasurementInv, NEW x \in SessionRows, reconciled(x),
         \A j \in Counted(handlingSessions) : Disjoint(x, handlingSessions[j]),
         NEW S, S = Append(handlingSessions, x)
  PROVE  RowWritten(S, Len(handlingSessions) + 1) /\ S[Len(handlingSessions) + 1] = x
<1> DEFINE n == Len(handlingSessions)
<1>1. handlingSessions \in Seq(SessionRows) /\ n \in Nat /\ DOMAIN handlingSessions = 1..n
  BY MeasurementFacts
<1>2. /\ S \in Seq(SessionRows) /\ DOMAIN S = 1..(n + 1) /\ S[n + 1] = x
      /\ \A j \in 1..n : S[j] = handlingSessions[j]
  BY <1>1
<1> HIDE DEF n
<1>3. \A j \in 1..(n + 1) : j # n + 1 => j \in 1..n BY <1>1
<1>4. n + 1 \in 1..(n + 1) BY <1>1
<1>5. RowWritten(S, n + 1) BY <1>1, <1>2, <1>3, <1>4 DEF RowWritten
<1> QED BY <1>2, <1>5 DEF n

\* A changed row.
LEMMA ReplacedRow ==
  ASSUME MeasurementInv, NEW k \in DOMAIN handlingSessions, NEW x \in SessionRows, reconciled(x),
         x.lifecycle # "VOIDED" =>
           \A j \in Counted(handlingSessions) : j # k => Disjoint(x, handlingSessions[j]),
         NEW S, S = [handlingSessions EXCEPT ![k] = x]
  PROVE  RowWritten(S, k) /\ S[k] = x
<1>1. handlingSessions \in Seq(SessionRows) BY MeasurementFacts
<1>2. /\ S \in Seq(SessionRows) /\ DOMAIN S = DOMAIN handlingSessions /\ S[k] = x
      /\ \A j \in DOMAIN handlingSessions : j # k => S[j] = handlingSessions[j]
  BY <1>1
<1> QED BY <1>2 DEF RowWritten

\* An open session.
LEMMA OpenRow ==
  ASSUME NEW r \in HandlingAsked, NEW source \in {"TIMER", "MANUAL"}, NEW from \in Nat,
         NEW x, x = Open(r, source, from)
  PROVE  /\ x \in SessionRows /\ x.op = r.op /\ x.from = from /\ x.to = 0 /\ x.component = r.component
         /\ x.lifecycle = "OPEN" /\ x.source = source /\ x.targets = {}
<1>1. {} \in TargetSets BY DEF TargetSets
<1>2. << >> \in [{} -> Nat] OBVIOUS
<1>3. << >> \in Splits BY <1>1, <1>2 DEF Splits
<1> HIDE DEF Splits
<1> QED BY <1>1, <1>3 DEF Open, SessionRows

\* A timer starts after everything its operator has recorded.
LEMMA StartKeeps ==
  ASSUME MeasurementInv, NEW w \in Workers, start(w) PROVE MeasurementInv'
<1> DEFINE r == workers[w].req
           x == Open(r, "TIMER", workers[w].at)
           S == Append(handlingSessions, x)
           n == Len(handlingSessions) + 1
<1>1. workers[w].pc = "LOCKED" /\ r.kind = "start" BY DEF start
<1>2. /\ r \in HandlingAsked /\ workers[w].at \in Nat /\ workers[w].at <= clock
      /\ \A i \in DOMAIN handlingSessions :
           handlingSessions[i].op = r.op => TimedBy(handlingSessions[i], workers[w].at)
      /\ \A v \in Workers : v # w /\ workers[v].pc = "LOCKED" => workers[v].req.op # r.op
  BY <1>1, LockedFacts
<1>3. CASE Rejected(w) BY <1>3, RejectedKeeps
<1>4. CASE /\ ~ \E i \in DOMAIN handlingSessions :
                  /\ handlingSessions[i].op = r.op
                  /\ handlingSessions[i].source = "TIMER" /\ handlingSessions[i].lifecycle = "OPEN"
           /\ Commit(w, S)
  <2>1. /\ x \in SessionRows /\ x.op = r.op /\ x.from = workers[w].at /\ x.to = 0
        /\ x.lifecycle = "OPEN" /\ x.source = "TIMER" /\ x.targets = {}
    BY <1>2, OpenRow
  <2> HIDE DEF x
  <2>2. reconciled(x) BY <2>1 DEF reconciled
  <2>3. ASSUME NEW j \in Counted(handlingSessions), handlingSessions[j].op = r.op
        PROVE  Disjoint(x, handlingSessions[j])
    <3> DEFINE s == handlingSessions[j]
    <3>1. j \in DOMAIN handlingSessions /\ s.lifecycle # "VOIDED" BY DEF Counted
    <3>2. s \in SessionRows /\ s.from \in Nat /\ s.to \in Nat /\ reconciled(s) BY <3>1, MeasurementFacts
    <3>3. s.lifecycle # "OPEN" BY <1>4, <2>3, <3>1 DEF MeasurementInv, SessionsTimed
    <3>4. s.lifecycle = "COMPLETED" BY <3>1, <3>2, <3>3 DEF SessionRows
    <3>5. s.to > s.from BY <3>2, <3>4 DEF reconciled
    <3>6. s.to <= workers[w].at BY <1>2, <2>3, <3>1 DEF TimedBy
    <3> HIDE DEF s
    <3>7. s.to # 0 /\ s.to <= x.from BY <2>1, <3>2, <3>5, <3>6
    <3> QED BY <3>7 DEF Disjoint, s
  <2>4. \A j \in Counted(handlingSessions) : Disjoint(x, handlingSessions[j])
    <3>1. ASSUME NEW j \in Counted(handlingSessions), handlingSessions[j].op # r.op
          PROVE  Disjoint(x, handlingSessions[j])
      BY <2>1, <3>1 DEF Disjoint
    <3> QED BY <2>3, <3>1
  <2>5. RowWritten(S, n) /\ S[n] = x BY <2>1, <2>2, <2>4, AppendedRow
  <2>6. TimedBy(S[n], clock)
    <3>1. clock \in Nat BY MeasurementFacts
    <3> QED BY <1>2, <2>1, <2>5, <3>1 DEF TimedBy
  <2> HIDE DEF S, n
  <2> QED BY <1>2, <1>4, <2>1, <2>5, <2>6, CommitKeeps
<1> QED BY <1>1, <1>3, <1>4 DEF start

\* A timer ends after everything its operator has recorded.
LEMMA CompleteKeeps ==
  ASSUME KeysAlike, MeasurementInv, NEW w \in Workers, complete(w) PROVE MeasurementInv'
<1> DEFINE r == workers[w].req
           k == r.session
           s == handlingSessions[k]
           x == completeSession(s, workers[w].at, r.targets)
           S == [handlingSessions EXCEPT ![k] = x]
<1>1. workers[w].pc = "LOCKED" /\ r.kind = "complete" BY DEF complete
<1>2. /\ r \in HandlingAsked /\ workers[w].at \in Nat /\ workers[w].at <= clock
      /\ \A v \in Workers : v # w /\ workers[v].pc = "LOCKED" => workers[v].req.op # r.op
  BY <1>1, LockedFacts
<1>3. CASE Rejected(w) BY <1>3, RejectedKeeps
<1>4. CASE /\ k \in DOMAIN handlingSessions /\ s.op = r.op /\ s.lifecycle = "OPEN"
           /\ workers[w].at > s.from
           /\ lineageAllowed(s.component, r.targets) /\ validateTargets(r.targets)
           /\ Commit(w, S)
  <2>1. s \in SessionRows /\ s.from \in Nat /\ s.to = 0
    BY <1>4, MeasurementFacts DEF MeasurementInv, SessionsTimed
  <2>2. /\ r.targets \in TargetSets /\ IsFiniteSet(r.targets)
        /\ \A t \in r.targets : t.id \in Nat /\ t.collated \in Nat /\ t.units \in Nat
        /\ \A t, u \in r.targets : t.id < u.id <=> t.collated < u.collated
    BY <1>1, <1>2, RequestsAssumption DEF TargetSets, HandlingAsked, AskedRequests, KeysAlike
  <2>3. /\ x \in SessionRows /\ reconciled(x) /\ x.op = s.op /\ x.from = s.from
        /\ x.to = workers[w].at /\ x.lifecycle = "COMPLETED"
    BY <1>2, <1>4, <2>1, <2>2, CompletedRow
  <2> HIDE DEF x
  <2>4. ASSUME NEW j \in Counted(handlingSessions), j # k PROVE Disjoint(x, handlingSessions[j])
    <3>1. k \in Counted(handlingSessions) BY <1>4 DEF Counted
    <3>2. Disjoint(s, handlingSessions[j]) BY <2>4, <3>1 DEF MeasurementInv, databaseAccepts
    <3> QED BY <2>1, <2>3, <3>2 DEF Disjoint
  <2>5. RowWritten(S, k) /\ S[k] = x BY <1>4, <2>3, <2>4, ReplacedRow
  <2>6. TimedBy(S[k], clock)
    <3>1. clock \in Nat BY MeasurementFacts
    <3> QED BY <1>2, <1>4, <2>1, <2>3, <2>5, <3>1 DEF TimedBy
  <2>7. S[k].op = r.op /\ S[k].lifecycle = "COMPLETED" BY <1>4, <2>3, <2>5
  <2> HIDE DEF S, k, s
  <2> QED BY <1>2, <1>4, <2>5, <2>6, <2>7, CommitKeeps
<1> QED BY <1>1, <1>3, <1>4 DEF complete

\* A manual record lies in the past and beside every session that counts.
LEMMA ManualKeeps ==
  ASSUME KeysAlike, MeasurementInv, NEW w \in Workers, recordManual(w) PROVE MeasurementInv'
<1> DEFINE r == workers[w].req
           s == Open(r, "MANUAL", r.from)
           x == completeSession(s, r.to, r.targets)
           S == Append(handlingSessions, x)
           n == Len(handlingSessions) + 1
<1>1. workers[w].pc = "LOCKED" /\ r.kind = "manual" BY DEF recordManual
<1>2. /\ r \in HandlingAsked /\ workers[w].at \in Nat /\ workers[w].at <= clock
      /\ \A v \in Workers : v # w /\ workers[v].pc = "LOCKED" => workers[v].req.op # r.op
  BY <1>1, LockedFacts
<1>3. CASE Rejected(w) BY <1>3, RejectedKeeps
<1>4. CASE /\ r.from < r.to /\ r.to <= workers[w].at /\ ~overlapsCounted(r)
           /\ lineageAllowed(r.component, r.targets) /\ validateTargets(r.targets)
           /\ Commit(w, S)
  <2>1. /\ r.targets \in TargetSets /\ IsFiniteSet(r.targets) /\ r.from \in Nat /\ r.to \in Nat
        /\ \A t \in r.targets : t.id \in Nat /\ t.collated \in Nat /\ t.units \in Nat
        /\ \A t, u \in r.targets : t.id < u.id <=> t.collated < u.collated
    BY <1>1, <1>2, RequestsAssumption DEF TargetSets, HandlingAsked, AskedRequests, KeysAlike
  <2>2. /\ s \in SessionRows /\ s.op = r.op /\ s.from = r.from /\ s.component = r.component
    BY <1>2, <2>1, OpenRow
  <2> HIDE DEF s
  <2>3. /\ x \in SessionRows /\ reconciled(x) /\ x.op = r.op /\ x.from = r.from
        /\ x.to = r.to /\ x.lifecycle = "COMPLETED"
    BY <1>4, <2>1, <2>2, CompletedRow
  <2> HIDE DEF x
  <2>4. ASSUME NEW j \in Counted(handlingSessions) PROVE Disjoint(x, handlingSessions[j])
    <3> DEFINE o == handlingSessions[j]
    <3>1. j \in DOMAIN handlingSessions /\ o.lifecycle # "VOIDED" BY DEF Counted
    <3>2. o \in SessionRows /\ o.from \in Nat /\ o.to \in Nat /\ reconciled(o) BY <3>1, MeasurementFacts
    <3>3. o.lifecycle \in {"OPEN", "COMPLETED"} BY <3>1, <3>2 DEF SessionRows
    <3>4. \/ o.op # r.op \/ ~(o.from < r.to)
          \/ o.lifecycle = "COMPLETED" /\ ~(o.to > r.from)
      BY <1>4, <3>1, <3>3 DEF overlapsCounted
    <3>5. o.lifecycle = "COMPLETED" => o.to > o.from BY <3>2 DEF reconciled
    <3> HIDE DEF o
    <3> QED BY <1>4, <2>1, <2>3, <3>2, <3>4, <3>5 DEF Disjoint, o
  <2>5. RowWritten(S, n) /\ S[n] = x BY <2>3, <2>4, AppendedRow
  <2>6. TimedBy(S[n], clock)
    <3>1. clock \in Nat BY MeasurementFacts
    <3> QED BY <1>2, <1>4, <2>1, <2>3, <2>5, <3>1 DEF TimedBy
  <2> HIDE DEF S, n
  <2> QED BY <1>2, <1>4, <2>3, <2>5, <2>6, CommitKeeps
<1> QED BY <1>1, <1>3, <1>4 DEF recordManual

\* A voided session counts no more, and nothing else of it changes.
LEMMA VoidKeeps ==
  ASSUME MeasurementInv, NEW w \in Workers, void(w) PROVE MeasurementInv'
<1> DEFINE r == workers[w].req
           k == r.session
           s == handlingSessions[k]
           x == [s EXCEPT !.lifecycle = "VOIDED"]
           S == [handlingSessions EXCEPT ![k] = x]
<1>3. CASE Rejected(w) BY <1>3, RejectedKeeps
<1>4. CASE k \in DOMAIN handlingSessions /\ Commit(w, S)
  <2>1. s \in SessionRows BY <1>4, MeasurementFacts
  <2>2. /\ x \in SessionRows /\ x.op = s.op /\ x.from = s.from /\ x.to = s.to /\ x.lifecycle = "VOIDED"
    BY <2>1 DEF SessionRows
  <2> HIDE DEF x
  <2>3. reconciled(x) BY <2>2 DEF reconciled
  <2>4. RowWritten(S, k) /\ S[k] = x BY <1>4, <2>2, <2>3, ReplacedRow
  <2>5. TimedBy(S[k], clock) BY <1>4, <2>2, <2>4 DEF MeasurementInv, SessionsTimed, TimedBy
  <2>6. ASSUME NEW v \in Workers, workers[v].pc = "LOCKED", S[k].op = workers[v].req.op
        PROVE  TimedBy(S[k], workers[v].at)
    <3>1. TimedBy(s, workers[v].at) BY <1>4, <2>2, <2>4, <2>6 DEF MeasurementInv, OperatorsLocked
    <3> QED BY <2>2, <2>4, <3>1 DEF TimedBy
  <2>7. S[k].lifecycle = "VOIDED" BY <2>2, <2>4
  <2> HIDE DEF S, k, s
  <2> QED BY <1>4, <2>4, <2>5, <2>6, <2>7, CommitKeeps
<1> QED BY <1>3, <1>4 DEF void

\* A row that is accepted extends its chain at the end.
LEMMA EvidenceKeeps ==
  ASSUME MeasurementInv, NEW w \in Workers, recordEvidence(w) PROVE MeasurementInv'
<1> DEFINE r == workers[w].req
<1>1. workers[w].pc = "BEGUN" /\ r.kind = "evidence" BY DEF recordEvidence
<1>2. CASE Rejected(w) BY <1>2, RejectedKeeps
<1>3. CASE /\ supersessionAllowed(r.row) /\ uniqueEvidence(r.row)
           /\ evidence' = evidence \cup {r.row}
           /\ workers' = [workers EXCEPT ![w] = Resting]
           /\ UNCHANGED <<handlingSessions, clock, asked>>
  <2>1. r.row.source # 0
    BY <1>1, MeasurementFacts, RequestsAssumption DEF AskedRequests
  <2>2. EvidenceChained BY DEF MeasurementInv
  <2> DEFINE e == r.row
  <2>3. /\ \A f \in evidence : f.ledger = e.ledger =>
             f.source # e.source /\ (e.supersedes # 0 => f.supersedes # e.supersedes)
        /\ e.supersedes # 0 =>
             \E f \in evidence : f.ledger = e.ledger /\ f.source = e.supersedes /\ f.scope = e.scope
    BY <1>3 DEF supersessionAllowed, uniqueEvidence
  <2> HIDE DEF e
  <2>4. evidence' = evidence \cup {e} BY <1>3 DEF e
  <2>5. IsFiniteSet(evidence') BY <2>2, <2>4, FS_AddElement DEF EvidenceChained
  <2>6. \A f \in evidence' : f.source # 0 BY <2>1, <2>2, <2>4 DEF EvidenceChained, e
  <2>7. \A f, g \in evidence' : f.ledger = g.ledger /\ f.source = g.source => f = g
    BY <2>2, <2>3, <2>4 DEF EvidenceChained
  <2>8. \A f, g \in evidence' :
          f.ledger = g.ledger /\ f.supersedes = g.supersedes /\ f.supersedes # 0 => f = g
    BY <2>2, <2>3, <2>4 DEF EvidenceChained
  <2>9. \A f \in evidence' : f.supersedes # 0 =>
          \E g \in evidence' : g.ledger = f.ledger /\ g.source = f.supersedes /\ g.scope = f.scope
    BY <2>2, <2>3, <2>4 DEF EvidenceChained
  <2>10. EvidenceChained' BY <2>5, <2>6, <2>7, <2>8, <2>9 DEF EvidenceChained
  <2>11. /\ workers' \in [Workers -> RecorderRows]
         /\ \A v \in Workers : workers'[v].pc # "RESTING" =>
              v # w /\ workers'[v] = workers[v] /\ workers'[v].req \in AskedRequests
    BY <1>3, RequestEnds
  <2>12. MeasurementTyped' BY <1>3, <2>11 DEF MeasurementInv, MeasurementTyped
  <2>13. databaseAccepts(handlingSessions)'
    BY <1>3, RowsStay
  <2>14. SessionsTimed' BY <1>3 DEF MeasurementInv, SessionsTimed, TimedBy
  <2>15. OperatorsLocked' BY <1>3, <2>11 DEF MeasurementInv, OperatorsLocked, TimedBy
  <2> QED BY <2>10, <2>12, <2>13, <2>14, <2>15 DEF MeasurementInv
<1> QED BY <1>1, <1>2, <1>3 DEF recordEvidence

LEMMA MeasurementBegins == ASSUME MeasurementInit PROVE MeasurementInv
<1>1. handlingSessions = <<>> /\ DOMAIN handlingSessions = {} /\ handlingSessions \in Seq(SessionRows)
  BY DEF MeasurementInit
<1>2. workers = [w \in Workers |-> Resting] /\ evidence = {} /\ asked \in RequestSets /\ clock = 1
  BY DEF MeasurementInit
<1>3. Resting \in RecorderRows /\ Resting.pc = "RESTING" BY DEF Resting, RecorderRows
<1>4. /\ workers \in [Workers -> RecorderRows]
      /\ \A w \in Workers : workers[w].pc = "RESTING"
  BY <1>2, <1>3
<1>5. MeasurementTyped BY <1>1, <1>2, <1>4 DEF MeasurementTyped
<1>6. databaseAccepts(handlingSessions)
  BY <1>1 DEF databaseAccepts, Counted
<1>7. SessionsTimed /\ OperatorsLocked BY <1>1, <1>4 DEF SessionsTimed, OperatorsLocked
<1>8. EvidenceChained BY <1>2, FS_EmptySet DEF EvidenceChained
<1> QED BY <1>5, <1>6, <1>7, <1>8 DEF MeasurementInv

LEMMA MeasurementStep ==
  ASSUME KeysAlike, MeasurementInv, [MeasurementNext]_measurementVars PROVE MeasurementInv'
<1>1. ASSUME NEW w \in Workers,
             lockHandlingOperator(w) \/ start(w) \/ complete(w) \/ recordManual(w)
               \/ void(w) \/ recordEvidence(w)
      PROVE  MeasurementInv'
  BY <1>1, LockKeeps, StartKeeps, CompleteKeeps, ManualKeeps, VoidKeeps, EvidenceKeeps
<1>2. ASSUME NEW w \in Workers, NEW r \in asked, command(w, r) PROVE MeasurementInv'
  BY <1>2, CommandKeeps
<1>3. ASSUME UNCHANGED measurementVars PROVE MeasurementInv'
  <2>1. UNCHANGED <<handlingSessions, evidence, workers, asked, clock>> BY <1>3 DEF measurementVars
  <2>2. clock \in Nat /\ clock <= clock' BY <2>1, MeasurementFacts
  <2>3. workers' \in [Workers -> RecorderRows] BY <2>1 DEF MeasurementInv, MeasurementTyped
  <2>4. \A v \in Workers : workers'[v].pc # "RESTING" => workers'[v].req \in AskedRequests
    BY <2>1, MeasurementFacts
  <2> QED BY <2>1, <2>2, <2>3, <2>4, QuietKeeps
<1> QED BY <1>1, <1>2, <1>3, TickKeeps DEF MeasurementNext

\* The current rows and the first rows of a scope.
CurrentRows(ledger, scope) ==
  LET rows == {e \in evidence : e.ledger = ledger /\ e.scope = scope} IN {e \in rows : ~Superseded(e)}
FirstRows(ledger, scope) ==
  LET rows == {e \in evidence : e.ledger = ledger /\ e.scope = scope} IN {e \in rows : e.supersedes = 0}

\* As many rows are superseded as supersede one.
LEMMA CorrectionsPair ==
  ASSUME EvidenceChained, NEW ledger, NEW scope
  PROVE  Cardinality(CurrentRows(ledger, scope)) = Cardinality(FirstRows(ledger, scope))
<1> DEFINE rows == {e \in evidence : e.ledger = ledger /\ e.scope = scope}
           old == {e \in rows : Superseded(e)}
           new == {e \in rows : e.supersedes # 0}
           current == {e \in rows : ~Superseded(e)}
           roots == {e \in rows : e.supersedes = 0}
           replaced == [e \in new |-> CHOOSE f \in rows : f.source = e.supersedes]
<1>1. IsFiniteSet(rows) /\ IsFiniteSet(old) /\ IsFiniteSet(new)
  <2>1. IsFiniteSet(evidence) BY DEF EvidenceChained
  <2>2. rows \subseteq evidence /\ old \subseteq rows /\ new \subseteq rows OBVIOUS
  <2> HIDE DEF rows, old, new
  <2>3. IsFiniteSet(rows) BY <2>1, <2>2, FS_Subset
  <2> QED BY <2>2, <2>3, FS_Subset
<1>2. ASSUME NEW e \in new
      PROVE  \E f \in rows : f.source = e.supersedes
  BY DEF EvidenceChained
<1>3. ASSUME NEW e \in new
      PROVE  replaced[e] \in rows /\ replaced[e].source = e.supersedes
  <2>1. replaced[e] = CHOOSE f \in rows : f.source = e.supersedes OBVIOUS
  <2> HIDE DEF replaced, rows, new
  <2> QED BY <1>2, <2>1
<1> HIDE DEF replaced
<1>4. ASSUME NEW e \in new PROVE replaced[e] \in old
  BY <1>3 DEF Superseded
<1>5. ASSUME NEW e \in new, NEW f \in new, replaced[e] = replaced[f] PROVE e = f
  BY <1>3, <1>5 DEF EvidenceChained
<1>6. ASSUME NEW f \in old PROVE \E e \in new : replaced[e] = f
  <2>1. PICK e \in evidence : e.ledger = f.ledger /\ e.supersedes = f.source BY DEF Superseded
  <2>2. f \in evidence /\ f.ledger = ledger /\ f.scope = scope /\ f.source # 0
    BY DEF EvidenceChained
  <2>3. PICK g \in evidence : g.ledger = e.ledger /\ g.source = e.supersedes /\ g.scope = e.scope
    BY <2>1, <2>2 DEF EvidenceChained
  <2>4. g = f BY <2>1, <2>2, <2>3 DEF EvidenceChained
  <2>5. e \in new BY <2>1, <2>2, <2>3, <2>4
  <2>6. replaced[e] \in rows /\ replaced[e].source = f.source BY <1>3, <2>1, <2>5
  <2>7. replaced[e] = f BY <2>2, <2>6 DEF EvidenceChained
  <2> QED BY <2>5, <2>7
<1>7. replaced \in Bijection(new, old)
  <2>1. replaced \in [new -> old] BY <1>4 DEF replaced
  <2> HIDE DEF new, old
  <2> QED BY <1>5, <1>6, <2>1 DEF Bijection, Injection, Surjection, IsInjective
<1>8. Cardinality(old) = Cardinality(new)
  <2> HIDE DEF new, old
  <2> QED BY <1>1, <1>7, FS_Bijection DEF ExistsBijection
<1>0. current = CurrentRows(ledger, scope) /\ roots = FirstRows(ledger, scope)
  BY DEF CurrentRows, FirstRows
<1>9. current = rows \ old /\ roots = rows \ new /\ rows \cap old = old /\ rows \cap new = new OBVIOUS
<1> HIDE DEF rows, old, new, current, roots
<1>10. /\ Cardinality(rows \ old) = Cardinality(rows) - Cardinality(rows \cap old)
       /\ Cardinality(rows \ new) = Cardinality(rows) - Cardinality(rows \cap new)
  BY <1>1, FS_Difference
<1>11. Cardinality(current) = Cardinality(roots) BY <1>8, <1>9, <1>10
<1> QED BY <1>0, <1>11

\* A measurement the service accepts is one the database accepts, for any number
\* of requests, targets and served units, on a database whose collation orders
\* the keys of a request's targets as code units do; and each chain of
\* corrections has one row that counts.
THEOREM MeasurementsAreSound ==
  ASSUME KeysAlike PROVE MeasurementSpec => []MeasurementSound
<1>1. MeasurementInit => MeasurementInv BY MeasurementBegins
<1>2. MeasurementInv /\ [MeasurementNext]_measurementVars => MeasurementInv' BY KeysAlike, MeasurementStep
<1>3. MeasurementInv => MeasurementSound
  <2>1. ASSUME MeasurementInv PROVE ServiceAgreesWithDatabase
    BY <2>1, MeasurementFacts DEF ServiceAgreesWithDatabase
  <2>2. ASSUME MeasurementInv PROVE OneCurrentRow
    <3>1. EvidenceChained BY <2>2 DEF MeasurementInv
    <3>2. \A ledger \in {e.ledger : e \in evidence}, scope \in {e.scope : e \in evidence} :
            Cardinality(CurrentRows(ledger, scope)) = Cardinality(FirstRows(ledger, scope))
      BY <3>1, CorrectionsPair
    <3> QED BY <3>2 DEF OneCurrentRow, CurrentRows, FirstRows
  <2> QED BY <2>1, <2>2 DEF MeasurementSound
<1> QED BY <1>1, <1>2, <1>3, PTL DEF MeasurementSpec
=============================================================================
