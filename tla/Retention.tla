----------------------------- MODULE Retention -----------------------------
(***************************************************************************)
(* Uploads, the bytes they leave in object storage, and the worker that     *)
(* deletes those bytes when they are due:                                   *)
(*                                                                          *)
(*   - upload_intents and UploadService.confirmUpload, which promotes a     *)
(*     quarantined object while it holds the row lock of its intent;        *)
(*   - the asset (model_files or photo_assets row) a confirmation creates,  *)
(*     its deadline, its hold, its deletion claim, and the triggers that    *)
(*     guard them;                                                          *)
(*   - retention_deletion_jobs and RetentionService.runOnce: leases, stale  *)
(*     workers, partial deletions, the second pass over an upload, and the  *)
(*     sweep of old quarantine objects;                                     *)
(*   - clients that still stream, and copies that outlive their request     *)
(*     (external).                                                          *)
(*                                                                          *)
(* Every action is one transaction, one unlocked read or one exchange with  *)
(* the object store.  Leases are not timed: a lease may run out at any      *)
(* moment.  An intent is past its expires_at once it is in expired; asset   *)
(* deadlines are ticks of a logical clock.  The request compares expires_at *)
(* with the clock of its own host, which may lag behind the database's: an  *)
(* expired intent may still look live to a request.                         *)
(***************************************************************************)
EXTENDS Integers, FiniteSets

CONSTANTS
    Uploads,      \* upload intents; each names the asset it may create
    Requests,     \* confirmUpload requests that may be served at once
    Workers,      \* retention workers
    MaxDeadline,  \* bound on the logical clock and on asset deadlines
    NoUpload, NoWorker

ASSUME RetentionAssumption ==
    /\ MaxDeadline \in Nat \ {0}
    /\ NoUpload \notin Uploads
    /\ NoWorker \notin Workers

Ticks == 1..MaxDeadline

\* retention_deletion_jobs are unique per asset and deadline; <<u, 0>> is the
\* UPLOAD_INTENT job of u, <<u, d>> the job of its asset for deadline d.
Jobs == Uploads \X (0..MaxDeadline)
UploadJob(u) == <<u, 0>>
AssetJob(u, d) == <<u, d>>

VARIABLES
    intent,     \* upload_intents.status, "NONE" before and "GONE" after the row
    deadline,   \* source_delete_after / photo_delete_after, 0 without an asset
    hold,       \* assets whose retention_hold is not NONE
    claim,      \* deadline of the job in retention_deletion_job_id, 0 if none
    deleted,    \* assets with deleted_at
    derived,    \* assets with recorded geometry or slice artifacts
    job,        \* retention_deletion_jobs.status
    verified,   \* uploads whose job has upload_settlement_verified_at
    lease,      \* the worker that knows the job's lease_token
    worker,     \* locals of the workers
    request,    \* locals of the confirm requests
    objects,    \* external: objects of each upload in the store
    streaming,  \* external: uploads to which a client still streams a PUT
    flying,     \* external: uploads with a copy that outlived its request
    expired,    \* intents whose expires_at has passed
    clock       \* asset deadlines up to it have passed

intentVars == <<intent, request>>
assetVars == <<deadline, hold, claim, deleted, derived>>
jobVars == <<job, verified, lease, worker>>
storeVars == <<objects, streaming, flying>>
timeVars == <<expired, clock>>
vars == <<intentVars, assetVars, jobVars, storeVars, timeVars>>

-----------------------------------------------------------------------------
Terminal == {"CONFIRMED", "REJECTED", "EXPIRED"}
Asset(u) == deadline[u] # 0
Due(u) == deadline[u] <= clock
Resting == [pc |-> "idle", job |-> <<>>, keys |-> {}]
Unserved == [pc |-> "idle", upload |-> NoUpload]

\* confirmUpload keeps the row lock of the intent through the promotion.
Locked(u) ==
    \E c \in Requests : request[c].upload = u
                        /\ request[c].pc \in {"copy", "commit"}

\* Mutation: a job that was skipped as STALE is not re-armed.
EnqueuedNotRearmed(jobs, u, d) ==
    [jobs EXCEPT ![AssetJob(u, d)] = IF @ = "NONE" THEN "PENDING" ELSE @]

\* taven_enqueue_retention_deletion_job: the job of the asset for this deadline
\* is inserted, or re-armed when it had been skipped as STALE.
Enqueued(jobs, u, d) ==
    [jobs EXCEPT ![AssetJob(u, d)] = IF @ \in {"NONE", "STALE"} THEN "PENDING"
                                     ELSE @]

Init ==
    /\ intent = [u \in Uploads |-> "NONE"]
    /\ deadline = [u \in Uploads |-> 0]
    /\ hold = {} /\ deleted = {} /\ derived = {} /\ verified = {}
    /\ claim = [u \in Uploads |-> 0]
    /\ job = [j \in Jobs |-> "NONE"]
    /\ lease = [j \in Jobs |-> NoWorker]
    /\ worker = [w \in Workers |-> Resting]
    /\ request = [c \in Requests |-> Unserved]
    /\ objects = [u \in Uploads |-> {}]
    /\ streaming = {} /\ flying = {} /\ expired = {}
    /\ clock = 0

-----------------------------------------------------------------------------
(* Upload intents.                                                          *)

\* The intent and, by trigger, its UPLOAD_INTENT job; the client gets a URL.
InitiateUpload(u) ==
    /\ intent[u] = "NONE"
    /\ intent' = [intent EXCEPT ![u] = "PENDING"]
    /\ job' = [job EXCEPT ![UploadJob(u)] = "PENDING"]
    /\ UNCHANGED <<request, assetVars, verified, lease, worker, storeVars,
                   timeVars>>

Step(c, label) == request' = [request EXCEPT ![c].pc = label]
Leave(c) == request' = [request EXCEPT ![c] = Unserved]

\* Unlocked preflight: a pending intent that looks live goes on.  Any other
\* status is answered without a change.
BeginConfirm(c, u) ==
    /\ request[c].pc = "idle"
    /\ intent[u] = "PENDING"
    /\ request' = [request EXCEPT ![c] = [pc |-> "head", upload |-> u]]
    /\ UNCHANGED <<intent, assetVars, jobVars, storeVars, timeVars>>

\* ... and one that looks expired is marked, if it is still PENDING then.
ExpirePendingIntent(u) ==
    /\ intent[u] = "PENDING" /\ u \in expired /\ ~ Locked(u)
    /\ intent' = [intent EXCEPT ![u] = "EXPIRED"]
    /\ UNCHANGED <<request, assetVars, jobVars, storeVars, timeVars>>

\* headObject and the signature check: a missing object is a validation error
\* like a malformed one.
ValidateUpload(c, u) ==
    /\ request[c].pc = "head" /\ request[c].upload = u
    /\ \/ "quarantine" \in objects[u] /\ Step(c, "lock")
       \/ Step(c, "reject")
    /\ UNCHANGED <<intent, assetVars, jobVars, storeVars, timeVars>>

\* Mutation: the status trigger lets a terminal intent be rejected.
RejectableTerminal(u) == intent[u] \in {"PENDING"} \cup Terminal

\* taven_protect_upload_intent: a terminal status does not change.
Rejectable(u) == intent[u] \in {"PENDING", "REJECTED"}

\* rejectPendingIntent: update by id, without a look at the status.
RejectPendingIntent(c, u) ==
    /\ request[c].pc = "reject" /\ request[c].upload = u
    /\ ~ Locked(u)
    /\ IF Rejectable(u)
       THEN intent' = [intent EXCEPT ![u] = "REJECTED"] /\ Step(c, "discard")
       ELSE intent' = intent /\ Leave(c)
    /\ UNCHANGED <<assetVars, jobVars, storeVars, timeVars>>

\* Its best-effort deletion, of any subset of both keys.
DiscardRejected(c, u) ==
    /\ request[c].pc = "discard" /\ request[c].upload = u
    /\ \E gone \in SUBSET {"quarantine", "final"} :
           objects' = [objects EXCEPT ![u] = @ \ gone]
    /\ Leave(c)
    /\ UNCHANGED <<intent, assetVars, jobVars, streaming, flying, timeVars>>

\* The locked part.  Marking an expired intent is undone by the exception
\* thrown right after it.
LockIntent(c, u) ==
    /\ request[c].pc = "lock" /\ request[c].upload = u
    /\ ~ Locked(u)
    /\ \/ intent[u] = "CONFIRMED" /\ Step(c, "cleanup")
       \/ intent[u] = "PENDING" /\ Step(c, "copy")
       \/ /\ intent[u] # "CONFIRMED"
          /\ intent[u] # "PENDING" \/ u \in expired
          /\ Leave(c)
    /\ UNCHANGED <<intent, assetVars, jobVars, storeVars, timeVars>>

CopyObject(c, u) ==
    /\ request[c].pc = "copy" /\ request[c].upload = u
    /\ "quarantine" \in objects[u]
    /\ objects' = [objects EXCEPT ![u] = @ \cup {"final"}]
    /\ Step(c, "commit")
    /\ UNCHANGED <<intent, assetVars, jobVars, streaming, flying, timeVars>>

\* The asset, its job and the CONFIRMED intent, in one commit.
CommitConfirm(c, u) ==
    /\ request[c].pc = "commit" /\ request[c].upload = u
    /\ intent' = [intent EXCEPT ![u] = "CONFIRMED"]
    /\ \E d \in Ticks :
           /\ d > clock
           /\ deadline' = [deadline EXCEPT ![u] = d]
           /\ job' = Enqueued(job, u, d)
    /\ Step(c, "cleanup")
    /\ UNCHANGED <<hold, claim, deleted, derived, verified, lease, worker,
                   storeVars, timeVars>>

CleanupQuarantine(c, u) ==
    /\ request[c].pc = "cleanup" /\ request[c].upload = u
    /\ objects' = [objects EXCEPT ![u] = @ \ {"quarantine"}]
    /\ Leave(c)
    /\ UNCHANGED <<intent, assetVars, jobVars, streaming, flying, timeVars>>

\* An error, a transaction timeout or the end of the process: the transaction
\* is rolled back and its lock is gone; a copy in flight goes on.
AbandonConfirm(c, u) ==
    /\ request[c].pc # "idle" /\ request[c].upload = u
    /\ flying' = IF request[c].pc = "copy" THEN flying \cup {u} ELSE flying
    /\ Leave(c)
    /\ UNCHANGED <<intent, assetVars, jobVars, objects, streaming, timeVars>>

-----------------------------------------------------------------------------
(* The object store and its clients (external), and time.                   *)

\* The signed URL is good until the intent expires, whatever its status.
BeginPut(u) ==
    /\ intent[u] # "NONE" /\ u \notin expired
    /\ streaming' = streaming \cup {u}
    /\ UNCHANGED <<intentVars, assetVars, jobVars, objects, flying, timeVars>>

\* A stream that began in time may end long after.
PutLands(u) ==
    /\ u \in streaming
    /\ streaming' = streaming \ {u}
    /\ objects' = [objects EXCEPT ![u] = @ \cup {"quarantine"}]
    /\ UNCHANGED <<intentVars, assetVars, jobVars, flying, timeVars>>

\* An abandoned copy is completed by the store, or fails there.
CopyEnds(u) ==
    /\ u \in flying
    /\ flying' = flying \ {u}
    /\ objects' \in {objects, [objects EXCEPT ![u] = @ \cup {"final"}]}
    /\ UNCHANGED <<intentVars, assetVars, jobVars, streaming, timeVars>>

IntentExpires(u) ==
    /\ intent[u] # "NONE" /\ u \notin expired
    /\ expired' = expired \cup {u}
    /\ UNCHANGED <<intentVars, assetVars, jobVars, storeVars, clock>>

\* A tick is a matter of days: no copy lives from one to the next.
ClockTicks ==
    /\ clock < MaxDeadline /\ flying = {}
    /\ clock' = clock + 1
    /\ UNCHANGED <<intentVars, assetVars, jobVars, storeVars, expired>>

-----------------------------------------------------------------------------
(* Assets: what orders, quotes and slicing do to them.                      *)

\* model_geometry_source_available_check.
Available(u) == Asset(u) /\ u \notin deleted /\ (u \in hold \/ ~ Due(u))

\* A geometry or slice artifact of the asset is stored and recorded.
RecordArtifact(u) ==
    /\ Available(u)
    /\ derived' = derived \cup {u}
    /\ objects' = [objects EXCEPT ![u] = @ \cup {"derived"}]
    /\ UNCHANGED <<intentVars, deadline, hold, claim, deleted, jobVars,
                   streaming, flying, timeVars>>

\* Mutation: only the deletion marker freezes an asset.
ChangeableClaimed(u) == Asset(u) /\ u \notin deleted

\* taven_validate_retention_deletion_claim: deadline and hold of a claimed
\* asset are frozen; *_deleted_at_check: so are those of a deleted one.
Changeable(u) == Asset(u) /\ u \notin deleted /\ claim[u] = 0

\* taven_extend_quote_source_retention: a new quote moves the deadline on.
ExtendDeadline(u, d) ==
    /\ Available(u) /\ Changeable(u)
    /\ d > deadline[u] /\ d > clock
    /\ deadline' = [deadline EXCEPT ![u] = d]
    /\ job' = IF u \in hold THEN job ELSE Enqueued(job, u, d)
    /\ UNCHANGED <<intentVars, hold, claim, deleted, derived, verified, lease,
                   worker, storeVars, timeVars>>

\* taven_hold_confirmed_order_sources, an order becomes active, or a customer
\* opens a claim.  The source may have run past its deadline meanwhile, but
\* not be claimed for deletion.
HoldAsset(u) ==
    /\ Changeable(u)
    /\ hold' = hold \cup {u}
    /\ UNCHANGED <<intentVars, deadline, claim, deleted, derived, jobVars,
                   storeVars, timeVars>>

ReleaseAsset(u, d) ==
    /\ u \in hold /\ Changeable(u)
    /\ hold' = hold \ {u}
    /\ deadline' = [deadline EXCEPT ![u] = d]
    /\ job' = Enqueued(job, u, d)
    /\ UNCHANGED <<intentVars, claim, deleted, derived, verified, lease,
                   worker, storeVars, timeVars>>

\* The last active order ends: a full retention period from now.
EndOrder(u, d) == d >= deadline[u] /\ d > clock /\ ReleaseAsset(u, d)

\* taven_reconcile_claim_asset_retention: the last claim is resolved now, or
\* withdrawn without a resolution; an old deadline may be due at once.
EndClaim(u) ==
    \/ ReleaseAsset(u, deadline[u])
    \/ clock > deadline[u] /\ ReleaseAsset(u, clock)

-----------------------------------------------------------------------------
(* RetentionService.runOnce.                                                *)

\* Quarantine objects older than eight days: nothing that confirms an upload
\* lives that long.
SweepExpiredQuarantine(u) ==
    /\ u \in expired /\ "quarantine" \in objects[u]
    /\ \A c \in Requests : request[c].upload # u
    /\ objects' = [objects EXCEPT ![u] = @ \ {"quarantine"}]
    /\ UNCHANGED <<intentVars, assetVars, jobVars, streaming, flying, timeVars>>

\* recoverExpiredLeases keeps the claim: the previous worker may still delete.
RecoverLease(j) ==
    /\ job[j] = "PROCESSING"
    /\ job' = [job EXCEPT ![j] = "FAILED"]
    /\ lease' = [lease EXCEPT ![j] = NoWorker]
    /\ UNCHANGED <<intentVars, assetVars, verified, worker, storeVars, timeVars>>

\* A due job.  The second pass over an upload comes an hour after the first;
\* no request to the object store lives that long.
ClaimableJob(j) ==
    /\ job[j] \in {"PENDING", "FAILED"}
    /\ IF j[2] = 0 THEN j[1] \in expired ELSE j[2] <= clock
    /\ j[1] \in verified => j[1] \notin flying

Lease(w, j, keys) ==
    /\ job' = [job EXCEPT ![j] = "PROCESSING"]
    /\ lease' = [lease EXCEPT ![j] = w]
    /\ worker' = [worker EXCEPT ![w] = [pc |-> "delete", job |-> j,
                                        keys |-> keys]]

\* Mutation: the intent is marked with a status no cleanup removes.
FencedIntentCancelled(u) ==
    [intent EXCEPT ![u] = IF @ = "PENDING" THEN "CANCELLED" ELSE @]

\* A pending intent is expired in the transaction that claims its job.
FencedIntent(u) == [intent EXCEPT ![u] = IF @ = "PENDING" THEN "EXPIRED" ELSE @]

ClaimUploadIntent(w, u) ==
    /\ worker[w].pc = "idle"
    /\ ClaimableJob(UploadJob(u)) /\ ~ Locked(u)
    /\ intent' = FencedIntent(u)
    /\ Lease(w, UploadJob(u), IF intent[u] = "CONFIRMED" THEN {"quarantine"}
                              ELSE {"quarantine", "final"})
    /\ UNCHANGED <<request, assetVars, verified, storeVars, timeVars>>

\* claimModelFile and claimPhotoAsset: the job must be for the asset's own
\* deadline, without a hold and without another job's claim.
Eligible(u, d) == deadline[u] = d /\ u \notin hold /\ claim[u] \in {0, d}

ClaimAsset(w, u, d) ==
    /\ worker[w].pc = "idle"
    /\ ClaimableJob(AssetJob(u, d))
    /\ u \notin deleted /\ Eligible(u, d)
    /\ claim' = [claim EXCEPT ![u] = d]
    /\ Lease(w, AssetJob(u, d),
             {"final"} \cup (IF u \in derived THEN {"derived"} ELSE {}))
    /\ UNCHANGED <<intentVars, deadline, hold, deleted, derived, verified,
                   storeVars, timeVars>>

\* The job is skipped for good: SUCCEEDED when the asset is gone already,
\* STALE when the asset has moved on.
SkipAsset(w, u, d) ==
    /\ worker[w].pc = "idle"
    /\ ClaimableJob(AssetJob(u, d))
    /\ u \in deleted \/ ~ Eligible(u, d)
    /\ job' = [job EXCEPT ![AssetJob(u, d)] =
                   IF u \in deleted THEN "SUCCEEDED" ELSE "STALE"]
    /\ UNCHANGED <<intentVars, assetVars, verified, lease, worker, storeVars,
                   timeVars>>

WorkerTo(w, label) == worker' = [worker EXCEPT ![w].pc = label]
Rest(w) == worker' = [worker EXCEPT ![w] = Resting]
HoldsLease(w) == job[worker[w].job] = "PROCESSING" /\ lease[worker[w].job] = w

\* deleteObjects and, for an upload, verifyUploadObjectsDeleted.
DeleteObjects(w, u) ==
    /\ worker[w].pc = "delete" /\ worker[w].job[1] = u
    /\ objects' = [objects EXCEPT ![u] = @ \ worker[w].keys]
    /\ WorkerTo(w, "complete")
    /\ UNCHANGED <<intentVars, assetVars, job, verified, lease, streaming,
                   flying, timeVars>>

\* A failed batch may have deleted any subset of its keys.
DeleteFails(w, u) ==
    /\ worker[w].pc = "delete" /\ worker[w].job[1] = u
    /\ \E gone \in SUBSET worker[w].keys :
           objects' = [objects EXCEPT ![u] = @ \ gone]
    /\ WorkerTo(w, "fail")
    /\ UNCHANGED <<intentVars, assetVars, job, verified, lease, streaming,
                   flying, timeVars>>

\* completeClaim and failClaim read the lease without a lock; what they write
\* afterwards names the job alone.
ReadLease(w) ==
    /\ worker[w].pc \in {"complete", "fail"}
    /\ IF HoldsLease(w)
       THEN WorkerTo(w, IF worker[w].pc = "fail" THEN "setFailed"
                        ELSE IF worker[w].job[2] # 0 THEN "setDeleted"
                        ELSE IF worker[w].job[1] \in verified THEN "setSettled"
                        ELSE "setVerified")
       ELSE Rest(w)
    /\ UNCHANGED <<intentVars, assetVars, job, verified, lease, storeVars,
                   timeVars>>

\* The first pass over an upload re-arms the job.  The marker is immutable: a
\* worker that finds it set has lost its lease, and its write is refused.
SetVerified(w, u) ==
    /\ worker[w].pc = "setVerified" /\ worker[w].job[1] = u
    /\ IF u \in verified \/ job[UploadJob(u)] = "NONE"
       THEN UNCHANGED <<job, verified, lease>> /\ WorkerTo(w, "fail")
       ELSE /\ job' = [job EXCEPT ![UploadJob(u)] = "PENDING"]
            /\ verified' = verified \cup {u}
            /\ lease' = [lease EXCEPT ![UploadJob(u)] = NoWorker]
            /\ Rest(w)
    /\ UNCHANGED <<intentVars, assetVars, storeVars, timeVars>>

\* The second pass removes an intent that was never confirmed with its job.
SetSettled(w, u) ==
    /\ worker[w].pc = "setSettled" /\ worker[w].job[1] = u
    /\ ~ Locked(u)
    /\ IF job[UploadJob(u)] = "NONE"
       THEN UNCHANGED <<intent, job, lease>> /\ WorkerTo(w, "fail")
       ELSE /\ intent' = [intent EXCEPT ![u] =
                              IF @ \in {"EXPIRED", "REJECTED"} THEN "GONE" ELSE @]
            /\ job' = [job EXCEPT ![UploadJob(u)] =
                           IF intent[u] \in {"EXPIRED", "REJECTED"} THEN "NONE"
                           ELSE "SUCCEEDED"]
            /\ lease' = [lease EXCEPT ![UploadJob(u)] = NoWorker]
            /\ Rest(w)
    /\ UNCHANGED <<request, assetVars, verified, storeVars, timeVars>>

\* The asset is marked by its PROCESSING job, and only once; otherwise the
\* transaction is refused and the worker records a failure.
SetDeleted(w, u) ==
    LET j == worker[w].job IN
    /\ worker[w].pc = "setDeleted" /\ j[1] = u
    /\ IF claim[u] = j[2] /\ job[j] = "PROCESSING" /\ u \notin deleted
       THEN /\ deleted' = deleted \cup {u}
            /\ job' = [job EXCEPT ![j] = "SUCCEEDED"]
            /\ lease' = [lease EXCEPT ![j] = NoWorker]
            /\ Rest(w)
       ELSE UNCHANGED <<deleted, job, lease>> /\ WorkerTo(w, "fail")
    /\ UNCHANGED <<intentVars, deadline, hold, claim, derived, verified,
                   storeVars, timeVars>>

\* failClaim keeps the claim of the asset, too.  A job another worker has
\* completed meanwhile cannot fail any more.
SetFailed(w) ==
    LET j == worker[w].job IN
    /\ worker[w].pc = "setFailed"
    /\ IF job[j] \in {"NONE", "SUCCEEDED", "STALE"} THEN UNCHANGED <<job, lease>>
       ELSE /\ job' = [job EXCEPT ![j] = "FAILED"]
            /\ lease' = [lease EXCEPT ![j] = NoWorker]
    /\ Rest(w)
    /\ UNCHANGED <<intentVars, assetVars, verified, storeVars, timeVars>>

\* The process ends: its token is lost, its lease runs on.
CrashWorker(w) ==
    /\ worker[w].pc # "idle"
    /\ Rest(w)
    /\ lease' = [lease EXCEPT ![worker[w].job] = IF @ = w THEN NoWorker ELSE @]
    /\ UNCHANGED <<intentVars, assetVars, job, verified, storeVars, timeVars>>

-----------------------------------------------------------------------------
ConfirmStep(c, u) ==
    \/ ValidateUpload(c, u)    \/ RejectPendingIntent(c, u)
    \/ DiscardRejected(c, u)   \/ LockIntent(c, u)
    \/ CopyObject(c, u)        \/ CommitConfirm(c, u)
    \/ CleanupQuarantine(c, u)

CompletionStep(w, u) ==
    \/ DeleteObjects(w, u) \/ SetVerified(w, u)
    \/ SetSettled(w, u)    \/ SetDeleted(w, u)

WorkerStep(w) ==
    ReadLease(w) \/ SetFailed(w) \/ \E u \in Uploads : CompletionStep(w, u)

ClaimJob(w, u) ==
    \/ ClaimUploadIntent(w, u)
    \/ \E d \in Ticks : ClaimAsset(w, u, d) \/ SkipAsset(w, u, d)

OrderStep(u) ==
    \/ RecordArtifact(u) \/ HoldAsset(u) \/ EndClaim(u)
    \/ \E d \in Ticks : ExtendDeadline(u, d) \/ EndOrder(u, d)

StoreStep(u) == PutLands(u) \/ CopyEnds(u) \/ SweepExpiredQuarantine(u)

Next ==
    \/ \E u \in Uploads :
        \/ InitiateUpload(u) \/ ExpirePendingIntent(u) \/ BeginPut(u)
        \/ IntentExpires(u)  \/ StoreStep(u)           \/ OrderStep(u)
        \/ \E c \in Requests :
              BeginConfirm(c, u) \/ ConfirmStep(c, u) \/ AbandonConfirm(c, u)
        \/ \E w \in Workers : ClaimJob(w, u) \/ DeleteFails(w, u)
    \/ \E w \in Workers : WorkerStep(w) \/ CrashWorker(w)
    \/ \E j \in Jobs : RecoverLease(j)
    \/ ClockTicks

Spec == Init /\ [][Next]_vars

\* Fairness: time passes, the store answers, every request ends, a worker that
\* runs goes on, a due job is eventually taken up, a lost lease is eventually
\* recovered; and from some moment on no worker dies, no deletion fails and no
\* lease runs out under a worker that is still at work on it.
Disturbance ==
    \/ \E w \in Workers, u \in Uploads : DeleteFails(w, u)
    \/ \E w \in Workers : CrashWorker(w)
    \/ \E j \in Jobs : lease[j] # NoWorker /\ RecoverLease(j)

Fairness ==
    /\ WF_vars(ClockTicks)
    /\ \A u \in Uploads :
        /\ WF_vars(IntentExpires(u)) /\ WF_vars(PutLands(u))
        /\ WF_vars(CopyEnds(u))      /\ WF_vars(SweepExpiredQuarantine(u))
        /\ SF_vars(\E w \in Workers : ClaimJob(w, u))
    /\ \A c \in Requests :
        WF_vars(\E u \in Uploads : ConfirmStep(c, u) \/ AbandonConfirm(c, u))
    /\ \A w \in Workers : WF_vars(WorkerStep(w))
    /\ \A j \in Jobs : WF_vars(RecoverLease(j) /\ lease[j] = NoWorker)
    /\ <>[][~ Disturbance]_vars

FairSpec == Spec /\ Fairness

-----------------------------------------------------------------------------
(* Properties.                                                              *)

Keys == {"quarantine", "final", "derived"}
RequestLabels == {"idle", "head", "lock", "reject", "discard", "copy", "commit",
                  "cleanup"}
WorkerLabels == {"idle", "delete", "complete", "fail", "setVerified",
                 "setSettled", "setDeleted", "setFailed"}

\* Every variable keeps its type, and whoever is at work has something to
\* work on.
TypeOK ==
    /\ intent \in [Uploads -> {"NONE", "PENDING", "GONE"} \cup Terminal]
    /\ deadline \in [Uploads -> 0..MaxDeadline]
    /\ claim \in [Uploads -> 0..MaxDeadline]
    /\ hold \in SUBSET Uploads /\ deleted \in SUBSET Uploads
    /\ derived \in SUBSET Uploads /\ verified \in SUBSET Uploads
    /\ job \in [Jobs -> {"NONE", "PENDING", "PROCESSING", "SUCCEEDED", "STALE",
                         "FAILED"}]
    /\ lease \in [Jobs -> Workers \cup {NoWorker}]
    /\ worker \in [Workers -> [pc : WorkerLabels, job : Jobs \cup {<<>>},
                               keys : SUBSET Keys]]
    /\ \A w \in Workers : worker[w].pc # "idle" => worker[w].job \in Jobs
    /\ request \in [Requests -> [pc : RequestLabels,
                                 upload : Uploads \cup {NoUpload}]]
    /\ objects \in [Uploads -> SUBSET Keys]
    /\ streaming \in SUBSET Uploads /\ flying \in SUBSET Uploads
    /\ expired \in SUBSET Uploads
    /\ clock \in 0..MaxDeadline

\* The bytes of a confirmed upload, and the artifacts recorded for it, stay in
\* the store until its asset is claimed for deletion, whatever rejections,
\* expiries, upload cleanups and stale workers of older jobs are under way.
BytesRetained ==
    \A u \in Uploads :
        Asset(u) /\ claim[u] = 0 =>
            /\ "final" \in objects[u]
            /\ u \in derived => "derived" \in objects[u]

\* A worker that may still delete the bytes of an asset, even one that lost
\* its lease long ago, does it for a deadline that is still the asset's own,
\* has passed, and is not held.
DeletionLicensed ==
    \A w \in Workers :
        worker[w].pc = "delete" /\ worker[w].job[2] # 0 =>
            LET u == worker[w].job[1] IN
            Asset(u) /\ u \notin hold /\ deadline[u] = worker[w].job[2] /\ Due(u)

\* Nothing is left behind: neither the final object of an upload whose intent
\* is gone, nor the bytes or the artifacts of a deleted asset.
NothingLeftBehind ==
    \A u \in Uploads :
        /\ intent[u] = "GONE" => "final" \notin objects[u] /\ u \notin flying
        /\ u \in deleted => objects[u] \subseteq {"quarantine"}

\* Deletion is neither too eager nor too lazy: licensed while it is being done
\* and complete once it is recorded (RetentionWorker, StorageCleanup).
DeletionsSound == DeletionLicensed /\ NothingLeftBehind

\* A due asset that no order holds is deleted, unless an order takes it.
DueIsDeleted ==
    \A u \in Uploads :
        Asset(u) /\ Due(u) /\ u \notin hold ~> u \in deleted \/ u \in hold
=============================================================================
