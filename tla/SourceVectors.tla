---------------------------- MODULE SourceVectors ----------------------------
(***************************************************************************)
(* One source document, from its upload to the erasure of its vectors: the *)
(* builds of its index (source_service.py, index_artifacts.py), the ledger *)
(* of vector projections and of the operations on them                     *)
(* (vector_projection_service.py) and the cleanup of a revoked document    *)
(* (projection_cleanup.py), in the deployment with Qdrant.                 *)
(*                                                                         *)
(* One index writer process holds the writer lock and executes one job at  *)
(* a time.  It sends a mutation to Qdrant outside any transaction: a       *)
(* request whose answer was not seen may be executed at any later time, or *)
(* never.  The ledger cannot see that; it only records that an operation   *)
(* began and whether its answer confirmed it.                              *)
(***************************************************************************)
EXTENDS Naturals, FiniteSets

CONSTANTS
    MaxBuilds,    \* bound on the uploads and reindexes of the document
    MaxAttempts,  \* quiz_tasks.max_attempts of an ingest job
    Batches,      \* the batches of vectors every attempt writes: 1..Batches
    NoKey,        \* the value of cur while the writer works on no projection
    MaxExits      \* bound on the exits of the writer process

ASSUME BuildAssumption == MaxBuilds \in Nat \ {0} /\ MaxAttempts \in Nat \ {0}
ASSUME BatchAssumption == Batches \in Nat \ {0} /\ MaxExits \in Nat

Builds == 1..MaxBuilds

\* A projection belongs to one attempt of one build: the attempt id is made of
\* the attempt and its lease token.
Keys == Builds \X (1..MaxAttempts)

ASSUME KeyAssumption == NoKey \notin Keys

VARIABLES
    deleted, revision,  \* kb_documents.deleted_at and document_revision
    active,             \* kb_documents.active_build_id, 0 if there is none
    winner,             \* kb_index_builds.published_attempt_id, 0 if none
    cleaned,            \* kb_index_builds.status is 'deleted'
    job, attempt,       \* the ingest job of each build
    projection,         \* rag_vector_projections.status
    archived, verified, \* archive_json and verified_json are set
    emptied,            \* the last finished delete is later than every write
    operation,          \* the unfinished, unrecovered operation of a projection
    executor,           \* what is known of the process that began it
    receipt,            \* unfinished rag_execution_receipts of an ingest attempt
    files,              \* the local files of an attempt: intent, archive, indexes
    stored,             \* the batches of a projection that Qdrant holds
    requests,           \* the mutations sent to Qdrant and not executed
    \* the writer process: its place, its projection, its next batch, and the
    \* projections a cleanup has still to delete
    pc, cur, batch, todo,
    exits

document == <<deleted, revision, active, winner, cleaned>>
jobs     == <<job, attempt>>
registry == <<projection, archived, verified, emptied>>
ledger   == <<operation, executor, receipt>>
qdrant   == <<stored, requests>>
writer   == <<pc, cur, batch, todo>>
vars     == <<document, jobs, registry, ledger, files, qdrant, writer, exits>>

Building == {"admitting", "registering", "storing", "attaching", "writing", "sending",
             "recording", "publishing"}
Cleaning == {"cleaning", "deleting", "erasing", "confirming", "finishing"}
Request  == [key : Keys, kind : {"write"}, batch : 1..Batches]
              \cup [key : Keys, kind : {"delete"}, batch : {0}]

TypeOK ==
    /\ deleted \in BOOLEAN
    /\ revision \in 0..MaxBuilds + 1
    /\ active \in 0..MaxBuilds
    /\ winner \in [Builds -> 0..MaxAttempts]
    /\ cleaned \in BOOLEAN
    /\ job \in [Builds -> {"absent", "pending", "running", "ended"}]
    /\ attempt \in [Builds -> 0..MaxAttempts]
    /\ projection \in [Keys -> {"absent", "writing", "ready", "deleting", "deleted"}]
    /\ archived \in [Keys -> BOOLEAN]
    /\ verified \in [Keys -> BOOLEAN]
    /\ emptied \in [Keys -> BOOLEAN]
    /\ operation \in [Keys -> {"none", "write", "delete"}]
    /\ executor \in [Keys -> {"alive", "exited", "flushed"}]
    /\ receipt \in [Keys -> {"none", "alive", "exited"}]
    /\ files \in [Keys -> BOOLEAN]
    /\ stored \in [Keys -> SUBSET (1..Batches)]
    /\ requests \subseteq Request
    /\ pc \in {"idle", "closing", "down"} \cup Building \cup Cleaning
    /\ cur \in Keys \cup {NoKey}
    /\ batch \in 1..Batches + 1
    /\ todo \subseteq Keys
    /\ exits \in 0..MaxExits

Init ==
    /\ deleted = FALSE /\ revision = 0 /\ active = 0 /\ cleaned = FALSE
    /\ winner = [b \in Builds |-> 0]
    /\ job = [b \in Builds |-> "absent"]
    /\ attempt = [b \in Builds |-> 0]
    /\ projection = [k \in Keys |-> "absent"]
    /\ archived = [k \in Keys |-> FALSE]
    /\ verified = [k \in Keys |-> FALSE]
    /\ emptied = [k \in Keys |-> FALSE]
    /\ operation = [k \in Keys |-> "none"]
    /\ executor = [k \in Keys |-> "alive"]
    /\ receipt = [k \in Keys |-> "none"]
    /\ files = [k \in Keys |-> FALSE]
    /\ stored = [k \in Keys |-> {}]
    /\ requests = {}
    /\ pc = "idle" /\ cur = NoKey /\ batch = 1 /\ todo = {}
    /\ exits = 0

-----------------------------------------------------------------------------
Goto(place) == pc' = place

\* locked_job: the writer's attempt still owns the ingest job of its build.
OwnsJob(k) == job[k[1]] = "running" /\ attempt[k[1]] = k[2]

AnyRevision(k) == ~deleted   \* faulty: document_revision is not compared

\* The source was neither revoked nor rebuilt since the job was enqueued.
SourceUnchanged(k) == ~deleted /\ revision = k[1]

\* _check_writer in a transaction of an ingest execution.
MayWrite(k) == OwnsJob(k) /\ SourceUnchanged(k)

\* assert_document_drained: no execution and no operation is unaccounted for.
Drained == \A k \in Keys : receipt[k] = "none" /\ operation[k] = "none"

-----------------------------------------------------------------------------
(* The API processes and the queue.                                        *)

\* upload_document and reindex_document: a new build of a new revision.
AddBuild ==
    /\ ~deleted
    /\ revision < MaxBuilds
    /\ revision' = revision + 1
    /\ job' = [job EXCEPT ![revision + 1] = "pending"]
    /\ UNCHANGED <<deleted, active, winner, cleaned, attempt, registry, ledger, files,
                   qdrant, writer, exits>>

\* revoke_document.  The running jobs are cancelled later, outside it.
Revoke ==
    /\ ~deleted
    /\ revision > 0
    /\ deleted' = TRUE
    /\ revision' = revision + 1
    /\ UNCHANGED <<active, winner, cleaned, jobs, registry, ledger, files, qdrant,
                   writer, exits>>

\* The filter of claim_job and fail_job.
HasAttempts(b) == attempt[b] < MaxAttempts

\* The job is cancelled, fails or passes its deadline, or its lease expires.
LoseJob(b) ==
    /\ \/ job[b] \in {"pending", "running"} /\ job' = [job EXCEPT ![b] = "ended"]
       \/ job[b] = "running" /\ HasAttempts(b) /\ job' = [job EXCEPT ![b] = "pending"]
    /\ UNCHANGED <<document, attempt, registry, ledger, files, qdrant, writer, exits>>

-----------------------------------------------------------------------------
(* An ingest execution.                                                    *)

\* claim_job by the idle writer.
Claim(b) ==
    /\ pc = "idle"
    /\ job[b] = "pending" /\ HasAttempts(b)
    /\ job' = [job EXCEPT ![b] = "running"]
    /\ attempt' = [attempt EXCEPT ![b] = @ + 1]
    /\ cur' = <<b, attempt[b] + 1>>
    /\ batch' = 1
    /\ Goto("admitting")
    /\ UNCHANGED <<document, registry, ledger, files, qdrant, todo, exits>>

\* execution_receipt.
Admit ==
    /\ pc = "admitting"
    /\ OwnsJob(cur)
    /\ receipt' = [receipt EXCEPT ![cur] = "alive"]
    /\ Goto("registering")
    /\ UNCHANGED <<document, jobs, registry, operation, executor, files, qdrant, cur,
                   batch, todo, exits>>

\* register_candidate, before anything is written anywhere.
Register ==
    /\ pc = "registering"
    /\ MayWrite(cur)
    /\ projection[cur] \notin {"deleting", "deleted"}
    /\ projection' = [projection EXCEPT ![cur] = IF @ = "absent" THEN "writing" ELSE @]
    /\ Goto("storing")
    /\ UNCHANGED <<document, jobs, archived, verified, emptied, ledger, files, qdrant,
                   cur, batch, todo, exits>>

\* The attempt's intent and its archive of source vectors.
Store ==
    /\ pc = "storing"
    /\ files' = [files EXCEPT ![cur] = TRUE]
    /\ Goto("attaching")
    /\ UNCHANGED <<document, jobs, registry, ledger, qdrant, cur, batch, todo, exits>>

\* attach_archive.
Attach ==
    /\ pc = "attaching"
    /\ MayWrite(cur)
    /\ projection[cur] \notin {"absent", "deleting", "deleted"}
    /\ archived' = [archived EXCEPT ![cur] = TRUE]
    /\ Goto("writing")
    /\ UNCHANGED <<document, jobs, projection, verified, emptied, ledger, files, qdrant,
                   cur, batch, todo, exits>>

\* begin_operation and the request, which the network may lose.
Begin(kind, n) ==
    /\ operation[cur] = "none"
    /\ operation' = [operation EXCEPT ![cur] = kind]
    /\ executor' = [executor EXCEPT ![cur] = "alive"]
    /\ requests' = requests \cup {[key |-> cur, kind |-> kind, batch |-> n]}

BeginWrite ==
    /\ pc = "writing"
    /\ batch <= Batches
    /\ MayWrite(cur)
    /\ projection[cur] = "writing" /\ archived[cur]
    /\ Begin("write", batch)
    /\ emptied' = [emptied EXCEPT ![cur] = FALSE]
    /\ Goto("sending")
    /\ UNCHANGED <<document, jobs, projection, archived, verified, receipt, files, stored,
                   cur, batch, todo, exits>>

Applied(r) == stored' = [stored EXCEPT ![r.key] =
                           IF r.kind = "write" THEN @ \cup {r.batch} ELSE {}]

\* write_attempt answers "completed": finish_operation.
Written ==
    LET r == [key |-> cur, kind |-> "write", batch |-> batch] IN
    /\ pc = "sending"
    /\ r \in requests
    /\ requests' = requests \ {r}
    /\ Applied(r)
    /\ operation' = [operation EXCEPT ![cur] = "none"]
    /\ batch' = batch + 1
    /\ Goto("writing")
    /\ UNCHANGED <<document, jobs, registry, executor, receipt, files, cur, todo, exits>>

\* verify_attempt reads every point back.
AllStored(k) == stored[k] = 1..Batches

Verify ==
    /\ pc = "writing"
    /\ batch > Batches
    /\ AllStored(cur)
    /\ Goto("recording")
    /\ UNCHANGED <<document, jobs, registry, ledger, files, qdrant, cur, batch, todo, exits>>

\* record_verified.
Record ==
    /\ pc = "recording"
    /\ MayWrite(cur)
    /\ projection[cur] \notin {"absent", "deleting", "deleted"}
    /\ operation[cur] = "none"
    /\ verified' = [verified EXCEPT ![cur] = TRUE]
    /\ Goto("publishing")
    /\ UNCHANGED <<document, jobs, projection, archived, emptied, ledger, files, qdrant,
                   cur, batch, todo, exits>>

\* publish_build and publish_candidate inside complete_job.
Publish ==
    LET b == cur[1] IN
    /\ pc = "publishing"
    /\ MayWrite(cur)
    /\ projection[cur] \in {"writing", "ready"} /\ verified[cur]
    /\ operation[cur] = "none"
    /\ projection' = [projection EXCEPT ![cur] = "ready"]
    /\ active' = b
    /\ winner' = [winner EXCEPT ![b] = cur[2]]
    /\ job' = [job EXCEPT ![b] = "ended"]
    /\ Goto("closing")
    /\ UNCHANGED <<deleted, revision, cleaned, attempt, archived, verified, emptied,
                   ledger, files, qdrant, cur, batch, todo, exits>>

\* Any step of the execution raises, or the execution is cancelled: an operation
\* that was sent stays unconfirmed.
Raise ==
    /\ pc \in Building
    /\ Goto("closing")
    /\ UNCHANGED <<document, jobs, registry, ledger, files, qdrant, cur, batch, todo, exits>>

\* The execution ends, and its receipt with it unless that update fails.
Close ==
    /\ pc = "closing"
    /\ receipt' \in {receipt, [receipt EXCEPT ![cur] = "none"]}
    /\ Goto("idle")
    /\ cur' = NoKey
    /\ UNCHANGED <<document, jobs, registry, operation, executor, files, qdrant, batch,
                   todo, exits>>

-----------------------------------------------------------------------------
(* cleanup_document, by the delete job or by the maintenance command.      *)

Registered == {k \in Keys : projection[k] # "absent"}

AnySource == TRUE    \* faulty: the tombstone is not required

\* A source that is still authorized is never cleaned.
Revoked == deleted

StartCleanup ==
    /\ pc = "idle"
    /\ Revoked
    /\ Drained
    /\ \A k \in Keys : files[k] => k \in Registered
    /\ todo' = {k \in Registered : projection[k] # "deleted"}
    /\ Goto("cleaning")
    /\ UNCHANGED <<document, jobs, registry, ledger, files, qdrant, cur, batch, exits>>

\* mark_deleting.
MarkDeleting(k) ==
    /\ pc = "cleaning"
    /\ k \in todo
    /\ projection' = [projection EXCEPT ![k] = IF @ = "deleted" THEN @ ELSE "deleting"]
    /\ cur' = k
    /\ Goto("deleting")
    /\ UNCHANGED <<document, jobs, archived, verified, emptied, ledger, files, qdrant,
                   batch, todo, exits>>

BeginDelete ==
    /\ pc = "deleting"
    /\ projection[cur] = "deleting"
    /\ Begin("delete", 0)
    /\ Goto("erasing")
    /\ UNCHANGED <<document, jobs, registry, receipt, files, stored, cur, batch, todo, exits>>

\* delete_attempt answers, and a second reader sees nothing left.
Erased ==
    LET r == [key |-> cur, kind |-> "delete", batch |-> 0] IN
    /\ pc = "erasing"
    /\ r \in requests
    /\ requests' = requests \ {r}
    /\ Applied(r)
    /\ operation' = [operation EXCEPT ![cur] = "none"]
    /\ emptied' = [emptied EXCEPT ![cur] = TRUE]
    /\ Goto("confirming")
    /\ UNCHANGED <<document, jobs, projection, archived, verified, executor, receipt,
                   files, cur, batch, todo, exits>>

\* mark_deleted.
ConfirmDeleted ==
    /\ pc = "confirming"
    /\ Drained
    /\ projection[cur] \in {"deleting", "deleted"}
    /\ emptied[cur]
    /\ projection' = [projection EXCEPT ![cur] = "deleted"]
    /\ todo' = todo \ {cur}
    /\ cur' = NoKey
    /\ Goto("cleaning")
    /\ UNCHANGED <<document, jobs, archived, verified, emptied, ledger, files, qdrant,
                   batch, exits>>

SkipFailures == TRUE         \* faulty: files go before every backend is empty

\* Every registered projection is deleted before the first file.
EveryBackendEmpty == todo = {}

Unlink ==
    /\ pc = "cleaning"
    /\ EveryBackendEmpty
    /\ files' = [k \in Keys |-> IF k \in Registered THEN FALSE ELSE files[k]]
    /\ Goto("finishing")
    /\ UNCHANGED <<document, jobs, registry, ledger, qdrant, cur, batch, todo, exits>>

\* The last transaction of cleanup_document.
FinishCleanup ==
    /\ pc = "finishing"
    /\ \A k \in Keys : ~files[k]
    /\ cleaned' = TRUE
    /\ active' = 0
    /\ Goto("idle")
    /\ todo' = {}
    /\ UNCHANGED <<deleted, revision, winner, jobs, registry, ledger, files, qdrant,
                   cur, batch, exits>>

\* Any step of the cleanup raises; it will be tried again.
RaiseCleanup ==
    /\ pc \in Cleaning
    /\ Goto("idle")
    /\ cur' = NoKey
    /\ todo' = {}
    /\ UNCHANGED <<document, jobs, registry, ledger, files, qdrant, batch, exits>>

-----------------------------------------------------------------------------
(* Qdrant, the process and the recovery.                                   *)

\* Qdrant executes a request whose answer nobody waits for any more, or nobody
\* has seen yet.
Execute(r) ==
    /\ r \in requests
    /\ requests' = requests \ {r}
    /\ Applied(r)
    /\ UNCHANGED <<document, jobs, registry, ledger, files, writer, exits>>

Lose(r) ==
    /\ r \in requests
    /\ requests' = requests \ {r}
    /\ UNCHANGED <<document, jobs, registry, ledger, files, stored, writer, exits>>

\* The process ends between two of its steps, by a crash or a stop.
Exit ==
    /\ pc # "down"
    /\ exits < MaxExits
    /\ exits' = exits + 1
    /\ Goto("down")
    /\ cur' = NoKey
    /\ todo' = {}
    /\ receipt' = [k \in Keys |-> IF receipt[k] = "alive" THEN "exited" ELSE receipt[k]]
    /\ executor' = [k \in Keys |-> IF executor[k] = "alive" THEN "exited" ELSE executor[k]]
    /\ UNCHANGED <<document, jobs, registry, operation, files, qdrant, batch>>

StartWriter ==
    /\ pc = "down"
    /\ Goto("idle")
    /\ UNCHANGED <<document, jobs, registry, ledger, files, qdrant, cur, batch, todo, exits>>

\* Qdrant restarts: no request is under way after it, executed or not.
RestartQdrant ==
    /\ requests = {}
    /\ executor' = [k \in Keys |-> IF executor[k] = "exited" THEN "flushed" ELSE executor[k]]
    /\ UNCHANGED <<document, jobs, registry, operation, receipt, files, qdrant, writer, exits>>

ExitIsEnough(k) == executor[k] # "alive"    \* faulty: no restart of Qdrant

\* What the proof must show of the operation of k: its process exited, and
\* Qdrant was restarted after that.
Retired(k) == executor[k] = "flushed"

\* recover_after_exit: all unfinished executions and operations, or none.
Recover ==
    /\ ~Drained
    /\ \A k \in Keys : receipt[k] # "alive"
    /\ \A k \in Keys : operation[k] # "none" => Retired(k)
    /\ receipt' = [k \in Keys |-> "none"]
    /\ operation' = [k \in Keys |-> "none"]
    /\ emptied' = [k \in Keys |-> emptied[k] /\ operation[k] # "write"]
    /\ UNCHANGED <<document, jobs, projection, archived, verified, executor, files,
                   qdrant, writer, exits>>

-----------------------------------------------------------------------------
Ingest ==
    \/ Admit \/ Register \/ Store \/ Attach \/ BeginWrite \/ Written
    \/ Verify \/ Record \/ Publish \/ Raise \/ Close

Cleanup ==
    \/ StartCleanup \/ BeginDelete \/ Erased \/ ConfirmDeleted
    \/ Unlink \/ FinishCleanup \/ RaiseCleanup
    \/ \E k \in Keys : MarkDeleting(k)

Next ==
    \/ AddBuild \/ Revoke
    \/ \E b \in Builds : LoseJob(b) \/ Claim(b)
    \/ Ingest \/ Cleanup
    \/ \E r \in requests : Execute(r) \/ Lose(r)
    \/ Exit \/ StartWriter \/ RestartQdrant \/ Recover

Spec == Init /\ [][Next]_vars

-----------------------------------------------------------------------------
(* Correctness.                                                            *)

\* Once the ledger says that a projection is deleted, Qdrant holds nothing of it
\* and no request that is still under way can bring it back (mark_deleted,
\* recover_after_exit: a cancelled client request does not undo its effect).
DeletedIsGone ==
    \A k \in Keys : projection[k] = "deleted" =>
        /\ stored[k] = {}
        /\ \A r \in requests : r.key = k => r.kind = "delete"

\* The projection that searches of a live document use is complete, and nothing
\* under way can take vectors from it (publish_candidate, require_ready).
ActiveIsComplete ==
    active # 0 /\ ~deleted =>
        LET k == <<active, winner[active]>> IN
        /\ projection[k] = "ready" /\ stored[k] = 1..Batches
        /\ \A r \in requests : r.key = k => r.kind = "write"

\* The archive of the source vectors and the intent of an attempt outlive its
\* vectors: whatever Qdrant holds or may still receive can be found and deleted
\* by a later cleanup (projection_cleanup.py, line 1).
FilesOutliveVectors ==
    \A k \in Keys :
        stored[k] # {} \/ (\E r \in requests : r.key = k /\ r.kind = "write") => files[k]

\* After a cleanup was reported complete no attempt has files or vectors left,
\* and late requests and restarted jobs bring none back (cleanup_document).
CleanedIsEmpty ==
    cleaned => \A k \in Keys : /\ ~files[k] /\ stored[k] = {}
                               /\ \A r \in requests : r.kind = "delete"

\* No cleanup misses anything: what it has to find stays findable until it is
\* gone, and what was reported clean stays clean (cleanup_document).
CleanupMissesNothing == FilesOutliveVectors /\ CleanedIsEmpty

\* A late build never replaces a newer one, and a revoked document is never
\* published again (the compare-and-set on document_revision in publish_build).
NewestWins == [][active' # active => active' = 0 \/ (active' > active /\ ~deleted)]_active
=============================================================================
