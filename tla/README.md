# Verification project for Xunke AI (循课 AI)

TLA+ models, TLC runs and TLAPS proofs for the backend of Xunke AI, a learning
platform that turns uploaded sources into courses, quizzes and answers with
language models. The models are translated from the code under `src/`; every
definition that models code is listed in `PROJECT.json` (`map`) with the lines it
stands for.

## 1. The system

The backend (`src/backend/app`, FastAPI and MySQL) runs as several processes
that share one database:

* **API processes** (`api/`, `services/`): authorize a request, write business
  rows and enqueue work. They never call a model for long work themselves.
* **Workers** (`workers/rag_owner.py`, `workers/roles.py`): poll the queue table
  `quiz_tasks`. In the Qdrant deployment there is one *writer*, which ingests and
  deletes documents, builds quizzes and maintains the queue, and two
  *generation* workers, which answer questions and write courses. In the light
  deployment a single owner does everything and keeps vectors in Chroma.
* **Evaluation scorer** (`src/evaluation`, `services/evaluation_scoring.py`): a
  separate process that claims evaluation results over the API.
* **MySQL** holds every fact; **Qdrant** (or Chroma) holds vectors, local files
  hold sources and archives, **Redis** only wakes readers and limits bursts.
* **React web** (`src/web`): polls, or follows a task over server-sent events.

### Components

| Component | State | Operations | Interacts through | What is hard | What makes it correct |
|---|---|---|---|---|---|
| Durable job queue (`job_service`, `rag_owner`) | `quiz_tasks` rows: status, stage, attempt, lease, deadline; the worker's copy of a job | enqueue, claim, heartbeat, complete, fail, cancel, finalize, reconcile, resume | MySQL row locks; business tables in the publisher's transaction | leases that expire under a live worker, stale lists, crashes between transactions | one result per task, an end is final, business records follow their task, everything ends |
| Public task events (`task_event_service`) | `task_public_events`, `public_event_seq` | append in the task's transaction, purge | read by the stream | an update of the row without its event | the log tells the row |
| Task stream (`task_event_stream`, `task_event_notifier`, `web/.../taskEvents.ts`) | the generator's cursor and row copy, the page's cursor | snapshot, read, wait, reset, reconnect | lossy notifications, FIFO connection | two reads of a changing row, purged events, reconnects, lost wakes | no hole, no splice of attempts, every page ends |
| Provider call ledger (`provider_meter`, `budget_service`) | `provider_calls`, `budget_accounts`, `budget_reservations` | reserve, call, settle, mark unknown | account row locks under REPEATABLE READ | snapshot older than the lock, lost COMMIT answers, crashed calls | quotas, balanced accounts, unknown charges are held |
| Charge reconciliation (`reconciliation_service`) | `budget_reconciliations` | reconcile a charge by hand | the same accounts | a call that is still running | a closed reservation stays closed |
| Source documents (`source_service`, `rag/index_artifacts`) | `kb_documents`, builds, versions, files | upload, reindex, publish, revoke, clean up | ingest and delete jobs | a build that ends after a newer one or after revocation | newest revision wins, revoked is never readable |
| Vector projections (`vector_projection_service`, `rag/projection_cleanup`) | projections, operations, execution receipts | register, write, verify, publish, delete, recover | Qdrant requests outside any transaction | requests whose answer is lost may be executed later | nothing of a deleted source survives, an active projection is complete |
| Private content previews (`content_event_service`, `content_event_stream`) | heads and frames per attempt | append, close, purge, read | the queue's transactions, SSE | two attempts write, the close is a separate transaction that may be lost | frames of one revision only, previews end |
| Evaluation runs and datasets (`evaluation_service`, `eval_dataset_service`) | `eval_runs`, `eval_results`, datasets | create, resume, cancel, freeze, revoke | sample tasks of the queue | resume races with reconciliation, a revoked source | counts agree with samples |
| Evaluation scoring (`evaluation_scoring`) | scoring lease and attempt of a result, call journal | claim, heartbeat, complete, fail, journal | HTTP of an external scorer | a second lease on the same row, lost answers, replays | one accepted score per attempt, journal matches it |
| Accounts and mail codes (`auth_service`, `email_verification`) | challenges, quotas, identities | send, check, consume, register, reset | SMTP outside the transaction | two sends, a late delivery result, guesses across resends | five guesses per window, a code is used once |
| Reminders (`learning_notification_service`) | outbox rows, in-app reminders | enqueue, deliver | SMTP, under the lock of the maintenance command | a crash between the mail and its record | no delivery after the preference is withdrawn |
| Learning events and projections (`learning_event_service`, `learning_projection_service`, `review_service`) | event outbox, receipts, mastery, review occurrences | record, project, claim review | the row lock of the learning space, projection jobs | late, reordered, failed and repeated events, superseded grades, the learner's own dates | the schedule is a function of the history, one occurrence per activity |
| Practice and grading (`practice_service`, `practice_grading_service`) | sets, answers, grades | answer, grade, review | jobs | late model grade after a human review | a grade belongs to the answer it graded |
| Courses and their revisions (`course_service`, `course_revision_service`, `course_job`) | courses, lessons, revision requests, snapshots | create, generate, edit the outline, preview, start, apply, reconcile, purge | row locks, jobs and publishers | a page that applies what is no longer so, a job that dies, a candidate beside a readable lesson | a revision replaces what was previewed by what was shown; no lesson waits for a dead job |
| Teaching (`teaching/graph`, `teaching_quality_service`, `course_job`) | quality run, slots, checkpoint of the graph | draft, validate, repair, review, recheck, seal, purge, sweep | provider calls between transactions | a crash between a call and its record, a removal beside an insert | no call is made twice, a required review is of the very draft that is published, nothing private stays |
| Assessment of a course (`course_assessment_service`, `course_application_*`, `course_feedback_service`) | the check, its answers, their feedback jobs and chains of grades | create, answer, ask for feedback, grade, review, complete, purge | row locks, jobs and publishers | overlapping requests on old snapshots, jobs swept late, a human review beside a job | one chain of grades that ends in the head, jobs and grades agree, a seal names all answers |
| Questions and answers, quizzes (`qa_*`, `quiz_*`), tutoring of a course | sessions, messages, quizzes | ask, generate, publish | jobs and publishers | those of the queue | published content matches its request |
| Quiz images (`image_job_service`) | `image_operations` | submit, poll, publish | external image API | a submission with unknown outcome, a lost COMMIT | at most one submission, a published file exists |
| Rate limiting (`rate_limit_service`, Lua) | Redis buckets | check burst | Redis, fallback in the process | Redis failing | the burst bound |
| Retention and maintenance (`maintenance`) | deletion intents, tombstones | queue, drain, retry cleanup | files | a crash between the row and the file | no referenced file is removed |
| Vector migration (`vector_migration_service`) | migration run, switch | copy, verify, switch, restore | Qdrant and Chroma | writers during the copy | the switch shows complete copies |
| Retrieval engine and model adapters (`rag/`, `llm/`, `prompts/`, `practice/pipeline`) | none across requests | retrieve, fuse, generate, validate | provider ledger | none of concurrency | pure functions and adapters |
| Web pages, evaluation tooling, deployment | browser state; reports; configuration | - | HTTP | - | - |

`PROJECT.json` says for each component how much of it is modelled, and lists the
hazards of the code with their lines. The hazards are what the properties are for.

## 2. The modules

| Module | Models | Kind |
|---|---|---|
| `TaskLifecycle` | what the queue promises to the owner of a task | abstract specification |
| `TaskLog` | what the public log of one task promises to its readers | abstract specification |
| `JobQueue` | `job_service`, `task_event_service`, the loop of `rag_owner` | detailed; implements `TaskLifecycle` (`Refines`) and `TaskLog` (`KeepsLogs`) |
| `MCJobQueue` | workers and roles of the two deployments | instance for TLC |
| `JobQueueProofs` | theorems of `JobQueue` | proofs |
| `JobQueueRefinement` | `JobQueue` implements `TaskLifecycle` | proofs |
| `EvaluationRun` | `evaluation_service`, `evaluation_scoring` and the scorer of `src/evaluation` | extends `JobQueue`: a run of one sample, from its job to its score |
| `MCEvaluationRun` | the owner of the light deployment | instance for TLC |
| `ProviderBudget` | `provider_meter.call_external`, `budget_service`, `reconciliation_service` | detailed |
| `ProviderBudgetProofs` | theorems of `ProviderBudget` | proofs |
| `MCProviderBudget` | accounts, prices and tasks of the runs | instance for TLC |
| `TaskStream` | `task_event_stream`, `task_event_notifier`, `taskEvents.ts` | extends `TaskLog`: the stream of any log that keeps that promise |
| `MCStreams` | a behaviour of `TaskStream` or one of `ContentPreview` | instance for TLC, with their fairness |
| `StreamProofs` | theorems of `TaskStream` and `ContentPreview` | proofs |
| `SourceVectors` | `source_service`, `vector_projection_service`, `projection_cleanup`, `index_artifacts` and Qdrant | detailed |
| `SourceVectorsProofs` | theorems of `SourceVectors` | proofs |
| `ContentPreview` | `content_event_service`, `content_event_stream`, `contentEvents.ts`, the end of `revoke_document` | detailed |
| `AccountCodes` | `email_verification`, `auth_service` | detailed |
| `ReviewSchedule` | `learning_event_service`, `learning_projection_service`, `review_service`, the binding of `practice_service` | detailed |
| `MCLearner` | a behaviour of `AccountCodes` or of `ReviewSchedule` | instance for TLC |
| `LearnerProofs` | theorems of `AccountCodes` and `ReviewSchedule` | proofs |
| `PracticeGrading` | `practice_grading_service`, `practice_grading_job` | detailed |
| `PracticeGradingProofs` | theorems of `PracticeGrading` | proofs |
| `QuizImages` | `image_job_service`, the pictures in `cleanup_document`, `maintenance.sweep_orphans` | detailed |
| `TeachingRun` | `teaching/graph`, `teaching_quality_service`, `course_job.run_course` | detailed |
| `CourseAssessment` | `course_assessment_service`, `course_application_service`, `course_application_job`, the review in `course_feedback_service` | detailed |
| `MCLearningJobs` | a behaviour of `PracticeGrading`, of `QuizImages`, of `TeachingRun` or of `CourseAssessment` | instance for TLC, with the fairness of a course job |
| `LearningJobsProofs` | theorems of `TeachingRun`, `QuizImages`, `CourseAssessment` and of `MCLearningJobs` | proofs |
| `CourseLessons` | `course_service`, `course_revision_service`, the publisher and the reconciliation of `course_job` | detailed |
| `MCDocuments` | a behaviour of `SourceVectors` or of `CourseLessons` | instance for TLC, with the fairness of a course |

`JobQueue` and `TaskStream` are composed through `TaskLog`: the queue is shown to
append to a log that way, and the stream is checked over every log appended that
way. `EvaluationRun` contains the whole queue: each step of a worker of `JobQueue` is
a step of the run together with what its publisher or its reconciliation does to
the result. `PracticeGrading`, `QuizImages`,
`ContentPreview`, `TeachingRun`, `CourseAssessment` and `CourseLessons` see of the queue what
`TaskLifecycle` and `SoleOwner` promise (a task is pending, running or ended, each claim
is a new attempt, only the holder of the latest attempt passes `locked_job`), which
`JobQueueRefinement` and `JobQueueProofs` prove. `CourseLessons` sees of `TeachingRun` that a job
either publishes one draft or ends without.

The modules `MCStreams`, `MCDocuments`, `MCLearner` and `MCLearningJobs` check components that share no
state side by side: `kind` (or `concern`) is chosen at the start, and a behaviour is about one of them.

### JobQueue

One action is one MySQL transaction or one step of a worker between two
transactions. Row locks make a transaction on one task atomic. What a worker read
earlier is a local copy: `held`, `heldAttempt` (the claimed job, with its token) and
`todo` (the list of rows `reconcile` selected). `claim_job` draws one token per
attempt, so the attempt number stands for the token; `leaseToken` is 0 for NULL.

| Code | Action |
|---|---|
| `enqueue_job`, `cancel_job`, `resume_run` | `Enqueue`, `Cancel`, `Resume` |
| `finalize_terminal_rows` | `StatusAfter`, `StageAfter`, ... (inside `Reconcile`, `Claim`, `ClaimNothing`) |
| `reconcile`: first transaction, list, one transaction per row | `Reconcile`, `ListTerminal`, `ReconcileRow` |
| `claim_job` | `Claim`, `ClaimNothing` |
| `heartbeat` with and without a stage, and a failed one | `Report`, `Renew`, `LeaseLost` |
| `complete_job`, `fail_job` | `Complete`, `Fail` |
| exceptions, deadline, shutdown of `run_once` | `Raise`, `TimeOut`, `Stop` |
| the process | `Crash`, `Restart` |

Time is relative: `lease`, `deadline` and `queued` count down to 0 with `Tick`. The
code only compares these columns with now, sets them to now plus a constant or to
the minimum of two, so only differences matter.

Left out: the order and the LIMIT of the queue's SELECTs (any runnable row may be
taken; a skipped locked row is a later step), the vector maintenance gate, the
standing jobs of the writer, and what each kind of business row contains: it is one
record that is open, published or closed.

### ProviderBudget

MySQL runs at its default REPEATABLE READ (`core/db.py` sets no isolation), so a
locking read sees the last committed row and a plain SELECT the snapshot of the
transaction. `reserve_budget` locks its accounts and then checks them with a plain
SELECT; the model therefore takes locks one by one (`Lock`), keeps the snapshot
(`view`) and computes the check from it (`Fits`). The row of the task, which
`locked_job` locks first, is `TaskRowFree`. The provider call happens between the
two transactions (`calling`), and the exception handler is `failing`. A COMMIT
that happened although the caller saw an error is the choice of `next` in `Reserve`
and `Settle`. `Age` is the waiting time of `reconcile_charge` (24 hours): no call or
handler lives that long, because the provider timeouts and the job deadline are
minutes.

Left out: token estimates and prices (a ceiling per call), user-owned models (they
reserve nothing), the accounts of another day (other rows), the transaction of
settlement apart from its locks, and the evidence given to the reconciliation.

### TaskStream

The generator's cycle is two statements: `ReadRow` (authorize, read the row) and
`ReadEvents`; the task, the purge and a revocation may step between them. `signal`
is the wake of `task_event_notifier`, which may be lost; a wait ends by itself
(`TimesOut`). The connection is a FIFO `wire` that may break at any frame (`Drop`).
The page is `subscribeTaskEvents`: it keeps a cursor and reconnects with it.

Left out: the connection gate, the page's polling fallback, and frames too large to
parse.

### SourceVectors

One document, all builds and attempts of it. The writer executes one job at a time
under the writer lock, so there is one program counter `pc` for the process, and
`Exit` stops it anywhere. What a transaction of `vector_projection_service` commits is
one action. A request to Qdrant is an element of `requests` from `Begin` on: it may be
executed now, much later, or be lost (`Execute`, `Lose`), and the ledger does not
see which. `executor` records what an operator could prove about the process that
began an operation: it is alive, it exited, or Qdrant was restarted after it exited.

| Code | Action |
|---|---|
| `upload_document`, `reindex_document`, `revoke_document` | `AddBuild`, `Revoke` |
| `execution_receipt` | `Admit`, `Close` |
| `register_candidate`, `attach_archive` | `Register`, `Attach` |
| files of `build_index_artifacts` | `Store` |
| `recorded_call` of a batch | `BeginWrite`, `Written` or `Raise` |
| `verify_attempt`, `record_verified` | `Verify`, `Record` |
| `publish_build` with `publish_candidate` | `Publish` |
| `cleanup_document`, `purge_registered_document` | `StartCleanup`, `MarkDeleting`, `BeginDelete`, `Erased`, `ConfirmDeleted`, `Unlink`, `FinishCleanup`, `RaiseCleanup` |
| `recover_after_exit` | `Recover` |

Assumed: one process writes and cleans (`.rag-writer.lock`; the maintenance command
takes another lock file, and its script asks to stop the worker first); the evidence
an operator gives to `recover_after_exit` is true; a restart of Qdrant leaves no
request under way. Left out: the Chroma backend, copies for evaluation, migration and
`prepare_rewrite`, and the other data that `cleanup_document` removes.

### ContentPreview

Previews are kept per task; the queue is only what a preview can see of it: who owns
the task (`Owns` is `locked_job`), that it is tried again, ends or is cancelled. An
append is one transaction, so `SendFrame` is one action; the three outcomes are what its
caller sees: refused (the job fails), stored (with the answer lost or not), failed.
`worker` is the `ContentPreview` object of each attempt: a preview that failed once
stays `disabled`. `close_content` is a call of its own after the commit (`closing`) and
may do nothing. The stream's cycle is three statements (`StreamRow`, `StreamHead`,
`StreamFrames`); the frames a round yields arrive at the page together or up to a
break (`Arrive`), which is enough because the page only ever acts on what arrived. Connections may
break without bound: the page counts and gives up after the third break in a row.

| Code | Action |
|---|---|
| `append_content_frame`, `_write`, `ContentPreview._send` | `Refused`, `OutOfOrder`, `Stored`, `WriteFrame`, `SendFrame` |
| `text`, `flush`, `block`; `reset`; an exception in the job | `SendPiece`; `ResetDraft`; `RaiseJob` |
| `complete_job`, `fail_job`, `close_content` | `Complete`, `Fail`, `CloseContent` |
| `purge_content`, its two statements | `PurgeClose`, `PurgeOld` |
| `revoke_document`: mark, cancel tasks, remove previews | `Mark`, `CancelTask`, `PurgeRevoked` |
| `_stream`, `read_content` | `StreamRow`, `StreamHead`, `StreamFrames` |
| `applyContentFrame`, `subscribeContentEvents` | `Apply`, `ShowFrames`, `Interrupted`, `Leave` |

Left out: the connection gate, byte limits (a piece that is too large is one of the
outcomes of `SendFrame`), blocks as a kind of their own (they are pieces), a response that
refuses the connection, and the purge a user may request of all previews.

### AccountCodes

One e-mail address. `send_code` is three steps: `ReserveSend` (transaction), `Deliver`
(the mail server, outside of any), `FinishDelivery` (transaction); any number of them
overlap. The generation of a challenge is the send that made it, so a code is right if
the challenge still is of the send whose mail arrived. `login` reads and verifies a
hash (`LoginVerify`) and locks the row afterwards (`LoginIssue`). The columns of the
challenges are one function of the purpose each.

Left out: quotas and rate limits (a refused request changes nothing), codes that link
a WeChat account, logout and the expiry of sessions.

### EvaluationRun

The job of the sample is `JobQueue` itself with one task that is an evaluation sample.
Around it are the columns of the run and of its result, what `get_run` computed and
has not yet written (`seen`), the second transactions that are still to come
(`refusal`, `exceeded`), one scorer per try and the reports on the network (`net`, a
set that is never emptied: a report may be executed late, and again).

| Code | Action |
|---|---|
| `create_run`, `cancel_run` with its `cancel_job`, `resume_run` | `Create`, `CancelRun`, `CancelJob`, `ResumeRun` |
| `get_run`: read, then write | `Look`, `WriteStatus` |
| `review_result`, `revoke_dataset` | `ReviewResult`, `RevokeDataset` |
| the loop of `rag_owner`, the publisher and reconcile of a sample | `Predict`, `Begin` |
| `claim_scoring`, its last try, its refusal | `ClaimScoring`, `Exhaust`, `Refuse` |
| `_unclaimable` | `Unclaimable` |
| `worker.py`, `store.py` of the scorer | `Answer` |
| `complete_scoring`, `fail_scoring` | `Deliver` |
| `journal_call`, `_stop_run` | `Exceed`, `StopRun` |
| time | `Pass`, `LeaseExpires` |

`create_run` lets the job wait as long as the run lasts, so `queued` also is the deadline
of the run (`Late`). Left out: runs of several samples (their results are other rows;
the run ends when none is open), the metrics, the contents of the call journal, the
statuses `queued` and `scoring` of a run, which differ from `running` only in the display,
and what a replay that is merely acknowledged answers.

Three things the model shows of the code that no document speaks about: a run that was
stopped because its budget was exceeded can be cancelled, which overwrites the reason,
and then be resumed; a claim refused before a cancellation may end the result that
was reopened after it; and `get_run` may write a status that was true before the run
was resumed (the next look corrects it).

### ReviewSchedule

One learning space. Every handler holds its row for the whole transaction, so each is
one action. The *facts* (assessments, completions and their frozen local dates) are
apart from the *projection* (`state`, `reviews`), and between them are the outbox events
(`pending`), which a job executes late, in any order, or loses (`lost`). `Lessons` are the
completions of a concept by their place in the order of the history, `Derive` is the fold of
`schedule_concept` over them; `Synced` is `_sync_occurrence`.

| Code | Action |
|---|---|
| `record_answer`, `record_assessment`, `complete_activity` | `Answer` and `Submit`, `Assess`, `Complete` |
| `project_event` in its job, its last failure | `Project`, `ProjectFails` |
| `reschedule`, `pause`, `resume` | `Reschedule`, `Pause`, `Resume` |
| claim of a batch, publication of the activity, its failure, `reconcile` | `Claim`, `Generated`, `GenerationFails`, `Reconcile` |
| a set or quiz that no review asked for | `Open` |

Days stand for times. Left out: mastery and evidence, the merging of concepts, the
revocation of a source (which cancels occurrences), and requests that are refused.

### PracticeGrading

One short answer, its grading request and all jobs that try to grade it. `names` is
what the request file of a job says (revision and head); `Authorized` is
`authorize_grading_execution`, evaluated again in the transaction of the publisher
(`MayPublish`). `Expire` and `CancelJob` are the ends the queue may give a task without
knowing of the request; `Reconcile` is the sweep that closes the request afterwards.

| Code | Action |
|---|---|
| the answer, the learner's retry, the human review | `Submit`, `Retry`, `Review` |
| `run_practice_grading`: start, model call, publisher | `Start`, `Call`, `Publish` |
| an exception, a lost lease or a crash | `Raise`, `Leave` |
| `reconcile_practice_grading`, the learner's cancellation | `Reconcile`, `CancelPracticeTask` |
| revocation, the scrub of the copies | `Revoke` |

### QuizImages

`run[a]` is where attempt `a` stands in `run_images`; what it does between two
transactions is a step of its own, so the process may stop (`CrashRun`) or the job be
cancelled (`Interrupt`) between any two. Errors that the code answers with a status of
the operation go through `mark`; the others leave `run_images` (`Escape`). A COMMIT whose
answer is lost is the choice in `CommitPicture`; `CheckPublished` is the handler that
looks before it removes a file.

| Code | Action |
|---|---|
| `run_images`, `_set_status`, `call_external` | `BeginImages`, `Look`, `CallProvider`, `SaveAddress`, `Fetch`, `CommitPicture`, `CheckPublished`, `Mark`, `PublishQuiz` |
| queue | `TakeJob`, `LoseLease`, `EndJob`, `LeaveJob`, `ReconcileImages` |
| `revoke_document`, the pictures in `cleanup_document` | `RevokeSource`, `StartCleaning`, `RemoveFile`, `RemoveRow`, `EndCleaning` |
| `sweep_orphans`, `_drain` | `GrowOld`, `QueueOrphan`, `DrainOrphan` |

Assumed: a COMMIT whose answer was lost is decided when the handler reads; no job lasts
a day (the deadline of the job is 180 seconds, the sweep waits 24 hours). Seen in the
model and left as it is: `images_status` is `failed` after a reconciliation although some
pictures may be shown, and a file written before a crash, of a source revoked
afterwards, stays until the operator's sweep.

### TeachingRun

One course job. `turn[a]` is where attempt `a` stands in `run_course` and the state of its graph
(`TeachingAgentState`); `quality` is the row of the run with the checkpoint (`saved`), the text
of its draft and the copy of its sources; `slots` are the rows that `claim_agent_stage` inserts
before each call. A node of the graph that takes a slot, calls a model and saves is three
actions, so the process may stop (`CrashTurn`), the lease be lost or the sources be revoked between
any two. `start_quality_run` reads the course without a lock and inserts later: `BeginRun` and
`StartRun`.

| Code | Action |
|---|---|
| `load_quality_material`, `start_quality_run` | `LoadMaterial`, `BeginRun`, `StartRun` |
| `generate`: its slot, its call; the same as `repair` | `ClaimDraft`, `ClaimRepair`; `CallTeacher` |
| `validate`, `revalidate` | `Validate` |
| `review`, `recheck`: slot, call; `route_after_review` | `ClaimReview`, `CallReviewer`; `RouteAfterReview` |
| `save_quality_checkpoint` after a call | `SaveTurn` (`Checkpoint`) |
| `finish_reviewed`, `finish_unreviewed`; the publisher with `seal_quality_run` | `Finish`; `PublishDraft` |
| an exception or a stop of the worker, `fail_job` | `RaiseTurn`, `LeaveTurn` |
| queue, `mark_quality_terminated`, `cancel_task` | `TakeTicket`, `LoseTicket`, `EndTicket`, `ReconcileTeaching`, `CancelTeaching` |
| `purge_quality_content`, `purge_expired_quality_candidates` | `PurgeMaterial`, `SweepDraft` |

A draft is its `generation_revision`; whether it is valid, what the reviewer says, and whether
the budget leaves room for a repair or a review is a choice. Left out: the sizes and prices of
calls (`ProviderBudget`), the text, evidence and criteria, and the summaries of the graph. `asked`
counts what was sent, `approved` what passed; the code keeps neither.

The model shows that an attempt may insert its run behind the purge of a revoked document, with a
copy of the sources; only the sweep of the next day removes it.

### CourseAssessment

One check at the end of a course. Every transaction locks the course first and the answer last,
so each is one action, but for `create_feedback_job`: `enqueue_job` comes before the locks and makes
the snapshot in which the later plain SELECTs read. `AskFeedback` is its first half (`snapshots` is
what it saw), `BindFeedback` what it does under the locks, with the reconciliation of the dead job it
replaces. `chain` are the rows of `learning_course_application_assessments` of an answer,
`headOf` is `latest_assessment_id`, `feedback` and `awaited` are `feedback_task_id` and `active_task_id`.

| Code | Action |
|---|---|
| `create_course_assessment`, `publish_assessment_quiz`, `complete_quiz` | `AssessmentInit`, `PublishAssessmentQuiz` (`AssessmentQuizDies`), `SettleQuiz` |
| `create_application_job` and its job | `CreateApplicationJob`, `PublishApplications`, `ApplicationJobDies` |
| `submit_application_answer`, `complete_course_assessment` | `SubmitApplicationAnswer`, `CompleteAssessment` |
| `create_feedback_job` | `AskFeedback`, `BindFeedback`, `LeaveFeedback` |
| `run_course_application`: start, model call, publisher with `_append_grade` | `ClaimFeedback`, `CallFeedback`, `PublishFeedback` (`AddGrade`) |
| `fail_job`, `finalize_terminal_rows`, `cancel_application_task`, `reconcile_course_application` | `FailFeedback`, `ExpireFeedback`, `CancelFeedback`, `ReconcileFeedback` |
| `review_application_attempt` | `ReviewAttempt` |
| a new lesson or goal, `revoke_document`, `purge_course_assessments` | `ReplaceLesson`, `RevokeSources`, `PurgeAssessment` |

Left out: the questions and their settlements, scores, the learner's own comments and corrections,
and `get_course_outcomes`, which is a function of the facts. Seen in the model or beside it: of
two overlapping requests the second replaces the job of the first, although `_ReuseCurrent` is
meant to roll the new job back (`course_application_service.py:26`), because its SELECT is older than the
lock; the first job then grades in vain; a review that does not grade (`needs_review`) violates
`ck_course_application_confirmation` (`023_course_outcomes.sql:139`) and is refused with an
error; a check whose quiz was never made stays `generating` in its row; and finding 4.

### CourseLessons

One course with its lessons, all jobs of it and all revisions. Requests and publishers lock the
course row first, so each is one action; the checks `generate_lesson` and `start_revision_jobs`
make before the lock are repeated under it or protected by the number of the course, which they
compare. `course.number` is the column `revision`, `course.plan` the hash of the outline, `holder` the
column `active_task_id`, `last` the column `generation_task_id`. `page` is what the learner sees when he
applies a revision.

| Code | Action |
|---|---|
| `create_course`, `retry_outline`, `generate_lesson`, `update_outline` | `CourseInit`, `RetryOutline`, `GenerateLesson`, `UpdateOutline` |
| `create_revision_preview`, `start_revision_jobs`, `get_revision`, `apply_revision` with `snapshot_lesson` | `PreviewRevision`, `StartRevision`, `ViewRevision`, `ApplyRevision` |
| the publisher of `run_course`: outline with `_preload_first_lesson`, lesson, candidate | `PublishOutline`, `PublishLesson`, `PublishCandidate` |
| `reconcile_course`, `cancel_task` | `ReconcileCourse`, `CancelCourse` |
| `purge_document` | `PurgeCourse` |

Left out: titles (a plan is a number), reading marks, criteria and goals, the tutor, quizzes and
outcomes of a course. Seen in the model and left as it is, since no document speaks about it:

* A candidate job that failed keeps `active_task_id` (`reconcile_course` only closes lessons without
  a text), so the revision cannot be applied until another candidate of that lesson succeeds.
* After a candidate was published, `generate_lesson` without a revision is accepted for the
  published lesson (its `generation_task_id` is NULL): the status becomes `generating`, the job is
  refused because there is a text, and the status stays. `EveryLessonSettles` is therefore about
  courses and about lessons without a text.
* The snapshots and candidates of a revoked course are not purged, and `get_lesson_version`
  (`course_revision_service.py:266`) and `get_revision` (`:129`) return them without authorizing the
  course, while `course_read.py:146` tells the learner that the contents are no longer shown.
* `apply_revision` replaces the text of a lesson and leaves its `evidence_json`.

## 3. The runs

Every passing run explores its state space completely.

| Run | Instance | States | What it shows |
|---|---|---|---|
| `queue_generation` | writer + 2 generation workers, a learning task or an evaluation sample, 2 attempts, 1 crash | 343,848 | every promise of the queue when two workers that never maintain it race with the writer; `TaskLifecycle` and `TaskLog` are implemented; every submitted task is settled |
| `evaluation_owner` | 1 owner, 1 sample, 2 attempts, 2 tries of the scorer, 1 cancellation | 829,270 | the record follows its task also when it is reopened from a stale list; only the holder of the scoring lease decides; a predicted result settles |
| `budget_one_stage` | 3 calls of 2 tasks, one stage | 524,936 | quotas hold when the calls share a `calls` account; the accounts balance, closed stays closed; no lock cycle |
| `budget_strict_task` | 3 calls of 2 attempts of one course task, 1 crash, reconciliation | 43,581 | ceilings of the task hold, a request is only out while it is reserved, none while an earlier outcome is unrecorded |
| `budget_two_stages` | a language model and an embedding call of one day | violated | finding 1 |
| `budget_unknown` | 3 calls, a lost COMMIT answer | violated | finding 2 |
| `streams` | events: 2 attempts, 3 events, batches of 1, 2 broken connections; or preview: 2 attempts, drafts of 4 pieces in all, batches of 1, any number of broken connections | 1,219,868 | what a page shows was true, nothing is skipped; the page shows one draft, and a result only when it is there; nothing is left or comes back after a revocation; every page is told the end |
| `documents` | a document: 2 builds, 2 batches, 2 exits of the writer; or a course: 2 lessons, 5 jobs, 2 revisions, 2 plans | 946,849 | a late build never wins, deletion is true, an active projection is complete; a revision replaces what was previewed by what was shown; no lesson waits for a dead job |
| `learner` | 2 sends, 1 login, 2 wrong codes, 3 passwords; or 3 activities of one concept, 2 of them from reviews, 1 short answer with 2 assessments, 2 quizzes, 2 days, 1 move, 1 lost event | 556,535 | guesses, delivery answers, single use, sessions; the schedule is that of the history; occurrence and concept agree; one occurrence per activity; dates are the learner's |
| `learning_jobs` | a grading (2 workers, 2 jobs of 2 attempts, 1 review), the pictures of a quiz (2 questions, 2 attempts), a course job (2 attempts) or a check (2 answers, 2 feedback jobs, 1 request with a snapshot at a time) | 802,290 | no late grade; no call is paid twice; what is shown is there; only a passed draft is published where a review is required; the record of a check is whole; every request, file and run ends |
| `revised_course` | a course of 1 lesson, 3 jobs, 1 revision | violated | finding 3 |
| `human_grade` | a check with 1 answer and 2 feedback jobs | violated | finding 4 |

### Bounds, and why they are enough

* Queue: a zombie needs a second attempt (2), and a lease shorter than the deadline
  (1 and 2 ticks) to lose the one before the other; three workers are two racing
  executors and the maintainer. The queue is row-local, so one task shows the races
  of a task (`MaxSubmits` = 1: a behaviour submits a learning task or an evaluation
  sample), and the stale list of `reconcile` is a list of that task. The bound of
  crashes limits interleavings, not the kinds of crash: each may happen at any place.
  Log length is bounded by the attempts and one reported stage per attempt.
* Budget: two calls race for an account; the third is the observer that arrives
  with another snapshot, or a call of a later attempt. Quotas are one less than what
  all calls together want.
* Stream: one more event than a batch makes a second cycle, two attempts make a
  reset, one broken connection a resumption and the second one a resumption of it.
  `MaxLog` bounds the events before the ending, `MaxWire` what the transport buffers.
* Sources: two builds make a late one, two batches a partial write, two exits a
  recovery that is itself interrupted. `MaxBuilds = MaxAttempts = 2` together is out
  of TLC's reach (more than ten million states), and a build that is tried twice is
  left to the theorems, which cover every property of the run.
* Previews: two attempts and redrafts of an attempt are the ways to replace a text;
  two pieces make a hole possible, a batch of one a round that stops in the middle,
  and a break a resumption in the middle of it; the page
  itself bounds the breaks in a row. `MaxText` bounds the pieces of all drafts
  together.
* Evaluation: two attempts give a prediction that is tried again after a resume, two
  tries a report that is late for its successor, one cancellation a resume. The refused
  claim and the stopped run may each be under way once at a time.
* Reviews: three activities are an occurrence that is claimed, consumed and followed by
  another; two assessments of the short answer of the first review supersede a confirmed grade; two days make a
  repetition on the same day and on another one. One lost event at a time is enough to
  leave the projection behind until the next event of the concept.
* Grading: two jobs are a retry of a dead one, two attempts a zombie. Images: two
  questions make a partial result, two attempts a second attempt that finds the
  operation of the first. Teaching: two attempts are a crash in any place and the attempt that
  finds its slots; the graph itself bounds drafts and reviews by two each.
* Courses: two lessons make a revision of one of them beside the other or of both; five jobs
  are the outline, two lessons and two candidates, or retries of them; the second revision makes
  the first one stale, and so does the second plan.
* Checks: two answers are those a seal names and one that comes late, or two that share the jobs;
  two feedback jobs are a retry of a dead one, or two overlapping requests, one of which works on an
  old snapshot (`MaxSnapshots` = 1: the other one binds at once).
* Codes: two sends of one purpose overlap, or one opens the account and the other resets its
  password; they are made in the order of their numbers, which loses nothing because they are
  exchangeable. One login may be repeated, and three passwords make a change between its halves
  and a second reset with the code of the first; the theorems are about any number. The
  number of requests is bounded, so the run may stop (`CHECK_DEADLOCK FALSE`), as may the
  runs of the previews, documents, courses and learning jobs, which end.

### Fairness

`queue_generation` assumes weak fairness of the clock and of each worker's loop: a live
worker comes back to its next statement, and a stopped one is restarted by the
supervisor (compose `restart` policy). Nothing is assumed of providers, heartbeats,
or the job's own progress: `Complete`, `Raise` and `Renew` need never happen, the
deadline and `asyncio.wait_for` end the job. `streams` assumes that the
generator's and the page's next statements run (`WF` of each); a wake may be lost,
the wait has a timeout. Of the preview it assumes the maintenance loop of the writer (every
five minutes), the clock, and that a connected stream goes on; no worker, close or page has to do
anything else. `documents` assumes of a course that deadlines pass and the owner sweeps, and
nothing of a document.
`evaluation_owner` assumes that scorers keep polling (`ClaimScoring`, `Exhaust`, `Refuse`), that the
second transaction of a refused claim comes, and that leases run out; no scorer
ever has to report. `learning_jobs` assumes of a grading only that its deadline passes
and the owner sweeps (`Expire`, `Reconcile`), and of the pictures that the deadline of the job
ends its transactions, that days pass and that the operator runs the maintenance
command; of a course job that its deadline passes, the owner sweeps, and the daily sweep runs. No
strong fairness is used.

`EveryPageIsTold`, `EveryLessonSettles` and `EveryJobSettles` have the form `<>[]P`: the learner asks
only so often in a behaviour (the bounds on jobs, reviews and revisions), and after the last request
everything comes to rest in P. Every prefix of requests is such a behaviour, so this says as much as
that each request is settled, and is the cheaper form for TLC.

## 4. What is proved

TLAPS checks these theorems for every value of the constants that satisfies the
ASSUMEs of the module (sets of tasks and workers of any size, any bounds).

`JobQueueProofs`:

* `TypeCorrect`: `TypeOK`.
* `PublishedOnce`: `PublishedByOwner`. By itself it is inductive only together with
  what a publication leaves behind: the row is completed and stays so, because
  `locked_job` (`Owns`) requires a running row and `finalize_terminal_rows` and
  `cancel_job` only touch active ones.
* `OneOwner`, `OwnerPublishes`: `SoleOwner`, and with it `OwnerAlonePublishes`, from the invariant `Holders`: a worker holds an attempt
  not above the row's, and two workers that hold one task hold different attempts.
  Owning means that the held attempt is the row's, so two cannot own.
* `EndingIsFinal`: `EndedIsFinal`, an action property, from types alone.
* `RecordFollowsTask`: `BusinessFollowsTask`, from `Follows`: the record of a task is published
  exactly when the task completed, and it is closed only while the task is failed or
  cancelled. The list that `reconcile` works through may be stale: what saves it is that
  `ReconcileRow` reads the row again under its lock.

`JobQueueRefinement`: `QueueRefines`, `Spec => Refines`. The refinement mapping takes the status of
a task, the number of its attempt and the published results; leases, stages, local copies and
lists are the queue's own. `StepImplements` has one step per action of `JobQueue`: most
stutter, and `finalize_terminal_rows` may end any number of tasks at once, which is why
`TaskLifecycle` ends a set of tasks in one step (`BatchEnds`).

`PracticeGradingProofs`:

* `RequestFollowsHead`: `RequestTellsHead`, inductive with `Tells`: the active task of an open request
  names its revision and head, every grade, review and close moves the revision, and a
  task whose worker may publish is running.
* `GradesAreInTime`: `NoLateGrade`, an action property: the conditions of the publisher
  and of `reconcile_practice_grading` forbid each late step, given the types.

`SourceVectorsProofs` proves every property of `SourceVectors`. The inductive
invariant is built in layers, each inductive relative to the ones before:

1. `Typed`: types, the writer has a projection wherever it needs one, and the last
   revision is left for the revocation.
2. `Accounted`: a request under way belongs to the open operation of its projection,
   there is only one of them, and Qdrant was not restarted since its sender ended.
   This is what makes `recover_after_exit` safe: if all open operations are older
   than a restart, no request is left. `Emptied` is the order of operations that
   `mark_deleted` reads from the ledger. Hence `DeletionIsTrue`.
3. `Fresh`: the projection of a new attempt was never written.
4. `Filed`: what Qdrant holds has an archive, an archive disappears only with its
   deleted projection, a cleanup has deleted what it has not to do. Hence
   `FilesLast`, `CleanupIsFinal` and, together, `CleanupIsComplete` (`CleanupMissesNothing`).
5. `Complete`: verification sees all batches with no open operation, a ready
   projection stays complete, and the active one is ready. Hence
   `ActiveProjectionComplete` and `NewestBuildWins`.

`LearnerProofs` proves every property of the run `learner`, for any number of sends and
logins, of activities, questions, concepts and days. Of `AccountCodes`:

* `SessionsFollowPassword`: `SessionsAreCurrent` needs only types: every change of the
  password replaces `live`, and `LoginIssue` compares under the lock.
* `GuessesAreBounded`: the wrong codes of the history never exceed the column
  `attempts` (`GuessesCounted`), which survives every new code of a living challenge.
* `StatusIsTold`: `Delivered`, a challenge that is no longer pending belongs to a send that
  has ended, so no later answer can change it, and the answer of every other send is
  of another generation.
* `CodesAreUsedOnce`: `Spent`, a used code belongs to a challenge that is consumed or was
  replaced, and a replaced generation never comes back because a send reserves once.

Of `ReviewSchedule`:

* `TheScheduleIsOneSlot` and `ReviewsAreConsumedOnce`: from `ScheduleInv`. The rows of a concept are
  a list in which only the last one may be current and no two are of one activity (`ListOK`), what each row says
  of its claim fits the activity it was claimed for (`RowOK`), and the last row agrees with the state
  while it is current (`Agrees`). `_sync_occurrence` restores the agreement after every change of the state, and
  a row that is claimed is left to its activity.
* `DatesStayTheLearners`: an action property, from the same invariant.
* `TheStateFollowsTheHistory`: from `HistoryInv`. A concept either is up to date, that is,
  its state is the fold of its present history, or an event of one of its activities
  is still awaited (`EventOK`: pending or lost, and its receipt is not that of the present
  assessments); `ReceiptOK` bounds what a receipt names. The
  fold itself is never unfolded: a projection writes `Derive` of the history it reads, and a step
  that does not touch the history of a concept leaves the argument of the fold as it is. So this
  needs no induction over the history.

`ProviderBudgetProofs` proves every property of `ProviderBudget`, for any number of tasks, attempts,
calls, crashes and accounts, and any quotas:

* `TypeCorrect`: `TypeOK`; that a transaction locks an account at all rests on the
  least element of a set of account keys (`SmallestAccount`, by well-founded order).
* `InFlightSafe` and `ClosedSafe`: from `Tracked`, what the records of a call say at each
  place of `call_external`. A call grows old only after it ended, and the operator only works
  on an old call with an open reservation: so neither the late handler nor the
  reconciliation meets the records of the other half done.
* `NoRepeatSafe`: from `OneReserves`, the row lock of the task keeps two first transactions
  of one task apart, and `NoneOut`, what `_teaching_limits` saw under it stays true.
* `JobCapsSafe`: from `Ceiling`. Although the check of `reserve_budget` reads a snapshot, for an
  account of one task the snapshot is the row (`SeesAccount`), since only that task changes it
  and `OneReserves` holds. This is what fails for the accounts several tasks share, and
  with it the first finding below.
* `NoCircleOfWaiting`: from `LocksInOrder`, a transaction takes the accounts of a reservation in ascending
  order, the `calls` accounts before the `cny` ones. In the order of all locks (`Rank`) it asks for an
  account above all those it holds, so along a chain of waiting transactions the account asked for
  grows, and no chain comes back.
* `EveryStepIsPosted` and `AccountsAreTheSums`: each step moves the accounts by what it records with one
  call (`AllRecorded`), and a sum over the calls changes by what one of them changes. The lemma
  about sums is proved with the smallest counterexample of a well-founded order on the
  sets of calls, since the induction theorems of the library are out of reach. This is where
  the assumption is used that the calls and the accounts are finitely many.
* `QuotasHoldWithinAMargin`, `SerializedQuotasHold` and `OverrunNeedsOverlap`: what holds of the quotas in every
  deployment, with calls of several stages, calls that read before they reserve (`Previews`) and `Strict` jobs.
  `QuotaRespected` itself is false there, which is finding 1; these theorems say how far, where and why.
  A call is dangerous from its first plain SELECT to its COMMIT (`HoldsView`). The inductive invariant is
  `MarginInv`: what is taken of an account, and what the calls would still take that find room in their snapshots
  (`Pending`), is at most the quota and a margin. A new snapshot shows what is taken, so it
  is followed by one call that fits and by those beside it; a reservation moves an amount
  from what is pending to what is taken; all else only gives back. `SnapshotInv` carries what this needs of the
  single calls: no account is locked twice (`Exclusive`), and a call that prices itself holds the counted accounts it
  found free (`Looked`). Each step is one of three (`Quiet`, `Looks`, `Books` in `StepLooksOrBooks`).
  * The margin is what the calls ask whose snapshots are open beside that of one call (`Within`): in an installation
    with n such transactions at a time it is n - 1 times the dearest ceiling, whatever happened
    before. The hypothesis is about the behaviour and is met by every behaviour for some margin.
  * An account is `Serialized` if any two calls that use it work for one task, or both wait for a common account
    before they read. Then no two snapshots are open on it and the margin is 0. That is so of every
    ceiling of a task (by the lock of `locked_job`, whatever is read afterwards; `JobCapsSafe` is
    the part of it a run checks) and of the accounts of calls that read nothing first. It is not so of a
    daily account of scoped jobs, since `reauthorize_scope` reads before `reserve_budget` locks.
  * `OverrunNeedsOverlap`: a behaviour without two open snapshots on one account keeps every quota, so an
    overrun has no cause but the one of finding 1, neither crashes, late handlers nor the reconciliation.
  * TLC checked `SnapshotInv` and `MarginInv` first, on the instance of `budget_two_stages` with a call that reads
    first and a margin of 2 (692,378 states), and `QuotaRespected` without overlaps on
    the same instance where all calls read first (545,052 states).

`StreamProofs`, for any log, batch, wire, number of attempts and of broken connections:

* `ShownIsTrue` and `NoEventIsMissed`: every property of the events, from `StreamInv`. What the
  generator holds and what lies on the wire was read from the log (`RowTells`, `FramesTell`); the frames on the wire follow
  one another and the cursor of the page without a hole, apart from resets (`WireFollows`). A purge
  removes a prefix of the log, so a cursor behind it is noticed by the next read.
* `NothingIsLeftOfARevokedSource`: `RevokedLeavesNothing`, inductive with the place of the revocation:
  the mark precedes the cancellation of the tasks, which precedes the purge, and an append
  needs a task that is not cancelled.
* `TheStoredPreviewIsOneDraft`: `StoredIsOneDraft`, from `PreviewInv`: the position a worker believes in is the
  head as long as it may write (`WritersAreInStep`), a close that is still to come is of an attempt that is over
  (`ClosesAreLate`), and the head is not behind its frames (`HeadIsAhead`).
* `PreviewsAreTrue`: the whole of `PreviewIsTrue`, from `PageInv`, which TLC checked first as an invariant of the run's
  model. A page holds the beginning of the text of its draft (`Reads`). The cursor of the stream is the page's place; the
  draft of either is not later than the stored one while that one can still be told (`Known`, `NotAfter` in `PageFollows`),
  and if it is the stored one, the text is that of the stored frames up to that place (`TextIsStored`). The frames
  of a draft are told apart by their places (`FramesAreKeyed`), and an ending on the wire is that of the
  task (`EndIsTrue`). The argument rests on two lemmas: `PageReads`, what the fold of `Apply` over the
  frames of a round makes of a page, step by step (a least number stands in for the induction the provers
  cannot do), and `ContentIsRead`, that `read_content` returns frames that follow one another.
  `RoundArrives` joins them: a round that arrives, whole or broken off after any frame, leaves the page at the place of
  the last frame it got, and a draft that begins again begins with an empty text.
* `StreamsAreTrue`: the theorems about the events and those about the previews hold of the specification of the run.

`LearningJobsProofs`, for any number of attempts, questions, answers, jobs and crashes:

* `PublicationWasReviewed` and `RolesAreCalledOnce`: from `TeachingInv`. A slot is asked at most once (`SlotUsedOnce`); an
  attempt that is about to call holds a slot of its own that nobody asked (`HoldsSlot`); a report that passed is about
  the draft it is carried with (`DraftIsReviewed`); an attempt leaves a call and a save to the nodes the graph
  allows (`NodeFollows`), and the text is stored with the saved draft until both are removed (`RowIsTold`).
* `PicturesArePaidOnce` and `PicturesAreThere`: from `ImagesInv`. An operation, the status in the quiz and
  the requests sent tell one story (`OneStory`); an attempt that has not begun left no file (`NotYet`); an attempt
  wrote no file ahead of where it is, and the one it is about to publish is not one a sweep may take
  (`FilesAhead`); the attempt that holds the job pays only for what nobody paid (`DrawsOnce`), and its list of
  statuses is true (`EndsTrue`).
* `RecordsAreWhole`: from `RecordInv`, `RecordIsWhole` with `JobIsTold`: nothing names a feedback job that was never saved,
  one that was saved has its answer, and only jobs that are over are swept.
* `EveryJobKeepsToItsPart`: a behaviour of `JobsSpec` is one of each component, since each of them stutters while another
  one moves; hence `JobsPayOnce` and `JobsLeaveSoundRecords` for the specification of the run.

Assumed of the constants are the named ASSUMEs of the modules, which TLC evaluates in every run: that
sets the code takes from one database are finite (calls, accounts), that bounds are numbers, and the like.

Only model-checked: liveness (`EveryTaskSettles`, `ResultSettles`, `EveryPageIsTold`,
`EveryLessonSettles`, `EveryJobSettles`), which tlapm 1.4.5 cannot prove under fairness; the second
refinement of the queue, `KeepsLogs`, which instantiates `TaskLog` once per task; `HolderDecides` of
`EvaluationRun` and `AppliedAsPreviewed` of `CourseLessons`.

## 5. Findings

1. **The daily cost ceiling can be exceeded** (`budget_two_stages`). `reserve_budget`
   locks the accounts and then reads them with a plain SELECT
   (`services/budget_service.py:42-49`). Within `call_external` the `calls` reservation runs
   first and its SELECT makes the snapshot of the transaction. When two calls of
   different stages share only the `cny` accounts, the second one waits for the lock,
   gets it, and still reads the balance from before the first one's commit. The
   module promises "Atomic resource reservations" (line 1), and
   `tests/platform/test_jobs.py:70` tests it only for single reservations in
   transactions of their own, whose snapshot is made after the lock.
2. **An unknown call may hold nothing** (`budget_unknown`). When the COMMIT of the
   settling transaction happens and its answer is lost, the handler of `call_external`
   marks the call unknown, while `settle_budget` leaves the settled or released
   reservation alone. The charge is then neither reserved nor open for
   `reconcile_charge`, against "Unknown calls retain their reservation for
   reconciliation" (`budget_service.py`, line 1; README.md:320).
3. **The outline of a course with published lessons can be edited again** (`revised_course`). When
   the candidate of a revision is published, the lesson's `generation_task_id` is set to NULL
   (`workers/course_job.py:288`), and `update_outline` asks only for this column
   (`course_service.py:183`). The code says 开始生成课时后，课程纲要不可修改 ("once lessons are
   generated the outline cannot be changed", line 184), `models/course.py:26` that generation fixes
   the titles, and `tests/platform/test_course_preload.py:143` asserts it for a course that was never
   revised.
4. **A grade confirmed by a human is superseded by a model or by a failure** (`human_grade`).
   `_append_grade` (`workers/course_application_job.py:79`) supersedes whatever head the answer has. A
   review neither changes the revision of the answer nor ends its feedback job, and
   `create_feedback_job` asks only whether the last job is dead: so a job under way, or one asked for
   later, replaces the confirmed grade, and the outcome of the course loses it. The code says
   正式效力只来自有权限的人工复核 ("official effect comes only from the authorized review by a human",
   `course_feedback_service.py:30`) and refuses a second review because the grade is confirmed (line
   446). `PracticeGrading`, where the same could happen, refuses the late grade (`NoLateGrade`).

Other observations: the two lock files of the writer (`source_service`) and of the maintenance
command (`maintenance.py:611`), a row that makes `reconcile` raise before every claim
(`rag_owner.py:993`), and a reminder that is sent again after a crash between the mail and its record
(`learning_notification_service.py:241`); and at the end of the sections on
`EvaluationRun`, `QuizImages`, `TeachingRun`, `CourseAssessment` and `CourseLessons`. Two more, at the edge of what is modelled: a cost above its
reservation by less than the tolerance is refused by `settle_budget`, so that a successful
call becomes unknown (`provider_meter.py:517`; the model counts whole units), and the slot of
a stream's connection gate leaks when the response never starts (`task_event_stream.py:279`).

## 6. What is not modelled

Components with status `not_modelled` in `PROJECT.json` have the reason there. In short:
retrieval, prompts, parsing and model adapters and the composition of practice sets are sequential and keep no state across requests, what they compute
is text; questions, quizzes and the tutor of a course are jobs whose publisher `JobQueue` models for every
kind; the web pages apart from the two subscriptions only render; the reports of the
evaluation tooling and the deployment are offline. Rate limiting is one atomic Redis
script. Of the components that are partly modelled, section 2 says under each module
what is left out.

Most of the lines of this repository are of these kinds (validation of input,
rendering, prompts, reports, migrations of the schema), which is why the map covers a
small part of all lines although it covers the state changes of the services it is
about.

## 7. What could follow

1. Vector migration: copy, verify, switch and restore over the projections of
   `SourceVectors`, with writers during the copy.
2. A second cleaner for `SourceVectors` (the maintenance command beside the writer).
3. The revocation of a source in `ReviewSchedule`.
4. Proofs: `HolderDecides` of the scoring, `AppliedAsPreviewed` of the revisions, and `KeepsLogs`.

## 8. Running

Inside this directory: `tlc -workers 2 -config queue_generation.cfg MCJobQueue` checks a run
(the module and file of each are in `PROJECT.json`), `tlapm SourceVectorsProofs.tla` checks the proofs
of a module. Definitions marked "faulty" are not part of the specifications: they
are plausible bugs, and each property is known to fail when one of them replaces the
definition that follows it.
