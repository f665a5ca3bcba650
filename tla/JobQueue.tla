------------------------------ MODULE JobQueue ------------------------------
(***************************************************************************)
(* The durable job queue of the backend: the rows of quiz_tasks            *)
(* (services/job_service.py), the public event log appended in the same    *)
(* transactions (services/task_event_service.py) and the workers that poll *)
(* it (workers/rag_owner.py).                                              *)
(*                                                                         *)
(* One action is one MySQL transaction, or one step of a worker between    *)
(* two transactions.  Row locks serialize the transactions of a row, so a  *)
(* transaction is atomic; what a worker read in one is only a local copy   *)
(* in the next.  A worker may stall for any time between two of its steps, *)
(* be cancelled, lose its heartbeat, or crash.                             *)
(*                                                                         *)
(* Time is relative: lease[t] is max(0, lease_expires_at - now), and so on *)
(* for deadline_at and queued_expires_at.  The code only ever compares     *)
(* these columns with now, sets them to now plus a constant, or takes the  *)
(* minimum of two of them, and Tick subtracts one unit from each.  A timer *)
(* at 0 has expired; deadline_at is NULL exactly while attempt = 0.        *)
(***************************************************************************)
EXTENDS Naturals, Sequences, FiniteSets

CONSTANTS
    Tasks,        \* rows of quiz_tasks, one per (user, operation, idempotency key)
    Evaluation,   \* the tasks of mode 'evaluation' (kind eval_sample): no public events
    NoTask,       \* the value of held for a worker without a job
    Workers,      \* worker processes
    Generators,   \* the workers of role 'generation'; the others maintain the queue
    Claimable,    \* Claimable[w]: the tasks whose kind the role of w may claim
    WorkStages,   \* stages a job reports through heartbeat(job, stage)
    MaxAttempts,  \* quiz_tasks.max_attempts (job_max_attempts)
    LeaseTime,    \* job_lease_seconds
    JobTime,      \* job_deadline_seconds
    QueueTime,    \* job_queue_ttl_seconds
    MaxCrashes,   \* bound on the worker crashes of one behaviour
    MaxSubmits    \* bound on the tasks submitted in one behaviour

ASSUME TaskAssumption == Evaluation \subseteq Tasks /\ NoTask \notin Tasks
ASSUME WorkerAssumption ==
    /\ Generators \subseteq Workers
    /\ Claimable \in [Workers -> SUBSET Tasks]
ASSUME StageAssumption ==
    WorkStages \cap {"queued", "starting", "completed", "failed", "cancelled",
                     "failed_reconciled", "cancelled_reconciled"} = {}
ASSUME BoundAssumption ==
    /\ MaxAttempts \in Nat \ {0}
    /\ LeaseTime \in Nat \ {0}
    /\ JobTime \in Nat \ {0}
    /\ QueueTime \in Nat \ {0}
    /\ MaxCrashes \in Nat
    /\ MaxSubmits \in Nat

VARIABLES
    \* the row of each task in quiz_tasks
    status, stage, attempt, leaseToken, cancelRequested,
    lease, deadline, queued,
    events,       \* rows of task_public_events, in the order of public_event_seq
    \* the business record a task works for (an answer, a course lesson, ...)
    business,
    published,    \* attempts whose publisher committed, in commit order
    \* the local state of each worker process
    pc,
    held,         \* the task in the worker's copy of the claimed job row
    heldAttempt,  \* its attempt; claim_job draws one token per attempt
    todo,         \* task ids selected by reconcile and not yet processed
    leaving,      \* run_once was cancelled from outside (worker_stopped)
    crashes

row      == <<status, stage, attempt, leaseToken, cancelRequested>>
timers   == <<lease, deadline, queued>>
record   == <<business, published>>
process  == <<pc, held, heldAttempt, todo, leaving>>
vars     == <<row, timers, events, record, process, crashes>>

-----------------------------------------------------------------------------
(* Types.                                                                  *)

Settled  == {"failed_reconciled", "cancelled_reconciled"}
Ended    == {"completed", "failed", "cancelled"}
Statuses == {"absent", "pending", "running"} \cup Ended
StageSet == {"queued", "starting", "pending", "completed", "failed", "cancelled"}
              \cup Settled \cup WorkStages

EventTypes == {"phase", "settled"} \cup Ended
Event == [type : EventTypes,
          status : {"queued", "pending", "running"} \cup Ended,
          attempt : 0..MaxAttempts]

\* Where a worker is in OwnerWorker.run_once.
Places == {"idle",        \* before reconcile()
           "listing",     \* reconcile: between finalize_terminal_rows and the SELECT
           "reconciling", \* reconcile: one transaction per selected row
           "claiming",    \* before claim_job
           "executing",   \* the job coroutine and its heartbeat are running
           "failing",     \* before _fail
           "finishing",   \* in the finally block, before reconcile(task_id)
           "down"}        \* the process is gone

TypeOK ==
    /\ status \in [Tasks -> Statuses]
    /\ stage \in [Tasks -> StageSet]
    /\ attempt \in [Tasks -> 0..MaxAttempts]
    /\ leaseToken \in [Tasks -> 0..MaxAttempts]      \* 0 is NULL
    /\ cancelRequested \in [Tasks -> BOOLEAN]
    /\ lease \in [Tasks -> 0..LeaseTime]
    /\ deadline \in [Tasks -> 0..JobTime]
    /\ queued \in [Tasks -> 0..QueueTime]
    /\ events \in [Tasks -> Seq(Event)]
    /\ business \in [Tasks -> {"absent", "open", "published", "closed"}]
    /\ published \in [Tasks -> Seq(0..MaxAttempts)]
    /\ pc \in [Workers -> Places]
    /\ held \in [Workers -> Tasks \cup {NoTask}]
    /\ heldAttempt \in [Workers -> 0..MaxAttempts]
    /\ todo \in [Workers -> SUBSET Tasks]
    /\ leaving \in [Workers -> BOOLEAN]
    /\ crashes \in 0..MaxCrashes

-----------------------------------------------------------------------------
Init ==
    /\ status = [t \in Tasks |-> "absent"]
    /\ stage = [t \in Tasks |-> "queued"]
    /\ attempt = [t \in Tasks |-> 0]
    /\ leaseToken = [t \in Tasks |-> 0]
    /\ cancelRequested = [t \in Tasks |-> FALSE]
    /\ lease = [t \in Tasks |-> 0]
    /\ deadline = [t \in Tasks |-> 0]
    /\ queued = [t \in Tasks |-> 0]
    /\ events = [t \in Tasks |-> <<>>]
    /\ business = [t \in Tasks |-> "absent"]
    /\ published = [t \in Tasks |-> <<>>]
    /\ pc = [w \in Workers |-> "idle"]
    /\ held = [w \in Workers |-> NoTask]
    /\ heldAttempt = [w \in Workers |-> 0]
    /\ todo = [w \in Workers |-> {}]
    /\ leaving = [w \in Workers |-> FALSE]
    /\ crashes = 0

-----------------------------------------------------------------------------
(* Operators shared by the transactions.                                   *)

Smaller(a, b) == IF a <= b THEN a ELSE b

\* append_task_event: nothing is written for tasks without a public event page.
Appended(t, type, st, a) ==
    IF t \in Evaluation THEN events[t]
    ELSE Append(events[t], [type |-> type, status |-> st, attempt |-> a])

\* Faulty variant of Overdue.
OverdueUnclaimed(t) ==       \* started tasks are left to their workers
    /\ status[t] \in {"pending", "running"}
    /\ cancelRequested[t] \/ (status[t] = "pending" /\ queued[t] = 0)

\* The rows finalize_terminal_rows selects: cancelled, never started in time,
\* past the deadline, or abandoned by the worker of the last attempt.
Overdue(t) ==
    /\ status[t] \in {"pending", "running"}
    /\ \/ cancelRequested[t]
       \/ status[t] = "pending" /\ queued[t] = 0
       \/ attempt[t] > 0 /\ deadline[t] = 0
       \/ status[t] = "running" /\ lease[t] = 0 /\ attempt[t] >= MaxAttempts

FinalStatus(t) == IF cancelRequested[t] THEN "cancelled" ELSE "failed"

\* finalize_terminal_rows over the tasks of S: each column after the call.
Batch(S)        == {t \in S : Overdue(t)}
StatusAfter(S)  == [t \in Tasks |-> IF t \in Batch(S) THEN FinalStatus(t) ELSE status[t]]
StageAfter(S)   == [t \in Tasks |-> IF t \in Batch(S) THEN FinalStatus(t) ELSE stage[t]]
TokenAfter(S)   == [t \in Tasks |-> IF t \in Batch(S) THEN 0 ELSE leaseToken[t]]
LeaseAfter(S)   == [t \in Tasks |-> IF t \in Batch(S) THEN 0 ELSE lease[t]]
NoEventsAfter(S) == events   \* faulty: a bulk UPDATE without the event per row
EventsAfter(S)  == [t \in Tasks |->
                     IF t \in Batch(S)
                     THEN Appended(t, FinalStatus(t), FinalStatus(t), attempt[t])
                     ELSE events[t]]

\* Faulty variants of Owns.
OwnsByStatus(w) ==           \* neither the token nor the attempt is compared
    /\ held[w] \in Tasks
    /\ status[held[w]] = "running"
    /\ lease[held[w]] > 0
    /\ deadline[held[w]] > 0

OwnsByAttempt(w) ==          \* only the attempt and the timers are compared
    /\ held[w] \in Tasks
    /\ attempt[held[w]] = heldAttempt[w]
    /\ lease[held[w]] > 0
    /\ deadline[held[w]] > 0

\* locked_job: does the caller's copy of the job still own the row?
Owns(w) ==
    LET t == held[w] IN
    /\ t \in Tasks
    /\ status[t] = "running"
    /\ ~cancelRequested[t]
    /\ leaseToken[t] = heldAttempt[w]
    /\ attempt[t] = heldAttempt[w]
    /\ lease[t] > 0
    /\ deadline[t] > 0

\* The rows claim_job may take.
Runnable(t) ==
    /\ status[t] \in {"pending", "running"}
    /\ ~cancelRequested[t]
    /\ attempt[t] < MaxAttempts
    /\ status[t] = "pending" \/ lease[t] = 0

Goto(w, place) == pc' = [pc EXCEPT ![w] = place]

-----------------------------------------------------------------------------
(* Requests of the API processes.                                          *)

\* enqueue_job, with the business record its caller inserts in the same
\* transaction.  A replay of the idempotency key returns the row unchanged.
Enqueue(t) ==
    /\ Cardinality({u \in Tasks : status[u] # "absent"}) < MaxSubmits
    /\ status[t] = "absent"
    /\ status' = [status EXCEPT ![t] = "pending"]
    /\ queued' = [queued EXCEPT ![t] = QueueTime]
    /\ events' = [events EXCEPT ![t] = Appended(t, "phase", "queued", 0)]
    /\ business' = [business EXCEPT ![t] = "open"]
    /\ UNCHANGED <<stage, attempt, leaseToken, cancelRequested, lease, deadline,
                   published, process, crashes>>

\* cancel_job.
Cancel(t) ==
    /\ status[t] \in {"pending", "running"}
    /\ status' = [status EXCEPT ![t] = "cancelled"]
    /\ stage' = [stage EXCEPT ![t] = "cancelled"]
    /\ cancelRequested' = [cancelRequested EXCEPT ![t] = TRUE]
    /\ leaseToken' = [leaseToken EXCEPT ![t] = 0]
    /\ events' = [events EXCEPT ![t] = Appended(t, "cancelled", "cancelled", attempt[t])]
    /\ UNCHANGED <<attempt, timers, record, process, crashes>>

\* resume_run: an unfinished evaluation sample gets its remaining attempts.
\* The queue TTL of the row is not renewed.
Resume(t) ==
    /\ t \in Evaluation
    /\ status[t] \in {"failed", "cancelled"}
    /\ business[t] # "published"
    /\ attempt[t] < MaxAttempts
    /\ attempt[t] = 0 \/ deadline[t] > 0
    /\ status' = [status EXCEPT ![t] = "pending"]
    /\ cancelRequested' = [cancelRequested EXCEPT ![t] = FALSE]
    /\ business' = [business EXCEPT ![t] = "open"]
    /\ UNCHANGED <<stage, attempt, leaseToken, timers, events, published,
                   process, crashes>>

-----------------------------------------------------------------------------
(* OwnerWorker.reconcile: run before a claim over every task, and in the   *)
(* finally block of run_once over the task just executed.                  *)

Scope(w) == IF held[w] = NoTask THEN Tasks ELSE {held[w]}

\* The first transaction.  The role 'generation' skips the global pass.
Reconcile(w) ==
    /\ pc[w] \in {"idle", "finishing"}
    /\ IF w \in Generators /\ held[w] = NoTask
       THEN Goto(w, "claiming") /\ UNCHANGED <<status, stage, leaseToken, lease, events>>
       ELSE /\ Goto(w, "listing")
            /\ status' = StatusAfter(Scope(w))
            /\ stage' = StageAfter(Scope(w))
            /\ leaseToken' = TokenAfter(Scope(w))
            /\ lease' = LeaseAfter(Scope(w))
            /\ events' = EventsAfter(Scope(w))
    /\ UNCHANGED <<attempt, cancelRequested, deadline, queued, record,
                   held, heldAttempt, todo, leaving, crashes>>

Unreconciled(t) ==
    /\ status[t] \in {"failed", "cancelled"}
    /\ stage[t] \in {"failed", "cancelled"}

\* Where run_once goes when reconcile returns, with the job it still holds.
Leave(w) ==
    IF held[w] = NoTask
    THEN Goto(w, "claiming") /\ UNCHANGED <<held, heldAttempt>>
    ELSE /\ Goto(w, IF leaving[w] THEN "down" ELSE "idle")
         /\ held' = [held EXCEPT ![w] = NoTask]
         /\ heldAttempt' = [heldAttempt EXCEPT ![w] = 0]

\* The SELECT outside any transaction: a list that may be stale when used.
ListTerminal(w) ==
    LET rows == {t \in Scope(w) : Unreconciled(t)} IN
    /\ pc[w] = "listing"
    /\ todo' = [todo EXCEPT ![w] = rows]
    /\ IF rows = {} THEN Leave(w)
       ELSE Goto(w, "reconciling") /\ UNCHANGED <<held, heldAttempt>>
    /\ UNCHANGED <<row, timers, events, record, leaving, crashes>>

TrustList(t) == TRUE         \* faulty: the listed row is not checked again

\* What a transaction of reconcile checks again under the row lock.
StillUnreconciled(t) == Unreconciled(t)

\* One transaction per listed row: the terminal state is checked again under
\* the row lock, the business record is closed and the row is marked.
ReconcileRow(w, t) ==
    /\ pc[w] = "reconciling"
    /\ t \in todo[w]
    /\ todo' = [todo EXCEPT ![w] = @ \ {t}]
    /\ IF todo[w] = {t} THEN Leave(w) ELSE UNCHANGED <<pc, held, heldAttempt>>
    /\ IF StillUnreconciled(t)
       THEN /\ stage' = [stage EXCEPT ![t] = IF status[t] = "failed"
                                             THEN "failed_reconciled"
                                             ELSE "cancelled_reconciled"]
            /\ business' = [business EXCEPT ![t] = IF @ = "open" THEN "closed" ELSE @]
            /\ events' = [events EXCEPT ![t] =
                             Appended(t, "settled", status[t], attempt[t])]
       ELSE UNCHANGED <<stage, business, events>>
    /\ UNCHANGED <<status, attempt, leaseToken, cancelRequested, timers,
                   published, leaving, crashes>>

-----------------------------------------------------------------------------
(* Claiming and executing.                                                 *)

\* claim_job first finalizes every overdue row, except for generators.
Maintained(w) == IF w \in Generators THEN {} ELSE Tasks

\* claim_job: a new attempt with a new token.  The deadline of the task is
\* set by its first claim and never moved.
Claim(w, t) ==
    LET limit == IF attempt[t] = 0 THEN JobTime ELSE deadline[t] IN
    /\ pc[w] = "claiming"
    /\ t \in Claimable[w] \ Batch(Maintained(w))
    /\ Runnable(t)
    /\ status' = [StatusAfter(Maintained(w)) EXCEPT ![t] = "running"]
    /\ stage' = [StageAfter(Maintained(w)) EXCEPT ![t] = "starting"]
    /\ attempt' = [attempt EXCEPT ![t] = @ + 1]
    /\ leaseToken' = [TokenAfter(Maintained(w)) EXCEPT ![t] = attempt[t] + 1]
    /\ deadline' = [deadline EXCEPT ![t] = limit]
    /\ lease' = [LeaseAfter(Maintained(w)) EXCEPT ![t] = Smaller(limit, LeaseTime)]
    /\ events' = [EventsAfter(Maintained(w)) EXCEPT ![t] =
                     Appended(t, "phase", "running", attempt[t] + 1)]
    /\ Goto(w, "executing")
    /\ held' = [held EXCEPT ![w] = t]
    /\ heldAttempt' = [heldAttempt EXCEPT ![w] = attempt[t] + 1]
    /\ UNCHANGED <<cancelRequested, queued, record, todo, leaving, crashes>>

\* claim_job finds no row: run_once reconciles again and the loop of serve
\* starts over.
ClaimNothing(w) ==
    /\ pc[w] = "claiming"
    /\ ~ \E t \in Claimable[w] \ Batch(Maintained(w)) : Runnable(t)
    /\ status' = StatusAfter(Maintained(w))
    /\ stage' = StageAfter(Maintained(w))
    /\ leaseToken' = TokenAfter(Maintained(w))
    /\ lease' = LeaseAfter(Maintained(w))
    /\ events' = EventsAfter(Maintained(w))
    /\ Goto(w, "idle")
    /\ UNCHANGED <<attempt, cancelRequested, deadline, queued, record,
                   held, heldAttempt, todo, leaving, crashes>>

\* heartbeat(job) of the _monitor task, which runs until the finally block.
Renew(w) ==
    /\ pc[w] \in {"executing", "failing"}
    /\ Owns(w)
    /\ lease' = [lease EXCEPT ![held[w]] = Smaller(deadline[held[w]], LeaseTime)]
    /\ UNCHANGED <<row, deadline, queued, events, record, process, crashes>>

\* heartbeat(job) raised, for a stale lease or any database error: the job
\* coroutine is cancelled and run_once does not call _fail.
LeaseLost(w) ==
    /\ pc[w] = "executing"
    /\ Goto(w, "finishing")
    /\ UNCHANGED <<row, timers, events, record, held, heldAttempt, todo, leaving, crashes>>

\* heartbeat(job, s): the job reports a stage; only a change is an event.
Report(w, s) ==
    LET t == held[w] IN
    /\ pc[w] = "executing"
    /\ Owns(w)
    /\ stage[t] # s
    /\ lease' = [lease EXCEPT ![t] = Smaller(deadline[t], LeaseTime)]
    /\ stage' = [stage EXCEPT ![t] = s]
    /\ events' = [events EXCEPT ![t] = Appended(t, "phase", "running", attempt[t])]
    /\ UNCHANGED <<status, attempt, leaseToken, cancelRequested, deadline, queued,
                   record, process, crashes>>

\* complete_job: the publisher and the final status in one transaction.  The
\* worker may see the commit fail, or be cancelled at it, although it happened.
Complete(w) ==
    LET t == held[w] IN
    /\ pc[w] = "executing"
    /\ Owns(w)
    /\ status' = [status EXCEPT ![t] = "completed"]
    /\ stage' = [stage EXCEPT ![t] = "completed"]
    /\ leaseToken' = [leaseToken EXCEPT ![t] = 0]
    /\ lease' = [lease EXCEPT ![t] = 0]
    /\ published' = [published EXCEPT ![t] = Append(@, heldAttempt[w])]
    /\ business' = [business EXCEPT ![t] = "published"]
    /\ events' = [events EXCEPT ![t] = Appended(t, "completed", "completed", attempt[t])]
    /\ \/ Goto(w, "finishing") /\ UNCHANGED leaving
       \/ Goto(w, "failing") /\ \E b \in BOOLEAN : leaving' = [leaving EXCEPT ![w] = b]
    /\ UNCHANGED <<attempt, cancelRequested, deadline, queued,
                   held, heldAttempt, todo, crashes>>

\* The job coroutine raises: a provider or validation error, a publisher that
\* refuses, or stale_lease from locked_job.
Raise(w) ==
    /\ pc[w] = "executing"
    /\ Goto(w, "failing")
    /\ UNCHANGED <<row, timers, events, record, held, heldAttempt, todo, leaving, crashes>>

\* asyncio.wait_for(task, _remaining(job)) expires with the job's deadline.
TimeOut(w) ==
    /\ pc[w] = "executing"
    /\ deadline[held[w]] = 0
    /\ Goto(w, "failing")
    /\ UNCHANGED <<row, timers, events, record, held, heldAttempt, todo, leaving, crashes>>

\* run_once itself is cancelled: the job goes back to the queue, and the
\* process ends after its finally block.
Stop(w) ==
    /\ pc[w] = "executing"
    /\ Goto(w, "failing")
    /\ leaving' = [leaving EXCEPT ![w] = TRUE]
    /\ UNCHANGED <<row, timers, events, record, held, heldAttempt, todo, crashes>>

\* _fail and fail_job: retryable only for worker_stopped; a stale lease is
\* swallowed.
Fail(w) ==
    LET t     == held[w]
        again == leaving[w] /\ attempt[t] < MaxAttempts
        st    == IF again THEN "pending" ELSE "failed" IN
    /\ pc[w] = "failing"
    /\ Goto(w, "finishing")
    /\ IF Owns(w)
       THEN /\ status' = [status EXCEPT ![t] = st]
            /\ stage' = [stage EXCEPT ![t] = st]
            /\ leaseToken' = [leaseToken EXCEPT ![t] = 0]
            /\ lease' = [lease EXCEPT ![t] = 0]
            /\ events' = [events EXCEPT ![t] =
                 Appended(t, IF again THEN "phase" ELSE "failed", st, attempt[t])]
       ELSE UNCHANGED <<status, stage, leaseToken, lease, events>>
    /\ UNCHANGED <<attempt, cancelRequested, deadline, queued, record,
                   held, heldAttempt, todo, leaving, crashes>>

-----------------------------------------------------------------------------
(* The environment.                                                        *)

\* The process dies between two of its steps; its local state is lost.
Crash(w) ==
    /\ pc[w] # "down"
    /\ crashes < MaxCrashes
    /\ crashes' = crashes + 1
    /\ Goto(w, "down")
    /\ held' = [held EXCEPT ![w] = NoTask]
    /\ heldAttempt' = [heldAttempt EXCEPT ![w] = 0]
    /\ todo' = [todo EXCEPT ![w] = {}]
    /\ UNCHANGED <<row, timers, events, record, leaving>>

Restart(w) ==
    /\ pc[w] = "down"
    /\ Goto(w, "idle")
    /\ leaving' = [leaving EXCEPT ![w] = FALSE]
    /\ UNCHANGED <<row, timers, events, record, held, heldAttempt, todo, crashes>>

Less(timer) == [t \in Tasks |-> IF timer[t] > 0 THEN timer[t] - 1 ELSE 0]

Tick ==
    /\ \E t \in Tasks : lease[t] > 0 \/ deadline[t] > 0 \/ queued[t] > 0
    /\ lease' = Less(lease)
    /\ deadline' = Less(deadline)
    /\ queued' = Less(queued)
    /\ UNCHANGED <<row, events, record, process, crashes>>

-----------------------------------------------------------------------------
Request(t) == Enqueue(t) \/ Cancel(t) \/ Resume(t)

\* The steps a live worker takes by itself, and its restart by the supervisor.
Loop(w) ==
    \/ Reconcile(w) \/ ListTerminal(w) \/ ClaimNothing(w)
    \/ \E t \in Tasks : ReconcileRow(w, t) \/ Claim(w, t)
    \/ TimeOut(w) \/ Fail(w) \/ Restart(w)

\* What else may happen to a worker: nothing says that it will.
Chance(w) ==
    \/ Renew(w) \/ LeaseLost(w) \/ Complete(w) \/ Raise(w) \/ Stop(w) \/ Crash(w)
    \/ \E s \in WorkStages : Report(w, s)

Next ==
    \/ \E t \in Tasks : Request(t)
    \/ \E w \in Workers : Loop(w) \/ Chance(w)
    \/ Tick

Fairness == WF_vars(Tick) /\ \A w \in Workers : WF_vars(Loop(w))

Spec     == Init /\ [][Next]_vars
FairSpec == Spec /\ Fairness

-----------------------------------------------------------------------------
(* Correctness.                                                            *)

\* A result is published at most once, by the attempt the row counts last,
\* and exactly by tasks that completed: neither a worker whose lease was taken
\* over nor one whose task was cancelled publishes (complete_job).
PublishedByOwner ==
    \A t \in Tasks :
        /\ published[t] \in {<<>>, <<attempt[t]>>}
        /\ published[t] # <<>> <=> status[t] = "completed"

\* No two workers hold the right to publish for one task at the same time,
\* although several may be executing it (locked_job, claim_job).
SoleOwner ==
    \A v, w \in Workers :
        v # w /\ held[v] = held[w] => ~(Owns(v) /\ Owns(w))

\* The right to publish has one holder, and only its holder publishes
\* (locked_job, complete_job).
OwnerAlonePublishes == PublishedByOwner /\ SoleOwner

\* business_settled_from, shown to the owner of a task.
BusinessSettled(t) ==
    \/ status[t] = "completed"
    \/ status[t] \in {"failed", "cancelled"} /\ stage[t] \in Settled

\* A task is shown as settled exactly when its business record is no longer
\* open, and a published record is never closed by a reconciliation that
\* works from a stale list (OwnerWorker.reconcile).
BusinessFollowsTask ==
    \A t \in Tasks :
        /\ BusinessSettled(t) <=> business[t] \in {"published", "closed"}
        /\ business[t] = "published" <=> status[t] = "completed"

\* The end of a task is final: a zombie worker, a late failure, a late
\* cancellation or a late finalization never changes it; an evaluation sample
\* can only be reopened, and never after it completed.
EndedIsFinal ==
    [][\A t \in Tasks :
        status[t] \in Ended =>
            \/ status'[t] = status[t]
            \/ t \in Evaluation /\ status[t] # "completed" /\ status'[t] = "pending"]_vars

\* The queue implements its promise to the owner of a task.
Promise == INSTANCE TaskLifecycle WITH
    Reopenable <- Evaluation,
    outcome    <- [t \in Tasks |-> IF status[t] \in {"pending", "running"}
                                   THEN "open" ELSE status[t]],
    results    <- [t \in Tasks |-> Len(published[t])],
    settled    <- [t \in Tasks |-> BusinessSettled(t)]

Refines == Promise!Spec

\* What the readers of a public log may rely on: every change of the row is
\* told by one event, in the order of the changes (append_task_event).
Log(t) == INSTANCE TaskLog WITH
    status  <- status[t],
    attempt <- attempt[t],
    settled <- BusinessSettled(t),
    log     <- events[t]

KeepsLogs ==
    /\ \A t \in Tasks \ Evaluation : Log(t)!LogInit
    /\ [][\A t \in Tasks \ Evaluation : [Log(t)!LogNext]_(Log(t)!row)]_vars

\* Every submitted task is eventually settled, whatever crashes, lost leases
\* or providers that never answer (deadline, finalize_terminal_rows, reconcile).
EveryTaskSettles ==
    \A t \in Tasks \ Evaluation : status[t] # "absent" ~> BusinessSettled(t)
=============================================================================
