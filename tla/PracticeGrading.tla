--------------------------- MODULE PracticeGrading ---------------------------
(***************************************************************************)
(* The grading of one short answer: its grading request, the jobs that try *)
(* to grade it with a model, the chain of assessments they append, the     *)
(* learner's retries and cancellations, the review by a human, and the     *)
(* revocation of the sources.                                              *)
(*                                                                         *)
(* The job queue appears as what it guarantees (module JobQueue): a task   *)
(* is pending, running or ended, each claim is a new attempt, and only the *)
(* holder of the latest attempt of a running task passes locked_job.       *)
(* Every transaction locks the task, the space and the request first, so   *)
(* each is one action.  Replayed idempotency keys and refused requests     *)
(* change nothing and are no actions.  Assessments are numbered by their   *)
(* revision; 0 stands for NULL.                                            *)
(***************************************************************************)
EXTENDS Naturals, Sequences

CONSTANTS Workers,
          MaxTasks,     \* bound of the grading jobs of the answer
          MaxAttempts,  \* attempts of one job
          MaxReviews    \* bound of the reviews by a human

ASSUME GradingAssumption == MaxTasks \in Nat \ {0} /\ MaxAttempts \in Nat /\ MaxReviews \in Nat

Tasks == 1 .. MaxTasks
None == 0
MaxCalls == 2   \* model calls of one grading request, over all its tasks

VARIABLES
  status,      \* task -> absent, pending, running, completed, failed, cancelled
  attempt,     \* task -> its latest attempt
  names,       \* task -> the revision and the assessment its request names
  reconciled,  \* tasks whose stage says that they were reconciled
  phase,       \* grading_requests.status, absent before the answer
  revision,    \* grading_requests.revision
  active,      \* grading_requests.active_task_id
  latest,      \* grading_requests.latest_assessment_id
  grades,      \* assessments by revision; the last one is the head
  calls,       \* calls of the budget account of the request
  source,      \* the sources of the practice: active, revoked or scrubbed
  step,        \* worker -> idle, claimed, started or called
  copy         \* worker -> the task and the attempt it claimed

job == <<status, attempt, names, reconciled>>
request == <<phase, revision, active, latest>>
worker == <<step, copy>>
vars == <<job, request, grades, calls, source, worker>>

Open == {"pending", "running"}
Dead == {"failed", "cancelled"}
Steps == {"idle", "claimed", "started", "called"}
Grade == [task : Tasks \cup {None}, kind : {"graded"} \cup Dead, final : BOOLEAN]

Init ==
  /\ status = [t \in Tasks |-> "absent"]
  /\ attempt = [t \in Tasks |-> 0]
  /\ names = [t \in Tasks |-> [revision |-> 0, head |-> None]]
  /\ reconciled = {}
  /\ phase = "absent" /\ revision = 0 /\ active = None /\ latest = None
  /\ grades = << >>
  /\ calls = 0
  /\ source = "active"
  /\ step = [w \in Workers |-> "idle"]
  /\ copy = [w \in Workers |-> [task |-> 1, attempt |-> 0]]

-----------------------------------------------------------------------------
(* The head of the assessments                                             *)

\* A review by a human, or a grade confirmed by calibration.
HeadIsFinal == grades # << >> /\ grades[Len(grades)].final

\* record_assessment supersedes the head, and every caller stores the new one.
Record(t, kind, final) ==
  /\ grades' = Append(grades, [task |-> t, kind |-> kind, final |-> final])
  /\ latest' = Len(grades) + 1
  /\ revision' = revision + 1

-----------------------------------------------------------------------------
(* The request and its tasks                                               *)

\* The revision a request moves to when it gets another task.
NextRevision == revision + 1

\* A task of the request as it will be after the transaction.
Enqueue(t, rev) ==
  /\ status[t] = "absent"
  /\ t # 1 => status[t - 1] # "absent"
  /\ status' = [status EXCEPT ![t] = "pending"]
  /\ names' = [names EXCEPT ![t] = [revision |-> rev, head |-> latest]]
  /\ phase' = "pending" /\ revision' = rev /\ active' = t
  /\ UNCHANGED <<attempt, reconciled, latest, grades, calls, source, worker>>

\* The answer: the request and its first task are in the answer's transaction.
Submit == phase = "absent" /\ source = "active" /\ Enqueue(1, 0)

\* The learner asks again for the grade of a request whose task is dead.
Retry(t) ==
  /\ source = "active" /\ phase \in Dead /\ ~HeadIsFinal /\ calls < MaxCalls
  /\ Enqueue(t, NextRevision)

\* An evaluator replaces the head; a task under way is cancelled.
Review ==
  /\ source = "active" /\ phase # "absent" /\ MaxReviews > 0
  /\ Len(SelectSeq(grades, LAMBDA g : g.task = None)) < MaxReviews
  /\ Record(None, "graded", TRUE)
  /\ phase' = "completed" /\ active' = None
  /\ status' = [t \in Tasks |->
                  IF t = active /\ status[t] \in Open THEN "cancelled" ELSE status[t]]
  /\ UNCHANGED <<attempt, names, reconciled, calls, source, worker>>

-----------------------------------------------------------------------------
(* The worker                                                              *)

\* A task that waits, or whose lease expired, is handed to a worker.
Claim(w, t) ==
  /\ step[w] = "idle" /\ status[t] \in Open /\ attempt[t] < MaxAttempts
  /\ status' = [status EXCEPT ![t] = "running"]
  /\ attempt' = [attempt EXCEPT ![t] = @ + 1]
  /\ step' = [step EXCEPT ![w] = "claimed"]
  /\ copy' = [copy EXCEPT ![w] = [task |-> t, attempt |-> attempt[t] + 1]]
  /\ UNCHANGED <<names, reconciled, request, grades, calls, source>>

\* locked_job: the worker still holds the latest attempt of a running task.
Owned(w) == /\ status[copy[w].task] = "running"
            /\ attempt[copy[w].task] = copy[w].attempt

\* The request of t is the one that waits, at the revision and head t names.
Awaits(t) == /\ active = t /\ phase \in Open
             /\ names[t] = [revision |-> revision, head |-> latest]
             /\ ~HeadIsFinal

\* authorize_grading_execution
Authorized(w) == Owned(w) /\ source = "active" /\ Awaits(copy[w].task)

\* Faulty: owning the task is taken for the right to grade.
OwnsOnly(w) == Owned(w)

\* The publisher authorizes once more, in the transaction of complete_job.
MayPublish(w) == Authorized(w)

Start(w) ==
  /\ step[w] = "claimed" /\ Authorized(w)
  /\ phase' = "running"
  /\ step' = [step EXCEPT ![w] = "started"]
  /\ UNCHANGED <<job, revision, active, latest, grades, calls, source, copy>>

\* One metered call, which may end unbilled; a malformed answer is asked for
\* once more.
Call(w) ==
  /\ step[w] \in {"started", "called"} /\ Authorized(w) /\ calls < MaxCalls
  /\ calls' \in {calls, calls + 1}
  /\ step' = [step EXCEPT ![w] = "called"]
  /\ UNCHANGED <<job, request, grades, source, copy>>

Publish(w) ==
  /\ step[w] = "called" /\ MayPublish(w)
  /\ \E confirmed \in BOOLEAN : Record(copy[w].task, "graded", confirmed)
  /\ phase' = "completed"
  /\ status' = [status EXCEPT ![copy[w].task] = "completed"]
  /\ step' = [step EXCEPT ![w] = "idle"]
  /\ UNCHANGED <<attempt, names, reconciled, active, calls, source, copy>>

\* Whatever was refused or failed: fail_job, which may give the task back.
Raise(w) ==
  /\ step[w] # "idle" /\ Owned(w)
  /\ \E end \in {"failed"} \cup (IF attempt[copy[w].task] < MaxAttempts THEN {"pending"} ELSE {}) :
       status' = [status EXCEPT ![copy[w].task] = end]
  /\ step' = [step EXCEPT ![w] = "idle"]
  /\ UNCHANGED <<attempt, names, reconciled, request, grades, calls, source, copy>>

\* The worker stops, or gives up a task that it lost.
Leave(w) ==
  /\ step[w] # "idle"
  /\ step' = [step EXCEPT ![w] = "idle"]
  /\ UNCHANGED <<job, request, grades, calls, source, copy>>

-----------------------------------------------------------------------------
(* The end of a task that did not grade                                    *)

\* finalize_terminal_rows: the deadline, the queue time or the attempts are over.
Expire(t) ==
  /\ status[t] \in Open
  /\ status' = [status EXCEPT ![t] = "failed"]
  /\ UNCHANGED <<attempt, names, reconciled, request, grades, calls, source, worker>>

\* cancel_job through a route that knows nothing of grading.
CancelJob(t) ==
  /\ status[t] \in Open
  /\ status' = [status EXCEPT ![t] = "cancelled"]
  /\ UNCHANGED <<attempt, names, reconciled, request, grades, calls, source, worker>>

\* Faulty: the dead task closes the request of its successor.
LeavesAny(t) == phase \in Open /\ ~HeadIsFinal

\* The dead task t is the one the request waits for.  A scrubbed request names
\* nothing any more: the identities in the rows suffice.
LeavesRequest(t) ==
  /\ active = t /\ phase \in Open /\ ~HeadIsFinal /\ latest = Len(grades)
  /\ source # "scrubbed" => names[t] = [revision |-> revision, head |-> latest]

\* reconcile_practice_grading for a task that ended with end.
Close(t, end) ==
  IF LeavesRequest(t)
  THEN Record(t, end, FALSE) /\ phase' = end /\ UNCHANGED active
  ELSE UNCHANGED <<request, grades>>

\* The owner's sweep.
Reconcile(t) ==
  /\ status[t] \in Dead /\ t \notin reconciled
  /\ reconciled' = reconciled \cup {t}
  /\ Close(t, status[t])
  /\ UNCHANGED <<status, attempt, names, calls, source, worker>>

\* The learner cancels the task: the request is closed in the same transaction.
CancelPracticeTask(t) ==
  /\ status[t] \in Open \cup Dead
  /\ status' = [status EXCEPT ![t] = IF @ \in Open THEN "cancelled" ELSE @]
  /\ Close(t, status'[t])
  /\ UNCHANGED <<attempt, names, reconciled, calls, source, worker>>

\* The sources are revoked; later their copies are scrubbed from the requests.
Revoke ==
  /\ source' = CASE source = "active" -> "revoked" [] OTHER -> "scrubbed"
  /\ source # "scrubbed"
  /\ UNCHANGED <<job, request, grades, calls, worker>>

-----------------------------------------------------------------------------
Next ==
  \/ Submit \/ Review \/ Revoke
  \/ \E t \in Tasks : \/ Retry(t) \/ Expire(t) \/ CancelJob(t)
                      \/ Reconcile(t) \/ CancelPracticeTask(t)
                      \/ \E w \in Workers : Claim(w, t)
  \/ \E w \in Workers : Start(w) \/ Call(w) \/ Publish(w) \/ Raise(w) \/ Leave(w)

Spec == Init /\ [][Next]_vars

\* Deadlines pass and the owner sweeps; no worker has to do anything.
Fairness ==
  /\ WF_vars(\E t \in Tasks : Expire(t))
  /\ WF_vars(\E t \in Tasks : Reconcile(t))

-----------------------------------------------------------------------------
(* Properties                                                              *)

TypeOK ==
  /\ status \in [Tasks -> {"absent", "completed"} \cup Open \cup Dead]
  /\ attempt \in [Tasks -> Nat]
  /\ names \in [Tasks -> [revision : Nat, head : Nat]]
  /\ reconciled \subseteq Tasks
  /\ phase \in {"absent", "completed"} \cup Open \cup Dead
  /\ revision \in Nat /\ latest \in Nat /\ active \in Tasks \cup {None}
  /\ grades \in Seq(Grade)
  /\ calls \in Nat
  /\ source \in {"active", "revoked", "scrubbed"}
  /\ step \in [Workers -> Steps]
  /\ copy \in [Workers -> [task : Tasks, attempt : Nat]]

\* The request, its task and the head of the assessments tell one story: an
\* ended request ended as its head says, and a waiting one has a task that
\* names its revision and head, so that the task can still grade or close it.
RequestTellsHead ==
  /\ latest = Len(grades)
  /\ phase = "completed" => grades # << >> /\ grades[latest].kind = "graded"
  /\ phase \in Dead => /\ grades # << >> /\ grades[latest].kind = phase
                       /\ grades[latest].task = active
  /\ phase \in Open => /\ active # None /\ status[active] \in Open \cup Dead
                       /\ names[active] = [revision |-> revision, head |-> latest]
                       /\ ~HeadIsFinal

\* No grade comes late.  Once a human has reviewed the answer, or a confirmed
\* grade is its head, no model grade and no dead task replaces it: not a call
\* that comes back after the review, not a retry, not a sweep.  After the
\* revocation nothing enters the assessments, though a call may be out, but the
\* fact that a task died (the publisher of run_practice_grading,
\* reconcile_practice_grading).
NoLateGrade ==
  [][grades' # grades =>
       LET g == grades'[Len(grades')] IN
       /\ HeadIsFinal => g.task = None
       /\ source # "active" => g.kind \in Dead]_vars

\* The request of the learner has no answer yet.
Waiting == phase \in Open
=============================================================================
