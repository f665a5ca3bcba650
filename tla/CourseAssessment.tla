--------------------------- MODULE CourseAssessment ---------------------------
(***************************************************************************)
(* One check at the end of a course (course_assessment_service.py): its    *)
(* objective quiz, its application task, the answers of the learner, the   *)
(* feedback jobs of every answer with the chain of grades they append      *)
(* (course_application_service.py, course_application_job.py), the review  *)
(* of an answer by a human (course_feedback_service.py), and the           *)
(* revocation of the sources.                                              *)
(*                                                                         *)
(* Every transaction locks the course first and the answer last, so each   *)
(* is one action, but the request for feedback: it saves its job, which    *)
(* fixes what plain SELECTs of the transaction will see, and waits for the *)
(* locks afterwards.  The job queue appears as what it guarantees (module  *)
(* JobQueue).  Requests that are replayed or refused change nothing and    *)
(* are no actions.  The grades of an answer are numbered; 0 stands for     *)
(* NULL.                                                                   *)
(***************************************************************************)
EXTENDS Naturals, Sequences, FiniteSets

CONSTANTS LastAnswer,    \* bound of the answers to the application task
          LastFeedback,  \* bound of the feedback jobs
          MaxSnapshots   \* bound of the snapshots that requests work on at a time

ASSUME AssessmentAssumption == LastAnswer \in Nat /\ LastFeedback \in Nat /\ MaxSnapshots \in Nat

Answers == 1 .. LastAnswer
Feedbacks == 1 .. LastFeedback
Null == 0

VARIABLES
  check,      \* learning_course_assessments.status
  objective,  \* its quiz: making, dead, open or settled
  exercise,   \* its application task: none, pending, dead or ready
  sealed,     \* the answers that completion_json names
  taught,     \* the goals and lessons it froze are still those of the course
  access,     \* its sources: granted, revoked, or purged from all it stored
  answered,   \* the number of answers
  texts,      \* the answers whose text is stored
  feedback,   \* answer -> feedback_task_id
  awaited,    \* answer -> active_task_id
  headOf,     \* answer -> latest_assessment_id
  chain,      \* answer -> its grades
  fate,       \* feedback job -> absent or its status
  target,     \* feedback job -> its answer
  swept,      \* feedback jobs whose stage says that they were reconciled
  called,     \* feedback jobs whose worker has the grade of the model
  snapshots   \* what requests for feedback saw when they saved their job

sessionVars == <<check, objective, exercise, sealed, taught, access>>
answerVars == <<answered, texts, feedback, awaited>>
gradeVars == <<headOf, chain>>
jobVars == <<fate, target, swept, called>>
assessmentVars == <<sessionVars, answerVars, gradeVars, jobVars, snapshots>>

Waits == {"pending", "running"}
Over == {"failed", "cancelled"}

\* create_course_assessment: the check and the job of its quiz.
AssessmentInit ==
  /\ check = "generating" /\ objective = "making" /\ exercise = "none"
  /\ sealed = {} /\ taught = TRUE /\ access = "granted"
  /\ answered = 0 /\ texts = {}
  /\ feedback = [a \in Answers |-> Null]
  /\ awaited = [a \in Answers |-> Null]
  /\ headOf = [a \in Answers |-> Null]
  /\ chain = [a \in Answers |-> << >>]
  /\ fate = [t \in Feedbacks |-> "absent"]
  /\ target = [t \in Feedbacks |-> Null]
  /\ swept = {} /\ called = {} /\ snapshots = {}

\* authorized_assessment, without and with require_active
Permits == access = "granted"
PermitsActive == Permits /\ taught

-----------------------------------------------------------------------------
(* The quiz, the application task and the seal                             *)

PublishAssessmentQuiz ==
  /\ objective = "making" /\ PermitsActive
  /\ objective' = "open" /\ check' = "ready"
  /\ UNCHANGED <<exercise, sealed, taught, access, answerVars, gradeVars, jobVars, snapshots>>

\* Its job dies; the check says generating for ever, and its view that it failed.
AssessmentQuizDies ==
  /\ objective = "making"
  /\ objective' = "dead"
  /\ UNCHANGED <<check, exercise, sealed, taught, access, answerVars, gradeVars, jobVars, snapshots>>

SettleQuiz ==
  /\ objective = "open" /\ PermitsActive
  /\ objective' = "settled"
  /\ UNCHANGED <<check, exercise, sealed, taught, access, answerVars, gradeVars, jobVars, snapshots>>

\* A second request that does not see the job of the first one is refused: its
\* summary of a task it cannot read is a 404.
CreateApplicationJob ==
  /\ exercise \in {"none", "dead"} /\ check # "completed" /\ PermitsActive
  /\ exercise' = "pending"
  /\ UNCHANGED <<check, objective, sealed, taught, access, answerVars, gradeVars, jobVars, snapshots>>

PublishApplications ==
  /\ exercise = "pending" /\ check # "completed" /\ PermitsActive
  /\ exercise' = "ready"
  /\ UNCHANGED <<check, objective, sealed, taught, access, answerVars, gradeVars, jobVars, snapshots>>

ApplicationJobDies ==
  /\ exercise = "pending"
  /\ exercise' = "dead"
  /\ UNCHANGED <<check, objective, sealed, taught, access, answerVars, gradeVars, jobVars, snapshots>>

SubmitApplicationAnswer ==
  /\ exercise = "ready" /\ check # "completed" /\ PermitsActive /\ answered < LastAnswer
  /\ answered' = answered + 1
  /\ texts' = texts \cup {answered + 1}
  /\ check' = IF check = "ready" THEN "in_progress" ELSE check
  /\ UNCHANGED <<objective, exercise, sealed, taught, access, feedback, awaited, gradeVars, jobVars, snapshots>>

\* complete_course_assessment; record_quiz_settlement is part of it.
CompleteAssessment ==
  /\ check # "completed" /\ objective = "settled" /\ Permits
  /\ check' = "completed"
  /\ sealed' = 1 .. answered
  /\ UNCHANGED <<objective, exercise, taught, access, answerVars, gradeVars, jobVars, snapshots>>

-----------------------------------------------------------------------------
(* The chain of grades                                                     *)

HasGrade(a, t) == \E i \in DOMAIN chain[a] : chain[a][i].task = t
Shown(a) == chain[a][headOf[a]]   \* what _application_facts finds for the answer

\* The new grade supersedes the head and becomes it.
AddGrade(a, t, by) ==
  /\ chain' = [chain EXCEPT ![a] =
                 Append(@, [task |-> t, by |-> by, supersedes |-> headOf[a], told |-> TRUE])]
  /\ headOf' = [headOf EXCEPT ![a] = IF t \in {Null, feedback[a]} THEN Len(chain[a]) + 1 ELSE @]

\* An evaluator grades the answer; revision, task and job stay as they are.
\* Only a status of graded passes ck_course_application_confirmation.
ReviewAttempt(a) ==
  /\ access # "purged" /\ headOf[a] # Null /\ Shown(a).by # "human"
  /\ AddGrade(a, Null, "human")
  /\ UNCHANGED <<sessionVars, answerVars, jobVars, snapshots>>

-----------------------------------------------------------------------------
(* The request for feedback                                                *)

\* create_feedback_job up to enqueue_job: the task of the answer, when it has
\* one, is dead.  The snapshot is of that moment.
AskFeedback(a) ==
  /\ a <= answered /\ Permits
  /\ feedback[a] # Null => fate[feedback[a]] \in Over
  /\ Cardinality(snapshots) < MaxSnapshots
  /\ snapshots' = snapshots \cup
       {[answer |-> a, task |-> feedback[a], graded |-> HasGrade(a, feedback[a])]}
  /\ UNCHANGED <<sessionVars, answerVars, gradeVars, jobVars>>

\* The rest of create_feedback_job, under the locks.  A task that was saved after
\* the snapshot cannot be read: it is neither reused nor reconciled.  A grade of
\* that kind makes the second one of its task fail, and the request with it.
BindFeedback(s, t) ==
  LET a == s.answer
      reconciles == feedback[a] # Null /\ feedback[a] = s.task /\ ~s.graded
  IN
  /\ PermitsActive
  /\ fate[t] = "absent" /\ (t # 1 => fate[t - 1] # "absent")
  /\ IF reconciles
     THEN ~HasGrade(a, feedback[a]) /\ AddGrade(a, feedback[a], "nobody")
     ELSE UNCHANGED gradeVars
  /\ feedback' = [feedback EXCEPT ![a] = t]
  /\ awaited' = [awaited EXCEPT ![a] = t]
  /\ fate' = [fate EXCEPT ![t] = "pending"]
  /\ target' = [target EXCEPT ![t] = a]
  /\ UNCHANGED <<sessionVars, answered, texts, swept, called, snapshots>>

\* The last of the requests that share a snapshot is answered, or stops.
LeaveFeedback(s) ==
  /\ snapshots' = snapshots \ {s}
  /\ UNCHANGED <<sessionVars, answerVars, gradeVars, jobVars>>

-----------------------------------------------------------------------------
(* The feedback job                                                        *)

\* authorize_application_job
AwaitsFeedback(t) == /\ PermitsActive
                     /\ awaited[target[t]] = t /\ feedback[target[t]] = t

ClaimFeedback(t) ==
  /\ fate[t] = "pending"
  /\ fate' = [fate EXCEPT ![t] = "running"]
  /\ UNCHANGED <<sessionVars, answerVars, gradeVars, target, swept, called, snapshots>>

\* _preflight, then the model grades.
CallFeedback(t) ==
  /\ fate[t] = "running" /\ t \notin called /\ AwaitsFeedback(t)
  /\ called' = called \cup {t}
  /\ UNCHANGED <<sessionVars, answerVars, gradeVars, fate, target, swept, snapshots>>

\* complete_job with the publisher of run_course_application.
PublishFeedback(t) ==
  /\ fate[t] = "running" /\ t \in called /\ AwaitsFeedback(t)
  /\ AddGrade(target[t], t, "model")
  /\ awaited' = [awaited EXCEPT ![target[t]] = Null]
  /\ fate' = [fate EXCEPT ![t] = "completed"]
  /\ called' = called \ {t}
  /\ UNCHANGED <<sessionVars, answered, texts, feedback, target, swept, snapshots>>

\* What failed is tried again or given up; a worker that stopped loses its lease.
FailFeedback(t) ==
  /\ fate[t] = "running"
  /\ \E end \in {"pending", "failed"} : fate' = [fate EXCEPT ![t] = end]
  /\ called' = called \ {t}
  /\ UNCHANGED <<sessionVars, answerVars, gradeVars, target, swept, snapshots>>

\* finalize_terminal_rows: a deadline, the queue time or the attempts are over.
ExpireFeedback(t) ==
  /\ fate[t] \in Waits
  /\ fate' = [fate EXCEPT ![t] = "failed"]
  /\ called' = called \ {t}
  /\ UNCHANGED <<sessionVars, answerVars, gradeVars, target, swept, snapshots>>

CancelFeedback(t) ==
  /\ fate[t] \in Waits
  /\ fate' = [fate EXCEPT ![t] = "cancelled"]
  /\ called' = called \ {t}
  /\ UNCHANGED <<sessionVars, answerVars, gradeVars, target, swept, snapshots>>

\* Faulty: whatever job the answer has asked for since.
NamesAnswer(t) == TRUE

StillNamed(t) == feedback[target[t]] = t

\* The owner's sweep: reconcile_course_application.
ReconcileFeedback(t) ==
  LET a == target[t] IN
  /\ fate[t] \in Over /\ t \notin swept
  /\ swept' = swept \cup {t}
  /\ IF StillNamed(t) /\ access # "purged" /\ ~HasGrade(a, t)
     THEN AddGrade(a, t, "nobody") ELSE UNCHANGED gradeVars
  /\ awaited' = [awaited EXCEPT ![a] =
       IF feedback[a] = t /\ @ = t /\ ~HasGrade(a, t) THEN Null ELSE @]
  /\ UNCHANGED <<sessionVars, answered, texts, feedback, fate, target, called, snapshots>>

-----------------------------------------------------------------------------
(* The course and its sources                                              *)

\* A lesson or the goals of the course are replaced.
ReplaceLesson ==
  /\ taught
  /\ taught' = FALSE
  /\ UNCHANGED <<check, objective, exercise, sealed, access, answerVars, gradeVars, jobVars, snapshots>>

RevokeSources ==
  /\ access = "granted"
  /\ access' = "revoked"
  /\ UNCHANGED <<check, objective, exercise, sealed, taught, answerVars, gradeVars, jobVars, snapshots>>

\* purge_course_assessments
PurgeAssessment ==
  /\ access = "revoked"
  /\ access' = "purged" /\ check' = "source_revoked" /\ sealed' = {}
  /\ texts' = {} /\ awaited' = [a \in Answers |-> Null]
  /\ chain' = [a \in Answers |-> [i \in DOMAIN chain[a] |-> [chain[a][i] EXCEPT !.told = FALSE]]]
  /\ UNCHANGED <<objective, exercise, taught, answered, feedback, headOf, jobVars, snapshots>>

-----------------------------------------------------------------------------
AssessmentNext ==
  \/ PublishAssessmentQuiz \/ AssessmentQuizDies \/ SettleQuiz
  \/ CreateApplicationJob \/ PublishApplications \/ ApplicationJobDies
  \/ SubmitApplicationAnswer \/ CompleteAssessment
  \/ ReplaceLesson \/ RevokeSources \/ PurgeAssessment
  \/ \E a \in Answers : ReviewAttempt(a) \/ AskFeedback(a)
  \/ \E s \in snapshots : LeaveFeedback(s)
  \/ \E t \in Feedbacks :
       \/ \E s \in snapshots : BindFeedback(s, t)
       \/ ClaimFeedback(t) \/ CallFeedback(t) \/ PublishFeedback(t)
       \/ FailFeedback(t) \/ ExpireFeedback(t) \/ CancelFeedback(t)
       \/ ReconcileFeedback(t)

\* Deadlines pass and the owner sweeps; no worker has to do anything.
AssessmentFairness ==
  /\ WF_assessmentVars(\E t \in Feedbacks : ExpireFeedback(t))
  /\ WF_assessmentVars(\E t \in Feedbacks : ReconcileFeedback(t))

AssessmentSpec == AssessmentInit /\ [][AssessmentNext]_assessmentVars /\ AssessmentFairness

-----------------------------------------------------------------------------
(* Properties                                                              *)

AssessmentTypeOK ==
  /\ check \in {"generating", "ready", "in_progress", "completed", "source_revoked"}
  /\ objective \in {"making", "dead", "open", "settled"}
  /\ exercise \in {"none", "pending", "dead", "ready"}
  /\ sealed \subseteq Answers /\ taught \in BOOLEAN
  /\ access \in {"granted", "revoked", "purged"}
  /\ answered \in 0 .. LastAnswer /\ texts \subseteq Answers
  /\ feedback \in [Answers -> Feedbacks \cup {Null}]
  /\ awaited \in [Answers -> Feedbacks \cup {Null}]
  /\ headOf \in [Answers -> Nat]
  /\ chain \in [Answers -> Seq([task : Feedbacks \cup {Null}, by : {"model", "human", "nobody"},
                                supersedes : Nat, told : BOOLEAN])]
  /\ fate \in [Feedbacks -> {"absent", "completed"} \cup Waits \cup Over]
  /\ target \in [Feedbacks -> Answers \cup {Null}]
  /\ swept \subseteq Feedbacks /\ called \subseteq Feedbacks
  /\ snapshots \subseteq [answer : Answers, task : Feedbacks \cup {Null}, graded : BOOLEAN]

\* Every grade supersedes the one before it and the pointer of the answer names
\* the last: the outcome of the course finds exactly one fact for the answer.
HeadEndsChain(a) ==
  /\ headOf[a] = Len(chain[a])
  /\ \A i \in DOMAIN chain[a] : chain[a][i].supersedes = i - 1

\* The job that an answer names and its grades tell one story: a job that graded,
\* or died and was reconciled, left its grade, and one that did not yet is awaited.
JobTellsGrade(a) ==
  LET t == feedback[a] IN
  t # Null => /\ target[t] = a
              /\ fate[t] \in Waits => ~HasGrade(a, t) /\ awaited[a] = t
              /\ fate[t] = "completed" => HasGrade(a, t) /\ awaited[a] = Null
              /\ fate[t] \in Over => IF t \in swept THEN HasGrade(a, t) /\ awaited[a] = Null
                                     ELSE ~HasGrade(a, t) /\ awaited[a] = t

\* The record of a check is whole, although requests for feedback overlap, jobs
\* die and are swept late, and answers are reviewed meanwhile: chains end in
\* their heads, jobs and grades agree, and a seal names all answers (_append_grade,
\* reconcile_course_application, complete_course_assessment).
RecordIsWhole ==
  /\ \A a \in Answers : HeadEndsChain(a)
  /\ access # "purged" => \A a \in Answers : JobTellsGrade(a)
  /\ check = "completed" => sealed = 1 .. answered

\* No answer waits for a job that is gone, and nothing that was told of revoked
\* sources is left.
FeedbackSettled ==
  /\ \A a \in Answers : awaited[a] = Null
  /\ access = "purged" => texts = {} /\ \A a \in Answers : \A i \in DOMAIN chain[a] : ~chain[a][i].told

\* What a human graded is what the answer shows: "personal and model corrections
\* are annotations only, official effect comes from the authorized review of a
\* human" (correction_effect).
HumanGradeStands ==
  \A a \in Answers :
    (\E i \in DOMAIN chain[a] : chain[a][i].by = "human") => Shown(a).by = "human"
===============================================================================
