---------------------------- MODULE MCLearningJobs ----------------------------
(* The jobs of a worker that pay a provider for the learner: a grading, the *)
(* pictures of a quiz, a lesson or an outline of a course, the feedback on  *)
(* the answers of a check.  They share no state; a behaviour is about one   *)
(* of them.                                                                 *)
EXTENDS PracticeGrading, QuizImages, TeachingRun, CourseAssessment

VARIABLE kind

jobsVars == <<kind, vars, imageVars, teachingVars, assessmentVars>>

JobsInit ==
    /\ kind \in {"practice_grade", "images", "course", "course_application"}
    /\ Init /\ ImagesInit /\ TeachingInit /\ AssessmentInit
    /\ guided => kind = "course"

JobsNext ==
    \/ kind = "practice_grade" /\ Next
       /\ UNCHANGED <<kind, imageVars, teachingVars, assessmentVars>>
    \/ kind = "images" /\ ImagesNext
       /\ UNCHANGED <<kind, vars, teachingVars, assessmentVars>>
    \/ kind = "course" /\ TeachingNext
       /\ UNCHANGED <<kind, vars, imageVars, assessmentVars>>
    \/ kind = "course_application" /\ AssessmentNext
       /\ UNCHANGED <<kind, vars, imageVars, teachingVars>>

\* Of a course job: its deadline passes and the owner sweeps; no worker has to do
\* anything.  The other fairness conditions ask nothing where no grading is asked
\* for, no picture is made and nothing is answered.
TeachingFairness ==
    /\ WF_teachingVars(kind = "course" /\ EndTicket)
    /\ WF_teachingVars(kind = "course" /\ ReconcileTeaching)
    /\ WF_teachingVars(kind = "course" /\ SweepDraft)

JobsSpec ==
    /\ JobsInit /\ [][JobsNext]_jobsVars
    /\ Fairness /\ ImagesFairness /\ TeachingFairness /\ AssessmentFairness

\* No picture, no draft and no verdict is paid for twice, whatever attempts stop
\* between a request and its record (image_job_service.py:1, claim_agent_stage).
NothingIsPaidTwice == PaidOnce /\ CalledOnce

\* When the learner has stopped asking, no job leaves a request, a run or an answer
\* without an end, nor files, drafts or copies of removed sources behind, although
\* workers stop and answers are lost (reconcile_practice_grading, sweep_orphans,
\* mark_quality_terminated, purge_expired_quality_candidates,
\* reconcile_course_application).
EveryJobSettles == <>[](~Waiting /\ Swept /\ RunClosed /\ Erased /\ FeedbackSettled)
===============================================================================
