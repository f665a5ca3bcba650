----------------------------- MODULE MCDocuments -----------------------------
(* A document from its upload to its erasure, and a course that was made of *)
(* one.  The vectors of the document and the lessons share no state; a      *)
(* behaviour is about one of them.                                          *)
EXTENDS SourceVectors, CourseLessons

VARIABLE kind

documentVars == <<kind, vars, courseVars>>

DocumentsInit == kind \in {"vectors", "course"} /\ Init /\ CourseInit

DocumentsNext ==
    \/ kind = "vectors" /\ Next /\ UNCHANGED <<kind, courseVars>>
    \/ kind = "course" /\ CourseNext /\ UNCHANGED <<kind, vars>>

\* Of a course: deadlines pass and the owner sweeps; no worker has to do
\* anything.  The vectors need no fairness: what is said of them is safety.
CourseFairness ==
    /\ WF_courseVars(kind = "course" /\ \E t \in Post : FailPost(t))
    /\ WF_courseVars(kind = "course" /\ \E t \in Post : ReconcileCourse(t))

DocumentsSpec == DocumentsInit /\ [][DocumentsNext]_documentVars /\ CourseFairness

\* Neither a course nor a lesson without a text waits for ever for a job that
\* is dead: when the learner has stopped asking, all of them tell how it ended
\* and may be asked for again (reconcile_course).
EveryLessonSettles == <>[](kind = "course" => Answered)
===============================================================================
