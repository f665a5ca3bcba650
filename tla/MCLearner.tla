------------------------------ MODULE MCLearner ------------------------------
(* What a learner does himself: he mails for codes and logs in, or he reviews *)
(* what he learned.  The two share no state; a behaviour is about one of them. *)
(* There are three activities about one concept: the learner opens the first, *)
(* reviews ask for the others.  The second asks a short answer, the others    *)
(* are quizzes.  Sends are exchangeable numbers, made in their order.         *)
EXTENDS AccountCodes, ReviewSchedule

CONSTANTS a1, a2, a3, q1, q2, q3, c1

VARIABLE concern

MCActivityOf == q1 :> a1 @@ q2 :> a2 @@ q3 :> a3
MCConceptOf == q1 :> c1 @@ q2 :> c1 @@ q3 :> c1
MCVersionOf == q1 :> 1 @@ q2 :> 2 @@ q3 :> 1
MCMaxRevision == q1 :> 1 @@ q2 :> 2 @@ q3 :> 1

InTurn == \A s, r \in Sends : s < r /\ phase[r] # "idle" => phase[s] # "idle"

LearnerInit == concern \in {"account", "reviews"} /\ Init /\ ScheduleInit

LearnerNext ==
    \/ concern = "account" /\ Next /\ InTurn' /\ UNCHANGED <<concern, scheduleVars>>
    \/ concern = "reviews" /\ ScheduleNext /\ UNCHANGED <<concern, vars>>

LearnerSpec == LearnerInit /\ [][LearnerNext]_<<concern, vars, scheduleVars>>
==============================================================================
