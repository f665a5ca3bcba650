------------------------ MODULE PracticeGradingProofs ------------------------
(***************************************************************************)
(* Machine-checked proofs about PracticeGrading, for any number of         *)
(* workers, grading jobs, attempts and reviews.                            *)
(***************************************************************************)
EXTENDS PracticeGrading, SequenceTheorems, TLAPS

USE DEF Tasks, None, Open, Dead, job, request, worker

LEMMA TaskFacts == 1 \in Tasks /\ None \notin Tasks /\ \A t \in Tasks : t \in Nat
BY GradingAssumption

-----------------------------------------------------------------------------
(* Type correctness.                                                       *)

\* record_assessment appends one assessment, which becomes the head.
LEMMA RecordType ==
    ASSUME TypeOK, NEW t \in Tasks \cup {None}, NEW kind \in {"graded"} \cup Dead,
           NEW final \in BOOLEAN, Record(t, kind, final)
    PROVE  /\ grades' \in Seq(Grade) /\ latest' \in Nat /\ revision' \in Nat
           /\ Len(grades') = Len(grades) + 1 /\ latest' = Len(grades')
           /\ grades' # << >>
           /\ grades'[Len(grades')] = [task |-> t, kind |-> kind, final |-> final]
<1> DEFINE g == [task |-> t, kind |-> kind, final |-> final]
<1>1. g \in Grade
  BY DEF Grade
<1>2. grades \in Seq(Grade) /\ revision \in Nat
  BY DEF TypeOK
<1>3. grades' = Append(grades, g) /\ latest' = Len(grades) + 1 /\ revision' = revision + 1
  BY DEF Record
<1>4. /\ Append(grades, g) \in Seq(Grade)
      /\ Len(Append(grades, g)) = Len(grades) + 1
      /\ Append(grades, g)[Len(grades) + 1] = g
  BY <1>1, <1>2, AppendProperties
<1>5. Len(grades) \in Nat
  BY <1>2, LenProperties
<1>6. Append(grades, g) # << >>
  BY <1>4, <1>5, EmptySeq
<1> QED
  BY <1>2, <1>3, <1>4, <1>5, <1>6

\* A task that gets another job for the request.
LEMMA EnqueueType ==
    ASSUME TypeOK, NEW t \in Tasks, NEW rev \in Nat, Enqueue(t, rev)
    PROVE  TypeOK'
<1>1. status' \in [Tasks -> {"absent", "completed"} \cup Open \cup Dead]
  BY DEF Enqueue, TypeOK
<1>2. names' \in [Tasks -> [revision : Nat, head : Nat]]
  BY DEF Enqueue, TypeOK
<1> QED
  BY <1>1, <1>2 DEF Enqueue, TypeOK

\* What the close of a dead task leaves of the types.
LEMMA CloseType ==
    ASSUME TypeOK, NEW t \in Tasks, NEW end \in Dead, Close(t, end)
    PROVE  /\ phase' \in {"absent", "completed"} \cup Open \cup Dead
           /\ revision' \in Nat /\ latest' \in Nat /\ active' \in Tasks \cup {None}
           /\ grades' \in Seq(Grade)
<1>1. CASE LeavesRequest(t)
  BY <1>1, RecordType DEF Close, TypeOK
<1>2. CASE ~LeavesRequest(t)
  BY <1>2 DEF Close, TypeOK
<1> QED
  BY <1>1, <1>2

\* Every variable keeps its type in every behaviour.
THEOREM TypeCorrect == Spec => []TypeOK
<1>1. Init => TypeOK
  <2>1. << >> \in Seq(Grade)
    BY EmptySeq
  <2> QED
    BY <2>1, TaskFacts DEF Init, TypeOK, Steps
<1>2. TypeOK /\ [Next]_vars => TypeOK'
  <2> SUFFICES ASSUME TypeOK, [Next]_vars PROVE TypeOK'
    OBVIOUS
  <2>1. CASE Submit
    BY <2>1, TaskFacts, EnqueueType DEF Submit
  <2>2. CASE Review
    <3>1. /\ grades' \in Seq(Grade) /\ latest' \in Nat /\ revision' \in Nat
      BY <2>2, RecordType DEF Review
    <3>2. status' \in [Tasks -> {"absent", "completed"} \cup Open \cup Dead]
      BY <2>2 DEF Review, TypeOK
    <3> QED
      BY <2>2, <3>1, <3>2 DEF Review, TypeOK
  <2>3. CASE Revoke
    BY <2>3 DEF Revoke, TypeOK
  <2>4. ASSUME NEW t \in Tasks, Retry(t) PROVE TypeOK'
    <3>1. NextRevision \in Nat
      BY DEF NextRevision, TypeOK
    <3> QED
      BY <2>4, <3>1, EnqueueType DEF Retry
  <2>5. ASSUME NEW t \in Tasks, Expire(t) \/ CancelJob(t) PROVE TypeOK'
    BY <2>5 DEF Expire, CancelJob, TypeOK
  <2>6. ASSUME NEW t \in Tasks, Reconcile(t) PROVE TypeOK'
    <3>1. Close(t, status[t]) /\ status[t] \in Dead
      BY <2>6 DEF Reconcile
    <3> QED
      BY <2>6, <3>1, CloseType DEF Reconcile, TypeOK
  <2>7. ASSUME NEW t \in Tasks, CancelPracticeTask(t) PROVE TypeOK'
    <3>1. /\ status' = [status EXCEPT ![t] = IF @ \in Open THEN "cancelled" ELSE @]
          /\ status[t] \in Open \cup Dead /\ Close(t, status'[t])
      BY <2>7 DEF CancelPracticeTask
    <3>2. /\ status' \in [Tasks -> {"absent", "completed"} \cup Open \cup Dead]
          /\ status'[t] \in Dead
      BY <3>1 DEF TypeOK
    <3> QED
      BY <2>7, <3>1, <3>2, CloseType DEF CancelPracticeTask, TypeOK
  <2>8. ASSUME NEW w \in Workers, NEW t \in Tasks, Claim(w, t) PROVE TypeOK'
    <3> DEFINE next == attempt[t] + 1
    <3>1. /\ status' = [status EXCEPT ![t] = "running"]
          /\ attempt' = [attempt EXCEPT ![t] = next]
          /\ step' = [step EXCEPT ![w] = "claimed"]
          /\ copy' = [copy EXCEPT ![w] = [task |-> t, attempt |-> next]]
          /\ UNCHANGED <<names, reconciled, phase, revision, active, latest, grades, calls, source>>
      BY <2>8 DEF Claim
    <3>2. next \in Nat
      <4>1. attempt \in [Tasks -> Nat]
        BY DEF TypeOK
      <4> HIDE DEF Tasks
      <4>2. attempt[t] \in Nat
        BY <4>1
      <4> QED
        BY <4>2
    <3>3. [task |-> t, attempt |-> next] \in [task : Tasks, attempt : Nat]
      BY <3>2
    <3> HIDE DEF next
    <3>4. /\ status' \in [Tasks -> {"absent", "completed"} \cup Open \cup Dead]
          /\ attempt' \in [Tasks -> Nat]
          /\ step' \in [Workers -> Steps]
      BY <3>1, <3>2 DEF TypeOK, Steps
    <3>5. copy' \in [Workers -> [task : Tasks, attempt : Nat]]
      BY <3>1, <3>3 DEF TypeOK
    <3> QED
      BY <3>1, <3>4, <3>5 DEF TypeOK
  <2>9. ASSUME NEW w \in Workers, Start(w) \/ Call(w) \/ Leave(w) PROVE TypeOK'
    <3>1. step' \in [Workers -> Steps]
      BY <2>9 DEF Start, Call, Leave, TypeOK, Steps
    <3>2. calls' = calls \/ calls' = calls + 1
      BY <2>9 DEF Start, Call, Leave
    <3>3. phase' = phase \/ phase' = "running"
      BY <2>9 DEF Start, Call, Leave
    <3>4. UNCHANGED <<status, attempt, names, reconciled, revision, active, latest, grades,
                      source, copy>>
      BY <2>9 DEF Start, Call, Leave
    <3>5. calls' \in Nat
      BY <3>2 DEF TypeOK
    <3>6. phase' \in {"absent", "completed"} \cup Open \cup Dead
      BY <3>3 DEF TypeOK
    <3>7. /\ status' = status /\ attempt' = attempt /\ names' = names
          /\ reconciled' = reconciled /\ revision' = revision /\ active' = active
          /\ latest' = latest /\ grades' = grades /\ source' = source /\ copy' = copy
      BY <3>4
    <3> QED
      BY <3>1, <3>5, <3>6, <3>7 DEF TypeOK
  <2>10. ASSUME NEW w \in Workers, Publish(w) PROVE TypeOK'
    <3>1. copy[w].task \in Tasks
      BY DEF TypeOK
    <3>2. grades' \in Seq(Grade) /\ latest' \in Nat /\ revision' \in Nat
      BY <2>10, <3>1, RecordType DEF Publish
    <3>3. /\ status' \in [Tasks -> {"absent", "completed"} \cup Open \cup Dead]
          /\ step' \in [Workers -> Steps]
      BY <2>10, <3>1 DEF Publish, TypeOK, Steps
    <3> QED
      BY <2>10, <3>2, <3>3 DEF Publish, TypeOK
  <2>11. ASSUME NEW w \in Workers, Raise(w) PROVE TypeOK'
    <3>1. PICK end \in {"failed", "pending"} : status' = [status EXCEPT ![copy[w].task] = end]
      BY <2>11 DEF Raise
    <3>2. /\ status' \in [Tasks -> {"absent", "completed"} \cup Open \cup Dead]
          /\ step' \in [Workers -> Steps]
      BY <2>11, <3>1 DEF Raise, TypeOK, Steps
    <3> QED
      BY <2>11, <3>2 DEF Raise, TypeOK
  <2>12. CASE UNCHANGED vars
    BY <2>12 DEF vars, TypeOK
  <2> QED
    BY <2>1, <2>2, <2>3, <2>4, <2>5, <2>6, <2>7, <2>8, <2>9, <2>10, <2>11, <2>12 DEF Next
<1> QED
  BY <1>1, <1>2, PTL DEF Spec

-----------------------------------------------------------------------------
(* The request and its head.  RequestTellsHead is inductive once it also   *)
(* says that there is no assessment before the answer.                     *)

Tells == RequestTellsHead /\ (phase = "absent" => grades = << >>)

\* A step that leaves request and assessments alone, and the waiting task alive
\* or dead.
LEMMA TellsKept ==
    ASSUME Tells,
           revision' = revision, active' = active, latest' = latest, grades' = grades,
           names' = names,
           phase' = phase \/ {phase, phase'} \subseteq Open,
           phase \in Open => status'[active] \in Open \cup Dead
    PROVE  Tells'
BY DEF Tells, RequestTellsHead, HeadIsFinal

\* The request gets a task that names its revision and its head.
LEMMA EnqueueTells ==
    ASSUME TypeOK, Tells, NEW t \in Tasks, NEW rev \in Nat, Enqueue(t, rev), ~HeadIsFinal
    PROVE  Tells'
<1>1. status'[t] = "pending" /\ names'[t] = [revision |-> rev, head |-> latest]
  BY DEF Enqueue, TypeOK
<1>2. /\ phase' = "pending" /\ revision' = rev /\ active' = t
      /\ UNCHANGED <<latest, grades>>
  BY DEF Enqueue
<1>3. ~HeadIsFinal'
  BY <1>2 DEF HeadIsFinal
<1> QED
  BY <1>1, <1>2, <1>3, TaskFacts DEF Tells, RequestTellsHead

\* A dead task closes the request that waits for it, or nothing happens.
LEMMA CloseTells ==
    ASSUME TypeOK, Tells, NEW t \in Tasks, NEW end \in Dead, Close(t, end),
           names' = names, \A u \in Tasks : status[u] \in Open \cup Dead
                                               => status'[u] \in Open \cup Dead
    PROVE  Tells'
<1>1. CASE LeavesRequest(t)
  <2>1. /\ Record(t, end, FALSE) /\ phase' = end /\ active' = active /\ active = t
    BY <1>1 DEF Close, LeavesRequest
  <2>2. /\ latest' = Len(grades') /\ grades' # << >>
        /\ grades'[Len(grades')] = [task |-> t, kind |-> end, final |-> FALSE]
    BY <2>1, RecordType
  <2> QED
    BY <2>1, <2>2 DEF Tells, RequestTellsHead
<1>2. CASE ~LeavesRequest(t)
  <2>1. UNCHANGED <<phase, revision, active, latest, grades>>
    BY <1>2 DEF Close
  <2>2. phase \in Open => active \in Tasks /\ status[active] \in Open \cup Dead
    BY DEF Tells, RequestTellsHead, TypeOK
  <2> QED
    BY <2>1, <2>2, TellsKept
<1> QED
  BY <1>1, <1>2

LEMMA TellsNext == TypeOK /\ Tells /\ [Next]_vars => Tells'
<1> SUFFICES ASSUME TypeOK, Tells, [Next]_vars PROVE Tells'
  OBVIOUS
<1>0. phase \in Open => active \in Tasks /\ status[active] \in Open \cup Dead
  BY DEF Tells, RequestTellsHead, TypeOK
<1>1. CASE Submit
  <2>1. ~HeadIsFinal
    BY <1>1 DEF Submit, Tells, HeadIsFinal
  <2> QED
    BY <1>1, <2>1, TaskFacts, EnqueueTells DEF Submit
<1>2. CASE Review
  <2>1. /\ Record(None, "graded", TRUE) /\ phase' = "completed"
    BY <1>2 DEF Review
  <2>2. /\ latest' = Len(grades') /\ grades' # << >>
        /\ grades'[Len(grades')] = [task |-> None, kind |-> "graded", final |-> TRUE]
    BY <2>1, RecordType
  <2> QED
    BY <2>1, <2>2 DEF Tells, RequestTellsHead
<1>3. CASE Revoke
  BY <1>0, <1>3, TellsKept DEF Revoke
<1>4. ASSUME NEW t \in Tasks, Retry(t) PROVE Tells'
  <2>1. NextRevision \in Nat
    BY DEF NextRevision, TypeOK
  <2> QED
    BY <1>4, <2>1, EnqueueTells DEF Retry
<1>5. ASSUME NEW t \in Tasks, Expire(t) \/ CancelJob(t) PROVE Tells'
  BY <1>0, <1>5, TellsKept DEF Expire, CancelJob, TypeOK
<1>6. ASSUME NEW t \in Tasks, Reconcile(t) PROVE Tells'
  BY <1>6, CloseTells DEF Reconcile
<1>7. ASSUME NEW t \in Tasks, CancelPracticeTask(t) PROVE Tells'
  <2>1. /\ status' = [status EXCEPT ![t] = IF @ \in Open THEN "cancelled" ELSE @]
        /\ status[t] \in Open \cup Dead /\ Close(t, status'[t]) /\ names' = names
    BY <1>7 DEF CancelPracticeTask
  <2>2. /\ status'[t] \in Dead
        /\ \A u \in Tasks : status[u] \in Open \cup Dead => status'[u] \in Open \cup Dead
    BY <2>1 DEF TypeOK
  <2> QED
    BY <2>1, <2>2, CloseTells
<1>8. ASSUME NEW w \in Workers, NEW t \in Tasks, Claim(w, t) PROVE Tells'
  BY <1>0, <1>8, TellsKept DEF Claim, TypeOK
<1>9. ASSUME NEW w \in Workers, Start(w) PROVE Tells'
  <2>1. phase \in Open /\ phase' \in Open /\ status' = status
    BY <1>9 DEF Start, Authorized, Awaits
  <2> QED
    BY <1>0, <1>9, <2>1, TellsKept DEF Start
<1>10. ASSUME NEW w \in Workers, Call(w) \/ Leave(w) PROVE Tells'
  BY <1>0, <1>10, TellsKept DEF Call, Leave
<1>11. ASSUME NEW w \in Workers, Publish(w) PROVE Tells'
  <2>1. PICK confirmed \in BOOLEAN : Record(copy[w].task, "graded", confirmed)
    BY <1>11 DEF Publish
  <2>2. copy[w].task \in Tasks /\ phase' = "completed"
    BY <1>11 DEF Publish, TypeOK
  <2>3. /\ latest' = Len(grades') /\ grades' # << >>
        /\ grades'[Len(grades')]
             = [task |-> copy[w].task, kind |-> "graded", final |-> confirmed]
    BY <2>1, <2>2, RecordType
  <2> QED
    BY <2>2, <2>3 DEF Tells, RequestTellsHead
<1>12. ASSUME NEW w \in Workers, Raise(w) PROVE Tells'
  <2>1. PICK end \in {"failed", "pending"} : status' = [status EXCEPT ![copy[w].task] = end]
    BY <1>12 DEF Raise
  <2>2. phase \in Open => status'[active] \in Open \cup Dead
    BY <1>0, <2>1 DEF TypeOK
  <2> QED
    BY <1>12, <2>2, TellsKept DEF Raise
<1>13. CASE UNCHANGED vars
  BY <1>0, <1>13, TellsKept DEF vars
<1> QED
  BY <1>1, <1>2, <1>3, <1>4, <1>5, <1>6, <1>7, <1>8, <1>9, <1>10, <1>11, <1>12, <1>13 DEF Next

\* The request, its task and the head of the assessments tell one story, for
\* any number of jobs, attempts, workers and reviews
\* (reconcile_practice_grading, require_grading_job).
THEOREM RequestFollowsHead == Spec => []RequestTellsHead
<1>1. Init => Tells
  BY EmptySeq DEF Init, Tells, RequestTellsHead
<1>2. Tells => RequestTellsHead
  BY DEF Tells
<1> QED
  BY <1>1, <1>2, TellsNext, TypeCorrect, PTL DEF Spec

-----------------------------------------------------------------------------
(* No late grade.                                                          *)

Late == LET g == grades'[Len(grades')] IN
        /\ HeadIsFinal => g.task = None
        /\ source # "active" => g.kind \in Dead

LEMMA CloseIsNotLate ==
    ASSUME TypeOK, NEW t \in Tasks, NEW end \in Dead, Close(t, end), grades' # grades
    PROVE  Late
<1>1. LeavesRequest(t) /\ Record(t, end, FALSE)
  BY DEF Close
<1>2. grades'[Len(grades')] = [task |-> t, kind |-> end, final |-> FALSE]
  BY <1>1, RecordType
<1> QED
  BY <1>1, <1>2 DEF LeavesRequest, Late

\* After a final grade nothing but a review enters the assessments, and after
\* the revocation nothing but the death of a task, whatever calls are out
\* (run_practice_grading.publish, reconcile_practice_grading).
THEOREM GradesAreInTime == Spec => NoLateGrade
<1>1. TypeOK /\ [Next]_vars => [grades' # grades => Late]_vars
  <2> SUFFICES ASSUME TypeOK, [Next]_vars, grades' # grades PROVE Late
    OBVIOUS
  <2>1. CASE Review
    <3>1. grades'[Len(grades')] = [task |-> None, kind |-> "graded", final |-> TRUE]
      BY <2>1, RecordType DEF Review
    <3> QED
      BY <2>1, <3>1 DEF Review, Late
  <2>2. ASSUME NEW w \in Workers, Publish(w) PROVE Late
    <3>1. source = "active" /\ ~HeadIsFinal
      BY <2>2 DEF Publish, MayPublish, Authorized, Awaits
    <3> QED
      BY <3>1 DEF Late
  <2>3. ASSUME NEW t \in Tasks, Reconcile(t) PROVE Late
    BY <2>3, CloseIsNotLate DEF Reconcile
  <2>4. ASSUME NEW t \in Tasks, CancelPracticeTask(t) PROVE Late
    <3>1. Close(t, status'[t]) /\ status'[t] \in Dead
      BY <2>4 DEF CancelPracticeTask, TypeOK
    <3> QED
      BY <3>1, CloseIsNotLate
  <2> QED
    BY <2>1, <2>2, <2>3, <2>4
       DEF Next, Submit, Retry, Enqueue, Revoke, Expire, CancelJob, Claim, Start, Call, Raise,
           Leave, vars
<1> QED
  BY <1>1, TypeCorrect, PTL DEF Spec, NoLateGrade, Late
=============================================================================
