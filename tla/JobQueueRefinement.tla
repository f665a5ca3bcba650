------------------------- MODULE JobQueueRefinement -------------------------
(***************************************************************************)
(* JobQueue implements TaskLifecycle: a machine-checked refinement, for    *)
(* every set of tasks, every set of workers and every value of the bounds. *)
(***************************************************************************)
EXTENDS JobQueueProofs

\* What the owner of a task sees of it.
Outcome(t) == IF status[t] \in {"pending", "running"} THEN "open" ELSE status[t]
Outcomes   == [t \in Tasks |-> Outcome(t)]
Results    == [t \in Tasks |-> Len(published[t])]
Settlement == [t \in Tasks |-> BusinessSettled(t)]

Lifecycle == <<Outcomes, Results, Settlement>>

\* The step of the queue shows the owner of t nothing.
Unseen(t) == Outcome(t)' = Outcome(t) /\ BusinessSettled(t)' = BusinessSettled(t)

LEMMA LifecycleIs ==
    /\ Promise!lifecycle = Lifecycle
    /\ Promise!lifecycle' = Lifecycle'
BY DEF Promise!lifecycle, Lifecycle, Outcomes, Outcome, Results, Settlement

\* A step that nobody sees is a stutter of the promise.
LEMMA UnseenStep ==
    ASSUME published' = published, \A t \in Tasks : Unseen(t)
    PROVE  UNCHANGED Promise!lifecycle
<1>1. Outcomes' = Outcomes /\ Settlement' = Settlement /\ Results' = Results
  BY DEF Unseen, Outcomes, Settlement, Results
<1> QED
  BY <1>1, LifecycleIs DEF Lifecycle

\* Tasks that end without a result, any number of them.
LEMMA AbortStep ==
    ASSUME NEW S \in SUBSET Tasks, published' = published,
           \A t \in S : /\ status[t] \in {"pending", "running"}
                        /\ status'[t] \in {"failed", "cancelled"}
                        /\ stage'[t] \notin Settled,
           \A t \in Tasks \ S : Unseen(t)
    PROVE  [Promise!Next]_(Promise!lifecycle)
<1>1. CASE S = {}
  BY <1>1, UnseenStep
<1>2. CASE S # {}
  <2> DEFINE how == [t \in S |-> status'[t]]
  <2>1. how \in [S -> {"failed", "cancelled"}]
    OBVIOUS
  <2>2. \A t \in S : Outcome(t) = "open"
    BY DEF Outcome
  <2>3. Outcomes' = [t \in Tasks |-> IF t \in S THEN how[t] ELSE Outcomes[t]]
    BY DEF Outcomes, Outcome, Unseen
  <2>4. \A t \in Tasks : BusinessSettled(t)' = BusinessSettled(t)
    BY DEF BusinessSettled, Unseen
  <2>5. Settlement' = Settlement /\ Results' = Results
    BY <2>4 DEF Settlement, Results
  <2>6. Promise!Abort(S)
    BY <1>2, <2>1, <2>2, <2>3, <2>5
       DEF Promise!Abort, Outcomes, Outcome, Results, Settlement
  <2> QED
    BY <2>6 DEF Promise!Next
<1> QED
  BY <1>1, <1>2

\* The rows finalize_terminal_rows ends, and no others, end in a sweep over S.
LEMMA BatchEnds ==
    ASSUME TypeOK, NEW S \in SUBSET Tasks
    PROVE  /\ Batch(S) \in SUBSET Tasks
           /\ \A t \in Batch(S) : /\ status[t] \in {"pending", "running"}
                                  /\ StatusAfter(S)[t] \in {"failed", "cancelled"}
                                  /\ StageAfter(S)[t] \notin Settled
           /\ \A t \in Tasks \ Batch(S) : /\ StatusAfter(S)[t] = status[t]
                                          /\ StageAfter(S)[t] = stage[t]
BY DEF Batch, Overdue, StatusAfter, StageAfter, FinalStatus, Settled

\* Every step of the queue is a step of the promise, or nobody sees it.
LEMMA StepImplements ==
    TypeOK /\ PublishedByOwner /\ [Next]_vars => [Promise!Next]_(Promise!lifecycle)
<1> SUFFICES ASSUME TypeOK, PublishedByOwner, [Next]_vars
             PROVE  [Promise!Next]_(Promise!lifecycle)
  OBVIOUS
<1>0. \A t \in Tasks : status'[t] = status[t] /\ stage'[t] = stage[t] => Unseen(t)
  BY DEF Unseen, Outcome, BusinessSettled
<1>1. ASSUME NEW t \in Tasks, Enqueue(t) PROVE Promise!Submit(t)
  <2>1. /\ status[t] = "absent" /\ published' = published
        /\ status' = [status EXCEPT ![t] = "pending"] /\ stage' = stage
    BY <1>1 DEF Enqueue
  <2>2. Outcomes' = [Outcomes EXCEPT ![t] = "open"]
    BY <2>1 DEF Outcomes, Outcome, TypeOK
  <2>3. \A u \in Tasks : BusinessSettled(u)' = BusinessSettled(u)
    BY <2>1 DEF BusinessSettled, TypeOK
  <2>4. Settlement' = Settlement /\ Results' = Results
    BY <2>1, <2>3 DEF Settlement, Results
  <2> QED
    BY <2>1, <2>2, <2>4 DEF Promise!Submit, Outcomes, Outcome, Results, Settlement
<1>2. ASSUME NEW t \in Tasks, Cancel(t) PROVE [Promise!Next]_(Promise!lifecycle)
  <2>1. /\ published' = published
        /\ status[t] \in {"pending", "running"}
        /\ status'[t] = "cancelled" /\ stage'[t] = "cancelled"
        /\ \A u \in Tasks \ {t} : status'[u] = status[u] /\ stage'[u] = stage[u]
    BY <1>2 DEF Cancel, record, TypeOK
  <2>2. "cancelled" \notin Settled
    BY DEF Settled
  <2> QED
    BY <1>0, <2>1, <2>2, AbortStep, {t} \in SUBSET Tasks
<1>3. ASSUME NEW t \in Tasks, Resume(t) PROVE Promise!Reopen(t)
  <2>1. /\ t \in Evaluation /\ published' = published
        /\ status[t] \in {"failed", "cancelled"}
        /\ status' = [status EXCEPT ![t] = "pending"] /\ stage' = stage
    BY <1>3 DEF Resume
  <2>2. Outcomes' = [Outcomes EXCEPT ![t] = "open"]
    BY <2>1 DEF Outcomes, Outcome, TypeOK
  <2>3. \A u \in Tasks : BusinessSettled(u)' = IF u = t THEN FALSE ELSE BusinessSettled(u)
    BY <2>1 DEF BusinessSettled, TypeOK
  <2>4. Settlement' = [Settlement EXCEPT ![t] = FALSE] /\ Results' = Results
    BY <2>1, <2>3 DEF Settlement, Results
  <2> QED
    BY <2>1, <2>2, <2>4 DEF Promise!Reopen, Outcomes, Outcome, Results, Settlement
<1>4. ASSUME NEW w \in Workers, Reconcile(w) \/ ClaimNothing(w)
      PROVE  [Promise!Next]_(Promise!lifecycle)
  <2>1. PICK S \in SUBSET Tasks : Swept(S)
    BY <1>4, SweepSteps
  <2>2. status' = StatusAfter(S) /\ stage' = StageAfter(S) /\ published' = published
    BY <2>1 DEF Swept
  <2> QED
    BY <1>0, <2>2, BatchEnds, AbortStep
<1>5. ASSUME NEW w \in Workers, NEW t \in Tasks, ReconcileRow(w, t)
      PROVE  [Promise!Next]_(Promise!lifecycle)
  <2>1. CASE Unreconciled(t)
    <3>1. /\ status' = status /\ published' = published
          /\ status[t] \in {"failed", "cancelled"} /\ stage[t] \notin Settled
          /\ stage' = [stage EXCEPT ![t] = IF status[t] = "failed"
                                           THEN "failed_reconciled"
                                           ELSE "cancelled_reconciled"]
      BY <1>5, <2>1 DEF ReconcileRow, StillUnreconciled, Unreconciled, Settled
    <3>2. Outcomes' = Outcomes /\ Results' = Results
      BY <3>1 DEF Outcomes, Outcome, Results
    <3>3. ~BusinessSettled(t)
      BY <3>1 DEF BusinessSettled
    <3>4. stage'[t] \in Settled /\ \A u \in Tasks \ {t} : stage'[u] = stage[u]
      BY <3>1 DEF Settled, TypeOK
    <3>5. \A u \in Tasks : BusinessSettled(u)' = IF u = t THEN TRUE ELSE BusinessSettled(u)
      BY <3>1, <3>4 DEF BusinessSettled
    <3>6. Settlement' = [Settlement EXCEPT ![t] = TRUE]
      BY <3>5 DEF Settlement
    <3>7. Promise!Settle(t)
      BY <3>1, <3>2, <3>3, <3>6 DEF Promise!Settle, Outcomes, Outcome, Results, Settlement
    <3> QED
      BY <3>7 DEF Promise!Next
  <2>2. CASE ~Unreconciled(t)
    BY <1>0, <1>5, <2>2, UnseenStep DEF ReconcileRow, StillUnreconciled
  <2> QED
    BY <2>1, <2>2
<1>6. ASSUME NEW w \in Workers, NEW t \in Tasks, Claim(w, t)
      PROVE  [Promise!Next]_(Promise!lifecycle)
  <2> DEFINE M == Maintained(w)
  <2>1. /\ t \notin Batch(M) /\ status[t] \in {"pending", "running"}
        /\ published' = published /\ M \in SUBSET Tasks
        /\ status' = [StatusAfter(M) EXCEPT ![t] = "running"]
        /\ stage' = [StageAfter(M) EXCEPT ![t] = "starting"]
    BY <1>6 DEF Claim, record, Runnable, Maintained
  <2>2. \A u \in Tasks \ {t} : /\ status'[u] = StatusAfter(M)[u]
                               /\ stage'[u] = StageAfter(M)[u]
    BY <2>1 DEF StatusAfter, StageAfter
  <2>3. status'[t] = "running"
    BY <2>1 DEF StatusAfter
  <2>4. Unseen(t)
    BY <2>1, <2>3 DEF Unseen, Outcome, BusinessSettled
  <2> QED
    BY <1>0, <2>1, <2>2, <2>4, BatchEnds, AbortStep
<1>7. ASSUME NEW w \in Workers, NEW s \in WorkStages, Report(w, s)
      PROVE  UNCHANGED Promise!lifecycle
  <2> PICK t \in Tasks : t = held[w]
    BY <1>7 DEF Report, Owns
  <2>1. /\ published' = published /\ status' = status
        /\ status[t] = "running"
        /\ \A u \in Tasks \ {t} : stage'[u] = stage[u]
    BY <1>7 DEF Report, Owns, record, TypeOK
  <2>2. Unseen(t)
    BY <2>1 DEF Unseen, Outcome, BusinessSettled
  <2> QED
    BY <1>0, <2>1, <2>2, UnseenStep
<1>8. ASSUME NEW w \in Workers, Complete(w) PROVE [Promise!Next]_(Promise!lifecycle)
  <2> PICK t \in Tasks : t = held[w]
    BY <1>8 DEF Complete, Owns
  <2>1. /\ status[t] = "running"
        /\ status' = [status EXCEPT ![t] = "completed"]
        /\ stage' = [stage EXCEPT ![t] = "completed"]
        /\ published' = [published EXCEPT ![t] = Append(@, heldAttempt[w])]
    BY <1>8 DEF Complete, Owns
  <2>2. published[t] = <<>>
    BY <2>1 DEF PublishedByOwner
  <2>3. Append(<<>>, heldAttempt[w]) = <<heldAttempt[w]>> /\ Len(<<heldAttempt[w]>>) = 1
        /\ Len(<<>>) = 0
    OBVIOUS
  <2>4. Results' = [Results EXCEPT ![t] = @ + 1]
    <3>1. \A u \in Tasks :
            published'[u] = IF u = t THEN <<heldAttempt[w]>> ELSE published[u]
      BY <2>1, <2>2, <2>3 DEF TypeOK
    <3>2. Len(published[t]) = 0
      BY <2>2, <2>3
    <3>3. Len(published'[t]) = 1
      BY <2>3, <3>1
    <3>4. \A u \in Tasks : Len(published'[u]) = IF u = t THEN Len(published[u]) + 1
                                                       ELSE Len(published[u])
      BY <3>1, <3>2, <3>3, 0 + 1 = 1
    <3> QED
      BY <3>4 DEF Results
  <2>5. Outcomes' = [Outcomes EXCEPT ![t] = "completed"] /\ Outcomes[t] = "open"
    BY <2>1 DEF Outcomes, Outcome, TypeOK
  <2>6. \A u \in Tasks : BusinessSettled(u)' = IF u = t THEN TRUE ELSE BusinessSettled(u)
    BY <2>1 DEF BusinessSettled, TypeOK
  <2>7. Settlement' = [Settlement EXCEPT ![t] = TRUE]
    BY <2>6 DEF Settlement
  <2>8. Promise!Publish(t)
    BY <2>1, <2>4, <2>5, <2>7 DEF Promise!Publish, Outcomes, Outcome, Results, Settlement
  <2> QED
    BY <2>1, <2>8 DEF Promise!Next
<1>9. ASSUME NEW w \in Workers, Fail(w) PROVE [Promise!Next]_(Promise!lifecycle)
  <2>1. CASE Owns(w)
    <3> PICK t \in Tasks : t = held[w]
      BY <2>1 DEF Owns
    <3>1. /\ status[t] = "running" /\ published' = published
          /\ status'[t] \in {"pending", "failed"} /\ stage'[t] = status'[t]
          /\ \A u \in Tasks \ {t} : status'[u] = status[u] /\ stage'[u] = stage[u]
      BY <1>9, <2>1 DEF Fail, Owns, record, TypeOK
    <3>2. CASE status'[t] = "pending"
      <4>1. Unseen(t)
        BY <3>1, <3>2 DEF Unseen, Outcome, BusinessSettled
      <4> QED
        BY <1>0, <3>1, <4>1, UnseenStep
    <3>3. CASE status'[t] = "failed"
      <4>1. "failed" \notin Settled /\ {t} \in SUBSET Tasks
        BY <3>1 DEF Settled
      <4> QED
        BY <1>0, <3>1, <3>3, <4>1, AbortStep
    <3> QED
      BY <3>1, <3>2, <3>3
  <2>2. CASE ~Owns(w)
    BY <1>0, <1>9, <2>2, UnseenStep DEF Fail, record
  <2> QED
    BY <2>1, <2>2
<1>10. ASSUME UNCHANGED <<status, stage, published>> PROVE UNCHANGED Promise!lifecycle
  BY <1>0, <1>10, UnseenStep
<1>11. CASE Tick \/ UNCHANGED vars
  BY <1>10, <1>11 DEF Tick, vars, row, record
<1>12. ASSUME NEW w \in Workers,
              \/ ListTerminal(w) \/ Renew(w) \/ LeaseLost(w) \/ Raise(w)
              \/ TimeOut(w) \/ Stop(w) \/ Crash(w) \/ Restart(w)
       PROVE  UNCHANGED Promise!lifecycle
  BY <1>10, <1>12, QuietSteps
<1>13. ASSUME NEW t \in Tasks, Request(t) PROVE [Promise!Next]_(Promise!lifecycle)
  <2>1. Promise!Submit(t) \/ Promise!Reopen(t) => Promise!Next
    BY DEF Promise!Next
  <2> QED
    BY <1>1, <1>2, <1>3, <1>13, <2>1 DEF Request
<1> QED
  BY <1>4, <1>5, <1>6, <1>7, <1>8, <1>9, <1>11, <1>12, <1>13 DEF Next, Loop, Chance

\* The queue keeps its promise to the owner of a task, whatever workers, lost
\* leases, crashes and retries there are (job_service.py, rag_owner.py).
THEOREM QueueRefines == Spec => Refines
<1>1. Init => Promise!Init
  <2>1. Init => /\ Outcomes = [t \in Tasks |-> "absent"]
                /\ Results = [t \in Tasks |-> 0]
                /\ Settlement = [t \in Tasks |-> FALSE]
    BY DEF Init, Outcomes, Outcome, Results, Settlement, BusinessSettled
  <2> QED
    BY <2>1 DEF Promise!Init, Outcomes, Outcome, Results, Settlement
<1> QED
  BY <1>1, StepImplements, TypeCorrect, PublishedOnce, PTL DEF Spec, Refines, Promise!Spec
=============================================================================
