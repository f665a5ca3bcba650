--------------------------- MODULE JobQueueProofs ---------------------------
(***************************************************************************)
(* Machine-checked proofs about JobQueue, for every set of tasks, every    *)
(* set of workers and every value of the bounds.                           *)
(***************************************************************************)
EXTENDS JobQueue, SequenceTheorems, TLAPS

LEMMA BoundFacts ==
    /\ MaxAttempts \in Nat /\ MaxCrashes \in Nat
    /\ LeaseTime \in Nat /\ JobTime \in Nat /\ QueueTime \in Nat
    /\ 0 \in 0..MaxAttempts
    /\ 0 \in 0..LeaseTime
BY BoundAssumption

USE BoundFacts

EventStatuses == {"queued", "pending", "running"} \cup Ended

\* Appended keeps the event log a log.
LEMMA AppendedType ==
    ASSUME events \in [Tasks -> Seq(Event)],
           NEW t \in Tasks, NEW type \in EventTypes,
           NEW st \in EventStatuses, NEW a \in 0..MaxAttempts
    PROVE  Appended(t, type, st, a) \in Seq(Event)
<1>1. [type |-> type, status |-> st, attempt |-> a] \in Event
  BY DEF Event, EventStatuses
<1>2. events[t] \in Seq(Event)
  OBVIOUS
<1> QED
  BY <1>1, <1>2, AppendProperties DEF Appended

\* finalize_terminal_rows keeps the types of the columns it writes.
LEMMA AfterType ==
    ASSUME TypeOK, NEW S \in SUBSET Tasks
    PROVE  /\ StatusAfter(S) \in [Tasks -> Statuses]
           /\ StageAfter(S) \in [Tasks -> StageSet]
           /\ TokenAfter(S) \in [Tasks -> 0..MaxAttempts]
           /\ LeaseAfter(S) \in [Tasks -> 0..LeaseTime]
           /\ EventsAfter(S) \in [Tasks -> Seq(Event)]
<1>1. \A t \in Tasks : FinalStatus(t) \in {"failed", "cancelled"}
  BY DEF FinalStatus
<1>2. ASSUME NEW t \in Tasks
      PROVE  Appended(t, FinalStatus(t), FinalStatus(t), attempt[t]) \in Seq(Event)
  BY <1>1, AppendedType DEF TypeOK, EventTypes, EventStatuses, Ended
<1>3. EventsAfter(S) \in [Tasks -> Seq(Event)]
  BY <1>2 DEF EventsAfter, TypeOK
<1>4. /\ StatusAfter(S) \in [Tasks -> Statuses]
      /\ StageAfter(S) \in [Tasks -> StageSet]
  BY <1>1 DEF StatusAfter, StageAfter, TypeOK, Statuses, StageSet, Ended
<1>5. /\ TokenAfter(S) \in [Tasks -> 0..MaxAttempts]
      /\ LeaseAfter(S) \in [Tasks -> 0..LeaseTime]
  BY DEF TokenAfter, LeaseAfter, TypeOK
<1> QED
  BY <1>3, <1>4, <1>5

LEMMA LeaveType ==
    ASSUME TypeOK, NEW w \in Workers, Leave(w)
    PROVE  /\ pc' \in [Workers -> Places]
           /\ held' \in [Workers -> Tasks \cup {NoTask}]
           /\ heldAttempt' \in [Workers -> 0..MaxAttempts]
<1>1. CASE held[w] = NoTask
  BY <1>1 DEF Leave, Goto, TypeOK, Places
<1>2. CASE held[w] # NoTask
  <2>1. pc' \in [Workers -> Places]
    BY <1>2 DEF Leave, Goto, TypeOK, Places
  <2>2. held' \in [Workers -> Tasks \cup {NoTask}]
    BY <1>2 DEF Leave, TypeOK
  <2>3. heldAttempt' \in [Workers -> 0..MaxAttempts]
    BY <1>2 DEF Leave, TypeOK
  <2> QED
    BY <2>1, <2>2, <2>3
<1> QED
  BY <1>1, <1>2

LEMMA ScopeType ==
    ASSUME TypeOK, NEW w \in Workers
    PROVE  Scope(w) \in SUBSET Tasks
BY DEF Scope, TypeOK

-----------------------------------------------------------------------------
(* Type correctness.                                                       *)

\* Every variable keeps its type in every behaviour.
THEOREM TypeCorrect == Spec => []TypeOK
<1>1. Init => TypeOK
  <2> SUFFICES ASSUME Init PROVE TypeOK
    OBVIOUS
  <2>1. <<>> \in Seq(Event) /\ <<>> \in Seq(0..MaxAttempts)
    BY EmptySeq
  <2> QED
    BY <2>1 DEF Init, TypeOK, Statuses, StageSet, Places
<1>2. TypeOK /\ [Next]_vars => TypeOK'
  <2> SUFFICES ASSUME TypeOK, [Next]_vars PROVE TypeOK'
    OBVIOUS
  <2>1. ASSUME NEW t \in Tasks, Enqueue(t) PROVE TypeOK'
    <3>1. Appended(t, "phase", "queued", 0) \in Seq(Event)
      BY AppendedType DEF TypeOK, EventTypes, EventStatuses
    <3> QED
      BY <2>1, <3>1, SMTT(30) DEF Enqueue, TypeOK, process, Statuses
  <2>2. ASSUME NEW t \in Tasks, Cancel(t) PROVE TypeOK'
    <3>1. Appended(t, "cancelled", "cancelled", attempt[t]) \in Seq(Event)
      BY AppendedType DEF TypeOK, EventTypes, EventStatuses, Ended
    <3> QED
      BY <2>2, <3>1 DEF Cancel, TypeOK, timers, record, process, Statuses, Ended, StageSet
  <2>3. ASSUME NEW t \in Tasks, Resume(t) PROVE TypeOK'
    BY <2>3 DEF Resume, TypeOK, timers, process, Statuses
  <2>4. ASSUME NEW w \in Workers, Reconcile(w) PROVE TypeOK'
    <3>1. /\ StatusAfter(Scope(w)) \in [Tasks -> Statuses]
          /\ StageAfter(Scope(w)) \in [Tasks -> StageSet]
          /\ TokenAfter(Scope(w)) \in [Tasks -> 0..MaxAttempts]
          /\ LeaseAfter(Scope(w)) \in [Tasks -> 0..LeaseTime]
          /\ EventsAfter(Scope(w)) \in [Tasks -> Seq(Event)]
      BY AfterType, ScopeType
    <3>2. /\ status' \in [Tasks -> Statuses]
          /\ stage' \in [Tasks -> StageSet]
          /\ leaseToken' \in [Tasks -> 0..MaxAttempts]
          /\ lease' \in [Tasks -> 0..LeaseTime]
          /\ events' \in [Tasks -> Seq(Event)]
      BY <2>4, <3>1 DEF Reconcile, TypeOK
    <3>3. pc' \in [Workers -> Places]
      BY <2>4 DEF Reconcile, TypeOK, Goto, Places
    <3> QED
      BY <2>4, <3>2, <3>3 DEF Reconcile, TypeOK, record
  <2>5. ASSUME NEW w \in Workers, ListTerminal(w) PROVE TypeOK'
    <3>1. {t \in Scope(w) : Unreconciled(t)} \in SUBSET Tasks
      BY ScopeType
    <3>2. /\ pc' \in [Workers -> Places]
          /\ held' \in [Workers -> Tasks \cup {NoTask}]
          /\ heldAttempt' \in [Workers -> 0..MaxAttempts]
      BY <2>5, LeaveType DEF ListTerminal, Goto, TypeOK, Places
    <3>3. todo' \in [Workers -> SUBSET Tasks]
      BY <2>5, <3>1 DEF ListTerminal, TypeOK
    <3> QED
      BY <2>5, <3>2, <3>3 DEF ListTerminal, TypeOK, row, timers, record
  <2>6. ASSUME NEW w \in Workers, NEW t \in Tasks, ReconcileRow(w, t) PROVE TypeOK'
    <3>1. Unreconciled(t) => Appended(t, "settled", status[t], attempt[t]) \in Seq(Event)
      BY AppendedType DEF Unreconciled, TypeOK, EventTypes, EventStatuses, Ended
    <3>2. ASSUME Unreconciled(t)
          PROVE  /\ stage' \in [Tasks -> StageSet]
                 /\ business' \in [Tasks -> {"absent", "open", "published", "closed"}]
                 /\ events' \in [Tasks -> Seq(Event)]
      <4>1. stage' \in [Tasks -> StageSet]
        <5>1. stage' = [stage EXCEPT ![t] = IF status[t] = "failed"
                                            THEN "failed_reconciled"
                                            ELSE "cancelled_reconciled"]
          BY <2>6, <3>2 DEF ReconcileRow, StillUnreconciled
        <5> QED
          BY <5>1 DEF TypeOK, StageSet, Settled
      <4>2. business' \in [Tasks -> {"absent", "open", "published", "closed"}]
        <5>1. business' = [business EXCEPT ![t] = IF @ = "open" THEN "closed" ELSE @]
          BY <2>6, <3>2 DEF ReconcileRow, StillUnreconciled
        <5> QED
          BY <5>1 DEF TypeOK
      <4>3. events' \in [Tasks -> Seq(Event)]
        BY <2>6, <3>1, <3>2 DEF ReconcileRow, StillUnreconciled, TypeOK
      <4> QED
        BY <4>1, <4>2, <4>3
    <3>3. ASSUME ~Unreconciled(t)
          PROVE  /\ stage' \in [Tasks -> StageSet]
                 /\ business' \in [Tasks -> {"absent", "open", "published", "closed"}]
                 /\ events' \in [Tasks -> Seq(Event)]
      BY <2>6, <3>3 DEF ReconcileRow, StillUnreconciled, TypeOK
    <3>4. /\ stage' \in [Tasks -> StageSet]
          /\ business' \in [Tasks -> {"absent", "open", "published", "closed"}]
          /\ events' \in [Tasks -> Seq(Event)]
      BY <3>2, <3>3
    <3>5. /\ pc' \in [Workers -> Places]
          /\ held' \in [Workers -> Tasks \cup {NoTask}]
          /\ heldAttempt' \in [Workers -> 0..MaxAttempts]
      BY <2>6, LeaveType DEF ReconcileRow, TypeOK
    <3>6. todo' \in [Workers -> SUBSET Tasks]
      BY <2>6 DEF ReconcileRow, TypeOK
    <3> QED
      BY <2>6, <3>4, <3>5, <3>6 DEF ReconcileRow, TypeOK, timers
  <2>7. ASSUME NEW w \in Workers, NEW t \in Tasks, Claim(w, t) PROVE TypeOK'
    <3> DEFINE limit == IF attempt[t] = 0 THEN JobTime ELSE deadline[t]
    <3>1. attempt[t] + 1 \in 1..MaxAttempts
      BY <2>7 DEF Claim, Runnable, TypeOK
    <3>2. limit \in 0..JobTime
      BY DEF TypeOK
    <3>3. Smaller(limit, LeaseTime) \in 0..LeaseTime
      BY <3>2 DEF Smaller
    <3>4. Appended(t, "phase", "running", attempt[t] + 1) \in Seq(Event)
      BY <3>1, AppendedType DEF TypeOK, EventTypes, EventStatuses
    <3>5. Maintained(w) \in SUBSET Tasks
      BY DEF Maintained
    <3>6. /\ status' \in [Tasks -> Statuses]
          /\ stage' \in [Tasks -> StageSet]
          /\ leaseToken' \in [Tasks -> 0..MaxAttempts]
          /\ lease' \in [Tasks -> 0..LeaseTime]
          /\ events' \in [Tasks -> Seq(Event)]
      BY <2>7, <3>1, <3>3, <3>4, <3>5, AfterType DEF Claim, Statuses, StageSet
    <3>7. /\ attempt' \in [Tasks -> 0..MaxAttempts]
          /\ deadline' \in [Tasks -> 0..JobTime]
          /\ heldAttempt' \in [Workers -> 0..MaxAttempts]
      BY <2>7, <3>1, <3>2 DEF Claim, TypeOK
    <3> QED
      BY <2>7, <3>6, <3>7 DEF Claim, TypeOK, record, Goto, Places
  <2>8. ASSUME NEW w \in Workers, ClaimNothing(w) PROVE TypeOK'
    <3>1. Maintained(w) \in SUBSET Tasks
      BY DEF Maintained
    <3> QED
      BY <2>8, <3>1, AfterType DEF ClaimNothing, TypeOK, record, Goto, Places
  <2>9. ASSUME NEW w \in Workers, Renew(w) PROVE TypeOK'
    <3>1. held[w] \in Tasks /\ deadline[held[w]] \in 0..JobTime
      BY <2>9 DEF Renew, Owns, TypeOK
    <3>2. Smaller(deadline[held[w]], LeaseTime) \in 0..LeaseTime
      BY <3>1 DEF Smaller
    <3> QED
      BY <2>9, <3>2 DEF Renew, TypeOK, row, record, process
  <2>10. ASSUME NEW w \in Workers, LeaseLost(w) \/ Raise(w) \/ TimeOut(w) \/ Stop(w)
         PROVE TypeOK'
    BY <2>10 DEF LeaseLost, Raise, TimeOut, Stop, TypeOK, row, timers, record, Goto, Places
  <2>11. ASSUME NEW w \in Workers, NEW s \in WorkStages, Report(w, s) PROVE TypeOK'
    <3>1. held[w] \in Tasks
      BY <2>11 DEF Report, Owns
    <3>2. deadline[held[w]] \in 0..JobTime
      BY <3>1 DEF TypeOK
    <3>3. Smaller(deadline[held[w]], LeaseTime) \in 0..LeaseTime
      BY <3>2 DEF Smaller
    <3>4. Appended(held[w], "phase", "running", attempt[held[w]]) \in Seq(Event)
      BY <3>1, AppendedType DEF TypeOK, EventTypes, EventStatuses
    <3> QED
      BY <2>11, <3>3, <3>4 DEF Report, TypeOK, record, process, StageSet
  <2>12. ASSUME NEW w \in Workers, Complete(w) PROVE TypeOK'
    <3>1. held[w] \in Tasks /\ heldAttempt[w] \in 0..MaxAttempts
      BY <2>12 DEF Complete, Owns, TypeOK
    <3>2. Appended(held[w], "completed", "completed", attempt[held[w]]) \in Seq(Event)
      BY <3>1, AppendedType DEF TypeOK, EventTypes, EventStatuses, Ended
    <3>3. Append(published[held[w]], heldAttempt[w]) \in Seq(0..MaxAttempts)
      BY <3>1, AppendProperties DEF TypeOK
    <3>4. leaving' \in [Workers -> BOOLEAN] /\ pc' \in [Workers -> Places]
      BY <2>12 DEF Complete, Goto, TypeOK, Places
    <3>5. /\ events' \in [Tasks -> Seq(Event)]
          /\ published' \in [Tasks -> Seq(0..MaxAttempts)]
      BY <2>12, <3>2, <3>3 DEF Complete, TypeOK
    <3>6. /\ status' \in [Tasks -> Statuses]
          /\ stage' \in [Tasks -> StageSet]
      BY <2>12 DEF Complete, TypeOK, Statuses, StageSet, Ended
    <3>7. /\ leaseToken' \in [Tasks -> 0..MaxAttempts]
          /\ lease' \in [Tasks -> 0..LeaseTime]
      BY <2>12 DEF Complete, TypeOK
    <3>8. business' \in [Tasks -> {"absent", "open", "published", "closed"}]
      BY <2>12 DEF Complete, TypeOK
    <3> QED
      BY <2>12, <3>4, <3>5, <3>6, <3>7, <3>8 DEF Complete, TypeOK
  <2>13. ASSUME NEW w \in Workers, Fail(w) PROVE TypeOK'
    <3> DEFINE again == leaving[w] /\ attempt[held[w]] < MaxAttempts
               st == IF again THEN "pending" ELSE "failed"
               type == IF again THEN "phase" ELSE "failed"
    <3>1. Owns(w) => Appended(held[w], type, st, attempt[held[w]]) \in Seq(Event)
      BY AppendedType DEF Owns, TypeOK, EventTypes, EventStatuses, Ended
    <3>2. st \in Statuses \cap StageSet
      BY DEF Statuses, StageSet, Ended
    <3>3. events' \in [Tasks -> Seq(Event)]
      BY <2>13, <3>1 DEF Fail, TypeOK
    <3>4. CASE Owns(w)
      <4>0. /\ leaseToken' = [leaseToken EXCEPT ![held[w]] = 0]
            /\ lease' = [lease EXCEPT ![held[w]] = 0]
        BY <2>13, <3>4 DEF Fail
      <4>1. status' \in [Tasks -> Statuses]
        BY <2>13, <3>2, <3>4 DEF Fail, TypeOK
      <4>2. stage' \in [Tasks -> StageSet]
        BY <2>13, <3>2, <3>4 DEF Fail, TypeOK
      <4>3. leaseToken' \in [Tasks -> 0..MaxAttempts]
        BY <4>0 DEF TypeOK
      <4>4. lease' \in [Tasks -> 0..LeaseTime]
        BY <4>0 DEF TypeOK
      <4> QED
        BY <2>13, <3>3, <4>1, <4>2, <4>3, <4>4 DEF Fail, TypeOK, record, Goto, Places
    <3>5. CASE ~Owns(w)
      BY <2>13, <3>5 DEF Fail, TypeOK, record, Goto, Places
    <3> QED
      BY <3>4, <3>5
  <2>14. ASSUME NEW w \in Workers, Crash(w) PROVE TypeOK'
    <3>1. crashes' \in 0..MaxCrashes
      BY <2>14 DEF Crash, TypeOK
    <3> QED
      BY <2>14, <3>1 DEF Crash, TypeOK, row, timers, record, Goto, Places
  <2>15. ASSUME NEW w \in Workers, Restart(w) PROVE TypeOK'
    BY <2>15 DEF Restart, TypeOK, row, timers, record, Goto, Places
  <2>16. CASE Tick
    <3>1. /\ Less(lease) \in [Tasks -> 0..LeaseTime]
          /\ Less(deadline) \in [Tasks -> 0..JobTime]
          /\ Less(queued) \in [Tasks -> 0..QueueTime]
      <4>1. /\ lease \in [Tasks -> 0..LeaseTime] /\ deadline \in [Tasks -> 0..JobTime]
            /\ queued \in [Tasks -> 0..QueueTime]
        BY DEF TypeOK
      <4>2. Less(lease) \in [Tasks -> 0..LeaseTime]
        BY <4>1 DEF Less
      <4>3. Less(deadline) \in [Tasks -> 0..JobTime]
        BY <4>1 DEF Less
      <4>4. Less(queued) \in [Tasks -> 0..QueueTime]
        BY <4>1 DEF Less
      <4> QED
        BY <4>2, <4>3, <4>4
    <3>2. lease' = Less(lease) /\ deadline' = Less(deadline) /\ queued' = Less(queued)
      BY <2>16 DEF Tick
    <3> QED
      BY <2>16, <3>1, <3>2 DEF Tick, TypeOK, row, record, process
  <2>17. CASE UNCHANGED vars
    BY <2>17 DEF vars, TypeOK, row, timers, record, process
  <2> QED
    BY <2>1, <2>2, <2>3, <2>4, <2>5, <2>6, <2>7, <2>8, <2>9, <2>10, <2>11, <2>12,
       <2>13, <2>14, <2>15, <2>16, <2>17 DEF Next, Request, Loop, Chance
<1> QED
  BY <1>1, <1>2, PTL DEF Spec

-----------------------------------------------------------------------------
(* How the steps divide: most steps of a worker touch no row, and the two  *)
(* that only finalize rows have the same effect.                           *)

LEMMA QuietSteps ==
    ASSUME NEW w \in Workers,
           \/ ListTerminal(w) \/ Renew(w) \/ LeaseLost(w) \/ Raise(w)
           \/ TimeOut(w) \/ Stop(w) \/ Crash(w) \/ Restart(w)
    PROVE  UNCHANGED <<status, stage, attempt, events, business, published>>
BY DEF ListTerminal, Renew, LeaseLost, Raise, TimeOut, Stop, Crash, Restart, row, record

\* The rows after finalize_terminal_rows over S, and nothing else changed.
Swept(S) ==
    /\ status' = StatusAfter(S)
    /\ stage' = StageAfter(S)
    /\ events' = EventsAfter(S)
    /\ UNCHANGED <<attempt, business, published>>

LEMMA SweepSteps ==
    ASSUME TypeOK, NEW w \in Workers, Reconcile(w) \/ ClaimNothing(w)
    PROVE  \E S \in SUBSET Tasks : Swept(S)
<1>1. CASE Reconcile(w) /\ w \in Generators /\ held[w] = NoTask
  <2>1. StatusAfter({}) = status /\ StageAfter({}) = stage /\ EventsAfter({}) = events
    BY DEF StatusAfter, StageAfter, EventsAfter, Batch, TypeOK
  <2>2. Swept({})
    BY <1>1, <2>1 DEF Reconcile, Swept, record
  <2> QED
    BY <2>2
<1>2. CASE Reconcile(w) /\ ~(w \in Generators /\ held[w] = NoTask)
  <2>1. Swept(Scope(w))
    BY <1>2 DEF Reconcile, Swept, record
  <2> QED
    BY <2>1, ScopeType
<1>3. CASE ClaimNothing(w)
  <2>1. Swept(Maintained(w)) /\ Maintained(w) \in SUBSET Tasks
    BY <1>3 DEF ClaimNothing, Swept, record, Maintained
  <2> QED
    BY <2>1
<1> QED
  BY <1>1, <1>2, <1>3

LEMMA SweptStatus ==
    ASSUME TypeOK, NEW S \in SUBSET Tasks, status' = StatusAfter(S), NEW t \in Tasks
    PROVE  \/ status'[t] = status[t]
           \/ /\ t \in Batch(S)
              /\ status[t] \in {"pending", "running"}
              /\ status'[t] \in {"failed", "cancelled"}
BY DEF StatusAfter, Batch, Overdue, FinalStatus, TypeOK

-----------------------------------------------------------------------------
(* One result per task, published by the attempt that owns the row.  The   *)
(* invariant is inductive by itself: every publication happens under       *)
(* locked_job, which a second worker or a cancelled one fails.             *)

THEOREM PublishedOnce == Spec => []PublishedByOwner
<1>1. Init => PublishedByOwner
  BY DEF Init, PublishedByOwner
<1>2. TypeOK /\ PublishedByOwner /\ [Next]_vars => PublishedByOwner'
  <2> SUFFICES ASSUME TypeOK, PublishedByOwner, [Next]_vars, NEW u \in Tasks
               PROVE  /\ published'[u] \in {<<>>, <<attempt'[u]>>}
                      /\ published'[u] # <<>> <=> status'[u] = "completed"
    BY DEF PublishedByOwner
  <2>0. /\ published[u] \in {<<>>, <<attempt[u]>>}
        /\ published[u] # <<>> <=> status[u] = "completed"
    BY DEF PublishedByOwner
  <2>1. ASSUME NEW t \in Tasks, Request(t)
        PROVE  /\ UNCHANGED <<attempt, published>>
               /\ status'[u] = "completed" <=> status[u] = "completed"
    BY <2>1 DEF Request, Enqueue, Cancel, Resume, record, TypeOK
  <2>2. ASSUME NEW w \in Workers, Reconcile(w) \/ ClaimNothing(w)
        PROVE  /\ UNCHANGED <<attempt, published>>
               /\ status'[u] = "completed" <=> status[u] = "completed"
    <3>1. PICK S \in SUBSET Tasks : Swept(S)
      BY <2>2, SweepSteps
    <3> QED
      BY <3>1, SweptStatus DEF Swept
  <2>3. ASSUME NEW w \in Workers, NEW t \in Tasks, ReconcileRow(w, t)
        PROVE  UNCHANGED <<status, attempt, published>>
    BY <2>3 DEF ReconcileRow
  <2>4. ASSUME NEW w \in Workers, NEW t \in Tasks, Claim(w, t)
        PROVE  /\ published'[u] \in {<<>>, <<attempt'[u]>>}
               /\ published'[u] # <<>> <=> status'[u] = "completed"
    <3>1. published' = published /\ Maintained(w) \in SUBSET Tasks
      BY <2>4 DEF Claim, record, Maintained
    <3>2. CASE u = t
      <4>1. status[t] # "completed" /\ status'[t] = "running"
        <5>1. StatusAfter(Maintained(w)) \in [Tasks -> Statuses]
          BY <3>1, AfterType
        <5> QED
          BY <2>4, <5>1 DEF Claim, Runnable
      <4> QED
        BY <2>0, <3>1, <3>2, <4>1
    <3>3. CASE u # t
      <4>1. attempt'[u] = attempt[u] /\ status'[u] = StatusAfter(Maintained(w))[u]
        <5>1. StatusAfter(Maintained(w)) \in [Tasks -> Statuses]
          BY <3>1, AfterType
        <5> QED
          BY <2>4, <3>3, <5>1 DEF Claim, TypeOK
      <4>2. StatusAfter(Maintained(w))[u] = "completed" <=> status[u] = "completed"
        BY <3>1 DEF StatusAfter, Batch, Overdue, FinalStatus
      <4> QED
        BY <2>0, <3>1, <4>1, <4>2
    <3> QED
      BY <3>2, <3>3
  <2>5. ASSUME NEW w \in Workers, NEW s \in WorkStages, Report(w, s)
        PROVE  UNCHANGED <<status, attempt, published>>
    BY <2>5 DEF Report, record
  <2>6. ASSUME NEW w \in Workers, Complete(w)
        PROVE  /\ published'[u] \in {<<>>, <<attempt'[u]>>}
               /\ published'[u] # <<>> <=> status'[u] = "completed"
    <3>1. /\ held[w] \in Tasks
          /\ status[held[w]] = "running"
          /\ attempt[held[w]] = heldAttempt[w]
          /\ attempt' = attempt
      BY <2>6 DEF Complete, Owns
    <3>2. published[held[w]] = <<>>
      BY <3>1 DEF PublishedByOwner
    <3>3. CASE u = held[w]
      <4>1. published'[u] = Append(<<>>, heldAttempt[w]) /\ status'[u] = "completed"
        BY <2>6, <3>1, <3>2, <3>3 DEF Complete, TypeOK
      <4>2. Append(<<>>, heldAttempt[w]) = <<heldAttempt[w]>>
        OBVIOUS
      <4> QED
        BY <3>1, <3>3, <4>1, <4>2
    <3>4. CASE u # held[w]
      <4>1. published'[u] = published[u] /\ status'[u] = status[u]
        BY <2>6, <3>1, <3>4 DEF Complete, TypeOK
      <4> QED
        BY <2>0, <3>1, <4>1
    <3> QED
      BY <3>3, <3>4
  <2>7. ASSUME NEW w \in Workers, Fail(w)
        PROVE  /\ UNCHANGED <<attempt, published>>
               /\ status'[u] = "completed" <=> status[u] = "completed"
    <3>1. CASE Owns(w)
      BY <2>7, <3>1 DEF Fail, Owns, record, TypeOK
    <3>2. CASE ~Owns(w)
      BY <2>7, <3>2 DEF Fail, record
    <3> QED
      BY <3>1, <3>2
  <2>8. CASE Tick \/ UNCHANGED vars
    BY <2>0, <2>8 DEF Tick, vars, row, record
  <2> QED
    BY <2>0, <2>1, <2>2, <2>3, <2>4, <2>5, <2>6, <2>7, <2>8, QuietSteps
       DEF Next, Loop, Chance
<1> QED
  BY <1>1, <1>2, TypeCorrect, PTL DEF Spec

-----------------------------------------------------------------------------
(* One owner per task.  Two workers may hold the same task, one of them    *)
(* from an older claim, but never with the same attempt: a claim takes an  *)
(* attempt that no worker holds yet.                                       *)

Holders ==
    /\ \A w \in Workers : held[w] \in Tasks => heldAttempt[w] <= attempt[held[w]]
    /\ \A v, w \in Workers :
          v # w /\ held[v] = held[w] /\ held[v] \in Tasks => heldAttempt[v] # heldAttempt[w]

\* A worker drops its job or keeps it; attempts never decrease meanwhile.
LEMMA HoldersKept ==
    ASSUME TypeOK, TypeOK', Holders,
           \A t \in Tasks : attempt[t] <= attempt'[t],
           \A v \in Workers : \/ held'[v] = NoTask
                              \/ held'[v] = held[v] /\ heldAttempt'[v] = heldAttempt[v]
    PROVE  Holders'
<1>1. ASSUME NEW w \in Workers, held'[w] \in Tasks
      PROVE  heldAttempt'[w] <= attempt'[held'[w]]
  <2>1. held'[w] = held[w] /\ heldAttempt'[w] = heldAttempt[w]
    BY <1>1, TaskAssumption
  <2>2. heldAttempt[w] <= attempt[held[w]] /\ attempt[held[w]] <= attempt'[held[w]]
    BY <1>1, <2>1 DEF Holders
  <2>3. /\ heldAttempt[w] \in Nat
        /\ attempt[held[w]] \in Nat /\ attempt'[held[w]] \in Nat
    BY <1>1, <2>1 DEF TypeOK
  <2> QED
    BY <2>1, <2>2, <2>3
<1>2. ASSUME NEW v \in Workers, NEW w \in Workers,
             v # w, held'[v] = held'[w], held'[v] \in Tasks
      PROVE  heldAttempt'[v] # heldAttempt'[w]
  BY <1>2, TaskAssumption DEF Holders
<1> QED
  BY <1>1, <1>2 DEF Holders

LEMMA HoldersInvariant == Spec => []Holders
<1>1. Init => Holders
  BY TaskAssumption DEF Init, Holders
<1>2. TypeOK /\ TypeOK' /\ Holders /\ [Next]_vars => Holders'
  <2> SUFFICES ASSUME TypeOK, TypeOK', Holders, [Next]_vars PROVE Holders'
    OBVIOUS
  <2> DEFINE Keeps == /\ \A t \in Tasks : attempt[t] <= attempt'[t]
                      /\ \A v \in Workers :
                           \/ held'[v] = NoTask
                           \/ held'[v] = held[v] /\ heldAttempt'[v] = heldAttempt[v]
  <2>0. \A t \in Tasks : attempt[t] <= attempt[t]
    BY DEF TypeOK
  <2>1. ASSUME NEW t \in Tasks, Request(t) PROVE Keeps
    BY <2>0, <2>1 DEF Request, Enqueue, Cancel, Resume, process
  <2>2. ASSUME NEW w \in Workers, Leave(w), attempt' = attempt PROVE Keeps
    BY <2>0, <2>2 DEF Leave, TypeOK
  <2>3. ASSUME NEW w \in Workers, ListTerminal(w) PROVE Keeps
    BY <2>0, <2>2, <2>3 DEF ListTerminal, row
  <2>4. ASSUME NEW w \in Workers, NEW t \in Tasks, ReconcileRow(w, t) PROVE Keeps
    BY <2>0, <2>2, <2>4 DEF ReconcileRow
  <2>5. ASSUME NEW w \in Workers, Crash(w) PROVE Keeps
    BY <2>0, <2>5 DEF Crash, row, TypeOK
  <2>6. ASSUME NEW w \in Workers,
               \/ Reconcile(w) \/ ClaimNothing(w) \/ Renew(w) \/ LeaseLost(w)
               \/ Complete(w) \/ Raise(w) \/ TimeOut(w) \/ Stop(w) \/ Fail(w) \/ Restart(w)
               \/ \E s \in WorkStages : Report(w, s)
        PROVE  Keeps
    <3>1. UNCHANGED <<attempt, held, heldAttempt>>
      BY <2>6 DEF Reconcile, ClaimNothing, Renew, LeaseLost, Complete, Raise, TimeOut,
                  Stop, Fail, Restart, Report, row, process
    <3> QED
      BY <2>0, <3>1
  <2>7. ASSUME Tick \/ UNCHANGED vars PROVE Keeps
    BY <2>0, <2>7 DEF Tick, vars, row, process
  <2>8. ASSUME NEW w \in Workers, NEW t \in Tasks, Claim(w, t) PROVE Holders'
    <3>1. /\ attempt' = [attempt EXCEPT ![t] = attempt[t] + 1]
          /\ held' = [held EXCEPT ![w] = t]
          /\ heldAttempt' = [heldAttempt EXCEPT ![w] = attempt[t] + 1]
      BY <2>8 DEF Claim
    <3>2. ASSUME NEW v \in Workers, v # w, held[v] \in Tasks
          PROVE  /\ heldAttempt[v] \in Nat
                 /\ held[v] = t => heldAttempt[v] < attempt[t] + 1
                 /\ heldAttempt[v] <= attempt'[held[v]]
      <4>1. heldAttempt[v] \in Nat /\ attempt[held[v]] \in Nat
        BY <3>2 DEF TypeOK
      <4>2. heldAttempt[v] <= attempt[held[v]]
        BY <3>2 DEF Holders
      <4>3. attempt'[held[v]] = IF held[v] = t THEN attempt[t] + 1 ELSE attempt[held[v]]
        BY <3>1, <3>2 DEF TypeOK
      <4> QED
        BY <4>1, <4>2, <4>3
    <3>3. \A v \in Workers \ {w} : held'[v] = held[v] /\ heldAttempt'[v] = heldAttempt[v]
      BY <3>1 DEF TypeOK
    <3>4. held'[w] = t /\ heldAttempt'[w] = attempt[t] + 1 /\ attempt'[t] = attempt[t] + 1
      BY <3>1 DEF TypeOK
    <3>5. attempt[t] \in Nat
      BY DEF TypeOK
    <3>6. ASSUME NEW v \in Workers, held'[v] \in Tasks
          PROVE  heldAttempt'[v] <= attempt'[held'[v]]
      BY <3>2, <3>3, <3>4, <3>5, <3>6
    <3>7. ASSUME NEW v \in Workers, NEW x \in Workers,
                 v # x, held'[v] = held'[x], held'[v] \in Tasks
          PROVE  heldAttempt'[v] # heldAttempt'[x]
      <4>1. CASE v = w
        BY <3>2, <3>3, <3>4, <3>5, <3>7, <4>1
      <4>2. CASE x = w
        BY <3>2, <3>3, <3>4, <3>5, <3>7, <4>2
      <4>3. CASE v # w /\ x # w
        BY <3>3, <3>7, <4>3 DEF Holders
      <4> QED
        BY <4>1, <4>2, <4>3
    <3> QED
      BY <3>6, <3>7 DEF Holders
  <2>9. Keeps \/ Holders'
    <3> HIDE DEF Keeps
    <3> QED
      BY <2>1, <2>3, <2>4, <2>5, <2>6, <2>7, <2>8 DEF Next, Loop, Chance
  <2> QED
    BY <2>9, HoldersKept
<1> QED
  BY <1>1, <1>2, TypeCorrect, PTL DEF Spec

\* No two workers own one task at the same time, for any number of workers.
THEOREM OneOwner == Spec => []SoleOwner
<1>1. TypeOK /\ Holders => SoleOwner
  BY DEF Holders, SoleOwner, Owns
<1> QED
  BY <1>1, TypeCorrect, HoldersInvariant, PTL

\* The right to publish has one holder and nobody else publishes, for any
\* number of workers and attempts (locked_job, complete_job).
THEOREM OwnerPublishes == Spec => []OwnerAlonePublishes
BY PublishedOnce, OneOwner, PTL DEF OwnerAlonePublishes

-----------------------------------------------------------------------------
(* Ended tasks stay ended.                                                 *)

\* No step of any worker changes the status of an ended task; resume_run may
\* reopen a failed or cancelled evaluation sample.
THEOREM EndingIsFinal == Spec => EndedIsFinal
<1> DEFINE Final == \A t \in Tasks :
              status[t] \in Ended =>
                  \/ status'[t] = status[t]
                  \/ t \in Evaluation /\ status[t] # "completed" /\ status'[t] = "pending"
<1>1. TypeOK /\ [Next]_vars => [Final]_vars
  <2> SUFFICES ASSUME TypeOK, [Next]_vars, NEW u \in Tasks, status[u] \in Ended
               PROVE  \/ status'[u] = status[u]
                      \/ u \in Evaluation /\ status[u] # "completed" /\ status'[u] = "pending"
    OBVIOUS
  <2>0. status[u] \notin {"absent", "pending", "running"}
    BY DEF Ended
  <2>1. ASSUME NEW t \in Tasks, Enqueue(t) \/ Cancel(t) PROVE status'[u] = status[u]
    BY <2>0, <2>1 DEF Enqueue, Cancel, TypeOK
  <2>2. ASSUME NEW t \in Tasks, Resume(t)
        PROVE  \/ status'[u] = status[u]
               \/ u \in Evaluation /\ status[u] # "completed" /\ status'[u] = "pending"
    BY <2>2 DEF Resume, TypeOK
  <2>3. ASSUME NEW w \in Workers, Reconcile(w) \/ ClaimNothing(w) PROVE status'[u] = status[u]
    <3>1. PICK S \in SUBSET Tasks : Swept(S)
      BY <2>3, SweepSteps
    <3> QED
      BY <2>0, <3>1, SweptStatus DEF Swept
  <2>4. ASSUME NEW w \in Workers, NEW t \in Tasks, ReconcileRow(w, t) PROVE status'[u] = status[u]
    BY <2>4 DEF ReconcileRow
  <2>5. ASSUME NEW w \in Workers, NEW t \in Tasks, Claim(w, t) PROVE status'[u] = status[u]
    <3>1. u # t
      BY <2>0, <2>5 DEF Claim, Runnable
    <3>2. status'[u] = StatusAfter(Maintained(w))[u]
      BY <2>5, <3>1 DEF Claim, StatusAfter
    <3> QED
      BY <2>0, <3>2 DEF StatusAfter, Batch, Overdue
  <2>6. ASSUME NEW w \in Workers, Complete(w) \/ Fail(w) PROVE status'[u] = status[u]
    BY <2>0, <2>6 DEF Complete, Fail, Owns, TypeOK
  <2>7. ASSUME NEW w \in Workers, NEW s \in WorkStages, Report(w, s) PROVE status'[u] = status[u]
    BY <2>7 DEF Report
  <2>8. CASE Tick \/ UNCHANGED vars
    BY <2>8 DEF Tick, vars, row
  <2> QED
    BY <2>1, <2>2, <2>3, <2>4, <2>5, <2>6, <2>7, <2>8, QuietSteps
       DEF Next, Request, Loop, Chance
<1> QED
  BY <1>1, TypeCorrect, PTL DEF Spec, EndedIsFinal

-----------------------------------------------------------------------------
(* The business record of a task follows its row.  What makes the property *)
(* inductive is that a record exists as soon as its task does: a row that  *)
(* reconcile closes always finds one.                                      *)

Follows(t) ==
    /\ BusinessSettled(t) <=> business[t] \in {"published", "closed"}
    /\ business[t] = "published" <=> status[t] = "completed"
    /\ business[t] = "absent" <=> status[t] = "absent"

\* A step that ends no task and settles none leaves the record alone.
LEMMA FollowsKept ==
    ASSUME NEW t \in Tasks, Follows(t), business'[t] = business[t],
           \/ status'[t] = status[t] /\ stage'[t] = stage[t]
           \/ /\ status[t] \in {"pending", "running"}
              /\ status'[t] \in {"pending", "running", "failed", "cancelled"}
              /\ stage'[t] \notin Settled
    PROVE  Follows(t)'
BY DEF Follows, BusinessSettled

\* Settled is true exactly of the tasks whose record is closed or published,
\* for any number of workers that reconcile from stale lists
\* (OwnerWorker.reconcile, resume_run).
THEOREM RecordFollowsTask == Spec => []BusinessFollowsTask
<1> DEFINE Inv == \A t \in Tasks : Follows(t)
<1>1. Init => Inv
  BY DEF Init, Follows, BusinessSettled
<1>2. TypeOK /\ Inv /\ [Next]_vars => Inv'
  <2> SUFFICES ASSUME TypeOK, Inv, [Next]_vars, NEW u \in Tasks PROVE Follows(u)'
    OBVIOUS
  <2>0. /\ Follows(u)
        /\ Settled \cap ({"queued", "starting", "pending", "completed", "failed", "cancelled"}
                          \cup WorkStages) = {}
    BY StageAssumption DEF Settled
  <2>1. ASSUME NEW t \in Tasks, Enqueue(t) PROVE Follows(u)'
    <3>1. CASE u = t
      BY <2>1, <3>1 DEF Enqueue, Follows, BusinessSettled, TypeOK
    <3>2. CASE u # t
      BY <2>0, <2>1, <3>2, FollowsKept DEF Enqueue, TypeOK
    <3> QED
      BY <3>1, <3>2
  <2>2. ASSUME NEW t \in Tasks, Cancel(t) PROVE Follows(u)'
    BY <2>0, <2>2, FollowsKept DEF Cancel, record, TypeOK
  <2>3. ASSUME NEW t \in Tasks, Resume(t) PROVE Follows(u)'
    <3>1. CASE u = t
      BY <2>3, <3>1 DEF Resume, Follows, BusinessSettled, TypeOK
    <3>2. CASE u # t
      BY <2>0, <2>3, <3>2, FollowsKept DEF Resume, TypeOK
    <3> QED
      BY <3>1, <3>2
  <2>4. ASSUME NEW w \in Workers, Reconcile(w) \/ ClaimNothing(w) PROVE Follows(u)'
    <3>1. PICK S \in SUBSET Tasks : Swept(S)
      BY <2>4, SweepSteps
    <3>2. \/ status'[u] = status[u] /\ stage'[u] = stage[u]
          \/ /\ status[u] \in {"pending", "running"}
             /\ status'[u] \in {"failed", "cancelled"}
             /\ stage'[u] \in {"failed", "cancelled"}
      BY <3>1 DEF Swept, StatusAfter, StageAfter, Batch, Overdue, FinalStatus
    <3> QED
      BY <2>0, <3>1, <3>2, FollowsKept DEF Swept
  <2>5. ASSUME NEW w \in Workers, NEW t \in Tasks, ReconcileRow(w, t) PROVE Follows(u)'
    <3>1. CASE u = t /\ Unreconciled(t)
      <4>1. /\ status' = status /\ stage'[u] \in Settled
            /\ business'[u] = IF business[u] = "open" THEN "closed" ELSE business[u]
        BY <2>5, <3>1 DEF ReconcileRow, StillUnreconciled, TypeOK, Settled
      <4>2. business[u] = "open" /\ status[u] \in {"failed", "cancelled"}
        BY <2>0, <3>1 DEF Follows, BusinessSettled, Unreconciled, TypeOK
      <4> QED
        BY <4>1, <4>2 DEF Follows, BusinessSettled
    <3>2. CASE ~(u = t /\ Unreconciled(t))
      BY <2>0, <2>5, <3>2, FollowsKept DEF ReconcileRow, StillUnreconciled, TypeOK
    <3> QED
      BY <3>1, <3>2
  <2>6. ASSUME NEW w \in Workers, NEW t \in Tasks, Claim(w, t) PROVE Follows(u)'
    <3>1. /\ business' = business
          /\ status' = [StatusAfter(Maintained(w)) EXCEPT ![t] = "running"]
          /\ stage' = [StageAfter(Maintained(w)) EXCEPT ![t] = "starting"]
          /\ status[t] \in {"pending", "running"}
      BY <2>6 DEF Claim, record, Runnable
    <3>2. CASE u = t
      <4>1. status'[u] = "running" /\ stage'[u] = "starting"
        BY <3>1, <3>2 DEF StatusAfter, StageAfter
      <4> QED
        BY <2>0, <3>1, <3>2, <4>1, FollowsKept
    <3>3. CASE u # t
      <4>1. /\ status'[u] = StatusAfter(Maintained(w))[u]
            /\ stage'[u] = StageAfter(Maintained(w))[u]
        BY <3>1, <3>3 DEF StatusAfter, StageAfter
      <4>2. \/ status'[u] = status[u] /\ stage'[u] = stage[u]
            \/ /\ status[u] \in {"pending", "running"}
               /\ status'[u] \in {"failed", "cancelled"}
               /\ stage'[u] \in {"failed", "cancelled"}
        BY <4>1 DEF StatusAfter, StageAfter, Batch, Overdue, FinalStatus
      <4> QED
        BY <2>0, <3>1, <4>2, FollowsKept
    <3> QED
      BY <3>2, <3>3
  <2>7. ASSUME NEW w \in Workers, NEW s \in WorkStages, Report(w, s) PROVE Follows(u)'
    <3>1. /\ status' = status /\ business' = business
          /\ stage' = [stage EXCEPT ![held[w]] = s]
          /\ status[held[w]] = "running"
      BY <2>7 DEF Report, Owns, record
    <3>2. stage'[u] = IF u = held[w] THEN s ELSE stage[u]
      BY <3>1 DEF TypeOK
    <3> QED
      BY <2>0, <3>1, <3>2, FollowsKept
  <2>8. ASSUME NEW w \in Workers, Complete(w) PROVE Follows(u)'
    <3>1. CASE u = held[w]
      BY <2>8, <3>1 DEF Complete, Owns, Follows, BusinessSettled, TypeOK
    <3>2. CASE u # held[w]
      BY <2>0, <2>8, <3>2, FollowsKept DEF Complete, TypeOK
    <3> QED
      BY <3>1, <3>2
  <2>9. ASSUME NEW w \in Workers, Fail(w) PROVE Follows(u)'
    <3>1. CASE Owns(w) /\ u = held[w]
      <4>1. /\ business' = business /\ status[u] = "running"
            /\ status'[u] \in {"pending", "failed"}
            /\ stage'[u] \in {"pending", "failed"}
        BY <2>9, <3>1 DEF Fail, Owns, record, TypeOK
      <4> QED
        BY <2>0, <4>1, FollowsKept
    <3>2. CASE ~(Owns(w) /\ u = held[w])
      BY <2>0, <2>9, <3>2, FollowsKept DEF Fail, record, TypeOK
    <3> QED
      BY <3>1, <3>2
  <2>10. ASSUME UNCHANGED <<status, stage, business>> PROVE Follows(u)'
    BY <2>0, <2>10, FollowsKept
  <2>11. CASE Tick \/ UNCHANGED vars
    BY <2>10, <2>11 DEF Tick, vars, row, record
  <2> QED
    BY <2>1, <2>2, <2>3, <2>4, <2>5, <2>6, <2>7, <2>8, <2>9, <2>10, <2>11, QuietSteps
       DEF Next, Request, Loop, Chance
<1>3. Inv => BusinessFollowsTask
  BY DEF Follows, BusinessFollowsTask
<1> QED
  BY <1>1, <1>2, <1>3, TypeCorrect, PTL DEF Spec
=============================================================================
