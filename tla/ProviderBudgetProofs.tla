------------------------- MODULE ProviderBudgetProofs -------------------------
(***************************************************************************)
(* The safety properties of ProviderBudget, for any number of tasks, calls *)
(* and accounts and any quotas.                                            *)
(***************************************************************************)
EXTENDS ProviderBudget, FiniteSetTheorems, WellFoundedInduction, TLAPS

USE DEF task, ledger, records, local, vars

\* A nonempty set of accounts has a smallest one.
LEMMA SmallestAccount ==
    ASSUME NEW S \in SUBSET Accounts, S # {}
    PROVE  Min(S) \in S /\ \A k \in S : Min(S) <= k
<1>1. S \subseteq Nat
  BY AccountAssumption
<1>2. PICK m \in S : \A k \in S : <<k, m>> \notin OpToRel(<, Nat)
  BY <1>1, WFMin, NatLessThanWellFounded, Zenon
<1>3. \A k \in S : m \in Nat /\ k \in Nat /\ ~(k < m)
  BY <1>1, <1>2, Zenon DEF OpToRel
<1>4. \A k \in S : m =< k
  BY <1>3
<1> QED
  BY <1>4 DEF Min

\* Settling a reservation keeps the types of the ledger.
LEMMA ChargeKeepsTypes ==
    ASSUME TypeOK, NEW c \in Calls, NEW amount \in 0..Cost[c], Charge(c, amount)
    PROVE  /\ used' \in [Accounts -> Nat] /\ reserved' \in [Accounts -> Int]
           /\ hold' \in [Calls -> {"absent", "reserved", "unknown"} \cup Closed]
           /\ actual' \in [Calls -> Nat]
<1>1. Cost[c] \in Nat /\ amount \in Nat
  BY AccountAssumption
<1> QED
  BY <1>1 DEF TypeOK, Charge, Closed

\* The first step of a call keeps its place and its snapshot typed.
LEMMA BeginType ==
    ASSUME TypeOK, NEW c \in Calls, Begin(c)
    PROVE  /\ pc' \in [Calls -> {"ready", "calling", "done", "gone"} \cup Reserving \cup Ending]
           /\ view' \in [Calls -> [Accounts -> Int]]
<1>1. /\ pc \in [Calls -> {"ready", "calling", "done", "gone"} \cup Reserving \cup Ending]
      /\ view \in [Calls -> [Accounts -> Int]]
  BY DEF TypeOK
<1>2. Snapshot \in [Accounts -> Int] /\ NoView \in [Accounts -> Int]
  BY AccountAssumption DEF TypeOK, Snapshot, NoView, Missing
<1>3. PICK place \in {"counting", "gone"} : pc' = [pc EXCEPT ![c] = place]
  BY DEF Begin, Goto
<1>4. view' = view \/ \E v \in {Snapshot, NoView} : view' = [view EXCEPT ![c] = v]
  BY DEF Begin
<1>5. place \in Reserving \cup {"gone"}
  BY DEF Reserving
<1> HIDE DEF Reserving, Ending
<1>6. pc' \in [Calls -> {"ready", "calling", "done", "gone"} \cup Reserving \cup Ending]
  BY <1>1, <1>3, <1>5
<1>7. view' \in [Calls -> [Accounts -> Int]]
  BY <1>1, <1>2, <1>4
<1> QED
  BY <1>6, <1>7

\* Every variable keeps its type.
THEOREM TypeCorrect == Spec => []TypeOK
<1> USE CallAssumption, AccountAssumption, BoundAssumption
<1>1. Init => TypeOK
  BY DEF Init, TypeOK, NoView, Missing, Closed, Reserving, Ending, Processes
<1>2. TypeOK /\ [Next]_vars => TypeOK'
  <2> SUFFICES ASSUME TypeOK, [Next]_vars PROVE TypeOK'
    OBVIOUS
  <2> USE DEF TypeOK, Processes, Closed, Reserving, Ending
  <2>1. ASSUME NEW j \in Jobs, EndTask(j) PROVE TypeOK'
    BY <2>1 DEF EndTask
  <2>2. ASSUME NEW j \in Jobs, Retry(j) PROVE TypeOK'
    BY <2>2 DEF Retry
  <2>3. ASSUME NEW c \in Calls, Begin(c) PROVE TypeOK'
    BY <2>3, BeginType DEF Begin
  <2>4. ASSUME NEW c \in Calls, Stale(c) PROVE TypeOK'
    BY <2>4 DEF Stale, Goto
  <2>5. ASSUME NEW c \in Calls, Lock(c) PROVE TypeOK'
    <3>1. Wanted(c) \in SUBSET Accounts /\ Wanted(c) # {}
      BY <2>5 DEF Lock, Wanted
    <3>2. Min(Wanted(c)) \in Accounts
      BY <3>1, SmallestAccount
    <3> QED
      BY <2>5, <3>2 DEF Lock, LockNext
  <2>6. ASSUME NEW c \in Calls, Count(c) PROVE TypeOK'
    <3>1. ViewOf(c) \in [Accounts -> Int] /\ NoView \in [Accounts -> Int]
      BY DEF ViewOf, Snapshot, NoView, Missing
    <3>2. pc' \in [Calls -> {"ready", "calling", "done", "gone"} \cup Reserving \cup Ending]
      <4>1. Goto(c, "pricing") \/ Goto(c, "gone")
        BY <2>6 DEF Count
      <4> QED
        BY <4>1 DEF Goto
    <3>3. view' \in [Calls -> [Accounts -> Int]]
      BY <2>6, <3>1 DEF Count
    <3>4. locks' \in [Processes -> SUBSET Accounts]
      BY <2>6 DEF Count, Unlock
    <3> QED
      BY <2>6, <3>2, <3>3, <3>4 DEF Count
  <2>7. ASSUME NEW c \in Calls, Reserve(c) PROVE TypeOK'
    <3>1. NoView \in [Accounts -> Int]
      BY DEF NoView, Missing
    <3>2. pc' \in [Calls -> {"ready", "calling", "done", "gone"} \cup Reserving \cup Ending]
      <4>1. Goto(c, "calling") \/ Goto(c, "gone")
        BY <2>7 DEF Reserve
      <4> QED
        BY <4>1 DEF Goto
    <3>3. view' \in [Calls -> [Accounts -> Int]] /\ locks' \in [Processes -> SUBSET Accounts]
      BY <2>7, <3>1 DEF Reserve, Unlock
    <3>4. used' \in [Accounts -> Nat] /\ reserved' \in [Accounts -> Int] /\ rows' \subseteq Accounts
      <4>1. CASE \A a \in Money[c] : Fits(c, a, Cost[c])
        <5>1. /\ rows' = rows \cup Counts[c] \cup Money[c]
              /\ used' = [a \in Accounts |-> used[a] + IF a \in Counts[c] THEN 1 ELSE 0]
              /\ reserved' = [a \in Accounts |->
                                 reserved[a] + IF a \in Money[c] THEN Cost[c] ELSE 0]
          BY <2>7, <4>1 DEF Reserve
        <5>2. Counts[c] \in SUBSET Accounts /\ Money[c] \in SUBSET Accounts /\ Cost[c] \in Nat
          OBVIOUS
        <5>3. used' \in [Accounts -> Nat] /\ reserved' \in [Accounts -> Int]
          BY <5>1, <5>2
        <5> QED
          BY <5>1, <5>2, <5>3
      <4>2. CASE ~\A a \in Money[c] : Fits(c, a, Cost[c])
        BY <2>7, <4>2 DEF Reserve
      <4> QED
        BY <4>1, <4>2
    <3>5. /\ call' \in [Calls -> {"absent", "reserved", "completed", "unknown"}]
          /\ hold' \in [Calls -> {"absent", "reserved", "unknown"} \cup Closed]
      BY <2>7 DEF Reserve
    <3> QED
      BY <2>7, <3>2, <3>3, <3>4, <3>5 DEF Reserve
  <2>8. ASSUME NEW c \in Calls, Return(c) PROVE TypeOK'
    BY <2>8 DEF Return, Goto
  <2>9. ASSUME NEW c \in Calls, LockToSettle(c) PROVE TypeOK'
    <3> DEFINE rest == Money[c] \ locks[c]
    <3>1. rest \in SUBSET Accounts /\ rest # {}
      BY <2>9 DEF LockToSettle
    <3>2. FirstToSettle(rest) \in Accounts
      BY <3>1, SmallestAccount DEF FirstToSettle
    <3> QED
      BY <2>9, <3>2 DEF LockToSettle, LockNext
  <2>10. ASSUME NEW c \in Calls, Settle(c) PROVE TypeOK'
    <3>1. locks' \in [Processes -> SUBSET Accounts]
      BY <2>10 DEF Settle, Unlock
    <3>2. pc' \in [Calls -> {"ready", "calling", "done", "gone"} \cup Reserving \cup Ending]
      BY <2>10 DEF Settle, Goto
    <3>3. call' \in [Calls -> {"absent", "reserved", "completed", "unknown"}]
      BY <2>10 DEF Settle
    <3>4. /\ used' \in [Accounts -> Nat] /\ reserved' \in [Accounts -> Int]
          /\ hold' \in [Calls -> {"absent", "reserved", "unknown"} \cup Closed]
          /\ actual' \in [Calls -> Nat]
      <4>1. CASE Unsettled(c) /\ KeepReserved(c)
        BY <4>1 DEF KeepReserved
      <4>2. CASE \E amount \in 0..Cost[c] : Charge(c, amount)
        BY <4>2, ChargeKeepsTypes
      <4>3. CASE UNCHANGED <<used, reserved, hold, actual>>
        BY <4>3
      <4> QED
        BY <2>10, <4>1, <4>2, <4>3 DEF Settle
    <3> QED
      BY <2>10, <3>1, <3>2, <3>3, <3>4 DEF Settle
  <2>11. ASSUME NEW c \in Calls, SettleRaises(c) PROVE TypeOK'
    BY <2>11 DEF SettleRaises, Unlock, Goto
  <2>12. ASSUME NEW c \in Calls, Unknown(c) PROVE TypeOK'
    BY <2>12 DEF Unknown, Unlock, Goto, KeepReserved
  <2>13. ASSUME NEW c \in Calls, Crash(c) PROVE TypeOK'
    <3>1. NoView \in [Accounts -> Int]
      BY DEF NoView, Missing
    <3> QED
      BY <2>13, <3>1 DEF Crash, Goto, Unlock
  <2>14. ASSUME NEW c \in Calls, Age(c) PROVE TypeOK'
    BY <2>14 DEF Age
  <2>15. ASSUME NEW c \in Calls, Audit(c) PROVE TypeOK'
    BY <2>15 DEF Audit
  <2>16. CASE LockToAudit
    <3> DEFINE rest == Money[audited] \ locks[Operator]
    <3>1. rest \in SUBSET Accounts /\ rest # {}
      BY <2>16 DEF LockToAudit
    <3>2. FirstToSettle(rest) \in Accounts
      BY <3>1, SmallestAccount DEF FirstToSettle
    <3> QED
      BY <2>16, <3>2 DEF LockToAudit, LockNext
  <2>17. CASE Reconcile
    <3>1. audited \in Calls
      BY <2>17 DEF Reconcile
    <3>2. /\ used' \in [Accounts -> Nat] /\ reserved' \in [Accounts -> Int]
          /\ hold' \in [Calls -> {"absent", "reserved", "unknown"} \cup Closed]
          /\ actual' \in [Calls -> Nat]
      BY <2>17, <3>1, ChargeKeepsTypes DEF Reconcile
    <3> QED
      BY <2>17, <3>1, <3>2 DEF Reconcile, Unlock
  <2>18. CASE UNCHANGED vars
    BY <2>18
  <2> QED
    BY <2>1, <2>2, <2>3, <2>4, <2>5, <2>6, <2>7, <2>8, <2>9,
       <2>10, <2>11, <2>12, <2>13, <2>14, <2>15, <2>16, <2>17, <2>18 DEF Next, Transaction
<1> QED
  BY <1>1, <1>2, PTL DEF Spec

-----------------------------------------------------------------------------
(* The reservation of a call that is out, and of one that is closed.       *)

\* A call grows old only after it ended; the operator works on an old call with
\* an open reservation; a call that has not reserved has no records, and one that
\* is out at the provider has the records reserve_budget wrote.
Tracked(c) ==
    /\ c \in quiet => pc[c] \in {"done", "gone"}
    /\ audited = c => c \in quiet /\ Open(c)
    /\ pc[c] \in {"ready"} \cup Reserving => hold[c] = "absent" /\ call[c] = "absent"
    /\ pc[c] = "calling" => call[c] = "reserved" /\ (Cost[c] > 0 => hold[c] = "reserved")

AllTracked == \A c \in Calls : Tracked(c)

\* An action of call c that keeps the records and the local state of the others
\* keeps what is tracked of them.
LEMMA OthersTracked ==
    ASSUME TypeOK, AllTracked, NEW c \in Calls,
           UNCHANGED <<quiet, audited>>,
           \A d \in Calls \ {c} : pc'[d] = pc[d] /\ hold'[d] = hold[d] /\ call'[d] = call[d],
           Tracked(c)'
    PROVE  AllTracked'
<1> SUFFICES ASSUME NEW d \in Calls PROVE Tracked(d)'
  BY DEF AllTracked
<1>1. CASE d = c
  BY <1>1
<1>2. CASE d # c
  BY <1>2 DEF AllTracked, Tracked, Open
<1> QED
  BY <1>1, <1>2

\* Every step keeps what is tracked of every call.
LEMMA TrackedStep == TypeOK /\ AllTracked /\ [Next]_vars => AllTracked'
<1> SUFFICES ASSUME TypeOK, AllTracked, [Next]_vars PROVE AllTracked'
  OBVIOUS
<1> USE CallAssumption, AccountAssumption DEF Closed, Reserving, Ending, Open
<1>1. ASSUME NEW j \in Jobs, EndTask(j) \/ Retry(j) PROVE AllTracked'
  BY <1>1 DEF EndTask, Retry, AllTracked, Tracked
<1>2. ASSUME NEW c \in Calls, Begin(c) \/ Stale(c) PROVE AllTracked'
  <2>1. Goto(c, "counting") \/ Goto(c, "gone")
    BY <1>2 DEF Begin, Stale
  <2>2. pc[c] = "ready" /\ UNCHANGED <<quiet, audited, call, hold>>
    BY <1>2 DEF Begin, Stale
  <2>3. Tracked(c)'
    BY <2>1, <2>2 DEF TypeOK, Goto, AllTracked, Tracked
  <2> QED
    BY <2>1, <2>2, <2>3, OthersTracked DEF TypeOK, Goto
<1>3. ASSUME NEW c \in Calls, Lock(c) \/ LockToSettle(c) PROVE AllTracked'
  BY <1>3 DEF Lock, LockToSettle, AllTracked, Tracked
<1>4. ASSUME NEW c \in Calls, Count(c) PROVE AllTracked'
  <2>1. Goto(c, "pricing") \/ Goto(c, "gone")
    BY <1>4 DEF Count
  <2>2. pc[c] = "counting" /\ UNCHANGED <<quiet, audited, call, hold>>
    BY <1>4 DEF Count
  <2>3. Tracked(c)'
    BY <2>1, <2>2 DEF TypeOK, Goto, AllTracked, Tracked
  <2> QED
    BY <2>1, <2>2, <2>3, OthersTracked DEF TypeOK, Goto
<1>5. ASSUME NEW c \in Calls, Reserve(c) PROVE AllTracked'
  <2>1. pc[c] = "pricing" /\ UNCHANGED <<quiet, audited>>
    BY <1>5 DEF Reserve
  <2>2. \/ /\ call' = [call EXCEPT ![c] = "reserved"]
           /\ hold' = [hold EXCEPT ![c] = IF Cost[c] > 0 THEN "reserved" ELSE "absent"]
           /\ Goto(c, "calling") \/ Goto(c, "gone")
        \/ Goto(c, "gone") /\ UNCHANGED <<call, hold>>
    BY <1>5 DEF Reserve
  <2>3. Tracked(c)'
    BY <2>1, <2>2 DEF TypeOK, Goto, AllTracked, Tracked
  <2> QED
    BY <2>1, <2>2, <2>3, OthersTracked DEF TypeOK, Goto
<1>6. ASSUME NEW c \in Calls, Return(c) \/ SettleRaises(c) \/ Crash(c) PROVE AllTracked'
  <2>1. /\ pc[c] \in {"calling"} \cup Reserving \cup Ending
        /\ \E next \in Ending \cup {"gone"} : Goto(c, next)
        /\ UNCHANGED <<quiet, audited, call, hold>>
    BY <1>6 DEF Return, SettleRaises, Crash
  <2>2. Tracked(c)'
    BY <2>1 DEF TypeOK, Goto, AllTracked, Tracked
  <2> QED
    BY <2>1, <2>2, OthersTracked DEF TypeOK, Goto
<1>7. ASSUME NEW c \in Calls, Settle(c) \/ Unknown(c) PROVE AllTracked'
  <2>1. /\ pc[c] \in Ending
        /\ \E next \in {"done", "failing"} : Goto(c, next)
        /\ UNCHANGED <<quiet, audited>>
    BY <1>7 DEF Settle, Unknown
  <2>2. \A d \in Calls \ {c} : call'[d] = call[d] /\ hold'[d] = hold[d]
    BY <1>7 DEF TypeOK, Settle, Unknown, KeepReserved, Charge
  <2>3. Tracked(c)'
    BY <2>1 DEF TypeOK, Goto, AllTracked, Tracked
  <2> QED
    BY <2>1, <2>2, <2>3, OthersTracked DEF TypeOK, Goto
<1>8. ASSUME NEW c \in Calls, Age(c) PROVE AllTracked'
  BY <1>8 DEF Age, AllTracked, Tracked
<1>9. ASSUME NEW c \in Calls, Audit(c) PROVE AllTracked'
  BY <1>9 DEF Audit, Reconcilable, AllTracked, Tracked
<1>10. CASE LockToAudit
  BY <1>10 DEF LockToAudit, AllTracked, Tracked
<1>11. CASE Reconcile
  <2>1. audited \in Calls /\ audited \in quiet /\ audited' = NoCall /\ UNCHANGED <<pc, quiet, call>>
    BY <1>11 DEF Reconcile, TypeOK, AllTracked, Tracked
  <2>2. \A d \in Calls \ {audited} : hold'[d] = hold[d]
    BY <1>11 DEF Reconcile, Charge, TypeOK
  <2> QED
    BY <2>1, <2>2 DEF AllTracked, Tracked
<1>12. CASE UNCHANGED vars
  BY <1>12 DEF AllTracked, Tracked
<1> QED
  BY <1>1, <1>2, <1>3, <1>4, <1>5, <1>6, <1>7, <1>8, <1>9, <1>10, <1>11, <1>12
     DEF Next, Transaction

\* The records of a call agree with its place in call_external, always.
THEOREM RecordsTracked == Spec => []AllTracked
<1>1. Init => AllTracked
  BY CallAssumption DEF Init, AllTracked, Tracked, Reserving
<1> QED
  BY <1>1, TrackedStep, TypeCorrect, PTL DEF Spec

\* A request is only out at the provider while its ceiling is reserved
\* (call_external, reconcile_charge).
THEOREM InFlightSafe == Spec => []InFlightIsReserved
<1>1. AllTracked => InFlightIsReserved
  BY DEF AllTracked, Tracked, InFlightIsReserved
<1> QED
  BY <1>1, RecordsTracked, PTL

\* No step opens or charges a closed reservation again (settle_budget).
THEOREM ClosedSafe == Spec => ClosedIsFinal
<1> DEFINE Final == \A c \in Calls : hold[c] \in Closed =>
                       hold'[c] = hold[c] /\ actual'[c] = actual[c]
<1>1. TypeOK /\ AllTracked /\ [Next]_vars => [Final]_<<hold, actual>>
  <2> SUFFICES ASSUME TypeOK, AllTracked, [Next]_vars PROVE [Final]_<<hold, actual>>
    OBVIOUS
  <2> USE CallAssumption DEF Closed, Reserving, Ending
  <2>1. ASSUME NEW c \in Calls, Reserve(c) PROVE Final
    <3>1. hold[c] = "absent" /\ actual' = actual
      BY <2>1 DEF Reserve, AllTracked, Tracked
    <3>2. \A d \in Calls \ {c} : hold'[d] = hold[d]
      BY <2>1 DEF Reserve, TypeOK
    <3> QED
      BY <3>1, <3>2
  <2>2. ASSUME NEW c \in Calls, Settle(c) \/ Unknown(c) PROVE Final
    <3>1. CASE Unsettled(c)
      <4>1. hold[c] \notin Closed
        BY <3>1 DEF Unsettled, AlreadyClosed
      <4>2. \A d \in Calls \ {c} : hold'[d] = hold[d] /\ actual'[d] = actual[d]
        BY <2>2, <3>1 DEF Settle, Unknown, KeepReserved, Charge, TypeOK
      <4> QED
        BY <4>1, <4>2
    <3>2. CASE ~Unsettled(c)
      BY <2>2, <3>2 DEF Settle, Unknown
    <3> QED
      BY <3>1, <3>2
  <2>3. CASE Reconcile
    <3>1. audited \in Calls /\ hold[audited] \notin Closed
      BY <2>3 DEF Reconcile, TypeOK, AllTracked, Tracked, Open
    <3>2. \A d \in Calls \ {audited} : hold'[d] = hold[d] /\ actual'[d] = actual[d]
      BY <2>3 DEF Reconcile, Charge, TypeOK
    <3> QED
      BY <3>1, <3>2
  <2>4. \/ \E c \in Calls : Reserve(c) \/ Settle(c) \/ Unknown(c)
        \/ Reconcile
        \/ UNCHANGED <<hold, actual>>
    BY DEF Next, Transaction, EndTask, Retry, Begin, Stale, Lock, Count, Return,
           LockToSettle, SettleRaises, Crash, Age, Audit, LockToAudit
  <2> QED
    BY <2>1, <2>2, <2>3, <2>4
<1>2. [][Final]_<<hold, actual>> => ClosedIsFinal
  BY DEF ClosedIsFinal
<1> QED
  BY <1>1, <1>2, TypeCorrect, RecordsTracked, PTL DEF Spec

-----------------------------------------------------------------------------
(* The calls of one task.                                                  *)

\* The row lock of the task: two calls of one task are never both inside their
\* first transaction.
OneReserves ==
    \A c, d \in Calls : c # d /\ Job[c] = Job[d] /\ pc[c] \in Reserving => pc[d] \notin Reserving

\* What _teaching_limits saw under that lock stays true until the call is made.
NoneOut ==
    \A c, d \in Calls :
        c # d /\ Job[c] = Job[d] /\ Job[c] \in Strict /\ pc[c] \in Reserving \cup {"calling"}
            => call[d] # "reserved"

\* Only Begin enters the first transaction, and it takes the row lock.
LEMMA OneReservesStep == TypeOK /\ OneReserves /\ [Next]_vars => OneReserves'
<1> SUFFICES ASSUME TypeOK, OneReserves, [Next]_vars PROVE OneReserves'
  OBVIOUS
<1> USE CallAssumption DEF Reserving, Ending
<1>1. ASSUME NEW c \in Calls, Begin(c) PROVE OneReserves'
  <2>1. \A d \in Calls : Job[d] = Job[c] => pc[d] \notin Reserving
    BY <1>1 DEF Begin, HasTaskRow, TaskRowFree
  <2>2. \A d \in Calls \ {c} : pc'[d] = pc[d]
    BY <1>1 DEF Begin, Goto, TypeOK
  <2> QED
    BY <2>1, <2>2 DEF OneReserves
<1>2. \/ \E c \in Calls : Begin(c)
      \/ \A c \in Calls : pc'[c] \in Reserving => pc[c] \in Reserving
  <2>1. ASSUME NEW c \in Calls, Transaction(c), ~Begin(c)
        PROVE  \A d \in Calls : pc'[d] \in Reserving => pc[d] \in Reserving
    <3>1. CASE Count(c)
      <4>1. pc[c] = "counting" /\ (Goto(c, "pricing") \/ Goto(c, "gone"))
        BY <3>1 DEF Count
      <4> QED
        BY <4>1 DEF Goto, TypeOK
    <3>2. CASE Reserve(c)
      <4>1. Goto(c, "calling") \/ Goto(c, "gone")
        BY <3>2 DEF Reserve
      <4> QED
        BY <4>1 DEF Goto, TypeOK
    <3>3. CASE Settle(c) \/ Return(c)
      <4>1. \E next \in {"done", "failing", "settling"} : Goto(c, next)
        BY <3>3 DEF Settle, Return
      <4> QED
        BY <4>1 DEF Goto, TypeOK
    <3> QED
      BY <2>1, <3>1, <3>2, <3>3
         DEF Transaction, Stale, Lock, LockToSettle, SettleRaises, Unknown, Goto, TypeOK
  <2>2. ASSUME NEW c \in Calls, Crash(c)
        PROVE  \A d \in Calls : pc'[d] \in Reserving => pc[d] \in Reserving
    BY <2>2 DEF Crash, Goto, TypeOK
  <2>3. CASE UNCHANGED pc
    BY <2>3
  <2> QED
    BY <2>1, <2>2, <2>3 DEF Next, EndTask, Retry, Age, Audit, LockToAudit, Reconcile
<1> QED
  BY <1>1, <1>2 DEF OneReserves

\* The row lock of the task (locked_job) serializes the first transactions of its
\* calls, whatever attempts they belong to.
THEOREM RowLockHolds == Spec => []OneReserves
<1>1. Init => OneReserves
  BY DEF Init, OneReserves, Reserving
<1> QED
  BY <1>1, OneReservesStep, TypeCorrect, PTL DEF Spec

\* A call is recorded as reserved only by its own first transaction, and then no
\* other call of a course task reserves or is out.
LEMMA NoneOutStep == TypeOK /\ AllTracked /\ OneReserves /\ NoneOut /\ [Next]_vars => NoneOut'
<1> SUFFICES ASSUME TypeOK, AllTracked, OneReserves, NoneOut, [Next]_vars PROVE NoneOut'
  OBVIOUS
<1> USE CallAssumption DEF Reserving, Ending
<1>1. ASSUME NEW c \in Calls, Begin(c) PROVE NoneOut'
  <2>1. call' = call /\ \A d \in Calls \ {c} : pc'[d] = pc[d]
    BY <1>1 DEF Begin, Goto, TypeOK
  <2>2. CASE OutcomesKnown(c)
    BY <2>1, <2>2 DEF NoneOut, OutcomesKnown
  <2>3. CASE ~OutcomesKnown(c)
    BY <1>1, <2>1, <2>3 DEF Begin, Goto, TypeOK, NoneOut
  <2> QED
    BY <2>2, <2>3
<1>2. ASSUME NEW c \in Calls, Reserve(c) PROVE NoneOut'
  <2>1. pc[c] = "pricing" /\ (Goto(c, "calling") \/ Goto(c, "gone"))
    BY <1>2 DEF Reserve
  <2>2. \A d \in Calls \ {c} : call'[d] = call[d] /\ pc'[d] = pc[d]
    BY <1>2, <2>1 DEF Reserve, Goto, TypeOK
  <2>3. ASSUME NEW d \in Calls, d # c, Job[d] = Job[c], Job[c] \in Strict
        PROVE  pc[d] \notin Reserving \cup {"calling"}
    <3>1. pc[d] \notin Reserving
      BY <2>1, <2>3 DEF OneReserves
    <3>2. pc[d] # "calling"
      BY <2>1, <2>3 DEF NoneOut, AllTracked, Tracked
    <3> QED
      BY <3>1, <3>2
  <2> QED
    BY <2>1, <2>2, <2>3 DEF NoneOut
<1>3. \/ \E c \in Calls : Begin(c) \/ Reserve(c)
      \/ \A c \in Calls :
            /\ pc'[c] \in Reserving \cup {"calling"} => pc[c] \in Reserving \cup {"calling"}
            /\ call'[c] = "reserved" => call[c] = "reserved"
  <2> DEFINE Fewer == \A c \in Calls :
            /\ pc'[c] \in Reserving \cup {"calling"} => pc[c] \in Reserving \cup {"calling"}
            /\ call'[c] = "reserved" => call[c] = "reserved"
  <2>1. ASSUME NEW c \in Calls, Count(c) PROVE Fewer
    <3>1. pc[c] = "counting" /\ call' = call /\ (Goto(c, "pricing") \/ Goto(c, "gone"))
      BY <2>1 DEF Count
    <3> QED
      BY <3>1 DEF Goto, TypeOK
  <2>2. ASSUME NEW c \in Calls, Settle(c) \/ Unknown(c) PROVE Fewer
    <3>1. /\ \E next \in {"done", "failing"} : Goto(c, next)
          /\ \E status \in {"completed", "unknown"} : call' = [call EXCEPT ![c] = status]
      BY <2>2 DEF Settle, Unknown
    <3> QED
      BY <3>1 DEF Goto, TypeOK
  <2>3. ASSUME NEW c \in Calls, Return(c) \/ SettleRaises(c) \/ Stale(c) \/ Crash(c) PROVE Fewer
    <3>1. call' = call /\ \E next \in Ending \cup {"gone"} : Goto(c, next)
      BY <2>3 DEF Return, SettleRaises, Stale, Crash
    <3> QED
      BY <3>1 DEF Goto, TypeOK
  <2>4. CASE UNCHANGED <<pc, call>>
    BY <2>4
  <2> QED
    BY <2>1, <2>2, <2>3, <2>4
       DEF Next, Transaction, EndTask, Retry, Lock, LockToSettle, Age, Audit, LockToAudit, Reconcile
<1> QED
  BY <1>1, <1>2, <1>3 DEF NoneOut

\* A course task has one request at a time and none after a lost outcome
\* (_teaching_limits, _application_limits).
THEOREM NoRepeatSafe == Spec => []NoBlindRepeat
<1>1. Init => NoneOut
  BY DEF Init, NoneOut, Reserving
<1>2. NoneOut => NoBlindRepeat
  BY DEF NoneOut, NoBlindRepeat
<1> QED
  BY <1>1, <1>2, NoneOutStep, TypeCorrect, RecordsTracked, RowLockHolds, PTL DEF Spec

-----------------------------------------------------------------------------
(* The ceilings of a task.                                                 *)

Capped(a) == OfOneJob(a) /\ \E c \in Calls : a \in Counts[c]

\* Nothing is reserved in an account of calls, and its row exists once it is
\* used.  A transaction that counts in it reads it as it is although it reads a
\* snapshot, and what it found free is still free when it commits.
SeesAccount(c, a) == view[c] = NoView \/ view[c][a] = Snapshot[a]

Ceiling(a) ==
    /\ reserved[a] = 0
    /\ a \notin rows => used[a] = 0
    /\ used[a] <= Quota[a]
    /\ \A c \in Calls : a \in Counts[c] /\ pc[c] \in Reserving =>
          SeesAccount(c, a) /\ (pc[c] = "pricing" => used[a] + 1 <= Quota[a])

AllCeilings == \A a \in Accounts : Capped(a) => Ceiling(a)

\* A step that leaves the row of an account alone, and the transactions that
\* count in it, keeps its ceiling.
LEMMA RowKept ==
    ASSUME TypeOK, NEW a \in Accounts, Ceiling(a),
           used'[a] = used[a], reserved'[a] = reserved[a], a \in rows' <=> a \in rows,
           \A c \in Calls : a \in Counts[c] /\ pc'[c] \in Reserving =>
               pc[c] = pc'[c] /\ view'[c] = view[c]
    PROVE  Ceiling(a)'
<1>1. Snapshot'[a] = Snapshot[a]
  BY DEF Snapshot
<1>2. NoView' = NoView
  BY DEF NoView
<1> QED
  BY <1>1, <1>2 DEF Ceiling, SeesAccount

\* Every step keeps the ceiling of every account that one task counts in.
LEMMA CeilingsStep == TypeOK /\ OneReserves /\ AllCeilings /\ [Next]_vars => AllCeilings'
<1> SUFFICES ASSUME TypeOK, OneReserves, AllCeilings, [Next]_vars,
                    NEW a \in Accounts, Capped(a)
             PROVE  Ceiling(a)'
  BY DEF AllCeilings, Capped, OfOneJob
<1> USE CallAssumption, AccountAssumption DEF Ending
<1>a. Ceiling(a)
  BY DEF AllCeilings
<1>b. \A c \in Calls : a \notin Money[c]
  <2>1. PICK d \in Calls : a \in Counts[d]
    BY DEF Capped
  <2>2. \A c \in Calls : Counts[d] \cap Money[c] = {}
    BY AccountAssumption, Zenon
  <2> QED
    BY <2>1, <2>2, Zenon
<1>c. NoView' = NoView /\ Snapshot[a] \in Int
  BY DEF NoView, Snapshot, Missing, TypeOK
<1>d. \A c, d \in Calls : a \in Counts[c] /\ a \in Counts[d] => Job[c] = Job[d]
  BY DEF Capped, OfOneJob
<1>1. ASSUME NEW c \in Calls, Begin(c) PROVE Ceiling(a)'
  <2>1. UNCHANGED ledger /\ Snapshot'[a] = Snapshot[a]
    BY <1>1 DEF Begin, Snapshot
  <2>2. \A d \in Calls \ {c} : pc'[d] = pc[d] /\ view'[d] = view[d]
    BY <1>1 DEF Begin, Goto, TypeOK
  <2>3. CASE OutcomesKnown(c)
    <3>1. pc'[c] = "counting" /\ (view'[c] = NoView \/ view'[c] = Snapshot)
      BY <1>1, <2>3 DEF Begin, Goto, TypeOK
    <3> QED
      BY <1>a, <1>c, <2>1, <2>2, <3>1 DEF Ceiling, SeesAccount
  <2>4. CASE ~OutcomesKnown(c)
    <3>1. pc'[c] \notin Reserving
      BY <1>1, <2>4 DEF Begin, Goto, TypeOK, Reserving
    <3> QED
      BY <1>a, <2>1, <2>2, <3>1, RowKept
  <2> QED
    BY <2>3, <2>4
<1>2. ASSUME NEW c \in Calls, Count(c) PROVE Ceiling(a)'
  <2>1. UNCHANGED ledger /\ Snapshot'[a] = Snapshot[a] /\ pc[c] = "counting"
    BY <1>2 DEF Count, Snapshot
  <2>2. \A d \in Calls \ {c} : pc'[d] = pc[d] /\ view'[d] = view[d]
    BY <1>2 DEF Count, Goto, TypeOK
  <2>3. CASE a \in Counts[c] /\ \A b \in Counts[c] : Fits(c, b, 1)
    <3>1. pc'[c] = "pricing" /\ view'[c] = ViewOf(c)
      BY <1>2, <2>3 DEF Count, Goto, TypeOK
    <3>2. ViewOf(c)[a] = Snapshot[a]
      BY <1>a, <2>1, <2>3 DEF ViewOf, Ceiling, SeesAccount, Reserving
    <3>3. used[a] + 1 <= Quota[a]
      BY <1>a, <2>3, <3>2 DEF Fits, Ceiling, Snapshot, TypeOK
    <3> QED
      BY <1>a, <2>1, <2>2, <3>1, <3>2, <3>3, <1>c DEF Ceiling, SeesAccount
  <2>4. CASE ~\A b \in Counts[c] : Fits(c, b, 1)
    <3>1. pc'[c] \notin Reserving
      BY <1>2, <2>4 DEF Count, Goto, TypeOK, Reserving
    <3> QED
      BY <1>a, <2>1, <2>2, <3>1, RowKept
  <2>5. CASE a \notin Counts[c]
    BY <1>a, <2>1, <2>2, <2>5, <1>c DEF Ceiling, SeesAccount
  <2> QED
    BY <2>3, <2>4, <2>5
<1>3. ASSUME NEW c \in Calls, Reserve(c) PROVE Ceiling(a)'
  <2>1. pc[c] = "pricing" /\ pc'[c] \notin Reserving
    <3>1. Goto(c, "calling") \/ Goto(c, "gone")
      BY <1>3 DEF Reserve
    <3> QED
      BY <1>3, <3>1 DEF Reserve, Goto, TypeOK, Reserving
  <2>2. \A d \in Calls \ {c} : pc'[d] = pc[d] /\ view'[d] = view[d]
    BY <1>3 DEF Reserve, Goto, TypeOK
  <2>3. CASE \A b \in Money[c] : Fits(c, b, Cost[c])
    <3>1. /\ rows' = rows \cup Counts[c] \cup Money[c]
          /\ used'[a] = used[a] + IF a \in Counts[c] THEN 1 ELSE 0
          /\ reserved'[a] = reserved[a] + IF a \in Money[c] THEN Cost[c] ELSE 0
      BY <1>3, <2>3 DEF Reserve
    <3>2. CASE a \in Counts[c]
      <4>1. \A d \in Calls \ {c} : a \in Counts[d] => pc[d] \notin Reserving
        BY <1>d, <2>1, <3>2 DEF OneReserves, Reserving
      <4>2. used'[a] <= Quota[a] /\ reserved'[a] = 0 /\ a \in rows'
        BY <1>a, <1>b, <2>1, <3>1, <3>2 DEF Ceiling, TypeOK, Reserving
      <4> QED
        BY <2>1, <2>2, <4>1, <4>2 DEF Ceiling
    <3>3. CASE a \notin Counts[c]
      <4>1. used'[a] = used[a] /\ reserved'[a] = reserved[a] /\ (a \in rows' <=> a \in rows)
        BY <1>b, <3>1, <3>3 DEF TypeOK
      <4> QED
        BY <1>a, <2>1, <2>2, <4>1, RowKept
    <3> QED
      BY <3>2, <3>3
  <2>4. CASE ~\A b \in Money[c] : Fits(c, b, Cost[c])
    <3>1. UNCHANGED ledger
      BY <1>3, <2>4 DEF Reserve
    <3> QED
      BY <1>a, <2>1, <2>2, <3>1, RowKept
  <2> QED
    BY <2>3, <2>4
<1>4. ASSUME NEW c \in Calls, Stale(c) \/ Return(c) \/ SettleRaises(c) \/ Crash(c) PROVE Ceiling(a)'
  <2>1. UNCHANGED ledger /\ \E next \in Ending \cup {"gone"} : Goto(c, next)
    BY <1>4 DEF Stale, Return, SettleRaises, Crash
  <2>2. \A d \in Calls \ {c} : pc'[d] = pc[d] /\ view'[d] = view[d]
    BY <1>4, <2>1 DEF Stale, Return, SettleRaises, Crash, Goto, TypeOK
  <2>3. pc'[c] \notin Reserving
    BY <2>1 DEF Goto, TypeOK, Reserving
  <2> QED
    BY <1>a, <2>1, <2>2, <2>3, RowKept
<1>5. ASSUME NEW c \in Calls, NEW amount \in 0..Cost[c], Charge(c, amount)
      PROVE  used'[a] = used[a] /\ reserved'[a] = reserved[a]
  BY <1>5, <1>b DEF Charge, TypeOK
<1>6. ASSUME NEW c \in Calls, Settle(c) \/ Unknown(c) PROVE Ceiling(a)'
  <2>1. rows' = rows /\ view' = view /\ \E next \in {"done", "failing"} : Goto(c, next)
    BY <1>6 DEF Settle, Unknown
  <2>2. pc'[c] \notin Reserving /\ \A d \in Calls \ {c} : pc'[d] = pc[d]
    BY <2>1 DEF Goto, TypeOK, Reserving
  <2>3. used'[a] = used[a] /\ reserved'[a] = reserved[a]
    BY <1>5, <1>6 DEF Settle, Unknown, KeepReserved
  <2> QED
    BY <1>a, <2>1, <2>2, <2>3, RowKept
<1>7. CASE Reconcile
  <2>1. audited \in Calls /\ rows' = rows /\ view' = view /\ pc' = pc
    BY <1>7 DEF Reconcile, TypeOK
  <2>2. used'[a] = used[a] /\ reserved'[a] = reserved[a]
    BY <1>5, <1>7, <2>1 DEF Reconcile
  <2> QED
    BY <1>a, <2>1, <2>2, RowKept
<1>8. CASE UNCHANGED <<ledger, pc, view>>
  BY <1>8, <1>a, RowKept
<1> QED
  BY <1>1, <1>2, <1>3, <1>4, <1>6, <1>7, <1>8
     DEF Next, Transaction, EndTask, Retry, Lock, LockToSettle, Age, Audit, LockToAudit

\* The ceilings of one task hold over all its attempts (reserve_budget under the
\* row lock of locked_job).
THEOREM JobCapsSafe == Spec => []JobCaps
<1>1. Init => AllCeilings
  BY AccountAssumption DEF Init, AllCeilings, Ceiling, Reserving
<1>2. TypeOK /\ AllCeilings => JobCaps
  BY AccountAssumption DEF AllCeilings, Capped, Ceiling, JobCaps, Respected, TypeOK
<1> QED
  BY <1>1, <1>2, CeilingsStep, TypeCorrect, RowLockHolds, PTL DEF Spec

-----------------------------------------------------------------------------
(* The order of the locks.                                                 *)

\* Of the accounts W a transaction has locked the lowest ones.
LowestFirst(L, W) == \A a \in L \cap W, b \in W \ L : a < b

\* The locks of a call in each part of its transactions, and of the operator.
InPlace(c) ==
    /\ pc[c] = "counting" => locks[c] \subseteq Counts[c] /\ LowestFirst(locks[c], Counts[c])
    /\ pc[c] = "pricing" =>
         locks[c] \subseteq Counts[c] \cup Money[c] /\ LowestFirst(locks[c], Money[c])
    /\ pc[c] \in Ending => locks[c] \subseteq Money[c] /\ LowestFirst(locks[c], Money[c])
    /\ pc[c] \notin Reserving \cup Ending => locks[c] = {}

OperatorInPlace ==
    IF audited = NoCall THEN locks[Operator] = {}
    ELSE locks[Operator] \subseteq Money[audited] /\ LowestFirst(locks[Operator], Money[audited])

LocksInOrder == OperatorInPlace /\ \A c \in Calls : InPlace(c)

LEMMA LowestNext ==
    ASSUME NEW L, NEW W \in SUBSET Accounts, LowestFirst(L, W), W \ L # {}
    PROVE  /\ Min(W \ L) \in W /\ Min(W \ L) \notin L
           /\ LowestFirst(L \cup {Min(W \ L)}, W)
           /\ \A a \in L \cap W : a < Min(W \ L)
<1> DEFINE m == Min(W \ L)
<1>1. m \in W \ L /\ \A k \in W \ L : m <= k
  BY SmallestAccount
<1>2. W \subseteq Nat
  BY AccountAssumption
<1> HIDE DEF m
<1>3. LowestFirst(L \cup {m}, W)
  <2> SUFFICES ASSUME NEW a \in (L \cup {m}) \cap W, NEW b \in W \ (L \cup {m}) PROVE a < b
    BY DEF LowestFirst
  <2>1. CASE a \in L
    BY <2>1 DEF LowestFirst
  <2>2. CASE a = m
    <3>1. b \in W \ L /\ b # m /\ b \in Nat /\ m \in Nat
      BY <1>1, <1>2
    <3> QED
      BY <1>1, <2>2, <3>1
  <2> QED
    BY <2>1, <2>2
<1> QED
  BY <1>1, <1>3 DEF LowestFirst, m

\* A step that concerns one call and its locks.
LEMMA OthersInPlace ==
    ASSUME TypeOK, LocksInOrder, NEW c \in Calls, audited' = audited,
           locks'[Operator] = locks[Operator],
           \A d \in Calls \ {c} : pc'[d] = pc[d] /\ locks'[d] = locks[d],
           InPlace(c)'
    PROVE  LocksInOrder'
<1>1. OperatorInPlace'
  BY DEF LocksInOrder, OperatorInPlace, LowestFirst
<1>2. ASSUME NEW d \in Calls, d # c PROVE InPlace(d)'
  BY <1>2 DEF LocksInOrder, InPlace, LowestFirst
<1> QED
  BY <1>1, <1>2 DEF LocksInOrder

LEMMA LocksStep == TypeOK /\ LocksInOrder /\ [Next]_vars => LocksInOrder'
<1> SUFFICES ASSUME TypeOK, LocksInOrder, [Next]_vars PROVE LocksInOrder'
  OBVIOUS
<1> USE CallAssumption
<1>1. /\ Operator \notin Calls /\ NoCall \notin Calls
      /\ pc \in [Calls -> {"ready", "calling", "done", "gone"} \cup Reserving \cup Ending]
      /\ locks \in [Processes -> SUBSET Accounts] /\ Operator \in Processes
      /\ \A c \in Calls : c \in Processes /\ c # Operator
      /\ \A c \in Calls : Counts[c] \subseteq Accounts /\ Money[c] \subseteq Accounts
                          /\ Counts[c] \cap Money[c] = {}
      /\ audited # NoCall => audited \in Calls
  BY AccountAssumption DEF TypeOK, Processes
<1>2. \A c \in Calls : InPlace(c)
  BY DEF LocksInOrder
<1>3. ASSUME NEW c \in Calls, Goto(c, "gone") \/ Goto(c, "done") \/ Goto(c, "calling"),
             locks' = [locks EXCEPT ![c] = {}], audited' = audited
      PROVE  LocksInOrder'
  <2>1. pc'[c] \in {"gone", "done", "calling"} /\ locks'[c] = {}
        /\ \A d \in Calls \ {c} : pc'[d] = pc[d] /\ locks'[d] = locks[d]
        /\ locks'[Operator] = locks[Operator]
    BY <1>1, <1>3 DEF Goto
  <2>2. InPlace(c)'
    BY <2>1 DEF InPlace, Reserving, Ending
  <2> QED
    BY <1>3, <2>1, <2>2, OthersInPlace
<1>4. ASSUME NEW j \in Jobs, EndTask(j) \/ Retry(j) PROVE LocksInOrder'
  BY <1>4 DEF EndTask, Retry, LocksInOrder, OperatorInPlace, InPlace, LowestFirst
<1>5. ASSUME NEW c \in Calls, Begin(c) \/ Stale(c) PROVE LocksInOrder'
  <2>1. pc[c] = "ready" /\ locks' = locks /\ audited' = audited
        /\ (Goto(c, "counting") \/ Goto(c, "gone"))
    BY <1>5 DEF Begin, Stale
  <2>2. locks[c] = {}
    BY <1>2, <2>1 DEF InPlace, Reserving, Ending
  <2>3. pc'[c] \in {"counting", "gone"} /\ \A d \in Calls \ {c} : pc'[d] = pc[d]
    BY <1>1, <2>1 DEF Goto
  <2>4. InPlace(c)'
    BY <2>1, <2>2, <2>3 DEF InPlace, LowestFirst, Ending
  <2> QED
    BY <2>1, <2>3, <2>4, OthersInPlace
<1>6. ASSUME NEW c \in Calls, Lock(c) PROVE LocksInOrder'
  <2> DEFINE W == IF pc[c] = "counting" THEN Counts[c] ELSE Money[c]
             m == Min(W \ locks[c])
  <2>1. /\ pc[c] \in Reserving /\ W \ locks[c] # {} /\ audited' = audited /\ pc' = pc
        /\ locks' = [locks EXCEPT ![c] = locks[c] \cup {m}]
    BY <1>6 DEF Lock, Wanted, LockNext
  <2>2. LowestFirst(locks[c], W) /\ W \in SUBSET Accounts
    BY <1>1, <1>2, <2>1 DEF InPlace, Reserving
  <2>3. m \in W /\ LowestFirst(locks[c] \cup {m}, W)
    BY <2>1, <2>2, LowestNext
  <2> HIDE DEF m
  <2>4. locks'[c] = locks[c] \cup {m} /\ locks'[Operator] = locks[Operator]
        /\ \A d \in Calls \ {c} : locks'[d] = locks[d]
    BY <1>1, <2>1
  <2>5. InPlace(c)'
    <3>1. CASE pc[c] = "counting"
      BY <1>2, <2>1, <2>3, <2>4, <3>1 DEF InPlace, Reserving, Ending, LowestFirst
    <3>2. CASE pc[c] = "pricing"
      BY <1>2, <2>1, <2>3, <2>4, <3>2 DEF InPlace, Reserving, Ending, LowestFirst
    <3> QED
      BY <2>1, <3>1, <3>2 DEF Reserving
  <2> QED
    BY <2>1, <2>4, <2>5, OthersInPlace
<1>7. ASSUME NEW c \in Calls, Count(c) PROVE LocksInOrder'
  <2>1. CASE Goto(c, "gone") /\ Unlock(c)
    BY <1>3, <1>7, <2>1 DEF Count, Unlock
  <2>2. CASE Goto(c, "pricing") /\ locks' = locks
    <3>1. pc[c] = "counting" /\ audited' = audited
      BY <1>7 DEF Count
    <3>2. pc'[c] = "pricing" /\ \A d \in Calls \ {c} : pc'[d] = pc[d]
      BY <1>1, <2>2 DEF Goto
    <3>3. locks[c] \subseteq Counts[c] /\ Counts[c] \cap Money[c] = {}
      BY <1>1, <1>2, <3>1 DEF InPlace
    <3>4. InPlace(c)'
      BY <2>2, <3>2, <3>3 DEF InPlace, LowestFirst, Reserving, Ending
    <3> QED
      BY <2>2, <3>1, <3>2, <3>4, OthersInPlace
  <2> QED
    BY <1>7, <2>1, <2>2 DEF Count
<1>8. ASSUME NEW c \in Calls, Reserve(c) \/ Unknown(c) \/ Crash(c) PROVE LocksInOrder'
  BY <1>3, <1>8 DEF Reserve, Unknown, Crash, Unlock
<1>9. ASSUME NEW c \in Calls, NEW place \in Ending, Goto(c, place), locks'[c] = {},
             \A q \in Processes \ {c} : locks'[q] = locks[q], audited' = audited
      PROVE  LocksInOrder'
  <2>1. pc'[c] \in Ending /\ \A d \in Calls \ {c} : pc'[d] = pc[d]
    BY <1>1, <1>9 DEF Goto
  <2>2. InPlace(c)'
    BY <1>9, <2>1 DEF InPlace, LowestFirst, Ending, Reserving
  <2> QED
    BY <1>1, <1>9, <2>1, <2>2, OthersInPlace
<1>10. ASSUME NEW c \in Calls, Return(c) PROVE LocksInOrder'
  <2>1. pc[c] = "calling" /\ locks' = locks /\ audited' = audited
    BY <1>10 DEF Return
  <2>2. locks[c] = {}
    BY <1>2, <2>1 DEF InPlace, Reserving, Ending
  <2> QED
    BY <1>9, <1>10, <2>1, <2>2 DEF Return
<1>11. ASSUME NEW c \in Calls, Settle(c) \/ SettleRaises(c) PROVE LocksInOrder'
  <2>1. locks' = [locks EXCEPT ![c] = {}] /\ audited' = audited
        /\ (Goto(c, "done") \/ Goto(c, "failing"))
    BY <1>11 DEF Settle, SettleRaises, Unlock
  <2>2. locks'[c] = {} /\ \A q \in Processes \ {c} : locks'[q] = locks[q]
    BY <1>1, <2>1
  <2>3. "failing" \in Ending
    BY DEF Ending
  <2> QED
    BY <1>3, <1>9, <2>1, <2>2, <2>3
<1>12. ASSUME NEW c \in Calls, LockToSettle(c) PROVE LocksInOrder'
  <2> DEFINE m == Min(Money[c] \ locks[c])
  <2>1. /\ pc[c] \in Ending /\ Money[c] \ locks[c] # {} /\ audited' = audited /\ pc' = pc
        /\ locks' = [locks EXCEPT ![c] = locks[c] \cup {m}]
    BY <1>12 DEF LockToSettle, LockNext, FirstToSettle
  <2>2. LowestFirst(locks[c], Money[c]) /\ locks[c] \subseteq Money[c]
    BY <1>2, <2>1 DEF InPlace
  <2>3. m \in Money[c] /\ LowestFirst(locks[c] \cup {m}, Money[c])
    BY <1>1, <2>1, <2>2, LowestNext
  <2> HIDE DEF m
  <2>4. locks'[c] = locks[c] \cup {m} /\ locks'[Operator] = locks[Operator]
        /\ \A d \in Calls \ {c} : locks'[d] = locks[d]
    BY <1>1, <2>1
  <2>5. InPlace(c)'
    BY <2>1, <2>2, <2>3, <2>4 DEF InPlace, Reserving, Ending, LowestFirst
  <2> QED
    BY <2>1, <2>4, <2>5, OthersInPlace
<1>13. ASSUME NEW c \in Calls, Age(c) PROVE LocksInOrder'
  BY <1>13 DEF Age, LocksInOrder, OperatorInPlace, InPlace, LowestFirst
<1>14. ASSUME NEW c \in Calls, Audit(c) PROVE LocksInOrder'
  BY <1>14 DEF Audit, LocksInOrder, OperatorInPlace, InPlace, LowestFirst
<1>15. CASE LockToAudit
  <2> DEFINE m == Min(Money[audited] \ locks[Operator])
  <2>1. /\ audited # NoCall /\ Money[audited] \ locks[Operator] # {} /\ audited' = audited /\ pc' = pc
        /\ locks' = [locks EXCEPT ![Operator] = locks[Operator] \cup {m}]
    BY <1>15 DEF LockToAudit, LockNext, FirstToSettle
  <2>2. LowestFirst(locks[Operator], Money[audited]) /\ locks[Operator] \subseteq Money[audited]
    BY <2>1 DEF LocksInOrder, OperatorInPlace
  <2>3. m \in Money[audited] /\ LowestFirst(locks[Operator] \cup {m}, Money[audited])
    BY <1>1, <2>1, <2>2, LowestNext
  <2> HIDE DEF m
  <2>4. locks'[Operator] = locks[Operator] \cup {m} /\ \A d \in Calls : locks'[d] = locks[d]
    BY <1>1, <2>1
  <2>5. OperatorInPlace'
    BY <2>1, <2>2, <2>3, <2>4 DEF OperatorInPlace, LowestFirst
  <2>6. \A d \in Calls : InPlace(d)'
    BY <1>2, <2>1, <2>4 DEF InPlace, LowestFirst
  <2> QED
    BY <2>5, <2>6 DEF LocksInOrder
<1>16. CASE Reconcile
  <2>1. locks' = [locks EXCEPT ![Operator] = {}] /\ audited' = NoCall /\ pc' = pc
    BY <1>16 DEF Reconcile, Unlock
  <2>2. locks'[Operator] = {} /\ \A d \in Calls : locks'[d] = locks[d]
    BY <1>1, <2>1
  <2>3. \A d \in Calls : InPlace(d)'
    BY <1>2, <2>1, <2>2 DEF InPlace, LowestFirst
  <2> QED
    BY <2>1, <2>2, <2>3 DEF LocksInOrder, OperatorInPlace
<1>17. CASE UNCHANGED vars
  BY <1>17 DEF LocksInOrder, OperatorInPlace, InPlace, LowestFirst
<1> QED
  BY <1>4, <1>5, <1>6, <1>7, <1>8, <1>10, <1>11, <1>12, <1>13, <1>14, <1>15, <1>16, <1>17
     DEF Next, Transaction

\* The place of an account in the order of all locks: 'calls' before 'cny'.
Rank(top, a) == IF \E c \in Calls : a \in Money[c] THEN top + 1 + a ELSE a

\* A transaction asks for an account above all those it holds.
LEMMA AsksForAHigherOne ==
    ASSUME TypeOK, LocksInOrder, NEW top \in Accounts, \A a \in Accounts : a <= top,
           NEW p \in Processes, Rest(p) # {}
    PROVE  /\ Asked(p) \in Accounts
           /\ \A x \in locks[p] : Rank(top, x) < Rank(top, Asked(p))
<1> USE CallAssumption
<1>1. /\ Operator \notin Calls /\ locks[p] \subseteq Accounts
      /\ \A c \in Calls : Counts[c] \subseteq Accounts /\ Money[c] \subseteq Accounts
      /\ \A c, d \in Calls : Counts[c] \cap Money[d] = {}
      /\ audited # NoCall => audited \in Calls
      /\ Accounts \subseteq Nat
  BY AccountAssumption DEF TypeOK, Processes
<1>2. ASSUME NEW c \in Calls, Rest(p) = Money[c] \ locks[p], Asked(p) = Min(Rest(p)),
             \A x \in locks[p] \ Money[c], d \in Calls : x \notin Money[d],
             LowestFirst(locks[p], Money[c])
      PROVE  /\ Asked(p) \in Accounts
             /\ \A x \in locks[p] : Rank(top, x) < Rank(top, Asked(p))
  <2> DEFINE m == Min(Money[c] \ locks[p])
  <2>1. m \in Money[c] /\ \A a \in locks[p] \cap Money[c] : a < m
    BY <1>1, <1>2, LowestNext
  <2>2. Asked(p) = m
    BY <1>2
  <2> HIDE DEF m
  <2>3. m \in Nat /\ top \in Nat /\ Rank(top, m) = top + 1 + m
    BY <1>1, <2>1 DEF Rank
  <2>4. ASSUME NEW x \in locks[p] PROVE Rank(top, x) < Rank(top, m)
    <3>1. x \in Nat /\ x <= top
      BY <1>1
    <3>2. CASE x \in Money[c]
      <4>1. Rank(top, x) = top + 1 + x /\ x < m
        BY <2>1, <3>2 DEF Rank
      <4> QED
        BY <2>3, <3>1, <4>1
    <3>3. CASE x \notin Money[c]
      <4>1. Rank(top, x) = x
        BY <1>2, <3>3 DEF Rank
      <4> QED
        BY <2>3, <3>1, <4>1
    <3> QED
      BY <1>2, <3>2, <3>3
  <2> QED
    BY <1>1, <2>1, <2>2, <2>4
<1>3. CASE p = Operator
  <2>1. /\ audited \in Calls /\ Rest(p) = Money[audited] \ locks[p]
        /\ Asked(p) = Min(Rest(p))
        /\ locks[p] \subseteq Money[audited] /\ LowestFirst(locks[p], Money[audited])
    BY <1>1, <1>3 DEF Rest, Asked, FirstToSettle, LocksInOrder, OperatorInPlace
  <2> QED
    BY <1>2, <2>1
<1>4. CASE p \in Calls /\ pc[p] = "counting"
  <2> DEFINE m == Min(Counts[p] \ locks[p])
  <2>1. /\ Rest(p) = Counts[p] \ locks[p] /\ Asked(p) = m
        /\ locks[p] \subseteq Counts[p] /\ LowestFirst(locks[p], Counts[p])
    BY <1>1, <1>4 DEF Rest, Asked, Wanted, Reserving, LocksInOrder, InPlace
  <2>2. m \in Counts[p] /\ \A a \in locks[p] \cap Counts[p] : a < m
    BY <1>1, <1>4, <2>1, LowestNext
  <2> HIDE DEF m
  <2>3. \A a \in Counts[p] : Rank(top, a) = a
    BY <1>1, <1>4 DEF Rank
  <2> QED
    BY <1>1, <1>4, <2>1, <2>2, <2>3
<1>5. CASE p \in Calls /\ pc[p] = "pricing"
  <2>1. /\ Rest(p) = Money[p] \ locks[p] /\ Asked(p) = Min(Rest(p))
        /\ locks[p] \subseteq Counts[p] \cup Money[p] /\ LowestFirst(locks[p], Money[p])
    BY <1>1, <1>5 DEF Rest, Asked, Wanted, Reserving, LocksInOrder, InPlace
  <2>2. \A x \in locks[p] \ Money[p], d \in Calls : x \notin Money[d]
    BY <1>1, <1>5, <2>1
  <2> QED
    BY <1>2, <1>5, <2>1, <2>2
<1>6. CASE p \in Calls /\ pc[p] \in Ending
  <2>1. /\ Rest(p) = Money[p] \ locks[p] /\ Asked(p) = Min(Rest(p))
        /\ locks[p] \subseteq Money[p] /\ LowestFirst(locks[p], Money[p])
    BY <1>1, <1>6 DEF Rest, Asked, FirstToSettle, Reserving, Ending, LocksInOrder, InPlace
  <2> QED
    BY <1>2, <1>6, <2>1
<1> QED
  BY <1>3, <1>4, <1>5, <1>6 DEF Rest, Reserving, Processes

\* So the one among the waiting ones that asks for the highest account waits
\* for none of the others.
LEMMA OrderedLocksNeverCycle == TypeOK /\ LocksInOrder => NoLockCycle
<1> SUFFICES ASSUME TypeOK, LocksInOrder,
                    NEW S \in SUBSET {p \in Processes : Rest(p) # {}}, S # {}
             PROVE  \E p \in S : \A q \in S \ {p} : Asked(p) \notin locks[q]
  BY DEF NoLockCycle
<1>1. S \subseteq Processes /\ \A p \in S : Rest(p) # {}
  OBVIOUS
<1>2. \A p \in S : Rest(p) \subseteq Accounts
  BY <1>1, CallAssumption, AccountAssumption DEF Rest, Wanted, TypeOK, Processes, Reserving
<1>3. PICK top \in Accounts : \A a \in Accounts : a <= top
  BY <1>1, <1>2, AccountAssumption
<1>4. \A p \in S : /\ Asked(p) \in Accounts
                   /\ \A x \in locks[p] : Rank(top, x) < Rank(top, Asked(p))
  BY <1>1, <1>3, AsksForAHigherOne
<1>5. \A p \in S : Rank(top, Asked(p)) \in 0..(2 * top + 1)
  <2>1. Accounts \subseteq Nat
    BY AccountAssumption
  <2>2. \A a \in Accounts : Rank(top, a) \in 0..(2 * top + 1)
    <3> SUFFICES ASSUME NEW a \in Accounts PROVE Rank(top, a) \in 0..(2 * top + 1)
      OBVIOUS
    <3>1. a \in Nat /\ top \in Nat /\ a <= top
      BY <1>3, <2>1
    <3>2. Rank(top, a) = a \/ Rank(top, a) = top + 1 + a
      BY DEF Rank
    <3> QED
      BY <3>1, <3>2
  <2> QED
    BY <1>4, <2>2
<1> DEFINE Below(p) == 2 * top + 1 - Rank(top, Asked(p))
           T == {Below(p) : p \in S}
<1>6. T \subseteq Nat /\ T # {}
  <2>1. top \in Nat
    BY <1>3, AccountAssumption
  <2> QED
    BY <1>5, <2>1
<1> HIDE DEF T
<1>7. PICK m \in T : \A k \in T : <<k, m>> \notin OpToRel(<, Nat)
  BY <1>6, WFMin, NatLessThanWellFounded, Zenon
<1>8. \A k \in T : m \in Nat /\ k \in Nat /\ ~(k < m)
  BY <1>6, <1>7, Zenon DEF OpToRel
<1>9. PICK p \in S : m = Below(p)
  BY <1>7 DEF T
<1>10. ASSUME NEW q \in S \ {p}, Asked(p) \in locks[q] PROVE FALSE
  <2>1. Below(q) \in T
    BY DEF T
  <2>2. ~(Below(q) < Below(p))
    BY <1>8, <1>9, <2>1
  <2>3. Rank(top, Asked(p)) < Rank(top, Asked(q))
    BY <1>4, <1>10
  <2>4. top \in Nat
    BY <1>3, AccountAssumption
  <2>5. Rank(top, Asked(p)) \in Int /\ Rank(top, Asked(q)) \in Int
    BY <1>5
  <2> QED
    BY <2>2, <2>3, <2>4, <2>5
<1> QED
  BY <1>10

\* Reservations, settlements and the operator lock the rows of budget_accounts
\* in one order, so they never wait for each other in a circle (the sort in
\* reserve_budget and settle_budget, 'calls' before 'cny').
THEOREM NoCircleOfWaiting == Spec => []NoLockCycle
<1>1. Init => LocksInOrder
  BY CallAssumption DEF Init, LocksInOrder, OperatorInPlace, InPlace, Reserving, Ending, Processes
<1> QED
  BY <1>1, LocksStep, OrderedLocksNeverCycle, TypeCorrect, PTL DEF Spec
-----------------------------------------------------------------------------
(* The accounts follow the records.                                        *)

\* A reservation is charged once, when it is closed, and was made before it is settled.
Recorded(c) ==
    /\ hold[c] \notin Closed => actual[c] = 0
    /\ pc[c] \in {"calling"} \cup Ending =>
         call[c] # "absent" /\ (Cost[c] > 0 => hold[c] # "absent")

AllRecorded == \A c \in Calls : Recorded(c)

\* The accounts change by what the records of one call change by.
Posted(c) ==
    /\ \A d \in Calls \ {c} : call'[d] = call[d] /\ hold'[d] = hold[d] /\ actual'[d] = actual[d]
    /\ \A a \in Accounts : /\ reserved'[a] - reserved[a] = Owes(c, a)' - Owes(c, a)
                           /\ used'[a] - used[a] = Spends(c, a)' - Spends(c, a)

LEMMA RecordedStep == TypeOK /\ AllTracked /\ AllRecorded /\ [Next]_vars => AllRecorded'
<1> SUFFICES ASSUME TypeOK, AllTracked, AllRecorded, [Next]_vars PROVE AllRecorded'
  OBVIOUS
<1> USE CallAssumption, AccountAssumption DEF Closed, Reserving, Ending, Open
<1>1. ASSUME NEW c \in Calls, UNCHANGED <<call, hold, actual>>,
             \A d \in Calls \ {c} : pc'[d] = pc[d],
             pc'[c] \in {"counting", "pricing", "done", "gone"}
               \/ pc[c] \in {"calling"} \cup Ending
      PROVE  AllRecorded'
  BY <1>1 DEF AllRecorded, Recorded
<1>2. ASSUME NEW j \in Jobs, EndTask(j) \/ Retry(j) PROVE AllRecorded'
  BY <1>2 DEF EndTask, Retry, AllRecorded, Recorded
<1>3. ASSUME NEW c \in Calls, Begin(c) \/ Stale(c) \/ Count(c) PROVE AllRecorded'
  <2>1. UNCHANGED <<call, hold, actual>>
        /\ (Goto(c, "counting") \/ Goto(c, "pricing") \/ Goto(c, "gone"))
    BY <1>3 DEF Begin, Stale, Count
  <2> QED
    BY <1>1, <2>1 DEF TypeOK, Goto
<1>4. ASSUME NEW c \in Calls, Lock(c) \/ LockToSettle(c) \/ Age(c) \/ Audit(c) PROVE AllRecorded'
  BY <1>4 DEF Lock, LockToSettle, Age, Audit, AllRecorded, Recorded
<1>5. ASSUME NEW c \in Calls, Reserve(c) PROVE AllRecorded'
  <2>1. CASE UNCHANGED <<call, hold>> /\ Goto(c, "gone")
    BY <1>1, <1>5, <2>1 DEF Reserve, TypeOK, Goto
  <2>2. CASE /\ call' = [call EXCEPT ![c] = "reserved"]
             /\ hold' = [hold EXCEPT ![c] = IF Cost[c] > 0 THEN "reserved" ELSE "absent"]
             /\ Goto(c, "calling") \/ Goto(c, "gone")
    BY <1>5, <2>2 DEF Reserve, TypeOK, Goto, AllTracked, Tracked, AllRecorded, Recorded
  <2> QED
    BY <1>5, <2>1, <2>2 DEF Reserve
<1>6. ASSUME NEW c \in Calls, Return(c) \/ SettleRaises(c) \/ Crash(c) PROVE AllRecorded'
  <2>1. UNCHANGED <<call, hold, actual>> /\ pc[c] \in {"calling"} \cup Reserving \cup Ending
        /\ \E next \in Ending \cup {"gone"} : Goto(c, next)
        /\ (Goto(c, "gone") \/ pc[c] \in {"calling"} \cup Ending)
    BY <1>6 DEF Return, SettleRaises, Crash
  <2> QED
    BY <1>1, <2>1 DEF TypeOK, Goto
<1>7. ASSUME NEW c \in Calls, Settle(c) \/ Unknown(c) PROVE AllRecorded'
  <2>1. pc[c] \in Ending /\ \E next \in {"done", "failing"} : Goto(c, next)
        /\ \E outcome \in {"completed", "unknown"} : call' = [call EXCEPT ![c] = outcome]
    BY <1>7 DEF Settle, Unknown
  <2>2. CASE UNCHANGED <<hold, actual>>
    BY <2>1, <2>2 DEF TypeOK, Goto, AllRecorded, Recorded
  <2>3. CASE Unsettled(c) /\ KeepReserved(c)
    BY <2>1, <2>3 DEF TypeOK, Goto, Unsettled, AlreadyClosed, KeepReserved, AllRecorded, Recorded
  <2>4. CASE \E amount \in 0..Cost[c] : Charge(c, amount)
    BY <2>1, <2>4 DEF TypeOK, Goto, Charge, AllRecorded, Recorded
  <2> QED
    BY <1>7, <2>2, <2>3, <2>4 DEF Settle, Unknown
<1>8. CASE LockToAudit \/ UNCHANGED vars
  BY <1>8 DEF LockToAudit, AllRecorded, Recorded
<1>9. CASE Reconcile
  <2>1. audited \in Calls /\ UNCHANGED <<pc, call>>
        /\ \E amount \in 0..Cost[audited] : Charge(audited, amount)
    BY <1>9 DEF Reconcile, TypeOK
  <2> QED
    BY <2>1 DEF TypeOK, Charge, AllRecorded, Recorded
<1> QED
  BY <1>2, <1>3, <1>4, <1>5, <1>6, <1>7, <1>8, <1>9 DEF Next, Transaction

\* Charging an open reservation posts it.
LEMMA ChargeIsPosted ==
    ASSUME TypeOK, NEW c \in Calls, NEW amount \in 0..Cost[c], Charge(c, amount),
           Cost[c] > 0 => Open(c), actual[c] = 0,
           \A d \in Calls \ {c} : call'[d] = call[d],
           call[c] # "absent" <=> call'[c] # "absent"
    PROVE  Posted(c)
<1> USE CallAssumption, AccountAssumption DEF Closed, Open
<1>1. \A d \in Calls \ {c} : hold'[d] = hold[d] /\ actual'[d] = actual[d]
  BY DEF Charge, TypeOK
<1>2. hold'[c] \in Closed /\ actual'[c] = amount
  BY DEF Charge, TypeOK
<1>3. Cost[c] \in Nat /\ amount \in Nat
  OBVIOUS
<1>4. ASSUME NEW a \in Accounts
      PROVE  /\ reserved'[a] - reserved[a] = Owes(c, a)' - Owes(c, a)
             /\ used'[a] - used[a] = Spends(c, a)' - Spends(c, a)
  <2>1. reserved[a] \in Int /\ used[a] \in Int
    BY DEF TypeOK
  <2>2. CASE a \in Money[c]
    <3>1. Cost[c] > 0 /\ a \notin Counts[c]
      BY <1>3, <2>2
    <3>2. reserved'[a] = reserved[a] - Cost[c] /\ used'[a] = used[a] + amount
      BY <2>2 DEF Charge
    <3>3. Owes(c, a) = Cost[c] /\ Owes(c, a)' = 0 /\ Spends(c, a) = 0 /\ Spends(c, a)' = amount
      BY <1>2, <2>2, <3>1 DEF Owes, Spends
    <3> QED
      BY <1>3, <2>1, <3>2, <3>3
  <2>3. CASE a \notin Money[c]
    <3>1. reserved'[a] = reserved[a] /\ used'[a] = used[a]
      BY <2>1, <2>3 DEF Charge
    <3>2. Owes(c, a)' = Owes(c, a) /\ Spends(c, a)' = Spends(c, a) /\ Owes(c, a) \in Int
          /\ Spends(c, a) \in Int
      BY <1>2, <1>3, <2>3 DEF TypeOK, Owes, Spends
    <3> QED
      BY <2>1, <3>1, <3>2
  <2> QED
    BY <2>2, <2>3
<1> QED
  BY <1>1, <1>4 DEF Posted

\* Records that keep their openness and their charge leave the accounts alone.
LEMMA NothingIsPosted ==
    ASSUME TypeOK, NEW c \in Calls, UNCHANGED <<used, reserved, actual>>,
           Cost[c] > 0 => (Open(c) <=> Open(c)'),
           call[c] # "absent" <=> call'[c] # "absent",
           \A d \in Calls \ {c} : call'[d] = call[d] /\ hold'[d] = hold[d]
    PROVE  Posted(c)
<1> USE CallAssumption, AccountAssumption
<1>1. ASSUME NEW a \in Accounts
      PROVE  /\ reserved'[a] - reserved[a] = Owes(c, a)' - Owes(c, a)
             /\ used'[a] - used[a] = Spends(c, a)' - Spends(c, a)
  <2>1. reserved[a] \in Int /\ used[a] \in Int /\ Cost[c] \in Nat /\ actual[c] \in Nat
    BY DEF TypeOK
  <2>2. a \in Money[c] => Cost[c] > 0
    BY <2>1
  <2>3. Owes(c, a)' = Owes(c, a) /\ Owes(c, a) \in Int
    BY <2>1, <2>2 DEF Owes
  <2>4. Spends(c, a)' = Spends(c, a) /\ Spends(c, a) \in Int
    BY <2>1 DEF Spends
  <2> QED
    BY <2>1, <2>3, <2>4
<1> QED
  BY <1>1 DEF Posted

\* Every step of the ledger is the posting of one call: what it adds to the
\* accounts and takes from them is what the records of that call change by, and
\* no other record changes.  The accounts begin empty, so they never part from the
\* sum of the records (reserve_budget, settle_budget, reconcile_charge).
THEOREM EveryStepIsPosted ==
    Spec => [][\E c \in Calls : Posted(c)]_<<used, reserved, call, hold, actual>>
<1>1. ASSUME TypeOK, AllTracked, AllRecorded, [Next]_vars
      PROVE  [\E c \in Calls : Posted(c)]_<<used, reserved, call, hold, actual>>
  <2> SUFFICES ASSUME Next, ~UNCHANGED <<used, reserved, call, hold, actual>>
               PROVE  \E c \in Calls : Posted(c)
    BY <1>1 DEF vars, ledger, records
  <2> USE <1>1, CallAssumption, AccountAssumption
  <2>1. ASSUME NEW c \in Calls, Reserve(c) PROVE Posted(c)
    <3>1. pc[c] = "pricing" /\ call[c] = "absent" /\ hold[c] = "absent" /\ actual' = actual
          /\ actual[c] = 0
      BY <2>1 DEF Reserve, AllTracked, Tracked, AllRecorded, Recorded, Reserving, Closed
    <3>2. /\ used' = [a \in Accounts |-> used[a] + IF a \in Counts[c] THEN 1 ELSE 0]
          /\ reserved' = [a \in Accounts |->
                             reserved[a] + IF a \in Money[c] THEN Cost[c] ELSE 0]
          /\ call' = [call EXCEPT ![c] = "reserved"]
          /\ hold' = [hold EXCEPT ![c] = IF Cost[c] > 0 THEN "reserved" ELSE "absent"]
      BY <2>1, <3>1 DEF Reserve
    <3>3. call'[c] = "reserved" /\ hold'[c] = IF Cost[c] > 0 THEN "reserved" ELSE "absent"
      BY <3>2 DEF TypeOK
    <3>4. \A d \in Calls \ {c} : call'[d] = call[d] /\ hold'[d] = hold[d] /\ actual'[d] = actual[d]
      BY <3>1, <3>2 DEF TypeOK
    <3>5. ASSUME NEW a \in Accounts
          PROVE  /\ reserved'[a] - reserved[a] = Owes(c, a)' - Owes(c, a)
                 /\ used'[a] - used[a] = Spends(c, a)' - Spends(c, a)
      <4>1. reserved[a] \in Int /\ used[a] \in Int /\ Cost[c] \in Nat
            /\ (a \in Money[c] => Cost[c] > 0 /\ a \notin Counts[c])
        BY DEF TypeOK
      <4>2. Owes(c, a) = 0 /\ Owes(c, a)' = IF a \in Money[c] THEN Cost[c] ELSE 0
        BY <3>1, <3>3, <4>1 DEF Owes, Open
      <4>3. Spends(c, a) = 0 /\ Spends(c, a)' = IF a \in Counts[c] THEN 1 ELSE 0
        BY <3>1, <3>3, <4>1 DEF Spends
      <4>4. /\ used'[a] = used[a] + IF a \in Counts[c] THEN 1 ELSE 0
            /\ reserved'[a] = reserved[a] + IF a \in Money[c] THEN Cost[c] ELSE 0
        BY <3>2
      <4> QED
        BY <4>1, <4>2, <4>3, <4>4
    <3> QED
      BY <3>4, <3>5 DEF Posted
  <2>2. ASSUME NEW c \in Calls, Settle(c) \/ Unknown(c) PROVE Posted(c)
    <3>1. /\ Cost[c] > 0 => hold[c] # "absent"
          /\ hold[c] \notin Closed => actual[c] = 0
          /\ call[c] # "absent"
          /\ call'[c] # "absent" /\ \A d \in Calls \ {c} : call'[d] = call[d]
      BY <2>2 DEF Settle, Unknown, AllRecorded, Recorded, Ending, TypeOK
    <3>2. CASE UNCHANGED <<used, reserved, hold, actual>>
      BY <3>1, <3>2, NothingIsPosted DEF Open
    <3>3. CASE Unsettled(c) /\ KeepReserved(c)
      BY <3>1, <3>3, NothingIsPosted DEF Open, Unsettled, AlreadyClosed, KeepReserved, TypeOK, Closed
    <3>4. CASE Unsettled(c) /\ \E amount \in 0..Cost[c] : Charge(c, amount)
      BY <3>1, <3>4, ChargeIsPosted DEF Open, Unsettled, AlreadyClosed, TypeOK, Closed
    <3> QED
      BY <2>2, <3>2, <3>3, <3>4 DEF Settle, Unknown
  <2>3. CASE Reconcile
    <3>1. audited \in Calls /\ call' = call /\ Open(audited)
          /\ \E amount \in 0..Cost[audited] : Charge(audited, amount)
      BY <2>3 DEF Reconcile, TypeOK, AllTracked, Tracked
    <3>2. actual[audited] = 0
      BY <3>1 DEF AllRecorded, Recorded, Open, Closed
    <3> QED
      BY <3>1, <3>2, ChargeIsPosted
  <2> QED
    BY <2>1, <2>2, <2>3
       DEF Next, Transaction, EndTask, Retry, Begin, Stale, Lock, Count, Return, LockToSettle,
           SettleRaises, Crash, Age, Audit, LockToAudit, ledger, records
<1>2. Init => AllRecorded
  BY CallAssumption DEF Init, AllRecorded, Recorded, Ending
<1>3. Spec => []AllRecorded
  BY <1>2, RecordedStep, TypeCorrect, RecordsTracked, PTL DEF Spec
<1> QED
  BY <1>1, <1>3, TypeCorrect, RecordsTracked, PTL DEF Spec

-----------------------------------------------------------------------------
(* Sums.                                                                   *)

\* The element a sum takes out of a set, and the equation of a sum over S.
Pick(s) == CHOOSE x \in s : TRUE

SumsUp(h, w, S) ==
    h = [s \in SUBSET S |-> IF s = {} THEN 0 ELSE w[Pick(s)] + h[s \ {Pick(s)}]]

LEMMA PickedOut ==
    ASSUME NEW S, IsFiniteSet(S), NEW s \in SUBSET S, s # {}
    PROVE  /\ Pick(s) \in s /\ s \ {Pick(s)} \in SUBSET S
           /\ Cardinality(s) \in Nat /\ Cardinality(s \ {Pick(s)}) = Cardinality(s) - 1
           /\ Cardinality(s \ {Pick(s)}) \in Nat /\ Cardinality(s) > 0
<1>1. IsFiniteSet(s)
  BY FS_Subset
<1>2. Pick(s) \in s
  BY DEF Pick
<1>3. IsFiniteSet(s \ {Pick(s)}) /\ Cardinality(s \ {Pick(s)}) = Cardinality(s) - 1
  BY <1>1, <1>2, FS_RemoveElement
<1>4. Cardinality(s) \in Nat /\ Cardinality(s \ {Pick(s)}) \in Nat
  BY <1>1, <1>3, FS_CardinalityType
<1> QED
  BY <1>2, <1>3, <1>4

\* A set of numbers has a least one.
LEMMA LeastNumber ==
    ASSUME NEW N \in SUBSET Nat, N # {}
    PROVE  \E n \in N : \A k \in N : n <= k
<1>1. PICK n \in N : \A k \in N : <<k, n>> \notin OpToRel(<, Nat)
  BY WFMin, NatLessThanWellFounded, Zenon
<1>2. \A k \in N : n \in Nat /\ k \in Nat /\ ~(k < n)
  BY <1>1, Zenon DEF OpToRel
<1> QED
  BY <1>2

\* The sums of a finite set exist: those of its subsets of up to n elements do,
\* for every n.
LEMMA SumsExist ==
    ASSUME NEW S, IsFiniteSet(S), NEW w \in [S -> Int]
    PROVE  \E h \in [SUBSET S -> Int] : SumsUp(h, w, S)
<1> DEFINE Sum(h, s) == IF s = {} THEN 0 ELSE w[Pick(s)] + h[s \ {Pick(s)}]
           UpTo(h, n) == \A s \in SUBSET S : Cardinality(s) <= n => h[s] = Sum(h, s)
           Bad == {n \in Nat : ~\E h \in [SUBSET S -> Int] : UpTo(h, n)}
<1>1. ASSUME NEW h \in [SUBSET S -> Int]
      PROVE  [s \in SUBSET S |-> Sum(h, s)] \in [SUBSET S -> Int]
  <2> SUFFICES ASSUME NEW s \in SUBSET S PROVE Sum(h, s) \in Int
    OBVIOUS
  <2>1. CASE s = {}
    BY <2>1
  <2>2. CASE s # {}
    <3>1. Pick(s) \in S /\ s \ {Pick(s)} \in SUBSET S
      BY <2>2, PickedOut
    <3>2. w[Pick(s)] \in Int /\ h[s \ {Pick(s)}] \in Int
      BY <3>1
    <3> QED
      BY <2>2, <3>2
  <2> QED
    BY <2>1, <2>2
<1>2. Bad = {}
  <2> SUFFICES ASSUME Bad # {} PROVE FALSE
    OBVIOUS
  <2>1. PICK n \in Bad : \A k \in Bad : n <= k
    BY LeastNumber
  <2>2. CASE n = 0
    <3> DEFINE z == [s \in SUBSET S |-> 0]
    <3>1. ASSUME NEW s \in SUBSET S, Cardinality(s) <= 0 PROVE s = {}
      <4> SUFFICES ASSUME s # {} PROVE FALSE
        OBVIOUS
      <4>1. Cardinality(s) \in Nat /\ Cardinality(s) > 0
        BY PickedOut
      <4> QED
        BY <3>1, <4>1
    <3>2. UpTo(z, 0)
      BY <3>1
    <3>3. z \in [SUBSET S -> Int]
      OBVIOUS
    <3> QED
      BY <2>1, <2>2, <3>2, <3>3
  <2>3. CASE n # 0
    <3> HIDE DEF Bad
    <3>1. n \in Nat
      BY DEF Bad
    <3>2. n - 1 \in Nat /\ ~(n <= n - 1)
      BY <2>3, <3>1
    <3>3. n - 1 \notin Bad
      BY <2>1, <3>2
    <3>4. PICK h \in [SUBSET S -> Int] : UpTo(h, n - 1)
      BY <3>2, <3>3 DEF Bad
    <3> DEFINE g == [s \in SUBSET S |-> Sum(h, s)]
    <3>5. g \in [SUBSET S -> Int]
      BY <1>1
    <3>6. ASSUME NEW s \in SUBSET S, Cardinality(s) <= n PROVE g[s] = Sum(g, s)
      <4>1. CASE s = {}
        BY <4>1
      <4>2. CASE s # {}
        <5>1. s \ {Pick(s)} \in SUBSET S /\ Cardinality(s \ {Pick(s)}) <= n - 1
          BY <3>1, <3>6, <4>2, PickedOut
        <5>2. g[s \ {Pick(s)}] = h[s \ {Pick(s)}]
          BY <3>4, <5>1
        <5> QED
          BY <4>2, <5>2
      <4> QED
        BY <4>1, <4>2
    <3>7. UpTo(g, n)
      BY <3>6
    <3> QED
      BY <3>5, <3>7 DEF Bad
  <2> QED
    BY <2>2, <2>3
<1>3. PICK h \in [SUBSET S -> Int] : UpTo(h, Cardinality(S))
  BY <1>2, FS_CardinalityType
<1>4. \A s \in SUBSET S : Cardinality(s) <= Cardinality(S)
  BY FS_Subset
<1>5. \A s \in SUBSET S : h[s] = Sum(h, s)
  BY <1>3, <1>4
<1>6. h = [s \in SUBSET S |-> Sum(h, s)]
  BY <1>5
<1> QED
  BY <1>6 DEF SumsUp

\* Total is the sum of the whole set, for sums that exist.
LEMMA TotalSumsUp ==
    ASSUME NEW S, IsFiniteSet(S), NEW w \in [S -> Int]
    PROVE  \E h : SumsUp(h, w, S) /\ Total(w) = h[S]
<1>1. SumsUp(CHOOSE h : SumsUp(h, w, S), w, S)
  BY SumsExist, Zenon
<1>2. Total(w) = (CHOOSE h : SumsUp(h, w, S))[S]
  <2>1. DOMAIN w = S
    OBVIOUS
  <2>2. MapThenSumSet(LAMBDA c : w[c], S) = (CHOOSE h : SumsUp(h, w, S))[S]
    BY Zenon DEF MapThenSumSet, MapThenFoldSet, Pick, SumsUp
  <2> QED
    BY <2>1, <2>2, Zenon DEF Total
<1> QED
  BY <1>1, <1>2

\* Sums of amounts that differ in one place differ by as much.
LEMMA TotalChanges ==
    ASSUME NEW S, IsFiniteSet(S), NEW w \in [S -> Int], NEW v \in [S -> Int], NEW c \in S,
           \A d \in S \ {c} : v[d] = w[d]
    PROVE  Total(v) - Total(w) = v[c] - w[c] /\ Total(v) \in Int /\ Total(w) \in Int
<1>1. PICK h : SumsUp(h, w, S) /\ Total(w) = h[S]
  BY TotalSumsUp
<1>2. PICK g : SumsUp(g, v, S) /\ Total(v) = g[S]
  BY TotalSumsUp
<1> DEFINE More(s) == IF c \in s THEN v[c] - w[c] ELSE 0
           Good(s) == h[s] \in Int /\ g[s] = h[s] + More(s)
           Bad == {n \in Nat : \E s \in SUBSET S : Cardinality(s) = n /\ ~Good(s)}
<1>3. Bad = {}
  <2> SUFFICES ASSUME Bad # {} PROVE FALSE
    OBVIOUS
  <2>1. PICK n \in Bad : \A k \in Bad : n <= k
    BY LeastNumber
  <2>2. PICK s \in SUBSET S : Cardinality(s) = n /\ ~Good(s)
    BY <2>1
  <2>3. CASE s = {}
    <3>1. h[s] = 0 /\ g[s] = 0
      BY <1>1, <1>2, <2>3 DEF SumsUp
    <3> QED
      BY <2>2, <2>3, <3>1
  <2>4. CASE s # {}
    <3> DEFINE p == Pick(s)
               t == s \ {p}
    <3>1. p \in s /\ t \in SUBSET S /\ Cardinality(t) \in Nat /\ Cardinality(t) < n /\ n \in Nat
      BY <2>2, <2>4, PickedOut
    <3>2. Good(t)
      BY <2>1, <3>1
    <3>3. h[s] = w[p] + h[t] /\ g[s] = v[p] + g[t]
      BY <1>1, <1>2, <2>4 DEF SumsUp
    <3> HIDE DEF p
    <3>4. w[p] \in Int /\ v[p] \in Int /\ w[c] \in Int /\ v[c] \in Int
      BY <3>1
    <3>5. CASE p = c
      BY <2>2, <3>1, <3>2, <3>3, <3>4, <3>5
    <3>6. CASE p # c
      BY <2>2, <3>1, <3>2, <3>3, <3>4, <3>6
    <3> QED
      BY <3>5, <3>6
  <2> QED
    BY <2>3, <2>4
<1>4. Good(S)
  BY <1>3, FS_CardinalityType
<1>5. v[c] \in Int /\ w[c] \in Int
  OBVIOUS
<1> QED
  BY <1>1, <1>2, <1>4, <1>5

\* A sum of nothing is zero.
LEMMA TotalOfNothing ==
    ASSUME NEW S, IsFiniteSet(S), NEW w \in [S -> Int], \A d \in S : w[d] = 0
    PROVE  Total(w) = 0
<1>1. PICK h : SumsUp(h, w, S) /\ Total(w) = h[S]
  BY TotalSumsUp
<1> DEFINE Bad == {n \in Nat : \E s \in SUBSET S : Cardinality(s) = n /\ h[s] # 0}
<1>2. Bad = {}
  <2> SUFFICES ASSUME Bad # {} PROVE FALSE
    OBVIOUS
  <2>1. PICK n \in Bad : \A k \in Bad : n <= k
    BY LeastNumber
  <2>2. PICK s \in SUBSET S : Cardinality(s) = n /\ h[s] # 0
    BY <2>1
  <2>3. s # {}
    BY <1>1, <2>2 DEF SumsUp
  <2> DEFINE t == s \ {Pick(s)}
  <2>4. Pick(s) \in S /\ t \in SUBSET S /\ Cardinality(t) \in Nat /\ Cardinality(t) < n /\ n \in Nat
    BY <2>2, <2>3, PickedOut
  <2>5. h[t] = 0
    BY <2>1, <2>4
  <2>6. h[s] = w[Pick(s)] + h[t]
    BY <1>1, <2>3 DEF SumsUp
  <2> QED
    BY <2>2, <2>4, <2>5, <2>6
<1> QED
  BY <1>1, <1>2, FS_CardinalityType

\* Sums of amounts that grow grow.
LEMMA TotalGrows ==
    ASSUME NEW S, IsFiniteSet(S), NEW w \in [S -> Int], NEW v \in [S -> Int],
           \A d \in S : w[d] <= v[d]
    PROVE  Total(w) <= Total(v) /\ Total(w) \in Int /\ Total(v) \in Int
<1>1. PICK h : SumsUp(h, w, S) /\ Total(w) = h[S]
  BY TotalSumsUp
<1>2. PICK g : SumsUp(g, v, S) /\ Total(v) = g[S]
  BY TotalSumsUp
<1> DEFINE Good(s) == h[s] \in Int /\ g[s] \in Int /\ h[s] <= g[s]
           Bad == {n \in Nat : \E s \in SUBSET S : Cardinality(s) = n /\ ~Good(s)}
<1>3. Bad = {}
  <2> SUFFICES ASSUME Bad # {} PROVE FALSE
    OBVIOUS
  <2>1. PICK n \in Bad : \A k \in Bad : n <= k
    BY LeastNumber
  <2>2. PICK s \in SUBSET S : Cardinality(s) = n /\ ~Good(s)
    BY <2>1
  <2>3. s # {}
    BY <1>1, <1>2, <2>2 DEF SumsUp
  <2> DEFINE p == Pick(s)
             t == s \ {p}
  <2>4. p \in s /\ t \in SUBSET S /\ Cardinality(t) \in Nat /\ Cardinality(t) < n /\ n \in Nat
    BY <2>2, <2>3, PickedOut
  <2>5. Good(t)
    BY <2>1, <2>4
  <2>6. h[s] = w[p] + h[t] /\ g[s] = v[p] + g[t]
    BY <1>1, <1>2, <2>3 DEF SumsUp
  <2> HIDE DEF p
  <2>7. w[p] \in Int /\ v[p] \in Int /\ w[p] <= v[p]
    BY <2>4
  <2> QED
    BY <2>2, <2>5, <2>6, <2>7
<1>4. Good(S)
  BY <1>3, FS_CardinalityType
<1> QED
  BY <1>1, <1>2, <1>4

-----------------------------------------------------------------------------
(* The accounts are the sum of the records.                                *)

LEMMA AmountsAreNumbers ==
    ASSUME TypeOK, NEW c \in Calls, NEW a \in Accounts
    PROVE  Owes(c, a) \in Int /\ Spends(c, a) \in Int
<1>1. Cost[c] \in Nat /\ actual[c] \in Nat
  BY AccountAssumption DEF TypeOK
<1> QED
  BY <1>1 DEF Owes, Spends

\* What is posted to the accounts is posted to the sums of the records.
LEMMA PostedKeepsBalance ==
    ASSUME TypeOK, TypeOK', LedgerBalances, NEW c \in Calls, Posted(c)
    PROVE  LedgerBalances'
<1> SUFFICES ASSUME NEW a \in Accounts
             PROVE  /\ reserved'[a] = Total([d \in Calls |-> Owes(d, a)'])
                    /\ used'[a] = Total([d \in Calls |-> Spends(d, a)'])
  BY DEF LedgerBalances
<1> DEFINE owed == [d \in Calls |-> Owes(d, a)]
           owes == [d \in Calls |-> Owes(d, a)']
           spent == [d \in Calls |-> Spends(d, a)]
           spends == [d \in Calls |-> Spends(d, a)']
<1>1. /\ owed \in [Calls -> Int] /\ spent \in [Calls -> Int]
      /\ owes \in [Calls -> Int] /\ spends \in [Calls -> Int]
  <2>1. \A d \in Calls : Owes(d, a) \in Int /\ Spends(d, a) \in Int
    BY AmountsAreNumbers
  <2>2. \A d \in Calls : Owes(d, a)' \in Int /\ Spends(d, a)' \in Int
    <3> SUFFICES ASSUME NEW d \in Calls PROVE Owes(d, a)' \in Int /\ Spends(d, a)' \in Int
      OBVIOUS
    <3>1. Cost[d] \in Nat /\ actual'[d] \in Nat
      BY AccountAssumption DEF TypeOK
    <3> QED
      BY <3>1 DEF Owes, Spends
  <2> QED
    BY <2>1, <2>2
<1>2. \A d \in Calls \ {c} : owes[d] = owed[d] /\ spends[d] = spent[d]
  BY DEF Posted, Owes, Spends, Open
<1>3. /\ owed[c] = Owes(c, a) /\ owes[c] = Owes(c, a)'
      /\ spent[c] = Spends(c, a) /\ spends[c] = Spends(c, a)'
  OBVIOUS
<1>4. reserved[a] = Total(owed) /\ used[a] = Total(spent)
  BY DEF LedgerBalances
<1> HIDE DEF owed, owes, spent, spends
<1> IsFiniteSet(Calls)
  BY CallAssumption
<1>5. /\ Total(owes) - Total(owed) = owes[c] - owed[c]
      /\ Total(owes) \in Int /\ Total(owed) \in Int
  <2>1. \A d \in Calls \ {c} : owes[d] = owed[d]
    BY <1>2
  <2> QED
    BY <1>1, <2>1, TotalChanges
<1>6. /\ Total(spends) - Total(spent) = spends[c] - spent[c]
      /\ Total(spends) \in Int /\ Total(spent) \in Int
  <2>1. \A d \in Calls \ {c} : spends[d] = spent[d]
    BY <1>2
  <2> QED
    BY <1>1, <2>1, TotalChanges
<1>7. /\ reserved'[a] - reserved[a] = owes[c] - owed[c]
      /\ used'[a] - used[a] = spends[c] - spent[c]
      /\ reserved'[a] \in Int /\ reserved[a] \in Int /\ used'[a] \in Int /\ used[a] \in Int
  BY <1>3 DEF Posted, TypeOK
<1>8. /\ owes[c] \in Int /\ owed[c] \in Int /\ spends[c] \in Int /\ spent[c] \in Int
  BY <1>1
<1>9. reserved'[a] = Total(owes) /\ used'[a] = Total(spends)
  BY <1>4, <1>5, <1>6, <1>7, <1>8
<1> QED
  BY <1>9 DEF owes, spends

\* What is reserved on an account is the ceilings of the open reservations, and
\* what is used the charges of the closed ones and one per counted call, whatever
\* calls fail, die, settle late or are reconciled (reserve_budget, settle_budget).
THEOREM AccountsAreTheSums == Spec => []LedgerBalances
<1>1. Init => LedgerBalances
  <2> SUFFICES ASSUME Init, NEW a \in Accounts
               PROVE  /\ reserved[a] = Total([c \in Calls |-> Owes(c, a)])
                      /\ used[a] = Total([c \in Calls |-> Spends(c, a)])
    BY DEF LedgerBalances
  <2> DEFINE owed == [c \in Calls |-> Owes(c, a)]
             spent == [c \in Calls |-> Spends(c, a)]
  <2>1. /\ owed \in [Calls -> Int] /\ spent \in [Calls -> Int]
        /\ \A c \in Calls : owed[c] = 0 /\ spent[c] = 0
    BY DEF Init, Owes, Spends, Open
  <2>2. reserved[a] = 0 /\ used[a] = 0
    BY DEF Init
  <2> HIDE DEF owed, spent
  <2>3. Total(owed) = 0 /\ Total(spent) = 0
    BY <2>1, TotalOfNothing, CallAssumption
  <2> QED
    BY <2>2, <2>3 DEF owed, spent
<1>2. ASSUME TypeOK, TypeOK', LedgerBalances,
             [\E c \in Calls : Posted(c)]_<<used, reserved, call, hold, actual>>
      PROVE  LedgerBalances'
  <2>1. CASE UNCHANGED <<used, reserved, call, hold, actual>>
    BY <1>2, <2>1 DEF LedgerBalances, Owes, Spends, Open
  <2> QED
    BY <1>2, <2>1, PostedKeepsBalance
<1> QED
  BY <1>1, <1>2, EveryStepIsPosted, TypeCorrect, PTL DEF Spec

-----------------------------------------------------------------------------
(* The quotas.                                                             *)

Taken(a) == used[a] + reserved[a]

Uses(c) == Counts[c] \cup Money[c]
Asks(c, a) == IF a \in Counts[c] THEN 1 ELSE Cost[c]

\* A call whose transaction has made its snapshot and may still reserve.
HoldsView(c) == pc[c] \in Reserving /\ view[c] # NoView

\* Calls whose first plain SELECT precedes their locks of accounts: those with a
\* limit or a preview in call_external.
ReadsFirst(c) == c \in Previews \/ Job[c] \in Strict

\* Two calls that use the account check it one after the other: they work for one
\* task, or wait for an account they both count in before they read.
Serialized(a) ==
    \A c, d \in Calls :
        c # d /\ a \in Uses(c) \cap Uses(d) =>
            \/ Job[c] = Job[d]
            \/ ~ReadsFirst(c) /\ ~ReadsFirst(d) /\ Counts[c] \cap Counts[d] # {}

\* What the other calls ask of an account whose snapshots are open with that of c.
Beside(c, a) ==
    Total([d \in Calls |-> IF d # c /\ HoldsView(d) /\ a \in Uses(d) THEN Asks(d, a) ELSE 0])

\* The transactions that are open at one time ask no more than that beside each other.
Within(A, margin) ==
    \A a \in A, c \in Calls : HoldsView(c) /\ a \in Uses(c) => Beside(c, a) <= margin[a]

\* No two calls read snapshots at one time and use one account.
NoOverlap ==
    \A c, d \in Calls : c # d /\ HoldsView(c) /\ HoldsView(d) => Uses(c) \cap Uses(d) = {}

\* No account is locked by two transactions.
Exclusive == \A p, q \in Processes : p # q => locks[p] \cap locks[q] = {}

LEMMA LocksStayExclusive == TypeOK /\ Exclusive /\ [Next]_vars => Exclusive'
<1> SUFFICES ASSUME TypeOK, Exclusive, [Next]_vars PROVE Exclusive'
  OBVIOUS
<1>1. ASSUME NEW p \in Processes, NEW a, LockNext(p, a) PROVE Exclusive'
  BY <1>1 DEF LockNext, CanLock, Exclusive, TypeOK
<1>2. ASSUME NEW p \in Processes, Unlock(p) PROVE Exclusive'
  BY <1>2 DEF Unlock, Exclusive, TypeOK
<1>3. CASE locks' = locks
  BY <1>3 DEF Exclusive
<1>4. Calls \subseteq Processes /\ Operator \in Processes
  BY DEF Processes
<1>5. ASSUME NEW c \in Calls, Transaction(c) PROVE Exclusive'
  <2>1. locks' = locks \/ Unlock(c) \/ \E a : LockNext(c, a)
    BY <1>5 DEF Transaction, Begin, Stale, Lock, Count, Reserve, Return, LockToSettle, Settle,
                SettleRaises, Unknown
  <2> QED
    BY <1>1, <1>2, <1>3, <1>4, <2>1
<1>6. ASSUME NEW c \in Calls, Crash(c) \/ Age(c) \/ Audit(c) PROVE Exclusive'
  BY <1>2, <1>3, <1>4, <1>6 DEF Crash, Age, Audit
<1>7. ASSUME NEW j \in Jobs, EndTask(j) \/ Retry(j) PROVE Exclusive'
  BY <1>3, <1>7 DEF EndTask, Retry
<1>8. CASE LockToAudit \/ Reconcile
  BY <1>1, <1>2, <1>4, <1>8 DEF LockToAudit, Reconcile
<1>9. CASE UNCHANGED vars
  BY <1>3, <1>9
<1> QED
  BY <1>5, <1>6, <1>7, <1>8, <1>9 DEF Next

\* What a call has seen and checked: its snapshot holds no row that is still
\* missing, and once it prices itself its counted accounts are locked and fit.
Looked(c) ==
    /\ HoldsView(c) => \A a \in Accounts \ rows : view[c][a] = Missing
    /\ pc[c] = "counting" /\ view[c] # NoView => ReadsFirst(c)
    /\ pc[c] = "pricing" =>
         /\ Accounts # {} => view[c] # NoView
         /\ Counts[c] \subseteq locks[c]
         /\ \A a \in Counts[c] : Fits(c, a, 1)

SnapshotInv ==
    /\ Exclusive
    /\ \A a \in Accounts \ rows : Taken(a) <= 0
    /\ \A c \in Calls : Looked(c)

\* A call that would find room in its snapshot, and what all of them would take.
MayTake(c, a) == HoldsView(c) /\ a \in Uses(c) /\ Fits(c, a, Asks(c, a))
Pending(a) == [c \in Calls |-> IF MayTake(c, a) THEN Asks(c, a) ELSE 0]

\* What is taken and what may still be, by the snapshots that are open.
MarginInv(A, margin) == \A a \in A : Taken(a) + Total(Pending(a)) <= Quota[a] + margin[a]

-----------------------------------------------------------------------------
(* The three ways a step touches snapshots and accounts.                   *)

\* Nothing is reserved and no snapshot made.
Quiet ==
    /\ rows' = rows
    /\ \A a \in Accounts : Taken(a)' <= Taken(a)
    /\ \A c \in Calls : pc'[c] \in Reserving =>
          pc'[c] = pc[c] /\ view'[c] = view[c] /\ locks[c] \subseteq locks'[c]

OthersStay(c) ==
    \A d \in Calls \ {c} : pc'[d] = pc[d] /\ view'[d] = view[d] /\ locks'[d] = locks[d]

\* A call begins its transaction, or checks its counted accounts.
Looks(c) ==
    /\ UNCHANGED <<ledger, locks>> /\ OthersStay(c)
    /\ \/ /\ pc'[c] = "counting"
          /\ view'[c] = IF ReadsFirst(c) THEN Snapshot ELSE NoView
       \/ /\ pc[c] = "counting" /\ pc'[c] = "pricing" /\ view'[c] = ViewOf(c)
          /\ Counts[c] \subseteq locks[c]
          /\ \A a \in Counts[c] : Fits(c, a, 1)

\* A call reserves what it asks for.
Books(c) ==
    /\ pc[c] = "pricing" /\ pc'[c] \notin Reserving /\ OthersStay(c)
    /\ Money[c] \subseteq locks[c]
    /\ \A a \in Money[c] : Fits(c, a, Cost[c])
    /\ rows' = rows \cup Uses(c)
    /\ \A a \in Accounts : Taken(a)' = Taken(a) + IF a \in Uses(c) THEN Asks(c, a) ELSE 0

LEMMA TakenIsInt == TypeOK => \A a \in Accounts : Taken(a) \in Int
  BY DEF TypeOK, Taken

LEMMA StepLooksOrBooks ==
    ASSUME TypeOK, TypeOK', [Next]_vars
    PROVE  Quiet \/ \E c \in Calls : Looks(c) \/ Books(c)
<1> USE CallAssumption, AccountAssumption
<1>0. \A c \in Calls : c # Operator /\ c \in Processes
  BY DEF Processes
<1>1. ASSUME UNCHANGED <<ledger, pc, view>>, \A c \in Calls : locks[c] \subseteq locks'[c]
      PROVE  Quiet
  BY <1>1, TakenIsInt DEF Quiet, Taken, ledger
<1>2. ASSUME NEW c \in Calls, rows' = rows, \A a \in Accounts : Taken(a)' <= Taken(a),
             pc'[c] \notin Reserving, OthersStay(c)
      PROVE  Quiet
  BY <1>2 DEF Quiet, OthersStay
<1>3. ASSUME UNCHANGED ledger PROVE rows' = rows /\ \A a \in Accounts : Taken(a)' <= Taken(a)
  BY <1>3, TakenIsInt DEF Taken, ledger
<1>4. ASSUME NEW c \in Calls,
             view' = view \/ \E now \in {NoView, Snapshot, ViewOf(c)} : view' = [view EXCEPT ![c] = now],
             locks' = locks \/ Unlock(c), NEW next, Goto(c, next)
      PROVE  OthersStay(c) /\ pc'[c] = next
  <2>1. \A d \in Calls \ {c} : view'[d] = view[d]
    BY <1>4 DEF TypeOK
  <2>2. \A d \in Calls \ {c} : locks'[d] = locks[d]
    BY <1>0, <1>4 DEF Unlock, TypeOK
  <2>3. pc'[c] = next /\ \A d \in Calls \ {c} : pc'[d] = pc[d]
    BY <1>4 DEF Goto, TypeOK
  <2> QED
    BY <2>1, <2>2, <2>3 DEF OthersStay
<1>5. ASSUME NEW c \in Calls, NEW amount \in 0..Cost[c], Charge(c, amount)
      PROVE  \A a \in Accounts : Taken(a)' <= Taken(a)
  <2> SUFFICES ASSUME NEW a \in Accounts PROVE Taken(a)' <= Taken(a)
    OBVIOUS
  <2>1. used[a] \in Int /\ reserved[a] \in Int /\ Cost[c] \in Nat /\ amount \in Nat /\ amount <= Cost[c]
    BY DEF TypeOK
  <2>2. /\ used'[a] = used[a] + IF a \in Money[c] THEN amount ELSE 0
        /\ reserved'[a] = reserved[a] - IF a \in Money[c] THEN Cost[c] ELSE 0
    BY <1>5 DEF Charge
  <2> QED
    BY <2>1, <2>2 DEF Taken
<1>6. ASSUME NEW j \in Jobs, EndTask(j) \/ Retry(j) PROVE Quiet
  <2>1. UNCHANGED ledger /\ UNCHANGED local
    BY <1>6 DEF EndTask, Retry
  <2> QED
    BY <1>1, <2>1 DEF local
<1>7. ASSUME NEW c \in Calls, Begin(c) \/ Stale(c) PROVE Quiet \/ Looks(c)
  <2>1. CASE Goto(c, "gone") /\ view' = view
    <3>1. UNCHANGED ledger /\ locks' = locks
      BY <1>7 DEF Begin, Stale
    <3>2. OthersStay(c) /\ pc'[c] = "gone"
      BY <1>4, <2>1, <3>1
    <3> QED
      BY <1>2, <1>3, <3>1, <3>2 DEF Reserving
  <2>2. CASE /\ Goto(c, "counting") /\ UNCHANGED <<ledger, locks>>
             /\ view' = [view EXCEPT ![c] = IF ReadsFirst(c) THEN Snapshot ELSE NoView]
    <3>1. OthersStay(c) /\ pc'[c] = "counting"
      BY <1>4, <2>2
    <3>2. view'[c] = IF ReadsFirst(c) THEN Snapshot ELSE NoView
      BY <2>2 DEF TypeOK
    <3> QED
      BY <2>2, <3>1, <3>2 DEF Looks
  <2> QED
    BY <1>7, <2>1, <2>2 DEF Begin, Stale, ReadsFirst
<1>8. ASSUME NEW c \in Calls, Lock(c) \/ LockToSettle(c) PROVE Quiet
  <2>1. UNCHANGED ledger /\ pc' = pc /\ view' = view /\ \E a : LockNext(c, a)
    BY <1>8 DEF Lock, LockToSettle
  <2>2. \A d \in Calls : locks[d] \subseteq locks'[d]
    BY <1>0, <2>1 DEF LockNext, TypeOK
  <2>3. UNCHANGED <<ledger, pc, view>>
    BY <2>1
  <2> QED
    BY <1>1, <2>2, <2>3
<1>9. ASSUME NEW c \in Calls, Count(c) PROVE Quiet \/ Looks(c)
  <2>1. pc[c] = "counting" /\ UNCHANGED ledger /\ Counts[c] \subseteq locks[c]
    BY <1>9 DEF Count, Wanted
  <2>2. CASE Goto(c, "gone") /\ Unlock(c) /\ view' = [view EXCEPT ![c] = NoView]
    <3>1. OthersStay(c) /\ pc'[c] = "gone"
      BY <1>4, <2>2
    <3> QED
      BY <1>2, <1>3, <2>1, <3>1 DEF Reserving
  <2>3. CASE /\ \A a \in Counts[c] : Fits(c, a, 1)
             /\ Goto(c, "pricing") /\ view' = [view EXCEPT ![c] = ViewOf(c)] /\ UNCHANGED locks
    <3>1. OthersStay(c) /\ pc'[c] = "pricing"
      BY <1>4, <2>3
    <3>2. view'[c] = ViewOf(c)
      BY <2>3 DEF TypeOK
    <3> QED
      BY <2>1, <2>3, <3>1, <3>2 DEF Looks
  <2> QED
    BY <1>9, <2>2, <2>3 DEF Count
<1>10. ASSUME NEW c \in Calls, Reserve(c) PROVE Quiet \/ Books(c)
  <2>1. PICK next \in {"calling", "gone"} : Goto(c, next)
    BY <1>10 DEF Reserve
  <2>2. pc'[c] \notin Reserving /\ OthersStay(c)
    BY <1>4, <1>10, <2>1 DEF Reserve, Reserving
  <2>3. CASE UNCHANGED ledger
    BY <1>2, <1>3, <2>2, <2>3
  <2>4. CASE /\ \A a \in Money[c] : Fits(c, a, Cost[c])
             /\ rows' = rows \cup Counts[c] \cup Money[c]
             /\ used' = [a \in Accounts |-> used[a] + IF a \in Counts[c] THEN 1 ELSE 0]
             /\ reserved' = [a \in Accounts |->
                                reserved[a] + IF a \in Money[c] THEN Cost[c] ELSE 0]
    <3>1. ASSUME NEW a \in Accounts
          PROVE  Taken(a)' = Taken(a) + IF a \in Uses(c) THEN Asks(c, a) ELSE 0
      <4>1. used[a] \in Int /\ reserved[a] \in Int /\ Cost[c] \in Int
        BY DEF TypeOK
      <4>2. /\ used'[a] = used[a] + IF a \in Counts[c] THEN 1 ELSE 0
            /\ reserved'[a] = reserved[a] + IF a \in Money[c] THEN Cost[c] ELSE 0
        BY <2>4
      <4>3. ~(a \in Counts[c] /\ a \in Money[c])
        OBVIOUS
      <4> QED
        BY <4>1, <4>2, <4>3 DEF Taken, Uses, Asks
    <3>2. pc[c] = "pricing" /\ Money[c] \subseteq locks[c]
      BY <1>10 DEF Reserve, Wanted
    <3> QED
      BY <2>2, <2>4, <3>1, <3>2 DEF Books, Uses
  <2> QED
    BY <1>10, <2>3, <2>4 DEF Reserve
<1>11. ASSUME NEW c \in Calls, Return(c) \/ SettleRaises(c) \/ Crash(c) PROVE Quiet
  <2>1. PICK next \in Ending \cup {"gone"} : Goto(c, next)
    BY <1>11 DEF Return, SettleRaises, Crash, Ending
  <2>2. /\ UNCHANGED ledger
        /\ view' = view \/ view' = [view EXCEPT ![c] = NoView]
        /\ locks' = locks \/ Unlock(c)
    BY <1>11 DEF Return, SettleRaises, Crash
  <2>3. OthersStay(c) /\ pc'[c] = next
    BY <1>4, <2>1, <2>2
  <2> QED
    BY <1>2, <1>3, <2>1, <2>2, <2>3 DEF Reserving, Ending
<1>12. ASSUME NEW c \in Calls, Settle(c) \/ Unknown(c) PROVE Quiet
  <2>1. PICK next \in {"done", "failing"} : Goto(c, next)
    BY <1>12 DEF Settle, Unknown
  <2>2. rows' = rows /\ view' = view /\ Unlock(c)
    BY <1>12 DEF Settle, Unknown
  <2>3. OthersStay(c) /\ pc'[c] = next
    BY <1>4, <2>1, <2>2
  <2>4. \A a \in Accounts : Taken(a)' <= Taken(a)
    <3>1. CASE UNCHANGED <<used, reserved>>
      BY <3>1, TakenIsInt DEF Taken
    <3> QED
      BY <1>5, <1>12, <3>1 DEF Settle, Unknown, KeepReserved
  <2> QED
    BY <1>2, <2>1, <2>2, <2>3, <2>4 DEF Reserving
<1>13. ASSUME NEW c \in Calls, Age(c) \/ Audit(c) PROVE Quiet
  <2>1. UNCHANGED ledger /\ UNCHANGED local
    BY <1>13 DEF Age, Audit
  <2> QED
    BY <1>1, <2>1 DEF local
<1>14. CASE LockToAudit
  <2>1. \A c \in Calls : locks'[c] = locks[c]
    BY <1>0, <1>14 DEF LockToAudit, LockNext, TypeOK
  <2> QED
    BY <1>1, <1>14, <2>1 DEF LockToAudit
<1>15. CASE Reconcile
  <2>1. /\ rows' = rows /\ view' = view /\ pc' = pc /\ audited \in Calls
        /\ \A d \in Calls : locks'[d] = locks[d]
    BY <1>0, <1>15 DEF Reconcile, Unlock, TypeOK, Processes
  <2>2. \A a \in Accounts : Taken(a)' <= Taken(a)
    BY <1>5, <1>15, <2>1 DEF Reconcile
  <2> QED
    BY <2>1, <2>2 DEF Quiet
<1>16. CASE UNCHANGED vars
  BY <1>1, <1>16 DEF vars, local
<1> QED
  BY <1>6, <1>7, <1>8, <1>9, <1>10, <1>11, <1>12, <1>13, <1>14, <1>15, <1>16 DEF Next, Transaction

-----------------------------------------------------------------------------
(* What a call has seen.                                                   *)

\* Nothing is taken back that was not taken: an account never falls below zero,
\* so a snapshot is never mistaken for none.
LEMMA TakenIsNatural ==
    ASSUME TypeOK, LedgerBalances
    PROVE  /\ \A a \in Accounts : Taken(a) \in Nat
           /\ Accounts # {} => Snapshot # NoView
           /\ Snapshot \in [Accounts -> Int]
           /\ \A a \in Accounts : Snapshot[a] = IF a \in rows THEN Taken(a) ELSE Missing
<1>1. ASSUME NEW a \in Accounts PROVE Taken(a) \in Nat
  <2> DEFINE owed == [c \in Calls |-> Owes(c, a)]
             none == [c \in Calls |-> 0]
  <2>1. owed \in [Calls -> Int] /\ none \in [Calls -> Int] /\ \A c \in Calls : none[c] <= owed[c]
    BY AccountAssumption DEF Owes
  <2>2. reserved[a] = Total(owed)
    BY DEF LedgerBalances
  <2>3. \A c \in Calls : none[c] = 0
    OBVIOUS
  <2> HIDE DEF owed, none
  <2>4. Total(none) = 0
    BY <2>1, <2>3, TotalOfNothing, CallAssumption
  <2>5. Total(none) <= Total(owed) /\ Total(owed) \in Int
    BY <2>1, TotalGrows, CallAssumption
  <2>6. used[a] \in Nat
    BY DEF TypeOK
  <2> QED
    BY <2>2, <2>4, <2>5, <2>6 DEF Taken
<1>2. \A a \in Accounts : Snapshot[a] = IF a \in rows THEN Taken(a) ELSE Missing
  BY DEF Snapshot, Taken
<1>3. \A a \in Accounts : Snapshot[a] \in Int /\ Snapshot[a] # NoView[a]
  BY <1>1, <1>2 DEF Missing, NoView
<1>4. Snapshot \in [Accounts -> Int]
  BY <1>3 DEF Snapshot
<1> QED
  BY <1>1, <1>2, <1>3, <1>4

LEMMA SnapshotStep ==
    ASSUME TypeOK, TypeOK', LedgerBalances, SnapshotInv, [Next]_vars
    PROVE  SnapshotInv'
<1> USE CallAssumption, AccountAssumption
<1>1. Exclusive'
  BY LocksStayExclusive DEF SnapshotInv
<1>2. \A c \in Calls : Looked(c)
  BY DEF SnapshotInv
<1>3. \A c \in Calls : Counts[c] \subseteq Accounts /\ Money[c] \subseteq Accounts
  OBVIOUS
<1>4. ASSUME NEW c \in Calls, pc'[c] \in Reserving => pc'[c] = pc[c], view'[c] = view[c],
             locks[c] \subseteq locks'[c], rows \subseteq rows',
             pc[c] = "pricing" => \A a \in Counts[c] : a \in rows' => a \in rows
      PROVE  Looked(c)'
  <2>1. HoldsView(c)' => HoldsView(c)
    BY <1>4 DEF HoldsView, NoView
  <2>2. HoldsView(c)' => \A a \in Accounts \ rows' : view'[c][a] = Missing
    BY <1>2, <1>4, <2>1 DEF Looked
  <2>3. pc'[c] = "counting" /\ view'[c] # NoView => ReadsFirst(c)
    BY <1>2, <1>4 DEF Looked, Reserving
  <2>4. ASSUME pc'[c] = "pricing"
        PROVE  /\ Accounts # {} => view'[c] # NoView
               /\ Counts[c] \subseteq locks'[c]
               /\ \A a \in Counts[c] : Fits(c, a, 1)'
    <3>1. pc[c] = "pricing"
      BY <1>4, <2>4 DEF Reserving
    <3>2. /\ Accounts # {} => view[c] # NoView
          /\ Counts[c] \subseteq locks[c]
          /\ \A a \in Counts[c] : Fits(c, a, 1)
      BY <1>2, <3>1 DEF Looked
    <3>3. ASSUME NEW a \in Counts[c] PROVE Fits(c, a, 1)'
      <4>1. Fits(c, a, 1) /\ (a \in rows' <=> a \in rows) /\ view[c] # NoView
        BY <1>3, <1>4, <3>1, <3>2
      <4>2. ViewOf(c) = view[c] /\ ViewOf(c)' = view[c]
        BY <1>4, <4>1 DEF ViewOf, NoView
      <4> QED
        BY <4>1, <4>2 DEF Fits
    <3> QED
      BY <1>4, <3>2, <3>3
  <2> QED
    BY <2>2, <2>3, <2>4 DEF Looked, ReadsFirst, NoView
<1>5. ASSUME NEW c \in Calls, pc'[c] \notin Reserving PROVE Looked(c)'
  BY <1>5 DEF Looked, HoldsView, Reserving
<1>6. CASE Quiet
  <2>1. \A a \in Accounts \ rows' : Taken(a)' <= 0
    <3> SUFFICES ASSUME NEW a \in Accounts \ rows' PROVE Taken(a)' <= 0
      OBVIOUS
    <3>1. Taken(a)' <= Taken(a) /\ Taken(a) <= 0
      BY <1>6 DEF Quiet, SnapshotInv
    <3>2. Taken(a) \in Int /\ Taken(a)' \in Int
      BY DEF Taken, TypeOK
    <3> QED
      BY <3>1, <3>2
  <2>2. \A c \in Calls : Looked(c)'
    BY <1>4, <1>5, <1>6 DEF Quiet
  <2> QED
    BY <1>1, <2>1, <2>2 DEF SnapshotInv
<1>7. ASSUME NEW c \in Calls, Looks(c) PROVE SnapshotInv'
  <2>1. \A a \in Accounts \ rows' : Taken(a)' <= 0
    BY <1>7 DEF Looks, ledger, Taken, SnapshotInv
  <2>2. rows' = rows /\ locks' = locks
    BY <1>7 DEF Looks, ledger
  <2>3. \A d \in Calls \ {c} : Looked(d)'
    BY <1>4, <1>7, <2>2 DEF Looks, OthersStay
  <2>4. ASSUME pc'[c] = "counting", view'[c] = IF ReadsFirst(c) THEN Snapshot ELSE NoView
        PROVE  Looked(c)'
    <3>1. HoldsView(c)' => \A a \in Accounts \ rows' : view'[c][a] = Missing
      BY <2>2, <2>4, TakenIsNatural DEF HoldsView, NoView
    <3> QED
      BY <2>4, <3>1 DEF Looked, NoView, ReadsFirst
  <2>5. ASSUME pc[c] = "counting", pc'[c] = "pricing", view'[c] = ViewOf(c),
               Counts[c] \subseteq locks[c], \A a \in Counts[c] : Fits(c, a, 1)
        PROVE  Looked(c)'
    <3>1. /\ Accounts # {} => ViewOf(c) # NoView
          /\ \A a \in Accounts \ rows : ViewOf(c)[a] = Missing
      BY <1>2, <2>5, TakenIsNatural DEF ViewOf, Looked, HoldsView, Reserving
    <3>2. Accounts # {} => ViewOf(c)' = ViewOf(c)
      BY <2>5, <3>1 DEF ViewOf, NoView
    <3>3. \A a \in Counts[c] : Fits(c, a, 1)'
      BY <1>3, <2>2, <2>5, <3>2 DEF Fits
    <3> QED
      BY <2>2, <2>5, <3>1, <3>3 DEF Looked, NoView
  <2>6. Looked(c)'
    BY <1>7, <2>4, <2>5 DEF Looks
  <2> QED
    BY <1>1, <2>1, <2>3, <2>6 DEF SnapshotInv
<1>8. ASSUME NEW c \in Calls, Books(c) PROVE SnapshotInv'
  <2>1. \A a \in Accounts \ rows' : Taken(a)' <= 0
    <3> SUFFICES ASSUME NEW a \in Accounts \ rows' PROVE Taken(a)' <= 0
      OBVIOUS
    <3>1. a \notin rows /\ a \notin Uses(c) /\ Taken(a) \in Int
      BY <1>8, TakenIsInt DEF Books
    <3> QED
      BY <1>8, <3>1 DEF Books, SnapshotInv
  <2>2. Uses(c) \subseteq locks[c]
    BY <1>2, <1>8 DEF Books, Looked, Uses
  <2>3. ASSUME NEW d \in Calls \ {c} PROVE Looked(d)'
    <3>1. pc[d] = "pricing" => Counts[d] \cap Uses(c) = {}
      <4> SUFFICES ASSUME pc[d] = "pricing" PROVE Counts[d] \cap Uses(c) = {}
        OBVIOUS
      <4>1. Counts[d] \subseteq locks[d]
        BY <1>2 DEF Looked
      <4>2. locks[c] \cap locks[d] = {}
        BY DEF SnapshotInv, Exclusive, Processes
      <4> QED
        BY <2>2, <4>1, <4>2
    <3>2. /\ rows' = rows \cup Uses(c)
          /\ pc'[d] = pc[d] /\ view'[d] = view[d] /\ locks'[d] = locks[d]
      BY <1>8 DEF Books, OthersStay
    <3> QED
      BY <1>4, <3>1, <3>2
  <2>4. Looked(c)'
    BY <1>5, <1>8 DEF Books
  <2> QED
    BY <1>1, <2>1, <2>3, <2>4 DEF SnapshotInv
<1> QED
  BY <1>6, <1>7, <1>8, StepLooksOrBooks

LEMMA SnapshotsAreSound == Spec => []SnapshotInv
<1>1. Init => SnapshotInv
  <2> SUFFICES ASSUME Init PROVE SnapshotInv
    OBVIOUS
  <2>1. Exclusive /\ \A a \in Accounts : Taken(a) <= 0
    BY DEF Init, Exclusive, Taken
  <2>2. \A c \in Calls : Looked(c)
    BY DEF Init, Looked, HoldsView, Reserving
  <2> QED
    BY <2>1, <2>2 DEF SnapshotInv
<1>2. TypeOK /\ TypeOK' /\ LedgerBalances /\ SnapshotInv /\ [Next]_vars => SnapshotInv'
  BY SnapshotStep
<1> QED
  BY <1>1, <1>2, AccountsAreTheSums, TypeCorrect, PTL DEF Spec

-----------------------------------------------------------------------------
(* How far an account can get beyond its quota.                            *)

LEMMA AsksForNumbers ==
    ASSUME NEW c \in Calls, NEW a PROVE Asks(c, a) \in Nat
  BY AccountAssumption DEF Asks

\* The room that is left only grows when nothing is taken and no snapshot made.
LEMMA MarginKept ==
    ASSUME NEW a, Taken(a) \in Int, Taken(a)' \in Int, Taken(a)' <= Taken(a),
           \A c \in Calls : MayTake(c, a)' => MayTake(c, a)
    PROVE  /\ Taken(a)' + Total(Pending(a)') <= Taken(a) + Total(Pending(a))
           /\ Total(Pending(a)') \in Int /\ Total(Pending(a)) \in Int
<1> DEFINE w == Pending(a)'
           v == Pending(a)
<1>1. w \in [Calls -> Int] /\ v \in [Calls -> Int]
  BY AsksForNumbers DEF Pending, Asks
<1>2. \A c \in Calls : w[c] <= v[c]
  BY AsksForNumbers DEF Pending, Asks
<1> HIDE DEF w, v
<1>3. Total(w) <= Total(v) /\ Total(w) \in Int /\ Total(v) \in Int
  BY <1>1, <1>2, TotalGrows, CallAssumption
<1> QED
  BY <1>3 DEF w, v

\* A new snapshot shows what is taken, and only the calls beside it may add to that.
LEMMA NewSnapshotFits ==
    ASSUME NEW A \in SUBSET Accounts, NEW margin \in [A -> Nat], TypeOK, TypeOK', SnapshotInv,
           LedgerBalances, NEW c \in Calls, Looks(c), Within(A, margin)', NEW a \in A,
           MayTake(c, a)', ~MayTake(c, a)
    PROVE  Taken(a)' + Total(Pending(a)') <= Quota[a] + margin[a]
<1> DEFINE w == Pending(a)'
           v == [d \in Calls |-> IF d = c THEN 0 ELSE Pending(a)'[d]]
           b == [d \in Calls |->
                   IF d # c /\ HoldsView(d)' /\ a \in Uses(d) THEN Asks(d, a) ELSE 0]
<1>1. /\ w \in [Calls -> Int] /\ v \in [Calls -> Int] /\ b \in [Calls -> Int]
      /\ \A d \in Calls : v[d] <= b[d]
  <2>1. \A d \in Calls : w[d] \in Nat
    BY AsksForNumbers DEF Pending, Asks
  <2>2. \A d \in Calls : b[d] \in Nat
    BY AsksForNumbers
  <2>3. \A d \in Calls : v[d] \in Int /\ v[d] <= b[d]
    BY <2>1, <2>2, AsksForNumbers DEF Pending, Asks, MayTake, Uses
  <2>4. w \in [Calls -> Int]
    BY <2>1 DEF Pending
  <2> QED
    BY <2>2, <2>3, <2>4
<1>2. w[c] = Asks(c, a) /\ v[c] = 0 /\ \A d \in Calls \ {c} : v[d] = w[d]
  BY DEF Pending, Asks
<1>3. Total(b) <= margin[a]
  <2>1. Beside(c, a)' = Total(b)
    BY DEF Beside, Uses, Asks
  <2>2. HoldsView(c)' /\ a \in Uses(c)
    BY DEF MayTake, Uses
  <2> QED
    BY <2>1, <2>2 DEF Within, Uses
<1> HIDE DEF w, v, b
<1>4. Total(w) - Total(v) = Asks(c, a) /\ Total(v) \in Int /\ Total(w) \in Int
  <2>1. IsFiniteSet(Calls) /\ w \in [Calls -> Int] /\ v \in [Calls -> Int]
    BY <1>1, CallAssumption
  <2>2. \A d \in Calls \ {c} : v[d] = w[d]
    BY <1>2
  <2>3. /\ Total(v) - Total(w) = v[c] - w[c]
        /\ Total(v) \in Int /\ Total(w) \in Int
    BY <2>1, <2>2, TotalChanges
  <2> QED
    BY <1>2, <2>3, AsksForNumbers
<1>5. Total(v) <= Total(b) /\ Total(b) \in Int
  BY <1>1, TotalGrows, CallAssumption
<1>6. Taken(a)' + Asks(c, a) <= Quota[a]
  <2>1. rows' = rows /\ Taken(a)' = Taken(a) /\ a \in Accounts /\ Taken(a) \in Nat
    BY TakenIsNatural DEF Looks, ledger, Taken
  <2>2. Fits(c, a, Asks(c, a))' /\ HoldsView(c)' /\ a \in Uses(c)
    BY DEF MayTake, Asks, Uses
  <2>3. a \in Uses(c) => Asks(c, a) \in Nat /\ Quota[a] \in Nat
    BY <2>1, AsksForNumbers, AccountAssumption
  <2>4. CASE a \notin rows
    BY <2>1, <2>2, <2>3, <2>4 DEF Fits, SnapshotInv, Asks
  <2>5. CASE a \in rows
    <3>1. view'[c] = Snapshot
      <4>1. CASE /\ pc'[c] = "counting"
                 /\ view'[c] = IF ReadsFirst(c) THEN Snapshot ELSE NoView
        BY <2>2, <4>1 DEF HoldsView, NoView
      <4>2. CASE pc[c] = "counting" /\ view'[c] = ViewOf(c)
        <5>1. CASE view[c] = NoView
          BY <4>2, <5>1 DEF ViewOf
        <5>2. CASE view[c] # NoView
          <6>1. HoldsView(c) /\ ViewOf(c)' = ViewOf(c)
            BY <4>2, <5>2 DEF HoldsView, Reserving, ViewOf, NoView
          <6>2. Fits(c, a, Asks(c, a))
            BY <2>1, <2>2, <6>1 DEF Fits, Asks
          <6> QED
            BY <2>2, <6>1, <6>2 DEF MayTake
        <5> QED
          BY <5>1, <5>2
      <4> QED
        BY <4>1, <4>2 DEF Looks
    <3>2. ViewOf(c)' = Snapshot /\ Snapshot[a] = Taken(a)
      BY <2>1, <2>2, <2>5, <3>1, TakenIsNatural DEF ViewOf, HoldsView
    <3>3. ViewOf(c)'[a] + Asks(c, a) <= Quota[a]
      BY <2>1, <2>2, <2>5 DEF Fits, Asks
    <3> QED
      BY <2>1, <3>2, <3>3
  <2> QED
    BY <2>4, <2>5
<1>7. Taken(a)' \in Int /\ Quota[a] \in Nat /\ margin[a] \in Nat
  BY TakenIsInt, AccountAssumption DEF TypeOK, Taken
<1> QED
  BY <1>3, <1>4, <1>5, <1>6, <1>7, AsksForNumbers DEF w

\* What a call reserves was counted among what may be taken.
LEMMA BookedWasPending ==
    ASSUME TypeOK, TypeOK', SnapshotInv, NEW c \in Calls, Books(c), NEW a \in Uses(c)
    PROVE  /\ Taken(a)' + Total(Pending(a)') <= Taken(a) + Total(Pending(a))
           /\ Total(Pending(a)') \in Int /\ Total(Pending(a)) \in Int
<1> USE CallAssumption, AccountAssumption
<1>1. a \in Accounts /\ Taken(a) \in Int /\ Taken(a)' = Taken(a) + Asks(c, a)
      /\ Asks(c, a) \in Nat
  BY TakenIsInt, AsksForNumbers DEF Uses, Books
<1>2. MayTake(c, a)
  <2>1. Looked(c) /\ pc[c] = "pricing"
    BY DEF SnapshotInv, Books
  <2>2. Fits(c, a, Asks(c, a))
    BY <2>1 DEF Looked, Books, Asks, Uses
  <2> QED
    BY <1>1, <2>1, <2>2 DEF MayTake, HoldsView, Looked, Reserving
<1>3. ~MayTake(c, a)'
  BY DEF Books, MayTake, HoldsView
<1>4. ASSUME NEW d \in Calls \ {c}, MayTake(d, a)' PROVE MayTake(d, a)
  <2>1. /\ HoldsView(d) /\ a \in Uses(d) /\ view'[d] = view[d]
        /\ Fits(d, a, Asks(d, a))' /\ ViewOf(d)' = view[d] /\ ViewOf(d) = view[d]
    BY <1>4 DEF MayTake, HoldsView, Books, OthersStay, NoView, ViewOf, Uses, Asks
  <2>2. a \in rows'
    BY DEF Books
  <2>3. view[d][a] # Missing /\ view[d][a] + Asks(d, a) <= Quota[a]
    BY <2>1, <2>2 DEF Fits, Asks
  <2>4. a \in rows
    BY <1>1, <2>1, <2>3 DEF SnapshotInv, Looked
  <2>5. Fits(d, a, Asks(d, a))
    BY <2>1, <2>3, <2>4 DEF Fits
  <2> QED
    BY <2>1, <2>5 DEF MayTake
<1> DEFINE w == Pending(a)'
           v == Pending(a)
           u == [d \in Calls |-> IF d = c THEN 0 ELSE v[d]]
<1>5. w \in [Calls -> Int] /\ v \in [Calls -> Int] /\ u \in [Calls -> Int]
  <2>1. \A d \in Calls : w[d] \in Nat /\ v[d] \in Nat
    BY AsksForNumbers DEF Pending, Asks
  <2>2. w \in [Calls -> Int] /\ v \in [Calls -> Int]
    BY <2>1 DEF Pending
  <2> HIDE DEF v
  <2> QED
    BY <2>1, <2>2
<1>6. \A d \in Calls : w[d] <= u[d]
  BY <1>3, <1>4, AsksForNumbers DEF Pending, Asks
<1>7. v[c] = Asks(c, a) /\ u[c] = 0 /\ \A d \in Calls \ {c} : u[d] = v[d]
  BY <1>2 DEF Pending
<1> HIDE DEF w, v, u
<1>8. Total(w) <= Total(u) /\ Total(w) \in Int
  BY <1>5, <1>6, TotalGrows
<1>9. /\ Total(u) - Total(v) = u[c] - v[c]
      /\ Total(u) \in Int /\ Total(v) \in Int
  <2>1. IsFiniteSet(Calls) /\ v \in [Calls -> Int] /\ u \in [Calls -> Int]
    BY <1>5
  <2>2. \A d \in Calls \ {c} : u[d] = v[d]
    BY <1>7
  <2> QED
    BY <2>1, <2>2, TotalChanges
<1> QED
  BY <1>1, <1>7, <1>8, <1>9 DEF w, v

LEMMA MarginStep ==
    ASSUME NEW A \in SUBSET Accounts, NEW margin \in [A -> Nat], TypeOK, TypeOK', SnapshotInv,
           LedgerBalances, Within(A, margin)', MarginInv(A, margin), [Next]_vars
    PROVE  MarginInv(A, margin)'
<1> SUFFICES ASSUME NEW a \in A
             PROVE  Taken(a)' + Total(Pending(a)') <= Quota[a] + margin[a]
  BY DEF MarginInv
<1>1. /\ a \in Accounts /\ Taken(a) \in Int /\ Taken(a)' \in Int
      /\ Quota[a] \in Nat /\ margin[a] \in Nat
  BY AccountAssumption DEF TypeOK, Taken
<1>2. Taken(a) + Total(Pending(a)) <= Quota[a] + margin[a]
  BY DEF MarginInv
<1>3. ASSUME Taken(a)' <= Taken(a), \A c \in Calls : MayTake(c, a)' => MayTake(c, a)
      PROVE  Taken(a)' + Total(Pending(a)') <= Quota[a] + margin[a]
  <2>1. /\ Taken(a)' + Total(Pending(a)') <= Taken(a) + Total(Pending(a))
        /\ Total(Pending(a)') \in Int /\ Total(Pending(a)) \in Int
    BY <1>1, <1>3, MarginKept
  <2> QED
    BY <1>1, <1>2, <2>1
<1>4. ASSUME NEW d \in Calls, pc'[d] \in Reserving => pc[d] \in Reserving, view'[d] = view[d],
             a \in rows' <=> a \in rows, MayTake(d, a)'
      PROVE  MayTake(d, a)
  <2>1. HoldsView(d) /\ a \in Uses(d) /\ Fits(d, a, Asks(d, a))'
    BY <1>4 DEF MayTake, HoldsView, NoView, Uses, Asks
  <2>2. ViewOf(d)' = view[d] /\ ViewOf(d) = view[d]
    BY <1>4, <2>1 DEF ViewOf, HoldsView, NoView
  <2> QED
    BY <1>4, <2>1, <2>2 DEF MayTake, Fits, Asks
<1>5. CASE Quiet
  <2>1. ASSUME NEW d \in Calls, MayTake(d, a)' PROVE MayTake(d, a)
    <3>1. pc'[d] \in Reserving
      BY <2>1 DEF MayTake, HoldsView
    <3>2. pc'[d] = pc[d] /\ view'[d] = view[d] /\ rows' = rows
      BY <1>5, <3>1 DEF Quiet
    <3> QED
      BY <1>4, <2>1, <3>2
  <2>2. Taken(a)' <= Taken(a)
    BY <1>1, <1>5 DEF Quiet
  <2> QED
    BY <1>3, <2>1, <2>2
<1>6. ASSUME NEW c \in Calls, Looks(c)
      PROVE  Taken(a)' + Total(Pending(a)') <= Quota[a] + margin[a]
  <2>1. rows' = rows /\ Taken(a)' = Taken(a) /\ OthersStay(c)
    BY <1>6 DEF Looks, ledger, Taken
  <2>2. CASE MayTake(c, a)' /\ ~MayTake(c, a)
    BY <1>6, <2>2, NewSnapshotFits
  <2>3. CASE MayTake(c, a)' => MayTake(c, a)
    <3>1. \A d \in Calls : MayTake(d, a)' => MayTake(d, a)
      BY <1>4, <2>1, <2>3 DEF OthersStay
    <3> QED
      BY <1>1, <1>3, <2>1, <3>1
  <2> QED
    BY <2>2, <2>3
<1>7. ASSUME NEW c \in Calls, Books(c)
      PROVE  Taken(a)' + Total(Pending(a)') <= Quota[a] + margin[a]
  <2>1. CASE a \in Uses(c)
    <3>1. /\ Taken(a)' + Total(Pending(a)') <= Taken(a) + Total(Pending(a))
          /\ Total(Pending(a)') \in Int /\ Total(Pending(a)) \in Int
      BY <1>7, <2>1, BookedWasPending
    <3> QED
      BY <1>1, <1>2, <3>1
  <2>2. CASE a \notin Uses(c)
    <3>1. /\ Taken(a)' = Taken(a) /\ (a \in rows' <=> a \in rows)
          /\ OthersStay(c) /\ pc'[c] \notin Reserving
      BY <1>1, <1>7, <2>2 DEF Books
    <3>2. \A d \in Calls : MayTake(d, a)' => MayTake(d, a)
      BY <1>4, <3>1 DEF OthersStay, MayTake, HoldsView
    <3> QED
      BY <1>1, <1>3, <3>1, <3>2
  <2> QED
    BY <2>1, <2>2
<1> QED
  BY <1>5, <1>6, <1>7, StepLooksOrBooks

\* There is room at the beginning, every step keeps it, and it bounds the account.
LEMMA MarginHolds ==
    ASSUME NEW A \in SUBSET Accounts, NEW margin \in [A -> Nat]
    PROVE  /\ TypeOK /\ Init => MarginInv(A, margin)
           /\ TypeOK /\ TypeOK' /\ SnapshotInv /\ LedgerBalances /\ Within(A, margin)'
                /\ MarginInv(A, margin) /\ [Next]_vars => MarginInv(A, margin)'
           /\ TypeOK /\ MarginInv(A, margin) => \A a \in A : Taken(a) <= Quota[a] + margin[a]
<1>1. ASSUME TypeOK, NEW a \in A
      PROVE  /\ a \in Accounts /\ Taken(a) \in Int
             /\ Quota[a] \in Nat /\ margin[a] \in Nat
             /\ Total(Pending(a)) \in Int /\ 0 <= Total(Pending(a))
             /\ (\A c \in Calls : ~MayTake(c, a)) => Total(Pending(a)) = 0
  <2> DEFINE w == Pending(a)
             none == [c \in Calls |-> 0]
  <2>1. w \in [Calls -> Int] /\ none \in [Calls -> Int] /\ \A c \in Calls : none[c] <= w[c]
    BY AsksForNumbers DEF Pending
  <2>2. \A c \in Calls : none[c] = 0
    OBVIOUS
  <2>3. (\A c \in Calls : ~MayTake(c, a)) => \A c \in Calls : w[c] = 0
    BY DEF Pending
  <2> HIDE DEF w, none
  <2>4. (\A c \in Calls : ~MayTake(c, a)) => Total(w) = 0
    BY <2>1, <2>3, TotalOfNothing, CallAssumption
  <2>5. Total(none) = 0
    BY <2>1, <2>2, TotalOfNothing, CallAssumption
  <2>6. Total(none) <= Total(w) /\ Total(w) \in Int
    BY <2>1, TotalGrows, CallAssumption
  <2>7. a \in Accounts /\ Taken(a) \in Int /\ Quota[a] \in Nat /\ margin[a] \in Nat
    BY <1>1, TakenIsInt, AccountAssumption
  <2>8. Total(w) \in Int /\ 0 <= Total(w)
    BY <2>5, <2>6
  <2> QED
    BY <2>4, <2>7, <2>8 DEF w
<1>2. TypeOK /\ Init => MarginInv(A, margin)
  <2> SUFFICES ASSUME TypeOK, Init, NEW a \in A
               PROVE  Taken(a) + Total(Pending(a)) <= Quota[a] + margin[a]
    BY DEF MarginInv
  <2>1. Taken(a) = 0 /\ \A c \in Calls : ~MayTake(c, a)
    BY <1>1 DEF Init, Taken, MayTake, HoldsView, Reserving
  <2> QED
    BY <1>1, <2>1
<1>3. TypeOK /\ TypeOK' /\ SnapshotInv /\ LedgerBalances /\ Within(A, margin)'
        /\ MarginInv(A, margin) /\ [Next]_vars => MarginInv(A, margin)'
  BY MarginStep
<1>4. TypeOK /\ MarginInv(A, margin) => \A a \in A : Taken(a) <= Quota[a] + margin[a]
  <2> SUFFICES ASSUME TypeOK, MarginInv(A, margin), NEW a \in A
               PROVE  Taken(a) <= Quota[a] + margin[a]
    OBVIOUS
  <2>1. Taken(a) + Total(Pending(a)) <= Quota[a] + margin[a]
    BY DEF MarginInv
  <2> QED
    BY <1>1, <2>1
<1> QED
  BY <1>2, <1>3, <1>4

\* In every deployment an account gets beyond its quota by no more than the calls
\* ask whose snapshots are open beside that of another one: with n transactions
\* at a time, by n - 1 of the dearest ceilings (reserve_budget, call_external).
THEOREM QuotasHoldWithinAMargin ==
    ASSUME NEW A \in SUBSET Accounts, NEW margin \in [A -> Nat]
    PROVE  Spec /\ []Within(A, margin) => [](\A a \in A : Taken(a) <= Quota[a] + margin[a])
<1>1. /\ TypeOK /\ Init => MarginInv(A, margin)
      /\ TypeOK /\ TypeOK' /\ SnapshotInv /\ LedgerBalances /\ Within(A, margin)'
           /\ MarginInv(A, margin) /\ [Next]_vars => MarginInv(A, margin)'
      /\ TypeOK /\ MarginInv(A, margin) => \A a \in A : Taken(a) <= Quota[a] + margin[a]
  BY MarginHolds
<1> QED
  BY <1>1, TypeCorrect, SnapshotsAreSound, AccountsAreTheSums, PTL DEF Spec

-----------------------------------------------------------------------------
(* Where the quotas hold exactly.                                          *)

\* Where no other snapshot is open there is nothing beside it.
LEMMA NothingBeside ==
    ASSUME NEW a, NEW c \in Calls,
           \A d \in Calls \ {c} : ~(HoldsView(d) /\ a \in Uses(d))
    PROVE  Beside(c, a) = 0
<1> DEFINE w == [d \in Calls |->
                   IF d # c /\ HoldsView(d) /\ a \in Uses(d) THEN Asks(d, a) ELSE 0]
<1>1. w \in [Calls -> Int] /\ \A d \in Calls : w[d] = 0
  OBVIOUS
<1>2. Beside(c, a) = Total(w)
  BY DEF Beside
<1> HIDE DEF w
<1> QED
  BY <1>1, <1>2, TotalOfNothing, CallAssumption

\* Of two calls that use a serialized account only one has its snapshot open.
LEMMA SerializedIsAlone ==
    ASSUME SnapshotInv, OneReserves, NEW a \in Accounts, Serialized(a),
           NEW c \in Calls, NEW d \in Calls \ {c}, HoldsView(c), HoldsView(d),
           a \in Uses(c), a \in Uses(d)
    PROVE  FALSE
<1>1. pc[c] \in Reserving /\ pc[d] \in Reserving /\ Looked(c) /\ Looked(d)
  BY DEF HoldsView, SnapshotInv
<1>2. CASE Job[c] = Job[d]
  BY <1>1, <1>2 DEF OneReserves
<1>3. CASE ~ReadsFirst(c) /\ ~ReadsFirst(d) /\ Counts[c] \cap Counts[d] # {}
  <2>1. pc[c] = "pricing" /\ pc[d] = "pricing"
    BY <1>1, <1>3 DEF Looked, HoldsView, Reserving
  <2>2. Counts[c] \subseteq locks[c] /\ Counts[d] \subseteq locks[d]
    BY <1>1, <2>1 DEF Looked
  <2>3. locks[c] \cap locks[d] = {}
    BY DEF SnapshotInv, Exclusive, Processes
  <2> QED
    BY <1>3, <2>2, <2>3
<1> QED
  BY <1>2, <1>3 DEF Serialized

\* In every deployment each account holds its quota whose calls work for one task,
\* like the ceilings of a task, or wait for a common account before they read,
\* whatever the calls of other accounts read and reserve meanwhile
\* (call_external, reserve_budget).
THEOREM SerializedQuotasHold ==
    Spec => [](\A a \in Accounts : Serialized(a) => Respected(a))
<1> DEFINE A == {a \in Accounts : Serialized(a)}
           margin == [a \in A |-> 0]
<1>1. A \in SUBSET Accounts /\ margin \in [A -> Nat]
  OBVIOUS
<1>2. SnapshotInv /\ OneReserves => Within(A, margin)
  <2> SUFFICES ASSUME SnapshotInv, OneReserves, NEW a \in A, NEW c \in Calls,
                      HoldsView(c), a \in Uses(c)
               PROVE  Beside(c, a) <= margin[a]
    BY DEF Within
  <2>1. \A d \in Calls \ {c} : ~(HoldsView(d) /\ a \in Uses(d))
    BY SerializedIsAlone
  <2>2. Beside(c, a) = 0
    BY <2>1, NothingBeside
  <2> QED
    BY <2>2
<1>3. TypeOK /\ (\A a \in A : Taken(a) <= Quota[a] + margin[a])
        => \A a \in Accounts : Serialized(a) => Respected(a)
  <2> SUFFICES ASSUME TypeOK, NEW a \in A, Taken(a) <= Quota[a] + margin[a] PROVE Respected(a)
    OBVIOUS
  <2>1. Quota[a] \in Nat /\ Taken(a) \in Int
    BY TakenIsInt, AccountAssumption
  <2> QED
    BY <2>1 DEF Respected, Taken
<1> HIDE DEF A, margin
<1>4. /\ TypeOK /\ Init => MarginInv(A, margin)
      /\ TypeOK /\ TypeOK' /\ SnapshotInv /\ LedgerBalances /\ Within(A, margin)'
           /\ MarginInv(A, margin) /\ [Next]_vars => MarginInv(A, margin)'
      /\ TypeOK /\ MarginInv(A, margin) => \A a \in A : Taken(a) <= Quota[a] + margin[a]
  BY <1>1, MarginHolds
<1> QED
  BY <1>2, <1>3, <1>4, TypeCorrect, SnapshotsAreSound, RowLockHolds, AccountsAreTheSums, PTL
     DEF Spec

\* No quota is exceeded unless two calls that use one account have their snapshots
\* open at one time: that is the only cause of finding 1, in every deployment
\* (the plain SELECT of reserve_budget under REPEATABLE READ).
THEOREM OverrunNeedsOverlap == Spec /\ []NoOverlap => []QuotaRespected
<1> DEFINE margin == [a \in Accounts |-> 0]
<1>1. margin \in [Accounts -> Nat]
  OBVIOUS
<1>2. NoOverlap => Within(Accounts, margin)
  <2> SUFFICES ASSUME NoOverlap, NEW a \in Accounts, NEW c \in Calls, HoldsView(c), a \in Uses(c)
               PROVE  Beside(c, a) <= margin[a]
    BY DEF Within
  <2>1. \A d \in Calls \ {c} : ~(HoldsView(d) /\ a \in Uses(d))
    BY DEF NoOverlap
  <2>2. Beside(c, a) = 0
    BY <2>1, NothingBeside
  <2> QED
    BY <2>2
<1>3. TypeOK /\ (\A a \in Accounts : Taken(a) <= Quota[a] + margin[a]) => QuotaRespected
  <2> SUFFICES ASSUME TypeOK, NEW a \in Accounts, Taken(a) <= Quota[a] + margin[a] PROVE Respected(a)
    BY DEF QuotaRespected
  <2>1. Quota[a] \in Nat /\ Taken(a) \in Int
    BY TakenIsInt, AccountAssumption
  <2> QED
    BY <2>1 DEF Respected, Taken
<1> HIDE DEF margin
<1>4. /\ TypeOK /\ Init => MarginInv(Accounts, margin)
      /\ TypeOK /\ TypeOK' /\ SnapshotInv /\ LedgerBalances /\ Within(Accounts, margin)'
           /\ MarginInv(Accounts, margin) /\ [Next]_vars => MarginInv(Accounts, margin)'
      /\ TypeOK /\ MarginInv(Accounts, margin)
           => \A a \in Accounts : Taken(a) <= Quota[a] + margin[a]
  BY <1>1, MarginHolds
<1> QED
  BY <1>2, <1>3, <1>4, TypeCorrect, SnapshotsAreSound, AccountsAreTheSums, PTL DEF Spec

=============================================================================
