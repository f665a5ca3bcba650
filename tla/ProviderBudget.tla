---------------------------- MODULE ProviderBudget ----------------------------
(***************************************************************************)
(* The ledger of external calls: call_external (provider_meter.py) reserves*)
(* the quota of a call in one transaction, calls the provider without any  *)
(* transaction, and settles in another one; budget_service.py keeps the    *)
(* accounts, reconciliation_service.py resolves by hand what is left open. *)
(*                                                                         *)
(* MySQL runs at its default isolation, REPEATABLE READ: SELECT FOR UPDATE *)
(* and UPDATE act on the last committed rows, while every plain SELECT of a*)
(* transaction reads the snapshot its first plain SELECT made.  reserve_   *)
(* budget locks its accounts and then checks them with a plain SELECT, so  *)
(* a reservation is modelled lock by lock with the snapshot it reads.      *)
(***************************************************************************)
EXTENDS Integers, FiniteSets, FiniteSetsExt

CONSTANTS
    Jobs,         \* rows of quiz_tasks whose attempts make external calls
    Calls,        \* calls of call_external
    NoCall,
    Operator,     \* the process of the reconciliation command
    Job,          \* Job[c]: the task a call works for
    Attempt,      \* Attempt[c]: the attempt of the task that makes the call
    Strict,       \* jobs whose next call waits for the outcome of the last one
    Previews,     \* calls whose transaction reads before it reserves
    Accounts,     \* rows of budget_accounts; their order is that of account_key
    Quota,        \* Quota[a]
    Counts,       \* Counts[c]: the accounts of the resource 'calls' it uses
    Money,        \* Money[c]: the accounts of the resource 'cny' it uses
    Cost,         \* Cost[c]: the ceiling of its price, 0 if nothing is charged
    MaxAttempts,
    MaxCrashes    \* bound on the process crashes of one behaviour

ASSUME CallAssumption ==
    /\ IsFiniteSet(Calls)
    /\ Job \in [Calls -> Jobs]
    /\ Attempt \in [Calls -> 1..MaxAttempts]
    /\ Strict \subseteq Jobs
    /\ Previews \subseteq Calls
    /\ NoCall \notin Calls /\ Operator \notin Calls
ASSUME AccountAssumption ==
    /\ Accounts \subseteq Nat
    /\ Quota \in [Accounts -> Nat]
    /\ Counts \in [Calls -> SUBSET Accounts]
    /\ Money \in [Calls -> SUBSET Accounts]
    /\ Cost \in [Calls -> Nat]
    /\ \A c, d \in Calls : Counts[c] \cap Money[d] = {}
    /\ \A c \in Calls : Money[c] = {} <=> Cost[c] = 0
    /\ Accounts # {} => \E m \in Accounts : \A a \in Accounts : a <= m   \* there are finitely many
ASSUME BoundAssumption == MaxAttempts \in Nat \ {0} /\ MaxCrashes \in Nat

VARIABLES
    \* quiz_tasks: the task is running, and its current attempt
    running, attempt,
    \* budget_accounts: committed rows and their columns
    rows, used, reserved,
    \* provider_calls.status and budget_reservations.status, actual of 'cny'
    call, hold, actual,
    receipt,      \* calls with a row in budget_reconciliations
    quiet,        \* calls created more than 24 hours ago
    \* the local state of each call, and of the operator's transaction
    pc,
    locks,        \* locks[p]: the account rows locked by the open transaction of p
    view,         \* view[c]: the snapshot of its transaction, or NoView
    audited,      \* the call in the operator's transaction, or NoCall
    crashes

task    == <<running, attempt>>
ledger  == <<rows, used, reserved>>
records == <<call, hold, actual, receipt>>
local   == <<pc, locks, view>>
vars    == <<task, ledger, records, quiet, local, audited, crashes>>

Processes == Calls \cup {Operator}
Missing   == -1         \* the row of an account is not in the snapshot
NoView    == [a \in Accounts |-> Missing - 1]
Closed    == {"settled", "released"}
Reserving == {"counting", "pricing"}    \* inside the first transaction
Ending    == {"settling", "failing"}    \* inside the second one

TypeOK ==
    /\ running \in [Jobs -> BOOLEAN]
    /\ attempt \in [Jobs -> 1..MaxAttempts]
    /\ rows \subseteq Accounts
    /\ used \in [Accounts -> Nat]
    /\ reserved \in [Accounts -> Int]
    /\ call \in [Calls -> {"absent", "reserved", "completed", "unknown"}]
    /\ hold \in [Calls -> {"absent", "reserved", "unknown"} \cup Closed]
    /\ actual \in [Calls -> Nat]
    /\ receipt \subseteq Calls
    /\ quiet \subseteq Calls
    /\ pc \in [Calls -> {"ready", "calling", "done", "gone"} \cup Reserving \cup Ending]
    /\ locks \in [Processes -> SUBSET Accounts]
    /\ view \in [Calls -> [Accounts -> Int]]
    /\ audited \in Calls \cup {NoCall}
    /\ crashes \in 0..MaxCrashes

Init ==
    /\ running = [j \in Jobs |-> TRUE]
    /\ attempt = [j \in Jobs |-> 1]
    /\ rows = {}
    /\ used = [a \in Accounts |-> 0]
    /\ reserved = [a \in Accounts |-> 0]
    /\ call = [c \in Calls |-> "absent"]
    /\ hold = [c \in Calls |-> "absent"]
    /\ actual = [c \in Calls |-> 0]
    /\ receipt = {}
    /\ quiet = {}
    /\ pc = [c \in Calls |-> "ready"]
    /\ locks = [p \in Processes |-> {}]
    /\ view = [c \in Calls |-> NoView]
    /\ audited = NoCall
    /\ crashes = 0

-----------------------------------------------------------------------------
Goto(c, place) == pc' = [pc EXCEPT ![c] = place]

\* The rows a plain SELECT of c reads: a snapshot, made by the first of them.
Snapshot == [a \in Accounts |-> IF a \in rows THEN used[a] + reserved[a] ELSE Missing]
ViewOf(c) == IF view[c] = NoView THEN Snapshot ELSE view[c]

AnyAmount(c, a, amount) ==       \* faulty: the amount asked for is not counted
    \/ a \notin rows
    \/ ViewOf(c)[a] # Missing /\ ViewOf(c)[a] <= Quota[a]

\* What the check of c finds taken: 0 in a row its own INSERT made, nothing in
\* a row another transaction inserted after the snapshot.
Fits(c, a, amount) ==
    \/ a \notin rows /\ amount <= Quota[a]
    \/ a \in rows /\ ViewOf(c)[a] # Missing /\ ViewOf(c)[a] + amount <= Quota[a]

Unlock(p) == locks' = [locks EXCEPT ![p] = {}]

HighestFirst(S) == Max(S)        \* faulty: the order of the settling transactions

\* The next account a transaction locks: reserve_budget and settle_budget sort.
FirstToSettle(S) == Min(S)

CanLock(p, a) == \A q \in Processes \ {p} : a \notin locks[q]

LockNext(p, a) ==
    /\ CanLock(p, a)
    /\ locks' = [locks EXCEPT ![p] = @ \cup {a}]

-----------------------------------------------------------------------------
(* The task of a call.                                                     *)

TaskRowFree(j) == \A d \in Calls : Job[d] = j => pc[d] \notin Reserving

\* The task fails, is cancelled or completes; it locks the row of the task.
EndTask(j) ==
    /\ running[j]
    /\ TaskRowFree(j)
    /\ running' = [running EXCEPT ![j] = FALSE]
    /\ UNCHANGED <<attempt, ledger, records, quiet, local, audited, crashes>>

\* Another worker claims the task; calls of the attempt before may go on.
Retry(j) ==
    /\ running[j]
    /\ attempt[j] < MaxAttempts
    /\ TaskRowFree(j)
    /\ attempt' = [attempt EXCEPT ![j] = @ + 1]
    /\ UNCHANGED <<running, ledger, records, quiet, local, audited, crashes>>

-----------------------------------------------------------------------------
(* The first transaction of call_external.                                 *)

RowNotLocked(c) == TRUE          \* faulty: locked_job without FOR UPDATE
OutcomeIgnored(c) == TRUE        \* faulty: no limit for unknown outcomes

\* locked_job locks the row of the task for the whole transaction.
HasTaskRow(c) == TaskRowFree(Job[c])

\* _teaching_limits and _application_limits.
OutcomesKnown(c) ==
    Job[c] \in Strict =>
        \A d \in Calls : Job[d] = Job[c] => call[d] \notin {"unknown", "reserved"}

\* locked_job, and for some jobs plain SELECTs: the limits of the job, the
\* preview in reauthorize_scope, the manifest of its build.
Begin(c) ==
    /\ pc[c] = "ready"
    /\ running[Job[c]] /\ attempt[Job[c]] = Attempt[c]
    /\ HasTaskRow(c)
    /\ IF OutcomesKnown(c)
       THEN /\ Goto(c, "counting")
            /\ view' = [view EXCEPT ![c] =
                           IF c \in Previews \/ Job[c] \in Strict THEN Snapshot ELSE NoView]
       ELSE Goto(c, "gone") /\ UNCHANGED view
    /\ UNCHANGED <<task, ledger, records, quiet, locks, audited, crashes>>

\* A call that lost its task before it began raises stale_lease.
Stale(c) ==
    /\ pc[c] = "ready"
    /\ ~(running[Job[c]] /\ attempt[Job[c]] = Attempt[c])
    /\ HasTaskRow(c)
    /\ Goto(c, "gone")
    /\ UNCHANGED <<task, ledger, records, quiet, locks, view, audited, crashes>>

\* reserve_budget: INSERT and SELECT FOR UPDATE of the accounts, in order.
Wanted(c) == (IF pc[c] = "counting" THEN Counts[c] ELSE Money[c]) \ locks[c]

Lock(c) ==
    /\ pc[c] \in Reserving
    /\ Wanted(c) # {}
    /\ LockNext(c, Min(Wanted(c)))
    /\ UNCHANGED <<task, ledger, records, quiet, pc, view, audited, crashes>>

\* The check of 'calls': the first plain SELECT unless Begin had one.
Count(c) ==
    /\ pc[c] = "counting"
    /\ Wanted(c) = {}
    /\ IF \A a \in Counts[c] : Fits(c, a, 1)
       THEN Goto(c, "pricing") /\ view' = [view EXCEPT ![c] = ViewOf(c)]
            /\ UNCHANGED locks
       ELSE Goto(c, "gone") /\ view' = [view EXCEPT ![c] = NoView] /\ Unlock(c)
    /\ UNCHANGED <<task, ledger, records, quiet, audited, crashes>>

\* The check of 'cny', the row of the call and the COMMIT.  'calls' is settled
\* with 1 in the same transaction.  The process may be cancelled at the commit.
Reserve(c) ==
    /\ pc[c] = "pricing"
    /\ Wanted(c) = {}
    /\ Unlock(c)
    /\ view' = [view EXCEPT ![c] = NoView]
    /\ IF \A a \in Money[c] : Fits(c, a, Cost[c])
       THEN /\ rows' = rows \cup Counts[c] \cup Money[c]
            /\ used' = [a \in Accounts |-> used[a] + IF a \in Counts[c] THEN 1 ELSE 0]
            /\ reserved' = [a \in Accounts |->
                               reserved[a] + IF a \in Money[c] THEN Cost[c] ELSE 0]
            /\ call' = [call EXCEPT ![c] = "reserved"]
            /\ hold' = [hold EXCEPT ![c] = IF Cost[c] > 0 THEN "reserved" ELSE "absent"]
            /\ \E next \in {"calling", "gone"} : Goto(c, next)
       ELSE Goto(c, "gone") /\ UNCHANGED <<ledger, call, hold>>
    /\ UNCHANGED <<task, actual, receipt, quiet, audited, crashes>>

-----------------------------------------------------------------------------
(* The call, and the second transaction.                                   *)

\* call() returned, or raised, was cancelled or timed out.
Return(c) ==
    /\ pc[c] = "calling"
    /\ \E next \in Ending : Goto(c, next)
    /\ UNCHANGED <<task, ledger, records, quiet, locks, view, audited, crashes>>

\* settle_budget locks the accounts of the reservation.
LockToSettle(c) ==
    LET rest == Money[c] \ locks[c] IN
    /\ pc[c] \in Ending
    /\ rest # {}
    /\ LockNext(c, FirstToSettle(rest))
    /\ UNCHANGED <<task, ledger, records, quiet, pc, view, audited, crashes>>

NeverClosed(c) == FALSE          \* faulty: settle_budget does not look

\* settle_budget leaves a settled or released reservation alone.
AlreadyClosed(c) == hold[c] \in Closed

\* settle_budget with a known amount: the reservation goes to used.
Charge(c, amount) ==
    /\ used' = [a \in Accounts |-> used[a] + IF a \in Money[c] THEN amount ELSE 0]
    /\ reserved' = [a \in Accounts |->
                       reserved[a] - IF a \in Money[c] THEN Cost[c] ELSE 0]
    /\ hold' = [hold EXCEPT ![c] = IF amount > 0 THEN "settled" ELSE "released"]
    /\ actual' = [actual EXCEPT ![c] = amount]

\* settle_budget with unknown=True.
KeepReserved(c) ==
    /\ hold' = [hold EXCEPT ![c] = "unknown"]
    /\ UNCHANGED <<used, reserved, actual>>

Unsettled(c) == Cost[c] > 0 /\ ~AlreadyClosed(c)

\* The COMMIT of a call that returned.  When the process is cancelled at it, or
\* loses the connection, the exception handler runs although it happened.
Settle(c) ==
    /\ pc[c] = "settling"
    /\ Money[c] \subseteq locks[c]
    /\ Unlock(c)
    /\ call' = [call EXCEPT ![c] = "completed"]
    /\ IF Unsettled(c)
       THEN KeepReserved(c) \/ \E amount \in 0..Cost[c] : Charge(c, amount)
       ELSE UNCHANGED <<used, reserved, hold, actual>>
    /\ \E next \in {"done", "failing"} : Goto(c, next)
    /\ UNCHANGED <<task, rows, receipt, quiet, view, audited, crashes>>

\* That transaction is rolled back: the handler runs in a new one.
SettleRaises(c) ==
    /\ pc[c] = "settling"
    /\ Unlock(c)
    /\ Goto(c, "failing")
    /\ UNCHANGED <<task, ledger, records, quiet, view, audited, crashes>>

\* The handler: the call is unknown and its reservation stays.
Unknown(c) ==
    /\ pc[c] = "failing"
    /\ Money[c] \subseteq locks[c]
    /\ Unlock(c)
    /\ call' = [call EXCEPT ![c] = "unknown"]
    /\ IF Unsettled(c) THEN KeepReserved(c) ELSE UNCHANGED <<used, reserved, hold, actual>>
    /\ Goto(c, "done")
    /\ UNCHANGED <<task, rows, receipt, quiet, view, audited, crashes>>

\* The process dies: its transaction is rolled back and the call forgotten.
Crash(c) ==
    /\ pc[c] \in {"calling"} \cup Reserving \cup Ending
    /\ crashes < MaxCrashes
    /\ crashes' = crashes + 1
    /\ Unlock(c)
    /\ view' = [view EXCEPT ![c] = NoView]
    /\ Goto(c, "gone")
    /\ UNCHANGED <<task, ledger, records, quiet, audited>>

-----------------------------------------------------------------------------
(* reconcile_charge.                                                       *)

\* 24 hours pass.  Timeouts bound every call and handler well below that.
Age(c) ==
    /\ call[c] # "absent" /\ c \notin quiet
    /\ pc[c] \in {"done", "gone"}
    /\ quiet' = quiet \cup {c}
    /\ UNCHANGED <<task, ledger, records, local, audited, crashes>>

AnyAge(c) == ~running[Job[c]]    \* faulty: the waiting time is not checked

\* A call may be reconciled once its task ended and the quiet period passed.
Reconcilable(c) == ~running[Job[c]] /\ c \in quiet

\* The checks of reconcile_charge, under the row locks of the task and the call.
Audit(c) ==
    /\ audited = NoCall
    /\ Reconcilable(c)
    /\ TaskRowFree(Job[c])
    /\ pc[c] \notin Ending
    /\ c \notin receipt
    /\ hold[c] \in {"reserved", "unknown"}
    /\ audited' = c
    /\ UNCHANGED <<task, ledger, records, quiet, local, crashes>>

LockToAudit ==
    /\ audited # NoCall
    /\ LET rest == Money[audited] \ locks[Operator] IN
       rest # {} /\ LockNext(Operator, FirstToSettle(rest))
    /\ UNCHANGED <<task, ledger, records, quiet, pc, view, audited, crashes>>

\* The bill of the provider is charged; a bill above the reservation is refused.
Reconcile ==
    /\ audited # NoCall
    /\ Money[audited] \subseteq locks[Operator]
    /\ \E amount \in 0..Cost[audited] : Charge(audited, amount)
    /\ receipt' = receipt \cup {audited}
    /\ Unlock(Operator)
    /\ audited' = NoCall
    /\ UNCHANGED <<task, rows, call, quiet, pc, view, crashes>>

-----------------------------------------------------------------------------
Transaction(c) ==
    \/ Begin(c) \/ Stale(c) \/ Lock(c) \/ Count(c) \/ Reserve(c)
    \/ Return(c) \/ LockToSettle(c) \/ Settle(c) \/ SettleRaises(c) \/ Unknown(c)

Next ==
    \/ \E j \in Jobs : EndTask(j) \/ Retry(j)
    \/ \E c \in Calls : Transaction(c) \/ Crash(c) \/ Age(c) \/ Audit(c)
    \/ LockToAudit \/ Reconcile

Spec == Init /\ [][Next]_vars

-----------------------------------------------------------------------------
(* Correctness.                                                            *)

\* The accounts tell the sum of the single records: what is reserved is the
\* ceilings of the open reservations, what is used is the charges of the closed
\* ones and one per counted call (reserve_budget, settle_budget).
Open(c) == hold[c] \in {"reserved", "unknown"}

\* What the records of a call say of an account: what is reserved and used on it.
Owes(c, a) == IF a \in Money[c] /\ Open(c) THEN Cost[c] ELSE 0

Spends(c, a) ==
    IF a \in Counts[c] THEN IF call[c] # "absent" THEN 1 ELSE 0
    ELSE IF a \in Money[c] THEN actual[c] ELSE 0

Total(amounts) == MapThenSumSet(LAMBDA c : amounts[c], DOMAIN amounts)

LedgerBalances ==
    \A a \in Accounts :
        /\ reserved[a] = Total([c \in Calls |-> Owes(c, a)])
        /\ used[a] = Total([c \in Calls |-> Spends(c, a)])

\* No account is used beyond its quota.
Respected(a) == used[a] + reserved[a] <= Quota[a]

QuotaRespected == \A a \in Accounts : Respected(a)

\* The ceilings of one task hold over all its attempts, whatever its zombies
\* still do: its transactions are serialized by the row of the task.
OfOneJob(a) == \A c, d \in Calls : a \in Counts[c] \cap Counts[d] => Job[c] = Job[d]

JobCaps == \A a \in Accounts : OfOneJob(a) /\ (\E c \in Calls : a \in Counts[c]) => Respected(a)

\* A request is only out at the provider while its ceiling is reserved: nobody
\* reconciles it meanwhile (reconcile_charge, the 24 hours).
InFlightIsReserved ==
    \A c \in Calls : pc[c] = "calling" /\ Cost[c] > 0 => hold[c] = "reserved"

\* A course task has one request at a time, and none after a call that died
\* without a recorded outcome, whatever attempts of it are still alive
\* (_teaching_limits, _application_limits, under the row lock of the task).
NoBlindRepeat ==
    \A c, d \in Calls :
        c # d /\ Job[c] = Job[d] /\ Job[c] \in Strict /\ pc[c] = "calling"
            => call[d] # "reserved"

\* A reservation that was closed is never opened or charged again, by a late
\* handler or by a second reconciliation (settle_budget).
ClosedIsFinal ==
    [][\A c \in Calls : hold[c] \in Closed =>
          hold'[c] = hold[c] /\ actual'[c] = actual[c]]_<<hold, actual>>

\* The accounts a transaction has still to lock, and the one it asks for.
Rest(p) ==
    IF p = Operator THEN IF audited = NoCall THEN {} ELSE Money[audited] \ locks[p]
    ELSE IF pc[p] \in Reserving THEN Wanted(p)
    ELSE IF pc[p] \in Ending THEN Money[p] \ locks[p] ELSE {}

Asked(p) == IF p # Operator /\ pc[p] \in Reserving THEN Min(Rest(p)) ELSE FirstToSettle(Rest(p))

\* Transactions never wait for each other in a circle: of any that wait for an
\* account, one waits for a holder outside (the sort in reserve_budget and in
\* settle_budget, 'calls' before 'cny').
NoLockCycle ==
    \A S \in SUBSET {p \in Processes : Rest(p) # {}} :
        S # {} => \E p \in S : \A q \in S \ {p} : Asked(p) \notin locks[q]

\* budget_service.py, line 1: unknown calls retain their reservation for
\* reconciliation.
UnknownIsHeld ==
    \A c \in Calls : call[c] = "unknown" /\ Cost[c] > 0 /\ c \notin receipt => Open(c)
=============================================================================
