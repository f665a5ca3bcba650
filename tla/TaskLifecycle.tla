--------------------------- MODULE TaskLifecycle ----------------------------
(***************************************************************************)
(* What the job queue promises to the owner of a task, whatever workers,   *)
(* leases and retries do: a submitted task ends exactly once, it has a     *)
(* result if and only if it completed, and after it ended its business     *)
(* record is settled.  Only an evaluation sample may be reopened.          *)
(***************************************************************************)
EXTENDS Naturals

CONSTANTS Tasks, Reopenable

VARIABLES
    outcome,   \* "absent", "open", "completed", "failed" or "cancelled"
    results,   \* number of results published for the task
    settled    \* business_settled of the public task view

lifecycle == <<outcome, results, settled>>

Init ==
    /\ outcome = [t \in Tasks |-> "absent"]
    /\ results = [t \in Tasks |-> 0]
    /\ settled = [t \in Tasks |-> FALSE]

Submit(t) ==
    /\ outcome[t] = "absent"
    /\ outcome' = [outcome EXCEPT ![t] = "open"]
    /\ UNCHANGED <<results, settled>>

\* The result and the end of the task are one step.
Publish(t) ==
    /\ outcome[t] = "open"
    /\ outcome' = [outcome EXCEPT ![t] = "completed"]
    /\ results' = [results EXCEPT ![t] = @ + 1]
    /\ settled' = [settled EXCEPT ![t] = TRUE]

\* Tasks end without a result, any number of them in one step.
Abort(S) ==
    /\ S # {}
    /\ \A t \in S : outcome[t] = "open"
    /\ \E how \in [S -> {"failed", "cancelled"}] :
         outcome' = [t \in Tasks |-> IF t \in S THEN how[t] ELSE outcome[t]]
    /\ UNCHANGED <<results, settled>>

Settle(t) ==
    /\ outcome[t] \in {"failed", "cancelled"}
    /\ ~settled[t]
    /\ settled' = [settled EXCEPT ![t] = TRUE]
    /\ UNCHANGED <<outcome, results>>

Reopen(t) ==
    /\ t \in Reopenable
    /\ outcome[t] \in {"failed", "cancelled"}
    /\ outcome' = [outcome EXCEPT ![t] = "open"]
    /\ settled' = [settled EXCEPT ![t] = FALSE]
    /\ UNCHANGED results

Next ==
    \/ \E t \in Tasks : Submit(t) \/ Publish(t) \/ Settle(t) \/ Reopen(t)
    \/ \E S \in SUBSET Tasks : Abort(S)

Spec == Init /\ [][Next]_lifecycle
=============================================================================
