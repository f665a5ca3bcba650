------------------------------- MODULE TaskLog -------------------------------
(***************************************************************************)
(* The public log of one task as its readers may rely on it: what the row  *)
(* of quiz_tasks shows, and the events task_event_service.py appends in the*)
(* transactions that change it.  The sequence number of an event is its    *)
(* position in the log.                                                    *)
(***************************************************************************)
EXTENDS Naturals, Sequences

CONSTANTS MaxAttempts       \* quiz_tasks.max_attempts
ASSUME AttemptAssumption == MaxAttempts \in Nat \ {0}

VARIABLES
    status,    \* quiz_tasks.status
    attempt,   \* quiz_tasks.attempt
    settled,   \* business_settled_from of the row
    log        \* the events of the task, in the order of public_event_seq

row == <<status, attempt, settled, log>>

Active == {"pending", "running"}
Final  == {"completed", "failed", "cancelled"}

LogInit ==
    /\ status = "absent"
    /\ attempt = 0
    /\ settled = FALSE
    /\ log = <<>>

\* append_task_event in the transaction that sets the row.
Tell(type, st, a) == log' = Append(log, [type |-> type, status |-> st, attempt |-> a])

Submit ==
    /\ status = "absent"
    /\ status' = "pending"
    /\ Tell("phase", "queued", 0)
    /\ UNCHANGED <<attempt, settled>>

\* A worker takes the task, for the first time or from another one.
Claim ==
    /\ status \in Active
    /\ attempt < MaxAttempts
    /\ status' = "running"
    /\ attempt' = attempt + 1
    /\ Tell("phase", "running", attempt + 1)
    /\ UNCHANGED settled

\* The worker reports another stage.
Phase ==
    /\ status = "running"
    /\ Tell("phase", "running", attempt)
    /\ UNCHANGED <<status, attempt, settled>>

\* A worker that stops gives the task back.
Requeue ==
    /\ status = "running"
    /\ attempt < MaxAttempts
    /\ status' = "pending"
    /\ Tell("phase", "pending", attempt)
    /\ UNCHANGED <<attempt, settled>>

Finish(st) ==
    /\ status \in Active
    /\ st = "completed" => status = "running"
    /\ status' = st
    /\ settled' = (st = "completed")
    /\ Tell(st, st, attempt)
    /\ UNCHANGED attempt

\* The business record of a failed or cancelled task was reconciled.
Settle ==
    /\ status \in {"failed", "cancelled"}
    /\ ~settled
    /\ settled' = TRUE
    /\ Tell("settled", status, attempt)
    /\ UNCHANGED <<status, attempt>>

LogNext ==
    \/ Submit \/ Claim \/ Phase \/ Requeue \/ Settle
    \/ \E st \in Final : Finish(st)

LogSpec == LogInit /\ [][LogNext]_row
=============================================================================
