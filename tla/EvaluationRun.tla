---------------------------- MODULE EvaluationRun ----------------------------
(***************************************************************************)
(* An evaluation run of one sample: the job that predicts it (JobQueue),   *)
(* the run it belongs to (services/evaluation_service.py) and the scoring  *)
(* of its result by processes outside the backend                          *)
(* (services/evaluation_scoring.py, evaluation/rag_eval/worker.py).        *)
(*                                                                         *)
(* A scorer claims the result under a lease, scores it, and reports over   *)
(* HTTP: it repeats a report whose answer is lost, so that a report may be *)
(* executed late, twice, and after the next one.  Replays that are only    *)
(* acknowledged change nothing and are no actions.  Every transaction of   *)
(* the server locks the run and the result, and is one action.             *)
(***************************************************************************)
EXTENDS JobQueue

CONSTANTS
    Sample,      \* the task that predicts the sample
    MaxTries,    \* MAX_SCORING_ATTEMPTS
    MaxCancels   \* bound on the cancellations of one behaviour

ASSUME SampleAssumption == Tasks = {Sample} /\ Evaluation = {Sample}
ASSUME ScoringAssumption == MaxTries \in Nat \ {0} /\ MaxCancels \in Nat

VARIABLES
    run, stop,   \* eval_runs.status ("running" stands for queued and scoring) and stop_reason
    seen,        \* a status that get_run computed and has not yet written, or "none"
    frozen,      \* the dataset is not revoked
    result,      \* eval_results.status; "queued" stands for running, too
    tries,       \* scoring_attempt
    token,       \* scoring_lease_token: the attempt it was drawn for, 0 for NULL
    leased,      \* scoring_expires_at is not reached
    refusal,     \* a claim was refused and its _unclaimable is to come
    exceeded,    \* a reservation was refused and the UPDATE of the run is to come
    scorer,      \* attempt -> what the process that claimed it does
    net,         \* the reports of scorers, executed or not
    cancels

stored == <<run, stop, seen, frozen, result, tries, token, leased>>
remote == <<refusal, exceeded, scorer, net, cancels>>
evaluation == <<stored, remote>>
everything == <<vars, evaluation>>

Tries == 1..MaxTries
Stopped == {"cancelled", "failed"}
Done == {"completed", "failed"}
\* What a report asks the result to become.
Reports == [try : Tries, asks : {"completed", "failed", "pending_scoring"}]

EvaluationInit ==
    /\ Init
    /\ run = "running" /\ stop = "none" /\ seen = "none" /\ frozen = TRUE
    /\ result = "queued" /\ tries = 0 /\ token = 0 /\ leased = FALSE
    /\ refusal = FALSE /\ exceeded = FALSE
    /\ scorer = [a \in Tries |-> "off"] /\ net = {}
    /\ cancels = 0

EvaluationTypeOK ==
    /\ run \in {"running", "completed"} \cup Stopped
    /\ stop \in {"none", "user_cancelled", "budget_exceeded", "dataset_revoked"}
    /\ seen \in {"none", "running", "completed"}
    /\ result \in {"queued", "pending_scoring", "scoring", "completed"} \cup Stopped
    /\ tries \in 0..MaxTries /\ token \in 0..MaxTries
    /\ {frozen, leased, refusal, exceeded} \subseteq BOOLEAN
    /\ scorer \in [Tries -> {"off", "on", "reporting"}]
    /\ net \subseteq Reports
    /\ cancels \in 0..MaxCancels

-----------------------------------------------------------------------------
(* The conditions of the server                                            *)

\* create_run lets the job wait until the deadline of the run.
Late == queued[Sample] = 0
HasArtifact == published[Sample] # <<>>

\* _locked_context
MayWork == frozen /\ run \notin Stopped /\ ~Late

\* _fence of a report, and of a call to reserve
Holds(a) == token = a /\ tries = a /\ result = "scoring" /\ leased

\* Faulty: only results that were never claimed are looked for.
PendingOnly == result = "pending_scoring"
\* Faulty: the status of the result is not looked at.
AnyOpen == result \in {"pending_scoring", "scoring"}

\* A result that nobody scores: the candidates of claim_scoring ...
Unclaimed == result = "pending_scoring" \/ (result = "scoring" /\ ~leased)
\* ... and the rows _unclaimable may end.
Endable == result = "pending_scoring" \/ (result = "scoring" /\ ~leased)

-----------------------------------------------------------------------------
(* The prediction                                                          *)

\* A worker of the queue.  Its publisher is refused unless the run goes on and
\* the result waits for it; reconcile closes a result that still waits.
Predict(w) ==
    /\ Loop(w) \/ Chance(w)
    /\ CASE published' # published ->
              MayWork /\ result = "queued" /\ result' = "pending_scoring"
         [] business' # business /\ business'[Sample] = "closed" /\ result = "queued" ->
              result' = status[Sample]
         [] OTHER -> UNCHANGED result
    /\ UNCHANGED <<run, stop, seen, frozen, tries, token, leased, remote>>

\* The job begins: a run whose status was written late runs again.
Begin(w) ==
    /\ pc[w] = "executing" /\ Owns(w) /\ MayWork
    /\ result = "queued" /\ run = "completed"
    /\ run' = "running"
    /\ UNCHANGED <<vars, stop, seen, frozen, result, tries, token, leased, remote>>

\* The leases of scorers end with the run at the latest.
Pass ==
    /\ Tick
    /\ leased' = (leased /\ queued'[Sample] > 0)
    /\ UNCHANGED <<run, stop, seen, frozen, result, tries, token, remote>>

-----------------------------------------------------------------------------
(* The owner of the run                                                    *)

Create == Enqueue(Sample) /\ UNCHANGED evaluation
Created == status[Sample] # "absent"

\* cancel_run makes the stop visible; then it cancels the job.
CancelRun ==
    /\ Created /\ frozen /\ cancels < MaxCancels
    /\ cancels' = cancels + 1
    /\ IF run = "completed" THEN UNCHANGED <<run, stop>>
       ELSE run' = "cancelled" /\ stop' = "user_cancelled"
    /\ IF result \in Done THEN UNCHANGED <<result, token>>
       ELSE result' = "cancelled" /\ token' = 0
    /\ UNCHANGED <<vars, seen, frozen, tries, leased, refusal, exceeded, scorer, net>>

CancelJob == Cancel(Sample) /\ UNCHANGED evaluation

\* resume_run: the job gets its remaining attempts, or the artifact its
\* remaining scorings; if there are none the request is refused.
ResumeRun ==
    /\ run \in Stopped /\ frozen /\ ~Late
    /\ stop \in {"none", "user_cancelled"}
    /\ \/ Resume(Sample) /\ result' = "queued" /\ UNCHANGED <<token, leased>>
       \/ /\ result = "cancelled" /\ HasArtifact /\ tries < MaxTries
          /\ result' = "pending_scoring" /\ token' = 0 /\ leased' = FALSE
          /\ UNCHANGED vars
    /\ run' = "running" /\ stop' = "none"
    /\ UNCHANGED <<seen, frozen, tries, remote>>

\* get_run computes the status from rows it read without a lock ...
Look ==
    LET now == IF result \in Done THEN "completed" ELSE "running" IN
    /\ Created /\ run \notin Stopped /\ now # run
    /\ seen' = now
    /\ UNCHANGED <<vars, run, stop, frozen, result, tries, token, leased, remote>>

\* ... and writes it, unless the run was stopped meanwhile.
WriteStatus ==
    /\ seen # "none"
    /\ seen' = "none"
    /\ run' = IF run \in Stopped THEN run ELSE seen
    /\ UNCHANGED <<vars, stop, frozen, result, tries, token, leased, remote>>

\* review_result: a human decides about a result that ended.
ReviewResult ==
    /\ frozen /\ HasArtifact /\ result \in Done
    /\ result' = "completed"
    /\ UNCHANGED <<vars, run, stop, seen, frozen, tries, token, leased, remote>>

\* revoke_dataset stops its runs; their results stay as they are.
RevokeDataset ==
    /\ Created /\ frozen
    /\ frozen' = FALSE /\ run' = "cancelled" /\ stop' = "dataset_revoked"
    /\ UNCHANGED <<vars, seen, result, tries, token, leased, remote>>

-----------------------------------------------------------------------------
(* Scoring                                                                 *)

\* claim_scoring; its answer may be lost, and the scorer does not ask again.
ClaimScoring ==
    /\ HasArtifact /\ Unclaimed /\ MayWork /\ tries < MaxTries
    /\ result' = "scoring" /\ leased' = TRUE
    /\ tries' = tries + 1 /\ token' = tries + 1
    /\ \E next \in {"on", "off"} : scorer' = [scorer EXCEPT ![tries + 1] = next]
    /\ UNCHANGED <<vars, run, stop, seen, frozen, refusal, exceeded, net, cancels>>

\* The claim of a result without tries left ends it.
Exhaust ==
    /\ HasArtifact /\ Unclaimed /\ MayWork /\ tries = MaxTries
    /\ result' = "failed" /\ leased' = FALSE
    /\ UNCHANGED <<vars, run, stop, seen, frozen, tries, token, remote>>

\* The claim is refused, of a result that may have been listed long before.
Refuse ==
    /\ HasArtifact /\ ~MayWork /\ ~refusal
    /\ result \notin Done
    /\ refusal' = TRUE
    /\ UNCHANGED <<vars, stored, exceeded, scorer, net, cancels>>

\* _unclaimable, in a transaction of its own.
Unclaimable ==
    /\ refusal
    /\ refusal' = FALSE
    /\ IF Endable THEN result' = "failed" /\ leased' = FALSE
       ELSE UNCHANGED <<result, leased>>
    /\ UNCHANGED <<vars, run, stop, seen, frozen, tries, token, exceeded, scorer, net, cancels>>

\* No heartbeat came in time.
LeaseExpires ==
    /\ leased
    /\ leased' = FALSE
    /\ UNCHANGED <<vars, run, stop, seen, frozen, result, tries, token, remote>>

\* The scorer reports; when the report seems lost it reports a failure, too.
Answer(a, asks) ==
    /\ \/ scorer[a] = "on"
       \/ scorer[a] = "reporting" /\ asks # "completed"
    /\ net' = net \cup {[try |-> a, asks |-> asks]}
    /\ scorer' = [scorer EXCEPT ![a] = IF asks = "completed" THEN "reporting" ELSE "off"]
    /\ UNCHANGED <<vars, stored, refusal, exceeded, cancels>>

\* complete_scoring and fail_scoring: the last try of a result cannot be
\* followed by another one.
Deliver(m) ==
    /\ MayWork /\ Holds(m.try)
    /\ result' = IF m.asks = "pending_scoring" /\ m.try = MaxTries THEN "failed" ELSE m.asks
    /\ leased' = FALSE
    /\ UNCHANGED <<vars, run, stop, seen, frozen, tries, token, remote>>

\* journal_call: the reservation of a judge call exceeds the budget ...
Exceed(a) ==
    /\ scorer[a] = "on" /\ MayWork /\ Holds(a) /\ ~exceeded
    /\ exceeded' = TRUE
    /\ UNCHANGED <<vars, stored, refusal, scorer, net, cancels>>

\* ... and stops the run in a transaction of its own.
StopRun ==
    /\ exceeded
    /\ exceeded' = FALSE
    /\ IF run \in Stopped \cup {"completed"} THEN UNCHANGED <<run, stop>>
       ELSE run' = "failed" /\ stop' = "budget_exceeded"
    /\ UNCHANGED <<vars, seen, frozen, result, tries, token, leased, refusal, scorer, net, cancels>>

-----------------------------------------------------------------------------
Owner == Create \/ CancelRun \/ CancelJob \/ ResumeRun \/ Look \/ WriteStatus
         \/ ReviewResult \/ RevokeDataset

Scoring ==
    \/ ClaimScoring \/ Exhaust \/ Refuse \/ Unclaimable \/ LeaseExpires \/ StopRun
    \/ \E a \in Tries :
         Exceed(a) \/ \E asks \in {"completed", "failed", "pending_scoring"} : Answer(a, asks)
    \/ \E m \in net : Deliver(m)

EvaluationNext == (\E w \in Workers : Predict(w) \/ Begin(w)) \/ Pass \/ Owner \/ Scoring

\* Scorers go on asking for results and leases run out; nothing says that a
\* scorer ever answers.
EvaluationSpec ==
    /\ EvaluationInit /\ [][EvaluationNext]_everything
    /\ WF_everything(ClaimScoring) /\ WF_everything(Exhaust) /\ WF_everything(LeaseExpires)
    /\ WF_everything(Refuse) /\ WF_everything(Unclaimable)

-----------------------------------------------------------------------------
(* Properties                                                              *)

\* While a scorer holds the lease of a result only its own report, or the
\* owner who cancels, ends the scoring: not a refused claim that was decided
\* before, not the report of an earlier try.  And a verdict, once there, is
\* only replaced by a human (claim_scoring, _unclaimable, _fence).
HolderDecides ==
    [][/\ result = "scoring" /\ leased /\ result' # "scoring" =>
            result' = "cancelled" \/ \E m \in net : m.try = tries
       /\ result \in Done /\ HasArtifact /\ result' # result => result' = "completed"
       /\ result' = "completed" /\ result # "failed" /\ result # "completed" =>
            [try |-> tries, asks |-> "completed"] \in net]_everything

\* A predicted result does not wait for ever: it is scored, cancelled or
\* declared failed, though scorers stop, lose answers, or the run is stopped.
ResultSettles == result \in {"pending_scoring", "scoring"} ~> result \in Done \cup {"cancelled"}
=============================================================================
