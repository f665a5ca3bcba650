----------------------------- MODULE TeachingRun -----------------------------
(***************************************************************************)
(* One course job: the graph of its roles (teaching/graph.py), the durable *)
(* row and slots below it (services/teaching_quality_service.py) and the   *)
(* worker that loads, runs and publishes it (workers/course_job.py).       *)
(*                                                                         *)
(* A teacher drafts, a reviewer may look at the draft, and one repair is   *)
(* allowed.  Every call to a model takes a slot before it is made, and the *)
(* state of the graph is saved after it; an attempt that finds a slot      *)
(* without an outcome must not go on.  A draft is named by its             *)
(* generation_revision, 0 for none.  The queue appears as what it          *)
(* guarantees (JobQueue); the course the job belongs to is in              *)
(* CourseLessons.                                                          *)
(***************************************************************************)
EXTENDS Naturals

CONSTANT MaxLeases   \* quiz_tasks.max_attempts

ASSUME TeachingAssumption == MaxLeases \in Nat \ {0}

VARIABLES
  guided,    \* policy.review_enabled
  ticket,    \* quiz_tasks: status, attempt and whether the lease runs
  material,  \* the sources of the course: granted, revoked or purged
  quality,   \* the row of learning_teaching_quality_runs
  slots,     \* the rows of learning_teaching_agent_steps
  turn,      \* attempt -> where its run_course is, and the state of its graph
  asked,     \* history: slot -> requests sent to a model
  approved   \* history: the drafts that the reviewer passed

teachingVars == <<guided, ticket, material, quality, slots, turn, asked, approved>>

Slot == {"initial", "repair", "review_initial", "review_recheck"}
Lease == 1..MaxLeases
MaxReviewCalls == 2

\* TeachingAgentState
Blank == [draft |-> 0, codes |-> FALSE, report |-> "none", repaired |-> FALSE, reviews |-> 0,
          blocking |-> FALSE, ended |-> "no", slot |-> "none"]
Away == [at |-> "off", node |-> "none", state |-> Blank]

TeachingInit ==
  /\ guided \in BOOLEAN
  /\ ticket = [status |-> "pending", attempt |-> 0, leased |-> FALSE]
  /\ material = "granted"
  /\ quality = [status |-> "none", spent |-> FALSE, text |-> FALSE, sources |-> FALSE,
                saved |-> Blank]
  /\ slots = [s \in Slot |-> [status |-> "none", attempt |-> 0]]
  /\ turn = [a \in Lease |-> Away]
  /\ asked = [s \in Slot |-> 0]
  /\ approved = {}

-----------------------------------------------------------------------------
(* The queue                                                               *)

\* locked_job
Leased(a) == ticket.status = "running" /\ ticket.attempt = a /\ ticket.leased

\* locked_job and authorize_course
Permitted(a) == Leased(a) /\ material = "granted"

TakeTicket ==
  /\ ticket.status = "pending" \/ (ticket.status = "running" /\ ~ticket.leased)
  /\ ticket.attempt < MaxLeases
  /\ ticket' = [status |-> "running", leased |-> TRUE, attempt |-> ticket.attempt + 1]
  /\ turn' = [turn EXCEPT ![ticket.attempt + 1].at = "load"]
  /\ UNCHANGED <<guided, material, quality, slots, asked, approved>>

LoseTicket ==
  /\ ticket.leased
  /\ ticket' = [ticket EXCEPT !.leased = FALSE]
  /\ UNCHANGED <<guided, material, quality, slots, turn, asked, approved>>

\* finalize_terminal_rows and cancel_job
EndTicket ==
  /\ ticket.status \in {"pending", "running"}
  /\ ticket' = [ticket EXCEPT !.status = "failed", !.leased = FALSE]
  /\ UNCHANGED <<guided, material, quality, slots, turn, asked, approved>>

-----------------------------------------------------------------------------
(* The row and its slots                                                   *)

\* Faulty: a run whose draft waits for its publication is left open.
LiveUnlessReady == {"running"}

\* The runs that the end of the job closes.
Live == {"running", "ready"}

\* mark_quality_terminated
Terminate ==
  /\ quality' = [quality EXCEPT !.status = IF @ \in Live THEN "failed" ELSE @]
  /\ slots' = [s \in Slot |->
                 IF slots[s].status = "started" /\ slots[s].attempt = ticket.attempt
                 THEN [slots[s] EXCEPT !.status = "unknown"] ELSE slots[s]]

\* The owner reconciles a job that ended without a result.
ReconcileTeaching ==
  /\ ticket.status = "failed" /\ Terminate
  /\ UNCHANGED <<guided, ticket, material, turn, asked, approved>>

\* course_service.cancel_task
CancelTeaching ==
  /\ ticket.status \in {"pending", "running"}
  /\ ticket' = [ticket EXCEPT !.status = "failed", !.leased = FALSE]
  /\ Terminate
  /\ UNCHANGED <<guided, material, turn, asked, approved>>

\* A slot whose call may have been made, and its outcome never saved.
Unfinished == \E s \in Slot : slots[s].status \in {"started", "unknown"}

\* _locked_run
Writable(a) == Permitted(a) /\ quality.status \notin {"none", "published", "revoked"}

\* Faulty: the slot is taken without a row of its own.
Untaken(a, s) == slots' = slots

\* The INSERT of claim_agent_stage.
Occupy(a, s) == slots' = [slots EXCEPT ![s] = [status |-> "started", attempt |-> a]]

\* claim_agent_stage; run_course gives up a slot that is taken.
ClaimSlot(a, s) ==
  /\ Writable(a) /\ slots[s].status = "none"
  /\ Occupy(a, s)

Walk(a, place, node, state) == turn' = [turn EXCEPT ![a] = [at |-> place, node |-> node, state |-> state]]
Abandon(a, place) == Walk(a, place, "none", Blank)

\* A call succeeded when it left a draft, or a verdict on one.
Succeeded(g) == IF g.slot \in {"initial", "repair"} THEN g.draft # 0
                ELSE g.report \in {"passed", "blocked"}

\* save_quality_checkpoint, and the node that follows.
Checkpoint(a, g, next) ==
  /\ Writable(a)
  /\ quality' = [quality EXCEPT
                   !.saved = [g EXCEPT !.slot = "none"], !.text = (g.draft # 0),
                   !.status = CASE g.ended = "completed" -> "ready"
                                [] g.ended = "stopped" -> "failed"
                                [] OTHER -> "running"]
  /\ slots' = IF g.slot # "none" /\ slots[g.slot].status = "started"
              THEN [slots EXCEPT ![g.slot].status = IF Succeeded(g) THEN "completed" ELSE "failed"]
              ELSE slots
  /\ IF next = "stop" THEN Abandon(a, "failing") ELSE Walk(a, next, "none", g)

-----------------------------------------------------------------------------
(* run_course up to its graph                                              *)

\* load_quality_material: a resumed run has the sources it was given.
LoadMaterial(a) ==
  /\ turn[a].at = "load" /\ Permitted(a)
  /\ quality.status # "none" =>
       quality.status \notin {"published", "revoked"} /\ ~Unfinished /\ quality.sources
  /\ Walk(a, "start", "none", Blank)
  /\ UNCHANGED <<guided, ticket, material, quality, slots, asked, approved>>

\* start_quality_run reads the course, which it does not lock, ...
BeginRun(a) ==
  /\ turn[a].at = "start" /\ Permitted(a)
  /\ Walk(a, "insert", "none", Blank)
  /\ UNCHANGED <<guided, ticket, material, quality, slots, asked, approved>>

\* The node the graph starts with.
Entry(g) == IF g.draft # 0 \/ g.codes THEN "validate" ELSE "generate"

\* ... and then, while it holds the job, inserts the row or restores the state.
StartRun(a) ==
  /\ turn[a].at = "insert" /\ ticket.status = "running" /\ ticket.attempt = a
  /\ \/ /\ quality.status = "none"
        /\ quality' = [quality EXCEPT !.status = "running", !.sources = TRUE]
        /\ Walk(a, "generate", "none", Blank)
     \/ /\ quality.status \notin {"none", "published", "revoked"} /\ ~Unfinished /\ quality.sources
        /\ LET g == [quality.saved EXCEPT !.draft = IF quality.text THEN @ ELSE 0] IN
           Walk(a, Entry(g), "none", g)
        /\ UNCHANGED quality
  /\ UNCHANGED <<guided, ticket, material, slots, asked, approved>>

-----------------------------------------------------------------------------
(* The graph.  can_repair and can_review depend on what is left of the     *)
(* budget and of the time: either may be refused.                          *)

Stopped(g) == [g EXCEPT !.ended = "stopped"]

\* Faulty: only a verdict against the draft holds it back.
NotBlocked(report) == report # "blocked"

\* The reviewer has looked at the draft and passed it.
Approves(report) == report = "passed"

\* route_after_review
RouteAfterReview(g, mayRepair) ==
  IF Approves(g.report) THEN "finish"
  ELSE IF g.report = "blocked" /\ ~g.repaired /\ mayRepair THEN "repair" ELSE "stop"

\* The planner or the teacher takes the slot of the first draft ...
ClaimDraft(a) ==
  /\ turn[a].at = "generate" /\ ClaimSlot(a, "initial")
  /\ Walk(a, "draft", "validate", [turn[a].state EXCEPT !.slot = "initial"])
  /\ UNCHANGED <<guided, ticket, material, quality, asked, approved>>

\* ... or of the repair, which forgets draft, report and codes.
ClaimRepair(a) ==
  LET g == turn[a].state IN
  /\ turn[a].at = "repair"
  /\ \/ /\ Permitted(a) /\ Walk(a, "revalidate", "none", Stopped(g))
        /\ UNCHANGED <<quality, slots>>
     \/ /\ ~g.repaired /\ ~quality.spent /\ ClaimSlot(a, "repair")
        /\ quality' = [quality EXCEPT !.spent = TRUE]
        /\ Walk(a, "draft", "revalidate", [g EXCEPT !.slot = "repair", !.repaired = TRUE,
                                             !.draft = 0, !.report = "none", !.codes = FALSE])
  /\ UNCHANGED <<guided, ticket, material, asked, approved>>

\* A draft, an answer that is none, or an error after the request was sent.
CallTeacher(a) ==
  LET t == turn[a]
      g == t.state IN
  /\ t.at = "draft" /\ Leased(a)
  /\ asked' = [asked EXCEPT ![g.slot] = @ + 1]
  /\ \/ Walk(a, "save", t.node, [g EXCEPT !.draft = IF g.repaired THEN 2 ELSE 1])
     \/ Walk(a, "save", t.node, [g EXCEPT !.codes = TRUE])
     \/ Abandon(a, "failing")
  /\ UNCHANGED <<guided, ticket, material, quality, slots, approved>>

SaveTurn(a) ==
  /\ turn[a].at = "save" /\ Checkpoint(a, turn[a].state, turn[a].node)
  /\ UNCHANGED <<guided, ticket, material, asked, approved>>

\* Where the checks lead, for a first draft or again for a repaired one.
RouteAfterChecks(h, again, mayRepair) ==
  IF h.ended = "stopped" THEN "stop"
  ELSE IF h.draft = 0 THEN (IF ~h.repaired /\ mayRepair THEN "repair" ELSE "stop")
  ELSE IF ~guided THEN "finish"
  ELSE IF again THEN "recheck"
  ELSE IF h.report # "none" THEN RouteAfterReview(h, mayRepair) ELSE "review"

\* The checks a program can make; a draft that went further had passed them.
Validate(a) ==
  \E valid \in BOOLEAN, mayRepair \in BOOLEAN :
    LET g == turn[a].state
        h == IF valid THEN g ELSE [g EXCEPT !.draft = 0, !.codes = TRUE]
        next == RouteAfterChecks(h, turn[a].at = "revalidate", mayRepair) IN
    /\ turn[a].at \in {"validate", "revalidate"}
    /\ g.draft = 0 \/ g.report # "none" \/ g.ended # "no" => valid
    /\ Checkpoint(a, IF next = "stop" THEN Stopped(h) ELSE h, next)
    /\ UNCHANGED <<guided, ticket, material, asked, approved>>

\* The reviewer takes one of its two slots, for the draft that is saved.
ClaimReview(a) ==
  LET g == turn[a].state
      s == IF g.reviews = 0 THEN "review_initial" ELSE "review_recheck" IN
  /\ turn[a].at \in {"review", "recheck"}
  /\ \/ Checkpoint(a, Stopped([g EXCEPT !.report = "unreviewed"]), "stop")
     \/ /\ guided /\ g.reviews < MaxReviewCalls /\ ClaimSlot(a, s)
        /\ g.draft = quality.saved.draft /\ (s = "review_recheck" => quality.spent)
        /\ Walk(a, "ask", turn[a].at, [g EXCEPT !.slot = s, !.reviews = @ + 1])
        /\ UNCHANGED quality
  /\ UNCHANGED <<guided, ticket, material, asked, approved>>

\* A verdict, or none: a time-out, a limit, or a report about something else.
CallReviewer(a) ==
  \E report \in {"passed", "blocked", "unreviewed"}, mayRepair \in BOOLEAN :
    LET t == turn[a]
        g == [t.state EXCEPT !.report = report, !.blocking = @ \/ report = "blocked"]
        next == RouteAfterReview(g, mayRepair /\ t.node # "recheck") IN
    /\ t.at = "ask" /\ Leased(a)
    /\ \/ asked' = [asked EXCEPT ![g.slot] = @ + 1]
       \/ report = "unreviewed" /\ UNCHANGED asked
    /\ approved' = IF report = "passed" THEN approved \cup {g.draft} ELSE approved
    /\ Walk(a, "save", next, IF next = "stop" THEN Stopped(g) ELSE g)
    /\ UNCHANGED <<guided, ticket, material, quality, slots>>

\* finish_reviewed and finish_unreviewed
Finish(a) ==
  LET g == turn[a].state IN
  /\ turn[a].at = "finish" /\ g.draft # 0 /\ ~g.codes /\ (guided => Approves(g.report))
  /\ Checkpoint(a, [g EXCEPT !.ended = "completed", !.slot = "none"], "publish")
  /\ UNCHANGED <<guided, ticket, material, asked, approved>>

-----------------------------------------------------------------------------
(* The end of run_course                                                   *)

\* complete_job, whose publisher seals the run (seal_quality_run).
PublishDraft(a) ==
  LET g == turn[a].state IN
  /\ turn[a].at = "publish" /\ Writable(a)
  /\ g.ended = "completed" /\ g.draft # 0 /\ g.draft = quality.saved.draft
  /\ guided => Approves(g.report) /\ quality.saved.report = g.report
  /\ quality' = [quality EXCEPT !.status = "published", !.text = FALSE, !.sources = FALSE]
  /\ ticket' = [ticket EXCEPT !.status = "completed", !.leased = FALSE]
  /\ turn' = [turn EXCEPT ![a] = Away]
  /\ UNCHANGED <<guided, material, slots, asked, approved>>

\* An error, a refusal above all, or the worker is told to stop.
RaiseTurn(a) ==
  /\ turn[a].at \notin {"off", "failing", "stopped"}
  /\ Abandon(a, "failing") \/ Abandon(a, "stopped")
  /\ UNCHANGED <<guided, ticket, material, quality, slots, asked, approved>>

\* fail_job: only a worker that was stopped gives the job back.
LeaveTurn(a) ==
  /\ turn[a].at \in {"failing", "stopped"}
  /\ turn' = [turn EXCEPT ![a] = Away]
  /\ ticket' = IF ~Leased(a) THEN ticket
               ELSE [ticket EXCEPT !.leased = FALSE,
                       !.status = IF turn[a].at = "stopped" /\ a < MaxLeases THEN "pending" ELSE "failed"]
  /\ UNCHANGED <<guided, material, quality, slots, asked, approved>>

\* The process stops.
CrashTurn(a) ==
  /\ turn[a].at # "off"
  /\ turn' = [turn EXCEPT ![a] = Away]
  /\ UNCHANGED <<guided, ticket, material, quality, slots, asked, approved>>

-----------------------------------------------------------------------------
(* Removal                                                                 *)

RevokeMaterial ==
  /\ material = "granted"
  /\ material' = "revoked"
  /\ UNCHANGED <<guided, ticket, quality, slots, turn, asked, approved>>

\* purge_quality_content: a run that is inserted later is not reached.
PurgeMaterial ==
  /\ material = "revoked"
  /\ material' = "purged"
  /\ quality' = IF quality.status = "none" THEN quality
                ELSE [quality EXCEPT !.status = "revoked", !.text = FALSE, !.sources = FALSE,
                                     !.saved.report = "none"]
  /\ UNCHANGED <<guided, ticket, slots, turn, asked, approved>>

\* purge_expired_quality_candidates, a day after the job failed.
SweepDraft ==
  /\ ticket.status = "failed" /\ (quality.text \/ quality.sources)
  /\ quality' = [quality EXCEPT !.text = FALSE, !.sources = FALSE]
  /\ UNCHANGED <<guided, ticket, material, slots, turn, asked, approved>>

-----------------------------------------------------------------------------
TeachingNext ==
  \/ TakeTicket \/ LoseTicket \/ EndTicket \/ ReconcileTeaching \/ CancelTeaching
  \/ \E a \in Lease :
       \/ LoadMaterial(a) \/ BeginRun(a) \/ StartRun(a)
       \/ ClaimDraft(a) \/ ClaimRepair(a) \/ CallTeacher(a) \/ SaveTurn(a) \/ Validate(a)
       \/ ClaimReview(a) \/ CallReviewer(a) \/ Finish(a) \/ PublishDraft(a)
       \/ RaiseTurn(a) \/ LeaveTurn(a) \/ CrashTurn(a)
  \/ RevokeMaterial \/ PurgeMaterial \/ SweepDraft

TeachingSpec == TeachingInit /\ [][TeachingNext]_teachingVars

-----------------------------------------------------------------------------
(* Properties                                                              *)

GraphState ==
  [draft : 0..2, codes : BOOLEAN, report : {"none", "passed", "blocked", "unreviewed"},
   repaired : BOOLEAN, reviews : 0..MaxReviewCalls, blocking : BOOLEAN,
   ended : {"no", "stopped", "completed"}, slot : Slot \cup {"none"}]
Place == {"off", "load", "start", "insert", "generate", "repair", "draft", "save", "validate",
          "revalidate", "review", "recheck", "ask", "finish", "publish", "failing", "stopped"}

TeachingTypeOK ==
  /\ guided \in BOOLEAN
  /\ ticket \in [status : {"pending", "running", "completed", "failed"}, attempt : 0..MaxLeases,
                 leased : BOOLEAN]
  /\ material \in {"granted", "revoked", "purged"}
  /\ quality \in [status : {"none", "running", "ready", "failed", "published", "revoked"},
                 spent : BOOLEAN, text : BOOLEAN, sources : BOOLEAN, saved : GraphState]
  /\ slots \in [Slot -> [status : {"none", "started", "completed", "failed", "unknown"},
                         attempt : 0..MaxLeases]]
  /\ turn \in [Lease -> [at : Place, node : Place \cup {"none", "stop"}, state : GraphState]]
  /\ asked \in [Slot -> Nat]
  /\ approved \subseteq 0..2

\* Each role is called once per slot, whatever attempts stop between the call
\* and the record of its outcome ("a slot left by a crash counts as used, and
\* recovery does not replay an unknown call", README.md:433; claim_agent_stage,
\* start_quality_run).
CalledOnce == \A s \in Slot : asked[s] <= 1

\* Where a review is required, what is published is a draft that the reviewer
\* passed, that very revision and not one before its repair, whatever attempts
\* drafted, reviewed and published it; and the saved report never speaks for
\* another draft (seal_quality_run, save_quality_checkpoint).
PublishedWasReviewed ==
  /\ quality.status = "published" /\ guided => quality.saved.draft \in approved
  /\ quality.saved.report = "passed" => quality.saved.draft \in approved
  /\ ticket.status = "completed" => quality.status \in {"published", "revoked"}

\* No run is open.
RunClosed == quality.status \notin {"running", "ready"}
\* After the removal of the sources neither a draft nor a copy of them is left,
\* not even one that a worker inserted behind the removal.
Erased == material = "purged" => ~quality.text /\ ~quality.sources
===============================================================================
