--------------------------- MODULE ReviewSchedule ---------------------------
(***************************************************************************)
(* Spaced repetition: the facts of learning (answers, assessments,         *)
(* completions), the outbox events they publish, the projection that       *)
(* rebuilds the schedule of a concept from its whole history, and the      *)
(* review occurrences a learner moves, pauses and turns into activities.   *)
(*                                                                         *)
(* Every handler holds the row of the learning space for its whole         *)
(* transaction, so each is one action.  A request whose expected revision  *)
(* or idempotency key does not match is refused without a change: only the *)
(* accepted ones are actions.  Days stand for times, 0 for NULL.           *)
(***************************************************************************)
EXTENDS Naturals, FiniteSets, SequencesExt

CONSTANTS Activity, Question, Concept,
          ActivityOf,   \* the activity a question belongs to
          ConceptOf,    \* the concept it is bound to
          VersionOf,    \* the version of its text
          ShortAnswer,  \* questions graded after the answer, the others at once
          FromReview,   \* activities a review asks for
          Quiz,         \* quizzes, which do not know whether help was used
          None,         \* the absence of an activity
          LastDay,      \* bound of the calendar
          MaxRevision,  \* bound of the assessments of each answer
          MaxMoves,     \* bound of the learner's dates and pauses
          MaxLost       \* bound of the activities with an event lost at a time

ASSUME ReviewAssumption ==
  /\ ActivityOf \in [Question -> Activity]
  /\ ConceptOf \in [Question -> Concept]
  /\ ShortAnswer \subseteq Question
  /\ FromReview \subseteq Activity /\ Quiz \subseteq Activity
  /\ None \notin Activity
  /\ LastDay \in Nat \ {0} /\ MaxMoves \in Nat /\ MaxLost \in Nat
  /\ MaxRevision \in [Question -> Nat]

VARIABLES
  today,     \* the calendar
  head,      \* question -> its current assessment
  stage,     \* activity -> absent, generating, failed, active or settled
  history,   \* completed activities, oldest first
  day,       \* activity -> the local date its completion froze
  pending,   \* activity -> outbox events whose job is still to run
  lost,      \* activities with an event whose job failed for good
  receipt,   \* activity -> the assessments its last projection receipt names
  state,     \* concept -> learner_concept_state
  reviews,   \* concept -> its occurrences, by schedule_seq
  moves      \* dates and pauses the learner chose so far

scheduleVars == <<today, head, stage, history, day, pending, lost, receipt, state,
                  reviews, moves>>
facts == <<today, head, stage, history, day>>
queue == <<pending, lost, receipt>>

NoDay == 0
Confirmed == {"wrong", "helped", "full"}
Unanswered == [rev |-> 0, mark |-> "unanswered"]
Ungraded == [rev |-> 0, mark |-> "ungraded"]

QuestionsOf(a) == {q \in Question : ActivityOf[q] = a}
ConceptsOf(a) == {ConceptOf[q] : q \in QuestionsOf(a)}
Settled(a) == stage[a] = "settled"
Ready(a) == Settled(a) /\ \A q \in QuestionsOf(a) : head[q].mark \in Confirmed
Assessments(a) == [q \in QuestionsOf(a) |-> head[q]]

-----------------------------------------------------------------------------
(* The review rules and the fold of a history *)

IntervalDays == <<1, 3, 7, 14>>
NewConcept == [stage |-> 0, due |-> NoDay, success |-> NoDay, last |-> None,
               lastDay |-> NoDay, seen |-> {}]

\* What a confirmed outcome does to the stage and the due date of a concept.
NextSchedule(s, mark, on, versions) ==
  LET tomorrow == on + 1
      repeated == s.lastDay = on \/ versions \cap s.seen # {}
      next == IF s.stage < 4 THEN s.stage + 1 ELSE 4
  IN CASE mark = "wrong"  -> [s EXCEPT !.stage = 0, !.due = tomorrow]
       [] mark = "helped" -> [s EXCEPT !.due = tomorrow]
       [] mark = "full" /\ repeated ->
            [s EXCEPT !.due = IF @ = NoDay THEN tomorrow ELSE @]
       [] OTHER -> [s EXCEPT !.stage = next, !.due = on + IntervalDays[next],
                             !.success = on]

\* The outcome of an activity for a concept: the lowest of its marks.
Outcome(marks) == IF "wrong" \in marks THEN "wrong"
                  ELSE IF "helped" \in marks THEN "helped" ELSE "full"

\* What a completed activity tells of a concept: an unconfirmed one only proves
\* exposure.
Lesson(a, c) ==
  LET asked == {q \in QuestionsOf(a) : ConceptOf[q] = c}
  IN [activity |-> a, on |-> day[a], versions |-> {VersionOf[q] : q \in asked},
      mark |-> IF Ready(a) THEN Outcome({head[q].mark : q \in asked}) ELSE "unconfirmed"]

Learned(s, lesson) ==
  LET graded == IF lesson.mark \in Confirmed
                THEN NextSchedule(s, lesson.mark, lesson.on, lesson.versions)
                ELSE s
  IN [graded EXCEPT !.last = lesson.activity, !.lastDay = lesson.on,
                    !.seen = @ \cup lesson.versions]

\* The places in the history of the activities about c, and what each tells.
Places(c) == {i \in DOMAIN history : c \in ConceptsOf(history[i])}
Lessons(c) == [i \in Places(c) |-> Lesson(history[i], c)]

\* The fold of the lessons, the latest last.
AllLearned(lessons) ==
  MapThenFoldSet(LAMBDA i, s : Learned(s, lessons[i]), NewConcept, LAMBDA i : i, Max, DOMAIN lessons)
Derive(c) == AllLearned(Lessons(c))

-----------------------------------------------------------------------------
(* Occurrences *)

Occurrence(rule, due, override, paused) ==
  [status |-> "scheduled", current |-> TRUE, rule |-> rule, due |-> due,
   override |-> override, paused |-> paused, origin |-> None, error |-> "none"]

CurrentSeqs(c) == {i \in DOMAIN reviews[c] : reviews[c][i].current}
HasCurrent(c) == CurrentSeqs(c) # {}
Seq_(c) == CHOOSE i \in CurrentSeqs(c) : TRUE
Current(c) == reviews[c][Seq_(c)]

\* Faulty: an activity consumes the occurrence before its answers are confirmed.
Answered(a) == Settled(a)

\* The answers of a completed activity are confirmed.
Consumes(a) == Ready(a)

\* The current occurrence of c was claimed for an activity that consumes it.
Bound(c) == /\ HasCurrent(c)
            /\ Current(c).status = "claimed"
            /\ Consumes(Current(c).origin)
InProgress(c) == HasCurrent(c) /\ Current(c).status = "claimed" /\ ~Bound(c)

\* Faulty: the date chosen for the occurrence outlives it.
OverrideStays(c) == state[c].override

\* The date the learner chose ends with the occurrence it was chosen for.
OverrideLeft(c) == IF Bound(c) THEN NoDay ELSE state[c].override

StoredState(c) ==
  LET derived == Derive(c)
      override == OverrideLeft(c)
      due == IF InProgress(c) THEN Current(c).due
             ELSE IF override # NoDay THEN override ELSE derived.due
  IN [stage |-> derived.stage, rule |-> derived.due, due |-> due,
      override |-> override, paused |-> state[c].paused, last |-> derived.last]

\* Only a scheduled occurrence without a chosen date follows the rule.
DueNow(r, s) ==
  IF r.status = "scheduled" /\ r.override = NoDay THEN s.rule ELSE r.due

\* A current occurrence that is not consumed keeps its slot, unless no confirmed
\* result is left that asks for a review.
Refreshed(c, s) ==
  LET r == Current(c)
      due == DueNow(r, s)
  IN IF due = NoDay
     THEN [r EXCEPT !.status = "cancelled", !.current = FALSE, !.rule = NoDay,
                    !.error = "assessment_pending"]
     ELSE [r EXCEPT !.rule = s.rule, !.due = due]

\* Without a new completion, an occurrence that ended unconsumed without a slot
\* (its source was revoked) waits for the learner.
AwaitsRetry(c, s) ==
  /\ reviews[c] # << >>
  /\ Last(reviews[c]).status \in {"failed", "cancelled"}
  /\ Last(reviews[c]).error # "assessment_pending"
  /\ state[c].last = s.last

Synced(c, s) ==
  LET closed == IF Bound(c)
                THEN [reviews[c] EXCEPT ![Seq_(c)] =
                        [Current(c) EXCEPT !.status = "completed", !.current = FALSE]]
                ELSE reviews[c]
  IN IF HasCurrent(c) /\ ~Bound(c)
     THEN [reviews[c] EXCEPT ![Seq_(c)] = Refreshed(c, s)]
     ELSE IF s.due = NoDay \/ (~Bound(c) /\ AwaitsRetry(c, s))
     THEN closed
     ELSE Append(closed, Occurrence(s.rule, s.due, s.override, s.paused))

-----------------------------------------------------------------------------
ScheduleInit ==
  /\ today = 1
  /\ head = [q \in Question |-> Unanswered]
  /\ stage = [a \in Activity |-> "absent"]
  /\ history = << >>
  /\ day = [a \in Activity |-> NoDay]
  /\ pending = [a \in Activity |-> 0]
  /\ lost = {}
  /\ receipt = [a \in Activity |-> << >>]
  /\ state = [c \in Concept |-> [stage |-> 0, rule |-> NoDay, due |-> NoDay,
                                 override |-> NoDay, paused |-> FALSE, last |-> None]]
  /\ reviews = [c \in Concept |-> << >>]
  /\ moves = 0

Publish(a) == pending' = [pending EXCEPT ![a] = @ + 1] /\ UNCHANGED <<lost, receipt>>

\* An activity that no review asked for.
Open(a) ==
  /\ a \notin FromReview /\ stage[a] = "absent"
  /\ stage' = [stage EXCEPT ![a] = "active"]
  /\ UNCHANGED <<today, head, history, day, queue, state, reviews, moves>>

\* The first answer of a question that a rule grades at once.
Answer(q, mark) ==
  /\ stage[ActivityOf[q]] = "active" /\ head[q] = Unanswered
  /\ q \notin ShortAnswer
  /\ ActivityOf[q] \in Quiz => mark # "full"
  /\ head' = [head EXCEPT ![q] = [rev |-> 1, mark |-> mark]]
  /\ Publish(ActivityOf[q])
  /\ UNCHANGED <<today, stage, history, day, state, reviews, moves>>

\* The first answer of a question that waits for its grade.
Submit(q) ==
  /\ stage[ActivityOf[q]] = "active" /\ head[q] = Unanswered
  /\ q \in ShortAnswer
  /\ head' = [head EXCEPT ![q] = Ungraded]
  /\ UNCHANGED <<today, stage, history, day, queue, state, reviews, moves>>

\* A later assessment supersedes the head: a provisional one never a confirmed one.
Assess(q, mark) ==
  /\ q \in ShortAnswer
  /\ head[q] # Unanswered /\ head[q].rev < MaxRevision[q]
  /\ mark = "provisional" => head[q].mark \notin Confirmed
  /\ head' = [head EXCEPT ![q] = [rev |-> @.rev + 1, mark |-> mark]]
  /\ Publish(ActivityOf[q])
  /\ UNCHANGED <<today, stage, history, day, state, reviews, moves>>

\* All questions answered: the activity enters the history with today's date.
Complete(a) ==
  /\ stage[a] = "active"
  /\ \A q \in QuestionsOf(a) : head[q] # Unanswered
  /\ stage' = [stage EXCEPT ![a] = "settled"]
  /\ history' = Append(history, a)
  /\ day' = [day EXCEPT ![a] = today]
  /\ Publish(a)
  /\ UNCHANGED <<today, head, state, reviews, moves>>

\* Faulty: an activity is projected once, whatever is assessed afterwards.
FirstTime(a) == receipt[a] = << >>

\* No receipt names the assessments of now.  Revisions only grow, so that a
\* receipt before the last one never matches again.
Unseen(a) == receipt[a] # Assessments(a)

\* The job of one event.  Nothing is projected before the completion, nor twice
\* for the same assessments.
Project(a) ==
  /\ pending[a] > 0
  /\ pending' = [pending EXCEPT ![a] = @ - 1]
  /\ IF ~Settled(a) \/ ~Unseen(a)
     THEN UNCHANGED <<lost, receipt, state, reviews>>
     ELSE /\ receipt' = [receipt EXCEPT ![a] = Assessments(a)]
          /\ lost' = lost \ {a}
          /\ state' = [c \in Concept |->
                         IF c \in ConceptsOf(a) THEN StoredState(c) ELSE state[c]]
          /\ reviews' = [c \in Concept |->
                           IF c \in ConceptsOf(a) THEN Synced(c, state'[c])
                           ELSE reviews[c]]
  /\ UNCHANGED <<facts, moves>>

\* The job fails for good: its event stays unprocessed and nobody queues it again.
ProjectFails(a) ==
  /\ pending[a] > 0 /\ Cardinality(lost) < MaxLost
  /\ pending' = [pending EXCEPT ![a] = @ - 1]
  /\ lost' = lost \cup {a}
  /\ UNCHANGED <<facts, receipt, state, reviews, moves>>

-----------------------------------------------------------------------------
(* The learner's requests *)

\* One change of an occurrence and of the state of its concept.
Update(c, due, override, paused) ==
  /\ HasCurrent(c) /\ Current(c).status # "completed"
  /\ reviews' = [reviews EXCEPT ![c][Seq_(c)] =
                    [Current(c) EXCEPT !.due = due, !.override = override, !.paused = paused]]
  /\ state' = [state EXCEPT ![c].due = due, ![c].override = override, ![c].paused = paused]
  /\ UNCHANGED <<facts, queue>>
Move == moves < MaxMoves /\ moves' = moves + 1

Reschedule(c, on) ==
  /\ HasCurrent(c) /\ Move
  /\ Update(c, on, on, Current(c).paused)
Pause(c) ==
  /\ HasCurrent(c) /\ ~Current(c).paused /\ Move
  /\ Update(c, Current(c).due, Current(c).override, TRUE)
Resume(c) ==
  /\ HasCurrent(c) /\ Current(c).paused
  /\ Update(c, Current(c).due, Current(c).override, FALSE) /\ UNCHANGED moves

Claimable(c) == HasCurrent(c) /\ ~Current(c).paused
                /\ Current(c).status \notin {"claimed", "completed"}

\* A batch of occurrences becomes one generation job and its future activity.
Claim(a) ==
  /\ a \in FromReview /\ stage[a] = "absent"
  /\ \A c \in ConceptsOf(a) : Claimable(c)
  /\ stage' = [stage EXCEPT ![a] = "generating"]
  /\ reviews' = [c \in Concept |->
                   IF c \in ConceptsOf(a)
                   THEN [reviews[c] EXCEPT ![Seq_(c)] =
                           [Current(c) EXCEPT !.status = "claimed", !.origin = a, !.error = "none"]]
                   ELSE reviews[c]]
  /\ UNCHANGED <<today, head, history, day, queue, state, moves>>

\* The binding is checked again when the generated activity is published.
StillBound(a) == \A c \in ConceptsOf(a) : /\ HasCurrent(c)
                                          /\ Current(c).origin = a
                                          /\ Current(c).status = "claimed"
                                          /\ ~Current(c).paused
Generated(a) ==
  /\ stage[a] = "generating" /\ StillBound(a)
  /\ stage' = [stage EXCEPT ![a] = "active"]
  /\ UNCHANGED <<today, head, history, day, queue, state, reviews, moves>>

GenerationFails(a) ==
  /\ stage[a] = "generating"
  /\ stage' = [stage EXCEPT ![a] = "failed"]
  /\ UNCHANGED <<today, head, history, day, queue, state, reviews, moves>>

\* Faulty: the failed occurrence leaves the schedule.
Dropped(r) == [r EXCEPT !.status = "failed", !.error = "job", !.current = FALSE]

\* The learner may claim the failed occurrence again: it keeps its slot.
Failed(r) == [r EXCEPT !.status = "failed", !.error = "job"]

\* The owner's sweep over the occurrences of a failed or cancelled job.
Unsettled(a, r) == r.origin = a /\ r.status = "claimed"
Reconcile(a) ==
  /\ stage[a] = "failed"
  /\ \E c \in Concept : \E i \in DOMAIN reviews[c] : Unsettled(a, reviews[c][i])
  /\ reviews' = [c \in Concept |-> [i \in DOMAIN reviews[c] |->
                   IF Unsettled(a, reviews[c][i])
                   THEN Failed(reviews[c][i])
                   ELSE reviews[c][i]]]
  /\ UNCHANGED <<facts, queue, state, moves>>

-----------------------------------------------------------------------------
NextDay ==
  /\ today < LastDay
  /\ today' = today + 1
  /\ UNCHANGED <<head, stage, history, day, queue, state, reviews, moves>>

ScheduleNext ==
  \/ \E a \in Activity : \/ Open(a) \/ Complete(a) \/ Project(a) \/ ProjectFails(a)
                         \/ Claim(a) \/ Generated(a) \/ GenerationFails(a) \/ Reconcile(a)
  \/ \E q \in Question : \/ Submit(q)
                         \/ \E mark \in Confirmed : Answer(q, mark)
                         \/ \E mark \in Confirmed \cup {"provisional"} : Assess(q, mark)
  \/ \E c \in Concept : \/ \E on \in 1 .. LastDay : Reschedule(c, on)
                        \/ Pause(c) \/ Resume(c)
  \/ NextDay

ScheduleSpec == ScheduleInit /\ [][ScheduleNext]_scheduleVars

-----------------------------------------------------------------------------
(* Properties *)

\* Every event of the activities of a concept has been projected.
Caught(c) == \A a \in Activity :
  Settled(a) /\ c \in ConceptsOf(a) => pending[a] = 0 /\ a \notin lost

\* When no event is left, the state of a concept is what its whole history
\* prescribes with the assessments of now, whatever the order in which events
\* and corrections were projected (_project skips an event by its receipt).
ScheduleFollowsHistory == \A c \in Concept : Caught(c) =>
  /\ state[c].stage = Derive(c).stage
  /\ state[c].rule = Derive(c).due
  /\ state[c].last = Derive(c).last

\* A concept the rules want reviewed has exactly one occurrence in the schedule,
\* its latest: no failure, retry, pause or correction drops it out of
\* _sync_reviews, and none gives a concept two.  What update_review wrote to the occurrence
\* and to the state of the concept stays the same in both through projections,
\* failures and retries.
OccurrenceTellsState == \A c \in Concept :
  /\ state[c].rule # NoDay => HasCurrent(c)
  /\ CurrentSeqs(c) \subseteq {Len(reviews[c])}
  /\ HasCurrent(c) =>
       /\ Current(c).paused = state[c].paused
       /\ Current(c).override = state[c].override
       /\ Current(c).status = "scheduled" => Current(c).due = state[c].due

\* An activity consumes one occurrence of each of its concepts, and only an
\* activity that was claimed for it and is confirmed consumes an occurrence.
ConsumedOnce == \A c \in Concept : \A i \in DOMAIN reviews[c] :
  reviews[c][i].status = "completed" =>
    /\ Ready(reviews[c][i].origin) /\ c \in ConceptsOf(reviews[c][i].origin)
    /\ \A j \in DOMAIN reviews[c] \ {i} :
         reviews[c][j].origin = reviews[c][i].origin => reviews[c][j].status # "completed"

\* A projection never moves the date of an occurrence in progress nor a date the
\* learner chose, and a chosen date does not pass to the next occurrence.
DatesAreTheLearners == [][moves' = moves => \A c \in Concept :
  /\ \A i \in DOMAIN reviews[c] :
       /\ reviews[c][i].status # "scheduled" \/ reviews[c][i].override # NoDay
       => reviews'[c][i].due = reviews[c][i].due
  /\ \A i \in DOMAIN reviews'[c] \ DOMAIN reviews[c] :
       reviews'[c][i].override = NoDay]_scheduleVars

=============================================================================
