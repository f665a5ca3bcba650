-------------------------- MODULE LearningJobsProofs --------------------------
(***************************************************************************)
(* Machine-checked proofs about the jobs of MCLearningJobs: the course job *)
(* (TeachingRun), for any number of attempts; the pictures of a quiz       *)
(* (QuizImages), for any number of questions and attempts; the feedback on *)
(* a check (CourseAssessment), for any number of answers, jobs and         *)
(* overlapping requests; and the worker that runs any of them.             *)
(***************************************************************************)
EXTENDS MCLearningJobs, PracticeGradingProofs

-----------------------------------------------------------------------------
(* TeachingRun: what makes its properties inductive.                       *)

\* A slot that was asked is taken, and was asked once.
SlotUsedOnce(s) ==
  /\ asked[s] <= 1
  /\ asked[s] # 0 => slots[s].status # "none"

\* The attempt that is about to ask a model holds a slot that nobody asked yet.
HoldsSlot(a) ==
  turn[a].at \in {"draft", "ask"} =>
    LET s == turn[a].state.slot IN
    /\ s \in Slot /\ slots[s].status # "none" /\ slots[s].attempt = a /\ asked[s] = 0

\* The report that an attempt carries is about the draft it carries.
DraftIsReviewed(a) ==
  LET t == turn[a]
      g == t.state IN
  /\ g.report = "passed" => g.draft \in approved
  /\ t.at \in {"generate", "draft"} => g.report # "passed"
  /\ t.at \in {"review", "recheck", "ask"} => g.draft # 0

\* Where an attempt goes when it has asked and saved.
NodeFollows(a) ==
  LET t == turn[a] IN
  /\ t.at = "draft" => t.node \in {"validate", "revalidate"}
  /\ t.at = "ask" => t.node \in {"review", "recheck"}
  /\ t.at = "save" => t.node \in {"validate", "revalidate", "finish", "repair", "stop"}

\* The text is stored when the saved state has a draft, until both are removed.
RowIsTold ==
  /\ quality.sources => quality.text = (quality.saved.draft # 0)
  /\ quality.status = "none" => quality.saved.draft = 0 /\ ~quality.text
  /\ 0 \notin approved

TeachingInv ==
  /\ TeachingTypeOK
  /\ \A s \in Slot : SlotUsedOnce(s)
  /\ \A a \in Lease : HoldsSlot(a) /\ DraftIsReviewed(a) /\ NodeFollows(a)
  /\ RowIsTold /\ PublishedWasReviewed

-----------------------------------------------------------------------------
(* TeachingRun: what a step leaves of the types.                           *)

Turn == [at : Place, node : Place \cup {"none", "stop"}, state : GraphState]
Row == [status : {"none", "running", "ready", "failed", "published", "revoked"},
        spent : BOOLEAN, text : BOOLEAN, sources : BOOLEAN, saved : GraphState]
SlotRow == [status : {"none", "started", "completed", "failed", "unknown"},
            attempt : 0..MaxLeases]

LEMMA TurnType ==
    ASSUME TeachingTypeOK, NEW a \in Lease
    PROVE  turn[a].at \in Place /\ turn[a].node \in Place \cup {"none", "stop"}
           /\ turn[a].state \in GraphState
BY DEF TeachingTypeOK

LEMMA BlankType == Blank \in GraphState /\ Away \in Turn
BY DEF Blank, Away, GraphState, Turn, Place, MaxReviewCalls, Slot

\* The graph changes its state field by field.
Kept(g, h) == h.draft = g.draft /\ h.report = g.report /\ h.slot = g.slot /\ h.reviews = g.reviews

LEMMA GraphUpdates ==
    ASSUME NEW g \in GraphState
    PROVE  /\ \A d \in {0, 1, 2} :
                LET h == [g EXCEPT !.draft = d] IN
                h \in GraphState /\ h.draft = d /\ h.report = g.report /\ h.slot = g.slot
           /\ \A b \in BOOLEAN :
                /\ [g EXCEPT !.codes = b] \in GraphState /\ Kept(g, [g EXCEPT !.codes = b])
                /\ [g EXCEPT !.repaired = b] \in GraphState /\ Kept(g, [g EXCEPT !.repaired = b])
           /\ \A r \in {"none", "passed", "blocked", "unreviewed"} :
                LET h == [g EXCEPT !.report = r] IN
                h \in GraphState /\ h.draft = g.draft /\ h.report = r /\ h.slot = g.slot
           /\ \A n \in 0..MaxReviewCalls :
                LET h == [g EXCEPT !.reviews = n] IN
                h \in GraphState /\ h.draft = g.draft /\ h.report = g.report /\ h.slot = g.slot
           /\ \A e \in {"no", "stopped", "completed"} :
                [g EXCEPT !.ended = e] \in GraphState /\ Kept(g, [g EXCEPT !.ended = e])
           /\ \A s \in Slot \cup {"none"} :
                LET h == [g EXCEPT !.slot = s] IN
                /\ h \in GraphState /\ h.draft = g.draft /\ h.report = g.report /\ h.slot = s
                /\ h.reviews = g.reviews
BY DEF GraphState, Kept

\* A walk moves one attempt and no other.
LEMMA WalkMoves ==
    ASSUME TeachingTypeOK, NEW a \in Lease, NEW place \in Place,
           NEW node \in Place \cup {"none", "stop"}, NEW g \in GraphState,
           Walk(a, place, node, g)
    PROVE  /\ turn' \in [Lease -> Turn]
           /\ turn'[a] = [at |-> place, node |-> node, state |-> g]
           /\ \A b \in Lease \ {a} : turn'[b] = turn[b]
<1>1. [at |-> place, node |-> node, state |-> g] \in Turn
  BY DEF Turn
<1>2. turn \in [Lease -> Turn]
  BY DEF TeachingTypeOK, Turn
<1> QED
  BY <1>1, <1>2 DEF Walk

\* A slot that is taken stays taken by the same attempt.
SlotsKept == \A s \in Slot : slots[s].status # "none" =>
               slots'[s].status # "none" /\ slots'[s].attempt = slots[s].attempt

LEMMA ClaimKeepsSlots ==
    ASSUME TeachingTypeOK, NEW a \in Lease, NEW s \in Slot, ClaimSlot(a, s)
    PROVE  /\ slots' \in [Slot -> SlotRow] /\ SlotsKept
           /\ slots[s].status = "none"
           /\ slots'[s].status = "started" /\ slots'[s].attempt = a
<1>1. a \in 0..MaxLeases
  BY TeachingAssumption DEF Lease
<1>2. slots \in [Slot -> SlotRow]
  BY DEF TeachingTypeOK, SlotRow
<1>3. [status |-> "started", attempt |-> a] \in SlotRow
  BY <1>1 DEF SlotRow
<1> QED
  BY <1>2, <1>3 DEF ClaimSlot, Occupy, SlotsKept

\* The end of a job closes the row and the slots of its last attempt.
LEMMA TerminateKeeps ==
    ASSUME TeachingTypeOK, Terminate
    PROVE  /\ quality' \in Row /\ slots' \in [Slot -> SlotRow] /\ SlotsKept
           /\ quality' = [quality EXCEPT !.status = quality'.status]
           /\ quality'.status = quality.status
              \/ (quality.status \in Live /\ quality'.status = "failed")
<1>1. quality \in Row /\ slots \in [Slot -> SlotRow]
  BY DEF TeachingTypeOK, Row, SlotRow
<1>2. /\ quality' \in Row
      /\ quality' = [quality EXCEPT !.status = quality'.status]
      /\ quality'.status = quality.status
         \/ (quality.status \in Live /\ quality'.status = "failed")
  BY <1>1 DEF Terminate, Row, Live
<1>3. slots' \in [Slot -> SlotRow]
  <2>1. \A s \in Slot : [slots[s] EXCEPT !.status = "unknown"] \in SlotRow
    BY <1>1 DEF SlotRow
  <2> QED
    BY <1>1, <2>1 DEF Terminate
<1>4. SlotsKept
  BY <1>1 DEF Terminate, SlotsKept, SlotRow
<1> QED
  BY <1>2, <1>3, <1>4

\* The state of the graph is saved without its slot, and the text with it.
LEMMA CheckpointSaves ==
    ASSUME TeachingTypeOK, NEW a \in Lease, NEW g \in GraphState,
           NEW next \in Place \cup {"stop"}, Checkpoint(a, g, next)
    PROVE  /\ quality' \in Row /\ slots' \in [Slot -> SlotRow] /\ SlotsKept
           /\ quality'.saved = [g EXCEPT !.slot = "none"]
           /\ quality'.text = (g.draft # 0) /\ quality'.sources = quality.sources
           /\ quality'.status \in {"running", "ready", "failed"}
           /\ ticket.status = "running"
           /\ turn' \in [Lease -> Turn]
           /\ turn'[a] = IF next = "stop" THEN [at |-> "failing", node |-> "none", state |-> Blank]
                         ELSE [at |-> next, node |-> "none", state |-> g]
           /\ \A b \in Lease \ {a} : turn'[b] = turn[b]
<1>1. quality \in Row /\ slots \in [Slot -> SlotRow]
  BY DEF TeachingTypeOK, Row, SlotRow
<1>2. [g EXCEPT !.slot = "none"] \in GraphState
  BY DEF GraphState
<1>3. /\ quality' \in Row
      /\ quality'.saved = [g EXCEPT !.slot = "none"]
      /\ quality'.text = (g.draft # 0) /\ quality'.sources = quality.sources
      /\ quality'.status \in {"running", "ready", "failed"}
  BY <1>1, <1>2 DEF Checkpoint, Row
<1>4. slots' \in [Slot -> SlotRow] /\ SlotsKept
  <2>1. CASE g.slot # "none" /\ slots[g.slot].status = "started"
    <3>1. g.slot \in Slot
      BY <2>1 DEF GraphState
    <3>2. PICK end \in {"completed", "failed"} :
            slots' = [slots EXCEPT ![g.slot] = [slots[g.slot] EXCEPT !.status = end]]
      BY <2>1 DEF Checkpoint
    <3>3. [slots[g.slot] EXCEPT !.status = end] \in SlotRow
      BY <1>1, <3>1 DEF SlotRow
    <3> QED
      BY <1>1, <3>1, <3>2, <3>3 DEF SlotsKept, SlotRow
  <2>2. CASE ~(g.slot # "none" /\ slots[g.slot].status = "started")
    BY <1>1, <2>2 DEF Checkpoint, SlotsKept
  <2> QED
    BY <2>1, <2>2
<1>5. ticket.status = "running"
  BY DEF Checkpoint, Writable, Permitted, Leased
<1>6. CASE next = "stop"
  <2>1. Walk(a, "failing", "none", Blank)
    BY <1>6 DEF Checkpoint, Abandon
  <2>2. "failing" \in Place
    BY DEF Place
  <2> QED
    BY <1>3, <1>4, <1>5, <1>6, <2>1, <2>2, BlankType, WalkMoves
<1>7. CASE next # "stop"
  <2>1. Walk(a, next, "none", g) /\ next \in Place
    BY <1>7 DEF Checkpoint
  <2> QED
    BY <1>3, <1>4, <1>5, <1>7, <2>1, WalkMoves
<1> QED
  BY <1>6, <1>7

\* The type of the rest, for the steps that leave it alone.
LEMMA TeachingTypeParts ==
    ASSUME guided' \in BOOLEAN,
           ticket' \in [status : {"pending", "running", "completed", "failed"},
                        attempt : 0..MaxLeases, leased : BOOLEAN],
           material' \in {"granted", "revoked", "purged"},
           quality' \in Row, slots' \in [Slot -> SlotRow], turn' \in [Lease -> Turn],
           asked' \in [Slot -> Nat], approved' \subseteq 0..2
    PROVE  TeachingTypeOK'
BY DEF TeachingTypeOK, Row, SlotRow, Turn

LEMMA TeachingTypeFacts ==
    ASSUME TeachingTypeOK
    PROVE  /\ quality \in Row /\ quality.saved \in GraphState
           /\ slots \in [Slot -> SlotRow] /\ turn \in [Lease -> Turn]
BY DEF TeachingTypeOK, Row, SlotRow, Turn

\* A call counts one more request of the slot.
LEMMA AskType ==
    ASSUME TeachingTypeOK, NEW s \in Slot \cup {"none"}, asked' = [asked EXCEPT ![s] = @ + 1]
    PROVE  asked' \in [Slot -> Nat]
<1>1. CASE s \in Slot
  BY <1>1 DEF TeachingTypeOK
<1>2. CASE s \notin Slot
  BY <1>2 DEF TeachingTypeOK
<1> QED
  BY <1>1, <1>2

\* The checks of a program keep the report, and a draft that fails them is none.
LEMMA ValidateSaves ==
    ASSUME TeachingTypeOK, NEW a \in Lease, Validate(a)
    PROVE  \E h \in GraphState, next \in {"stop", "repair", "finish", "recheck", "review"} :
             /\ Checkpoint(a, h, next)
             /\ h.report = turn[a].state.report
             /\ h.draft = turn[a].state.draft \/ h.report = "none"
             /\ next \in {"review", "recheck"} => h.draft # 0
<1> DEFINE g == turn[a].state
<1>1. g \in GraphState
  BY TurnType
<1>2. PICK valid \in BOOLEAN, mayRepair \in BOOLEAN :
        LET h == IF valid THEN g ELSE [g EXCEPT !.draft = 0, !.codes = TRUE]
            next == RouteAfterChecks(h, turn[a].at = "revalidate", mayRepair) IN
          /\ g.draft = 0 \/ g.report # "none" \/ g.ended # "no" => valid
          /\ Checkpoint(a, IF next = "stop" THEN Stopped(h) ELSE h, next)
  BY <1>1 DEF Validate
<1> DEFINE h1 == [g EXCEPT !.draft = 0]
           h2 == [h1 EXCEPT !.codes = TRUE]
           h == IF valid THEN g ELSE h2
           next == RouteAfterChecks(h, turn[a].at = "revalidate", mayRepair)
           last == IF next = "stop" THEN Stopped(h) ELSE h
<1>3. Checkpoint(a, last, next) /\ (g.report # "none" => valid)
  BY <1>2
<1>4. h \in GraphState /\ h.report = g.report /\ (h.draft = g.draft \/ h.report = "none")
  <2> HIDE DEF next, last, g
  <2>1. h1 \in GraphState /\ h1.report = g.report
    BY <1>1, GraphUpdates DEF GraphState
  <2> HIDE DEF h1
  <2>2. h2 \in GraphState
    BY <2>1, GraphUpdates
  <2>3. h2.report = g.report
    BY <2>1 DEF GraphState
  <2> HIDE DEF h2
  <2> QED
    BY <1>1, <1>3, <2>2, <2>3
<1> HIDE DEF h
<1>5. /\ next \in {"stop", "repair", "finish", "recheck", "review"}
      /\ next \in {"review", "recheck"} => h.draft # 0
  BY DEF RouteAfterChecks, RouteAfterReview
<1>6. /\ last \in GraphState /\ last.report = h.report /\ last.draft = h.draft
  BY <1>4 DEF Stopped, GraphState
<1> HIDE DEF last, next
<1> QED
  BY <1>3, <1>4, <1>5, <1>6

\* The reviewer's verdict is on the draft that it was asked about.
LEMMA ReviewerAnswers ==
    ASSUME TeachingTypeOK, NEW a \in Lease, CallReviewer(a)
    PROVE  \E h \in GraphState, next \in {"stop", "repair", "finish"} :
             /\ Walk(a, "save", next, h)
             /\ h.draft = turn[a].state.draft
             /\ approved' = IF h.report = "passed" THEN approved \cup {h.draft} ELSE approved
<1>1. PICK report \in {"passed", "blocked", "unreviewed"}, mayRepair \in BOOLEAN :
        LET t == turn[a]
            g == [t.state EXCEPT !.report = report, !.blocking = @ \/ report = "blocked"]
            next == RouteAfterReview(g, mayRepair /\ t.node # "recheck") IN
        /\ approved' = IF report = "passed" THEN approved \cup {g.draft} ELSE approved
        /\ Walk(a, "save", next, IF next = "stop" THEN Stopped(g) ELSE g)
  BY DEF CallReviewer
<1> DEFINE g == [turn[a].state EXCEPT !.report = report, !.blocking = @ \/ report = "blocked"]
           next == RouteAfterReview(g, mayRepair /\ turn[a].node # "recheck")
           h == IF next = "stop" THEN Stopped(g) ELSE g
<1>2. g \in GraphState /\ g.draft = turn[a].state.draft /\ g.report = report
  BY TurnType DEF GraphState
<1>3. next \in {"stop", "repair", "finish"}
  BY DEF RouteAfterReview
<1>4. /\ approved' = IF report = "passed" THEN approved \cup {g.draft} ELSE approved
      /\ Walk(a, "save", next, h)
  BY <1>1
<1> HIDE DEF g, next
<1>5. h \in GraphState /\ h.draft = g.draft /\ h.report = g.report
  BY <1>2 DEF Stopped, GraphState
<1> QED
  BY <1>2, <1>3, <1>4, <1>5

LEMMA TeachingTypeStep ==
    ASSUME TeachingTypeOK, \A a \in Lease : NodeFollows(a), [TeachingNext]_teachingVars
    PROVE  TeachingTypeOK'
<1> USE TeachingTypeFacts, TeachingTypeParts
<1>1. CASE UNCHANGED teachingVars
  BY <1>1 DEF teachingVars, TeachingTypeOK
<1>2. CASE TakeTicket
  <2> DEFINE a == ticket.attempt + 1
  <2>1. a \in Lease /\ a \in 0..MaxLeases
    BY <1>2, TeachingAssumption DEF TakeTicket, TeachingTypeOK, Lease
  <2>2. turn' = [turn EXCEPT ![a] = [turn[a] EXCEPT !.at = "load"]]
    BY <1>2, <2>1 DEF TakeTicket
  <2>3. [turn[a] EXCEPT !.at = "load"] \in Turn
    BY <2>1 DEF Turn, Place
  <2>4. ticket' \in [status : {"pending", "running", "completed", "failed"},
                     attempt : 0..MaxLeases, leased : BOOLEAN]
    BY <1>2, <2>1 DEF TakeTicket
  <2> HIDE DEF a
  <2>5. turn' \in [Lease -> Turn]
    BY <2>1, <2>2, <2>3
  <2> QED
    BY <1>2, <2>4, <2>5 DEF TakeTicket, TeachingTypeOK
<1>3. CASE LoseTicket \/ EndTicket
  BY <1>3 DEF LoseTicket, EndTicket, TeachingTypeOK
<1>4. CASE ReconcileTeaching \/ CancelTeaching
  BY <1>4, TerminateKeeps DEF ReconcileTeaching, CancelTeaching, TeachingTypeOK
<1>5. ASSUME NEW a \in Lease, LoadMaterial(a) \/ BeginRun(a) \/ RaiseTurn(a)
      PROVE  TeachingTypeOK'
  <2>1. {"start", "insert", "failing", "stopped"} \subseteq Place
    BY DEF Place
  <2>2. PICK place \in Place : Walk(a, place, "none", Blank)
    BY <1>5, <2>1 DEF LoadMaterial, BeginRun, RaiseTurn, Abandon
  <2>3. turn' \in [Lease -> Turn]
    BY <2>2, BlankType, WalkMoves
  <2> QED
    BY <1>5, <2>3 DEF LoadMaterial, BeginRun, RaiseTurn, TeachingTypeOK
<1>6. ASSUME NEW a \in Lease, StartRun(a) PROVE TeachingTypeOK'
  <2>1. CASE quality.status = "none"
    <3>1. /\ quality' = [quality EXCEPT !.status = "running", !.sources = TRUE]
          /\ Walk(a, "generate", "none", Blank)
      BY <1>6, <2>1 DEF StartRun
    <3>2. quality' \in Row
      BY <3>1 DEF Row
    <3>3. turn' \in [Lease -> Turn]
      BY <3>1, BlankType, WalkMoves DEF Place
    <3> QED
      BY <1>6, <3>2, <3>3 DEF StartRun, TeachingTypeOK
  <2>2. CASE quality.status # "none"
    <3> DEFINE g == [quality.saved EXCEPT !.draft = IF quality.text THEN @ ELSE 0]
    <3>1. Walk(a, Entry(g), "none", g) /\ quality' = quality
      BY <1>6, <2>2 DEF StartRun
    <3>2. g \in GraphState
      BY DEF GraphState
    <3>3. Entry(g) \in Place
      BY DEF Entry, Place
    <3> HIDE DEF g
    <3>4. turn' \in [Lease -> Turn]
      BY <3>1, <3>2, <3>3, WalkMoves
    <3> QED
      BY <1>6, <3>1, <3>4 DEF StartRun, TeachingTypeOK
  <2> QED
    BY <2>1, <2>2
<1>7. ASSUME NEW a \in Lease, ClaimDraft(a) PROVE TeachingTypeOK'
  <2> DEFINE g == [turn[a].state EXCEPT !.slot = "initial"]
  <2>1. ClaimSlot(a, "initial") /\ Walk(a, "draft", "validate", g)
    BY <1>7 DEF ClaimDraft
  <2>2. g \in GraphState /\ "initial" \in Slot
    BY TurnType DEF GraphState, Slot
  <2> HIDE DEF g
  <2>3. turn' \in [Lease -> Turn]
    BY <2>1, <2>2, WalkMoves DEF Place
  <2> QED
    BY <1>7, <2>1, <2>2, <2>3, ClaimKeepsSlots DEF ClaimDraft, TeachingTypeOK
<1>8. ASSUME NEW a \in Lease, ClaimRepair(a) PROVE TeachingTypeOK'
  <2>1. CASE Walk(a, "revalidate", "none", Stopped(turn[a].state)) /\ UNCHANGED <<quality, slots>>
    <3>1. Stopped(turn[a].state) \in GraphState
      BY TurnType DEF Stopped, GraphState
    <3>2. turn' \in [Lease -> Turn]
      BY <2>1, <3>1, WalkMoves DEF Place
    <3> QED
      BY <1>8, <2>1, <3>2 DEF ClaimRepair, TeachingTypeOK
  <2>2. CASE ~(Walk(a, "revalidate", "none", Stopped(turn[a].state)) /\ UNCHANGED <<quality, slots>>)
    <3> DEFINE g1 == [turn[a].state EXCEPT !.slot = "repair"]
               g2 == [g1 EXCEPT !.repaired = TRUE]
               g3 == [g2 EXCEPT !.draft = 0]
               g4 == [g3 EXCEPT !.report = "none"]
               g == [g4 EXCEPT !.codes = FALSE]
    <3>1. ClaimSlot(a, "repair") /\ Walk(a, "draft", "revalidate", g)
          /\ quality' = [quality EXCEPT !.spent = TRUE]
      BY <1>8, <2>2 DEF ClaimRepair
    <3>2. "repair" \in Slot
      BY DEF Slot
    <3>3. g \in GraphState
      <4>1. g1 \in GraphState
        BY <3>2, TurnType, GraphUpdates
      <4> HIDE DEF g1
      <4>2. g2 \in GraphState
        BY <4>1, GraphUpdates
      <4> HIDE DEF g2
      <4>3. g3 \in GraphState
        BY <4>2, GraphUpdates
      <4> HIDE DEF g3
      <4>4. g4 \in GraphState
        BY <4>3, GraphUpdates
      <4> HIDE DEF g4
      <4> QED
        BY <4>4, GraphUpdates
    <3> HIDE DEF g
    <3>4. turn' \in [Lease -> Turn]
      BY <3>1, <3>3, WalkMoves DEF Place
    <3>5. quality' \in Row
      BY <3>1 DEF Row
    <3> QED
      BY <1>8, <3>1, <3>2, <3>4, <3>5, ClaimKeepsSlots DEF ClaimRepair, TeachingTypeOK
  <2> QED
    BY <2>1, <2>2
<1>9. ASSUME NEW a \in Lease, CallTeacher(a) PROVE TeachingTypeOK'
  <2> DEFINE g == turn[a].state
  <2>1. g \in GraphState /\ g.slot \in Slot \cup {"none"}
    BY TurnType DEF GraphState
  <2>2. asked' \in [Slot -> Nat]
    BY <1>9, <2>1, AskType DEF CallTeacher
  <2>3. turn' \in [Lease -> Turn]
    <3>1. /\ [g EXCEPT !.draft = 2] \in GraphState /\ [g EXCEPT !.draft = 1] \in GraphState
          /\ [g EXCEPT !.codes = TRUE] \in GraphState
      BY <2>1, GraphUpdates
    <3>2. PICK place \in Place, node \in Place \cup {"none", "stop"}, h \in GraphState :
            Walk(a, place, node, h)
      BY <1>9, <3>1, TurnType, BlankType DEF CallTeacher, Abandon, Place
    <3> QED
      BY <3>2, WalkMoves
  <2> QED
    BY <1>9, <2>2, <2>3 DEF CallTeacher, TeachingTypeOK
<1>10. ASSUME NEW a \in Lease, NEW g \in GraphState, NEW next \in Place \cup {"stop"},
              Checkpoint(a, g, next), UNCHANGED <<guided, ticket, material, asked, approved>>
       PROVE  TeachingTypeOK'
  BY <1>10, CheckpointSaves DEF TeachingTypeOK
<1>11. ASSUME NEW a \in Lease, SaveTurn(a) PROVE TeachingTypeOK'
  <2>1. turn[a].node \in Place \cup {"stop"}
    BY <1>11 DEF SaveTurn, NodeFollows, Place
  <2> QED
    BY <1>10, <1>11, <2>1, TurnType DEF SaveTurn
<1>12. ASSUME NEW a \in Lease, Validate(a) PROVE TeachingTypeOK'
  BY <1>10, <1>12, ValidateSaves DEF Validate, Place
<1>13. ASSUME NEW a \in Lease, ClaimReview(a) PROVE TeachingTypeOK'
  <2> DEFINE g == turn[a].state
             s == IF g.reviews = 0 THEN "review_initial" ELSE "review_recheck"
             h == [g EXCEPT !.slot = s, !.reviews = @ + 1]
             u == Stopped([g EXCEPT !.report = "unreviewed"])
  <2>1. g \in GraphState /\ turn[a].at \in Place
    BY TurnType
  <2>2. CASE Checkpoint(a, u, "stop")
    <3>1. u \in GraphState
      BY <2>1 DEF GraphState, Stopped
    <3> HIDE DEF u
    <3> QED
      BY <1>10, <1>13, <2>2, <3>1 DEF ClaimReview
  <2>3. CASE ~Checkpoint(a, u, "stop")
    <3>1. /\ g.reviews < MaxReviewCalls /\ ClaimSlot(a, s)
          /\ Walk(a, "ask", turn[a].at, h) /\ quality' = quality
      BY <1>13, <2>3 DEF ClaimReview
    <3>2. s \in Slot
      BY DEF Slot
    <3> HIDE DEF s
    <3>3. g.reviews + 1 \in 0..MaxReviewCalls
      BY <2>1, <3>1 DEF GraphState, MaxReviewCalls
    <3>4. h \in GraphState
      BY <2>1, <3>2, <3>3 DEF GraphState
    <3> HIDE DEF h
    <3>5. turn' \in [Lease -> Turn]
      BY <2>1, <3>1, <3>4, WalkMoves DEF Place
    <3> QED
      BY <1>13, <3>1, <3>2, <3>5, ClaimKeepsSlots DEF ClaimReview, TeachingTypeOK
  <2> QED
    BY <2>2, <2>3
<1>14. ASSUME NEW a \in Lease, CallReviewer(a) PROVE TeachingTypeOK'
  <2> DEFINE g == turn[a].state
  <2>1. g \in GraphState /\ g.slot \in Slot \cup {"none"}
    BY TurnType DEF GraphState
  <2>2. asked' \in [Slot -> Nat]
    BY <1>14, <2>1, AskType DEF CallReviewer, TeachingTypeOK
  <2>3. turn' \in [Lease -> Turn]
    BY <1>14, ReviewerAnswers, WalkMoves DEF Place
  <2>4. approved' \subseteq 0..2
    <3>1. approved' = approved \/ approved' = approved \cup {g.draft}
      BY <1>14, ReviewerAnswers
    <3>2. g.draft \in 0..2 /\ approved \subseteq 0..2
      BY <2>1 DEF TeachingTypeOK, GraphState
    <3> QED
      BY <3>1, <3>2
  <2> QED
    BY <1>14, <2>2, <2>3, <2>4 DEF CallReviewer, TeachingTypeOK
<1>15. ASSUME NEW a \in Lease, Finish(a) PROVE TeachingTypeOK'
  <2>1. [turn[a].state EXCEPT !.ended = "completed", !.slot = "none"] \in GraphState
    BY TurnType DEF GraphState
  <2> QED
    BY <1>10, <1>15, <2>1 DEF Finish, Place
<1>16. ASSUME NEW a \in Lease, PublishDraft(a) \/ LeaveTurn(a) \/ CrashTurn(a)
       PROVE  TeachingTypeOK'
  <2>1. turn' = [turn EXCEPT ![a] = Away] /\ UNCHANGED <<guided, material, slots, asked, approved>>
    BY <1>16 DEF PublishDraft, LeaveTurn, CrashTurn
  <2>2. quality' \in Row
    BY <1>16 DEF PublishDraft, LeaveTurn, CrashTurn, Row
  <2>3. ticket' \in [status : {"pending", "running", "completed", "failed"},
                     attempt : 0..MaxLeases, leased : BOOLEAN]
    BY <1>16 DEF PublishDraft, LeaveTurn, CrashTurn, TeachingTypeOK
  <2> QED
    BY <2>1, <2>2, <2>3, BlankType DEF TeachingTypeOK
<1>17. CASE RevokeMaterial \/ SweepDraft
  <2>1. quality' \in Row
    BY <1>17 DEF RevokeMaterial, SweepDraft, Row
  <2> QED
    BY <1>17, <2>1 DEF RevokeMaterial, SweepDraft, TeachingTypeOK
<1>18. CASE PurgeMaterial
  <2>1. [quality.saved EXCEPT !.report = "none"] \in GraphState
    BY DEF GraphState
  <2>2. quality' \in Row
    BY <1>18, <2>1 DEF PurgeMaterial, Row
  <2> QED
    BY <1>18, <2>2 DEF PurgeMaterial, TeachingTypeOK
<1> QED
  BY <1>1, <1>2, <1>3, <1>4, <1>5, <1>6, <1>7, <1>8, <1>9, <1>11, <1>12, <1>13, <1>14,
     <1>15, <1>16, <1>17, <1>18 DEF TeachingNext

-----------------------------------------------------------------------------
(* TeachingRun: each step keeps the invariant.                             *)

\* A step of attempt a leaves the other attempts as they were: their slots stay
\* theirs, unasked, and the drafts they carry stay approved.
LEMMA TurnStep ==
    ASSUME TeachingInv, TeachingTypeOK', NEW a \in Lease, SlotsKept, approved \subseteq approved',
           \A b \in Lease \ {a} : turn'[b] = turn[b],
           \A s \in Slot : \/ asked'[s] = asked[s]
                           \/ /\ slots[s].attempt = a /\ slots[s].status # "none"
                              /\ asked[s] = 0 /\ asked'[s] = 1,
           HoldsSlot(a)', DraftIsReviewed(a)', NodeFollows(a)', RowIsTold', PublishedWasReviewed'
    PROVE  TeachingInv'
<1>1. ASSUME NEW s \in Slot PROVE SlotUsedOnce(s)'
  <2>1. SlotUsedOnce(s)
    BY DEF TeachingInv
  <2> QED
    BY <2>1 DEF SlotUsedOnce, SlotsKept
<1>2. ASSUME NEW b \in Lease PROVE (HoldsSlot(b) /\ DraftIsReviewed(b) /\ NodeFollows(b))'
  <2>1. CASE b = a
    BY <2>1
  <2>2. CASE b # a
    <3>1. turn'[b] = turn[b] /\ HoldsSlot(b) /\ DraftIsReviewed(b) /\ NodeFollows(b)
      BY <2>2 DEF TeachingInv
    <3>2. HoldsSlot(b)'
      <4> SUFFICES ASSUME turn[b].at \in {"draft", "ask"}
                   PROVE  LET s == turn[b].state.slot IN
                          s \in Slot /\ slots'[s].status # "none" /\ slots'[s].attempt = b
                          /\ asked'[s] = 0
        BY <3>1 DEF HoldsSlot
      <4> DEFINE s == turn[b].state.slot
      <4>1. s \in Slot /\ slots[s].status # "none" /\ slots[s].attempt = b /\ asked[s] = 0
        BY <3>1 DEF HoldsSlot
      <4> HIDE DEF s
      <4>2. slots'[s].status # "none" /\ slots'[s].attempt = b /\ asked'[s] = 0
        BY <2>2, <4>1 DEF SlotsKept
      <4> QED
        BY <4>1, <4>2 DEF s
    <3>3. DraftIsReviewed(b)' /\ NodeFollows(b)'
      BY <3>1 DEF DraftIsReviewed, NodeFollows
    <3> QED
      BY <3>2, <3>3
  <2> QED
    BY <2>1, <2>2
<1> QED
  BY <1>1, <1>2 DEF TeachingInv

\* The queue, the removal and the sweeps do not touch the attempts.
LEMMA RestStep ==
    ASSUME TeachingInv, TeachingTypeOK', SlotsKept, UNCHANGED <<turn, asked, approved>>,
           RowIsTold', PublishedWasReviewed'
    PROVE  TeachingInv'
<1>1. ASSUME NEW s \in Slot PROVE SlotUsedOnce(s)'
  BY DEF TeachingInv, SlotUsedOnce, SlotsKept
<1>2. ASSUME NEW a \in Lease PROVE (HoldsSlot(a) /\ DraftIsReviewed(a) /\ NodeFollows(a))'
  <2>1. HoldsSlot(a) /\ DraftIsReviewed(a) /\ NodeFollows(a)
    BY DEF TeachingInv
  <2>2. HoldsSlot(a)'
    <3> SUFFICES ASSUME turn[a].at \in {"draft", "ask"}
                 PROVE  LET s == turn[a].state.slot IN
                        s \in Slot /\ slots'[s].status # "none" /\ slots'[s].attempt = a
                        /\ asked'[s] = 0
      BY DEF HoldsSlot
    <3> DEFINE s == turn[a].state.slot
    <3>1. s \in Slot /\ slots[s].status # "none" /\ slots[s].attempt = a /\ asked[s] = 0
      BY <2>1 DEF HoldsSlot
    <3> HIDE DEF s
    <3>2. slots'[s].status # "none" /\ slots'[s].attempt = a /\ asked'[s] = 0
      BY <3>1 DEF SlotsKept
    <3> QED
      BY <3>1, <3>2 DEF s
  <2> QED
    BY <2>1, <2>2 DEF DraftIsReviewed, NodeFollows
<1> QED
  BY <1>1, <1>2 DEF TeachingInv

\* What is saved is as true of its draft as the state that an attempt carries.
LEMMA CheckpointStep ==
    ASSUME TeachingInv, TeachingTypeOK', NEW a \in Lease, NEW g \in GraphState,
           NEW next \in Place \cup {"stop"}, next \notin {"generate", "draft", "ask", "save"},
           Checkpoint(a, g, next), UNCHANGED <<guided, ticket, material, asked, approved>>,
           g.report = "passed" => g.draft \in approved,
           next \in {"review", "recheck"} => g.draft # 0
    PROVE  TeachingInv'
<1>1. /\ SlotsKept
      /\ quality'.saved = [g EXCEPT !.slot = "none"]
      /\ quality'.text = (g.draft # 0) /\ quality'.sources = quality.sources
      /\ quality'.status \in {"running", "ready", "failed"}
      /\ ticket.status = "running"
      /\ turn'[a] = IF next = "stop" THEN [at |-> "failing", node |-> "none", state |-> Blank]
                    ELSE [at |-> next, node |-> "none", state |-> g]
      /\ \A b \in Lease \ {a} : turn'[b] = turn[b]
  BY CheckpointSaves DEF TeachingInv
<1>2. quality'.saved.draft = g.draft /\ quality'.saved.report = g.report
  BY <1>1 DEF GraphState
<1>3. RowIsTold'
  BY <1>1, <1>2 DEF RowIsTold, TeachingInv
<1>4. PublishedWasReviewed'
  BY <1>1, <1>2 DEF PublishedWasReviewed
<1>5. HoldsSlot(a)' /\ DraftIsReviewed(a)' /\ NodeFollows(a)'
  <2>1. CASE next = "stop"
    BY <1>1, <2>1 DEF HoldsSlot, DraftIsReviewed, NodeFollows, Blank
  <2>2. CASE next # "stop"
    BY <1>1, <2>2 DEF HoldsSlot, DraftIsReviewed, NodeFollows
  <2> QED
    BY <2>1, <2>2
<1> QED
  BY <1>1, <1>3, <1>4, <1>5, TurnStep

\* An attempt that goes where nothing is asked, with nothing in hand.
LEMMA BlankStep ==
    ASSUME TeachingInv, TeachingTypeOK', NEW a \in Lease, SlotsKept, UNCHANGED <<asked, approved>>,
           \A b \in Lease \ {a} : turn'[b] = turn[b],
           turn'[a].state = Blank, turn'[a].at \notin {"draft", "ask", "save", "review", "recheck"},
           RowIsTold', PublishedWasReviewed'
    PROVE  TeachingInv'
<1>1. HoldsSlot(a)' /\ DraftIsReviewed(a)' /\ NodeFollows(a)'
  BY DEF HoldsSlot, DraftIsReviewed, NodeFollows, Blank
<1> QED
  BY <1>1, TurnStep

LEMMA TeachingStep ==
    ASSUME TeachingInv, [TeachingNext]_teachingVars
    PROVE  TeachingInv'
<1>1. TeachingTypeOK'
  BY TeachingTypeStep DEF TeachingInv
<1>2. TeachingTypeOK /\ RowIsTold /\ PublishedWasReviewed
  BY DEF TeachingInv
<1>3. slots' = slots => SlotsKept
  BY DEF SlotsKept
<1>4. UNCHANGED <<guided, ticket, quality, approved>> => RowIsTold' /\ PublishedWasReviewed'
  BY <1>2 DEF RowIsTold, PublishedWasReviewed
<1>5. CASE UNCHANGED teachingVars
  BY <1>1, <1>3, <1>4, <1>5, RestStep DEF teachingVars
<1>6. CASE TakeTicket
  <2>1. PICK a \in Lease : a = ticket.attempt + 1
    BY <1>2, <1>6, TeachingAssumption DEF TakeTicket, TeachingTypeOK, Lease
  <2>2. turn' = [turn EXCEPT ![a] = [turn[a] EXCEPT !.at = "load"]]
    BY <1>6, <2>1 DEF TakeTicket
  <2>3. /\ turn'[a].at = "load" /\ turn'[a].state = turn[a].state
        /\ \A b \in Lease \ {a} : turn'[b] = turn[b]
    BY <1>2, <2>1, <2>2 DEF TeachingTypeOK
  <2>4. DraftIsReviewed(a)
    BY <2>1 DEF TeachingInv
  <2>5. UNCHANGED <<guided, material, quality, slots, asked, approved>> /\ ticket'.status = "running"
    BY <1>6 DEF TakeTicket
  <2>6. RowIsTold' /\ PublishedWasReviewed'
    BY <1>2, <2>5 DEF RowIsTold, PublishedWasReviewed
  <2>7. HoldsSlot(a)' /\ DraftIsReviewed(a)' /\ NodeFollows(a)'
    BY <2>3, <2>4, <2>5 DEF HoldsSlot, DraftIsReviewed, NodeFollows
  <2> QED
    BY <1>1, <1>3, <2>1, <2>3, <2>5, <2>6, <2>7, TurnStep
<1>7. CASE LoseTicket \/ EndTicket
  <2>1. /\ UNCHANGED <<guided, material, quality, slots, turn, asked, approved>>
        /\ ticket'.status = ticket.status \/ ticket'.status = "failed"
    BY <1>2, <1>7 DEF LoseTicket, EndTicket, TeachingTypeOK
  <2>2. RowIsTold' /\ PublishedWasReviewed'
    BY <1>2, <2>1 DEF RowIsTold, PublishedWasReviewed
  <2> QED
    BY <1>1, <1>3, <2>1, <2>2, RestStep
<1>8. CASE ReconcileTeaching \/ CancelTeaching
  <2>1. /\ UNCHANGED <<guided, material, turn, asked, approved>> /\ Terminate
        /\ ticket'.status = "failed"
    BY <1>2, <1>8 DEF ReconcileTeaching, CancelTeaching, TeachingTypeOK
  <2>2. /\ SlotsKept
        /\ quality'.saved = quality.saved /\ quality'.text = quality.text
        /\ quality'.sources = quality.sources
        /\ quality'.status = quality.status \/ quality'.status = "failed"
    BY <1>2, <2>1, TerminateKeeps DEF Terminate, TeachingTypeOK
  <2>3. RowIsTold' /\ PublishedWasReviewed'
    BY <1>2, <2>1, <2>2 DEF RowIsTold, PublishedWasReviewed
  <2> QED
    BY <1>1, <2>1, <2>2, <2>3, RestStep
<1>9. ASSUME NEW a \in Lease, LoadMaterial(a) \/ BeginRun(a) \/ RaiseTurn(a) PROVE TeachingInv'
  <2>1. {"start", "insert", "failing", "stopped"} \subseteq Place
    BY DEF Place
  <2>2. PICK place \in {"start", "insert", "failing", "stopped"} : Walk(a, place, "none", Blank)
    BY <1>9 DEF LoadMaterial, BeginRun, RaiseTurn, Abandon
  <2>3. UNCHANGED <<guided, ticket, material, quality, slots, asked, approved>>
    BY <1>9 DEF LoadMaterial, BeginRun, RaiseTurn
  <2>4. turn'[a] = [at |-> place, node |-> "none", state |-> Blank]
        /\ \A b \in Lease \ {a} : turn'[b] = turn[b]
    BY <1>2, <2>1, <2>2, BlankType, WalkMoves
  <2>5. turn'[a].at = place /\ turn'[a].state = Blank
    BY <2>4
  <2> QED
    BY <1>1, <1>3, <1>4, <2>3, <2>4, <2>5, BlankStep
<1>10. ASSUME NEW a \in Lease, StartRun(a) PROVE TeachingInv'
  <2>1. /\ UNCHANGED <<guided, ticket, material, slots, asked, approved>>
        /\ ticket.status = "running"
    BY <1>10 DEF StartRun
  <2>2. CASE quality.status = "none"
    <3>1. /\ quality' = [quality EXCEPT !.status = "running", !.sources = TRUE]
          /\ Walk(a, "generate", "none", Blank)
      BY <1>10, <2>2 DEF StartRun
    <3>2. "generate" \in Place
      BY DEF Place
    <3>3. turn'[a] = [at |-> "generate", node |-> "none", state |-> Blank]
          /\ \A b \in Lease \ {a} : turn'[b] = turn[b]
      BY <1>2, <3>1, <3>2, BlankType, WalkMoves
    <3>4. turn'[a].state = Blank /\ turn'[a].at = "generate"
      BY <3>3
    <3>5. /\ quality'.status = "running" /\ quality'.saved = quality.saved
          /\ quality'.text = quality.text /\ quality.text \in BOOLEAN
      BY <1>2, <3>1 DEF TeachingTypeOK
    <3>6. quality'.text = FALSE /\ quality'.saved.draft = 0 /\ 0 \notin approved
      BY <1>2, <2>2, <3>5 DEF RowIsTold
    <3>7. RowIsTold'
      BY <2>1, <3>5, <3>6 DEF RowIsTold
    <3>8. PublishedWasReviewed'
      BY <1>2, <2>1, <3>5 DEF PublishedWasReviewed
    <3> QED
      BY <1>1, <1>3, <2>1, <3>3, <3>4, <3>7, <3>8, BlankStep
  <2>3. CASE quality.status # "none"
    <3> DEFINE g == [quality.saved EXCEPT !.draft = IF quality.text THEN @ ELSE 0]
    <3>1. Walk(a, Entry(g), "none", g) /\ quality' = quality /\ quality.sources
      BY <1>10, <2>3 DEF StartRun
    <3>2. quality.saved \in GraphState
      BY <1>2, TeachingTypeFacts
    <3>3. /\ g \in GraphState /\ g.report = quality.saved.report
          /\ g.draft = IF quality.text THEN quality.saved.draft ELSE 0
      BY <3>2 DEF GraphState
    <3>4. g.report = "passed" => g.draft \in approved
      BY <1>2, <3>1, <3>3 DEF RowIsTold, PublishedWasReviewed
    <3>5. /\ Entry(g) \in {"validate", "generate"}
          /\ Entry(g) = "generate" => g.draft = 0
      BY DEF Entry
    <3> HIDE DEF g
    <3>6. {"validate", "generate"} \subseteq Place
      BY DEF Place
    <3>7. turn'[a] = [at |-> Entry(g), node |-> "none", state |-> g]
          /\ \A b \in Lease \ {a} : turn'[b] = turn[b]
      BY <1>2, <3>1, <3>3, <3>5, <3>6, WalkMoves
    <3>8. HoldsSlot(a)' /\ DraftIsReviewed(a)' /\ NodeFollows(a)'
      BY <1>2, <2>1, <3>4, <3>5, <3>7 DEF HoldsSlot, DraftIsReviewed, NodeFollows, RowIsTold
    <3> QED
      BY <1>1, <1>3, <1>4, <2>1, <3>1, <3>7, <3>8, TurnStep
  <2> QED
    BY <2>2, <2>3
<1>11. ASSUME NEW a \in Lease, NEW s \in Slot, NEW place \in {"draft", "ask"},
              NEW node \in {"validate", "revalidate", "review", "recheck"}, NEW g \in GraphState,
              ClaimSlot(a, s), Walk(a, place, node, g), g.slot = s,
              g.report = "passed" => g.draft \in approved,
              place = "draft" => g.report # "passed" /\ node \in {"validate", "revalidate"},
              place = "ask" => g.draft # 0 /\ node \in {"review", "recheck"},
              UNCHANGED <<asked, approved>>, RowIsTold', PublishedWasReviewed'
       PROVE  TeachingInv'
  <2>1. /\ SlotsKept /\ slots[s].status = "none"
        /\ slots'[s].status = "started" /\ slots'[s].attempt = a
    BY <1>2, <1>11, ClaimKeepsSlots
  <2>2. place \in Place /\ node \in Place
    BY DEF Place
  <2>3. turn'[a] = [at |-> place, node |-> node, state |-> g]
        /\ \A b \in Lease \ {a} : turn'[b] = turn[b]
    BY <1>2, <1>11, <2>2, WalkMoves
  <2>4. asked[s] = 0
    BY <2>1 DEF TeachingInv, SlotUsedOnce
  <2>5. HoldsSlot(a)'
    <3>1. turn'[a].state.slot = s
      BY <1>11, <2>3
    <3> QED
      BY <1>11, <2>1, <2>4, <3>1 DEF HoldsSlot
  <2>6. DraftIsReviewed(a)' /\ NodeFollows(a)'
    BY <1>11, <2>3 DEF DraftIsReviewed, NodeFollows
  <2> QED
    BY <1>1, <1>11, <2>1, <2>3, <2>5, <2>6, TurnStep
<1>12. ASSUME NEW a \in Lease, ClaimDraft(a) PROVE TeachingInv'
  <2> DEFINE g == [turn[a].state EXCEPT !.slot = "initial"]
  <2>1. /\ ClaimSlot(a, "initial") /\ Walk(a, "draft", "validate", g)
        /\ UNCHANGED <<guided, ticket, material, quality, asked, approved>>
        /\ turn[a].at = "generate"
    BY <1>12 DEF ClaimDraft
  <2>2. turn[a].state \in GraphState /\ "initial" \in Slot
    BY <1>2, TurnType DEF Slot
  <2>3. g \in GraphState
    BY <2>2, GraphUpdates
  <2>4. g.slot = "initial" /\ g.report = turn[a].state.report
    BY <2>2 DEF GraphState
  <2>5. turn[a].state.report # "passed"
    BY <2>1 DEF TeachingInv, DraftIsReviewed
  <2> HIDE DEF g
  <2> QED
    BY <1>4, <1>11, <2>1, <2>2, <2>3, <2>4, <2>5
<1>13. ASSUME NEW a \in Lease, ClaimRepair(a) PROVE TeachingInv'
  <2>1. UNCHANGED <<guided, ticket, material, asked, approved>>
    BY <1>13 DEF ClaimRepair
  <2>2. turn[a].state \in GraphState /\ DraftIsReviewed(a)
    BY <1>2, TurnType DEF TeachingInv
  <2>3. CASE Walk(a, "revalidate", "none", Stopped(turn[a].state)) /\ UNCHANGED <<quality, slots>>
    <3> DEFINE g == Stopped(turn[a].state)
    <3>1. g \in GraphState /\ g.report = turn[a].state.report /\ g.draft = turn[a].state.draft
      BY <2>2 DEF Stopped, GraphState
    <3> HIDE DEF g
    <3>2. "revalidate" \in Place
      BY DEF Place
    <3>3. turn'[a] = [at |-> "revalidate", node |-> "none", state |-> g]
          /\ \A b \in Lease \ {a} : turn'[b] = turn[b]
      BY <1>2, <2>3, <3>1, <3>2, WalkMoves DEF g
    <3>4. HoldsSlot(a)' /\ DraftIsReviewed(a)' /\ NodeFollows(a)'
      BY <2>1, <2>2, <3>1, <3>3 DEF HoldsSlot, DraftIsReviewed, NodeFollows
    <3> QED
      BY <1>1, <1>3, <1>4, <2>1, <2>3, <3>3, <3>4, TurnStep
  <2>4. CASE ~(Walk(a, "revalidate", "none", Stopped(turn[a].state)) /\ UNCHANGED <<quality, slots>>)
    <3> DEFINE g1 == [turn[a].state EXCEPT !.slot = "repair"]
               g2 == [g1 EXCEPT !.repaired = TRUE]
               g3 == [g2 EXCEPT !.draft = 0]
               g4 == [g3 EXCEPT !.report = "none"]
               g == [g4 EXCEPT !.codes = FALSE]
    <3>1. ClaimSlot(a, "repair") /\ Walk(a, "draft", "revalidate", g)
          /\ quality' = [quality EXCEPT !.spent = TRUE]
      BY <1>13, <2>4 DEF ClaimRepair
    <3>2. "repair" \in Slot
      BY DEF Slot
    <3>3. g \in GraphState /\ g.slot = "repair" /\ g.report = "none"
      <4>1. g1 \in GraphState /\ g1.slot = "repair"
        <5>1. g1 \in GraphState
          BY <2>2, <3>2, GraphUpdates
        <5>2. g1.slot = "repair"
          BY <2>2 DEF GraphState
        <5> QED
          BY <5>1, <5>2
      <4> HIDE DEF g1
      <4>2. g2 \in GraphState /\ g2.slot = "repair"
        BY <4>1, GraphUpdates DEF Kept
      <4> HIDE DEF g2
      <4>3. g3 \in GraphState /\ g3.slot = "repair"
        BY <4>2, GraphUpdates DEF Kept
      <4> HIDE DEF g3
      <4>4. g4 \in GraphState /\ g4.slot = "repair" /\ g4.report = "none"
        BY <4>3, GraphUpdates DEF Kept
      <4> HIDE DEF g4
      <4> QED
        BY <4>4, GraphUpdates DEF Kept
    <3> HIDE DEF g
    <3>4. /\ quality'.status = quality.status /\ quality'.saved = quality.saved
          /\ quality'.text = quality.text /\ quality'.sources = quality.sources
      BY <1>2, <3>1 DEF TeachingTypeOK
    <3>5. RowIsTold' /\ PublishedWasReviewed'
      BY <1>2, <2>1, <3>4 DEF RowIsTold, PublishedWasReviewed
    <3> QED
      BY <1>11, <2>1, <3>1, <3>2, <3>3, <3>5
  <2> QED
    BY <2>3, <2>4
<1>14. ASSUME NEW a \in Lease, NEW h \in GraphState,
              NEW place \in {"save", "failing"},
              NEW node \in {"validate", "revalidate", "finish", "repair", "stop", "none"},
              Walk(a, place, node, h), turn[a].at \in {"draft", "ask"},
              place = "save" => node # "none",
              h.report = "passed" => h.draft \in approved',
              approved \subseteq approved', 0 \notin approved',
              asked' = asked \/ asked' = [asked EXCEPT ![turn[a].state.slot] = @ + 1],
              UNCHANGED <<guided, ticket, material, quality, slots>>
       PROVE  TeachingInv'
  <2>1. place \in Place /\ node \in Place \cup {"none", "stop"}
    BY DEF Place
  <2>2. turn'[a] = [at |-> place, node |-> node, state |-> h]
        /\ \A b \in Lease \ {a} : turn'[b] = turn[b]
    BY <1>2, <1>14, <2>1, WalkMoves
  <2>3. PICK s \in Slot : s = turn[a].state.slot /\ slots[s].status # "none"
                          /\ slots[s].attempt = a /\ asked[s] = 0
    BY <1>14 DEF TeachingInv, HoldsSlot
  <2>4. \A r \in Slot : asked'[r] = asked[r] \/ (r = s /\ asked'[r] = 1)
    BY <1>2, <1>14, <2>3 DEF TeachingTypeOK
  <2>5. HoldsSlot(a)' /\ DraftIsReviewed(a)' /\ NodeFollows(a)'
    BY <1>14, <2>2 DEF HoldsSlot, DraftIsReviewed, NodeFollows
  <2>6. RowIsTold' /\ PublishedWasReviewed'
    BY <1>2, <1>14 DEF RowIsTold, PublishedWasReviewed
  <2> QED
    BY <1>1, <1>3, <1>14, <2>2, <2>3, <2>4, <2>5, <2>6, TurnStep
<1>15. ASSUME NEW a \in Lease, CallTeacher(a) PROVE TeachingInv'
  <2> DEFINE g == turn[a].state
             t == turn[a]
  <2>1. /\ g \in GraphState /\ g.report # "passed" /\ t.at = "draft"
        /\ t.node \in {"validate", "revalidate"}
    BY <1>2, <1>15, TurnType DEF CallTeacher, TeachingInv, DraftIsReviewed, NodeFollows
  <2>2. /\ UNCHANGED <<guided, ticket, material, quality, slots, approved>>
        /\ asked' = [asked EXCEPT ![g.slot] = @ + 1]
        /\ \/ Walk(a, "save", t.node, [g EXCEPT !.draft = IF g.repaired THEN 2 ELSE 1])
           \/ Walk(a, "save", t.node, [g EXCEPT !.codes = TRUE])
           \/ Walk(a, "failing", "none", Blank)
    BY <1>15 DEF CallTeacher, Abandon
  <2> HIDE DEF g, t
  <2>3. \A d \in {1, 2} : [g EXCEPT !.draft = d] \in GraphState
                          /\ [g EXCEPT !.draft = d].report # "passed"
    BY <2>1 DEF GraphState
  <2>4. [g EXCEPT !.codes = TRUE] \in GraphState /\ [g EXCEPT !.codes = TRUE].report # "passed"
    BY <2>1, GraphUpdates DEF Kept
  <2>5. Blank \in GraphState /\ Blank.report # "passed"
    BY BlankType DEF Blank
  <2>6. PICK place \in {"save", "failing"},
             node \in {"validate", "revalidate", "finish", "repair", "stop", "none"},
             h \in GraphState :
          Walk(a, place, node, h) /\ h.report # "passed" /\ (place = "save" => node # "none")
    BY <2>1, <2>2, <2>3, <2>4, <2>5
  <2>7. approved' = approved /\ 0 \notin approved
    BY <1>2, <2>2 DEF RowIsTold
  <2> QED
    BY <1>14, <2>1, <2>2, <2>6, <2>7 DEF g, t
<1>16. ASSUME NEW a \in Lease, CallReviewer(a) PROVE TeachingInv'
  <2>1. PICK h \in GraphState, next \in {"stop", "repair", "finish"} :
          /\ Walk(a, "save", next, h) /\ h.draft = turn[a].state.draft
          /\ approved' = IF h.report = "passed" THEN approved \cup {h.draft} ELSE approved
    BY <1>2, <1>16, ReviewerAnswers
  <2>2. /\ turn[a].at = "ask" /\ UNCHANGED <<guided, ticket, material, quality, slots>>
        /\ asked' = asked \/ asked' = [asked EXCEPT ![turn[a].state.slot] = @ + 1]
    BY <1>16 DEF CallReviewer
  <2>3. h.draft # 0 /\ 0 \notin approved
    BY <1>2, <2>1, <2>2 DEF TeachingInv, DraftIsReviewed, RowIsTold
  <2> QED
    BY <1>14, <2>1, <2>2, <2>3
<1>17. ASSUME NEW a \in Lease, SaveTurn(a) PROVE TeachingInv'
  <2>1. /\ turn[a].node \in {"validate", "revalidate", "finish", "repair", "stop"}
        /\ turn[a].state \in GraphState
        /\ turn[a].state.report = "passed" => turn[a].state.draft \in approved
    BY <1>2, <1>17, TurnType DEF SaveTurn, TeachingInv, DraftIsReviewed, NodeFollows
  <2>2. turn[a].node \in Place \cup {"stop"}
    BY <2>1 DEF Place
  <2> QED
    BY <1>1, <1>17, <2>1, <2>2, CheckpointStep DEF SaveTurn
<1>18. ASSUME NEW a \in Lease, Validate(a) PROVE TeachingInv'
  <2>1. PICK h \in GraphState, next \in {"stop", "repair", "finish", "recheck", "review"} :
          /\ Checkpoint(a, h, next)
          /\ h.report = turn[a].state.report
          /\ h.draft = turn[a].state.draft \/ h.report = "none"
          /\ next \in {"review", "recheck"} => h.draft # 0
    BY <1>2, <1>18, ValidateSaves
  <2>2. h.report = "passed" => h.draft \in approved
    BY <2>1 DEF TeachingInv, DraftIsReviewed
  <2>3. next \in Place \cup {"stop"}
    BY DEF Place
  <2> QED
    BY <1>1, <1>18, <2>1, <2>2, <2>3, CheckpointStep DEF Validate
<1>19. ASSUME NEW a \in Lease, ClaimReview(a) PROVE TeachingInv'
  <2> DEFINE g == turn[a].state
             s == IF g.reviews = 0 THEN "review_initial" ELSE "review_recheck"
             u1 == [g EXCEPT !.report = "unreviewed"]
             u == Stopped(u1)
             h1 == [g EXCEPT !.slot = s]
             h == [h1 EXCEPT !.reviews = @ + 1]
  <2>1. g \in GraphState /\ turn[a].at \in {"review", "recheck"} /\ DraftIsReviewed(a)
    BY <1>2, <1>19, TurnType DEF TeachingInv, ClaimReview
  <2>2. UNCHANGED <<guided, ticket, material, asked, approved>>
    BY <1>19 DEF ClaimReview
  <2>3. CASE Checkpoint(a, u, "stop")
    <3> HIDE DEF g
    <3>1. u1 \in GraphState /\ u1.report = "unreviewed"
      BY <2>1, GraphUpdates DEF Kept
    <3> HIDE DEF u1
    <3>2. u \in GraphState /\ u.report = "unreviewed"
      BY <3>1, GraphUpdates DEF Stopped, Kept
    <3> HIDE DEF u
    <3> QED
      BY <1>1, <2>2, <2>3, <3>2, CheckpointStep
  <2>4. CASE ~Checkpoint(a, u, "stop")
    <3>1. /\ g.reviews < MaxReviewCalls /\ ClaimSlot(a, s)
          /\ Walk(a, "ask", turn[a].at, h) /\ quality' = quality
      BY <1>19, <2>4 DEF ClaimReview
    <3>2. s \in Slot
      BY DEF Slot
    <3>3. g.reviews + 1 \in 0..MaxReviewCalls
      BY <2>1, <3>1 DEF GraphState, MaxReviewCalls
    <3>4. g.draft # 0 /\ (g.report = "passed" => g.draft \in approved)
      BY <2>1 DEF DraftIsReviewed
    <3> HIDE DEF g, s
    <3>5. h1 \in GraphState
      BY <2>1, <3>2, GraphUpdates
    <3>6. h1.slot = s /\ h1.draft = g.draft /\ h1.report = g.report /\ h1.reviews = g.reviews
      BY <2>1 DEF GraphState
    <3> HIDE DEF h1
    <3>7. h \in GraphState
      BY <3>3, <3>5, <3>6, GraphUpdates
    <3>8. h.slot = s /\ h.draft = g.draft /\ h.report = g.report
      BY <3>5, <3>6 DEF GraphState
    <3> HIDE DEF h
    <3> QED
      BY <1>4, <1>11, <2>1, <2>2, <3>1, <3>2, <3>4, <3>7, <3>8
  <2> QED
    BY <2>3, <2>4
<1>20. ASSUME NEW a \in Lease, Finish(a) PROVE TeachingInv'
  <2> DEFINE g == turn[a].state
             h1 == [g EXCEPT !.ended = "completed"]
             h == [h1 EXCEPT !.slot = "none"]
  <2>1. g \in GraphState /\ (g.report = "passed" => g.draft \in approved)
    BY <1>2, TurnType DEF TeachingInv, DraftIsReviewed
  <2>2. Checkpoint(a, h, "publish") /\ UNCHANGED <<guided, ticket, material, asked, approved>>
    BY <1>20 DEF Finish
  <2> HIDE DEF g
  <2>3. h1 \in GraphState /\ h1.draft = g.draft /\ h1.report = g.report
    BY <2>1, GraphUpdates DEF Kept
  <2> HIDE DEF h1
  <2>4. h \in GraphState
    BY <2>3, GraphUpdates
  <2>5. h.draft = g.draft /\ h.report = g.report
    BY <2>3 DEF GraphState
  <2> HIDE DEF h
  <2>6. "publish" \in Place
    BY DEF Place
  <2> QED
    BY <1>1, <2>1, <2>2, <2>4, <2>5, <2>6, CheckpointStep
<1>21. ASSUME NEW a \in Lease, PublishDraft(a) \/ LeaveTurn(a) \/ CrashTurn(a) PROVE TeachingInv'
  <2>1. turn' = [turn EXCEPT ![a] = Away] /\ UNCHANGED <<guided, material, slots, asked, approved>>
    BY <1>21 DEF PublishDraft, LeaveTurn, CrashTurn
  <2>2. turn'[a] = Away /\ \A b \in Lease \ {a} : turn'[b] = turn[b]
    BY <1>2, <2>1 DEF TeachingTypeOK
  <2>3. turn'[a].state = Blank /\ turn'[a].at = "off"
    BY <2>2 DEF Away
  <2>4. RowIsTold' /\ PublishedWasReviewed'
    <3>1. CASE PublishDraft(a)
      <4>1. /\ quality'.status = "published" /\ ~quality'.sources /\ quality'.saved = quality.saved
            /\ guided => quality.saved.report = "passed"
        BY <1>2, <3>1 DEF PublishDraft, Approves, TeachingTypeOK
      <4> QED
        BY <1>2, <2>1, <4>1 DEF RowIsTold, PublishedWasReviewed
    <3>2. CASE LeaveTurn(a) \/ CrashTurn(a)
      <4>1. quality' = quality /\ (ticket'.status = "completed" => ticket.status = "completed")
        BY <1>2, <3>2 DEF LeaveTurn, CrashTurn, TeachingTypeOK
      <4> QED
        BY <1>2, <2>1, <4>1 DEF RowIsTold, PublishedWasReviewed
    <3> QED
      BY <1>21, <3>1, <3>2
  <2> QED
    BY <1>1, <1>3, <2>1, <2>2, <2>3, <2>4, BlankStep
<1>22. CASE RevokeMaterial \/ SweepDraft
  <2>1. /\ UNCHANGED <<guided, ticket, slots, turn, asked, approved>>
        /\ quality' = quality
           \/ (/\ quality'.status = quality.status /\ quality'.saved = quality.saved
               /\ ~quality'.text /\ ~quality'.sources)
    BY <1>2, <1>22 DEF RevokeMaterial, SweepDraft, TeachingTypeOK
  <2>2. RowIsTold' /\ PublishedWasReviewed'
    BY <1>2, <2>1 DEF RowIsTold, PublishedWasReviewed
  <2> QED
    BY <1>1, <1>3, <2>1, <2>2, RestStep
<1>23. CASE PurgeMaterial
  <2>1. /\ UNCHANGED <<guided, ticket, slots, turn, asked, approved>>
        /\ quality' = quality
           \/ (/\ quality'.status = "revoked" /\ ~quality'.sources
               /\ quality'.saved.report = "none")
    <3>1. CASE quality.status = "none"
      BY <1>23, <3>1 DEF PurgeMaterial
    <3>2. CASE quality.status # "none"
      <4>1. quality \in Row /\ quality.saved \in GraphState
        BY <1>2, TeachingTypeFacts
      <4>2. [quality.saved EXCEPT !.report = "none"].report = "none"
        BY <4>1 DEF GraphState
      <4>3. quality' = [quality EXCEPT !.status = "revoked", !.text = FALSE, !.sources = FALSE,
                                       !.saved = [quality.saved EXCEPT !.report = "none"]]
        BY <1>23, <3>2 DEF PurgeMaterial
      <4>4. /\ quality'.status = "revoked" /\ quality'.sources = FALSE
            /\ quality'.saved = [quality.saved EXCEPT !.report = "none"]
        BY <4>1, <4>3 DEF Row
      <4> QED
        BY <1>23, <4>2, <4>4 DEF PurgeMaterial
    <3> QED
      BY <3>1, <3>2
  <2>2. RowIsTold' /\ PublishedWasReviewed'
    BY <1>2, <2>1 DEF RowIsTold, PublishedWasReviewed
  <2> QED
    BY <1>1, <1>3, <2>1, <2>2, RestStep
<1> QED
  BY <1>5, <1>6, <1>7, <1>8, <1>9, <1>10, <1>12, <1>13, <1>15, <1>16, <1>17, <1>18, <1>19,
     <1>20, <1>21, <1>22, <1>23 DEF TeachingNext

LEMMA TeachingStarts == TeachingInit => TeachingInv
<1> SUFFICES ASSUME TeachingInit PROVE TeachingInv
  OBVIOUS
<1>1. TeachingTypeOK
  <2>1. quality \in Row
    BY BlankType DEF TeachingInit, Row
  <2>2. slots \in [Slot -> SlotRow]
    BY TeachingAssumption DEF TeachingInit, SlotRow
  <2>3. turn \in [Lease -> Turn]
    BY BlankType DEF TeachingInit
  <2> QED
    BY <2>1, <2>2, <2>3, TeachingAssumption DEF TeachingInit, TeachingTypeOK, Row, SlotRow, Turn
<1>2. \A s \in Slot : SlotUsedOnce(s)
  BY DEF TeachingInit, SlotUsedOnce
<1>3. \A a \in Lease : HoldsSlot(a) /\ DraftIsReviewed(a) /\ NodeFollows(a)
  BY DEF TeachingInit, Away, Blank, HoldsSlot, DraftIsReviewed, NodeFollows
<1>4. RowIsTold /\ PublishedWasReviewed
  BY DEF TeachingInit, Blank, RowIsTold, PublishedWasReviewed
<1> QED
  BY <1>1, <1>2, <1>3, <1>4 DEF TeachingInv

\* Every variable of a course job keeps its type in every behaviour.
THEOREM TeachingTypeCorrect == TeachingSpec => []TeachingTypeOK
<1>1. TeachingInv => TeachingTypeOK
  BY DEF TeachingInv
<1> QED
  BY <1>1, TeachingStarts, TeachingStep, PTL DEF TeachingSpec

\* Whatever attempts crash, lose their lease or run behind their successors, no
\* slot of the teacher or of the reviewer is asked twice (claim_agent_stage).
THEOREM RolesAreCalledOnce == TeachingSpec => []CalledOnce
<1>1. TeachingInv => CalledOnce
  BY DEF TeachingInv, SlotUsedOnce, CalledOnce
<1> QED
  BY <1>1, TeachingStarts, TeachingStep, PTL DEF TeachingSpec

\* What a guided course publishes is the very draft that its reviewer passed, and
\* a saved verdict never speaks for another draft (seal_quality_run).
THEOREM PublicationWasReviewed == TeachingSpec => []PublishedWasReviewed
<1>1. TeachingInv => PublishedWasReviewed
  BY DEF TeachingInv
<1> QED
  BY <1>1, TeachingStarts, TeachingStep, PTL DEF TeachingSpec

-----------------------------------------------------------------------------
(* QuizImages: what makes its properties inductive.                        *)

Undrawn == {"submitting", "generated", "download_failed"}
Written(a, q) == <<a, q>> \in files \cup doomed

\* The operation of a question, its status in the quiz and the requests that were
\* sent for it tell one story, and a removal has listed every row there is.
OneStory ==
  /\ \A q \in Question : /\ paid[q] <= 1
                         /\ paid[q] # 0 => operation[q] # "none"
                         /\ operation[q] = "completed" <=> item[q].status = "completed"
  /\ cleaner.on => scope = "revoked" /\ assets \subseteq cleaner.todo

\* An attempt that has not begun has left no file.
NotYet(a) == a > task.attempt => run[a] = Off /\ \A q \in Question : ~Written(a, q)

\* An attempt has written no file ahead of where it is, and the file that it is
\* about to publish is not one that a sweep may remove.
FilesAhead(a) ==
  LET r == run[a] IN
  /\ r.at \in {"begin", "look", "call", "save", "fetch"} => ~Written(a, r.q)
  /\ r.at \in {"begin", "look", "call", "save", "fetch", "commit", "check", "mark"} =>
       \A q \in Question : q > r.q => ~Written(a, q)
  /\ r.at \in {"commit", "check"} => <<a, r.q>> \notin old \cup doomed
  /\ r.at = "commit" /\ scope = "granted" => <<a, r.q>> \in files
  /\ r.at = "mark" => r.why \in {"unknown", "failed", "download_failed"}
  /\ r.at = "begin" => r.q = 1

\* The attempt that holds the job pays for a question that nobody paid for, and
\* has in hand a picture that is not drawn, or the one that it published.
DrawsOnce(a) ==
  LET r == run[a] IN
  a = task.attempt =>
    /\ r.at = "call" => operation[r.q] = "submitting" /\ paid[r.q] = 0
    /\ r.at \in {"save", "fetch", "commit", "mark"} /\ scope = "granted" => operation[r.q] \in Undrawn
    /\ r.at = "check" /\ scope = "granted" =>
         operation[r.q] \in Undrawn \/ (operation[r.q] = "completed" /\ <<a, r.q>> \in assets)

\* Its list of statuses is true of the questions it has done.
EndsTrue(a) ==
  LET r == run[a] IN
  /\ a = task.attempt
  /\ r.at \in {"look", "call", "save", "fetch", "commit", "check", "mark", "publish"}
  => \A q \in Question : q < r.q \/ r.at = "publish" =>
       (r.ends[q] = "completed" <=> item[q].status = "completed")

ImagesInv ==
  /\ ImagesTypeOK /\ ImagesAreThere /\ OneStory
  /\ \A a \in Run : NotYet(a) /\ FilesAhead(a) /\ DrawsOnce(a) /\ EndsTrue(a)

-----------------------------------------------------------------------------
(* QuizImages: how an attempt moves.                                       *)

RunRow == [at : Stop, q : Question, url : BOOLEAN, why : Why, ends : [Question -> End]]
ItemRow == [status : {"pending", "generated", "failed", "unknown", "completed"},
            asset : 0..MaxRuns]
Operations == {"none", "submitting", "generated", "download_failed", "failed", "unknown",
               "completed"}

LEMMA ImagesFacts ==
    /\ LastQuestion \in Nat /\ MaxRuns \in Nat /\ 1 \in Question /\ LastQuestion \in Question
    /\ \A q \in Question : q \in Nat /\ 1 <= q /\ q <= LastQuestion
    /\ \A q \in Question : q # LastQuestion => q + 1 \in Question
    /\ \A a \in Run : a \in Nat /\ a # 0 /\ a \in 0..MaxRuns
BY ImagesAssumption DEF Question, Run

LEMMA ImagesTypeFacts ==
    ASSUME ImagesTypeOK
    PROVE  /\ run \in [Run -> RunRow] /\ item \in [Question -> ItemRow]
           /\ operation \in [Question -> Operations] /\ paid \in [Question -> Nat]
           /\ task.attempt \in 0..MaxRuns /\ task.attempt \in Nat
           /\ assets \subseteq Key /\ files \subseteq Key /\ old \subseteq files /\ doomed \subseteq Key
BY ImagesFacts DEF ImagesTypeOK, RunRow, ItemRow, Operations

LEMMA OffType == Off \in RunRow /\ Off.at = "off" /\ Off.q = 1
BY ImagesFacts DEF Off, RunRow, Stop, Why, End

LEMMA GotoMoves ==
    ASSUME ImagesTypeOK, NEW a \in Run, NEW place \in Stop, Goto(a, place)
    PROVE  /\ run' \in [Run -> RunRow] /\ \A b \in Run \ {a} : run'[b] = run[b]
           /\ run'[a].at = place /\ run'[a].q = run[a].q /\ run'[a].ends = run[a].ends
<1>1. [run[a] EXCEPT !.at = place] \in RunRow
  BY ImagesTypeFacts DEF RunRow
<1>2. run' = [run EXCEPT ![a] = [run[a] EXCEPT !.at = place]]
  BY DEF Goto
<1>3. run'[a] = [run[a] EXCEPT !.at = place]
  BY <1>2, ImagesTypeFacts
<1> QED
  BY <1>1, <1>2, <1>3, ImagesTypeFacts DEF RunRow

LEMMA EscapeMoves ==
    ASSUME ImagesTypeOK, NEW a \in Run, NEW place \in Stop, Escape(a, place)
    PROVE  /\ run' \in [Run -> RunRow] /\ \A b \in Run \ {a} : run'[b] = run[b]
           /\ run'[a].at = place
<1>1. [Off EXCEPT !.at = place] \in RunRow /\ [Off EXCEPT !.at = place].at = place
  BY OffType DEF RunRow
<1> QED
  BY <1>1, ImagesTypeFacts DEF Escape

LEMMA ExcuseMoves ==
    ASSUME ImagesTypeOK, NEW a \in Run, NEW why \in Why, Excuse(a, why)
    PROVE  /\ run' \in [Run -> RunRow] /\ \A b \in Run \ {a} : run'[b] = run[b]
           /\ run'[a].at = "mark" /\ run'[a].why = why /\ run'[a].q = run[a].q
           /\ run'[a].ends = run[a].ends
<1> DEFINE r == [run[a] EXCEPT !.at = "mark", !.why = why, !.url = FALSE]
<1>1. r \in RunRow /\ r.at = "mark" /\ r.why = why /\ r.q = run[a].q /\ r.ends = run[a].ends
  BY ImagesTypeFacts DEF RunRow, Stop
<1>2. run' = [run EXCEPT ![a] = r]
  BY DEF Excuse
<1> HIDE DEF r
<1> QED
  BY <1>1, <1>2, ImagesTypeFacts

LEMMA RunRowUpdates ==
    ASSUME NEW r \in RunRow, NEW place \in Stop, NEW url \in BOOLEAN, NEW why \in Why
    PROVE  /\ [r EXCEPT !.at = place, !.url = url] \in RunRow
           /\ [r EXCEPT !.at = place, !.why = why] \in RunRow
<1>1. [r EXCEPT !.at = place] \in RunRow
  BY DEF RunRow
<1> DEFINE s == [r EXCEPT !.at = place]
<1>2. [r EXCEPT !.at = place, !.url = url] = [s EXCEPT !.url = url]
  OBVIOUS
<1>3. [r EXCEPT !.at = place, !.why = why] = [s EXCEPT !.why = why]
  OBVIOUS
<1>4. s \in RunRow
  BY <1>1
<1> HIDE DEF s
<1>5. [s EXCEPT !.url = url] \in RunRow /\ [s EXCEPT !.why = why] \in RunRow
  BY <1>4 DEF RunRow
<1> QED
  BY <1>2, <1>3, <1>5

\* To "save", "fetch", "commit" and "check", with an address or a reason in hand.
LEMMA PlaceMoves ==
    ASSUME ImagesTypeOK, NEW a \in Run, NEW place \in Stop, NEW url \in BOOLEAN, NEW why \in Why,
           \/ run' = [run EXCEPT ![a].at = place, ![a].url = url]
           \/ run' = [run EXCEPT ![a].at = place, ![a].why = why]
    PROVE  /\ run' \in [Run -> RunRow] /\ \A b \in Run \ {a} : run'[b] = run[b]
           /\ run'[a].at = place /\ run'[a].q = run[a].q /\ run'[a].ends = run[a].ends
<1> DEFINE r == [run[a] EXCEPT !.at = place, !.url = url]
           s == [run[a] EXCEPT !.at = place, !.why = why]
<1>1. run \in [Run -> RunRow] /\ run[a] \in RunRow
  BY ImagesTypeFacts
<1>2. r \in RunRow /\ s \in RunRow
  BY <1>1, RunRowUpdates
<1>3. /\ r.at = place /\ r.q = run[a].q /\ r.ends = run[a].ends
      /\ s.at = place /\ s.q = run[a].q /\ s.ends = run[a].ends
  <2> DEFINE g == run[a]
  <2>1. g \in RunRow
    BY <1>1
  <2> HIDE DEF g
  <2>2. /\ [g EXCEPT !.at = place, !.url = url].at = place
        /\ [g EXCEPT !.at = place, !.url = url].q = g.q
        /\ [g EXCEPT !.at = place, !.url = url].ends = g.ends
        /\ [g EXCEPT !.at = place, !.why = why].at = place
        /\ [g EXCEPT !.at = place, !.why = why].q = g.q
        /\ [g EXCEPT !.at = place, !.why = why].ends = g.ends
    BY <2>1 DEF RunRow
  <2> QED
    BY <2>2 DEF g
<1>4. run' = [run EXCEPT ![a] = r] \/ run' = [run EXCEPT ![a] = s]
  OBVIOUS
<1> HIDE DEF r, s
<1>5. /\ run' \in [Run -> RunRow] /\ \A b \in Run \ {a} : run'[b] = run[b]
      /\ run'[a] = r \/ run'[a] = s
  BY <1>1, <1>2, <1>4
<1> QED
  BY <1>3, <1>5

LEMMA NextMoves ==
    ASSUME ImagesTypeOK, NEW a \in Run, NEW end \in End, NextQuestion(a, end)
    PROVE  /\ run' \in [Run -> RunRow] /\ \A b \in Run \ {a} : run'[b] = run[b]
           /\ run'[a].ends = [run[a].ends EXCEPT ![run[a].q] = end]
           /\ IF run[a].q = LastQuestion
              THEN run'[a].at = "publish" /\ run'[a].q = run[a].q
              ELSE run'[a].at = "look" /\ run'[a].q = run[a].q + 1
<1> DEFINE q == run[a].q
           ends == [run[a].ends EXCEPT ![q] = end]
           place == IF q = LastQuestion THEN "publish" ELSE "look"
           next == IF q = LastQuestion THEN q ELSE q + 1
           r == [Off EXCEPT !.at = place, !.q = next, !.ends = ends]
<1>1. run' = [run EXCEPT ![a] = r]
  BY DEF NextQuestion
<1>2. q \in Question /\ run[a].ends \in [Question -> End]
  BY ImagesTypeFacts DEF RunRow
<1>3. ends \in [Question -> End] /\ place \in Stop /\ next \in Question
  BY <1>2, ImagesFacts DEF Stop
<1> HIDE DEF ends, place, next
<1>4. r \in RunRow /\ r.at = place /\ r.q = next /\ r.ends = ends
  BY <1>3, OffType DEF RunRow
<1> HIDE DEF r
<1>5. run' \in [Run -> RunRow] /\ run'[a] = r /\ \A b \in Run \ {a} : run'[b] = run[b]
  BY <1>1, <1>4, ImagesTypeFacts
<1> QED
  BY <1>4, <1>5 DEF ends, place, next

-----------------------------------------------------------------------------
(* QuizImages: what a step leaves alone.                                   *)

\* The pictures that the quiz shows stay, whatever an attempt does that publishes
\* nothing and removes no file of theirs.
LEMMA PicturesStay ==
    ASSUME ImagesInv,
           UNCHANGED <<operation, item, assets, paid, images, scope, cleaner>>,
           task'.status = "completed" => task.status = "completed",
           \A k \in assets : k \in files => k \in files'
    PROVE  ImagesAreThere' /\ OneStory'
BY DEF ImagesInv, ImagesAreThere, OneStory

\* A step of attempt a leaves the other attempts as they were.
LEMMA RunStep ==
    ASSUME ImagesInv, ImagesTypeOK', NEW a \in Run, run[a].at # "off",
           task'.attempt = task.attempt, UNCHANGED <<old, doomed, scope>>,
           \A b \in Run \ {a} : run'[b] = run[b],
           \A b \in Run \ {a}, q \in Question : <<b, q>> \in files' <=> <<b, q>> \in files,
           a = task.attempt \/ UNCHANGED <<operation, item, assets, paid>>,
           ImagesAreThere', OneStory', FilesAhead(a)', DrawsOnce(a)', EndsTrue(a)'
    PROVE  ImagesInv'
<1>1. ~(a > task.attempt)
  BY OffType DEF ImagesInv, NotYet
<1>2. NotYet(a)'
  BY <1>1 DEF NotYet
<1>3. ASSUME NEW b \in Run \ {a}
      PROVE  (NotYet(b) /\ FilesAhead(b) /\ DrawsOnce(b) /\ EndsTrue(b))'
  <2>1. NotYet(b) /\ FilesAhead(b) /\ DrawsOnce(b) /\ EndsTrue(b) /\ run'[b] = run[b]
    BY DEF ImagesInv
  <2>2. run[b].q \in Question
    BY ImagesTypeFacts DEF ImagesInv, RunRow
  <2>3. \A q \in Question : Written(b, q)' <=> Written(b, q)
    BY DEF Written
  <2>4. NotYet(b)'
    BY <2>1, <2>3 DEF NotYet
  <2>5. FilesAhead(b)'
    BY <2>1, <2>2, <2>3 DEF FilesAhead
  <2>6. DrawsOnce(b)' /\ EndsTrue(b)'
    BY <2>1 DEF DrawsOnce, EndsTrue
  <2> QED
    BY <2>4, <2>5, <2>6
<1> QED
  BY <1>2, <1>3 DEF ImagesInv

\* An attempt that gives up, whatever it was about to do.
LEMMA EscapeStep ==
    ASSUME ImagesInv, ImagesTypeOK', NEW a \in Run, run[a].at # "off",
           task'.attempt = task.attempt, UNCHANGED <<old, doomed, scope>>,
           \A b \in Run \ {a} : run'[b] = run[b],
           run'[a].at \in {"off", "failing", "stopped"},
           \A b \in Run \ {a}, q \in Question : <<b, q>> \in files' <=> <<b, q>> \in files,
           a = task.attempt \/ UNCHANGED <<operation, item, assets, paid>>,
           ImagesAreThere', OneStory'
    PROVE  ImagesInv'
<1>1. FilesAhead(a)' /\ DrawsOnce(a)' /\ EndsTrue(a)'
  BY DEF FilesAhead, DrawsOnce, EndsTrue
<1> QED
  BY <1>1, RunStep

\* No attempt moves: the queue, the removal and the sweeps.
LEMMA QuietStep ==
    ASSUME ImagesInv, ImagesTypeOK', UNCHANGED <<run, operation, item, paid>>,
           task'.attempt = task.attempt,
           scope' = "granted" => scope = "granted" /\ assets' = assets,
           \A a \in Run, q \in Question : Written(a, q)' => Written(a, q),
           \A a \in Run : run[a].at \in {"commit", "check"} => <<a, run[a].q>> \notin old' \cup doomed',
           \A a \in Run : run[a].at = "commit" /\ scope' = "granted" => <<a, run[a].q>> \in files',
           ImagesAreThere', OneStory'
    PROVE  ImagesInv'
<1>1. ASSUME NEW a \in Run PROVE (NotYet(a) /\ FilesAhead(a) /\ DrawsOnce(a) /\ EndsTrue(a))'
  <2>1. NotYet(a) /\ FilesAhead(a) /\ DrawsOnce(a) /\ EndsTrue(a)
    BY DEF ImagesInv
  <2>2. run[a].q \in Question
    BY ImagesTypeFacts DEF ImagesInv, RunRow
  <2>3. NotYet(a)'
    BY <2>1 DEF NotYet
  <2>4. FilesAhead(a)'
    BY <2>1, <2>2 DEF FilesAhead
  <2>5. DrawsOnce(a)' /\ EndsTrue(a)'
    BY <2>1 DEF DrawsOnce, EndsTrue
  <2> QED
    BY <2>3, <2>4, <2>5
<1> QED
  BY <1>1 DEF ImagesInv

\* An attempt that has done its question is at the next one, or at the end.
LEMMA NextStep ==
    ASSUME ImagesTypeOK, NEW a \in Run, NEW end \in End, NextQuestion(a, end),
           task'.attempt = task.attempt,
           \A q \in Question : q > run[a].q => ~Written(a, q)',
           a = task.attempt =>
             /\ end = "completed" <=> item'[run[a].q].status = "completed"
             /\ \A q \in Question : q < run[a].q =>
                  (run[a].ends[q] = "completed" <=> item'[q].status = "completed")
    PROVE  FilesAhead(a)' /\ DrawsOnce(a)' /\ EndsTrue(a)'
<1> DEFINE q == run[a].q
<1>1. q \in Question /\ run[a].ends \in [Question -> End]
  BY ImagesTypeFacts DEF RunRow
<1>2. /\ run'[a].ends = [run[a].ends EXCEPT ![q] = end]
      /\ IF q = LastQuestion
         THEN run'[a].at = "publish" /\ run'[a].q = q
         ELSE run'[a].at = "look" /\ run'[a].q = q + 1
  BY NextMoves
<1>3. DrawsOnce(a)'
  BY <1>2 DEF DrawsOnce
<1>4. FilesAhead(a)'
  <2>1. CASE q = LastQuestion
    BY <1>2, <2>1 DEF FilesAhead
  <2>2. CASE q # LastQuestion
    <3> HIDE DEF q
    <3>1. q + 1 \in Question /\ q \in Nat /\ q + 1 > q /\ \A r \in Question : r \in Nat
      BY <1>1, <2>2, ImagesFacts
    <3>2. run'[a].at = "look" /\ run'[a].q = q + 1
      BY <1>2, <2>2
    <3>3. \A r \in Question : r > q + 1 => r > q
      BY <3>1
    <3>4. \A r \in Question : r > q => ~Written(a, r)'
      BY DEF q
    <3> QED
      BY <3>1, <3>2, <3>3, <3>4 DEF FilesAhead
  <2> QED
    BY <2>1, <2>2
<1>5. EndsTrue(a)'
  <2> SUFFICES ASSUME a = task.attempt, NEW r \in Question, r < run'[a].q \/ run'[a].at = "publish"
               PROVE  run'[a].ends[r] = "completed" <=> item'[r].status = "completed"
    BY DEF EndsTrue
  <2>1. r < q \/ r = q
    <3> HIDE DEF q
    <3>1. q \in Nat /\ r \in Nat /\ r <= LastQuestion /\ LastQuestion \in Nat
      BY <1>1, ImagesFacts
    <3>2. CASE q = LastQuestion
      BY <3>1, <3>2
    <3>3. CASE q # LastQuestion
      BY <1>2, <3>1, <3>3
    <3> QED
      BY <3>2, <3>3
  <2>2. CASE r = q
    BY <1>1, <1>2, <2>2
  <2>3. CASE r < q
    <3>1. r # q
      BY <1>1, <2>3, ImagesFacts
    <3>2. run'[a].ends[r] = run[a].ends[r]
      BY <1>1, <1>2, <3>1
    <3> QED
      BY <2>3, <3>2
  <2> QED
    BY <2>1, <2>2, <2>3
<1> QED
  BY <1>3, <1>4, <1>5

-----------------------------------------------------------------------------
(* QuizImages: every step keeps the types.                                 *)

LEMMA Places ==
    /\ {"off", "begin", "look", "call", "save", "fetch", "commit", "check", "mark", "publish",
        "failing", "stopped"} \subseteq Stop
    /\ {"none", "failed", "unknown", "download_failed", "error", "stop", "stale_lease"} \subseteq Why
    /\ {"none", "completed", "failed", "unknown", "download_failed"} \subseteq End
BY DEF Stop, Why, End

LEMMA ImagesTypeParts ==
    ASSUME ImagesTypeOK, run' \in [Run -> RunRow],
           operation' \in [Question -> Operations], item' \in [Question -> ItemRow],
           UNCHANGED <<task, scope, images, known, cleaner, paid>>,
           assets' \subseteq Key, old' \subseteq files', files' \subseteq Key, doomed' \subseteq Key
    PROVE  ImagesTypeOK'
BY DEF ImagesTypeOK, RunRow, ItemRow, Operations

\* One field of an operation or of an item.
LEMMA PictureUpdates ==
    ASSUME ImagesTypeOK, NEW q \in Question, NEW x \in Operations, NEW n \in 0..MaxRuns,
           NEW st \in {"pending", "generated", "failed", "unknown", "completed"}
    PROVE  /\ [operation EXCEPT ![q] = x] \in [Question -> Operations]
           /\ [item EXCEPT ![q].status = st] \in [Question -> ItemRow]
           /\ [item EXCEPT ![q] = [status |-> st, asset |-> n]] \in [Question -> ItemRow]
<1>1. [item[q] EXCEPT !.status = st] \in ItemRow
  BY ImagesTypeFacts DEF ItemRow
<1>2. [item EXCEPT ![q].status = st] = [item EXCEPT ![q] = [item[q] EXCEPT !.status = st]]
  OBVIOUS
<1>3. [status |-> st, asset |-> n] \in ItemRow
  BY DEF ItemRow
<1> QED
  BY <1>1, <1>2, <1>3, ImagesTypeFacts

LEMMA QueueTypes ==
    ASSUME ImagesTypeOK, TakeJob \/ LoseLease \/ EndJob \/ ReconcileImages \/ RevokeSource
                         \/ StartCleaning \/ RemoveRow \/ EndCleaning
    PROVE  ImagesTypeOK'
<1>1. CASE TakeJob
  <2> DEFINE n == task.attempt + 1
  <2>1. n \in Run
    BY <1>1, ImagesTypeFacts, ImagesFacts DEF Run, TakeJob
  <2>2. Goto(n, "begin")
    BY <1>1 DEF TakeJob, Goto
  <2>3. n \in 0..MaxRuns
    BY <2>1, ImagesFacts
  <2>4. task' \in [status : {"pending", "running", "completed", "failed"}, attempt : 0..MaxRuns,
                   leased : BOOLEAN]
    <3>1. task' = [task EXCEPT !.status = "running", !.leased = TRUE, !.attempt = n]
      BY <1>1 DEF TakeJob
    <3> HIDE DEF n
    <3> QED
      BY <2>3, <3>1 DEF ImagesTypeOK
  <2> HIDE DEF n
  <2>5. run' \in [Run -> RunRow]
    BY <2>1, <2>2, Places, GotoMoves
  <2> QED
    BY <1>1, <2>4, <2>5 DEF ImagesTypeOK, RunRow, TakeJob, rows, disk
<1>2. CASE LoseLease
  BY <1>2 DEF ImagesTypeOK, LoseLease, rows, disk
<1>3. CASE EndJob
  BY <1>3 DEF ImagesTypeOK, EndJob, rows, disk
<1>4. CASE ReconcileImages
  BY <1>4 DEF ImagesTypeOK, ReconcileImages, rows, disk
<1>5. CASE RevokeSource
  BY <1>5 DEF ImagesTypeOK, RevokeSource, rows, disk
<1>6. CASE StartCleaning
  BY <1>6 DEF ImagesTypeOK, StartCleaning, Resting, rows, disk
<1>7. CASE RemoveRow
  BY <1>7 DEF ImagesTypeOK, RemoveRow, rows, disk
<1>8. CASE EndCleaning
  BY <1>8 DEF ImagesTypeOK, EndCleaning, Resting, rows, disk
<1> QED
  BY <1>1, <1>2, <1>3, <1>4, <1>5, <1>6, <1>7, <1>8

LEMMA SweepTypes ==
    ASSUME ImagesTypeOK, NEW k \in Key, RemoveFile(k) \/ GrowOld(k) \/ QueueOrphan(k) \/ DrainOrphan(k)
    PROVE  ImagesTypeOK'
BY DEF ImagesTypeOK, RemoveFile, GrowOld, QueueOrphan, DrainOrphan, rows, disk

-----------------------------------------------------------------------------
(* QuizImages: every step keeps the invariant.                             *)

LEMMA AttemptFacts ==
    ASSUME ImagesInv, NEW a \in Run
    PROVE  /\ ImagesTypeOK /\ ImagesAreThere /\ OneStory
           /\ FilesAhead(a) /\ DrawsOnce(a) /\ EndsTrue(a)
           /\ run[a] \in RunRow /\ run[a].q \in Question /\ <<a, run[a].q>> \in Key
           /\ LockedQuiz(a) => /\ a = task.attempt /\ scope = "granted" /\ ~cleaner.on
                               /\ task.status = "running"
<1>1. ImagesTypeOK /\ run[a] \in RunRow
  BY ImagesTypeFacts DEF ImagesInv
<1>2. run[a].q \in Question /\ <<a, run[a].q>> \in Key
  BY <1>1 DEF RunRow, Key
<1> QED
  BY <1>1, <1>2 DEF ImagesInv, OneStory, LockedQuiz, Holding

\* A question whose picture is not drawn has no row.
LEMMA UndrawnHasNoRow ==
    ASSUME ImagesInv, NEW q \in Question, operation[q] # "completed"
    PROVE  /\ \A k \in assets : k[2] # q
           /\ item[q].status # "completed"
           /\ scope = "granted" => item[q].asset = 0
<1>1. ImagesAreThere /\ OneStory
  BY DEF ImagesInv
<1>2. \A k \in assets : k[2] # q
  BY <1>1 DEF ImagesAreThere
<1>3. scope = "granted" /\ item[q].asset # 0 => <<item[q].asset, q>> \in assets
  BY <1>1 DEF ImagesAreThere
<1>4. <<item[q].asset, q>>[2] = q
  OBVIOUS
<1> QED
  BY <1>1, <1>2, <1>3, <1>4 DEF OneStory

LEMMA BeginKeeps ==
    ASSUME ImagesInv, NEW a \in Run, BeginImages(a)
    PROVE  ImagesInv'
<1>1. run[a].at = "begin" /\ UNCHANGED <<task, scope, operation, known, item, assets, disk, paid, cleaner>>
  BY DEF BeginImages, At
<1>2. CASE ~LockedQuiz(a)
  <2>1. Escape(a, "failing") /\ images' = images
    BY <1>2 DEF BeginImages
  <2>2. run' \in [Run -> RunRow] /\ run'[a].at = "failing" /\ \A b \in Run \ {a} : run'[b] = run[b]
    BY <2>1, AttemptFacts, EscapeMoves, Places
  <2>3. ImagesTypeOK'
    BY <1>1, <2>1, <2>2, AttemptFacts DEF ImagesTypeOK, RunRow, disk
  <2>4. ImagesAreThere' /\ OneStory'
    BY <1>1, <2>1, PicturesStay DEF disk
  <2> QED
    BY <1>1, <2>2, <2>3, <2>4, EscapeStep DEF disk
<1>3. CASE LockedQuiz(a)
  <2>1. Goto(a, "look") /\ images' = "running"
    BY <1>3 DEF BeginImages
  <2>2. /\ run' \in [Run -> RunRow] /\ \A b \in Run \ {a} : run'[b] = run[b]
        /\ run'[a].at = "look" /\ run'[a].q = run[a].q /\ run'[a].ends = run[a].ends
    BY <2>1, AttemptFacts, GotoMoves, Places
  <2>3. ImagesTypeOK'
    BY <1>1, <2>1, <2>2, AttemptFacts DEF ImagesTypeOK, RunRow, disk
  <2>4. ImagesAreThere' /\ OneStory'
    BY <1>1, <1>3, AttemptFacts DEF ImagesAreThere, OneStory, disk
  <2>5. FilesAhead(a)'
    BY <1>1, <2>2, AttemptFacts DEF FilesAhead, Written, disk
  <2>6. run[a].q = 1 /\ \A q \in Question : ~(q < 1)
    <3>1. run[a].q = 1
      BY <1>1, AttemptFacts DEF FilesAhead
    <3>2. \A q \in Question : ~(q < 1)
      BY ImagesFacts
    <3> QED
      BY <3>1, <3>2
  <2>7. DrawsOnce(a)' /\ EndsTrue(a)'
    BY <2>2, <2>6 DEF DrawsOnce, EndsTrue
  <2> QED
    BY <1>1, <2>2, <2>3, <2>4, <2>5, <2>7, RunStep DEF disk
<1> QED
  BY <1>2, <1>3

LEMMA LookKeeps ==
    ASSUME ImagesInv, NEW a \in Run, Look(a)
    PROVE  ImagesInv'
<1> DEFINE q == run[a].q
<1>1. run[a].at = "look" /\ UNCHANGED <<task, scope, known, item, images, assets, disk, paid, cleaner>>
  BY DEF Look, At
<1>2. /\ ImagesTypeOK /\ ImagesAreThere /\ OneStory /\ FilesAhead(a) /\ EndsTrue(a)
      /\ run[a] \in RunRow /\ q \in Question
      /\ LockedQuiz(a) => a = task.attempt /\ scope = "granted"
  BY AttemptFacts
<1>3. \/ ~LockedQuiz(a) /\ Escape(a, "failing") /\ UNCHANGED operation
      \/ /\ LockedQuiz(a) /\ operation[q] = "none"
         /\ operation' = [operation EXCEPT ![q] = "submitting"]
         /\ Goto(a, "call") \/ Escape(a, "failing")
      \/ /\ LockedQuiz(a) /\ UNCHANGED operation
         /\ \/ operation[q] \in {"completed", "failed", "unknown"} /\ NextQuestion(a, operation[q])
            \/ operation[q] = "submitting" /\ Excuse(a, "unknown")
            \/ /\ operation[q] \in {"generated", "download_failed"}
               /\ run' = [run EXCEPT ![a].at = "fetch", ![a].url = (q \in known)]
  BY DEF Look, Fresh
<1>4. CASE ~LockedQuiz(a) /\ Escape(a, "failing") /\ UNCHANGED operation
  <2>1. run' \in [Run -> RunRow] /\ run'[a].at = "failing" /\ \A b \in Run \ {a} : run'[b] = run[b]
    BY <1>2, <1>4, EscapeMoves, Places
  <2>2. ImagesTypeOK'
    BY <1>1, <1>2, <1>4, <2>1, ImagesTypeParts, ImagesTypeFacts DEF disk
  <2>3. ImagesAreThere' /\ OneStory'
    BY <1>1, <1>4, PicturesStay DEF disk
  <2> QED
    BY <1>1, <1>4, <2>1, <2>2, <2>3, EscapeStep DEF disk
<1>5. CASE /\ LockedQuiz(a) /\ operation[q] = "none"
           /\ operation' = [operation EXCEPT ![q] = "submitting"]
           /\ Goto(a, "call") \/ Escape(a, "failing")
  <2>1. /\ operation' \in [Question -> Operations] /\ operation'[q] = "submitting"
        /\ \A r \in Question : r # q => operation'[r] = operation[r]
    BY <1>2, <1>5, ImagesTypeFacts DEF Operations
  <2>2. run' \in [Run -> RunRow] /\ \A b \in Run \ {a} : run'[b] = run[b]
    BY <1>2, <1>5, GotoMoves, EscapeMoves, Places
  <2>3. ImagesTypeOK'
    BY <1>1, <1>2, <2>1, <2>2, ImagesTypeParts, ImagesTypeFacts DEF disk
  <2>4. \A k \in assets : k[2] \in Question /\ k[2] # q
    BY <1>2, <1>5, UndrawnHasNoRow, ImagesTypeFacts DEF Key
  <2>5. paid[q] = 0 /\ item[q].status # "completed"
    BY <1>2, <1>5 DEF OneStory
  <2>6. ImagesAreThere'
    BY <1>1, <1>2, <2>1, <2>4 DEF ImagesAreThere, disk
  <2>7. OneStory'
    BY <1>1, <1>2, <2>1, <2>5 DEF OneStory
  <2>8. CASE Goto(a, "call")
    <3>1. run'[a].at = "call" /\ run'[a].q = q /\ run'[a].ends = run[a].ends
      BY <1>2, <2>8, GotoMoves, Places
    <3>2. FilesAhead(a)'
      BY <1>1, <1>2, <3>1 DEF FilesAhead, Written, disk
    <3>3. DrawsOnce(a)'
      BY <1>1, <2>1, <2>5, <3>1 DEF DrawsOnce
    <3>4. EndsTrue(a)'
      BY <1>1, <1>2, <3>1 DEF EndsTrue
    <3> QED
      BY <1>1, <1>2, <1>5, <2>2, <2>3, <2>6, <2>7, <3>2, <3>3, <3>4, RunStep DEF disk
  <2>9. CASE Escape(a, "failing")
    <3>1. run'[a].at = "failing"
      BY <1>2, <2>9, EscapeMoves, Places
    <3> QED
      BY <1>1, <1>2, <1>5, <2>2, <2>3, <2>6, <2>7, <3>1, EscapeStep DEF disk
  <2> QED
    BY <1>5, <2>8, <2>9
<1>6. CASE /\ LockedQuiz(a) /\ UNCHANGED operation
           /\ operation[q] \in {"completed", "failed", "unknown"} /\ NextQuestion(a, operation[q])
  <2>1. operation[q] \in End
    BY <1>6, Places
  <2>2. run' \in [Run -> RunRow] /\ \A b \in Run \ {a} : run'[b] = run[b]
    BY <1>2, <1>6, <2>1, NextMoves
  <2>3. ImagesTypeOK'
    BY <1>1, <1>2, <1>6, <2>2, ImagesTypeParts, ImagesTypeFacts DEF disk
  <2>4. ImagesAreThere' /\ OneStory'
    BY <1>1, <1>6, PicturesStay DEF disk
  <2>5. \A r \in Question : r > q => ~Written(a, r)'
    BY <1>1, <1>2 DEF FilesAhead, Written, disk
  <2>6. operation[q] = "completed" <=> item'[q].status = "completed"
    BY <1>1, <1>2 DEF OneStory
  <2>7. \A r \in Question : a = task.attempt /\ r < q =>
             (run[a].ends[r] = "completed" <=> item'[r].status = "completed")
    BY <1>1, <1>2 DEF EndsTrue
  <2>8. FilesAhead(a)' /\ DrawsOnce(a)' /\ EndsTrue(a)'
    BY <1>1, <1>2, <1>6, <2>1, <2>5, <2>6, <2>7, NextStep
  <2> QED
    BY <1>1, <1>6, <2>2, <2>3, <2>4, <2>8, RunStep DEF disk
<1>7. CASE /\ LockedQuiz(a) /\ UNCHANGED operation
           /\ \/ operation[q] = "submitting" /\ Excuse(a, "unknown")
              \/ /\ operation[q] \in {"generated", "download_failed"}
                 /\ run' = [run EXCEPT ![a].at = "fetch", ![a].url = (q \in known)]
  <2>1. /\ run' \in [Run -> RunRow] /\ \A b \in Run \ {a} : run'[b] = run[b]
        /\ run'[a].q = q /\ run'[a].ends = run[a].ends
        /\ run'[a].at = "fetch" \/ (run'[a].at = "mark" /\ run'[a].why = "unknown")
    <3>1. CASE Excuse(a, "unknown")
      BY <1>2, <3>1, ExcuseMoves, Places
    <3>2. CASE run' = [run EXCEPT ![a].at = "fetch", ![a].url = (q \in known)]
      <4>1. "fetch" \in Stop /\ "none" \in Why /\ (q \in known) \in BOOLEAN
        BY Places
      <4> QED
        BY <1>2, <3>2, <4>1, PlaceMoves
    <3> QED
      BY <1>7, <3>1, <3>2
  <2>2. ImagesTypeOK'
    BY <1>1, <1>2, <1>7, <2>1, ImagesTypeParts, ImagesTypeFacts DEF disk
  <2>3. ImagesAreThere' /\ OneStory'
    BY <1>1, <1>7, PicturesStay DEF disk
  <2>4. FilesAhead(a)'
    BY <1>1, <1>2, <2>1 DEF FilesAhead, Written, disk
  <2>5. DrawsOnce(a)' /\ EndsTrue(a)'
    BY <1>1, <1>2, <1>7, <2>1 DEF DrawsOnce, EndsTrue, Undrawn
  <2> QED
    BY <1>1, <1>7, <2>1, <2>2, <2>3, <2>4, <2>5, RunStep DEF disk
<1> QED
  BY <1>3, <1>4, <1>5, <1>6, <1>7

LEMMA CallKeeps ==
    ASSUME ImagesInv, NEW a \in Run, CallProvider(a)
    PROVE  ImagesInv'
<1> DEFINE q == run[a].q
<1>1. /\ run[a].at = "call"
      /\ UNCHANGED <<task, scope, operation, known, item, images, assets, disk, cleaner>>
  BY DEF CallProvider, At, rows
<1>2. /\ ImagesTypeOK /\ ImagesAreThere /\ OneStory /\ FilesAhead(a) /\ DrawsOnce(a) /\ EndsTrue(a)
      /\ run[a] \in RunRow /\ q \in Question
      /\ LockedQuiz(a) => a = task.attempt /\ scope = "granted"
  BY AttemptFacts
<1>3. \/ ~LockedQuiz(a) /\ Escape(a, "failing") /\ UNCHANGED paid
      \/ LockedQuiz(a) /\ Excuse(a, "failed") /\ UNCHANGED paid
      \/ /\ LockedQuiz(a)
         /\ paid' = [paid EXCEPT ![q] = @ + 1]
         /\ \/ run' = [run EXCEPT ![a].at = "save", ![a].url = TRUE]
            \/ Excuse(a, "failed")
            \/ Excuse(a, "unknown")
  BY DEF CallProvider
<1>4. CASE ~LockedQuiz(a) /\ Escape(a, "failing") /\ UNCHANGED paid
  <2>1. run' \in [Run -> RunRow] /\ run'[a].at = "failing" /\ \A b \in Run \ {a} : run'[b] = run[b]
    BY <1>2, <1>4, EscapeMoves, Places
  <2>2. ImagesTypeOK'
    BY <1>1, <1>2, <1>4, <2>1, ImagesTypeParts, ImagesTypeFacts DEF disk
  <2>3. ImagesAreThere' /\ OneStory'
    BY <1>1, <1>4, PicturesStay DEF disk
  <2> QED
    BY <1>1, <1>4, <2>1, <2>2, <2>3, EscapeStep DEF disk
<1>5. CASE /\ LockedQuiz(a)
           /\ paid' = paid \/ paid' = [paid EXCEPT ![q] = @ + 1]
           /\ \/ run' = [run EXCEPT ![a].at = "save", ![a].url = TRUE]
              \/ Excuse(a, "failed")
              \/ Excuse(a, "unknown")
  <2>1. /\ run' \in [Run -> RunRow] /\ \A b \in Run \ {a} : run'[b] = run[b]
        /\ run'[a].q = q /\ run'[a].ends = run[a].ends
        /\ run'[a].at = "save" \/ (run'[a].at = "mark" /\ run'[a].why \in {"failed", "unknown"})
    <3>1. CASE Excuse(a, "unknown") \/ Excuse(a, "failed")
      BY <1>2, <3>1, ExcuseMoves, Places
    <3>2. CASE run' = [run EXCEPT ![a].at = "save", ![a].url = TRUE]
      <4>1. "save" \in Stop /\ "none" \in Why /\ TRUE \in BOOLEAN
        BY Places
      <4> QED
        BY <1>2, <3>2, <4>1, PlaceMoves
    <3> QED
      BY <1>5, <3>1, <3>2
  <2>2. operation[q] = "submitting" /\ paid[q] = 0
    BY <1>1, <1>2, <1>5 DEF DrawsOnce
  <2>3. /\ paid' \in [Question -> Nat] /\ paid'[q] <= 1
        /\ \A r \in Question : r # q => paid'[r] = paid[r]
    BY <1>2, <1>5, <2>2, ImagesTypeFacts
  <2>4. ImagesTypeOK'
    BY <1>1, <1>2, <2>1, <2>3 DEF ImagesTypeOK, RunRow, disk
  <2>5. ImagesAreThere'
    BY <1>1, <1>2 DEF ImagesAreThere, disk
  <2>6. OneStory'
    BY <1>1, <1>2, <2>2, <2>3 DEF OneStory
  <2>7. FilesAhead(a)'
    BY <1>1, <1>2, <2>1 DEF FilesAhead, Written, disk
  <2>8. DrawsOnce(a)' /\ EndsTrue(a)'
    BY <1>1, <1>2, <1>5, <2>1, <2>2 DEF DrawsOnce, EndsTrue, Undrawn
  <2> QED
    BY <1>1, <1>2, <1>5, <2>1, <2>4, <2>5, <2>6, <2>7, <2>8, RunStep DEF disk
<1> QED
  BY <1>3, <1>4, <1>5

LEMMA QuestionsDiffer ==
    ASSUME NEW q \in Question, NEW r \in Question
    PROVE  (r < q => r # q) /\ (r > q => r # q)
<1>1. q \in Nat /\ r \in Nat
  BY ImagesFacts
<1> QED
  BY <1>1

LEMMA SaveKeeps ==
    ASSUME ImagesInv, NEW a \in Run, SaveAddress(a)
    PROVE  ImagesInv'
<1> DEFINE q == run[a].q
<1>1. run[a].at = "save" /\ UNCHANGED <<task, scope, images, assets, disk, paid, cleaner>>
  BY DEF SaveAddress, At, rows
<1>2. /\ ImagesTypeOK /\ ImagesAreThere /\ OneStory /\ FilesAhead(a) /\ DrawsOnce(a) /\ EndsTrue(a)
      /\ run[a] \in RunRow /\ q \in Question
      /\ LockedQuiz(a) => a = task.attempt /\ scope = "granted" /\ task.status = "running"
  BY AttemptFacts
<1>3. \/ ~LockedQuiz(a) /\ Escape(a, "failing") /\ UNCHANGED rows
      \/ LockedQuiz(a) /\ Excuse(a, "download_failed") /\ UNCHANGED rows
      \/ /\ LockedQuiz(a)
         /\ operation' = [operation EXCEPT ![q] = "generated"] /\ known' = known \cup {q}
         /\ item' = [item EXCEPT ![q].status = "generated"]
         /\ Goto(a, "fetch") \/ Excuse(a, "download_failed")
  BY DEF SaveAddress
<1>4. CASE ~LockedQuiz(a) /\ Escape(a, "failing") /\ UNCHANGED rows
  <2>1. run' \in [Run -> RunRow] /\ run'[a].at = "failing" /\ \A b \in Run \ {a} : run'[b] = run[b]
    BY <1>2, <1>4, EscapeMoves, Places
  <2>2. ImagesTypeOK'
    BY <1>1, <1>2, <1>4, <2>1, ImagesTypeParts, ImagesTypeFacts DEF rows, disk
  <2>3. ImagesAreThere' /\ OneStory'
    BY <1>1, <1>4, PicturesStay DEF rows, disk
  <2> QED
    BY <1>1, <1>4, <2>1, <2>2, <2>3, EscapeStep DEF rows, disk
<1>5. CASE LockedQuiz(a) /\ Excuse(a, "download_failed") /\ UNCHANGED rows
  <2>1. /\ run' \in [Run -> RunRow] /\ \A b \in Run \ {a} : run'[b] = run[b]
        /\ run'[a].at = "mark" /\ run'[a].why = "download_failed"
        /\ run'[a].q = q /\ run'[a].ends = run[a].ends
    BY <1>2, <1>5, ExcuseMoves, Places
  <2>2. ImagesTypeOK'
    BY <1>1, <1>2, <1>5, <2>1, ImagesTypeParts, ImagesTypeFacts DEF rows, disk
  <2>3. ImagesAreThere' /\ OneStory'
    BY <1>1, <1>5, PicturesStay DEF rows, disk
  <2>4. FilesAhead(a)'
    BY <1>1, <1>2, <2>1 DEF FilesAhead, Written, disk
  <2>5. DrawsOnce(a)' /\ EndsTrue(a)'
    BY <1>1, <1>2, <1>5, <2>1 DEF DrawsOnce, EndsTrue, rows
  <2> QED
    BY <1>1, <1>5, <2>1, <2>2, <2>3, <2>4, <2>5, RunStep DEF rows, disk
<1>6. CASE /\ LockedQuiz(a)
           /\ operation' = [operation EXCEPT ![q] = "generated"] /\ known' = known \cup {q}
           /\ item' = [item EXCEPT ![q].status = "generated"]
           /\ Goto(a, "fetch") \/ Excuse(a, "download_failed")
  <2>1. operation[q] \in Undrawn /\ operation[q] # "completed"
    BY <1>1, <1>2, <1>6 DEF DrawsOnce, Undrawn
  <2>2. /\ operation' \in [Question -> Operations] /\ operation'[q] = "generated"
        /\ \A r \in Question : r # q => operation'[r] = operation[r]
    BY <1>2, <1>6, ImagesTypeFacts DEF Operations
  <2>3. item' \in [Question -> ItemRow]
    <3>1. "generated" \in Operations /\ 0 \in 0..MaxRuns
      BY ImagesFacts DEF Operations
    <3> QED
      BY <1>2, <1>6, <3>1, PictureUpdates
  <2>4. /\ item'[q].status = "generated" /\ item'[q].asset = item[q].asset
        /\ \A r \in Question : r # q => item'[r] = item[r]
    BY <1>2, <1>6, ImagesTypeFacts DEF ItemRow
  <2>5. /\ run' \in [Run -> RunRow] /\ \A b \in Run \ {a} : run'[b] = run[b]
        /\ run'[a].q = q /\ run'[a].ends = run[a].ends
        /\ run'[a].at = "fetch" \/ (run'[a].at = "mark" /\ run'[a].why = "download_failed")
    BY <1>2, <1>6, GotoMoves, ExcuseMoves, Places
  <2>6. ImagesTypeOK'
    BY <1>1, <1>2, <1>6, <2>2, <2>3, <2>5 DEF ImagesTypeOK, RunRow, ItemRow, Operations, disk
  <2>7. \A k \in assets : k[2] \in Question /\ k[2] # q
    BY <1>2, <2>1, UndrawnHasNoRow, ImagesTypeFacts DEF Key
  <2>8. ImagesAreThere'
    <3>1. \A r \in Question : item'[r].asset = item[r].asset
      BY <2>4
    <3> QED
      BY <1>1, <1>2, <1>6, <2>2, <2>7, <3>1 DEF ImagesAreThere, disk
  <2>9. OneStory'
    BY <1>1, <1>2, <2>1, <2>2, <2>4 DEF OneStory, Undrawn
  <2>10. FilesAhead(a)'
    BY <1>1, <1>2, <2>5 DEF FilesAhead, Written, disk
  <2>11. DrawsOnce(a)'
    BY <1>1, <2>2, <2>5 DEF DrawsOnce, Undrawn
  <2>12. EndsTrue(a)'
    <3>1. \A r \in Question : r < q => r # q
      BY <1>2, QuestionsDiffer
    <3> QED
      BY <1>1, <1>2, <2>4, <2>5, <3>1 DEF EndsTrue
  <2> QED
    BY <1>1, <1>2, <1>6, <2>5, <2>6, <2>8, <2>9, <2>10, <2>11, <2>12, RunStep DEF disk
<1> QED
  BY <1>3, <1>4, <1>5, <1>6

LEMMA FetchKeeps ==
    ASSUME ImagesInv, NEW a \in Run, Fetch(a)
    PROVE  ImagesInv'
<1> DEFINE q == run[a].q
<1>1. /\ run[a].at = "fetch"
      /\ UNCHANGED <<task, scope, operation, known, item, images, assets, old, doomed, paid, cleaner>>
  BY DEF Fetch, At, rows
<1>2. /\ ImagesTypeOK /\ ImagesAreThere /\ OneStory /\ FilesAhead(a) /\ DrawsOnce(a) /\ EndsTrue(a)
      /\ run[a] \in RunRow /\ q \in Question /\ <<a, q>> \in Key
      /\ LockedQuiz(a) => a = task.attempt /\ scope = "granted"
  BY AttemptFacts
<1>3. \/ Escape(a, "failing") /\ UNCHANGED files
      \/ Excuse(a, "unknown") /\ UNCHANGED files
      \/ Excuse(a, "download_failed") /\ UNCHANGED files
      \/ /\ LockedQuiz(a) /\ files' = files \cup {<<a, q>>}
         /\ run' = [run EXCEPT ![a].at = "commit", ![a].url = FALSE]
  BY DEF Fetch
<1>4. CASE Escape(a, "failing") /\ UNCHANGED files
  <2>1. run' \in [Run -> RunRow] /\ run'[a].at = "failing" /\ \A b \in Run \ {a} : run'[b] = run[b]
    BY <1>2, <1>4, EscapeMoves, Places
  <2>2. ImagesTypeOK'
    BY <1>1, <1>2, <1>4, <2>1, ImagesTypeParts, ImagesTypeFacts
  <2>3. ImagesAreThere' /\ OneStory'
    BY <1>1, <1>4, PicturesStay
  <2> QED
    BY <1>1, <1>4, <2>1, <2>2, <2>3, EscapeStep
<1>5. CASE (Excuse(a, "unknown") \/ Excuse(a, "download_failed")) /\ UNCHANGED files
  <2>1. /\ run' \in [Run -> RunRow] /\ \A b \in Run \ {a} : run'[b] = run[b]
        /\ run'[a].at = "mark" /\ run'[a].why \in {"unknown", "download_failed"}
        /\ run'[a].q = q /\ run'[a].ends = run[a].ends
    BY <1>2, <1>5, ExcuseMoves, Places
  <2>2. ImagesTypeOK'
    BY <1>1, <1>2, <1>5, <2>1, ImagesTypeParts, ImagesTypeFacts
  <2>3. ImagesAreThere' /\ OneStory'
    BY <1>1, <1>5, PicturesStay
  <2>4. FilesAhead(a)'
    BY <1>1, <1>2, <1>5, <2>1 DEF FilesAhead, Written
  <2>5. DrawsOnce(a)' /\ EndsTrue(a)'
    BY <1>1, <1>2, <2>1 DEF DrawsOnce, EndsTrue
  <2> QED
    BY <1>1, <1>5, <2>1, <2>2, <2>3, <2>4, <2>5, RunStep
<1>6. CASE /\ LockedQuiz(a) /\ files' = files \cup {<<a, q>>}
           /\ run' = [run EXCEPT ![a].at = "commit", ![a].url = FALSE]
  <2>1. /\ run' \in [Run -> RunRow] /\ \A b \in Run \ {a} : run'[b] = run[b]
        /\ run'[a].at = "commit" /\ run'[a].q = q /\ run'[a].ends = run[a].ends
    <3>1. "commit" \in Stop /\ "none" \in Why /\ FALSE \in BOOLEAN
      BY Places
    <3> QED
      BY <1>2, <1>6, <3>1, PlaceMoves
  <2>2. old' \subseteq files' /\ files' \subseteq Key
    BY <1>1, <1>2, <1>6, ImagesTypeFacts
  <2>3. ImagesTypeOK'
    BY <1>1, <1>2, <2>1, <2>2, ImagesTypeParts, ImagesTypeFacts
  <2>4. ImagesAreThere' /\ OneStory'
    BY <1>1, <1>6, PicturesStay
  <2>5. ~Written(a, q) /\ old \subseteq files /\ \A r \in Question : r > q => ~Written(a, r) /\ r # q
    BY <1>1, <1>2, ImagesTypeFacts, ImagesFacts DEF FilesAhead
  <2>6. FilesAhead(a)'
    BY <1>1, <1>2, <1>6, <2>1, <2>5 DEF FilesAhead, Written
  <2>7. DrawsOnce(a)' /\ EndsTrue(a)'
    BY <1>1, <1>2, <2>1 DEF DrawsOnce, EndsTrue
  <2>8. \A b \in Run \ {a}, r \in Question : <<b, r>> \in files' <=> <<b, r>> \in files
    BY <1>6
  <2> QED
    BY <1>1, <1>6, <2>1, <2>3, <2>4, <2>6, <2>7, <2>8, RunStep
<1> QED
  BY <1>3, <1>4, <1>5, <1>6

LEMMA CommitKeeps ==
    ASSUME ImagesInv, NEW a \in Run, CommitPicture(a)
    PROVE  ImagesInv'
<1> DEFINE q == run[a].q
<1>1. run[a].at = "commit" /\ UNCHANGED <<task, scope, known, images, disk, paid, cleaner>>
  BY DEF CommitPicture, At
<1>2. /\ ImagesTypeOK /\ ImagesAreThere /\ OneStory /\ FilesAhead(a) /\ DrawsOnce(a) /\ EndsTrue(a)
      /\ run[a] \in RunRow /\ q \in Question /\ <<a, q>> \in Key
      /\ LockedQuiz(a) => /\ a = task.attempt /\ scope = "granted" /\ ~cleaner.on
                          /\ task.status = "running"
  BY AttemptFacts
<1>3. \/ /\ LockedQuiz(a) /\ Insert(a, q)
         /\ \/ NextQuestion(a, "completed")
            \/ \E why \in {"error", "stop"} :
                 run' = [run EXCEPT ![a].at = "check", ![a].why = why]
      \/ /\ \E why \in {"error", "stop", "stale_lease"} :
              run' = [run EXCEPT ![a].at = "check", ![a].why = why]
         /\ UNCHANGED <<assets, item, operation>>
  BY DEF CommitPicture
<1>4. ASSUME NEW why \in {"error", "stop", "stale_lease"},
             run' = [run EXCEPT ![a].at = "check", ![a].why = why]
      PROVE  /\ run' \in [Run -> RunRow] /\ \A b \in Run \ {a} : run'[b] = run[b]
             /\ run'[a].at = "check" /\ run'[a].q = q /\ run'[a].ends = run[a].ends
  <2>1. "check" \in Stop /\ why \in Why /\ TRUE \in BOOLEAN
    BY Places
  <2> QED
    BY <1>2, <1>4, <2>1, PlaceMoves
<1>5. run'[a].at = "check" /\ run'[a].q = q => FilesAhead(a)'
  BY <1>1, <1>2 DEF FilesAhead, Written, disk
<1>6. CASE /\ \E why \in {"error", "stop", "stale_lease"} :
                run' = [run EXCEPT ![a].at = "check", ![a].why = why]
           /\ UNCHANGED <<assets, item, operation>>
  <2>1. /\ run' \in [Run -> RunRow] /\ \A b \in Run \ {a} : run'[b] = run[b]
        /\ run'[a].at = "check" /\ run'[a].q = q /\ run'[a].ends = run[a].ends
    BY <1>4, <1>6
  <2>2. ImagesTypeOK'
    BY <1>1, <1>2, <1>6, <2>1, ImagesTypeParts, ImagesTypeFacts DEF disk
  <2>3. ImagesAreThere' /\ OneStory'
    BY <1>1, <1>6, PicturesStay DEF disk
  <2>4. DrawsOnce(a)' /\ EndsTrue(a)'
    BY <1>1, <1>2, <1>6, <2>1 DEF DrawsOnce, EndsTrue
  <2> QED
    BY <1>1, <1>5, <1>6, <2>1, <2>2, <2>3, <2>4, RunStep DEF disk
<1>7. CASE /\ LockedQuiz(a) /\ Insert(a, q)
           /\ \/ NextQuestion(a, "completed")
              \/ \E why \in {"error", "stop"} :
                   run' = [run EXCEPT ![a].at = "check", ![a].why = why]
  <2>1. operation[q] \in Undrawn /\ operation[q] # "completed"
    BY <1>1, <1>2, <1>7 DEF DrawsOnce, Undrawn
  <2>2. \A k \in assets : k[2] \in Question /\ k[2] # q
    BY <1>2, <2>1, UndrawnHasNoRow, ImagesTypeFacts DEF Key
  <2>3. /\ assets' = assets \cup {<<a, q>>}
        /\ operation' = [operation EXCEPT ![q] = "completed"]
        /\ item' = [item EXCEPT ![q] = [status |-> "completed", asset |-> a]]
    BY <1>7 DEF Insert
  <2>4. operation' \in [Question -> Operations] /\ item' \in [Question -> ItemRow]
    <3>1. a \in 0..MaxRuns /\ "completed" \in Operations
      BY ImagesFacts DEF Operations
    <3> QED
      BY <1>2, <2>3, <3>1, PictureUpdates
  <2>5. /\ operation'[q] = "completed" /\ item'[q].status = "completed" /\ item'[q].asset = a
        /\ \A r \in Question : r # q => operation'[r] = operation[r] /\ item'[r] = item[r]
    BY <1>2, <2>3, ImagesTypeFacts
  <2>6. run' \in [Run -> RunRow] /\ \A b \in Run \ {a} : run'[b] = run[b]
    BY <1>2, <1>4, <1>7, NextMoves, Places
  <2>7. ImagesTypeOK'
    BY <1>1, <1>2, <2>3, <2>4, <2>6, ImagesTypeParts, ImagesTypeFacts DEF disk
  <2>8. ImagesAreThere'
    <3>1. <<a, q>> \in assets' \cap files' /\ <<a, q>>[1] = a /\ <<a, q>>[2] = q
      BY <1>1, <1>2, <1>7, <2>3 DEF FilesAhead, disk
    <3>2. \A r \in Question : item'[r].asset # 0 /\ scope' = "granted"
                                => <<item'[r].asset, r>> \in assets' \cap files'
      <4> SUFFICES ASSUME NEW r \in Question, item'[r].asset # 0
                   PROVE  <<item'[r].asset, r>> \in assets' \cap files'
        OBVIOUS
      <4>1. CASE r = q
        BY <2>5, <3>1, <4>1
      <4>2. CASE r # q
        BY <1>1, <1>2, <1>7, <2>3, <2>5, <4>2 DEF ImagesAreThere, disk
      <4> QED
        BY <4>1, <4>2
    <3>3. \A k \in assets' : item'[k[2]].asset = k[1] /\ operation'[k[2]] = "completed"
      BY <1>2, <2>2, <2>3, <2>5, <3>1 DEF ImagesAreThere
    <3> QED
      BY <1>1, <1>2, <1>7, <3>2, <3>3 DEF ImagesAreThere
  <2>9. OneStory'
    BY <1>1, <1>2, <1>7, <2>5 DEF OneStory
  <2>10. \A r \in Question : (r < q => r # q) /\ (r > q => r # q)
    BY <1>2, QuestionsDiffer
  <2>11. CASE NextQuestion(a, "completed")
    <3>1. \A r \in Question : r > q => ~Written(a, r)'
      BY <1>1, <1>2 DEF FilesAhead, Written, disk
    <3>2. \A r \in Question : a = task.attempt /\ r < q =>
               (run[a].ends[r] = "completed" <=> item'[r].status = "completed")
      BY <1>1, <1>2, <2>5, <2>10 DEF EndsTrue
    <3>3. FilesAhead(a)' /\ DrawsOnce(a)' /\ EndsTrue(a)'
      BY <1>1, <1>2, <2>5, <2>11, <3>1, <3>2, NextStep, Places
    <3> QED
      BY <1>1, <1>2, <1>7, <2>6, <2>7, <2>8, <2>9, <3>3, RunStep DEF disk
  <2>12. CASE \E why \in {"error", "stop"} :
                run' = [run EXCEPT ![a].at = "check", ![a].why = why]
    <3>1. run'[a].at = "check" /\ run'[a].q = q /\ run'[a].ends = run[a].ends
      BY <1>4, <2>12
    <3>2. DrawsOnce(a)'
      BY <2>3, <2>5, <3>1 DEF DrawsOnce
    <3>3. EndsTrue(a)'
      BY <1>1, <1>2, <2>5, <2>10, <3>1 DEF EndsTrue
    <3> QED
      BY <1>1, <1>2, <1>5, <1>7, <2>6, <2>7, <2>8, <2>9, <3>1, <3>2, <3>3, RunStep DEF disk
  <2> QED
    BY <1>7, <2>11, <2>12
<1> QED
  BY <1>3, <1>6, <1>7

LEMMA CheckKeeps ==
    ASSUME ImagesInv, NEW a \in Run, CheckPublished(a)
    PROVE  ImagesInv'
<1> DEFINE q == run[a].q
<1>1. /\ run[a].at = "check"
      /\ UNCHANGED <<task, scope, operation, known, item, images, assets, old, doomed, paid, cleaner>>
  BY DEF CheckPublished, At, rows
<1>2. /\ ImagesTypeOK /\ ImagesAreThere /\ OneStory /\ FilesAhead(a) /\ DrawsOnce(a) /\ EndsTrue(a)
      /\ run[a] \in RunRow /\ q \in Question /\ <<a, q>> \in Key
  BY AttemptFacts
<1>3. \/ (Escape(a, "stopped") \/ Escape(a, "failing")) /\ UNCHANGED files
      \/ Published(a) /\ UNCHANGED files /\ NextQuestion(a, "completed")
      \/ /\ ~Published(a)
         /\ files' = files \ {<<a, q>>}
         /\ Escape(a, "stopped") \/ Escape(a, "failing") \/ Excuse(a, "download_failed")
  BY DEF CheckPublished
<1>4. <<a, q>> \notin old /\ old \subseteq files
  BY <1>1, <1>2, ImagesTypeFacts DEF FilesAhead
<1>5. \A r \in Question : r > q => ~Written(a, r)
  BY <1>1, <1>2 DEF FilesAhead
<1>6. CASE Published(a) /\ UNCHANGED files /\ NextQuestion(a, "completed")
  <2>1. run' \in [Run -> RunRow] /\ \A b \in Run \ {a} : run'[b] = run[b]
    BY <1>2, <1>6, NextMoves, Places
  <2>2. ImagesTypeOK'
    BY <1>1, <1>2, <1>6, <2>1, ImagesTypeParts, ImagesTypeFacts
  <2>3. ImagesAreThere' /\ OneStory'
    BY <1>1, <1>6, PicturesStay
  <2>4. \A r \in Question : r > q => ~Written(a, r)'
    BY <1>1, <1>5, <1>6 DEF Written
  <2>5. item'[q].status = "completed"
    BY <1>1, <1>2, <1>6 DEF OneStory, Published
  <2>6. \A r \in Question : a = task.attempt /\ r < q =>
             (run[a].ends[r] = "completed" <=> item'[r].status = "completed")
    BY <1>1, <1>2 DEF EndsTrue
  <2>7. FilesAhead(a)' /\ DrawsOnce(a)' /\ EndsTrue(a)'
    BY <1>1, <1>2, <1>6, <2>4, <2>5, <2>6, NextStep, Places
  <2> QED
    BY <1>1, <1>6, <2>1, <2>2, <2>3, <2>7, RunStep
<1>7. CASE /\ files' = files \/ (~Published(a) /\ files' = files \ {<<a, q>>})
           /\ Escape(a, "stopped") \/ Escape(a, "failing") \/ Excuse(a, "download_failed")
           /\ Excuse(a, "download_failed") => ~Published(a)
  <2>1. /\ run' \in [Run -> RunRow] /\ \A b \in Run \ {a} : run'[b] = run[b]
        /\ \/ run'[a].at \in {"stopped", "failing"}
           \/ /\ Excuse(a, "download_failed") /\ run'[a].at = "mark"
              /\ run'[a].why = "download_failed"
              /\ run'[a].q = q /\ run'[a].ends = run[a].ends
    BY <1>2, <1>7, EscapeMoves, ExcuseMoves, Places
  <2>2. files' \subseteq files /\ old' \subseteq files' /\ files' \subseteq Key
    BY <1>1, <1>2, <1>4, <1>7, ImagesTypeFacts
  <2>3. ImagesTypeOK'
    BY <1>1, <1>2, <2>1, <2>2, ImagesTypeParts, ImagesTypeFacts
  <2>4. \A k \in assets : k # <<a, q>> \/ files' = files
    BY <1>2, <1>7 DEF Published, ImagesAreThere
  <2>5. ImagesAreThere' /\ OneStory'
    BY <1>1, <1>7, <2>4, PicturesStay
  <2>6. \A b \in Run \ {a}, r \in Question : <<b, r>> \in files' <=> <<b, r>> \in files
    BY <1>7
  <2>7. CASE run'[a].at \in {"stopped", "failing"}
    BY <1>1, <2>1, <2>3, <2>5, <2>6, <2>7, EscapeStep
  <2>8. CASE /\ Excuse(a, "download_failed") /\ run'[a].at = "mark"
             /\ run'[a].why = "download_failed"
             /\ run'[a].q = q /\ run'[a].ends = run[a].ends
    <3>1. FilesAhead(a)'
      BY <1>1, <1>5, <2>2, <2>8 DEF FilesAhead, Written
    <3>2. DrawsOnce(a)'
      BY <1>1, <1>2, <1>7, <2>8 DEF DrawsOnce, Published
    <3>3. EndsTrue(a)'
      BY <1>1, <1>2, <2>8 DEF EndsTrue
    <3> QED
      BY <1>1, <2>1, <2>3, <2>5, <2>6, <3>1, <3>2, <3>3, RunStep
  <2> QED
    BY <2>1, <2>7, <2>8
<1>8. Escape(a, "stopped") \/ Escape(a, "failing") => ~Excuse(a, "download_failed")
  BY <1>2, EscapeMoves, ExcuseMoves, Places
<1> QED
  BY <1>3, <1>6, <1>7, <1>8

LEMMA MarkKeeps ==
    ASSUME ImagesInv, NEW a \in Run, Mark(a)
    PROVE  ImagesInv'
<1> DEFINE q == run[a].q
           why == run[a].why
           told == IF why = "download_failed" THEN "failed" ELSE why
<1>1. run[a].at = "mark" /\ UNCHANGED <<task, scope, known, images, assets, disk, paid, cleaner>>
  BY DEF Mark, At
<1>2. /\ ImagesTypeOK /\ ImagesAreThere /\ OneStory /\ FilesAhead(a) /\ DrawsOnce(a) /\ EndsTrue(a)
      /\ run[a] \in RunRow /\ q \in Question
      /\ LockedQuiz(a) => a = task.attempt /\ scope = "granted" /\ task.status = "running"
  BY AttemptFacts
<1>3. \/ Escape(a, "failing") /\ UNCHANGED <<operation, item>>
      \/ /\ LockedQuiz(a)
         /\ operation' = [operation EXCEPT ![q] = why]
         /\ item' = [item EXCEPT ![q].status = told]
         /\ NextQuestion(a, why) \/ Escape(a, "failing")
  BY DEF Mark
<1>4. CASE Escape(a, "failing") /\ UNCHANGED <<operation, item>>
  <2>1. run' \in [Run -> RunRow] /\ run'[a].at = "failing" /\ \A b \in Run \ {a} : run'[b] = run[b]
    BY <1>2, <1>4, EscapeMoves, Places
  <2>2. ImagesTypeOK'
    BY <1>1, <1>2, <1>4, <2>1, ImagesTypeParts, ImagesTypeFacts DEF disk
  <2>3. ImagesAreThere' /\ OneStory'
    BY <1>1, <1>4, PicturesStay DEF disk
  <2> QED
    BY <1>1, <1>4, <2>1, <2>2, <2>3, EscapeStep DEF disk
<1>5. CASE /\ LockedQuiz(a)
           /\ operation' = [operation EXCEPT ![q] = why]
           /\ item' = [item EXCEPT ![q].status = told]
           /\ NextQuestion(a, why) \/ Escape(a, "failing")
  <2>1. why \in {"unknown", "failed", "download_failed"} /\ why \in End /\ why \in Operations
    BY <1>1, <1>2 DEF FilesAhead, End, Operations
  <2>2. told \in {"unknown", "failed"} /\ why # "completed"
    BY <2>1
  <2> HIDE DEF told, why
  <2>3. operation[q] \in Undrawn /\ operation[q] # "completed"
    BY <1>1, <1>2, <1>5 DEF DrawsOnce, Undrawn
  <2>4. operation' \in [Question -> Operations] /\ item' \in [Question -> ItemRow]
    <3>1. 0 \in 0..MaxRuns /\ told \in {"pending", "generated", "failed", "unknown", "completed"}
      BY <2>2, ImagesFacts
    <3> QED
      BY <1>2, <1>5, <2>1, <3>1, PictureUpdates
  <2>5. /\ operation'[q] = why /\ item'[q].status = told /\ item'[q].asset = item[q].asset
        /\ \A r \in Question : r # q => operation'[r] = operation[r] /\ item'[r] = item[r]
    BY <1>2, <1>5, ImagesTypeFacts DEF ItemRow
  <2>6. run' \in [Run -> RunRow] /\ \A b \in Run \ {a} : run'[b] = run[b]
    BY <1>2, <1>5, <2>1, NextMoves, EscapeMoves, Places
  <2>7. ImagesTypeOK'
    BY <1>1, <1>2, <2>4, <2>6, ImagesTypeParts, ImagesTypeFacts DEF disk
  <2>8. \A k \in assets : k[2] \in Question /\ k[2] # q
    BY <1>2, <2>3, UndrawnHasNoRow, ImagesTypeFacts DEF Key
  <2>9. ImagesAreThere'
    <3>1. \A r \in Question : item'[r].asset = item[r].asset
      BY <2>5
    <3> QED
      BY <1>1, <1>2, <1>5, <2>5, <2>8, <3>1 DEF ImagesAreThere, disk
  <2>10. OneStory'
    BY <1>1, <1>2, <2>1, <2>2, <2>5 DEF OneStory
  <2>11. CASE Escape(a, "failing")
    <3>1. run'[a].at = "failing"
      BY <1>2, <2>11, EscapeMoves, Places
    <3> QED
      BY <1>1, <1>2, <1>5, <2>6, <2>7, <2>9, <2>10, <3>1, EscapeStep DEF disk
  <2>12. CASE NextQuestion(a, why)
    <3>1. \A r \in Question : r > q => ~Written(a, r)'
      BY <1>1, <1>2 DEF FilesAhead, Written, disk
    <3>2. why = "completed" <=> item'[q].status = "completed"
      BY <2>2, <2>5
    <3>3. \A r \in Question : r < q => r # q
      BY <1>2, QuestionsDiffer
    <3>4. \A r \in Question : a = task.attempt /\ r < q =>
               (run[a].ends[r] = "completed" <=> item'[r].status = "completed")
      BY <1>1, <1>2, <2>5, <3>3 DEF EndsTrue
    <3>5. FilesAhead(a)' /\ DrawsOnce(a)' /\ EndsTrue(a)'
      BY <1>1, <1>2, <2>1, <2>12, <3>1, <3>2, <3>4, NextStep
    <3> QED
      BY <1>1, <1>2, <1>5, <2>6, <2>7, <2>9, <2>10, <3>5, RunStep DEF disk
  <2> QED
    BY <1>5, <2>11, <2>12
<1> QED
  BY <1>3, <1>4, <1>5

\* The summary of the quiz is that of the statuses its questions show.
LEMMA SummaryIsTrue ==
    ASSUME ImagesInv, NEW a \in Run, run[a].at = "publish", a = task.attempt
    PROVE  Summary(run[a].ends) = Summary([q \in Question |-> item[q].status])
<1>1. \A q \in Question : run[a].ends[q] = "completed" <=> item[q].status = "completed"
  BY DEF ImagesInv, EndsTrue
<1> QED
  BY <1>1 DEF Summary

LEMMA PublishKeeps ==
    ASSUME ImagesInv, NEW a \in Run, PublishQuiz(a)
    PROVE  ImagesInv'
<1>1. /\ run[a].at = "publish"
      /\ UNCHANGED <<scope, operation, known, item, assets, disk, paid, cleaner>>
  BY DEF PublishQuiz, At
<1>2. /\ ImagesTypeOK /\ ImagesAreThere /\ OneStory
      /\ LockedQuiz(a) => a = task.attempt /\ scope = "granted"
  BY AttemptFacts
<1>3. CASE ~LockedQuiz(a)
  <2>1. Escape(a, "failing") /\ UNCHANGED <<task, images>>
    BY <1>3 DEF PublishQuiz
  <2>2. run' \in [Run -> RunRow] /\ run'[a].at = "failing" /\ \A b \in Run \ {a} : run'[b] = run[b]
    BY <1>2, <2>1, EscapeMoves, Places
  <2>3. ImagesTypeOK'
    BY <1>1, <1>2, <2>1, <2>2, ImagesTypeParts, ImagesTypeFacts DEF disk
  <2>4. ImagesAreThere' /\ OneStory'
    BY <1>1, <2>1, PicturesStay DEF disk
  <2> QED
    BY <1>1, <2>1, <2>2, <2>3, <2>4, EscapeStep DEF disk
<1>4. CASE LockedQuiz(a)
  <2>1. /\ images' = Summary(run[a].ends)
        /\ task' = [task EXCEPT !.status = "completed", !.leased = FALSE]
        /\ run' = [run EXCEPT ![a] = Off]
    BY <1>4 DEF PublishQuiz
  <2>2. run' \in [Run -> RunRow] /\ run'[a].at = "off" /\ \A b \in Run \ {a} : run'[b] = run[b]
    BY <1>2, <2>1, OffType, ImagesTypeFacts
  <2>3. /\ task' \in [status : {"pending", "running", "completed", "failed"}, attempt : 0..MaxRuns,
                      leased : BOOLEAN]
        /\ task'.attempt = task.attempt
    BY <1>2, <2>1 DEF ImagesTypeOK
  <2>4. images' \in {"pending", "running", "completed", "partial", "failed"}
    BY <2>1 DEF Summary
  <2>5. ImagesTypeOK'
    BY <1>1, <1>2, <2>2, <2>3, <2>4 DEF ImagesTypeOK, RunRow, disk
  <2>6. images' = Summary([q \in Question |-> item'[q].status])
    BY <1>1, <1>2, <1>4, <2>1, SummaryIsTrue
  <2>7. ImagesAreThere' /\ OneStory'
    BY <1>1, <1>2, <2>6 DEF ImagesAreThere, OneStory, disk
  <2> QED
    BY <1>1, <1>2, <1>4, <2>2, <2>3, <2>5, <2>7, EscapeStep DEF disk
<1> QED
  BY <1>3, <1>4

\* run_images is left: by its caller, by a cancellation or by the process.
LEMMA LeaveKeeps ==
    ASSUME ImagesInv, NEW a \in Run, LeaveJob(a) \/ Interrupt(a) \/ CrashRun(a)
    PROVE  ImagesInv'
<1>1. /\ run[a].at # "off"
      /\ UNCHANGED <<scope, operation, known, item, images, assets, disk, paid, cleaner>>
  BY DEF LeaveJob, Interrupt, CrashRun, At, rows
<1>2. ImagesTypeOK
  BY DEF ImagesInv
<1>3. /\ run' \in [Run -> RunRow] /\ run'[a].at \in {"off", "stopped"}
      /\ \A b \in Run \ {a} : run'[b] = run[b]
  BY <1>2, OffType, EscapeMoves, Places, ImagesTypeFacts DEF LeaveJob, Interrupt, CrashRun
<1>4. /\ task' \in [status : {"pending", "running", "completed", "failed"}, attempt : 0..MaxRuns,
                    leased : BOOLEAN]
      /\ task'.attempt = task.attempt
      /\ task'.status = "completed" => task.status = "completed"
  <2>1. CASE task' = task
    BY <1>2, <2>1 DEF ImagesTypeOK
  <2>2. CASE \E st \in {"pending", "failed"} :
               task' = [task EXCEPT !.leased = FALSE, !.status = st]
    BY <1>2, <2>2 DEF ImagesTypeOK
  <2> QED
    BY <2>1, <2>2 DEF LeaveJob, Interrupt, CrashRun
<1>5. ImagesTypeOK'
  BY <1>1, <1>2, <1>3, <1>4 DEF ImagesTypeOK, RunRow, disk
<1>6. ImagesAreThere' /\ OneStory'
  BY <1>1, <1>4, PicturesStay DEF disk
<1> QED
  BY <1>1, <1>3, <1>4, <1>5, <1>6, EscapeStep DEF disk

LEMMA TakeKeeps ==
    ASSUME ImagesInv, TakeJob
    PROVE  ImagesInv'
<1> DEFINE n == task.attempt + 1
<1>1. ImagesTypeOK /\ ImagesAreThere /\ OneStory /\ \A a \in Run : NotYet(a) /\ FilesAhead(a)
  BY DEF ImagesInv
<1>2. ImagesTypeOK'
  BY <1>1, QueueTypes
<1>3. n \in Run /\ task.attempt \in Nat
  BY <1>1, ImagesTypeFacts, ImagesFacts DEF Run, TakeJob
<1>4. task'.attempt = n /\ task'.status = "running"
  BY <1>1 DEF ImagesTypeOK, TakeJob
<1>5. Goto(n, "begin") /\ UNCHANGED <<scope, rows, assets, disk, paid, cleaner>>
  BY DEF TakeJob, Goto
<1>6. run[n] = Off /\ \A q \in Question : ~Written(n, q)
  BY <1>1, <1>3 DEF NotYet
<1>7. \A a \in Run : a > n => a > task.attempt
  BY <1>3, ImagesFacts
<1> HIDE DEF n
<1>8. /\ run'[n].at = "begin" /\ run'[n].q = 1
      /\ \A a \in Run \ {n} : run'[a] = run[a]
  BY <1>1, <1>3, <1>5, <1>6, OffType, GotoMoves, Places
<1>9. ImagesAreThere' /\ OneStory'
  BY <1>1, <1>4, <1>5 DEF ImagesAreThere, OneStory, rows, disk
<1>10. ASSUME NEW a \in Run PROVE (NotYet(a) /\ FilesAhead(a) /\ DrawsOnce(a) /\ EndsTrue(a))'
  <2>1. CASE a = n
    <3>1. ~(a > n)
      BY <1>3, <2>1, ImagesFacts
    <3>2. \A q \in Question : ~Written(a, q)'
      BY <1>5, <1>6, <2>1 DEF Written, disk
    <3>3. 1 \in Question
      BY ImagesFacts
    <3> QED
      BY <1>4, <1>8, <2>1, <3>1, <3>2, <3>3 DEF NotYet, FilesAhead, DrawsOnce, EndsTrue
  <2>2. CASE a # n
    <3>1. NotYet(a) /\ FilesAhead(a) /\ run'[a] = run[a]
      BY <1>1, <1>8, <2>2
    <3>2. NotYet(a)' /\ FilesAhead(a)'
      BY <1>4, <1>5, <1>7, <3>1 DEF NotYet, FilesAhead, Written, disk
    <3> QED
      BY <1>4, <2>2, <3>2 DEF DrawsOnce, EndsTrue
  <2> QED
    BY <2>1, <2>2
<1> QED
  BY <1>2, <1>9, <1>10 DEF ImagesInv

LEMMA QueueKeeps ==
    ASSUME ImagesInv, LoseLease \/ EndJob \/ ReconcileImages \/ RevokeSource
                      \/ StartCleaning \/ RemoveRow \/ EndCleaning
    PROVE  ImagesInv'
<1>1. /\ ImagesTypeOK /\ ImagesAreThere /\ OneStory /\ assets \subseteq Key
      /\ \A a \in Run : FilesAhead(a)
  BY ImagesTypeFacts DEF ImagesInv
<1>2. ImagesTypeOK'
  BY <1>1, QueueTypes
<1>3. /\ UNCHANGED <<run, operation, item, paid, files, old, doomed>>
      /\ scope' = "granted" => scope = "granted" /\ assets' = assets
  BY <1>1 DEF LoseLease, EndJob, ReconcileImages, RevokeSource, StartCleaning, RemoveRow,
              EndCleaning, OneStory, rows, disk
<1>4. task'.attempt = task.attempt /\ (task'.status = "completed" => task.status = "completed")
  BY <1>1 DEF ImagesTypeOK, LoseLease, EndJob, ReconcileImages, RevokeSource, StartCleaning,
              RemoveRow, EndCleaning
<1>5. images' = images \/ task'.status = "failed"
  BY DEF LoseLease, EndJob, ReconcileImages, RevokeSource, StartCleaning, RemoveRow, EndCleaning,
         rows
<1>6. /\ assets' \subseteq assets
      /\ cleaner'.on => scope' = "revoked" /\ assets' \subseteq cleaner'.todo
      /\ scope' = "cleaned" => assets' = {}
  <2>1. CASE LoseLease \/ EndJob \/ ReconcileImages
    BY <1>1, <2>1 DEF LoseLease, EndJob, ReconcileImages, OneStory, ImagesAreThere
  <2>2. CASE RevokeSource
    BY <1>1, <2>2 DEF RevokeSource, OneStory
  <2>3. CASE StartCleaning
    BY <1>1, <2>3 DEF StartCleaning, Resting
  <2>4. CASE RemoveRow
    <3>1. cleaner'.on = cleaner.on /\ cleaner'.todo = cleaner.todo \ {cleaner.gone}
      BY <1>1, <2>4 DEF RemoveRow, ImagesTypeOK
    <3> QED
      BY <1>1, <2>4, <3>1 DEF RemoveRow, OneStory
  <2>5. CASE EndCleaning
    <3>1. cleaner'.on = FALSE
      BY <2>5 DEF EndCleaning, Resting
    <3> QED
      BY <1>1, <2>5, <3>1 DEF EndCleaning, OneStory
  <2> QED
    BY <2>1, <2>2, <2>3, <2>4, <2>5
<1>7. ImagesAreThere'
  BY <1>1, <1>3, <1>4, <1>5, <1>6 DEF ImagesAreThere
<1>8. OneStory'
  BY <1>1, <1>3, <1>6 DEF OneStory
<1>9. \A a \in Run, q \in Question : Written(a, q)' => Written(a, q)
  BY <1>3 DEF Written
<1>10. \A a \in Run : run[a].at \in {"commit", "check"} => <<a, run[a].q>> \notin old' \cup doomed'
  BY <1>1, <1>3 DEF FilesAhead
<1>11. \A a \in Run : run[a].at = "commit" /\ scope' = "granted" => <<a, run[a].q>> \in files'
  BY <1>1, <1>3 DEF FilesAhead
<1> QED
  BY <1>2, <1>3, <1>4, <1>7, <1>8, <1>9, <1>10, <1>11, QuietStep

LEMMA SweepKeeps ==
    ASSUME ImagesInv, NEW k \in Key,
           RemoveFile(k) \/ GrowOld(k) \/ QueueOrphan(k) \/ DrainOrphan(k)
    PROVE  ImagesInv'
<1>1. /\ ImagesTypeOK /\ ImagesAreThere /\ OneStory /\ old \subseteq files
      /\ \A a \in Run : FilesAhead(a)
  BY ImagesTypeFacts DEF ImagesInv
<1>2. ImagesTypeOK'
  BY <1>1, SweepTypes
<1>3. UNCHANGED <<task, scope, run, operation, item, images, assets, paid>>
  BY DEF RemoveFile, GrowOld, QueueOrphan, DrainOrphan, rows
<1>4. \A a \in Run, q \in Question : Written(a, q)' => Written(a, q)
  BY <1>1 DEF RemoveFile, GrowOld, QueueOrphan, DrainOrphan, Written, disk
<1>5. \A a \in Run : run[a].at \in {"commit", "check"} =>
        /\ <<a, run[a].q>> \notin old' \cup doomed'
        /\ (scope = "granted" /\ <<a, run[a].q>> \in files) => <<a, run[a].q>> \in files'
  <2> SUFFICES ASSUME NEW a \in Run, run[a].at \in {"commit", "check"}
               PROVE  /\ <<a, run[a].q>> \notin old' \cup doomed'
                      /\ (scope = "granted" /\ <<a, run[a].q>> \in files) => <<a, run[a].q>> \in files'
    OBVIOUS
  <2>1. <<a, run[a].q>> \notin old \cup doomed
    BY <1>1 DEF FilesAhead
  <2>2. CASE RemoveFile(k)
    BY <1>1, <2>1, <2>2 DEF RemoveFile, OneStory
  <2>3. CASE GrowOld(k)
    <3>1. <<a, run[a].q>> # k
      BY <2>3 DEF GrowOld
    <3> QED
      BY <2>1, <2>3, <3>1 DEF GrowOld
  <2>4. CASE QueueOrphan(k)
    BY <2>1, <2>4 DEF QueueOrphan
  <2>5. CASE DrainOrphan(k)
    BY <2>1, <2>5 DEF DrainOrphan
  <2> QED
    BY <2>2, <2>3, <2>4, <2>5
<1>6. ImagesAreThere'
  <2>1. scope = "granted" => \A l \in assets : l \in files => l \in files'
    BY <1>1 DEF RemoveFile, GrowOld, QueueOrphan, DrainOrphan, OneStory, Unreferenced, disk
  <2> QED
    BY <1>1, <1>3, <2>1 DEF ImagesAreThere
<1>7. OneStory'
  <2>1. cleaner'.on => cleaner.on /\ cleaner'.todo = cleaner.todo
    BY <1>1 DEF RemoveFile, GrowOld, QueueOrphan, DrainOrphan, ImagesTypeOK
  <2> QED
    BY <1>1, <1>3, <2>1 DEF OneStory
<1>8. \A a \in Run : run[a].at = "commit" /\ scope' = "granted" => <<a, run[a].q>> \in files'
  BY <1>1, <1>3, <1>5 DEF FilesAhead
<1> QED
  BY <1>2, <1>3, <1>4, <1>5, <1>6, <1>7, <1>8, QuietStep

LEMMA ImagesStep == ImagesInv /\ [ImagesNext]_imageVars => ImagesInv'
<1> SUFFICES ASSUME ImagesInv, [ImagesNext]_imageVars
             PROVE  ImagesInv'
  OBVIOUS
<1>1. CASE UNCHANGED imageVars
  BY <1>1 DEF imageVars, rows, disk, ImagesInv, ImagesTypeOK, ImagesAreThere, OneStory, NotYet,
              FilesAhead, DrawsOnce, EndsTrue, Written
<1>2. CASE ImagesNext
  BY <1>2, TakeKeeps, QueueKeeps, SweepKeeps, BeginKeeps, LookKeeps, CallKeeps, SaveKeeps, FetchKeeps,
     CommitKeeps, CheckKeeps, MarkKeeps, PublishKeeps, LeaveKeeps DEF ImagesNext
<1> QED
  BY <1>1, <1>2

LEMMA ImagesStarts == ImagesInit => ImagesInv
<1> SUFFICES ASSUME ImagesInit
             PROVE  ImagesInv
  OBVIOUS
<1>1. ImagesTypeOK
  BY ImagesFacts, OffType DEF ImagesInit, ImagesTypeOK, RunRow, Resting
<1>2. /\ \A q \in Question : /\ operation[q] = "none" /\ paid[q] = 0
                             /\ item[q].status = "pending" /\ item[q].asset = 0
      /\ \A a \in Run : run[a] = Off
      /\ assets = {} /\ files = {} /\ doomed = {} /\ task.status = "pending" /\ ~cleaner.on
      /\ scope = "granted"
  BY DEF ImagesInit, Resting
<1>3. ImagesAreThere /\ OneStory
  BY <1>2 DEF ImagesAreThere, OneStory
<1>4. \A a \in Run : NotYet(a) /\ FilesAhead(a) /\ DrawsOnce(a) /\ EndsTrue(a)
  BY <1>2, OffType DEF NotYet, FilesAhead, DrawsOnce, EndsTrue, Written
<1> QED
  BY <1>1, <1>3, <1>4 DEF ImagesInv

\* The rows of the quiz, its files and its attempts keep their types.
THEOREM ImagesTypeCorrect == ImagesSpec => []ImagesTypeOK
<1>1. ImagesInv => ImagesTypeOK
  BY DEF ImagesInv
<1> QED
  BY <1>1, ImagesStarts, ImagesStep, PTL DEF ImagesSpec

\* However many attempts stop between a request and its record, and whatever
\* answers and commits are lost, no picture is paid for twice (run_images).
THEOREM PicturesArePaidOnce == ImagesSpec => []PaidOnce
<1>1. ImagesInv => PaidOnce
  BY DEF ImagesInv, OneStory, PaidOnce
<1> QED
  BY <1>1, ImagesStarts, ImagesStep, PTL DEF ImagesSpec

\* A picture that the quiz shows has its row and its file until the source is
\* revoked, no row is left when the removal has ended, and the summary of the
\* quiz is true (run_images, cleanup_document, sweep_orphans, _drain).
THEOREM PicturesAreThere == ImagesSpec => []ImagesAreThere
<1>1. ImagesInv => ImagesAreThere
  BY DEF ImagesInv
<1> QED
  BY <1>1, ImagesStarts, ImagesStep, PTL DEF ImagesSpec

-----------------------------------------------------------------------------
(* CourseAssessment: what makes its record whole at every step.            *)

\* A job that was never saved is named by no answer and no grade, one that was
\* saved has its answer, and only jobs that are over are swept.
JobIsTold(t) ==
  /\ fate[t] = "absent" => t \notin swept /\ \A a \in Answers : feedback[a] # t /\ ~HasGrade(a, t)
  /\ fate[t] # "absent" => target[t] \in Answers
  /\ t \in swept => fate[t] \in Over

RecordInv ==
  /\ AssessmentTypeOK /\ RecordIsWhole
  /\ \A t \in Feedbacks : JobIsTold(t)
  /\ check = "completed" => objective = "settled"

GradeRow == [task : Feedbacks \cup {Null}, by : {"model", "human", "nobody"},
             supersedes : Nat, told : BOOLEAN]

LEMMA AssessmentFacts ==
    ASSUME RecordInv
    PROVE  /\ chain \in [Answers -> Seq(GradeRow)] /\ headOf \in [Answers -> Nat]
           /\ feedback \in [Answers -> Feedbacks \cup {Null}]
           /\ awaited \in [Answers -> Feedbacks \cup {Null}]
           /\ target \in [Feedbacks -> Answers \cup {Null}]
           /\ fate \in [Feedbacks -> {"absent", "completed"} \cup Waits \cup Over]
           /\ LastAnswer \in Nat /\ Null \notin Feedbacks
<1>1. LastAnswer \in Nat /\ Null \notin Feedbacks
  BY AssessmentAssumption DEF Feedbacks, Null
<1> QED
  BY <1>1 DEF RecordInv, AssessmentTypeOK, GradeRow

\* A grade is appended: the chain of its answer still ends in its head, and the
\* answer has the grades that it had and the new one.
LEMMA GradeAdded ==
    ASSUME RecordInv, NEW a \in Answers, NEW t \in Feedbacks \cup {Null},
           NEW by \in {"model", "human", "nobody"}, t \in {Null, feedback[a]}, AddGrade(a, t, by)
    PROVE  /\ chain' \in [Answers -> Seq(GradeRow)] /\ headOf' \in [Answers -> Nat]
           /\ \A b \in Answers : HeadEndsChain(b)'
           /\ \A b \in Answers, x \in Feedbacks :
                HasGrade(b, x)' <=> HasGrade(b, x) \/ (b = a /\ x = t)
<1> DEFINE c == chain[a]
           g == [task |-> t, by |-> by, supersedes |-> headOf[a], told |-> TRUE]
           d == Append(c, g)
<1>1. /\ c \in Seq(GradeRow) /\ headOf[a] \in Nat
      /\ \A b \in Answers : HeadEndsChain(b)
  BY AssessmentFacts DEF RecordInv, RecordIsWhole
<1>2. g \in GradeRow /\ g.task = t /\ g.supersedes = headOf[a]
  BY <1>1 DEF GradeRow
<1>3. chain' = [chain EXCEPT ![a] = d] /\ headOf' = [headOf EXCEPT ![a] = Len(c) + 1]
  BY DEF AddGrade
<1> HIDE DEF c, g
<1>4. /\ d \in Seq(GradeRow) /\ Len(d) = Len(c) + 1 /\ Len(c) \in Nat
      /\ \A i \in 1..Len(c) : d[i] = c[i]
      /\ d[Len(c) + 1] = g
      /\ DOMAIN d = 1..Len(d) /\ DOMAIN c = 1..Len(c)
  BY <1>1, <1>2, AppendProperties
<1> HIDE DEF d
<1>5. /\ chain' \in [Answers -> Seq(GradeRow)] /\ headOf' \in [Answers -> Nat]
      /\ chain'[a] = d /\ headOf'[a] = Len(d)
      /\ \A b \in Answers \ {a} : chain'[b] = chain[b] /\ headOf'[b] = headOf[b]
  BY <1>3, <1>4, AssessmentFacts
<1>6. HeadEndsChain(a)'
  <2>1. headOf[a] = Len(c) /\ \A i \in 1..Len(c) : c[i].supersedes = i - 1
    BY <1>1, <1>4 DEF HeadEndsChain, c
  <2>2. \A i \in 1..Len(d) : d[i].supersedes = i - 1
    <3> SUFFICES ASSUME NEW i \in 1..Len(d)
                 PROVE  d[i].supersedes = i - 1
      OBVIOUS
    <3>1. CASE i \in 1..Len(c)
      BY <1>4, <2>1, <3>1
    <3>2. CASE i = Len(c) + 1
      BY <1>2, <1>4, <2>1, <3>2
    <3> QED
      BY <1>4, <3>1, <3>2
  <2> QED
    BY <1>4, <1>5, <2>2 DEF HeadEndsChain
<1>7. \A b \in Answers \ {a} : HeadEndsChain(b)'
  BY <1>1, <1>5 DEF HeadEndsChain
<1>8. ASSUME NEW x \in Feedbacks
      PROVE  HasGrade(a, x)' <=> HasGrade(a, x) \/ x = t
  <2>1. HasGrade(a, x)' <=> \E i \in 1..Len(d) : d[i].task = x
    BY <1>4, <1>5 DEF HasGrade
  <2>2. HasGrade(a, x) <=> \E i \in 1..Len(c) : c[i].task = x
    BY <1>4 DEF HasGrade, c
  <2>3. \A i \in 1..Len(d) : i \in 1..Len(c) \/ i = Len(c) + 1
    BY <1>4
  <2>4. \A i \in 1..Len(c) : i \in 1..Len(d)
    BY <1>4
  <2>5. Len(c) + 1 \in 1..Len(d)
    BY <1>4
  <2> QED
    BY <1>2, <1>4, <2>1, <2>2, <2>3, <2>4, <2>5
<1>9. \A b \in Answers \ {a}, x \in Feedbacks : HasGrade(b, x)' <=> HasGrade(b, x)
  BY <1>5 DEF HasGrade
<1> QED
  BY <1>5, <1>6, <1>7, <1>8, <1>9

\* The chains are left alone.
LEMMA ChainsStay ==
    ASSUME RecordInv, UNCHANGED gradeVars
    PROVE  /\ \A b \in Answers : HeadEndsChain(b)'
           /\ \A b \in Answers, x \in Feedbacks : HasGrade(b, x)' <=> HasGrade(b, x)
BY DEF RecordInv, RecordIsWhole, HeadEndsChain, HasGrade, gradeVars

\* Nothing but the check and the course changes: no job, no answer and no grade.
LEMMA SessionStep ==
    ASSUME RecordInv, AssessmentTypeOK', UNCHANGED <<feedback, awaited, gradeVars, fate, target, swept>>,
           access' # "purged" => access # "purged",
           check' = "completed" => sealed' = 1 .. answered' /\ objective' = "settled"
    PROVE  RecordInv'
<1>1. /\ \A b \in Answers : HeadEndsChain(b)'
      /\ \A b \in Answers, x \in Feedbacks : HasGrade(b, x)' <=> HasGrade(b, x)
  BY ChainsStay
<1>2. feedback \in [Answers -> Feedbacks \cup {Null}]
  BY AssessmentFacts
<1>3. access' # "purged" => \A a \in Answers : JobTellsGrade(a)'
  BY <1>1, <1>2 DEF RecordInv, RecordIsWhole, JobTellsGrade
<1>4. \A t \in Feedbacks : JobIsTold(t)'
  BY <1>1 DEF RecordInv, JobIsTold
<1> QED
  BY <1>1, <1>3, <1>4 DEF RecordInv, RecordIsWhole

\* One job moves, and with it at most the answer it belongs to; its answer keeps
\* its name, and the course is as it was.
LEMMA JobStep ==
    ASSUME RecordInv, AssessmentTypeOK', NEW t \in Feedbacks, fate[t] # "absent", fate'[t] # "absent",
           UNCHANGED <<sessionVars, answered, feedback, target>>,
           \A u \in Feedbacks \ {t} : fate'[u] = fate[u] /\ (u \in swept' <=> u \in swept),
           \A b \in Answers : HeadEndsChain(b)',
           \A b \in Answers, x \in Feedbacks : x # t => (HasGrade(b, x)' <=> HasGrade(b, x)),
           \A b \in Answers : feedback[b] # t => awaited'[b] = awaited[b],
           t \in swept' => fate'[t] \in Over,
           access # "purged" => \A b \in Answers : feedback[b] = t => JobTellsGrade(b)'
    PROVE  RecordInv'
<1>1. feedback \in [Answers -> Feedbacks \cup {Null}]
  BY AssessmentFacts
<1>2. access' # "purged" => \A a \in Answers : JobTellsGrade(a)'
  <2> SUFFICES ASSUME access # "purged", NEW a \in Answers, feedback[a] # t
               PROVE  JobTellsGrade(a)'
    BY DEF sessionVars
  <2>1. JobTellsGrade(a)
    BY DEF RecordInv, RecordIsWhole
  <2> QED
    BY <1>1, <2>1 DEF JobTellsGrade
<1>3. \A u \in Feedbacks : JobIsTold(u)'
  BY DEF RecordInv, JobIsTold
<1> QED
  BY <1>2, <1>3 DEF RecordInv, RecordIsWhole, sessionVars

LEMMA AssessmentTypeParts ==
    ASSUME RecordInv, UNCHANGED <<sessionVars, answered, texts>>,
           feedback' \in [Answers -> Feedbacks \cup {Null}],
           awaited' \in [Answers -> Feedbacks \cup {Null}],
           headOf' \in [Answers -> Nat], chain' \in [Answers -> Seq(GradeRow)],
           fate' \in [Feedbacks -> {"absent", "completed"} \cup Waits \cup Over],
           target' \in [Feedbacks -> Answers \cup {Null}],
           swept' \subseteq Feedbacks, called' \subseteq Feedbacks,
           snapshots' \subseteq [answer : Answers, task : Feedbacks \cup {Null}, graded : BOOLEAN]
    PROVE  AssessmentTypeOK'
BY DEF RecordInv, AssessmentTypeOK, GradeRow, sessionVars

\* The check, its quiz and its application task.
LEMMA SessionKeeps ==
    ASSUME RecordInv,
           \/ PublishAssessmentQuiz \/ AssessmentQuizDies \/ SettleQuiz
           \/ CreateApplicationJob \/ PublishApplications \/ ApplicationJobDies
           \/ SubmitApplicationAnswer \/ CompleteAssessment \/ ReplaceLesson \/ RevokeSources
    PROVE  RecordInv'
<1>1. /\ AssessmentTypeOK /\ LastAnswer \in Nat
      /\ check = "completed" => sealed = 1 .. answered /\ objective = "settled"
  BY AssessmentFacts DEF RecordInv, RecordIsWhole
<1>2. UNCHANGED <<feedback, awaited, gradeVars, fate, target, swept, called, snapshots>>
  BY DEF PublishAssessmentQuiz, AssessmentQuizDies, SettleQuiz, CreateApplicationJob,
         PublishApplications, ApplicationJobDies, SubmitApplicationAnswer, CompleteAssessment,
         ReplaceLesson, RevokeSources, answerVars, jobVars
<1>3. access' # "purged" => access # "purged"
  BY DEF PublishAssessmentQuiz, AssessmentQuizDies, SettleQuiz, CreateApplicationJob,
         PublishApplications, ApplicationJobDies, SubmitApplicationAnswer, CompleteAssessment,
         ReplaceLesson, RevokeSources
<1>4. check' = "completed" => sealed' = 1 .. answered' /\ objective' = "settled"
  BY <1>1 DEF PublishAssessmentQuiz, AssessmentQuizDies, SettleQuiz, CreateApplicationJob,
         PublishApplications, ApplicationJobDies, SubmitApplicationAnswer, CompleteAssessment,
         ReplaceLesson, RevokeSources, answerVars
<1>5. AssessmentTypeOK'
  <2>1. CASE SubmitApplicationAnswer
    <3>1. answered' \in 0 .. LastAnswer /\ answered + 1 \in Answers
      BY <1>1, <2>1 DEF SubmitApplicationAnswer, AssessmentTypeOK, Answers
    <3>2. check' \in {"generating", "ready", "in_progress", "completed", "source_revoked"}
      BY <1>1, <2>1 DEF SubmitApplicationAnswer, AssessmentTypeOK
    <3>3. texts' \subseteq Answers
      BY <1>1, <2>1, <3>1 DEF SubmitApplicationAnswer, AssessmentTypeOK
    <3>4. UNCHANGED <<objective, exercise, sealed, taught, access>>
      BY <2>1 DEF SubmitApplicationAnswer
    <3> QED
      BY <1>1, <1>2, <3>1, <3>2, <3>3, <3>4 DEF AssessmentTypeOK, gradeVars
  <2>2. CASE CompleteAssessment
    <3>1. 1 .. answered \subseteq Answers
      BY <1>1 DEF AssessmentTypeOK, Answers
    <3> QED
      BY <1>1, <2>2, <3>1 DEF CompleteAssessment, AssessmentTypeOK, answerVars, gradeVars, jobVars
  <2>3. CASE PublishAssessmentQuiz \/ AssessmentQuizDies \/ SettleQuiz \/ CreateApplicationJob
             \/ PublishApplications \/ ApplicationJobDies \/ ReplaceLesson \/ RevokeSources
    <3>1. UNCHANGED <<sealed, answered, texts>>
      BY <2>3 DEF PublishAssessmentQuiz, AssessmentQuizDies, SettleQuiz, CreateApplicationJob,
           PublishApplications, ApplicationJobDies, ReplaceLesson, RevokeSources, answerVars
    <3>2. check' \in {check, "ready"} /\ objective' \in {objective, "open", "dead", "settled"}
      BY <2>3 DEF PublishAssessmentQuiz, AssessmentQuizDies, SettleQuiz, CreateApplicationJob,
           PublishApplications, ApplicationJobDies, ReplaceLesson, RevokeSources
    <3>3. /\ exercise' \in {exercise, "pending", "ready", "dead"}
          /\ taught' = taught \/ taught' = FALSE
          /\ access' \in {access, "revoked"}
      BY <2>3 DEF PublishAssessmentQuiz, AssessmentQuizDies, SettleQuiz, CreateApplicationJob,
           PublishApplications, ApplicationJobDies, ReplaceLesson, RevokeSources
    <3>4. /\ check' \in {"generating", "ready", "in_progress", "completed", "source_revoked"}
          /\ objective' \in {"making", "dead", "open", "settled"}
      BY <1>1, <3>2 DEF AssessmentTypeOK
    <3>5. /\ exercise' \in {"none", "pending", "dead", "ready"}
          /\ access' \in {"granted", "revoked", "purged"}
      BY <1>1, <3>3 DEF AssessmentTypeOK
    <3>6. taught' \in BOOLEAN
      BY <1>1, <3>3 DEF AssessmentTypeOK
    <3> QED
      BY <1>1, <1>2, <3>1, <3>4, <3>5, <3>6 DEF AssessmentTypeOK, gradeVars
  <2> QED
    BY <2>1, <2>2, <2>3
<1> QED
  BY <1>2, <1>3, <1>4, <1>5, SessionStep

LEMMA PurgeKeeps ==
    ASSUME RecordInv, PurgeAssessment
    PROVE  RecordInv'
<1>1. /\ AssessmentTypeOK /\ chain \in [Answers -> Seq(GradeRow)]
      /\ \A b \in Answers : HeadEndsChain(b)
  BY AssessmentFacts DEF RecordInv, RecordIsWhole
<1>2. /\ access' = "purged" /\ check' = "source_revoked"
      /\ UNCHANGED <<feedback, headOf, fate, target, swept>>
  BY DEF PurgeAssessment, jobVars
<1> DEFINE untold(b) == [i \in DOMAIN chain[b] |-> [chain[b][i] EXCEPT !.told = FALSE]]
<1>3. ASSUME NEW b \in Answers
      PROVE  /\ untold(b) \in Seq(GradeRow) /\ DOMAIN untold(b) = DOMAIN chain[b]
             /\ Len(untold(b)) = Len(chain[b])
             /\ \A i \in DOMAIN chain[b] : /\ untold(b)[i].task = chain[b][i].task
                                           /\ untold(b)[i].supersedes = chain[b][i].supersedes
  <2> DEFINE c == chain[b]
             d == [i \in 1..Len(c) |-> [c[i] EXCEPT !.told = FALSE]]
  <2>1. c \in Seq(GradeRow) /\ DOMAIN c = 1..Len(c) /\ Len(c) \in Nat
    BY <1>1
  <2> HIDE DEF c
  <2>2. \A i \in 1..Len(c) : /\ [c[i] EXCEPT !.told = FALSE] \in GradeRow
                             /\ [c[i] EXCEPT !.told = FALSE].task = c[i].task
                             /\ [c[i] EXCEPT !.told = FALSE].supersedes = c[i].supersedes
    <3> SUFFICES ASSUME NEW i \in 1..Len(c)
                 PROVE  /\ [c[i] EXCEPT !.told = FALSE] \in GradeRow
                        /\ [c[i] EXCEPT !.told = FALSE].task = c[i].task
                        /\ [c[i] EXCEPT !.told = FALSE].supersedes = c[i].supersedes
      OBVIOUS
    <3>1. c[i] \in GradeRow
      BY <2>1
    <3> QED
      BY <3>1 DEF GradeRow
  <2>3. d \in Seq(GradeRow) /\ Len(d) = Len(c)
    BY <2>1, <2>2
  <2>4. DOMAIN d = 1..Len(c) /\ \A i \in 1..Len(c) : d[i] = [c[i] EXCEPT !.told = FALSE]
    OBVIOUS
  <2> HIDE DEF d
  <2>5. untold(b) = d
    BY <2>1 DEF c, d
  <2> HIDE DEF untold
  <2>6. \A i \in 1..Len(c) : d[i].task = c[i].task /\ d[i].supersedes = c[i].supersedes
    BY <2>2, <2>4
  <2> QED
    BY <2>1, <2>3, <2>4, <2>5, <2>6 DEF c
<1>4. chain' = [b \in Answers |-> untold(b)]
  BY DEF PurgeAssessment
<1> HIDE DEF untold
<1>5. /\ chain' \in [Answers -> Seq(GradeRow)]
      /\ \A b \in Answers : HeadEndsChain(b)'
      /\ \A b \in Answers, x \in Feedbacks : HasGrade(b, x)' <=> HasGrade(b, x)
  BY <1>1, <1>2, <1>3, <1>4 DEF HeadEndsChain, HasGrade
<1>6. AssessmentTypeOK'
  <2>1. awaited' \in [Answers -> Feedbacks \cup {Null}] /\ sealed' = {} /\ texts' = {}
    BY DEF PurgeAssessment
  <2>2. UNCHANGED <<objective, exercise, taught, answered, called, snapshots>>
    BY DEF PurgeAssessment, jobVars
  <2> QED
    BY <1>1, <1>2, <1>5, <2>1, <2>2 DEF AssessmentTypeOK, GradeRow
<1>7. \A t \in Feedbacks : JobIsTold(t)'
  BY <1>2, <1>5 DEF RecordInv, JobIsTold
<1> QED
  BY <1>2, <1>5, <1>6, <1>7 DEF RecordInv, RecordIsWhole

LEMMA ReviewKeeps ==
    ASSUME RecordInv, NEW a \in Answers, ReviewAttempt(a)
    PROVE  RecordInv'
<1>1. UNCHANGED <<sessionVars, answerVars, jobVars, snapshots>> /\ AddGrade(a, Null, "human")
  BY DEF ReviewAttempt
<1>2. /\ chain' \in [Answers -> Seq(GradeRow)] /\ headOf' \in [Answers -> Nat]
      /\ \A b \in Answers : HeadEndsChain(b)'
      /\ \A b \in Answers, x \in Feedbacks : HasGrade(b, x)' <=> HasGrade(b, x)
  BY <1>1, GradeAdded, AssessmentFacts
<1>3. AssessmentTypeOK'
  BY <1>1, <1>2 DEF RecordInv, AssessmentTypeOK, GradeRow, sessionVars, answerVars, jobVars
<1>4. access' # "purged" => \A b \in Answers : JobTellsGrade(b)'
  BY <1>1, <1>2, AssessmentFacts DEF RecordInv, RecordIsWhole, JobTellsGrade, sessionVars,
                                     answerVars, jobVars
<1>5. \A t \in Feedbacks : JobIsTold(t)'
  BY <1>1, <1>2 DEF RecordInv, JobIsTold, answerVars, jobVars
<1> QED
  BY <1>1, <1>2, <1>3, <1>4, <1>5 DEF RecordInv, RecordIsWhole, sessionVars, answerVars

\* A request saves its job, or its snapshot is given up.
LEMMA SnapshotKeeps ==
    ASSUME RecordInv,
           \/ \E a \in Answers : AskFeedback(a)
           \/ \E s \in snapshots : LeaveFeedback(s)
    PROVE  RecordInv'
<1>1. UNCHANGED <<sessionVars, answerVars, gradeVars, jobVars>>
  BY DEF AskFeedback, LeaveFeedback
<1>2. snapshots' \subseteq [answer : Answers, task : Feedbacks \cup {Null}, graded : BOOLEAN]
  <2>1. ASSUME NEW a \in Answers, AskFeedback(a)
        PROVE  snapshots' \subseteq [answer : Answers, task : Feedbacks \cup {Null}, graded : BOOLEAN]
    <3>1. feedback[a] \in Feedbacks \cup {Null} /\ HasGrade(a, feedback[a]) \in BOOLEAN
      BY AssessmentFacts DEF HasGrade
    <3> QED
      BY <2>1, <3>1 DEF AskFeedback, RecordInv, AssessmentTypeOK
  <2> QED
    BY <2>1 DEF LeaveFeedback, RecordInv, AssessmentTypeOK
<1>3. AssessmentTypeOK'
  BY <1>1, <1>2 DEF RecordInv, AssessmentTypeOK, sessionVars, answerVars, gradeVars, jobVars
<1>4. /\ UNCHANGED <<feedback, awaited, gradeVars, fate, target, swept, access, check, sealed,
                     answered, objective>>
      /\ check = "completed" => sealed = 1 .. answered /\ objective = "settled"
  BY <1>1 DEF sessionVars, answerVars, jobVars, RecordInv, RecordIsWhole
<1> QED
  BY <1>3, <1>4, SessionStep

LEMMA BindKeeps ==
    ASSUME RecordInv, NEW s \in snapshots, NEW t \in Feedbacks, BindFeedback(s, t)
    PROVE  RecordInv'
<1> DEFINE a == s.answer
<1>1. a \in Answers
  BY DEF RecordInv, AssessmentTypeOK
<1>2. /\ access = "granted" /\ fate[t] = "absent"
      /\ UNCHANGED <<sessionVars, answered, texts, swept, called, snapshots>>
      /\ feedback' = [feedback EXCEPT ![a] = t] /\ awaited' = [awaited EXCEPT ![a] = t]
      /\ fate' = [fate EXCEPT ![t] = "pending"] /\ target' = [target EXCEPT ![t] = a]
      /\ UNCHANGED gradeVars \/ (feedback[a] # Null /\ AddGrade(a, feedback[a], "nobody"))
  BY DEF BindFeedback, PermitsActive, Permits
<1> HIDE DEF a
<1>3. /\ feedback' \in [Answers -> Feedbacks \cup {Null}] /\ feedback'[a] = t
      /\ awaited' \in [Answers -> Feedbacks \cup {Null}] /\ awaited'[a] = t
      /\ \A b \in Answers \ {a} : feedback'[b] = feedback[b] /\ awaited'[b] = awaited[b]
  BY <1>1, <1>2, AssessmentFacts
<1>4. /\ fate' \in [Feedbacks -> {"absent", "completed"} \cup Waits \cup Over]
      /\ target' \in [Feedbacks -> Answers \cup {Null}]
      /\ fate'[t] = "pending" /\ target'[t] = a
      /\ \A u \in Feedbacks \ {t} : fate'[u] = fate[u] /\ target'[u] = target[u]
  BY <1>1, <1>2, AssessmentFacts DEF Waits
<1>5. /\ JobIsTold(t) /\ t \notin swept
      /\ \A b \in Answers : feedback[b] # t /\ ~HasGrade(b, t)
  BY <1>2 DEF RecordInv, JobIsTold
<1>6. /\ chain' \in [Answers -> Seq(GradeRow)] /\ headOf' \in [Answers -> Nat]
      /\ \A b \in Answers : HeadEndsChain(b)'
      /\ \A b \in Answers, x \in Feedbacks :
           HasGrade(b, x)' <=> HasGrade(b, x) \/ (b = a /\ x = feedback[a] /\ HasGrade(b, x)')
  <2>1. CASE UNCHANGED gradeVars
    BY <2>1, ChainsStay, AssessmentFacts DEF gradeVars
  <2>2. CASE feedback[a] # Null /\ AddGrade(a, feedback[a], "nobody")
    <3>1. feedback[a] \in Feedbacks \cup {Null}
      BY <1>1, AssessmentFacts
    <3> QED
      BY <1>1, <2>2, <3>1, GradeAdded
  <2> QED
    BY <1>2, <2>1, <2>2
<1>7. AssessmentTypeOK'
  BY <1>2, <1>3, <1>4, <1>6, AssessmentTypeParts DEF RecordInv, AssessmentTypeOK
<1>8. \A b \in Answers : JobTellsGrade(b)'
  <2> SUFFICES ASSUME NEW b \in Answers
               PROVE  JobTellsGrade(b)'
    OBVIOUS
  <2>1. CASE b = a
    <3>1. ~HasGrade(a, t)'
      BY <1>1, <1>5, <1>6
    <3> QED
      BY <1>3, <1>4, <2>1, <3>1 DEF JobTellsGrade, Waits, Over
  <2>2. CASE b # a
    <3>1. JobTellsGrade(b) /\ feedback[b] # t /\ feedback[b] \in Feedbacks \cup {Null}
      BY <1>2, <1>5, AssessmentFacts DEF RecordInv, RecordIsWhole
    <3> QED
      BY <1>2, <1>3, <1>4, <1>6, <2>2, <3>1 DEF JobTellsGrade
  <2> QED
    BY <2>1, <2>2
<1>9. \A u \in Feedbacks : JobIsTold(u)'
  <2> SUFFICES ASSUME NEW u \in Feedbacks
               PROVE  JobIsTold(u)'
    OBVIOUS
  <2>1. CASE u = t
    BY <1>1, <1>2, <1>4, <1>5, <2>1 DEF JobIsTold
  <2>2. CASE u # t
    <3>1. JobIsTold(u)
      BY DEF RecordInv
    <3> QED
      BY <1>1, <1>2, <1>3, <1>4, <1>6, <2>2, <3>1 DEF JobIsTold
  <2> QED
    BY <2>1, <2>2
<1> QED
  BY <1>2, <1>6, <1>7, <1>8, <1>9 DEF RecordInv, RecordIsWhole, sessionVars

\* A job that waits is claimed, graded by the model, tried again or ended.
LEMMA WaitingKeeps ==
    ASSUME RecordInv, NEW t \in Feedbacks,
           \/ ClaimFeedback(t) \/ CallFeedback(t) \/ FailFeedback(t) \/ ExpireFeedback(t)
           \/ CancelFeedback(t)
    PROVE  RecordInv'
<1>1. /\ fate[t] \in Waits /\ called' \subseteq called \cup {t}
      /\ UNCHANGED <<sessionVars, answerVars, gradeVars, target, swept, snapshots>>
      /\ \E end \in Waits \cup Over : fate' = [fate EXCEPT ![t] = end]
  <2>1. CASE CallFeedback(t)
    <3>1. fate' = [fate EXCEPT ![t] = fate[t]] /\ fate[t] \in Waits
      BY <2>1, AssessmentFacts DEF CallFeedback, Waits
    <3> QED
      BY <2>1, <3>1 DEF CallFeedback
  <2>2. CASE ClaimFeedback(t) \/ FailFeedback(t) \/ ExpireFeedback(t) \/ CancelFeedback(t)
    <3>1. "failed" \in Over /\ "cancelled" \in Over /\ "pending" \in Waits /\ "running" \in Waits
      BY DEF Waits, Over
    <3> QED
      BY <2>2, <3>1 DEF ClaimFeedback, FailFeedback, ExpireFeedback, CancelFeedback
  <2> QED
    BY <2>1, <2>2
<1>2. /\ fate' \in [Feedbacks -> {"absent", "completed"} \cup Waits \cup Over]
      /\ fate'[t] \in Waits \cup Over
      /\ \A u \in Feedbacks \ {t} : fate'[u] = fate[u]
  BY <1>1, AssessmentFacts
<1>3. /\ \A b \in Answers : HeadEndsChain(b)'
      /\ \A b \in Answers, x \in Feedbacks : HasGrade(b, x)' <=> HasGrade(b, x)
  BY <1>1, ChainsStay
<1>4. AssessmentTypeOK'
  BY <1>1, <1>2, AssessmentTypeParts, AssessmentFacts
     DEF RecordInv, AssessmentTypeOK, answerVars, gradeVars
<1>5. t \notin swept /\ fate[t] # "absent" /\ fate'[t] # "absent" /\ fate'[t] # "completed"
  BY <1>1, <1>2 DEF RecordInv, JobIsTold, Waits, Over
<1>6. ASSUME access # "purged", NEW b \in Answers, feedback[b] = t
      PROVE  JobTellsGrade(b)'
  <2>1. target[t] = b /\ ~HasGrade(b, t) /\ awaited[b] = t
    BY <1>1, <1>6, AssessmentFacts DEF RecordInv, RecordIsWhole, JobTellsGrade
  <2> QED
    BY <1>1, <1>3, <1>5, <1>6, <2>1 DEF JobTellsGrade, answerVars
<1> QED
  BY <1>1, <1>2, <1>3, <1>4, <1>5, <1>6, JobStep DEF answerVars

LEMMA PublishFeedbackKeeps ==
    ASSUME RecordInv, NEW t \in Feedbacks, PublishFeedback(t)
    PROVE  RecordInv'
<1> DEFINE a == target[t]
<1>1. /\ fate[t] = "running" /\ access = "granted" /\ feedback[a] = t
      /\ AddGrade(a, t, "model")
      /\ awaited' = [awaited EXCEPT ![a] = Null] /\ fate' = [fate EXCEPT ![t] = "completed"]
      /\ called' \subseteq called
      /\ UNCHANGED <<sessionVars, answered, texts, feedback, target, swept, snapshots>>
  BY DEF PublishFeedback, AwaitsFeedback, PermitsActive, Permits
<1>2. a \in Answers /\ t \notin swept
  BY <1>1 DEF RecordInv, JobIsTold, Over
<1>3. UNCHANGED a
  BY <1>1
<1> HIDE DEF a
<1>4. /\ chain' \in [Answers -> Seq(GradeRow)] /\ headOf' \in [Answers -> Nat]
      /\ \A b \in Answers : HeadEndsChain(b)'
      /\ \A b \in Answers, x \in Feedbacks :
           HasGrade(b, x)' <=> HasGrade(b, x) \/ (b = a /\ x = t)
  BY <1>1, <1>2, GradeAdded
<1>5. /\ fate' \in [Feedbacks -> {"absent", "completed"} \cup Waits \cup Over]
      /\ fate'[t] = "completed" /\ \A u \in Feedbacks \ {t} : fate'[u] = fate[u]
      /\ awaited' \in [Answers -> Feedbacks \cup {Null}]
      /\ awaited'[a] = Null /\ \A b \in Answers \ {a} : awaited'[b] = awaited[b]
  BY <1>1, <1>2, AssessmentFacts
<1>6. AssessmentTypeOK'
  BY <1>1, <1>4, <1>5, AssessmentTypeParts, AssessmentFacts DEF RecordInv, AssessmentTypeOK
<1>7. ASSUME NEW b \in Answers, feedback[b] = t
      PROVE  JobTellsGrade(b)'
  <2>1. target[t] = b
    BY <1>1, <1>7, AssessmentFacts DEF RecordInv, RecordIsWhole, JobTellsGrade
  <2>2. a = b
    BY <2>1 DEF a
  <2> QED
    BY <1>1, <1>4, <1>5, <1>7, <2>1, <2>2 DEF JobTellsGrade, Waits, Over
<1> QED
  BY <1>1, <1>2, <1>4, <1>5, <1>6, <1>7, JobStep

LEMMA ReconcileKeeps ==
    ASSUME RecordInv, NEW t \in Feedbacks, ReconcileFeedback(t)
    PROVE  RecordInv'
<1> DEFINE a == target[t]
           closes == feedback[a] = t /\ access # "purged" /\ ~HasGrade(a, t)
           waits == feedback[a] = t /\ awaited[a] = t /\ ~HasGrade(a, t)
<1>1. /\ fate[t] \in Over /\ t \notin swept /\ swept' = swept \cup {t}
      /\ IF closes THEN AddGrade(a, t, "nobody") ELSE UNCHANGED gradeVars
      /\ awaited' = [awaited EXCEPT ![a] = IF waits THEN Null ELSE @]
      /\ UNCHANGED <<sessionVars, answered, texts, feedback, fate, target, called, snapshots>>
  BY DEF ReconcileFeedback, StillNamed
<1>2. a \in Answers /\ fate[t] # "absent"
  BY <1>1 DEF RecordInv, JobIsTold, Over
<1> HIDE DEF a
<1>3. /\ chain' \in [Answers -> Seq(GradeRow)] /\ headOf' \in [Answers -> Nat]
      /\ \A b \in Answers : HeadEndsChain(b)'
      /\ \A b \in Answers, x \in Feedbacks :
           HasGrade(b, x)' <=> HasGrade(b, x) \/ (closes /\ b = a /\ x = t)
  <2>1. CASE closes
    BY <1>1, <1>2, <2>1, GradeAdded
  <2>2. CASE ~closes
    BY <1>1, <2>2, ChainsStay, AssessmentFacts DEF gradeVars
  <2> QED
    BY <2>1, <2>2
<1>4. /\ awaited' \in [Answers -> Feedbacks \cup {Null}]
      /\ awaited'[a] = (IF waits THEN Null ELSE awaited[a])
      /\ \A b \in Answers \ {a} : awaited'[b] = awaited[b]
  <2> HIDE DEF waits
  <2>1. (IF waits THEN Null ELSE awaited[a]) \in Feedbacks \cup {Null}
    BY <1>2, AssessmentFacts
  <2>2. awaited' = [awaited EXCEPT ![a] = IF waits THEN Null ELSE awaited[a]]
    BY <1>1
  <2> QED
    BY <1>2, <2>1, <2>2, AssessmentFacts
<1>5. AssessmentTypeOK'
  BY <1>1, <1>3, <1>4, AssessmentTypeParts, AssessmentFacts DEF RecordInv, AssessmentTypeOK
<1>6. ASSUME access # "purged", NEW b \in Answers, feedback[b] = t
      PROVE  JobTellsGrade(b)'
  <2>1. target[t] = b /\ ~HasGrade(b, t) /\ awaited[b] = t
    BY <1>1, <1>6, AssessmentFacts DEF RecordInv, RecordIsWhole, JobTellsGrade
  <2>2. a = b
    BY <2>1 DEF a
  <2>3. HasGrade(b, t)' /\ awaited'[b] = Null
    BY <1>3, <1>4, <1>6, <2>1, <2>2
  <2> QED
    BY <1>1, <1>6, <2>1, <2>3 DEF JobTellsGrade, Waits, Over
<1>7. \A b \in Answers : feedback[b] # t => awaited'[b] = awaited[b]
  BY <1>4
<1> QED
  BY <1>1, <1>2, <1>3, <1>5, <1>6, <1>7, JobStep

LEMMA AssessmentStep == RecordInv /\ [AssessmentNext]_assessmentVars => RecordInv'
<1> SUFFICES ASSUME RecordInv, [AssessmentNext]_assessmentVars
             PROVE  RecordInv'
  OBVIOUS
<1>1. CASE UNCHANGED assessmentVars
  <2>1. UNCHANGED <<sessionVars, answered, texts, feedback, awaited, headOf, chain, fate, target,
                    swept, called, snapshots>>
    BY <1>1 DEF assessmentVars, answerVars, gradeVars, jobVars
  <2>2. AssessmentTypeOK'
    BY <2>1, AssessmentTypeParts, AssessmentFacts DEF RecordInv, AssessmentTypeOK
  <2>3. /\ UNCHANGED <<feedback, awaited, gradeVars, fate, target, swept, access, check, sealed,
                       answered, objective>>
        /\ check = "completed" => sealed = 1 .. answered /\ objective = "settled"
    BY <2>1 DEF sessionVars, gradeVars, RecordInv, RecordIsWhole
  <2> QED
    BY <2>2, <2>3, SessionStep
<1>2. CASE AssessmentNext
  BY <1>2, SessionKeeps, PurgeKeeps, ReviewKeeps, SnapshotKeeps, BindKeeps, WaitingKeeps,
     PublishFeedbackKeeps, ReconcileKeeps DEF AssessmentNext
<1> QED
  BY <1>1, <1>2

LEMMA AssessmentStarts == AssessmentInit => RecordInv
<1> SUFFICES ASSUME AssessmentInit
             PROVE  RecordInv
  OBVIOUS
<1>1. AssessmentTypeOK
  <2>1. /\ Null \in Nat /\ 0 \in 0 .. LastAnswer
        /\ "absent" \in {"absent", "completed"} \cup Waits \cup Over
    BY AssessmentAssumption DEF Null
  <2>2. \A S : << >> \in Seq(S)
    OBVIOUS
  <2> QED
    BY <2>1, <2>2 DEF AssessmentInit, AssessmentTypeOK
<1>2. \A a \in Answers : /\ feedback[a] = Null /\ chain[a] = << >> /\ headOf[a] = Null
  BY DEF AssessmentInit
<1>3. \A t \in Feedbacks : fate[t] = "absent" /\ t # Null /\ t \notin swept
  BY DEF AssessmentInit, Feedbacks, Null
<1>4. \A a \in Answers : HeadEndsChain(a) /\ JobTellsGrade(a) /\ \A t \in Feedbacks : ~HasGrade(a, t)
  BY <1>2 DEF HeadEndsChain, JobTellsGrade, HasGrade, Null
<1> QED
  BY <1>1, <1>2, <1>3, <1>4 DEF RecordInv, RecordIsWhole, JobIsTold, AssessmentInit

\* The answers of a check, their grades and their jobs keep their types.
THEOREM AssessmentTypeCorrect == AssessmentSpec => []AssessmentTypeOK
<1>1. RecordInv => AssessmentTypeOK
  BY DEF RecordInv
<1> QED
  BY <1>1, AssessmentStarts, AssessmentStep, PTL DEF AssessmentSpec

\* Chains of grades end in their heads, the job that an answer names agrees with
\* its grades, and a seal names every answer, however many requests for feedback
\* overlap and whatever jobs die (create_feedback_job, _append_grade,
\* reconcile_course_application, complete_course_assessment).
THEOREM RecordsAreWhole == AssessmentSpec => []RecordIsWhole
<1>1. RecordInv => RecordIsWhole
  BY DEF RecordInv
<1> QED
  BY <1>1, AssessmentStarts, AssessmentStep, PTL DEF AssessmentSpec

-----------------------------------------------------------------------------
(* The worker that runs any of these jobs.                                 *)

LEMMA JobsStep ==
    [JobsNext]_jobsVars =>
      /\ [Next]_vars /\ [ImagesNext]_imageVars /\ [TeachingNext]_teachingVars
      /\ [AssessmentNext]_assessmentVars
<1> SUFFICES ASSUME [JobsNext]_jobsVars
             PROVE  /\ [Next]_vars /\ [ImagesNext]_imageVars /\ [TeachingNext]_teachingVars
                    /\ [AssessmentNext]_assessmentVars
  OBVIOUS
<1>1. CASE JobsNext
  BY <1>1 DEF JobsNext
<1>2. CASE UNCHANGED jobsVars
  BY <1>2 DEF jobsVars
<1> QED
  BY <1>1, <1>2

\* Whatever job the worker has, it does what that kind of job may do, and the
\* records of the other kinds stay as they are: a behaviour of the composition is
\* a behaviour of each of its parts.
THEOREM EveryJobKeepsToItsPart == JobsSpec => Spec /\ ImagesSpec /\ TeachingSpec /\ AssessmentSpec
<1>1. JobsInit => Init /\ ImagesInit /\ TeachingInit /\ AssessmentInit
  BY DEF JobsInit
<1> QED
  BY <1>1, JobsStep, PTL DEF JobsSpec, Spec, ImagesSpec, TeachingSpec, AssessmentSpec

\* No worker pays twice for a picture, a draft or a verdict, whatever attempts
\* stop between a request and its record.
THEOREM JobsPayOnce == JobsSpec => []NothingIsPaidTwice
<1>1. PaidOnce /\ CalledOnce => NothingIsPaidTwice
  BY DEF NothingIsPaidTwice
<1> QED
  BY <1>1, EveryJobKeepsToItsPart, PicturesArePaidOnce, RolesAreCalledOnce, PTL

\* What the jobs leave is sound at every moment of any worker: the pictures that a
\* quiz shows are there, a published lesson passed its review, and requests,
\* answers and grades agree.
THEOREM JobsLeaveSoundRecords ==
    JobsSpec => [](RequestTellsHead /\ ImagesAreThere /\ PublishedWasReviewed /\ RecordIsWhole)
BY EveryJobKeepsToItsPart, RequestFollowsHead, PicturesAreThere, PublicationWasReviewed,
   RecordsAreWhole, PTL

=============================================================================
