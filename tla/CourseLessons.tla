---------------------------- MODULE CourseLessons ----------------------------
(***************************************************************************)
(* One course: its outline, its lessons, the jobs that write them          *)
(* (services/course_service.py, workers/course_job.py) and the revisions   *)
(* of published lessons (services/course_revision_service.py).             *)
(*                                                                         *)
(* Every request locks the course, then its lessons and the revision; a    *)
(* job publishes under the same locks, after it has looked up whether it   *)
(* is still the one that is waited for.  Each is one action.  How a job    *)
(* gets its draft is in TeachingRun; a draft is named by the job that      *)
(* wrote it, and 0 stands for NULL.  Marks of reading, titles of lessons   *)
(* and course goals are left out; a cancelled job counts as failed.        *)
(***************************************************************************)
EXTENDS Naturals, Sequences, Functions

CONSTANTS LastLesson,  \* lessons of the course, at most 3: MAX_REVISION_LESSONS
          MaxPosts,    \* bound of the jobs of the course
          MaxChanges,  \* bound of the revisions
          MaxPlans     \* bound of the versions of the outline

ASSUME CourseAssumption ==
  LastLesson \in 1..3 /\ {MaxPosts, MaxChanges, MaxPlans} \subseteq Nat \ {0}

VARIABLES
  grant,    \* the sources of the course: granted, revoked or purged
  course,   \* learning_courses: status, revision, outline and its jobs
  lesson,   \* learning_course_lessons
  posts,    \* the jobs course_outline and course_lesson, in the order of their rows
  changes,  \* learning_course_revision_requests
  archive,  \* learning_course_lesson_snapshots
  page      \* the revision a page shows, with the number of the course

courseVars == <<grant, course, lesson, posts, changes, archive, page>>

Lesson == 1..LastLesson
Post == 1..Len(posts)
Change == 1..Len(changes)
Open(t) == posts[t].status = "open"

\* Job t writes the outline (lesson 0), a first text, or a candidate of a
\* revision; it knows the numbers of course and outline it was asked for.
NewPost(l, c, number, plan) ==
  Append(posts, [lesson |-> l, change |-> c, number |-> number, plan |-> plan, status |-> "open"])
Next1 == Len(posts) + 1

\* create_course
CourseInit ==
  /\ grant = "granted"
  /\ course = [status |-> "generating", number |-> 1, plan |-> 0, outline |-> 1, holder |-> 1]
  /\ lesson = [l \in Lesson |->
                 [status |-> "absent", text |-> 0, version |-> 0, last |-> 0, holder |-> 0]]
  /\ posts = << [lesson |-> 0, change |-> 0, number |-> 0, plan |-> 0, status |-> "open"] >>
  /\ changes = << >> /\ archive = {}
  /\ page = [change |-> 0, revision |-> 0, number |-> 0, drafts |-> << >>]

-----------------------------------------------------------------------------
(* Requests of the learner                                                 *)

\* retry_outline
RetryOutline ==
  /\ grant = "granted" /\ course.plan = 0 /\ posts[course.outline].status = "failed"
  /\ Len(posts) < MaxPosts
  /\ posts' = NewPost(0, 0, 0, 0)
  /\ course' = [course EXCEPT !.outline = Next1, !.holder = Next1, !.status = "generating"]
  /\ UNCHANGED <<grant, lesson, changes, archive, page>>

\* generate_lesson: a first text, or a candidate of the revision c.
Waiting(l) == lesson[l].last # 0 /\ Open(lesson[l].last)
MayGenerate(l, c) ==
  IF c = 0 THEN ~Waiting(l) /\ ~(lesson[l].last # 0 /\ lesson[l].status = "ready")
  ELSE ~Waiting(l) /\ changes[c].status \in {"generating", "ready"} /\ l \in DOMAIN changes[c].versions

GenerateLesson(l, c) ==
  /\ grant = "granted" /\ course.status \in {"ready", "partial"}
  /\ lesson[l].status # "material_gap" /\ MayGenerate(l, c)
  /\ Len(posts) < MaxPosts
  /\ posts' = NewPost(l, c, course.number, course.plan)
  /\ lesson' = [lesson EXCEPT ![l].last = Next1, ![l].holder = Next1,
                              ![l].status = IF c = 0 THEN "generating" ELSE @]
  /\ UNCHANGED <<grant, course, changes, archive, page>>

\* update_outline
OutlineFree == \A l \in Lesson : lesson[l].last = 0
UpdateOutline ==
  /\ grant = "granted" /\ course.plan # 0 /\ OutlineFree
  /\ course.plan < MaxPlans
  /\ course' = [course EXCEPT !.plan = @ + 1, !.number = @ + 1]
  /\ UNCHANGED <<grant, lesson, posts, changes, archive, page>>

\* create_revision_preview freezes the versions of the selected lessons.
PreviewRevision ==
  /\ grant = "granted" /\ Len(changes) < MaxChanges
  /\ \E selected \in SUBSET Lesson \ {{}} :
       /\ \A l \in selected : lesson[l].status = "ready" /\ lesson[l].text # 0
       /\ changes' = Append(changes, [status |-> "preview", revision |-> 1, drafts |-> << >>,
                                      versions |-> [l \in selected |-> lesson[l].version]])
  /\ UNCHANGED <<grant, course, lesson, posts, archive, page>>

\* start_revision_jobs; the candidates are then asked for one by one
\* (GenerateLesson), and any of them may be refused.
StartRevision(c) ==
  /\ changes[c].status = "preview"
  /\ changes' = [changes EXCEPT ![c].status = "generating", ![c].revision = @ + 1]
  /\ UNCHANGED <<grant, course, lesson, posts, archive, page>>

\* get_course and get_revision: what the learner is shown before he applies it
\* (which is refused once the sources are revoked).
ViewRevision(c) ==
  /\ grant = "granted" /\ changes[c].status = "ready"
  /\ page' = [change |-> c, revision |-> changes[c].revision, number |-> course.number,
              drafts |-> changes[c].drafts]
  /\ UNCHANGED <<grant, course, lesson, posts, changes, archive>>

\* Faulty: the versions of the preview are not compared.
AnyVersions(c) == DOMAIN changes[c].drafts = DOMAIN changes[c].versions

\* revision_can_apply
CanApply(c) ==
  /\ DOMAIN changes[c].drafts = DOMAIN changes[c].versions
  /\ \A l \in DOMAIN changes[c].versions :
       lesson[l].version = changes[c].versions[l] /\ lesson[l].holder = 0

\* snapshot_lesson: a version that is already kept is not written again.
Snapshots(selected) ==
  {[lesson |-> l, version |-> lesson[l].version, text |-> lesson[l].text] :
     l \in {k \in selected : lesson[k].text # 0 /\
              ~\E s \in archive : s.lesson = k /\ s.version = lesson[k].version}}

\* apply_revision: the page names the revision and the number that it showed.
ApplyRevision ==
  LET c == page.change IN
  /\ grant = "granted" /\ c # 0
  /\ changes[c].status = "ready" /\ changes[c].revision = page.revision
  /\ course.number = page.number /\ CanApply(c)
  /\ archive' = archive \cup Snapshots(DOMAIN changes[c].drafts)
  /\ lesson' = [l \in Lesson |->
                  IF l \notin DOMAIN changes[c].drafts THEN lesson[l]
                  ELSE [lesson[l] EXCEPT !.text = changes[c].drafts[l], !.status = "ready",
                                         !.holder = 0, !.version = @ + 1]]
  /\ changes' = [changes EXCEPT ![c].status = "applied", ![c].revision = @ + 1]
  /\ course' = [course EXCEPT !.number = @ + 1]
  /\ UNCHANGED <<grant, posts, page>>

-----------------------------------------------------------------------------
(* Jobs                                                                    *)

Settled(t, end) == posts' = [posts EXCEPT ![t].status = end]

\* publish of an outline; _preload_first_lesson may ask for the first lesson
\* that has material.
PublishOutline(t) ==
  /\ Open(t) /\ posts[t].lesson = 0
  /\ grant = "granted" /\ course.holder = t /\ course.plan = 0
  /\ \E gaps \in SUBSET Lesson, preload \in BOOLEAN, thin \in BOOLEAN :
       LET Full == Lesson \ gaps
           first == CHOOSE l \in Full : \A k \in Full : l <= k
           ahead == preload /\ Full # {} IN
       /\ ahead => Len(posts) < MaxPosts
       /\ course' = [course EXCEPT !.plan = 1, !.holder = 0, !.number = @ + 1,
                       !.status = IF thin \/ gaps # {} THEN "partial" ELSE "ready"]
       /\ lesson' = [l \in Lesson |->
            IF ahead /\ l = first
            THEN [lesson[l] EXCEPT !.status = "generating", !.last = Next1, !.holder = Next1]
            ELSE [lesson[l] EXCEPT !.status = IF l \in gaps THEN "material_gap" ELSE "not_generated"]]
       /\ LET done == [posts EXCEPT ![t].status = "completed"] IN
          posts' = IF ahead THEN Append(done, [lesson |-> first, change |-> 0, plan |-> 1,
                                               number |-> course.number + 1, status |-> "open"])
                   ELSE done
  /\ UNCHANGED <<grant, changes, archive, page>>

\* _authorized for the job of a lesson
Awaited(t) ==
  LET l == posts[t].lesson IN
  /\ grant = "granted" /\ lesson[l].holder = t
  /\ course.number = posts[t].number /\ course.plan = posts[t].plan
  /\ posts[t].change = 0 => lesson[l].text = 0

PublishLesson(t) ==
  LET l == posts[t].lesson IN
  /\ Open(t) /\ l # 0 /\ posts[t].change = 0 /\ Awaited(t)
  /\ lesson' = [lesson EXCEPT ![l].text = t, ![l].status = "ready", ![l].holder = 0,
                              ![l].version = @ + 1]
  /\ Settled(t, "completed")
  /\ UNCHANGED <<grant, course, changes, archive, page>>

\* mark_revision_candidate; the lesson lets go of its job.
PublishCandidate(t) ==
  LET l == posts[t].lesson
      c == posts[t].change IN
  /\ Open(t) /\ c # 0 /\ Awaited(t)
  /\ LET drafts == [k \in DOMAIN changes[c].drafts \cup {l} |->
                      IF k = l THEN t ELSE changes[c].drafts[k]] IN
     changes' = [changes EXCEPT ![c].drafts = drafts, ![c].revision = @ + 1,
                   ![c].status = IF DOMAIN changes[c].versions \subseteq DOMAIN drafts
                                 THEN "ready" ELSE "generating"]
  /\ lesson' = [lesson EXCEPT ![l].last = 0, ![l].holder = 0]
  /\ Settled(t, "completed")
  /\ UNCHANGED <<grant, course, archive, page>>

\* Any other end of a job: an error, its deadline.  A gap of the material is an
\* error of its own, which tells for a lesson without a text.
FailPost(t) ==
  /\ Open(t)
  /\ \/ Settled(t, "failed")
     \/ posts[t].lesson # 0 /\ posts[t].change = 0 /\ Settled(t, "gap")
  /\ UNCHANGED <<grant, course, lesson, changes, archive, page>>

\* Faulty: a lesson that was preloaded is not closed.
HeldByChange(t) == LET l == posts[t].lesson IN lesson[l].holder = t /\ posts[t].change # 0

\* The rows that reconcile_course closes are those the job still holds.
HeldLesson(t) == LET l == posts[t].lesson IN lesson[l].holder = t /\ lesson[l].text = 0

\* reconcile_course of a job that ended so
CloseFor(t, end) ==
  LET l == posts[t].lesson IN
  /\ course' = IF l = 0 /\ course.holder = t /\ course.plan = 0
               THEN [course EXCEPT !.status = "failed", !.holder = 0] ELSE course
  /\ lesson' = IF l # 0 /\ HeldLesson(t)
               THEN [lesson EXCEPT ![l].holder = 0,
                       ![l].status = IF end = "gap" THEN "material_gap" ELSE "failed"]
               ELSE lesson

\* The owner's sweep.
ReconcileCourse(t) ==
  /\ posts[t].status \in {"failed", "gap"}
  /\ CloseFor(t, posts[t].status)
  /\ UNCHANGED <<grant, posts, changes, archive, page>>

\* cancel_task closes in the same transaction.
CancelCourse(t) ==
  /\ grant = "granted" /\ Open(t)
  /\ Settled(t, "failed") /\ CloseFor(t, "failed")
  /\ UNCHANGED <<grant, changes, archive, page>>

-----------------------------------------------------------------------------
(* Revocation                                                              *)

RevokeCourse ==
  /\ grant = "granted"
  /\ grant' = "revoked"
  /\ UNCHANGED <<course, lesson, posts, changes, archive, page>>

\* purge_document
PurgeCourse ==
  /\ grant = "revoked"
  /\ grant' = "purged"
  /\ course' = [course EXCEPT !.status = "source_revoked", !.plan = 0, !.holder = 0, !.number = @ + 1]
  /\ lesson' = [l \in Lesson |-> IF lesson[l].status = "absent" THEN lesson[l]
                  ELSE [lesson[l] EXCEPT !.status = "source_revoked", !.text = 0, !.holder = 0]]
  /\ UNCHANGED <<posts, changes, archive, page>>

-----------------------------------------------------------------------------
CourseNext ==
  \/ RetryOutline \/ UpdateOutline \/ PreviewRevision \/ ApplyRevision
  \/ \E l \in Lesson, c \in {0} \cup Change : GenerateLesson(l, c)
  \/ \E c \in Change : StartRevision(c) \/ ViewRevision(c)
  \/ \E t \in Post : \/ PublishOutline(t) \/ PublishLesson(t) \/ PublishCandidate(t)
                     \/ FailPost(t) \/ ReconcileCourse(t) \/ CancelCourse(t)
  \/ RevokeCourse \/ PurgeCourse

CourseSpec == CourseInit /\ [][CourseNext]_courseVars

-----------------------------------------------------------------------------
(* Properties                                                              *)

CourseTypeOK ==
  /\ grant \in {"granted", "revoked", "purged"}
  /\ course.status \in {"generating", "ready", "partial", "failed", "source_revoked"}
  /\ course.plan \in 0..MaxPlans /\ {course.outline, course.holder} \subseteq {0} \cup Post
  /\ lesson \in [Lesson -> [status : {"absent", "not_generated", "generating", "ready",
                                      "material_gap", "failed", "source_revoked"},
                            text : {0} \cup Post, version : Nat, last : {0} \cup Post,
                            holder : {0} \cup Post]]
  /\ \A t \in Post : /\ posts[t].lesson \in {0} \cup Lesson /\ posts[t].change \in {0} \cup Change
                     /\ posts[t].status \in {"open", "completed", "failed", "gap"}
  /\ \A c \in Change : /\ changes[c].status \in {"preview", "generating", "ready", "applied"}
                       /\ DOMAIN changes[c].drafts \subseteq DOMAIN changes[c].versions
  /\ archive \subseteq [lesson : Lesson, version : Nat, text : Post]

\* A published text is replaced only when a revision is applied: all its lessons
\* at once, each from the very version that was previewed, by the draft that the
\* page showed and that a job wrote for this revision, while no job is at work
\* on it; and what was replaced stays readable under its version for good
\* (apply_revision, mark_revision_candidate, snapshot_lesson).
AppliedAsPreviewed ==
  [][/\ \A l \in Lesson :
          lesson[l].text # 0 /\ lesson'[l].text \notin {0, lesson[l].text} =>
            LET c == page.change IN
            /\ changes[c].status = "ready" /\ changes'[c].status = "applied"
            /\ l \in DOMAIN changes[c].versions
            /\ \A k \in DOMAIN changes[c].versions :
                 /\ lesson[k].version = changes[c].versions[k] /\ ~Waiting(k)
                 /\ lesson'[k].text = page.drafts[k]
                 /\ posts[page.drafts[k]].lesson = k /\ posts[page.drafts[k]].change = c
                 /\ [lesson |-> k, version |-> lesson[k].version, text |-> lesson[k].text] \in archive'
     /\ archive \subseteq archive']_courseVars

\* Nothing waits for a job: a course, and every lesson that has no text, tells
\* how its job ended and may be asked for again.
Answered ==
  /\ course.status # "generating"
  /\ \A l \in Lesson : lesson[l].status = "generating" => lesson[l].text # 0

\* "Once lessons are generated the outline cannot be changed"
\* (services/course_service.py:184).
OutlineLocked == [][course'.plan > course.plan => \A l \in Lesson : lesson[l].version = 0]_courseVars
===============================================================================
