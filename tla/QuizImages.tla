------------------------------ MODULE QuizImages ------------------------------
(***************************************************************************)
(* The pictures of one quiz: the job that has them drawn and stored        *)
(* (services/image_job_service.py), the removal of a revoked source        *)
(* (source_service.cleanup_document) and the sweep of orphaned files       *)
(* (services/maintenance.py).                                              *)
(*                                                                         *)
(* A provider is paid for every picture, so that a request with an unknown *)
(* outcome must not be repeated.  A file is written before the transaction *)
(* that publishes it, and the answer to a COMMIT may be lost.  A file is   *)
(* named by the attempt and the question it was written for; asset 0       *)
(* stands for none.  The queue appears as what it guarantees (JobQueue).   *)
(***************************************************************************)
EXTENDS Naturals

CONSTANTS LastQuestion,   \* the questions of the quiz are numbered from 1
          MaxRuns         \* quiz_tasks.max_attempts

ASSUME ImagesAssumption == {LastQuestion, MaxRuns} \subseteq Nat \ {0}

VARIABLES
  task,       \* quiz_tasks: status, attempt and whether the lease runs
  scope,      \* the source of the quiz: granted, revoked or cleaned
  operation,  \* question -> image_operations.status, or none
  known,      \* questions whose operation holds the address of a picture
  item,       \* question -> image_status and image_url of questions_json
  images,     \* quiz_sessions.images_status
  assets,     \* user_assets
  files,      \* files below assets/
  old,        \* files written a day ago
  doomed,     \* maintenance_actions of the kind orphan
  run,        \* attempt -> where its run_images is
  paid,       \* history: question -> requests sent to the provider
  cleaner     \* cleanup_document: rows it listed, and the one whose file is gone

rows == <<operation, known, item, images>>
disk == <<files, old, doomed>>
imageVars == <<task, scope, rows, assets, disk, run, paid, cleaner>>

Question == 1..LastQuestion
Run == 1..MaxRuns
Key == Run \X Question
NoKey == <<0, 0>>
Off == [at |-> "off", q |-> 1, url |-> FALSE, why |-> "none",
        ends |-> [q \in Question |-> "none"]]
Resting == [on |-> FALSE, todo |-> {}, gone |-> NoKey]

ImagesInit ==
  /\ task = [status |-> "pending", attempt |-> 0, leased |-> FALSE]
  /\ scope = "granted"
  /\ operation = [q \in Question |-> "none"] /\ known = {}
  /\ item = [q \in Question |-> [status |-> "pending", asset |-> 0]]
  /\ images = "pending"
  /\ assets = {} /\ files = {} /\ old = {} /\ doomed = {}
  /\ run = [a \in Run |-> Off]
  /\ paid = [q \in Question |-> 0]
  /\ cleaner = Resting

-----------------------------------------------------------------------------
(* The queue                                                               *)

Holding(a) == task.status = "running" /\ task.attempt = a /\ task.leased

\* _locked_quiz: the job is owned and its sources are granted.
LockedQuiz(a) == Holding(a) /\ scope = "granted"

TakeJob ==
  /\ task.status = "pending" \/ (task.status = "running" /\ ~task.leased)
  /\ task.attempt < MaxRuns
  /\ task' = [task EXCEPT !.status = "running", !.leased = TRUE, !.attempt = @ + 1]
  /\ run' = [run EXCEPT ![task.attempt + 1].at = "begin"]
  /\ UNCHANGED <<scope, rows, assets, disk, paid, cleaner>>

LoseLease ==
  /\ task.leased
  /\ task' = [task EXCEPT !.leased = FALSE]
  /\ UNCHANGED <<scope, rows, assets, disk, run, paid, cleaner>>

\* finalize_terminal_rows and cancel_job
EndJob ==
  /\ task.status \in {"pending", "running"}
  /\ task' = [task EXCEPT !.status = "failed", !.leased = FALSE]
  /\ UNCHANGED <<scope, rows, assets, disk, run, paid, cleaner>>

\* The owner closes the pictures of a job that did not complete.
ReconcileImages ==
  /\ task.status = "failed" /\ images \in {"pending", "running"}
  /\ images' = "failed"
  /\ UNCHANGED <<task, scope, operation, known, item, assets, disk, run, paid, cleaner>>

-----------------------------------------------------------------------------
(* run_images                                                              *)

At(a, place) == run[a].at = place
Goto(a, place) == run' = [run EXCEPT ![a].at = place]
\* An error leaves run_images.
Escape(a, place) == run' = [run EXCEPT ![a] = [Off EXCEPT !.at = place]]
\* An error that is answered by a status of the operation, once it is marked.
Excuse(a, why) == run' = [run EXCEPT ![a].at = "mark", ![a].why = why, ![a].url = FALSE]

\* The question is done; its status goes into the list of statuses.
NextQuestion(a, end) ==
  LET q == run[a].q IN
  run' = [run EXCEPT ![a] = [Off EXCEPT
            !.at = IF q = LastQuestion THEN "publish" ELSE "look",
            !.q = IF q = LastQuestion THEN q ELSE q + 1,
            !.ends = [run[a].ends EXCEPT ![q] = end]]]

\* The status of the quiz when all questions are done.
Summary(ends) ==
  IF \A q \in Question : ends[q] = "completed" THEN "completed"
  ELSE IF \E q \in Question : ends[q] = "completed" THEN "partial" ELSE "failed"

BeginImages(a) ==
  /\ At(a, "begin")
  /\ IF LockedQuiz(a) THEN images' = "running" /\ Goto(a, "look")
     ELSE Escape(a, "failing") /\ UNCHANGED images
  /\ UNCHANGED <<task, scope, operation, known, item, assets, disk, paid, cleaner>>

Fresh(q) == operation[q] = "none"

\* The operation of the question decides what is left to do.
Look(a) ==
  LET q == run[a].q IN
  /\ At(a, "look")
  /\ \/ ~LockedQuiz(a) /\ Escape(a, "failing") /\ UNCHANGED operation
     \/ /\ LockedQuiz(a) /\ Fresh(q)
        /\ operation' = [operation EXCEPT ![q] = "submitting"]
        /\ Goto(a, "call") \/ Escape(a, "failing")
     \/ /\ LockedQuiz(a) /\ ~Fresh(q) /\ UNCHANGED operation
        /\ \/ operation[q] \in {"completed", "failed", "unknown"} /\ NextQuestion(a, operation[q])
           \/ operation[q] = "submitting" /\ Excuse(a, "unknown")
           \/ /\ operation[q] \in {"generated", "download_failed"}
              /\ run' = [run EXCEPT ![a].at = "fetch", ![a].url = (q \in known)]
  /\ UNCHANGED <<task, scope, known, item, images, assets, disk, paid, cleaner>>

\* call_external: refused, or sent and answered, or sent with an error.
CallProvider(a) ==
  LET q == run[a].q IN
  /\ At(a, "call")
  /\ \/ ~LockedQuiz(a) /\ Escape(a, "failing") /\ UNCHANGED paid
     \/ LockedQuiz(a) /\ Excuse(a, "failed") /\ UNCHANGED paid
     \/ /\ LockedQuiz(a)
        /\ paid' = [paid EXCEPT ![q] = @ + 1]
        /\ \/ run' = [run EXCEPT ![a].at = "save", ![a].url = TRUE]
           \/ Excuse(a, "failed")
           \/ Excuse(a, "unknown")
  /\ UNCHANGED <<task, scope, rows, assets, disk, cleaner>>

\* _set_status of the address that was answered; its COMMIT may fail.
SaveAddress(a) ==
  LET q == run[a].q IN
  /\ At(a, "save")
  /\ \/ ~LockedQuiz(a) /\ Escape(a, "failing") /\ UNCHANGED rows
     \/ LockedQuiz(a) /\ Excuse(a, "download_failed") /\ UNCHANGED rows
     \/ /\ LockedQuiz(a)
        /\ operation' = [operation EXCEPT ![q] = "generated"] /\ known' = known \cup {q}
        /\ item' = [item EXCEPT ![q].status = "generated"]
        /\ Goto(a, "fetch") \/ Excuse(a, "download_failed")
        /\ UNCHANGED images
  /\ UNCHANGED <<task, scope, assets, disk, paid, cleaner>>

\* The download, metered as the job's own, and the file.
Fetch(a) ==
  /\ At(a, "fetch")
  /\ \/ ~LockedQuiz(a) /\ Escape(a, "failing") /\ UNCHANGED files
     \/ ~run[a].url /\ Excuse(a, "unknown") /\ UNCHANGED files
     \/ run[a].url /\ Excuse(a, "download_failed") /\ UNCHANGED files
     \/ /\ run[a].url /\ LockedQuiz(a)
        /\ files' = files \cup {<<a, run[a].q>>}
        /\ run' = [run EXCEPT ![a].at = "commit", ![a].url = FALSE]
  /\ UNCHANGED <<task, scope, rows, assets, old, doomed, paid, cleaner>>

\* The publication of one picture.
Insert(a, q) ==
  /\ assets' = assets \cup {<<a, q>>}
  /\ item' = [item EXCEPT ![q] = [status |-> "completed", asset |-> a]]
  /\ operation' = [operation EXCEPT ![q] = "completed"]

\* The worker may see an error whether or not the COMMIT happened; "stop" is a
\* cancellation of the job while it waits.
CommitPicture(a) ==
  /\ At(a, "commit")
  /\ \/ /\ LockedQuiz(a) /\ Insert(a, run[a].q)
        /\ \/ NextQuestion(a, "completed")
           \/ \E why \in {"error", "stop"} :
                run' = [run EXCEPT ![a].at = "check", ![a].why = why]
     \/ /\ \E why \in {"error", "stop", IF Holding(a) THEN "error" ELSE "stale_lease"} :
             run' = [run EXCEPT ![a].at = "check", ![a].why = why]
        /\ UNCHANGED <<assets, item, operation>>
  /\ UNCHANGED <<task, scope, known, images, disk, paid, cleaner>>

\* Faulty: an error is taken for the proof that nothing was published.
NeverPublished(a) == FALSE

Published(a) == LET q == run[a].q IN <<a, q>> \in assets /\ operation[q] = "completed"

\* The handler looks up whether the picture was published before it removes the
\* file; without an answer the file stays.
CheckPublished(a) ==
  /\ At(a, "check")
  /\ \/ Escape(a, IF run[a].why = "stop" THEN "stopped" ELSE "failing") /\ UNCHANGED files
     \/ /\ Published(a) /\ UNCHANGED files
        /\ IF run[a].why = "stop" THEN Escape(a, "stopped") ELSE NextQuestion(a, "completed")
     \/ /\ ~Published(a)
        /\ files' = files \ {<<a, run[a].q>>}
        /\ CASE run[a].why = "stop" -> Escape(a, "stopped")
             [] run[a].why = "stale_lease" -> Escape(a, "failing")
             [] OTHER -> Excuse(a, "download_failed")
  /\ UNCHANGED <<task, scope, rows, assets, old, doomed, paid, cleaner>>

\* _set_status of an error
Mark(a) ==
  LET q == run[a].q
      why == run[a].why IN
  /\ At(a, "mark")
  /\ \/ Escape(a, "failing") /\ UNCHANGED <<operation, item>>
     \/ /\ LockedQuiz(a)
        /\ operation' = [operation EXCEPT ![q] = why]
        /\ item' = [item EXCEPT ![q].status = IF why = "download_failed" THEN "failed" ELSE why]
        /\ NextQuestion(a, why) \/ Escape(a, "failing")
  /\ UNCHANGED <<task, scope, known, images, assets, disk, paid, cleaner>>

\* complete_job with its publisher
PublishQuiz(a) ==
  /\ At(a, "publish")
  /\ IF LockedQuiz(a)
     THEN /\ images' = Summary(run[a].ends)
          /\ task' = [task EXCEPT !.status = "completed", !.leased = FALSE]
          /\ run' = [run EXCEPT ![a] = Off]
     ELSE Escape(a, "failing") /\ UNCHANGED <<task, images>>
  /\ UNCHANGED <<scope, operation, known, item, assets, disk, paid, cleaner>>

\* run_once ends the job: for good after an error, for another attempt when the
\* worker stops.
LeaveJob(a) ==
  /\ At(a, "failing") \/ At(a, "stopped")
  /\ run' = [run EXCEPT ![a] = Off]
  /\ task' = IF ~Holding(a) THEN task
             ELSE [task EXCEPT !.leased = FALSE,
                     !.status = IF At(a, "stopped") /\ a < MaxRuns THEN "pending" ELSE "failed"]
  /\ UNCHANGED <<scope, rows, assets, disk, paid, cleaner>>

\* The job is cancelled while it waits, with no file of its own in hand.
Interrupt(a) ==
  /\ ~(run[a].at \in {"off", "commit", "check", "failing", "stopped"})
  /\ Escape(a, "stopped")
  /\ UNCHANGED <<task, scope, rows, assets, disk, paid, cleaner>>

\* The process stops.
CrashRun(a) ==
  /\ ~At(a, "off")
  /\ run' = [run EXCEPT ![a] = Off]
  /\ UNCHANGED <<task, scope, rows, assets, disk, paid, cleaner>>

-----------------------------------------------------------------------------
(* The revocation of the source                                            *)

RevokeSource ==
  /\ scope = "granted"
  /\ scope' = "revoked"
  /\ UNCHANGED <<task, rows, assets, disk, run, paid, cleaner>>

\* cleanup_document lists the rows, and removes file and row one by one.
StartCleaning ==
  /\ scope = "revoked" /\ ~cleaner.on
  /\ cleaner' = [Resting EXCEPT !.on = TRUE, !.todo = assets]
  /\ UNCHANGED <<task, scope, rows, assets, disk, run, paid>>

RemoveFile(k) ==
  /\ cleaner.on /\ k \in cleaner.todo /\ cleaner.gone = NoKey
  /\ files' = files \ {k} /\ old' = old \ {k}
  /\ cleaner' = [cleaner EXCEPT !.gone = k]
  /\ UNCHANGED <<task, scope, rows, assets, doomed, run, paid>>

RemoveRow ==
  /\ cleaner.on /\ cleaner.gone # NoKey
  /\ assets' = assets \ {cleaner.gone}
  /\ cleaner' = [cleaner EXCEPT !.gone = NoKey, !.todo = @ \ {cleaner.gone}]
  /\ UNCHANGED <<task, scope, rows, disk, run, paid>>

EndCleaning ==
  /\ cleaner.on
  /\ cleaner' = Resting
  /\ scope' = IF cleaner.todo = {} THEN "cleaned" ELSE scope   \* or it stops
  /\ UNCHANGED <<task, rows, assets, disk, run, paid>>

-----------------------------------------------------------------------------
(* Orphans                                                                 *)

\* A day passes; no job lasts that long.
GrowOld(k) ==
  /\ k \in files \ old
  /\ ~(run[k[1]].q = k[2] /\ run[k[1]].at \in {"commit", "check"})
  /\ old' = old \cup {k}
  /\ UNCHANGED <<task, scope, rows, assets, files, doomed, run, paid, cleaner>>

\* _references
Unreferenced(k) == k \notin assets

\* sweep_orphans leaves an intent ...
QueueOrphan(k) ==
  /\ k \in old \ doomed /\ Unreferenced(k)
  /\ doomed' = doomed \cup {k}
  /\ UNCHANGED <<task, scope, rows, assets, files, old, run, paid, cleaner>>

\* ... and _drain reads the references again before it removes the file.
DrainOrphan(k) ==
  /\ k \in doomed /\ Unreferenced(k)
  /\ doomed' = doomed \ {k}
  /\ files' = files \ {k} /\ old' = old \ {k}
  /\ UNCHANGED <<task, scope, rows, assets, run, paid, cleaner>>

-----------------------------------------------------------------------------
ImagesNext ==
  \/ TakeJob \/ LoseLease \/ EndJob \/ ReconcileImages
  \/ \E a \in Run :
       \/ BeginImages(a) \/ Look(a) \/ CallProvider(a) \/ SaveAddress(a) \/ Fetch(a)
       \/ CommitPicture(a) \/ CheckPublished(a) \/ Mark(a) \/ PublishQuiz(a)
       \/ LeaveJob(a) \/ Interrupt(a) \/ CrashRun(a)
  \/ RevokeSource \/ StartCleaning \/ RemoveRow \/ EndCleaning
  \/ \E k \in Key : RemoveFile(k) \/ GrowOld(k) \/ QueueOrphan(k) \/ DrainOrphan(k)

ImagesSpec == ImagesInit /\ [][ImagesNext]_imageVars

\* The deadline of a job ends its transactions, days pass and the operator runs
\* the maintenance.
ImagesFairness ==
  /\ WF_imageVars(\E a \in Run : CommitPicture(a) \/ CheckPublished(a))
  /\ WF_imageVars(\E k \in Key : GrowOld(k))
  /\ WF_imageVars(\E k \in Key : QueueOrphan(k) \/ DrainOrphan(k))

-----------------------------------------------------------------------------
(* Properties                                                              *)

Stop == {"off", "begin", "look", "call", "save", "fetch", "commit", "check", "mark", "publish",
         "failing", "stopped"}
End == {"none", "completed", "failed", "unknown", "download_failed"}
Why == {"none", "failed", "unknown", "download_failed", "error", "stop", "stale_lease"}

ImagesTypeOK ==
  /\ task \in [status : {"pending", "running", "completed", "failed"}, attempt : 0..MaxRuns,
               leased : BOOLEAN]
  /\ scope \in {"granted", "revoked", "cleaned"}
  /\ operation \in [Question -> {"none", "submitting", "generated", "download_failed",
                                 "failed", "unknown", "completed"}]
  /\ known \subseteq Question
  /\ item \in [Question -> [status : {"pending", "generated", "failed", "unknown", "completed"},
                            asset : 0..MaxRuns]]
  /\ images \in {"pending", "running", "completed", "partial", "failed"}
  /\ assets \subseteq Key /\ old \subseteq files /\ files \subseteq Key /\ doomed \subseteq Key
  /\ run \in [Run -> [at : Stop, q : Question, url : BOOLEAN, why : Why, ends : [Question -> End]]]
  /\ paid \in [Question -> Nat]
  /\ cleaner \in [on : BOOLEAN, todo : SUBSET Key, gone : Key \cup {NoKey}]

\* No picture is paid for twice, whatever attempts stop between the request and
\* its record and whatever answers are lost ("no re-billing after unknown
\* outcomes", image_job_service.py:1).
PaidOnce == \A q \in Question : paid[q] <= 1

\* A picture that the quiz shows is there, row and file, until its source is
\* revoked; every row is one the quiz shows; a completed job tells how many
\* there are; and when the removal has ended no row comes back
\* (run_images, cleanup_document, sweep_orphans).
ImagesAreThere ==
  /\ \A q \in Question :
       item[q].asset # 0 /\ scope = "granted" => <<item[q].asset, q>> \in assets \cap files
  /\ \A k \in assets : item[k[2]].asset = k[1] /\ operation[k[2]] = "completed"
  /\ task.status = "completed" => images = Summary([q \in Question |-> item[q].status])
  /\ scope = "cleaned" => assets = {}

\* No file is left that nothing refers to.
Swept == files \subseteq assets
===============================================================================
