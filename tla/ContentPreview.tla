--------------------------- MODULE ContentPreview ---------------------------
(***************************************************************************)
(* The private preview of one task while its text is being generated       *)
(* (services/content_event_service.py), its stream                         *)
(* (services/content_event_stream.py) and the page that shows it           *)
(* (web/src/services/contentEvents.ts).                                    *)
(*                                                                         *)
(* Every append is a transaction that owns the task (job_service           *)
(* .locked_job) and reauthorizes its sources.  Closing a preview is a      *)
(* transaction of its own after the end of the task and may be lost.       *)
(* A draft is an attempt and a generation revision; its text is the pieces *)
(* 1, 2, ... of that draft.  Blocks are pieces too.                        *)
(***************************************************************************)
EXTENDS Integers, FiniteSets, SequencesExt

CONSTANTS
    MaxTries,    \* quiz_tasks.max_attempts
    MaxText,        \* bound: attempt, revision and pieces of a draft together
    MaxBatch        \* frames that the stream reads at a time

ASSUME PreviewBounds ==
    /\ {MaxTries, MaxBatch} \subseteq Nat \ {0}
    /\ MaxText \in Nat /\ MaxText > MaxTries + 1

VARIABLES
    task,       \* quiz_tasks: status, attempt and whether the lease still runs
    source,     \* what revoke_document has done about the source of the task
    worker,     \* the ContentPreview object of each attempt
    closing,    \* calls of close_content still to come
    head,       \* task_content_heads, status "none" without a row
    frames,     \* task_content_frames
    conn,       \* the generator of the stream: its place, its copies, its cursor
    screen      \* what the page shows

queueVars == <<task, source, worker, closing>>
previewVars == <<queueVars, head, frames, conn, screen>>

Attempts == 1..MaxTries
MaxRevision == MaxText - 2
MaxPieces == MaxText - 2
Ended == {"completed", "failed"}     \* failed stands for cancelled, too: nothing
                                     \* here tells them apart
Terminal == {"finalized", "unavailable", "revoked"}
NoPlace == <<0, 0, 0>>
NoHead == [attempt |-> 0, revision |-> 0, seq |-> 0, status |-> "none", age |-> "open"]
Heads == [attempt : 0..MaxTries, revision : 0..MaxRevision, seq : Nat,
          status : {"none", "active", "finalized", "unavailable"},
          age : {"open", "closed", "old"}]       \* old: closed an hour ago
StoredFrames == [attempt : Attempts, revision : 1..MaxRevision, seq : Nat,
                 kind : {"delta", "reset", "finalized", "unavailable"}, piece : 0..MaxPieces]
\* The object of an attempt, and one that is not in use.
Previews == [phase : {"off", "on", "failing"}, revision : 1..MaxRevision, piece : 0..MaxPieces,
             disabled : BOOLEAN]
Idle == [phase |-> "off", revision |-> 1, piece |-> 0, disabled |-> FALSE]
\* A stream that begins a round with the cursor of the last frame.
Round(cursor) == [at |-> "row", status |-> "open", attempt |-> 0,
                  draft |-> <<0, 0>>, high |-> 0, last |-> cursor]
Cursors == (0..MaxTries) \X (0..MaxRevision) \X Nat

StoreTypeOK ==
    /\ task \in [status : {"pending", "running"} \cup Ended,
                 attempt : 0..MaxTries, leased : BOOLEAN]
    /\ source \in {"granted", "marked", "stopped", "purged"}
    /\ worker \in [Attempts -> Previews]
    /\ closing \subseteq [attempt : Attempts, completed : BOOLEAN]
    /\ head \in Heads
    /\ frames \subseteq StoredFrames

PreviewTypeOK ==
    /\ StoreTypeOK
    /\ conn.at \in {"row", "head", "frames"}
    /\ conn.status \in {"open"} \cup Ended
    /\ conn.attempt \in 0..MaxTries
    /\ conn.draft \in (0..MaxTries) \X (0..MaxRevision)
    /\ conn.high \in Nat
    /\ conn.last \in Cursors
    /\ screen.draft \in (0..MaxTries) \X (0..MaxRevision)
    /\ screen.cursor \in Cursors
    /\ screen.failures \in 0..2
    /\ screen.status \in {"waiting", "streaming"} \cup Terminal

PreviewInit ==
    /\ task = [status |-> "pending", attempt |-> 0, leased |-> FALSE]
    /\ source = "granted"
    /\ worker = [a \in Attempts |-> Idle]
    /\ closing = {}
    /\ head = NoHead
    /\ frames = {}
    /\ conn = Round(NoPlace)
    /\ screen = [draft |-> <<0, 0>>, seq |-> 0, text |-> <<>>, status |-> "waiting",
                 cursor |-> NoPlace, failures |-> 0, done |-> FALSE]

-----------------------------------------------------------------------------
(* The queue, as far as a preview can see it                               *)

Owns(a) == task.status = "running" /\ task.attempt = a /\ task.leased

MayRetry == task.attempt < MaxTries

TakeTask ==
    /\ task.status = "pending" \/ (task.status = "running" /\ ~task.leased)
    /\ MayRetry
    /\ task' = [status |-> "running", attempt |-> task.attempt + 1, leased |-> TRUE]
    /\ worker' = [worker EXCEPT ![task.attempt + 1].phase = "on"]
    /\ UNCHANGED <<source, closing, head, frames, conn, screen>>

LeaseExpires ==
    /\ task.status = "running" /\ task.leased
    /\ task' = [task EXCEPT !.leased = FALSE]
    /\ UNCHANGED <<source, worker, closing, head, frames, conn, screen>>

\* finalize_terminal_rows and cancel_job: the queue ends the task.
EndTask ==
    /\ task.status \in {"pending", "running"}
    /\ task' = [task EXCEPT !.status = "failed", !.leased = FALSE]
    /\ UNCHANGED <<source, worker, closing, head, frames, conn, screen>>

\* complete_job and fail_job end with close_content, after their commit.
Complete(a) ==
    /\ worker[a].phase = "on" /\ Owns(a) /\ source = "granted"
    /\ task' = [task EXCEPT !.status = "completed", !.leased = FALSE]
    /\ worker' = [worker EXCEPT ![a] = Idle]
    /\ closing' = closing \cup {[attempt |-> a, completed |-> TRUE]}
    /\ UNCHANGED <<source, head, frames, conn, screen>>

Fail(a) ==
    /\ worker[a].phase = "failing"
    /\ worker' = [worker EXCEPT ![a] = Idle]
    /\ IF Owns(a)
       THEN /\ \E status \in {"pending", "failed"} :
                 /\ status = "pending" => a < MaxTries
                 /\ task' = [task EXCEPT !.status = status, !.leased = FALSE]
            /\ closing' = closing \cup {[attempt |-> a, completed |-> FALSE]}
       ELSE UNCHANGED <<task, closing>>
    /\ UNCHANGED <<source, head, frames, conn, screen>>

\* The process stops.
Crash(a) ==
    /\ worker[a].phase # "off"
    /\ worker' = [worker EXCEPT ![a] = Idle]
    /\ UNCHANGED <<task, source, closing, head, frames, conn, screen>>

-----------------------------------------------------------------------------
(* Appending                                                               *)

\* _write: a frame that replaces the draft removes what was there.
WriteFrame(h, kept, kind, piece) ==
    LET seq == h.seq + 1
    IN  /\ frames' = (IF kind \in {"unavailable", "reset"} THEN {} ELSE kept)
                       \cup {[attempt |-> h.attempt, revision |-> h.revision, seq |-> seq,
                              kind |-> kind, piece |-> piece]}
        /\ head' = IF kind \in {"unavailable", "finalized"}
                   THEN [h EXCEPT !.seq = seq, !.status = kind, !.age = "closed"]
                   ELSE [h EXCEPT !.seq = seq, !.status = "active", !.age = "open"]

NewDraft(a, r) == head.status = "none" \/ head.attempt # a \/ r > head.revision
HeadFor(a, r) == IF NewDraft(a, r)
                 THEN [attempt |-> a, revision |-> r, seq |-> 0, status |-> "active", age |-> "open"]
                 ELSE head
KeptFor(a, r) == IF NewDraft(a, r) THEN {} ELSE frames

\* append_content_frame fails for a worker that lost the task, for a revoked
\* source and for a draft older than the stored one ...
Refused(a, r) ==
    \/ ~Owns(a)
    \/ source # "granted"
    \/ ~NewDraft(a, r) /\ r < head.revision

\* ... and a newer draft of the attempt must begin with a reset.
OutOfOrder(a, r, kind) ==
    head.status # "none" /\ head.attempt = a /\ r > head.revision /\ kind # "reset"

Stored(a, r, kind, piece) ==
    /\ ~Refused(a, r) /\ ~OutOfOrder(a, r, kind)
    /\ IF HeadFor(a, r).status = "active"
       THEN WriteFrame(HeadFor(a, r), KeptFor(a, r), kind, piece)
       ELSE UNCHANGED <<head, frames>>

\* Faulty: the next piece is sent although one could not be stored.
GoOn(w) == w

\* A preview that failed once stays silent: _send returns at once.
Disable(w) == [w EXCEPT !.disabled = TRUE, !.piece = 0]

\* ContentPreview._send of a frame; w is the object before the call.  Storage
\* may fail with the frame stored (a lost COMMIT answer) or not, and a frame
\* may be too large, which makes the preview unavailable.
SendFrame(a, w, kind, piece) ==
    \/ /\ Refused(a, w.revision)
       /\ worker' = [worker EXCEPT ![a] = [Idle EXCEPT !.phase = "failing"]]
       /\ UNCHANGED <<head, frames>>
    \/ /\ Stored(a, w.revision, kind, piece)
       /\ \/ worker' = [worker EXCEPT ![a] = w]
          \/ worker' = [worker EXCEPT ![a] = Disable(w)]
    \/ /\ ~Refused(a, w.revision)
       /\ \/ Stored(a, w.revision, "unavailable", 0)
          \/ UNCHANGED <<head, frames>>
       /\ worker' = [worker EXCEPT ![a] = Disable(w)]

SendPiece(a) ==
    /\ worker[a].phase = "on" /\ ~worker[a].disabled
    /\ a + worker[a].revision + worker[a].piece < MaxText
    /\ LET w == [worker[a] EXCEPT !.piece = @ + 1] IN SendFrame(a, w, "delta", w.piece)
    /\ UNCHANGED <<task, source, closing, conn, screen>>

\* reset: a new draft of the attempt, or the saved draft of an earlier one.
ResetDraft(a, r) ==
    /\ worker[a].phase = "on" /\ ~worker[a].disabled
    /\ r > worker[a].revision
    /\ LET w == [worker[a] EXCEPT !.revision = r, !.piece = 0] IN SendFrame(a, w, "reset", 0)
    /\ UNCHANGED <<task, source, closing, conn, screen>>

\* The job raises; content_preview tries to make the preview unavailable.
RaiseJob(a) ==
    /\ worker[a].phase = "on"
    /\ worker' = [worker EXCEPT ![a] = [Idle EXCEPT !.phase = "failing"]]
    /\ \/ ~worker[a].disabled /\ Stored(a, worker[a].revision, "unavailable", 0)
       \/ UNCHANGED <<head, frames>>
    /\ UNCHANGED <<task, source, closing, conn, screen>>

-----------------------------------------------------------------------------
(* Closing and removing                                                    *)

\* close_content, unless it fails, which is only logged.
CloseContent(c) ==
    /\ closing' = closing \ {c}
    /\ \/ /\ task.attempt = c.attempt
          /\ head.status = "active" /\ head.attempt = c.attempt
          /\ WriteFrame(head, frames, IF c.completed THEN "finalized" ELSE "unavailable", 0)
       \/ UNCHANGED <<head, frames>>
    /\ UNCHANGED <<task, source, worker, conn, screen>>

\* A preview nobody will close.
Abandoned == task.status \in Ended \/ task.attempt # head.attempt

\* purge_content, its two statements.
PurgeClose ==
    /\ head.status # "none" /\ head.age = "open"
    /\ Abandoned
    /\ head' = [head EXCEPT !.status = "unavailable", !.age = "closed"]
    /\ UNCHANGED <<queueVars, frames, conn, screen>>

PurgeOld ==
    /\ head.status # "none" /\ head.age = "old"
    /\ head' = NoHead
    /\ frames' = {}
    /\ UNCHANGED <<queueVars, conn, screen>>

\* An hour passes.
Age ==
    /\ head.status # "none" /\ head.age = "closed"
    /\ head' = [head EXCEPT !.age = "old"]
    /\ UNCHANGED <<queueVars, frames, conn, screen>>

\* revoke_document: mark the source, cancel the unfinished tasks of it, and
\* then remove the previews, each in its own transactions.
Mark ==
    /\ source = "granted"
    /\ source' = "marked"
    /\ UNCHANGED <<task, worker, closing, head, frames, conn, screen>>

CancelTask ==
    /\ source = "marked"
    /\ source' = "stopped"
    /\ task' = IF task.status \in Ended THEN task
               ELSE [task EXCEPT !.status = "failed", !.leased = FALSE]
    /\ UNCHANGED <<worker, closing, head, frames, conn, screen>>

\* Faulty: a preview that is still open is left to purge_content.
ClosedOnly == head.age # "open"

AnyPreview == TRUE

PurgeRevoked ==
    /\ source = "stopped"
    /\ source' = "purged"
    /\ IF AnyPreview THEN head' = NoHead /\ frames' = {} ELSE UNCHANGED <<head, frames>>
    /\ UNCHANGED <<task, worker, closing, conn, screen>>

-----------------------------------------------------------------------------
(* The page                                                                *)

\* applyContentFrame
Apply(shown, f) ==
    LET same == shown.draft = <<f.attempt, f.revision>>
        fresh == f.kind \in {"reset", "snapshot"}
        older == \/ f.attempt < shown.draft[1]
                 \/ f.attempt = shown.draft[1] /\ f.revision < shown.draft[2]
        text == IF same /\ ~fresh THEN shown.text ELSE <<>>
        next == [shown EXCEPT !.draft = <<f.attempt, f.revision>>, !.seq = f.seq]
    IN  IF older \/ (same /\ f.seq < shown.seq) THEN shown
        ELSE IF f.kind \in {"unavailable", "revoked"} THEN [next EXCEPT !.text = <<>>, !.status = f.kind]
        ELSE IF f.kind = "finalized" THEN [next EXCEPT !.text = text, !.status = f.kind]
        ELSE IF same /\ f.seq = shown.seq /\ ~fresh THEN shown
        ELSE IF f.kind = "delta"
        THEN [next EXCEPT !.text = Append(text, <<f.attempt, f.revision, f.piece>>),
                          !.status = "streaming"]
        ELSE [next EXCEPT !.text = <<>>, !.status = "waiting"]

\* A page that is done does not connect again.
Leave(shown) == [shown EXCEPT !.done = TRUE, !.seq = 0, !.cursor = NoPlace, !.failures = 0]

\* A page goes on until an ending frame; three connections that break with no
\* text in between make it give up.
ShowFrames(sent) ==
    LET shown == FoldLeft(Apply, screen, sent)
        last == sent[Len(sent)]
    IN  IF last.kind \in Terminal THEN Leave(shown)
        ELSE [shown EXCEPT !.cursor = <<last.attempt, last.revision, last.seq>>,
                           !.failures = IF \E i \in DOMAIN sent : sent[i].kind = "delta" THEN 0 ELSE @]

Interrupted(p) ==
    IF p.failures < 2 THEN [p EXCEPT !.failures = @ + 1]
    ELSE Leave([p EXCEPT !.text = <<>>, !.status = "unavailable"])

\* The frames of one round of the stream reach the page, all or some of them;
\* a page that has seen an ending closes the connection.
UpToEnding(out) ==
    LET ends == {i \in DOMAIN out : out[i].kind \in Terminal}
    IN  IF ends = {} THEN out ELSE SubSeq(out, 1, CHOOSE i \in ends : \A j \in ends : i <= j)

Arrive(out, cursor) ==
    \/ /\ screen' = IF out = <<>> THEN screen ELSE ShowFrames(UpToEnding(out))
       /\ conn' = Round(IF screen'.done THEN NoPlace ELSE cursor)
    \/ \E n \in 0..Len(out) :
         LET sent == SubSeq(out, 1, n)
             got == IF n = 0 THEN screen ELSE ShowFrames(sent)
         IN  /\ \A i \in 1..n : out[i].kind \notin Terminal
             /\ screen' = Interrupted(got)
             /\ conn' = Round(IF screen'.done THEN NoPlace ELSE got.cursor)

-----------------------------------------------------------------------------
(* The stream                                                              *)

Private(draft, seq, kind, piece) ==
    [attempt |-> draft[1], revision |-> draft[2], seq |-> seq, kind |-> kind, piece |-> piece]
Revision == IF conn.last = NoPlace THEN 1 ELSE conn.last[2]

\* authorize, then _snapshot_row.  The place of a "revoked" frame is what the
\* stream sent last; the page only asks that it is not behind its own.
StreamRow ==
    /\ ~screen.done /\ conn.at = "row"
    /\ IF source # "granted"
       THEN Arrive(<<Private(<<conn.last[1], Revision>>, conn.last[3], "revoked", 0)>>, conn.last)
       ELSE /\ conn' = [conn EXCEPT !.at = "head", !.attempt = task.attempt,
                              !.status = IF task.status \in Ended THEN task.status ELSE "open"]
            /\ UNCHANGED screen
    /\ UNCHANGED <<queueVars, head, frames>>

\* The preview of another attempt is none.
StreamHead ==
    /\ ~screen.done /\ conn.at = "head"
    /\ conn' = IF head.attempt = conn.attempt
               THEN [conn EXCEPT !.at = "frames", !.high = head.seq,
                                 !.draft = <<head.attempt, head.revision>>]
               ELSE [conn EXCEPT !.at = "frames"]
    /\ UNCHANGED <<queueVars, head, frames, screen>>

\* read_content: the frames of one draft after a cursor, unless they are old.
ReadContent(draft, after) ==
    LET found == {f \in frames : <<f.attempt, f.revision>> = draft /\ f.seq > after}
        before(f) == {g \in found : g.seq < f.seq}
    IN  IF head.age = "old" THEN <<>>
        ELSE [i \in 1..Min({Cardinality(found), MaxBatch}) |->
                CHOOSE f \in found : Cardinality(before(f)) = i - 1]

Continues == <<conn.last[1], conn.last[2]>> = conn.draft /\ conn.last[3] <= conn.high

Ends == conn.status \in Ended

EndingKind(status) == IF status = "completed" THEN "finalized" ELSE "unavailable"

StreamFrames ==
    /\ ~screen.done /\ conn.at = "frames"
    /\ LET draft == conn.draft
           has == draft[1] # 0
           anew == has /\ ~Continues
           first == IF ~anew THEN <<>>
                    ELSE <<Private(draft, 0, IF conn.last = NoPlace THEN "snapshot" ELSE "reset", 0)>>
           found == IF has THEN ReadContent(draft, IF anew THEN 0 ELSE conn.last[3]) ELSE <<>>
           out == first \o found
           last == IF out = <<>> THEN conn.last
                   ELSE draft \o <<out[Len(out)].seq>>
           more == found # <<>> /\ last[3] < conn.high
           ending == Private(<<conn.attempt, IF has THEN draft[2] ELSE Revision>>, last[3],
                             EndingKind(conn.status), 0)
       IN  Arrive(IF Ends /\ ~more THEN Append(out, ending) ELSE out, last)
    /\ UNCHANGED <<queueVars, head, frames>>

-----------------------------------------------------------------------------
Stream == StreamRow \/ StreamHead \/ StreamFrames

PreviewNext ==
    \/ TakeTask \/ LeaseExpires \/ EndTask
    \/ \E a \in Attempts :
         \/ Complete(a) \/ Fail(a) \/ Crash(a)
         \/ SendPiece(a) \/ RaiseJob(a)
         \/ \E r \in 1..(MaxText - 1 - a) : ResetDraft(a, r)
    \/ \E c \in closing : CloseContent(c)
    \/ PurgeClose \/ PurgeOld \/ Age
    \/ Mark \/ CancelTask \/ PurgeRevoked
    \/ Stream

PreviewSpec == PreviewInit /\ [][PreviewNext]_previewVars

-----------------------------------------------------------------------------
(* Properties                                                              *)

\* The frames that are stored are one draft, the one of the head, numbered
\* without a gap up to the head; its pieces follow one another, although a frame
\* may be stored without the worker learning it; and it is final only when the
\* attempt that wrote it completed the task (_write, append_content_frame, _send
\* and close_content).
StoredIsOneDraft ==
    /\ \A f \in frames : <<f.attempt, f.revision>> = <<head.attempt, head.revision>>
    /\ head.status # "none" => \E f \in frames : f.seq = head.seq
    /\ \A f \in frames : \A n \in f.seq..head.seq : \E g \in frames : g.seq = n
    /\ \A f \in frames : f.kind = "delta" =>
         \/ f.seq = 1 /\ f.piece = 1
         \/ \E g \in frames : /\ g.seq = f.seq - 1 /\ g.piece = f.piece - 1
                             /\ g.kind \in {"delta", "reset"}
    /\ \A f \in frames : f.kind = "finalized" =>
         task.status = "completed" /\ f.attempt = task.attempt

\* What is stored is one draft; the text a page shows is the beginning of one
\* draft, without a hole and without a piece of another draft or attempt,
\* whatever storage failures, new drafts, retries and reconnections there were;
\* and the page is told that the final result is available only when the task
\* is completed (close_content, _stream, applyContentFrame).
PreviewIsTrue ==
    /\ StoredIsOneDraft
    /\ \A i \in DOMAIN screen.text : screen.text[i] = screen.draft \o <<i>>
    /\ screen.status = "finalized" => task.status = "completed"

\* When revoke_document has returned, no preview of the source is left, and
\* none comes back from a worker or a close that was under way ("Purge all
\* retained private previews referencing a revoked source",
\* source_service.py:620).
RevokedLeavesNothing == source = "purged" => head.status = "none" /\ frames = {}

\* The page of an ended task is done and its frames are removed.
PreviewOver == task.status \in Ended => screen.done /\ head.status = "none"
=============================================================================
