----------------------------- MODULE TaskStream -----------------------------
(***************************************************************************)
(* One browser page that follows one task over server-sent events: the     *)
(* stream of task_event_stream.py, woken by task_event_notifier.py, and the*)
(* subscription of taskEvents.ts, which reconnects with a cursor.          *)
(*                                                                         *)
(* The server reads the row of the task and its events in two statements;  *)
(* workers, the purge of old events and a revocation of the sources happen *)
(* in between.  A notification only wakes the server and may be lost; a    *)
(* connection is a FIFO of frames and may break at any frame.              *)
(***************************************************************************)
EXTENDS TaskLog, FiniteSets

CONSTANTS
    Batch,        \* MAX_BATCH: the events read in one cycle
    NoCursor, Nothing,
    MaxLog,       \* bound on the events of a behaviour, its ending excluded
    MaxDrops,     \* bound on the connections that break
    MaxWire       \* bound on the frames that wait in a connection

ASSUME StreamAssumption ==
    /\ Batch \in Nat \ {0}
    /\ MaxLog \in Nat /\ MaxDrops \in Nat /\ MaxWire \in Nat \ {0}
    /\ NoCursor \notin [attempt : Nat, seq : Nat]

VARIABLES
    kept,      \* the first event purge_expired_events has not deleted
    revoked,   \* the owner may no longer read the sources of the task
    \* the server side of the connection: the generator _stream
    pc, seen,  \* seen: its copy of the row
    from,      \* cursor_attempt and cursor_seq
    signal,    \* the wake event of the waiting generator is set
    wire,      \* the frames that are sent and not yet read
    \* the page: subscribeTaskEvents
    mode, cursor, finished,
    shown,     \* what onEvent told the page last
    drops

server == <<pc, seen, from, signal>>
page   == <<mode, cursor, finished, shown>>
vars   == <<row, kept, revoked, server, wire, page, drops>>

Cursor == [attempt : 0..MaxAttempts, seq : Nat]

\* _snapshot_row: one SELECT of the row.
RowNow == [status |-> status, settled |-> settled, attempt |-> attempt, seq |-> Len(log)]

Statuses == {"absent"} \cup Active \cup Final
Types    == {"phase", "settled"} \cup Final
Events   == [type : Types, status : {"queued"} \cup Active \cup Final, attempt : 0..MaxAttempts]
Rows     == [status : Statuses, settled : BOOLEAN, attempt : 0..MaxAttempts, seq : Nat]
Frames   == [kind : {"reset", "end", "source_revoked", "snapshot"} \cup Types, status : Statuses,
             settled : BOOLEAN, attempt : 0..MaxAttempts, seq : Nat]

TypeOK ==
    /\ status \in Statuses /\ attempt \in 0..MaxAttempts /\ settled \in BOOLEAN
    /\ log \in Seq(Events)
    /\ kept \in 1..(Len(log) + 1)
    /\ revoked \in BOOLEAN
    /\ pc \in {"closed", "starting", "cycle", "reading", "waiting"}
    /\ seen \in Rows
    /\ from \in Cursor \cup {NoCursor}
    /\ signal \in BOOLEAN
    /\ wire \in Seq(Frames)
    /\ mode \in {"idle", "connected", "stopped"}
    /\ cursor \in Cursor \cup {NoCursor}
    /\ finished \in BOOLEAN
    /\ shown \in Frames \cup {Nothing}
    /\ drops \in 0..MaxDrops

Init ==
    /\ LogInit
    /\ kept = 1
    /\ revoked = FALSE
    /\ pc = "closed"
    /\ seen = RowNow
    /\ from = NoCursor
    /\ signal = FALSE
    /\ wire = <<>>
    /\ mode = "idle" /\ cursor = NoCursor /\ finished = FALSE /\ shown = Nothing
    /\ drops = 0

-----------------------------------------------------------------------------
(* The task and its log.                                                   *)

\* A step of the task; its notification reaches a waiting generator or not.
Change ==
    /\ \/ Submit \/ Settle \/ \E st \in Final : Finish(st)
       \/ Len(log) < MaxLog /\ (Claim \/ Phase \/ Requeue)
    /\ signal' \in {signal, pc = "waiting"}
    /\ UNCHANGED <<kept, revoked, pc, seen, from, wire, page, drops>>

\* purge_expired_events: the oldest events of a task that ended a day ago.
Purge ==
    /\ status \in Final
    /\ \E n \in kept + 1..Len(log) + 1 : kept' = n
    /\ UNCHANGED <<row, revoked, server, wire, page, drops>>

Revoke ==
    /\ ~revoked
    /\ revoked' = TRUE
    /\ UNCHANGED <<row, kept, server, wire, page, drops>>

-----------------------------------------------------------------------------
(* The generator.                                                          *)

Frame(kind, st, done, a, n) ==
    [kind |-> kind, status |-> st, settled |-> done, attempt |-> a, seq |-> n]

Reset       == Frame("reset", "absent", FALSE, 0, 0)
End         == Frame("end", "absent", FALSE, 0, 0)
Withdrawn   == Frame("source_revoked", "absent", FALSE, 0, 0)

\* _build_snapshot of a row, under the id of an execution.
Snapshot(r, a) == Frame("snapshot", r.status, r.settled, a, r.seq)

\* The frame of an event; its payload is that of event_payload.
Telling(n) ==
    Frame(log[n].type, IF log[n].status = "queued" THEN "pending" ELSE log[n].status,
          log[n].type \in {"completed", "settled"}, log[n].attempt, n)

Send(frames) == wire' = wire \o frames

\* The first frames: a snapshot, or nothing for a cursor of this attempt.
Start ==
    /\ pc = "starting"
    /\ Send(IF from = NoCursor THEN <<Snapshot(seen, seen.attempt)>>
            ELSE IF from.attempt < seen.attempt
                 THEN <<Reset, Snapshot(seen, seen.attempt)>>
                 ELSE <<>>)
    /\ from' = IF from = NoCursor \/ from.attempt < seen.attempt
               THEN [attempt |-> seen.attempt, seq |-> seen.seq] ELSE from
    /\ pc' = "cycle"
    /\ UNCHANGED <<row, kept, revoked, seen, signal, page, drops>>

\* get_current_actor and reader.authorize.  The readers of answers, courses and
\* exercises look at the sources; job_service.get_task, the reader of an ordinary
\* quiz, does not: its stream is one in which Revoke never happens.
Allowed == ~revoked

\* A cycle authorizes the reader and reads the row.
ReadRow ==
    /\ pc = "cycle"
    /\ IF Allowed
       THEN /\ pc' = "reading"
            /\ seen' = RowNow
            /\ UNCHANGED wire
       ELSE /\ pc' = "closed"
            /\ Send(<<Withdrawn, End>>)
            /\ UNCHANGED seen
    /\ UNCHANGED <<row, kept, revoked, from, signal, page, drops>>

SameTask == FALSE            \* faulty: the attempt of the cursor is not compared

\* The row counts another attempt than the cursor.
AttemptChanged == seen.attempt # from.attempt

\* Where the cycle reads from.
Since == IF AttemptChanged THEN [attempt |-> seen.attempt, seq |-> seen.seq] ELSE from

\* read_task_events: the first Batch events after the cursor, in order.
Found == {n \in kept..seen.seq : Since.seq < n /\ log[n].attempt = Since.attempt}
Read ==
    [i \in 1..(IF Cardinality(Found) < Batch THEN Cardinality(Found) ELSE Batch) |->
        CHOOSE n \in Found : Cardinality({m \in Found : m < n}) = i - 1]

Trusted == FALSE             \* faulty: whatever is found is sent

\* The event after the cursor is not there any more.
Gap ==
    /\ seen.seq > Since.seq /\ Since.seq > 0
    /\ Read = <<>> \/ Read[1] # Since.seq + 1

\* What the cycle sends.
News ==
    (IF AttemptChanged THEN <<Reset, Snapshot(seen, seen.attempt)>> ELSE <<>>)
      \o IF Gap THEN <<Reset, Snapshot(seen, Since.attempt)>>
         ELSE [i \in 1..Len(Read) |-> Telling(Read[i])]

\* The cycle reads the events and sends its frames.  A task that ended and is
\* settled ends the stream; one that stays unsettled ends it with a snapshot.
ReadEvents ==
    /\ pc = "reading"
    /\ LET next == [Since EXCEPT !.seq = IF Gap THEN seen.seq
                                         ELSE IF Read = <<>> THEN @ ELSE Read[Len(Read)]] IN
       /\ from' = next
       /\ \/ seen.status \in Final /\ seen.settled
             /\ pc' = "closed" /\ Send(News \o <<End>>)
          \/ seen.status \in Final /\ ~seen.settled
             /\ pc' = "closed" /\ Send(News \o <<Snapshot(seen, next.attempt), End>>)
          \/ ~(seen.status \in Final /\ seen.settled)
             /\ pc' = "waiting" /\ Send(News)
    /\ signal' = FALSE
    /\ UNCHANGED <<row, kept, revoked, seen, page, drops>>

NeverTimesOut == FALSE       \* faulty: the generator waits for a notification

\* wait_for_wake returns after task_event_sync_seconds at the latest.
TimesOut == TRUE

\* Then the next cycle begins, or the connection is too old and ends.
Wake ==
    /\ pc = "waiting"
    /\ signal \/ TimesOut
    /\ Len(wire) < MaxWire
    /\ \/ pc' = "cycle" /\ UNCHANGED wire
       \/ pc' = "closed" /\ Send(<<End>>)
    /\ UNCHANGED <<row, kept, revoked, seen, from, signal, page, drops>>

-----------------------------------------------------------------------------
(* The page.                                                               *)

\* connectOnce and task_events_endpoint: the sources are authorized and the row
\* is read.  A page whose sources were revoked stops.
Connect ==
    /\ mode = "idle"
    /\ status # "absent"
    /\ IF Allowed
       THEN /\ mode' = "connected"
            /\ pc' = "starting"
            /\ seen' = RowNow
            /\ from' = cursor
       ELSE mode' = "stopped" /\ UNCHANGED <<pc, seen, from>>
    /\ UNCHANGED <<row, kept, revoked, signal, wire, cursor, finished, shown, drops>>

\* dispatch: which frames move the cursor of the page.
Accepts(f) ==
    IF f.kind = "snapshot"
    THEN cursor = NoCursor \/ f.attempt # cursor.attempt \/ f.seq >= cursor.seq
    ELSE /\ cursor # NoCursor
         /\ IF f.attempt = cursor.attempt THEN f.seq > cursor.seq
            ELSE f.attempt > cursor.attempt

\* The page reads a frame.
Receive ==
    LET f == Head(wire) IN
    /\ mode = "connected"
    /\ wire # <<>>
    /\ wire' = Tail(wire)
    /\ CASE f.kind = "reset" ->
              cursor' = NoCursor /\ shown' = Nothing /\ UNCHANGED <<mode, finished>>
         [] f.kind = "source_revoked" ->
              mode' = "stopped" /\ shown' = Nothing /\ UNCHANGED <<cursor, finished>>
         [] f.kind = "end" ->
              mode' = (IF finished THEN "stopped" ELSE "idle")
              /\ UNCHANGED <<cursor, finished, shown>>
         [] OTHER ->
              IF Accepts(f)
              THEN /\ cursor' = [attempt |-> f.attempt, seq |-> f.seq]
                   /\ finished' = (finished \/ (f.status \in Final /\ f.settled))
                   /\ shown' = f
                   /\ UNCHANGED mode
              ELSE UNCHANGED <<mode, cursor, finished, shown>>
    /\ UNCHANGED <<row, kept, revoked, server, drops>>

\* The connection breaks, in either half: what was sent and not read is lost.
Drop ==
    /\ mode = "connected"
    /\ drops < MaxDrops
    /\ drops' = drops + 1
    /\ mode' = "idle"
    /\ pc' = "closed"
    /\ wire' = <<>>
    /\ UNCHANGED <<row, kept, revoked, seen, from, signal, cursor, finished, shown>>

-----------------------------------------------------------------------------
Generator == Start \/ ReadRow \/ ReadEvents \/ Wake
Page      == Connect \/ Receive

Next == Change \/ Purge \/ Revoke \/ Generator \/ Page \/ Drop

Spec == Init /\ [][Next]_vars

\* Timers fire, and a connection that does not break delivers.  Nothing is
\* assumed of the task, of the notifications and of the purge.
Fairness == WF_vars(Generator) /\ WF_vars(Page)

-----------------------------------------------------------------------------
(* Correctness.                                                            *)

\* What the page shows is what the row was when it had that sequence number,
\* under the attempt it had then: snapshots, batches, resets and reconnects
\* never splice two attempts or a status and another position (_stream).
ShownWasTrue ==
    shown # Nothing =>
        /\ shown.seq \in 1..Len(log)
        /\ shown.attempt = log[shown.seq].attempt
        /\ shown.status = Telling(shown.seq).status
        /\ shown.settled = Telling(shown.seq).settled

\* From one event to the next the page misses none and repeats none, although
\* events are purged and connections break; it jumps only to a snapshot, and to
\* another attempt only after a reset (the gap test of _stream, dispatch).
NoHole ==
    [][cursor # NoCursor /\ cursor' # NoCursor /\ cursor' # cursor =>
          /\ cursor'.attempt = cursor.attempt
          /\ \/ cursor'.seq = cursor.seq + 1
             \/ shown'.kind = "snapshot" /\ cursor'.seq > cursor.seq]_cursor

\* The page knows the end of a task that is settled and has stopped, and it has
\* stopped for a task whose sources are revoked.
Told ==
    settled \/ (revoked /\ status # "absent")
        => mode = "stopped" /\ (revoked \/ (shown # Nothing /\ shown.settled))
=============================================================================
