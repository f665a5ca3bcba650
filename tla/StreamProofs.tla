----------------------------- MODULE StreamProofs -----------------------------
(***************************************************************************)
(* Machine-checked proofs about the streams of MCStreams: the public       *)
(* events of a task (TaskStream), for any log, batch, purge and number of  *)
(* broken connections, and the private preview of its text                 *)
(* (ContentPreview), for any number of attempts, drafts and pieces.        *)
(***************************************************************************)
EXTENDS MCStreams, SequenceTheorems, FiniteSetTheorems, WellFoundedInduction, TLAPS

-----------------------------------------------------------------------------
(* TaskStream: what makes its properties inductive.                        *)

Control == {"reset", "end", "source_revoked"}

\* What a frame says of the task was so when the log had that length.
Tells(f) ==
    /\ f.seq \in 1..Len(log) /\ f.attempt = log[f.seq].attempt
    /\ f.status = Telling(f.seq).status /\ f.settled = Telling(f.seq).settled

\* A cursor names an event, under its attempt.
Marks(c) == c.seq \in 1..Len(log) /\ c.attempt = log[c.seq].attempt

\* The row says what its last event says, and attempts only grow.
RowTells ==
    /\ status = "absent" <=> log = <<>>
    /\ status = "absent" => attempt = 0
    /\ log # <<>> => Tells(RowNow)
    /\ status \notin Final => ~settled
    /\ \A m, n \in DOMAIN log : m <= n => log[m].attempt <= log[n].attempt

FramesTell ==
    /\ \A i \in 1..Len(wire) : wire[i].kind \in Control \/ Tells(wire[i])
    /\ cursor # NoCursor => Marks(cursor)
    /\ pc # "closed" => Tells(seen) /\ (from # NoCursor => Marks(from) /\ from.seq <= seen.seq)

\* The cursor of a page that has read a frame, and the frames that it accepts
\* with a cursor and that leave no hole.
Position(f) == IF f.kind = "reset" THEN NoCursor ELSE [attempt |-> f.attempt, seq |-> f.seq]
Follows(c, f) ==
    /\ f.kind = "snapshot" => c = NoCursor \/ (c.attempt = f.attempt /\ c.seq <= f.seq)
    /\ f.kind \in Types => c # NoCursor /\ c.attempt = f.attempt /\ f.seq = c.seq + 1

\* The frames of a connection follow one another, after a cursor, and the cursor
\* of a page that has read them all.
Chain(c, w) == \A i \in 1..Len(w) : Follows(IF i = 1 THEN c ELSE Position(w[i - 1]), w[i])
After(c, w) == IF w = <<>> THEN c ELSE Position(w[Len(w)])

\* The frames under way follow the cursor of the page and lead to the cursor of
\* the generator, which is closed when one of them ends the stream.
WireFollows ==
    /\ mode # "connected" => pc = "closed"
    /\ mode = "idle" => wire = <<>>
    /\ mode = "connected" =>
         /\ Chain(cursor, wire)
         /\ \A i \in 1..Len(wire) : /\ wire[i].kind \in {"end", "source_revoked"} => pc = "closed"
                                    /\ wire[i].kind = "end" => i = Len(wire)
         /\ pc # "closed" => from = After(cursor, wire)
         /\ pc = "starting" => wire = <<>>
         /\ pc \in {"cycle", "reading", "waiting"} => from # NoCursor

StreamInv == TypeOK /\ RowTells /\ FramesTell /\ WireFollows /\ ShownWasTrue

-----------------------------------------------------------------------------
(* TaskStream: frames in a row.                                            *)

LEMMA ChainConcat ==
    ASSUME NEW c, NEW w \in Seq(Frames), NEW s \in Seq(Frames), Chain(c, w), Chain(After(c, w), s)
    PROVE  Chain(c, w \o s) /\ After(c, w \o s) = After(After(c, w), s)
<1> DEFINE v == w \o s
<1>1. /\ v \in Seq(Frames) /\ Len(v) = Len(w) + Len(s) /\ Len(w) \in Nat /\ Len(s) \in Nat
      /\ \A i \in 1..Len(v) : v[i] = IF i <= Len(w) THEN w[i] ELSE s[i - Len(w)]
      /\ (w = <<>> <=> Len(w) = 0) /\ (s = <<>> <=> Len(s) = 0) /\ (v = <<>> <=> Len(v) = 0)
  BY ConcatProperties, EmptySeq
<1> HIDE DEF v
<1>2. Chain(c, v)
  <2> SUFFICES ASSUME NEW i \in 1..Len(v)
               PROVE  Follows(IF i = 1 THEN c ELSE Position(v[i - 1]), v[i])
    BY DEF Chain
  <2>1. CASE i <= Len(w)
    <3>1. /\ i \in 1..Len(w) /\ v[i] = w[i]
          /\ i # 1 => i - 1 \in 1..Len(v) /\ i - 1 <= Len(w) /\ v[i - 1] = w[i - 1]
      <4>1. i \in 1..Len(w) /\ v[i] = w[i]
        BY <1>1, <2>1
      <4>2. ASSUME i # 1 PROVE i - 1 \in 1..Len(v) /\ i - 1 <= Len(w)
        BY <1>1, <2>1, <4>2
      <4>3. ASSUME i # 1 PROVE v[i - 1] = w[i - 1]
        BY <1>1, <4>2, <4>3
      <4> QED
        BY <4>1, <4>2, <4>3
    <3> QED
      BY <3>1 DEF Chain
  <2>2. CASE i = Len(w) + 1
    <3>1. 1 \in 1..Len(s) /\ v[i] = s[1]
      BY <1>1, <2>2
    <3>2. Follows(After(c, w), s[1])
      BY <3>1 DEF Chain
    <3>3. (IF i = 1 THEN c ELSE Position(v[i - 1])) = After(c, w)
      <4>1. CASE Len(w) = 0
        BY <1>1, <2>2, <4>1 DEF After
      <4>2. CASE Len(w) # 0
        <5>1. i # 1 /\ i - 1 = Len(w) /\ v[i - 1] = w[Len(w)] /\ w # <<>>
          BY <1>1, <2>2, <4>2
        <5> QED
          BY <5>1 DEF After
      <4> QED
        BY <4>1, <4>2
    <3> QED
      BY <3>1, <3>2, <3>3
  <2>3. CASE i > Len(w) + 1
    <3> DEFINE j == i - Len(w)
    <3>1. j \in 1..Len(s) /\ j # 1 /\ i # 1 /\ v[i] = s[j] /\ v[i - 1] = s[j - 1]
      <4>1. i \in Nat /\ i - 1 \in 1..Len(v) /\ ~(i - 1 <= Len(w)) /\ ~(i <= Len(w))
        BY <1>1, <2>3
      <4>2. v[i] = s[i - Len(w)] /\ v[i - 1] = s[(i - 1) - Len(w)]
        BY <1>1, <4>1
      <4>3. j \in 1..Len(s) /\ j # 1 /\ i # 1 /\ (i - 1) - Len(w) = j - 1
        BY <1>1, <2>3
      <4> QED
        BY <4>2, <4>3
    <3> HIDE DEF j
    <3> QED
      BY <3>1 DEF Chain
  <2> QED
    BY <1>1, <2>1, <2>2, <2>3
<1>3. After(c, v) = After(After(c, w), s)
  <2>1. CASE s = <<>>
    <3>1. v = w
      BY <2>1, ConcatEmptySeq DEF v
    <3> QED
      BY <2>1, <3>1 DEF After
  <2>2. CASE s # <<>>
    <3>1. v # <<>> /\ v[Len(v)] = s[Len(s)]
      BY <1>1, <2>2
    <3> QED
      BY <2>2, <3>1 DEF After
  <2> QED
    BY <2>1, <2>2
<1> QED
  BY <1>2, <1>3 DEF v

LEMMA ChainTail ==
    ASSUME NEW c, NEW w \in Seq(Frames), w # <<>>, Chain(c, w)
    PROVE  /\ Follows(c, w[1]) /\ Head(w) = w[1] /\ 1 \in 1..Len(w)
           /\ Tail(w) \in Seq(Frames) /\ Len(Tail(w)) = Len(w) - 1 /\ Len(w) \in Nat
           /\ \A i \in 1..Len(Tail(w)) : i + 1 \in 1..Len(w) /\ Tail(w)[i] = w[i + 1]
           /\ Chain(Position(w[1]), Tail(w))
           /\ After(Position(w[1]), Tail(w)) = After(c, w)
<1> DEFINE t == Tail(w)
<1>1. /\ t \in Seq(Frames) /\ Len(t) = Len(w) - 1 /\ Len(w) \in Nat \ {0}
      /\ \A i \in 1..Len(t) : t[i] = w[i + 1]
      /\ t = <<>> <=> Len(t) = 0
  BY HeadTailProperties, EmptySeq
<1>2. Head(w) = w[1]
  OBVIOUS
<1> HIDE DEF t
<1>3. 1 \in 1..Len(w) /\ \A i \in 1..Len(t) : i + 1 \in 1..Len(w)
  BY <1>1
<1>4. Follows(c, w[1])
  BY <1>3 DEF Chain
<1>5. Chain(Position(w[1]), t)
  <2> SUFFICES ASSUME NEW i \in 1..Len(t)
               PROVE  Follows(IF i = 1 THEN Position(w[1]) ELSE Position(t[i - 1]), t[i])
    BY DEF Chain
  <2>1. /\ i + 1 \in 1..Len(w) /\ t[i] = w[i + 1] /\ i + 1 # 1 /\ (i + 1) - 1 = i
        /\ i # 1 => t[i - 1] = w[i]
    BY <1>1, <1>3
  <2>2. Follows(Position(w[i]), w[i + 1])
    BY <2>1 DEF Chain
  <2> QED
    BY <2>1, <2>2
<1>6. After(Position(w[1]), t) = After(c, w)
  <2>1. CASE Len(t) = 0
    <3>1. t = <<>> /\ Len(w) = 1
      BY <1>1, <2>1
    <3> QED
      BY <3>1 DEF After
  <2>2. CASE Len(t) # 0
    <3>1. t # <<>> /\ t[Len(t)] = w[Len(w)]
      BY <1>1, <2>2
    <3> QED
      BY <3>1 DEF After
  <2> QED
    BY <2>1, <2>2
<1> QED
  BY <1>1, <1>2, <1>3, <1>4, <1>5, <1>6 DEF t

-----------------------------------------------------------------------------
(* TaskStream: the row and its log.                                        *)

LEMMA StreamFacts ==
    ASSUME StreamInv
    PROVE  /\ log \in Seq(Events) /\ Len(log) \in Nat /\ DOMAIN log = 1..Len(log)
           /\ \A n \in 1..Len(log) : log[n] \in Events /\ log[n].attempt \in 0..MaxAttempts
           /\ log = <<>> <=> Len(log) = 0
           /\ wire \in Seq(Frames) /\ Len(wire) \in Nat /\ \A i \in 1..Len(wire) : wire[i] \in Frames
           /\ wire = <<>> <=> Len(wire) = 0
           /\ seen \in Rows /\ seen.seq \in Nat /\ seen.attempt \in Nat
           /\ cursor \in Cursor \cup {NoCursor} /\ from \in Cursor \cup {NoCursor}
           /\ MaxAttempts \in Nat /\ attempt \in 0..MaxAttempts
<1>1. /\ log \in Seq(Events) /\ wire \in Seq(Frames) /\ seen \in Rows
      /\ cursor \in Cursor \cup {NoCursor} /\ from \in Cursor \cup {NoCursor}
      /\ MaxAttempts \in Nat /\ attempt \in 0..MaxAttempts
  BY AttemptAssumption DEF StreamInv, TypeOK
<1>2. /\ Len(log) \in Nat /\ DOMAIN log = 1..Len(log) /\ (log = <<>> <=> Len(log) = 0)
      /\ Len(wire) \in Nat /\ (wire = <<>> <=> Len(wire) = 0)
  BY <1>1, EmptySeq
<1>3. \A n \in 1..Len(log) : log[n] \in Events /\ log[n].attempt \in 0..MaxAttempts
  <2>1. \A n \in 1..Len(log) : log[n] \in Events
    BY <1>1, ElementOfSeq
  <2> QED
    BY <2>1 DEF Events
<1>4. \A i \in 1..Len(wire) : wire[i] \in Frames
  BY <1>1, ElementOfSeq
<1>5. seen.seq \in Nat /\ seen.attempt \in Nat
  BY <1>1 DEF Rows
<1> QED
  BY <1>1, <1>2, <1>3, <1>4, <1>5

\* An event is told in the transaction that sets the row as it says.
LEMMA RowFollowsEvent ==
    ASSUME StreamInv, NEW type \in Types, NEW st \in {"queued"} \cup Active \cup Final,
           NEW a \in 0..MaxAttempts, attempt <= a, Tell(type, st, a),
           status' = (IF st = "queued" THEN "pending" ELSE st), attempt' = a,
           settled' \in BOOLEAN, settled' <=> type \in {"completed", "settled"},
           settled' => status' \in Final
    PROVE  /\ status' \in Statuses /\ attempt' \in 0..MaxAttempts /\ settled' \in BOOLEAN
           /\ log' \in Seq(Events) /\ Len(log') \in Nat /\ Len(log') = Len(log) + 1
           /\ RowTells'
           /\ \A n \in 1..Len(log) : log'[n] = log[n]
<1> DEFINE e == [type |-> type, status |-> st, attempt |-> a]
<1>1. e \in Events /\ e.type = type /\ e.status = st /\ e.attempt = a
  BY DEF Events
<1>2. log' = Append(log, e)
  BY DEF Tell
<1> HIDE DEF e
<1>3. /\ log' \in Seq(Events) /\ Len(log') = Len(log) + 1 /\ log' # <<>>
      /\ \A n \in 1..Len(log) : log'[n] = log[n]
      /\ log'[Len(log) + 1] = e
      /\ DOMAIN log' = 1..Len(log')
  BY <1>1, <1>2, StreamFacts, AppendProperties
<1>4. status' # "absent" /\ status' \in Statuses
  BY DEF Statuses, Active, Final
<1>5. Tells(RowNow)'
  <2> DEFINE n == Len(log')
             r == RowNow'
  <2>1. r.seq = n /\ r.attempt = a /\ r.status = status' /\ r.settled = settled'
    BY DEF RowNow
  <2>2. n \in 1..n /\ log'[n] = e
    BY <1>3, StreamFacts
  <2> HIDE DEF n, r
  <2>3. Tells(RowNow)' <=> /\ r.seq \in 1..n /\ r.attempt = log'[r.seq].attempt
                          /\ r.status = (IF log'[r.seq].status = "queued" THEN "pending"
                                         ELSE log'[r.seq].status)
                          /\ r.settled = (log'[r.seq].type \in {"completed", "settled"})
    BY DEF Tells, Telling, Frame, n, r
  <2>4. r.settled = (type \in {"completed", "settled"})
    BY <2>1
  <2> QED
    BY <1>1, <2>1, <2>2, <2>3, <2>4
<1>6. \A m, n \in DOMAIN log' : m <= n => log'[m].attempt <= log'[n].attempt
  <2> SUFFICES ASSUME NEW m \in 1..Len(log'), NEW n \in 1..Len(log'), m <= n
               PROVE  log'[m].attempt <= log'[n].attempt
    BY <1>3
  <2>1. CASE n \in 1..Len(log)
    <3>1. m \in 1..Len(log)
      BY <2>1, StreamFacts
    <3> QED
      BY <1>3, <2>1, <3>1, StreamFacts DEF StreamInv, RowTells
  <2>2. CASE n = Len(log) + 1 /\ m = n
    BY <1>1, <1>3, <2>2
  <2>3. CASE n = Len(log) + 1 /\ m \in 1..Len(log)
    <3>1. Len(log) \in 1..Len(log) /\ m <= Len(log) /\ log # <<>>
      BY <2>3, StreamFacts
    <3>2. log[m].attempt <= log[Len(log)].attempt
      BY <2>3, <3>1, StreamFacts DEF StreamInv, RowTells
    <3>3. log[Len(log)].attempt = attempt
      BY <3>1 DEF StreamInv, RowTells, Tells, RowNow
    <3>4. log[m].attempt \in Nat /\ attempt \in Nat
      BY <2>3, StreamFacts
    <3> QED
      BY <1>1, <1>3, <2>3, <3>2, <3>3, <3>4
  <2> QED
    BY <1>3, <2>1, <2>2, <2>3, StreamFacts
<1> QED
  BY <1>3, <1>4, <1>5, <1>6, StreamFacts DEF RowTells

LEMMA RowChanges ==
    ASSUME StreamInv,
           Submit \/ Claim \/ Phase \/ Requeue \/ Settle \/ \E st \in Final : Finish(st)
    PROVE  /\ status' \in Statuses /\ attempt' \in 0..MaxAttempts /\ settled' \in BOOLEAN
           /\ log' \in Seq(Events) /\ Len(log') \in Nat /\ Len(log') = Len(log) + 1
           /\ RowTells'
           /\ \A n \in 1..Len(log) : log'[n] = log[n]
<1>1. /\ attempt \in 0..MaxAttempts /\ attempt \in Nat /\ MaxAttempts \in Nat
      /\ status \in Statuses /\ settled \in BOOLEAN
      /\ status = "absent" => attempt = 0
      /\ status \notin Final => ~settled
  BY StreamFacts DEF StreamInv, TypeOK, RowTells
<1>2. /\ "phase" \in Types /\ "settled" \in Types /\ \A st \in Final : st \in Types
      /\ {"queued", "pending", "running"} \subseteq {"queued"} \cup Active \cup Final
      /\ "pending" \notin Final /\ "running" \notin Final /\ "absent" \notin Final
  BY DEF Types, Active, Final
<1>3. CASE Submit
  <2>1. Tell("phase", "queued", 0) /\ status' = "pending" /\ attempt' = 0 /\ attempt <= 0 /\ settled' = FALSE
    BY <1>1, <1>2, <1>3 DEF Submit
  <2>2. 0 \in 0..MaxAttempts
    BY <1>1
  <2>3. status' = (IF "queued" = "queued" THEN "pending" ELSE "queued")
    BY <2>1
  <2>4. settled' \in BOOLEAN /\ ~settled' /\ "phase" \notin {"completed", "settled"}
    BY <2>1
  <2>5. attempt <= 0 /\ attempt' = 0 /\ Tell("phase", "queued", 0)
    BY <2>1
  <2>6. "queued" \in {"queued"} \cup Active \cup Final
    OBVIOUS
  <2> QED
    BY <1>2, <2>2, <2>3, <2>4, <2>5, <2>6, RowFollowsEvent
<1>4. CASE Claim
  <2>1. /\ Tell("phase", "running", attempt + 1) /\ status' = "running" /\ attempt' = attempt + 1
        /\ settled' = FALSE
    BY <1>1, <1>2, <1>4 DEF Claim, Active, Final
  <2>2. attempt + 1 \in 0..MaxAttempts /\ attempt <= attempt + 1
    BY <1>1, <1>4 DEF Claim
  <2>3. status' = (IF "running" = "queued" THEN "pending" ELSE "running")
    BY <2>1
  <2>4. settled' \in BOOLEAN /\ ~settled' /\ "phase" \notin {"completed", "settled"}
    BY <2>1
  <2>5. attempt' = attempt + 1 /\ Tell("phase", "running", attempt + 1)
    BY <2>1
  <2>6. "running" \in {"queued"} \cup Active \cup Final
    BY DEF Active
  <2> QED
    BY <1>2, <2>2, <2>3, <2>4, <2>5, <2>6, RowFollowsEvent
<1>5. CASE Phase \/ Requeue
  <2>1. PICK st \in {"pending", "running"} : /\ Tell("phase", st, attempt) /\ status' = st
                                             /\ attempt' = attempt /\ settled' = FALSE
    BY <1>1, <1>2, <1>5 DEF Phase, Requeue
  <2>2. attempt <= attempt
    BY <1>1
  <2>3. status' = (IF st = "queued" THEN "pending" ELSE st)
    BY <2>1
  <2>4. settled' \in BOOLEAN /\ ~settled' /\ "phase" \notin {"completed", "settled"}
    BY <2>1
  <2>5. attempt' = attempt /\ Tell("phase", st, attempt)
    BY <2>1
  <2>6. st \in {"queued"} \cup Active \cup Final
    BY DEF Active
  <2> QED
    BY <1>1, <1>2, <2>2, <2>3, <2>4, <2>5, <2>6, RowFollowsEvent
<1>6. CASE Settle
  <2>1. /\ status \in Final /\ status # "queued" /\ Tell("settled", status, attempt)
        /\ status' = status /\ attempt' = attempt /\ settled' = TRUE
    BY <1>6 DEF Settle, Final
  <2>2. attempt <= attempt /\ status \in {"queued"} \cup Active \cup Final
    BY <1>1, <2>1
  <2> QED
    BY <1>1, <1>2, <2>1, <2>2, RowFollowsEvent
<1>7. ASSUME NEW st \in Final, Finish(st)
      PROVE  /\ status' \in Statuses /\ attempt' \in 0..MaxAttempts /\ settled' \in BOOLEAN
             /\ log' \in Seq(Events) /\ Len(log') \in Nat /\ Len(log') = Len(log) + 1
             /\ RowTells'
             /\ \A n \in 1..Len(log) : log'[n] = log[n]
  <2>1. /\ Tell(st, st, attempt) /\ status' = st /\ attempt' = attempt
        /\ settled' = (st = "completed")
    BY <1>7 DEF Finish
  <2>2. st # "queued" /\ st # "settled" /\ st \in {"queued"} \cup Active \cup Final /\ attempt <= attempt
    BY <1>1 DEF Final
  <2>3. settled' \in BOOLEAN /\ (settled' <=> st \in {"completed", "settled"})
    BY <2>1, <2>2
  <2> QED
    BY <1>1, <1>2, <2>1, <2>2, <2>3, RowFollowsEvent
<1> QED
  BY <1>3, <1>4, <1>5, <1>6, <1>7

\* What is told stays true: the log only grows.
LEMMA StillTold ==
    ASSUME StreamInv, log' \in Seq(Events), Len(log') \in Nat, Len(log) <= Len(log'),
           \A n \in 1..Len(log) : log'[n] = log[n]
    PROVE  /\ \A i \in 1..Len(wire) : Tells(wire[i]) =>
                 wire[i].seq \in 1..Len(log') /\ log'[wire[i].seq] = log[wire[i].seq]
           /\ UNCHANGED <<pc, seen, from, wire, cursor>> => FramesTell'
           /\ UNCHANGED shown => ShownWasTrue'
<1>1. \A n \in 1..Len(log) : n \in 1..Len(log') /\ log'[n] = log[n]
  BY StreamFacts
<1>2. \A f : Tells(f) => f.seq \in 1..Len(log') /\ log'[f.seq] = log[f.seq]
  BY <1>1 DEF Tells
<1>3. ASSUME UNCHANGED <<pc, seen, from, wire, cursor>> PROVE FramesTell'
  <2>1. \A i \in 1..Len(wire) : wire[i].kind \in Control \/ Tells(wire[i])
    BY DEF StreamInv, FramesTell
  <2>2. \A i \in 1..Len(wire) : wire[i].kind \in Control \/ Tells(wire[i])'
    <3> SUFFICES ASSUME NEW i \in 1..Len(wire), Tells(wire[i]) PROVE Tells(wire[i])'
      BY <2>1
    <3> QED
      BY <1>2, <1>3 DEF Tells, Telling, Frame
  <2>3. cursor # NoCursor => Marks(cursor)'
    BY <1>1, <1>3 DEF StreamInv, FramesTell, Marks
  <2>4. pc # "closed" => Tells(seen)'
    <3>1. pc # "closed" => Tells(seen)
      BY DEF StreamInv, FramesTell
    <3> QED
      BY <1>2, <1>3, <3>1 DEF Tells, Telling, Frame
  <2>5. pc # "closed" => (from # NoCursor => Marks(from)' /\ from.seq <= seen.seq)
    BY <1>1, <1>3 DEF StreamInv, FramesTell, Marks
  <2> QED
    BY <1>3, <2>2, <2>3, <2>4, <2>5 DEF FramesTell
<1>4. ASSUME UNCHANGED shown PROVE ShownWasTrue'
  BY <1>1, <1>4 DEF StreamInv, ShownWasTrue, Telling, Frame
<1> QED
  BY <1>2, <1>3, <1>4

LEMMA RowStays ==
    ASSUME StreamInv, UNCHANGED row
    PROVE  /\ RowTells'
           /\ status' \in Statuses /\ attempt' \in 0..MaxAttempts /\ settled' \in BOOLEAN
           /\ log' \in Seq(Events) /\ Len(log') \in Nat /\ Len(log) <= Len(log')
           /\ \A n \in 1..Len(log) : log'[n] = log[n]
           /\ log' = log
<1>1. status' = status /\ attempt' = attempt /\ settled' = settled /\ log' = log
  BY DEF row
<1>2. RowTells'
  BY <1>1 DEF StreamInv, RowTells, Tells, RowNow, Telling, Frame
<1> QED
  BY <1>1, <1>2, StreamFacts DEF StreamInv, TypeOK

LEMMA StreamChange ==
    ASSUME StreamInv, Change PROVE StreamInv'
<1>1. Submit \/ Claim \/ Phase \/ Requeue \/ Settle \/ \E st \in Final : Finish(st)
  BY DEF Change
<1>2. /\ UNCHANGED <<pc, seen, from, wire, cursor, shown, mode, kept, revoked, finished, drops>>
      /\ signal' \in {signal, pc = "waiting"}
  BY DEF Change, page
<1>3. Len(log) <= Len(log')
  BY <1>1, RowChanges, StreamFacts
<1>4. FramesTell' /\ ShownWasTrue'
  BY <1>1, <1>2, <1>3, RowChanges, StillTold
<1>5. WireFollows'
  BY <1>2 DEF StreamInv, WireFollows, Chain, After, Follows, Position
<1>6. TypeOK'
  <2>1. kept' \in 1..(Len(log') + 1)
    BY <1>1, <1>2, <1>3, RowChanges, StreamFacts DEF StreamInv, TypeOK
  <2>2. signal' \in BOOLEAN
    <3>1. signal \in BOOLEAN
      BY DEF StreamInv, TypeOK
    <3> QED
      BY <1>2, <3>1
  <2> QED
    BY <1>1, <1>2, <2>1, <2>2, RowChanges DEF StreamInv, TypeOK
<1> QED
  BY <1>1, <1>4, <1>5, <1>6, RowChanges DEF StreamInv

\* A step that changes nothing of the connection and the page.
LEMMA StreamAside ==
    ASSUME StreamInv, UNCHANGED <<row, server, wire, page>>,
           kept' \in 1..(Len(log) + 1), revoked' \in BOOLEAN, drops' \in 0..MaxDrops
    PROVE  StreamInv'
<1>1. UNCHANGED <<pc, seen, from, signal, wire, cursor, shown, mode, finished, row>>
  BY DEF server, page
<1>2. FramesTell' /\ ShownWasTrue'
  BY <1>1, RowStays, StillTold
<1>3. WireFollows'
  BY <1>1 DEF StreamInv, WireFollows, Chain, After, Follows, Position
<1>4. TypeOK'
  BY <1>1, RowStays DEF StreamInv, TypeOK
<1> QED
  BY <1>1, <1>2, <1>3, <1>4, RowStays DEF StreamInv

LEMMA StreamStart ==
    Init => StreamInv
<1> SUFFICES ASSUME Init PROVE StreamInv
  OBVIOUS
<1>1. /\ status = "absent" /\ attempt = 0 /\ settled = FALSE /\ log = <<>> /\ Len(log) = 0
      /\ wire = <<>> /\ Len(wire) = 0 /\ mode = "idle" /\ pc = "closed" /\ cursor = NoCursor
      /\ shown = Nothing /\ from = NoCursor /\ kept = 1 /\ signal = FALSE /\ finished = FALSE
      /\ revoked = FALSE /\ drops = 0 /\ seen = RowNow
  BY EmptySeq DEF Init, LogInit
<1>2. log \in Seq(Events) /\ wire \in Seq(Frames) /\ DOMAIN log = {}
  BY <1>1, EmptySeq
<1>0. 0 \in 0..MaxAttempts /\ 0 \in 0..MaxDrops /\ 1 \in 1..1 /\ 0 + 1 = 1
  BY AttemptAssumption, StreamAssumption
<1>3. seen \in Rows
  BY <1>0, <1>1 DEF RowNow, Rows, Statuses
<1>4. TypeOK
  BY <1>0, <1>1, <1>2, <1>3 DEF TypeOK, Statuses
<1>5. RowTells
  BY <1>1, <1>2 DEF RowTells, Final
<1>6. FramesTell /\ WireFollows /\ ShownWasTrue
  BY <1>1 DEF FramesTell, WireFollows, ShownWasTrue
<1> QED
  BY <1>4, <1>5, <1>6 DEF StreamInv

-----------------------------------------------------------------------------
(* TaskStream: what the generator sends.                                   *)

LEMMA ShortSequences ==
    ASSUME NEW f \in Frames, NEW g \in Frames
    PROVE  /\ <<f>> \in Seq(Frames) /\ Len(<<f>>) = 1 /\ <<f>>[1] = f /\ 1..Len(<<f>>) = {1}
           /\ <<f, g>> \in Seq(Frames) /\ Len(<<f, g>>) = 2
           /\ <<f, g>>[1] = f /\ <<f, g>>[2] = g /\ 1..Len(<<f, g>>) = {1, 2}
           /\ \A c : Follows(c, f) => Chain(c, <<f>>) /\ After(c, <<f>>) = Position(f)
           /\ \A c : Follows(c, f) /\ Follows(Position(f), g) =>
                Chain(c, <<f, g>>) /\ After(c, <<f, g>>) = Position(g)
<1>1. /\ <<f>> \in Seq(Frames) /\ Len(<<f>>) = 1 /\ <<f>>[1] = f /\ 1..1 = {1}
      /\ <<f, g>> \in Seq(Frames) /\ Len(<<f, g>>) = 2
      /\ <<f, g>>[1] = f /\ <<f, g>>[2] = g /\ 1..2 = {1, 2}
      /\ <<f>> # <<>> /\ <<f, g>> # <<>>
  OBVIOUS
<1>2. ASSUME NEW c, Follows(c, f) PROVE Chain(c, <<f>>) /\ After(c, <<f>>) = Position(f)
  BY <1>1, <1>2 DEF Chain, After
<1>3. ASSUME NEW c, Follows(c, f), Follows(Position(f), g)
      PROVE  Chain(c, <<f, g>>) /\ After(c, <<f, g>>) = Position(g)
  <2> DEFINE s == <<f, g>>
  <2>1. Len(s) = 2 /\ s[1] = f /\ s[2] = g /\ 1..Len(s) = {1, 2} /\ s # <<>>
    BY <1>1
  <2> HIDE DEF s
  <2>2. Chain(c, s)
    <3> SUFFICES ASSUME NEW i \in {1, 2}
                 PROVE  Follows(IF i = 1 THEN c ELSE Position(s[i - 1]), s[i])
      BY <2>1 DEF Chain
    <3>1. CASE i = 1
      BY <1>3, <2>1, <3>1
    <3>2. CASE i = 2
      <4>1. i - 1 = 1 /\ i # 1
        BY <3>2
      <4> QED
        BY <1>3, <2>1, <3>2, <4>1
    <3> QED
      BY <3>1, <3>2
  <2>3. After(c, s) = Position(g)
    BY <2>1 DEF After
  <2> QED
    BY <2>2, <2>3 DEF s
<1> QED
  BY <1>1, <1>2, <1>3

LEMMA TwoFrames ==
    ASSUME NEW c, NEW f \in Frames, NEW g \in Frames, Follows(c, f), Follows(Position(f), g)
    PROVE  Chain(c, <<f, g>>) /\ After(c, <<f, g>>) = Position(g)
<1>1. \A d : Follows(d, f) /\ Follows(Position(f), g) =>
                Chain(d, <<f, g>>) /\ After(d, <<f, g>>) = Position(g)
  BY ShortSequences, Zenon
<1> QED
  BY <1>1, Zenon

\* The control frames and the snapshot of the row that was read.
LEMMA TheFrames ==
    ASSUME StreamInv, Tells(seen)
    PROVE  /\ Reset \in Frames /\ End \in Frames /\ Withdrawn \in Frames
           /\ Reset.kind = "reset" /\ End.kind = "end" /\ Withdrawn.kind = "source_revoked"
           /\ Snapshot(seen, seen.attempt) \in Frames
           /\ Snapshot(seen, seen.attempt).kind = "snapshot"
           /\ Snapshot(seen, seen.attempt).seq = seen.seq
           /\ Snapshot(seen, seen.attempt).attempt = seen.attempt
           /\ Tells(Snapshot(seen, seen.attempt))
<1>1. 0 \in 0..MaxAttempts /\ 0 \in Nat /\ "absent" \in Statuses /\ FALSE \in BOOLEAN
  BY AttemptAssumption DEF Statuses
<1>2. \A k \in {"reset", "end", "source_revoked", "snapshot"} \cup Types, st \in Statuses,
         b \in BOOLEAN, a \in 0..MaxAttempts, n \in Nat : Frame(k, st, b, a, n) \in Frames
  BY DEF Frame, Frames
<1>3. Reset \in Frames /\ End \in Frames /\ Withdrawn \in Frames
  BY <1>1, <1>2 DEF Reset, End, Withdrawn
<1>4. Snapshot(seen, seen.attempt) \in Frames
  <2>1. seen.status \in Statuses /\ seen.settled \in BOOLEAN /\ seen.attempt \in 0..MaxAttempts
        /\ seen.seq \in Nat
    BY StreamFacts DEF Rows
  <2> QED
    BY <1>2, <2>1 DEF Snapshot
<1>5. Tells(Snapshot(seen, seen.attempt))
  BY DEF Tells, Snapshot, Frame
<1> QED
  BY <1>3, <1>4, <1>5 DEF Reset, End, Withdrawn, Snapshot, Frame

\* What a connection carries after more frames were sent.
LEMMA SentFrames ==
    ASSUME StreamInv, UNCHANGED <<row, mode, cursor>>, mode = "connected", pc # "closed",
           NEW s \in Seq(Frames), Send(s), Chain(from, s),
           \A i \in 1..Len(s) : s[i].kind \in Control \/ Tells(s[i]),
           \A i \in 1..Len(s) : s[i].kind \in {"end", "source_revoked"} => pc' = "closed",
           \A i \in 1..Len(s) : s[i].kind = "end" => i = Len(s),
           pc' # "closed" => from' = After(from, s),
           pc' \in {"closed", "cycle", "reading", "waiting"},
           pc' # "closed" => from' # NoCursor
    PROVE  /\ wire' \in Seq(Frames)
           /\ \A i \in 1..Len(wire') : wire'[i].kind \in Control \/ Tells(wire[i])'
           /\ WireFollows'
<1>1. /\ wire' \in Seq(Frames) /\ Len(wire') = Len(wire) + Len(s)
      /\ Len(wire) \in Nat /\ Len(s) \in Nat
      /\ \A i \in 1..Len(wire') : wire'[i] = IF i <= Len(wire) THEN wire[i] ELSE s[i - Len(wire)]
  BY StreamFacts, ConcatProperties DEF Send
<1>2. /\ mode' = "connected" /\ cursor' = cursor /\ log' = log
      /\ wire' = wire \o s /\ from = After(cursor, wire) /\ Chain(cursor, wire)
      /\ \A i \in 1..Len(wire) : wire[i].kind \notin {"end", "source_revoked"}
  BY DEF StreamInv, WireFollows, row, Send
<1>3. Chain(cursor, wire \o s) /\ After(cursor, wire \o s) = After(from, s)
  BY <1>2, ChainConcat, StreamFacts
<1>4. \A i \in 1..Len(wire') : \/ i \in 1..Len(wire) /\ wire'[i] = wire[i]
                               \/ /\ i - Len(wire) \in 1..Len(s) /\ wire'[i] = s[i - Len(wire)]
  BY <1>1
<1>5. \A i \in 1..Len(wire') : wire'[i].kind \in Control \/ Tells(wire[i])'
  <2> SUFFICES ASSUME NEW i \in 1..Len(wire'), wire'[i].kind \notin Control
               PROVE  Tells(wire[i])'
    OBVIOUS
  <2>1. Tells(wire'[i])
    BY <1>4 DEF StreamInv, FramesTell
  <2> QED
    BY <1>2, <2>1 DEF Tells, Telling, Frame
<1>6. \A i \in 1..Len(wire') : /\ wire'[i].kind \in {"end", "source_revoked"} => pc' = "closed"
                               /\ wire'[i].kind = "end" => i = Len(wire')
  <2> SUFFICES ASSUME NEW i \in 1..Len(wire')
               PROVE  /\ wire'[i].kind \in {"end", "source_revoked"} => pc' = "closed"
                      /\ wire'[i].kind = "end" => i = Len(wire')
    OBVIOUS
  <2>1. CASE i \in 1..Len(wire) /\ wire'[i] = wire[i]
    BY <1>2, <2>1
  <2>2. CASE i - Len(wire) \in 1..Len(s) /\ wire'[i] = s[i - Len(wire)]
    <3>1. i - Len(wire) = Len(s) => i = Len(wire')
      BY <1>1
    <3> QED
      BY <2>2, <3>1
  <2> QED
    BY <1>4, <2>1, <2>2
<1>7. Chain(cursor, wire)' /\ (pc' # "closed" => from' = After(cursor, wire)')
  BY <1>2, <1>3 DEF Chain, After, Follows, Position
<1> QED
  BY <1>1, <1>2, <1>5, <1>6, <1>7 DEF WireFollows

\* A step of the generator that sends frames as SentFrames asks.
LEMMA GeneratorSends ==
    ASSUME StreamInv, UNCHANGED <<row, kept, revoked, page, drops>>, pc # "closed",
           NEW s \in Seq(Frames), Send(s), Chain(from, s),
           \A i \in 1..Len(s) : s[i].kind \in Control \/ Tells(s[i]),
           \A i \in 1..Len(s) : s[i].kind \in {"end", "source_revoked"} => pc' = "closed",
           \A i \in 1..Len(s) : s[i].kind = "end" => i = Len(s),
           pc' # "closed" => from' = After(from, s),
           pc' \in {"closed", "cycle", "reading", "waiting"},
           from' \in Cursor \cup {NoCursor}, seen' \in Rows, signal' \in BOOLEAN,
           pc' # "closed" =>
               /\ from' # NoCursor /\ Marks(from') /\ from'.seq <= seen'.seq
               /\ Tells(seen')
    PROVE  StreamInv'
<1>1. /\ mode = "connected" /\ UNCHANGED <<mode, cursor, finished, shown>>
      /\ log' = log /\ UNCHANGED <<row, mode, cursor>>
  BY DEF StreamInv, WireFollows, page, row
<1>2. /\ wire' \in Seq(Frames) /\ WireFollows'
      /\ \A i \in 1..Len(wire') : wire'[i].kind \in Control \/ Tells(wire[i])'
  BY <1>1, SentFrames
<1>3. ShownWasTrue'
  BY <1>1, RowStays, StillTold
<1>4. FramesTell'
  <2>1. cursor' # NoCursor => Marks(cursor)'
    BY <1>1 DEF StreamInv, FramesTell, Marks
  <2>2. pc' # "closed" => Tells(seen)'
    BY <1>1 DEF Tells, Telling, Frame
  <2>3. pc' # "closed" => (from' # NoCursor => Marks(from)' /\ from'.seq <= seen'.seq)
    BY <1>1 DEF Marks
  <2> QED
    BY <1>2, <2>1, <2>2, <2>3 DEF FramesTell
<1>5. TypeOK'
  BY <1>1, <1>2, RowStays DEF StreamInv, TypeOK
<1> QED
  BY <1>2, <1>3, <1>4, <1>5, RowStays DEF StreamInv

LEMMA NothingSent ==
    ASSUME NEW c
    PROVE  /\ <<>> \in Seq(Frames) /\ 1..Len(<<>>) = {} /\ Chain(c, <<>>) /\ After(c, <<>>) = c
           /\ \A w \in Seq(Frames) : w \o <<>> = w
  BY ConcatEmptySeq, EmptySeq DEF Chain, After

LEMMA GeneratorStarts ==
    ASSUME StreamInv, Start PROVE StreamInv'
<1> DEFINE p == [attempt |-> seen.attempt, seq |-> seen.seq]
           f == Snapshot(seen, seen.attempt)
<1>1. /\ pc = "starting" /\ pc' = "cycle" /\ UNCHANGED <<row, kept, revoked, page, drops, seen, signal>>
      /\ Tells(seen) /\ (from # NoCursor => Marks(from) /\ from.seq <= seen.seq)
      /\ signal' \in BOOLEAN /\ seen' \in Rows /\ from \in Cursor \cup {NoCursor}
  BY DEF Start, StreamInv, FramesTell, TypeOK
<1>2. p \in Cursor /\ p # NoCursor /\ p.seq = seen.seq /\ p.attempt = seen.attempt
      /\ Marks(p) /\ p.seq <= seen.seq
  <2>1. p \in [attempt : 0..MaxAttempts, seq : Nat] /\ p \in [attempt : Nat, seq : Nat]
    BY StreamFacts DEF Rows
  <2>2. Marks(p)
    BY <1>1 DEF Marks, Tells
  <2>3. p.seq <= seen.seq
    BY StreamFacts
  <2> QED
    BY <2>1, <2>2, <2>3, StreamAssumption DEF Cursor
<1>3. /\ Reset \in Frames /\ f \in Frames /\ Reset.kind = "reset" /\ f.kind = "snapshot"
      /\ Position(f) = p /\ Tells(f) /\ Position(Reset) = NoCursor
  BY <1>1, TheFrames DEF Position
<1> HIDE DEF p, f
<1>4. CASE from = NoCursor
  <2>1. Send(<<f>>) /\ from' = p
    BY <1>4 DEF Start, f, p
  <2>2. Follows(from, f)
    BY <1>3, <1>4 DEF Follows, Types, Final
  <2>3. /\ <<f>> \in Seq(Frames) /\ Chain(from, <<f>>) /\ After(from, <<f>>) = p
        /\ 1..Len(<<f>>) = {1} /\ <<f>>[1] = f
    BY <1>3, <2>2, ShortSequences
  <2>4. \A i \in 1..Len(<<f>>) : <<f>>[i] = f
    BY <2>3
  <2> QED
    BY <1>1, <1>2, <1>3, <2>1, <2>3, <2>4, GeneratorSends
<1>5. CASE from # NoCursor /\ from.attempt < seen.attempt
  <2>1. Send(<<Reset, f>>) /\ from' = p
    BY <1>5 DEF Start, f, p
  <2>2. Follows(from, Reset) /\ Follows(Position(Reset), f)
    BY <1>3 DEF Follows, Types, Final
  <2>3. /\ <<Reset, f>> \in Seq(Frames) /\ Chain(from, <<Reset, f>>) /\ After(from, <<Reset, f>>) = p
    <3>1. Reset \in Frames /\ f \in Frames
      BY <1>3
    <3>2. \A c : Follows(c, Reset) /\ Follows(Position(Reset), f) =>
              Chain(c, <<Reset, f>>) /\ After(c, <<Reset, f>>) = Position(f)
      BY <3>1, ShortSequences
    <3> QED
      BY <1>3, <2>2, <3>1, <3>2, ShortSequences
  <2>6. 1..Len(<<Reset, f>>) = {1, 2} /\ <<Reset, f>>[1] = Reset /\ <<Reset, f>>[2] = f
    BY <1>3, ShortSequences
  <2>4. \A i \in 1..Len(<<Reset, f>>) : <<Reset, f>>[i].kind \notin {"end", "source_revoked"}
    BY <1>3, <2>6
  <2>5. \A i \in 1..Len(<<Reset, f>>) : <<Reset, f>>[i].kind \in Control \/ Tells(<<Reset, f>>[i])
    BY <1>3, <2>6 DEF Control
  <2> QED
    BY <1>1, <1>2, <2>1, <2>3, <2>4, <2>5, GeneratorSends
<1>6. CASE from # NoCursor /\ ~(from.attempt < seen.attempt)
  <2>1. Send(<<>>) /\ from' = from
    BY <1>6 DEF Start
  <2> QED
    BY <1>1, <1>6, <2>1, NothingSent, GeneratorSends
<1> QED
  BY <1>4, <1>5, <1>6

LEMMA GeneratorReadsRow ==
    ASSUME StreamInv, ReadRow PROVE StreamInv'
<1>1. /\ pc = "cycle" /\ UNCHANGED <<row, kept, revoked, page, drops, signal, from>>
      /\ Tells(seen) /\ (from # NoCursor => Marks(from) /\ from.seq <= seen.seq)
      /\ signal' \in BOOLEAN /\ seen \in Rows /\ from \in Cursor \cup {NoCursor}
      /\ from # NoCursor
  BY DEF ReadRow, StreamInv, FramesTell, TypeOK, WireFollows
<1>2. CASE Allowed
  <2>1. pc' = "reading" /\ seen' = RowNow /\ wire' = wire
    BY <1>2 DEF ReadRow
  <2>2. Tells(RowNow) /\ RowNow.seq = Len(log) /\ RowNow \in Rows
    <3>1. log # <<>>
      BY <1>1, StreamFacts DEF Tells
    <3>2. RowNow \in Rows
      BY StreamFacts DEF StreamInv, TypeOK, RowNow, Rows
    <3> QED
      BY <3>1, <3>2 DEF StreamInv, RowTells, RowNow
  <2>3. from.seq <= Len(log)
    BY <1>1, StreamFacts DEF Marks
  <2>4. Send(<<>>) /\ seen' \in Rows /\ Tells(seen') /\ from'.seq <= seen'.seq
    BY <1>1, <2>1, <2>2, <2>3, NothingSent, StreamFacts DEF Send
  <2> QED
    BY <1>1, <2>1, <2>4, NothingSent, GeneratorSends
<1>3. CASE ~Allowed
  <2>1. pc' = "closed" /\ seen' = seen /\ Send(<<Withdrawn, End>>)
    BY <1>3 DEF ReadRow
  <2>2. /\ Withdrawn \in Frames /\ End \in Frames /\ Withdrawn.kind = "source_revoked"
        /\ End.kind = "end"
    BY <1>1, TheFrames
  <2>3. Follows(from, Withdrawn) /\ Follows(Position(Withdrawn), End)
    BY <2>2 DEF Follows, Types, Final
  <2>4. /\ <<Withdrawn, End>> \in Seq(Frames) /\ Chain(from, <<Withdrawn, End>>)
        /\ Len(<<Withdrawn, End>>) = 2 /\ 1..Len(<<Withdrawn, End>>) = {1, 2}
        /\ <<Withdrawn, End>>[1] = Withdrawn /\ <<Withdrawn, End>>[2] = End
    BY <2>2, <2>3, ShortSequences
  <2>5. \A i \in 1..Len(<<Withdrawn, End>>) : <<Withdrawn, End>>[i].kind \in Control
    BY <2>2, <2>4 DEF Control
  <2>6. \A i \in 1..Len(<<Withdrawn, End>>) : <<Withdrawn, End>>[i].kind = "end" => i = Len(<<Withdrawn, End>>)
    BY <2>2, <2>4
  <2> QED
    BY <1>1, <2>1, <2>4, <2>5, <2>6, GeneratorSends
<1> QED
  BY <1>2, <1>3

LEMMA GeneratorWakes ==
    ASSUME StreamInv, Wake PROVE StreamInv'
<1>1. /\ pc = "waiting" /\ UNCHANGED <<row, kept, revoked, page, drops, seen, signal, from>>
      /\ Tells(seen) /\ (from # NoCursor => Marks(from) /\ from.seq <= seen.seq)
      /\ signal' \in BOOLEAN /\ seen' \in Rows /\ from \in Cursor \cup {NoCursor}
      /\ from # NoCursor
  BY DEF Wake, StreamInv, FramesTell, TypeOK, WireFollows
<1>2. CASE pc' = "cycle" /\ wire' = wire
  <2>1. Send(<<>>)
    BY <1>2, NothingSent, StreamFacts DEF Send
  <2> QED
    BY <1>1, <1>2, <2>1, NothingSent, GeneratorSends
<1>3. CASE pc' = "closed" /\ Send(<<End>>)
  <2>1. End \in Frames /\ End.kind = "end" /\ Follows(from, End)
    BY <1>1, TheFrames DEF Follows, Types, Final
  <2>2. /\ <<End>> \in Seq(Frames) /\ Chain(from, <<End>>) /\ Len(<<End>>) = 1
        /\ 1..Len(<<End>>) = {1} /\ <<End>>[1] = End
    BY <2>1, ShortSequences
  <2>3. \A i \in 1..Len(<<End>>) : <<End>>[i].kind \in Control /\ i = Len(<<End>>)
    BY <2>1, <2>2 DEF Control
  <2> QED
    BY <1>1, <1>3, <2>2, <2>3, GeneratorSends
<1> QED
  BY <1>2, <1>3 DEF Wake

-----------------------------------------------------------------------------
(* TaskStream: what a cycle finds.                                         *)

\* The i-th number of an interval.
LEMMA RankInInterval ==
    ASSUME NEW lo \in Nat, NEW hi \in Nat, NEW i \in Nat \ {0}, lo + i - 1 <= hi
    PROVE  (CHOOSE n \in lo..hi : Cardinality({m \in lo..hi : m < n}) = i - 1) = lo + i - 1
<1>1. ASSUME NEW n \in lo..hi PROVE Cardinality({m \in lo..hi : m < n}) = n - lo
  <2>1. {m \in lo..hi : m < n} = lo..(n - 1)
    OBVIOUS
  <2>2. lo \in Int /\ n - 1 \in Int
    OBVIOUS
  <2>3. Cardinality(lo..(n - 1)) = IF lo > n - 1 THEN 0 ELSE (n - 1) - lo + 1
    BY <2>2, FS_Interval
  <2>4. (IF lo > n - 1 THEN 0 ELSE (n - 1) - lo + 1) = n - lo
    OBVIOUS
  <2> QED
    BY <2>1, <2>3, <2>4
<1>2. lo + i - 1 \in lo..hi
  OBVIOUS
<1>3. \A n \in lo..hi : Cardinality({m \in lo..hi : m < n}) = i - 1 <=> n = lo + i - 1
  <2> SUFFICES ASSUME NEW n \in lo..hi
               PROVE  Cardinality({m \in lo..hi : m < n}) = i - 1 <=> n = lo + i - 1
    OBVIOUS
  <2>1. Cardinality({m \in lo..hi : m < n}) = n - lo
    BY <1>1
  <2>2. n - lo = i - 1 <=> n = lo + i - 1
    OBVIOUS
  <2> QED
    BY <2>1, <2>2
<1> QED
  BY <1>2, <1>3

\* The events between a cursor of the attempt and the row are of that attempt,
\* so that the events found are those the purge has left.
LEMMA FoundInterval ==
    ASSUME StreamInv, Tells(seen), from # NoCursor, Marks(from), from.seq <= seen.seq,
           ~AttemptChanged
    PROVE  \E lo \in Nat : from.seq < lo /\ Found = lo..seen.seq
<1>1. /\ from.seq \in 1..Len(log) /\ log[from.seq].attempt = from.attempt
      /\ seen.seq \in 1..Len(log) /\ log[seen.seq].attempt = from.attempt
      /\ Since = from /\ kept \in 1..(Len(log) + 1) /\ from.seq \in Nat /\ seen.seq \in Nat
      /\ kept \in Nat
  BY StreamFacts DEF Marks, Tells, AttemptChanged, Since, StreamInv, TypeOK
<1>2. \A n \in Nat : from.seq <= n /\ n <= seen.seq => log[n].attempt = from.attempt
  <2> SUFFICES ASSUME NEW n \in Nat, from.seq <= n, n <= seen.seq
               PROVE  log[n].attempt = from.attempt
    OBVIOUS
  <2>1. n \in 1..Len(log)
    BY <1>1, StreamFacts
  <2>2. log[from.seq].attempt <= log[n].attempt
    BY <1>1, <2>1, StreamFacts DEF StreamInv, RowTells
  <2>3. log[n].attempt <= log[seen.seq].attempt
    BY <1>1, <2>1, StreamFacts DEF StreamInv, RowTells
  <2>4. log[n].attempt \in Nat /\ from.attempt \in Nat
    BY <1>1, <2>1, StreamFacts
  <2> QED
    BY <1>1, <2>2, <2>3, <2>4
<1> DEFINE lo == IF from.seq < kept THEN kept ELSE from.seq + 1
<1>3. lo \in Nat /\ from.seq < lo /\ \A n \in Int : lo <= n <=> kept <= n /\ from.seq < n
  BY <1>1
<1> HIDE DEF lo
<1>4. \A n : n \in Found <=> n \in lo..seen.seq
  <2>1. Found = {n \in kept..seen.seq : from.seq < n /\ log[n].attempt = from.attempt}
    BY <1>1 DEF Found
  <2>2. ASSUME NEW n \in Found PROVE n \in lo..seen.seq
    BY <1>1, <1>3, <2>1
  <2>3. ASSUME NEW n \in lo..seen.seq PROVE n \in Found
    <3>1. n \in Nat /\ n \in kept..seen.seq /\ from.seq < n
      BY <1>1, <1>3
    <3>2. log[n].attempt = from.attempt
      BY <1>1, <1>2, <3>1
    <3> QED
      BY <2>1, <3>1, <3>2
  <2> QED
    BY <2>2, <2>3
<1>5. Found = lo..seen.seq
  BY <1>4
<1> QED
  BY <1>3, <1>5

\* What a cycle reads: the events that follow the cursor one by one, or there
\* is a gap, or nothing to read.
LEMMA ReadFollows ==
    ASSUME StreamInv, Tells(seen), from # NoCursor, Marks(from), from.seq <= seen.seq,
           ~AttemptChanged, ~Gap
    PROVE  /\ Len(Read) \in Nat /\ from.seq + Len(Read) <= seen.seq
           /\ \A i \in 1..Len(Read) : Read[i] = from.seq + i
           /\ Read = <<>> <=> Len(Read) = 0
<1>1. PICK lo \in Nat : from.seq < lo /\ Found = lo..seen.seq
  BY FoundInterval
<1>2. from.seq \in Nat /\ seen.seq \in Nat /\ Since = from /\ Batch \in Nat \ {0}
  BY StreamFacts, StreamAssumption DEF Marks, Since, AttemptChanged
<1> DEFINE c == Cardinality(Found)
           k == IF c < Batch THEN c ELSE Batch
<1>3. c = (IF lo > seen.seq THEN 0 ELSE seen.seq - lo + 1)
  <2>1. lo \in Int /\ seen.seq \in Int
    BY <1>2
  <2> QED
    BY <1>1, <2>1, FS_Interval
<1>4. c \in Nat /\ k \in Nat /\ k <= c /\ (c = 0 <=> k = 0) /\ (k # 0 => lo + k - 1 <= seen.seq)
  BY <1>2, <1>3
<1> HIDE DEF c
<1>5. Read = [i \in 1..k |-> CHOOSE n \in Found : Cardinality({m \in Found : m < n}) = i - 1]
  BY DEF Read, c
<1> HIDE DEF k
<1>6. Len(Read) = k /\ (Read = <<>> <=> k = 0)
  <2> DEFINE r(i) == CHOOSE n \in Found : Cardinality({m \in Found : m < n}) = i - 1
             s == [i \in 1..k |-> r(i)]
             T == {r(i) : i \in 1..k}
  <2> HIDE DEF r
  <2>0. s \in [1..k -> T] /\ DOMAIN s = 1..k
    OBVIOUS
  <2> HIDE DEF T, s
  <2>1. s \in Seq(T)
    BY <1>4, <2>0, SeqDef
  <2>2. Len(s) = k /\ (s = <<>> <=> k = 0)
    <3>1. 1..Len(s) = 1..k /\ Len(s) \in Nat
      BY <2>0, <2>1, LenProperties
    <3>2. Len(s) = k
      BY <1>4, <3>1
    <3> QED
      BY <2>1, <3>2, EmptySeq
  <2> QED
    BY <1>5, <2>2 DEF r, s
<1>7. \A i \in 1..k : Read[i] = lo + i - 1
  <2> SUFFICES ASSUME NEW i \in 1..k PROVE Read[i] = lo + i - 1
    OBVIOUS
  <2>1. i \in Nat \ {0} /\ lo + i - 1 <= seen.seq
    BY <1>2, <1>4
  <2>2. (CHOOSE n \in lo..seen.seq : Cardinality({m \in lo..seen.seq : m < n}) = i - 1) = lo + i - 1
    BY <1>2, <2>1, RankInInterval
  <2> QED
    BY <1>1, <1>5, <2>2
<1>8. CASE k = 0
  <2> QED
    BY <1>2, <1>6, <1>8
<1>9. CASE k # 0
  <2>1. Read[1] = from.seq + 1
    <3>1. seen.seq > from.seq /\ from.seq > 0
      BY <1>1, <1>2, <1>4, <1>9, StreamFacts DEF Marks
    <3> QED
      BY <1>2, <1>6, <1>9, <3>1 DEF Gap
  <2>2. lo = from.seq + 1
    <3>1. Read[1] = lo
      BY <1>4, <1>7, <1>9
    <3> QED
      BY <2>1, <3>1
  <2>3. from.seq + k <= seen.seq /\ \A i \in 1..k : lo + i - 1 = from.seq + i
    BY <1>2, <1>4, <1>9, <2>2
  <2> QED
    BY <1>4, <1>6, <1>7, <2>3
<1> QED
  BY <1>8, <1>9

\* The cursor of the generator after a cycle.
Onward == [Since EXCEPT !.seq = IF Gap THEN seen.seq
                                ELSE IF Read = <<>> THEN @ ELSE Read[Len(Read)]]

\* What may be sent after a cursor, and where it leads.
GoodNews(s, c) ==
    /\ s \in Seq(Frames) /\ Chain(from, s) /\ After(from, s) = c
    /\ \A i \in 1..Len(s) : /\ s[i].kind \in Control \/ Tells(s[i])
                            /\ s[i].kind \notin {"end", "source_revoked"}
    /\ c \in Cursor /\ c # NoCursor /\ Marks(c) /\ c.seq <= seen.seq

LEMMA AResetIsNews ==
    ASSUME StreamInv, Tells(seen)
    PROVE  GoodNews(<<Reset, Snapshot(seen, seen.attempt)>>,
                    [attempt |-> seen.attempt, seq |-> seen.seq])
<1> DEFINE p == [attempt |-> seen.attempt, seq |-> seen.seq]
           f == Snapshot(seen, seen.attempt)
           s == <<Reset, f>>
<1>1. p \in Cursor /\ p # NoCursor /\ p.seq = seen.seq /\ p.attempt = seen.attempt
      /\ Marks(p) /\ p.seq <= seen.seq
  <2>1. p \in [attempt : 0..MaxAttempts, seq : Nat] /\ p \in [attempt : Nat, seq : Nat]
    BY StreamFacts DEF Rows
  <2>2. Marks(p)
    BY DEF Marks, Tells
  <2>3. p.seq <= seen.seq
    BY StreamFacts
  <2> QED
    BY <2>1, <2>2, <2>3, StreamAssumption DEF Cursor
<1>2. /\ Reset \in Frames /\ f \in Frames /\ Reset.kind = "reset" /\ f.kind = "snapshot"
      /\ Position(f) = p /\ Tells(f) /\ Position(Reset) = NoCursor
  BY TheFrames DEF Position
<1> HIDE DEF p, f
<1>3. Follows(from, Reset) /\ Follows(Position(Reset), f)
  BY <1>2 DEF Follows, Types, Final
<1>4. Chain(from, s) /\ After(from, s) = Position(f)
  <2>1. Reset \in Frames /\ f \in Frames
    BY <1>2
  <2> QED
    BY <1>3, <2>1, TwoFrames, Zenon
<1>5. s \in Seq(Frames) /\ 1..Len(s) = {1, 2} /\ s[1] = Reset /\ s[2] = f
  BY <1>2, ShortSequences
<1> HIDE DEF s
<1>6. \A i \in 1..Len(s) : /\ s[i].kind \in Control \/ Tells(s[i])
                           /\ s[i].kind \notin {"end", "source_revoked"}
  BY <1>2, <1>5 DEF Control
<1>7. GoodNews(s, p)
  BY <1>1, <1>2, <1>3, <1>4, <1>5, <1>6 DEF GoodNews
<1> QED
  BY <1>7 DEF s, f, p

LEMMA EventsAreNews ==
    ASSUME StreamInv, Tells(seen), from # NoCursor, Marks(from), from.seq <= seen.seq,
           NEW k \in Nat, from.seq + k <= seen.seq,
           log[seen.seq].attempt = from.attempt
    PROVE  GoodNews([i \in 1..k |-> Telling(from.seq + i)],
                    [attempt |-> from.attempt, seq |-> from.seq + k])
<1> DEFINE c(i) == [attempt |-> from.attempt, seq |-> from.seq + i]
           e(i) == Telling(from.seq + i)
           s == [i \in 1..k |-> e(i)]
<1>1. /\ from.seq \in 1..Len(log) /\ from.seq \in Nat /\ seen.seq \in 1..Len(log)
      /\ log[from.seq].attempt = from.attempt /\ from \in Cursor
      /\ from.attempt \in 0..MaxAttempts
  BY StreamFacts DEF Marks, Tells, Cursor
<1>2. \A i \in 0..k : /\ from.seq + i \in 1..Len(log) /\ log[from.seq + i].attempt = from.attempt
                      /\ from.seq + i <= seen.seq /\ from.seq + i \in Nat
  <2> SUFFICES ASSUME NEW i \in 0..k
               PROVE  /\ from.seq + i \in 1..Len(log) /\ log[from.seq + i].attempt = from.attempt
                      /\ from.seq + i <= seen.seq /\ from.seq + i \in Nat
    OBVIOUS
  <2> DEFINE n == from.seq + i
  <2>0. i \in Nat /\ i <= k /\ from.seq \in Nat /\ from.seq >= 1 /\ seen.seq \in Nat /\ Len(log) \in Nat
        /\ seen.seq <= Len(log)
    BY <1>1
  <2>1. n \in 1..Len(log) /\ from.seq <= n /\ n <= seen.seq /\ n \in Nat
    BY <2>0
  <2> HIDE DEF n
  <2>2. log[from.seq].attempt <= log[n].attempt /\ log[n].attempt <= log[seen.seq].attempt
    BY <1>1, <2>1, StreamFacts DEF StreamInv, RowTells
  <2>3. log[n].attempt \in Nat /\ from.attempt \in Nat
    BY <1>1, <2>1, StreamFacts
  <2>4. log[n].attempt = from.attempt
    BY <1>1, <2>2, <2>3
  <2> QED
    BY <2>1, <2>4 DEF n
<1>3. \A i \in 1..k : /\ e(i) \in Frames /\ e(i).kind \in Types /\ Tells(e(i))
                      /\ Position(e(i)) = c(i) /\ e(i).attempt = from.attempt
                      /\ e(i).seq = from.seq + i
  <2> SUFFICES ASSUME NEW i \in 1..k
               PROVE  /\ e(i) \in Frames /\ e(i).kind \in Types /\ Tells(e(i))
                      /\ Position(e(i)) = c(i) /\ e(i).attempt = from.attempt
                      /\ e(i).seq = from.seq + i
    OBVIOUS
  <2> DEFINE n == from.seq + i
  <2>1. n \in 1..Len(log) /\ n \in Nat /\ log[n].attempt = from.attempt /\ log[n] \in Events
    BY <1>2, StreamFacts
  <2> HIDE DEF n
  <2>2. /\ log[n].type \in Types /\ log[n].status \in {"queued"} \cup Active \cup Final
    BY <2>1 DEF Events
  <2>3. (IF log[n].status = "queued" THEN "pending" ELSE log[n].status) \in Statuses
    BY <2>2 DEF Statuses, Active
  <2>4. (log[n].type \in {"completed", "settled"}) \in BOOLEAN
    OBVIOUS
  <2>5. \A t \in Types, st \in Statuses, b \in BOOLEAN, a \in 0..MaxAttempts :
          Frame(t, st, b, a, n) \in Frames
    BY <2>1 DEF Frame, Frames
  <2>6. Telling(n) \in Frames
    BY <1>1, <2>1, <2>2, <2>3, <2>4, <2>5 DEF Telling
  <2>7. Telling(n).kind \in Types /\ Telling(n).attempt = from.attempt /\ Telling(n).seq = n
    BY <2>1, <2>2 DEF Telling, Frame
  <2>8. Tells(Telling(n))
    BY <2>1, <2>7 DEF Tells
  <2>9. Position(Telling(n)) = [attempt |-> from.attempt, seq |-> n]
    BY <2>7 DEF Position, Types, Final
  <2> QED
    BY <2>6, <2>7, <2>8, <2>9 DEF n
<1>4. c(k) \in Cursor /\ c(k) # NoCursor /\ Marks(c(k)) /\ c(k).seq <= seen.seq
  <2>1. from.seq + k \in 1..Len(log) /\ log[from.seq + k].attempt = from.attempt
        /\ from.seq + k <= seen.seq /\ from.seq + k \in Nat
    BY <1>2
  <2>2. c(k) \in [attempt : 0..MaxAttempts, seq : Nat] /\ c(k) \in [attempt : Nat, seq : Nat]
    BY <1>1, <2>1
  <2>3. Marks(c(k)) /\ c(k).seq <= seen.seq
    BY <2>1 DEF Marks
  <2> QED
    BY <2>2, <2>3, StreamAssumption DEF Cursor
<1>5. from = c(0)
  <2>1. from \in [attempt : 0..MaxAttempts, seq : Nat]
    BY <1>1 DEF Cursor
  <2>2. from = [attempt |-> from.attempt, seq |-> from.seq] /\ from.seq + 0 = from.seq
    BY <1>1, <2>1
  <2> QED
    BY <2>2
<1> HIDE DEF e
<1>6. s \in Seq(Frames) /\ Len(s) = k /\ (s = <<>> <=> k = 0)
  <2>1. s \in [1..k -> Frames] /\ DOMAIN s = 1..k
    BY <1>3
  <2>2. \A i \in 1..k : s[i] = e(i)
    OBVIOUS
  <2> HIDE DEF s
  <2>3. s \in Seq(Frames)
    BY <2>1, SeqDef
  <2>4. 1..Len(s) = 1..k /\ Len(s) \in Nat
    BY <2>1, <2>3, LenProperties
  <2>5. Len(s) = k
    BY <2>4
  <2> QED
    BY <2>3, <2>5, EmptySeq
<1>7. \A i \in 1..k : s[i] = e(i)
  OBVIOUS
<1> HIDE DEF s
<1>8. Chain(from, s)
  <2> SUFFICES ASSUME NEW i \in 1..k
               PROVE  Follows(IF i = 1 THEN from ELSE Position(s[i - 1]), s[i])
    BY <1>6 DEF Chain
  <2>1. (IF i = 1 THEN from ELSE Position(s[i - 1])) = c(i - 1)
    <3>1. CASE i = 1
      BY <1>5, <3>1
    <3>2. CASE i # 1
      <4>1. i - 1 \in 1..k
        BY <3>2
      <4> QED
        BY <1>3, <1>7, <3>2, <4>1
    <3> QED
      BY <3>1, <3>2
  <2>2. c(i - 1) # NoCursor
    <3>1. from.seq + (i - 1) \in Nat
      BY <1>2
    <3>2. c(i - 1) \in [attempt : Nat, seq : Nat]
      BY <1>1, <3>1
    <3> QED
      BY <3>2, StreamAssumption
  <2>3. s[i].kind \in Types /\ s[i].kind # "snapshot" /\ s[i].attempt = from.attempt
        /\ s[i].seq = from.seq + i
    BY <1>3, <1>7 DEF Types, Final
  <2>4. s[i].seq = c(i - 1).seq + 1
    BY <1>1, <2>3
  <2> QED
    BY <2>1, <2>2, <2>3, <2>4 DEF Follows
<1>9. After(from, s) = c(k)
  <2>1. CASE k = 0
    BY <1>5, <1>6, <2>1 DEF After
  <2>2. CASE k # 0
    <3>1. k \in 1..k /\ s # <<>>
      BY <1>6, <2>2
    <3> QED
      BY <1>3, <1>6, <1>7, <3>1 DEF After
  <2> QED
    BY <2>1, <2>2
<1>10. \A i \in 1..Len(s) : /\ s[i].kind \in Control \/ Tells(s[i])
                            /\ s[i].kind \notin {"end", "source_revoked"}
  BY <1>3, <1>6, <1>7 DEF Types, Final
<1>11. GoodNews(s, c(k))
  BY <1>4, <1>6, <1>8, <1>9, <1>10 DEF GoodNews
<1> QED
  BY <1>11 DEF s, e

LEMMA TheNewsIsGood ==
    ASSUME StreamInv, Tells(seen), from # NoCursor, Marks(from), from.seq <= seen.seq
    PROVE  GoodNews(News, Onward)
<1> DEFINE p == [attempt |-> seen.attempt, seq |-> seen.seq]
           f == Snapshot(seen, seen.attempt)
<1>1. /\ from \in [attempt : 0..MaxAttempts, seq : Nat] /\ seen.seq \in Nat
      /\ <<Reset, f>> \in Seq(Frames)
  <2>1. Reset \in Frames /\ f \in Frames
    BY TheFrames
  <2> QED
    BY <2>1, StreamFacts, ShortSequences DEF Cursor
<1>2. CASE AttemptChanged
  <2>1. Since = p /\ Since.seq = seen.seq
    BY <1>2 DEF Since
  <2>2. Found = {}
    <3>1. \A n \in kept..seen.seq : ~(seen.seq < n)
      BY <1>1
    <3> QED
      BY <2>1, <3>1 DEF Found
  <2>3. Read = <<>>
    <3>1. Cardinality(Found) = 0
      BY <2>2, FS_EmptySet
    <3>2. Read = [i \in 1..0 |-> CHOOSE n \in Found : Cardinality({m \in Found : m < n}) = i - 1]
      BY <3>1, StreamAssumption DEF Read
    <3>3. 1..0 = {}
      OBVIOUS
    <3> QED
      BY <3>2, <3>3
  <2>4. ~Gap
    BY <1>1, <2>1 DEF Gap
  <2>5. Onward = p
    BY <2>1, <2>3, <2>4 DEF Onward
  <2>6. News = <<Reset, f>>
    <3>1. [i \in 1..Len(Read) |-> Telling(Read[i])] = <<>>
      BY <2>3
    <3>2. News = <<Reset, f>> \o <<>>
      BY <1>2, <2>4, <3>1 DEF News
    <3> QED
      BY <1>1, <3>2, ConcatEmptySeq
  <2> QED
    BY <2>5, <2>6, AResetIsNews
<1>3. CASE ~AttemptChanged /\ Gap
  <2>1. Since = from /\ seen.attempt = from.attempt
    BY <1>3 DEF Since, AttemptChanged
  <2>2. Onward = p
    BY <1>1, <1>3, <2>1 DEF Onward
  <2>3. News = <<Reset, f>>
    <3>1. News = <<>> \o <<Reset, f>>
      BY <1>3, <2>1 DEF News
    <3> QED
      BY <1>1, <3>1, ConcatEmptySeq
  <2> QED
    BY <2>2, <2>3, AResetIsNews
<1>4. CASE ~AttemptChanged /\ ~Gap
  <2> DEFINE k == Len(Read)
             s == [i \in 1..k |-> Telling(from.seq + i)]
  <2>1. Since = from /\ seen.attempt = from.attempt
    BY <1>4 DEF Since, AttemptChanged
  <2>2. /\ k \in Nat /\ from.seq + k <= seen.seq /\ (Read = <<>> <=> k = 0)
        /\ \A i \in 1..k : Read[i] = from.seq + i
    BY <1>4, ReadFollows
  <2>3. log[seen.seq].attempt = from.attempt
    BY <2>1 DEF Tells
  <2>4. GoodNews(s, [attempt |-> from.attempt, seq |-> from.seq + k])
    BY <2>2, <2>3, EventsAreNews
  <2>5. Onward = [attempt |-> from.attempt, seq |-> from.seq + k]
    <3>1. (IF Read = <<>> THEN from.seq ELSE Read[k]) = from.seq + k
      <4>1. CASE k = 0
        BY <1>1, <2>2, <4>1
      <4>2. CASE k # 0
        <5>1. k \in 1..k /\ Read # <<>>
          BY <2>2, <4>2
        <5> QED
          BY <2>2, <5>1
      <4> QED
        BY <4>1, <4>2
    <3>2. Onward = [from EXCEPT !.seq = IF Read = <<>> THEN from.seq ELSE Read[k]]
      BY <1>4, <2>1 DEF Onward
    <3> HIDE DEF k
    <3>3. Onward = [from EXCEPT !.seq = from.seq + k]
      BY <3>1, <3>2
    <3> QED
      BY <1>1, <3>3
  <2>6. News = s
    <3>1. [i \in 1..k |-> Telling(Read[i])] = s
      <4> HIDE DEF k
      <4> QED
        BY <2>2
    <3>2. News = <<>> \o s
      BY <1>4, <3>1 DEF News
    <3>3. s \in Seq(Frames)
      BY <2>4 DEF GoodNews
    <3> HIDE DEF s
    <3> QED
      BY <3>2, <3>3, ConcatEmptySeq
  <2> QED
    BY <2>4, <2>5, <2>6
<1> QED
  BY <1>2, <1>3, <1>4

LEMMA GeneratorReadsEvents ==
    ASSUME StreamInv, ReadEvents PROVE StreamInv'
<1> DEFINE f == Snapshot(seen, Onward.attempt)
<1>1. /\ pc = "reading" /\ UNCHANGED <<row, kept, revoked, page, drops, seen>>
      /\ Tells(seen) /\ from # NoCursor /\ Marks(from) /\ from.seq <= seen.seq
      /\ signal' = FALSE /\ seen' \in Rows
  BY DEF ReadEvents, StreamInv, FramesTell, TypeOK, WireFollows
<1>2. /\ from' = Onward
      /\ \/ pc' = "closed" /\ Send(News \o <<End>>)
         \/ pc' = "closed" /\ Send(News \o <<f, End>>)
         \/ pc' = "waiting" /\ Send(News)
  BY DEF ReadEvents, Onward
<1>3. GoodNews(News, Onward)
  BY <1>1, TheNewsIsGood
<1>4. /\ News \in Seq(Frames) /\ Chain(from, News) /\ After(from, News) = Onward
      /\ \A i \in 1..Len(News) : /\ News[i].kind \in Control \/ Tells(News[i])
                                 /\ News[i].kind \notin {"end", "source_revoked"}
      /\ Onward \in Cursor /\ Onward # NoCursor /\ Marks(Onward) /\ Onward.seq <= seen.seq
  BY <1>3 DEF GoodNews
<1>5. /\ End \in Frames /\ End.kind = "end" /\ \A c : Follows(c, End)
  BY <1>1, TheFrames DEF Follows, Types, Final
<1>6. CASE pc' = "waiting" /\ Send(News)
  BY <1>1, <1>2, <1>4, <1>6, GeneratorSends
<1>7. ASSUME NEW e \in Seq(Frames), Chain(Onward, e),
             \A i \in 1..Len(e) : e[i].kind \in Control \/ Tells(e[i]),
             \A i \in 1..Len(e) : e[i].kind = "end" => i = Len(e),
             pc' = "closed", Send(News \o e)
      PROVE  StreamInv'
  <2> DEFINE s == News \o e
  <2>1. /\ s \in Seq(Frames) /\ Len(s) = Len(News) + Len(e) /\ Len(News) \in Nat /\ Len(e) \in Nat
        /\ \A i \in 1..Len(s) : s[i] = IF i <= Len(News) THEN News[i] ELSE e[i - Len(News)]
    BY <1>4, <1>7, ConcatProperties
  <2>2. Chain(from, s)
    BY <1>4, <1>7, ChainConcat
  <2>3. Send(s)
    BY <1>7
  <2> HIDE DEF s
  <2>4. \A i \in 1..Len(s) : \/ i \in 1..Len(News) /\ s[i] = News[i]
                             \/ i - Len(News) \in 1..Len(e) /\ s[i] = e[i - Len(News)]
    BY <2>1
  <2>5. \A i \in 1..Len(s) : s[i].kind \in Control \/ Tells(s[i])
    BY <1>4, <1>7, <2>4
  <2>6. \A i \in 1..Len(s) : s[i].kind = "end" => i = Len(s)
    <3> SUFFICES ASSUME NEW i \in 1..Len(s), s[i].kind = "end" PROVE i = Len(s)
      OBVIOUS
    <3>1. i - Len(News) \in 1..Len(e) /\ s[i] = e[i - Len(News)]
      BY <1>4, <2>4
    <3>2. i - Len(News) = Len(e)
      BY <1>7, <3>1
    <3> QED
      BY <2>1, <3>2
  <2> QED
    BY <1>1, <1>2, <1>4, <1>7, <2>1, <2>2, <2>3, <2>5, <2>6, GeneratorSends
<1>8. CASE pc' = "closed" /\ Send(News \o <<End>>)
  <2>1. /\ <<End>> \in Seq(Frames) /\ Chain(Onward, <<End>>) /\ Len(<<End>>) = 1
        /\ 1..Len(<<End>>) = {1} /\ <<End>>[1] = End
    BY <1>5, ShortSequences
  <2>2. \A i \in 1..Len(<<End>>) : <<End>>[i].kind \in Control /\ i = Len(<<End>>)
    BY <1>5, <2>1 DEF Control
  <2> QED
    BY <1>7, <1>8, <2>1, <2>2
<1>9. CASE pc' = "closed" /\ Send(News \o <<f, End>>)
  <2>1. Onward.attempt = seen.attempt
    <3>1. Since.attempt = seen.attempt
      BY DEF Since, AttemptChanged
    <3>2. Since \in [attempt : 0..MaxAttempts, seq : Nat]
      BY <1>1, StreamFacts DEF Since, Cursor, Rows
    <3> QED
      BY <3>1, <3>2 DEF Onward
  <2>2. /\ f \in Frames /\ f.kind = "snapshot" /\ f.seq = seen.seq /\ f.attempt = seen.attempt
        /\ Tells(f)
    BY <1>1, <2>1, TheFrames
  <2> HIDE DEF f
  <2>3. Follows(Onward, f) /\ Follows(Position(f), End)
    BY <1>4, <1>5, <2>1, <2>2 DEF Follows, Types, Final
  <2>4. /\ <<f, End>> \in Seq(Frames) /\ 1..Len(<<f, End>>) = {1, 2} /\ Len(<<f, End>>) = 2
        /\ <<f, End>>[1] = f /\ <<f, End>>[2] = End
    BY <1>5, <2>2, ShortSequences
  <2>5. Chain(Onward, <<f, End>>)
    <3>1. \A c : Follows(c, f) /\ Follows(Position(f), End) => Chain(c, <<f, End>>)
      BY <1>5, <2>2, ShortSequences
    <3> QED
      BY <2>3, <3>1
  <2>6. /\ \A i \in 1..Len(<<f, End>>) : <<f, End>>[i].kind \in Control \/ Tells(<<f, End>>[i])
        /\ \A i \in 1..Len(<<f, End>>) : <<f, End>>[i].kind = "end" => i = Len(<<f, End>>)
    BY <1>5, <2>2, <2>4 DEF Control
  <2> QED
    BY <1>7, <1>9, <2>4, <2>5, <2>6
<1> QED
  BY <1>2, <1>6, <1>8, <1>9

-----------------------------------------------------------------------------
(* TaskStream: what the page receives.                                     *)

LEMMA PageConnects ==
    ASSUME StreamInv, Connect PROVE StreamInv'
<1>1. /\ mode = "idle" /\ status # "absent" /\ wire = <<>> /\ pc = "closed"
      /\ UNCHANGED <<row, kept, revoked, signal, wire, cursor, finished, shown, drops>>
  BY DEF Connect, StreamInv, WireFollows
<1>2. FramesTell /\ TypeOK /\ RowTells /\ log' = log
  BY <1>1 DEF StreamInv, row
<1>3. ShownWasTrue'
  BY <1>1, RowStays, StillTold
<1>4. CASE Allowed
  <2>1. mode' = "connected" /\ pc' = "starting" /\ seen' = RowNow /\ from' = cursor
    BY <1>4 DEF Connect
  <2>2. Tells(RowNow) /\ RowNow.seq = Len(log) /\ RowNow \in Rows
    <3>1. log # <<>>
      BY <1>1, <1>2 DEF RowTells
    <3>2. RowNow \in Rows
      BY <1>2, StreamFacts DEF TypeOK, RowNow, Rows
    <3> QED
      BY <1>2, <3>1, <3>2 DEF RowTells, RowNow
  <2>3. TypeOK'
    BY <1>1, <1>2, <2>1, <2>2, RowStays DEF TypeOK
  <2>4. FramesTell'
    <3>1. cursor # NoCursor => Marks(cursor) /\ cursor.seq <= Len(log)
      BY <1>2, StreamFacts DEF FramesTell, Marks
    <3>2. \A i \in 1..Len(wire') : FALSE
      BY <1>1, EmptySeq
    <3>3. Tells(seen)'
      BY <1>2, <2>1, <2>2 DEF Tells, Telling, Frame
    <3>4. cursor' # NoCursor => Marks(cursor)'
      BY <1>1, <1>2, <3>1 DEF Marks
    <3>5. from' # NoCursor => Marks(from)' /\ from'.seq <= seen'.seq
      BY <1>1, <1>2, <2>1, <2>2, <3>1 DEF Marks
    <3> QED
      BY <3>2, <3>3, <3>4, <3>5 DEF FramesTell
  <2>5. WireFollows'
    <3>1. wire' = <<>> /\ \A i \in 1..Len(wire') : FALSE
      BY <1>1, EmptySeq
    <3>2. Chain(cursor, wire)' /\ from' = After(cursor, wire)'
      BY <1>1, <2>1, <3>1 DEF Chain, After
    <3> QED
      BY <2>1, <3>1, <3>2 DEF WireFollows
  <2> QED
    BY <1>1, <1>3, <2>3, <2>4, <2>5, RowStays DEF StreamInv
<1>5. CASE ~Allowed
  <2>1. mode' = "stopped" /\ pc' = pc /\ seen' = seen /\ from' = from
    BY <1>5 DEF Connect
  <2>2. TypeOK'
    BY <1>1, <1>2, <2>1, RowStays DEF TypeOK
  <2>3. FramesTell'
    BY <1>1, <2>1, RowStays, StillTold
  <2>4. WireFollows'
    BY <1>1, <2>1 DEF WireFollows
  <2> QED
    BY <1>1, <1>3, <2>2, <2>3, <2>4, RowStays DEF StreamInv
<1> QED
  BY <1>4, <1>5

\* The frame at the head of a connection: the page accepts it, and what is behind
\* it follows it.
LEMMA TheNextFrame ==
    ASSUME StreamInv, mode = "connected", wire # <<>>
    PROVE  LET f == Head(wire) IN
           /\ f \in Frames /\ Follows(cursor, f)
           /\ Tail(wire) \in Seq(Frames) /\ Chain(Position(f), Tail(wire))
           /\ \A i \in 1..Len(Tail(wire)) :
                /\ Tail(wire)[i].kind \in Control \/ Tells(Tail(wire)[i])
                /\ Tail(wire)[i].kind \in {"end", "source_revoked"} => pc = "closed"
                /\ Tail(wire)[i].kind = "end" => i = Len(Tail(wire))
           /\ pc # "closed" => from = After(Position(f), Tail(wire))
           /\ pc # "starting"
           /\ f.kind \in {"end", "source_revoked"} => pc = "closed"
           /\ f.kind = "end" => Tail(wire) = <<>>
           /\ f.kind \notin Control =>
                /\ Tells(f) /\ Accepts(f) /\ Position(f) = [attempt |-> f.attempt, seq |-> f.seq]
                /\ cursor # NoCursor /\ f.kind # "snapshot" =>
                     cursor.attempt = f.attempt /\ f.seq = cursor.seq + 1
                /\ cursor # NoCursor /\ f.kind = "snapshot" =>
                     cursor.attempt = f.attempt /\ f.seq >= cursor.seq
<1> DEFINE f == Head(wire)
           t == Tail(wire)
<1>1. /\ Chain(cursor, wire) /\ wire \in Seq(Frames) /\ pc # "starting"
      /\ pc # "closed" => from = After(cursor, wire)
      /\ \A i \in 1..Len(wire) : /\ wire[i].kind \in {"end", "source_revoked"} => pc = "closed"
                                 /\ wire[i].kind = "end" => i = Len(wire)
                                 /\ wire[i].kind \in Control \/ Tells(wire[i])
                                 /\ wire[i] \in Frames
  BY StreamFacts DEF StreamInv, WireFollows, FramesTell
<1>2. /\ Follows(cursor, wire[1]) /\ f = wire[1] /\ 1 \in 1..Len(wire)
      /\ t \in Seq(Frames) /\ Len(t) = Len(wire) - 1 /\ Len(wire) \in Nat
      /\ \A i \in 1..Len(t) : i + 1 \in 1..Len(wire) /\ t[i] = wire[i + 1]
      /\ Chain(Position(wire[1]), t)
      /\ After(Position(wire[1]), t) = After(cursor, wire)
  BY <1>1, ChainTail
<1> HIDE DEF f, t
<1>3. /\ f \in Frames /\ Follows(cursor, f) /\ Chain(Position(f), t)
      /\ pc # "closed" => from = After(Position(f), t)
      /\ f.kind \in {"end", "source_revoked"} => pc = "closed"
      /\ f.kind \notin Control => Tells(f)
  BY <1>1, <1>2
<1>4. \A i \in 1..Len(t) :
        /\ t[i].kind \in Control \/ Tells(t[i])
        /\ t[i].kind \in {"end", "source_revoked"} => pc = "closed"
        /\ t[i].kind = "end" => i = Len(t)
  <2> SUFFICES ASSUME NEW i \in 1..Len(t)
               PROVE  /\ t[i].kind \in Control \/ Tells(t[i])
                      /\ t[i].kind \in {"end", "source_revoked"} => pc = "closed"
                      /\ t[i].kind = "end" => i = Len(t)
    OBVIOUS
  <2>1. i + 1 \in 1..Len(wire) /\ t[i] = wire[i + 1]
    BY <1>2
  <2>2. i + 1 = Len(wire) => i = Len(t)
    BY <1>2
  <2> QED
    BY <1>1, <2>1, <2>2
<1>5. f.kind = "end" => t = <<>>
  <2> SUFFICES ASSUME f.kind = "end" PROVE t = <<>>
    OBVIOUS
  <2>1. 1 = Len(wire)
    BY <1>1, <1>2
  <2>2. Len(t) = Len(wire) - 1 /\ t \in Seq(Frames)
    BY <1>2
  <2> QED
    BY <2>1, <2>2, EmptySeq
<1>6. ASSUME f.kind \notin Control
      PROVE  /\ Tells(f) /\ Accepts(f) /\ Position(f) = [attempt |-> f.attempt, seq |-> f.seq]
             /\ cursor # NoCursor /\ f.kind # "snapshot" =>
                  cursor.attempt = f.attempt /\ f.seq = cursor.seq + 1
             /\ cursor # NoCursor /\ f.kind = "snapshot" =>
                  cursor.attempt = f.attempt /\ f.seq >= cursor.seq
  <2>1. f.kind \in {"snapshot"} \cup Types /\ f.seq \in Nat
    BY <1>3, <1>6 DEF Frames, Control
  <2>2. cursor # NoCursor => cursor.seq \in Nat /\ cursor.attempt \in Nat
    BY StreamFacts DEF Cursor
  <2>3. CASE f.kind = "snapshot"
    <3>1. cursor = NoCursor \/ (cursor.attempt = f.attempt /\ cursor.seq <= f.seq)
      BY <1>3, <2>3 DEF Follows
    <3>2. cursor # NoCursor => cursor.attempt = f.attempt /\ f.seq >= cursor.seq
      BY <2>1, <2>2, <3>1
    <3> QED
      BY <1>3, <1>6, <2>3, <3>2 DEF Accepts, Position, Control
  <2>4. CASE f.kind \in Types
    <3>1. cursor # NoCursor /\ cursor.attempt = f.attempt /\ f.seq = cursor.seq + 1
      BY <1>3, <2>4 DEF Follows
    <3>2. f.seq > cursor.seq /\ f.kind # "snapshot" /\ f.kind # "reset"
      BY <2>2, <2>4, <3>1 DEF Types, Final
    <3> QED
      BY <1>3, <1>6, <3>1, <3>2 DEF Accepts, Position
  <2> QED
    BY <2>1, <2>3, <2>4
<1> QED
  BY <1>1, <1>2, <1>3, <1>4, <1>5, <1>6 DEF f, t

LEMMA PageReceives ==
    ASSUME StreamInv, Receive PROVE StreamInv'
<1> DEFINE f == Head(wire)
           t == Tail(wire)
<1>1. /\ mode = "connected" /\ wire # <<>> /\ wire' = t
      /\ UNCHANGED <<row, kept, revoked, pc, seen, from, signal, drops>> /\ log' = log
  BY DEF Receive, server, row
<1>2. /\ f \in Frames /\ t \in Seq(Frames) /\ Chain(Position(f), t)
      /\ \A i \in 1..Len(t) : /\ t[i].kind \in Control \/ Tells(t[i])
                              /\ t[i].kind \in {"end", "source_revoked"} => pc = "closed"
                              /\ t[i].kind = "end" => i = Len(t)
      /\ pc # "closed" => from = After(Position(f), t)
      /\ pc # "starting"
      /\ f.kind \in {"end", "source_revoked"} => pc = "closed"
      /\ f.kind = "end" => t = <<>>
      /\ f.kind \notin Control => Tells(f) /\ Accepts(f)
                                  /\ Position(f) = [attempt |-> f.attempt, seq |-> f.seq]
  BY <1>1, TheNextFrame
<1>3. /\ f.kind = "reset" => cursor' = NoCursor /\ shown' = Nothing /\ UNCHANGED <<mode, finished>>
      /\ f.kind = "source_revoked" =>
           mode' = "stopped" /\ shown' = Nothing /\ UNCHANGED <<cursor, finished>>
      /\ f.kind = "end" => /\ mode' = (IF finished THEN "stopped" ELSE "idle")
                           /\ UNCHANGED <<cursor, finished, shown>>
      /\ f.kind \notin Control /\ Accepts(f) =>
           /\ cursor' = [attempt |-> f.attempt, seq |-> f.seq]
           /\ finished' = (finished \/ (f.status \in Final /\ f.settled))
           /\ shown' = f
           /\ UNCHANGED mode
  BY DEF Receive, Control
<1> HIDE DEF f, t
<1>4. /\ cursor' \in Cursor \cup {NoCursor} /\ shown' \in Frames \cup {Nothing}
      /\ finished' \in BOOLEAN /\ mode' \in {"idle", "connected", "stopped"}
      /\ cursor' # NoCursor => Marks(cursor')
      /\ ShownWasTrue'
  <2>1. /\ cursor \in Cursor \cup {NoCursor} /\ shown \in Frames \cup {Nothing}
        /\ finished \in BOOLEAN /\ mode \in {"idle", "connected", "stopped"}
        /\ cursor # NoCursor => Marks(cursor)
    BY DEF StreamInv, TypeOK, FramesTell
  <2>2. UNCHANGED shown => ShownWasTrue'
    BY <1>1, RowStays, StillTold
  <2>3. shown' = Nothing => ShownWasTrue'
    BY DEF ShownWasTrue
  <2>4. CASE f.kind = "reset"
    BY <1>3, <2>1, <2>3, <2>4
  <2>5. CASE f.kind = "source_revoked"
    BY <1>3, <2>1, <2>3, <2>5
  <2>6. CASE f.kind = "end"
    BY <1>3, <2>1, <2>2, <2>6
  <2>7. CASE f.kind \notin Control
    <3>1. /\ cursor' = [attempt |-> f.attempt, seq |-> f.seq] /\ shown' = f /\ mode' = mode
          /\ finished' = (finished \/ (f.status \in Final /\ f.settled)) /\ Tells(f)
      BY <1>2, <1>3, <2>7
    <3>2. f.attempt \in 0..MaxAttempts /\ f.seq \in Nat
      BY <1>2 DEF Frames
    <3>3. cursor' \in Cursor /\ Marks(cursor')
      BY <3>1, <3>2 DEF Cursor, Marks, Tells
    <3>4. ShownWasTrue'
      BY <1>1, <3>1 DEF ShownWasTrue, Tells, Telling, Frame
    <3>5. finished' \in BOOLEAN
      BY <3>1
    <3> QED
      BY <1>2, <2>1, <3>1, <3>3, <3>4, <3>5
  <2> QED
    BY <2>4, <2>5, <2>6, <2>7 DEF Control
<1>5. FramesTell'
  <2>1. \A i \in 1..Len(wire') : wire'[i].kind \in Control \/ Tells(wire[i])'
    <3> SUFFICES ASSUME NEW i \in 1..Len(wire'), wire'[i].kind \notin Control PROVE Tells(wire[i])'
      OBVIOUS
    <3>1. Tells(wire'[i])
      BY <1>1, <1>2
    <3> QED
      BY <1>1, <3>1 DEF Tells, Telling, Frame
  <2>2. cursor' # NoCursor => Marks(cursor)'
    BY <1>1, <1>4 DEF Marks
  <2>3. pc # "closed" => Tells(seen)' /\ (from # NoCursor => Marks(from)' /\ from.seq <= seen.seq)
    <3>1. pc # "closed" => Tells(seen) /\ (from # NoCursor => Marks(from) /\ from.seq <= seen.seq)
      BY DEF StreamInv, FramesTell
    <3> QED
      BY <1>1, <3>1 DEF Tells, Telling, Frame, Marks
  <2> QED
    BY <1>1, <2>1, <2>2, <2>3 DEF FramesTell
<1>6. WireFollows'
  <2>1. CASE f.kind = "reset" \/ f.kind \notin Control
    <3>1. mode' = "connected" /\ cursor' = Position(f)
      BY <1>1, <1>2, <1>3, <2>1 DEF Position, Control
    <3>2. Chain(cursor, wire)' /\ (pc' # "closed" => from' = After(cursor, wire)')
      BY <1>1, <1>2, <3>1 DEF Chain, After, Follows, Position
    <3>3. pc \in {"cycle", "reading", "waiting"} => from # NoCursor
      BY <1>1 DEF StreamInv, WireFollows
    <3> QED
      BY <1>1, <1>2, <3>1, <3>2, <3>3 DEF WireFollows
  <2>2. CASE f.kind = "source_revoked"
    BY <1>1, <1>2, <1>3, <2>2 DEF WireFollows
  <2>3. CASE f.kind = "end"
    BY <1>1, <1>2, <1>3, <2>3 DEF WireFollows
  <2> QED
    BY <2>1, <2>2, <2>3 DEF Control
<1>7. TypeOK'
  BY <1>1, <1>2, <1>4, RowStays DEF StreamInv, TypeOK
<1> QED
  BY <1>1, <1>4, <1>5, <1>6, <1>7, RowStays DEF StreamInv

LEMMA ConnectionBreaks ==
    ASSUME StreamInv, Drop PROVE StreamInv'
<1>1. /\ drops' = drops + 1 /\ drops < MaxDrops /\ mode' = "idle" /\ pc' = "closed" /\ wire' = <<>>
      /\ UNCHANGED <<row, kept, revoked, seen, from, signal, cursor, finished, shown>> /\ log' = log
  BY DEF Drop, row
<1>2. TypeOK /\ FramesTell
  BY DEF StreamInv
<1>3. \A i \in 1..Len(wire') : FALSE
  BY <1>1, EmptySeq
<1>4. drops' \in 0..MaxDrops
  BY <1>1, <1>2, StreamAssumption DEF TypeOK
<1>5. TypeOK'
  BY <1>1, <1>2, <1>4, RowStays, EmptySeq DEF TypeOK
<1>6. FramesTell'
  <2>1. cursor' # NoCursor => Marks(cursor)'
    BY <1>1, <1>2 DEF FramesTell, Marks
  <2> QED
    BY <1>1, <1>3, <2>1 DEF FramesTell
<1>7. WireFollows'
  BY <1>1 DEF WireFollows
<1>8. ShownWasTrue'
  BY <1>1, RowStays, StillTold
<1> QED
  BY <1>1, <1>5, <1>6, <1>7, <1>8, RowStays DEF StreamInv

-----------------------------------------------------------------------------
(* TaskStream: the theorems.                                               *)

LEMMA StreamStep ==
    ASSUME StreamInv, [Next]_vars PROVE StreamInv'
<1>1. kept \in 1..(Len(log) + 1) /\ revoked \in BOOLEAN /\ drops \in 0..MaxDrops
  BY DEF StreamInv, TypeOK
<1>2. CASE Change
  BY <1>2, StreamChange
<1>3. CASE Purge
  <2>1. kept' \in 1..(Len(log) + 1) /\ UNCHANGED <<row, server, wire, page, revoked, drops>>
    BY <1>1, <1>3, StreamFacts DEF Purge
  <2> QED
    BY <1>1, <2>1, StreamAside
<1>4. CASE Revoke
  <2>1. revoked' = TRUE /\ UNCHANGED <<row, server, wire, page, kept, drops>>
    BY <1>4 DEF Revoke
  <2> QED
    BY <1>1, <2>1, StreamAside
<1>5. CASE Generator
  BY <1>5, GeneratorStarts, GeneratorReadsRow, GeneratorReadsEvents, GeneratorWakes DEF Generator
<1>6. CASE Page
  BY <1>6, PageConnects, PageReceives DEF Page
<1>7. CASE Drop
  BY <1>7, ConnectionBreaks
<1>8. CASE UNCHANGED vars
  BY <1>1, <1>8, StreamAside DEF vars
<1> QED
  BY <1>2, <1>3, <1>4, <1>5, <1>6, <1>7, <1>8 DEF Next

LEMMA StreamInvariant == Spec => []StreamInv
<1>1. Init => StreamInv
  BY StreamStart
<1>2. StreamInv /\ [Next]_vars => StreamInv'
  BY StreamStep
<1> QED
  BY <1>1, <1>2, PTL DEF Spec

\* Every frame, row copy and cursor of a stream is of its type
\* (task_event_stream.py, taskEvents.ts).
THEOREM StreamTypeCorrect == Spec => []TypeOK
<1>1. StreamInv => TypeOK
  BY DEF StreamInv
<1> QED
  BY <1>1, StreamInvariant, PTL

\* The page shows what the row was at the position it shows, whatever was
\* purged, broken or claimed again between the two reads of a cycle (_stream).
THEOREM ShownIsTrue == Spec => []ShownWasTrue
<1>1. StreamInv => ShownWasTrue
  BY DEF StreamInv
<1> QED
  BY <1>1, StreamInvariant, PTL

\* From one event to the next the page misses none and repeats none, and it
\* jumps only to a snapshot of the same attempt (the gap test of _stream and
\* dispatch of taskEvents.ts).
THEOREM NoEventIsMissed == Spec => NoHole
<1>1. ASSUME StreamInv, [Next]_vars
      PROVE  [cursor # NoCursor /\ cursor' # NoCursor /\ cursor' # cursor =>
                /\ cursor'.attempt = cursor.attempt
                /\ \/ cursor'.seq = cursor.seq + 1
                   \/ shown'.kind = "snapshot" /\ cursor'.seq > cursor.seq]_cursor
  <2> SUFFICES ASSUME cursor # NoCursor, cursor' # NoCursor, cursor' # cursor
               PROVE  /\ cursor'.attempt = cursor.attempt
                      /\ \/ cursor'.seq = cursor.seq + 1
                         \/ shown'.kind = "snapshot" /\ cursor'.seq > cursor.seq
    OBVIOUS
  <2>1. Receive
    BY <1>1 DEF Next, Change, Purge, Revoke, Generator, Start, ReadRow, ReadEvents, Wake, Page,
                Connect, Drop, page, vars
  <2> DEFINE f == Head(wire)
  <2>2. /\ f \in Frames
        /\ f.kind \notin Control =>
             /\ Accepts(f)
             /\ f.kind # "snapshot" => cursor.attempt = f.attempt /\ f.seq = cursor.seq + 1
             /\ f.kind = "snapshot" => cursor.attempt = f.attempt /\ f.seq >= cursor.seq
    BY <1>1, <2>1, TheNextFrame DEF Receive
  <2>3. f.kind \notin Control /\ cursor' = [attempt |-> f.attempt, seq |-> f.seq] /\ shown' = f
    BY <2>1, <2>2 DEF Receive, Control
  <2> HIDE DEF f
  <2>4. cursor'.attempt = f.attempt /\ cursor'.seq = f.seq /\ f.seq \in Nat
    BY <2>2, <2>3 DEF Frames
  <2>5. CASE f.kind # "snapshot"
    BY <2>2, <2>3, <2>4, <2>5
  <2>6. CASE f.kind = "snapshot"
    <3>1. cursor.attempt = f.attempt /\ f.seq >= cursor.seq
      BY <2>2, <2>3, <2>6
    <3>2. cursor = [attempt |-> cursor.attempt, seq |-> cursor.seq] /\ cursor.seq \in Nat
      BY <1>1, StreamFacts DEF Cursor
    <3>3. f.seq # cursor.seq
      BY <2>3, <3>1, <3>2
    <3>4. f.seq > cursor.seq
      BY <2>4, <3>1, <3>2, <3>3
    <3> QED
      BY <2>3, <2>4, <2>6, <3>1, <3>4
  <2> QED
    BY <2>5, <2>6
<1> QED
  BY <1>1, StreamInvariant, PTL DEF Spec, NoHole

-----------------------------------------------------------------------------
(* ContentPreview: a revoked source.                                       *)

\* When a removal of the previews of a source is over, no frame comes back: an
\* append asks for the source, a close for a preview that is still open.
LEMMA RevokedStep ==
    ASSUME RevokedLeavesNothing, [PreviewNext]_previewVars PROVE RevokedLeavesNothing'
<1> DEFINE Quiet == UNCHANGED <<head, frames>> /\ (source' = "purged" => source = "purged")
<1>1. Quiet => RevokedLeavesNothing'
  BY DEF RevokedLeavesNothing
<1>2. ASSUME source # "purged", source' = source PROVE RevokedLeavesNothing'
  BY <1>2 DEF RevokedLeavesNothing
<1>3. head' = NoHead /\ frames' = {} => RevokedLeavesNothing'
  BY DEF RevokedLeavesNothing, NoHead
<1>4. CASE TakeTask \/ LeaseExpires \/ EndTask \/ \E a \in Attempts : Complete(a) \/ Fail(a) \/ Crash(a)
  BY <1>1, <1>4 DEF TakeTask, LeaseExpires, EndTask, Complete, Fail, Crash
<1>5. ASSUME NEW a \in Attempts, NEW r, NEW k, NEW i, Stored(a, r, k, i), source' = source
      PROVE  RevokedLeavesNothing'
  BY <1>2, <1>5 DEF Stored, Refused
<1>6. ASSUME NEW a \in Attempts, NEW w, NEW k, NEW i, SendFrame(a, w, k, i), source' = source
      PROVE  RevokedLeavesNothing'
  BY <1>1, <1>5, <1>6 DEF SendFrame
<1>7. CASE \E a \in Attempts : SendPiece(a)
  BY <1>6, <1>7 DEF SendPiece
<1>8. CASE \E a \in Attempts : \E r \in 1..(MaxText - 1 - a) : ResetDraft(a, r)
  BY <1>6, <1>8 DEF ResetDraft
<1>9. CASE \E a \in Attempts : RaiseJob(a)
  BY <1>1, <1>5, <1>9 DEF RaiseJob
<1>10. CASE \E c \in closing : CloseContent(c)
  <2>1. source' = source /\ (UNCHANGED <<head, frames>> \/ head.status = "active")
    BY <1>10 DEF CloseContent
  <2>2. head.status = "active" => source # "purged"
    BY DEF RevokedLeavesNothing
  <2> QED
    BY <1>1, <1>2, <2>1, <2>2
<1>11. CASE PurgeClose \/ Age
  <2>1. source' = source /\ head.status # "none"
    BY <1>11 DEF PurgeClose, Age, queueVars
  <2> QED
    BY <1>2, <2>1 DEF RevokedLeavesNothing
<1>12. CASE PurgeOld
  BY <1>3, <1>12 DEF PurgeOld
<1>13. CASE Mark \/ CancelTask
  BY <1>1, <1>13 DEF Mark, CancelTask
<1>14. CASE PurgeRevoked
  BY <1>3, <1>14 DEF PurgeRevoked, AnyPreview
<1>15. CASE Stream
  BY <1>1, <1>15 DEF Stream, StreamRow, StreamHead, StreamFrames, queueVars
<1>16. CASE UNCHANGED previewVars
  BY <1>1, <1>16 DEF previewVars, queueVars
<1> QED
  BY <1>4, <1>7, <1>8, <1>9, <1>10, <1>11, <1>12, <1>13, <1>14, <1>15, <1>16 DEF PreviewNext

\* Once revoke_document has removed the previews of a source nothing of them is
\* left and nothing comes back from a worker or a close that was under way.
THEOREM NothingIsLeftOfARevokedSource == PreviewSpec => []RevokedLeavesNothing
<1>1. PreviewInit => RevokedLeavesNothing
  BY DEF PreviewInit, RevokedLeavesNothing
<1> QED
  BY <1>1, RevokedStep, PTL DEF PreviewSpec

-----------------------------------------------------------------------------
(* ContentPreview: what makes the stored preview one draft.                *)

\* The preview object that may append.
Writes(a) ==
    /\ worker[a].phase = "on" /\ ~worker[a].disabled
    /\ task.attempt = a /\ task.status = "running" /\ source = "granted"

\* A preview object that has not failed knows the last frame: it has stored none
\* of its attempt yet, or the last one is its last piece.
InStep(a) ==
    \/ worker[a].piece = 0 /\ (head.status = "none" \/ head.attempt # a)
    \/ /\ head.status = "active" /\ head.attempt = a /\ head.revision = worker[a].revision
       /\ \A f \in frames : f.seq = head.seq =>
            f.piece = worker[a].piece /\ f.kind \in {"delta", "reset"}

WritersAreInStep ==
    /\ \A a \in Attempts : Writes(a) => InStep(a)
    /\ \A a \in Attempts : a > task.attempt => worker[a] = Idle

\* A close is to come for an attempt that is over, and a final one for the one
\* that completed the task.
ClosesAreLate ==
    \A c \in closing : /\ c.attempt <= task.attempt
                       /\ c.attempt = task.attempt => task.status # "running"
                       /\ c.completed => task.status = "completed" /\ c.attempt = task.attempt

HeadIsAhead ==
    /\ head.attempt <= task.attempt
    /\ head.status = "none" => frames = {}
    /\ head.status = "active" => head.age = "open"
    /\ \A f \in frames : f.seq <= head.seq

PreviewInv ==
    StoreTypeOK /\ StoredIsOneDraft /\ WritersAreInStep /\ ClosesAreLate /\ HeadIsAhead

\* The frames of a draft: of the head, up to it, without a gap, in order.
Draft(h, fs) ==
    /\ fs \subseteq StoredFrames
    /\ \A f \in fs : <<f.attempt, f.revision>> = <<h.attempt, h.revision>> /\ f.seq <= h.seq
    /\ \A f \in fs : \A n \in f.seq..h.seq : \E g \in fs : g.seq = n
    /\ \A f \in fs : f.kind = "delta" =>
         \/ f.seq = 1 /\ f.piece = 1
         \/ \E g \in fs : g.seq = f.seq - 1 /\ g.piece = f.piece - 1 /\ g.kind \in {"delta", "reset"}

LEMMA WriteKeepsDraft ==
    ASSUME NEW h \in Heads, h.attempt \in Attempts, h.revision \in 1..MaxRevision,
           NEW old, Draft(h, old),
           NEW put \in {"delta", "reset", "finalized", "unavailable"}, NEW piece \in 0..MaxPieces,
           put = "delta" =>
               \/ h.seq = 0 /\ piece = 1
               \/ \E g \in old : g.seq = h.seq /\ g.piece = piece - 1 /\ g.kind \in {"delta", "reset"},
           WriteFrame(h, old, put, piece)
    PROVE  /\ head' \in Heads /\ Draft(head', frames')
           /\ head'.attempt = h.attempt /\ head'.revision = h.revision /\ head'.seq = h.seq + 1
           /\ head'.status = (IF put \in {"unavailable", "finalized"} THEN put ELSE "active")
           /\ head'.status = "active" => head'.age = "open"
           /\ \E f \in frames' : f.seq = head'.seq
           /\ \A f \in frames' : f.seq = head'.seq => f.piece = piece /\ f.kind = put
           /\ \A f \in frames' : f \in old \/ (f.kind = put /\ f.attempt = h.attempt)
<1> DEFINE new == [attempt |-> h.attempt, revision |-> h.revision, seq |-> h.seq + 1,
                   kind |-> put, piece |-> piece]
           rest == IF put \in {"unavailable", "reset"} THEN {} ELSE old
           st == IF put \in {"unavailable", "finalized"} THEN put ELSE "active"
           ag == IF put \in {"unavailable", "finalized"} THEN "closed" ELSE "open"
<1>1. frames' = rest \cup {new}
  BY DEF WriteFrame
<1>2. head' = [h EXCEPT !.seq = h.seq + 1, !.status = st, !.age = ag]
  BY DEF WriteFrame
<1>3. h.seq \in Nat /\ h.seq + 1 \in Nat
      /\ st \in {"none", "active", "finalized", "unavailable"} /\ ag \in {"open", "closed", "old"}
  BY DEF Heads
<1>4. new \in StoredFrames /\ new.seq = h.seq + 1 /\ new.attempt = h.attempt
      /\ new.revision = h.revision /\ new.kind = put /\ new.piece = piece
  BY <1>3 DEF StoredFrames
<1>5. st = "active" => ag = "open"
  OBVIOUS
<1>6. rest \subseteq old /\ rest \subseteq StoredFrames /\ \A f \in rest : f.seq \in Nat
  BY DEF Draft, StoredFrames
<1>7. rest # {} => rest = old
  OBVIOUS
<1>8. put = "delta" => rest = old
  OBVIOUS
<1> HIDE DEF new, rest, ag
<1>9. /\ head'.attempt = h.attempt /\ head'.revision = h.revision /\ head'.seq = h.seq + 1
      /\ head'.status = st /\ head'.age = ag
  BY <1>2 DEF Heads
<1>10. head' \in Heads
  BY <1>2, <1>3 DEF Heads
<1>11. \A f \in rest : f.seq < new.seq
  BY <1>3, <1>4, <1>6 DEF Draft
<1>12. Draft(head', frames')
  <2>1. frames' \subseteq StoredFrames
    BY <1>1, <1>4, <1>6
  <2>2. \A f \in frames' : <<f.attempt, f.revision>> = <<head'.attempt, head'.revision>>
                           /\ f.seq <= head'.seq
    BY <1>1, <1>3, <1>4, <1>6, <1>9, <1>11 DEF Draft
  <2>3. \A f \in frames' : \A n \in f.seq..head'.seq : \E g \in frames' : g.seq = n
    <3> SUFFICES ASSUME NEW f \in frames', NEW n \in f.seq..head'.seq
                 PROVE  \E g \in frames' : g.seq = n
      OBVIOUS
    <3>1. CASE n = h.seq + 1
      BY <1>1, <1>4, <3>1
    <3>2. CASE n # h.seq + 1
      <4>1. n < h.seq + 1 /\ f.seq <= n /\ n \in Int
        BY <1>3, <1>9, <3>2
      <4>2. f \in rest
        BY <1>1, <1>3, <1>4, <4>1
      <4>3. f \in old /\ n \in f.seq..h.seq /\ rest = old
        BY <1>3, <1>6, <1>7, <4>1, <4>2
      <4> QED
        BY <1>1, <4>3 DEF Draft
    <3> QED
      BY <3>1, <3>2
  <2>4. \A f \in frames' : f.kind = "delta" =>
          \/ f.seq = 1 /\ f.piece = 1
          \/ \E g \in frames' : g.seq = f.seq - 1 /\ g.piece = f.piece - 1
                                /\ g.kind \in {"delta", "reset"}
    <3> SUFFICES ASSUME NEW f \in frames', f.kind = "delta"
                 PROVE  \/ f.seq = 1 /\ f.piece = 1
                        \/ \E g \in frames' : g.seq = f.seq - 1 /\ g.piece = f.piece - 1
                                              /\ g.kind \in {"delta", "reset"}
      OBVIOUS
    <3>1. CASE f \in rest
      <4>1. f \in old /\ rest = old
        BY <1>6, <1>7, <3>1
      <4>2. \/ f.seq = 1 /\ f.piece = 1
            \/ \E g \in old : g.seq = f.seq - 1 /\ g.piece = f.piece - 1
                              /\ g.kind \in {"delta", "reset"}
        BY <4>1 DEF Draft
      <4> QED
        BY <1>1, <4>1, <4>2
    <3>2. CASE f = new
      <4>1. put = "delta" /\ f.seq = h.seq + 1 /\ f.piece = piece /\ f.seq - 1 = h.seq
            /\ (h.seq = 0 => f.seq = 1)
        BY <1>3, <1>4, <3>2
      <4>2. rest = old
        BY <1>8, <4>1
      <4> QED
        BY <1>1, <4>1, <4>2
    <3> QED
      BY <1>1, <3>1, <3>2
  <2> QED
    BY <2>1, <2>2, <2>3, <2>4 DEF Draft
<1>13. \E f \in frames' : f.seq = head'.seq
  BY <1>1, <1>4, <1>9
<1>14. \A f \in frames' : f.seq = head'.seq => f = new
  BY <1>1, <1>4, <1>6, <1>9, <1>11
<1>15. \A f \in frames' : f \in old \/ f = new
  BY <1>1, <1>6
<1> QED
  BY <1>4, <1>5, <1>9, <1>10, <1>12, <1>13, <1>14, <1>15

LEMMA PreviewFacts ==
    ASSUME PreviewInv
    PROVE  /\ head \in Heads /\ frames \subseteq StoredFrames /\ Draft(head, frames)
           /\ worker \in [Attempts -> Previews] /\ task.attempt \in 0..MaxTries
           /\ MaxRevision \in Nat /\ 1 \in 1..MaxRevision /\ 0 \in 0..MaxPieces
           /\ Idle \in Previews /\ Idle.phase = "off"
           /\ \A a \in Attempts : a \in Nat /\ a # 0
<1>1. MaxRevision \in Nat /\ 1 \in 1..MaxRevision /\ 0 \in 0..MaxPieces
  <2>1. MaxTries \in Nat \ {0} /\ MaxText \in Nat /\ MaxText > MaxTries + 1
    BY PreviewBounds
  <2> QED
    BY <2>1 DEF MaxRevision, MaxPieces
<1>2. /\ head \in Heads /\ frames \subseteq StoredFrames /\ worker \in [Attempts -> Previews]
      /\ task.attempt \in 0..MaxTries
  BY DEF PreviewInv, StoreTypeOK
<1>3. Draft(head, frames)
  BY <1>2 DEF PreviewInv, StoredIsOneDraft, HeadIsAhead, Draft
<1>4. Idle \in Previews /\ Idle.phase = "off"
  BY <1>1 DEF Idle, Previews
<1>5. \A a \in Attempts : a \in Nat /\ a # 0
  BY DEF Attempts
<1> QED
  BY <1>1, <1>2, <1>3, <1>4, <1>5

LEMMA DraftIsStored ==
    ASSUME PreviewInv, UNCHANGED task, head' \in Heads, Draft(head', frames'),
           head'.attempt <= task.attempt, head'.status # "none",
           head'.status = "active" => head'.age = "open",
           \E f \in frames' : f.seq = head'.seq,
           \A f \in frames' : f.kind = "finalized" => task.status = "completed" /\ f.attempt = task.attempt
    PROVE  frames' \subseteq StoredFrames /\ StoredIsOneDraft' /\ HeadIsAhead'
<1>1. StoredIsOneDraft'
  BY DEF StoredIsOneDraft, Draft
<1>2. HeadIsAhead'
  BY DEF HeadIsAhead, Draft
<1> QED
  BY <1>1, <1>2 DEF Draft

\* What an append leaves behind.
LEMMA Appended ==
    ASSUME PreviewInv, UNCHANGED task, NEW a \in Attempts, NEW r \in 1..MaxRevision,
           NEW k \in {"delta", "reset", "unavailable"}, NEW i \in 0..MaxPieces,
           Stored(a, r, k, i),
           k = "delta" => InStep(a) /\ r = worker[a].revision /\ i = worker[a].piece + 1
    PROVE  /\ Owns(a) /\ source = "granted"
           /\ head' \in Heads /\ frames' \subseteq StoredFrames
           /\ StoredIsOneDraft' /\ HeadIsAhead'
           /\ HeadFor(a, r).status = "active" /\ k # "unavailable" =>
                /\ head'.status = "active" /\ head'.attempt = a /\ head'.revision = r
                /\ \A f \in frames' : f.seq = head'.seq => f.piece = i /\ f.kind = k
<1> DEFINE h == HeadFor(a, r)
           old == KeptFor(a, r)
<1>1. /\ Owns(a) /\ source = "granted" /\ task.attempt = a
      /\ ~NewDraft(a, r) => ~(r < head.revision)
  BY DEF Stored, Refused, Owns
<1>2. CASE h.status # "active"
  <2>1. UNCHANGED <<head, frames>>
    BY <1>2 DEF Stored
  <2> QED
    BY <1>1, <1>2, <2>1, PreviewFacts
       DEF PreviewInv, StoreTypeOK, StoredIsOneDraft, HeadIsAhead
<1>3. CASE h.status = "active"
  <2>1. WriteFrame(h, old, k, i)
    BY <1>3 DEF Stored
  <2>2. h \in Heads /\ h.attempt = a /\ h.revision = r /\ Draft(h, old) /\ old \subseteq frames
    <3>1. CASE NewDraft(a, r)
      <4>1. h = [attempt |-> a, revision |-> r, seq |-> 0, status |-> "active", age |-> "open"]
            /\ old = {}
        BY <3>1 DEF HeadFor, KeptFor
      <4>2. a \in 0..MaxTries /\ r \in 0..MaxRevision
        BY PreviewFacts DEF Attempts
      <4>3. h \in Heads
        BY <4>1, <4>2 DEF Heads
      <4> QED
        BY <4>1, <4>3 DEF Draft
    <3>2. CASE ~NewDraft(a, r)
      <4>1. h = head /\ old = frames /\ head.attempt = a
        BY <3>2 DEF HeadFor, KeptFor, NewDraft
      <4>2. ~(r > head.revision) /\ ~(r < head.revision) /\ head.revision \in Nat
        BY <1>1, <3>2, PreviewFacts DEF NewDraft, Heads
      <4>3. head.revision = r
        BY <4>2
      <4> QED
        BY <4>1, <4>3, PreviewFacts
    <3> QED
      BY <3>1, <3>2
  <2>3. k = "delta" =>
          \/ h.seq = 0 /\ i = 1
          \/ \E g \in old : g.seq = h.seq /\ g.piece = i - 1 /\ g.kind \in {"delta", "reset"}
    <3> SUFFICES ASSUME k = "delta"
                 PROVE  \/ h.seq = 0 /\ i = 1
                        \/ \E g \in old : g.seq = h.seq /\ g.piece = i - 1
                                          /\ g.kind \in {"delta", "reset"}
      OBVIOUS
    <3>1. CASE NewDraft(a, r)
      <4>1. h.seq = 0
        BY <3>1 DEF HeadFor
      <4>2. worker[a].piece = 0
        <5>1. ~(head.status = "active" /\ head.attempt = a /\ head.revision = r)
          <6>1. head.status = "active" /\ head.attempt = a /\ head.revision = r =>
                  r > head.revision
            BY <3>1 DEF NewDraft
          <6> QED
            BY <6>1
        <5> QED
          BY <5>1 DEF InStep
      <4> QED
        BY <4>1, <4>2
    <3>2. CASE ~NewDraft(a, r)
      <4>1. h = head /\ old = frames /\ head.status # "none" /\ head.attempt = a
        BY <3>2 DEF HeadFor, KeptFor, NewDraft
      <4>2. \A f \in frames : f.seq = head.seq =>
              f.piece = worker[a].piece /\ f.kind \in {"delta", "reset"}
        BY <4>1 DEF InStep
      <4>3. PICK f \in frames : f.seq = head.seq
        BY <4>1 DEF PreviewInv, StoredIsOneDraft
      <4>4. worker[a].piece \in Int
        BY PreviewFacts DEF Previews
      <4>5. f.piece = i - 1
        BY <4>2, <4>3, <4>4
      <4> QED
        BY <4>1, <4>2, <4>3, <4>5
    <3> QED
      BY <3>1, <3>2
  <2> HIDE DEF h, old
  <2>4. h.attempt \in Attempts /\ h.revision \in 1..MaxRevision
    BY <2>2
  <2>5. /\ head' \in Heads /\ Draft(head', frames')
        /\ head'.attempt = a /\ head'.revision = r
        /\ head'.status = (IF k \in {"unavailable", "finalized"} THEN k ELSE "active")
        /\ head'.status = "active" => head'.age = "open"
        /\ \E f \in frames' : f.seq = head'.seq
        /\ \A f \in frames' : f.seq = head'.seq => f.piece = i /\ f.kind = k
        /\ \A f \in frames' : f \in old \/ f.kind = k
    BY <2>1, <2>2, <2>3, <2>4, WriteKeepsDraft
  <2>6. \A f \in frames' : f.kind = "finalized" =>
          task.status = "completed" /\ f.attempt = task.attempt
    BY <2>2, <2>5 DEF PreviewInv, StoredIsOneDraft
  <2>7. head'.attempt <= task.attempt /\ head'.status # "none"
    BY <1>1, <2>5, PreviewFacts
  <2>8. frames' \subseteq StoredFrames /\ StoredIsOneDraft' /\ HeadIsAhead'
    BY <2>5, <2>6, <2>7, DraftIsStored
  <2> QED
    BY <1>1, <2>5, <2>8 DEF h
<1> QED
  BY <1>2, <1>3

\* A preview object that stops to write, with a last frame or none.
LEMMA WriterStops ==
    ASSUME PreviewInv, UNCHANGED <<task, source, closing>>, NEW a \in Attempts, a <= task.attempt,
           NEW x \in Previews, worker' = [worker EXCEPT ![a] = x], x.phase # "on" \/ x.disabled,
           head' \in Heads, frames' \subseteq StoredFrames, StoredIsOneDraft', HeadIsAhead',
           UNCHANGED <<head, frames>> \/ task.attempt = a
    PROVE  PreviewInv'
<1>1. worker' \in [Attempts -> Previews] /\ worker'[a] = x
      /\ \A b \in Attempts : b # a => worker'[b] = worker[b]
  BY PreviewFacts
<1>2. StoreTypeOK'
  BY <1>1 DEF PreviewInv, StoreTypeOK
<1>3. \A b \in Attempts : Writes(b)' => InStep(b)'
  <2> SUFFICES ASSUME NEW b \in Attempts, Writes(b)' PROVE InStep(b)'
    OBVIOUS
  <2>1. b # a
    BY <1>1 DEF Writes
  <2>2. worker'[b] = worker[b] /\ task.attempt = b
    BY <1>1, <2>1 DEF Writes
  <2>3. UNCHANGED <<head, frames>>
    BY <2>1, <2>2
  <2>4. Writes(b)
    BY <2>2 DEF Writes
  <2>5. InStep(b)
    BY <2>4 DEF PreviewInv, WritersAreInStep
  <2> QED
    BY <2>2, <2>3, <2>5 DEF InStep
<1>4. \A b \in Attempts : b > task.attempt => worker'[b] = Idle
  BY <1>1, PreviewFacts DEF PreviewInv, WritersAreInStep
<1>5. WritersAreInStep' /\ ClosesAreLate'
  BY <1>3, <1>4 DEF PreviewInv, WritersAreInStep, ClosesAreLate
<1> QED
  BY <1>2, <1>5 DEF PreviewInv

\* What a writer knows of its attempt.
LEMMA WriterFacts ==
    ASSUME PreviewInv, NEW a \in Attempts, worker[a].phase # "off"
    PROVE  a <= task.attempt /\ worker[a] \in Previews
<1>1. worker[a] # Idle
  BY PreviewFacts
<1> QED
  BY <1>1, PreviewFacts DEF PreviewInv, WritersAreInStep

LEMMA ObjectSends ==
    ASSUME PreviewInv, UNCHANGED <<task, source, closing>>, NEW a \in Attempts,
           worker[a].phase = "on", ~worker[a].disabled,
           NEW w \in Previews, w.phase = "on", NEW k \in {"delta", "reset"},
           k = "delta" => w.revision = worker[a].revision /\ w.piece = worker[a].piece + 1,
           SendFrame(a, w, k, w.piece)
    PROVE  PreviewInv'
<1>1. /\ a <= task.attempt /\ w.revision \in 1..MaxRevision /\ w.piece \in 0..MaxPieces
      /\ 0 \in 0..MaxPieces
  BY WriterFacts, PreviewFacts DEF Previews
<1>2. head \in Heads /\ frames \subseteq StoredFrames /\ StoredIsOneDraft /\ HeadIsAhead
  BY PreviewFacts DEF PreviewInv
<1>3. UNCHANGED <<head, frames>> =>
        head' \in Heads /\ frames' \subseteq StoredFrames /\ StoredIsOneDraft' /\ HeadIsAhead'
  BY <1>2 DEF StoredIsOneDraft, HeadIsAhead
<1>4. Owns(a) /\ source = "granted" => InStep(a)
  BY DEF PreviewInv, WritersAreInStep, Writes, Owns
<1>5. Disable(w) \in Previews /\ Disable(w).disabled
  BY <1>1 DEF Disable, Previews
<1>6. CASE Refused(a, w.revision) /\ UNCHANGED <<head, frames>>
            /\ worker' = [worker EXCEPT ![a] = [Idle EXCEPT !.phase = "failing"]]
  <2>1. [Idle EXCEPT !.phase = "failing"] \in Previews
        /\ [Idle EXCEPT !.phase = "failing"].phase = "failing"
    BY PreviewFacts DEF Idle, Previews
  <2> QED
    BY <1>1, <1>3, <1>6, <2>1, WriterStops
<1>7. ASSUME Stored(a, w.revision, k, w.piece),
             worker' \in {[worker EXCEPT ![a] = w], [worker EXCEPT ![a] = Disable(w)]}
      PROVE  PreviewInv'
  <2>0. Owns(a) /\ source = "granted"
    BY <1>7 DEF Stored, Refused
  <2>1. /\ head' \in Heads /\ frames' \subseteq StoredFrames
        /\ StoredIsOneDraft' /\ HeadIsAhead'
        /\ HeadFor(a, w.revision).status = "active" =>
             /\ head'.status = "active" /\ head'.attempt = a /\ head'.revision = w.revision
             /\ \A f \in frames' : f.seq = head'.seq => f.piece = w.piece /\ f.kind = k
    BY <1>1, <1>4, <1>7, <2>0, Appended
  <2>2. task.attempt = a
    BY <2>0 DEF Owns
  <2>3. CASE worker' = [worker EXCEPT ![a] = Disable(w)]
    BY <1>1, <1>5, <2>1, <2>2, <2>3, WriterStops
  <2>4. CASE worker' = [worker EXCEPT ![a] = w]
    <3>1. worker' \in [Attempts -> Previews] /\ worker'[a] = w
          /\ \A b \in Attempts : b # a => worker'[b] = worker[b]
      BY <2>4, PreviewFacts
    <3>2. StoreTypeOK'
      BY <2>1, <3>1 DEF PreviewInv, StoreTypeOK
    <3>3. HeadFor(a, w.revision).status = "active"
      <4>1. CASE NewDraft(a, w.revision)
        BY <4>1 DEF HeadFor
      <4>2. CASE ~NewDraft(a, w.revision)
        BY <1>4, <2>0, <4>2 DEF HeadFor, NewDraft, InStep
      <4> QED
        BY <4>1, <4>2
    <3>4. InStep(a)'
      BY <2>1, <3>1, <3>3 DEF InStep
    <3>5. \A b \in Attempts : Writes(b)' => InStep(b)'
      BY <2>2, <3>4 DEF Writes
    <3>6. \A b \in Attempts : b > task.attempt => worker'[b] = Idle
      BY <1>1, <3>1, PreviewFacts DEF PreviewInv, WritersAreInStep
    <3>7. WritersAreInStep' /\ ClosesAreLate'
      BY <3>5, <3>6 DEF PreviewInv, WritersAreInStep, ClosesAreLate
    <3> QED
      BY <2>1, <3>2, <3>7 DEF PreviewInv
  <2> QED
    BY <1>7, <2>3, <2>4
<1>8. CASE /\ Stored(a, w.revision, "unavailable", 0) \/ UNCHANGED <<head, frames>>
           /\ worker' = [worker EXCEPT ![a] = Disable(w)]
  <2>1. CASE Stored(a, w.revision, "unavailable", 0)
    <3>1. Owns(a) /\ head' \in Heads /\ frames' \subseteq StoredFrames
          /\ StoredIsOneDraft' /\ HeadIsAhead'
      BY <1>1, <2>1, Appended
    <3> QED
      BY <1>1, <1>5, <1>8, <3>1, WriterStops DEF Owns
  <2>2. CASE UNCHANGED <<head, frames>>
    BY <1>1, <1>3, <1>5, <1>8, <2>2, WriterStops
  <2> QED
    BY <1>8, <2>1, <2>2
<1> QED
  BY <1>6, <1>7, <1>8 DEF SendFrame

LEMMA ObjectSteps ==
    ASSUME PreviewInv, NEW a \in Attempts,
           SendPiece(a) \/ RaiseJob(a) \/ \E r \in 1..(MaxText - 1 - a) : ResetDraft(a, r)
    PROVE  PreviewInv'
<1>1. /\ worker[a].phase = "on" /\ UNCHANGED <<task, source, closing>>
      /\ worker[a] \in Previews /\ a <= task.attempt
  BY WriterFacts DEF SendPiece, RaiseJob, ResetDraft
<1>2. /\ worker[a].revision \in 1..MaxRevision /\ worker[a].piece \in Nat
      /\ a \in Nat /\ a # 0 /\ MaxText \in Nat /\ MaxRevision = MaxText - 2 /\ MaxPieces = MaxText - 2
  BY <1>1, PreviewFacts, PreviewBounds DEF Previews, MaxRevision, MaxPieces
<1>3. CASE SendPiece(a)
  <2> DEFINE w == [worker[a] EXCEPT !.piece = @ + 1]
  <2>1. SendFrame(a, w, "delta", w.piece) /\ ~worker[a].disabled
        /\ a + worker[a].revision + worker[a].piece < MaxText
    BY <1>3 DEF SendPiece
  <2>2. worker[a].piece + 1 \in 0..MaxPieces
    BY <1>2, <2>1
  <2>3. w \in Previews /\ w.phase = "on" /\ w.piece = worker[a].piece + 1
        /\ w.revision = worker[a].revision
    BY <1>1, <2>2 DEF Previews
  <2> HIDE DEF w
  <2> QED
    BY <1>1, <2>1, <2>3, ObjectSends
<1>4. ASSUME NEW r \in 1..(MaxText - 1 - a), ResetDraft(a, r) PROVE PreviewInv'
  <2> DEFINE w == [worker[a] EXCEPT !.revision = r, !.piece = 0]
  <2>1. SendFrame(a, w, "reset", 0) /\ ~worker[a].disabled
    BY <1>4 DEF ResetDraft
  <2>2. r \in 1..MaxRevision /\ 0 \in 0..MaxPieces
    BY <1>2, PreviewFacts
  <2>3. w \in Previews /\ w.phase = "on" /\ w.piece = 0
    BY <1>1, <2>2 DEF Previews
  <2> HIDE DEF w
  <2> QED
    BY <1>1, <2>1, <2>3, ObjectSends
<1>5. CASE RaiseJob(a)
  <2> DEFINE x == [Idle EXCEPT !.phase = "failing"]
  <2>1. x \in Previews /\ x.phase = "failing"
    BY PreviewFacts DEF Idle, Previews
  <2>2. /\ worker' = [worker EXCEPT ![a] = x]
        /\ Stored(a, worker[a].revision, "unavailable", 0) \/ UNCHANGED <<head, frames>>
    BY <1>5 DEF RaiseJob
  <2> HIDE DEF x
  <2>3. CASE Stored(a, worker[a].revision, "unavailable", 0)
    <3>1. Owns(a) /\ head' \in Heads /\ frames' \subseteq StoredFrames
          /\ StoredIsOneDraft' /\ HeadIsAhead'
      BY <1>1, <1>2, <2>3, PreviewFacts, Appended
    <3> QED
      BY <1>1, <2>1, <2>2, <3>1, WriterStops DEF Owns
  <2>4. CASE UNCHANGED <<head, frames>>
    <3>1. head' \in Heads /\ frames' \subseteq StoredFrames /\ StoredIsOneDraft' /\ HeadIsAhead'
      BY <1>1, <2>4, PreviewFacts DEF PreviewInv, StoredIsOneDraft, HeadIsAhead
    <3> QED
      BY <1>1, <2>1, <2>2, <2>4, <3>1, WriterStops
  <2> QED
    BY <2>2, <2>3, <2>4
<1> QED
  BY <1>3, <1>4, <1>5

\* A step of the queue, with the preview as it is: the task runs on under its
\* attempt, or another attempt begins, or no attempt runs any more.
LEMMA QueueSteps ==
    ASSUME PreviewInv, UNCHANGED <<head, frames>>,
           task' \in [status : {"pending", "running"} \cup Ended, attempt : 0..MaxTries, leased : BOOLEAN],
           source' \in {"granted", "marked", "stopped", "purged"}, worker' \in [Attempts -> Previews],
           source' = "granted" => source = "granted",
           task'.attempt >= task.attempt,
           task.status = "completed" => task'.status = "completed" /\ task'.attempt = task.attempt,
           task'.status = "running" =>
               \/ task.status = "running" /\ task'.attempt = task.attempt
               \/ task'.attempt > task.attempt,
           \A b \in Attempts : \/ worker'[b] = worker[b] \/ worker'[b] = Idle
                               \/ /\ b = task'.attempt /\ b > task.attempt
                                  /\ worker'[b] = [worker[b] EXCEPT !.phase = "on"],
           closing' \subseteq [attempt : Attempts, completed : BOOLEAN],
           \A c \in closing' : c \in closing \/
               /\ c.attempt = task'.attempt /\ task'.status # "running"
               /\ c.completed => task'.status = "completed"
    PROVE  PreviewInv'
<1>1. /\ task.attempt \in Nat /\ task'.attempt \in Nat /\ head.attempt \in Nat
      /\ head' = head /\ frames' = frames
  BY PreviewFacts DEF Heads
<1>2. StoreTypeOK'
  BY <1>1, PreviewFacts DEF StoreTypeOK
<1>3. StoredIsOneDraft'
  <2>1. \A f \in frames : f.kind = "finalized" => task'.status = "completed" /\ f.attempt = task'.attempt
    BY DEF PreviewInv, StoredIsOneDraft
  <2> QED
    BY <1>1, <2>1 DEF PreviewInv, StoredIsOneDraft
<1>4. HeadIsAhead'
  <2>1. head.attempt <= task'.attempt
    BY <1>1 DEF PreviewInv, HeadIsAhead
  <2> QED
    BY <1>1, <2>1 DEF PreviewInv, HeadIsAhead
<1>5. ClosesAreLate'
  <2> SUFFICES ASSUME NEW c \in closing'
               PROVE  /\ c.attempt <= task'.attempt
                      /\ c.attempt = task'.attempt => task'.status # "running"
                      /\ c.completed => task'.status = "completed" /\ c.attempt = task'.attempt
    BY DEF ClosesAreLate
  <2>1. CASE c \in closing
    <3>1. /\ c.attempt <= task.attempt
          /\ c.attempt = task.attempt => task.status # "running"
          /\ c.completed => task.status = "completed" /\ c.attempt = task.attempt
      BY <2>1 DEF PreviewInv, ClosesAreLate
    <3>2. c.attempt \in Nat
      BY PreviewFacts DEF Attempts
    <3> QED
      BY <1>1, <3>1, <3>2
  <2>2. CASE c \notin closing
    BY <1>1, <2>2
  <2> QED
    BY <2>1, <2>2
<1>6. \A b \in Attempts : Writes(b)' => InStep(b)'
  <2> SUFFICES ASSUME NEW b \in Attempts, Writes(b)' PROVE InStep(b)'
    OBVIOUS
  <2>1. worker'[b].phase = "on" /\ ~worker'[b].disabled /\ task'.attempt = b
        /\ task'.status = "running" /\ source = "granted"
    BY DEF Writes
  <2>2. CASE worker'[b] = worker[b]
    <3>1. worker[b] # Idle /\ b \in Nat
      BY <2>1, <2>2, PreviewFacts
    <3>2. b <= task.attempt
      BY <1>1, <3>1 DEF PreviewInv, WritersAreInStep
    <3>3. task.attempt = b /\ task.status = "running"
      BY <1>1, <2>1, <3>1, <3>2
    <3>4. InStep(b)
      BY <2>1, <2>2, <3>3 DEF PreviewInv, WritersAreInStep, Writes
    <3> QED
      BY <1>1, <2>2, <3>4 DEF InStep
  <2>3. CASE worker'[b] = Idle
    BY <2>1, <2>3, PreviewFacts
  <2>4. CASE b > task.attempt /\ worker'[b] = [worker[b] EXCEPT !.phase = "on"]
    <3>1. worker[b] = Idle
      BY <2>4 DEF PreviewInv, WritersAreInStep
    <3>2. worker'[b].piece = 0
      BY <2>4, <3>1 DEF Idle
    <3>3. head.attempt # b
      <4>1. head.attempt <= task.attempt /\ b \in Nat
        BY PreviewFacts DEF PreviewInv, HeadIsAhead
      <4> QED
        BY <1>1, <2>4, <4>1
    <3> QED
      BY <1>1, <3>2, <3>3 DEF InStep
  <2> QED
    BY <2>2, <2>3, <2>4
<1>7. \A b \in Attempts : b > task'.attempt => worker'[b] = Idle
  <2> SUFFICES ASSUME NEW b \in Attempts, b > task'.attempt PROVE worker'[b] = Idle
    OBVIOUS
  <2>1. b \in Nat /\ b > task.attempt /\ b # task'.attempt
    BY <1>1, PreviewFacts
  <2>2. worker[b] = Idle
    BY <2>1 DEF PreviewInv, WritersAreInStep
  <2> QED
    BY <2>1, <2>2
<1> QED
  BY <1>2, <1>3, <1>4, <1>5, <1>6, <1>7 DEF PreviewInv, WritersAreInStep

LEMMA TaskSteps ==
    ASSUME PreviewInv,
           \/ TakeTask \/ LeaseExpires \/ EndTask \/ Mark \/ CancelTask
           \/ \E a \in Attempts : Complete(a) \/ Fail(a) \/ Crash(a)
    PROVE  PreviewInv'
<1> DEFINE Tasks == [status : {"pending", "running"} \cup Ended, attempt : 0..MaxTries, leased : BOOLEAN]
           Closes == [attempt : Attempts, completed : BOOLEAN]
<1>1. /\ task \in Tasks /\ task.attempt \in Nat /\ worker \in [Attempts -> Previews]
      /\ source \in {"granted", "marked", "stopped", "purged"} /\ closing \subseteq Closes
      /\ task.attempt >= task.attempt
  BY PreviewFacts DEF PreviewInv, StoreTypeOK
<1>2. CASE TakeTask
  <2> DEFINE a == task.attempt + 1
  <2>1. a \in Attempts /\ a \in 0..MaxTries /\ a > task.attempt /\ task.status \in {"pending", "running"}
    BY <1>1, <1>2, PreviewBounds DEF TakeTask, MayRetry, Attempts
  <2>2. task' = [status |-> "running", attempt |-> a, leased |-> TRUE]
        /\ worker' = [worker EXCEPT ![a].phase = "on"] /\ UNCHANGED <<source, closing, head, frames>>
    BY <1>2 DEF TakeTask
  <2>3. task' \in Tasks /\ task'.attempt = a /\ task'.status = "running"
    BY <2>1, <2>2
  <2>4. worker[a] \in Previews
    BY <1>1, <2>1
  <2>5. [worker[a] EXCEPT !.phase = "on"] \in Previews
    BY <2>4 DEF Previews
  <2> HIDE DEF a
  <2>6. worker' = [worker EXCEPT ![a] = [worker[a] EXCEPT !.phase = "on"]]
    BY <2>2
  <2>7. worker' \in [Attempts -> Previews]
    BY <1>1, <2>5, <2>6
  <2>8. \A b \in Attempts : \/ worker'[b] = worker[b]
                            \/ b = a /\ worker'[b] = [worker[b] EXCEPT !.phase = "on"]
    BY <1>1, <2>6
  <2> QED
    BY <1>1, <2>1, <2>2, <2>3, <2>7, <2>8, QueueSteps
<1>3. CASE LeaseExpires
  <2>1. /\ task' = [task EXCEPT !.leased = FALSE]
        /\ UNCHANGED <<source, worker, closing, head, frames>>
    BY <1>3 DEF LeaseExpires
  <2>2. task' \in Tasks /\ task'.attempt = task.attempt /\ task'.status = task.status
    BY <1>1, <2>1
  <2> QED
    BY <1>1, <2>1, <2>2, QueueSteps
<1>4. ASSUME task' = [task EXCEPT !.status = "failed", !.leased = FALSE],
             task.status \in {"pending", "running"}
      PROVE  task' \in Tasks /\ task'.attempt = task.attempt /\ task'.status = "failed"
             /\ task.status # "completed"
  BY <1>1, <1>4 DEF Ended
<1>5. CASE EndTask
  <2>1. UNCHANGED <<source, worker, closing, head, frames>>
    BY <1>5 DEF EndTask
  <2>2. task' \in Tasks /\ task'.attempt = task.attempt /\ task'.status = "failed"
        /\ task.status # "completed"
    BY <1>4, <1>5 DEF EndTask
  <2> QED
    BY <1>1, <2>1, <2>2, QueueSteps
<1>6. CASE Mark
  <2>1. source' = "marked" /\ UNCHANGED <<task, worker, closing, head, frames>>
    BY <1>6 DEF Mark
  <2> QED
    BY <1>1, <2>1, QueueSteps
<1>7. CASE CancelTask
  <2>1. source' = "stopped" /\ UNCHANGED <<worker, closing, head, frames>>
    BY <1>7 DEF CancelTask
  <2>2. CASE task.status \in Ended
    <3>1. task' = task
      BY <1>7, <2>2 DEF CancelTask
    <3> QED
      BY <1>1, <2>1, <3>1, QueueSteps
  <2>3. CASE task.status \notin Ended
    <3>1. task' \in Tasks /\ task'.attempt = task.attempt /\ task'.status = "failed"
          /\ task.status # "completed"
      BY <1>1, <1>4, <1>7, <2>3 DEF CancelTask
    <3> QED
      BY <1>1, <2>1, <3>1, QueueSteps
  <2> QED
    BY <2>2, <2>3
<1>8. ASSUME NEW a \in Attempts, worker' = [worker EXCEPT ![a] = Idle]
      PROVE  /\ worker' \in [Attempts -> Previews]
             /\ \A b \in Attempts : worker'[b] = worker[b] \/ worker'[b] = Idle
  BY <1>1, <1>8, PreviewFacts
<1>9. ASSUME NEW a \in Attempts, Complete(a) PROVE PreviewInv'
  <2>1. /\ task.status = "running" /\ task.attempt = a
        /\ task' = [task EXCEPT !.status = "completed", !.leased = FALSE]
        /\ worker' = [worker EXCEPT ![a] = Idle]
        /\ closing' = closing \cup {[attempt |-> a, completed |-> TRUE]}
        /\ UNCHANGED <<source, head, frames>>
    BY <1>9 DEF Complete, Owns
  <2>2. task' \in Tasks /\ task'.attempt = a /\ task'.status = "completed"
    BY <1>1, <2>1 DEF Ended
  <2>3. closing' \subseteq Closes /\ \A c \in closing' : c \in closing \/ c.attempt = a
    <3> DEFINE call == [attempt |-> a, completed |-> TRUE]
    <3>1. call \in Closes /\ call.attempt = a /\ call.completed = TRUE
      OBVIOUS
    <3>2. closing' = closing \cup {call}
      BY <2>1
    <3> HIDE DEF call
    <3> QED
      BY <1>1, <3>1, <3>2
  <2>4. source' \in {"granted", "marked", "stopped", "purged"} /\ task'.attempt >= task.attempt
    BY <1>1, <2>1, <2>2
  <2> QED
    BY <1>1, <1>8, <2>1, <2>2, <2>3, <2>4, QueueSteps
<1>10. ASSUME NEW a \in Attempts, Fail(a) PROVE PreviewInv'
  <2>1. worker' = [worker EXCEPT ![a] = Idle] /\ UNCHANGED <<source, head, frames>>
    BY <1>10 DEF Fail
  <2>2. CASE Owns(a)
    <3>1. PICK st \in {"pending", "failed"} : task' = [task EXCEPT !.status = st, !.leased = FALSE]
      BY <1>10, <2>2 DEF Fail
    <3>2. /\ task.status = "running" /\ task.attempt = a
          /\ closing' = closing \cup {[attempt |-> a, completed |-> FALSE]}
      BY <1>10, <2>2 DEF Fail, Owns
    <3>3. task' \in Tasks /\ task'.attempt = a /\ task'.status \in {"pending", "failed"}
      BY <1>1, <3>1, <3>2 DEF Ended
    <3>4. closing' \subseteq Closes
          /\ \A c \in closing' : c \in closing \/ (c.attempt = a /\ ~c.completed)
      <4> DEFINE call == [attempt |-> a, completed |-> FALSE]
      <4>1. call \in Closes /\ call.attempt = a /\ call.completed = FALSE
        OBVIOUS
      <4>2. closing' = closing \cup {call}
        BY <3>2
      <4> HIDE DEF call
      <4> QED
        BY <1>1, <4>1, <4>2
    <3>5. source' \in {"granted", "marked", "stopped", "purged"} /\ task'.attempt >= task.attempt
      BY <1>1, <2>1, <3>2, <3>3
    <3> QED
      BY <1>1, <1>8, <2>1, <3>2, <3>3, <3>4, <3>5, QueueSteps
  <2>3. CASE ~Owns(a)
    <3>1. UNCHANGED <<task, closing>>
      BY <1>10, <2>3 DEF Fail
    <3> QED
      BY <1>1, <1>8, <2>1, <3>1, QueueSteps
  <2> QED
    BY <2>2, <2>3
<1>11. ASSUME NEW a \in Attempts, Crash(a) PROVE PreviewInv'
  <2>1. worker' = [worker EXCEPT ![a] = Idle] /\ UNCHANGED <<task, source, closing, head, frames>>
    BY <1>11 DEF Crash
  <2> QED
    BY <1>1, <1>8, <2>1, QueueSteps
<1> QED
  BY <1>2, <1>3, <1>5, <1>6, <1>7, <1>9, <1>10, <1>11

LEMMA CloseSteps ==
    ASSUME PreviewInv, NEW c \in closing, CloseContent(c)
    PROVE  PreviewInv'
<1> DEFINE k == IF c.completed THEN "finalized" ELSE "unavailable"
<1>1. /\ UNCHANGED <<task, source, worker>> /\ closing' \subseteq closing
      /\ c \in [attempt : Attempts, completed : BOOLEAN]
      /\ closing \subseteq [attempt : Attempts, completed : BOOLEAN]
  BY DEF CloseContent, PreviewInv, StoreTypeOK
<1>2. ClosesAreLate'
  BY <1>1 DEF PreviewInv, ClosesAreLate
<1>3. \A a \in Attempts : a > task.attempt => worker[a] = Idle
  BY DEF PreviewInv, WritersAreInStep
<1>4. CASE UNCHANGED <<head, frames>>
  <2>1. StoreTypeOK' /\ StoredIsOneDraft' /\ HeadIsAhead'
    BY <1>1, <1>4 DEF PreviewInv, StoreTypeOK, StoredIsOneDraft, HeadIsAhead
  <2>2. WritersAreInStep'
    BY <1>1, <1>4 DEF PreviewInv, WritersAreInStep, Writes, InStep
  <2> QED
    BY <1>2, <2>1, <2>2 DEF PreviewInv
<1>5. CASE task.attempt = c.attempt /\ head.status = "active" /\ head.attempt = c.attempt
           /\ WriteFrame(head, frames, k, 0)
  <2>1. /\ c.attempt \in Attempts /\ task.status # "running"
        /\ c.completed => task.status = "completed"
    BY <1>1, <1>5 DEF PreviewInv, ClosesAreLate
  <2>2. /\ head.revision \in 1..MaxRevision /\ head.attempt \in Attempts
    <3>1. PICK f \in frames : f.seq = head.seq
      BY <1>5 DEF PreviewInv, StoredIsOneDraft
    <3>2. f \in StoredFrames /\ f.revision = head.revision
      BY <3>1, PreviewFacts DEF PreviewInv, StoredIsOneDraft
    <3> QED
      BY <1>5, <2>1, <3>2 DEF StoredFrames
  <2>3. k \in {"finalized", "unavailable"} /\ (k = "finalized" <=> c.completed)
    BY <1>1
  <2> HIDE DEF k
  <2>4. /\ head' \in Heads /\ Draft(head', frames')
        /\ head'.attempt = head.attempt
        /\ head'.status = (IF k \in {"unavailable", "finalized"} THEN k ELSE "active")
        /\ \E f \in frames' : f.seq = head'.seq
        /\ \A f \in frames' : f \in frames \/ (f.kind = k /\ f.attempt = head.attempt)
    BY <1>5, <2>2, <2>3, PreviewFacts, WriteKeepsDraft
  <2>5. \A f \in frames' : f.kind = "finalized" =>
          task.status = "completed" /\ f.attempt = task.attempt
    BY <1>5, <2>1, <2>3, <2>4 DEF PreviewInv, StoredIsOneDraft
  <2>6. head'.attempt <= task.attempt /\ head'.status \notin {"none", "active"}
    BY <1>5, <2>3, <2>4, PreviewFacts
  <2>7. frames' \subseteq StoredFrames /\ StoredIsOneDraft' /\ HeadIsAhead'
    BY <1>1, <2>4, <2>5, <2>6, DraftIsStored
  <2>8. StoreTypeOK'
    BY <1>1, <2>4, <2>7 DEF PreviewInv, StoreTypeOK
  <2>9. WritersAreInStep'
    BY <1>1, <1>3, <2>1 DEF WritersAreInStep, Writes
  <2> QED
    BY <1>2, <2>7, <2>8, <2>9 DEF PreviewInv
<1> QED
  BY <1>4, <1>5 DEF CloseContent

\* A purge, or the hour after which an old preview is removed.
LEMMA HeadSteps ==
    ASSUME PreviewInv, PurgeClose \/ PurgeOld \/ Age \/ PurgeRevoked
    PROVE  PreviewInv'
<1>1. /\ UNCHANGED <<task, worker, closing>> /\ source' \in {source, "purged"}
      /\ source' = "granted" => source = "granted"
  BY DEF PurgeClose, PurgeOld, Age, PurgeRevoked, queueVars
<1>2. ClosesAreLate' /\ \A a \in Attempts : a > task.attempt => worker[a] = Idle
  BY <1>1 DEF PreviewInv, ClosesAreLate, WritersAreInStep
<1>3. ASSUME head' \in Heads, frames' \subseteq StoredFrames
      PROVE  StoreTypeOK'
  BY <1>1, <1>3 DEF PreviewInv, StoreTypeOK
<1>4. CASE head' = NoHead /\ frames' = {} /\ (head.status = "active" => source' # "granted")
  <2>1. NoHead \in Heads /\ NoHead.attempt = 0 /\ NoHead.status = "none"
    <3>1. 0 \in 0..MaxTries /\ 0 \in 0..MaxRevision
      BY PreviewFacts, PreviewBounds
    <3> QED
      BY <3>1 DEF NoHead, Heads
  <2>2. StoredIsOneDraft' /\ StoreTypeOK'
    BY <1>3, <1>4, <2>1 DEF StoredIsOneDraft
  <2>3. HeadIsAhead'
    BY <1>1, <1>4, <2>1, PreviewFacts DEF HeadIsAhead
  <2>4. \A a \in Attempts : Writes(a)' => InStep(a)'
    <3> SUFFICES ASSUME NEW a \in Attempts, Writes(a)' PROVE worker'[a].piece = 0
      BY <1>4, <2>1 DEF InStep
    <3>1. Writes(a)
      BY <1>1 DEF Writes
    <3>2. InStep(a) /\ head.status # "active"
      BY <1>4, <3>1 DEF PreviewInv, WritersAreInStep, Writes
    <3> QED
      BY <1>1, <3>2 DEF InStep
  <2> QED
    BY <1>1, <1>2, <2>2, <2>3, <2>4 DEF PreviewInv, WritersAreInStep
<1>5. CASE PurgeOld
  BY <1>4, <1>5 DEF PurgeOld, PreviewInv, HeadIsAhead
<1>6. CASE PurgeRevoked
  BY <1>4, <1>6 DEF PurgeRevoked, AnyPreview
<1>7. ASSUME NEW st \in {head.status, "unavailable"}, NEW ag \in {"closed", "old"},
             head' = [head EXCEPT !.status = st, !.age = ag], frames' = frames,
             head.status # "none", st # "active", Abandoned \/ head.status # "active"
      PROVE  PreviewInv'
  <2>1. st \in {"none", "active", "finalized", "unavailable"} /\ st # "none"
        /\ ag \in {"open", "closed", "old"}
    BY <1>7, PreviewFacts DEF Heads
  <2>2. head' \in Heads
    BY <1>7, <2>1, PreviewFacts DEF Heads
  <2>3. /\ head'.attempt = head.attempt /\ head'.revision = head.revision /\ head'.seq = head.seq
        /\ head'.status = st
    BY <1>7, PreviewFacts DEF Heads
  <2>4. StoredIsOneDraft'
    BY <1>1, <1>7, <2>3 DEF PreviewInv, StoredIsOneDraft
  <2>5. StoreTypeOK'
    BY <1>3, <1>7, <2>2, PreviewFacts
  <2>6. HeadIsAhead'
    BY <1>1, <1>7, <2>1, <2>3 DEF PreviewInv, HeadIsAhead
  <2>7. \A a \in Attempts : Writes(a)' => InStep(a)'
    <3> SUFFICES ASSUME NEW a \in Attempts, Writes(a)' PROVE InStep(a)'
      OBVIOUS
    <3>1. Writes(a)
      BY <1>1 DEF Writes
    <3>2. InStep(a)
      BY <3>1 DEF PreviewInv, WritersAreInStep
    <3>3. ~(head.status = "active" /\ head.attempt = a)
      BY <1>7, <3>1 DEF Abandoned, Writes, Ended
    <3> QED
      BY <1>1, <1>7, <2>3, <3>2, <3>3 DEF InStep
  <2> QED
    BY <1>1, <1>2, <2>4, <2>5, <2>6, <2>7 DEF PreviewInv, WritersAreInStep
<1>8. CASE PurgeClose
  <2>1. /\ head' = [head EXCEPT !.status = "unavailable", !.age = "closed"] /\ frames' = frames
        /\ head.status # "none" /\ Abandoned
    BY <1>8 DEF PurgeClose
  <2> QED
    BY <1>7, <2>1
<1>9. CASE Age
  <2>1. /\ head' = [head EXCEPT !.age = "old"] /\ frames' = frames
        /\ head.status # "none" /\ head.age = "closed"
    BY <1>9 DEF Age
  <2>2. head.status # "active"
    BY <2>1 DEF PreviewInv, HeadIsAhead
  <2>3. head' = [head EXCEPT !.status = head.status, !.age = "old"]
    BY <2>1, PreviewFacts DEF Heads
  <2> QED
    BY <1>7, <2>1, <2>2, <2>3
<1> QED
  BY <1>5, <1>6, <1>8, <1>9

LEMMA PreviewStarts ==
    PreviewInit => PreviewInv
<1> SUFFICES ASSUME PreviewInit PROVE PreviewInv
  OBVIOUS
<1>1. /\ task = [status |-> "pending", attempt |-> 0, leased |-> FALSE] /\ source = "granted"
      /\ worker = [a \in Attempts |-> Idle] /\ closing = {} /\ head = NoHead /\ frames = {}
  BY DEF PreviewInit
<1>2. /\ 0 \in 0..MaxTries /\ 0 \in 0..MaxRevision /\ 1 \in 1..MaxRevision /\ 0 \in 0..MaxPieces
  <2>1. MaxTries \in Nat \ {0} /\ MaxText \in Nat /\ MaxText > MaxTries + 1
    BY PreviewBounds
  <2> QED
    BY <2>1 DEF MaxRevision, MaxPieces
<1>3. Idle \in Previews /\ Idle.phase = "off" /\ NoHead \in Heads
      /\ NoHead.attempt = 0 /\ NoHead.status = "none"
  BY <1>2 DEF Idle, Previews, NoHead, Heads
<1>4. StoreTypeOK
  BY <1>1, <1>2, <1>3 DEF StoreTypeOK
<1>5. StoredIsOneDraft /\ ClosesAreLate /\ HeadIsAhead
  BY <1>1, <1>3 DEF StoredIsOneDraft, ClosesAreLate, HeadIsAhead
<1>6. WritersAreInStep
  BY <1>1, <1>3 DEF WritersAreInStep, Writes
<1> QED
  BY <1>4, <1>5, <1>6 DEF PreviewInv

LEMMA PreviewStep ==
    ASSUME PreviewInv, [PreviewNext]_previewVars PROVE PreviewInv'
<1>1. CASE \/ TakeTask \/ LeaseExpires \/ EndTask \/ Mark \/ CancelTask
           \/ \E a \in Attempts : Complete(a) \/ Fail(a) \/ Crash(a)
  BY <1>1, TaskSteps
<1>2. ASSUME NEW a \in Attempts,
             SendPiece(a) \/ RaiseJob(a) \/ \E r \in 1..(MaxText - 1 - a) : ResetDraft(a, r)
      PROVE  PreviewInv'
  BY <1>2, ObjectSteps
<1>3. CASE \E c \in closing : CloseContent(c)
  BY <1>3, CloseSteps
<1>4. CASE PurgeClose \/ PurgeOld \/ Age \/ PurgeRevoked
  BY <1>4, HeadSteps
<1>5. CASE Stream \/ UNCHANGED previewVars
  <2>1. UNCHANGED <<task, source, worker, closing, head, frames>>
    BY <1>5 DEF Stream, StreamRow, StreamHead, StreamFrames, queueVars, previewVars
  <2> QED
    BY <2>1 DEF PreviewInv, StoreTypeOK, StoredIsOneDraft, WritersAreInStep, Writes, InStep,
                ClosesAreLate, HeadIsAhead
<1> QED
  BY <1>1, <1>2, <1>3, <1>4, <1>5 DEF PreviewNext

LEMMA PreviewInvariant == PreviewSpec => []PreviewInv
<1>1. PreviewInit => PreviewInv
  BY PreviewStarts
<1>2. PreviewInv /\ [PreviewNext]_previewVars => PreviewInv'
  BY PreviewStep
<1> QED
  BY <1>1, <1>2, PTL DEF PreviewSpec

\* The frames that are stored of a preview are one draft, in order and without a
\* hole, and final only for a task that is completed, whatever storage failures,
\* retries, late closes and purges there were (_write, append_content_frame,
\* close_content, purge_content).
THEOREM TheStoredPreviewIsOneDraft == PreviewSpec => []StoredIsOneDraft
<1>1. PreviewInv => StoredIsOneDraft
  BY DEF PreviewInv
<1> QED
  BY <1>1, PreviewInvariant, PTL

-----------------------------------------------------------------------------
(* ContentPreview: what a fold of frames computes.                         *)

\* A set of numbers has a least one.
LEMMA LeastNumber ==
    ASSUME NEW N \in SUBSET Nat, N # {}
    PROVE  \E n \in N : \A k \in N : n <= k
<1>1. PICK n \in N : \A k \in N : <<k, n>> \notin OpToRel(<, Nat)
  BY WFMin, NatLessThanWellFounded, Zenon
<1>2. \A k \in N : n \in Nat /\ k \in Nat /\ ~(k < n)
  BY <1>1, Zenon DEF OpToRel
<1> QED
  BY <1>2

\* A place in a text: draft and number.
LEMMA PlaceInText ==
    ASSUME NEW a \in Nat, NEW r \in Nat, NEW i \in Nat
    PROVE  <<a, r>> \o <<i>> = <<a, r, i>>
<1> DEFINE s == <<a, r>>
           t == <<i>>
           u == <<a, r, i>>
<1>1. s \in Seq(Nat) /\ t \in Seq(Nat) /\ u \in Seq(Nat) /\ Len(s) = 2 /\ Len(t) = 1 /\ Len(u) = 3
      /\ s[1] = a /\ s[2] = r /\ t[1] = i /\ u[1] = a /\ u[2] = r /\ u[3] = i
  OBVIOUS
<1> HIDE DEF s, t, u
<1>2. /\ s \o t \in Seq(Nat) /\ Len(s \o t) = 3
      /\ \A k \in 1..3 : (s \o t)[k] = IF k <= 2 THEN s[k] ELSE t[k - 2]
  <2>1. /\ s \o t \in Seq(Nat) /\ Len(s \o t) = Len(s) + Len(t)
        /\ \A k \in 1..Len(s) + Len(t) : (s \o t)[k] = IF k <= Len(s) THEN s[k] ELSE t[k - Len(s)]
    BY <1>1, ConcatProperties
  <2> QED
    BY <1>1, <2>1
<1>3. \A k \in 1..3 : (s \o t)[k] = u[k]
  BY <1>1, <1>2
<1>4. s \o t = u
  BY <1>1, <1>2, <1>3, SeqEqual
<1> QED
  BY <1>4 DEF s, t, u

LEMMA LastIsMax ==
    ASSUME NEW n \in Nat, n # 0
    PROVE  Max(1..n) = n /\ (1..n) \ {n} = 1..(n - 1)
<1>1. n \in 1..n /\ \A y \in 1..n : n >= y
  OBVIOUS
<1>2. \A x \in 1..n : (\A y \in 1..n : x >= y) => x = n
  OBVIOUS
<1>3. Max(1..n) = n
  BY <1>1, <1>2 DEF Max
<1> QED
  BY <1>3

LEMMA MaxOfPart ==
    ASSUME NEW n \in Nat, NEW t \in SUBSET (1..n), t # {}
    PROVE  Max(t) \in t
<1> DEFINE below == {n - x : x \in t}
<1>1. below \in SUBSET Nat /\ below # {}
  <2>1. \A x \in t : n - x \in Nat
    OBVIOUS
  <2> QED
    BY <2>1
<1>2. PICK m \in below : \A k \in below : m <= k
  <2> HIDE DEF below
  <2> QED
    BY <1>1, LeastNumber
<1>3. PICK x \in t : m = n - x
  BY <1>2
<1>4. ASSUME NEW y \in t PROVE x >= y
  <2>1. n - y \in below
    OBVIOUS
  <2>2. n - x <= n - y /\ x \in Int /\ y \in Int
    BY <1>2, <1>3, <2>1
  <2> QED
    BY <2>2
<1> QED
  BY <1>4 DEF Max

\* The equation of a fold of Apply over the frames of s, from the page p.
ReadsUp(h, p, s, n) ==
    h = [t \in SUBSET (1..n) |->
            IF t = {} THEN p ELSE Apply(h[t \ {Max(t)}], s[Max(t)])]

LEMMA ReadingsExist ==
    ASSUME NEW p, NEW s, NEW n \in Nat
    PROVE  \E h : ReadsUp(h, p, s, n)
<1> DEFINE S == 1..n
           Applied(h, t) == IF t = {} THEN p ELSE Apply(h[t \ {Max(t)}], s[Max(t)])
           Upto(h, m) == \A t \in SUBSET S : Cardinality(t) <= m => h[t] = Applied(h, t)
           Bad == {m \in Nat : ~\E h : Upto(h, m)}
<1>0. /\ IsFiniteSet(S) /\ Cardinality(S) \in Nat
      /\ \A t \in SUBSET S : IsFiniteSet(t) /\ Cardinality(t) \in Nat /\ Cardinality(t) <= Cardinality(S)
  <2>1. IsFiniteSet(S)
    BY FS_Interval
  <2> HIDE DEF S
  <2> QED
    BY <2>1, FS_Subset, FS_CardinalityType
<1>1. \A t \in SUBSET S : t # {} =>
         /\ t \ {Max(t)} \in SUBSET S
         /\ Cardinality(t \ {Max(t)}) = Cardinality(t) - 1
  <2> SUFFICES ASSUME NEW t \in SUBSET S, t # {}
               PROVE  t \ {Max(t)} \in SUBSET S /\ Cardinality(t \ {Max(t)}) = Cardinality(t) - 1
    OBVIOUS
  <2>1. Max(t) \in t
    BY MaxOfPart
  <2> QED
    BY <1>0, <2>1, FS_RemoveElement
<1>2. Bad = {}
  <2> SUFFICES ASSUME Bad # {} PROVE FALSE
    OBVIOUS
  <2>1. PICK m \in Bad : \A k \in Bad : m <= k
    BY LeastNumber
  <2>2. CASE m = 0
    <3> DEFINE z == [t \in SUBSET S |-> p]
    <3>1. \A t \in SUBSET S : Cardinality(t) <= 0 => t = {}
      BY <1>0, FS_EmptySet
    <3>2. Upto(z, 0)
      BY <3>1
    <3> QED
      BY <2>1, <2>2, <3>2
  <2>3. CASE m # 0
    <3> HIDE DEF Bad
    <3>1. m \in Nat
      BY DEF Bad
    <3>2. m - 1 \in Nat /\ ~(m <= m - 1)
      BY <2>3, <3>1
    <3>3. m - 1 \notin Bad
      BY <2>1, <3>2
    <3>4. PICK h : Upto(h, m - 1)
      BY <3>2, <3>3 DEF Bad
    <3> DEFINE g == [t \in SUBSET S |-> Applied(h, t)]
    <3>6. ASSUME NEW t \in SUBSET S, Cardinality(t) <= m PROVE g[t] = Applied(g, t)
      <4>1. CASE t = {}
        BY <4>1
      <4>2. CASE t # {}
        <5>1. t \ {Max(t)} \in SUBSET S /\ Cardinality(t \ {Max(t)}) <= m - 1
          <6>1. Cardinality(t) \in Nat /\ t \ {Max(t)} \in SUBSET S
                /\ Cardinality(t \ {Max(t)}) = Cardinality(t) - 1
            BY <1>0, <1>1, <4>2
          <6> QED
            BY <3>1, <3>6, <6>1
        <5>2. g[t \ {Max(t)}] = h[t \ {Max(t)}]
          BY <3>4, <5>1
        <5> QED
          BY <4>2, <5>2
      <4> QED
        BY <4>1, <4>2
    <3>7. Upto(g, m)
      BY <3>6
    <3> QED
      BY <3>7 DEF Bad
  <2> QED
    BY <2>2, <2>3
<1>3. PICK h : Upto(h, Cardinality(S))
  BY <1>0, <1>2
<1> DEFINE g == [t \in SUBSET S |-> Applied(h, t)]
<1>5. \A t \in SUBSET S : h[t] = Applied(h, t)
  BY <1>0, <1>3
<1>6. \A t \in SUBSET S : g[t] = Applied(g, t)
  <2> SUFFICES ASSUME NEW t \in SUBSET S PROVE g[t] = Applied(g, t)
    OBVIOUS
  <2>1. CASE t = {}
    BY <2>1
  <2>2. CASE t # {}
    <3>1. t \ {Max(t)} \in SUBSET S
      BY <1>1, <2>2
    <3>2. g[t \ {Max(t)}] = h[t \ {Max(t)}]
      BY <1>5, <3>1
    <3> QED
      BY <2>2, <3>2
  <2> QED
    BY <2>1, <2>2
<1>7. g = [t \in SUBSET S |-> Applied(g, t)]
  <2> HIDE DEF Applied
  <2> QED
    BY <1>6
<1> QED
  BY <1>7 DEF ReadsUp

\* What a page p shows after the frames s.
ShownOf(p, s) == FoldLeft(Apply, p, s)

\* Its readings, one after another.
Along(shows, p, s, n) ==
    shows[0] = p /\ \A i \in 1..n : shows[i] = Apply(shows[i - 1], s[i])

\* What a page shows of some frames is what it shows after one and another.
LEMMA PageReads ==
    ASSUME NEW p, NEW s, NEW n \in Nat, DOMAIN s = 1..n
    PROVE  \E shows : Along(shows, p, s, n) /\ ShownOf(p, s) = shows[n]
<1> DEFINE h == CHOOSE h : ReadsUp(h, p, s, n)
           shows == [i \in 0..n |-> h[1..i]]
<1>1. ReadsUp(h, p, s, n)
  BY ReadingsExist, Zenon
<1>2. ShownOf(p, s) = h[1..n]
  <2>1. ShownOf(p, s) = (CHOOSE g : ReadsUp(g, p, s, n))[DOMAIN s]
    BY Zenon DEF ShownOf, FoldLeft, MapThenFoldSet, ReadsUp
  <2> QED
    BY <2>1
<1> HIDE DEF h
<1>3. h[1..0] = p
  BY <1>1 DEF ReadsUp
<1>4. \A i \in 1..n : h[1..i] = Apply(h[1..(i - 1)], s[i])
  <2> SUFFICES ASSUME NEW i \in 1..n PROVE h[1..i] = Apply(h[1..(i - 1)], s[i])
    OBVIOUS
  <2>1. Max(1..i) = i /\ (1..i) \ {i} = 1..(i - 1) /\ 1..i \in SUBSET (1..n) /\ 1..i # {}
    BY LastIsMax
  <2>2. h[1..i] = Apply(h[(1..i) \ {Max(1..i)}], s[Max(1..i)])
    BY <1>1, <2>1 DEF ReadsUp
  <2> QED
    BY <2>1, <2>2
<1>5. shows[0] = p /\ (\A i \in 1..n : shows[i] = Apply(shows[i - 1], s[i])) /\ ShownOf(p, s) = shows[n]
  BY <1>2, <1>3, <1>4
<1> QED
  BY <1>5 DEF Along

-----------------------------------------------------------------------------
(* ContentPreview: the page.                                               *)

Drafts == (0..MaxTries) \X (0..MaxRevision)

Shown == [draft : (0..MaxTries) \X (0..MaxRevision), seq : Nat, text : Seq(Nat \X Nat \X Nat),
          status : {"waiting", "streaming"} \cup Terminal, cursor : Cursors, failures : 0..2,
          done : BOOLEAN]
Streams == [at : {"row", "head", "frames"}, status : {"open"} \cup Ended, attempt : 0..MaxTries,
            draft : (0..MaxTries) \X (0..MaxRevision), high : Nat, last : Cursors]

\* The text of a page is the beginning of the draft it shows.
Reads(p) == p \in Shown /\ \A i \in DOMAIN p.text : p.text[i] = p.draft \o <<i>>

\* What a page and its stream have been told of the end of the task is so.
EndIsTrue ==
    /\ screen.status = "finalized" => task.status = "completed"
    /\ conn.status \in Ended => task.status = conn.status

\* Every frame has a number of its own, and a draft begins with no text.
FramesAreKeyed ==
    /\ \A f, g \in frames : f.seq = g.seq => f = g
    /\ \A f \in frames : f.seq > 0 /\ (f.kind = "reset" => f.piece = 0)
    /\ head.status = "none" => head.attempt = 0

\* A draft that is not later than another.
NotAfter(d, e) == d[1] < e[1] \/ (d[1] = e[1] /\ d[2] <= e[2])

\* A draft that a stream knows of is not later than the stored one, and earlier
\* than the next one.
Known(d) ==
    /\ d[1] <= task.attempt
    /\ head.status # "none" => NotAfter(d, <<head.attempt, head.revision>>)
    /\ head.status = "none" => \A a \in Attempts : Writes(a) => d[1] < a

\* The text of a page is that of the frames of its draft up to its place.
TextIsStored ==
    head.status # "none" /\ screen.draft = <<head.attempt, head.revision>> =>
        /\ screen.seq <= head.seq
        /\ \A f \in frames : f.seq = screen.seq =>
             f.kind \in {"delta", "reset"} /\ f.piece = Len(screen.text)

\* The stream of a page that goes on continues where the page is, and has not
\* found a draft that is earlier than what the page shows.
PageFollows ==
    /\ conn.last = screen.cursor /\ screen.cursor = screen.draft \o <<screen.seq>>
    /\ screen.seq = 0 => screen.text = <<>>
    /\ Known(screen.draft)
    /\ conn.at = "frames" /\ conn.draft[1] # 0 =>
         /\ Known(conn.draft) /\ NotAfter(screen.draft, conn.draft)
         /\ conn.draft = screen.draft => screen.seq <= conn.high
    /\ TextIsStored

PageInv ==
    /\ Reads(screen) /\ conn \in Streams
    /\ conn.at # "frames" => conn.draft = <<0, 0>>
    /\ EndIsTrue /\ FramesAreKeyed
    /\ ~screen.done => PageFollows

\* Drafts are ordered.
LEMMA DraftsAreOrdered ==
    ASSUME NEW d \in (0..MaxTries) \X (0..MaxRevision)
    PROVE  /\ d[1] \in 0..MaxTries /\ d[2] \in 0..MaxRevision /\ d[1] \in Nat /\ d[2] \in Nat
           /\ d = <<d[1], d[2]>>
           /\ \A i \in Nat : d \o <<i>> = <<d[1], d[2], i>> /\ (d \o <<i>>)[3] = i
           /\ \A i \in Nat : d \o <<i>> \in Cursors
<1>1. /\ d[1] \in 0..MaxTries /\ d[2] \in 0..MaxRevision /\ d[1] \in Nat /\ d[2] \in Nat
      /\ d = <<d[1], d[2]>>
  OBVIOUS
<1>2. ASSUME NEW i \in Nat
      PROVE  d \o <<i>> = <<d[1], d[2], i>> /\ (d \o <<i>>)[3] = i /\ d \o <<i>> \in Cursors
  <2>1. d \o <<i>> = <<d[1], d[2], i>>
    BY <1>1, PlaceInText
  <2>2. <<d[1], d[2], i>>[3] = i
    OBVIOUS
  <2>3. <<d[1], d[2], i>> \in Cursors
    BY <1>1 DEF Cursors
  <2> QED
    BY <2>1, <2>2, <2>3
<1> QED
  BY <1>1, <1>2

-----------------------------------------------------------------------------
(* ContentPreview: a page reads frames.                                    *)

Kinds == {"delta", "reset", "snapshot"} \cup Terminal
Sent == [attempt : 0..MaxTries, revision : 0..MaxRevision, seq : Nat, kind : Kinds,
         piece : 0..MaxPieces]
DraftOf(f) == <<f.attempt, f.revision>>

\* A frame that goes on: it begins a later draft, or is a later one of the draft
\* and has the next piece.
GoesOn(draft, seq, piece, f) ==
    \/ NotAfter(draft, DraftOf(f)) /\ draft # DraftOf(f) /\ f.kind \in {"snapshot", "reset"}
    \/ draft = DraftOf(f) /\ seq < f.seq /\ (f.kind = "delta" => f.piece = piece + 1)

\* Applying a frame of whatever draft leaves the beginning of one draft.
LEMMA ApplyEnding ==
    ASSUME NEW p, Reads(p), NEW f \in Sent, f.kind \in Terminal
    PROVE  LET q == Apply(p, f) IN
           /\ Reads(q) /\ q.cursor = p.cursor /\ q.failures = p.failures /\ q.done = p.done
           /\ q.status = "finalized" => p.status = "finalized" \/ f.kind = "finalized"
<1> DEFINE same == p.draft = <<f.attempt, f.revision>>
           text == IF same THEN p.text ELSE <<>>
           next == [p EXCEPT !.draft = <<f.attempt, f.revision>>, !.seq = f.seq]
           none == [next EXCEPT !.text = <<>>, !.status = f.kind]
           final == [next EXCEPT !.text = text, !.status = f.kind]
<1>1. /\ p \in Shown /\ \A i \in DOMAIN p.text : p.text[i] = p.draft \o <<i>>
      /\ <<f.attempt, f.revision>> \in (0..MaxTries) \X (0..MaxRevision) /\ f.seq \in Nat
      /\ p.text \in Seq(Nat \X Nat \X Nat)
  BY DEF Reads, Sent, Shown
<1>2. next \in Shown /\ next.draft = <<f.attempt, f.revision>> /\ next.text = p.text
      /\ next.cursor = p.cursor /\ next.failures = p.failures /\ next.done = p.done
      /\ next.status = p.status
  BY <1>1 DEF Shown
<1>3. <<>> \in Seq(Nat \X Nat \X Nat) /\ DOMAIN <<>> = {}
  OBVIOUS
<1>4. text \in Seq(Nat \X Nat \X Nat)
  BY <1>1, <1>3
<1>5. \A i \in DOMAIN text : text[i] = <<f.attempt, f.revision>> \o <<i>>
  BY <1>1, <1>3
<1> HIDE DEF next, text
<1>6. /\ none \in Shown /\ none.text = <<>> /\ none.status = f.kind
      /\ none.cursor = p.cursor /\ none.failures = p.failures /\ none.done = p.done
  BY <1>2, <1>3 DEF Shown
<1>7. /\ final \in Shown /\ final.text = text /\ final.draft = <<f.attempt, f.revision>>
      /\ final.status = f.kind
      /\ final.cursor = p.cursor /\ final.failures = p.failures /\ final.done = p.done
  BY <1>2, <1>4 DEF Shown
<1>8. Reads(none) /\ Reads(final)
  BY <1>3, <1>5, <1>6, <1>7 DEF Reads
<1>9. Apply(p, f) \in {p, none, final}
  BY DEF Apply, Terminal, next, text
<1> QED
  BY <1>6, <1>7, <1>8, <1>9

LEMMA ApplyNext ==
    ASSUME NEW p, Reads(p), NEW f \in Sent, f.kind \notin Terminal,
           GoesOn(p.draft, p.seq, Len(p.text), f), f.kind # "delta" => f.piece = 0
    PROVE  LET q == Apply(p, f) IN
           /\ Reads(q) /\ q.cursor = p.cursor /\ q.failures = p.failures /\ q.done = p.done
           /\ q.status # "finalized"
           /\ q.draft = DraftOf(f) /\ q.seq = f.seq /\ Len(q.text) = f.piece
<1> DEFINE d == <<f.attempt, f.revision>>
           next == [p EXCEPT !.draft = d, !.seq = f.seq]
           word == <<f.attempt, f.revision, f.piece>>
           more == [next EXCEPT !.text = Append(p.text, word), !.status = "streaming"]
           none == [next EXCEPT !.text = <<>>, !.status = "waiting"]
<1>1. /\ p \in Shown /\ \A i \in DOMAIN p.text : p.text[i] = p.draft \o <<i>>
      /\ d \in (0..MaxTries) \X (0..MaxRevision) /\ d[1] = f.attempt /\ d[2] = f.revision
      /\ f.seq \in Nat /\ f.attempt \in Nat /\ f.revision \in Nat
      /\ p.text \in Seq(Nat \X Nat \X Nat) /\ f.piece \in Nat /\ DraftOf(f) = d
      /\ p.draft[1] \in Nat /\ p.draft[2] \in Nat /\ p.seq \in Nat /\ p.draft = <<p.draft[1], p.draft[2]>>
  <2>1. /\ p \in Shown /\ \A i \in DOMAIN p.text : p.text[i] = p.draft \o <<i>>
        /\ p.draft \in (0..MaxTries) \X (0..MaxRevision) /\ p.seq \in Nat
        /\ p.text \in Seq(Nat \X Nat \X Nat)
    BY DEF Reads, Shown
  <2>2. /\ f.attempt \in 0..MaxTries /\ f.revision \in 0..MaxRevision /\ f.seq \in Nat
        /\ f.piece \in Nat /\ DraftOf(f) = d
    BY DEF Sent, DraftOf
  <2>3. /\ p.draft[1] \in Nat /\ p.draft[2] \in Nat /\ p.draft = <<p.draft[1], p.draft[2]>>
    BY <2>1, DraftsAreOrdered
  <2>4. /\ d \in (0..MaxTries) \X (0..MaxRevision) /\ d[1] = f.attempt /\ d[2] = f.revision
        /\ f.attempt \in Nat /\ f.revision \in Nat
    BY <2>2
  <2> HIDE DEF d
  <2> QED
    BY <2>1, <2>2, <2>3, <2>4
<1>2. next \in Shown /\ next.draft = d /\ next.seq = f.seq
      /\ next.cursor = p.cursor /\ next.failures = p.failures /\ next.done = p.done
  BY <1>1 DEF Shown
<1>3. <<>> \in Seq(Nat \X Nat \X Nat) /\ DOMAIN <<>> = {} /\ Len(<<>>) = 0
  OBVIOUS
<1> HIDE DEF next
<1>4. /\ none \in Shown /\ none.text = <<>> /\ none.status = "waiting" /\ none.draft = d
      /\ none.seq = f.seq
      /\ none.cursor = p.cursor /\ none.failures = p.failures /\ none.done = p.done
  BY <1>2, <1>3 DEF Shown
<1>5. CASE f.kind # "delta"
  <2>1. Apply(p, f) = none
    <3>1. ~(f.attempt < p.draft[1]) /\ ~(f.attempt = p.draft[1] /\ f.revision < p.draft[2])
      BY <1>1 DEF GoesOn, NotAfter
    <3>2. p.draft = d => ~(f.seq < p.seq)
      BY <1>1 DEF GoesOn
    <3>3. f.kind \in {"reset", "snapshot"}
      BY <1>5 DEF Sent, Kinds
    <3> QED
      BY <3>1, <3>2, <3>3 DEF Apply, next
  <2>2. Reads(none)
    BY <1>3, <1>4 DEF Reads
  <2> QED
    BY <1>1, <1>3, <1>4, <1>5, <2>1, <2>2
<1>6. CASE f.kind = "delta"
  <2>1. p.draft = d /\ p.seq < f.seq /\ f.piece = Len(p.text) + 1
    BY <1>1, <1>6 DEF GoesOn
  <2>2. Apply(p, f) = more
    BY <1>1, <1>6, <2>1 DEF Apply, next
  <2>3. word \in Nat \X Nat \X Nat
    BY <1>1
  <2> HIDE DEF word
  <2>4. /\ Append(p.text, word) \in Seq(Nat \X Nat \X Nat)
        /\ Len(Append(p.text, word)) = Len(p.text) + 1
        /\ \A i \in 1..Len(p.text) : Append(p.text, word)[i] = p.text[i]
        /\ Append(p.text, word)[Len(p.text) + 1] = word
        /\ Len(p.text) \in Nat
        /\ DOMAIN Append(p.text, word) = 1..(Len(p.text) + 1) /\ DOMAIN p.text = 1..Len(p.text)
    <3>1. p.text \in Seq(Nat \X Nat \X Nat)
      BY <1>1
    <3> QED
      BY <2>3, <3>1, AppendProperties
  <2>5. /\ more \in Shown /\ more.text = Append(p.text, word) /\ more.status = "streaming"
        /\ more.draft = d /\ more.seq = f.seq
        /\ more.cursor = p.cursor /\ more.failures = p.failures /\ more.done = p.done
    BY <1>2, <2>4 DEF Shown
  <2>6. word = d \o <<Len(p.text) + 1>>
    BY <1>1, <2>1, PlaceInText DEF word
  <2>7. ASSUME NEW i \in DOMAIN more.text PROVE more.text[i] = more.draft \o <<i>>
    <3>1. CASE i = Len(p.text) + 1
      BY <2>4, <2>5, <2>6, <3>1
    <3>2. CASE i # Len(p.text) + 1
      <4>1. i \in 1..Len(p.text)
        BY <2>4, <2>5, <3>2
      <4> QED
        BY <1>1, <2>1, <2>4, <2>5, <4>1
    <3> QED
      BY <3>1, <3>2
  <2>8. Reads(more)
    BY <2>5, <2>7 DEF Reads
  <2> QED
    BY <1>1, <2>1, <2>2, <2>4, <2>5, <2>8
<1> QED
  BY <1>5, <1>6

-----------------------------------------------------------------------------
(* ContentPreview: what read_content finds.                                *)

\* Frames with the numbers of an interval, one each.
OneEach(X, lo, hi) ==
    /\ lo <= hi + 1
    /\ \A f \in X : f.seq \in lo..hi
    /\ \A f, g \in X : f.seq = g.seq => f = g
    /\ \A n \in lo..hi : \E f \in X : f.seq = n

LEMMA FramesOfInterval ==
    ASSUME NEW X, NEW lo \in Int, NEW hi \in Int, OneEach(X, lo, hi)
    PROVE  IsFiniteSet(X) /\ Cardinality(X) = hi - lo + 1
<1> DEFINE F == [n \in lo..hi |-> CHOOSE f \in X : f.seq = n]
<1>1. \A n \in lo..hi : F[n] \in X /\ F[n].seq = n
  <2> SUFFICES ASSUME NEW n \in lo..hi PROVE F[n] \in X /\ F[n].seq = n
    OBVIOUS
  <2>1. PICK f \in X : f.seq = n
    BY DEF OneEach
  <2> QED
    BY <2>1
<1>2. F \in [lo..hi -> X]
  BY <1>1
<1> HIDE DEF F
<1>3. F \in Injection(lo..hi, X)
  BY <1>1, <1>2 DEF Injection, IsInjective
<1>4. F \in Surjection(lo..hi, X)
  BY <1>1, <1>2 DEF Surjection, OneEach
<1>5. ExistsBijection(lo..hi, X)
  BY <1>3, <1>4 DEF ExistsBijection, Bijection
<1>6. IsFiniteSet(lo..hi) /\ Cardinality(lo..hi) = IF lo > hi THEN 0 ELSE hi - lo + 1
  BY FS_Interval
<1>7. IsFiniteSet(X) /\ Cardinality(X) = Cardinality(lo..hi)
  BY <1>5, <1>6, FS_Bijection
<1> QED
  BY <1>6, <1>7 DEF OneEach

\* Of those, the ones before one of them.
LEMMA FramesBefore ==
    ASSUME NEW X, NEW lo \in Int, NEW hi \in Int, OneEach(X, lo, hi),
           NEW f \in X
    PROVE  Cardinality({g \in X : g.seq < f.seq}) = f.seq - lo
<1> DEFINE part == {g \in X : g.seq < f.seq}
           top == f.seq - 1
<1>1. top \in Int /\ lo <= top + 1 /\ f.seq = top + 1 /\ f.seq \in Int /\ f.seq <= hi
  BY DEF OneEach
<1>2. \A g \in part : g \in X /\ g.seq \in lo..top
  BY DEF OneEach
<1>3. \A n \in lo..top : \E g \in part : g.seq = n
  <2> SUFFICES ASSUME NEW n \in lo..top PROVE \E g \in part : g.seq = n
    OBVIOUS
  <2>1. n \in lo..hi /\ n < f.seq
    BY <1>1
  <2> QED
    BY <2>1 DEF OneEach
<1>4. \A g, h \in part : g.seq = h.seq => g = h
  BY DEF OneEach
<1> HIDE DEF part, top
<1>5. OneEach(part, lo, top)
  BY <1>1, <1>2, <1>3, <1>4 DEF OneEach
<1>7. Cardinality(part) = top - lo + 1
  BY <1>1, <1>5, FramesOfInterval
<1>6. Cardinality(part) = f.seq - lo
  BY <1>1, <1>7
<1> QED
  BY <1>6 DEF part

LEMMA LesserOfTwo ==
    ASSUME NEW m \in Nat, NEW n \in Nat
    PROVE  Min({m, n}) \in Nat /\ Min({m, n}) <= m /\ Min({m, n}) <= n /\ Min({m, n}) \in {m, n}
<1>1. \E x \in {m, n} : \A y \in {m, n} : x <= y
  OBVIOUS
<1>2. Min({m, n}) \in {m, n} /\ \A y \in {m, n} : Min({m, n}) <= y
  BY <1>1 DEF Min
<1> QED
  BY <1>2

\* Frames one after another, so many of them.
InOrder(X, k) ==
    LET before(f) == {g \in X : g.seq < f.seq}
    IN  [i \in 1..k |-> CHOOSE f \in X : Cardinality(before(f)) = i - 1]

LEMMA FramesInOrder ==
    ASSUME NEW X, NEW lo \in Int, NEW hi \in Int, OneEach(X, lo, hi),
           NEW k \in Nat, k <= Cardinality(X)
    PROVE  LET s == InOrder(X, k) IN
           s \in Seq(X) /\ Len(s) = k /\ \A i \in 1..k : s[i].seq = lo + i - 1
<1> DEFINE before(f) == {g \in X : g.seq < f.seq}
           pick(i) == CHOOSE f \in X : Cardinality(before(f)) = i - 1
           s == [i \in 1..k |-> pick(i)]
<1>1. Cardinality(X) = hi - lo + 1
  BY FramesOfInterval
<1>2. ASSUME NEW f \in X PROVE Cardinality(before(f)) = f.seq - lo
  BY FramesBefore
<1> HIDE DEF before
<1>3. ASSUME NEW i \in 1..k PROVE pick(i) \in X /\ pick(i).seq = lo + i - 1
  <2>1. lo + i - 1 \in lo..hi
    BY <1>1
  <2>2. PICK f \in X : f.seq = lo + i - 1
    BY <2>1 DEF OneEach
  <2>3. Cardinality(before(f)) = i - 1
    BY <1>2, <2>2
  <2>4. pick(i) \in X /\ Cardinality(before(pick(i))) = i - 1
    BY <2>3, Zenon
  <2> HIDE DEF pick
  <2>5. pick(i).seq - lo = i - 1
    BY <1>2, <2>4
  <2>6. pick(i).seq \in lo..hi
    BY <2>4 DEF OneEach
  <2> QED
    BY <2>4, <2>5, <2>6
<1> HIDE DEF pick
<1>4. s \in [1..k -> X] /\ \A i \in 1..k : s[i].seq = lo + i - 1
  BY <1>3
<1> HIDE DEF s
<1>5. s \in Seq(X) /\ Len(s) = k
  BY <1>4
<1> QED
  BY <1>4, <1>5 DEF s, pick, before, InOrder

LEMMA NothingInOrder ==
    ASSUME NEW X PROVE InOrder(X, 0) = <<>>
<1> DEFINE before(f) == {g \in X : g.seq < f.seq}
           pick(i) == CHOOSE f \in X : Cardinality(before(f)) = i - 1
           s == [i \in 1..0 |-> pick(i)]
<1> HIDE DEF pick
<1>1. s \in [1..0 -> Nat]
  OBVIOUS
<1> HIDE DEF s
<1>2. s \in Seq(Nat) /\ Len(s) = 0
  BY <1>1
<1>3. s = <<>>
  BY <1>2
<1> QED
  BY <1>3 DEF s, pick, before, InOrder

\* Of the frames of one draft without a gap: those after a number, from the first
\* one on, without a gap.
LEMMA ContentIsRead ==
    ASSUME \A f \in frames : f.seq \in Nat /\ f.seq <= head.seq, head.seq \in Nat,
           \A f, g \in frames : f.seq = g.seq => f = g,
           \A f \in frames : DraftOf(f) = <<head.attempt, head.revision>>,
           \A f \in frames : \A n \in f.seq..head.seq : \E g \in frames : g.seq = n,
           NEW draft, NEW after \in Nat
    PROVE  LET s == ReadContent(draft, after) IN
           /\ s \in Seq(frames)
           /\ \A i \in 1..Len(s) : DraftOf(s[i]) = draft /\ s[i].seq > after
           /\ \A i \in 2..Len(s) : s[i].seq = s[i - 1].seq + 1
           /\ s # <<>> => \A f \in frames : f.seq > after => f.seq >= s[1].seq
<1> DEFINE X == {f \in frames : <<f.attempt, f.revision>> = draft /\ f.seq > after}
           k == Min({Cardinality(X), MaxBatch})
           s == InOrder(X, k)
<1>1. <<>> \in Seq(frames) /\ Len(<<>>) = 0
  OBVIOUS
<1>2. CASE head.age = "old"
  <2>1. ReadContent(draft, after) = <<>>
    BY <1>2 DEF ReadContent
  <2> QED
    BY <1>1, <2>1
<1>3. CASE head.age # "old"
  <2>1. ReadContent(draft, after) = s
    BY <1>3 DEF ReadContent, InOrder
  <2>2. MaxBatch \in Nat
    BY PreviewBounds
  <2>3. CASE X = {}
    <3>1. Cardinality(X) = 0
      BY <2>3, FS_EmptySet
    <3>2. k = 0
      BY <2>2, <3>1, LesserOfTwo
    <3> HIDE DEF k
    <3>4. s = <<>>
      BY <3>2, NothingInOrder
    <3> HIDE DEF s
    <3> QED
      BY <1>1, <2>1, <3>4
  <2>4. CASE X # {}
    <3>1. PICK e \in X : TRUE
      BY <2>4
    <3>2. draft = <<head.attempt, head.revision>>
      BY <3>1 DEF DraftOf
    <3>3. \A f \in frames : f \in X <=> f.seq > after
      BY <3>2 DEF DraftOf
    <3>4. X \subseteq frames /\ \A f \in X : f.seq \in Nat /\ f.seq > after /\ DraftOf(f) = draft
      BY DEF DraftOf
    <3> DEFINE seqs == {f.seq : f \in X}
    <3>5. seqs \in SUBSET Nat /\ seqs # {}
      BY <2>4, <3>4
    <3> HIDE DEF seqs
    <3>6. PICK lo \in seqs : \A n \in seqs : lo <= n
      BY <3>5, LeastNumber
    <3> USE DEF seqs
    <3>7. PICK first \in X : first.seq = lo
      BY <3>6
    <3>8. /\ lo \in Int /\ lo > after /\ lo <= head.seq + 1 /\ head.seq \in Int
          /\ \A f \in X : f.seq \in lo..head.seq
      BY <3>4, <3>6, <3>7
    <3>9. \A n \in lo..head.seq : \E f \in X : f.seq = n
      <4> SUFFICES ASSUME NEW n \in lo..head.seq PROVE \E f \in X : f.seq = n
        OBVIOUS
      <4>1. first \in frames /\ n \in first.seq..head.seq /\ n > after
        BY <3>4, <3>7, <3>8
      <4>2. PICK g \in frames : g.seq = n
        BY <4>1
      <4> QED
        BY <3>3, <4>1, <4>2
    <3>10. \A f, g \in X : f.seq = g.seq => f = g
      BY <3>4
    <3> HIDE DEF X, seqs
    <3>17. OneEach(X, lo, head.seq)
      BY <3>8, <3>9, <3>10 DEF OneEach
    <3>11. Cardinality(X) \in Nat
      BY <3>8, <3>17, FramesOfInterval
    <3>12. k \in Nat /\ k <= Cardinality(X)
      BY <2>2, <3>11, LesserOfTwo
    <3> HIDE DEF k
    <3>13. s \in Seq(X) /\ Len(s) = k /\ \A i \in 1..k : s[i].seq = lo + i - 1
      BY <3>8, <3>12, <3>17, FramesInOrder
    <3> HIDE DEF s
    <3>14. s \in Seq(frames) /\ \A i \in 1..k : s[i] \in X
      BY <3>4, <3>13
    <3>15. \A i \in 2..k : s[i].seq = s[i - 1].seq + 1
      BY <3>8, <3>12, <3>13
    <3>16. s # <<>> => \A f \in frames : f.seq > after => f.seq >= s[1].seq
      <4> SUFFICES ASSUME s # <<>>, NEW f \in frames, f.seq > after PROVE f.seq >= s[1].seq
        OBVIOUS
      <4>1. 1 \in 1..k
        BY <3>12, <3>13
      <4>2. s[1].seq = lo + 1 - 1
        BY <3>13, <4>1
      <4>3. f \in X
        BY <3>3
      <4> QED
        BY <3>8, <4>2, <4>3
    <3> QED
      BY <2>1, <3>4, <3>13, <3>14, <3>15, <3>16
  <2> QED
    BY <2>3, <2>4
<1> QED
  BY <1>2, <1>3

-----------------------------------------------------------------------------
(* ContentPreview: a page while the store changes.                         *)

LEMMA PageFacts ==
    ASSUME PageInv, PreviewInv
    PROVE  /\ screen \in Shown /\ conn \in Streams /\ Reads(screen)
           /\ screen.draft \in Drafts /\ conn.draft \in Drafts /\ screen.seq \in Nat
           /\ task.attempt \in Nat /\ head.attempt \in Nat /\ head.revision \in Nat
           /\ head.seq \in Nat
           /\ \A d \in Drafts : d[1] \in Nat /\ d[2] \in Nat /\ d = <<d[1], d[2]>>
<1>1. /\ screen \in Shown /\ conn \in Streams /\ Reads(screen)
      /\ screen.draft \in Drafts /\ conn.draft \in Drafts /\ screen.seq \in Nat
  BY DEF PageInv, Reads, Shown, Streams, Drafts
<1>2. task.attempt \in Nat /\ head.attempt \in Nat /\ head.revision \in Nat /\ head.seq \in Nat
  BY PreviewFacts DEF Heads
<1>3. \A d \in Drafts : d[1] \in Nat /\ d[2] \in Nat /\ d = <<d[1], d[2]>>
  BY DraftsAreOrdered DEF Drafts
<1> QED
  BY <1>1, <1>2, <1>3

\* A step that the page does not take.
LEMMA PageStays ==
    ASSUME PageInv, PreviewInv, UNCHANGED <<conn, screen>>,
           task.status \in Ended => task'.status = task.status,
           FramesAreKeyed', \A d \in Drafts : Known(d) => Known(d)',
           ~screen.done => TextIsStored'
    PROVE  PageInv'
<1>1. EndIsTrue'
  BY DEF PageInv, EndIsTrue, Ended
<1>2. ~screen.done => PageFollows'
  <2> SUFFICES ASSUME ~screen.done PROVE PageFollows'
    OBVIOUS
  <2>1. screen.draft \in Drafts /\ conn.draft \in Drafts
    BY PageFacts
  <2>2. PageFollows
    BY DEF PageInv
  <2>3. Known(screen.draft)'
    <3>1. Known(screen.draft)
      BY <2>2 DEF PageFollows
    <3> QED
      BY <2>1, <3>1 DEF Known
  <2>4. conn.at = "frames" /\ conn.draft[1] # 0 => Known(conn.draft)'
    <3>1. conn.at = "frames" /\ conn.draft[1] # 0 => Known(conn.draft)
      BY <2>2 DEF PageFollows
    <3> QED
      BY <2>1, <3>1 DEF Known
  <2> QED
    BY <2>2, <2>3, <2>4 DEF PageFollows
<1>3. Reads(screen)' /\ (conn \in Streams)' /\ (conn.at # "frames" => conn.draft = <<0, 0>>)'
  BY DEF PageInv, Reads
<1> QED
  BY <1>1, <1>2, <1>3 DEF PageInv

\* The preview as it is.
LEMMA PageAside ==
    ASSUME PageInv, PreviewInv, UNCHANGED <<conn, screen, frames>>,
           UNCHANGED <<head.attempt, head.revision, head.seq>>,
           head.status = "none" <=> head'.status = "none",
           task.status \in Ended => task'.status = task.status,
           task'.attempt \in Nat, task'.attempt >= task.attempt,
           \A a \in Attempts : Writes(a)' => Writes(a) \/ a > task.attempt
    PROVE  PageInv'
<1>1. FramesAreKeyed'
  BY DEF PageInv, FramesAreKeyed
<1>2. ASSUME NEW d \in Drafts, Known(d) PROVE Known(d)'
  <2>1. d[1] <= task.attempt /\ d[1] <= task'.attempt /\ d[1] \in Nat /\ task.attempt \in Nat
    BY <1>2, PageFacts DEF Known
  <2>2. head'.status # "none" => NotAfter(d, <<head'.attempt, head'.revision>>)
    BY <1>2 DEF Known
  <2>3. ASSUME head'.status = "none", NEW a \in Attempts, Writes(a)' PROVE d[1] < a
    BY <1>2, <2>1, <2>3, PreviewFacts DEF Known
  <2> QED
    BY <2>1, <2>2, <2>3 DEF Known
<1>3. ~screen.done => TextIsStored'
  BY DEF PageInv, PageFollows, TextIsStored
<1> QED
  BY <1>1, <1>2, <1>3, PageStays

\* The preview is removed.
LEMMA PageOfNone ==
    ASSUME PageInv, PreviewInv, UNCHANGED <<task, conn, screen>>, head' = NoHead, frames' = {},
           head.status = "none" =>
             \A a \in Attempts : ~Writes(a)',
           \A a \in Attempts : Writes(a)' => head.attempt < a
    PROVE  PageInv'
<1>1. NoHead.status = "none" /\ NoHead.attempt = 0
  BY DEF NoHead
<1>2. FramesAreKeyed'
  BY <1>1 DEF FramesAreKeyed
<1>3. ASSUME NEW d \in Drafts, Known(d) PROVE Known(d)'
  <2>1. d[1] <= task.attempt /\ d[1] \in Nat /\ head.attempt \in Nat
    BY <1>3, PageFacts DEF Known
  <2>2. ASSUME NEW a \in Attempts, Writes(a)' PROVE d[1] < a
    <3>1. head.status # "none" /\ head.attempt < a /\ a \in Nat
      BY <2>2, PreviewFacts
    <3>2. d[1] <= head.attempt
      BY <1>3, <2>1, <3>1 DEF Known, NotAfter
    <3> QED
      BY <2>1, <3>1, <3>2
  <2> QED
    BY <1>1, <2>1, <2>2 DEF Known
<1>4. TextIsStored'
  BY <1>1 DEF TextIsStored
<1> QED
  BY <1>2, <1>3, <1>4, PageStays

\* A frame is written: of the draft that is stored, or the first of a later one.
LEMMA PageOfWritten ==
    ASSUME PageInv, PreviewInv, UNCHANGED <<task, conn, screen>>,
           NEW h \in Heads, NEW old \in SUBSET frames, \A f \in old : f.seq <= h.seq,
           h.attempt <= task.attempt,
           \/ h = head /\ head.status # "none"
           \/ \A d \in Drafts : Known(d) =>
                NotAfter(d, <<h.attempt, h.revision>>) /\ d # <<h.attempt, h.revision>>,
           NEW put \in {"delta", "reset", "finalized", "unavailable"}, NEW piece,
           put = "reset" => piece = 0,
           WriteFrame(h, old, put, piece)
    PROVE  PageInv'
<1> DEFINE new == [attempt |-> h.attempt, revision |-> h.revision, seq |-> h.seq + 1,
                   kind |-> put, piece |-> piece]
<1>1. /\ h.attempt \in Nat /\ h.revision \in Nat /\ h.seq \in Nat
      /\ \A f \in frames : f.seq \in Nat
  BY PreviewFacts DEF Heads, StoredFrames
<1>2. /\ new.seq = h.seq + 1 /\ new.kind = put /\ new.piece = piece
      /\ \A f \in frames' : f \in old \/ f = new
  BY DEF WriteFrame
<1>3. /\ head'.attempt = h.attempt /\ head'.revision = h.revision /\ head'.seq = h.seq + 1
      /\ head'.status # "none"
  <2>1. CASE put \in {"unavailable", "finalized"}
    <3>1. head' = [h EXCEPT !.seq = h.seq + 1, !.status = put, !.age = "closed"]
      BY <2>1 DEF WriteFrame
    <3> QED
      BY <2>1, <3>1 DEF Heads
  <2>2. CASE put \notin {"unavailable", "finalized"}
    <3>1. head' = [h EXCEPT !.seq = h.seq + 1, !.status = "active", !.age = "open"]
      BY <2>2 DEF WriteFrame
    <3> QED
      BY <3>1 DEF Heads
  <2> QED
    BY <2>1, <2>2
<1> HIDE DEF new
<1>4. FramesAreKeyed'
  <2>1. ASSUME NEW f \in frames', NEW g \in frames', f.seq = g.seq PROVE f = g
    <3>1. CASE f \in old /\ g \in old
      BY <2>1, <3>1 DEF PageInv, FramesAreKeyed
    <3>2. \A x \in old : x.seq # new.seq
      BY <1>1, <1>2
    <3> QED
      BY <1>2, <2>1, <3>1, <3>2
  <2>2. ASSUME NEW f \in frames' PROVE f.seq > 0 /\ (f.kind = "reset" => f.piece = 0)
    <3>1. f \in old => f.seq > 0 /\ (f.kind = "reset" => f.piece = 0)
      BY DEF PageInv, FramesAreKeyed
    <3>2. new.seq > 0 /\ (new.kind = "reset" => new.piece = 0)
      BY <1>1, <1>2
    <3> QED
      BY <1>2, <3>1, <3>2
  <2> QED
    BY <1>3, <2>1, <2>2 DEF FramesAreKeyed
<1>5. ASSUME NEW d \in Drafts, Known(d) PROVE Known(d)'
  BY <1>3, <1>5 DEF Known
<1>6. ASSUME ~screen.done PROVE TextIsStored'
  <2> SUFFICES ASSUME screen.draft = <<h.attempt, h.revision>>
               PROVE  /\ screen.seq <= h.seq + 1
                      /\ \A f \in frames' : f.seq = screen.seq =>
                           f.kind \in {"delta", "reset"} /\ f.piece = Len(screen.text)
    BY <1>3 DEF TextIsStored
  <2>1. screen.draft \in Drafts /\ Known(screen.draft) /\ screen.seq \in Nat /\ TextIsStored
    BY <1>6, PageFacts DEF PageInv, PageFollows
  <2>2. h = head /\ head.status # "none"
    BY <2>1
  <2>3. /\ screen.seq <= h.seq
        /\ \A f \in frames : f.seq = screen.seq =>
             f.kind \in {"delta", "reset"} /\ f.piece = Len(screen.text)
    BY <2>1, <2>2 DEF TextIsStored
  <2>4. new.seq # screen.seq /\ screen.seq <= h.seq + 1
    BY <1>1, <1>2, <2>1, <2>3
  <2> QED
    BY <1>2, <2>3, <2>4
<1> QED
  BY <1>4, <1>5, <1>6, PageStays

\* An append, by a preview object that may.
LEMMA PageOfAppended ==
    ASSUME PageInv, PreviewInv, UNCHANGED <<task, conn, screen>>, NEW a \in Attempts, Writes(a),
           NEW r \in 1..MaxRevision, NEW k \in {"delta", "reset", "unavailable"},
           NEW i, k = "reset" => i = 0, Stored(a, r, k, i),
           \A b \in Attempts : Writes(b)' => Writes(b)
    PROVE  PageInv'
<1> DEFINE h == HeadFor(a, r)
           old == KeptFor(a, r)
<1>1. CASE h.status # "active"
  <2>1. UNCHANGED <<head, frames>>
    BY <1>1 DEF Stored
  <2>2. task'.attempt \in Nat /\ task'.attempt >= task.attempt
    BY PageFacts
  <2> QED
    BY <2>1, <2>2, PageAside
<1>2. CASE h.status = "active"
  <2>1. WriteFrame(h, old, k, i) /\ task.attempt = a
    BY <1>2 DEF Stored, Writes
  <2>2. CASE NewDraft(a, r)
    <3>1. h = [attempt |-> a, revision |-> r, seq |-> 0, status |-> "active", age |-> "open"]
          /\ old = {}
      BY <2>2 DEF HeadFor, KeptFor
    <3>2. a \in 0..MaxTries /\ r \in 0..MaxRevision /\ a \in Nat /\ r \in Nat
      BY PreviewFacts DEF Attempts
    <3>3. h \in Heads /\ h.attempt = a /\ h.revision = r
      BY <3>1, <3>2 DEF Heads
    <3>4. ASSUME NEW d \in Drafts, Known(d) PROVE NotAfter(d, <<a, r>>) /\ d # <<a, r>>
      <4>1. d[1] \in Nat /\ d[2] \in Nat /\ d = <<d[1], d[2]>> /\ d[1] <= a
        BY <2>1, <3>4, PageFacts DEF Known
      <4>2. CASE head.status = "none"
        <5>1. d[1] < a
          BY <3>4, <4>2 DEF Known
        <5> QED
          BY <3>2, <4>1, <5>1 DEF NotAfter
      <4>3. CASE head.status # "none"
        <5>1. NotAfter(d, <<head.attempt, head.revision>>) /\ head.attempt <= a
              /\ (head.attempt # a \/ r > head.revision)
              /\ head.attempt \in Nat /\ head.revision \in Nat
          BY <2>1, <2>2, <3>4, <4>3, PageFacts DEF Known, NewDraft, PreviewInv, HeadIsAhead
        <5> QED
          BY <3>2, <4>1, <5>1 DEF NotAfter
      <4> QED
        BY <4>2, <4>3
    <3> HIDE DEF h, old
    <3>5. old \in SUBSET frames /\ \A f \in old : f.seq <= h.seq
      BY <3>1
    <3>6. h.attempt <= task.attempt
      BY <2>1, <3>2, <3>3
    <3> QED
      BY <2>1, <3>3, <3>4, <3>5, <3>6, PageOfWritten
  <2>3. CASE ~NewDraft(a, r)
    <3>1. h = head /\ old = frames /\ head.status # "none"
      BY <2>3 DEF HeadFor, KeptFor, NewDraft
    <3> HIDE DEF h, old
    <3>2. h \in Heads /\ old \in SUBSET frames /\ (\A f \in old : f.seq <= h.seq)
          /\ h.attempt <= task.attempt
      BY <3>1, PreviewFacts DEF PreviewInv, HeadIsAhead
    <3> QED
      BY <2>1, <3>1, <3>2, PageOfWritten
  <2> QED
    BY <2>2, <2>3
<1> QED
  BY <1>1, <1>2

-----------------------------------------------------------------------------
(* ContentPreview: the page through the steps of the store.                *)

LEMMA PageQueueSteps ==
    ASSUME PageInv, PreviewInv, StoreTypeOK',
           \/ TakeTask \/ LeaseExpires \/ EndTask \/ Mark \/ CancelTask
           \/ \E a \in Attempts : Complete(a) \/ Fail(a) \/ Crash(a)
    PROVE  PageInv'
<1>1. /\ task \in [status : {"pending", "running"} \cup Ended, attempt : 0..MaxTries, leased : BOOLEAN]
      /\ task.attempt \in Nat /\ worker \in [Attempts -> Previews]
      /\ Idle.phase = "off"
  BY PreviewFacts DEF PreviewInv, StoreTypeOK
<1>2. UNCHANGED <<head, frames, conn, screen>>
  BY DEF TakeTask, LeaseExpires, EndTask, Mark, CancelTask, Complete, Fail, Crash
<1>3. CASE TakeTask
  <2> DEFINE b == task.attempt + 1
  <2>1. task'.attempt = b /\ b > task.attempt /\ task.status \notin Ended /\ source' = source
        /\ b \in Nat /\ b >= task.attempt
    BY <1>1, <1>3 DEF TakeTask, Ended
  <2> HIDE DEF b
  <2>2. \A a \in Attempts : Writes(a)' => a > task.attempt
    BY <2>1 DEF Writes
  <2> QED
    BY <1>2, <2>1, <2>2, PageAside
<1>4. ASSUME task'.attempt = task.attempt,
             task.status \in Ended => task'.status = task.status,
             task'.status = "running" => task.status = "running",
             source' = "granted" => source = "granted",
             \A a \in Attempts : worker'[a] = worker[a] \/ worker'[a] = Idle
      PROVE  PageInv'
  <2>1. \A a \in Attempts : Writes(a)' => Writes(a)
    BY <1>1, <1>4 DEF Writes
  <2>2. task'.attempt \in Nat /\ task'.attempt >= task.attempt
    BY <1>1, <1>4
  <2> QED
    BY <1>2, <1>4, <2>1, <2>2, PageAside
<1>5. CASE LeaseExpires
  <2>1. task' = [task EXCEPT !.leased = FALSE] /\ UNCHANGED <<source, worker>>
    BY <1>5 DEF LeaseExpires
  <2>2. task'.attempt = task.attempt /\ task'.status = task.status
    BY <1>1, <2>1
  <2> QED
    BY <1>4, <2>1, <2>2
<1>6. ASSUME NEW st, st # "running", task' = [task EXCEPT !.status = st, !.leased = FALSE],
             task.status \notin Ended
      PROVE  /\ task'.attempt = task.attempt /\ task'.status # "running"
             /\ task.status \in Ended => task'.status = task.status
  BY <1>1, <1>6
<1>7. CASE EndTask
  <2>1. task.status \notin Ended /\ UNCHANGED <<source, worker>>
        /\ task' = [task EXCEPT !.status = "failed", !.leased = FALSE]
    BY <1>7 DEF EndTask, Ended
  <2> QED
    BY <1>4, <1>6, <2>1
<1>8. CASE Mark
  <2>1. UNCHANGED <<task, worker>> /\ source' = "marked"
    BY <1>8 DEF Mark
  <2> QED
    BY <1>4, <2>1
<1>9. CASE CancelTask
  <2>1. UNCHANGED worker /\ source' = "stopped"
    BY <1>9 DEF CancelTask
  <2>2. CASE task.status \in Ended
    <3>1. task' = task
      BY <1>9, <2>2 DEF CancelTask
    <3> QED
      BY <1>4, <2>1, <3>1
  <2>3. CASE task.status \notin Ended
    <3>1. task' = [task EXCEPT !.status = "failed", !.leased = FALSE]
      BY <1>9, <2>3 DEF CancelTask
    <3> QED
      BY <1>4, <1>6, <2>1, <2>3, <3>1
  <2> QED
    BY <2>2, <2>3
<1>10. ASSUME NEW a \in Attempts, Complete(a) \/ Fail(a) \/ Crash(a) PROVE PageInv'
  <2>1. worker' = [worker EXCEPT ![a] = Idle] /\ UNCHANGED source
    BY <1>10 DEF Complete, Fail, Crash
  <2>2. \A b \in Attempts : worker'[b] = worker[b] \/ worker'[b] = Idle
    BY <1>1, <2>1
  <2>3. CASE task' = task
    BY <1>4, <2>1, <2>2, <2>3
  <2>4. CASE task' # task
    <3>1. PICK st : st # "running" /\ task' = [task EXCEPT !.status = st, !.leased = FALSE]
      BY <1>10, <2>4 DEF Complete, Fail, Crash
    <3>2. task.status = "running"
      BY <1>10, <2>4 DEF Complete, Fail, Crash, Owns
    <3>3. task.status \notin Ended
      BY <3>2 DEF Ended
    <3> QED
      BY <1>4, <1>6, <2>1, <2>2, <3>1, <3>3
  <2> QED
    BY <2>3, <2>4
<1> QED
  BY <1>3, <1>5, <1>7, <1>8, <1>9, <1>10

LEMMA PageObjectSteps ==
    ASSUME PageInv, PreviewInv, NEW a \in Attempts,
           SendPiece(a) \/ RaiseJob(a) \/ \E r \in 1..(MaxText - 1 - a) : ResetDraft(a, r)
    PROVE  PageInv'
<1>1. /\ worker[a].phase = "on" /\ UNCHANGED <<task, source, closing, conn, screen>>
      /\ worker[a] \in Previews /\ worker \in [Attempts -> Previews]
      /\ task'.attempt \in Nat /\ task'.attempt >= task.attempt
  <2>1. worker[a].phase = "on" /\ UNCHANGED <<task, source, closing, conn, screen>>
    BY DEF SendPiece, RaiseJob, ResetDraft
  <2>2. worker \in [Attempts -> Previews] /\ task.attempt \in Nat
    BY PreviewFacts
  <2> QED
    BY <2>1, <2>2
<1>2. /\ worker[a].revision \in 1..MaxRevision /\ a \in Nat /\ a # 0
      /\ MaxText \in Nat /\ MaxRevision = MaxText - 2
  BY <1>1, PreviewFacts, PreviewBounds DEF Previews, MaxRevision
<1>3. ASSUME NEW x, worker' = [worker EXCEPT ![a] = x],
             x.phase = "on" => ~worker[a].disabled
      PROVE  \A b \in Attempts : Writes(b)' => Writes(b)
  <2>1. worker'[a] = x /\ \A b \in Attempts : b # a => worker'[b] = worker[b]
    BY <1>1, <1>3
  <2> QED
    BY <1>1, <1>3, <2>1 DEF Writes
<1>4. ASSUME UNCHANGED <<head, frames>>, \A b \in Attempts : Writes(b)' => Writes(b)
      PROVE  PageInv'
  BY <1>1, <1>4, PageAside
<1>5. ASSUME NEW r \in 1..MaxRevision, NEW k \in {"delta", "reset", "unavailable"}, NEW i,
             k = "reset" => i = 0, Stored(a, r, k, i), ~worker[a].disabled,
             \A b \in Attempts : Writes(b)' => Writes(b)
      PROVE  PageInv'
  <2>1. Writes(a)
    BY <1>1, <1>5 DEF Stored, Refused, Owns, Writes
  <2> QED
    BY <1>1, <1>5, <2>1, PageOfAppended
<1>6. ASSUME NEW w, NEW k \in {"delta", "reset"}, k = "reset" => w.piece = 0,
             SendFrame(a, w, k, w.piece), w.revision \in 1..MaxRevision, ~worker[a].disabled
      PROVE  PageInv'
  <2>1. PICK x : worker' = [worker EXCEPT ![a] = x]
    BY <1>6 DEF SendFrame
  <2>2. \A b \in Attempts : Writes(b)' => Writes(b)
    BY <1>3, <1>6, <2>1
  <2>3. \/ UNCHANGED <<head, frames>> \/ Stored(a, w.revision, k, w.piece)
        \/ Stored(a, w.revision, "unavailable", 0)
    BY <1>6 DEF SendFrame
  <2> QED
    BY <1>4, <1>5, <1>6, <2>2, <2>3
<1>7. CASE SendPiece(a)
  <2> DEFINE w == [worker[a] EXCEPT !.piece = @ + 1]
  <2>1. SendFrame(a, w, "delta", w.piece) /\ ~worker[a].disabled
    BY <1>7 DEF SendPiece
  <2>2. w.revision = worker[a].revision
    BY <1>1 DEF Previews
  <2> HIDE DEF w
  <2> QED
    BY <1>2, <1>6, <2>1, <2>2
<1>8. ASSUME NEW r \in 1..(MaxText - 1 - a), ResetDraft(a, r) PROVE PageInv'
  <2> DEFINE w == [worker[a] EXCEPT !.revision = r, !.piece = 0]
  <2>1. SendFrame(a, w, "reset", 0) /\ ~worker[a].disabled
    BY <1>8 DEF ResetDraft
  <2>2. r \in 1..MaxRevision
    BY <1>2
  <2>3. w.revision = r /\ w.piece = 0
    BY <1>1 DEF Previews
  <2> HIDE DEF w
  <2> QED
    BY <1>6, <2>1, <2>2, <2>3
<1>9. CASE RaiseJob(a)
  <2> DEFINE x == [Idle EXCEPT !.phase = "failing"]
  <2>1. x.phase # "on" /\ worker' = [worker EXCEPT ![a] = x]
    BY <1>9 DEF RaiseJob, Idle
  <2> HIDE DEF x
  <2>2. \A b \in Attempts : Writes(b)' => Writes(b)
    BY <1>3, <2>1
  <2>3. \/ UNCHANGED <<head, frames>>
        \/ ~worker[a].disabled /\ Stored(a, worker[a].revision, "unavailable", 0)
    BY <1>9 DEF RaiseJob
  <2> QED
    BY <1>2, <1>4, <1>5, <2>2, <2>3
<1> QED
  BY <1>7, <1>8, <1>9

LEMMA PageCloseSteps ==
    ASSUME PageInv, PreviewInv, NEW c \in closing, CloseContent(c)
    PROVE  PageInv'
<1> DEFINE k == IF c.completed THEN "finalized" ELSE "unavailable"
<1>1. UNCHANGED <<task, source, worker, conn, screen>>
  BY DEF CloseContent
<1>2. CASE UNCHANGED <<head, frames>>
  <2>1. \A a \in Attempts : Writes(a)' => Writes(a)
    BY <1>1 DEF Writes
  <2>2. task'.attempt \in Nat /\ task'.attempt >= task.attempt
    BY <1>1, PageFacts
  <2> QED
    BY <1>1, <1>2, <2>1, <2>2, PageAside
<1>3. CASE head.status = "active" /\ WriteFrame(head, frames, k, 0)
  <2>1. k \in {"delta", "reset", "finalized", "unavailable"}
    OBVIOUS
  <2> HIDE DEF k
  <2>2. head \in Heads /\ frames \in SUBSET frames /\ (\A f \in frames : f.seq <= head.seq)
        /\ head.attempt <= task.attempt
    BY PreviewFacts DEF PreviewInv, HeadIsAhead
  <2> QED
    BY <1>1, <1>3, <2>1, <2>2, PageOfWritten
<1> QED
  BY <1>2, <1>3 DEF CloseContent

LEMMA PageHeadSteps ==
    ASSUME PageInv, PreviewInv, PurgeClose \/ PurgeOld \/ Age \/ PurgeRevoked
    PROVE  PageInv'
<1>1. /\ UNCHANGED <<task, worker, conn, screen>> /\ source' \in {source, "purged"}
      /\ task'.attempt \in Nat /\ task'.attempt >= task.attempt
  BY PageFacts DEF PurgeClose, PurgeOld, Age, PurgeRevoked, queueVars
<1>2. CASE PurgeClose \/ Age
  <2>1. PICK st, ag : /\ head' = [head EXCEPT !.status = st, !.age = ag]
                      /\ st = "none" <=> head.status = "none"
    <3>1. CASE PurgeClose
      <4>1. /\ head' = [head EXCEPT !.status = "unavailable", !.age = "closed"]
            /\ "unavailable" = "none" <=> head.status = "none"
        BY <3>1 DEF PurgeClose
      <4> QED
        BY <4>1
    <3>2. CASE Age
      <4>1. head' = [head EXCEPT !.status = head.status, !.age = "old"]
        BY <3>2, PreviewFacts DEF Age, Heads
      <4> QED
        BY <4>1
    <3> QED
      BY <1>2, <3>1, <3>2
  <2>2. /\ head'.attempt = head.attempt /\ head'.revision = head.revision /\ head'.seq = head.seq
        /\ head'.status = st
    BY <2>1, PreviewFacts DEF Heads
  <2>3. frames' = frames /\ source' = source
    BY <1>2 DEF PurgeClose, Age, queueVars
  <2>4. \A a \in Attempts : Writes(a)' => Writes(a)
    BY <1>1, <2>3 DEF Writes
  <2> QED
    BY <1>1, <2>1, <2>2, <2>3, <2>4, PageAside
<1>3. CASE PurgeOld
  <2>1. head' = NoHead /\ frames' = {} /\ head.status # "none" /\ head.age = "old" /\ source' = source
    BY <1>3 DEF PurgeOld, queueVars
  <2>2. ASSUME NEW a \in Attempts, Writes(a)' PROVE head.attempt < a
    <3>1. Writes(a) /\ task.attempt = a /\ a \in Nat
      BY <1>1, <2>1, <2>2, PreviewFacts DEF Writes
    <3>2. InStep(a)
      BY <3>1 DEF PreviewInv, WritersAreInStep
    <3>3. head.status # "active" /\ head.attempt <= a /\ head.attempt \in Nat
      BY <2>1, <3>1, PageFacts DEF PreviewInv, HeadIsAhead
    <3> QED
      BY <2>1, <3>1, <3>2, <3>3 DEF InStep
  <2> QED
    BY <1>1, <2>1, <2>2, PageOfNone
<1>4. CASE PurgeRevoked
  <2>1. head' = NoHead /\ frames' = {} /\ source' = "purged"
    BY <1>4 DEF PurgeRevoked, AnyPreview
  <2>2. \A a \in Attempts : ~Writes(a)'
    BY <2>1 DEF Writes
  <2> QED
    BY <1>1, <2>1, <2>2, PageOfNone
<1> QED
  BY <1>2, <1>3, <1>4

-----------------------------------------------------------------------------
(* ContentPreview: what a page shows of a round.                           *)

\* The place before the frame i of a round, for a page p: draft, number, pieces.
Before(p, out, i) ==
    IF i = 1 THEN [draft |-> p.draft, seq |-> p.seq, piece |-> Len(p.text)]
    ELSE [draft |-> DraftOf(out[i - 1]), seq |-> out[i - 1].seq, piece |-> out[i - 1].piece]

\* The frames of a round up to its first ending go on from the page p.
Leads(p, out) ==
    \A i \in 1..Len(out) :
        (\A j \in 1..i : out[j].kind \notin Terminal) =>
            /\ GoesOn(Before(p, out, i).draft, Before(p, out, i).seq, Before(p, out, i).piece, out[i])
            /\ out[i].kind # "delta" => out[i].piece = 0

\* A page q shows the frame f, with the rest of it as in p.
ShowsFrame(p, q, f) ==
    /\ Reads(q) /\ q.cursor = p.cursor /\ q.failures = p.failures /\ q.done = p.done
    /\ q.status # "finalized"
    /\ q.draft = DraftOf(f) /\ q.seq = f.seq /\ Len(q.text) = f.piece

\* Frame after frame.
LEMMA FramesAreShown ==
    ASSUME NEW p, Reads(p), NEW out \in Seq(Sent), Leads(p, out), NEW m \in 0..Len(out),
           \A j \in 1..m : out[j].kind \notin Terminal,
           NEW shows, shows[0] = p, \A i \in 1..m : shows[i] = Apply(shows[i - 1], out[i])
    PROVE  \A i \in 1..m : ShowsFrame(p, shows[i], out[i])
<1> DEFINE Bad == {i \in 1..m : ~ShowsFrame(p, shows[i], out[i])}
<1>1. Len(out) \in Nat /\ m \in Nat /\ m <= Len(out)
  OBVIOUS
<1>2. \A i \in 1..m : out[i] \in Sent
  BY <1>1
<1>3. SUFFICES ASSUME Bad # {} PROVE FALSE
  OBVIOUS
<1>4. Bad \in SUBSET Nat
  BY <1>1
<1> HIDE DEF Bad
<1>5. PICK i \in Bad : \A k \in Bad : i <= k
  BY <1>3, <1>4, LeastNumber
<1>6. i \in 1..m /\ ~ShowsFrame(p, shows[i], out[i]) /\ i \in 1..Len(out)
  BY <1>1, <1>5 DEF Bad
<1>7. /\ GoesOn(Before(p, out, i).draft, Before(p, out, i).seq, Before(p, out, i).piece, out[i])
      /\ out[i].kind # "delta" => out[i].piece = 0
      /\ out[i] \in Sent /\ out[i].kind \notin Terminal
      /\ shows[i] = Apply(shows[i - 1], out[i])
  <2>1. \A j \in 1..i : out[j].kind \notin Terminal
    BY <1>1, <1>6
  <2> QED
    BY <1>2, <1>6, <2>1 DEF Leads
<1>8. CASE i = 1
  <2>1. Before(p, out, i) = [draft |-> p.draft, seq |-> p.seq, piece |-> Len(p.text)]
    BY <1>8 DEF Before
  <2>2. GoesOn(p.draft, p.seq, Len(p.text), out[i]) /\ shows[i] = Apply(p, out[i])
    BY <1>7, <1>8, <2>1
  <2>3. ShowsFrame(p, shows[i], out[i])
    BY <1>7, <2>2, ApplyNext DEF ShowsFrame
  <2> QED
    BY <1>6, <2>3
<1>9. CASE i # 1
  <2> DEFINE q == shows[i - 1]
             g == out[i - 1]
  <2>1. i - 1 \in 1..m /\ i - 1 < i
    BY <1>1, <1>6, <1>9
  <2>2. i - 1 \notin Bad
    <3>1. i \in Int /\ ~(i <= i - 1)
      BY <1>6
    <3> QED
      BY <1>5, <3>1
  <2>3. ShowsFrame(p, q, g)
    BY <2>1, <2>2 DEF Bad
  <2>4. Before(p, out, i) = [draft |-> DraftOf(g), seq |-> g.seq, piece |-> g.piece]
    BY <1>9 DEF Before
  <2>5. GoesOn(DraftOf(g), g.seq, g.piece, out[i]) /\ shows[i] = Apply(q, out[i])
    BY <1>7, <2>4
  <2> HIDE DEF q, g
  <2>6. GoesOn(q.draft, q.seq, Len(q.text), out[i]) /\ Reads(q)
    BY <2>3, <2>5 DEF ShowsFrame
  <2>7. /\ Reads(shows[i]) /\ shows[i].cursor = q.cursor /\ shows[i].failures = q.failures
        /\ shows[i].done = q.done /\ shows[i].status # "finalized"
        /\ shows[i].draft = DraftOf(out[i]) /\ shows[i].seq = out[i].seq
        /\ Len(shows[i].text) = out[i].piece
    BY <1>7, <2>5, <2>6, ApplyNext
  <2>8. ShowsFrame(p, shows[i], out[i])
    BY <2>3, <2>7 DEF ShowsFrame
  <2> QED
    BY <1>6, <2>8
<1> QED
  BY <1>8, <1>9

\* Where a page is after a frame that is no ending.
AtFrame(q, f) ==
    /\ Reads(q) /\ q.status # "finalized"
    /\ q.draft = DraftOf(f) /\ q.seq = f.seq /\ Len(q.text) = f.piece
    /\ q.cursor = DraftOf(f) \o <<f.seq>>

Same(q, p) == /\ q.draft = p.draft /\ q.seq = p.seq /\ q.text = p.text /\ q.cursor = p.cursor
              /\ q.status = p.status

LEMMA LeavingPage ==
    ASSUME NEW p, Reads(p)
    PROVE  LET q == Leave(p) IN Reads(q) /\ q.done /\ q.status = p.status
<1>1. p \in Shown /\ \A i \in DOMAIN p.text : p.text[i] = p.draft \o <<i>>
  BY DEF Reads
<1>2. NoPlace \in Cursors
  <2>1. 0 \in 0..MaxTries /\ 0 \in 0..MaxRevision /\ 0 \in Nat
    BY PreviewBounds DEF MaxRevision
  <2> QED
    BY <2>1 DEF NoPlace, Cursors
<1>3. /\ Leave(p) \in Shown /\ Leave(p).text = p.text /\ Leave(p).draft = p.draft
      /\ Leave(p).done /\ Leave(p).status = p.status
  <2> DEFINE q == [p EXCEPT !.done = TRUE, !.seq = 0, !.cursor = NoPlace, !.failures = 0]
  <2>1. q.done = TRUE
    BY <1>1 DEF Shown
  <2>2. q \in Shown
    <3> DEFINE place == [p EXCEPT !.seq = 0, !.cursor = NoPlace]
               calm == [place EXCEPT !.failures = 0]
               rest == [calm EXCEPT !.done = TRUE]
    <3>1. place \in Shown
      BY <1>1, <1>2 DEF Shown
    <3>2. q = rest
      BY <1>1 DEF Shown
    <3> HIDE DEF place
    <3>3. calm \in Shown
      <4>1. 0 \in 0..2
        OBVIOUS
      <4> QED
        BY <3>1, <4>1 DEF Shown
    <3> HIDE DEF calm
    <3>4. rest \in Shown
      BY <3>3, Zenon DEF Shown
    <3> QED
      BY <3>2, <3>4
  <2>3. q.text = p.text /\ q.draft = p.draft /\ q.status = p.status
    BY <1>1 DEF Shown
  <2>4. Leave(p) = q
    BY DEF Leave
  <2> HIDE DEF q
  <2> QED
    BY <2>1, <2>2, <2>3, <2>4
<1> QED
  BY <1>1, <1>3 DEF Reads

LEMMA BrokenPage ==
    ASSUME NEW p, Reads(p)
    PROVE  LET q == Interrupted(p) IN
           /\ Reads(q) /\ (q.status = "finalized" => p.status = "finalized")
           /\ q.done \/ (q.done = p.done /\ Same(q, p))
<1>1. p \in Shown /\ \A i \in DOMAIN p.text : p.text[i] = p.draft \o <<i>>
  BY DEF Reads
<1>2. CASE p.failures < 2
  <2>1. p.failures + 1 \in 0..2
    BY <1>1, <1>2 DEF Shown
  <2>2. Interrupted(p) = [p EXCEPT !.failures = p.failures + 1]
    BY <1>2 DEF Interrupted
  <2>3. /\ Interrupted(p) \in Shown /\ Same(Interrupted(p), p) /\ Interrupted(p).done = p.done
    BY <1>1, <2>1, <2>2 DEF Shown, Same
  <2> HIDE DEF Interrupted
  <2> QED
    BY <1>1, <2>3 DEF Reads, Same
<1>3. CASE ~(p.failures < 2)
  <2> DEFINE r == [p EXCEPT !.text = <<>>, !.status = "unavailable"]
  <2>1. <<>> \in Seq(Nat \X Nat \X Nat) /\ DOMAIN <<>> = {}
    OBVIOUS
  <2>2. r \in Shown /\ r.text = <<>> /\ r.status = "unavailable"
    BY <1>1, <2>1 DEF Shown, Terminal
  <2>3. Interrupted(p) = Leave(r)
    BY <1>3 DEF Interrupted
  <2> HIDE DEF r
  <2>4. Reads(r)
    BY <2>1, <2>2 DEF Reads
  <2> QED
    BY <2>2, <2>3, <2>4, LeavingPage
<1> QED
  BY <1>2, <1>3

\* Some frames, none of them an ending.
LEMMA FramesArrive ==
    ASSUME Reads(screen), NEW s \in Seq(Sent), s # <<>>, Leads(screen, s),
           \A i \in 1..Len(s) : s[i].kind \notin Terminal
    PROVE  AtFrame(ShowFrames(s), s[Len(s)]) /\ ShowFrames(s).done = screen.done
<1> DEFINE n == Len(s)
           last == s[n]
           got == ShownOf(screen, s)
           place == <<last.attempt, last.revision, last.seq>>
           fails == IF \E i \in DOMAIN s : s[i].kind = "delta" THEN 0 ELSE got.failures
           q == [got EXCEPT !.cursor = place, !.failures = fails]
<1>1. n \in Nat /\ n # 0 /\ DOMAIN s = 1..n /\ n \in 1..n /\ n \in 0..n /\ n = Len(s)
  OBVIOUS
<1>2. last \in Sent /\ last.kind \notin Terminal
  BY <1>1
<1> HIDE DEF n
<1>20. PICK shows : Along(shows, screen, s, n) /\ got = shows[n]
  BY <1>1, PageReads
<1>3. /\ shows[0] = screen /\ \A i \in 1..n : shows[i] = Apply(shows[i - 1], s[i])
      /\ got = shows[n]
  BY <1>20 DEF Along
<1>4. \A i \in 1..n : ShowsFrame(screen, shows[i], s[i])
  <2>1. n \in 0..Len(s) /\ \A j \in 1..n : s[j].kind \notin Terminal
    BY <1>1
  <2> QED
    BY <1>3, <2>1, FramesAreShown
<1>5. ShowsFrame(screen, got, last)
  BY <1>1, <1>3, <1>4
<1>6. ShowFrames(s) = q
  BY <1>2 DEF ShowFrames, ShownOf, n
<1> HIDE DEF got, last
<1>7. got \in Shown /\ got.failures \in 0..2 /\ 0 \in 0..2
      /\ \A i \in DOMAIN got.text : got.text[i] = got.draft \o <<i>>
  <2>1. Reads(got)
    BY <1>5 DEF ShowsFrame
  <2>2. got \in Shown /\ \A i \in DOMAIN got.text : got.text[i] = got.draft \o <<i>>
    BY <2>1 DEF Reads
  <2>3. got.failures \in 0..2
    <3>1. got \in Shown
      BY <2>2
    <3> QED
      BY <3>1 DEF Shown
  <2>4. 0 \in 0..2
    OBVIOUS
  <2> QED
    BY <2>2, <2>3, <2>4
<1>8. fails \in 0..2
  BY <1>7
<1>9. DraftOf(last) \in (0..MaxTries) \X (0..MaxRevision) /\ last.seq \in Nat
      /\ DraftOf(last)[1] = last.attempt /\ DraftOf(last)[2] = last.revision
  BY <1>2 DEF DraftOf, Sent
<1>10. place = DraftOf(last) \o <<last.seq>> /\ place \in Cursors
  <2> DEFINE d == DraftOf(last)
  <2>1. d \in (0..MaxTries) \X (0..MaxRevision) /\ last.seq \in Nat
        /\ place = <<d[1], d[2], last.seq>>
    BY <1>9
  <2> HIDE DEF d, place
  <2>2. d \o <<last.seq>> = <<d[1], d[2], last.seq>> /\ d \o <<last.seq>> \in Cursors
    BY <2>1, DraftsAreOrdered
  <2>3. place = d \o <<last.seq>> /\ place \in Cursors
    BY <2>1, <2>2
  <2> QED
    BY <2>3 DEF d
<1> HIDE DEF fails, place
<1>11. q \in Shown
  BY <1>7, <1>8, <1>10 DEF Shown
<1>12. /\ q.text = got.text /\ q.draft = got.draft /\ q.seq = got.seq /\ q.cursor = place
       /\ q.status = got.status /\ q.done = got.done
  BY <1>7 DEF Shown
<1> HIDE DEF q
<1>13. Reads(q)
  BY <1>7, <1>11, <1>12 DEF Reads
<1> QED
  BY <1>5, <1>6, <1>10, <1>12, <1>13 DEF ShowsFrame, AtFrame, last, n

\* Some frames and then an ending.
LEMMA EndingArrives ==
    ASSUME Reads(screen), NEW s \in Seq(Sent), s # <<>>, Leads(screen, s),
           s[Len(s)].kind \in Terminal, \A i \in 1..(Len(s) - 1) : s[i].kind \notin Terminal
    PROVE  LET q == ShowFrames(s) IN
           /\ Reads(q) /\ q.done
           /\ q.status = "finalized" => screen.status = "finalized" \/ s[Len(s)].kind = "finalized"
<1> DEFINE n == Len(s)
           last == s[n]
           got == ShownOf(screen, s)
<1>1. n \in Nat /\ n # 0 /\ DOMAIN s = 1..n /\ n \in 1..n /\ n - 1 \in 0..n /\ n = Len(s)
  OBVIOUS
<1>2. last \in Sent /\ last.kind \in Terminal
  BY <1>1
<1> HIDE DEF n
<1>20. PICK shows : Along(shows, screen, s, n) /\ got = shows[n]
  BY <1>1, PageReads
<1>3. /\ shows[0] = screen /\ \A i \in 1..n : shows[i] = Apply(shows[i - 1], s[i])
      /\ got = shows[n]
  BY <1>20 DEF Along
<1>4. \A i \in 1..(n - 1) : ShowsFrame(screen, shows[i], s[i])
  <2>1. n - 1 \in 0..Len(s) /\ \A j \in 1..(n - 1) : s[j].kind \notin Terminal
    BY <1>1
  <2>2. \A i \in 1..(n - 1) : shows[i] = Apply(shows[i - 1], s[i])
    BY <1>1, <1>3
  <2> QED
    BY <1>3, <2>1, <2>2, FramesAreShown
<1> DEFINE before == shows[n - 1]
<1>5. Reads(before) /\ (before.status = "finalized" => screen.status = "finalized")
  <2>1. CASE n = 1
    <3>1. before = screen
      BY <1>3, <2>1
    <3> QED
      BY <3>1
  <2>2. CASE n # 1
    <3>1. n - 1 \in 1..(n - 1)
      BY <1>1, <2>2
    <3> QED
      BY <1>4, <3>1 DEF ShowsFrame
  <2> QED
    BY <2>1, <2>2
<1>6. got = Apply(before, last)
  BY <1>1, <1>3
<1>7. ShowFrames(s) = Leave(got)
  BY <1>2 DEF ShowFrames, ShownOf, n
<1> HIDE DEF got, before, last
<1>8. Reads(got) /\ (got.status = "finalized" => before.status = "finalized" \/ last.kind = "finalized")
  BY <1>2, <1>5, <1>6, ApplyEnding
<1>9. /\ Reads(Leave(got)) /\ Leave(got).done /\ Leave(got).status = got.status
  BY <1>8, LeavingPage
<1> QED
  BY <1>5, <1>7, <1>8, <1>9 DEF last, n

LEMMA BeginningOf ==
    ASSUME NEW p, NEW out \in Seq(Sent), Leads(p, out), NEW n \in 0..Len(out)
    PROVE  LET s == SubSeq(out, 1, n) IN
           /\ s \in Seq(Sent) /\ Len(s) = n /\ (s = <<>> <=> n = 0)
           /\ \A i \in 1..n : s[i] = out[i]
           /\ Leads(p, s)
<1> DEFINE s == SubSeq(out, 1, n)
<1>1. n \in Nat /\ Len(out) \in Nat /\ n <= Len(out)
  OBVIOUS
<1>2. s \in Seq(Sent) /\ Len(s) = n /\ \A i \in 1..n : s[i] = out[i]
  <2>1. \A i \in 1..n : out[i] \in Sent
    BY <1>1
  <2> QED
    BY <1>1, <2>1
<1>3. s = <<>> <=> n = 0
  BY <1>2
<1> HIDE DEF s
<1>4. ASSUME NEW i \in 1..Len(s), \A j \in 1..i : s[j].kind \notin Terminal
      PROVE  /\ GoesOn(Before(p, s, i).draft, Before(p, s, i).seq, Before(p, s, i).piece, s[i])
             /\ s[i].kind # "delta" => s[i].piece = 0
  <2>1. i \in 1..n /\ i \in 1..Len(out) /\ i \in Nat
    BY <1>1, <1>2
  <2>2. \A j \in 1..i : out[j].kind \notin Terminal
    BY <1>1, <1>2, <1>4, <2>1
  <2>3. Before(p, s, i) = Before(p, out, i)
    <3>1. CASE i = 1
      BY <3>1 DEF Before
    <3>2. CASE i # 1
      <4>1. i - 1 \in 1..n
        BY <2>1, <3>2
      <4>2. s[i - 1] = out[i - 1]
        BY <1>2, <4>1
      <4> QED
        BY <3>2, <4>2 DEF Before
    <3> QED
      BY <3>1, <3>2
  <2> QED
    BY <1>2, <2>1, <2>2, <2>3 DEF Leads
<1>5. Leads(p, s)
  BY <1>4 DEF Leads
<1> QED
  BY <1>2, <1>3, <1>5 DEF s

\* What a round may carry: frames that go on from the page up to the first
\* ending, and that tell of a result only if there is one; the cursor is the
\* place after them.
Carries(out, place) ==
    /\ out \in Seq(Sent) /\ Leads(screen, out) /\ place \in Cursors
    /\ \A i \in 1..Len(out) : out[i].kind = "finalized" => task.status = "completed"
    /\ out = <<>> => place = screen.cursor
    /\ out # <<>> /\ (\A i \in 1..Len(out) : out[i].kind \notin Terminal) =>
         place = DraftOf(out[Len(out)]) \o <<out[Len(out)].seq>>

\* Where a round leaves the page.
Arrived(out) ==
    /\ Reads(screen)'
    /\ screen'.status = "finalized" => task.status = "completed"
    /\ conn' = Round(IF screen'.done THEN NoPlace ELSE screen'.cursor)
    /\ ~screen'.done =>
         \/ Same(screen', screen)
         \/ \E i \in 1..Len(out) : out[i].kind \notin Terminal /\ AtFrame(screen', out[i])

\* The whole of a round reaches the page, or what is up to its first ending.
LEMMA WholeRound ==
    ASSUME Reads(screen), screen.status = "finalized" => task.status = "completed", ~screen.done,
           NEW out, NEW place, Carries(out, place),
           screen' = (IF out = <<>> THEN screen ELSE ShowFrames(UpToEnding(out))),
           conn' = Round(IF screen'.done THEN NoPlace ELSE place)
    PROVE  Arrived(out)
<1> DEFINE n == Len(out)
           ends == {i \in DOMAIN out : out[i].kind \in Terminal}
<1>1. out \in Seq(Sent) /\ n \in Nat /\ DOMAIN out = 1..n /\ Leads(screen, out)
      /\ (out = <<>> <=> n = 0)
  BY DEF Carries
<1>2. CASE out = <<>>
  <2>1. screen' = screen /\ place = screen.cursor
    BY <1>2 DEF Carries
  <2>2. Reads(screen)' /\ Same(screen', screen)
    BY <2>1 DEF Reads, Same
  <2> QED
    BY <2>1, <2>2 DEF Arrived
<1>3. CASE out # <<>> /\ ends = {}
  <2>1. screen' = ShowFrames(out)
    BY <1>3 DEF UpToEnding
  <2>2. \A i \in 1..n : out[i].kind \notin Terminal
    BY <1>1, <1>3
  <2>3. AtFrame(ShowFrames(out), out[n]) /\ ShowFrames(out).done = screen.done
    BY <1>1, <1>3, <2>2, FramesArrive
  <2>4. n \in 1..n
    BY <1>1, <1>3
  <2>5. place = DraftOf(out[n]) \o <<out[n].seq>>
    BY <1>3, <2>2 DEF Carries
  <2>6. AtFrame(screen', out[n]) /\ ~screen'.done
    BY <2>1, <2>3
  <2>7. Reads(screen)' /\ screen'.status # "finalized" /\ screen'.cursor = place
    BY <2>5, <2>6 DEF AtFrame, Reads
  <2> QED
    BY <2>2, <2>4, <2>6, <2>7 DEF Arrived
<1>4. CASE out # <<>> /\ ends # {}
  <2>1. ends \in SUBSET Nat /\ ends \subseteq 1..n
    BY <1>1
  <2> DEFINE m == CHOOSE i \in ends : \A j \in ends : i <= j
  <2>2. m \in ends /\ \A j \in ends : m <= j
    <3>1. \E i \in ends : \A j \in ends : i <= j
      <4> HIDE DEF ends
      <4> QED
        BY <1>4, <2>1, LeastNumber
    <3> QED
      BY <3>1, Zenon
  <2> DEFINE s == SubSeq(out, 1, m)
  <2>3. screen' = ShowFrames(s)
    BY <1>4 DEF UpToEnding
  <2> HIDE DEF m
  <2>4. m \in 0..Len(out) /\ m # 0 /\ m \in Nat /\ m \in 1..n /\ out[m].kind \in Terminal
        /\ \A i \in 1..(m - 1) : out[i].kind \notin Terminal
    <3>1. m \in 1..n /\ out[m].kind \in Terminal
      BY <1>1, <2>2
    <3>2. ASSUME NEW i \in 1..(m - 1) PROVE out[i].kind \notin Terminal
      <4>1. i \in 1..n /\ ~(m <= i)
        BY <1>1, <3>1
      <4> QED
        BY <1>1, <2>2, <4>1
    <3> QED
      BY <1>1, <3>1, <3>2
  <2>5. /\ s \in Seq(Sent) /\ Len(s) = m /\ s # <<>> /\ Leads(screen, s)
        /\ \A i \in 1..m : s[i] = out[i]
    <3>1. m \in 0..Len(out) /\ m # 0
      BY <2>4
    <3> QED
      BY <1>1, <3>1, BeginningOf
  <2> HIDE DEF s
  <2>6. s[Len(s)].kind \in Terminal /\ \A i \in 1..(Len(s) - 1) : s[i].kind \notin Terminal
    BY <2>4, <2>5
  <2>7. /\ Reads(ShowFrames(s)) /\ ShowFrames(s).done
        /\ ShowFrames(s).status = "finalized" =>
             screen.status = "finalized" \/ s[Len(s)].kind = "finalized"
    BY <2>5, <2>6, EndingArrives
  <2>8. s[Len(s)].kind = "finalized" => task.status = "completed"
    BY <2>4, <2>5 DEF Carries
  <2>9. Reads(screen') /\ screen'.done /\ (screen'.status = "finalized" => task.status = "completed")
    BY <2>3, <2>7, <2>8
  <2>10. Reads(screen)'
    BY <2>9 DEF Reads
  <2> QED
    BY <2>9, <2>10 DEF Arrived
<1> QED
  BY <1>2, <1>3, <1>4

\* The connection breaks in a round.
LEMMA BrokenRound ==
    ASSUME Reads(screen), screen.status = "finalized" => task.status = "completed", ~screen.done,
           NEW out, NEW place, Carries(out, place), NEW n \in 0..Len(out),
           NEW got, got = (IF n = 0 THEN screen ELSE ShowFrames(SubSeq(out, 1, n))),
           \A i \in 1..n : out[i].kind \notin Terminal,
           screen' = Interrupted(got),
           conn' = Round(IF screen'.done THEN NoPlace ELSE got.cursor)
    PROVE  Arrived(out)
<1> DEFINE s == SubSeq(out, 1, n)
<1>1. out \in Seq(Sent) /\ n \in Nat /\ Len(out) \in Nat /\ n <= Len(out) /\ Leads(screen, out)
  BY DEF Carries
<1>2. /\ Reads(got) /\ ~got.done /\ (got.status = "finalized" => task.status = "completed")
      /\ \/ Same(got, screen)
         \/ \E i \in 1..Len(out) : out[i].kind \notin Terminal /\ AtFrame(got, out[i])
  <2>1. CASE n = 0
    BY <2>1 DEF Same
  <2>2. CASE n # 0
    <3>1. /\ s \in Seq(Sent) /\ Len(s) = n /\ s # <<>> /\ Leads(screen, s)
          /\ \A i \in 1..n : s[i] = out[i]
      BY <1>1, <2>2, BeginningOf
    <3>2. got = ShowFrames(s)
      BY <2>2
    <3> HIDE DEF s
    <3>3. \A i \in 1..Len(s) : s[i].kind \notin Terminal
      BY <3>1
    <3>4. AtFrame(ShowFrames(s), s[Len(s)]) /\ ShowFrames(s).done = screen.done
      BY <3>1, <3>3, FramesArrive
    <3>5. n \in 1..Len(out) /\ n \in 1..n
      BY <1>1, <2>2
    <3>6. AtFrame(got, out[n]) /\ ~got.done
      BY <3>1, <3>2, <3>4, <3>5
    <3> QED
      BY <3>5, <3>6 DEF AtFrame
  <2> QED
    BY <2>1, <2>2
<1>3. /\ Reads(screen') /\ (screen'.status = "finalized" => got.status = "finalized")
      /\ screen'.done \/ (screen'.done = got.done /\ Same(screen', got))
  BY <1>2, BrokenPage
<1>4. Reads(screen)' /\ (screen'.status = "finalized" => task.status = "completed")
  BY <1>2, <1>3 DEF Reads
<1>5. CASE screen'.done
  BY <1>4, <1>5 DEF Arrived
<1>6. CASE ~screen'.done
  <2>1. Same(screen', got) /\ Reads(screen')
    BY <1>3, <1>6
  <2>2. conn' = Round(screen'.cursor)
    BY <1>6, <2>1 DEF Same
  <2>3. Same(got, screen) => Same(screen', screen)
    BY <2>1 DEF Same
  <2>4. \A i \in 1..Len(out) : AtFrame(got, out[i]) => AtFrame(screen', out[i])
    BY <2>1 DEF Same, AtFrame
  <2> QED
    BY <1>2, <1>4, <1>6, <2>2, <2>3, <2>4 DEF Arrived
<1> QED
  BY <1>5, <1>6

LEMMA RoundArrives ==
    ASSUME Reads(screen), screen.status = "finalized" => task.status = "completed", ~screen.done,
           NEW out, NEW place, Carries(out, place), Arrive(out, place)
    PROVE  Arrived(out)
<1>1. CASE /\ screen' = (IF out = <<>> THEN screen ELSE ShowFrames(UpToEnding(out)))
           /\ conn' = Round(IF screen'.done THEN NoPlace ELSE place)
  BY <1>1, WholeRound
<1>2. ASSUME NEW n \in 0..Len(out), NEW got,
             got = (IF n = 0 THEN screen ELSE ShowFrames(SubSeq(out, 1, n))),
             \A i \in 1..n : out[i].kind \notin Terminal,
             screen' = Interrupted(got),
             conn' = Round(IF screen'.done THEN NoPlace ELSE got.cursor)
      PROVE  Arrived(out)
  BY <1>2, BrokenRound
<1> QED
  BY <1>1, <1>2 DEF Arrive

-----------------------------------------------------------------------------
(* ContentPreview: the page through the steps of the stream.               *)

LEMMA PlacesAreCursors ==
    /\ NoPlace \in Cursors /\ <<0, 0>> \in Drafts
    /\ 1 \in 0..MaxRevision /\ 0 \in 0..MaxPieces /\ 0 \in 0..MaxTries
<1>1. 0 \in 0..MaxTries /\ 0 \in 0..MaxRevision /\ 1 \in 0..MaxRevision /\ 0 \in 0..MaxPieces
  BY PreviewBounds DEF MaxRevision, MaxPieces
<1> QED
  BY <1>1 DEF NoPlace, Cursors, Drafts

LEMMA NewRound ==
    ASSUME NEW c \in Cursors
    PROVE  /\ Round(c) \in Streams /\ Round(c).at = "row" /\ Round(c).status = "open"
           /\ Round(c).draft = <<0, 0>> /\ Round(c).last = c
<1>1. <<0, 0>> \in (0..MaxTries) \X (0..MaxRevision) /\ 0 \in 0..MaxTries /\ 0 \in Nat
  BY PlacesAreCursors DEF Drafts
<1> QED
  BY <1>1 DEF Round, Streams

\* After a round of known drafts, the frames of which are stored or begin anew.
LEMMA PageArrives ==
    ASSUME PageInv, PreviewInv, ~screen.done, UNCHANGED <<queueVars, head, frames>>,
           NEW out, Arrived(out),
           \A i \in 1..Len(out) : out[i].kind \notin Terminal =>
               /\ DraftOf(out[i]) \in Drafts /\ Known(DraftOf(out[i]))
               /\ (out[i].seq = 0 /\ out[i].piece = 0) \/ out[i] \in frames
    PROVE  PageInv'
<1>1. UNCHANGED <<task, source, worker, head, frames>>
  BY DEF queueVars
<1> DEFINE c == IF screen'.done THEN NoPlace ELSE screen'.cursor
<1>2. Reads(screen)' /\ Reads(screen') /\ screen' \in Shown /\ c \in Cursors
  BY PlacesAreCursors DEF Arrived, Reads, Shown
<1>3. /\ conn' \in Streams /\ conn'.at = "row" /\ conn'.status = "open"
      /\ conn'.draft = <<0, 0>> /\ conn'.last = c
  BY <1>2, NewRound DEF Arrived
<1>4. EndIsTrue'
  BY <1>1, <1>3 DEF Arrived, EndIsTrue, Ended
<1>5. FramesAreKeyed'
  BY <1>1 DEF PageInv, FramesAreKeyed
<1>6. ASSUME ~screen'.done PROVE PageFollows'
  <2>1. PageFollows
    BY DEF PageInv
  <2>2. CASE Same(screen', screen)
    BY <1>1, <1>3, <1>6, <2>1, <2>2
       DEF PageFollows, Same, Known, Writes, TextIsStored
  <2>3. ASSUME NEW i \in 1..Len(out), out[i].kind \notin Terminal, AtFrame(screen', out[i])
        PROVE  PageFollows'
    <3> DEFINE f == out[i]
    <3>1. /\ DraftOf(f) \in Drafts /\ Known(DraftOf(f)) /\ f.kind \notin Terminal
          /\ (f.seq = 0 /\ f.piece = 0) \/ f \in frames
      BY <2>3
    <3>2. /\ screen'.draft = DraftOf(f) /\ screen'.seq = f.seq /\ Len(screen'.text) = f.piece
          /\ screen'.cursor = screen'.draft \o <<screen'.seq>>
      BY <2>3 DEF AtFrame
    <3> HIDE DEF f
    <3>3. screen'.text \in Seq(Nat \X Nat \X Nat)
      BY <1>2 DEF Shown
    <3>4. /\ \A g \in frames : g.seq > 0 /\ g.seq \in Nat /\ g.seq <= head.seq
                               /\ g.kind \in {"delta", "reset", "finalized", "unavailable"}
          /\ \A g, h \in frames : g.seq = h.seq => g = h
          /\ head.seq \in Nat
      BY PreviewFacts DEF PageInv, FramesAreKeyed, PreviewInv, HeadIsAhead, StoredFrames, Heads
    <3>5. screen'.seq = 0 => screen'.text = <<>>
      <4>1. ASSUME screen'.seq = 0 PROVE screen'.text = <<>>
        <5>2. f.seq = 0
          BY <3>2, <4>1
        <5>3. f \notin frames
          BY <3>4, <5>2
        <5>1. Len(screen'.text) = 0
          BY <3>1, <3>2, <5>3
        <5> QED
          BY <3>3, <5>1
      <4> QED
        BY <4>1
    <3>6. Known(screen.draft)'
      BY <1>1, <3>1, <3>2 DEF Known, Writes
    <3>7. TextIsStored'
      <4>1. screen'.seq <= head.seq
        BY <3>1, <3>2, <3>4
      <4>2. ASSUME NEW g \in frames, g.seq = screen'.seq
            PROVE  g.kind \in {"delta", "reset"} /\ g.piece = Len(screen'.text)
        <5>1. g = f
          BY <3>1, <3>2, <3>4, <4>2
        <5> QED
          BY <3>1, <3>2, <3>4, <5>1 DEF Terminal
      <4> QED
        BY <1>1, <4>1, <4>2 DEF TextIsStored
    <3> QED
      BY <1>3, <1>6, <3>2, <3>5, <3>6, <3>7 DEF PageFollows
  <2> QED
    BY <1>6, <2>2, <2>3 DEF Arrived
<1> QED
  BY <1>2, <1>3, <1>4, <1>5, <1>6 DEF PageInv

\* The row: the page is told of a revocation, or the stream goes on.
LEMMA PageRow ==
    ASSUME PageInv, PreviewInv, StreamRow PROVE PageInv'
<1>1. /\ ~screen.done /\ conn.at = "row" /\ UNCHANGED <<queueVars, head, frames>>
      /\ UNCHANGED <<task, source, worker>>
  BY DEF StreamRow, queueVars
<1>2. PageFollows /\ conn \in Streams /\ conn.draft = <<0, 0>> /\ Reads(screen)
      /\ conn.last \in Cursors
  BY <1>1 DEF PageInv, Streams
<1>3. CASE source # "granted"
  <2> DEFINE f == Private(<<conn.last[1], Revision>>, conn.last[3], "revoked", 0)
             out == <<f>>
  <2>1. Arrive(out, conn.last)
    BY <1>3 DEF StreamRow
  <2>2. /\ conn.last[1] \in 0..MaxTries /\ conn.last[2] \in 0..MaxRevision /\ conn.last[3] \in Nat
        /\ Revision \in 0..MaxRevision
    BY <1>2, PlacesAreCursors DEF Cursors, Revision
  <2>3. f \in Sent /\ f.kind = "revoked"
    BY <2>2, PlacesAreCursors DEF Private, Sent, Kinds, Terminal
  <2> HIDE DEF f
  <2>4. out \in Seq(Sent) /\ Len(out) = 1 /\ out[1] = f /\ out # <<>>
    BY <2>3
  <2> HIDE DEF out
  <2>5. \A i \in 1..Len(out) : i = 1 /\ out[i].kind = "revoked" /\ out[i].kind \in Terminal
    BY <2>3, <2>4 DEF Terminal
  <2>6. 1 \in 1..Len(out)
    BY <2>4
  <2>7. Leads(screen, out)
    BY <2>5 DEF Leads
  <2>8. Carries(out, conn.last)
    BY <1>2, <2>4, <2>5, <2>6, <2>7 DEF Carries
  <2>9. Arrived(out)
    BY <1>1, <1>2, <2>1, <2>8, RoundArrives DEF PageInv, EndIsTrue
  <2> QED
    BY <1>1, <2>5, <2>9, PageArrives
<1>4. CASE source = "granted"
  <2>1. /\ conn' = [conn EXCEPT !.at = "head", !.attempt = task.attempt,
                          !.status = IF task.status \in Ended THEN task.status ELSE "open"]
        /\ UNCHANGED screen
    BY <1>4 DEF StreamRow
  <2>2. task.attempt \in 0..MaxTries
    BY PreviewFacts
  <2>3. /\ conn' \in Streams /\ conn'.at = "head" /\ conn'.draft = <<0, 0>>
        /\ conn'.last = conn.last
        /\ conn'.status = (IF task.status \in Ended THEN task.status ELSE "open")
    BY <1>2, <2>1, <2>2 DEF Streams, Ended
  <2>4. EndIsTrue'
    BY <1>1, <2>1, <2>3 DEF PageInv, EndIsTrue, Ended
  <2>5. FramesAreKeyed' /\ Reads(screen)'
    BY <1>1, <1>2, <2>1 DEF PageInv, FramesAreKeyed, Reads
  <2>6. PageFollows'
    BY <1>1, <1>2, <2>1, <2>3 DEF PageFollows, Known, Writes, TextIsStored
  <2> QED
    BY <2>3, <2>4, <2>5, <2>6 DEF PageInv
<1> QED
  BY <1>3, <1>4

\* The head: the draft that is stored for the attempt of the row, or none.
LEMMA PageHead ==
    ASSUME PageInv, PreviewInv, StreamHead PROVE PageInv'
<1>1. /\ ~screen.done /\ conn.at = "head" /\ UNCHANGED <<task, source, worker, head, frames, screen>>
  BY DEF StreamHead, queueVars
<1>2. PageFollows /\ conn \in Streams /\ conn.draft = <<0, 0>> /\ Reads(screen)
  BY <1>1 DEF PageInv
<1>3. head \in Heads /\ head.attempt <= task.attempt
  BY PreviewFacts DEF PreviewInv, HeadIsAhead
<1> DEFINE d == <<head.attempt, head.revision>>
<1>4. /\ d \in (0..MaxTries) \X (0..MaxRevision) /\ d[1] = head.attempt /\ d[2] = head.revision
      /\ head.seq \in Nat /\ head.attempt \in Nat /\ head.revision \in Nat
  BY <1>3 DEF Heads
<1>5. /\ conn' \in Streams /\ conn'.at = "frames" /\ conn'.last = conn.last
      /\ conn'.status = conn.status
      /\ \/ conn'.draft = <<0, 0>>
         \/ conn'.draft = d /\ conn'.high = head.seq
  <2>1. CASE head.attempt = conn.attempt
    <3>1. conn' = [conn EXCEPT !.at = "frames", !.high = head.seq, !.draft = d]
      BY <2>1 DEF StreamHead
    <3> HIDE DEF d
    <3> QED
      BY <1>2, <1>4, <3>1 DEF Streams
  <2>2. CASE head.attempt # conn.attempt
    <3>1. conn' = [conn EXCEPT !.at = "frames"]
      BY <2>2 DEF StreamHead
    <3> QED
      BY <1>2, <3>1 DEF Streams
  <2> QED
    BY <2>1, <2>2
<1>6. EndIsTrue' /\ FramesAreKeyed' /\ Reads(screen)'
  BY <1>1, <1>2, <1>5 DEF PageInv, EndIsTrue, FramesAreKeyed, Reads
<1>7. ASSUME conn'.draft[1] # 0
      PROVE  /\ Known(conn.draft)' /\ NotAfter(screen.draft, conn'.draft)
             /\ conn'.draft = screen.draft => screen.seq <= conn'.high
  <2>1. conn'.draft = d /\ conn'.high = head.seq /\ head.attempt # 0
    BY <1>4, <1>5, <1>7
  <2>2. head.status # "none"
    BY <2>1 DEF PageInv, FramesAreKeyed
  <2>3. Known(screen.draft) /\ TextIsStored
    BY <1>2 DEF PageFollows
  <2>4. NotAfter(screen.draft, d)
    BY <2>2, <2>3 DEF Known
  <2>5. NotAfter(d, d)
    BY <1>4 DEF NotAfter
  <2>6. Known(conn.draft)'
    BY <1>1, <1>3, <1>4, <2>1, <2>2, <2>5 DEF Known
  <2> QED
    BY <2>1, <2>2, <2>3, <2>4, <2>6 DEF TextIsStored
<1>8. PageFollows'
  <2>1. /\ conn.last = screen.cursor /\ screen.cursor = screen.draft \o <<screen.seq>>
        /\ screen.seq = 0 => screen.text = <<>>
        /\ Known(screen.draft) /\ TextIsStored
    BY <1>2 DEF PageFollows
  <2>2. Known(screen.draft)' /\ TextIsStored'
    BY <1>1, <2>1 DEF Known, Writes, TextIsStored
  <2> QED
    BY <1>1, <1>5, <1>7, <2>1, <2>2 DEF PageFollows
<1> QED
  BY <1>5, <1>6, <1>8 DEF PageInv

\* What read_content finds after a place of the draft goes on from there.
LEMMA ContentGoesOn ==
    ASSUME PageInv, PreviewInv, NEW d, NEW after \in Nat, NEW piece,
           after = 0 => piece = 0,
           \A f \in frames : DraftOf(f) = d /\ f.seq = after => f.piece = piece
    PROVE  LET found == ReadContent(d, after) IN
           /\ found \in Seq(Sent)
           /\ \A i \in 1..Len(found) :
                /\ found[i] \in frames /\ DraftOf(found[i]) = d
                /\ found[i].kind # "delta" /\ found[i].kind \notin Terminal => found[i].piece = 0
                /\ i = 1 => GoesOn(d, after, piece, found[i])
                /\ i # 1 => GoesOn(d, found[i - 1].seq, found[i - 1].piece, found[i])
<1> DEFINE found == ReadContent(d, after)
           n == Len(found)
<1>1. /\ \A f \in frames : f.seq \in Nat /\ f.seq <= head.seq /\ f.seq > 0
      /\ head.seq \in Nat
      /\ \A f, g \in frames : f.seq = g.seq => f = g
      /\ \A f \in frames : DraftOf(f) = <<head.attempt, head.revision>>
      /\ \A f \in frames : \A i \in f.seq..head.seq : \E g \in frames : g.seq = i
      /\ \A f \in frames : f.kind = "reset" => f.piece = 0
  BY PreviewFacts
     DEF PageInv, FramesAreKeyed, PreviewInv, HeadIsAhead, StoredIsOneDraft, StoredFrames, Heads,
         DraftOf
<1>2. \A f \in frames : /\ f.kind \in {"delta", "reset", "finalized", "unavailable"}
                        /\ f.piece \in Nat
                        /\ f.kind = "delta" =>
                             \/ f.seq = 1 /\ f.piece = 1
                             \/ \E g \in frames : g.seq = f.seq - 1 /\ g.piece = f.piece - 1
  BY PreviewFacts DEF PreviewInv, StoredIsOneDraft, StoredFrames
<1>3. frames \subseteq Sent
  <2> SUFFICES ASSUME NEW f \in frames PROVE f \in Sent
    OBVIOUS
  <2>1. f \in StoredFrames
    BY PreviewFacts
  <2>2. Attempts \subseteq 0..MaxTries /\ 1..MaxRevision \subseteq 0..MaxRevision
        /\ {"delta", "reset", "finalized", "unavailable"} \subseteq Kinds
    BY DEF Attempts, Kinds, Terminal
  <2> QED
    BY <2>1, <2>2 DEF StoredFrames, Sent
<1>4. /\ found \in Seq(frames)
      /\ \A i \in 1..Len(found) : DraftOf(found[i]) = d /\ found[i].seq > after
      /\ \A i \in 2..Len(found) : found[i].seq = found[i - 1].seq + 1
      /\ found # <<>> => \A f \in frames : f.seq > after => f.seq >= found[1].seq
  BY <1>1, ContentIsRead
<1> HIDE DEF found
<1>5. found \in Seq(Sent) /\ n \in Nat /\ \A i \in 1..n : found[i] \in frames
  BY <1>3, <1>4
<1>6. ASSUME NEW i \in 1..n
      PROVE  /\ found[i] \in frames /\ DraftOf(found[i]) = d
             /\ found[i].kind # "delta" /\ found[i].kind \notin Terminal => found[i].piece = 0
             /\ i = 1 => GoesOn(d, after, piece, found[i])
             /\ i # 1 => GoesOn(d, found[i - 1].seq, found[i - 1].piece, found[i])
  <2> DEFINE f == found[i]
  <2>1. /\ f \in frames /\ DraftOf(f) = d /\ f.seq > after /\ f.seq \in Nat /\ f.seq > 0
        /\ f.kind \in {"delta", "reset", "finalized", "unavailable"} /\ f.piece \in Nat
        /\ f.kind = "reset" => f.piece = 0
    BY <1>1, <1>2, <1>4, <1>5
  <2>2. f.kind # "delta" /\ f.kind \notin Terminal => f.piece = 0
    BY <2>1 DEF Terminal
  <2>3. ASSUME i = 1, f.kind = "delta" PROVE f.piece = piece + 1
    <3>1. found # <<>>
      BY <1>5
    <3>2. CASE f.seq = 1 /\ f.piece = 1
      <4>1. after = 0
        BY <2>1, <3>2
      <4> QED
        BY <3>2, <4>1
    <3>3. ASSUME NEW g \in frames, g.seq = f.seq - 1, g.piece = f.piece - 1
          PROVE  f.piece = piece + 1
      <4>1. ~(g.seq > after)
        <5>1. g.seq > after => g.seq >= f.seq
          BY <1>4, <2>3, <3>1
        <5> QED
          BY <2>1, <3>3, <5>1
      <4>2. g.seq = after
        BY <2>1, <3>3, <4>1
      <4>3. DraftOf(g) = d
        BY <1>1, <2>1
      <4>4. g.piece = piece
        BY <4>2, <4>3
      <4> QED
        BY <2>1, <3>3, <4>4
    <3> QED
      BY <1>2, <2>1, <2>3, <3>2, <3>3
  <2>4. i = 1 => GoesOn(d, after, piece, f)
    BY <2>1, <2>3 DEF GoesOn
  <2>5. ASSUME i # 1 PROVE GoesOn(d, found[i - 1].seq, found[i - 1].piece, f)
    <3> DEFINE e == found[i - 1]
    <3>1. i \in 2..n /\ i - 1 \in 1..n
      BY <1>5, <2>5
    <3>2. e \in frames /\ f.seq = e.seq + 1 /\ e.seq \in Nat /\ e.seq > 0 /\ e.piece \in Nat
      BY <1>1, <1>2, <1>4, <1>5, <3>1
    <3> HIDE DEF e
    <3>3. f.kind = "delta" => f.piece = e.piece + 1
      <4>1. ASSUME NEW g \in frames, g.seq = f.seq - 1, g.piece = f.piece - 1
            PROVE  f.piece = e.piece + 1
        <5>1. g.seq = e.seq
          BY <3>2, <4>1
        <5>2. g = e
          BY <1>1, <3>2, <5>1
        <5> QED
          BY <2>1, <4>1, <5>2
      <4>2. f.seq # 1
        BY <3>2
      <4> QED
        BY <1>2, <2>1, <4>1, <4>2
    <3>4. GoesOn(d, e.seq, e.piece, f)
      BY <2>1, <3>2, <3>3 DEF GoesOn
    <3> QED
      BY <3>4 DEF e
  <2> QED
    BY <2>1, <2>2, <2>4, <2>5
<1> QED
  BY <1>5, <1>6 DEF found

\* A round, without the ending: frames of the draft of the stream, stored ones
\* or the first of a draft that begins anew.
Good(out) ==
    /\ out \in Seq(Sent) /\ Leads(screen, out)
    /\ \A i \in 1..Len(out) :
         /\ DraftOf(out[i]) = conn.draft
         /\ (out[i].seq = 0 /\ out[i].piece = 0 /\ out[i].kind # "finalized") \/ out[i] \in frames

\* The draft that the page shows goes on.
LEMMA DraftContinues ==
    ASSUME PageInv, PreviewInv, ~screen.done, conn.at = "frames", conn.draft[1] # 0, Continues
    PROVE  Good(ReadContent(conn.draft, conn.last[3]))
<1> DEFINE out == ReadContent(conn.draft, conn.last[3])
           d == conn.draft
<1>1. /\ d \in Drafts /\ screen.draft \in Drafts /\ screen.seq \in Nat
      /\ d = <<d[1], d[2]>> /\ screen.draft = <<screen.draft[1], screen.draft[2]>>
      /\ screen.text \in Seq(Nat \X Nat \X Nat)
  BY PageFacts DEF Shown
<1>2. /\ conn.last = screen.draft \o <<screen.seq>> /\ TextIsStored
      /\ screen.seq = 0 => screen.text = <<>>
  BY DEF PageInv, PageFollows
<1>3. conn.last = <<screen.draft[1], screen.draft[2], screen.seq>>
  <2>1. screen.draft \in (0..MaxTries) \X (0..MaxRevision)
    BY <1>1 DEF Drafts
  <2> QED
    BY <1>1, <1>2, <2>1, DraftsAreOrdered
<1>4. conn.last[3] = screen.seq /\ d = screen.draft
  <2>1. /\ conn.last[1] = screen.draft[1] /\ conn.last[2] = screen.draft[2]
        /\ conn.last[3] = screen.seq
    BY <1>3
  <2>2. <<conn.last[1], conn.last[2]>> = d
    BY DEF Continues
  <2> QED
    BY <1>1, <2>1, <2>2
<1>5. screen.seq = 0 => Len(screen.text) = 0
  BY <1>2
<1>6. \A f \in frames : DraftOf(f) = d /\ f.seq = screen.seq => f.piece = Len(screen.text)
  <2> SUFFICES ASSUME NEW f \in frames, DraftOf(f) = d, f.seq = screen.seq
               PROVE  f.piece = Len(screen.text)
    OBVIOUS
  <2>1. head.status # "none" /\ DraftOf(f) = <<head.attempt, head.revision>>
    BY DEF PreviewInv, HeadIsAhead, StoredIsOneDraft, DraftOf
  <2> QED
    BY <1>2, <1>4, <2>1 DEF TextIsStored
<1>7. /\ out \in Seq(Sent)
      /\ \A i \in 1..Len(out) :
           /\ out[i] \in frames /\ DraftOf(out[i]) = d
           /\ out[i].kind # "delta" /\ out[i].kind \notin Terminal => out[i].piece = 0
           /\ i = 1 => GoesOn(d, screen.seq, Len(screen.text), out[i])
           /\ i # 1 => GoesOn(d, out[i - 1].seq, out[i - 1].piece, out[i])
  <2> DEFINE piece == Len(screen.text)
             found == ReadContent(d, screen.seq)
  <2> HIDE DEF d, piece
  <2>1. /\ screen.seq = 0 => piece = 0
        /\ \A f \in frames : DraftOf(f) = d /\ f.seq = screen.seq => f.piece = piece
    BY <1>5, <1>6 DEF piece
  <2>2. /\ found \in Seq(Sent)
        /\ \A i \in 1..Len(found) :
           /\ found[i] \in frames /\ DraftOf(found[i]) = d
           /\ found[i].kind # "delta" /\ found[i].kind \notin Terminal => found[i].piece = 0
           /\ i = 1 => GoesOn(d, screen.seq, piece, found[i])
           /\ i # 1 => GoesOn(d, found[i - 1].seq, found[i - 1].piece, found[i])
    BY <1>1, <2>1, ContentGoesOn
  <2>3. out = found
    BY <1>4 DEF d
  <2> HIDE DEF out, found
  <2> QED
    BY <2>2, <2>3 DEF piece
<1> HIDE DEF out, d
<1>8. ASSUME NEW i \in 1..Len(out), \A j \in 1..i : out[j].kind \notin Terminal
      PROVE  /\ GoesOn(Before(screen, out, i).draft, Before(screen, out, i).seq,
                       Before(screen, out, i).piece, out[i])
             /\ out[i].kind # "delta" => out[i].piece = 0
  <2>1. i \in 1..i
    OBVIOUS
  <2>2. out[i].kind # "delta" => out[i].piece = 0
    BY <1>7, <1>8, <2>1
  <2>3. CASE i = 1
    BY <1>4, <1>7, <2>2, <2>3 DEF Before
  <2>4. CASE i # 1
    <3>1. i - 1 \in 1..Len(out)
      BY <2>4
    <3>2. DraftOf(out[i - 1]) = d
      BY <1>7, <3>1
    <3> QED
      BY <1>7, <2>2, <2>4, <3>2 DEF Before
  <2> QED
    BY <2>3, <2>4
<1>9. Leads(screen, out)
  BY <1>8 DEF Leads
<1> QED
  BY <1>7, <1>9 DEF Good, out, d

\* A draft begins anew: a snapshot or a reset, and its frames from the first.
LEMMA DraftBegins ==
    ASSUME PageInv, PreviewInv, ~screen.done, conn.at = "frames", conn.draft[1] # 0, ~Continues,
           NEW start, start = (IF conn.last = NoPlace THEN "snapshot" ELSE "reset")
    PROVE  Good(<<Private(conn.draft, 0, start, 0)>> \o ReadContent(conn.draft, 0))
<1> DEFINE d == conn.draft
           first == Private(d, 0, start, 0)
           found == ReadContent(d, 0)
           out == <<first>> \o found
<1>1. /\ d \in Drafts /\ screen.draft \in Drafts /\ screen.seq \in Nat
      /\ d[1] \in 0..MaxTries /\ d[2] \in 0..MaxRevision /\ d = <<d[1], d[2]>>
      /\ screen.draft = <<screen.draft[1], screen.draft[2]>>
  BY PageFacts DEF Drafts
<1>2. /\ conn.last = screen.draft \o <<screen.seq>> /\ NotAfter(screen.draft, d)
      /\ d = screen.draft => screen.seq <= conn.high
  BY DEF PageInv, PageFollows
<1>3. conn.last = <<screen.draft[1], screen.draft[2], screen.seq>>
  <2>1. screen.draft \in (0..MaxTries) \X (0..MaxRevision)
    BY <1>1 DEF Drafts
  <2> QED
    BY <1>1, <1>2, <2>1, DraftsAreOrdered
<1>4. d # screen.draft
  BY <1>1, <1>2, <1>3 DEF Continues
<1>5. /\ first \in Sent /\ DraftOf(first) = d /\ first.seq = 0 /\ first.piece = 0
      /\ first.kind \in {"snapshot", "reset"}
  <2>1. start \in {"snapshot", "reset"} /\ start \in Kinds
    BY DEF Kinds
  <2>2. first = [attempt |-> d[1], revision |-> d[2], seq |-> 0, kind |-> start, piece |-> 0]
    BY DEF Private
  <2> HIDE DEF first
  <2>3. DraftOf(first) = <<d[1], d[2]>>
    BY <2>2 DEF DraftOf
  <2> QED
    BY <1>1, <2>1, <2>2, <2>3, PlacesAreCursors DEF Sent
<1>6. \A f \in frames : f.seq # 0
  BY PreviewFacts DEF PageInv, FramesAreKeyed, StoredFrames
<1>7. /\ found \in Seq(Sent)
      /\ \A i \in 1..Len(found) :
           /\ found[i] \in frames /\ DraftOf(found[i]) = d
           /\ found[i].kind # "delta" /\ found[i].kind \notin Terminal => found[i].piece = 0
           /\ i = 1 => GoesOn(d, 0, 0, found[i])
           /\ i # 1 => GoesOn(d, found[i - 1].seq, found[i - 1].piece, found[i])
  <2>1. \A f \in frames : DraftOf(f) = d /\ f.seq = 0 => f.piece = 0
    BY <1>6
  <2> QED
    BY <2>1, ContentGoesOn
<1> HIDE DEF first, found, d
<1>8. /\ out \in Seq(Sent) /\ Len(out) = Len(found) + 1 /\ out[1] = first /\ Len(found) \in Nat
      /\ \A i \in 2..Len(out) : i - 1 \in 1..Len(found) /\ out[i] = found[i - 1]
  <2>1. <<first>> \in Seq(Sent) /\ Len(<<first>>) = 1 /\ <<first>>[1] = first /\ found \in Seq(Sent)
        /\ Len(found) \in Nat
    BY <1>5, <1>7
  <2> DEFINE head1 == <<first>>
  <2> HIDE DEF head1
  <2>2. /\ out \in Seq(Sent) /\ Len(out) = Len(<<first>>) + Len(found)
        /\ \A i \in 1..Len(<<first>>) + Len(found) :
             out[i] = IF i <= Len(<<first>>) THEN <<first>>[i] ELSE found[i - Len(<<first>>)]
    BY <2>1, ConcatProperties
  <2> HIDE DEF out
  <2>3. out[1] = first
    BY <2>1, <2>2
  <2>4. ASSUME NEW i \in 2..Len(out) PROVE i - 1 \in 1..Len(found) /\ out[i] = found[i - 1]
    BY <2>1, <2>2
  <2> QED
    BY <2>1, <2>2, <2>3, <2>4
<1> HIDE DEF out
<1>9. ASSUME NEW i \in 1..Len(out), \A j \in 1..i : out[j].kind \notin Terminal
      PROVE  /\ GoesOn(Before(screen, out, i).draft, Before(screen, out, i).seq,
                       Before(screen, out, i).piece, out[i])
             /\ out[i].kind # "delta" => out[i].piece = 0
  <2>1. i \in Nat /\ out[i].kind \notin Terminal
    BY <1>8, <1>9
  <2>2. CASE i = 1
    <3>1. GoesOn(screen.draft, screen.seq, Len(screen.text), first)
      BY <1>2, <1>4, <1>5 DEF GoesOn
    <3> QED
      BY <1>5, <1>8, <2>2, <3>1 DEF Before
  <2>3. CASE i # 1
    <3>1. i \in 2..Len(out) /\ i - 1 \in 1..Len(found) /\ out[i] = found[i - 1]
      BY <1>8, <1>9, <2>1, <2>3
    <3>2. out[i].kind # "delta" => out[i].piece = 0
      BY <1>7, <2>1, <3>1
    <3>3. CASE i = 2
      <4>1. out[i - 1] = first /\ GoesOn(d, 0, 0, out[i])
        BY <1>7, <1>8, <3>1, <3>3
      <4> QED
        BY <1>5, <2>3, <3>2, <4>1 DEF Before
    <3>4. CASE i # 2
      <4>1. i - 1 \in 2..Len(out) /\ i - 1 # 1
        BY <2>1, <2>3, <3>1, <3>4
      <4>2. out[i - 1] = found[i - 2] /\ i - 2 \in 1..Len(found)
        BY <1>8, <2>1, <4>1
      <4>3. GoesOn(d, found[i - 2].seq, found[i - 2].piece, out[i]) /\ DraftOf(found[i - 2]) = d
        <5>1. GoesOn(d, found[(i - 1) - 1].seq, found[(i - 1) - 1].piece, found[i - 1])
          BY <1>7, <3>1, <4>1
        <5>2. (i - 1) - 1 = i - 2
          BY <2>1
        <5> QED
          BY <1>7, <3>1, <4>2, <5>1, <5>2
      <4> QED
        BY <2>3, <3>2, <4>2, <4>3 DEF Before
    <3> QED
      BY <3>3, <3>4
  <2> QED
    BY <2>2, <2>3
<1>10. Leads(screen, out)
  BY <1>9 DEF Leads
<1>11. ASSUME NEW i \in 1..Len(out)
       PROVE  /\ DraftOf(out[i]) = d
              /\ \/ out[i].seq = 0 /\ out[i].piece = 0 /\ out[i].kind # "finalized"
                 \/ out[i] \in frames
  <2>1. CASE i = 1
    BY <1>5, <1>8, <2>1
  <2>2. CASE i # 1
    <3>1. i \in 2..Len(out)
      BY <1>8, <2>2
    <3> QED
      BY <1>7, <1>8, <3>1
  <2> QED
    BY <2>1, <2>2
<1> QED
  BY <1>8, <1>10, <1>11 DEF Good, out, first, found, d

LEMMA RoundCarries ==
    ASSUME PageInv, PreviewInv, ~screen.done, conn.at = "frames",
           NEW out, Good(out), out # <<>> => conn.draft[1] # 0,
           NEW place, place = (IF out = <<>> THEN conn.last ELSE conn.draft \o <<out[Len(out)].seq>>),
           NEW e \in Sent, e.kind \in Terminal, e.kind = "finalized" => task.status = "completed",
           NEW full \in {out, Append(out, e)}
    PROVE  /\ Carries(full, place)
           /\ \A i \in 1..Len(full) : full[i].kind \notin Terminal =>
                /\ DraftOf(full[i]) \in Drafts /\ Known(DraftOf(full[i]))
                /\ (full[i].seq = 0 /\ full[i].piece = 0) \/ full[i] \in frames
<1> DEFINE n == Len(out)
<1>1. /\ out \in Seq(Sent) /\ n \in Nat /\ Leads(screen, out) /\ (out = <<>> <=> n = 0)
      /\ \A i \in 1..n :
           /\ out[i] \in Sent /\ DraftOf(out[i]) = conn.draft
           /\ (out[i].seq = 0 /\ out[i].piece = 0 /\ out[i].kind # "finalized") \/ out[i] \in frames
  BY DEF Good
<1>2. /\ conn.last = screen.cursor /\ conn.draft \in Drafts
      /\ conn.draft[1] # 0 => Known(conn.draft)
      /\ conn.last \in Cursors
  BY PageFacts DEF PageInv, PageFollows, Streams
<1>3. \A i \in 1..n : out[i].kind = "finalized" => task.status = "completed"
  BY <1>1 DEF PreviewInv, StoredIsOneDraft
<1>4. place \in Cursors
  <2>1. CASE out = <<>>
    BY <1>2, <2>1
  <2>2. CASE out # <<>>
    <3>1. n \in 1..n
      BY <1>1, <2>2
    <3>2. out[n].seq \in Nat
      BY <1>1, <3>1 DEF Sent
    <3>3. conn.draft \in (0..MaxTries) \X (0..MaxRevision)
      BY <1>2 DEF Drafts
    <3>4. conn.draft \o <<out[n].seq>> \in Cursors
      BY <3>2, <3>3, DraftsAreOrdered
    <3> QED
      BY <2>2, <3>4
  <2> QED
    BY <2>1, <2>2
<1>5. \A i \in 1..n : /\ DraftOf(out[i]) \in Drafts /\ Known(DraftOf(out[i]))
                      /\ (out[i].seq = 0 /\ out[i].piece = 0) \/ out[i] \in frames
  BY <1>1, <1>2
<1>6. CASE full = out
  <2>1. out = <<>> => place = screen.cursor
    BY <1>2
  <2>2. out # <<>> => place = DraftOf(out[n]) \o <<out[n].seq>>
    <3> SUFFICES ASSUME out # <<>> PROVE place = DraftOf(out[n]) \o <<out[n].seq>>
      OBVIOUS
    <3>1. n \in 1..n
      BY <1>1
    <3> QED
      BY <1>1, <3>1
  <2>3. Carries(out, place)
    BY <1>1, <1>3, <1>4, <2>1, <2>2 DEF Carries
  <2> QED
    BY <1>5, <1>6, <2>3
<1>7. CASE full = Append(out, e)
  <2> HIDE DEF n
  <2>1. /\ full \in Seq(Sent) /\ Len(full) = n + 1 /\ full # <<>> /\ full[n + 1] = e
        /\ \A i \in 1..n : full[i] = out[i]
        /\ n + 1 \in 1..Len(full)
    BY <1>1, <1>7, AppendProperties DEF n
  <2>2. \A i \in 1..Len(full) : i \in 1..n \/ i = n + 1
    BY <1>1, <2>1
  <2>3. Leads(screen, full)
    <3> SUFFICES ASSUME NEW i \in 1..Len(full), \A j \in 1..i : full[j].kind \notin Terminal
                 PROVE  /\ GoesOn(Before(screen, full, i).draft, Before(screen, full, i).seq,
                                  Before(screen, full, i).piece, full[i])
                        /\ full[i].kind # "delta" => full[i].piece = 0
      BY DEF Leads
    <3>1. i \in 1..i /\ i \in Nat
      BY <2>1
    <3>2. i \in 1..n
      BY <2>1, <2>2, <3>1
    <3>3. \A j \in 1..i : j \in 1..n /\ out[j].kind \notin Terminal
      BY <1>1, <2>1, <3>2
    <3>4. Before(screen, full, i) = Before(screen, out, i)
      <4>1. CASE i = 1
        BY <4>1 DEF Before
      <4>2. CASE i # 1
        <5>1. i - 1 \in 1..i
          BY <3>1, <4>2, <3>2
        <5>2. full[i - 1] = out[i - 1]
          BY <2>1, <3>3, <5>1
        <5> QED
          BY <4>2, <5>2 DEF Before
      <4> QED
        BY <4>1, <4>2
    <3>5. i \in 1..Len(out) /\ full[i] = out[i]
      BY <2>1, <3>2 DEF n
    <3> QED
      BY <1>1, <3>3, <3>4, <3>5 DEF Leads
  <2>4. \A i \in 1..Len(full) : full[i].kind = "finalized" => task.status = "completed"
    BY <1>3, <2>1, <2>2
  <2>5. Carries(full, place)
    BY <1>4, <2>1, <2>3, <2>4 DEF Carries
  <2>6. \A i \in 1..Len(full) : full[i].kind \notin Terminal =>
                /\ DraftOf(full[i]) \in Drafts /\ Known(DraftOf(full[i]))
                /\ (full[i].seq = 0 /\ full[i].piece = 0) \/ full[i] \in frames
    BY <1>5, <2>1, <2>2
  <2> QED
    BY <2>5, <2>6
<1> QED
  BY <1>6, <1>7

\* The frames: the page reads the draft that the stream has found, and an ending.
LEMMA PageFrames ==
    ASSUME PageInv, PreviewInv, StreamFrames PROVE PageInv'
<1> DEFINE draft == conn.draft
           has == draft[1] # 0
           anew == has /\ ~Continues
           first == IF ~anew THEN <<>>
                    ELSE <<Private(draft, 0, IF conn.last = NoPlace THEN "snapshot" ELSE "reset", 0)>>
           found == IF has THEN ReadContent(draft, IF anew THEN 0 ELSE conn.last[3]) ELSE <<>>
           out == first \o found
           last == IF out = <<>> THEN conn.last
                   ELSE draft \o <<out[Len(out)].seq>>
           more == found # <<>> /\ last[3] < conn.high
           ending == Private(<<conn.attempt, IF has THEN draft[2] ELSE Revision>>, last[3],
                             EndingKind(conn.status), 0)
           full == IF Ends /\ ~more THEN Append(out, ending) ELSE out
<1>1. /\ ~screen.done /\ conn.at = "frames" /\ UNCHANGED <<queueVars, head, frames>>
      /\ Arrive(full, last)
  BY DEF StreamFrames
<1>2. /\ Reads(screen) /\ conn \in Streams /\ conn.last \in Cursors /\ conn.attempt \in 0..MaxTries
      /\ draft \in (0..MaxTries) \X (0..MaxRevision)
      /\ EndIsTrue /\ conn.status \in {"open"} \cup Ended
  BY DEF PageInv, Streams
<1>3. Good(out) /\ (out # <<>> => draft[1] # 0)
  <2>1. Good(<<>>) /\ \A s \in Seq(Sent) : <<>> \o s = s
    <3>1. <<>> \in Seq(Sent) /\ Len(<<>>) = 0
      OBVIOUS
    <3>2. \A s \in Seq(Sent) : <<>> \o s = s
      OBVIOUS
    <3> QED
      BY <3>1, <3>2 DEF Good, Leads
  <2>2. CASE ~has
    <3>1. out = <<>> \o <<>>
      BY <2>2
    <3>2. out = <<>>
      BY <3>1
    <3> QED
      BY <2>1, <3>2
  <2>3. CASE has /\ Continues
    <3>1. Good(ReadContent(draft, conn.last[3]))
      BY <1>1, <2>3, DraftContinues
    <3>2. out = <<>> \o ReadContent(draft, conn.last[3])
      BY <2>3
    <3> HIDE DEF out
    <3>3. out = ReadContent(draft, conn.last[3])
      BY <2>1, <3>1, <3>2 DEF Good
    <3> QED
      BY <2>3, <3>1, <3>3
  <2>4. CASE has /\ ~Continues
    <3> DEFINE start == IF conn.last = NoPlace THEN "snapshot" ELSE "reset"
    <3>1. out = <<Private(draft, 0, start, 0)>> \o ReadContent(draft, 0)
      BY <2>4
    <3> HIDE DEF out
    <3>2. Good(<<Private(draft, 0, start, 0)>> \o ReadContent(draft, 0))
      BY <1>1, <2>4, DraftBegins
    <3> QED
      BY <2>4, <3>1, <3>2
  <2> QED
    BY <2>2, <2>3, <2>4
<1>4. Revision \in 0..MaxRevision
  BY <1>2, PlacesAreCursors DEF Cursors, Revision
<1>5. draft[2] \in 0..MaxRevision
  BY <1>2
<1> HIDE DEF found, first, out, more
<1>6. last \in Cursors
  <2>1. CASE out = <<>>
    BY <1>2, <2>1
  <2>2. CASE out # <<>>
    <3>1. out[Len(out)] \in Sent
      BY <1>3, <2>2 DEF Good
    <3>2. out[Len(out)].seq \in Nat
      BY <3>1 DEF Sent
    <3>3. draft \o <<out[Len(out)].seq>> \in Cursors
      BY <1>2, <3>2, DraftsAreOrdered
    <3> QED
      BY <2>2, <3>3
  <2> QED
    BY <2>1, <2>2
<1>7. last = (IF out = <<>> THEN conn.last ELSE conn.draft \o <<out[Len(out)].seq>>)
  OBVIOUS
<1> HIDE DEF last
<1>8. last[3] \in Nat
  BY <1>6 DEF Cursors
<1>9. /\ ending \in Sent /\ ending.kind \in Terminal
      /\ ending.kind = "finalized" => task.status = "completed"
  <2> DEFINE r == IF has THEN draft[2] ELSE Revision
             kd == EndingKind(conn.status)
  <2>1. r \in 0..MaxRevision
    BY <1>4, <1>5
  <2>2. kd \in Terminal /\ kd \in Kinds /\ (kd = "finalized" => task.status = "completed")
    BY <1>2 DEF EndingKind, Terminal, Kinds, EndIsTrue, Ended
  <2> HIDE DEF r, kd
  <2>3. ending = [attempt |-> conn.attempt, revision |-> r, seq |-> last[3], kind |-> kd, piece |-> 0]
    BY DEF Private, r, kd
  <2> HIDE DEF ending
  <2> QED
    BY <1>2, <1>8, <2>1, <2>2, <2>3, PlacesAreCursors DEF Sent
<1> HIDE DEF ending
<1>10. full \in {out, Append(out, ending)}
  OBVIOUS
<1> HIDE DEF full
<1>11. /\ Carries(full, last)
       /\ \A i \in 1..Len(full) : full[i].kind \notin Terminal =>
            /\ DraftOf(full[i]) \in Drafts /\ Known(DraftOf(full[i]))
            /\ (full[i].seq = 0 /\ full[i].piece = 0) \/ full[i] \in frames
  BY <1>1, <1>3, <1>7, <1>9, <1>10, RoundCarries
<1>12. Arrived(full)
  BY <1>1, <1>2, <1>11, RoundArrives DEF EndIsTrue
<1> QED
  BY <1>1, <1>11, <1>12, PageArrives

LEMMA PageStarts ==
    PreviewInit => PageInv
<1> SUFFICES ASSUME PreviewInit PROVE PageInv
  OBVIOUS
<1> DEFINE first == [draft |-> <<0, 0>>, seq |-> 0, text |-> <<>>, status |-> "waiting",
                     cursor |-> NoPlace, failures |-> 0, done |-> FALSE]
<1>1. /\ task.attempt = 0 /\ worker = [a \in Attempts |-> Idle] /\ head = NoHead /\ frames = {}
      /\ conn = Round(NoPlace) /\ screen = first
  BY DEF PreviewInit
<1>2. /\ conn \in Streams /\ conn.at = "row" /\ conn.status = "open" /\ conn.draft = <<0, 0>>
      /\ conn.last = NoPlace
  BY <1>1, PlacesAreCursors, NewRound
<1>3. /\ screen.draft = <<0, 0>> /\ screen.seq = 0 /\ screen.text = <<>>
      /\ screen.status = "waiting" /\ screen.cursor = NoPlace
  BY <1>1
<1>4. screen \in Shown
  <2>1. /\ <<0, 0>> \in (0..MaxTries) \X (0..MaxRevision) /\ NoPlace \in Cursors
        /\ <<>> \in Seq(Nat \X Nat \X Nat) /\ 0 \in 0..2 /\ 0 \in Nat /\ FALSE \in BOOLEAN
    BY PlacesAreCursors DEF Drafts
  <2> QED
    BY <1>1, <2>1 DEF Shown
<1>5. Reads(screen)
  <2>1. DOMAIN <<>> = {}
    OBVIOUS
  <2> QED
    BY <1>3, <1>4, <2>1 DEF Reads
<1>6. NoHead.status = "none" /\ NoHead.attempt = 0 /\ Idle.phase = "off"
  BY DEF NoHead, Idle
<1>7. EndIsTrue /\ FramesAreKeyed
  BY <1>1, <1>2, <1>3, <1>6 DEF EndIsTrue, FramesAreKeyed, Ended
<1>8. NoPlace = <<0, 0>> \o <<0>>
  BY PlaceInText DEF NoPlace
<1>9. Known(screen.draft)
  <2>1. \A a \in Attempts : ~Writes(a)
    BY <1>1, <1>6 DEF Writes
  <2> QED
    BY <1>1, <1>3, <1>6, <2>1 DEF Known
<1>10. PageFollows
  BY <1>1, <1>2, <1>3, <1>6, <1>8, <1>9 DEF PageFollows, TextIsStored
<1> QED
  BY <1>2, <1>5, <1>7, <1>10 DEF PageInv

LEMMA PageStep ==
    ASSUME PageInv, PreviewInv, [PreviewNext]_previewVars PROVE PageInv'
<1>0. StoreTypeOK'
  BY PreviewStep DEF PreviewInv
<1>1. CASE \/ TakeTask \/ LeaseExpires \/ EndTask \/ Mark \/ CancelTask
           \/ \E a \in Attempts : Complete(a) \/ Fail(a) \/ Crash(a)
  BY <1>0, <1>1, PageQueueSteps
<1>2. ASSUME NEW a \in Attempts,
             SendPiece(a) \/ RaiseJob(a) \/ \E r \in 1..(MaxText - 1 - a) : ResetDraft(a, r)
      PROVE  PageInv'
  BY <1>2, PageObjectSteps
<1>3. CASE \E c \in closing : CloseContent(c)
  BY <1>3, PageCloseSteps
<1>4. CASE PurgeClose \/ PurgeOld \/ Age \/ PurgeRevoked
  BY <1>4, PageHeadSteps
<1>5. CASE Stream
  BY <1>5, PageRow, PageHead, PageFrames DEF Stream
<1>6. CASE UNCHANGED previewVars
  <2>1. UNCHANGED <<task, source, worker, head, frames, conn, screen>>
    BY <1>6 DEF previewVars, queueVars
  <2>2. \A a \in Attempts : Writes(a)' => Writes(a)
    BY <2>1 DEF Writes
  <2>3. task'.attempt \in Nat /\ task'.attempt >= task.attempt
    BY <2>1, PageFacts
  <2> QED
    BY <2>1, <2>2, <2>3, PageAside
<1> QED
  BY <1>1, <1>2, <1>3, <1>4, <1>5, <1>6 DEF PreviewNext

LEMMA PageInvariant == PreviewSpec => []PageInv
<1>1. PreviewInit => PageInv
  BY PageStarts
<1>2. PageInv /\ PreviewInv /\ [PreviewNext]_previewVars => PageInv'
  BY PageStep
<1> QED
  BY <1>1, <1>2, PreviewInvariant, PTL DEF PreviewSpec

\* What is stored of a preview is one draft, the text of a page is the beginning
\* of one draft, whatever new drafts, retries, storage failures, purges and
\* reconnections there were, and a page that says that the result is available
\* says so of a task that is completed (applyContentFrame, the cursor of the
\* stream and read_content).
THEOREM PreviewsAreTrue == PreviewSpec => []PreviewIsTrue
<1>1. PreviewInv /\ PageInv => PreviewIsTrue
  BY DEF PreviewInv, PageInv, Reads, EndIsTrue, PreviewIsTrue
<1> QED
  BY <1>1, PreviewInvariant, PageInvariant, PTL

-----------------------------------------------------------------------------
(* The two streams of a page.                                              *)

LEMMA StreamsKeepToTheirPart == StreamsSpec => Spec /\ PreviewSpec
<1>1. StreamsInit => Init /\ PreviewInit
  BY DEF StreamsInit
<1>2. [StreamsNext]_streamVars => [Next]_vars /\ [PreviewNext]_previewVars
  BY DEF StreamsNext, streamVars
<1> QED
  BY <1>1, <1>2, PTL DEF StreamsSpec, Spec, PreviewSpec

\* Of both streams: the page shows what was so and misses no event, what is
\* stored and shown of a preview is one draft each, and of a revoked source none
\* is left.
THEOREM StreamsAreTrue ==
    StreamsSpec => NoHole /\ [](ShownWasTrue /\ PreviewIsTrue /\ RevokedLeavesNothing)
BY StreamsKeepToTheirPart, ShownIsTrue, NoEventIsMissed, NothingIsLeftOfARevokedSource,
   PreviewsAreTrue, PTL

=============================================================================
