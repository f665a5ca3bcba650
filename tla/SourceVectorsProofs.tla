------------------------- MODULE SourceVectorsProofs -------------------------
(***************************************************************************)
(* Machine-checked proofs about SourceVectors, for every number of builds, *)
(* attempts, batches and exits of the writer.                              *)
(***************************************************************************)
EXTENDS SourceVectors, TLAPS

USE DEF document, jobs, registry, ledger, qdrant, writer, vars, Goto

LEMMA BoundFacts ==
    /\ MaxBuilds \in Nat /\ MaxAttempts \in Nat /\ Batches \in Nat /\ MaxExits \in Nat
    /\ MaxBuilds >= 1 /\ MaxAttempts >= 1 /\ Batches >= 1
    /\ NoKey \notin Keys
BY BuildAssumption, BatchAssumption, KeyAssumption

LEMMA KeyFacts ==
    /\ \A k \in Keys : k[1] \in Builds /\ k[2] \in 1..MaxAttempts
    /\ \A b \in Builds, n \in 1..MaxAttempts : <<b, n>> \in Keys
    /\ \A k \in Keys : k = <<k[1], k[2]>>
BY DEF Keys

-----------------------------------------------------------------------------
(* The writer works on a projection whenever its place needs one.          *)

WriterHasKey ==
    pc \in Building \cup {"closing", "deleting", "erasing", "confirming"} => cur \in Keys

\* The last revision is the one of the revocation.
RevisionRoom == ~deleted => revision <= MaxBuilds

Typed == TypeOK /\ WriterHasKey /\ RevisionRoom

LEMMA TypedInit == Init => Typed
<1> SUFFICES ASSUME Init PROVE Typed
  OBVIOUS
<1>1. /\ [b \in Builds |-> 0] \in [Builds -> 0..MaxAttempts]
      /\ [k \in Keys |-> {}] \in [Keys -> SUBSET (1..Batches)]
  BY BoundFacts
<1>2. /\ 0 \in 0..MaxBuilds + 1 /\ 0 \in 0..MaxBuilds /\ 0 \in 0..MaxAttempts
      /\ 1 \in 1..Batches + 1 /\ 0 \in 0..MaxExits
  BY BoundFacts
<1>3. /\ winner \in [Builds -> 0..MaxAttempts]
      /\ job \in [Builds -> {"absent", "pending", "running", "ended"}]
      /\ attempt \in [Builds -> 0..MaxAttempts]
  BY <1>2 DEF Init
<1>4. TypeOK
  BY <1>1, <1>2, <1>3 DEF Init, TypeOK
<1> QED
  BY <1>4, BoundFacts DEF Init, Typed, WriterHasKey, RevisionRoom, Building

\* A new build keeps the types, and there is room for the revocation.
LEMMA AddBuildTyped ==
    ASSUME Typed, AddBuild
    PROVE  Typed'
<1>1. /\ revision' = revision + 1 /\ revision < MaxBuilds /\ ~deleted
      /\ job' = [job EXCEPT ![revision + 1] = "pending"]
  BY DEF AddBuild
<1>2. /\ deleted' = deleted /\ active' = active /\ winner' = winner /\ cleaned' = cleaned
      /\ attempt' = attempt /\ files' = files /\ exits' = exits
      /\ UNCHANGED <<registry, ledger, qdrant, writer>>
  BY DEF AddBuild
<1>3. revision \in Nat /\ job \in [Builds -> {"absent", "pending", "running", "ended"}]
  BY BoundFacts DEF Typed, TypeOK
<1>4. revision + 1 \in Builds /\ revision' \in 0..MaxBuilds + 1 /\ revision' <= MaxBuilds
  BY <1>1, <1>3, BoundFacts DEF Builds
<1>5. job' \in [Builds -> {"absent", "pending", "running", "ended"}]
  BY <1>1, <1>3
<1>6. TypeOK'
  BY <1>2, <1>4, <1>5 DEF Typed, TypeOK
<1>7. WriterHasKey' /\ RevisionRoom'
  BY <1>1, <1>2, <1>4 DEF Typed, WriterHasKey, RevisionRoom
<1> QED
  BY <1>6, <1>7 DEF Typed

LEMMA TypedNext == Typed /\ [Next]_vars => Typed'
<1> SUFFICES ASSUME Typed, [Next]_vars PROVE Typed'
  OBVIOUS
<1> USE BoundFacts, KeyFacts DEF Typed, TypeOK, WriterHasKey, RevisionRoom, Building, Cleaning
<1>1. CASE AddBuild
  BY <1>1, AddBuildTyped
<1>2. CASE Revoke
  BY <1>2 DEF Revoke
<1>3. ASSUME NEW b \in Builds, LoseJob(b) PROVE Typed'
  BY <1>3 DEF LoseJob
<1>4. ASSUME NEW b \in Builds, Claim(b) PROVE Typed'
  <2>1. attempt[b] + 1 \in 1..MaxAttempts
    BY <1>4 DEF Claim, HasAttempts
  <2>2. cur' \in Keys
    BY <1>4, <2>1 DEF Claim
  <2>3. attempt' \in [Builds -> 0..MaxAttempts]
    BY <1>4, <2>1 DEF Claim
  <2>4. job' \in [Builds -> {"absent", "pending", "running", "ended"}]
    BY <1>4 DEF Claim
  <2> QED
    BY <1>4, <2>2, <2>3, <2>4 DEF Claim
<1>5. CASE Admit
  BY <1>5 DEF Admit
<1>6. CASE Register
  <2>1. projection' \in [Keys -> {"absent", "writing", "ready", "deleting", "deleted"}]
    BY <1>6 DEF Register
  <2> QED
    BY <1>6, <2>1 DEF Register
<1>7. CASE Store
  BY <1>7 DEF Store
<1>8. CASE Attach
  BY <1>8 DEF Attach
<1>9. CASE BeginWrite
  BY <1>9 DEF BeginWrite, Begin, Request
<1>10. CASE Written
  <2>1. batch \in 0..Batches /\ batch' \in 1..Batches + 1
    BY <1>10 DEF Written, Request
  <2>2. stored' \in [Keys -> SUBSET (1..Batches)]
    BY <1>10, <2>1 DEF Written, Applied
  <2> QED
    BY <1>10, <2>1, <2>2 DEF Written
<1>11. CASE Verify
  BY <1>11 DEF Verify
<1>12. CASE Record
  BY <1>12 DEF Record
<1>13. CASE Publish
  <2>1. cur[1] \in 1..MaxBuilds /\ cur[2] \in 1..MaxAttempts
    BY <1>13 DEF Publish, Builds
  <2>2. winner' \in [Builds -> 0..MaxAttempts] /\ active' \in 0..MaxBuilds
    BY <1>13, <2>1 DEF Publish
  <2>3. /\ projection' \in [Keys -> {"absent", "writing", "ready", "deleting", "deleted"}]
        /\ job' \in [Builds -> {"absent", "pending", "running", "ended"}]
    BY <1>13 DEF Publish
  <2> QED
    BY <1>13, <2>2, <2>3 DEF Publish
<1>14. CASE Raise
  BY <1>14 DEF Raise
<1>15. CASE Close
  BY <1>15 DEF Close
<1>16. CASE StartCleanup
  BY <1>16 DEF StartCleanup, Registered
<1>17. CASE BeginDelete
  BY <1>17 DEF BeginDelete, Begin, Request
<1>18. CASE Erased
  <2>1. stored' \in [Keys -> SUBSET (1..Batches)]
    BY <1>18 DEF Erased, Applied
  <2> QED
    BY <1>18, <2>1 DEF Erased
<1>19. CASE ConfirmDeleted
  BY <1>19 DEF ConfirmDeleted
<1>20. CASE Unlink
  BY <1>20 DEF Unlink
<1>21. CASE FinishCleanup
  BY <1>21 DEF FinishCleanup
<1>22. CASE RaiseCleanup
  BY <1>22 DEF RaiseCleanup
<1>23. ASSUME NEW k \in Keys, MarkDeleting(k) PROVE Typed'
  <2>1. projection' \in [Keys -> {"absent", "writing", "ready", "deleting", "deleted"}]
    BY <1>23 DEF MarkDeleting
  <2> QED
    BY <1>23, <2>1 DEF MarkDeleting
<1>24. ASSUME NEW r \in requests, Execute(r) PROVE Typed'
  <2>1. r.kind = "write" => r.batch \in 1..Batches
    BY DEF Request
  <2>2. stored' \in [Keys -> SUBSET (1..Batches)]
    BY <1>24, <2>1 DEF Execute, Applied
  <2> QED
    BY <1>24, <2>2 DEF Execute
<1>25. ASSUME NEW r \in requests, Lose(r) PROVE Typed'
  BY <1>25 DEF Lose
<1>26. CASE Exit
  BY <1>26 DEF Exit
<1>27. CASE StartWriter
  BY <1>27 DEF StartWriter
<1>28. CASE RestartQdrant
  BY <1>28 DEF RestartQdrant
<1>29. CASE Recover
  BY <1>29 DEF Recover
<1>30. CASE UNCHANGED vars
  BY <1>30
<1> QED
  BY <1>1, <1>2, <1>3, <1>4, <1>5, <1>6, <1>7, <1>8, <1>9, <1>10, <1>11, <1>12, <1>13,
     <1>14, <1>15, <1>16, <1>17, <1>18, <1>19, <1>20, <1>21, <1>22, <1>23, <1>24, <1>25,
     <1>26, <1>27, <1>28, <1>29, <1>30 DEF Next, Ingest, Cleanup

\* Type correctness of the model of source_service.py and
\* vector_projection_service.py, for every value of the bounds.
THEOREM TypeCorrect == Spec => []TypeOK
<1>1. Typed => TypeOK
  BY DEF Typed
<1> QED
  BY <1>1, TypedInit, TypedNext, PTL DEF Spec

LEMMA AlwaysTyped == Spec => []Typed
BY TypedInit, TypedNext, PTL DEF Spec

-----------------------------------------------------------------------------
(* The ledger and Qdrant: nothing of a deleted projection is left.         *)

\* A request under way belongs to an operation the ledger has open, and Qdrant
\* was not restarted since the process that sent it ended.
Requested == \A r \in requests : operation[r.key] = r.kind /\ executor[r.key] # "flushed"

\* begin_operation: one request of a projection at a time.
OneRequest == \A r, s \in requests : r.key = s.key => r = s

\* The order mark_deleted reads from the ledger: after the last delete no write
\* began or may still be executed.
Emptied == \A k \in Keys : emptied[k] => stored[k] = {} /\ operation[k] # "write"

DeletedEmptied == \A k \in Keys : projection[k] = "deleted" => emptied[k]

Accounted == Requested /\ OneRequest /\ Emptied /\ DeletedEmptied

\* The steps that change what Qdrant holds or what the ledger says of it.
VectorStep ==
    \/ BeginWrite \/ Written \/ BeginDelete \/ Erased \/ ConfirmDeleted
    \/ \E r \in requests : Execute(r) \/ Lose(r)
    \/ Exit \/ RestartQdrant \/ Recover

NothingDeleted == \A k \in Keys : projection'[k] = "deleted" => projection[k] = "deleted"

Elsewhere == UNCHANGED <<stored, requests, operation, executor, emptied>> /\ NothingDeleted

LEMMA OtherSteps ==
    ASSUME Typed, [Next]_vars, ~VectorStep
    PROVE  Elsewhere
<1> USE DEF Typed, TypeOK, Elsewhere, NothingDeleted
<1>1. CASE AddBuild \/ Revoke \/ (\E b \in Builds : LoseJob(b) \/ Claim(b))
  BY <1>1 DEF AddBuild, Revoke, LoseJob, Claim
<1>2. CASE Admit \/ Register \/ Store \/ Attach
  BY <1>2 DEF Admit, Register, Store, Attach
<1>3. CASE Verify \/ Record \/ Publish \/ Raise \/ Close
  BY <1>3 DEF Verify, Record, Publish, Raise, Close
<1>4. CASE StartCleanup \/ Unlink \/ FinishCleanup \/ RaiseCleanup
  BY <1>4 DEF StartCleanup, Unlink, FinishCleanup, RaiseCleanup
<1>5. ASSUME NEW k \in Keys, MarkDeleting(k) PROVE Elsewhere
  BY <1>5 DEF MarkDeleting
<1>6. CASE StartWriter \/ UNCHANGED vars
  BY <1>6 DEF StartWriter
<1> QED
  BY <1>1, <1>2, <1>3, <1>4, <1>5, <1>6 DEF Next, Ingest, Cleanup, VectorStep

\* An operation begins when no request of its projection is under way.
LEMMA BeginKeeps ==
    ASSUME Typed, Accounted, cur \in Keys, NEW kind \in {"write", "delete"},
           NEW n \in 0..Batches, Begin(kind, n)
    PROVE  Requested' /\ OneRequest'
<1>1. \A r \in requests : r.key # cur
  BY DEF Accounted, Requested, Begin, Typed, TypeOK, Request
<1>2. \A r \in requests : r.key \in Keys
  BY DEF Typed, TypeOK, Request
<1>3. /\ operation' = [operation EXCEPT ![cur] = kind]
      /\ executor' = [executor EXCEPT ![cur] = "alive"]
      /\ requests' = requests \cup {[key |-> cur, kind |-> kind, batch |-> n]}
  BY DEF Begin
<1>4. Requested'
  BY <1>1, <1>2, <1>3 DEF Requested, Accounted, Typed, TypeOK
<1>5. OneRequest'
  BY <1>1, <1>3 DEF OneRequest, Accounted
<1> QED
  BY <1>4, <1>5

\* A request is executed: the vectors of its projection only.
LEMMA AppliedKeeps ==
    ASSUME Typed, Accounted, NEW r \in requests, Applied(r),
           UNCHANGED projection,
           emptied' = emptied \/ (r.kind = "delete" /\ emptied' = [emptied EXCEPT ![r.key] = TRUE]),
           \/ operation' = operation
           \/ operation' = [operation EXCEPT ![r.key] = "none"]
    PROVE  Emptied' /\ DeletedEmptied'
<1>1. r.key \in Keys /\ r.kind \in {"write", "delete"} /\ operation[r.key] = r.kind
  BY DEF Accounted, Requested, Typed, TypeOK, Request
<1>2. stored' = [stored EXCEPT ![r.key] =
                   IF r.kind = "write" THEN @ \cup {r.batch} ELSE {}]
  BY DEF Applied
<1>3. r.kind = "write" => ~emptied[r.key]
  BY <1>1 DEF Accounted, Emptied
<1>4. ASSUME NEW k \in Keys, emptied'[k] PROVE stored'[k] = {} /\ operation'[k] # "write"
  <2>1. CASE k = r.key
    BY <1>1, <1>2, <1>3, <1>4, <2>1 DEF Accounted, Emptied, Typed, TypeOK
  <2>2. CASE k # r.key
    BY <1>1, <1>2, <1>4, <2>2 DEF Accounted, Emptied, Typed, TypeOK
  <2> QED
    BY <2>1, <2>2
<1>5. DeletedEmptied'
  BY <1>1 DEF Accounted, DeletedEmptied, Typed, TypeOK
<1> QED
  BY <1>4, <1>5 DEF Emptied

LEMMA AccountedInit == Init => Accounted
BY DEF Init, Accounted, Requested, OneRequest, Emptied, DeletedEmptied

LEMMA AccountedNext == Typed /\ Accounted /\ [Next]_vars => Accounted'
<1> SUFFICES ASSUME Typed, Accounted, [Next]_vars PROVE Accounted'
  OBVIOUS
<1> USE DEF Typed, TypeOK, Accounted
<1>0. \A r \in requests : r.key \in Keys /\ r.kind \in {"write", "delete"}
  BY DEF Request
<1>1. CASE ~VectorStep
  <2>1. Elsewhere
    BY <1>1, OtherSteps
  <2> QED
    BY <2>1 DEF Elsewhere, NothingDeleted, Requested, OneRequest, Emptied, DeletedEmptied
<1>2. CASE BeginWrite
  <2>1. cur \in Keys /\ batch \in 0..Batches /\ Begin("write", batch)
    BY <1>2, BoundFacts DEF BeginWrite, WriterHasKey, Building
  <2>2. Requested' /\ OneRequest'
    BY <2>1, BeginKeeps
  <2>3. /\ emptied' = [emptied EXCEPT ![cur] = FALSE]
        /\ operation' = [operation EXCEPT ![cur] = "write"]
        /\ UNCHANGED <<projection, stored>> /\ projection[cur] = "writing"
    BY <1>2 DEF BeginWrite, Begin
  <2>4. Emptied' /\ DeletedEmptied'
    BY <2>1, <2>3 DEF Emptied, DeletedEmptied
  <2> QED
    BY <2>2, <2>4
<1>3. CASE BeginDelete
  <2>1. cur \in Keys /\ 0 \in 0..Batches /\ Begin("delete", 0)
    BY <1>3, BoundFacts DEF BeginDelete, WriterHasKey
  <2>2. Requested' /\ OneRequest'
    BY <2>1, BeginKeeps
  <2>3. /\ operation' = [operation EXCEPT ![cur] = "delete"]
        /\ UNCHANGED <<projection, stored, emptied>>
    BY <1>3 DEF BeginDelete, Begin
  <2>4. Emptied' /\ DeletedEmptied'
    BY <2>1, <2>3 DEF Emptied, DeletedEmptied
  <2> QED
    BY <2>2, <2>4
<1>4. CASE Written \/ Erased
  <2> PICK r \in requests :
        /\ r.key = cur /\ requests' = requests \ {r} /\ Applied(r)
        /\ operation' = [operation EXCEPT ![cur] = "none"]
        /\ UNCHANGED <<executor, projection>>
        /\ emptied' = emptied \/ (r.kind = "delete" /\ emptied' = [emptied EXCEPT ![cur] = TRUE])
    BY <1>4 DEF Written, Erased
  <2>1. Emptied' /\ DeletedEmptied'
    BY AppliedKeeps
  <2>2. \A s \in requests' : s.key # cur /\ s \in requests
    BY DEF OneRequest
  <2>3. Requested' /\ OneRequest'
    BY <1>0, <2>2 DEF Requested, OneRequest
  <2> QED
    BY <2>1, <2>3
<1>5. CASE ConfirmDeleted
  <2>1. /\ projection' = [projection EXCEPT ![cur] = "deleted"] /\ emptied[cur]
        /\ UNCHANGED <<stored, requests, operation, executor, emptied>>
    BY <1>5 DEF ConfirmDeleted
  <2> QED
    BY <2>1 DEF Requested, OneRequest, Emptied, DeletedEmptied
<1>6. ASSUME NEW r \in requests, Execute(r) \/ Lose(r) PROVE Accounted'
  <2>1. requests' = requests \ {r} /\ UNCHANGED <<operation, executor, projection, emptied>>
    BY <1>6 DEF Execute, Lose
  <2>2. Requested' /\ OneRequest'
    BY <2>1 DEF Requested, OneRequest
  <2>3. Emptied' /\ DeletedEmptied'
    <3>1. CASE Execute(r)
      BY <3>1, <2>1, AppliedKeeps DEF Execute
    <3>2. CASE Lose(r)
      BY <3>2, <2>1 DEF Lose, Emptied, DeletedEmptied
    <3> QED
      BY <1>6, <3>1, <3>2
  <2> QED
    BY <2>2, <2>3
<1>7. CASE Exit \/ RestartQdrant
  <2>1. /\ UNCHANGED <<stored, requests, operation, projection, emptied>>
        /\ \A k \in Keys : executor'[k] = "flushed" => executor[k] = "flushed" \/ requests = {}
    BY <1>7 DEF Exit, RestartQdrant
  <2> QED
    BY <1>0, <2>1 DEF Requested, OneRequest, Emptied, DeletedEmptied
<1>8. CASE Recover
  <2>1. requests = {}
    BY <1>0, <1>8 DEF Recover, Retired, Requested
  <2>2. /\ UNCHANGED <<stored, requests, projection>>
        /\ operation' = [k \in Keys |-> "none"]
        /\ emptied' = [k \in Keys |-> emptied[k] /\ operation[k] # "write"]
    BY <1>8 DEF Recover
  <2>3. \A k \in Keys : emptied'[k] = emptied[k]
    BY <2>2 DEF Emptied
  <2> QED
    BY <2>1, <2>2, <2>3 DEF Requested, OneRequest, Emptied, DeletedEmptied
<1> QED
  BY <1>1, <1>2, <1>3, <1>4, <1>5, <1>6, <1>7, <1>8 DEF VectorStep

LEMMA AlwaysAccounted == Spec => []Accounted
BY AlwaysTyped, AccountedInit, AccountedNext, PTL DEF Spec

\* What the ledger calls deleted is gone and stays gone, whatever requests were
\* delayed, lost or executed twice around crashes (mark_deleted,
\* recover_after_exit).
THEOREM DeletionIsTrue == Spec => []DeletedIsGone
<1>1. Typed /\ Accounted => DeletedIsGone
  BY DEF Typed, TypeOK, Request, Accounted, Requested, Emptied, DeletedEmptied, DeletedIsGone
<1> QED
  BY <1>1, AlwaysTyped, AlwaysAccounted, PTL

-----------------------------------------------------------------------------
(* The projection of a new attempt is fresh.                               *)

Placed == {"storing", "attaching", "writing", "sending", "recording", "publishing"}

\* Only claimed attempts have projections.
FreshKey == \A k \in Keys : projection[k] # "absent" => k[2] <= attempt[k[1]]

\* Nothing is written for a projection before it is registered.
AbsentEmpty ==
    \A k \in Keys : projection[k] = "absent" =>
        stored[k] = {} /\ operation[k] = "none" /\ ~archived[k]

WriterPlace ==
    /\ pc \in {"admitting", "registering"} =>
          projection[cur] = "absent" /\ cur[2] <= attempt[cur[1]]
    /\ pc \in Placed \cup {"deleting", "erasing", "confirming"} => projection[cur] # "absent"
    /\ pc \in Placed \ {"sending"} => operation[cur] = "none"
    /\ \A k \in todo : projection[k] # "absent"

Fresh == FreshKey /\ AbsentEmpty /\ WriterPlace

LEMMA FreshInit == Init => Fresh
BY DEF Init, Fresh, FreshKey, AbsentEmpty, WriterPlace, Placed

LEMMA FreshNext == Typed /\ Accounted /\ Fresh /\ [Next]_vars => Fresh'
<1> SUFFICES ASSUME Typed, Accounted, Fresh, [Next]_vars PROVE Fresh'
  OBVIOUS
<1> USE KeyFacts, BoundFacts
    DEF Typed, TypeOK, WriterHasKey, Building, Cleaning, Placed, Fresh, FreshKey, AbsentEmpty,
        WriterPlace
<1>0. \A r \in requests : r.key \in Keys /\ operation[r.key] = r.kind /\ r.kind # "none"
  BY DEF Request, Accounted, Requested
<1>1. CASE AddBuild
  BY <1>1, <1>0 DEF AddBuild
<1>2. CASE Revoke
  BY <1>2, <1>0 DEF Revoke
<1>3. ASSUME NEW b \in Builds, LoseJob(b) PROVE Fresh'
  BY <1>3, <1>0 DEF LoseJob
<1>4. ASSUME NEW b \in Builds, Claim(b) PROVE Fresh'
  <2>1. attempt[b] + 1 \in 1..MaxAttempts
    BY <1>4 DEF Claim, HasAttempts
  <2>2. cur' \in Keys /\ cur'[1] = b /\ cur'[2] = attempt[b] + 1
    BY <1>4, <2>1 DEF Claim
  <2>3. /\ attempt' = [attempt EXCEPT ![b] = @ + 1] /\ pc' = "admitting"
        /\ UNCHANGED <<projection, stored, operation, archived, todo>>
    BY <1>4 DEF Claim
  <2>4. projection[cur'] = "absent"
    BY <2>2 DEF Claim
  <2>5. FreshKey'
    BY <2>3
  <2> QED
    BY <2>2, <2>3, <2>4, <2>5
<1>5. CASE Admit
  BY <1>5, <1>0 DEF Admit
<1>6. CASE Register
  BY <1>6, <1>0 DEF Register
<1>7. CASE Store
  BY <1>7, <1>0 DEF Store
<1>8. CASE Attach
  BY <1>8, <1>0 DEF Attach
<1>9. CASE BeginWrite
  BY <1>9, <1>0 DEF BeginWrite, Begin
<1>10. CASE Written
  BY <1>10, <1>0 DEF Written, Applied
<1>11. CASE Verify
  BY <1>11, <1>0 DEF Verify, AllStored
<1>12. CASE Record
  BY <1>12, <1>0 DEF Record
<1>13. CASE Publish
  BY <1>13, <1>0 DEF Publish, MayWrite, SourceUnchanged
<1>14. CASE Raise
  BY <1>14, <1>0 DEF Raise
<1>15. CASE Close
  BY <1>15, <1>0 DEF Close
<1>16. CASE StartCleanup
  BY <1>16, <1>0 DEF StartCleanup, Revoked, Registered
<1>17. CASE BeginDelete
  BY <1>17, <1>0 DEF BeginDelete, Begin
<1>18. CASE Erased
  BY <1>18, <1>0 DEF Erased, Applied
<1>19. CASE ConfirmDeleted
  BY <1>19, <1>0 DEF ConfirmDeleted
<1>20. CASE Unlink
  BY <1>20, <1>0 DEF Unlink, EveryBackendEmpty, Registered
<1>21. CASE FinishCleanup
  BY <1>21, <1>0 DEF FinishCleanup
<1>22. CASE RaiseCleanup
  BY <1>22, <1>0 DEF RaiseCleanup
<1>23. ASSUME NEW k \in Keys, MarkDeleting(k) PROVE Fresh'
  BY <1>23, <1>0 DEF MarkDeleting
<1>24. ASSUME NEW r \in requests, Execute(r) PROVE Fresh'
  BY <1>24, <1>0 DEF Execute, Applied
<1>25. ASSUME NEW r \in requests, Lose(r) PROVE Fresh'
  BY <1>25, <1>0 DEF Lose
<1>26. CASE Exit
  BY <1>26, <1>0 DEF Exit
<1>27. CASE StartWriter
  BY <1>27, <1>0 DEF StartWriter
<1>28. CASE RestartQdrant
  BY <1>28, <1>0 DEF RestartQdrant
<1>29. CASE Recover
  BY <1>29, <1>0 DEF Recover
<1>30. CASE UNCHANGED vars
  BY <1>30, <1>0
<1> QED
  BY <1>1, <1>2, <1>3, <1>4, <1>5, <1>6, <1>7, <1>8, <1>9, <1>10, <1>11, <1>12, <1>13, <1>14, <1>15, <1>16, <1>17, <1>18, <1>19, <1>20, <1>21, <1>22, <1>23, <1>24, <1>25, <1>26, <1>27, <1>28, <1>29, <1>30 DEF Next, Ingest, Cleanup

LEMMA AlwaysFresh == Spec => []Fresh
BY AlwaysTyped, AlwaysAccounted, FreshInit, FreshNext, PTL DEF Spec

-----------------------------------------------------------------------------
(* Files outlive vectors, and a finished cleanup is final.                 *)

Backed ==
    \A k \in Keys : (stored[k] # {} \/ operation[k] = "write") => archived[k]

ArchiveKept == \A k \in Keys : archived[k] /\ ~files[k] => projection[k] = "deleted"

\* A cleanup works on a revoked document; what it has not to do is done.
CleaningUp ==
    /\ pc \in Cleaning =>
          /\ deleted
          /\ \A k \in Keys \ todo : projection[k] \in {"absent", "deleted"}
    /\ pc = "finishing" => todo = {}

StoredFiles == pc = "attaching" => files[cur]

CleanedUp ==
    cleaned =>
        /\ deleted
        /\ pc \notin Placed
        /\ \A k \in Keys : ~files[k] /\ projection[k] \in {"absent", "deleted"}

Filed == Backed /\ ArchiveKept /\ CleaningUp /\ StoredFiles /\ CleanedUp

LEMMA FiledInit == Init => Filed
BY DEF Init, Filed, Backed, ArchiveKept, CleaningUp, StoredFiles, CleanedUp, Cleaning, Placed

LEMMA FiledNext == Typed /\ Accounted /\ Fresh /\ Filed /\ [Next]_vars => Filed'
<1> SUFFICES ASSUME Typed, Accounted, Fresh, Filed, [Next]_vars PROVE Filed'
  OBVIOUS
<1> USE BoundFacts
    DEF Typed, TypeOK, WriterHasKey, Building, Cleaning, Placed, Fresh, AbsentEmpty, WriterPlace,
        Filed, Backed, ArchiveKept, CleaningUp, StoredFiles, CleanedUp
<1>0. \A r \in requests : r.key \in Keys /\ operation[r.key] = r.kind /\ r.kind # "none"
  BY DEF Request, Accounted, Requested
<1>1. CASE AddBuild
  BY <1>1, <1>0 DEF AddBuild
<1>2. CASE Revoke
  BY <1>2, <1>0 DEF Revoke
<1>3. ASSUME NEW b \in Builds, LoseJob(b) PROVE Filed'
  BY <1>3, <1>0 DEF LoseJob
<1>4. ASSUME NEW b \in Builds, Claim(b) PROVE Filed'
  BY <1>4, <1>0 DEF Claim
<1>5. CASE Admit
  BY <1>5, <1>0 DEF Admit
<1>6. CASE Register
  BY <1>6, <1>0 DEF Register, MayWrite, SourceUnchanged
<1>7. CASE Store
  BY <1>7, <1>0 DEF Store
<1>8. CASE Attach
  BY <1>8, <1>0 DEF Attach, MayWrite, SourceUnchanged
<1>9. CASE BeginWrite
  BY <1>9, <1>0 DEF BeginWrite, Begin
<1>10. CASE Written
  BY <1>10, <1>0 DEF Written, Applied
<1>11. CASE Verify
  BY <1>11, <1>0 DEF Verify, AllStored
<1>12. CASE Record
  BY <1>12, <1>0 DEF Record
<1>13. CASE Publish
  BY <1>13, <1>0 DEF Publish, MayWrite, SourceUnchanged
<1>14. CASE Raise
  BY <1>14, <1>0 DEF Raise
<1>15. CASE Close
  BY <1>15, <1>0 DEF Close
<1>16. CASE StartCleanup
  BY <1>16, <1>0 DEF StartCleanup, Revoked, Registered
<1>17. CASE BeginDelete
  BY <1>17, <1>0 DEF BeginDelete, Begin
<1>18. CASE Erased
  BY <1>18, <1>0 DEF Erased, Applied
<1>19. CASE ConfirmDeleted
  BY <1>19, <1>0 DEF ConfirmDeleted
<1>20. CASE Unlink
  BY <1>20, <1>0 DEF Unlink, EveryBackendEmpty, Registered
<1>21. CASE FinishCleanup
  BY <1>21, <1>0 DEF FinishCleanup
<1>22. CASE RaiseCleanup
  BY <1>22, <1>0 DEF RaiseCleanup
<1>23. ASSUME NEW k \in Keys, MarkDeleting(k) PROVE Filed'
  BY <1>23, <1>0 DEF MarkDeleting
<1>24. ASSUME NEW r \in requests, Execute(r) PROVE Filed'
  BY <1>24, <1>0 DEF Execute, Applied
<1>25. ASSUME NEW r \in requests, Lose(r) PROVE Filed'
  BY <1>25, <1>0 DEF Lose
<1>26. CASE Exit
  BY <1>26, <1>0 DEF Exit
<1>27. CASE StartWriter
  BY <1>27, <1>0 DEF StartWriter
<1>28. CASE RestartQdrant
  BY <1>28, <1>0 DEF RestartQdrant
<1>29. CASE Recover
  BY <1>29, <1>0 DEF Recover
<1>30. CASE UNCHANGED vars
  BY <1>30, <1>0
<1> QED
  BY <1>1, <1>2, <1>3, <1>4, <1>5, <1>6, <1>7, <1>8, <1>9, <1>10, <1>11, <1>12, <1>13, <1>14, <1>15, <1>16, <1>17, <1>18, <1>19, <1>20, <1>21, <1>22, <1>23, <1>24, <1>25, <1>26, <1>27, <1>28, <1>29, <1>30 DEF Next, Ingest, Cleanup

LEMMA AlwaysFiled == Spec => []Filed
BY AlwaysTyped, AlwaysAccounted, AlwaysFresh, FiledInit, FiledNext, PTL DEF Spec

\* Whatever Qdrant holds or may still receive of a document can be found from
\* its files and deleted (projection_cleanup.py, line 1).
THEOREM FilesLast == Spec => []FilesOutliveVectors
<1>1. Typed /\ Accounted /\ Filed => FilesOutliveVectors
  BY DEF Typed, TypeOK, Request, Accounted, Requested, Emptied, DeletedEmptied, Filed, Backed,
         ArchiveKept, FilesOutliveVectors
<1> QED
  BY <1>1, AlwaysTyped, AlwaysAccounted, AlwaysFiled, PTL

\* After a reported cleanup nothing of the document is left, for ever
\* (cleanup_document).
THEOREM CleanupIsFinal == Spec => []CleanedIsEmpty
<1>1. Typed /\ Accounted /\ Fresh /\ Filed => CleanedIsEmpty
  BY DEF Typed, TypeOK, Request, Accounted, Requested, Emptied, DeletedEmptied, Fresh,
         AbsentEmpty, Filed, CleanedUp, CleanedIsEmpty
<1> QED
  BY <1>1, AlwaysTyped, AlwaysAccounted, AlwaysFresh, AlwaysFiled, PTL

\* No cleanup of a revoked document misses a vector, whatever crashes, late
\* requests and restarts come between (projection_cleanup.py, cleanup_document).
THEOREM CleanupIsComplete == Spec => []CleanupMissesNothing
BY FilesLast, CleanupIsFinal, PTL DEF CleanupMissesNothing

-----------------------------------------------------------------------------
(* The active projection is complete, and of the newest published build.   *)

VerifiedComplete == pc \in {"recording", "publishing"} => stored[cur] = 1..Batches

ReadyComplete ==
    \A k \in Keys : projection[k] = "ready" => stored[k] = 1..Batches /\ operation[k] = "none"

ActiveReady ==
    /\ active <= revision
    /\ active # 0 /\ ~deleted =>
          winner[active] \in 1..MaxAttempts /\ projection[<<active, winner[active]>>] = "ready"

Complete == VerifiedComplete /\ ReadyComplete /\ ActiveReady

LEMMA CompleteInit == Init => Complete
BY DEF Init, Complete, VerifiedComplete, ReadyComplete, ActiveReady

LEMMA CompleteNext ==
    Typed /\ Accounted /\ Fresh /\ Filed /\ Complete /\ [Next]_vars => Complete'
<1> SUFFICES ASSUME Typed, Accounted, Fresh, Filed, Complete, [Next]_vars PROVE Complete'
  OBVIOUS
<1> USE BoundFacts, KeyFacts
    DEF Typed, TypeOK, WriterHasKey, Building, Cleaning, Placed, Fresh, WriterPlace, Filed, CleaningUp,
        Complete, VerifiedComplete, ReadyComplete, ActiveReady, Builds
<1>0. \A r \in requests : r.key \in Keys /\ operation[r.key] = r.kind /\ r.kind # "none"
  BY DEF Request, Accounted, Requested
<1>1. CASE AddBuild
  BY <1>1, <1>0 DEF AddBuild
<1>2. CASE Revoke
  BY <1>2, <1>0 DEF Revoke
<1>3. ASSUME NEW b \in Builds, LoseJob(b) PROVE Complete'
  BY <1>3, <1>0 DEF LoseJob
<1>4. ASSUME NEW b \in Builds, Claim(b) PROVE Complete'
  BY <1>4, <1>0 DEF Claim
<1>5. CASE Admit
  BY <1>5, <1>0 DEF Admit
<1>6. CASE Register
  <2>1. /\ projection' = [projection EXCEPT ![cur] = IF @ = "absent" THEN "writing" ELSE @]
        /\ pc' = "storing"
        /\ UNCHANGED <<document, stored, operation>>
    BY <1>6 DEF Register
  <2>2. \A k \in Keys : projection'[k] = "ready" <=> projection[k] = "ready"
    BY <2>1
  <2>3. active # 0 /\ ~deleted => <<active, winner[active]>> \in Keys
    OBVIOUS
  <2> QED
    BY <2>1, <2>2, <2>3
<1>7. CASE Store
  BY <1>7, <1>0 DEF Store
<1>8. CASE Attach
  BY <1>8, <1>0 DEF Attach, MayWrite, SourceUnchanged
<1>9. CASE BeginWrite
  BY <1>9, <1>0 DEF BeginWrite, Begin
<1>10. CASE Written
  BY <1>10, <1>0 DEF Written, Applied
<1>11. CASE Verify
  BY <1>11, <1>0 DEF Verify, AllStored
<1>12. CASE Record
  BY <1>12, <1>0 DEF Record
<1>13. CASE Publish
  BY <1>13, <1>0 DEF Publish, MayWrite, SourceUnchanged
<1>14. CASE Raise
  BY <1>14, <1>0 DEF Raise
<1>15. CASE Close
  BY <1>15, <1>0 DEF Close
<1>16. CASE StartCleanup
  BY <1>16, <1>0 DEF StartCleanup, Revoked, Registered
<1>17. CASE BeginDelete
  BY <1>17, <1>0 DEF BeginDelete, Begin
<1>18. CASE Erased
  BY <1>18, <1>0 DEF Erased, Applied
<1>19. CASE ConfirmDeleted
  BY <1>19, <1>0 DEF ConfirmDeleted
<1>20. CASE Unlink
  BY <1>20, <1>0 DEF Unlink, EveryBackendEmpty, Registered
<1>21. CASE FinishCleanup
  BY <1>21, <1>0 DEF FinishCleanup
<1>22. CASE RaiseCleanup
  BY <1>22, <1>0 DEF RaiseCleanup
<1>23. ASSUME NEW k \in Keys, MarkDeleting(k) PROVE Complete'
  BY <1>23, <1>0 DEF MarkDeleting
<1>24. ASSUME NEW r \in requests, Execute(r) PROVE Complete'
  <2>1. \A k \in Keys : operation[k] = "none" => stored'[k] = stored[k]
    BY <1>24, <1>0 DEF Execute, Applied
  <2>2. UNCHANGED <<document, projection, operation, pc, cur>>
    BY <1>24 DEF Execute, Applied
  <2> QED
    BY <2>1, <2>2
<1>25. ASSUME NEW r \in requests, Lose(r) PROVE Complete'
  BY <1>25, <1>0 DEF Lose
<1>26. CASE Exit
  BY <1>26, <1>0 DEF Exit
<1>27. CASE StartWriter
  BY <1>27, <1>0 DEF StartWriter
<1>28. CASE RestartQdrant
  BY <1>28, <1>0 DEF RestartQdrant
<1>29. CASE Recover
  BY <1>29, <1>0 DEF Recover
<1>30. CASE UNCHANGED vars
  BY <1>30, <1>0
<1> QED
  BY <1>1, <1>2, <1>3, <1>4, <1>5, <1>6, <1>7, <1>8, <1>9, <1>10, <1>11, <1>12, <1>13, <1>14, <1>15, <1>16, <1>17, <1>18, <1>19, <1>20, <1>21, <1>22, <1>23, <1>24, <1>25, <1>26, <1>27, <1>28, <1>29, <1>30 DEF Next, Ingest, Cleanup

LEMMA AlwaysComplete == Spec => []Complete
BY AlwaysTyped, AlwaysAccounted, AlwaysFresh, AlwaysFiled, CompleteInit, CompleteNext, PTL
   DEF Spec

\* What searches of a live document read was verified complete and no request
\* under way takes from it (publish_candidate, require_ready).
THEOREM ActiveProjectionComplete == Spec => []ActiveIsComplete
<1>1. Typed /\ Accounted /\ Complete => ActiveIsComplete
  <2> SUFFICES ASSUME Typed, Accounted, Complete, active # 0, ~deleted
               PROVE  LET k == <<active, winner[active]>> IN
                      /\ projection[k] = "ready" /\ stored[k] = 1..Batches
                      /\ \A r \in requests : r.key = k => r.kind = "write"
    BY DEF ActiveIsComplete
  <2>1. <<active, winner[active]>> \in Keys
    BY KeyFacts, BoundFacts DEF Complete, ActiveReady, Typed, TypeOK, Builds
  <2> QED
    BY <2>1 DEF Accounted, Requested, Complete, ReadyComplete, ActiveReady, Typed, TypeOK, Request
<1> QED
  BY <1>1, AlwaysTyped, AlwaysAccounted, AlwaysComplete, PTL

\* The newest published build wins and a revoked document stays unpublished
\* (the compare-and-set of publish_build).
THEOREM NewestBuildWins == Spec => NewestWins
<1>1. Typed /\ Complete /\ [Next]_vars =>
        [active' # active => active' = 0 \/ (active' > active /\ ~deleted)]_active
  <2> SUFFICES ASSUME Typed, Complete, [Next]_vars, active' # active
               PROVE  active' = 0 \/ (active' > active /\ ~deleted)
    OBVIOUS
  <2>1. CASE Publish
    BY <2>1, BoundFacts, KeyFacts
       DEF Publish, MayWrite, SourceUnchanged, Typed, TypeOK, Complete, ActiveReady, Builds,
           WriterHasKey, Building
  <2>2. CASE FinishCleanup
    BY <2>2 DEF FinishCleanup
  <2> QED
    BY <2>1, <2>2
       DEF Next, Ingest, Cleanup, AddBuild, Revoke, LoseJob, Claim, Admit, Register, Store, Attach,
           BeginWrite, Written, Verify, Record, Raise, Close, StartCleanup, BeginDelete, Erased,
           ConfirmDeleted, Unlink, RaiseCleanup, MarkDeleting, Execute, Lose, Exit, StartWriter,
           RestartQdrant, Recover
<1> QED
  BY <1>1, AlwaysTyped, AlwaysComplete, PTL DEF Spec, NewestWins
=============================================================================
