----------------------------- MODULE MCJobQueue -----------------------------
(* Small instances of JobQueue.                                            *)
EXTENDS JobQueue

\* Qdrant deployment: generation workers share the learning tasks, and the
\* writer runs the other kinds and maintains the queue.
SplitClaimable ==
    [w \in Workers |-> IF w \in Generators THEN Tasks \ Evaluation ELSE Evaluation]
=============================================================================
