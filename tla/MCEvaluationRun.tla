--------------------------- MODULE MCEvaluationRun ---------------------------
(* A small instance of EvaluationRun.                                      *)
EXTENDS EvaluationRun

\* Chroma deployment: the owner runs every kind.
OwnerClaimable == [w \in Workers |-> Tasks]
=============================================================================
