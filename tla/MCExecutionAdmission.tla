------------------------ MODULE MCExecutionAdmission ------------------------
(* Instances of ExecutionAdmission for TLC. *)
EXTENDS ExecutionAdmission, TLC

Symmetry == Permutations(Requests)
=============================================================================
