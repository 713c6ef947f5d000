-------------------------- MODULE MCOrchestration --------------------------
(* Model-checking instances of Orchestration.                              *)
EXTENDS Orchestration, TLC

(* Workers behave alike and runs are independent of their names.           *)
Symmetry == Permutations(Worker) \cup Permutations(Run)
=============================================================================
