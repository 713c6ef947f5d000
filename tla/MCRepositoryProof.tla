-------------------------- MODULE MCRepositoryProof --------------------------
(* One prover and one colleague; an edit, a commit and a kill, in any mix. *)
EXTENDS RepositoryProof
=============================================================================
