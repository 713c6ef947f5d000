-------------------------- MODULE MCObjectRecords --------------------------
(* Model-checking instances of ObjectRecords.  The configurations check    *)
(* liveness properties with the invariants, hence no symmetry.             *)
EXTENDS ObjectRecords
=============================================================================
