--------------------------- MODULE MCEventOutbox ---------------------------
(* Model-checking instances of EventOutbox.                                *)
EXTENDS EventOutbox, TLC

(* Publishers, transactions and runs are interchangeable.                  *)
Symmetry == Permutations(Publisher) \cup Permutations(Tx) \cup Permutations(Run)
=============================================================================
