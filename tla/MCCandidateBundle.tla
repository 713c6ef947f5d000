------------------------- MODULE MCCandidateBundle -------------------------
(* Two contents per source, so that an edit can be undone while a build    *)
(* runs.  The two are alike: all runs start from the one of them.          *)
EXTENDS CandidateBundle

CONSTANT First

MCInit == Init /\ recipe = First

MCSpec == MCInit /\ [][Next]_vars /\ Fairness
=============================================================================
