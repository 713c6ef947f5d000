-------------------------- MODULE MCDecisionRecord --------------------------
(* Two departures from the protocol or runs in the working tree; the       *)
(* commits suffice for every recovery.                                     *)
EXTENDS DecisionRecord
=============================================================================
