------------------------- MODULE MCFounderSessions -------------------------
(* Model-checking instance of FounderSessions: two of everything, so that  *)
(* two people race for one invite and one person redeems two.              *)
EXTENDS FounderSessions
=============================================================================
