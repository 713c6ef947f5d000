------------------------- MODULE MCCommandExecutor -------------------------
(* Two handlers, two keys and two bodies: the pairs the races are about.   *)
EXTENDS CommandExecutor
=============================================================================
