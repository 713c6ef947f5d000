---------------------------- MODULE MCGoalIntake ----------------------------
(* Small files and goals for GoalIntake: of the goals submitted one        *)
(* qualifies, one has gaps, one is outside although it has a gap, and one  *)
(* comes with a command that is refused; of the files two are accepted and *)
(* one is refused.  The classifications are compared on every pair of      *)
(* signals and on every combination of the other fields.                   *)
EXTENDS GoalIntake, TLC

Plain == [signals |-> {}, max_screens |-> 5, mentioned |-> 0, primary_flows |-> 1,
          client_only |-> TRUE, mock_data |-> TRUE, gaps |-> {},
          start_run |-> TRUE, unique_ids |-> TRUE]

MCGoalSample == {Plain, [Plain EXCEPT !.gaps = {"vague_problem", "vague_flow"}],
                 [Plain EXCEPT !.signals = {"real_payment"}, !.gaps = {"vague_flow"}],
                 [Plain EXCEPT !.start_run = FALSE]}

UpToTwo == UNION {kSubset(n, Signal) : n \in 0..2}

MCGoalUniverse ==
  [signals : UpToTwo, max_screens : {5, 6}, mentioned : {0, 6}, primary_flows : {1, 2},
   client_only : BOOLEAN, mock_data : BOOLEAN, gaps : {{}, Gap},
   start_run : {TRUE}, unique_ids : {TRUE}]

Clean == [c \in Content |-> "no"]

Text == [declared |-> "text/plain", name |-> "safe", size |-> 2, digest_matches |-> TRUE,
         bytes |-> [detected |-> "text/plain", holds |-> Clean, extent |-> "within", layout |-> "plain"]]

MCFileSample == {Text, [Text EXCEPT !.size = 1, !.declared = "text/markdown"],
                 [Text EXCEPT !.bytes.holds["malware"] = "beyond"]}

(* Files that hold at most one denied content.                             *)
MCBytes ==
  {b \in [detected : (MediaType \ {"text/markdown"}) \cup {"unknown"},
          holds : {[Clean EXCEPT ![c] = p] : c \in Content, p \in Place},
          extent : {"within", "over"}, layout : {"plain", "hidden", "unreadable", "crowded"}] : Occurs(b)}

MCFileUniverse ==
  [declared : MediaType \cup {"other"}, name : {"safe", "unsafe", "executable"}, size : 0..4,
   digest_matches : BOOLEAN, bytes : MCBytes]

(* A goal names no attachment, or two objects, also one twice.             *)
MCIdLists == {<<>>} \cup {<<o, p>> : o, p \in Object}

MCPerFileMax == [m \in MediaType |-> IF m \in {"text/plain", "text/markdown"} THEN 2 ELSE 3]

Symmetry == Permutations(Object) \cup Permutations(Handler)
=============================================================================
