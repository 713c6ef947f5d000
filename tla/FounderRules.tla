---------------------------- MODULE FounderRules ----------------------------
(***************************************************************************)
(* The founder's commands as functions of the aggregates they act on:      *)
(* companies.service.ts (create, updateProfile) and initiatives.service.ts *)
(* (create, createGoalAndRun).  One founder, hence at most one company and *)
(* one active prototype initiative.                                        *)
(*                                                                         *)
(* The state of the aggregates is the version of the current company       *)
(* profile (0: no company), the row_version of the initiative (0: none)    *)
(* and the number of goal versions, which is also the number of runs.      *)
(* Request bodies are reduced to one number: the expected version of a     *)
(* replacement or a goal, any content of a creation.                       *)
(***************************************************************************)
EXTENDS Naturals

CONSTANTS
  Op,   \* commands the founder may send
  Key,  \* idempotency keys
  Arg   \* request bodies

Operation == {"companies.create", "companies.profile.replace",
              "initiatives.create", "initiatives.goals.create_and_start"}

ASSUME RulesConstants == Op \subseteq Operation /\ Arg \subseteq Nat

Request == [op : Op, key : Key, arg : Arg]
Scope   == Op \X Key     \* UNIQUE (actor_id, operation, idempotency_key)
ScopeOf(req) == <<req.op, req.key>>

Aggregates == [profile : Nat, initiative : Nat, goals : Nat]
NoAggregates == [profile |-> 0, initiative |-> 0, goals |-> 0]

(* Where the founder may stand: at the very beginning, or with a company,  *)
(* or with an initiative too, created under keys that are not used again.  *)
Beginnings ==
  {NoAggregates, [NoAggregates EXCEPT !.profile = 1],
   [NoAggregates EXCEPT !.profile = 1, !.initiative = 1]}

Result == [status : {200, 201, 404, 409, 412, 500}, version : Nat]

Reply(status, version) == [status |-> status, version |-> version]
Failure(status) == Reply(status, 0)
Accepted(result) == result.status \in {200, 201}

CreateCompany(a) ==
  IF a.profile # 0 THEN Failure(409) ELSE Reply(201, 1)

ReplaceProfile(a, expected) ==
  IF a.profile = 0 THEN Failure(404)
  ELSE IF a.profile # expected THEN Failure(412)
  ELSE Reply(200, a.profile + 1)

CreateInitiative(a) ==
  IF a.initiative # 0 THEN Failure(409) ELSE Reply(201, 1)

CreateGoalAndRun(a, expected) ==
  IF a.initiative = 0 THEN Failure(404)
  ELSE IF a.initiative # expected THEN Failure(412)
  ELSE Reply(201, a.goals + 1)

(* The commands of an initiative need the company the session was resolved *)
(* to when the request came in.                                            *)
InScope(req, a) ==
  req.op \in {"initiatives.create", "initiatives.goals.create_and_start"} => a.profile # 0

(* What the command answers, if it is executed on aggregates a.            *)
Outcome(req, a) ==
  CASE req.op = "companies.create"          -> CreateCompany(a)
    [] req.op = "companies.profile.replace" -> ReplaceProfile(a, req.arg)
    [] req.op = "initiatives.create"        -> CreateInitiative(a)
    [] OTHER                                -> CreateGoalAndRun(a, req.arg)

(* The aggregates after an accepted command.                               *)
Effect(req, a) ==
  CASE req.op = "companies.create"          -> [a EXCEPT !.profile = 1]
    [] req.op = "companies.profile.replace" -> [a EXCEPT !.profile = @ + 1]
    [] req.op = "initiatives.create"        -> [a EXCEPT !.initiative = 1]
    [] OTHER -> [a EXCEPT !.initiative = @ + 1, !.goals = @ + 1]
=============================================================================
