--------------------------- MODULE CommandLedger ---------------------------
(***************************************************************************)
(* What idempotent commands promise: each accepted command is executed     *)
(* alone, on the state its predecessors left, and recorded under its key   *)
(* in the same step; a key never gets a second record.                     *)
(***************************************************************************)
EXTENDS FounderRules

CONSTANT NoRecord

VARIABLES
  aggregates,  \* the founder's company, initiative and goals
  record       \* idempotency_records: the request body and the answer

ledger == <<aggregates, record>>

Init ==
  /\ aggregates \in Beginnings
  /\ record = [s \in Scope |-> NoRecord]

Execute(req) ==
  LET result == Outcome(req, aggregates)
  IN  /\ InScope(req, aggregates)
      /\ record[ScopeOf(req)] = NoRecord
      /\ Accepted(result)
      /\ aggregates' = Effect(req, aggregates)
      /\ record' = [record EXCEPT ![ScopeOf(req)] = [arg |-> req.arg, result |-> result]]

Next == \E req \in Request : Execute(req)

Spec == Init /\ [][Next]_ledger
=============================================================================
