-------------------------- MODULE CommandExecutor --------------------------
(***************************************************************************)
(* command-executor.service.ts: run, with the bodies of FounderRules, as   *)
(* executed by concurrent request handlers of the API.  A handler is one   *)
(* SERIALIZABLE transaction: its reads see the snapshot of its first       *)
(* statement, a row lock or a unique entry of a transaction in flight      *)
(* makes it wait, and a row or a unique entry that somebody committed      *)
(* after the snapshot makes it fail.  A failure is no DomainError, so the  *)
(* filter answers 500.                                                     *)
(*                                                                         *)
(* Left out: attachments bound to a goal, the qualification of a goal      *)
(* (refused goals never reach the executor), expiry of records (nothing    *)
(* reads expires_at).                                                      *)
(***************************************************************************)
EXTENDS FounderRules, FiniteSets

CONSTANTS
  Handler,      \* request handlers running at the same time
  MaxRequests,  \* bound: requests received
  MaxFaults,    \* bound: transactions that fail for other reasons
  NoRecord, NoHandler, NoRequest

ASSUME ExecutorConstants ==
  /\ MaxRequests \in Nat /\ MaxFaults \in Nat
  /\ NoHandler \notin Handler /\ NoRequest \notin Request
  /\ NoRecord \notin [arg : Arg, result : Result]

VARIABLES
  aggregates,  \* committed companies, initiatives, goal_versions
  record,      \* committed idempotency_records
  keyOwner,    \* the transaction in flight that inserted a record
  rowOwner,    \* the transaction in flight that locked or inserted a row
  handler,     \* per handler: step, request, snapshot, record seen, result
  answers,     \* every answer given so far
  received,    \* number of requests received
  faults       \* faults so far

vars == <<aggregates, record, keyOwner, rowOwner, handler, answers, received, faults>>

Row == {"company", "initiative"}
Record == [arg : Arg, result : Result]
Step == {"idle", "inserting", "looking", "executing", "committing"}
Transaction == [step : Step, req : Request \cup {NoRequest}, snapshot : Aggregates,
                known : Record \cup {NoRecord}]

TypeOK ==
  /\ aggregates \in Aggregates
  /\ record \in [Scope -> Record \cup {NoRecord}]
  /\ keyOwner \in [Scope -> Handler \cup {NoHandler}]
  /\ rowOwner \in [Row -> Handler \cup {NoHandler}]
  /\ handler \in [Handler -> Transaction]
  /\ \A h \in Handler : handler[h].step = "idle" <=> handler[h].req = NoRequest
  /\ answers \subseteq [req : Request, result : Result]
  /\ received \in 0..MaxRequests
  /\ faults \in 0..MaxFaults

Idle == [step |-> "idle", req |-> NoRequest, snapshot |-> NoAggregates, known |-> NoRecord]

Init ==
  /\ aggregates \in Beginnings
  /\ record = [s \in Scope |-> NoRecord]
  /\ keyOwner = [s \in Scope |-> NoHandler]
  /\ rowOwner = [x \in Row |-> NoHandler]
  /\ handler = [h \in Handler |-> Idle]
  /\ answers = {}
  /\ received = 0
  /\ faults = 0

Goto(h, step) == handler' = [handler EXCEPT ![h].step = step]

Answer(h, result) ==
  answers' = answers \cup {[req |-> handler[h].req, result |-> result]}

ReleaseLocks(h) ==
  /\ keyOwner' = [s \in Scope |-> IF keyOwner[s] = h THEN NoHandler ELSE keyOwner[s]]
  /\ rowOwner' = [x \in Row |-> IF rowOwner[x] = h THEN NoHandler ELSE rowOwner[x]]

(* Mutant of Finish: the row locks of the transaction are kept.            *)
FinishHoldingRows(h, result) ==
  /\ Answer(h, result)
  /\ keyOwner' = [s \in Scope |-> IF keyOwner[s] = h THEN NoHandler ELSE keyOwner[s]]
  /\ handler' = [handler EXCEPT ![h] = Idle]
  /\ UNCHANGED rowOwner

(* The transaction ends and the request is answered.                       *)
Finish(h, result) ==
  /\ Answer(h, result)
  /\ ReleaseLocks(h)
  /\ handler' = [handler EXCEPT ![h] = Idle]

(* A DomainError or a database error: everything is rolled back, the       *)
(* idempotency record included.                                            *)
Reject(h, status) ==
  /\ Finish(h, Failure(status))
  /\ UNCHANGED <<aggregates, record>>
-----------------------------------------------------------------------------
(* A request arrives; the first statement fixes the snapshot.  Clients     *)
(* retry at will, with the same key and body or with another body.         *)
Receive(h, req) ==
  /\ handler[h].step = "idle"
  /\ InScope(req, aggregates)
  /\ received < MaxRequests
  /\ received' = received + 1
  /\ handler' = [handler EXCEPT ![h] =
       [step |-> "inserting", req |-> req, snapshot |-> aggregates,
        known |-> record[ScopeOf(req)]]]
  /\ UNCHANGED <<aggregates, record, keyOwner, rowOwner, answers, faults>>

(* Without a company the executor is not called at all.                    *)
Refuse(h, req) ==
  /\ handler[h].step = "idle"
  /\ ~InScope(req, aggregates)
  /\ received < MaxRequests
  /\ received' = received + 1
  /\ answers' = answers \cup {[req |-> req, result |-> Failure(404)]}
  /\ UNCHANGED <<aggregates, record, keyOwner, rowOwner, handler, faults>>

(* A record was committed after the snapshot.                              *)
KeyTaken(h) ==
  /\ handler[h].known = NoRecord
  /\ record[ScopeOf(handler[h].req)] # NoRecord

(* INSERT ... ON CONFLICT DO NOTHING.  A record in the snapshot is left    *)
(* alone; a record in flight is waited for; one committed meanwhile is     *)
(* invisible to the snapshot and fails the transaction.                    *)
InsertRecord(h) ==
  LET s == ScopeOf(handler[h].req)
  IN  /\ handler[h].step = "inserting"
      /\ \/ /\ handler[h].known # NoRecord
            /\ Goto(h, "looking")
            /\ UNCHANGED <<aggregates, record, keyOwner, rowOwner, answers>>
         \/ /\ handler[h].known = NoRecord
            /\ keyOwner[s] = NoHandler
            /\ IF KeyTaken(h)
                 THEN Reject(h, 500)
                 ELSE /\ keyOwner' = [keyOwner EXCEPT ![s] = h]
                      /\ Goto(h, "executing")
                      /\ UNCHANGED <<aggregates, record, rowOwner, answers>>
      /\ UNCHANGED <<received, faults>>

(* Mutant of Lookup: the digest of the request is not compared.            *)
LookupAnyBody(h) ==
  /\ handler[h].step = "looking"
  /\ Finish(h, handler[h].known.result)
  /\ UNCHANGED <<aggregates, record, received, faults>>

(* The stored record: another body is a reused key, the same body gets the *)
(* stored answer.  No PROCESSING record is ever visible.                   *)
Lookup(h) ==
  /\ handler[h].step = "looking"
  /\ IF handler[h].known.arg # handler[h].req.arg
       THEN Reject(h, 409)
       ELSE /\ Finish(h, handler[h].known.result)
            /\ UNCHANGED <<aggregates, record>>
  /\ UNCHANGED <<received, faults>>
-----------------------------------------------------------------------------
(* The row that execute locks or inserts.                                  *)
Target(op) == IF op = "initiatives.goals.create_and_start" THEN "initiative" ELSE "company"

VersionOf(row, a) == IF row = "company" THEN a.profile ELSE a.initiative

(* A row the snapshot shows is locked FOR UPDATE; create inserts one.      *)
NeedsRow(h) ==
  LET req == handler[h].req
  IN  (VersionOf(Target(req.op), handler[h].snapshot) = 0) <=> (req.op = "companies.create")

(* Mutant of Changed: as under READ COMMITTED, without a new read.         *)
NeverChanged(h) == FALSE

(* Somebody committed a change of the row after the snapshot.              *)
Changed(h) ==
  LET row == Target(handler[h].req.op)
  IN  VersionOf(row, aggregates) # VersionOf(row, handler[h].snapshot)

(* initiatives.create inserts into the unique index on active prototypes:  *)
(* an initiative the snapshot does not show makes it fail, and the failure *)
(* is turned into 409 if it names the index.                               *)
Duplicate(h) ==
  /\ handler[h].req.op = "initiatives.create"
  /\ handler[h].snapshot.initiative = 0
  /\ aggregates.initiative # 0

Execute(h) ==
  LET req    == handler[h].req
      row    == Target(req.op)
      result == Outcome(req, handler[h].snapshot)
  IN  /\ handler[h].step = "executing"
      /\ NeedsRow(h) => rowOwner[row] = NoHandler
      /\ \/ /\ NeedsRow(h)
            /\ Changed(h)
            /\ Reject(h, 500)
         \/ /\ ~(NeedsRow(h) /\ Changed(h))
            /\ Accepted(result)
            /\ Duplicate(h)
            /\ \E status \in {409, 500} : Reject(h, status)
         \/ /\ ~(NeedsRow(h) /\ Changed(h))
            /\ ~Accepted(result)
            /\ Reject(h, result.status)
         \/ /\ ~Changed(h)
            /\ Accepted(result)
            /\ ~Duplicate(h)
            /\ rowOwner' = [rowOwner EXCEPT ![row] = h]
            /\ Goto(h, "committing")
            /\ UNCHANGED <<aggregates, record, keyOwner, answers>>
      /\ UNCHANGED <<received, faults>>

(* What the statements of execute write, from the values they read: new    *)
(* versions come from the snapshot, row_version + 1 from the locked row.   *)
Write(req, a, snapshot) ==
  CASE req.op = "companies.create"          -> [a EXCEPT !.profile = 1]
    [] req.op = "companies.profile.replace" -> [a EXCEPT !.profile = snapshot.profile + 1]
    [] req.op = "initiatives.create"        -> [a EXCEPT !.initiative = 1]
    [] OTHER -> [a EXCEPT !.initiative = @ + 1, !.goals = snapshot.goals + 1]

(* The record is completed and everything becomes visible at once.         *)
Persist(h) ==
  LET req == handler[h].req
  IN  /\ handler[h].step = "committing"
      /\ aggregates' = Write(req, aggregates, handler[h].snapshot)
      /\ record' = [record EXCEPT ![ScopeOf(req)] =
                      [arg |-> req.arg, result |-> Outcome(req, handler[h].snapshot)]]

Commit(h) ==
  /\ Persist(h)
  /\ Finish(h, Outcome(handler[h].req, handler[h].snapshot))
  /\ UNCHANGED <<received, faults>>

(* The commit takes effect but its acknowledgement is lost, and the client *)
(* is told of an error.                                                    *)
CommitUnacknowledged(h) ==
  /\ Persist(h)
  /\ faults < MaxFaults
  /\ faults' = faults + 1
  /\ Finish(h, Failure(500))
  /\ UNCHANGED received

(* A serialization failure, a deadlock victim, a lost connection or the    *)
(* death of the API process, at any point before the commit.               *)
Fail(h) ==
  /\ handler[h].step # "idle"
  /\ faults < MaxFaults
  /\ faults' = faults + 1
  /\ Reject(h, 500)
  /\ UNCHANGED received

HandlerStep(h) == InsertRecord(h) \/ Lookup(h) \/ Execute(h) \/ Commit(h)

Next ==
  \E h \in Handler :
    \/ \E req \in Request : Receive(h, req) \/ Refuse(h, req)
    \/ HandlerStep(h)
    \/ CommitUnacknowledged(h)
    \/ Fail(h)

Spec == Init /\ [][Next]_vars

(* A handler that is not waiting for a lock goes on.                       *)
FairSpec == Spec /\ \A h \in Handler : WF_vars(HandlerStep(h))
-----------------------------------------------------------------------------
(* The atomic commands the handlers implement.                             *)
Ledger == INSTANCE CommandLedger

(* Concurrent, failing and retried requests amount to commands executed    *)
(* one at a time, each once, on current state: no update of a profile or   *)
(* of an initiative is lost, no second company or initiative appears, and  *)
(* no key is executed twice.                                               *)
ImplementsLedger == Ledger!Spec

(* A client is told that its command succeeded only if the record of its   *)
(* key holds this body and this very answer, whichever retry it was; and   *)
(* the variables have their types.                                         *)
AnswersMatchRecord ==
  /\ TypeOK
  /\ \A a \in answers : Accepted(a.result) =>
       record[ScopeOf(a.req)] = [arg |-> a.req.arg, result |-> a.result]

(* Waiting for a key or for a row never lasts: whoever is waited for ends  *)
(* its transaction, since keys are taken before rows.                      *)
RequestsAnswered ==
  \A h \in Handler : handler[h].step # "idle" ~> handler[h].step = "idle"
=============================================================================
