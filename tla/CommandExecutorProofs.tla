----------------------- MODULE CommandExecutorProofs -----------------------
(***************************************************************************)
(* Proofs, for any commands, keys, bodies and handlers, that the answers   *)
(* of CommandExecutor match its records and that it implements             *)
(* CommandLedger, from the inductive invariant IInv.                       *)
(***************************************************************************)
EXTENDS CommandExecutor, TLAPS

(* A goal raises the version of its initiative and the number of goals     *)
(* together, so that the version locked tells the number read.             *)
Regular(a) == IF a.initiative = 0 THEN a.goals = 0 ELSE a.initiative = a.goals + 1

(* A company that was there stays, and the number of goals read goes with  *)
(* the version read.                                                       *)
SnapshotsPast ==
  /\ Regular(aggregates)
  /\ \A h \in Handler :
       /\ Regular(handler[h].snapshot)
       /\ handler[h].step # "idle" =>
            /\ InScope(handler[h].req, handler[h].snapshot)
            /\ handler[h].snapshot.profile # 0 => aggregates.profile # 0

(* A record that was seen is there for ever; one that was inserted keeps   *)
(* its key from everybody else until the commit.                           *)
KeysHeld ==
  \A h \in Handler : handler[h].step # "idle" =>
    LET s == ScopeOf(handler[h].req)
    IN  /\ handler[h].known # NoRecord => record[s] = handler[h].known
        /\ handler[h].step = "looking" => handler[h].known # NoRecord
        /\ handler[h].step \in {"executing", "committing"} =>
             keyOwner[s] = h /\ record[s] = NoRecord

(* A command about to commit was accepted, and holds the lock of a row     *)
(* that is still as it was read.                                           *)
RowsHeld ==
  \A h \in Handler : handler[h].step = "committing" =>
    LET req == handler[h].req
        row == Target(req.op)
    IN  /\ Accepted(Outcome(req, handler[h].snapshot))
        /\ rowOwner[row] = h
        /\ VersionOf(row, aggregates) = VersionOf(row, handler[h].snapshot)
        /\ req.op = "initiatives.create" => aggregates.initiative = 0

IInv == AnswersMatchRecord /\ SnapshotsPast /\ KeysHeld /\ RowsHeld
-----------------------------------------------------------------------------
(* The rules.                                                              *)
LEMMA Operations ==
  ASSUME NEW req \in Request
  PROVE  /\ req.op \in Operation /\ req.key \in Key /\ req.arg \in Arg /\ req.arg \in Nat
         /\ ScopeOf(req) \in Scope
  BY RulesConstants DEF Request, Scope, ScopeOf

(* Every command answers with a result.                                    *)
LEMMA OutcomeType ==
  ASSUME NEW req \in Request, NEW a \in Aggregates
  PROVE  Outcome(req, a) \in Result
  <1>1. /\ CreateCompany(a) \in Result /\ ReplaceProfile(a, req.arg) \in Result
        /\ CreateInitiative(a) \in Result /\ CreateGoalAndRun(a, req.arg) \in Result
    BY DEF Aggregates, Result, CreateCompany, ReplaceProfile, CreateInitiative, CreateGoalAndRun,
           Reply, Failure
  <1>2. CASE req.op = "companies.create"
    BY <1>1, <1>2 DEF Outcome
  <1>3. CASE req.op = "companies.profile.replace"
    BY <1>1, <1>3 DEF Outcome
  <1>4. CASE req.op = "initiatives.create"
    BY <1>1, <1>4 DEF Outcome
  <1>5. CASE req.op = "initiatives.goals.create_and_start"
    BY <1>1, <1>5 DEF Outcome
  <1> QED BY <1>2, <1>3, <1>4, <1>5, Operations DEF Operation

(* A refusal is a result that is not accepted.                             *)
LEMMA FailureType ==
  ASSUME NEW status \in {404, 409, 412, 500}
  PROVE  Failure(status) \in Result /\ ~Accepted(Failure(status))
  BY DEF Failure, Reply, Result, Accepted

(* The beginnings are states that commands lead to.                        *)
LEMMA BeginningsRegular ==
  ASSUME NEW a \in Beginnings
  PROVE  a \in Aggregates /\ Regular(a)
  <1> DEFINE b == [NoAggregates EXCEPT !.profile = 1]
  <1>1. NoAggregates \in Aggregates /\ Regular(NoAggregates)
    BY DEF NoAggregates, Aggregates, Regular
  <1>2. b \in Aggregates /\ Regular(b) /\ b.initiative = 0 /\ b.goals = 0
    BY DEF NoAggregates, Aggregates, Regular
  <1>3. [NoAggregates EXCEPT !.profile = 1, !.initiative = 1] = [b EXCEPT !.initiative = 1]
    BY DEF NoAggregates
  <1> HIDE DEF b
  <1>4. [b EXCEPT !.initiative = 1] \in Aggregates /\ Regular([b EXCEPT !.initiative = 1])
    BY <1>2 DEF Aggregates, Regular
  <1> USE DEF b
  <1> QED BY <1>1, <1>2, <1>3, <1>4 DEF Beginnings

(* On a row that is as it was read, a command accepted on its snapshot is  *)
(* accepted with the same answer now, and writes what it should.           *)
LEMMA AsIfNow ==
  ASSUME NEW req \in Request, NEW a \in Aggregates, NEW b \in Aggregates, Regular(a), Regular(b),
         Accepted(Outcome(req, b)), VersionOf(Target(req.op), a) = VersionOf(Target(req.op), b),
         req.op = "initiatives.create" => a.initiative = 0
  PROVE  Outcome(req, a) = Outcome(req, b) /\ Write(req, a, b) = Effect(req, a)
  <1>1. CASE req.op = "companies.create"
    BY <1>1 DEF Outcome, CreateCompany, Write, Effect, Target, VersionOf
  <1>2. CASE req.op = "companies.profile.replace"
    BY <1>2 DEF Outcome, ReplaceProfile, Write, Effect, Target, VersionOf, Aggregates
  <1>3. CASE req.op = "initiatives.create"
    <2>1. b.initiative = 0
      BY <1>3 DEF Outcome, CreateInitiative, Accepted, Failure, Reply
    <2> QED BY <1>3, <2>1 DEF Outcome, CreateInitiative, Write, Effect
  <1>4. CASE req.op = "initiatives.goals.create_and_start"
    <2>1. a.initiative = b.initiative /\ b.initiative # 0
      BY <1>4 DEF Outcome, CreateGoalAndRun, Accepted, Failure, Reply, Target, VersionOf
    <2>2. a.goals = b.goals
      BY <2>1 DEF Regular, Aggregates
    <2> QED BY <1>4, <2>1, <2>2 DEF Outcome, CreateGoalAndRun, Write, Effect
  <1> QED BY <1>1, <1>2, <1>3, <1>4, Operations DEF Operation

(* What a write does to the versions.                                      *)
LEMMA EffectVersions ==
  ASSUME NEW req \in Request, NEW a \in Aggregates, Regular(a), Accepted(Outcome(req, a))
  PROVE  /\ Effect(req, a) \in Aggregates /\ Regular(Effect(req, a))
         /\ Effect(req, a).profile # a.profile => Target(req.op) = "company"
         /\ Effect(req, a).initiative # a.initiative =>
              IF a.initiative = 0 THEN req.op = "initiatives.create" ELSE Target(req.op) = "initiative"
         /\ a.profile # 0 => Effect(req, a).profile # 0
  <1>1. CASE req.op = "companies.create"
    BY <1>1 DEF Outcome, CreateCompany, Accepted, Failure, Reply, Effect, Target, Aggregates, Regular
  <1>2. CASE req.op = "companies.profile.replace"
    BY <1>2 DEF Effect, Target, Aggregates, Regular
  <1>3. CASE req.op = "initiatives.create"
    BY <1>3 DEF Outcome, CreateInitiative, Accepted, Failure, Reply, Effect, Target, Aggregates, Regular
  <1>4. CASE req.op = "initiatives.goals.create_and_start"
    <2>1. a.initiative # 0
      BY <1>4 DEF Outcome, CreateGoalAndRun, Accepted, Failure, Reply
    <2>2. Effect(req, a) = [a EXCEPT !.initiative = @ + 1, !.goals = @ + 1]
      BY <1>4 DEF Effect
    <2> DEFINE b == [a EXCEPT !.initiative = @ + 1]
    <2>3. /\ Effect(req, a) \in Aggregates /\ Effect(req, a).profile = a.profile
          /\ Effect(req, a).initiative = a.initiative + 1 /\ Effect(req, a).goals = a.goals + 1
      <3>1. b \in Aggregates /\ b.profile = a.profile /\ b.initiative = a.initiative + 1 /\ b.goals = a.goals
        BY DEF Aggregates
      <3>2. Effect(req, a) = [b EXCEPT !.goals = @ + 1]
        BY <2>2 DEF Aggregates
      <3> HIDE DEF b
      <3> QED BY <3>1, <3>2 DEF Aggregates
    <2>4. a.initiative \in Nat /\ a.goals \in Nat /\ a.initiative = a.goals + 1
      BY <2>1 DEF Regular, Aggregates
    <2>5. Regular(Effect(req, a))
      BY <2>3, <2>4 DEF Regular
    <2>6. Target(req.op) = "initiative"
      BY <1>4 DEF Target
    <2> QED BY <2>1, <2>3, <2>5, <2>6
  <1> QED BY <1>1, <1>2, <1>3, <1>4, Operations DEF Operation

(* Every initial state satisfies the invariant.                            *)
LEMMA InitIInv == Init => IInv
  <1> SUFFICES ASSUME Init PROVE IInv
    OBVIOUS
  <1>1. NoAggregates \in Aggregates /\ Regular(NoAggregates)
    BY DEF NoAggregates, Aggregates, Regular
  <1>2. handler \in [Handler -> Transaction] /\ \A h \in Handler : handler[h] = Idle
    BY <1>1 DEF Init, Transaction, Idle, Step
  <1>3. TypeOK
    BY <1>2, BeginningsRegular, ExecutorConstants DEF Init, TypeOK, Idle
  <1>4. AnswersMatchRecord
    BY <1>3 DEF AnswersMatchRecord, Init
  <1>5. SnapshotsPast
    BY <1>1, <1>2, BeginningsRegular DEF SnapshotsPast, Init, Idle
  <1>6. KeysHeld /\ RowsHeld
    BY <1>2 DEF KeysHeld, RowsHeld, Idle
  <1> QED BY <1>4, <1>5, <1>6 DEF IInv
-----------------------------------------------------------------------------
(* Handler h is idle again and its locks are free; nobody else moved.      *)
Ends(h) ==
  /\ handler' \in [Handler -> Transaction]
  /\ \A g \in Handler : handler'[g].step = "idle" <=> handler'[g].req = NoRequest
  /\ handler'[h] = Idle
  /\ \A g \in Handler : g # h => handler'[g] = handler[g]
  /\ keyOwner' \in [Scope -> Handler \cup {NoHandler}]
  /\ rowOwner' \in [Row -> Handler \cup {NoHandler}]
  /\ \A s \in Scope : keyOwner[s] # h => keyOwner'[s] = keyOwner[s]
  /\ \A x \in Row : rowOwner[x] # h => rowOwner'[x] = rowOwner[x]

(* A handler that finishes releases all it holds and has answered its      *)
(* request.                                                                *)
LEMMA FinishEnds ==
  ASSUME TypeOK, NEW h \in Handler, NEW result \in Result, handler[h].step # "idle",
         Finish(h, result)
  PROVE  /\ Ends(h) /\ handler[h].req \in Request
         /\ answers' = answers \cup {[req |-> handler[h].req, result |-> result]}
         /\ answers' \subseteq [req : Request, result : Result]
  <1>1. Idle \in Transaction
    BY DEF Transaction, Idle, Step, Aggregates, NoAggregates
  <1>2. /\ handler' \in [Handler -> Transaction]
        /\ handler'[h] = Idle /\ \A g \in Handler : g # h => handler'[g] = handler[g]
    BY <1>1 DEF TypeOK, Finish
  <1>3. \A g \in Handler : handler'[g].step = "idle" <=> handler'[g].req = NoRequest
    BY <1>2 DEF TypeOK, Idle
  <1>4. handler[h].req \in Request
    BY DEF TypeOK, Transaction
  <1>5. /\ keyOwner' \in [Scope -> Handler \cup {NoHandler}]
        /\ rowOwner' \in [Row -> Handler \cup {NoHandler}]
        /\ \A s \in Scope : keyOwner[s] # h => keyOwner'[s] = keyOwner[s]
        /\ \A x \in Row : rowOwner[x] # h => rowOwner'[x] = rowOwner[x]
    BY DEF TypeOK, Finish, ReleaseLocks
  <1> QED BY <1>2, <1>3, <1>4, <1>5 DEF TypeOK, Ends, Finish, Answer

(* Handler h is at another step, with the request it has.                  *)
LEMMA GotoRow ==
  ASSUME TypeOK, NEW h \in Handler, NEW s \in Step \ {"idle"}, handler[h].step # "idle", Goto(h, s)
  PROVE  /\ handler' \in [Handler -> Transaction]
         /\ \A g \in Handler : handler'[g].step = "idle" <=> handler'[g].req = NoRequest
         /\ handler'[h].step = s /\ handler'[h].req = handler[h].req
         /\ handler'[h].snapshot = handler[h].snapshot /\ handler'[h].known = handler[h].known
         /\ \A g \in Handler : g # h => handler'[g] = handler[g]
  BY DEF TypeOK, Goto, Transaction

(* A handler at work has a request.                                        *)
LEMMA BusyRequest ==
  ASSUME TypeOK, NEW h \in Handler, handler[h].step # "idle"
  PROVE  handler[h].req \in Request /\ ScopeOf(handler[h].req) \in Scope
  <1>1. handler[h].req \in Request
    BY DEF TypeOK, Transaction
  <1> QED BY <1>1, Operations

(* A transaction that writes nothing ends, and the answer is a failure or  *)
(* the one on record.                                                      *)
LEMMA EndIInv ==
  ASSUME IInv, NEW h \in Handler, NEW result \in Result, handler[h].step # "idle",
         Finish(h, result), UNCHANGED <<aggregates, record>>,
         received' \in 0..MaxRequests, faults' \in 0..MaxFaults,
         Accepted(result) =>
           record[ScopeOf(handler[h].req)] = [arg |-> handler[h].req.arg, result |-> result]
  PROVE  IInv'
  <1>0. TypeOK
    BY DEF IInv, AnswersMatchRecord
  <1>1. /\ Ends(h) /\ handler[h].req \in Request
        /\ answers' = answers \cup {[req |-> handler[h].req, result |-> result]}
        /\ answers' \subseteq [req : Request, result : Result]
    BY <1>0, FinishEnds
  <1>2. TypeOK'
    BY <1>0, <1>1 DEF TypeOK, Ends
  <1>3. AnswersMatchRecord'
    BY <1>1, <1>2 DEF IInv, AnswersMatchRecord
  <1>4. SnapshotsPast'
    <2>1. Regular(handler'[h].snapshot) /\ handler'[h].step = "idle"
      BY <1>1 DEF Ends, Idle, NoAggregates, Regular
    <2> QED BY <1>1, <2>1 DEF IInv, SnapshotsPast, Ends
  <1>5. handler'[h].step = "idle"
    BY <1>1 DEF Ends, Idle
  <1>6. KeysHeld'
    <2>1. \A g \in Handler : handler[g].step # "idle" => ScopeOf(handler[g].req) \in Scope
      BY <1>0, BusyRequest
    <2> QED BY <1>1, <1>5, <2>1 DEF IInv, KeysHeld, Ends
  <1>7. RowsHeld'
    <2>1. \A op : Target(op) \in Row
      BY DEF Target, Row
    <2> QED BY <1>1, <1>5, <2>1 DEF IInv, RowsHeld, Ends
  <1> QED BY <1>3, <1>4, <1>6, <1>7 DEF IInv

(* A request that is turned down leaves records and aggregates alone.      *)
LEMMA RejectIInv ==
  ASSUME IInv, NEW h \in Handler, NEW status \in {404, 409, 412, 500}, handler[h].step # "idle",
         Reject(h, status), received' \in 0..MaxRequests, faults' \in 0..MaxFaults
  PROVE  IInv'
  <1> DEFINE result == Failure(status)
  <1>1. result \in Result /\ ~Accepted(result)
    BY FailureType
  <1>2. Finish(h, result) /\ UNCHANGED <<aggregates, record>>
    BY DEF Reject
  <1> HIDE DEF result
  <1>3. Accepted(result) =>
          record[ScopeOf(handler[h].req)] = [arg |-> handler[h].req.arg, result |-> result]
    BY <1>1
  <1> QED BY <1>1, <1>2, <1>3, EndIInv

(* A handler takes a request and has seen nothing yet.                     *)
LEMMA ReceiveIInv ==
  ASSUME IInv, NEW h \in Handler, NEW req \in Request, Receive(h, req)
  PROVE  IInv'
  <1>0. /\ TypeOK /\ handler[h].step = "idle" /\ InScope(req, aggregates)
        /\ UNCHANGED <<aggregates, record, keyOwner, rowOwner, answers, faults>>
        /\ received' \in 0..MaxRequests
    BY ExecutorConstants DEF IInv, AnswersMatchRecord, TypeOK, Receive
  <1>1. ScopeOf(req) \in Scope
    BY Operations
  <1>2. /\ handler' \in [Handler -> Transaction]
        /\ handler'[h] = [step |-> "inserting", req |-> req, snapshot |-> aggregates,
                          known |-> record[ScopeOf(req)]]
        /\ \A g \in Handler : g # h => handler'[g] = handler[g]
    BY <1>0, <1>1 DEF TypeOK, Receive, Transaction, Step
  <1>3. TypeOK'
    <2>1. \A g \in Handler : handler'[g].step = "idle" <=> handler'[g].req = NoRequest
      BY <1>0, <1>2, ExecutorConstants DEF TypeOK
    <2> QED BY <1>0, <1>2, <2>1 DEF TypeOK
  <1>4. AnswersMatchRecord'
    BY <1>0, <1>3 DEF IInv, AnswersMatchRecord
  <1>5. SnapshotsPast'
    BY <1>0, <1>2 DEF IInv, SnapshotsPast
  <1>6. KeysHeld'
    BY <1>0, <1>2 DEF IInv, KeysHeld
  <1>7. RowsHeld'
    BY <1>0, <1>2 DEF IInv, RowsHeld
  <1> QED BY <1>4, <1>5, <1>6, <1>7 DEF IInv

(* A request without a company is refused before any transaction.          *)
LEMMA RefuseIInv ==
  ASSUME IInv, NEW h \in Handler, NEW req \in Request, Refuse(h, req)
  PROVE  IInv'
  <1>0. /\ TypeOK /\ UNCHANGED <<aggregates, record, keyOwner, rowOwner, handler, faults>>
        /\ answers' = answers \cup {[req |-> req, result |-> Failure(404)]}
        /\ received' \in 0..MaxRequests
    BY ExecutorConstants DEF IInv, AnswersMatchRecord, TypeOK, Refuse
  <1>1. TypeOK'
    BY <1>0, FailureType DEF TypeOK
  <1>2. AnswersMatchRecord'
    BY <1>0, <1>1, FailureType DEF IInv, AnswersMatchRecord
  <1> QED BY <1>0, <1>2 DEF IInv, SnapshotsPast, KeysHeld, RowsHeld

(* The record is inserted, its key waited for, or found taken.             *)
LEMMA InsertRecordIInv ==
  ASSUME IInv, NEW h \in Handler, InsertRecord(h)
  PROVE  IInv'
  <1> DEFINE s == ScopeOf(handler[h].req)
  <1>0. /\ TypeOK /\ handler[h].step = "inserting" /\ UNCHANGED <<received, faults>>
        /\ received' \in 0..MaxRequests /\ faults' \in 0..MaxFaults
    BY DEF IInv, AnswersMatchRecord, TypeOK, InsertRecord
  <1>1. s \in Scope
    BY <1>0, BusyRequest
  <1>2. CASE handler[h].known # NoRecord
    <2>1. Goto(h, "looking") /\ UNCHANGED <<aggregates, record, keyOwner, rowOwner, answers>>
      BY <1>2 DEF InsertRecord
    <2>2. /\ handler' \in [Handler -> Transaction]
          /\ \A g \in Handler : handler'[g].step = "idle" <=> handler'[g].req = NoRequest
          /\ handler'[h].step = "looking" /\ handler'[h].req = handler[h].req
          /\ handler'[h].snapshot = handler[h].snapshot /\ handler'[h].known = handler[h].known
          /\ \A g \in Handler : g # h => handler'[g] = handler[g]
      BY <1>0, <2>1, GotoRow DEF Step
    <2>3. AnswersMatchRecord'
      BY <1>0, <2>1, <2>2 DEF IInv, AnswersMatchRecord, TypeOK
    <2>4. SnapshotsPast'
      BY <1>0, <2>1, <2>2 DEF IInv, SnapshotsPast
    <2>5. KeysHeld'
      BY <1>0, <1>2, <2>1, <2>2 DEF IInv, KeysHeld
    <2>6. RowsHeld'
      BY <1>0, <2>1, <2>2 DEF IInv, RowsHeld
    <2> QED BY <2>3, <2>4, <2>5, <2>6 DEF IInv
  <1>3. CASE handler[h].known = NoRecord /\ ~KeyTaken(h)
    <2>1. /\ keyOwner[s] = NoHandler /\ record[s] = NoRecord
          /\ keyOwner' = [keyOwner EXCEPT ![s] = h] /\ Goto(h, "executing")
          /\ UNCHANGED <<aggregates, record, rowOwner, answers>>
      BY <1>3 DEF InsertRecord, KeyTaken
    <2>2. /\ handler' \in [Handler -> Transaction]
          /\ \A g \in Handler : handler'[g].step = "idle" <=> handler'[g].req = NoRequest
          /\ handler'[h].step = "executing" /\ handler'[h].req = handler[h].req
          /\ handler'[h].snapshot = handler[h].snapshot /\ handler'[h].known = handler[h].known
          /\ \A g \in Handler : g # h => handler'[g] = handler[g]
      BY <1>0, <2>1, GotoRow DEF Step
    <2>3. /\ keyOwner' \in [Scope -> Handler \cup {NoHandler}] /\ keyOwner'[s] = h
          /\ \A x \in Scope : keyOwner[x] # NoHandler => keyOwner'[x] = keyOwner[x]
      BY <1>0, <1>1, <2>1 DEF TypeOK
    <2>4. AnswersMatchRecord'
      BY <1>0, <2>1, <2>2, <2>3 DEF IInv, AnswersMatchRecord, TypeOK
    <2>5. SnapshotsPast'
      BY <1>0, <2>1, <2>2 DEF IInv, SnapshotsPast
    <2>6. \A g \in Handler : handler[g].step # "idle" => ScopeOf(handler[g].req) \in Scope
      BY <1>0, BusyRequest
    <2>7. KeysHeld'
      BY <1>0, <1>3, <2>1, <2>2, <2>3, <2>6, ExecutorConstants DEF IInv, KeysHeld
    <2>8. RowsHeld'
      BY <1>0, <2>1, <2>2 DEF IInv, RowsHeld
    <2> QED BY <2>4, <2>5, <2>7, <2>8 DEF IInv
  <1>4. CASE handler[h].known = NoRecord /\ KeyTaken(h)
    <2>1. Reject(h, 500)
      BY <1>4 DEF InsertRecord
    <2> QED BY <1>0, <2>1, RejectIInv
  <1> QED BY <1>2, <1>3, <1>4

(* The record of an earlier request is answered, or refused if its body    *)
(* differs.                                                                *)
LEMMA LookupIInv ==
  ASSUME IInv, NEW h \in Handler, Lookup(h)
  PROVE  IInv'
  <1>0. /\ TypeOK /\ handler[h].step = "looking"
        /\ received' \in 0..MaxRequests /\ faults' \in 0..MaxFaults
    BY DEF IInv, AnswersMatchRecord, TypeOK, Lookup
  <1>1. CASE handler[h].known.arg # handler[h].req.arg
    <2>1. Reject(h, 409)
      BY <1>1 DEF Lookup
    <2> QED BY <1>0, <2>1, RejectIInv
  <1>2. CASE handler[h].known.arg = handler[h].req.arg
    <2>1. Finish(h, handler[h].known.result) /\ UNCHANGED <<aggregates, record>>
      BY <1>2 DEF Lookup
    <2>2. handler[h].known \in Record /\ record[ScopeOf(handler[h].req)] = handler[h].known
      BY <1>0 DEF IInv, KeysHeld, TypeOK, Transaction
    <2>3. /\ handler[h].known.result \in Result
          /\ handler[h].known = [arg |-> handler[h].req.arg, result |-> handler[h].known.result]
      BY <1>2, <2>2 DEF Record
    <2> QED BY <1>0, <2>1, <2>2, <2>3, EndIInv
  <1> QED BY <1>1, <1>2

(* An accepted command takes the row, which is as it read it.              *)
LEMMA TakeRowIInv ==
  ASSUME IInv, NEW h \in Handler, handler[h].step = "executing",
         ~Changed(h), Accepted(Outcome(handler[h].req, handler[h].snapshot)), ~Duplicate(h),
         NeedsRow(h) => rowOwner[Target(handler[h].req.op)] = NoHandler,
         rowOwner' = [rowOwner EXCEPT ![Target(handler[h].req.op)] = h], Goto(h, "committing"),
         UNCHANGED <<aggregates, record, keyOwner, answers, received, faults>>
  PROVE  IInv'
  <1> DEFINE req == handler[h].req
             row == Target(req.op)
             snap == handler[h].snapshot
  <1>0. TypeOK
    BY DEF IInv, AnswersMatchRecord
  <1>1. req \in Request /\ snap \in Aggregates /\ InScope(req, snap)
    BY <1>0, BusyRequest DEF IInv, SnapshotsPast, TypeOK, Transaction
  <1>2. NeedsRow(h)
    <2>1. CASE req.op = "companies.create"
      BY <2>1 DEF NeedsRow, Target, VersionOf, Outcome, CreateCompany, Accepted, Failure, Reply
    <2>2. CASE req.op = "companies.profile.replace"
      BY <2>2 DEF NeedsRow, Target, VersionOf, Outcome, ReplaceProfile, Accepted, Failure, Reply
    <2>3. CASE req.op = "initiatives.create"
      BY <1>1, <2>3 DEF NeedsRow, Target, VersionOf, InScope
    <2>4. CASE req.op = "initiatives.goals.create_and_start"
      BY <2>4 DEF NeedsRow, Target, VersionOf, Outcome, CreateGoalAndRun, Accepted, Failure, Reply
    <2> QED BY <1>1, <2>1, <2>2, <2>3, <2>4, Operations DEF Operation
  <1>3. req.op = "initiatives.create" => aggregates.initiative = 0
    BY DEF Duplicate, Outcome, CreateInitiative, Accepted, Failure, Reply
  <1>4. /\ handler' \in [Handler -> Transaction]
        /\ \A g \in Handler : handler'[g].step = "idle" <=> handler'[g].req = NoRequest
        /\ handler'[h].step = "committing" /\ handler'[h].req = req
        /\ handler'[h].snapshot = snap /\ handler'[h].known = handler[h].known
        /\ \A g \in Handler : g # h => handler'[g] = handler[g]
    BY <1>0, GotoRow DEF Step
  <1>5. \A op : Target(op) \in Row
    BY DEF Target, Row
  <1>6. /\ rowOwner' \in [Row -> Handler \cup {NoHandler}] /\ rowOwner'[row] = h
        /\ \A x \in Row : rowOwner[x] # NoHandler => rowOwner'[x] = rowOwner[x]
    BY <1>0, <1>2, <1>5 DEF TypeOK
  <1>7. AnswersMatchRecord'
    BY <1>0, <1>4, <1>6 DEF IInv, AnswersMatchRecord, TypeOK
  <1>8. SnapshotsPast'
    BY <1>0, <1>4 DEF IInv, SnapshotsPast
  <1>9. KeysHeld'
    BY <1>0, <1>4 DEF IInv, KeysHeld
  <1>10. RowsHeld'
    <2>1. VersionOf(row, aggregates) = VersionOf(row, snap)
      BY DEF Changed
    <2> QED BY <1>3, <1>4, <1>5, <1>6, <2>1, ExecutorConstants DEF IInv, RowsHeld
  <1> QED BY <1>7, <1>8, <1>9, <1>10 DEF IInv

(* The command is executed on the snapshot and locks its row.              *)
LEMMA ExecuteIInv ==
  ASSUME IInv, NEW h \in Handler, Execute(h)
  PROVE  IInv'
  <1> DEFINE req == handler[h].req
             result == Outcome(req, handler[h].snapshot)
  <1>0. /\ TypeOK /\ handler[h].step = "executing" /\ UNCHANGED <<received, faults>>
        /\ received' \in 0..MaxRequests /\ faults' \in 0..MaxFaults
    BY DEF IInv, AnswersMatchRecord, TypeOK, Execute
  <1>1. result \in Result
    BY <1>0, BusyRequest, OutcomeType DEF TypeOK, Transaction
  <1>2. CASE \E status \in {404, 409, 412, 500} : Reject(h, status)
    BY <1>0, <1>2, RejectIInv
  <1>3. CASE /\ ~Changed(h) /\ Accepted(result) /\ ~Duplicate(h)
             /\ rowOwner' = [rowOwner EXCEPT ![Target(req.op)] = h] /\ Goto(h, "committing")
             /\ UNCHANGED <<aggregates, record, keyOwner, answers>>
    BY <1>0, <1>3, TakeRowIInv DEF Execute
  <1>4. ~Accepted(result) => result.status \in {404, 409, 412, 500}
    BY <1>1 DEF Accepted, Result
  <1> QED BY <1>2, <1>3, <1>4 DEF Execute
-----------------------------------------------------------------------------
(* A commit writes what the rules say of the state it commits to, under a  *)
(* key without a record.                                                   *)
LEMMA PersistWrites ==
  ASSUME IInv, NEW h \in Handler, Persist(h)
  PROVE  LET req == handler[h].req
             result == Outcome(req, aggregates)
         IN  /\ req \in Request /\ InScope(req, aggregates)
             /\ record[ScopeOf(req)] = NoRecord
             /\ Accepted(result) /\ result = Outcome(req, handler[h].snapshot)
             /\ aggregates' = Effect(req, aggregates)
             /\ record' = [record EXCEPT ![ScopeOf(req)] = [arg |-> req.arg, result |-> result]]
  <1> DEFINE req == handler[h].req
             snap == handler[h].snapshot
  <1>0. TypeOK /\ handler[h].step = "committing"
    BY DEF IInv, AnswersMatchRecord, Persist
  <1>1. req \in Request /\ snap \in Aggregates /\ aggregates \in Aggregates
    BY <1>0, BusyRequest DEF TypeOK, Transaction
  <1>2. /\ Accepted(Outcome(req, snap)) /\ VersionOf(Target(req.op), aggregates) = VersionOf(Target(req.op), snap)
        /\ req.op = "initiatives.create" => aggregates.initiative = 0
    BY <1>0 DEF IInv, RowsHeld
  <1>3. Regular(aggregates) /\ Regular(snap)
    BY DEF IInv, SnapshotsPast
  <1>4. Outcome(req, aggregates) = Outcome(req, snap) /\ Write(req, aggregates, snap) = Effect(req, aggregates)
    BY <1>1, <1>2, <1>3, AsIfNow
  <1>5. InScope(req, aggregates)
    BY <1>0 DEF IInv, SnapshotsPast, InScope
  <1>6. record[ScopeOf(req)] = NoRecord
    BY <1>0 DEF IInv, KeysHeld
  <1> QED BY <1>1, <1>2, <1>4, <1>5, <1>6 DEF Persist

(* The commit writes record and aggregates together, whether its answer    *)
(* arrives or not.                                                         *)
LEMMA PersistIInv ==
  ASSUME IInv, NEW h \in Handler, Persist(h), NEW result \in Result, Finish(h, result),
         result = Outcome(handler[h].req, handler[h].snapshot) \/ ~Accepted(result),
         received' \in 0..MaxRequests, faults' \in 0..MaxFaults
  PROVE  IInv'
  <1> DEFINE req == handler[h].req
             out == Outcome(req, aggregates)
             s == ScopeOf(req)
  <1>0. TypeOK /\ handler[h].step = "committing"
    BY DEF IInv, AnswersMatchRecord, Persist
  <1>1. /\ req \in Request /\ InScope(req, aggregates) /\ record[s] = NoRecord
        /\ Accepted(out) /\ out = Outcome(req, handler[h].snapshot)
        /\ aggregates' = Effect(req, aggregates)
        /\ record' = [record EXCEPT ![s] = [arg |-> req.arg, result |-> out]]
    BY PersistWrites
  <1>2. s \in Scope /\ aggregates \in Aggregates /\ out \in Result /\ req.arg \in Arg
    BY <1>0, <1>1, Operations, OutcomeType DEF TypeOK
  <1>3. /\ record' \in [Scope -> Record \cup {NoRecord}]
        /\ record'[s] = [arg |-> req.arg, result |-> out] /\ record'[s] # NoRecord
        /\ \A x \in Scope : x # s => record'[x] = record[x]
    BY <1>0, <1>1, <1>2, ExecutorConstants DEF TypeOK, Record
  <1>4. /\ aggregates' \in Aggregates /\ Regular(aggregates')
        /\ aggregates'.profile # aggregates.profile => Target(req.op) = "company"
        /\ aggregates'.initiative # aggregates.initiative =>
             IF aggregates.initiative = 0 THEN req.op = "initiatives.create"
                                          ELSE Target(req.op) = "initiative"
        /\ aggregates.profile # 0 => aggregates'.profile # 0
    BY <1>1, <1>2, EffectVersions DEF IInv, SnapshotsPast
  <1>5. /\ Ends(h)
        /\ answers' = answers \cup {[req |-> req, result |-> result]}
        /\ answers' \subseteq [req : Request, result : Result]
    BY <1>0, FinishEnds
  <1>6. handler'[h].step = "idle" /\ Regular(handler'[h].snapshot)
    BY <1>5 DEF Ends, Idle, NoAggregates, Regular
  <1>7. AnswersMatchRecord'
    <2>1. TypeOK'
      BY <1>0, <1>3, <1>4, <1>5 DEF TypeOK, Ends
    <2>2. ASSUME NEW a \in answers, Accepted(a.result)
          PROVE  record'[ScopeOf(a.req)] = [arg |-> a.req.arg, result |-> a.result]
      <3>1. a.req \in Request /\ ScopeOf(a.req) \in Scope /\ a.result \in Result
        BY <1>0, Operations DEF TypeOK
      <3>2. record[ScopeOf(a.req)] = [arg |-> a.req.arg, result |-> a.result]
        BY <2>2 DEF IInv, AnswersMatchRecord
      <3>3. record[ScopeOf(a.req)] # NoRecord
        BY <3>1, <3>2, Operations, ExecutorConstants
      <3> QED BY <1>1, <1>3, <3>1, <3>2, <3>3
    <2>3. Accepted(result) => record'[s] = [arg |-> req.arg, result |-> result]
      BY <1>1, <1>3
    <2> QED BY <1>5, <2>1, <2>2, <2>3 DEF AnswersMatchRecord
  <1>8. SnapshotsPast'
    BY <1>4, <1>5, <1>6 DEF IInv, SnapshotsPast, Ends
  <1>9. ASSUME NEW g \in Handler, g # h, handler[g].step # "idle"
        PROVE  handler'[g] = handler[g] /\ handler[g].req \in Request /\ ScopeOf(handler[g].req) \in Scope
    BY <1>0, <1>5, <1>9, BusyRequest DEF Ends
  <1>10. KeysHeld'
    <2> SUFFICES ASSUME NEW g \in Handler, g # h, handler[g].step # "idle"
                 PROVE  LET x == ScopeOf(handler[g].req)
                        IN  /\ handler[g].known # NoRecord => record'[x] = handler[g].known
                            /\ handler[g].step = "looking" => handler[g].known # NoRecord
                            /\ handler[g].step \in {"executing", "committing"} =>
                                 keyOwner'[x] = g /\ record'[x] = NoRecord
      BY <1>5, <1>6 DEF KeysHeld, Ends
    <2> DEFINE x == ScopeOf(handler[g].req)
    <2>1. x \in Scope
      BY <1>9
    <2>2. handler[g].step \in {"executing", "committing"} => keyOwner[x] = g /\ record[x] = NoRecord /\ x # s
      BY <1>0 DEF IInv, KeysHeld
    <2>3. handler[g].known # NoRecord => record[x] = handler[g].known /\ x # s
      BY <1>1 DEF IInv, KeysHeld
    <2>4. handler[g].step = "looking" => handler[g].known # NoRecord
      BY DEF IInv, KeysHeld
    <2> QED BY <1>3, <1>5, <2>1, <2>2, <2>3, <2>4 DEF Ends
  <1>11. RowsHeld'
    <2> SUFFICES ASSUME NEW g \in Handler, g # h, handler[g].step = "committing"
                 PROVE  LET r == handler[g].req
                            row == Target(r.op)
                        IN  /\ Accepted(Outcome(r, handler[g].snapshot))
                            /\ rowOwner'[row] = g
                            /\ VersionOf(row, aggregates') = VersionOf(row, handler[g].snapshot)
                            /\ r.op = "initiatives.create" => aggregates'.initiative = 0
      BY <1>5, <1>6 DEF RowsHeld, Ends
    <2> DEFINE r == handler[g].req
               row == Target(r.op)
    <2>1. /\ Accepted(Outcome(r, handler[g].snapshot)) /\ rowOwner[row] = g
          /\ VersionOf(row, aggregates) = VersionOf(row, handler[g].snapshot)
          /\ r.op = "initiatives.create" => aggregates.initiative = 0
          /\ r \in Request /\ row \in Row
      BY <1>9 DEF IInv, RowsHeld, Target, Row
    <2>2. row # Target(req.op)
      BY <1>0, <2>1 DEF IInv, RowsHeld
    <2>3. r.op = "initiatives.create" => aggregates'.initiative = 0
      BY <1>4, <2>1, <2>2 DEF Target
    <2>4. row = "initiative" => aggregates.initiative # 0
      <3>1. row = "initiative" => r.op = "initiatives.goals.create_and_start"
        BY DEF Target
      <3>2. row = "initiative" => handler[g].snapshot.initiative # 0
        BY <2>1, <3>1 DEF Outcome, CreateGoalAndRun, Accepted, Failure, Reply
      <3> QED BY <2>1, <3>2 DEF VersionOf
    <2>5. VersionOf(row, aggregates') = VersionOf(row, aggregates)
      BY <1>4, <2>1, <2>2, <2>4 DEF VersionOf, Row
    <2> QED BY <1>5, <2>1, <2>3, <2>5 DEF Ends
  <1> QED BY <1>7, <1>8, <1>10, <1>11 DEF IInv

(* Both kinds of commit persist.                                           *)
LEMMA CommitIInv ==
  ASSUME IInv, NEW h \in Handler, Commit(h) \/ CommitUnacknowledged(h)
  PROVE  IInv'
  <1>0. /\ TypeOK /\ Persist(h) /\ handler[h].step = "committing"
        /\ received' \in 0..MaxRequests /\ faults' \in 0..MaxFaults
    BY ExecutorConstants DEF IInv, AnswersMatchRecord, TypeOK, Commit, CommitUnacknowledged, Persist
  <1>1. CASE Commit(h)
    <2>1. Outcome(handler[h].req, handler[h].snapshot) \in Result
      BY <1>0, BusyRequest, OutcomeType DEF TypeOK, Transaction
    <2> QED BY <1>0, <1>1, <2>1, PersistIInv DEF Commit
  <1>2. CASE CommitUnacknowledged(h)
    <2> DEFINE result == Failure(500)
    <2>1. result \in Result /\ ~Accepted(result) /\ Finish(h, result)
      BY <1>2, FailureType DEF CommitUnacknowledged
    <2> HIDE DEF result
    <2> QED BY <1>0, <2>1, PersistIInv
  <1> QED BY <1>1, <1>2

(* A transaction that fails leaves nothing.                                *)
LEMMA FailIInv ==
  ASSUME IInv, NEW h \in Handler, Fail(h)
  PROVE  IInv'
  <1>1. /\ handler[h].step # "idle" /\ Reject(h, 500)
        /\ received' \in 0..MaxRequests /\ faults' \in 0..MaxFaults
    BY ExecutorConstants DEF IInv, AnswersMatchRecord, TypeOK, Fail
  <1> QED BY <1>1, RejectIInv
-----------------------------------------------------------------------------
(* Every step keeps the invariant.                                         *)
LEMMA NextIInv == IInv /\ [Next]_vars => IInv'
  <1> SUFFICES ASSUME IInv, [Next]_vars PROVE IInv'
    OBVIOUS
  <1>1. CASE UNCHANGED vars
    BY <1>1 DEF vars, IInv, AnswersMatchRecord, TypeOK, SnapshotsPast, KeysHeld, RowsHeld
  <1>2. CASE Next
    BY <1>2, ReceiveIInv, RefuseIInv, InsertRecordIInv, LookupIInv, ExecuteIInv, CommitIInv, FailIInv
       DEF Next, HandlerStep
  <1> QED BY <1>1, <1>2

(* Keys before rows, both until the end of the transaction: what a command *)
(* read is still so when it commits.                                       *)
THEOREM InductiveInvariant == Spec => []IInv
  BY InitIInv, NextIInv, PTL DEF Spec

(* Whichever retry it was, a client is told of success only if the record  *)
(* of its key holds its body and this very answer.                         *)
THEOREM SuccessIsOnRecord == Spec => []AnswersMatchRecord
  <1>1. IInv => AnswersMatchRecord
    BY DEF IInv
  <1> QED BY <1>1, InductiveInvariant, PTL

(* Only the commit of a command changes aggregates or records.             *)
LEMMA OnlyCommitsWrite ==
  ASSUME NEW h \in Handler,
         \/ \E req \in Request : Receive(h, req) \/ Refuse(h, req)
         \/ InsertRecord(h) \/ Lookup(h) \/ Execute(h) \/ Fail(h)
  PROVE  UNCHANGED <<aggregates, record>>
  BY DEF Receive, Refuse, InsertRecord, Lookup, Execute, Fail, Reject

(* A commit is one step of the ledger.                                     *)
LEMMA CommitExecutes ==
  ASSUME IInv, NEW h \in Handler, Persist(h)
  PROVE  Ledger!Next
  <1> DEFINE req == handler[h].req
             result == Outcome(req, aggregates)
  <1>1. /\ req \in Request /\ InScope(req, aggregates)
        /\ record[ScopeOf(req)] = NoRecord
        /\ Accepted(result)
        /\ aggregates' = Effect(req, aggregates)
        /\ record' = [record EXCEPT ![ScopeOf(req)] = [arg |-> req.arg, result |-> result]]
    BY PersistWrites
  <1>2. Ledger!Execute(req)
    BY <1>1 DEF Ledger!Execute, Ledger!InScope, Ledger!ScopeOf, Ledger!Outcome, Ledger!Accepted,
         Ledger!Effect, Ledger!CreateCompany, Ledger!ReplaceProfile, Ledger!CreateInitiative,
         Ledger!CreateGoalAndRun, Ledger!Reply, Ledger!Failure,
         InScope, ScopeOf, Outcome, Accepted, Effect, CreateCompany, ReplaceProfile,
         CreateInitiative, CreateGoalAndRun, Reply, Failure
  <1>3. req \in Ledger!Request
    BY <1>1 DEF Ledger!Request, Request
  <1> QED BY <1>2, <1>3 DEF Ledger!Next

(* Concurrent, failing and retried requests amount to commands executed    *)
(* one at a time, each once, on current state: the executor implements the *)
(* ledger.                                                                 *)
THEOREM ExecutorImplementsLedger == Spec => ImplementsLedger
  <1>1. Init => Ledger!Init
    BY DEF Init, Ledger!Init, Ledger!Beginnings, Beginnings, Ledger!NoAggregates, NoAggregates,
           Ledger!Scope, Scope
  <1>2. IInv /\ [Next]_vars => [Ledger!Next]_(Ledger!ledger)
    <2> SUFFICES ASSUME IInv, [Next]_vars PROVE Ledger!Next \/ UNCHANGED <<aggregates, record>>
      BY DEF Ledger!ledger
    <2>1. CASE UNCHANGED vars
      BY <2>1 DEF vars
    <2>2. ASSUME NEW h \in Handler,
                 \/ \E req \in Request : Receive(h, req) \/ Refuse(h, req)
                 \/ InsertRecord(h) \/ Lookup(h) \/ Execute(h) \/ Fail(h)
          PROVE  UNCHANGED <<aggregates, record>>
      BY <2>2, OnlyCommitsWrite
    <2>3. ASSUME NEW h \in Handler, Commit(h) \/ CommitUnacknowledged(h) PROVE Ledger!Next
      BY <2>3, CommitExecutes DEF Commit, CommitUnacknowledged
    <2> QED BY <2>1, <2>2, <2>3 DEF Next, HandlerStep
  <1> QED BY <1>1, <1>2, InductiveInvariant, PTL DEF Spec, ImplementsLedger, Ledger!Spec
=============================================================================
