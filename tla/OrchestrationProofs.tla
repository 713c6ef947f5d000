------------------------ MODULE OrchestrationProofs ------------------------
(***************************************************************************)
(* Proofs, for any sets of runs and workers and any bounds, of the safety  *)
(* properties of Orchestration from the inductive invariant IInv.          *)
(***************************************************************************)
EXTENDS Orchestration, TLAPS

(***************************************************************************)
(* What each row update does, field by field.                              *)
(***************************************************************************)
(* SetRunState changes the state and the version of one run.               *)
LEMMA SetRunStateRow ==
  ASSUME run \in [Run -> RunRow], NEW r \in Run, NEW s \in RunState, SetRunState(r, s)
  PROVE  /\ run' \in [Run -> RunRow]
         /\ run'[r].state = s
         /\ run'[r].version = run[r].version + 1
         /\ run'[r].context = run[r].context
         /\ \A q \in Run : q # r => run'[q] = run[q]
  BY DEF SetRunState, RunRow

(* ReleaseTask sets the state of one task and clears its lease.            *)
LEMMA ReleaseTaskRow ==
  ASSUME task \in [Run -> TaskRow], NEW r \in Run, NEW s \in TaskState, ReleaseTask(r, s)
  PROVE  /\ task' \in [Run -> TaskRow]
         /\ task'[r].state = s
         /\ task'[r].token = NoLease
         /\ task'[r].attempts = task[r].attempts
         /\ task'[r].manifest = task[r].manifest
         /\ \A q \in Run : q # r => task'[q] = task[q]
  BY DEF ReleaseTask, TaskRow, NoLease

(* LeaseTask makes one task RUNNING under a new token.                     *)
LEMMA LeaseTaskRow ==
  ASSUME task \in [Run -> TaskRow], NEW r \in Run, NEW n \in Attempt, LeaseTask(r, n)
  PROVE  /\ task' \in [Run -> TaskRow]
         /\ task'[r].state = "RUNNING"
         /\ task'[r].token = n
         /\ task'[r].attempts = n
         /\ task'[r].manifest = task[r].manifest
         /\ \A q \in Run : q # r => task'[q] = task[q]
  <1>1. n \in Nat
    BY BoundsAreNaturals DEF Attempt
  <1> QED BY <1>1 DEF LeaseTask, TaskRow, TaskState

(* StartAttempt leaves the new attempt as the only one RUNNING.            *)
LEMMA StartAttemptRow ==
  ASSUME attempts \in [Run -> [Attempt -> AttemptStatus]],
         NEW r \in Run, NEW n \in Attempt, StartAttempt(r, n)
  PROVE  /\ attempts' \in [Run -> [Attempt -> AttemptStatus]]
         /\ \A m \in Attempt : attempts'[r][m] = "RUNNING" <=> m = n
         /\ \A q \in Run : q # r => attempts'[q] = attempts[q]
  BY DEF StartAttempt, AttemptStatus

(* CloseAttempt touches one attempt, and only if it is RUNNING.            *)
LEMMA CloseAttemptRow ==
  ASSUME attempts \in [Run -> [Attempt -> AttemptStatus]],
         NEW r \in Run, NEW n \in Attempt, NEW s \in {"FAILED", "ABANDONED"},
         CloseAttempt(r, n, s)
  PROVE  /\ attempts' \in [Run -> [Attempt -> AttemptStatus]]
         /\ \A q \in Run, m \in Attempt :
              /\ attempts'[q][m] = "RUNNING" => attempts[q][m] = "RUNNING"
              /\ attempts[q][m] = "SUCCEEDED" => attempts'[q][m] = "SUCCEEDED"
  BY DEF CloseAttempt, AttemptStatus

(* InsertEffect and SettleEffect never change an invocation count.         *)
LEMMA InsertEffectRow ==
  ASSUME effect \in [Run -> EffectRow], NEW r \in Run, InsertEffect(r),
         effect[r].status = "NONE" => effect[r].invocations = 0
  PROVE  /\ effect' \in [Run -> EffectRow]
         /\ effect'[r].status # "NONE"
         /\ \A q \in Run : effect'[q].invocations = effect[q].invocations
         /\ \A q \in Run : q # r => effect'[q] = effect[q]
  BY DEF InsertEffect, EffectRow, EffectStatus

(* Settling a record ends RUNNING and never takes a record away.           *)
LEMMA SettleEffectRow ==
  ASSUME effect \in [Run -> EffectRow], NEW r \in Run,
         NEW s \in {"SUCCEEDED", "UNKNOWN"}, SettleEffect(r, s)
  PROVE  /\ effect' \in [Run -> EffectRow]
         /\ \A q \in Run : /\ effect'[q].invocations = effect[q].invocations
                           /\ effect'[q].status = "NONE" => effect[q].status = "NONE"
  BY DEF SettleEffect, EffectRow, EffectStatus

(* Appending an event keeps the log a log.                                 *)
LEMMA AppendEventRow ==
  ASSUME log \in [Run -> Seq(EventType)], NEW r \in Run, NEW e \in EventType,
         AppendEvent(r, e)
  PROVE  log' \in [Run -> Seq(EventType)]
  BY DEF AppendEvent

(* A worker moves to another step, keeping its claim or dropping it.       *)
LEMMA GotoStep ==
  ASSUME WorkersTypeOK, NEW w \in Worker, NEW s \in Step \ {"idle"}, pc[w] # "idle",
         Goto(w, s), UNCHANGED claim
  PROVE  /\ pc' \in [Worker -> Step]
         /\ claim' \in [Worker -> Claim \cup {NoClaim}]
         /\ \A v \in Worker : claim'[v] = NoClaim <=> pc'[v] = "idle"
         /\ pc'[w] = s
         /\ \A v \in Worker : v # w => pc'[v] = pc[v]
  BY DEF WorkersTypeOK, Goto, Step

(* A worker that is done is idle and holds no claim.                       *)
LEMMA DoneStep ==
  ASSUME WorkersTypeOK, NEW w \in Worker, Done(w)
  PROVE  /\ pc' \in [Worker -> Step]
         /\ claim' \in [Worker -> Claim \cup {NoClaim}]
         /\ \A v \in Worker : claim'[v] = NoClaim <=> pc'[v] = "idle"
         /\ pc'[w] = "idle"
         /\ \A v \in Worker : v # w => pc'[v] = pc[v] /\ claim'[v] = claim[v]
  BY DEF WorkersTypeOK, Done, Goto, Step

(* A worker that is not idle holds a claim.                                *)
LEMMA BusyClaim ==
  ASSUME WorkersTypeOK, NEW w \in Worker, pc[w] # "idle"
  PROVE  /\ claim[w] \in Claim
         /\ claim[w].run \in Run
         /\ claim[w].token \in Attempt
         /\ claim[w].manifest \in Context
         /\ claim[w].snapshot \in Context
  BY DEF WorkersTypeOK, Claim

-----------------------------------------------------------------------------
(***************************************************************************)
(* The initial states satisfy the invariant.                               *)
(***************************************************************************)
LEMMA InitTypeOK == Init => TypeOK
  <1> SUFFICES ASSUME Init PROVE TypeOK
    OBVIOUS
  <1> USE BoundsAreNaturals, MaxFaultsIsNatural DEF Init, DbInit, WorkersInit
  <1>1. run \in [Run -> RunRow] /\ task \in [Run -> TaskRow]
    BY DEF CreatedRun, CreatedTask, RunRow, TaskRow, RunState, TaskState, Context, NoLease
  <1>2. DbTypeOK
    BY <1>1 DEF DbTypeOK, AttemptStatus, EffectRow, EffectStatus, WaitRow, WaitStatus,
                RunState, EventType, Context
  <1>3. WorkersTypeOK
    BY DEF WorkersTypeOK, Step
  <1> QED BY <1>2, <1>3 DEF TypeOK

(* Runs fresh from createGoalAndRun satisfy the whole invariant.           *)
LEMMA InitIInv == Init => IInv
  <1> SUFFICES ASSUME Init PROVE IInv
    OBVIOUS
  <1> USE DEF Init, DbInit, WorkersInit
  <1>1. TypeOK
    BY InitTypeOK
  <1>2. \A r \in Run : /\ task[r].token = NoLease
                       /\ task[r].attempts = 0
                       /\ run[r].context = <<>>
                       /\ task[r].manifest = <<>>
                       /\ \/ run[r].state = "DRAFT" /\ task[r].state = "QUEUED"
                          \/ run[r].state = "AWAITING_FOUNDER_INPUT" /\ task[r].state = "NONE"
    BY DEF CreatedRun, CreatedTask
  <1>3. RunTaskAgreement
    BY <1>2 DEF RunTaskAgreement, TaskStatesOf
  <1>4. OneLiveAttempt /\ ClaimedInv /\ OpenWaitAnswerable
    BY <1>2 DEF OneLiveAttempt, ClaimedInv, OpenWaitAnswerable
  <1>5. ClaimsInv /\ ProviderInv /\ ExclusiveInv /\ EffectInv /\ AtMostOneInvocation
    BY DEF ClaimsInv, ProviderInv, ExclusiveInv, EffectInv, AtMostOneInvocation
  <1>6. BriefIffSucceeded /\ LineageIsComplete
    BY <1>2 DEF BriefIffSucceeded, LineageIsComplete
  <1>7. FirstRounds(0) = <<>>
    BY DEF FirstRounds
  <1>8. ContextInv
    BY <1>2, <1>7 DEF ContextInv
  <1> QED BY <1>1, <1>3, <1>4, <1>5, <1>6, <1>8 DEF IInv

-----------------------------------------------------------------------------
(***************************************************************************)
(* Each action of a worker preserves it.                                   *)
(***************************************************************************)
LEMMA ClaimTaskIInv ==
  ASSUME IInv, NEW w \in Worker, NEW r \in Run, ClaimTask(w, r)
  PROVE  IInv'
  <1> DEFINE n == task[r].attempts + 1
  <1>0. /\ DbTypeOK /\ WorkersTypeOK /\ n \in Attempt /\ n \in Nat
        /\ pc[w] = "idle" /\ Claimable(r) /\ LeaseTask(r, n) /\ StartAttempt(r, n)
        /\ InsertEffect(r) /\ AppendEvent(r, "task_started") /\ Goto(w, "loading")
        /\ claim' = [claim EXCEPT ![w] = [run |-> r, token |-> n,
                       manifest |-> task[r].manifest, snapshot |-> <<>>]]
        /\ UNCHANGED <<briefs, wait, invoked, faults>>
    BY BoundsAreNaturals DEF IInv, TypeOK, ClaimTask, Attempt
  <1>1. /\ run' \in [Run -> RunRow]
        /\ run'[r].state = "QUALIFYING"
        /\ \A q \in Run : run'[q].context = run[q].context
        /\ \A q \in Run : q # r => run'[q] = run[q]
    <2>1. CASE run[r].state = "DRAFT"
      BY <1>0, <2>1, SetRunStateRow DEF ClaimTask, DbTypeOK, RunState
    <2>2. CASE run[r].state # "DRAFT"
      <3>1. run[r].state = "QUALIFYING"
        BY <1>0, <2>2 DEF IInv, RunTaskAgreement, TaskStatesOf, Claimable, DbTypeOK,
                          RunRow, RunState
      <3> QED BY <1>0, <2>2, <3>1 DEF ClaimTask, DbTypeOK
    <2> QED BY <2>1, <2>2
  <1>2. /\ task' \in [Run -> TaskRow]
        /\ task'[r].state = "RUNNING"
        /\ task'[r].token = n
        /\ task'[r].attempts = n
        /\ task'[r].manifest = task[r].manifest
        /\ \A q \in Run : q # r => task'[q] = task[q]
    BY <1>0, LeaseTaskRow DEF DbTypeOK
  <1>3. /\ attempts' \in [Run -> [Attempt -> AttemptStatus]]
        /\ \A m \in Attempt : attempts'[r][m] = "RUNNING" <=> m = n
        /\ \A q \in Run : q # r => attempts'[q] = attempts[q]
    BY <1>0, StartAttemptRow DEF DbTypeOK
  <1>4. /\ effect' \in [Run -> EffectRow]
        /\ effect'[r].status # "NONE"
        /\ \A q \in Run : effect'[q].invocations = effect[q].invocations
        /\ \A q \in Run : q # r => effect'[q] = effect[q]
    BY <1>0, InsertEffectRow DEF DbTypeOK, IInv, EffectInv
  <1>5. log' \in [Run -> Seq(EventType)]
    BY <1>0, AppendEventRow DEF DbTypeOK, EventType
  <1>6. /\ pc' \in [Worker -> Step]
        /\ claim' \in [Worker -> Claim \cup {NoClaim}]
        /\ pc'[w] = "loading"
        /\ claim'[w].run = r /\ claim'[w].token = n
        /\ claim'[w].manifest = task[r].manifest
        /\ claim'[w] \in Claim
        /\ \A v \in Worker : v # w => pc'[v] = pc[v] /\ claim'[v] = claim[v]
    <2>1. task[r].manifest \in Context /\ <<>> \in Context
      BY <1>0 DEF DbTypeOK, TaskRow, Context
    <2>2. [run |-> r, token |-> n, manifest |-> task[r].manifest, snapshot |-> <<>>] \in Claim
      BY <1>0, <2>1 DEF Claim
    <2>3. claim'[w] = [run |-> r, token |-> n, manifest |-> task[r].manifest, snapshot |-> <<>>]
      BY <1>0 DEF WorkersTypeOK
    <2>4. claim' \in [Worker -> Claim \cup {NoClaim}]
      BY <1>0, <2>2 DEF WorkersTypeOK
    <2>5. pc' \in [Worker -> Step] /\ pc'[w] = "loading"
      BY <1>0 DEF WorkersTypeOK, Goto, Step, TryStep
    <2>6. \A v \in Worker : v # w => pc'[v] = pc[v] /\ claim'[v] = claim[v]
      BY <1>0 DEF WorkersTypeOK, Goto
    <2> QED BY <2>2, <2>3, <2>4, <2>5, <2>6
  <1>7. \A v \in Worker : claim'[v] = NoClaim <=> pc'[v] = "idle"
    BY <1>0, <1>6, NoClaimIsNoClaim DEF WorkersTypeOK
  <1>8. TypeOK'
    BY <1>0, <1>1, <1>2, <1>3, <1>4, <1>5, <1>6, <1>7 DEF TypeOK, DbTypeOK, WorkersTypeOK
  <1>9. task[r].state \in {"QUEUED", "READY", "RUNNING"} /\ run[r].state # "CANCELED"
    BY <1>0 DEF Claimable, TerminalRun, DbTypeOK, TaskRow, TaskState
  <1>10. RunTaskAgreement'
    BY <1>1, <1>2 DEF IInv, RunTaskAgreement, TaskStatesOf
  <1>11. OneLiveAttempt' /\ ClaimedInv'
    BY <1>2, <1>3 DEF IInv, OneLiveAttempt, ClaimedInv
  <1>12. wait[r].status # "OPEN"
    BY <1>9 DEF IInv, OpenWaitAnswerable, Answerable
  <1>13. OpenWaitAnswerable'
    BY <1>0, <1>1, <1>2, <1>12 DEF IInv, OpenWaitAnswerable, Answerable
  <1>14. ASSUME NEW v \in Worker, v # w, pc[v] # "idle"
         PROVE  /\ claim[v].run \in Run
                /\ claim[v].token <= task[claim[v].run].attempts
                /\ task[claim[v].run].attempts \in Nat
                /\ claim[v].token \in Nat
    BY <1>0, <1>14, BusyClaim, BoundsAreNaturals DEF IInv, ClaimsInv, Attempt, DbTypeOK, TaskRow
  <1>15. ClaimsInv'
    <2>1. task[r].manifest = run[r].context
      BY DEF IInv, ContextInv
    <2> QED BY <1>0, <1>1, <1>2, <1>6, <1>14, <2>1 DEF IInv, ClaimsInv
  <1>16. ProviderInv'
    <2>1. ASSUME NEW v \in Worker, pc'[v] \in {"invoking", "completing"}
          PROVE  v # w /\ pc[v] = pc'[v] /\ claim'[v] = claim[v] /\ claim[v].run \in Run
      BY <1>6, <1>14, <2>1
    <2>2. ProviderInv /\ \A q \in Run : effect[q].invocations = 1 => effect'[q].invocations = 1
      BY <1>4 DEF IInv
    <2>3. invoked' = invoked
      BY <1>0
    <2>4. ASSUME NEW v \in Worker, pc'[v] = "invoking"
          PROVE  effect'[claim'[v].run].invocations = 1 /\ invoked'[claim'[v].run] = {}
      BY <2>1, <2>2, <2>3, <2>4 DEF ProviderInv
    <2>5. ASSUME NEW v \in Worker, pc'[v] = "completing"
          PROVE  claim'[v].token \in invoked'[claim'[v].run]
      BY <2>1, <2>2, <2>3, <2>5 DEF ProviderInv
    <2> QED BY <2>4, <2>5 DEF ProviderInv
  <1>17. ExclusiveInv'
    BY <1>0, <1>6, <1>14 DEF IInv, ExclusiveInv
  <1>18. EffectInv' /\ AtMostOneInvocation'
    BY <1>0, <1>4 DEF IInv, EffectInv, AtMostOneInvocation
  <1>19. briefs[r] = {}
    BY <1>9 DEF IInv, BriefIffSucceeded
  <1>20. BriefIffSucceeded' /\ LineageIsComplete'
    BY <1>0, <1>2, <1>3, <1>19 DEF IInv, BriefIffSucceeded, LineageIsComplete
  <1>21. ContextInv'
    BY <1>0, <1>1, <1>2, <1>9 DEF IInv, ContextInv
  <1> QED BY <1>8, <1>10, <1>11, <1>13, <1>15, <1>16, <1>17, <1>18, <1>20, <1>21 DEF IInv

(* Worker w gives up its step: it is done, or on its way to failTask with  *)
(* the claim it had; the other workers stay where they are.                *)
Leaves(w) ==
  /\ pc' \in [Worker -> Step]
  /\ claim' \in [Worker -> Claim \cup {NoClaim}]
  /\ \A v \in Worker : claim'[v] = NoClaim <=> pc'[v] = "idle"
  /\ faults' \in 0..MaxFaults
  /\ pc'[w] \in {"idle", "failing"}
  /\ pc'[w] = "failing" => claim'[w] = claim[w]
  /\ \A v \in Worker : v # w => pc'[v] = pc[v] /\ claim'[v] = claim[v]

(* The number of faults stays within its bound.                            *)
LEMMA FaultType ==
  ASSUME WorkersTypeOK, Fault
  PROVE  faults' \in 0..MaxFaults
  BY MaxFaultsIsNatural DEF WorkersTypeOK, Fault

(* Both outcomes of a committed transaction leave the step it was in.      *)
LEMMA ReturnsOrThrows ==
  ASSUME WorkersTypeOK, NEW w \in Worker, pc[w] # "idle", Returns(w) \/ Throws(w)
  PROVE  Leaves(w)
  <1>1. CASE Returns(w)
    BY <1>1, DoneStep DEF Returns, Leaves, WorkersTypeOK
  <1>2. CASE Throws(w)
    <2>1. "failing" \in Step \ {"idle"}
      BY DEF Step
    <2> QED BY <1>2, <2>1, GotoStep, FaultType DEF Throws, Leaves
  <1> QED BY <1>1, <1>2

(* Leaving a step keeps what is known of the workers, if no run changes    *)
(* its snapshot, no attempt is counted, no call of the provider is made.   *)
LEMMA LeavesIInv ==
  ASSUME IInv, NEW w \in Worker, pc[w] # "idle", Leaves(w), UNCHANGED invoked,
         \A q \in Run : /\ run'[q].context = run[q].context
                        /\ task'[q].attempts = task[q].attempts
                        /\ effect'[q].invocations = effect[q].invocations
  PROVE  ClaimsInv' /\ ProviderInv' /\ ExclusiveInv'
  <1>0. WorkersTypeOK
    BY DEF IInv, TypeOK
  <1>1. ASSUME NEW v \in Worker, pc'[v] # "idle"
        PROVE  /\ pc[v] # "idle"
               /\ claim'[v] = claim[v]
               /\ claim[v].run \in Run
               /\ pc'[v] = pc[v] \/ pc'[v] = "failing"
    BY <1>0, <1>1, BusyClaim DEF Leaves
  <1>2. ClaimsInv'
    BY <1>1 DEF IInv, ClaimsInv
  <1>3. ProviderInv'
    <2>1. ASSUME NEW v \in Worker, pc'[v] \in {"invoking", "completing"}
          PROVE  pc[v] = pc'[v] /\ claim'[v] = claim[v] /\ claim[v].run \in Run
      BY <1>1, <2>1
    <2>2. ASSUME NEW v \in Worker, pc'[v] = "invoking"
          PROVE  effect'[claim'[v].run].invocations = 1 /\ invoked'[claim'[v].run] = {}
      <3>1. /\ pc[v] = "invoking" /\ claim'[v] = claim[v]
            /\ effect'[claim[v].run].invocations = effect[claim[v].run].invocations
        BY <2>1, <2>2
      <3>2. effect[claim[v].run].invocations = 1 /\ invoked[claim[v].run] = {}
        BY <3>1 DEF IInv, ProviderInv
      <3> QED BY <3>1, <3>2
    <2>3. ASSUME NEW v \in Worker, pc'[v] = "completing"
          PROVE  claim'[v].token \in invoked'[claim'[v].run]
      BY <2>1, <2>3 DEF IInv, ProviderInv
    <2> QED BY <2>2, <2>3 DEF ProviderInv
  <1>4. ExclusiveInv'
    <2>1. ASSUME NEW v \in Worker, pc'[v] = "invoking"
          PROVE  pc[v] = "invoking"
      BY <1>1, <2>1
    <2> QED BY <1>1, <2>1 DEF IInv, ExclusiveInv
  <1> QED BY <1>2, <1>3, <1>4

(* A step that leaves the database as it is keeps the rest.                *)
LEMMA SameDbIInv ==
  ASSUME IInv, UNCHANGED <<db, invoked>>
  PROVE  /\ DbTypeOK' /\ RunTaskAgreement' /\ OneLiveAttempt' /\ ClaimedInv'
         /\ OpenWaitAnswerable' /\ EffectInv' /\ AtMostOneInvocation'
         /\ BriefIffSucceeded' /\ ContextInv' /\ LineageIsComplete'
  <1> USE DEF IInv, db
  <1>1. DbTypeOK' /\ RunTaskAgreement' /\ OneLiveAttempt' /\ ClaimedInv'
    BY DEF TypeOK, DbTypeOK, RunTaskAgreement, OneLiveAttempt, ClaimedInv
  <1>2. OpenWaitAnswerable' /\ EffectInv' /\ AtMostOneInvocation'
    BY DEF OpenWaitAnswerable, Answerable, EffectInv, AtMostOneInvocation
  <1>3. BriefIffSucceeded' /\ ContextInv' /\ LineageIsComplete'
    BY DEF BriefIffSucceeded, ContextInv, LineageIsComplete
  <1> QED BY <1>1, <1>2, <1>3

(* A rolled-back step and a dead process change no row.                    *)
LEMMA ThrowOrCrashIInv ==
  ASSUME IInv, NEW w \in Worker, ThrowInTry(w) \/ Crash(w)
  PROVE  IInv'
  <1>0. WorkersTypeOK
    BY DEF IInv, TypeOK
  <1>1. pc[w] # "idle" /\ UNCHANGED <<db, invoked>>
    BY DEF ThrowInTry, Crash, TryStep
  <1>2. Leaves(w)
    <2>1. CASE ThrowInTry(w)
      BY <1>0, <1>1, <2>1, ReturnsOrThrows DEF ThrowInTry
    <2>2. CASE Crash(w)
      BY <1>0, <2>2, DoneStep, FaultType DEF Crash, Leaves
    <2> QED BY <2>1, <2>2
  <1>3. WorkersTypeOK'
    BY <1>0, <1>1, <1>2 DEF WorkersTypeOK, Leaves
  <1>4. ClaimsInv' /\ ProviderInv' /\ ExclusiveInv'
    BY <1>1, <1>2, LeavesIInv DEF db
  <1> QED BY <1>1, <1>3, <1>4, SameDbIInv DEF IInv, TypeOK

(* The snapshot read now is the one the manifest named at the claim.       *)
LEMMA LoadContextIInv ==
  ASSUME IInv, NEW w \in Worker, LoadContext(w)
  PROVE  IInv'
  <1>0. WorkersTypeOK /\ DbTypeOK /\ pc[w] = "loading" /\ UNCHANGED <<db, invoked, faults>>
    BY DEF IInv, TypeOK, LoadContext
  <1>1. claim[w] \in Claim /\ claim[w].run \in Run /\ run[claim[w].run].context \in Context
    BY <1>0, BusyClaim DEF DbTypeOK, RunRow
  <1>2. /\ claim' \in [Worker -> Claim \cup {NoClaim}]
        /\ claim'[w] \in Claim
        /\ claim'[w].run = claim[w].run
        /\ claim'[w].token = claim[w].token
        /\ claim'[w].manifest = claim[w].manifest
        /\ claim'[w].snapshot = run[claim[w].run].context
        /\ \A v \in Worker : v # w => claim'[v] = claim[v]
    BY <1>0, <1>1 DEF LoadContext, WorkersTypeOK, Claim
  <1>3. /\ pc' \in [Worker -> Step]
        /\ pc'[w] = "checking"
        /\ \A v \in Worker : v # w => pc'[v] = pc[v]
    BY <1>0 DEF LoadContext, WorkersTypeOK, Goto, Step, TryStep
  <1>4. WorkersTypeOK'
    BY <1>0, <1>2, <1>3, NoClaimIsNoClaim DEF WorkersTypeOK
  <1>5. \A v \in Worker : pc'[v] # "idle" => pc[v] # "idle" /\ claim[v].run \in Run
    BY <1>0, <1>3, BusyClaim
  <1>6. ClaimsInv'
    BY <1>0, <1>2, <1>3, <1>5 DEF IInv, ClaimsInv, db
  <1>7. ProviderInv'
    BY <1>0, <1>2, <1>3, <1>5 DEF IInv, ProviderInv, db
  <1>8. ExclusiveInv'
    BY <1>0, <1>2, <1>3, <1>5 DEF IInv, ExclusiveInv
  <1> QED BY <1>0, <1>4, <1>6, <1>7, <1>8, SameDbIInv DEF IInv, TypeOK

(* The lease check only decides where the worker goes next.                *)
LEMMA IsLeaseCurrentIInv ==
  ASSUME IInv, NEW w \in Worker, IsLeaseCurrent(w)
  PROVE  IInv'
  <1>0. /\ WorkersTypeOK /\ pc[w] = "checking" /\ UNCHANGED <<db, claim, invoked, faults>>
        /\ \E s \in {"beginning", "abandoning"} : Goto(w, s)
    BY DEF IInv, TypeOK, IsLeaseCurrent
  <1>1. PICK s \in {"beginning", "abandoning"} : Goto(w, s)
    BY <1>0
  <1>2. s \in Step \ {"idle"}
    BY DEF Step, TryStep
  <1>3. /\ WorkersTypeOK'
        /\ pc'[w] = s
        /\ \A v \in Worker : v # w => pc'[v] = pc[v]
    BY <1>0, <1>1, <1>2, GotoStep DEF WorkersTypeOK
  <1>4. ClaimsInv'
    BY <1>0, <1>3 DEF IInv, ClaimsInv, db
  <1>5. ProviderInv'
    BY <1>0, <1>3 DEF IInv, ProviderInv, db
  <1>6. ExclusiveInv'
    BY <1>0, <1>3 DEF IInv, ExclusiveInv
  <1> QED BY <1>0, <1>3, <1>4, <1>5, <1>6, SameDbIInv DEF IInv, TypeOK

-----------------------------------------------------------------------------
(* What the closing transactions do to the rows of the run, apart from its *)
(* effect and its briefs.  They keep the conjuncts below; no attempt       *)
(* becomes RUNNING and no context and no attempt count changes.            *)
RowsInv ==
  /\ run \in [Run -> RunRow] /\ task \in [Run -> TaskRow]
  /\ RunTaskAgreement /\ OneLiveAttempt /\ ClaimedInv
  /\ OpenWaitAnswerable /\ ContextInv

SameProgress ==
  \A q \in Run : /\ run'[q].context = run[q].context
                 /\ task'[q].attempts = task[q].attempts

(* Task and run leave RUNNING / QUALIFYING together.                       *)
LEMMA ReleaseRows ==
  ASSUME IInv, NEW r \in Run, task[r].state = "RUNNING", UNCHANGED wait,
         NEW rs \in {"BLOCKED", "AWAITING_BRIEF_APPROVAL"},
         NEW ts \in {"BLOCKED", "SUCCEEDED"}, ts \in TaskStatesOf(rs),
         SetRunState(r, rs), ReleaseTask(r, ts),
         \A q \in Run, m \in Attempt :
           attempts'[q][m] = "RUNNING" => attempts[q][m] = "RUNNING"
  PROVE  RowsInv' /\ SameProgress
  <1>0. run \in [Run -> RunRow] /\ task \in [Run -> TaskRow] /\ rs \in RunState /\ ts \in TaskState
    BY DEF IInv, TypeOK, DbTypeOK, RunState, TaskState
  <1>1. /\ run' \in [Run -> RunRow]
        /\ run'[r].state = rs
        /\ run'[r].context = run[r].context
        /\ \A q \in Run : q # r => run'[q] = run[q]
    BY <1>0, SetRunStateRow
  <1>2. /\ task' \in [Run -> TaskRow]
        /\ task'[r].state = ts
        /\ task'[r].token = NoLease
        /\ task'[r].attempts = task[r].attempts
        /\ task'[r].manifest = task[r].manifest
        /\ \A q \in Run : q # r => task'[q] = task[q]
    BY <1>0, ReleaseTaskRow
  <1>3. RunTaskAgreement'
    BY <1>1, <1>2 DEF IInv, RunTaskAgreement
  <1>4. OneLiveAttempt'
    BY <1>2 DEF IInv, OneLiveAttempt
  <1>5. ClaimedInv'
    BY <1>2 DEF IInv, ClaimedInv
  <1>6. wait[r].status # "OPEN" /\ run[r].state = "QUALIFYING"
    BY <1>0 DEF IInv, OpenWaitAnswerable, Answerable, RunTaskAgreement, TaskStatesOf,
                RunRow, RunState
  <1>7. OpenWaitAnswerable'
    BY <1>1, <1>2, <1>6 DEF IInv, OpenWaitAnswerable, Answerable
  <1>8. ContextInv'
    BY <1>1, <1>2, <1>6 DEF IInv, ContextInv
  <1> QED BY <1>1, <1>2, <1>3, <1>4, <1>5, <1>7, <1>8 DEF RowsInv, SameProgress

(* Rows that are left alone keep their relation.                           *)
LEMMA SameRows ==
  ASSUME IInv, UNCHANGED <<run, task, wait>>,
         \A q \in Run, m \in Attempt :
           attempts'[q][m] = "RUNNING" => attempts[q][m] = "RUNNING"
  PROVE  RowsInv' /\ SameProgress
  BY DEF IInv, TypeOK, DbTypeOK, RowsInv, SameProgress, RunTaskAgreement, OneLiveAttempt,
         ClaimedInv, OpenWaitAnswerable, Answerable, ContextInv

(* BLOCKED is such a pair of states, and publishes no brief.               *)
LEMMA BlockRows ==
  ASSUME IInv, NEW r \in Run, task[r].state = "RUNNING", UNCHANGED wait, BlockTask(r),
         \A q \in Run, m \in Attempt :
           attempts'[q][m] = "RUNNING" => attempts[q][m] = "RUNNING"
  PROVE  /\ RowsInv' /\ SameProgress
         /\ log' \in [Run -> Seq(EventType)]
         /\ \A q \in Run : task'[q].state = "SUCCEEDED" <=> task[q].state = "SUCCEEDED"
  <1>1. RowsInv' /\ SameProgress
    BY ReleaseRows DEF BlockTask, TaskStatesOf
  <1>2. log' \in [Run -> Seq(EventType)]
    BY AppendEventRow DEF BlockTask, IInv, TypeOK, DbTypeOK, EventType
  <1>3. task'[r].state = "BLOCKED" /\ \A q \in Run : q # r => task'[q] = task[q]
    BY ReleaseTaskRow DEF BlockTask, IInv, TypeOK, DbTypeOK, TaskState
  <1> QED BY <1>1, <1>2, <1>3

(* The briefs of a run survive as long as its task and its SUCCEEDED       *)
(* attempts do.                                                            *)
LEMMA SameBriefs ==
  ASSUME IInv, UNCHANGED <<briefs, wait, invoked>>,
         \A q \in Run : task'[q].state = "SUCCEEDED" <=> task[q].state = "SUCCEEDED",
         \A q \in Run, m \in Attempt :
           attempts[q][m] = "SUCCEEDED" => attempts'[q][m] = "SUCCEEDED"
  PROVE  BriefIffSucceeded' /\ LineageIsComplete' /\ AtMostOneInvocation'
  <1>1. ASSUME NEW q \in Run, NEW b \in briefs[q]
        PROVE  b.attempt \in Attempt
    BY <1>1 DEF IInv, TypeOK, DbTypeOK, Brief
  <1> QED BY <1>1 DEF IInv, BriefIffSucceeded, LineageIsComplete, AtMostOneInvocation

-----------------------------------------------------------------------------
(* Closing an attempt as STALE_BEFORE_INVOCATION.                          *)
LEMMA AbandonAttemptIInv ==
  ASSUME IInv, NEW w \in Worker, AbandonAttempt(w)
  PROVE  IInv'
  <1> DEFINE r == claim[w].run
  <1>0. /\ DbTypeOK /\ WorkersTypeOK /\ pc[w] # "idle"
        /\ CloseAttempt(r, claim[w].token, "ABANDONED")
        /\ UNCHANGED <<run, task, effect, briefs, wait, log, invoked>>
    BY DEF IInv, TypeOK, AbandonAttempt
  <1>1. /\ attempts' \in [Run -> [Attempt -> AttemptStatus]]
        /\ \A q \in Run, m \in Attempt :
             /\ attempts'[q][m] = "RUNNING" => attempts[q][m] = "RUNNING"
             /\ attempts[q][m] = "SUCCEEDED" => attempts'[q][m] = "SUCCEEDED"
    BY <1>0, BusyClaim, CloseAttemptRow DEF DbTypeOK
  <1>2. Leaves(w)
    BY <1>0, ReturnsOrThrows DEF AbandonAttempt
  <1>3. TypeOK'
    BY <1>0, <1>1, <1>2 DEF TypeOK, DbTypeOK, WorkersTypeOK, Leaves
  <1>4. RowsInv' /\ SameProgress
    BY <1>0, <1>1, SameRows
  <1>5. ClaimsInv' /\ ProviderInv' /\ ExclusiveInv'
    BY <1>0, <1>2, LeavesIInv
  <1>6. BriefIffSucceeded' /\ LineageIsComplete' /\ AtMostOneInvocation'
    BY <1>0, <1>1, SameBriefs
  <1>7. EffectInv'
    BY <1>0 DEF IInv, EffectInv
  <1> QED BY <1>3, <1>4, <1>5, <1>6, <1>7 DEF IInv, RowsInv

(* An unknown outcome blocks the task, if the worker still holds it.       *)
LEMMA BlockUnknownModelOutcomeIInv ==
  ASSUME IInv, NEW w \in Worker, BlockUnknownModelOutcome(w)
  PROVE  IInv'
  <1> DEFINE r == claim[w].run
  <1>0. /\ DbTypeOK /\ WorkersTypeOK /\ pc[w] # "idle" /\ r \in Run
        /\ CloseAttempt(r, claim[w].token, "ABANDONED")
        /\ IF HoldsTask(claim[w]) THEN BlockTask(r) ELSE UNCHANGED <<task, run, log>>
        /\ UNCHANGED <<effect, briefs, wait, invoked>>
    BY BusyClaim DEF IInv, TypeOK, BlockUnknownModelOutcome
  <1>1. /\ attempts' \in [Run -> [Attempt -> AttemptStatus]]
        /\ \A q \in Run, m \in Attempt :
             /\ attempts'[q][m] = "RUNNING" => attempts[q][m] = "RUNNING"
             /\ attempts[q][m] = "SUCCEEDED" => attempts'[q][m] = "SUCCEEDED"
    BY <1>0, BusyClaim, CloseAttemptRow DEF DbTypeOK
  <1>2. Leaves(w)
    BY <1>0, ReturnsOrThrows DEF BlockUnknownModelOutcome
  <1>3. /\ RowsInv' /\ SameProgress /\ log' \in [Run -> Seq(EventType)]
        /\ \A q \in Run : task'[q].state = "SUCCEEDED" <=> task[q].state = "SUCCEEDED"
    <2>1. CASE HoldsTask(claim[w])
      <3>1. task[r].state = "RUNNING" /\ BlockTask(r)
        BY <1>0, <2>1 DEF HoldsTask
      <3>2. \A q \in Run, m \in Attempt :
              attempts'[q][m] = "RUNNING" => attempts[q][m] = "RUNNING"
        BY <1>1
      <3> QED BY <1>0, <3>1, <3>2, BlockRows
    <2>2. CASE ~HoldsTask(claim[w])
      BY <1>0, <1>1, <2>2, SameRows DEF DbTypeOK
    <2> QED BY <2>1, <2>2
  <1>4. TypeOK'
    BY <1>0, <1>1, <1>2, <1>3 DEF TypeOK, DbTypeOK, WorkersTypeOK, Leaves, RowsInv
  <1>5. ClaimsInv' /\ ProviderInv' /\ ExclusiveInv'
    BY <1>0, <1>2, <1>3, LeavesIInv DEF SameProgress
  <1>6. BriefIffSucceeded' /\ LineageIsComplete' /\ AtMostOneInvocation'
    BY <1>0, <1>1, <1>3, SameBriefs
  <1>7. EffectInv'
    BY <1>0 DEF IInv, EffectInv
  <1> QED BY <1>3, <1>4, <1>5, <1>6, <1>7 DEF IInv, RowsInv

(* The stale branch of completeTask and failTask.                          *)
LEMMA DiscardStaleIInv ==
  ASSUME IInv, NEW w \in Worker, pc[w] # "idle", DiscardStale(claim[w]), Leaves(w),
         UNCHANGED <<wait, invoked>>
  PROVE  IInv'
  <1> DEFINE r == claim[w].run
  <1>0. /\ DbTypeOK /\ WorkersTypeOK /\ r \in Run
        /\ CloseAttempt(r, claim[w].token, "ABANDONED")
        /\ SettleEffect(r, "UNKNOWN")
        /\ UNCHANGED <<run, task, briefs, log>>
    BY BusyClaim DEF IInv, TypeOK, DiscardStale
  <1>1. /\ attempts' \in [Run -> [Attempt -> AttemptStatus]]
        /\ \A q \in Run, m \in Attempt :
             /\ attempts'[q][m] = "RUNNING" => attempts[q][m] = "RUNNING"
             /\ attempts[q][m] = "SUCCEEDED" => attempts'[q][m] = "SUCCEEDED"
    BY <1>0, BusyClaim, CloseAttemptRow DEF DbTypeOK
  <1>2. /\ effect' \in [Run -> EffectRow]
        /\ \A q \in Run : /\ effect'[q].invocations = effect[q].invocations
                          /\ effect'[q].status = "NONE" => effect[q].status = "NONE"
    BY <1>0, SettleEffectRow DEF DbTypeOK
  <1>3. TypeOK'
    BY <1>0, <1>1, <1>2 DEF TypeOK, DbTypeOK, WorkersTypeOK, Leaves
  <1>4. RowsInv' /\ SameProgress
    BY <1>0, <1>1, SameRows
  <1>5. ClaimsInv' /\ ProviderInv' /\ ExclusiveInv'
    BY <1>2, <1>4, LeavesIInv DEF SameProgress
  <1>6. BriefIffSucceeded' /\ LineageIsComplete' /\ AtMostOneInvocation'
    BY <1>0, <1>1, SameBriefs
  <1>7. EffectInv'
    BY <1>2 DEF IInv, EffectInv
  <1> QED BY <1>3, <1>4, <1>5, <1>6, <1>7 DEF IInv, RowsInv

(* A failure blocks the task, if the worker still holds it.                *)
LEMMA FailTaskIInv ==
  ASSUME IInv, NEW w \in Worker, FailTask(w)
  PROVE  IInv'
  <1> DEFINE r == claim[w].run
  <1>0. DbTypeOK /\ WorkersTypeOK /\ pc[w] # "idle" /\ UNCHANGED <<wait, invoked>>
    BY DEF IInv, TypeOK, FailTask
  <1>1. Leaves(w)
    BY <1>0, ReturnsOrThrows DEF FailTask
  <1>2. CASE ~HoldsTask(claim[w])
    BY <1>0, <1>1, <1>2, DiscardStaleIInv DEF FailTask
  <1>3. CASE HoldsTask(claim[w])
    <2>0. /\ r \in Run /\ task[r].state = "RUNNING" /\ BlockTask(r)
          /\ CloseAttempt(r, claim[w].token, "FAILED")
          /\ SettleEffect(r, "UNKNOWN")
          /\ UNCHANGED briefs
      BY <1>0, <1>3, BusyClaim DEF FailTask, HoldsTask
    <2>1. /\ attempts' \in [Run -> [Attempt -> AttemptStatus]]
          /\ \A q \in Run, m \in Attempt :
               /\ attempts'[q][m] = "RUNNING" => attempts[q][m] = "RUNNING"
               /\ attempts[q][m] = "SUCCEEDED" => attempts'[q][m] = "SUCCEEDED"
      BY <1>0, <2>0, BusyClaim, CloseAttemptRow DEF DbTypeOK
    <2>2. /\ effect' \in [Run -> EffectRow]
          /\ \A q \in Run : /\ effect'[q].invocations = effect[q].invocations
                            /\ effect'[q].status = "NONE" => effect[q].status = "NONE"
      BY <1>0, <2>0, SettleEffectRow DEF DbTypeOK
    <2>3. /\ RowsInv' /\ SameProgress /\ log' \in [Run -> Seq(EventType)]
          /\ \A q \in Run : task'[q].state = "SUCCEEDED" <=> task[q].state = "SUCCEEDED"
      <3>1. \A q \in Run, m \in Attempt :
              attempts'[q][m] = "RUNNING" => attempts[q][m] = "RUNNING"
        BY <2>1
      <3> QED BY <1>0, <2>0, <3>1, BlockRows
    <2>4. TypeOK'
      BY <1>0, <1>1, <2>0, <2>1, <2>2, <2>3 DEF TypeOK, DbTypeOK, WorkersTypeOK, Leaves, RowsInv
    <2>5. ClaimsInv' /\ ProviderInv' /\ ExclusiveInv'
      BY <1>0, <1>1, <2>2, <2>3, LeavesIInv DEF SameProgress
    <2>6. BriefIffSucceeded' /\ LineageIsComplete' /\ AtMostOneInvocation'
      BY <1>0, <2>0, <2>1, <2>3, SameBriefs
    <2>7. EffectInv'
      BY <1>0, <2>2 DEF IInv, EffectInv
    <2> QED BY <2>3, <2>4, <2>5, <2>6, <2>7 DEF IInv, RowsInv
  <1> QED BY <1>2, <1>3

(* The holder publishes the only brief of the run, with a full lineage.    *)
LEMMA CompleteTaskIInv ==
  ASSUME IInv, NEW w \in Worker, CompleteTask(w)
  PROVE  IInv'
  <1> DEFINE r == claim[w].run
             n == claim[w].token
             b == [attempt |-> n, lineage |-> claim[w].manifest, snapshot |-> claim[w].snapshot]
  <1>0. /\ DbTypeOK /\ WorkersTypeOK /\ pc[w] = "completing" /\ UNCHANGED <<wait, invoked>>
        /\ r \in Run /\ n \in Attempt
    BY BusyClaim DEF IInv, TypeOK, CompleteTask
  <1>1. Leaves(w)
    BY <1>0, ReturnsOrThrows DEF CompleteTask
  <1>2. CASE ~HoldsTask(claim[w])
    BY <1>0, <1>1, <1>2, DiscardStaleIInv DEF CompleteTask
  <1>3. CASE HoldsTask(claim[w])
    <2>0. /\ task[r].state = "RUNNING" /\ run[r].state # "CANCELED"
          /\ briefs' = [briefs EXCEPT ![r] = @ \cup {b}]
          /\ attempts' = [attempts EXCEPT ![r][n] = "SUCCEEDED"]
          /\ SettleEffect(r, "SUCCEEDED")
          /\ ReleaseTask(r, "SUCCEEDED")
          /\ SetRunState(r, "AWAITING_BRIEF_APPROVAL")
          /\ AppendEvent(r, "product_brief_published")
      BY <1>0, <1>3 DEF CompleteTask, PublishBrief, HoldsTask, TerminalRun
    <2>1. /\ attempts' \in [Run -> [Attempt -> AttemptStatus]]
          /\ attempts'[r][n] = "SUCCEEDED"
          /\ \A q \in Run, m \in Attempt :
               attempts'[q][m] = "RUNNING" => attempts[q][m] = "RUNNING"
          /\ \A q \in Run : q # r => attempts'[q] = attempts[q]
      BY <1>0, <2>0 DEF DbTypeOK, AttemptStatus
    <2>2. /\ effect' \in [Run -> EffectRow]
          /\ \A q \in Run : /\ effect'[q].invocations = effect[q].invocations
                            /\ effect'[q].status = "NONE" => effect[q].status = "NONE"
      BY <1>0, <2>0, SettleEffectRow DEF DbTypeOK
    <2>3. RowsInv' /\ SameProgress
      <3>1. \A q \in Run, m \in Attempt :
              attempts'[q][m] = "RUNNING" => attempts[q][m] = "RUNNING"
        BY <2>1
      <3>2. "SUCCEEDED" \in TaskStatesOf("AWAITING_BRIEF_APPROVAL")
        BY DEF TaskStatesOf
      <3> QED BY <1>0, <2>0, <3>1, <3>2, ReleaseRows
    <2>4. /\ task'[r].state = "SUCCEEDED"
          /\ \A q \in Run : q # r => task'[q] = task[q]
      BY <1>0, <2>0, ReleaseTaskRow DEF DbTypeOK, TaskState
    <2>5. log' \in [Run -> Seq(EventType)]
      BY <1>0, <2>0, AppendEventRow DEF DbTypeOK, EventType
    <2>6. briefs[r] = {}
      BY <1>0, <2>0 DEF IInv, BriefIffSucceeded
    <2>7. b \in Brief
      BY <1>0, BusyClaim DEF Brief
    <2>8. briefs' \in [Run -> SUBSET Brief] /\ briefs'[r] = {b}
          /\ \A q \in Run : q # r => briefs'[q] = briefs[q]
      <3> HIDE DEF b, r
      <3> QED BY <1>0, <2>0, <2>6, <2>7 DEF DbTypeOK
    <2>9. TypeOK'
      BY <1>0, <1>1, <2>1, <2>2, <2>3, <2>5, <2>8
         DEF TypeOK, DbTypeOK, WorkersTypeOK, Leaves, RowsInv
    <2>10. ClaimsInv' /\ ProviderInv' /\ ExclusiveInv'
      BY <1>0, <1>1, <2>2, <2>3, LeavesIInv DEF SameProgress
    <2>11. n \in invoked[r]
      BY <1>0 DEF IInv, ProviderInv
    <2>12. BriefIffSucceeded'
      <3>1. b.attempt = n
        OBVIOUS
      <3> HIDE DEF b, r, n
      <3>2. ASSUME NEW q \in Run, q # r
            PROVE  /\ briefs'[q] = briefs[q] /\ task'[q] = task[q]
                   /\ attempts'[q] = attempts[q] /\ invoked'[q] = invoked[q]
        BY <1>0, <2>1, <2>4, <2>8, <3>2
      <3>3. /\ briefs'[r] = {b} /\ task'[r].state = "SUCCEEDED"
            /\ b.attempt \in invoked'[r] /\ attempts'[r][b.attempt] = "SUCCEEDED"
        BY <1>0, <2>1, <2>4, <2>8, <2>11, <3>1
      <3>4. \A b1, b2 \in briefs'[r] : b1 = b2
        BY <3>3
      <3> QED BY <1>0, <3>2, <3>3, <3>4 DEF IInv, BriefIffSucceeded
    <2>13. b.lineage = b.snapshot /\ b.lineage = FirstRounds(wait[r].round)
      <3>1. b.lineage = run[r].context /\ b.snapshot = run[r].context
        BY <1>0 DEF IInv, ClaimsInv
      <3>2. wait[r].status \in {"NONE", "RESOLVED"}
        BY <1>0, <2>0 DEF IInv, DbTypeOK, WaitRow, WaitStatus, OpenWaitAnswerable,
                          Answerable, ContextInv
      <3>3. run[r].context = FirstRounds(wait[r].round)
        BY <1>0, <3>2 DEF IInv, ContextInv
      <3> QED BY <3>1, <3>3
    <2>14. LineageIsComplete'
      <3> HIDE DEF b, r
      <3> QED BY <1>0, <2>8, <2>13 DEF IInv, LineageIsComplete
    <2>15. EffectInv' /\ AtMostOneInvocation'
      BY <1>0, <2>2 DEF IInv, EffectInv, AtMostOneInvocation
    <2> QED BY <2>3, <2>9, <2>10, <2>12, <2>14, <2>15 DEF IInv, RowsInv
  <1> QED BY <1>2, <1>3

(* The count goes from 0 to 1 before the one call of the provider.         *)
LEMMA BeginModelInvocationIInv ==
  ASSUME IInv, NEW w \in Worker, BeginModelInvocation(w)
  PROVE  IInv'
  <1> DEFINE r == claim[w].run
  <1>0. /\ DbTypeOK /\ WorkersTypeOK /\ pc[w] = "beginning" /\ r \in Run
        /\ UNCHANGED <<run, task, attempts, briefs, wait, log, invoked>>
    BY BusyClaim DEF IInv, TypeOK, BeginModelInvocation
  <1>1. CASE ~MayInvoke(r)
    <2>0. Goto(w, "reconciling") /\ UNCHANGED <<effect, claim, faults>>
      BY <1>1 DEF BeginModelInvocation
    <2>1. "reconciling" \in Step \ {"idle"}
      BY DEF Step, TryStep
    <2>2. /\ WorkersTypeOK'
          /\ pc'[w] = "reconciling"
          /\ \A v \in Worker : v # w => pc'[v] = pc[v]
      BY <1>0, <2>0, <2>1, GotoStep DEF WorkersTypeOK
    <2>3. ClaimsInv' /\ ProviderInv' /\ ExclusiveInv'
      BY <1>0, <2>0, <2>2 DEF IInv, ClaimsInv, ProviderInv, ExclusiveInv
    <2> QED BY <1>0, <2>0, <2>2, <2>3, SameDbIInv DEF IInv, TypeOK, db
  <1>2. CASE MayInvoke(r)
    <2>0. /\ effect' = [effect EXCEPT ![r].invocations = 1]
          /\ \/ Goto(w, "invoking") /\ UNCHANGED <<claim, faults>>
             \/ Throws(w)
          /\ effect[r].invocations = 0 /\ effect[r].status = "RUNNING"
      BY <1>2 DEF BeginModelInvocation, MayInvoke
    <2>1. /\ effect' \in [Run -> EffectRow]
          /\ effect'[r].invocations = 1 /\ effect'[r].status = "RUNNING"
          /\ \A q \in Run : q # r => effect'[q] = effect[q]
      BY <1>0, <2>0 DEF DbTypeOK, EffectRow
    <2>2. /\ WorkersTypeOK'
          /\ claim' = claim
          /\ pc'[w] \in {"invoking", "failing"}
          /\ \A v \in Worker : v # w => pc'[v] = pc[v]
      <3>1. "invoking" \in Step \ {"idle"} /\ "failing" \in Step \ {"idle"}
        BY DEF Step
      <3>2. CASE Goto(w, "invoking") /\ UNCHANGED <<claim, faults>>
        BY <1>0, <3>1, <3>2, GotoStep DEF WorkersTypeOK
      <3>3. CASE Throws(w)
        BY <1>0, <3>1, <3>3, GotoStep, FaultType DEF WorkersTypeOK, Throws
      <3> QED BY <2>0, <3>2, <3>3
    <2>3. TypeOK'
      BY <1>0, <2>1, <2>2 DEF TypeOK, DbTypeOK
    <2>4. invoked[r] = {} /\ \A v \in Worker : pc[v] = "invoking" => claim[v].run # r
      BY <1>0, <2>0 DEF IInv, EffectInv, ProviderInv
    <2>5. ClaimsInv'
      BY <1>0, <2>2 DEF IInv, ClaimsInv
    <2>6. ProviderInv'
      <3>1. ASSUME NEW v \in Worker, v # w, pc[v] = "invoking"
            PROVE  effect'[claim[v].run].invocations = 1
        <4>1. claim[v].run \in Run /\ claim[v].run # r
          BY <1>0, <2>4, <3>1, BusyClaim
        <4>2. effect[claim[v].run].invocations = 1
          BY <3>1 DEF IInv, ProviderInv
        <4> QED BY <2>1, <4>1, <4>2
      <3> QED BY <1>0, <2>1, <2>2, <2>4, <3>1 DEF IInv, ProviderInv
    <2>7. ExclusiveInv'
      BY <1>0, <2>2, <2>4 DEF IInv, ExclusiveInv
    <2>8. EffectInv' /\ AtMostOneInvocation'
      BY <1>0, <2>1 DEF IInv, EffectInv, AtMostOneInvocation
    <2>9. RowsInv'
      BY <1>0, SameRows
    <2>10. BriefIffSucceeded' /\ LineageIsComplete'
      BY <1>0, SameBriefs
    <2> QED BY <2>3, <2>5, <2>6, <2>7, <2>8, <2>9, <2>10 DEF IInv, RowsInv
  <1> QED BY <1>1, <1>2

(* The call itself: nobody called before, nobody else is about to.         *)
LEMMA InvokeIInv ==
  ASSUME IInv, NEW w \in Worker, Invoke(w)
  PROVE  IInv'
  <1> DEFINE r == claim[w].run
  <1>0. /\ DbTypeOK /\ WorkersTypeOK /\ pc[w] = "invoking" /\ UNCHANGED <<db, claim, faults>>
        /\ invoked' = [invoked EXCEPT ![r] = @ \cup {claim[w].token}]
        /\ r \in Run /\ claim[w].token \in Attempt
    BY BusyClaim DEF IInv, TypeOK, Invoke
  <1>1. PICK s \in {"completing", "failing"} : Goto(w, s)
    BY DEF Invoke
  <1>2. s \in Step \ {"idle"}
    BY DEF Step, TryStep
  <1>3. /\ pc' \in [Worker -> Step]
        /\ \A v \in Worker : claim'[v] = NoClaim <=> pc'[v] = "idle"
        /\ pc'[w] = s
        /\ \A v \in Worker : v # w => pc'[v] = pc[v]
    BY <1>0, <1>1, <1>2, GotoStep
  <1>4. invoked[r] = {} /\ effect[r].invocations = 1
    BY <1>0 DEF IInv, ProviderInv
  <1>5. /\ invoked' \in [Run -> SUBSET Attempt]
        /\ invoked'[r] = {claim[w].token}
        /\ \A q \in Run : q # r => invoked'[q] = invoked[q]
    BY <1>0, <1>4 DEF WorkersTypeOK
  <1>6. TypeOK'
    BY <1>0, <1>3, <1>5 DEF TypeOK, DbTypeOK, WorkersTypeOK, db
  <1>7. ClaimsInv'
    BY <1>0, <1>3 DEF IInv, ClaimsInv, db
  <1>8. \A v \in Worker : (v # w /\ pc[v] # "idle") =>
          claim[v].run \in Run /\ (claim[v].run = r => pc[v] # "invoking")
    BY <1>0, BusyClaim DEF IInv, ExclusiveInv
  <1>9. ProviderInv'
    <2>1. ASSUME NEW v \in Worker, pc'[v] = "invoking"
          PROVE  effect[claim[v].run].invocations = 1 /\ invoked'[claim[v].run] = {}
      <3>1. v # w /\ pc[v] = "invoking" /\ claim[v].run \in Run /\ claim[v].run # r
        BY <1>3, <1>8, <2>1
      <3> QED BY <1>5, <3>1 DEF IInv, ProviderInv
    <2>2. ASSUME NEW v \in Worker, pc'[v] = "completing"
          PROVE  claim[v].token \in invoked'[claim[v].run]
      <3>1. CASE v = w
        BY <1>5, <3>1
      <3>2. CASE v # w
        <4>1. pc[v] = "completing" /\ claim[v].run \in Run
          BY <1>3, <1>8, <2>2, <3>2
        <4>2. claim[v].token \in invoked[claim[v].run]
          BY <4>1 DEF IInv, ProviderInv
        <4> QED BY <1>4, <1>5, <4>1, <4>2
      <3> QED BY <3>1, <3>2
    <2> QED BY <1>0, <2>1, <2>2 DEF ProviderInv, db
  <1>10. ExclusiveInv'
    BY <1>0, <1>3 DEF IInv, ExclusiveInv
  <1>11. EffectInv' /\ AtMostOneInvocation'
    BY <1>0, <1>4, <1>5 DEF IInv, EffectInv, AtMostOneInvocation, db
  <1>12. RowsInv'
    BY <1>0, SameRows DEF db
  <1>13. BriefIffSucceeded' /\ LineageIsComplete'
    BY <1>0, <1>4, <1>5 DEF IInv, BriefIffSucceeded, LineageIsComplete, db
  <1> QED BY <1>6, <1>7, <1>9, <1>10, <1>11, <1>12, <1>13 DEF IInv, RowsInv

-----------------------------------------------------------------------------
(* A step of a founder or of time leaves the workers as they are.  What is *)
(* known of them stays true if no attempt is counted and no run on which a *)
(* worker is busy gets another context.                                    *)
LEMMA SameWorkersIInv ==
  ASSUME IInv, UNCHANGED <<attempts, effect, briefs, pc, claim, invoked>>,
         \A q \in Run : task'[q].attempts = task[q].attempts,
         \A w \in Worker : pc[w] # "idle" =>
           run'[claim[w].run].context = run[claim[w].run].context
  PROVE  ClaimsInv' /\ ProviderInv' /\ ExclusiveInv' /\ EffectInv' /\ AtMostOneInvocation'
  <1>0. WorkersTypeOK
    BY DEF IInv, TypeOK
  <1>1. ClaimsInv'
    BY <1>0, BusyClaim DEF IInv, ClaimsInv
  <1>2. ProviderInv' /\ ExclusiveInv'
    BY DEF IInv, ProviderInv, ExclusiveInv
  <1>3. EffectInv' /\ AtMostOneInvocation'
    BY DEF IInv, EffectInv, AtMostOneInvocation
  <1> QED BY <1>1, <1>2, <1>3

(* The lease of a RUNNING task runs out.                                   *)
LEMMA ExpireLeaseIInv ==
  ASSUME IInv, NEW r \in Run, ExpireLease(r)
  PROVE  IInv'
  <1>0. /\ DbTypeOK /\ WorkersTypeOK
        /\ UNCHANGED <<run, attempts, effect, briefs, wait, log, pc, claim, invoked>>
    BY DEF IInv, TypeOK, ExpireLease
  <1>1. /\ task' \in [Run -> TaskRow]
        /\ \A q \in Run : /\ task'[q].state = task[q].state
                          /\ task'[q].token = task[q].token
                          /\ task'[q].attempts = task[q].attempts
                          /\ task'[q].manifest = task[q].manifest
    BY <1>0 DEF ExpireLease, DbTypeOK, TaskRow
  <1>2. faults' \in 0..MaxFaults
    BY <1>0, FaultType DEF ExpireLease, WorkersTypeOK
  <1>3. TypeOK'
    BY <1>0, <1>1, <1>2 DEF TypeOK, DbTypeOK, WorkersTypeOK
  <1>4. ClaimsInv' /\ ProviderInv' /\ ExclusiveInv' /\ EffectInv' /\ AtMostOneInvocation'
    BY <1>0, <1>1, SameWorkersIInv
  <1>5. RunTaskAgreement' /\ OneLiveAttempt' /\ ClaimedInv'
    BY <1>0, <1>1 DEF IInv, RunTaskAgreement, OneLiveAttempt, ClaimedInv
  <1>6. OpenWaitAnswerable' /\ ContextInv'
    BY <1>0, <1>1 DEF IInv, OpenWaitAnswerable, Answerable, ContextInv
  <1>7. BriefIffSucceeded' /\ LineageIsComplete'
    BY <1>0, <1>1 DEF IInv, BriefIffSucceeded, LineageIsComplete
  <1> QED BY <1>3, <1>4, <1>5, <1>6, <1>7 DEF IInv

(* A wait is opened on a DRAFT run whose task was never claimed.           *)
LEMMA OpenWaitIInv ==
  ASSUME IInv, NEW r \in Run, OpenWait(r), UNCHANGED workers
  PROVE  IInv'
  <1>0. /\ DbTypeOK /\ WorkersTypeOK /\ run[r].state = "DRAFT"
        /\ task[r].state \in {"QUEUED", "READY"}
        /\ UNCHANGED <<attempts, effect, briefs, pc, claim, invoked, faults>>
        /\ "AWAITING_INPUT" \in TaskState /\ "AWAITING_FOUNDER_INPUT" \in RunState
        /\ "founder_input_requested" \in EventType
    BY DEF IInv, TypeOK, OpenWait, workers, TaskState, RunState, EventType
  <1>1. /\ run' \in [Run -> RunRow]
        /\ run'[r].state = "AWAITING_FOUNDER_INPUT"
        /\ run'[r].version = run[r].version + 1
        /\ run'[r].context = run[r].context
        /\ \A q \in Run : q # r => run'[q] = run[q]
    BY <1>0, SetRunStateRow DEF OpenWait, DbTypeOK
  <1>2. /\ task' \in [Run -> TaskRow]
        /\ task'[r].state = "AWAITING_INPUT"
        /\ task'[r].token = NoLease
        /\ task'[r].attempts = task[r].attempts
        /\ task'[r].manifest = task[r].manifest
        /\ \A q \in Run : q # r => task'[q] = task[q]
    BY <1>0, ReleaseTaskRow DEF OpenWait, DbTypeOK
  <1>3. log' \in [Run -> Seq(EventType)]
    BY <1>0, AppendEventRow DEF OpenWait, DbTypeOK
  <1>4. /\ wait' \in [Run -> WaitRow]
        /\ wait'[r].round = wait[r].round + 1
        /\ wait'[r].status = "OPEN"
        /\ wait'[r].version = run[r].version + 1
        /\ wait'[r].resume = "DRAFT"
        /\ wait'[r].context = run[r].context
        /\ \A q \in Run : q # r => wait'[q] = wait[q]
    BY <1>0 DEF OpenWait, DbTypeOK, WaitRow, WaitStatus, RunRow
  <1>5. TypeOK'
    BY <1>0, <1>1, <1>2, <1>3, <1>4 DEF TypeOK, DbTypeOK, WorkersTypeOK
  <1>6. ClaimsInv' /\ ProviderInv' /\ ExclusiveInv' /\ EffectInv' /\ AtMostOneInvocation'
    <2>1. \A q \in Run : task'[q].attempts = task[q].attempts
      BY <1>2
    <2>2. \A w \in Worker : pc[w] # "idle" =>
            run'[claim[w].run].context = run[claim[w].run].context
      BY <1>0, <1>1, BusyClaim
    <2> QED BY <1>0, <2>1, <2>2, SameWorkersIInv
  <1>7. RunTaskAgreement'
    BY <1>1, <1>2 DEF IInv, RunTaskAgreement, TaskStatesOf
  <1>8. OneLiveAttempt' /\ ClaimedInv'
    BY <1>0, <1>2 DEF IInv, OneLiveAttempt, ClaimedInv
  <1>9. wait[r].status \in {"NONE", "RESOLVED"} /\ wait[r].round \in Nat
    BY <1>0 DEF IInv, DbTypeOK, WaitRow, WaitStatus, OpenWaitAnswerable, Answerable, ContextInv
  <1>10. OpenWaitAnswerable'
    BY <1>1, <1>2, <1>4 DEF IInv, OpenWaitAnswerable, Answerable
  <1>11. ContextInv'
    <2>1. run[r].context = FirstRounds(wait[r].round) /\ task[r].manifest = run[r].context
      BY <1>9 DEF IInv, ContextInv
    <2>2. wait'[r].round - 1 = wait[r].round /\ wait'[r].round > 0
      BY <1>4, <1>9
    <2>3. run'[r].context = FirstRounds(wait'[r].round - 1)
      BY <1>1, <2>1, <2>2
    <2> QED BY <1>1, <1>2, <1>4, <2>1, <2>2, <2>3 DEF IInv, ContextInv
  <1>12. briefs[r] = {}
    BY <1>0 DEF IInv, BriefIffSucceeded
  <1>13. BriefIffSucceeded' /\ LineageIsComplete'
    BY <1>0, <1>2, <1>4, <1>12 DEF IInv, BriefIffSucceeded, LineageIsComplete
  <1> QED BY <1>5, <1>6, <1>7, <1>8, <1>10, <1>11, <1>13 DEF IInv

(* The answer of round k completes the answers of the first k rounds.      *)
LEMMA AppendRound ==
  ASSUME NEW k \in Nat, k > 0, FirstRounds(k - 1) \in Seq(Nat)
  PROVE  Append(FirstRounds(k - 1), k) = FirstRounds(k)
  <1>1. Len(FirstRounds(k - 1)) = k - 1
    BY DEF FirstRounds
  <1>2. \A i \in 1..(k - 1) : FirstRounds(k - 1)[i] = i
    BY DEF FirstRounds
  <1> DEFINE a == Append(FirstRounds(k - 1), k)
  <1>3. a \in Seq(Nat) /\ Len(a) = k
    BY <1>1
  <1>4. \A i \in 1..k : a[i] = i
    BY <1>1, <1>2
  <1>5. a = [i \in 1..k |-> a[i]]
    BY <1>3
  <1> HIDE DEF a
  <1> QED BY <1>4, <1>5 DEF FirstRounds

(* The answer extends the context of a run whose task was never claimed,   *)
(* so no worker can have read the old one.                                 *)
LEMMA AnswerIInv ==
  ASSUME IInv, NEW r \in Run, NEW k \in 1..MaxWaits, Answer(r, k), UNCHANGED workers
  PROVE  IInv'
  <1> DEFINE answered == Append(wait[r].context, k)
  <1>0. /\ DbTypeOK /\ WorkersTypeOK /\ wait[r].round = k /\ Answerable(r)
        /\ wait[r].status = "OPEN" /\ task[r].state = "AWAITING_INPUT"
        /\ task[r].token = NoLease /\ k \in Nat /\ k > 0
        /\ UNCHANGED <<attempts, effect, briefs, pc, claim, invoked, faults>>
        /\ "founder_input_resolved" \in EventType
    BY BoundsAreNaturals DEF IInv, TypeOK, Answer, Answerable, workers, EventType
  <1>1. /\ wait[r].resume = "DRAFT" /\ wait[r].context = run[r].context
        /\ run[r].context = FirstRounds(k - 1)
        /\ wait[r].context \in Context
    BY <1>0 DEF IInv, ContextInv, DbTypeOK, WaitRow
  <1>2. answered \in Context /\ answered = FirstRounds(k)
    <2>1. wait[r].context \in Seq(1..MaxWaits)
      BY <1>1 DEF Context
    <2>2. answered \in Context
      BY <2>1 DEF Context
    <2>3. FirstRounds(k - 1) \in Seq(Nat)
      <3>1. \A s \in Seq(1..MaxWaits) : s \in Seq(Nat)
        BY BoundsAreNaturals
      <3> QED BY <1>1, <2>1, <3>1
    <2> QED BY <1>0, <1>1, <2>2, <2>3, AppendRound
  <1> HIDE DEF answered
  <1>3. /\ run' \in [Run -> RunRow]
        /\ run'[r].state = "DRAFT"
        /\ run'[r].context = answered
        /\ \A q \in Run : q # r => run'[q] = run[q]
    BY <1>0, <1>1, <1>2 DEF Answer, DbTypeOK, RunRow, RunState, answered
  <1>4. /\ task' \in [Run -> TaskRow]
        /\ task'[r].state = "READY"
        /\ task'[r].token = task[r].token
        /\ task'[r].attempts = task[r].attempts
        /\ task'[r].manifest = answered
        /\ \A q \in Run : q # r => task'[q] = task[q]
    BY <1>0, <1>2 DEF Answer, DbTypeOK, TaskRow, TaskState, answered
  <1>5. /\ wait' \in [Run -> WaitRow]
        /\ wait'[r].status = "RESOLVED"
        /\ wait'[r].round = k
        /\ \A q \in Run : q # r => wait'[q] = wait[q]
    BY <1>0 DEF Answer, DbTypeOK, WaitRow, WaitStatus
  <1>6. log' \in [Run -> Seq(EventType)]
    BY <1>0, AppendEventRow DEF Answer, DbTypeOK
  <1>7. TypeOK'
    BY <1>0, <1>3, <1>4, <1>5, <1>6 DEF TypeOK, DbTypeOK, WorkersTypeOK
  <1>8. task[r].attempts \in Nat /\ ~(task[r].attempts > 0)
    BY <1>0 DEF IInv, ClaimedInv, DbTypeOK, TaskRow
  <1>9. ASSUME NEW w \in Worker, pc[w] # "idle"
        PROVE  claim[w].run \in Run /\ claim[w].run # r
    <2>1. claim[w].run \in Run /\ claim[w].token \in Attempt
      BY <1>0, <1>9, BusyClaim
    <2>2. claim[w].token \in Nat /\ claim[w].token > 0
      BY <2>1, BoundsAreNaturals DEF Attempt
    <2>3. claim[w].token <= task[claim[w].run].attempts
      BY <1>9 DEF IInv, ClaimsInv
    <2> QED BY <1>8, <2>1, <2>2, <2>3
  <1>10. ClaimsInv' /\ ProviderInv' /\ ExclusiveInv' /\ EffectInv' /\ AtMostOneInvocation'
    <2>1. \A q \in Run : task'[q].attempts = task[q].attempts
      BY <1>4
    <2>2. \A w \in Worker : pc[w] # "idle" =>
            run'[claim[w].run].context = run[claim[w].run].context
      BY <1>3, <1>9
    <2> QED BY <1>0, <2>1, <2>2, SameWorkersIInv
  <1>11. RunTaskAgreement'
    BY <1>3, <1>4 DEF IInv, RunTaskAgreement, TaskStatesOf
  <1>12. OneLiveAttempt' /\ ClaimedInv'
    BY <1>0, <1>4, <1>8 DEF IInv, OneLiveAttempt, ClaimedInv
  <1>13. OpenWaitAnswerable'
    BY <1>3, <1>4, <1>5 DEF IInv, OpenWaitAnswerable, Answerable
  <1>14. ContextInv'
    BY <1>2, <1>3, <1>4, <1>5 DEF IInv, ContextInv
  <1>15. BriefIffSucceeded' /\ LineageIsComplete'
    BY <1>0, <1>4, <1>5 DEF IInv, BriefIffSucceeded, LineageIsComplete
  <1> QED BY <1>7, <1>10, <1>11, <1>12, <1>13, <1>14, <1>15 DEF IInv

(* Cancellation closes the wait and takes the task from whoever holds it.  *)
LEMMA CancelRunIInv ==
  ASSUME IInv, NEW r \in Run, CancelRun(r), UNCHANGED workers
  PROVE  IInv'
  <1>0. /\ DbTypeOK /\ WorkersTypeOK
        /\ UNCHANGED <<attempts, effect, briefs, pc, claim, invoked, faults>>
        /\ SetRunState(r, "CANCELED") /\ AppendEvent(r, "durability_cancel_probe")
        /\ "CANCELED" \in RunState /\ "CANCELED" \in TaskState
        /\ "durability_cancel_probe" \in EventType
    BY DEF IInv, TypeOK, CancelRun, workers, TaskState, RunState, EventType
  <1>1. /\ run' \in [Run -> RunRow]
        /\ run'[r].state = "CANCELED"
        /\ run'[r].context = run[r].context
        /\ \A q \in Run : q # r => run'[q] = run[q]
    BY <1>0, SetRunStateRow DEF DbTypeOK
  <1>2. /\ task' \in [Run -> TaskRow]
        /\ task'[r].state \in {"CANCELED", "SUCCEEDED", "NONE"}
        /\ task'[r].state = "SUCCEEDED" <=> task[r].state = "SUCCEEDED"
        /\ task'[r].token = NoLease
        /\ task'[r].attempts = task[r].attempts
        /\ task'[r].attempts > 0 => task'[r].state # "NONE"
        /\ task'[r].manifest = task[r].manifest
        /\ \A q \in Run : q # r => task'[q] = task[q]
    <2>1. CASE task[r].state \in {"NONE", "SUCCEEDED", "FAILED", "CANCELED"}
      <3>1. task' = task /\ task[r] \in TaskRow
        BY <1>0, <2>1 DEF CancelRun, DbTypeOK
      <3>2. task[r].state \in {"CANCELED", "SUCCEEDED", "NONE"}
        BY <2>1, <3>1 DEF TaskRow, TaskState
      <3> QED BY <1>0, <3>1, <3>2 DEF IInv, DbTypeOK, OneLiveAttempt, ClaimedInv
    <2>2. CASE task[r].state \notin {"NONE", "SUCCEEDED", "FAILED", "CANCELED"}
      <3>1. ReleaseTask(r, "CANCELED")
        BY <2>2 DEF CancelRun
      <3> QED BY <1>0, <2>2, <3>1, ReleaseTaskRow DEF DbTypeOK
    <2> QED BY <2>1, <2>2
  <1>3. /\ wait' \in [Run -> WaitRow]
        /\ wait'[r].status = IF wait[r].status = "OPEN" THEN "CANCELED" ELSE wait[r].status
        /\ wait'[r].round = wait[r].round
        /\ \A q \in Run : q # r => wait'[q] = wait[q]
    BY <1>0 DEF CancelRun, DbTypeOK, WaitRow, WaitStatus
  <1>4. log' \in [Run -> Seq(EventType)]
    BY <1>0, AppendEventRow DEF DbTypeOK
  <1>5. TypeOK'
    BY <1>0, <1>1, <1>2, <1>3, <1>4 DEF TypeOK, DbTypeOK, WorkersTypeOK
  <1>6. ClaimsInv' /\ ProviderInv' /\ ExclusiveInv' /\ EffectInv' /\ AtMostOneInvocation'
    <2>1. \A q \in Run : task'[q].attempts = task[q].attempts
      BY <1>2
    <2>2. \A w \in Worker : pc[w] # "idle" =>
            run'[claim[w].run].context = run[claim[w].run].context
      BY <1>0, <1>1, BusyClaim
    <2> QED BY <1>0, <2>1, <2>2, SameWorkersIInv
  <1>7. RunTaskAgreement'
    BY <1>1, <1>2 DEF IInv, RunTaskAgreement, TaskStatesOf
  <1>8. OneLiveAttempt' /\ ClaimedInv'
    BY <1>0, <1>2 DEF IInv, OneLiveAttempt, ClaimedInv
  <1>9. OpenWaitAnswerable'
    BY <1>1, <1>2, <1>3 DEF IInv, OpenWaitAnswerable, Answerable
  <1>10. ContextInv'
    BY <1>1, <1>2, <1>3 DEF IInv, ContextInv
  <1>11. BriefIffSucceeded' /\ LineageIsComplete'
    BY <1>0, <1>2, <1>3 DEF IInv, BriefIffSucceeded, LineageIsComplete
  <1> QED BY <1>5, <1>6, <1>7, <1>8, <1>9, <1>10, <1>11 DEF IInv

-----------------------------------------------------------------------------
(* Every step of the workers, of time and of the founders keeps IInv.      *)
LEMMA NextIInv == IInv /\ [Next]_vars => IInv'
  <1> SUFFICES ASSUME IInv, [Next]_vars PROVE IInv'
    OBVIOUS
  <1>1. ASSUME NEW w \in Worker, WorkerStep(w) PROVE IInv'
    BY <1>1, ClaimTaskIInv, LoadContextIInv, IsLeaseCurrentIInv, AbandonAttemptIInv,
       BeginModelInvocationIInv, InvokeIInv, BlockUnknownModelOutcomeIInv,
       CompleteTaskIInv, FailTaskIInv DEF WorkerStep
  <1>2. ASSUME NEW w \in Worker, ThrowInTry(w) \/ Crash(w) PROVE IInv'
    BY <1>2, ThrowOrCrashIInv
  <1>3. ASSUME NEW r \in Run, ExpireLease(r) PROVE IInv'
    BY <1>3, ExpireLeaseIInv
  <1>4. ASSUME NEW r \in Run, FounderStep(r) PROVE IInv'
    BY <1>4, OpenWaitIInv, AnswerIInv, CancelRunIInv DEF FounderStep
  <1>5. CASE UNCHANGED vars
    <2>1. UNCHANGED <<db, invoked>> /\ UNCHANGED <<pc, claim, faults>>
      BY <1>5 DEF vars, db
    <2>2. WorkersTypeOK' /\ ClaimsInv' /\ ProviderInv' /\ ExclusiveInv'
      BY <2>1 DEF IInv, TypeOK, WorkersTypeOK, ClaimsInv, ProviderInv, ExclusiveInv, db
    <2> QED BY <2>1, <2>2, SameDbIInv DEF IInv, TypeOK
  <1> QED BY <1>1, <1>2, <1>3, <1>4, <1>5 DEF Next

(* IInv holds in every reachable state.                                    *)
THEOREM InductiveInvariant == Spec => []IInv
  BY InitIInv, NextIInv, PTL DEF Spec

(* Rows, claims and counters keep their types.                             *)
THEOREM TypeCorrect == Spec => []TypeOK
  BY InductiveInvariant, PTL DEF IInv

(* No interleaving of claims, expiries, crashes and lost acknowledgements  *)
(* makes two attempts of a task call the provider.                         *)
THEOREM InvokedOnce == Spec => []AtMostOneInvocation
  BY InductiveInvariant, PTL DEF IInv

(* A brief is published exactly once, by an attempt that called the model. *)
THEOREM BriefPublishedOnce == Spec => []BriefIffSucceeded
  BY InductiveInvariant, PTL DEF IInv

(* The lineage of a brief lists every answer, and its snapshot does too.   *)
THEOREM LineageNamesAllAnswers == Spec => []LineageIsComplete
  BY InductiveInvariant, PTL DEF IInv

(* The run row and the task row always agree.                              *)
THEOREM RunAndTaskAgree == Spec => []RunTaskAgreement
  BY InductiveInvariant, PTL DEF IInv

(* At most the newest attempt is RUNNING, under the task's lease.          *)
THEOREM LeaseIsExclusive == Spec => []OneLiveAttempt
  BY InductiveInvariant, PTL DEF IInv

(* An open wait stays answerable until it is answered or canceled.         *)
THEOREM WaitStaysAnswerable == Spec => []OpenWaitAnswerable
  BY InductiveInvariant, PTL DEF IInv

-----------------------------------------------------------------------------
(* Of the four row sets that decide the fate of a run, a busy worker       *)
(* writes only those of its own run, and only while it holds the task.     *)
SameRun(q) ==
  /\ task'[q] = task[q] /\ run'[q] = run[q]
  /\ briefs'[q] = briefs[q] /\ log'[q] = log[q]

(* The closing transactions check the token before they write.             *)
LEMMA OnlyHolderWrites ==
  ASSUME IInv, NEW w \in Worker, pc[w] # "idle",
         WorkerStep(w) \/ ThrowInTry(w) \/ Crash(w), ~HoldsTask(claim[w])
  PROVE  UNCHANGED <<task, run, briefs, log>>
  <1>1. CASE LoadContext(w) \/ IsLeaseCurrent(w) \/ Invoke(w) \/ ThrowInTry(w) \/ Crash(w)
    BY <1>1 DEF LoadContext, IsLeaseCurrent, Invoke, ThrowInTry, Crash, db
  <1>2. CASE AbandonAttempt(w) \/ BeginModelInvocation(w)
    BY <1>2 DEF AbandonAttempt, BeginModelInvocation
  <1>3. CASE BlockUnknownModelOutcome(w)
    BY <1>3 DEF BlockUnknownModelOutcome
  <1>4. CASE CompleteTask(w) \/ FailTask(w)
    BY <1>4 DEF CompleteTask, FailTask, DiscardStale
  <1>5. ~ \E r \in Run : ClaimTask(w, r)
    BY DEF ClaimTask
  <1> QED BY <1>1, <1>2, <1>3, <1>4, <1>5 DEF WorkerStep

(* The closing transactions write rows of the claimed run only.            *)
LEMMA OtherRunsUntouched ==
  ASSUME IInv, NEW w \in Worker, pc[w] # "idle", NEW q \in Run, q # claim[w].run,
         WorkerStep(w) \/ ThrowInTry(w) \/ Crash(w)
  PROVE  SameRun(q)
  <1>0. /\ run \in [Run -> RunRow] /\ task \in [Run -> TaskRow] /\ claim[w].run \in Run
        /\ briefs \in [Run -> SUBSET Brief] /\ log \in [Run -> Seq(EventType)]
    BY BusyClaim DEF IInv, TypeOK, DbTypeOK
  <1>1. CASE ~HoldsTask(claim[w])
    BY <1>1, OnlyHolderWrites DEF SameRun
  <1>2. ASSUME BlockTask(claim[w].run), UNCHANGED briefs PROVE SameRun(q)
    BY <1>0, <1>2 DEF BlockTask, ReleaseTask, SetRunState, AppendEvent, SameRun
  <1>3. ASSUME PublishBrief(claim[w]) PROVE SameRun(q)
    BY <1>0, <1>3 DEF PublishBrief, ReleaseTask, SetRunState, AppendEvent, SameRun
  <1>4. CASE HoldsTask(claim[w])
    <2>1. CASE LoadContext(w) \/ IsLeaseCurrent(w) \/ Invoke(w) \/ ThrowInTry(w) \/ Crash(w)
      BY <2>1 DEF LoadContext, IsLeaseCurrent, Invoke, ThrowInTry, Crash, db, SameRun
    <2>2. CASE AbandonAttempt(w) \/ BeginModelInvocation(w)
      BY <2>2 DEF AbandonAttempt, BeginModelInvocation, SameRun
    <2>3. CASE BlockUnknownModelOutcome(w)
      BY <1>2, <1>4, <2>3 DEF BlockUnknownModelOutcome
    <2>4. CASE CompleteTask(w)
      BY <1>3, <1>4, <2>4 DEF CompleteTask
    <2>5. CASE FailTask(w)
      BY <1>2, <1>4, <2>5 DEF FailTask
    <2>6. ~ \E r \in Run : ClaimTask(w, r)
      BY DEF ClaimTask
    <2> QED BY <2>1, <2>2, <2>3, <2>4, <2>5, <2>6 DEF WorkerStep
  <1> QED BY <1>1, <1>4

(* A step of one worker is not a step of another.                          *)
LEMMA OneWorkerMoves ==
  ASSUME IInv, NEW v \in Worker, NEW w \in Worker, v # w,
         WorkerStep(v) \/ ThrowInTry(v) \/ Crash(v)
  PROVE  pc'[w] = pc[w]
  <1>0. pc \in [Worker -> Step]
    BY DEF IInv, TypeOK, WorkersTypeOK
  <1>1. \E s : Goto(v, s)
    <2>1. CASE \/ \E r \in Run : ClaimTask(v, r)
               \/ LoadContext(v) \/ IsLeaseCurrent(v) \/ Invoke(v)
      BY <2>1 DEF ClaimTask, LoadContext, IsLeaseCurrent, Invoke
    <2>2. CASE AbandonAttempt(v) \/ BlockUnknownModelOutcome(v)
      BY <2>2 DEF AbandonAttempt, BlockUnknownModelOutcome, Returns, Throws, Done
    <2>3. CASE CompleteTask(v) \/ FailTask(v)
      BY <2>3 DEF CompleteTask, FailTask, Returns, Throws, Done
    <2>4. CASE BeginModelInvocation(v)
      BY <2>4 DEF BeginModelInvocation, Throws
    <2>5. CASE ThrowInTry(v) \/ Crash(v)
      BY <2>5 DEF ThrowInTry, Crash, Throws, Done
    <2> QED BY <2>1, <2>2, <2>3, <2>4, <2>5 DEF WorkerStep
  <1> QED BY <1>0, <1>1 DEF Goto

(* A worker whose lease was taken over, or whose run was canceled, has no  *)
(* further influence on the task, the run, its briefs and its events.      *)
THEOREM StaleWorkersAreFenced == Spec => StaleWorkerIsFenced
  <1> DEFINE Fenced == \A w \in Worker : (Stale(w) /\ pc'[w] # pc[w]) =>
                         UNCHANGED <<task, run, briefs, log>>
  <1>1. ASSUME IInv, [Next]_vars PROVE [Fenced]_vars
    <2>1. CASE UNCHANGED vars
      BY <2>1
    <2>2. CASE Next
      <3> SUFFICES ASSUME NEW w \in Worker, Stale(w), pc'[w] # pc[w]
                   PROVE  UNCHANGED <<task, run, briefs, log>>
        OBVIOUS
      <3>1. ~ \E r \in Run : ExpireLease(r) \/ FounderStep(r)
        BY DEF ExpireLease, FounderStep, workers
      <3>2. PICK v \in Worker : WorkerStep(v) \/ ThrowInTry(v) \/ Crash(v)
        BY <2>2, <3>1 DEF Next
      <3>3. v = w
        BY <1>1, <3>2, OneWorkerMoves
      <3>4. pc[w] # "idle" /\ ~HoldsTask(claim[w])
        BY DEF Stale, HoldsTask, TerminalRun
      <3> QED BY <1>1, <3>2, <3>3, <3>4, OnlyHolderWrites
    <2> QED BY <1>1, <2>1, <2>2
  <1>2. IInv /\ [Next]_vars => [Fenced]_vars
    BY <1>1
  <1> QED BY <1>2, InductiveInvariant, PTL DEF Spec, StaleWorkerIsFenced

(* A canceled run, its task, its briefs and its events never change again. *)
THEOREM CancellationIsFinal == Spec => CanceledIsFinal
  <1> DEFINE Final == \A r \in Run : run[r].state = "CANCELED" =>
                        /\ run'[r] = run[r]
                        /\ task'[r] = task[r]
                        /\ briefs'[r] = briefs[r]
                        /\ log'[r] = log[r]
  <1>1. ASSUME IInv, [Next]_vars PROVE [Final]_vars
    <2>1. CASE UNCHANGED vars
      BY <2>1
    <2>2. CASE Next
      <3> SUFFICES ASSUME NEW r \in Run, run[r].state = "CANCELED" PROVE SameRun(r)
        BY DEF SameRun
      <3>0. /\ run \in [Run -> RunRow] /\ task \in [Run -> TaskRow]
            /\ briefs \in [Run -> SUBSET Brief] /\ log \in [Run -> Seq(EventType)]
            /\ WorkersTypeOK
        BY <1>1 DEF IInv, TypeOK, DbTypeOK
      <3>1. task[r].state \in {"CANCELED", "SUCCEEDED", "NONE"}
        BY <1>1 DEF IInv, RunTaskAgreement, TaskStatesOf
      <3>2. ASSUME NEW w \in Worker, WorkerStep(w) \/ ThrowInTry(w) \/ Crash(w)
            PROVE  SameRun(r)
        <4>1. CASE pc[w] # "idle" /\ claim[w].run # r
          BY <1>1, <3>2, <4>1, OtherRunsUntouched
        <4>2. CASE pc[w] # "idle" /\ claim[w].run = r
          <5>1. ~HoldsTask(claim[w])
            BY <4>2 DEF HoldsTask, TerminalRun
          <5> QED BY <1>1, <3>2, <4>2, <5>1, OnlyHolderWrites DEF SameRun
        <4>3. CASE pc[w] = "idle"
          <5>1. PICK q \in Run : ClaimTask(w, q)
            BY <3>2, <4>3 DEF WorkerStep, LoadContext, IsLeaseCurrent, AbandonAttempt,
                 BeginModelInvocation, Invoke, BlockUnknownModelOutcome, CompleteTask,
                 FailTask, ThrowInTry, Crash, TryStep
          <5>2. q # r
            BY <5>1 DEF ClaimTask, Claimable, TerminalRun
          <5>3. run'[r] = run[r]
            BY <3>0, <5>1, <5>2 DEF ClaimTask, SetRunState
          <5>4. task'[r] = task[r] /\ log'[r] = log[r] /\ briefs'[r] = briefs[r]
            BY <3>0, <5>1, <5>2 DEF ClaimTask, LeaseTask, AppendEvent
          <5> QED BY <5>3, <5>4 DEF SameRun
        <4> QED BY <4>1, <4>2, <4>3
      <3>3. ASSUME NEW q \in Run, ExpireLease(q) PROVE SameRun(r)
        BY <3>0, <3>1, <3>3 DEF ExpireLease, SameRun
      <3>4. ASSUME NEW q \in Run, FounderStep(q) PROVE SameRun(r)
        <4>1. q # r
          BY <3>4 DEF FounderStep, OpenWait, Answer, Answerable, CancelRun, TerminalRun
        <4>2. CASE OpenWait(q)
          BY <3>0, <4>1, <4>2 DEF OpenWait, ReleaseTask, SetRunState, AppendEvent, SameRun
        <4>3. CASE \E round \in 1..MaxWaits : Answer(q, round)
          BY <3>0, <4>1, <4>3 DEF Answer, AppendEvent, SameRun
        <4>4. CASE CancelRun(q)
          BY <3>0, <4>1, <4>4 DEF CancelRun, ReleaseTask, SetRunState, AppendEvent, SameRun
        <4> QED BY <3>4, <4>2, <4>3, <4>4 DEF FounderStep
      <3> QED BY <2>2, <3>2, <3>3, <3>4 DEF Next
    <2> QED BY <1>1, <2>1, <2>2
  <1>2. IInv /\ [Next]_vars => [Final]_vars
    BY <1>1
  <1> QED BY <1>2, InductiveInvariant, PTL DEF Spec, CanceledIsFinal
=============================================================================
