----------------------------- MODULE TaskWorker -----------------------------
(***************************************************************************)
(* orchestration-worker.service.ts: processOnce of each worker process,    *)
(* one action per transaction or per call of the provider.  Between two    *)
(* actions any other process may run.  A worker step may also throw        *)
(* (a lost connection, a deadlock victim), and a commit may succeed while  *)
(* its acknowledgement is lost; both end in failTask.  A throw outside the *)
(* try block, or in failTask itself, ends the worker loop, which is a      *)
(* crash: the process restarts and polls again.                            *)
(***************************************************************************)
EXTENDS ControlPlane

CONSTANTS
  Worker,     \* the worker processes
  MaxFaults,  \* bound: crashes, thrown calls and leases outlived by their holder
  NoClaim     \* a worker that holds no claim

VARIABLES
  pc,       \* where each worker is in processOnce
  claim,    \* the ClaimedTask it carries, with the snapshot it loaded from
  invoked,  \* external: attempts of the run for which the provider was called
  faults    \* faults so far

workers == <<pc, claim, invoked, faults>>

Claim == [run : Run, token : Attempt, manifest : Context, snapshot : Context]

ASSUME NoClaimIsNoClaim == NoClaim \notin Claim
ASSUME MaxFaultsIsNatural == MaxFaults \in Nat

(* The steps inside the try block, and the two outside it.                 *)
TryStep == {"loading", "checking", "abandoning", "beginning", "reconciling", "completing"}
Step    == TryStep \cup {"idle", "invoking", "failing"}

WorkersTypeOK ==
  /\ pc \in [Worker -> Step]
  /\ claim \in [Worker -> Claim \cup {NoClaim}]
  /\ \A w \in Worker : claim[w] = NoClaim <=> pc[w] = "idle"
  /\ invoked \in [Run -> SUBSET Attempt]
  /\ faults \in 0..MaxFaults

WorkersInit ==
  /\ pc = [w \in Worker |-> "idle"]
  /\ claim = [w \in Worker |-> NoClaim]
  /\ invoked = [r \in Run |-> {}]
  /\ faults = 0

Goto(w, step) == pc' = [pc EXCEPT ![w] = step]

(* Mutant of Done: the claim outlives processOnce.                         *)
DoneKeepsClaim(w) == Goto(w, "idle") /\ UNCHANGED claim

Done(w) ==
  /\ Goto(w, "idle")
  /\ claim' = [claim EXCEPT ![w] = NoClaim]

Fault ==
  /\ faults < MaxFaults
  /\ faults' = faults + 1

(* The awaited transaction of w committed; await returns, or throws        *)
(* because the acknowledgement of the commit was lost.                     *)
Returns(w) == Done(w) /\ UNCHANGED faults
Throws(w)  == Goto(w, "failing") /\ Fault /\ UNCHANGED claim
-----------------------------------------------------------------------------
(* Mutant of Claimable: expired leases are not taken over.                 *)
ClaimableOnce(r) ==
  /\ task[r].state \in {"QUEUED", "READY", "RETRY_WAIT"}
  /\ run[r].state \notin TerminalRun

(* The WHERE clause of claimTask.                                          *)
Claimable(r) ==
  /\ \/ task[r].state \in {"QUEUED", "READY", "RETRY_WAIT"}
     \/ task[r].state = "RUNNING" /\ task[r].expired
  /\ run[r].state \notin TerminalRun

(* ON CONFLICT DO NOTHING: a task keeps the effect row of its first claim. *)
InsertEffect(r) ==
  effect' = IF effect[r].status = "NONE"
              THEN [effect EXCEPT ![r] = [status |-> "RUNNING", invocations |-> 0]]
              ELSE effect

(* A fresh token and a fresh attempt; older attempts still RUNNING are     *)
(* closed as ABANDONED / LEASE_EXPIRED.                                    *)
LeaseTask(r, n) ==
  task' = [task EXCEPT ![r] = [state |-> "RUNNING", token |-> n, expired |-> FALSE,
                               attempts |-> n, manifest |-> @.manifest]]

(* Mutant of StartAttempt: older attempts are left RUNNING.                *)
StartAnotherAttempt(r, n) == attempts' = [attempts EXCEPT ![r][n] = "RUNNING"]

StartAttempt(r, n) ==
  attempts' = [attempts EXCEPT ![r] =
    [m \in Attempt |-> IF m = n THEN "RUNNING"
                       ELSE IF @[m] = "RUNNING" THEN "ABANDONED" ELSE @[m]]]

ClaimTask(w, r) ==
  LET n == task[r].attempts + 1
  IN  /\ pc[w] = "idle"
      /\ Claimable(r)
      /\ n \in Attempt                  \* bound
      /\ LeaseTask(r, n)
      /\ StartAttempt(r, n)
      /\ InsertEffect(r)
      /\ IF run[r].state = "DRAFT" THEN SetRunState(r, "QUALIFYING") ELSE UNCHANGED run
      /\ AppendEvent(r, "task_started")
      /\ claim' = [claim EXCEPT ![w] = [run |-> r, token |-> n,
                     manifest |-> task[r].manifest, snapshot |-> <<>>]]
      /\ Goto(w, "loading")
      /\ UNCHANGED <<briefs, wait, invoked, faults>>

(* The run's snapshot at this moment is read, not the manifest of the      *)
(* claim.  Of the snapshot only the structured goal and two fields of the  *)
(* company profile are selected and later sent to the provider; every      *)
(* snapshot of a run names the same goal and profile version.  The answers *)
(* a snapshot lists are never loaded: they reach the lineage, not the      *)
(* provider.                                                               *)
LoadContext(w) ==
  /\ pc[w] = "loading"
  /\ claim' = [claim EXCEPT ![w].snapshot = run[claim[w].run].context]
  /\ Goto(w, "checking")
  /\ UNCHANGED <<db, invoked, faults>>

LeaseCurrent(c) ==
  /\ task[c.run].state = "RUNNING"
  /\ task[c.run].token = c.token
  /\ ~task[c.run].expired
  /\ run[c.run].state \notin TerminalRun

IsLeaseCurrent(w) ==
  /\ pc[w] = "checking"
  /\ Goto(w, IF LeaseCurrent(claim[w]) THEN "beginning" ELSE "abandoning")
  /\ UNCHANGED <<db, claim, invoked, faults>>

(* STALE_BEFORE_INVOCATION: the task row is left for the next claim.       *)
AbandonAttempt(w) ==
  /\ pc[w] = "abandoning"
  /\ CloseAttempt(claim[w].run, claim[w].token, "ABANDONED")
  /\ Returns(w) \/ Throws(w)
  /\ UNCHANGED <<run, task, effect, briefs, wait, log, invoked>>

(* Mutant of MayInvoke: the invocation count is not consulted.             *)
MayInvokeAgain(r) == effect[r].status = "RUNNING"

MayInvoke(r) == effect[r].status = "RUNNING" /\ effect[r].invocations = 0

(* beginModelInvocation reads and writes the effect row only: it checks    *)
(* neither the lease nor the run again.                                    *)
BeginModelInvocation(w) ==
  LET r == claim[w].run
  IN  /\ pc[w] = "beginning"
      /\ IF MayInvoke(r)
           THEN /\ effect' = [effect EXCEPT ![r].invocations = 1]
                /\ \/ Goto(w, "invoking") /\ UNCHANGED <<claim, faults>>
                   \/ Throws(w)
           ELSE Goto(w, "reconciling") /\ UNCHANGED <<effect, claim, faults>>
      /\ UNCHANGED <<run, task, attempts, briefs, wait, log, invoked>>

(* The provider call: it returns a result or throws.                       *)
Invoke(w) ==
  /\ pc[w] = "invoking"
  /\ invoked' = [invoked EXCEPT ![claim[w].run] = @ \cup {claim[w].token}]
  /\ \E step \in {"completing", "failing"} : Goto(w, step)
  /\ UNCHANGED <<db, claim, faults>>
-----------------------------------------------------------------------------
(* Mutant of HoldsTask: only the run is looked at.                         *)
RunIsLive(c) == run[c.run].state \notin TerminalRun

(* The check under FOR UPDATE OF t, r of the three closing transactions:   *)
(* the token, not the expiry, decides.                                     *)
HoldsTask(c) ==
  /\ task[c.run].state = "RUNNING"
  /\ task[c.run].token = c.token
  /\ run[c.run].state \notin TerminalRun

(* UPDATE model_invocation_effects ... WHERE status = 'RUNNING'.           *)
SettleEffect(r, status) ==
  effect' = [effect EXCEPT ![r].status = IF @ = "RUNNING" THEN status ELSE @]

(* Mutant of BlockTask: the run is forgotten.                              *)
BlockTaskOnly(r) ==
  /\ ReleaseTask(r, "BLOCKED")
  /\ AppendEvent(r, "model_outcome_reconciliation_required")
  /\ UNCHANGED run

(* Task and run wait for a manual reconciliation.                          *)
BlockTask(r) ==
  /\ ReleaseTask(r, "BLOCKED")
  /\ SetRunState(r, "BLOCKED")
  /\ AppendEvent(r, "model_outcome_reconciliation_required")

BlockUnknownModelOutcome(w) ==
  LET c == claim[w]
  IN  /\ pc[w] = "reconciling"
      /\ CloseAttempt(c.run, c.token, "ABANDONED")
      /\ IF HoldsTask(c) THEN BlockTask(c.run) ELSE UNCHANGED <<task, run, log>>
      /\ Returns(w) \/ Throws(w)
      /\ UNCHANGED <<effect, briefs, wait, invoked>>

PublishBrief(c) ==
  /\ briefs' = [briefs EXCEPT ![c.run] =
       @ \cup {[attempt |-> c.token, lineage |-> c.manifest, snapshot |-> c.snapshot]}]
  /\ attempts' = [attempts EXCEPT ![c.run][c.token] = "SUCCEEDED"]
  /\ SettleEffect(c.run, "SUCCEEDED")
  /\ ReleaseTask(c.run, "SUCCEEDED")
  /\ SetRunState(c.run, "AWAITING_BRIEF_APPROVAL")
  /\ AppendEvent(c.run, "product_brief_published")

(* STALE_COMPLETION and STALE_FAILURE: no task or run is touched, but the  *)
(* effect row, shared by all the attempts of the task, is.                 *)
DiscardStale(c) ==
  /\ CloseAttempt(c.run, c.token, "ABANDONED")
  /\ SettleEffect(c.run, "UNKNOWN")
  /\ UNCHANGED <<run, task, briefs, log>>

(* Mutant of CompleteTask: the result is published without a lease check.  *)
CompleteUnchecked(w) ==
  /\ pc[w] = "completing"
  /\ PublishBrief(claim[w])
  /\ Returns(w) \/ Throws(w)
  /\ UNCHANGED <<wait, invoked>>

CompleteTask(w) ==
  /\ pc[w] = "completing"
  /\ IF HoldsTask(claim[w]) THEN PublishBrief(claim[w]) ELSE DiscardStale(claim[w])
  /\ Returns(w) \/ Throws(w)
  /\ UNCHANGED <<wait, invoked>>

(* Mutant of FailTask: the task is blocked without a lease check.          *)
FailUnchecked(w) ==
  LET c == claim[w]
  IN  /\ pc[w] = "failing"
      /\ CloseAttempt(c.run, c.token, "FAILED")
      /\ SettleEffect(c.run, "UNKNOWN")
      /\ BlockTask(c.run)
      /\ Returns(w)
      /\ UNCHANGED <<briefs, wait, invoked>>

FailTask(w) ==
  LET c == claim[w]
  IN  /\ pc[w] = "failing"
      /\ IF HoldsTask(c)
           THEN /\ CloseAttempt(c.run, c.token, "FAILED")
                /\ SettleEffect(c.run, "UNKNOWN")
                /\ BlockTask(c.run)
                /\ UNCHANGED briefs
           ELSE DiscardStale(c)
      /\ Returns(w)
      /\ UNCHANGED <<wait, invoked>>
-----------------------------------------------------------------------------
(* The transaction of a step in the try block is rolled back and throws.   *)
ThrowInTry(w) ==
  /\ pc[w] \in TryStep
  /\ Throws(w)
  /\ UNCHANGED <<db, invoked>>

(* The process dies and restarts: its claim is forgotten, its rows stay.   *)
Crash(w) ==
  /\ pc[w] # "idle"
  /\ Done(w)
  /\ Fault
  /\ UNCHANGED <<db, invoked>>

HolderAlive(r) ==
  \E w \in Worker : /\ pc[w] # "idle"
                    /\ claim[w].run = r
                    /\ claim[w].token = task[r].token

(* Time passes lease_expires_at.  That a live holder is still at work then *)
(* is a fault: leases are meant to outlast their attempts.                 *)
ExpireLease(r) ==
  /\ task[r].state = "RUNNING"
  /\ ~task[r].expired
  /\ IF HolderAlive(r) THEN Fault ELSE UNCHANGED faults
  /\ task' = [task EXCEPT ![r].expired = TRUE]
  /\ UNCHANGED <<run, attempts, effect, briefs, wait, log, pc, claim, invoked>>

(* The steps of processOnce that the worker loop takes by itself.          *)
WorkerStep(w) ==
  \/ \E r \in Run : ClaimTask(w, r)
  \/ LoadContext(w)
  \/ IsLeaseCurrent(w)
  \/ AbandonAttempt(w)
  \/ BeginModelInvocation(w)
  \/ Invoke(w)
  \/ BlockUnknownModelOutcome(w)
  \/ CompleteTask(w)
  \/ FailTask(w)
=============================================================================
