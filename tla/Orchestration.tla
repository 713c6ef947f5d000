--------------------------- MODULE Orchestration ---------------------------
(***************************************************************************)
(* The workers and the human-wait service acting on the same runs, the     *)
(* correctness of that composition, and the inductive invariant from which *)
(* OrchestrationProofs derives it.                                         *)
(***************************************************************************)
EXTENDS TaskWorker, DurableWait

vars == <<run, task, attempts, effect, briefs, wait, log, pc, claim, invoked, faults>>

Init == DbInit /\ WorkersInit

(* What the founder and the founder-side services do to one run.           *)
FounderStep(r) ==
  /\ \/ OpenWait(r)
     \/ \E round \in 1..MaxWaits : Answer(r, round)
     \/ CancelRun(r)
  /\ UNCHANGED workers

Next ==
  \/ \E w \in Worker : WorkerStep(w) \/ ThrowInTry(w) \/ Crash(w)
  \/ \E r \in Run : ExpireLease(r) \/ FounderStep(r)

Spec == Init /\ [][Next]_vars

(* The loop of a live worker never stops, and time passes the lease of a   *)
(* dead one.  Founders, faults and expiry under a live holder owe nothing. *)
Fairness ==
  /\ \A w \in Worker : WF_vars(WorkerStep(w))
  /\ \A r \in Run : WF_vars(~HolderAlive(r) /\ ExpireLease(r))

FairSpec == Spec /\ Fairness
-----------------------------------------------------------------------------
(* Types of all the rows and of the workers' local state.                  *)
TypeOK == DbTypeOK /\ WorkersTypeOK

(* The provider is called at most once for a task, whatever the number of  *)
(* claims, crashes, lost acknowledgements and stale workers: the count in  *)
(* model_invocation_effects is raised before the call and never reset.     *)
AtMostOneInvocation ==
  \A r \in Run : \A m, n \in invoked[r] : m = n

(* A product brief exists exactly when its task SUCCEEDED, there is only   *)
(* one (completeTask never runs into the unique index on artifacts), and   *)
(* it was written by an attempt that called the provider and is recorded   *)
(* as SUCCEEDED.                                                           *)
BriefIffSucceeded ==
  \A r \in Run :
    /\ briefs[r] # {} <=> task[r].state = "SUCCEEDED"
    /\ \A b, c \in briefs[r] : b = c
    /\ \A b \in briefs[r] : /\ b.attempt \in invoked[r]
                            /\ attempts[r][b.attempt] = "SUCCEEDED"

(* The context that lists the answers of the first k rounds, in order.     *)
FirstRounds(k) == [i \in 1..k |-> i]

(* The lineage stored with a brief names the snapshot its goal was loaded  *)
(* from, and lists the answer of every wait the founder resolved, in       *)
(* order, although the manifest is read by claimTask, the snapshot by      *)
(* loadContext, and both rows are rewritten by answer.  It says nothing of *)
(* what the provider does with the answers: it is never sent any.          *)
LineageIsComplete ==
  \A r \in Run : \A b \in briefs[r] :
    /\ b.lineage = b.snapshot
    /\ b.lineage = FirstRounds(wait[r].round)

(* Run and task, two rows updated by five different transactions, never    *)
(* disagree about where the work stands.                                   *)
TaskStatesOf(runState) ==
  CASE runState = "DRAFT"                   -> {"QUEUED", "READY"}
    [] runState = "QUALIFYING"              -> {"RUNNING"}
    [] runState = "AWAITING_FOUNDER_INPUT"  -> {"AWAITING_INPUT", "NONE"}
    [] runState = "AWAITING_BRIEF_APPROVAL" -> {"SUCCEEDED"}
    [] runState = "BLOCKED"                 -> {"BLOCKED"}
    [] runState = "CANCELED"                -> {"CANCELED", "SUCCEEDED", "NONE"}

RunTaskAgreement ==
  \A r \in Run : task[r].state \in TaskStatesOf(run[r].state)

(* Only the newest attempt of a task can be RUNNING, and a lease is held   *)
(* exactly while the task runs, by that attempt.                           *)
OneLiveAttempt ==
  \A r \in Run :
    /\ \A n \in Attempt : attempts[r][n] = "RUNNING" => n = task[r].attempts
    /\ task[r].token = IF task[r].state = "RUNNING" THEN task[r].attempts ELSE NoLease

(* An open wait can be answered at any later time: no worker, expiry or    *)
(* other founder step can have moved the run version, the run or the task  *)
(* away from what the wait recorded, except by closing the wait.           *)
OpenWaitAnswerable ==
  \A r \in Run : wait[r].status = "OPEN" => Answerable(r)

(* A worker whose token is no longer the task's (its lease was taken over, *)
(* or the run was canceled) changes neither the task, the run, the briefs  *)
(* nor the events of that run.                                             *)
Stale(w) ==
  /\ pc[w] # "idle"
  /\ \/ task[claim[w].run].token # claim[w].token
     \/ run[claim[w].run].state = "CANCELED"

StaleWorkerIsFenced ==
  [][\A w \in Worker : (Stale(w) /\ pc'[w] # pc[w]) =>
       UNCHANGED <<task, run, briefs, log>>]_vars

(* Nothing resurrects a canceled run: it stays CANCELED, its task is not   *)
(* claimed, no brief appears and no event follows the cancellation.        *)
CanceledIsFinal ==
  [][\A r \in Run : run[r].state = "CANCELED" =>
       /\ run'[r] = run[r]
       /\ task'[r] = task[r]
       /\ briefs'[r] = briefs[r]
       /\ log'[r] = log[r]]_vars

(* A queued task is claimed, put to the founder or canceled, and a claimed *)
(* one ends in SUCCEEDED, BLOCKED or CANCELED: no finite number of crashes *)
(* and expired leases strands it in RUNNING.                               *)
TaskSettles ==
  \A r \in Run :
    /\ task[r].state \in {"QUEUED", "READY"} ~>
         task[r].state \notin {"QUEUED", "READY"}
    /\ task[r].state = "RUNNING" ~> task[r].state \in {"SUCCEEDED", "BLOCKED", "CANCELED"}
-----------------------------------------------------------------------------
(* The strengthening that makes the invariants above inductive.            *)

(* A worker between claimTask and its last transaction holds a token that  *)
(* was issued, and carries what is still the snapshot of the run.          *)
ClaimsInv ==
  \A w \in Worker : pc[w] # "idle" =>
    /\ claim[w].token <= task[claim[w].run].attempts
    /\ claim[w].manifest = run[claim[w].run].context
    /\ pc[w] \notin {"loading", "failing"} => claim[w].snapshot = run[claim[w].run].context

(* A worker about to call the provider is covered by the invocation count  *)
(* and is the first to do so; one about to complete has called it.         *)
ProviderInv ==
  \A w \in Worker :
    /\ pc[w] = "invoking" => /\ effect[claim[w].run].invocations = 1
                             /\ invoked[claim[w].run] = {}
    /\ pc[w] = "completing" => claim[w].token \in invoked[claim[w].run]

(* Two workers on the same run hold different tokens, and at most one of   *)
(* them is about to call the provider.                                     *)
ExclusiveInv ==
  \A v, w \in Worker :
    (v # w /\ pc[v] # "idle" /\ pc[w] # "idle" /\ claim[v].run = claim[w].run) =>
      /\ claim[v].token # claim[w].token
      /\ ~(pc[v] = "invoking" /\ pc[w] = "invoking")

(* The invocation count covers every call of the provider.                 *)
EffectInv ==
  \A r \in Run :
    /\ effect[r].invocations = 0 => invoked[r] = {}
    /\ effect[r].status = "NONE" => effect[r].invocations = 0

(* A task that was ever claimed is never handed back to the founder.       *)
ClaimedInv ==
  \A r \in Run : task[r].attempts > 0 =>
    task[r].state \in {"RUNNING", "SUCCEEDED", "BLOCKED", "CANCELED"}

(* Every snapshot holds the answers of the resolved rounds, in order.      *)
ContextInv ==
  \A r \in Run :
    /\ task[r].manifest = run[r].context
    /\ wait[r].status = "NONE" => wait[r].round = 0
    /\ wait[r].status \in {"NONE", "RESOLVED"} => run[r].context = FirstRounds(wait[r].round)
    /\ wait[r].status = "OPEN" =>
         /\ wait[r].round > 0
         /\ wait[r].context = run[r].context
         /\ run[r].context = FirstRounds(wait[r].round - 1)
         /\ wait[r].resume = "DRAFT"
    /\ wait[r].status = "CANCELED" => run[r].state = "CANCELED"

IInv ==
  /\ TypeOK
  /\ RunTaskAgreement
  /\ OneLiveAttempt
  /\ ClaimedInv
  /\ OpenWaitAnswerable
  /\ ClaimsInv
  /\ ProviderInv
  /\ ExclusiveInv
  /\ EffectInv
  /\ AtMostOneInvocation
  /\ BriefIffSucceeded
  /\ ContextInv
  /\ LineageIsComplete
-----------------------------------------------------------------------------
(* Three statements of the documents that the code does not keep.          *)

(* docs/architecture/001-system-architecture.md:237: a stale lease holder  *)
(* may not overwrite a newer attempt.  Here: it leaves the invocation      *)
(* record alone while a newer attempt is running.                          *)
StaleHolderKeepsEffect ==
  [][\A w \in Worker :
       (/\ Stale(w)
        /\ pc'[w] # pc[w]
        /\ task[claim[w].run].state = "RUNNING")
       => effect'[claim[w].run].status = effect[claim[w].run].status]_vars
=============================================================================
