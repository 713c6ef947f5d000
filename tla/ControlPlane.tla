---------------------------- MODULE ControlPlane ----------------------------
(***************************************************************************)
(* The PostgreSQL rows that the task worker and the human-wait service     *)
(* share.  Every run has at most one task (initiatives.service.ts inserts  *)
(* one CREATE_PRODUCT_BRIEF task, or none when the goal needs              *)
(* clarification), so the tables tasks, task_attempts,                     *)
(* model_invocation_effects, artifacts and human_waits are all indexed by  *)
(* the run.                                                                *)
(*                                                                         *)
(* Data left out: tenants, stage (a function of the state), task           *)
(* row_version (no guard reads it), result classes, manifests other than   *)
(* the context they pin.  A context snapshot is the sequence of the answer *)
(* versions it lists: profile and goal version never change within a run.  *)
(* A brief is its lineage and the snapshot its goal was loaded from.       *)
(* A lease token is a fresh UUID per claim; it is modelled by the number   *)
(* of the attempt the same claim inserts.                                  *)
(***************************************************************************)
EXTENDS Naturals, Sequences, FiniteSets

CONSTANTS
  Run,          \* the runs created so far
  MaxAttempts,  \* bound: claims of one task
  MaxWaits      \* bound: human waits opened for one run

ASSUME BoundsAreNaturals == MaxAttempts \in Nat /\ MaxWaits \in Nat

VARIABLES
  run,       \* runs: state, row_version, context_snapshot_id
  task,      \* tasks: state, lease_token, lease expiry, attempt_count, input_manifest
  attempts,  \* task_attempts: status by attempt_number
  effect,    \* model_invocation_effects: status, invocation_count
  briefs,    \* artifacts of type product_brief, with their lineage
  wait,      \* human_waits: the most recent wait of the run
  log        \* events: the types of the run's events, by run_sequence

db == <<run, task, attempts, effect, briefs, wait, log>>

Attempt == 1..MaxAttempts
NoLease == 0
Context == Seq(1..MaxWaits)

RunState == {"DRAFT", "QUALIFYING", "AWAITING_FOUNDER_INPUT",
             "AWAITING_BRIEF_APPROVAL", "BLOCKED", "CANCELED"}

(* FAILED and COMPLETED appear in every guard of the code, but nothing     *)
(* writes them; cancellation_requested_at is set together with CANCELED.   *)
TerminalRun == {"CANCELED", "FAILED", "COMPLETED"}

TaskState == {"NONE", "QUEUED", "READY", "RUNNING", "AWAITING_INPUT",
              "SUCCEEDED", "BLOCKED", "CANCELED"}

AttemptStatus == {"NONE", "RUNNING", "SUCCEEDED", "FAILED", "ABANDONED"}
EffectStatus  == {"NONE", "RUNNING", "SUCCEEDED", "UNKNOWN"}
WaitStatus    == {"NONE", "OPEN", "RESOLVED", "CANCELED"}
EventType     == {"run_created", "goal_qualification_recorded", "task_started",
                  "product_brief_published", "model_outcome_reconciliation_required",
                  "founder_input_requested", "founder_input_resolved",
                  "durability_cancel_probe"}

RunRow    == [state : RunState, version : Nat, context : Context]
TaskRow   == [state : TaskState, token : Attempt \cup {NoLease},
              expired : BOOLEAN, attempts : Nat, manifest : Context]
EffectRow == [status : EffectStatus, invocations : {0, 1}]
WaitRow   == [round : Nat, status : WaitStatus, version : Nat,
              resume : RunState, context : Context]
Brief     == [attempt : Attempt, lineage : Context, snapshot : Context]

DbTypeOK ==
  /\ run \in [Run -> RunRow]
  /\ task \in [Run -> TaskRow]
  /\ attempts \in [Run -> [Attempt -> AttemptStatus]]
  /\ effect \in [Run -> EffectRow]
  /\ briefs \in [Run -> SUBSET Brief]
  /\ wait \in [Run -> WaitRow]
  /\ log \in [Run -> Seq(EventType)]

(* What createGoalAndRun commits: a DRAFT run with a QUEUED task, or a run *)
(* that waits for the founder with neither a task nor a wait row.          *)
CreatedRun(needsClarification) ==
  [state   |-> IF needsClarification THEN "AWAITING_FOUNDER_INPUT" ELSE "DRAFT",
   version |-> 1, context |-> <<>>]

CreatedTask(needsClarification) ==
  [state    |-> IF needsClarification THEN "NONE" ELSE "QUEUED",
   token    |-> NoLease, expired |-> FALSE, attempts |-> 0, manifest |-> <<>>]

DbInit ==
  /\ \E clarify \in [Run -> BOOLEAN] :
       /\ run  = [r \in Run |-> CreatedRun(clarify[r])]
       /\ task = [r \in Run |-> CreatedTask(clarify[r])]
  /\ attempts = [r \in Run |-> [n \in Attempt |-> "NONE"]]
  /\ effect = [r \in Run |-> [status |-> "NONE", invocations |-> 0]]
  /\ briefs = [r \in Run |-> {}]
  /\ wait = [r \in Run |-> [round |-> 0, status |-> "NONE", version |-> 0,
                            resume |-> "DRAFT", context |-> <<>>]]
  /\ log = [r \in Run |-> <<"run_created", "goal_qualification_recorded">>]

(* DomainEventService.append inside the caller's transaction.              *)
AppendEvent(r, type) == log' = [log EXCEPT ![r] = Append(@, type)]

(* Every run update of the code bumps row_version.                         *)
SetRunState(r, state) ==
  run' = [run EXCEPT ![r].state = state, ![r].version = @ + 1]

(* A task leaves RUNNING (or never enters it): the lease columns are       *)
(* cleared by the same UPDATE.                                             *)
ReleaseTask(r, state) ==
  task' = [task EXCEPT ![r].state = state, ![r].token = NoLease, ![r].expired = FALSE]

(* UPDATE task_attempts ... WHERE status = 'RUNNING'.                      *)
CloseAttempt(r, n, status) ==
  attempts' = [attempts EXCEPT ![r][n] = IF @ = "RUNNING" THEN status ELSE @]
=============================================================================
