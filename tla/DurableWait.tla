---------------------------- MODULE DurableWait ----------------------------
(***************************************************************************)
(* durable-wait-spike.service.ts: opening a human wait, the founder's      *)
(* answer and the cancellation of a run, each one transaction that locks   *)
(* the run row.  A request whose preconditions fail is answered with 409   *)
(* and changes nothing, so only the accepting case is an action; so is the *)
(* rolled-back open of the injectRollback probe.                           *)
(***************************************************************************)
EXTENDS ControlPlane

(* Mutant of OpenWait: the wait records the version before the update.     *)
OpenWaitBehind(r) ==
  /\ wait[r].round < MaxWaits
  /\ run[r].state = "DRAFT"
  /\ task[r].state \in {"QUEUED", "READY"}
  /\ task[r].token = NoLease
  /\ wait' = [wait EXCEPT ![r] =
       [round |-> @.round + 1, status |-> "OPEN", version |-> run[r].version,
        resume |-> run[r].state, context |-> run[r].context]]
  /\ ReleaseTask(r, "AWAITING_INPUT")
  /\ SetRunState(r, "AWAITING_FOUNDER_INPUT")
  /\ AppendEvent(r, "founder_input_requested")
  /\ UNCHANGED <<attempts, effect, briefs>>

OpenWait(r) ==
  /\ wait[r].round < MaxWaits         \* bound
  /\ run[r].state = "DRAFT"
  /\ task[r].state \in {"QUEUED", "READY"}
  /\ task[r].token = NoLease
  /\ wait' = [wait EXCEPT ![r] =
       [round |-> @.round + 1, status |-> "OPEN", version |-> run[r].version + 1,
        resume |-> run[r].state, context |-> run[r].context]]
  /\ ReleaseTask(r, "AWAITING_INPUT")
  /\ SetRunState(r, "AWAITING_FOUNDER_INPUT")
  /\ AppendEvent(r, "founder_input_requested")
  /\ UNCHANGED <<attempts, effect, briefs>>

(* The comparison of the answer with the wait, the run and the task; the   *)
(* expiry of the wait is not part of it.                                   *)
Answerable(r) ==
  /\ wait[r].status = "OPEN"
  /\ run[r].state = "AWAITING_FOUNDER_INPUT"
  /\ run[r].version = wait[r].version
  /\ task[r].state = "AWAITING_INPUT"
  /\ task[r].token = NoLease

(* Mutant of Answer: the manifest of the task is not refreshed.            *)
AnswerRunOnly(r, round) ==
  LET answered == Append(wait[r].context, round)
  IN  /\ wait[r].round = round
      /\ Answerable(r)
      /\ task' = [task EXCEPT ![r].state = "READY"]
      /\ run' = [run EXCEPT ![r].state = wait[r].resume, ![r].context = answered,
                            ![r].version = @ + 1]
      /\ wait' = [wait EXCEPT ![r].status = "RESOLVED"]
      /\ AppendEvent(r, "founder_input_resolved")
      /\ UNCHANGED <<attempts, effect, briefs>>

(* The founder answers the request of one round, seen now or long ago.     *)
Answer(r, round) ==
  LET answered == Append(wait[r].context, round)
  IN  /\ wait[r].round = round
      /\ Answerable(r)
      /\ task' = [task EXCEPT ![r].state = "READY", ![r].manifest = answered]
      /\ run' = [run EXCEPT ![r].state = wait[r].resume, ![r].context = answered,
                            ![r].version = @ + 1]
      /\ wait' = [wait EXCEPT ![r].status = "RESOLVED"]
      /\ AppendEvent(r, "founder_input_resolved")
      /\ UNCHANGED <<attempts, effect, briefs>>

(* cancelFixture: a task that SUCCEEDED keeps its state.                   *)
CancelRun(r) ==
  /\ run[r].state \notin TerminalRun
  /\ wait' = [wait EXCEPT ![r].status = IF @ = "OPEN" THEN "CANCELED" ELSE @]
  /\ IF task[r].state \in {"NONE", "SUCCEEDED", "FAILED", "CANCELED"}
       THEN UNCHANGED task
       ELSE ReleaseTask(r, "CANCELED")
  /\ SetRunState(r, "CANCELED")
  /\ AppendEvent(r, "durability_cancel_probe")
  /\ UNCHANGED <<attempts, effect, briefs>>
=============================================================================
