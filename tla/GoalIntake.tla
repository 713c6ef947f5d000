----------------------------- MODULE GoalIntake -----------------------------
(***************************************************************************)
(* From a founder's request to a run: attachments.service.ts (ingest with  *)
(* its audit of rejections, bindToGoalVersion) and                         *)
(* initiatives.service.ts (createGoalAndRun), with the decisions of        *)
(* GoalPolicy.  A goal is evaluated before the transaction that records    *)
(* it; the attachments it names are looked up inside.                      *)
(*                                                                         *)
(* Left out: what CommandExecutor models (idempotency keys, retries of     *)
(* serialization failures) and what ObjectRecords models (the blobs).  The *)
(* steps of worker and human wait on a run are those of Orchestration,     *)
(* each reduced to its effect on run, task and wait.                       *)
(***************************************************************************)
EXTENDS GoalPolicy

CONSTANTS
  Object, Handler,
  PerFileMax,     \* ATTACHMENT_PER_FILE_MAX_BYTES
  MaxTotal,       \* aggregateMaxBytes
  MaxCount,       \* maxCount
  GoalSample,     \* the goals founders submit
  FileSample,     \* the files founders upload
  IdLists,        \* the lists of attachments goals name
  GoalUniverse,   \* the goals a founder drafts
  FileUniverse,   \* the files a founder tries
  MaxGoals,       \* bound: goal versions of the initiative
  MaxUploads,     \* bound: uploads
  MaxFaults       \* bound: requests that end in an error of the server

ASSUME IntakeConstants ==
  /\ PerFileMax \in [MediaType -> Nat]
  /\ {MaxTotal, MaxCount, MaxGoals, MaxUploads, MaxFaults} \subseteq Nat
  /\ GoalSample \subseteq Goal /\ GoalUniverse \subseteq Goal
  /\ FileSample \subseteq File /\ FileUniverse \subseteq File
  /\ IdLists \subseteq Seq(Object)

VARIABLES
  objects,   \* object_records of purpose attachment: state and size
  version,   \* initiatives.row_version
  goals,     \* goal_versions by version, with qualification and links
  runs,      \* the run of each goal version: state, state of its task and of its wait
  request,   \* what each handler is doing
  audited,   \* events of type attachment_rejected, by reason code
  told,      \* history: rejections the client was told of, by reason code
  uploads, faults,
  draft      \* the goal or the file a founder tries before anything is recorded

intake == <<objects, version, goals, runs, request, audited, told, uploads, faults>>
vars   == <<intake, draft>>

RejectionCode == {"attachment_type_unsupported", "attachment_validation_failed", "attachment_unsafe",
                  "attachment_too_large", "attachment_pdf_too_long", "attachment_image_too_large"}

Idle == [step |-> "idle"]

Request ==
  [step : {"idle"}]
    \cup [step : {"ingest"}, file : FileSample]
    \cup [step : {"audit", "reject"}, code : RejectionCode]
    \cup [step : {"start"}, goal : GoalSample, result : {"qualified", "needs_clarification"},
          ids : Seq(Object), expected : Nat]

Run == [state : {"DRAFT", "AWAITING_FOUNDER_INPUT", "AWAITING_BRIEF_APPROVAL", "BLOCKED", "CANCELED"},
        task : {"none", "QUEUED", "READY", "AWAITING_INPUT", "SUCCEEDED", "BLOCKED", "CANCELED"},
        wait : {"none", "OPEN", "RESOLVED", "CANCELED"}]

ObjectRow == [state : {"none", "READY", "DELETED"}, size : Nat]

GoalRow == [goal : GoalSample, result : {"qualified", "needs_clarification"}, links : Seq(Object)]

Draft == [kind : {"none"}] \cup [kind : {"file"}, file : FileUniverse]
           \cup [kind : {"goal"}, goal : Goal, refusals : Nat]

TypeOK ==
  /\ objects \in [Object -> ObjectRow]
  /\ version \in Nat
  /\ goals \in Seq(GoalRow)
  /\ runs \in Seq(Run) /\ Len(runs) = Len(goals)
  /\ request \in [Handler -> Request]
  /\ audited \in [RejectionCode -> Nat] /\ told \in [RejectionCode -> Nat]
  /\ uploads \in 0..MaxUploads /\ faults \in 0..MaxFaults
  /\ draft \in Draft

Init ==
  /\ objects = [o \in Object |-> [state |-> "none", size |-> 0]]
  /\ version = 1
  /\ goals = <<>> /\ runs = <<>>
  /\ request = [h \in Handler |-> Idle]
  /\ audited = [c \in RejectionCode |-> 0] /\ told = [c \in RejectionCode |-> 0]
  /\ uploads = 0 /\ faults = 0
  /\ draft \in [kind : {"goal"}, goal : GoalUniverse, refusals : {0}]
                 \cup [kind : {"file"}, file : FileUniverse]

(* External: a founder removes from a goal what the findings cite.         *)
Narrow(g) ==
  LET cited == Findings(g)
      Cites(rule) == rule \in cited
  IN  [g EXCEPT !.signals = {s \in @ :
                    /\ s \notin cited
                    /\ ~(s = "unsupported_category" /\ Cites("allowed_categories"))
                    /\ ~(s = "several_personas" /\ Cites("one_primary_persona"))
                    /\ ~(s = "other_stack" /\ Cites("fixed_react_template"))},
                !.max_screens   = IF Cites("max_five_screens") THEN MaxScreens ELSE @,
                !.mentioned     = IF Cites("max_five_screens_in_text") THEN MaxScreens ELSE @,
                !.primary_flows = IF Cites("one_primary_flow") THEN 1 ELSE @,
                !.client_only   = @ \/ Cites("client_only"),
                !.mock_data     = @ \/ Cites("mock_or_local_data")]

(* A refused goal leaves no trace but the revision it calls for.           *)
ReviseDraft ==
  /\ draft.kind = "goal" /\ Evaluate(draft.goal).result = "out_of_scope"
  /\ draft' = [draft EXCEPT !.goal = Narrow(@), !.refusals = @ + 1]
  /\ UNCHANGED intake

SettleDraft ==
  /\ draft.kind # "none"
  /\ draft.kind = "goal" => Evaluate(draft.goal).result # "out_of_scope"
  /\ draft' = [kind |-> "none"]
  /\ UNCHANGED intake
-----------------------------------------------------------------------------
Become(h, r) == request' = [request EXCEPT ![h] = r]
-----------------------------------------------------------------------------
(* Mutant of Upload: the client is told before the rejection is recorded.  *)
UploadUnaudited(h, f) ==
  /\ request[h] = Idle /\ uploads < MaxUploads
  /\ uploads' = uploads + 1
  /\ LET verdict == Verdict(f, PerFileMax)
     IN  Become(h, IF verdict = "accepted" THEN [step |-> "ingest", file |-> f]
                                           ELSE [step |-> "reject", code |-> verdict])
  /\ UNCHANGED <<objects, version, goals, runs, audited, told, faults>>

(* ingest up to its command: a body that is not base64 is answered 400     *)
(* without a trace and is no action here.                                  *)
Upload(h, f) ==
  /\ request[h] = Idle /\ uploads < MaxUploads
  /\ uploads' = uploads + 1
  /\ LET verdict == Verdict(f, PerFileMax)
     IN  Become(h, IF verdict = "accepted" THEN [step |-> "ingest", file |-> f]
                                           ELSE [step |-> "audit", code |-> verdict])
  /\ UNCHANGED <<objects, version, goals, runs, audited, told, faults>>

(* auditRejection: a transaction of its own, committed before the answer.  *)
AuditRejection(h) ==
  /\ request[h].step = "audit"
  /\ audited' = [audited EXCEPT ![request[h].code] = @ + 1]
  /\ Become(h, [request[h] EXCEPT !.step = "reject"])
  /\ UNCHANGED <<objects, version, goals, runs, told, uploads, faults>>

Reject(h) ==
  /\ request[h].step = "reject"
  /\ told' = [told EXCEPT ![request[h].code] = @ + 1]
  /\ Become(h, Idle)
  /\ UNCHANGED <<objects, version, goals, runs, audited, uploads, faults>>

Ingest(h, o) ==
  /\ request[h].step = "ingest"
  /\ objects[o].state = "none"
  /\ objects' = [objects EXCEPT ![o] = [state |-> "READY", size |-> request[h].file.size]]
  /\ Become(h, Idle)
  /\ UNCHANGED <<version, goals, runs, audited, told, uploads, faults>>

Delete(o) ==
  /\ objects[o].state = "READY"
  /\ objects' = [objects EXCEPT ![o].state = "DELETED"]
  /\ UNCHANGED <<version, goals, runs, request, audited, told, uploads, faults>>
-----------------------------------------------------------------------------
(* createGoalAndRun up to its command.  A body outside the rules (400), an *)
(* unacceptable command and a goal out of scope (422) change nothing.      *)
Submit(h, g, ids) ==
  /\ request[h] = Idle /\ Len(goals) < MaxGoals
  /\ BodyValid(g) /\ CommandAccepted(g)
  /\ LET q == Evaluate(g)
     IN  /\ q.result # "out_of_scope"
         /\ Become(h, [step |-> "start", goal |-> g, result |-> q.result, ids |-> ids,
                       expected |-> version])
  /\ UNCHANGED <<objects, version, goals, runs, audited, told, uploads, faults>>

(* Mutant of Aggregate: the row at hand is added after the comparison.     *)
AggregateBefore(ids, k) == SumFunctionOnSet([i \in DOMAIN ids |-> objects[ids[i]].size], 1..(k - 1))

Aggregate(ids, k) == SumFunctionOnSet([i \in DOMAIN ids |-> objects[ids[i]].size], 1..k)

(* bindToGoalVersion: every row exists and is linkable, and the running    *)
(* total stays within the limit.                                           *)
Bindable(ids) ==
  /\ Len(ids) <= MaxCount
  /\ \A i, j \in DOMAIN ids : ids[i] = ids[j] => i = j
  /\ \A k \in DOMAIN ids : objects[ids[k]].state = "READY" /\ Aggregate(ids, k) <= MaxTotal

PreconditionHolds(r) == version = r.expected

(* Mutant of CreatedRun: the first task is queued all the same.            *)
CreatedRunWithTask(result) ==
  [state |-> IF result = "needs_clarification" THEN "AWAITING_FOUNDER_INPUT" ELSE "DRAFT",
   task |-> "QUEUED", wait |-> "none"]

(* A run that needs clarification has no task, and no wait row either.     *)
CreatedRun(result) ==
  IF result = "needs_clarification"
    THEN [state |-> "AWAITING_FOUNDER_INPUT", task |-> "none", wait |-> "none"]
    ELSE [state |-> "DRAFT", task |-> "QUEUED", wait |-> "none"]

(* The transaction of createGoalAndRun.                                    *)
CreateGoalAndRun(h) ==
  LET r == request[h]
  IN  /\ r.step = "start"
      /\ PreconditionHolds(r) /\ Bindable(r.ids)
      /\ goals' = Append(goals, [goal |-> r.goal, result |-> r.result, links |-> r.ids])
      /\ runs' = Append(runs, CreatedRun(r.result))
      /\ version' = version + 1
      /\ Become(h, Idle)
      /\ UNCHANGED <<objects, audited, told, uploads, faults>>

(* 412, 404 or 422 inside the transaction: rolled back.                    *)
RefuseGoal(h) ==
  LET r == request[h]
  IN  /\ r.step = "start"
      /\ ~(PreconditionHolds(r) /\ Bindable(r.ids))
      /\ Become(h, Idle)
      /\ UNCHANGED <<objects, version, goals, runs, audited, told, uploads, faults>>

(* An error of the server, or the end of the process, at any step: an open *)
(* transaction is rolled back.                                             *)
Fail(h) ==
  /\ request[h] # Idle /\ faults < MaxFaults
  /\ faults' = faults + 1
  /\ Become(h, Idle)
  /\ UNCHANGED <<objects, version, goals, runs, audited, told, uploads>>
-----------------------------------------------------------------------------
(* The worker brings a claimable task to its end, or blocks it.            *)
Work(k) ==
  /\ runs[k].task \in {"QUEUED", "READY"} /\ runs[k].state # "CANCELED"
  /\ \E blocked \in BOOLEAN :
       runs' = [runs EXCEPT ![k] =
                  [state |-> IF blocked THEN "BLOCKED" ELSE "AWAITING_BRIEF_APPROVAL",
                   task |-> IF blocked THEN "BLOCKED" ELSE "SUCCEEDED", wait |-> runs[k].wait]]
  /\ UNCHANGED <<objects, version, goals, request, audited, told, uploads, faults>>

OpenWait(k) ==
  /\ runs[k].state = "DRAFT" /\ runs[k].task \in {"QUEUED", "READY"}
  /\ runs' = [runs EXCEPT ![k] = [state |-> "AWAITING_FOUNDER_INPUT", task |-> "AWAITING_INPUT",
                                  wait |-> "OPEN"]]
  /\ UNCHANGED <<objects, version, goals, request, audited, told, uploads, faults>>

AnswerWait(k) ==
  /\ runs[k] = [state |-> "AWAITING_FOUNDER_INPUT", task |-> "AWAITING_INPUT", wait |-> "OPEN"]
  /\ runs' = [runs EXCEPT ![k] = [state |-> "DRAFT", task |-> "READY", wait |-> "RESOLVED"]]
  /\ UNCHANGED <<objects, version, goals, request, audited, told, uploads, faults>>

Cancel(k) ==
  /\ runs[k].state # "CANCELED"
  /\ LET run == runs[k]
     IN  runs' = [runs EXCEPT ![k] =
                    [state |-> "CANCELED",
                     task |-> IF run.task \in {"none", "SUCCEEDED"} THEN run.task ELSE "CANCELED",
                     wait |-> IF run.wait = "OPEN" THEN "CANCELED" ELSE run.wait]]
  /\ UNCHANGED <<objects, version, goals, request, audited, told, uploads, faults>>

Handle(h) ==
  \/ AuditRejection(h) \/ Reject(h) \/ CreateGoalAndRun(h) \/ RefuseGoal(h)
  \/ \E o \in Object : Ingest(h, o)

Live(k) == Work(k) \/ OpenWait(k) \/ AnswerWait(k) \/ Cancel(k)

Serve ==
  \/ \E h \in Handler :
       \/ Handle(h) \/ Fail(h)
       \/ \E f \in FileSample : Upload(h, f)
       \/ \E g \in GoalSample, ids \in IdLists : Submit(h, g, ids)
  \/ \E o \in Object : Delete(o)
  \/ \E k \in DOMAIN runs : Live(k)

Next == ReviseDraft \/ SettleDraft \/ (draft.kind = "none" /\ Serve /\ UNCHANGED draft)

Spec == Init /\ [][Next]_vars
-----------------------------------------------------------------------------
(* What the attachment policy (docs alpha-operating-policy-v1.md:52-66)    *)
(* and the deny list of names permit, said of the file as it is: it is of  *)
(* the declared type and size, holds nothing denied anywhere and decodes   *)
(* within the limits.                                                      *)
Permitted(f) ==
  /\ f.declared = f.bytes.detected
       \/ (f.declared = "text/markdown" /\ f.bytes.detected = "text/plain")
  /\ f.size \in 1..PerFileMax[f.declared]
  /\ f.name = "safe" /\ f.digest_matches
  /\ \A c \in Content : f.bytes.holds[c] = "no"
  /\ f.bytes.extent = "within"

(* The file without what the inspections overlook: markup and PDF entries  *)
(* beyond the first 4096 bytes, and pages or pixels in a form not read.    *)
SansOverlooked(f) ==
  [f EXCEPT !.bytes.holds = [c \in Content |->
                IF c \in {"markup", "pdf_entry"} /\ @[c] = "beyond" THEN "no" ELSE @[c]],
            !.bytes.extent = IF f.bytes.layout = "hidden" THEN "within" ELSE @]

(* validateAttachmentIngest against the policy: in whatever order and over *)
(* whatever part of the bytes its checks look, it refuses a permitted file *)
(* only when the file cannot be measured, and accepts one the policy does  *)
(* not permit only for one of the two things it overlooks, all else being  *)
(* as permitted.                                                           *)
VerdictIsPolicy ==
  draft.kind = "file" =>
    LET f == draft.file
        accepted == Verdict(f, PerFileMax) = "accepted"
    IN  /\ Permitted(f) /\ f.bytes.layout \notin {"unreadable", "crowded"} => accepted
        /\ accepted => Permitted(SansOverlooked(f))

(* A founder who removes what a refusal cites is refused at most once      *)
(* more (a number of screens in the text is not cited beside a declared    *)
(* number that is too large): a refusal reports the rules together and     *)
(* hides none behind another.                                              *)
NarrowingEnds == draft.kind = "goal" => draft.refusals <= 2

(* What the links of a recorded goal add up to is within the limits,       *)
(* whichever attachments are deleted and whichever goals compete; and the  *)
(* variables have their types.                                             *)
LinksWithinPolicy ==
  /\ TypeOK
  /\ \A k \in DOMAIN goals :
       LET linked == {goals[k].links[i] : i \in DOMAIN goals[k].links}
       IN  /\ Cardinality(linked) = Len(goals[k].links)
           /\ Cardinality(linked) <= MaxCount
           /\ SumFunction([o \in linked |-> objects[o].size]) <= MaxTotal

(* No build work is dispatched for a goal that needs clarification         *)
(* (docs/contracts/API_AND_DATA.md:218), and only such a run can be alive  *)
(* with nothing to drive it: every other one has a task to claim, an open  *)
(* wait, a decision to be taken on it, or has ended.                       *)
OnlyClarificationStalls ==
  \A k \in DOMAIN goals :
    LET driven == \/ runs[k].task \in {"QUEUED", "READY"} /\ runs[k].state # "CANCELED"
                  \/ runs[k].task = "AWAITING_INPUT" /\ runs[k].wait = "OPEN"
        ended == runs[k].state \in {"AWAITING_BRIEF_APPROVAL", "BLOCKED", "CANCELED"}
    IN  driven <=> goals[k].result = "qualified" /\ ~ended

(* A rejection the client is told of is in the event log, whatever fails.  *)
RefusalsAreAudited == \A c \in RejectionCode : told[c] <= audited[c]
=============================================================================
