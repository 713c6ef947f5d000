--------------------------- MODULE DecisionRecord ---------------------------
(***************************************************************************)
(* How an owner decision is recorded in the repository itself: the         *)
(* validator of AICO-005 (validate-aico-005-architecture.mjs), its         *)
(* fail-closed prover and the evidence script                              *)
(* (aico-005-decision-evidence.mjs), run by the hosted CI on a clean       *)
(* checkout of one commit and by hand in a working tree that changes under *)
(* it.                                                                     *)
(*                                                                         *)
(* A decision goes from Proposed over the accepted transition (the         *)
(* metadata commit) to reconciled: a third commit that records what the    *)
(* hosted run of the second one found.  A commit cannot hold its own SHA,  *)
(* hence the three steps.                                                  *)
(*                                                                         *)
(* A tree is what the scripts tell apart in the files: the contracts and   *)
(* scripts (semantics), ADR and evidence map without their header fields   *)
(* (body), and the fields.  A digest is named by the run that published    *)
(* it.  Wording, links and dates are left out.                             *)
(***************************************************************************)
EXTENDS Naturals, Sequences, FiniteSets

CONSTANTS
  MaxCommits,  \* bound: commits
  CalmAfter,   \* bound: commits up to which there are departures
  MaxSlips     \* bound: departures of the author and of the hosting from the protocol,
               \* and evidence runs in the working tree

ASSUME DecisionConstants == MaxCommits \in Nat \ {0} /\ CalmAfter \in Nat /\ MaxSlips \in Nat

VARIABLES
  commits,   \* sequence of [tree, past]: past holds the commit and its ancestors
  head,      \* the commit HEAD names
  worktree,
  runs,      \* hosted runs: [commit, event, success, artifact, expired]
  local,     \* the evidence run in the working tree
  evidence,  \* .aico-evidence/aico-005-provider-decision.json, or None
  touched,   \* history: working tree or HEAD changed while the local run was on
  slips

vars == <<commits, head, worktree, runs, local, evidence, touched, slips>>

Pending == 0
None    == [none |-> TRUE]
Idle    == [step |-> "idle"]
Commit  == 1..MaxCommits
Nowhere == MaxCommits + 1     \* forty hexadecimal digits that name no commit
Content == {"reviewed", "revised", "lacking"}

NoOwner == [candidate |-> Pending, proposed |-> Pending, comments |-> "Pending"]
NoStage == [metadata |-> Pending, hosted |-> Pending, run |-> Pending, digest |-> Pending]

FirstTree ==
  [semantics |-> "reviewed", body |-> "reviewed", status |-> "Proposed",
   owner |-> NoOwner, stage |-> NoStage]

Init ==
  /\ commits = <<[tree |-> FirstTree, past |-> {1}]>> /\ head = 1 /\ worktree = FirstTree
  /\ runs = <<>> /\ local = Idle /\ evidence = None /\ touched = FALSE
  /\ slips = 0

Tree(c) == commits[c].tree
Clean == worktree = Tree(head)
Known(c) == c \in DOMAIN commits
IsAncestor(a, b) == a \in commits[b].past
-----------------------------------------------------------------------------
(* The validator.  docs is what it has read of the working tree and h the  *)
(* HEAD its questions to git are about; the answer of git status and HEAD  *)
(* itself come at the end, from processes of their own (EndsClean).        *)
BodyComplete(docs) == docs.body # "lacking"

SemanticsComplete(docs) == docs.semantics # "lacking"

StageValues(docs) == {docs.stage[f] : f \in DOMAIN NoStage}

AcceptedTransition(docs) == docs.status = "Accepted" /\ StageValues(docs) = {Pending}
AcceptedReconciled(docs) == docs.status = "Accepted" /\ Pending \notin StageValues(docs)

OwnersDecided(docs) ==
  /\ docs.owner.candidate # Pending
  /\ docs.owner.comments = "distinct"
  /\ docs.owner.proposed = docs.owner.candidate

(* Mutant of StageBound: the two SHAs are not compared.                    *)
StageBoundLoosely(docs) == docs.stage.metadata # docs.owner.candidate

StageBound(docs) ==
  /\ docs.stage.metadata # docs.owner.candidate
  /\ docs.stage.hosted = docs.stage.metadata

(* Mutant of CandidateFrozen: any ancestor is a candidate.                 *)
CandidateFrozenAny(docs, h) ==
  LET c == docs.owner.candidate IN
  Known(c) /\ IsAncestor(c, h) /\ Tree(c).body = docs.body

CandidateFrozen(docs, h) ==
  LET c == docs.owner.candidate IN
  /\ Known(c) /\ IsAncestor(c, h)
  /\ Tree(c).status = "Proposed"
  /\ Tree(c).body = docs.body

TransitionFrozen(docs, h) == Tree(docs.owner.candidate).semantics = Tree(h).semantics

(* Body and candidate of the metadata commit are not looked at: its own    *)
(* hosted run has compared its body with its own candidate's.              *)
MetadataFrozen(docs, h) ==
  LET c == docs.owner.candidate
      m == docs.stage.metadata
  IN  /\ Known(m) /\ IsAncestor(m, h) /\ IsAncestor(c, m)
      /\ Tree(m).status = "Accepted" /\ Tree(m).stage = NoStage
      /\ Tree(c).semantics = Tree(m).semantics
      /\ Tree(m).semantics = Tree(h).semantics

(* Mutant of AcceptedValid: the metadata commit must name itself.          *)
AcceptedValidCyclic(docs, h) ==
  /\ OwnersDecided(docs)
  /\ AcceptedReconciled(docs) /\ StageBound(docs)
  /\ CandidateFrozen(docs, h) /\ MetadataFrozen(docs, h)

AcceptedValid(docs, h) ==
  /\ OwnersDecided(docs)
  /\ CandidateFrozen(docs, h)
  /\ \/ AcceptedTransition(docs) /\ TransitionFrozen(docs, h)
     \/ AcceptedReconciled(docs) /\ StageBound(docs) /\ MetadataFrozen(docs, h)

ProposedValid(docs) == docs.owner = NoOwner /\ docs.stage = NoStage

HistoryHolds(docs, h) ==
  /\ BodyComplete(docs) /\ SemanticsComplete(docs)
  /\ \/ docs.status = "Proposed" /\ ProposedValid(docs)
     \/ docs.status = "Accepted" /\ AcceptedValid(docs, h)

EndsClean(docs, h, clean) ==
  docs.status = "Accepted" =>
    clean /\ (AcceptedTransition(docs) => h # docs.owner.candidate)

Validates(docs, h, clean) == HistoryHolds(docs, h) /\ EndsClean(docs, h, clean)

(* The probes of the fail-closed prover change what the validator has      *)
(* read; it must refuse each of them.                                      *)
Probes(docs) ==
  {[docs EXCEPT !.status = "REMOVED"], [docs EXCEPT !.body = "lacking"],
   [docs EXCEPT !.semantics = "lacking"], [docs EXCEPT !.stage.hosted = Nowhere]}

FailsClosed(docs, h, clean) == \A p \in Probes(docs) : ~Validates(p, h, clean)
-----------------------------------------------------------------------------
(* The evidence script: what it has read of ADR and evidence map for       *)
(* itself, what it takes for reconciled, the status it publishes, and what *)
(* it asks the hosting about the run that is cited.                        *)
Read(docs) == [status |-> docs.status, stage |-> docs.stage]
NoRead     == [status |-> "unread", stage |-> NoStage]

Reconciled(read) == read.status = "Accepted" /\ read.stage.digest # Pending

DecisionStatus(read) ==
  IF Reconciled(read) THEN "ACCEPTED_RECONCILED"
  ELSE IF read.status = "Accepted" THEN "ACCEPTED_TRANSITION"
  ELSE "PROPOSED"

(* Mutant of HostedHolds: any green run will do.                           *)
HostedHoldsAnyRun(read) ==
  LET s == read.stage IN
  /\ s.hosted = s.metadata /\ s.run \in DOMAIN runs
  /\ runs[s.run].success /\ runs[s.run].event = "pull_request"
  /\ s.digest = s.run

HostedHolds(read) ==
  LET s == read.stage IN
  /\ s.hosted = s.metadata /\ s.run \in DOMAIN runs
  /\ LET r == runs[s.run] IN
     /\ r.success /\ r.commit = s.metadata /\ r.event = "pull_request"
     /\ ~r.expired
     /\ s.digest = s.run
     /\ r.artifact.commit = s.metadata
     /\ r.artifact.status = "ACCEPTED_TRANSITION"
     /\ r.artifact.run = s.run
     /\ r.artifact.files = Tree(s.metadata)

(* The script as a whole on a clean checkout of commit c.                  *)
EvidencePasses(c) ==
  LET docs == Tree(c) IN
  /\ Validates(docs, c, TRUE) /\ FailsClosed(docs, c, TRUE)
  /\ Reconciled(Read(docs)) => AcceptedReconciled(docs) /\ HostedHolds(Read(docs))

Manifest(c, read, files, run) ==
  [commit |-> c, status |-> DecisionStatus(read), files |-> files, run |-> run]

Settled ==
  /\ Clean
  /\ \E r \in DOMAIN runs : /\ runs[r].commit = head /\ runs[r].success
                            /\ runs[r].artifact.status = "ACCEPTED_RECONCILED"
-----------------------------------------------------------------------------
(* The hosted CI takes every commit that was pushed once per event; the    *)
(* artifact is retained only by a run that succeeds.                       *)
HostedRun(c, event) ==
  /\ Known(c) /\ ~\E r \in DOMAIN runs : runs[r].commit = c /\ runs[r].event = event
  /\ runs' = Append(runs,
       [commit |-> c, event |-> event, success |-> EvidencePasses(c), expired |-> FALSE,
        artifact |-> IF EvidencePasses(c) THEN Manifest(c, Read(Tree(c)), Tree(c), Len(runs) + 1)
                     ELSE None])
  /\ UNCHANGED <<commits, head, worktree, local, evidence, touched>>

Passed(c) == {r \in DOMAIN runs : runs[r].commit = c /\ runs[r].success}
Failed(c) == {r \in DOMAIN runs : runs[r].commit = c /\ ~runs[r].success}

Work ==
  /\ touched' = (touched \/ local # Idle)
  /\ UNCHANGED <<commits, runs, local, evidence>>

Write(tree) == worktree' = tree /\ UNCHANGED head /\ Work

(* The author follows the protocol.                                        *)
RecordOwners ==
  /\ Clean /\ worktree.status = "Proposed" /\ Passed(head) # {}
  /\ Write([worktree EXCEPT !.status = "Accepted",
              !.owner = [candidate |-> head, proposed |-> head, comments |-> "distinct"]])
  /\ UNCHANGED slips

RecordHosted ==
  /\ Clean /\ AcceptedTransition(worktree)
  /\ \E r \in Passed(head) :
       /\ runs[r].event = "pull_request"
       /\ Write([worktree EXCEPT !.stage = [metadata |-> head, hosted |-> head,
                                            run |-> r, digest |-> r]])
  /\ UNCHANGED slips

Mended(content) == IF content = "lacking" THEN "reviewed" ELSE content

Reopen ==
  /\ Clean /\ Failed(head) # {}
  /\ Write([semantics |-> Mended(worktree.semantics), body |-> Mended(worktree.body),
            status |-> "Proposed", owner |-> NoOwner, stage |-> NoStage])
  /\ UNCHANGED slips

MakeCommit ==
  /\ ~Clean /\ Len(commits) < MaxCommits
  /\ LET c == Len(commits) + 1 IN
     /\ commits' = Append(commits, [tree |-> worktree, past |-> commits[head].past \cup {c}])
     /\ head' = c
  /\ touched' = (touched \/ local # Idle)
  /\ UNCHANGED <<worktree, runs, local, evidence, slips>>

Protocol == RecordOwners \/ RecordHosted \/ Reopen \/ MakeCommit

(* Departures: contents change after the review, fields are filled in      *)
(* early, wrongly or in part, an edit is taken back, the branch is         *)
(* rewound, a run of another event is cited, an artifact reaches the end   *)
(* of its retention.                                                       *)
Slip == slips < MaxSlips /\ Len(commits) <= CalmAfter /\ slips' = slips + 1

EditContent ==
  /\ Slip
  /\ \E part \in {"semantics", "body"}, v \in Content :
       worktree[part] # v /\ Write([worktree EXCEPT ![part] = v])

(* A candidate that is not the commit reviewed, or the two comments or the *)
(* two SHAs confused.                                                      *)
WrongOwners ==
  {[candidate |-> c, proposed |-> c, comments |-> "distinct"] : c \in DOMAIN commits \cup {Nowhere}}
  \cup {[candidate |-> head, proposed |-> Nowhere, comments |-> "distinct"],
        [candidate |-> head, proposed |-> head, comments |-> "shared"]}

MisrecordOwners ==
  /\ Slip
  /\ \E o \in WrongOwners : Write([worktree EXCEPT !.status = "Accepted", !.owner = o])

(* Any commit with any run, or the right ones with a digest that is left   *)
(* out or wrong.                                                           *)
WrongStages ==
  {[metadata |-> m, hosted |-> m, run |-> r, digest |-> r] : m \in DOMAIN commits, r \in DOMAIN runs}
  \cup {[metadata |-> head, hosted |-> head, run |-> Len(runs), digest |-> d] : d \in {Pending, Nowhere}}

MisrecordHosted ==
  /\ Slip /\ runs # <<>>
  /\ \E g \in WrongStages : Write([worktree EXCEPT !.stage = g])

Rewind ==
  /\ Slip
  /\ \E c \in commits[head].past \ {head} : head' = c /\ worktree' = Tree(c)
  /\ Work

Restore == Slip /\ ~Clean /\ Write(Tree(head))

RunOnPush == Slip /\ HostedRun(head, "push")

Expire ==
  /\ Slip
  /\ \E r \in DOMAIN runs :
       runs[r].success /\ ~runs[r].expired /\ runs' = [runs EXCEPT ![r].expired = TRUE]
  /\ UNCHANGED <<commits, head, worktree, local, evidence, touched>>

Depart == EditContent \/ MisrecordOwners \/ MisrecordHosted \/ Rewind \/ Restore \/ RunOnPush \/ Expire

RunOnPullRequest == (\E c \in Commit : HostedRun(c, "pull_request")) /\ UNCHANGED slips
-----------------------------------------------------------------------------
(* The script in the working tree.  Every process it starts reads the      *)
(* files and asks git for itself, and anything may change in between.      *)
Follow(l) ==
  /\ local' = l
  /\ UNCHANGED <<commits, head, worktree, runs>>

(* A check that fails throws: nothing is written.                          *)
Proceed(ok, l) == Follow(IF ok THEN l ELSE Idle) /\ UNCHANGED <<evidence, touched, slips>>

At(step) == [step |-> step, head |-> local.head, read |-> local.read]

BeginLocal ==
  /\ local = Idle /\ Slip
  /\ Follow([step |-> "load", head |-> head, read |-> NoRead])
  /\ touched' = FALSE
  /\ UNCHANGED evidence

(* The validator is run once for every decision and once more for one that *)
(* the script has read as reconciled.                                      *)
Again == local.read # NoRead

Judging(step, docs) == [step |-> step, head |-> local.head, read |-> local.read, docs |-> docs]

LoadDocuments ==
  /\ local.step = "load"
  /\ Proceed(TRUE, Judging("history", worktree))

(* Its questions about the history are one step: nothing is claimed of a   *)
(* run between whose questions HEAD has moved.                             *)
AskHistory ==
  /\ local.step = "history"
  /\ Proceed(HistoryHolds(local.docs, head) /\ (Again => AcceptedReconciled(local.docs)),
             Judging("status", local.docs))

AskStatus ==
  /\ local.step = "status"
  /\ Proceed(EndsClean(local.docs, head, Clean), At(IF Again THEN "clean" ELSE "prove"))

(* Each probe is a validator of its own; the probes are refused whatever   *)
(* it reads, so that one step stands for them all.                         *)
ProveLocal ==
  /\ local.step = "prove"
  /\ Proceed(FailsClosed(worktree, head, Clean), At("adr"))

ReadAdr ==
  /\ local.step = "adr"
  /\ Proceed(TRUE, [At("map") EXCEPT !.read.status = worktree.status])

ReadMap ==
  /\ local.step = "map"
  /\ LET read == [local.read EXCEPT !.stage = worktree.stage] IN
     Proceed(TRUE, [step |-> IF Reconciled(read) THEN "load" ELSE "clean",
                    head |-> local.head, read |-> read])

CheckClean ==
  /\ local.step = "clean"
  /\ Proceed(Clean, At("digest"))

DigestFiles ==
  /\ local.step = "digest"
  /\ Proceed(TRUE, [step |-> "hosted", head |-> local.head, read |-> local.read,
                    files |-> worktree])

(* What the hosting says is the last check; the manifest is written then.  *)
WriteEvidence ==
  /\ local.step = "hosted"
  /\ evidence' = IF Reconciled(local.read) => HostedHolds(local.read)
                 THEN [manifest |-> Manifest(local.head, local.read, local.files, Pending),
                       read |-> local.read, touched |-> touched]
                 ELSE evidence
  /\ Follow(Idle)
  /\ UNCHANGED <<touched, slips>>

LocalStep ==
  \/ LoadDocuments \/ AskHistory \/ AskStatus \/ ProveLocal
  \/ ReadAdr \/ ReadMap \/ CheckClean \/ DigestFiles \/ WriteEvidence

Next == Protocol \/ Depart \/ RunOnPullRequest \/ BeginLocal \/ LocalStep

Spec == Init /\ [][Next]_vars

(* The author goes on with the protocol and the hosting takes what was     *)
(* pushed.                                                                 *)
FairSpec == Spec /\ WF_vars(Protocol) /\ WF_vars(RunOnPullRequest)
-----------------------------------------------------------------------------
Owners ==
  [candidate : 0..Nowhere, proposed : 0..Nowhere, comments : {"Pending", "shared", "distinct"}]

Stages == [metadata : 0..Nowhere, hosted : 0..Nowhere, run : Nat, digest : Nat]

Trees ==
  [semantics : Content, body : Content, status : {"Proposed", "Accepted"},
   owner : Owners, stage : Stages]

CommitRow == [tree : Trees, past : SUBSET Commit]

Manifests ==
  [commit : Commit, status : {"PROPOSED", "ACCEPTED_TRANSITION", "ACCEPTED_RECONCILED"},
   files : Trees, run : Nat]

RunRow ==
  [commit : Commit, event : {"push", "pull_request"}, success : BOOLEAN, expired : BOOLEAN,
   artifact : Manifests \cup {None}]

Reads == [status : {"unread", "Proposed", "Accepted"}, stage : Stages]

LocalRuns ==
  {Idle}
  \cup [step : {"load", "prove", "adr", "map", "clean", "digest"}, head : Commit, read : Reads]
  \cup [step : {"history", "status"}, head : Commit, read : Reads, docs : Trees]
  \cup [step : {"hosted"}, head : Commit, read : Reads, files : Trees]

Evidences == {None} \cup [manifest : Manifests, read : Reads, touched : BOOLEAN]

TypeOK ==
  /\ commits \in Seq(CommitRow) /\ Len(commits) \in 1..MaxCommits
  /\ \A c \in DOMAIN commits : c \in commits[c].past /\ commits[c].past \subseteq 1..c
  /\ head \in DOMAIN commits /\ worktree \in Trees
  /\ runs \in Seq(RunRow)
  /\ local \in LocalRuns /\ evidence \in Evidences /\ touched \in BOOLEAN
  /\ slips \in 0..MaxSlips

Published(status) ==
  {runs[r].artifact : r \in {s \in DOMAIN runs : runs[s].success /\ runs[s].artifact.status = status}}

SameDecision(c, d) ==
  /\ Tree(c).semantics = Tree(d).semantics
  /\ Tree(c).body = Tree(d).body

(* An accepted transition published by the hosted CI freezes a proposal:   *)
(* the candidate is an earlier commit of the same branch, was Proposed     *)
(* there, and nothing but the decision fields has changed since.  The      *)
(* variables have their types.                                             *)
TransitionIsFrozen ==
  /\ TypeOK
  /\ \A a \in Published("ACCEPTED_TRANSITION") :
       LET c == Tree(a.commit).owner.candidate IN
       /\ c \in commits[a.commit].past \ {a.commit}
       /\ Tree(c).status = "Proposed"
       /\ SameDecision(c, a.commit)

(* The hosted CI really published a transition for the metadata commit and *)
(* the run that are named.                                                 *)
CitesTransition(stage) ==
  \E b \in Published("ACCEPTED_TRANSITION") :
    b.commit = stage.metadata /\ b.files = Tree(stage.metadata) /\ b.run = stage.run

(* What a reconciled decision rests on: a transition that the hosted CI    *)
(* really published for the metadata commit named, whose contracts and     *)
(* scripts are the candidate's.  ADR and evidence map are the candidate's  *)
(* as well, and those of the metadata commit are the same when it names    *)
(* the same candidate: nothing compares the two commits' candidates.       *)
RestsOnTransition(docs) ==
  LET c == docs.owner.candidate
      m == docs.stage.metadata
  IN  /\ CitesTransition(docs.stage)
      /\ Tree(c).status = "Proposed"
      /\ Tree(c).semantics = docs.semantics /\ Tree(c).body = docs.body
      /\ Tree(m).semantics = docs.semantics
      /\ Tree(m).owner.candidate = c => Tree(m).body = docs.body

(* A decision the hosted CI published as reconciled rests on the           *)
(* transition of an earlier commit of its branch.                          *)
HostedIsVerified ==
  \A a \in Published("ACCEPTED_RECONCILED") :
    /\ Tree(a.commit).stage.metadata \in commits[a.commit].past \ {a.commit}
    /\ RestsOnTransition(Tree(a.commit))

(* Evidence of a local run that calls itself reconciled cites a transition *)
(* the hosted CI published, however the repository was touched meanwhile.  *)
(* What it says of its own commit holds only of a repository that was left *)
(* alone: the files, the status, and the candidate that was reviewed.  The *)
(* script publishes ADR and map as it has read them, the validator has     *)
(* judged what it read for itself.                                         *)
LocalIsVerified ==
  evidence # None =>
    LET x == evidence.manifest
        t == Tree(x.commit)
    IN  /\ x.status = "ACCEPTED_RECONCILED" => CitesTransition(evidence.read.stage)
        /\ ~evidence.touched =>
             /\ x.files = t /\ x.status = DecisionStatus(Read(t))
             /\ x.status = "ACCEPTED_RECONCILED" => RestsOnTransition(t)

(* Evidence of a reconciled decision, published by the hosted CI or        *)
(* written in the working tree, rests on what really was published.        *)
EvidenceIsVerified == HostedIsVerified /\ LocalIsVerified

(* At every stage of a decision each probe of the prover is refused; a     *)
(* stage at which one survived could never be published.                   *)
ProbesKillAtEveryStage ==
  \A c \in DOMAIN commits : Validates(Tree(c), c, TRUE) => FailsClosed(Tree(c), c, TRUE)

(* The protocol is not cyclic: whatever was edited, misrecorded, rewound   *)
(* or expired on the way, it ends with a reconciled decision.              *)
DecisionSettles == []<>Settled
=============================================================================
