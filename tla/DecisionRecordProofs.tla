------------------------ MODULE DecisionRecordProofs ------------------------
(***************************************************************************)
(* What the evidence of an owner decision is worth, for any number of      *)
(* commits and of departures from the protocol.                            *)
(*                                                                         *)
(* The three properties are not inductive.  An artifact says what was true *)
(* of the history when its run ended: the invariant keeps what the         *)
(* validator and the evidence script had established then, as facts about  *)
(* commits that are never rewritten (RunsSound); what a local run has      *)
(* learnt of the repository as long as nobody touches it: its processes    *)
(* read it one after the other, and only then have they all read the same  *)
(* (LocalSound); and what the evidence file says (EvidenceSound).          *)
(***************************************************************************)
EXTENDS DecisionRecord, TLAPS

(* What the validator makes sure of in an accepted transition at commit h. *)
Frozen(docs, h) ==
  LET c == docs.owner.candidate IN
  /\ c \in DOMAIN commits /\ c \in commits[h].past /\ c # h
  /\ Tree(c).status = "Proposed"
  /\ Tree(c).semantics = docs.semantics /\ Tree(c).body = docs.body

(* What it makes sure of in a reconciled decision.                         *)
Confirmed(docs) ==
  LET c == docs.owner.candidate
      m == docs.stage.metadata
  IN  /\ c \in DOMAIN commits /\ m \in DOMAIN commits
      /\ Tree(c).status = "Proposed"
      /\ Tree(c).semantics = docs.semantics /\ Tree(c).body = docs.body
      /\ Tree(m).semantics = docs.semantics

(* What the evidence script learns of the run that is cited, and stays     *)
(* true when the artifact has expired.                                     *)
Cited(stage) ==
  LET r == stage.run IN
  /\ r \in DOMAIN runs /\ runs[r].success
  /\ runs[r].commit = stage.metadata
  /\ runs[r].artifact.status = "ACCEPTED_TRANSITION"

(* What a hosted run of commit c that succeeded has established.           *)
Sound(c) ==
  LET t == Tree(c) IN
  /\ DecisionStatus(Read(t)) = "ACCEPTED_TRANSITION" => Frozen(t, c)
  /\ DecisionStatus(Read(t)) = "ACCEPTED_RECONCILED" =>
       Confirmed(t) /\ Cited(t.stage) /\ t.stage.metadata \in commits[c].past \ {c}

RunSound(r) ==
  LET c == runs[r].commit IN
  /\ c \in DOMAIN commits
  /\ runs[r].success => runs[r].artifact = Manifest(c, Read(Tree(c)), Tree(c), r) /\ Sound(c)

RunsSound == \A r \in DOMAIN runs : RunSound(r)

(* The steps after the first validator, and those after ADR and map have   *)
(* been read.                                                              *)
Validated == Again \/ local.step \in {"prove", "adr", "map", "clean", "digest", "hosted"}
HasRead   == \/ local.step \in {"load", "history", "status"} /\ Again
             \/ local.step \in {"clean", "digest", "hosted"}

Undisturbed ==
  /\ local.head = head
  /\ local.step \in {"history", "status"} => local.docs = worktree
  /\ local.step = "status" => HistoryHolds(worktree, head)
  /\ local.step \in {"prove", "adr"} => local.read = NoRead
  /\ local.step = "map" => local.read = [NoRead EXCEPT !.status = worktree.status]
  /\ HasRead => local.read = Read(worktree)
  /\ Validated => Validates(worktree, head, Clean)
  /\ local.step \in {"digest", "hosted"} => Clean
  /\ local.step = "hosted" => local.files = worktree

LocalSound ==
  local.step # "idle" => /\ local.head \in DOMAIN commits
                         /\ ~touched => Undisturbed

EvidenceSound ==
  evidence # None =>
    LET x == evidence.manifest
        t == Tree(x.commit)
    IN  /\ x.commit \in DOMAIN commits
        /\ x.status = DecisionStatus(evidence.read)
        /\ Reconciled(evidence.read) => Cited(evidence.read.stage)
        /\ ~evidence.touched => /\ evidence.read = Read(t) /\ x.files = t
                                /\ Reconciled(evidence.read) => Confirmed(t)

IInv == TypeOK /\ RunsSound /\ LocalSound /\ EvidenceSound
-----------------------------------------------------------------------------
(* What the operators of the model return.                                 *)

(* The rows of the two histories have their types.                         *)
LEMMA Rows ==
  ASSUME TypeOK
  PROVE  /\ DOMAIN commits = 1..Len(commits) /\ DOMAIN commits \subseteq Commit
         /\ \A c \in DOMAIN commits : Tree(c) \in Trees /\ commits[c].past \subseteq DOMAIN commits
         /\ DOMAIN runs = 1..Len(runs) /\ Len(runs) \in Nat
         /\ \A r \in DOMAIN runs : runs[r] \in RunRow
<1>1. commits \in Seq(CommitRow) /\ Len(commits) \in 1..MaxCommits
  BY DEF TypeOK
<1>2. DOMAIN commits = 1..Len(commits) /\ \A c \in DOMAIN commits : commits[c] \in CommitRow
  BY <1>1
<1>3. \A c \in DOMAIN commits : Tree(c) \in Trees
  BY <1>2 DEF Tree, CommitRow
<1>4. DOMAIN commits \subseteq Commit
  BY <1>1, <1>2, DecisionConstants DEF Commit
<1>5. \A c \in DOMAIN commits : commits[c].past \subseteq DOMAIN commits
  BY <1>1, <1>2 DEF TypeOK
<1>6. runs \in Seq(RunRow)
  BY DEF TypeOK
<1>7. DOMAIN runs = 1..Len(runs) /\ Len(runs) \in Nat /\ \A r \in DOMAIN runs : runs[r] \in RunRow
  BY <1>6
<1> QED  BY <1>2, <1>3, <1>4, <1>5, <1>7

(* The four stage fields are all pending in a transition, all filled in    *)
(* when the decision is reconciled.                                        *)
LEMMA StageFields ==
  ASSUME NEW docs \in Trees
  PROVE  /\ AcceptedTransition(docs) =>
              docs.stage.metadata = 0 /\ docs.stage.hosted = 0 /\ docs.stage.digest = 0
         /\ AcceptedReconciled(docs) =>
              docs.stage.metadata # 0 /\ docs.stage.hosted # 0 /\ docs.stage.digest # 0
<1>1. /\ docs.stage["metadata"] \in StageValues(docs) /\ docs.stage["hosted"] \in StageValues(docs)
      /\ docs.stage["digest"] \in StageValues(docs)
  BY DEF StageValues, NoStage
<1> QED  BY <1>1 DEF AcceptedTransition, AcceptedReconciled, Pending

(* An edit of a tree's fields is a tree.                                   *)
LEMMA TreeEdits ==
  ASSUME NEW t \in Trees
  PROVE  /\ \A o \in Owners : [t EXCEPT !.status = "Accepted", !.owner = o] \in Trees
         /\ \A g \in Stages : [t EXCEPT !.stage = g] \in Trees
         /\ \A part \in {"semantics", "body"}, v \in Content : [t EXCEPT ![part] = v] \in Trees
<1>1. \A o \in Owners : [t EXCEPT !.status = "Accepted", !.owner = o] \in Trees
  BY DEF Trees
<1>2. \A g \in Stages : [t EXCEPT !.stage = g] \in Trees
  BY DEF Trees
<1>3. \A v \in Content : [t EXCEPT !["semantics"] = v] \in Trees
  BY DEF Trees
<1>4. \A v \in Content : [t EXCEPT !["body"] = v] \in Trees
  BY DEF Trees
<1> QED  BY <1>1, <1>2, <1>3, <1>4

(* The blank fields have the types of the fields.                          *)
LEMMA BlankFields == NoOwner \in Owners /\ NoStage \in Stages
  BY DecisionConstants DEF NoOwner, NoStage, Owners, Stages, Pending, Nowhere

(* The probe that cites a commit nobody made.                              *)
LEMMA HostedProbe ==
  ASSUME NEW docs \in Trees, NEW p, p = [docs EXCEPT !.stage.hosted = Nowhere]
  PROVE  /\ p \in Trees /\ p.status = docs.status /\ p.stage.hosted = Nowhere
         /\ p.stage.metadata = docs.stage.metadata
<1>1. /\ docs.stage \in Stages /\ Nowhere \in 0..Nowhere
  BY DecisionConstants DEF Trees, Nowhere
<1>2. PICK g : g = [docs.stage EXCEPT !.hosted = Nowhere]
  OBVIOUS
<1>3. g \in Stages /\ g.hosted = Nowhere /\ g.metadata = docs.stage.metadata
  BY <1>1, <1>2 DEF Stages
<1>4. p = [docs EXCEPT !.stage = g]
  BY <1>2
<1>5. p.stage = g /\ p.status = docs.status
  BY <1>4 DEF Trees
<1>6. p \in Trees
  BY <1>3, <1>4 DEF Trees
<1> QED  BY <1>3, <1>5, <1>6

(* Each probe is refused, whatever the validator would say of what it has  *)
(* read.                                                                   *)
LEMMA ProbesRefused ==
  ASSUME TypeOK, NEW docs \in Trees, NEW h, NEW clean
  PROVE  FailsClosed(docs, h, clean)
<1>1. Nowhere \notin DOMAIN commits /\ Nowhere # 0
  BY DecisionConstants DEF TypeOK, Nowhere
<1>2. ~Validates([docs EXCEPT !.status = "REMOVED"], h, clean)
  BY DEF Validates, HistoryHolds, Trees
<1>3. ~Validates([docs EXCEPT !.body = "lacking"], h, clean)
  BY DEF Validates, HistoryHolds, BodyComplete, Trees
<1>4. ~Validates([docs EXCEPT !.semantics = "lacking"], h, clean)
  BY DEF Validates, HistoryHolds, SemanticsComplete, Trees
<1>5. ~Validates([docs EXCEPT !.stage.hosted = Nowhere], h, clean)
  <2>1. PICK p : p = [docs EXCEPT !.stage.hosted = Nowhere]
    OBVIOUS
  <2>2. p \in Trees /\ p.stage.hosted = Nowhere
    BY <2>1, HostedProbe
  <2>3. ~ProposedValid(p)
    BY <1>1, <2>2 DEF ProposedValid, NoStage, Pending
  <2>4. ~AcceptedTransition(p)
    BY <1>1, <2>2, StageFields
  <2>5. ~(StageBound(p) /\ MetadataFrozen(p, h))
    BY <1>1, <2>2 DEF StageBound, MetadataFrozen, Known
  <2>6. ~Validates(p, h, clean)
    BY <2>3, <2>4, <2>5 DEF Validates, HistoryHolds, AcceptedValid
  <2> QED  BY <2>1, <2>6
<1> QED  BY <1>2, <1>3, <1>4, <1>5 DEF FailsClosed, Probes

(* The three stages, told apart by the status and the digest.              *)
LEMMA Stage ==
  ASSUME NEW read
  PROVE  /\ DecisionStatus(read) = "ACCEPTED_RECONCILED" <=> Reconciled(read)
         /\ DecisionStatus(read) = "ACCEPTED_TRANSITION" <=>
              read.status = "Accepted" /\ read.stage.digest = 0
         /\ DecisionStatus(read) \in {"PROPOSED", "ACCEPTED_TRANSITION", "ACCEPTED_RECONCILED"}
  BY DEF DecisionStatus, Reconciled, Pending

(* What the script reads of a tree.                                        *)
LEMMA ReadFields ==
  ASSUME NEW docs \in Trees
  PROVE  /\ Read(docs) \in Reads /\ Read(docs).status = docs.status
         /\ Read(docs).stage = docs.stage
  BY DEF Read, Reads, Trees

(* A transition the validator accepts has frozen its candidate.            *)
LEMMA TransitionValidated ==
  ASSUME NEW docs \in Trees, NEW h, NEW clean, Validates(docs, h, clean),
         docs.semantics = Tree(h).semantics, DecisionStatus(Read(docs)) = "ACCEPTED_TRANSITION"
  PROVE  Frozen(docs, h)
<1>1. docs.status = "Accepted" /\ docs.stage.digest = 0
  BY Stage, ReadFields
<1>2. AcceptedValid(docs, h) /\ ~AcceptedReconciled(docs)
  BY <1>1, StageFields DEF Validates, HistoryHolds
<1>3. AcceptedTransition(docs) /\ h # docs.owner.candidate
  BY <1>1, <1>2 DEF AcceptedValid, Validates, EndsClean
<1> QED
  BY <1>2, <1>3 DEF AcceptedValid, CandidateFrozen, TransitionFrozen, Frozen, Known, IsAncestor

(* A reconciled decision it accepts has frozen its candidate too, and its  *)
(* metadata commit is an earlier one with the same contracts and scripts.  *)
LEMMA ReconciliationValidated ==
  ASSUME NEW docs \in Trees, NEW h, NEW clean, Validates(docs, h, clean),
         docs.semantics = Tree(h).semantics, Reconciled(Read(docs))
  PROVE  /\ Confirmed(docs)
         /\ docs.stage.metadata \in commits[h].past
         /\ Tree(docs.stage.metadata).stage = NoStage
<1>1. docs.status = "Accepted" /\ docs.stage.digest # 0
  BY ReadFields DEF Reconciled, Pending
<1>2. AcceptedValid(docs, h) /\ ~AcceptedTransition(docs)
  BY <1>1, StageFields DEF Validates, HistoryHolds
<1>3. CandidateFrozen(docs, h) /\ MetadataFrozen(docs, h)
  BY <1>2 DEF AcceptedValid
<1> QED  BY <1>3 DEF CandidateFrozen, MetadataFrozen, Confirmed, Known, IsAncestor

(* What a hosted run that passes has established.                          *)
LEMMA PassedIsSound ==
  ASSUME TypeOK, NEW c \in DOMAIN commits, EvidencePasses(c)
  PROVE  Sound(c)
<1> DEFINE t == Tree(c)
<1>1. t \in Trees
  BY Rows
<1>2. /\ Validates(t, c, TRUE)
      /\ Reconciled(Read(t)) => AcceptedReconciled(t) /\ HostedHolds(Read(t))
  BY DEF EvidencePasses
<1> HIDE DEF t
<1>3. DecisionStatus(Read(t)) = "ACCEPTED_TRANSITION" => Frozen(t, c)
  BY <1>1, <1>2, TransitionValidated DEF t
<1>4. ASSUME Reconciled(Read(t))
      PROVE  Confirmed(t) /\ Cited(t.stage) /\ t.stage.metadata \in commits[c].past \ {c}
  <2>1. /\ Confirmed(t) /\ t.stage.metadata \in commits[c].past
        /\ Tree(t.stage.metadata).stage = NoStage
    BY <1>1, <1>2, <1>4, ReconciliationValidated DEF t
  <2>2. Cited(t.stage)
    BY <1>1, <1>2, <1>4, ReadFields DEF HostedHolds, Cited
  <2>3. t.stage # NoStage
    BY <1>1, <1>4, ReadFields DEF Reconciled, NoStage, Pending
  <2> QED  BY <2>1, <2>2, <2>3 DEF t
<1> QED  BY <1>1, <1>3, <1>4, Stage DEF Sound, t

(* A manifest has its type.                                                *)
LEMMA ManifestTyped ==
  ASSUME NEW c \in Commit, NEW read, NEW files \in Trees, NEW r \in Nat
  PROVE  Manifest(c, read, files, r) \in Manifests
  BY Stage DEF Manifest, Manifests

(* The states of a local run.                                              *)
LEMMA LocalFields ==
  ASSUME TypeOK
  PROVE  /\ local.step \in {"idle", "load", "history", "status", "prove", "adr", "map", "clean",
                            "digest", "hosted"}
         /\ local.step # "idle" => local.head \in Commit /\ local.read \in Reads
         /\ local.step \in {"history", "status"} => local.docs \in Trees
         /\ local.step = "hosted" => local.files \in Trees
<1>1. local \in LocalRuns
  BY DEF TypeOK
<1>2. CASE local = Idle
  BY <1>2 DEF Idle
<1>3. CASE local \in [step : {"load", "prove", "adr", "map", "clean", "digest"},
                      head : Commit, read : Reads]
  BY <1>3
<1>4. CASE local \in [step : {"history", "status"}, head : Commit, read : Reads, docs : Trees]
  BY <1>4
<1>5. CASE local \in [step : {"hosted"}, head : Commit, read : Reads, files : Trees]
  BY <1>5
<1> QED  BY <1>1, <1>2, <1>3, <1>4, <1>5 DEF LocalRuns

(* The records a local run goes through.                                   *)
LEMMA LocalStates ==
  /\ Idle \in LocalRuns
  /\ \A s \in {"load", "prove", "adr", "map", "clean", "digest"}, h \in Commit, r \in Reads :
       [step |-> s, head |-> h, read |-> r] \in LocalRuns
  /\ \A s \in {"history", "status"}, h \in Commit, r \in Reads, d \in Trees :
       [step |-> s, head |-> h, read |-> r, docs |-> d] \in LocalRuns
  /\ \A h \in Commit, r \in Reads, f \in Trees :
       [step |-> "hosted", head |-> h, read |-> r, files |-> f] \in LocalRuns
  BY DEF LocalRuns
-----------------------------------------------------------------------------
(* History is only added to: what was established of it stays.             *)
CommitsKept == \A c \in DOMAIN commits : c \in DOMAIN commits' /\ commits'[c] = commits[c]

RunsKept ==
  \A r \in DOMAIN runs :
    /\ r \in DOMAIN runs'
    /\ runs'[r].commit = runs[r].commit /\ runs'[r].success = runs[r].success
    /\ runs'[r].artifact = runs[r].artifact

(* What a hosted run established of its commit.                            *)
LEMMA SoundKept ==
  ASSUME CommitsKept, RunsKept, NEW c \in DOMAIN commits, Sound(c)
  PROVE  Sound(c)'
<1>1. PICK t : t = Tree(c)
  OBVIOUS
<1>2. t = Tree(c)'
  BY <1>1 DEF CommitsKept, Tree
<1>3. Frozen(t, c) => Frozen(t, c)'
  BY DEF Frozen, CommitsKept, Tree
<1>4. Confirmed(t) => Confirmed(t)'
  BY DEF Confirmed, CommitsKept, Tree
<1>5. Cited(t.stage) => Cited(t.stage)'
  BY DEF Cited, RunsKept
<1>6. commits[c].past = commits'[c].past
  BY DEF CommitsKept
<1>7. /\ DecisionStatus(Read(t)) = "ACCEPTED_TRANSITION" => Frozen(t, c)'
      /\ DecisionStatus(Read(t)) = "ACCEPTED_RECONCILED" =>
           Confirmed(t)' /\ Cited(t.stage)' /\ t.stage.metadata \in commits'[c].past \ {c}
  BY <1>1, <1>3, <1>4, <1>5, <1>6 DEF Sound
<1> QED  BY <1>2, <1>7 DEF Sound

(* What its artifact says.                                                 *)
LEMMA RunSoundKept ==
  ASSUME CommitsKept, RunsKept, NEW r \in DOMAIN runs, RunSound(r)
  PROVE  RunSound(r)'
<1>1. PICK c : c = runs[r].commit
  OBVIOUS
<1>2. c = runs'[r].commit /\ c \in DOMAIN commits /\ c \in DOMAIN commits'
  BY <1>1 DEF RunsKept, CommitsKept, RunSound
<1>3. commits'[c].tree = commits[c].tree
  BY <1>2 DEF CommitsKept
<1>4. Sound(c) => Sound(c)'
  BY <1>2, SoundKept
<1>5. runs'[r].success =>
        runs'[r].artifact = Manifest(c, Read(commits'[c].tree), commits'[c].tree, r) /\ Sound(c)'
  BY <1>1, <1>3, <1>4 DEF RunSound, RunsKept, Tree
<1> QED  BY <1>2, <1>5 DEF RunSound, Tree

(* What the evidence file says, if nobody writes it.                       *)
LEMMA EvidenceKept ==
  ASSUME CommitsKept, RunsKept, EvidenceSound, evidence' = evidence
  PROVE  EvidenceSound'
<1> SUFFICES ASSUME evidence # None PROVE EvidenceSound'
  BY DEF EvidenceSound
<1>1. PICK g : g = evidence.read.stage
  OBVIOUS
<1>2. PICK x : x = evidence.manifest
  OBVIOUS
<1>3. PICK t : t = Tree(x.commit)
  OBVIOUS
<1>4. Cited(g) => Cited(g)'
  BY DEF Cited, RunsKept
<1>5. Confirmed(t) => Confirmed(t)'
  BY DEF Confirmed, CommitsKept, Tree
<1>6. /\ x.commit \in DOMAIN commits' /\ x.status = DecisionStatus(evidence.read)
      /\ t = commits'[x.commit].tree
  BY <1>2, <1>3 DEF EvidenceSound, CommitsKept, Tree
<1>7. Reconciled(evidence.read) => Cited(g)'
  BY <1>1, <1>4 DEF EvidenceSound
<1>8. ~evidence.touched => /\ evidence.read = Read(t) /\ x.files = t
                           /\ Reconciled(evidence.read) => Confirmed(t)'
  BY <1>2, <1>3, <1>5 DEF EvidenceSound
<1>9. g = evidence'.read.stage /\ x = evidence'.manifest /\ t = Tree(evidence.manifest.commit)'
  BY <1>1, <1>2, <1>6 DEF Tree
<1>10. Reconciled(evidence'.read) => Cited(evidence.read.stage)'
  BY <1>7, <1>9
<1>11. ~evidence'.touched => (Reconciled(evidence'.read) => Confirmed(Tree(evidence.manifest.commit))')
  BY <1>8, <1>9
<1> QED  BY <1>6, <1>8, <1>9, <1>10, <1>11 DEF EvidenceSound

(* What the validator says depends on commits, working tree and HEAD only. *)
LEMMA SameJudgement ==
  ASSUME UNCHANGED <<commits, head, worktree>>
  PROVE  /\ HistoryHolds(worktree, head) => HistoryHolds(worktree, head)'
         /\ Clean => Clean'
         /\ Validates(worktree, head, Clean) => Validates(worktree, head, Clean)'
<1>1. HistoryHolds(worktree, head) => HistoryHolds(worktree, head)'
  BY DEF HistoryHolds, BodyComplete, SemanticsComplete, ProposedValid, AcceptedValid, OwnersDecided,
         CandidateFrozen, TransitionFrozen, MetadataFrozen, StageBound, AcceptedTransition,
         AcceptedReconciled, StageValues, Known, IsAncestor, Tree
<1>2. Clean = Clean'
  BY DEF Clean, Tree
<1>3. Validates(worktree, head, Clean) => Validates(worktree, head, Clean)'
  BY <1>1, <1>2 DEF Validates, EndsClean, AcceptedTransition, StageValues
<1> QED  BY <1>1, <1>2, <1>3

(* So does what a local run has learnt.                                    *)
LEMMA LocalAlone ==
  ASSUME LocalSound, UNCHANGED <<commits, head, worktree, local, touched>>
  PROVE  LocalSound'
<1>1. Undisturbed => Undisturbed'
  BY SameJudgement DEF Undisturbed, Validated, HasRead, Again, Read
<1> QED  BY <1>1 DEF LocalSound

(* A step that touches neither history keeps both.                         *)
LEMMA HistoryAlone ==
  ASSUME UNCHANGED <<commits, runs>>
  PROVE  CommitsKept /\ RunsKept
  BY DEF CommitsKept, RunsKept

(* A step that adds no hosted run keeps what all of them established.      *)
LEMMA RunsSoundKept ==
  ASSUME CommitsKept, RunsKept, RunsSound, DOMAIN runs' = DOMAIN runs
  PROVE  RunsSound'
  BY RunSoundKept DEF RunsSound
-----------------------------------------------------------------------------
(* The steps.                                                              *)
LEMMA Initially == Init => IInv
<1> SUFFICES ASSUME Init PROVE IInv
  OBVIOUS
<1>1. FirstTree \in Trees
  BY BlankFields DEF FirstTree, Trees, Content
<1>2. PICK row : row = [tree |-> FirstTree, past |-> {1}]
  OBVIOUS
<1>3. row \in CommitRow /\ row.past = {1}
  BY <1>1, <1>2, DecisionConstants DEF CommitRow, Commit
<1>4. commits = <<row>> /\ runs = <<>>
  BY <1>2 DEF Init
<1>5. commits \in Seq(CommitRow) /\ Len(commits) = 1 /\ DOMAIN commits = {1} /\ commits[1] = row
  BY <1>3, <1>4
<1>6. runs \in Seq(RunRow) /\ DOMAIN runs = {}
  BY <1>4
<1>7. TypeOK
  <2>1. Len(commits) \in 1..MaxCommits /\ slips \in 0..MaxSlips
    BY <1>5, DecisionConstants DEF Init
  <2>2. \A c \in DOMAIN commits : c \in commits[c].past /\ commits[c].past \subseteq 1..c
    BY <1>3, <1>5
  <2>3. local \in LocalRuns /\ evidence \in Evidences /\ touched \in BOOLEAN
    BY LocalStates DEF Init, Evidences
  <2> QED  BY <1>1, <1>5, <1>6, <2>1, <2>2, <2>3 DEF TypeOK, Init
<1>8. RunsSound
  BY <1>6 DEF RunsSound
<1>9. LocalSound
  BY DEF LocalSound, Init, Idle
<1> QED  BY <1>7, <1>8, <1>9 DEF IInv, EvidenceSound, Init

(* A run under way is not idle, so it is marked.                           *)
LEMMA TouchedMarks ==
  ASSUME touched' = (touched \/ local # Idle), local.step # "idle"
  PROVE  touched'
<1>1. local # Idle
  BY DEF Idle
<1> QED  BY <1>1, Zenon

(* The author, or whoever changes the working tree or moves HEAD: a local  *)
(* run under way is marked.                                                *)
LEMMA WorkKeeps ==
  ASSUME IInv, UNCHANGED <<commits, runs, local, evidence>>,
         touched' = (touched \/ local # Idle),
         head' \in DOMAIN commits, worktree' \in Trees, slips' \in 0..MaxSlips
  PROVE  IInv'
<1>1. TypeOK'
  BY DEF IInv, TypeOK
<1>2. RunsSound'
  BY HistoryAlone, RunsSoundKept DEF IInv
<1>3. EvidenceSound'
  BY HistoryAlone, EvidenceKept DEF IInv
<1>4. LocalSound'
  <2>1. local.step # "idle" => touched'
    BY TouchedMarks
  <2>2. local.step # "idle" => local.head \in DOMAIN commits
    BY DEF IInv, LocalSound
  <2> QED  BY <2>1, <2>2 DEF LocalSound
<1> QED  BY <1>1, <1>2, <1>3, <1>4 DEF IInv

(* A departure is counted.                                                 *)
LEMMA SlipCounts == TypeOK /\ Slip => slips' \in 0..MaxSlips
  BY DecisionConstants DEF TypeOK, Slip

(* The author records the owners' decision on the commit that was          *)
(* reviewed.                                                               *)
LEMMA RecordOwnersKeeps == IInv /\ RecordOwners => IInv'
<1> SUFFICES ASSUME IInv, RecordOwners PROVE IInv'
  OBVIOUS
<1>1. PICK o : o = [candidate |-> head, proposed |-> head, comments |-> "distinct"]
  OBVIOUS
<1>2. o \in Owners
  <2>1. head \in 0..Nowhere
    BY Rows, DecisionConstants DEF IInv, TypeOK, Commit, Nowhere
  <2> QED  BY <1>1, <2>1 DEF Owners
<1>3. worktree' = [worktree EXCEPT !.status = "Accepted", !.owner = o]
  BY <1>1 DEF RecordOwners, Write
<1>4. worktree' \in Trees
  BY <1>2, <1>3, TreeEdits DEF IInv, TypeOK
<1>5. UNCHANGED <<commits, runs, local, evidence, head, slips>> /\ touched' = (touched \/ local # Idle)
  BY DEF RecordOwners, Write, Work
<1> QED  BY <1>4, <1>5, WorkKeeps DEF IInv, TypeOK

(* The author records the hosted run of the metadata commit.               *)
LEMMA RecordHostedKeeps == IInv /\ RecordHosted => IInv'
<1> SUFFICES ASSUME IInv, RecordHosted PROVE IInv'
  OBVIOUS
<1>1. PICK r \in Passed(head) :
        worktree' = [worktree EXCEPT !.stage = [metadata |-> head, hosted |-> head,
                                                run |-> r, digest |-> r]]
  BY DEF RecordHosted, Write
<1>2. PICK g : g = [metadata |-> head, hosted |-> head, run |-> r, digest |-> r]
  OBVIOUS
<1>3. g \in Stages
  <2>1. head \in 0..Nowhere
    BY Rows, DecisionConstants DEF IInv, TypeOK, Commit, Nowhere
  <2>2. r \in Nat
    BY Rows DEF IInv, Passed
  <2> QED  BY <1>2, <2>1, <2>2 DEF Stages
<1>4. worktree' \in Trees
  BY <1>1, <1>2, <1>3, TreeEdits DEF IInv, TypeOK
<1>5. UNCHANGED <<commits, runs, local, evidence, head, slips>> /\ touched' = (touched \/ local # Idle)
  BY DEF RecordHosted, Write, Work
<1> QED  BY <1>4, <1>5, WorkKeeps DEF IInv, TypeOK

(* The author takes a refused decision back.                               *)
LEMMA ReopenKeeps == IInv /\ Reopen => IInv'
<1> SUFFICES ASSUME IInv, Reopen PROVE IInv'
  OBVIOUS
<1>1. worktree.semantics \in Content /\ worktree.body \in Content
  BY DEF IInv, TypeOK, Trees
<1>2. Mended(worktree.semantics) \in Content /\ Mended(worktree.body) \in Content
  BY <1>1 DEF Mended, Content
<1>3. worktree' \in Trees
  BY <1>2, BlankFields DEF Reopen, Write, Trees
<1>4. UNCHANGED <<commits, runs, local, evidence, head, slips>> /\ touched' = (touched \/ local # Idle)
  BY DEF Reopen, Write, Work
<1> QED  BY <1>3, <1>4, WorkKeeps DEF IInv, TypeOK

(* Contents change after the review.                                       *)
LEMMA EditContentKeeps == IInv /\ EditContent => IInv'
<1> SUFFICES ASSUME IInv, EditContent PROVE IInv'
  OBVIOUS
<1>1. PICK part \in {"semantics", "body"}, v \in Content : worktree' = [worktree EXCEPT ![part] = v]
  BY DEF EditContent, Write
<1>2. worktree' \in Trees
  BY <1>1, TreeEdits DEF IInv, TypeOK
<1>3. UNCHANGED <<commits, runs, local, evidence, head>> /\ touched' = (touched \/ local # Idle)
  BY DEF EditContent, Write, Work
<1>4. slips' \in 0..MaxSlips
  BY SlipCounts DEF IInv, EditContent
<1> QED  BY <1>2, <1>3, <1>4, WorkKeeps DEF IInv, TypeOK

(* The owners' fields are filled in wrongly.                               *)
LEMMA MisrecordOwnersKeeps == IInv /\ MisrecordOwners => IInv'
<1> SUFFICES ASSUME IInv, MisrecordOwners PROVE IInv'
  OBVIOUS
<1>1. PICK o \in WrongOwners : worktree' = [worktree EXCEPT !.status = "Accepted", !.owner = o]
  BY DEF MisrecordOwners, Write
<1>2. o \in Owners
  <2>1. \A c \in DOMAIN commits \cup {Nowhere} : c \in 0..Nowhere
    BY Rows, DecisionConstants DEF IInv, Commit, Nowhere
  <2>2. head \in DOMAIN commits
    BY DEF IInv, TypeOK
  <2> QED  BY <2>1, <2>2 DEF WrongOwners, Owners
<1>3. worktree' \in Trees
  BY <1>1, <1>2, TreeEdits DEF IInv, TypeOK
<1>4. UNCHANGED <<commits, runs, local, evidence, head>> /\ touched' = (touched \/ local # Idle)
  BY DEF MisrecordOwners, Write, Work
<1>5. slips' \in 0..MaxSlips
  BY SlipCounts DEF IInv, MisrecordOwners
<1> QED  BY <1>3, <1>4, <1>5, WorkKeeps DEF IInv, TypeOK

(* The stage fields are filled in early, wrongly or in part.               *)
LEMMA MisrecordHostedKeeps == IInv /\ MisrecordHosted => IInv'
<1> SUFFICES ASSUME IInv, MisrecordHosted PROVE IInv'
  OBVIOUS
<1>1. PICK g \in WrongStages : worktree' = [worktree EXCEPT !.stage = g]
  BY DEF MisrecordHosted, Write
<1>2. g \in Stages
  <2>1. /\ \A m \in DOMAIN commits : m \in 0..Nowhere
        /\ \A r \in DOMAIN runs : r \in Nat
        /\ Len(runs) \in Nat /\ Nowhere \in Nat /\ Pending \in Nat
    BY Rows, DecisionConstants DEF IInv, Commit, Nowhere, Pending
  <2>2. head \in DOMAIN commits
    BY DEF IInv, TypeOK
  <2> QED  BY <2>1, <2>2 DEF WrongStages, Stages
<1>3. worktree' \in Trees
  BY <1>1, <1>2, TreeEdits DEF IInv, TypeOK
<1>4. UNCHANGED <<commits, runs, local, evidence, head>> /\ touched' = (touched \/ local # Idle)
  BY DEF MisrecordHosted, Write, Work
<1>5. slips' \in 0..MaxSlips
  BY SlipCounts DEF IInv, MisrecordHosted
<1> QED  BY <1>3, <1>4, <1>5, WorkKeeps DEF IInv, TypeOK

(* The branch is rewound; the commits stay known.                          *)
LEMMA RewindKeeps == IInv /\ Rewind => IInv'
<1> SUFFICES ASSUME IInv, Rewind PROVE IInv'
  OBVIOUS
<1>1. PICK c \in commits[head].past : head' = c /\ worktree' = Tree(c)
  BY DEF Rewind
<1>2. c \in DOMAIN commits /\ Tree(c) \in Trees
  BY <1>1, Rows DEF IInv, TypeOK
<1>3. UNCHANGED <<commits, runs, local, evidence>> /\ touched' = (touched \/ local # Idle)
  BY DEF Rewind, Work
<1>4. slips' \in 0..MaxSlips
  BY SlipCounts DEF IInv, Rewind
<1> QED  BY <1>1, <1>2, <1>3, <1>4, WorkKeeps DEF IInv

(* An edit is taken back.                                                  *)
LEMMA RestoreKeeps == IInv /\ Restore => IInv'
<1> SUFFICES ASSUME IInv, Restore PROVE IInv'
  OBVIOUS
<1>1. worktree' = Tree(head) /\ UNCHANGED head
  BY DEF Restore, Write
<1>2. head \in DOMAIN commits /\ Tree(head) \in Trees
  BY Rows DEF IInv, TypeOK
<1>3. UNCHANGED <<commits, runs, local, evidence>> /\ touched' = (touched \/ local # Idle)
  BY DEF Restore, Write, Work
<1>4. slips' \in 0..MaxSlips
  BY SlipCounts DEF IInv, Restore
<1> QED  BY <1>1, <1>2, <1>3, <1>4, WorkKeeps DEF IInv

(* git commit: the history grows by one commit.                            *)
LEMMA MakeCommitKeeps == IInv /\ MakeCommit => IInv'
<1> SUFFICES ASSUME IInv, MakeCommit PROVE IInv'
  OBVIOUS
<1>1. PICK n : n = Len(commits) + 1
  OBVIOUS
<1>2. PICK row : row = [tree |-> worktree, past |-> commits[head].past \cup {n}]
  OBVIOUS
<1>3. /\ commits' = Append(commits, row) /\ head' = n
      /\ UNCHANGED <<worktree, runs, local, evidence, slips>>
      /\ touched' = (touched \/ local # Idle) /\ Len(commits) < MaxCommits
  BY <1>1, <1>2 DEF MakeCommit
<1>4. commits \in Seq(CommitRow) /\ Len(commits) \in 1..MaxCommits /\ head \in 1..Len(commits)
  BY Rows DEF IInv, TypeOK
<1>5. n \in Commit /\ n \in 1..MaxCommits
  BY <1>1, <1>3, <1>4, DecisionConstants DEF Commit
<1>6. commits[head].past \subseteq 1..n
  BY <1>1, <1>4 DEF IInv, TypeOK
<1>7. row \in CommitRow /\ n \in row.past /\ row.past \subseteq 1..n
  <2>1. worktree \in Trees /\ commits[head].past \subseteq Commit
    BY Rows DEF IInv, TypeOK
  <2>2. row \in CommitRow
    BY <1>2, <1>5, <2>1 DEF CommitRow
  <2> QED  BY <1>2, <1>4, <1>1, <1>6, <2>2
<1>8. /\ commits' \in Seq(CommitRow) /\ Len(commits') = n /\ DOMAIN commits' = 1..n
      /\ \A c \in DOMAIN commits : c \in DOMAIN commits' /\ commits'[c] = commits[c]
      /\ commits'[n] = row
  BY <1>1, <1>3, <1>4, <1>7
<1>9. CommitsKept /\ RunsKept
  BY <1>3, <1>8 DEF CommitsKept, RunsKept
<1>10. TypeOK'
  <2>1. \A c \in DOMAIN commits' : c \in commits'[c].past /\ commits'[c].past \subseteq 1..c
    <3> TAKE c \in DOMAIN commits'
    <3>1. CASE c = n
      BY <1>7, <1>8, <3>1
    <3>2. CASE c # n
      <4>1. c \in DOMAIN commits
        BY <1>1, <1>4, <1>8, <3>2
      <4> QED  BY <1>8, <4>1 DEF IInv, TypeOK
    <3> QED  BY <3>1, <3>2
  <2>2. Len(commits') \in 1..MaxCommits /\ head' \in DOMAIN commits'
    BY <1>3, <1>5, <1>8
  <2> QED  BY <1>3, <1>8, <2>1, <2>2 DEF IInv, TypeOK
<1>11. RunsSound'
  BY <1>3, <1>9, RunsSoundKept DEF IInv
<1>12. EvidenceSound'
  BY <1>3, <1>9, EvidenceKept DEF IInv
<1>13. LocalSound'
  <2>1. local.step # "idle" => touched'
    BY <1>3, TouchedMarks
  <2>2. local.step # "idle" => local.head \in DOMAIN commits'
    BY <1>9 DEF IInv, LocalSound, CommitsKept
  <2> QED  BY <1>3, <2>1, <2>2 DEF LocalSound
<1> QED  BY <1>10, <1>11, <1>12, <1>13 DEF IInv

(* The hosted CI takes a commit.                                           *)
LEMMA HostedRunKeeps ==
  ASSUME IInv, NEW c, NEW event \in {"push", "pull_request"}, HostedRun(c, event),
         slips' \in 0..MaxSlips
  PROVE  IInv'
<1>1. PICK n : n = Len(runs) + 1
  OBVIOUS
<1>2. PICK row : row = [commit |-> c, event |-> event, success |-> EvidencePasses(c),
                        expired |-> FALSE,
                        artifact |-> IF EvidencePasses(c) THEN Manifest(c, Read(Tree(c)), Tree(c), n)
                                     ELSE None]
  OBVIOUS
<1>3. /\ runs' = Append(runs, row) /\ c \in DOMAIN commits
      /\ UNCHANGED <<commits, head, worktree, local, evidence, touched>>
  BY <1>1, <1>2 DEF HostedRun, Known
<1>4. runs \in Seq(RunRow) /\ Len(runs) \in Nat /\ c \in Commit /\ Tree(c) \in Trees
  BY <1>3, Rows DEF IInv, TypeOK
<1>5. n \in Nat /\ DOMAIN runs = 1..Len(runs)
  BY <1>1, <1>4
<1>6. PICK ok \in BOOLEAN : ok = EvidencePasses(c)
  BY DEF EvidencePasses
<1>7. PICK a \in Manifests \cup {None} : a = IF ok THEN Manifest(c, Read(Tree(c)), Tree(c), n) ELSE None
  BY <1>4, <1>5, ManifestTyped
<1>8. /\ row = [commit |-> c, event |-> event, success |-> ok, expired |-> FALSE, artifact |-> a]
  BY <1>2, <1>6, <1>7
<1>9. row \in RunRow /\ row.commit = c /\ row.success = ok /\ row.artifact = a
  BY <1>4, <1>8 DEF RunRow
<1>10. /\ runs' \in Seq(RunRow) /\ DOMAIN runs' = 1..n
       /\ \A r \in DOMAIN runs : r \in DOMAIN runs' /\ runs'[r] = runs[r]
       /\ runs'[n] = row
  BY <1>1, <1>3, <1>4, <1>9
<1>11. CommitsKept /\ RunsKept
  BY <1>3, <1>10 DEF CommitsKept, RunsKept
<1>12. TypeOK'
  BY <1>3, <1>10 DEF IInv, TypeOK
<1>13. RunSound(n)'
  <2>1. ok => Sound(c)
    BY <1>3, <1>6, PassedIsSound DEF IInv
  <2>2. commits'[c].tree = Tree(c) /\ (ok => Sound(c)')
    BY <1>3, <1>11, <2>1, SoundKept DEF Tree
  <2>3. ok => a = Manifest(c, Read(commits'[c].tree), commits'[c].tree, n)
    BY <1>7, <2>2
  <2>4. runs'[n].commit = c /\ runs'[n].success = ok /\ runs'[n].artifact = a
    BY <1>9, <1>10
  <2> QED  BY <1>3, <2>2, <2>3, <2>4 DEF RunSound, Tree
<1>14. RunsSound'
  <2> SUFFICES ASSUME NEW r \in DOMAIN runs' PROVE RunSound(r)'
    BY DEF RunsSound
  <2>1. CASE r = n
    BY <1>13, <2>1
  <2>2. CASE r # n
    <3>1. r \in DOMAIN runs
      BY <1>1, <1>4, <1>5, <1>10, <2>2
    <3> QED  BY <1>11, <3>1, RunSoundKept DEF IInv, RunsSound
  <2> QED  BY <2>1, <2>2
<1>15. EvidenceSound'
  BY <1>3, <1>11, EvidenceKept DEF IInv
<1>16. LocalSound'
  BY <1>3, LocalAlone DEF IInv
<1> QED  BY <1>12, <1>14, <1>15, <1>16 DEF IInv

(* An artifact expires: what it said was true and stays so.                *)
LEMMA ExpireKeeps == IInv /\ Expire => IInv'
<1> SUFFICES ASSUME IInv, Expire PROVE IInv'
  OBVIOUS
<1>1. PICK r \in DOMAIN runs : runs' = [runs EXCEPT ![r].expired = TRUE]
  BY DEF Expire
<1>2. UNCHANGED <<commits, head, worktree, local, evidence, touched>> /\ slips' \in 0..MaxSlips
  BY SlipCounts DEF Expire, IInv
<1>3. PICK row : row = [runs[r] EXCEPT !.expired = TRUE]
  OBVIOUS
<1>4. /\ row \in RunRow /\ row.commit = runs[r].commit /\ row.success = runs[r].success
      /\ row.artifact = runs[r].artifact
  <2>1. runs[r] \in RunRow
    BY Rows DEF IInv
  <2> QED  BY <1>3, <2>1 DEF RunRow
<1>5. runs' = [runs EXCEPT ![r] = row] /\ runs \in Seq(RunRow)
  BY <1>1, <1>3 DEF IInv, TypeOK
<1>6. /\ runs' \in Seq(RunRow) /\ DOMAIN runs' = DOMAIN runs
      /\ \A q \in DOMAIN runs : runs'[q] = IF q = r THEN row ELSE runs[q]
  BY <1>4, <1>5
<1>7. CommitsKept /\ RunsKept
  BY <1>2, <1>4, <1>6 DEF CommitsKept, RunsKept
<1>8. TypeOK'
  BY <1>2, <1>6 DEF IInv, TypeOK
<1>9. RunsSound'
  BY <1>6, <1>7, RunsSoundKept DEF IInv
<1>10. EvidenceSound'
  BY <1>2, <1>7, EvidenceKept DEF IInv
<1>11. LocalSound'
  BY <1>2, LocalAlone DEF IInv
<1> QED  BY <1>8, <1>9, <1>10, <1>11 DEF IInv

(* A step of the local run that writes nothing leaves what the hosted runs *)
(* and the evidence say.                                                   *)
LEMMA LocalKeeps ==
  ASSUME IInv, UNCHANGED <<commits, head, worktree, runs, evidence>>,
         local' \in LocalRuns, touched' \in BOOLEAN, slips' \in 0..MaxSlips, LocalSound'
  PROVE  IInv'
<1>1. TypeOK'
  BY DEF IInv, TypeOK
<1>2. RunsSound'
  BY HistoryAlone, RunsSoundKept DEF IInv
<1>3. EvidenceSound'
  BY HistoryAlone, EvidenceKept DEF IInv
<1> QED  BY <1>1, <1>2, <1>3 DEF IInv

(* The evidence script reads HEAD.                                         *)
LEMMA BeginLocalKeeps == IInv /\ BeginLocal => IInv'
<1> SUFFICES ASSUME IInv, BeginLocal PROVE IInv'
  OBVIOUS
<1>1. /\ local' = [step |-> "load", head |-> head, read |-> NoRead]
      /\ UNCHANGED <<commits, head, worktree, runs, evidence>> /\ touched' = FALSE
  BY DEF BeginLocal, Follow
<1>2. head \in Commit /\ head \in DOMAIN commits /\ NoRead \in Reads
  BY Rows, BlankFields DEF IInv, TypeOK, NoRead, Reads
<1>3. local' \in LocalRuns
  BY <1>1, <1>2, LocalStates
<1>4. local'.step = "load" /\ local'.head = head /\ local'.read = NoRead
  BY <1>1
<1>5. LocalSound'
  BY <1>1, <1>2, <1>4 DEF LocalSound, Undisturbed, Validated, HasRead, Again
<1>6. slips' \in 0..MaxSlips
  BY SlipCounts DEF IInv, BeginLocal
<1> QED  BY <1>1, <1>3, <1>5, <1>6, LocalKeeps

(* The check failed: nothing is left of the run.                           *)
LEMMA AbandonKeeps ==
  ASSUME IInv, local' = Idle,
         UNCHANGED <<commits, head, worktree, runs, evidence, touched, slips>>
  PROVE  IInv'
<1>1. local' \in LocalRuns
  BY LocalStates
<1>2. local'.step = "idle"
  BY DEF Idle
<1>3. LocalSound'
  BY <1>2 DEF LocalSound
<1> QED  BY <1>1, <1>3, LocalKeeps DEF IInv, TypeOK

(* A step of the local run that goes on: what has to be shown of the       *)
(* record it leaves, which reads the repository and changes nothing of it. *)
LEMMA ProceedKeeps ==
  ASSUME IInv, NEW ok, NEW l, Proceed(ok, l), local.step # "idle",
         ok => l \in LocalRuns,
         ok /\ local' = l => l.head = local.head /\ (~touched => Undisturbed')
  PROVE  IInv'
<1>1. /\ UNCHANGED <<commits, head, worktree, runs, evidence, touched, slips>>
      /\ local' = IF ok THEN l ELSE Idle
  BY DEF Proceed, Follow
<1>2. CASE ok
  <2>1. local' = l /\ local' \in LocalRuns
    BY <1>1, <1>2
  <2>2. local'.head \in DOMAIN commits'
    BY <1>1, <1>2, <2>1 DEF IInv, LocalSound
  <2>3. ~touched' => Undisturbed'
    BY <1>1, <1>2, <2>1
  <2>4. LocalSound'
    BY <2>2, <2>3 DEF LocalSound
  <2> QED  BY <1>1, <2>1, <2>4, LocalKeeps DEF IInv, TypeOK
<1>3. CASE ~ok
  BY <1>1, <1>3, AbandonKeeps
<1> QED  BY <1>2, <1>3

(* What the run may assume before such a step.                             *)
LEMMA Running ==
  ASSUME IInv, local.step # "idle"
  PROVE  /\ local.head \in Commit /\ local.read \in Reads /\ worktree \in Trees
         /\ ~touched => Undisturbed
  BY LocalFields DEF IInv, TypeOK, LocalSound

(* A validator reads the documents.                                        *)
LEMMA LoadDocumentsKeeps == IInv /\ LoadDocuments => IInv'
<1> SUFFICES ASSUME IInv, LoadDocuments PROVE IInv'
  OBVIOUS
<1> DEFINE l == Judging("history", worktree)
<1>1. local.step = "load" /\ Proceed(TRUE, l)
  BY DEF LoadDocuments
<1>2. l \in LocalRuns
  BY <1>1, Running, LocalStates DEF Judging
<1>3. UNCHANGED <<commits, head, worktree>>
  BY <1>1 DEF Proceed, Follow
<1>4. /\ l.step = "history" /\ l.head = local.head /\ l.read = local.read /\ l.docs = worktree
  BY DEF Judging
<1> HIDE DEF l
<1>5. ASSUME local' = l, ~touched PROVE Undisturbed'
  <2>1. Undisturbed
    BY <1>1, <1>5, Running
  <2> QED  BY <1>1, <1>3, <1>4, <1>5, <2>1, SameJudgement
           DEF Undisturbed, Validated, HasRead, Again
<1> QED  BY <1>1, <1>2, <1>4, <1>5, ProceedKeeps

(* It asks git about the history.                                          *)
LEMMA AskHistoryKeeps == IInv /\ AskHistory => IInv'
<1> SUFFICES ASSUME IInv, AskHistory PROVE IInv'
  OBVIOUS
<1> DEFINE l == Judging("status", local.docs)
           ok == HistoryHolds(local.docs, head) /\ (Again => AcceptedReconciled(local.docs))
<1>1. local.step = "history" /\ Proceed(ok, l)
  BY DEF AskHistory
<1>2. l \in LocalRuns
  BY <1>1, Running, LocalFields, LocalStates DEF Judging, IInv
<1>3. UNCHANGED <<commits, head, worktree>>
  BY <1>1 DEF Proceed, Follow
<1>4. /\ l.step = "status" /\ l.head = local.head /\ l.read = local.read /\ l.docs = local.docs
  BY DEF Judging
<1>5. ok => HistoryHolds(local.docs, head)
  OBVIOUS
<1> HIDE DEF l, ok
<1>6. ASSUME ok, local' = l, ~touched PROVE Undisturbed'
  <2>1. Undisturbed
    BY <1>1, <1>6, Running
  <2>2. local.docs = worktree /\ HistoryHolds(worktree, head)
    BY <1>1, <1>5, <1>6, <2>1 DEF Undisturbed
  <2> QED  BY <1>1, <1>3, <1>4, <1>6, <2>1, <2>2, SameJudgement
           DEF Undisturbed, Validated, HasRead, Again
<1> QED  BY <1>1, <1>2, <1>4, <1>6, ProceedKeeps

(* It asks for the status and for HEAD.                                    *)
LEMMA AskStatusKeeps == IInv /\ AskStatus => IInv'
<1> SUFFICES ASSUME IInv, AskStatus PROVE IInv'
  OBVIOUS
<1> DEFINE l == At(IF Again THEN "clean" ELSE "prove")
           ok == EndsClean(local.docs, head, Clean)
<1>1. local.step = "status" /\ Proceed(ok, l)
  BY DEF AskStatus
<1>2. l \in LocalRuns
  BY <1>1, Running, LocalStates DEF At
<1>3. UNCHANGED <<commits, head, worktree>>
  BY <1>1 DEF Proceed, Follow
<1>4. /\ l.step = (IF Again THEN "clean" ELSE "prove") /\ l.head = local.head
      /\ l.read = local.read
  BY DEF At
<1>5. ok => EndsClean(local.docs, head, Clean)
  OBVIOUS
<1> HIDE DEF l, ok
<1>6. ASSUME ok, local' = l, ~touched PROVE Undisturbed'
  <2>1. Undisturbed
    BY <1>1, <1>6, Running
  <2>2. Validates(worktree, head, Clean)
    BY <1>1, <1>5, <1>6, <2>1 DEF Undisturbed, Validates
  <2>3. Again => local.read = Read(worktree)
    BY <1>1, <2>1 DEF Undisturbed, HasRead
  <2>4. ~Again => local.read = NoRead
    BY DEF Again
  <2> QED  BY <1>1, <1>3, <1>4, <1>6, <2>1, <2>2, <2>3, <2>4, SameJudgement
           DEF Undisturbed, Validated, HasRead, Again
<1> QED  BY <1>1, <1>2, <1>4, <1>6, ProceedKeeps

(* The probes are run.                                                     *)
LEMMA ProveLocalKeeps == IInv /\ ProveLocal => IInv'
<1> SUFFICES ASSUME IInv, ProveLocal PROVE IInv'
  OBVIOUS
<1> DEFINE l == At("adr")
<1>1. PICK ok : local.step = "prove" /\ Proceed(ok, l)
  BY DEF ProveLocal
<1>2. l \in LocalRuns
  BY <1>1, Running, LocalStates DEF At
<1>3. UNCHANGED <<commits, head, worktree>>
  BY <1>1 DEF Proceed, Follow
<1>4. l.step = "adr" /\ l.head = local.head /\ l.read = local.read
  BY DEF At
<1> HIDE DEF l
<1>5. ASSUME local' = l, ~touched PROVE Undisturbed'
  <2>1. Undisturbed
    BY <1>1, <1>5, Running
  <2> QED  BY <1>1, <1>3, <1>4, <1>5, <2>1, SameJudgement
           DEF Undisturbed, Validated, HasRead, Again
<1> QED  BY <1>1, <1>2, <1>4, <1>5, ProceedKeeps

(* The script reads the status of the ADR.                                 *)
LEMMA ReadAdrKeeps == IInv /\ ReadAdr => IInv'
<1> SUFFICES ASSUME IInv, ReadAdr PROVE IInv'
  OBVIOUS
<1> DEFINE l == [At("map") EXCEPT !.read.status = worktree.status]
<1>1. local.step = "adr" /\ Proceed(TRUE, l)
  BY DEF ReadAdr
<1>2. PICK read : read = [local.read EXCEPT !.status = worktree.status]
  OBVIOUS
<1>3. read \in Reads
  BY <1>1, <1>2, Running DEF Reads, Trees
<1>4. l = [step |-> "map", head |-> local.head, read |-> read]
  BY <1>2 DEF At
<1>5. l \in LocalRuns
  BY <1>1, <1>3, <1>4, Running, LocalStates
<1>6. UNCHANGED <<commits, head, worktree>>
  BY <1>1 DEF Proceed, Follow
<1>7. l.step = "map" /\ l.head = local.head /\ l.read = read
  BY <1>4
<1> HIDE DEF l
<1>8. ASSUME local' = l, ~touched PROVE Undisturbed'
  <2>1. Undisturbed
    BY <1>1, <1>8, Running
  <2>2. read = [NoRead EXCEPT !.status = worktree.status]
    BY <1>1, <1>2, <2>1 DEF Undisturbed
  <2> QED  BY <1>1, <1>6, <1>7, <1>8, <2>1, <2>2, SameJudgement
           DEF Undisturbed, Validated, HasRead, Again
<1> QED  BY <1>1, <1>5, <1>7, <1>8, ProceedKeeps

(* It reads the evidence map.                                              *)
LEMMA ReadMapKeeps == IInv /\ ReadMap => IInv'
<1> SUFFICES ASSUME IInv, ReadMap PROVE IInv'
  OBVIOUS
<1>1. PICK read : read = [local.read EXCEPT !.stage = worktree.stage]
  OBVIOUS
<1>2. PICK s \in {"load", "clean"} : s = IF Reconciled(read) THEN "load" ELSE "clean"
  OBVIOUS
<1>3. PICK l : l = [step |-> s, head |-> local.head, read |-> read]
  OBVIOUS
<1>4. local.step = "map" /\ Proceed(TRUE, l)
  BY <1>1, <1>2, <1>3 DEF ReadMap
<1>5. read \in Reads
  BY <1>1, <1>4, Running DEF Reads, Trees
<1>6. l \in LocalRuns
  BY <1>2, <1>3, <1>4, <1>5, Running, LocalStates
<1>7. UNCHANGED <<commits, head, worktree>>
  BY <1>4 DEF Proceed, Follow
<1>8. l.step = s /\ l.head = local.head /\ l.read = read
  BY <1>3
<1>9. ASSUME local' = l, ~touched PROVE Undisturbed'
  <2>1. Undisturbed
    BY <1>4, <1>9, Running
  <2>2. local.read = [NoRead EXCEPT !.status = worktree.status]
    BY <1>4, <2>1 DEF Undisturbed
  <2>3. read = Read(worktree)
    BY <1>1, <2>2 DEF NoRead, Read
  <2> QED  BY <1>2, <1>4, <1>7, <1>8, <1>9, <2>1, <2>3, SameJudgement
           DEF Undisturbed, Validated, HasRead, Again, Read
<1> QED  BY <1>4, <1>6, <1>8, <1>9, ProceedKeeps

(* git status must be empty.                                               *)
LEMMA CheckCleanKeeps == IInv /\ CheckClean => IInv'
<1> SUFFICES ASSUME IInv, CheckClean PROVE IInv'
  OBVIOUS
<1> DEFINE l == At("digest")
<1>1. local.step = "clean" /\ Proceed(Clean, l)
  BY DEF CheckClean
<1>2. l \in LocalRuns
  BY <1>1, Running, LocalStates DEF At
<1>3. UNCHANGED <<commits, head, worktree>>
  BY <1>1 DEF Proceed, Follow
<1>4. l.step = "digest" /\ l.head = local.head /\ l.read = local.read
  BY DEF At
<1> HIDE DEF l
<1>5. ASSUME Clean, local' = l, ~touched PROVE Undisturbed'
  <2>1. Undisturbed
    BY <1>1, <1>5, Running
  <2> QED  BY <1>1, <1>3, <1>4, <1>5, <2>1, SameJudgement
           DEF Undisturbed, Validated, HasRead, Again, Read
<1> QED  BY <1>1, <1>2, <1>4, <1>5, ProceedKeeps

(* The files are digested, after that look.                                *)
LEMMA DigestFilesKeeps == IInv /\ DigestFiles => IInv'
<1> SUFFICES ASSUME IInv, DigestFiles PROVE IInv'
  OBVIOUS
<1> DEFINE l == [step |-> "hosted", head |-> local.head, read |-> local.read, files |-> worktree]
<1>1. local.step = "digest" /\ Proceed(TRUE, l)
  BY DEF DigestFiles
<1>2. l \in LocalRuns
  BY <1>1, Running, LocalStates
<1>3. UNCHANGED <<commits, head, worktree>>
  BY <1>1 DEF Proceed, Follow
<1>4. l.step = "hosted" /\ l.head = local.head /\ l.read = local.read /\ l.files = worktree
  OBVIOUS
<1> HIDE DEF l
<1>5. ASSUME local' = l, ~touched PROVE Undisturbed'
  <2>1. Undisturbed
    BY <1>1, <1>5, Running
  <2> QED  BY <1>1, <1>3, <1>4, <1>5, <2>1, SameJudgement
           DEF Undisturbed, Validated, HasRead, Again, Read
<1> QED  BY <1>1, <1>2, <1>4, <1>5, ProceedKeeps

(* The evidence is written after the last check.                           *)
LEMMA WriteEvidenceKeeps == IInv /\ WriteEvidence => IInv'
<1> SUFFICES ASSUME IInv, WriteEvidence PROVE IInv'
  OBVIOUS
<1>1. /\ local.step = "hosted" /\ local' = Idle
      /\ UNCHANGED <<commits, head, worktree, runs, touched, slips>>
  BY DEF WriteEvidence, Follow
<1>2. CASE evidence' = evidence
  BY <1>1, <1>2, AbandonKeeps
<1>3. CASE /\ Reconciled(local.read) => HostedHolds(local.read)
           /\ evidence' = [manifest |-> Manifest(local.head, local.read, local.files, Pending),
                           read |-> local.read, touched |-> touched]
  <2>1. /\ local.head \in Commit /\ local.head \in DOMAIN commits /\ local.read \in Reads
        /\ local.files \in Trees
    BY <1>1, LocalFields DEF IInv, LocalSound
  <2>2. PICK x \in Manifests : x = Manifest(local.head, local.read, local.files, Pending)
    BY <2>1, ManifestTyped DEF Pending
  <2>3. x.commit = local.head /\ x.status = DecisionStatus(local.read) /\ x.files = local.files
    BY <2>2 DEF Manifest
  <2>4. evidence' = [manifest |-> x, read |-> local.read, touched |-> touched]
    BY <1>3, <2>2
  <2>5. evidence' \in Evidences
    <3>1. touched \in BOOLEAN
      BY DEF IInv, TypeOK
    <3> QED  BY <2>1, <2>4, <3>1 DEF Evidences
  <2>6. evidence'.manifest = x /\ evidence'.read = local.read /\ (evidence'.touched = touched)
    BY <2>4
  <2>7. local'.step = "idle" /\ local' \in LocalRuns
    BY <1>1, LocalStates DEF Idle
  <2>8. TypeOK'
    BY <1>1, <2>5, <2>7 DEF IInv, TypeOK
  <2>9. RunsSound'
    BY <1>1, HistoryAlone, RunsSoundKept DEF IInv
  <2>10. LocalSound'
    BY <2>7 DEF LocalSound
  <2>11. PICK t : t = Tree(local.head)
    OBVIOUS
  <2>12. ASSUME ~touched
         PROVE  /\ local.read = Read(t) /\ local.files = t
                /\ Reconciled(local.read) => Confirmed(t)
    <3>1. Undisturbed
      BY <1>1, <2>12, Running
    <3>2. worktree = t /\ head = local.head /\ Clean
      BY <1>1, <2>11, <3>1 DEF Undisturbed, Clean
    <3>3. local.read = Read(t) /\ local.files = t /\ Validates(t, head, Clean)
      BY <1>1, <3>1, <3>2 DEF Undisturbed, HasRead, Validated
    <3>4. t \in Trees /\ t.semantics = Tree(head).semantics
      BY <2>11, <3>2 DEF IInv, TypeOK
    <3>5. Reconciled(Read(t)) => Confirmed(t)
      BY <3>3, <3>4, ReconciliationValidated
    <3> QED  BY <3>3, <3>5
  <2>13. Reconciled(local.read) => Cited(local.read.stage)
    BY <1>3 DEF HostedHolds, Cited
  <2>14. (Confirmed(t) => Confirmed(t)') /\ t = commits'[local.head].tree
    BY <1>1, <2>11 DEF Confirmed, Tree
  <2>15. PICK g : g = local.read.stage
    OBVIOUS
  <2>16. Cited(g) => Cited(g)'
    BY <1>1 DEF Cited
  <2>17. g = evidence'.read.stage /\ (Reconciled(local.read) => Cited(g)')
    BY <2>6, <2>13, <2>15, <2>16
  <2>18. t = Tree(evidence.manifest.commit)'
    BY <2>3, <2>6, <2>14 DEF Tree
  <2>19. Reconciled(evidence'.read) => Cited(evidence.read.stage)'
    BY <2>6, <2>17
  <2>20. ~evidence'.touched => /\ evidence'.read = Read(t) /\ evidence'.manifest.files = t
                               /\ Reconciled(evidence'.read) => Confirmed(t)'
    BY <2>3, <2>6, <2>12, <2>14
  <2>21. EvidenceSound'
    <3>1. evidence'.manifest.commit \in DOMAIN commits'
      BY <1>1, <2>1, <2>3, <2>6
    <3>2. evidence'.manifest.status = DecisionStatus(evidence'.read)
      BY <2>3, <2>6
    <3>3. ~evidence'.touched => (Reconciled(evidence'.read) => Confirmed(Tree(evidence.manifest.commit))')
      BY <2>18, <2>20
    <3> QED  BY <2>18, <2>19, <2>20, <3>1, <3>2, <3>3 DEF EvidenceSound
  <2> QED  BY <2>8, <2>9, <2>10, <2>21 DEF IInv
<1> QED  BY <1>2, <1>3 DEF WriteEvidence
-----------------------------------------------------------------------------
(* Every step keeps the invariant.                                         *)
LEMMA StepKeeps == IInv /\ [Next]_vars => IInv'
<1> SUFFICES ASSUME IInv, [Next]_vars PROVE IInv'
  OBVIOUS
<1>1. CASE Protocol
  BY <1>1, RecordOwnersKeeps, RecordHostedKeeps, ReopenKeeps, MakeCommitKeeps DEF Protocol
<1>2. CASE RunOnPush
  <2>1. slips' \in 0..MaxSlips
    BY <1>2, SlipCounts DEF IInv, RunOnPush
  <2> QED  BY <1>2, <2>1, HostedRunKeeps DEF RunOnPush
<1>3. CASE Depart /\ ~RunOnPush
  BY <1>3, EditContentKeeps, MisrecordOwnersKeeps, MisrecordHostedKeeps, RewindKeeps,
     RestoreKeeps, ExpireKeeps
     DEF Depart
<1>4. CASE RunOnPullRequest
  <2>1. slips' \in 0..MaxSlips
    BY <1>4 DEF IInv, TypeOK, RunOnPullRequest
  <2>2. PICK c \in Commit : HostedRun(c, "pull_request")
    BY <1>4 DEF RunOnPullRequest
  <2> QED  BY <2>1, <2>2, HostedRunKeeps
<1>5. CASE BeginLocal \/ LocalStep
  BY <1>5, BeginLocalKeeps, LoadDocumentsKeeps, AskHistoryKeeps, AskStatusKeeps, ProveLocalKeeps,
     ReadAdrKeeps, ReadMapKeeps, CheckCleanKeeps, DigestFilesKeeps, WriteEvidenceKeeps
     DEF LocalStep
<1>6. CASE UNCHANGED vars
  <2>1. UNCHANGED <<commits, head, worktree, runs, local, evidence, touched, slips>>
    BY <1>6 DEF vars
  <2>2. LocalSound'
    BY <2>1, LocalAlone DEF IInv
  <2> QED  BY <2>1, <2>2, LocalKeeps DEF IInv, TypeOK
<1> QED  BY <1>1, <1>2, <1>3, <1>4, <1>5, <1>6 DEF Next, Depart

(* What hosted runs and the local run have established of the history      *)
(* stays true of it.                                                       *)
THEOREM InductiveInvariant == Spec => []IInv
  BY Initially, StepKeeps, PTL DEF Spec

(* What the hosted CI publishes as an accepted transition is the proposal  *)
(* that was reviewed, with nothing but its decision fields changed: for    *)
(* every history, however the author departs from the protocol.            *)
THEOREM TransitionsAreFrozen == Spec => []TransitionIsFrozen
<1>1. IInv => TransitionIsFrozen
  <2> SUFFICES ASSUME IInv, NEW r \in DOMAIN runs, runs[r].success,
                      runs[r].artifact.status = "ACCEPTED_TRANSITION"
      PROVE  LET a == runs[r].artifact
                 c == Tree(a.commit).owner.candidate
             IN  /\ c \in commits[a.commit].past \ {a.commit}
                 /\ Tree(c).status = "Proposed"
                 /\ SameDecision(c, a.commit)
    BY DEF TransitionIsFrozen, Published, IInv
  <2>1. PICK h : h = runs[r].commit
    OBVIOUS
  <2>2. runs[r].artifact = Manifest(h, Read(Tree(h)), Tree(h), r) /\ Sound(h)
    BY <2>1 DEF IInv, RunsSound, RunSound
  <2>3. runs[r].artifact.commit = h /\ DecisionStatus(Read(Tree(h))) = "ACCEPTED_TRANSITION"
    BY <2>2 DEF Manifest
  <2>4. Frozen(Tree(h), h)
    BY <2>2, <2>3 DEF Sound
  <2> QED  BY <2>3, <2>4 DEF Frozen, SameDecision
<1> QED  BY <1>1, InductiveInvariant, PTL

(* A run that is cited published a transition of the metadata commit.      *)
LEMMA CitedPublished ==
  ASSUME IInv, NEW stage, Cited(stage)
  PROVE  CitesTransition(stage) /\ Frozen(Tree(stage.metadata), stage.metadata)
<1>1. PICK r : r = stage.run
  OBVIOUS
<1>2. PICK m : m = stage.metadata
  OBVIOUS
<1>3. /\ r \in DOMAIN runs /\ runs[r].success /\ runs[r].commit = m
      /\ runs[r].artifact.status = "ACCEPTED_TRANSITION"
  BY <1>1, <1>2 DEF Cited
<1>4. runs[r].artifact = Manifest(m, Read(Tree(m)), Tree(m), r) /\ Sound(m)
  BY <1>3 DEF IInv, RunsSound, RunSound
<1>5. /\ runs[r].artifact.commit = m /\ runs[r].artifact.files = Tree(m)
      /\ runs[r].artifact.run = r /\ DecisionStatus(Read(Tree(m))) = "ACCEPTED_TRANSITION"
  BY <1>3, <1>4 DEF Manifest
<1>6. runs[r].artifact \in Published("ACCEPTED_TRANSITION")
  BY <1>3 DEF Published
<1>7. Frozen(Tree(m), m)
  BY <1>4, <1>5 DEF Sound
<1> QED  BY <1>1, <1>2, <1>5, <1>6, <1>7 DEF CitesTransition

(* A decision that is confirmed and cites a run that passed rests on the   *)
(* transition that run published.                                          *)
LEMMA CitedRests ==
  ASSUME IInv, NEW docs \in Trees, Confirmed(docs), Cited(docs.stage)
  PROVE  RestsOnTransition(docs)
<1>1. PICK m : m = docs.stage.metadata
  OBVIOUS
<1>2. PICK c : c = docs.owner.candidate
  OBVIOUS
<1>3. CitesTransition(docs.stage) /\ Frozen(Tree(m), m)
  BY <1>1, CitedPublished
<1>4. Tree(Tree(m).owner.candidate).body = Tree(m).body
  BY <1>3 DEF Frozen
<1>5. /\ Tree(c).status = "Proposed" /\ Tree(c).semantics = docs.semantics
      /\ Tree(c).body = docs.body /\ Tree(m).semantics = docs.semantics
  BY <1>1, <1>2 DEF Confirmed
<1>6. Tree(m).owner.candidate = c => Tree(m).body = docs.body
  BY <1>4, <1>5
<1> QED  BY <1>1, <1>2, <1>3, <1>5, <1>6 DEF RestsOnTransition

(* A decision published as reconciled by the hosted CI, or by a local run  *)
(* in a repository that was left alone, rests on a transition that was     *)
(* published; a local manifest that calls itself reconciled cites one even *)
(* when ADR and map changed between the processes that read them: for      *)
(* every history.                                                          *)
THEOREM EvidenceRestsOnRuns == Spec => []EvidenceIsVerified
<1>1. IInv => HostedIsVerified
  <2> SUFFICES ASSUME IInv, NEW r \in DOMAIN runs, runs[r].success,
                      runs[r].artifact.status = "ACCEPTED_RECONCILED"
      PROVE  LET a == runs[r].artifact IN
             /\ Tree(a.commit).stage.metadata \in commits[a.commit].past \ {a.commit}
             /\ RestsOnTransition(Tree(a.commit))
    BY DEF HostedIsVerified, Published
  <2>1. PICK h : h = runs[r].commit
    OBVIOUS
  <2>2. runs[r].artifact = Manifest(h, Read(Tree(h)), Tree(h), r) /\ Sound(h) /\ h \in DOMAIN commits
    BY <2>1 DEF IInv, RunsSound, RunSound
  <2>3. runs[r].artifact.commit = h /\ DecisionStatus(Read(Tree(h))) = "ACCEPTED_RECONCILED"
    BY <2>2 DEF Manifest
  <2>4. Confirmed(Tree(h)) /\ Cited(Tree(h).stage) /\ Tree(h).stage.metadata \in commits[h].past \ {h}
    BY <2>2, <2>3 DEF Sound
  <2>5. Tree(h) \in Trees
    BY <2>2, Rows DEF IInv
  <2>6. RestsOnTransition(Tree(h))
    BY <2>4, <2>5, CitedRests
  <2> QED  BY <2>3, <2>4, <2>6
<1>2. IInv => LocalIsVerified
  <2> SUFFICES ASSUME IInv, evidence # None
      PROVE  LET x == evidence.manifest
                 t == Tree(x.commit)
             IN  /\ x.status = "ACCEPTED_RECONCILED" => CitesTransition(evidence.read.stage)
                 /\ ~evidence.touched =>
                      /\ x.files = t /\ x.status = DecisionStatus(Read(t))
                      /\ x.status = "ACCEPTED_RECONCILED" => RestsOnTransition(t)
    BY DEF LocalIsVerified
  <2>1. PICK x : x = evidence.manifest
    OBVIOUS
  <2>2. PICK t : t = Tree(x.commit)
    OBVIOUS
  <2>3. x.commit \in DOMAIN commits /\ x.status = DecisionStatus(evidence.read)
    BY <2>1 DEF IInv, EvidenceSound
  <2>4. t \in Trees
    BY <2>2, <2>3, Rows DEF IInv
  <2>5. x.status = "ACCEPTED_RECONCILED" => Cited(evidence.read.stage)
    BY <2>3, Stage DEF IInv, EvidenceSound
  <2>6. x.status = "ACCEPTED_RECONCILED" => CitesTransition(evidence.read.stage)
    BY <2>5, CitedPublished
  <2>7. ~evidence.touched => evidence.read = Read(t) /\ x.files = t
    BY <2>1, <2>2 DEF IInv, EvidenceSound
  <2>8. ~evidence.touched /\ x.status = "ACCEPTED_RECONCILED" => Confirmed(t)
    BY <2>1, <2>2, <2>3, Stage DEF IInv, EvidenceSound
  <2>9. ~evidence.touched /\ x.status = "ACCEPTED_RECONCILED" => RestsOnTransition(t)
    BY <2>4, <2>5, <2>7, <2>8, ReadFields, CitedRests
  <2> QED  BY <2>1, <2>2, <2>3, <2>6, <2>7, <2>9
<1> QED  BY <1>1, <1>2, InductiveInvariant, PTL DEF EvidenceIsVerified

(* No probe of the fail-closed prover survives at any commit, whatever the *)
(* author has recorded: the hosted run of a valid decision never fails for *)
(* it.                                                                     *)
THEOREM ProbesAreRefused == Spec => []ProbesKillAtEveryStage
<1>1. IInv => ProbesKillAtEveryStage
  BY Rows, ProbesRefused DEF IInv, ProbesKillAtEveryStage
<1> QED  BY <1>1, InductiveInvariant, PTL
=============================================================================
