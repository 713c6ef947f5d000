--------------------------- MODULE RepositoryProof ---------------------------
(***************************************************************************)
(* How the repository proves a revision of itself.  verify-ci.mjs runs the *)
(* verification gates in order; one of them,                               *)
(* prove-gates-fail-closed.mjs, writes faults into the very working tree   *)
(* the gates read, to show that each gate fails.  Other gates, and         *)
(* aico-005-provider-runtime-proof.mjs around all of them, are exact-SHA   *)
(* proofs: they want a clean tree, run an integration proof and a mutation *)
(* prover on a copy, and retain a manifest that names the commit.  All of  *)
(* it happens in one working tree, without a lock, while an author edits   *)
(* and commits and a colleague verifies in another terminal; any run can   *)
(* be killed.                                                              *)
(*                                                                         *)
(* A tree is what the scripts tell apart: the text of the boundary         *)
(* document, whether a fault is written over it, and the controls missing  *)
(* from the proofs' sources.  Of the 22 gates those are kept that differ   *)
(* in what they read or change: format stands for install, governance,     *)
(* audit, compose-config, images, lint, typecheck, unit-contract and       *)
(* build, sandbox-proof for policy-approval-proof, http-smoke for the      *)
(* other gates that need the services.                                     *)
(***************************************************************************)
EXTENDS Naturals, Sequences, FiniteSets

CONSTANTS
  Prover,      \* the terminal that runs the provider-runtime proof
  Colleagues,  \* the terminals that run verify:ci
  None, Dead,
  Controls,    \* number of controls, hence of source mutations
  MaxCommits,  \* bound: commits
  MaxSlips     \* bound: edits, commits, kills, tool failures and colleagues' runs

ASSUME ProofConstants ==
  /\ Prover \notin Colleagues /\ None # Dead /\ {None, Dead} \cap ({Prover} \cup Colleagues) = {}
  /\ Controls \in Nat \ {0} /\ MaxCommits \in Nat \ {0} /\ MaxSlips \in Nat

VARIABLES
  commits,    \* sequence of committed trees
  head,
  work,       \* tracked files of the working tree
  faults,     \* untracked fault files, as <<owner, gate>>
  abandoned,  \* history: the fault in the boundary document has no owner left to undo it
  ports,      \* the run whose containers hold the host's ports, Dead or None
  job,
  manifest,   \* .aico-evidence
  slips

vars == <<commits, head, work, faults, abandoned, ports, job, manifest, slips>>

Job     == {Prover} \cup Colleagues
Control == 1..Controls
NoText  == 2

verificationGates ==
  <<"architecture", "provider-decision-evidence", "fail-closed", "format",
    "sandbox-proof", "preview-proof", "dependencies", "http-smoke">>

Ended == {"idle", "passed", "failed", "killed"}
Phase == Ended \cup {"gate", "down", "probe", "expect", "cleanup", "integration", "copy", "mutate",
                     "judge", "scrap", "digest", "write", "revision", "head", "status"}
GateNumber == DOMAIN verificationGates
Text == {0, 1}
Levels == {"preview", "provider"}

TreeRow == [text : Text, faulty : BOOLEAN, missing : SUBSET Control]
ProofRow == [sha : Nat, strayed : BOOLEAN, missed : BOOLEAN]
JobRow ==
  [pc : Phase, ok : BOOLEAN, gate : GateNumber, probe : GateNumber, original : Text \cup {NoText},
   active : BOOLEAN, proof : {"none", "sandbox-proof", "preview-proof", "provider"},
   preview : ProofRow, provider : ProofRow,
   onward : {"none", "integration", "digest", "write", "passed"},
   copy : SUBSET Control, mutant : 1..(Controls + 1), scratch : BOOLEAN]

NoProof == [sha |-> 0, strayed |-> FALSE, missed |-> FALSE]

Fresh ==
  [pc |-> "idle", ok |-> TRUE, gate |-> 1, probe |-> 1, original |-> NoText, active |-> FALSE,
   proof |-> "none", preview |-> NoProof, provider |-> NoProof, onward |-> "none",
   copy |-> {}, mutant |-> 1, scratch |-> FALSE]

FirstTree == [text |-> 0, faulty |-> FALSE, missing |-> {}]

Init ==
  /\ commits = <<FirstTree>> /\ head = 1 /\ work = FirstTree
  /\ faults = {} /\ abandoned = FALSE /\ ports = None
  /\ job = [j \in Job |-> Fresh]
  /\ manifest = [l \in Levels |-> NoProof]
  /\ slips = 0

Running(j) == job[j].pc \notin Ended
Slip == slips < MaxSlips /\ slips' = slips + 1

Clean == work = commits[head] /\ faults = {}

(* Mutant of HeadStands: HEAD is not looked at.                            *)
HeadStandsAnyhow(sha) == TRUE

HeadStands(sha) == head = sha
-----------------------------------------------------------------------------
(* What a proof's steps have seen.  It strayed if the tree it read was not *)
(* the one of its commit; missed says that its checks cannot see that any  *)
(* more: the tree was brought back to that commit since, or HEAD moved     *)
(* between a check's question for HEAD and its question for the tree.      *)
Off(sha, tracked, untracked) == tracked # commits[sha] \/ untracked # {}

Looked(p) ==
  IF p.sha = 0 THEN p ELSE [p EXCEPT !.strayed = @ \/ Off(p.sha, work, faults)]
Looking(r) == [r EXCEPT !.preview = Looked(@), !.provider = Looked(@)]

Overtaken(p, tracked, untracked) ==
  IF p.strayed /\ Off(p.sha, work, faults) /\ ~Off(p.sha, tracked, untracked)
    THEN [p EXCEPT !.missed = TRUE] ELSE p
Overtaking(r, tracked, untracked) ==
  [r EXCEPT !.preview = Overtaken(@, tracked, untracked),
            !.provider = Overtaken(@, tracked, untracked)]

Slipped(p) == IF p.strayed THEN [p EXCEPT !.missed = TRUE] ELSE p
HeadMoved(r) ==
  IF r.pc # "status" THEN r
  ELSE IF r.proof = "provider" THEN [r EXCEPT !.provider = Slipped(@)]
  ELSE [r EXCEPT !.preview = Slipped(@)]

(* The tree becomes that, under every run; j's goes on as r.               *)
Writes(j, tracked, untracked, r) ==
  /\ work' = tracked /\ faults' = untracked
  /\ job' = [k \in Job |-> Overtaking(IF k = j THEN r ELSE job[k], tracked, untracked)]

Becomes(j, r) == job' = [job EXCEPT ![j] = r]

At(j, pc) == job[j].pc = pc
Gate(j) == verificationGates[job[j].gate]
Probe(j) == verificationGates[job[j].probe]

(* The loop over the gates: on to the next, or to the finally block.       *)
GatePassed(r) ==
  IF r.gate = Len(verificationGates) THEN [r EXCEPT !.pc = "down", !.ok = TRUE]
  ELSE [r EXCEPT !.pc = "gate", !.gate = @ + 1, !.ok = TRUE]
GateFailed(r) == [r EXCEPT !.pc = "down", !.ok = FALSE]
Goto(r, pc) == [r EXCEPT !.pc = pc]
Exit(r, pass) ==
  [Fresh EXCEPT !.pc = IF pass THEN "passed" ELSE "failed", !.scratch = r.scratch]
-----------------------------------------------------------------------------
(* Commands.  The commit is asked for after the tree was found clean, in   *)
(* another process.                                                        *)
StartProver(j) ==
  /\ j = Prover /\ ~Running(j)
  /\ IF Clean
       THEN Becomes(j, Goto(Fresh, "revision"))
       ELSE Becomes(j, Exit(Fresh, FALSE))
  /\ UNCHANGED <<commits, head, work, faults, abandoned, ports, manifest, slips>>

ReadRevision(j) ==
  /\ At(j, "revision")
  /\ Becomes(j, IF job[j].proof = "preview-proof"
                  THEN [job[j] EXCEPT !.pc = "integration", !.preview = [NoProof EXCEPT !.sha = head]]
                  ELSE [job[j] EXCEPT !.pc = "gate", !.provider = [NoProof EXCEPT !.sha = head]])
  /\ UNCHANGED <<commits, head, work, faults, abandoned, ports, manifest, slips>>

StartVerify(j) ==
  /\ j \in Colleagues /\ ~Running(j) /\ Slip
  /\ Becomes(j, Goto(Fresh, "gate"))
  /\ UNCHANGED <<commits, head, work, faults, abandoned, ports, manifest>>

(* verify-ci.mjs: the gates that only read.  A gate may or may not notice  *)
(* an edit the gates know nothing of.                                      *)
Hit(j, gate) ==
  \/ gate = "architecture" /\ work.faulty
  \/ gate = "provider-decision-evidence" /\ ~Clean
  \/ gate = "format" /\ \E f \in faults : f[2] = gate
  \/ gate = "http-smoke" /\ ports # j

GateOutcomes(j, gate) ==
  IF Hit(j, gate) THEN {FALSE}
  ELSE IF Clean /\ work.missing = {} THEN {TRUE} ELSE BOOLEAN

ReadingGate(j) ==
  /\ At(j, "gate")
  /\ Gate(j) \in {"architecture", "provider-decision-evidence", "format", "http-smoke"}
  /\ \E pass \in GateOutcomes(j, Gate(j)) :
       LET r == Looking(job[j]) IN Becomes(j, IF pass THEN GatePassed(r) ELSE GateFailed(r))
  /\ UNCHANGED <<commits, head, work, faults, abandoned, ports, manifest, slips>>

DependenciesGate(j) ==
  /\ At(j, "gate") /\ Gate(j) = "dependencies"
  /\ \/ /\ ports = None /\ ports' = j
        /\ Becomes(j, GatePassed(job[j])) /\ UNCHANGED slips
     \/ /\ ports # None /\ UNCHANGED ports
        /\ Becomes(j, GateFailed(job[j])) /\ UNCHANGED slips
     \/ /\ Slip /\ ports' = IF ports = None THEN j ELSE ports
        /\ Becomes(j, GateFailed(job[j]))
  /\ UNCHANGED <<commits, head, work, faults, abandoned, manifest>>

Released(j) == IF ports = j THEN None ELSE ports

(* The repository is about to be checked; if it stands, the run goes on to *)
(* that phase.                                                             *)
Check(r, onward) == [r EXCEPT !.pc = "head", !.onward = onward]

(* The end of verify:ci, on its own or within the provider-runtime proof.  *)
Verified(j, pass) ==
  IF j = Prover /\ pass THEN Check([job[j] EXCEPT !.proof = "provider"], "integration")
  ELSE Exit(job[j], pass)

ComposeDown(j) ==
  /\ At(j, "down")
  /\ \/ /\ ports' = Released(j) /\ UNCHANGED slips
        /\ Becomes(j, Verified(j, job[j].ok))
     \/ /\ Slip /\ ports' = IF ports = j THEN Dead ELSE ports
        /\ Becomes(j, Verified(j, FALSE))
  /\ UNCHANGED <<commits, head, work, faults, abandoned, manifest>>
-----------------------------------------------------------------------------
(* prove-gates-fail-closed.mjs.                                            *)
FailClosedGate(j) ==
  /\ At(j, "gate") /\ Gate(j) = "fail-closed"
  /\ Becomes(j, [job[j] EXCEPT !.pc = "probe", !.probe = 1, !.original = NoText,
                               !.active = FALSE, !.scratch = TRUE])
  /\ UNCHANGED <<commits, head, work, faults, abandoned, ports, manifest, slips>>

Writing == {"architecture", "format", "sandbox-proof"}

Kept(j) == [job[j] EXCEPT !.original = work.text]

InjectFault(j) ==
  /\ At(j, "probe") /\ Probe(j) \in Writing
  /\ IF Probe(j) # "architecture"
       THEN Writes(j, work, faults \cup {<<j, Probe(j)>>}, Goto(job[j], "expect"))
       ELSE IF work.faulty
         THEN Becomes(j, [Kept(j) EXCEPT !.pc = "cleanup", !.ok = FALSE])
              /\ UNCHANGED <<work, faults>>
         ELSE Writes(j, [work EXCEPT !.faulty = TRUE], faults,
                     [Kept(j) EXCEPT !.pc = "expect", !.active = TRUE])
  /\ UNCHANGED <<commits, head, abandoned, ports, manifest, slips>>

(* The gate fails, and for the reason the fault gives it.                  *)
FailsAsIntended(gate) ==
  CASE gate = "architecture" -> work.faulty
    [] gate = "format" -> \E f \in faults : f[2] = gate
    [] gate \in {"sandbox-proof", "preview-proof"} -> ~Clean
    [] OTHER -> TRUE

(* Mutant of Withdrawn: the sentinel is removed after its first probe.     *)
WithdrawnEarly(j, gate) ==
  CASE gate = "format" -> faults \ {<<j, gate>>}
    [] gate = "sandbox-proof" -> faults \ {<<j, "sandbox-proof">>}
    [] OTHER -> faults

(* The fault files once the probe of gate is over.  One sentinel serves    *)
(* the two proofs that refuse a dirty tree.                                *)
Withdrawn(j, gate) ==
  CASE gate = "format" -> faults \ {<<j, gate>>}
    [] gate = "preview-proof" -> faults \ {<<j, "sandbox-proof">>}
    [] OTHER -> faults

Restored(j) == [work EXCEPT !.text = job[j].original, !.faulty = FALSE]

ProbePassed(r) ==
  IF r.probe = Len(verificationGates) THEN Goto(r, "cleanup")
  ELSE [r EXCEPT !.pc = "probe", !.probe = @ + 1]

ExpectFailure(j) ==
  /\ \/ At(j, "expect")
     \/ At(j, "probe") /\ Probe(j) \notin Writing
  /\ \/ /\ FailsAsIntended(Probe(j)) /\ UNCHANGED slips
        /\ Writes(j, IF Probe(j) = "architecture" THEN Restored(j) ELSE work,
                  Withdrawn(j, Probe(j)),
                  ProbePassed([job[j] EXCEPT !.active = FALSE]))
        /\ abandoned' = (abandoned /\ work'.faulty)
     \/ /\ UNCHANGED <<faults, work, abandoned>>
        /\ IF FailsAsIntended(Probe(j)) THEN Slip ELSE UNCHANGED slips
        /\ Becomes(j, [job[j] EXCEPT !.pc = "cleanup", !.ok = FALSE])
  /\ UNCHANGED <<commits, head, ports, manifest>>

(* Mutant of Undone: an interrupted architecture probe leaves its fault.   *)
UndoneFilesOnly(j) == work

Undone(j) == IF job[j].active THEN Restored(j) ELSE work

(* After the cleanup the boundary document must read as it was read.       *)
CleanedUp(j) ==
  job[j].original # NoText => Undone(j).text = job[j].original /\ ~Undone(j).faulty

Own(j) == {f \in faults : f[1] = j}
Bequeathed(j) == (faults \ Own(j)) \cup {<<Dead, f[2]>> : f \in Own(j)}

Cleanup(j) ==
  LET done == [job[j] EXCEPT !.active = FALSE, !.original = NoText, !.scratch = FALSE,
                             !.probe = 1] IN
  /\ At(j, "cleanup")
  /\ Writes(j, Undone(j), faults \ Own(j),
            IF job[j].ok /\ CleanedUp(j) THEN GatePassed(done) ELSE GateFailed(done))
  /\ abandoned' = (abandoned /\ work'.faulty)
  /\ UNCHANGED <<commits, head, ports, manifest, slips>>

(* A removal fails: the other cleanups still run, and the run reports it.  *)
(* What it could not remove, the temporary workspace included, is nobody's *)
(* from then on.                                                           *)
CleanupFails(j) ==
  LET done == [job[j] EXCEPT !.active = FALSE, !.original = NoText, !.scratch = FALSE,
                             !.probe = 1] IN
  /\ At(j, "cleanup") /\ Slip
  /\ \/ Own(j) # {} /\ Writes(j, Undone(j), Bequeathed(j), GateFailed(done))
     \/ job[j].active /\ Writes(j, work, faults \ Own(j), GateFailed(done))
     \/ Writes(j, Undone(j), faults \ Own(j), GateFailed(done))
  /\ abandoned' = (work'.faulty /\ (abandoned \/ job[j].active))
  /\ UNCHANGED <<commits, head, ports, manifest>>
-----------------------------------------------------------------------------
(* The exact-SHA proofs: sandbox-proof and preview-proof as gates, the     *)
(* provider-runtime proof around the gates.                                *)
ProofGate(j) ==
  /\ At(j, "gate")
  /\ Gate(j) \in {"sandbox-proof", "preview-proof"}
  /\ LET r == Looking(job[j])
         pc == IF Gate(j) = "preview-proof" THEN "revision" ELSE "integration"
     IN  Becomes(j, IF Clean THEN [r EXCEPT !.pc = pc, !.proof = Gate(j)] ELSE GateFailed(r))
  /\ UNCHANGED <<commits, head, work, faults, abandoned, ports, manifest, slips>>

ProofFailed(r) ==
  IF r.proof = "provider" THEN Exit(r, FALSE)
  ELSE GateFailed([r EXCEPT !.proof = "none", !.preview = NoProof, !.onward = "none"])

Level(j) == IF job[j].proof = "provider" THEN "provider" ELSE "preview"

(* assertRepositoryUnchanged, and the like of preview-proof.mjs: git is    *)
(* asked for HEAD and then, in another process, for the tree's status; the *)
(* status is that of the tree against whatever HEAD is by then.            *)
AskHead(j) ==
  /\ At(j, "head")
  /\ Becomes(j, IF HeadStands(job[j][Level(j)].sha) THEN Goto(job[j], "status")
                  ELSE ProofFailed(job[j]))
  /\ UNCHANGED <<commits, head, work, faults, abandoned, ports, manifest, slips>>

Checked(r) ==
  IF r.onward = "passed" THEN Exit(r, TRUE)
  ELSE [r EXCEPT !.pc = r.onward, !.onward = "none"]

AskStatus(j) ==
  /\ At(j, "status")
  /\ Becomes(j, IF Clean THEN Checked(job[j]) ELSE ProofFailed(job[j]))
  /\ UNCHANGED <<commits, head, work, faults, abandoned, ports, manifest, slips>>

IntegrationGreen == work.missing = {}

Integration(j) ==
  LET r == Looking(job[j]) IN
  /\ At(j, "integration")
  /\ Becomes(j, IF IntegrationGreen THEN Goto(r, "copy") ELSE ProofFailed(r))
  /\ UNCHANGED <<commits, head, work, faults, abandoned, ports, manifest, slips>>

(* The mutation prover: an isolated copy, a green baseline, then one       *)
(* control at a time.                                                      *)
CopyAndBaseline(j) ==
  LET r == [Looking(job[j]) EXCEPT !.copy = work.missing, !.scratch = TRUE, !.mutant = 1,
                                   !.ok = work.missing = {}]
  IN  /\ At(j, "copy")
      /\ Becomes(j, Goto(r, IF r.ok THEN "mutate" ELSE "scrap"))
      /\ UNCHANGED <<commits, head, work, faults, abandoned, ports, manifest, slips>>

ApplyExactlyOnce(j) ==
  /\ At(j, "mutate")
  /\ Becomes(j, IF job[j].mutant \in job[j].copy
                  THEN [job[j] EXCEPT !.pc = "scrap", !.ok = FALSE]
                  ELSE [job[j] EXCEPT !.pc = "judge", !.copy = @ \cup {job[j].mutant}])
  /\ UNCHANGED <<commits, head, work, faults, abandoned, ports, manifest, slips>>

(* Mutant of RestoredCopy: the mutated source stays in the copy.           *)
RestoredCopyNot(r) == r.copy

RestoredCopy(r) == r.copy \ {r.mutant}

(* Mutant of NextMutant: the loop stays where it is.                       *)
NextMutantSame(r) == r.mutant

NextMutant(r) == r.mutant + 1

(* A mutant that survives is noted; the others are still run.              *)
JudgeMutant(j) ==
  LET r == [job[j] EXCEPT !.copy = RestoredCopy(job[j]), !.mutant = NextMutant(job[j]),
                          !.pc = IF NextMutant(job[j]) > Controls THEN "scrap" ELSE "mutate"]
  IN  /\ At(j, "judge")
      /\ \/ UNCHANGED slips /\ Becomes(j, r)
         \/ Slip /\ Becomes(j, [r EXCEPT !.ok = FALSE])
      /\ UNCHANGED <<commits, head, work, faults, abandoned, ports, manifest>>

(* The copy is removed, or cannot be, which fails the proof.  The          *)
(* provider-runtime prover also compares the sources it copied with what   *)
(* the repository has now.                                                 *)
RemoveCopy(j) ==
  LET r == [job[j] EXCEPT !.copy = {}, !.scratch = FALSE, !.mutant = 1] IN
  /\ At(j, "scrap")
  /\ \/ UNCHANGED slips
        /\ Becomes(j, IF ~r.ok \/ (r.proof = "provider" /\ work.missing # {}) THEN ProofFailed(r)
                      ELSE CASE r.proof = "preview-proof" -> Goto(r, "digest")
                             [] r.proof = "provider" -> Check(r, "digest")
                             [] OTHER -> GatePassed([r EXCEPT !.proof = "none"]))
     \/ Slip /\ Becomes(j, ProofFailed(r))
  /\ UNCHANGED <<commits, head, work, faults, abandoned, ports, manifest>>

DigestFiles(j) ==
  /\ At(j, "digest")
  /\ Becomes(j, Check(Looking(job[j]), "write"))
  /\ UNCHANGED <<commits, head, work, faults, abandoned, ports, manifest, slips>>

(* Only the provider-runtime proof looks again after it has written; what  *)
(* it wrote stays there if it then fails.                                  *)
WriteManifest(j) ==
  /\ At(j, "write")
  /\ manifest' = [manifest EXCEPT ![Level(j)] = job[j][Level(j)]]
  /\ Becomes(j, IF Level(j) = "provider" THEN Check(job[j], "passed")
                ELSE GatePassed([job[j] EXCEPT !.proof = "none", !.preview = NoProof]))
  /\ UNCHANGED <<commits, head, work, faults, abandoned, ports, slips>>
-----------------------------------------------------------------------------
(* The run and everything it spawned are killed, finally blocks included.  *)
Kill(j) ==
  /\ Running(j) /\ Slip
  /\ Writes(j, work, Bequeathed(j), Goto(Fresh, "killed"))
  /\ abandoned' = (abandoned \/ (job[j].active /\ work.faulty))
  /\ ports' = IF ports = j THEN Dead ELSE ports
  /\ UNCHANGED <<commits, head, manifest>>

(* The author.                                                             *)
Tree(t) ==
  /\ Writes(None, t, faults, Fresh)
  /\ abandoned' = (t.faulty /\ (abandoned \/ ~work.faulty))
  /\ UNCHANGED <<ports, manifest>>

(* The boundary document is edited, or the last control is taken out or    *)
(* put back: the one the mutation prover would come to last, if it were    *)
(* copied without one.                                                     *)
Edit ==
  /\ Slip
  /\ \/ Tree([work EXCEPT !.text = 1 - @])
     \/ Tree([work EXCEPT !.missing = IF @ = {} THEN {Controls} ELSE {}])
  /\ UNCHANGED <<commits, head>>

CommitAll ==
  /\ Slip /\ Len(commits) < MaxCommits /\ work # commits[head]
  /\ commits' = Append(commits, work) /\ head' = Len(commits')
  /\ job' = [k \in Job |-> HeadMoved(job[k])]
  /\ UNCHANGED <<work, faults, abandoned, ports, manifest>>

Checkout(c) ==
  /\ Slip /\ c # head /\ head' = c
  /\ work' = commits[c] /\ job' = [k \in Job |-> Overtaking(HeadMoved(job[k]), commits[c], faults)]
  /\ abandoned' = (commits[c].faulty /\ (abandoned \/ ~work.faulty))
  /\ UNCHANGED <<commits, faults, ports, manifest>>

Discard ==
  /\ \/ work.text # commits[head].text \/ work.missing # commits[head].missing
     \/ abandoned /\ work # commits[head]
  /\ Tree(commits[head]) /\ UNCHANGED <<commits, head, slips>>

(* What a killed run left is recognised by its process id, and removed.    *)
SweepResidue ==
  /\ (\E f \in faults : f[1] = Dead) \/ ports = Dead
  /\ Writes(None, work, {f \in faults : f[1] # Dead}, Fresh)
  /\ ports' = IF ports = Dead THEN None ELSE ports
  /\ UNCHANGED <<commits, head, abandoned, manifest, slips>>
-----------------------------------------------------------------------------
Verify(j) ==
  ReadingGate(j) \/ DependenciesGate(j) \/ ComposeDown(j)

FaultProof(j) ==
  FailClosedGate(j) \/ InjectFault(j) \/ ExpectFailure(j) \/ Cleanup(j)

Proof(j) ==
  \/ ProofGate(j) \/ ReadRevision(j) \/ Integration(j) \/ CopyAndBaseline(j)
  \/ ApplyExactlyOnce(j) \/ JudgeMutant(j) \/ RemoveCopy(j) \/ DigestFiles(j)
  \/ AskHead(j) \/ AskStatus(j) \/ WriteManifest(j)

Step(j) == Verify(j) \/ FaultProof(j) \/ Proof(j)

Author == Edit \/ CommitAll \/ (\E c \in DOMAIN commits : Checkout(c)) \/ Discard \/ SweepResidue

Next ==
  \/ \E j \in Job : StartProver(j) \/ StartVerify(j) \/ Step(j) \/ CleanupFails(j) \/ Kill(j)
  \/ Author

Spec == Init /\ [][Next]_vars

(* A run that is not killed goes on: the commands it waits for end, and    *)
(* one that hangs is a run that will be killed.  The proof is started      *)
(* again until it passes, and the author puts the tree in order.           *)
FairSpec ==
  /\ Spec
  /\ \A j \in Job : WF_vars(Running(j) /\ Step(j))
  /\ WF_vars(StartProver(Prover)) /\ WF_vars(Discard) /\ WF_vars(SweepResidue)
-----------------------------------------------------------------------------
(* The type invariant; a source mutation runs only in a scratch copy, and  *)
(* a fault that is to be undone is known with the text to put back.        *)
TypeOK ==
  /\ commits \in Seq(TreeRow) /\ head \in DOMAIN commits /\ Len(commits) <= MaxCommits
  /\ work \in TreeRow /\ manifest \in [Levels -> ProofRow]
  /\ faults \subseteq (Job \cup {Dead}) \X Writing
  /\ abandoned \in BOOLEAN /\ ports \in Job \cup {None, Dead} /\ slips \in 0..MaxSlips
  /\ job \in [Job -> JobRow]
  /\ \A j \in Job :
       /\ job[j].preview.sha \in 0..Len(commits) /\ job[j].provider.sha \in 0..Len(commits)
       /\ job[j].copy # {} => job[j].scratch
       /\ job[j].active => job[j].original # NoText

(* Evidence is of the commit it names: everything that a proof with a      *)
(* retained manifest read of the tree, gates, integration run, copy and    *)
(* digests, was that commit, and that commit has all its controls and an   *)
(* intact boundary document.  There are two ways around it.  A tree that   *)
(* was read while it was off may be brought back before the next check;    *)
(* and a check asks git twice, so that what was off may be committed, or   *)
(* another commit checked out, between the two questions: the status is    *)
(* clean again, although not against the commit that the manifest names.   *)
ManifestIsExact ==
  \A l \in DOMAIN manifest : manifest[l].sha # 0 /\ ~manifest[l].missed =>
    /\ ~manifest[l].strayed
    /\ commits[manifest[l].sha].missing = {}
    /\ l = "provider" => ~commits[manifest[l].sha].faulty

(* The verification does not stand in its own way: the faults it writes    *)
(* into the tree, the services it starts and what earlier runs did never   *)
(* make a run fail that nobody disturbed.                                  *)
UndisturbedPasses == slips = 0 => \A j \in Job : job[j].pc # "failed"

(* A run that ends by itself, well or not, has removed its fault files,    *)
(* put the boundary document back, stopped its services and deleted its    *)
(* copies, or is the one that reported that it could not; and the          *)
(* variables have their types.                                             *)
EndedLeavesNothing ==
  /\ TypeOK
  /\ \A j \in Job : job[j].pc \in Ended => Own(j) = {} /\ ports # j /\ ~job[j].scratch
  /\ work.faulty /\ ~abandoned => (\E j \in Job : job[j].active) \/ commits[head].faulty

(* A mutant is judged in a copy in which its control alone is missing: the *)
(* failure that kills it is due to it, not to an edit that was copied too  *)
(* or to the mutant before it.                                             *)
MutantsAreIsolated == \A j \in Job : At(j, "judge") => job[j].copy = {job[j].mutant}

(* Whatever was edited, killed or left behind: if in the end HEAD is a     *)
(* sound commit, the provider-runtime proof comes to pass.                 *)
Sound(c) == c.missing = {} /\ ~c.faulty
ProofPasses == (<>[]Sound(commits[head])) => <>(job[Prover].pc = "passed")
=============================================================================
