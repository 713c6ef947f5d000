------------------------ MODULE RepositoryProofProofs ------------------------
(***************************************************************************)
(* Theorems about RepositoryProof, for any number of colleagues, controls, *)
(* commits and slips: what a run leaves behind, that mutants are judged    *)
(* alone, what a retained manifest is evidence of, and that a run nobody   *)
(* disturbs does not fail.                                                 *)
(***************************************************************************)
EXTENDS RepositoryProof, TLAPS
-----------------------------------------------------------------------------
(* What a run's record says by its phase: scratch directories and faults   *)
(* exist only in the phases that remove them, and the copy of the mutation *)
(* prover is intact or lacks the mutant's control alone.                   *)
Faulting == {"probe", "expect", "cleanup"}
Copied   == {"mutate", "judge", "scrap"}
Asking   == {"head", "status"}

RowFits(r) ==
  /\ r.scratch => r.pc \in Faulting \cup Copied
  /\ r.pc \in Copied => r.scratch
  /\ r.copy # {} => r.pc \in Copied
  /\ r.active => r.pc \in {"expect", "cleanup"} /\ r.probe = 1 /\ r.original # NoText
  /\ r.pc = "expect" /\ r.probe = 1 => r.active
  /\ r.pc = "mutate" => r.copy = {} /\ r.mutant \in Control
  /\ r.pc = "judge" => r.copy = {r.mutant} /\ r.mutant \in Control
  /\ r.pc \in Asking => r.onward # "none"
  /\ r.pc = "revision" /\ r.proof # "preview-proof" => r.gate = 1

(* The phases in which a run may have services up.                         *)
Serving(r) == r.pc = "down" \/ (r.pc = "gate" /\ r.gate = 8)

JobFits(j) ==
  /\ RowFits(job[j])
  /\ Own(j) # {} => job[j].pc \in Faulting
  /\ ports = j => Serving(job[j])

Named(r) == r.preview.sha \in 0..Len(commits) /\ r.provider.sha \in 0..Len(commits)

(* The inductive invariant: types, every run's record, and a fault in the  *)
(* boundary document that somebody knows of.                               *)
FaultType == (Job \cup {Dead}) \X Writing

TreeOK ==
  /\ commits \in Seq(TreeRow) /\ head \in DOMAIN commits /\ Len(commits) <= MaxCommits
  /\ work \in TreeRow /\ manifest \in [Levels -> ProofRow]
  /\ faults \subseteq FaultType
  /\ abandoned \in BOOLEAN /\ ports \in Job \cup {None, Dead} /\ slips \in 0..MaxSlips

JobsOK == job \in [Job -> JobRow] /\ \A j \in Job : Named(job[j])

AllFit == \A j \in Job : JobFits(j)

FaultKnown == work.faulty /\ ~abandoned => (\E j \in Job : job[j].active) \/ commits[head].faulty

IInv == TreeOK /\ JobsOK /\ AllFit /\ FaultKnown
-----------------------------------------------------------------------------
(* There are eight gates.                                                  *)
LEMMA EightGates == Len(verificationGates) = 8 /\ GateNumber = 1..8
  BY DEF verificationGates, GateNumber

(* The gates by their numbers.                                             *)
LEMMA GateNames ==
  /\ verificationGates[1] = "architecture" /\ verificationGates[2] = "provider-decision-evidence"
  /\ verificationGates[3] = "fail-closed" /\ verificationGates[4] = "format"
  /\ verificationGates[5] = "sandbox-proof" /\ verificationGates[6] = "preview-proof"
  /\ verificationGates[7] = "dependencies" /\ verificationGates[8] = "http-smoke"
  BY DEF verificationGates

(* The rest of a record, when a step sets phase, gate and result.          *)
Rest(q, r) ==
  /\ q.probe = r.probe /\ q.original = r.original /\ q.active = r.active /\ q.proof = r.proof
  /\ q.preview = r.preview /\ q.provider = r.provider
  /\ q.copy = r.copy /\ q.mutant = r.mutant /\ q.scratch = r.scratch /\ q.onward = r.onward

(* All of a record but what its proofs have seen.                          *)
Same(q, r) ==
  /\ q.pc = r.pc /\ q.ok = r.ok /\ q.gate = r.gate /\ q.probe = r.probe
  /\ q.original = r.original /\ q.active = r.active /\ q.proof = r.proof
  /\ q.copy = r.copy /\ q.mutant = r.mutant /\ q.scratch = r.scratch /\ q.onward = r.onward
  /\ q.preview.sha = r.preview.sha /\ q.provider.sha = r.provider.sha

(* The proof whose manifest a run is about.                                *)
LevelOf(r) == IF r.proof = "provider" THEN r.provider ELSE r.preview

(* A record moves to another phase.                                        *)
LEMMA GotoRow ==
  ASSUME NEW r \in JobRow, NEW pc \in Phase
  PROVE  /\ Goto(r, pc) \in JobRow /\ Rest(Goto(r, pc), r)
         /\ Goto(r, pc).pc = pc /\ Goto(r, pc).ok = r.ok /\ Goto(r, pc).gate = r.gate
<1>1. Goto(r, pc) \in JobRow
  BY DEF Goto, JobRow
<1>2. Rest(Goto(r, pc), r)
  BY DEF Goto, JobRow, Rest
<1> QED
  BY <1>1, <1>2 DEF Goto, JobRow

(* A gate that passes leads to the next one or to the end.                 *)
LEMMA GatePassedRow ==
  ASSUME NEW r \in JobRow
  PROVE  /\ GatePassed(r) \in JobRow /\ Rest(GatePassed(r), r) /\ GatePassed(r).ok = TRUE
         /\ r.gate = 8 => GatePassed(r).pc = "down" /\ GatePassed(r).gate = 8
         /\ r.gate # 8 => GatePassed(r).pc = "gate" /\ GatePassed(r).gate = r.gate + 1
<1>1. "down" \in Phase /\ "gate" \in Phase
  BY DEF Phase
<1>2. r.gate \in 1..8
  BY EightGates DEF JobRow
<1>3. CASE r.gate = 8
  <2>1. GatePassed(r) = [r EXCEPT !.pc = "down", !.ok = TRUE]
    BY <1>3, EightGates DEF GatePassed
  <2>2. GatePassed(r) \in JobRow
    BY <1>1, <2>1 DEF JobRow
  <2>3. Rest(GatePassed(r), r)
    BY <2>1 DEF Rest, JobRow
  <2> QED
    BY <1>3, <2>1, <2>2, <2>3 DEF JobRow
<1>4. CASE r.gate # 8
  <2>1. GatePassed(r) = [r EXCEPT !.pc = "gate", !.gate = r.gate + 1, !.ok = TRUE]
    BY <1>4, EightGates DEF GatePassed
  <2>2. r.gate + 1 \in GateNumber
    BY <1>2, <1>4, EightGates
  <2>3. GatePassed(r) \in JobRow
    BY <1>1, <2>1, <2>2 DEF JobRow
  <2>4. Rest(GatePassed(r), r)
    BY <2>1 DEF Rest, JobRow
  <2> QED
    BY <1>4, <2>1, <2>3, <2>4 DEF JobRow
<1> QED
  BY <1>3, <1>4

(* A gate that fails leads to the end.                                     *)
LEMMA GateFailedRow ==
  ASSUME NEW r \in JobRow
  PROVE  /\ GateFailed(r) \in JobRow /\ Rest(GateFailed(r), r)
         /\ GateFailed(r).pc = "down" /\ GateFailed(r).ok = FALSE /\ GateFailed(r).gate = r.gate
<1>1. "down" \in Phase
  BY DEF Phase
<1>2. GateFailed(r) \in JobRow
  BY <1>1 DEF GateFailed, JobRow
<1>3. Rest(GateFailed(r), r)
  BY DEF GateFailed, JobRow, Rest
<1> QED
  BY <1>2, <1>3 DEF GateFailed, JobRow

(* A record to begin with.                                                 *)
LEMMA FreshRow ==
  /\ Fresh \in JobRow /\ NoProof \in ProofRow
  /\ Fresh.pc = "idle" /\ Fresh.ok = TRUE /\ Fresh.gate = 1 /\ Fresh.probe = 1
  /\ Fresh.original = NoText /\ ~Fresh.active /\ Fresh.proof = "none"
  /\ Fresh.preview = NoProof /\ Fresh.provider = NoProof /\ Fresh.onward = "none"
  /\ Fresh.copy = {} /\ Fresh.mutant = 1 /\ ~Fresh.scratch
  /\ NoProof.sha = 0 /\ ~NoProof.strayed /\ ~NoProof.missed
<1>1. NoProof \in ProofRow
  BY DEF NoProof, ProofRow
<1>2. 1 \in GateNumber /\ "idle" \in Phase /\ NoText \in Text \cup {NoText} /\ {} \in SUBSET Control
  BY EightGates DEF Phase, Ended
<1>3. 1 \in 1..(Controls + 1)
  BY ProofConstants
<1>4. Fresh \in JobRow
  BY <1>1, <1>2, <1>3 DEF Fresh, JobRow
<1> QED
  BY <1>1, <1>4 DEF Fresh, NoProof

(* A proof that takes note of its commit.                                  *)
LEMMA BegunRow ==
  ASSUME NEW c \in Nat
  PROVE  LET p == [NoProof EXCEPT !.sha = c]
         IN  p \in ProofRow /\ p.sha = c /\ ~p.strayed /\ ~p.missed
  BY DEF NoProof, ProofRow

(* A run that ends.                                                        *)
LEMMA ExitRow ==
  ASSUME NEW r \in JobRow, NEW pass \in BOOLEAN
  PROVE  /\ Exit(r, pass) \in JobRow
         /\ Exit(r, pass).pc = IF pass THEN "passed" ELSE "failed"
         /\ Exit(r, pass).scratch = r.scratch /\ ~Exit(r, pass).active /\ Exit(r, pass).copy = {}
         /\ Exit(r, pass).preview = NoProof /\ Exit(r, pass).provider = NoProof
         /\ Exit(r, pass).gate = 1 /\ Exit(r, pass).proof = "none"
<1>1. PICK pc \in Phase : pc = IF pass THEN "passed" ELSE "failed"
  BY DEF Phase, Ended
<1>2. Exit(r, pass) = [Fresh EXCEPT !.pc = pc, !.scratch = r.scratch]
  BY <1>1 DEF Exit
<1>3. r.scratch \in BOOLEAN
  BY DEF JobRow
<1>4. Exit(r, pass) \in JobRow
  BY <1>2, <1>3, FreshRow DEF JobRow
<1>5. /\ Exit(r, pass).pc = pc /\ Exit(r, pass).scratch = r.scratch
      /\ Exit(r, pass).active = Fresh.active /\ Exit(r, pass).copy = Fresh.copy
      /\ Exit(r, pass).preview = Fresh.preview /\ Exit(r, pass).provider = Fresh.provider
      /\ Exit(r, pass).gate = Fresh.gate /\ Exit(r, pass).proof = Fresh.proof
  BY <1>2, FreshRow DEF JobRow
<1> QED
  BY <1>1, <1>4, <1>5, FreshRow

(* What a step sees of a tree leaves the rest of the record.               *)
LEMMA LookedRow ==
  ASSUME NEW p \in ProofRow
  PROVE  /\ Looked(p) \in ProofRow /\ Looked(p).sha = p.sha /\ Looked(p).missed = p.missed
         /\ Looked(p).strayed <=> p.strayed \/ (p.sha # 0 /\ Off(p.sha, work, faults))
<1>1. PICK off \in BOOLEAN : off <=> Off(p.sha, work, faults)
  BY DEF Off
<1>2. p.sha # 0 => Looked(p) = [p EXCEPT !.strayed = p.strayed \/ off]
  BY <1>1 DEF Looked
<1>3. p.sha = 0 => Looked(p) = p
  BY DEF Looked
<1>4. p.strayed \in BOOLEAN
  BY DEF ProofRow
<1>5. ASSUME NEW s \in BOOLEAN
      PROVE  LET q == [p EXCEPT !.strayed = s]
             IN  q \in ProofRow /\ q.sha = p.sha /\ q.missed = p.missed /\ q.strayed = s
  BY DEF ProofRow
<1> QED
  BY <1>1, <1>2, <1>3, <1>4, <1>5

(* A step that reads the tree looks for all the proofs of its run.         *)
LEMMA LookingRow ==
  ASSUME NEW r \in JobRow
  PROVE  /\ Looking(r) \in JobRow /\ Same(Looking(r), r)
         /\ Looking(r).preview = Looked(r.preview) /\ Looking(r).provider = Looked(r.provider)
<1>1. r.preview \in ProofRow /\ r.provider \in ProofRow
  BY DEF JobRow
<1>2. PICK p \in ProofRow : p = Looked(r.preview) /\ p.sha = r.preview.sha
  BY <1>1, LookedRow
<1>3. PICK v \in ProofRow : v = Looked(r.provider) /\ v.sha = r.provider.sha
  BY <1>1, LookedRow
<1>4. Looking(r) = [r EXCEPT !.preview = p, !.provider = v]
  BY <1>2, <1>3 DEF Looking
<1>5. Looking(r) \in JobRow
  BY <1>4 DEF JobRow
<1>6. Looking(r).preview = p /\ Looking(r).provider = v
  BY <1>4 DEF JobRow
<1>7. Same(Looking(r), r)
  BY <1>2, <1>3, <1>4, <1>6 DEF JobRow, Same
<1> QED
  BY <1>2, <1>3, <1>5, <1>6, <1>7

(* A tree that changes under a proof leaves the rest of the record.        *)
LEMMA OvertakenRow ==
  ASSUME NEW p \in ProofRow, NEW tracked, NEW untracked
  PROVE  /\ Overtaken(p, tracked, untracked) \in ProofRow
         /\ Overtaken(p, tracked, untracked).sha = p.sha
         /\ Overtaken(p, tracked, untracked).strayed = p.strayed
         /\ Overtaken(p, tracked, untracked).missed <=>
              p.missed \/ (p.strayed /\ Off(p.sha, work, faults) /\ ~Off(p.sha, tracked, untracked))
<1>1. LET q == [p EXCEPT !.missed = TRUE]
      IN  q \in ProofRow /\ q.sha = p.sha /\ q.strayed = p.strayed /\ q.missed = TRUE
  BY DEF ProofRow
<1> QED
  BY <1>1 DEF Overtaken

(* A tree that changes does so under all the proofs of a run.              *)
LEMMA OvertakingRow ==
  ASSUME NEW r \in JobRow, NEW tracked, NEW untracked
  PROVE  LET q == Overtaking(r, tracked, untracked)
         IN  /\ q \in JobRow /\ Same(q, r)
             /\ q.preview = Overtaken(r.preview, tracked, untracked)
             /\ q.provider = Overtaken(r.provider, tracked, untracked)
<1>1. r.preview \in ProofRow /\ r.provider \in ProofRow
  BY DEF JobRow
<1>2. PICK p \in ProofRow : p = Overtaken(r.preview, tracked, untracked) /\ p.sha = r.preview.sha
  BY <1>1, OvertakenRow
<1>3. PICK v \in ProofRow : v = Overtaken(r.provider, tracked, untracked) /\ v.sha = r.provider.sha
  BY <1>1, OvertakenRow
<1>4. PICK q : q = Overtaking(r, tracked, untracked)
  OBVIOUS
<1>5. q = [r EXCEPT !.preview = p, !.provider = v]
  BY <1>2, <1>3, <1>4 DEF Overtaking
<1>6. q \in JobRow
  BY <1>5 DEF JobRow
<1>7. q.preview = p /\ q.provider = v
  BY <1>5 DEF JobRow
<1>8. Same(q, r)
  BY <1>2, <1>3, <1>5, <1>7 DEF JobRow, Same
<1> QED
  BY <1>2, <1>3, <1>4, <1>6, <1>7, <1>8

(* HEAD moves under a run: a proof whose check has asked for HEAD already  *)
(* misses it.                                                              *)
LEMMA HeadMovedRow ==
  ASSUME NEW r \in JobRow
  PROVE  LET q == HeadMoved(r)
         IN  /\ q \in JobRow /\ Same(q, r)
             /\ q.preview.strayed = r.preview.strayed /\ (r.preview.missed => q.preview.missed)
             /\ q.provider.strayed = r.provider.strayed /\ (r.provider.missed => q.provider.missed)
             /\ q.pc = "status" /\ LevelOf(q).strayed => LevelOf(q).missed
<1>1. PICK q : q = HeadMoved(r)
  OBVIOUS
<1>2. r.preview \in ProofRow /\ r.provider \in ProofRow
  BY DEF JobRow
<1>3. ASSUME NEW p \in ProofRow
      PROVE  /\ Slipped(p) \in ProofRow /\ Slipped(p).sha = p.sha /\ Slipped(p).strayed = p.strayed
             /\ p.missed => Slipped(p).missed
             /\ p.strayed => Slipped(p).missed
  BY DEF Slipped, ProofRow
<1>4. PICK p \in ProofRow, v \in ProofRow : p = Slipped(r.preview) /\ v = Slipped(r.provider)
  BY <1>2, <1>3
<1>5. CASE r.pc # "status"
  BY <1>1, <1>5 DEF HeadMoved, Same
<1>6. CASE r.pc = "status" /\ r.proof = "provider"
  <2>1. q = [r EXCEPT !.provider = v]
    BY <1>1, <1>4, <1>6 DEF HeadMoved
  <2>2. q \in JobRow
    BY <2>1 DEF JobRow
  <2>3. q.provider = v /\ q.preview = r.preview /\ q.proof = r.proof
    BY <2>1 DEF JobRow
  <2>4. Same(q, r)
    BY <1>2, <1>3, <1>4, <2>1, <2>3 DEF JobRow, Same
  <2> QED
    BY <1>1, <1>2, <1>3, <1>4, <1>6, <2>2, <2>3, <2>4 DEF LevelOf
<1>7. CASE r.pc = "status" /\ r.proof # "provider"
  <2>1. q = [r EXCEPT !.preview = p]
    BY <1>1, <1>4, <1>7 DEF HeadMoved
  <2>2. q \in JobRow
    BY <2>1 DEF JobRow
  <2>3. q.preview = p /\ q.provider = r.provider /\ q.proof = r.proof
    BY <2>1 DEF JobRow
  <2>4. Same(q, r)
    BY <1>2, <1>3, <1>4, <2>1, <2>3 DEF JobRow, Same
  <2> QED
    BY <1>1, <1>2, <1>3, <1>4, <1>7, <2>2, <2>3, <2>4 DEF LevelOf
<1> QED
  BY <1>5, <1>6, <1>7

(* A record that differs as a run's does when the repository is about to   *)
(* be checked, or has been.                                                *)
Alike(q, r) ==
  /\ q.ok = r.ok /\ q.gate = r.gate /\ q.probe = r.probe /\ q.original = r.original
  /\ q.active = r.active /\ q.proof = r.proof
  /\ q.preview = r.preview /\ q.provider = r.provider
  /\ q.copy = r.copy /\ q.mutant = r.mutant /\ q.scratch = r.scratch

(* The repository is about to be checked.                                  *)
LEMMA CheckRow ==
  ASSUME NEW r \in JobRow, NEW onward \in {"integration", "digest", "write", "passed"}
  PROVE  LET q == Check(r, onward)
         IN  q \in JobRow /\ q.pc = "head" /\ q.onward = onward /\ Alike(q, r)
<1>1. PICK q : q = [r EXCEPT !.pc = "head", !.onward = onward]
  OBVIOUS
<1>2. q \in JobRow
  BY <1>1 DEF JobRow, Phase
<1>3. q.pc = "head" /\ q.onward = onward /\ Alike(q, r)
  BY <1>1 DEF JobRow, Alike
<1> QED
  BY <1>1, <1>2, <1>3 DEF Check

(* The repository has been checked.                                        *)
LEMMA CheckedRow ==
  ASSUME NEW r \in JobRow, r.onward # "none"
  PROVE  LET q == Checked(r)
         IN  /\ q \in JobRow
             /\ r.onward = "passed" => q = Exit(r, TRUE)
             /\ r.onward # "passed" => q.pc = r.onward /\ q.pc \in {"integration", "digest", "write"}
                                         /\ Alike(q, r)
<1>1. CASE r.onward = "passed"
  BY <1>1, ExitRow DEF Checked
<1>2. CASE r.onward # "passed"
  <2>1. PICK pc \in {"integration", "digest", "write"} : pc = r.onward
    BY <1>2 DEF JobRow
  <2>2. PICK q : q = [r EXCEPT !.pc = pc, !.onward = "none"]
    OBVIOUS
  <2>3. q = Checked(r)
    BY <1>2, <2>1, <2>2 DEF Checked
  <2>4. q \in JobRow
    BY <2>2 DEF JobRow, Phase
  <2>5. q.pc = pc /\ Alike(q, r)
    BY <2>2 DEF JobRow, Alike
  <2> QED
    BY <1>2, <2>1, <2>3, <2>4, <2>5
<1> QED
  BY <1>1, <1>2

(* A record that differs in what its proofs have seen fits as well.        *)
LEMMA SameFits ==
  ASSUME NEW q, NEW r, Same(q, r)
  PROVE  (RowFits(r) => RowFits(q)) /\ (Serving(r) => Serving(q)) /\ (Named(r) => Named(q))
  BY DEF Same, RowFits, Serving, Named
-----------------------------------------------------------------------------
(* What the step of one run does to the others: nothing but that the tree  *)
(* may have come back under their proofs.                                  *)
LEMMA OtherRuns ==
  ASSUME JobsOK, AllFit, UNCHANGED commits, NEW k \in Job, Same(job'[k], job[k]),
         Own(k)' \subseteq Own(k), ports' = k => ports = k
  PROVE  JobFits(k)' /\ Named(job[k])'
<1>1. JobFits(k) /\ Named(job[k])
  BY DEF JobsOK, AllFit
<1>2. RowFits(job'[k]) /\ (Serving(job[k]) => Serving(job'[k])) /\ Named(job'[k])
  BY <1>1, SameFits DEF JobFits
<1>3. RowFits(job[k])' /\ (ports = k => Serving(job[k]))'
  BY <1>1, <1>2 DEF JobFits, RowFits, Serving
<1>4. Named(job[k])'
  BY <1>2 DEF Named
<1>5. (Own(k) # {} => job[k].pc \in Faulting)'
  BY <1>1 DEF JobFits, Same
<1> QED
  BY <1>3, <1>4, <1>5 DEF JobFits

(* A run takes a step that leaves the tree alone.                          *)
LEMMA BecomesStep ==
  ASSUME IInv, NEW j \in Job, NEW q \in JobRow, Becomes(j, q), RowFits(q), Named(q),
         UNCHANGED <<commits, head, work, faults, abandoned>>,
         manifest' \in [Levels -> ProofRow], slips' \in 0..MaxSlips,
         ports' \in {ports, j, None, Dead}, ports' = j => Serving(q),
         Own(j) # {} => q.pc \in Faulting,
         job[j].active => q.active
  PROVE  IInv'
<1>1. TreeOK /\ JobsOK /\ AllFit /\ FaultKnown
  BY DEF IInv
<1>2. job \in [Job -> JobRow]
  BY <1>1 DEF JobsOK
<1>3. job' \in [Job -> JobRow] /\ job'[j] = q /\ \A k \in Job \ {j} : job'[k] = job[k]
  BY <1>2 DEF Becomes
<1>4. TreeOK'
  <2>1. ports' \in Job \cup {None, Dead}
    BY <1>1 DEF TreeOK
  <2> QED
    BY <1>1, <2>1 DEF TreeOK
<1>5. \A k : Own(k)' = Own(k)
  BY DEF Own
<1>6. ASSUME NEW k \in Job PROVE JobFits(k)' /\ Named(job[k])'
  <2>1. CASE k = j
    <3>1. Named(job[k])'
      BY <2>1, <1>3 DEF Named
    <3>2. RowFits(job[k])' /\ (ports = k => Serving(job[k]))'
      BY <2>1, <1>3 DEF RowFits, Serving
    <3>3. (Own(k) # {} => job[k].pc \in Faulting)'
      BY <2>1, <1>3, <1>5
    <3> QED
      BY <3>1, <3>2, <3>3 DEF JobFits
  <2>2. CASE k # j
    <3>1. Same(job'[k], job[k])
      BY <2>2, <1>3 DEF Same
    <3>2. ports' = k => ports = k
      BY <2>2, ProofConstants DEF Job
    <3> QED
      BY <1>1, <1>5, <3>1, <3>2, OtherRuns
  <2> QED
    BY <2>1, <2>2
<1>7. JobsOK' /\ AllFit'
  BY <1>3, <1>6 DEF JobsOK, AllFit
<1>8. FaultKnown'
  <2>1. \A k \in Job : job[k].active => job'[k].active
    BY <1>3
  <2> QED
    BY <1>1, <2>1 DEF FaultKnown
<1> QED
  BY <1>4, <1>7, <1>8 DEF IInv

(* A run takes a step that writes to the tree.                             *)
LEMMA WritesStep ==
  ASSUME IInv, NEW j \in Job, NEW q \in JobRow,
         NEW tracked \in TreeRow, NEW untracked \in SUBSET FaultType,
         Writes(j, tracked, untracked, q), RowFits(q), Named(q),
         UNCHANGED <<commits, head, manifest>>,
         abandoned' \in BOOLEAN, slips' \in 0..MaxSlips, ports' \in {ports, Dead}, ports' # j,
         \A f \in untracked : f \in faults \/ f[1] = j \/ f[1] = Dead,
         (\E f \in untracked : f[1] = j) => q.pc \in Faulting,
         tracked.faulty /\ ~abandoned' =>
           q.active \/ commits[head].faulty \/ \E k \in Job \ {j} : job[k].active
  PROVE  IInv'
<1>1. TreeOK /\ JobsOK /\ AllFit /\ FaultKnown
  BY DEF IInv
<1>2. job \in [Job -> JobRow]
  BY <1>1 DEF JobsOK
<1>3. /\ job' = [k \in Job |-> Overtaking(IF k = j THEN q ELSE job[k], tracked, untracked)]
      /\ work' = tracked /\ faults' = untracked
  BY DEF Writes
<1>4. ASSUME NEW k \in Job
      PROVE  job'[k] \in JobRow /\ (k = j => Same(job'[k], q)) /\ (k # j => Same(job'[k], job[k]))
  <2>1. PICK r \in JobRow : r = IF k = j THEN q ELSE job[k]
    BY <1>2
  <2>2. job'[k] = Overtaking(r, tracked, untracked)
    BY <1>3, <2>1
  <2> QED
    BY <2>1, <2>2, OvertakingRow
<1>5. job' \in [Job -> JobRow]
  BY <1>3, <1>4
<1>6. TreeOK'
  <2>1. ports' \in Job \cup {None, Dead}
    BY <1>1 DEF TreeOK
  <2> QED
    BY <1>1, <1>3, <2>1 DEF TreeOK
<1>7. ASSUME NEW k \in Job PROVE JobFits(k)' /\ Named(job[k])'
  <2>1. CASE k = j
    <3>1. RowFits(job'[k]) /\ Named(job'[k]) /\ job'[k].pc = q.pc
      BY <1>4, <2>1, SameFits DEF Same
    <3>2. Named(job[k])'
      BY <3>1 DEF Named
    <3>3. RowFits(job[k])' /\ (ports = k => Serving(job[k]))'
      BY <2>1, <3>1 DEF RowFits
    <3>4. (Own(k) # {} => job[k].pc \in Faulting)'
      BY <1>3, <2>1, <3>1 DEF Own
    <3> QED
      BY <3>2, <3>3, <3>4 DEF JobFits
  <2>2. CASE k # j
    <3>1. Same(job'[k], job[k])
      BY <2>2, <1>4
    <3>2. ports' = k => ports = k
      BY ProofConstants DEF Job
    <3>3. k # Dead
      BY ProofConstants DEF Job
    <3>4. Own(k)' \subseteq Own(k)
      BY <1>3, <2>2, <3>3 DEF Own
    <3> QED
      BY <1>1, <3>1, <3>2, <3>4, OtherRuns
  <2> QED
    BY <2>1, <2>2
<1>8. JobsOK' /\ AllFit'
  BY <1>5, <1>7 DEF JobsOK, AllFit
<1>9. FaultKnown'
  <2>1. \A k \in Job \ {j} : job[k].active => job'[k].active
    BY <1>4 DEF Same
  <2>2. q.active => job'[j].active
    BY <1>4 DEF Same
  <2> QED
    BY <1>3, <2>1, <2>2 DEF FaultKnown
<1> QED
  BY <1>6, <1>8, <1>9 DEF IInv

(* The author writes to the tree, or HEAD moves as well.                   *)
LEMMA AuthorMoves ==
  ASSUME IInv, NEW tracked \in TreeRow, NEW untracked \in SUBSET faults,
         work' = tracked, faults' = untracked, job' \in [Job -> JobRow],
         \A k \in Job : Same(job'[k], job[k]),
         UNCHANGED <<commits, manifest>>, head' \in DOMAIN commits,
         abandoned' \in BOOLEAN, slips' \in 0..MaxSlips, ports' \in {ports, None},
         tracked.faulty /\ ~abandoned' =>
           commits[head'].faulty \/ \E k \in Job : job[k].active
  PROVE  IInv'
<1>1. TreeOK /\ JobsOK /\ AllFit /\ FaultKnown
  BY DEF IInv
<1>2. TreeOK'
  <2>1. ports' \in Job \cup {None, Dead}
    BY <1>1 DEF TreeOK
  <2> QED
    BY <1>1, <2>1 DEF TreeOK
<1>3. ASSUME NEW k \in Job PROVE JobFits(k)' /\ Named(job[k])'
  <2>1. ports' = k => ports = k
    BY ProofConstants DEF Job
  <2>2. Own(k)' \subseteq Own(k)
    BY DEF Own
  <2> QED
    BY <1>1, <2>1, <2>2, OtherRuns
<1>4. JobsOK' /\ AllFit'
  BY <1>3 DEF JobsOK, AllFit
<1>5. FaultKnown'
  <2>1. \A k \in Job : job[k].active => job'[k].active
    BY DEF Same
  <2> QED
    BY <2>1 DEF FaultKnown
<1> QED
  BY <1>2, <1>4, <1>5 DEF IInv

(* What the author writes lies under the proofs of all runs.               *)
LEMMA AuthorRows ==
  ASSUME IInv, NEW tracked, NEW untracked, Writes(None, tracked, untracked, Fresh)
  PROVE  /\ work' = tracked /\ faults' = untracked /\ job' \in [Job -> JobRow]
         /\ \A k \in Job : Same(job'[k], job[k])
<1>1. job \in [Job -> JobRow]
  BY DEF IInv, JobsOK
<1>2. /\ job' = [k \in Job |-> Overtaking(IF k = None THEN Fresh ELSE job[k], tracked, untracked)]
      /\ work' = tracked /\ faults' = untracked
  BY DEF Writes
<1>3. ASSUME NEW k \in Job
      PROVE  job'[k] \in JobRow /\ Same(job'[k], job[k])
  <2>1. k # None
    BY ProofConstants DEF Job
  <2>2. job'[k] = Overtaking(job[k], tracked, untracked) /\ job[k] \in JobRow
    BY <1>1, <1>2, <2>1
  <2> QED
    BY <2>2, OvertakingRow
<1> QED
  BY <1>2, <1>3

(* The author writes to the tree.                                          *)
LEMMA AuthorWrites ==
  ASSUME IInv, NEW tracked \in TreeRow, NEW untracked \in SUBSET faults,
         Writes(None, tracked, untracked, Fresh),
         UNCHANGED <<commits, manifest>>, head' \in DOMAIN commits,
         abandoned' \in BOOLEAN, slips' \in 0..MaxSlips, ports' \in {ports, None},
         tracked.faulty /\ ~abandoned' =>
           commits[head'].faulty \/ \E k \in Job : job[k].active
  PROVE  IInv'
  BY AuthorRows, AuthorMoves
-----------------------------------------------------------------------------
(* What the invariant says of one run.                                     *)
LEMMA RunOf ==
  ASSUME IInv, NEW j \in Job
  PROVE  /\ job[j] \in JobRow /\ RowFits(job[j]) /\ Named(job[j])
         /\ Own(j) # {} => job[j].pc \in Faulting
         /\ ports = j => Serving(job[j])
         /\ job[j].gate \in 1..8 /\ job[j].probe \in 1..8
         /\ manifest \in [Levels -> ProofRow] /\ slips \in 0..MaxSlips
<1>1. job[j] \in JobRow /\ Named(job[j]) /\ JobFits(j) /\ TreeOK
  BY DEF IInv, JobsOK, AllFit
<1>2. job[j].gate \in 1..8 /\ job[j].probe \in 1..8
  BY <1>1, EightGates DEF JobRow
<1> QED
  BY <1>1, <1>2 DEF JobFits, TreeOK

(* A slip is one of the slips allowed.                                     *)
LEMMA SlipOK == IInv /\ Slip => slips' \in 0..MaxSlips
  BY ProofConstants DEF IInv, TreeOK, Slip

(* The phases that no cleanup is due in: nothing is left to remove.        *)
LEMMA NothingDue ==
  ASSUME NEW r \in JobRow, RowFits(r), r.pc \notin Faulting \cup Copied
  PROVE  ~r.scratch /\ r.copy = {} /\ ~r.active
  BY DEF RowFits, Faulting

(* A record without scratch, copy and fault fits in every phase but those  *)
(* of the mutation prover.                                                 *)
LEMMA PlainFits ==
  ASSUME NEW q, ~q.scratch, q.copy = {}, ~q.active,
         q.pc \notin Copied \cup {"expect", "revision", "head", "status"}
  PROVE  RowFits(q)
  BY DEF RowFits, Copied, Asking

(* A record whose repository is about to be checked fits.                  *)
LEMMA CheckFits ==
  ASSUME NEW r \in JobRow, ~r.scratch, r.copy = {}, ~r.active,
         NEW onward \in {"integration", "digest", "write", "passed"}
  PROVE  /\ Check(r, onward) \in JobRow /\ RowFits(Check(r, onward))
         /\ Named(r) => Named(Check(r, onward))
<1>1. PICK q \in JobRow : q = Check(r, onward) /\ q.pc = "head" /\ q.onward = onward /\ Alike(q, r)
  BY CheckRow
<1>2. RowFits(q)
  BY <1>1 DEF RowFits, Alike, Copied, Asking
<1> QED
  BY <1>1, <1>2 DEF Alike, Named

(* The provider-runtime proof starts on a clean tree, or fails.            *)
LEMMA StartProverStep == ASSUME IInv, NEW j \in Job, StartProver(j) PROVE IInv'
<1>1. /\ job[j].pc \in Ended
      /\ UNCHANGED <<commits, head, work, faults, abandoned, ports, manifest, slips>>
  BY DEF StartProver, Running
<1>2. Own(j) = {} /\ ports # j /\ ~job[j].active
  BY <1>1, RunOf, NothingDue DEF Ended, Faulting, Copied, Serving
<1>3. head \in 0..Len(commits)
  BY DEF IInv, TreeOK
<1>4. \E q \in JobRow : Becomes(j, q) /\ RowFits(q) /\ Named(q)
  <2>1. CASE Clean
    <3>1. PICK q \in JobRow : q = Goto(Fresh, "revision") /\ Rest(q, Fresh) /\ q.pc = "revision"
                              /\ q.gate = Fresh.gate
      BY FreshRow, GotoRow DEF Phase
    <3>2. RowFits(q)
      BY <3>1, FreshRow DEF RowFits, Rest, Copied, Asking
    <3>3. Named(q)
      BY <1>3, <3>1, FreshRow DEF Named, Rest
    <3> QED
      BY <2>1, <3>1, <3>2, <3>3 DEF StartProver
  <2>2. CASE ~Clean
    <3>1. PICK q \in JobRow : q = Exit(Fresh, FALSE)
      BY FreshRow, ExitRow
    <3>2. /\ ~q.scratch /\ q.copy = {} /\ ~q.active /\ q.pc = "failed"
          /\ q.preview = NoProof /\ q.provider = NoProof
      BY <3>1, FreshRow, ExitRow
    <3>3. RowFits(q) /\ Named(q)
      BY <1>3, <3>2, PlainFits, FreshRow DEF Named, Copied
    <3> QED
      BY <2>2, <3>1, <3>3 DEF StartProver
  <2> QED
    BY <2>1, <2>2
<1> QED
  BY <1>1, <1>2, <1>4, RunOf, BecomesStep

(* A colleague starts verify:ci.                                           *)
LEMMA StartVerifyStep == ASSUME IInv, NEW j \in Job, StartVerify(j) PROVE IInv'
<1>1. /\ job[j].pc \in Ended /\ Slip /\ Becomes(j, Goto(Fresh, "gate"))
      /\ UNCHANGED <<commits, head, work, faults, abandoned, ports, manifest>>
  BY DEF StartVerify, Running
<1>2. Own(j) = {} /\ ports # j /\ ~job[j].active
  BY <1>1, RunOf, NothingDue DEF Ended, Faulting, Copied, Serving
<1>3. PICK q : q = Goto(Fresh, "gate")
  OBVIOUS
<1>4. q \in JobRow /\ Rest(q, Fresh) /\ q.pc = "gate"
  BY <1>3, FreshRow, GotoRow DEF Phase
<1>5. RowFits(q)
  BY <1>4, FreshRow, PlainFits DEF Copied, Rest
<1>6. Named(q)
  <2>1. Len(commits) \in Nat
    BY DEF IInv, TreeOK
  <2> QED
    BY <1>4, <2>1, FreshRow DEF Named, Rest
<1> QED
  BY <1>1, <1>2, <1>3, <1>4, <1>5, <1>6, RunOf, SlipOK, BecomesStep

(* A record that is done with a gate keeps what it had.                    *)
LEMMA GateOver ==
  ASSUME NEW r \in JobRow, ~r.scratch, r.copy = {}, ~r.active, NEW q,
         q = GatePassed(r) \/ q = GateFailed(r)
  PROVE  q \in JobRow /\ RowFits(q) /\ (Named(r) => Named(q)) /\ ~q.active
<1>1. q \in JobRow /\ Rest(q, r) /\ q.pc \in {"down", "gate"}
  <2>1. CASE q = GatePassed(r)
    BY <2>1, GatePassedRow
  <2>2. CASE q = GateFailed(r)
    BY <2>2, GateFailedRow
  <2> QED
    BY <2>1, <2>2
<1>2. RowFits(q)
  BY <1>1, PlainFits DEF Rest, Copied
<1> QED
  BY <1>1, <1>2 DEF Rest, Named

(* A gate that reads.                                                      *)
LEMMA ReadingGateStep == ASSUME IInv, NEW j \in Job, ReadingGate(j) PROVE IInv'
<1>1. /\ job[j].pc = "gate"
      /\ UNCHANGED <<commits, head, work, faults, abandoned, ports, manifest, slips>>
  BY DEF ReadingGate, At
<1>2. ~job[j].scratch /\ job[j].copy = {} /\ ~job[j].active /\ Own(j) = {}
  BY <1>1, RunOf, NothingDue DEF Faulting, Copied
<1>3. PICK r \in JobRow : r = Looking(job[j]) /\ Same(r, job[j])
  BY RunOf, LookingRow
<1>4. Named(r) /\ ~r.scratch /\ r.copy = {} /\ ~r.active /\ r.gate = job[j].gate
  BY <1>2, <1>3, RunOf, SameFits DEF Same
<1>5. PICK q : Becomes(j, q) /\ (q = GatePassed(r) \/ q = GateFailed(r))
  BY <1>3 DEF ReadingGate
<1>6. q \in JobRow /\ RowFits(q) /\ Named(q)
  BY <1>4, <1>5, GateOver
<1>7. ports' = j => Serving(q)
  <2>1. SUFFICES ASSUME ports = j PROVE Serving(q)
    BY <1>1
  <2>2. r.gate = 8
    BY <1>1, <1>4, <2>1, RunOf DEF Serving
  <2> QED
    BY <1>5, <2>2, GatePassedRow, GateFailedRow DEF Serving
<1> QED
  BY <1>1, <1>2, <1>5, <1>6, <1>7, RunOf, BecomesStep

(* The services are started, or the ports are taken.                       *)
LEMMA DependenciesGateStep == ASSUME IInv, NEW j \in Job, DependenciesGate(j) PROVE IInv'
<1>1. /\ job[j].pc = "gate" /\ verificationGates[job[j].gate] = "dependencies"
      /\ UNCHANGED <<commits, head, work, faults, abandoned, manifest>>
      /\ UNCHANGED slips \/ Slip
  BY DEF DependenciesGate, At, Gate
<1>2. ~job[j].scratch /\ job[j].copy = {} /\ ~job[j].active /\ Own(j) = {}
  BY <1>1, RunOf, NothingDue DEF Faulting, Copied
<1>3. job[j].gate = 7
  BY <1>1, RunOf, GateNames
<1>4. ports # j
  BY <1>1, <1>3, RunOf DEF Serving
<1>5. PICK r \in JobRow : r = job[j]
  BY RunOf
<1>6. PICK q : Becomes(j, q) /\ (q = GatePassed(r) \/ q = GateFailed(r))
  BY <1>5 DEF DependenciesGate
<1>7. q \in JobRow /\ RowFits(q) /\ Named(q)
  BY <1>2, <1>5, <1>6, RunOf, GateOver
<1>8. Serving(q)
  <2>1. CASE q = GatePassed(r)
    <3>1. r.gate = 7
      BY <1>3, <1>5
    <3>2. GatePassed(r).pc = "gate" /\ GatePassed(r).gate = r.gate + 1
      <4>1. r.gate # 8
        BY <3>1
      <4> QED
        BY <4>1, GatePassedRow
    <3> QED
      BY <2>1, <3>1, <3>2 DEF Serving
  <2>2. CASE q = GateFailed(r)
    BY <2>2, GateFailedRow DEF Serving
  <2> QED
    BY <1>6, <2>1, <2>2
<1>9. ports' \in {ports, j}
  BY DEF DependenciesGate
<1>10. slips' \in 0..MaxSlips
  BY <1>1, RunOf, SlipOK
<1> QED
  BY <1>1, <1>2, <1>6, <1>7, <1>8, <1>9, <1>10, RunOf, BecomesStep

(* The services are stopped; verify:ci ends, or the proof goes on.         *)
LEMMA ComposeDownStep == ASSUME IInv, NEW j \in Job, ComposeDown(j) PROVE IInv'
<1>1. /\ job[j].pc = "down" /\ UNCHANGED <<commits, head, work, faults, abandoned, manifest>>
      /\ UNCHANGED slips \/ Slip
  BY DEF ComposeDown, At
<1>2. ~job[j].scratch /\ job[j].copy = {} /\ ~job[j].active /\ Own(j) = {}
  BY <1>1, RunOf, NothingDue DEF Faulting, Copied
<1>3. ports' \in {ports, None, Dead} /\ ports' # j
  BY ProofConstants DEF ComposeDown, Released, Job
<1>4. PICK r \in JobRow : r = job[j]
  BY RunOf
<1>5. PICK pass \in BOOLEAN : Becomes(j, Verified(j, pass))
  BY <1>4 DEF ComposeDown, JobRow
<1>6. PICK q : q = Verified(j, pass)
  OBVIOUS
<1>7. \/ q = Check([r EXCEPT !.proof = "provider"], "integration")
      \/ \E b \in BOOLEAN : q = Exit(r, b)
  BY <1>4, <1>6 DEF Verified
<1>8. q \in JobRow /\ RowFits(q) /\ Named(q)
  <2>1. CASE q = Check([r EXCEPT !.proof = "provider"], "integration")
    <3>1. PICK s \in JobRow : s = [r EXCEPT !.proof = "provider"]
      BY DEF JobRow
    <3>2. /\ s.scratch = r.scratch /\ s.copy = r.copy /\ s.active = r.active
          /\ s.preview = r.preview /\ s.provider = r.provider
      BY <3>1 DEF JobRow
    <3>3. ~s.scratch /\ s.copy = {} /\ ~s.active /\ Named(s)
      BY <1>2, <1>4, <3>2, RunOf DEF Named
    <3> QED
      BY <2>1, <3>1, <3>3, CheckFits
  <2>2. ASSUME NEW b \in BOOLEAN, q = Exit(r, b) PROVE q \in JobRow /\ RowFits(q) /\ Named(q)
    <3>1. /\ q \in JobRow /\ q.pc \in {"passed", "failed"} /\ q.scratch = r.scratch /\ q.copy = {}
          /\ ~q.active /\ q.preview = NoProof /\ q.provider = NoProof
      BY <2>2, ExitRow
    <3>2. RowFits(q)
      BY <1>2, <1>4, <3>1, PlainFits DEF Copied
    <3>3. Named(q)
      <4>1. Len(commits) \in Nat
        BY DEF IInv, TreeOK
      <4> QED
        BY <3>1, <4>1, FreshRow DEF Named
    <3> QED
      BY <3>1, <3>2, <3>3
  <2> QED
    BY <1>7, <2>1, <2>2
<1>9. slips' \in 0..MaxSlips
  BY <1>1, RunOf, SlipOK
<1> QED
  BY <1>1, <1>2, <1>3, <1>5, <1>6, <1>8, <1>9, RunOf, BecomesStep
-----------------------------------------------------------------------------
(* prove-gates-fail-closed.mjs begins.                                     *)
LEMMA FailClosedGateStep == ASSUME IInv, NEW j \in Job, FailClosedGate(j) PROVE IInv'
<1>1. /\ job[j].pc = "gate" /\ verificationGates[job[j].gate] = "fail-closed"
      /\ UNCHANGED <<commits, head, work, faults, abandoned, ports, manifest, slips>>
  BY DEF FailClosedGate, At, Gate
<1>2. ~job[j].scratch /\ job[j].copy = {} /\ ~job[j].active /\ Own(j) = {}
  BY <1>1, RunOf, NothingDue DEF Faulting, Copied
<1>3. job[j].gate = 3
  BY <1>1, RunOf, GateNames
<1>4. ports # j
  BY <1>1, <1>3, RunOf DEF Serving
<1>5. PICK r \in JobRow : r = job[j]
  BY RunOf
<1>6. PICK q : q = [r EXCEPT !.pc = "probe", !.probe = 1, !.original = NoText,
                             !.active = FALSE, !.scratch = TRUE]
  OBVIOUS
<1>7. "probe" \in Phase /\ 1 \in GateNumber /\ NoText \in Text \cup {NoText}
  BY EightGates DEF Phase
<1>8. q \in JobRow
  BY <1>6, <1>7 DEF JobRow
<1>9. /\ q.pc = "probe" /\ ~q.active /\ q.copy = r.copy
      /\ q.preview = r.preview /\ q.provider = r.provider
  BY <1>6 DEF JobRow
<1>10. RowFits(q) /\ Named(q)
  BY <1>2, <1>5, <1>9, RunOf DEF RowFits, Faulting, Copied, Asking, Named
<1>11. Becomes(j, q)
  BY <1>5, <1>6 DEF FailClosedGate
<1> QED
  BY <1>1, <1>2, <1>4, <1>8, <1>9, <1>10, <1>11, RunOf, BecomesStep

(* The gate whose fault is in the boundary document is the first.          *)
LEMMA ProbeNumbers ==
  ASSUME IInv, NEW j \in Job
  PROVE  Probe(j) = "architecture" <=> job[j].probe = 1
  BY RunOf, GateNames DEF Probe

(* A boundary document with a fault, and one that is put back.             *)
LEMMA TreeRows ==
  ASSUME NEW w \in TreeRow, NEW x \in Text, NEW b \in BOOLEAN
  PROVE  /\ [w EXCEPT !.faulty = b] \in TreeRow /\ [w EXCEPT !.faulty = b].faulty = b
         /\ [w EXCEPT !.text = x, !.faulty = b] \in TreeRow
         /\ [w EXCEPT !.text = x, !.faulty = b].faulty = b
  BY DEF TreeRow

(* A fault is written, or the document is found faulty.                    *)
LEMMA InjectFaultStep == ASSUME IInv, NEW j \in Job, InjectFault(j) PROVE IInv'
<1>1. /\ job[j].pc = "probe" /\ Probe(j) \in Writing
      /\ UNCHANGED <<commits, head, abandoned, ports, manifest, slips>>
  BY DEF InjectFault, At
<1>2. PICK r \in JobRow : r = job[j]
  BY RunOf
<1>3. r.scratch \in BOOLEAN /\ r.copy = {} /\ ~r.active /\ ports # j
  BY <1>1, <1>2, RunOf DEF RowFits, Copied, Serving, JobRow
<1>4. TreeOK /\ work \in TreeRow /\ work.text \in Text \cup {NoText} /\ work.text # NoText
  BY DEF IInv, TreeOK, TreeRow, Text, NoText
<1>5. "expect" \in Phase /\ "cleanup" \in Phase /\ {"expect", "cleanup"} \subseteq Faulting
  BY DEF Phase, Faulting
<1>6. CASE Probe(j) # "architecture"
  <2>1. PICK q : q = Goto(r, "expect")
    OBVIOUS
  <2>2. q \in JobRow /\ Rest(q, r) /\ q.pc = "expect"
    BY <1>5, <2>1, GotoRow
  <2>3. RowFits(q) /\ Named(q)
    <3>1. r.probe # 1
      BY <1>2, <1>6, ProbeNumbers
    <3> QED
      BY <1>2, <1>3, <2>2, <3>1, RunOf DEF RowFits, Rest, Faulting, Copied, Asking, Named
  <2>4. PICK u : u = faults \cup {<<j, Probe(j)>>}
    OBVIOUS
  <2>5. u \in SUBSET FaultType /\ \A f \in u : f \in faults \/ f[1] = j
    BY <1>1, <1>4, <2>4 DEF FaultType, TreeOK
  <2>6. Writes(j, work, u, q)
    BY <1>2, <1>6, <2>1, <2>4 DEF InjectFault
  <2>7. work.faulty /\ ~abandoned' => commits[head].faulty \/ \E k \in Job \ {j} : job[k].active
    BY <1>1, <1>2, <1>3 DEF IInv, FaultKnown
  <2>8. abandoned' \in BOOLEAN
    BY <1>1, <1>4 DEF TreeOK
  <2> QED
    BY <1>1, <1>3, <1>4, <1>5, <2>2, <2>3, <2>5, <2>6, <2>7, <2>8, RunOf, WritesStep
<1>7. CASE Probe(j) = "architecture" /\ work.faulty
  <2>1. PICK q : q = [[r EXCEPT !.original = work.text] EXCEPT !.pc = "cleanup", !.ok = FALSE]
    OBVIOUS
  <2>2. q \in JobRow
    BY <1>4, <1>5, <2>1 DEF JobRow
  <2>3. /\ q.pc = "cleanup" /\ q.scratch = r.scratch /\ q.copy = r.copy /\ q.active = r.active
        /\ q.preview = r.preview /\ q.provider = r.provider
    BY <2>1 DEF JobRow
  <2>4. RowFits(q) /\ Named(q)
    BY <1>2, <1>3, <2>3, RunOf DEF RowFits, Faulting, Copied, Asking, Named
  <2>5. Becomes(j, q) /\ UNCHANGED <<work, faults>>
    BY <1>2, <1>7, <2>1 DEF InjectFault, Kept
  <2> QED
    BY <1>1, <1>2, <1>3, <1>5, <2>2, <2>3, <2>4, <2>5, RunOf, BecomesStep
<1>8. CASE Probe(j) = "architecture" /\ ~work.faulty
  <2>1. PICK q : q = [[r EXCEPT !.original = work.text] EXCEPT !.pc = "expect", !.active = TRUE]
    OBVIOUS
  <2>2. q \in JobRow
    BY <1>4, <1>5, <2>1 DEF JobRow
  <2>3. /\ q.pc = "expect" /\ q.scratch = r.scratch /\ q.copy = r.copy /\ q.active = TRUE
        /\ q.preview = r.preview /\ q.provider = r.provider
        /\ q.original = work.text /\ q.probe = r.probe
    BY <2>1 DEF JobRow
  <2>4. r.probe = 1
    BY <1>2, <1>8, ProbeNumbers
  <2>5. RowFits(q) /\ Named(q)
    BY <1>2, <1>3, <1>4, <2>3, <2>4, RunOf DEF RowFits, Faulting, Copied, Asking, Named
  <2>6. PICK t \in TreeRow : t = [work EXCEPT !.faulty = TRUE]
    BY <1>4, TreeRows DEF TreeRow
  <2>7. Writes(j, t, faults, q)
    BY <1>2, <1>8, <2>1, <2>6 DEF InjectFault, Kept
  <2>8. abandoned' \in BOOLEAN /\ faults \in SUBSET FaultType
    BY <1>1, <1>4 DEF TreeOK
  <2> QED
    BY <1>1, <1>3, <1>5, <2>2, <2>3, <2>5, <2>7, <2>8, RunOf, WritesStep
<1> QED
  BY <1>6, <1>7, <1>8

(* A run in the fail-closed prover has no services up and no copy, and the *)
(* document can be put back.                                               *)
LEMMA InFaultProof ==
  ASSUME IInv, NEW j \in Job, job[j].pc \in Faulting
  PROVE  /\ job[j].copy = {} /\ ports # j /\ job[j].active \in BOOLEAN
         /\ job[j].active => job[j].original \in Text
         /\ job[j].active => Restored(j) \in TreeRow /\ ~Restored(j).faulty
         /\ Undone(j) \in TreeRow
         /\ Undone(j).faulty => ~job[j].active /\ work.faulty
         /\ faults \in SUBSET FaultType /\ abandoned \in BOOLEAN /\ work \in TreeRow
<1>1. job[j].copy = {} /\ ports # j /\ job[j].active \in BOOLEAN
  BY RunOf DEF RowFits, Copied, Faulting, Serving, JobRow
<1>2. faults \in SUBSET FaultType /\ abandoned \in BOOLEAN /\ work \in TreeRow
  BY DEF IInv, TreeOK
<1>3. job[j].active => job[j].original \in Text
  BY RunOf DEF RowFits, JobRow
<1>4. job[j].active => Restored(j) \in TreeRow /\ ~Restored(j).faulty
  BY <1>2, <1>3, TreeRows DEF Restored
<1>5. CASE job[j].active
  BY <1>1, <1>2, <1>3, <1>4, <1>5 DEF Undone
<1>6. CASE ~job[j].active
  BY <1>1, <1>2, <1>3, <1>4, <1>6 DEF Undone
<1> QED
  BY <1>5, <1>6

(* Of a fault that is not j's to undo, somebody else knows.                *)
LEMMA OthersKnow ==
  ASSUME IInv, NEW j \in Job, work.faulty, ~abandoned, ~job[j].active
  PROVE  commits[head].faulty \/ \E k \in Job \ {j} : job[k].active
  BY DEF IInv, FaultKnown

(* A probe that is over: the next one, or the cleanup.                     *)
LEMMA ProbePassedRow ==
  ASSUME NEW r \in JobRow
  PROVE  LET q == ProbePassed([r EXCEPT !.active = FALSE])
         IN  /\ q \in JobRow /\ ~q.active /\ q.copy = r.copy /\ q.scratch = r.scratch
             /\ q.preview = r.preview /\ q.provider = r.provider /\ q.original = r.original
             /\ q.ok = r.ok /\ q.gate = r.gate /\ q.proof = r.proof
             /\ r.probe = 8 => q.pc = "cleanup" /\ q.probe = 8
             /\ r.probe # 8 => q.pc = "probe" /\ q.probe = r.probe + 1
<1>1. PICK s : s = [r EXCEPT !.active = FALSE]
  OBVIOUS
<1>2. /\ s \in JobRow /\ ~s.active /\ s.copy = r.copy /\ s.scratch = r.scratch /\ s.proof = r.proof
      /\ s.preview = r.preview /\ s.provider = r.provider /\ s.original = r.original
      /\ s.ok = r.ok /\ s.gate = r.gate /\ s.probe = r.probe
  BY <1>1 DEF JobRow
<1>3. PICK q : q = ProbePassed(s)
  OBVIOUS
<1>4. "cleanup" \in Phase /\ "probe" \in Phase
  BY DEF Phase
<1>5. s.probe \in 1..8
  BY <1>2, EightGates DEF JobRow
<1>6. CASE s.probe = 8
  <2>1. q = Goto(s, "cleanup")
    BY <1>3, <1>6, EightGates DEF ProbePassed
  <2>2. q \in JobRow /\ Rest(q, s) /\ q.pc = "cleanup" /\ q.ok = s.ok /\ q.gate = s.gate
    BY <1>2, <1>4, <2>1, GotoRow
  <2>3. ~q.active /\ q.copy = r.copy /\ q.scratch = r.scratch /\ q.proof = r.proof
        /\ q.preview = r.preview /\ q.provider = r.provider /\ q.original = r.original
        /\ q.probe = s.probe
    BY <1>2, <2>2 DEF Rest
  <2> QED
    BY <1>1, <1>2, <1>3, <1>6, <2>2, <2>3
<1>7. CASE s.probe # 8
  <2>1. q = [s EXCEPT !.pc = "probe", !.probe = s.probe + 1]
    BY <1>3, <1>7, EightGates DEF ProbePassed
  <2>2. s.probe + 1 \in GateNumber
    BY <1>5, <1>7, EightGates
  <2>3. q \in JobRow
    BY <1>2, <1>4, <2>1, <2>2 DEF JobRow
  <2>4. /\ q.active = s.active /\ q.copy = s.copy /\ q.scratch = s.scratch /\ q.proof = s.proof
        /\ q.preview = s.preview /\ q.provider = s.provider /\ q.original = s.original
        /\ q.ok = s.ok /\ q.gate = s.gate /\ q.pc = "probe" /\ q.probe = s.probe + 1
    BY <1>2, <2>1 DEF JobRow
  <2> QED
    BY <1>1, <1>2, <1>3, <1>7, <2>3, <2>4
<1> QED
  BY <1>6, <1>7

(* A gate is expected to fail, and does or does not.                       *)
LEMMA ExpectFailureStep == ASSUME IInv, NEW j \in Job, ExpectFailure(j) PROVE IInv'
<1>1. /\ job[j].pc = "expect" \/ (job[j].pc = "probe" /\ Probe(j) \notin Writing)
      /\ UNCHANGED <<commits, head, ports, manifest>>
  BY DEF ExpectFailure, At
<1>2. job[j].pc \in Faulting
  BY <1>1 DEF Faulting
<1>3. PICK r \in JobRow : r = job[j]
  BY RunOf
<1>4. RowFits(r) /\ Named(r) /\ ports # j /\ r.copy = {} /\ (Probe(j) = "architecture" <=> r.probe = 1)
  BY <1>2, <1>3, RunOf, InFaultProof, ProbeNumbers
<1>5. Probe(j) = "architecture" => r.active
  <2>1. Probe(j) = "architecture" => r.pc = "expect"
    BY <1>1, <1>3 DEF Writing
  <2> QED
    BY <1>4, <2>1 DEF RowFits
<1>6. r.active => Probe(j) = "architecture"
  BY <1>4 DEF RowFits
<1>7. CASE /\ UNCHANGED slips
           /\ Writes(j, IF Probe(j) = "architecture" THEN Restored(j) ELSE work,
                     Withdrawn(j, Probe(j)), ProbePassed([r EXCEPT !.active = FALSE]))
           /\ abandoned' = (abandoned /\ work'.faulty)
  <2>1. PICK q \in JobRow : q = ProbePassed([r EXCEPT !.active = FALSE])
    BY ProbePassedRow
  <2>2. /\ ~q.active /\ q.copy = {} /\ q.preview = r.preview /\ q.provider = r.provider
        /\ q.pc \in {"probe", "cleanup"}
    BY <1>4, <2>1, ProbePassedRow
  <2>3. RowFits(q) /\ Named(q)
    BY <1>4, <2>2 DEF RowFits, Faulting, Copied, Asking, Named
  <2>4. PICK t : t = IF Probe(j) = "architecture" THEN Restored(j) ELSE work
    OBVIOUS
  <2>5. t \in TreeRow /\ (t.faulty => ~r.active /\ work.faulty)
    BY <1>2, <1>3, <1>5, <1>6, <2>4, InFaultProof
  <2>6. PICK u : u = Withdrawn(j, Probe(j))
    OBVIOUS
  <2>7. u \subseteq faults
    BY <2>6 DEF Withdrawn
  <2>8. Writes(j, t, u, q)
    BY <1>7, <2>1, <2>4, <2>6
  <2>9. work' = t
    BY <2>8 DEF Writes
  <2>10. t.faulty /\ ~abandoned' => commits[head].faulty \/ \E k \in Job \ {j} : job[k].active
    BY <1>3, <1>7, <2>5, <2>9, OthersKnow
  <2>11. abandoned' \in BOOLEAN
    BY <1>7
  <2>12. u \in SUBSET FaultType /\ q.pc \in Faulting
    BY <1>2, <2>2, <2>7, InFaultProof DEF Faulting
  <2>13. slips' \in 0..MaxSlips /\ ports' = ports
    BY <1>1, <1>7, RunOf
  <2> QED
    BY <1>1, <1>4, <2>3, <2>5, <2>7, <2>8, <2>10, <2>11, <2>12, <2>13, WritesStep
<1>8. CASE /\ UNCHANGED <<faults, work, abandoned>> /\ (Slip \/ UNCHANGED slips)
           /\ Becomes(j, [r EXCEPT !.pc = "cleanup", !.ok = FALSE])
  <2>1. PICK q : q = [r EXCEPT !.pc = "cleanup", !.ok = FALSE]
    OBVIOUS
  <2>2. "cleanup" \in Phase /\ "cleanup" \in Faulting
    BY DEF Phase, Faulting
  <2>3. q \in JobRow
    BY <2>1, <2>2 DEF JobRow
  <2>4. /\ q.pc = "cleanup" /\ q.scratch = r.scratch /\ q.copy = r.copy /\ q.active = r.active
        /\ q.preview = r.preview /\ q.provider = r.provider /\ q.probe = r.probe
        /\ q.original = r.original
    BY <2>1 DEF JobRow
  <2>5. RowFits(q) /\ Named(q)
    BY <1>4, <2>4 DEF RowFits, Faulting, Copied, Asking, Named
  <2>6. slips' \in 0..MaxSlips
    BY <1>8, RunOf, SlipOK
  <2> QED
    BY <1>1, <1>3, <1>4, <1>8, <2>1, <2>2, <2>3, <2>4, <2>5, <2>6, RunOf, BecomesStep
<1> QED
  BY <1>3, <1>7, <1>8 DEF ExpectFailure

(* What the cleanup makes of a record before the gate is left.             *)
LEMMA DoneRow ==
  ASSUME NEW r \in JobRow
  PROVE  LET d == [r EXCEPT !.active = FALSE, !.original = NoText, !.scratch = FALSE, !.probe = 1]
         IN  /\ d \in JobRow /\ ~d.active /\ d.original = NoText /\ ~d.scratch /\ d.probe = 1
             /\ d.copy = r.copy /\ d.preview = r.preview /\ d.provider = r.provider
             /\ d.gate = r.gate /\ d.ok = r.ok /\ d.proof = r.proof
<1>1. 1 \in GateNumber /\ NoText \in Text \cup {NoText}
  BY EightGates
<1>2. PICK d : d = [r EXCEPT !.active = FALSE, !.original = NoText, !.scratch = FALSE, !.probe = 1]
  OBVIOUS
<1>3. d \in JobRow
  BY <1>1, <1>2 DEF JobRow
<1>4. /\ ~d.active /\ d.original = NoText /\ ~d.scratch /\ d.probe = 1
      /\ d.copy = r.copy /\ d.preview = r.preview /\ d.provider = r.provider
      /\ d.gate = r.gate /\ d.ok = r.ok /\ d.proof = r.proof
  BY <1>2 DEF JobRow
<1> QED
  BY <1>2, <1>3, <1>4

(* What a run leaves of its fault files has no living owner.               *)
LEMMA LeftFaults ==
  ASSUME NEW j \in Job, faults \in SUBSET FaultType, NEW u, u \in {faults \ Own(j), Bequeathed(j)}
  PROVE  u \in SUBSET FaultType /\ \A f \in u : (f \in faults \/ f[1] = Dead) /\ f[1] # j
<1>1. j # Dead
  BY ProofConstants DEF Job
<1>2. CASE u = faults \ Own(j)
  BY <1>2 DEF Own
<1>3. CASE u = Bequeathed(j)
  <2>1. u = (faults \ Own(j)) \cup {<<Dead, f[2]>> : f \in Own(j)}
    BY <1>3 DEF Bequeathed
  <2>2. \A f \in Own(j) : <<Dead, f[2]>> \in FaultType
    BY DEF Own, FaultType
  <2> QED
    BY <1>1, <2>1, <2>2 DEF Own
<1> QED
  BY <1>2, <1>3

(* The finally block of the fail-closed prover, complete or not.           *)
LEMMA CleanupStep == ASSUME IInv, NEW j \in Job, Cleanup(j) \/ CleanupFails(j) PROVE IInv'
<1>1. job[j].pc = "cleanup" /\ UNCHANGED <<commits, head, ports, manifest>> /\ (Slip \/ UNCHANGED slips)
  BY DEF Cleanup, CleanupFails, At
<1>2. job[j].pc \in Faulting
  BY <1>1 DEF Faulting
<1>3. PICK r \in JobRow : r = job[j]
  BY RunOf
<1>4. RowFits(r) /\ Named(r) /\ ports # j /\ r.copy = {}
  BY <1>2, <1>3, RunOf, InFaultProof
<1>5. PICK d \in JobRow : d = [r EXCEPT !.active = FALSE, !.original = NoText, !.scratch = FALSE,
                                        !.probe = 1]
  BY DoneRow
<1>6. ~d.active /\ ~d.scratch /\ d.copy = {} /\ Named(d)
  BY <1>4, <1>5, DoneRow DEF Named
<1>7. \E q, t, u :
        /\ q = GatePassed(d) \/ q = GateFailed(d)
        /\ t = Undone(j) \/ (t = work /\ r.active)
        /\ u \in {faults \ Own(j), Bequeathed(j)}
        /\ Writes(j, t, u, q) /\ abandoned' \in BOOLEAN
        /\ t.faulty /\ ~abandoned' => ~abandoned /\ t = Undone(j)
  <2>1. CASE Cleanup(j)
    <3>1. PICK q : q = IF r.ok /\ CleanedUp(j) THEN GatePassed(d) ELSE GateFailed(d)
      OBVIOUS
    <3>2. Writes(j, Undone(j), faults \ Own(j), q) /\ abandoned' = (abandoned /\ work'.faulty)
      BY <1>3, <1>5, <2>1, <3>1 DEF Cleanup
    <3>3. work' = Undone(j)
      BY <3>2 DEF Writes
    <3>4. Undone(j).faulty /\ ~abandoned' => ~abandoned
      BY <3>2, <3>3
    <3>5. q = GatePassed(d) \/ q = GateFailed(d)
      BY <3>1
    <3>6. abandoned' \in BOOLEAN
      BY <3>2
    <3> QED
      BY <3>2, <3>4, <3>5, <3>6
  <2>2. CASE CleanupFails(j)
    <3>1. abandoned' = (work'.faulty /\ (abandoned \/ r.active))
      BY <1>3, <2>2 DEF CleanupFails
    <3>2. CASE Writes(j, Undone(j), Bequeathed(j), GateFailed(d))
      <4>1. work' = Undone(j)
        BY <3>2 DEF Writes
      <4>2. Undone(j).faulty /\ ~abandoned' => ~abandoned
        BY <3>1, <4>1
      <4>3. abandoned' \in BOOLEAN
        BY <3>1
      <4> QED
        BY <3>2, <4>2, <4>3
    <3>3. CASE r.active /\ Writes(j, work, faults \ Own(j), GateFailed(d))
      <4>1. work' = work
        BY <3>3 DEF Writes
      <4>2. ~(work.faulty /\ ~abandoned')
        BY <3>1, <3>3, <4>1
      <4>3. abandoned' \in BOOLEAN
        BY <3>1
      <4> QED
        BY <3>3, <4>2, <4>3
    <3>4. CASE Writes(j, Undone(j), faults \ Own(j), GateFailed(d))
      <4>1. work' = Undone(j)
        BY <3>4 DEF Writes
      <4>2. Undone(j).faulty /\ ~abandoned' => ~abandoned
        BY <3>1, <4>1
      <4>3. abandoned' \in BOOLEAN
        BY <3>1
      <4> QED
        BY <3>4, <4>2, <4>3
    <3> QED
      BY <1>3, <1>5, <2>2, <3>2, <3>3, <3>4 DEF CleanupFails
  <2> QED
    BY <2>1, <2>2
<1>8. PICK q, t, u :
        /\ q = GatePassed(d) \/ q = GateFailed(d)
        /\ t = Undone(j) \/ (t = work /\ r.active)
        /\ u \in {faults \ Own(j), Bequeathed(j)}
        /\ Writes(j, t, u, q) /\ abandoned' \in BOOLEAN
        /\ t.faulty /\ ~abandoned' => ~abandoned /\ t = Undone(j)
  BY <1>7
<1>9. q \in JobRow /\ RowFits(q) /\ Named(q)
  BY <1>6, <1>8, GateOver
<1>10. t \in TreeRow
  BY <1>2, <1>8, InFaultProof
<1>11. u \in SUBSET FaultType /\ \A f \in u : (f \in faults \/ f[1] = Dead) /\ f[1] # j
  BY <1>2, <1>8, InFaultProof, LeftFaults
<1>12. t.faulty /\ ~abandoned' => commits[head].faulty \/ \E k \in Job \ {j} : job[k].active
  BY <1>2, <1>8, InFaultProof, OthersKnow
<1>13. slips' \in 0..MaxSlips /\ ports' = ports
  BY <1>1, RunOf, SlipOK
<1> QED
  BY <1>1, <1>4, <1>8, <1>9, <1>10, <1>11, <1>12, <1>13, WritesStep
-----------------------------------------------------------------------------
(* A proof that fails ends its run, or its gate.                           *)
LEMMA ProofFailedRow ==
  ASSUME NEW r \in JobRow
  PROVE  LET q == ProofFailed(r)
         IN  /\ q \in JobRow /\ q.scratch = r.scratch /\ (~r.active => ~q.active)
             /\ r.copy = {} => q.copy = {}
             /\ q.preview = NoProof /\ q.provider \in {r.provider, NoProof}
             /\ r.proof = "provider" => q.pc = "failed" /\ q.provider = NoProof
             /\ r.proof # "provider" => q.pc = "down" /\ ~q.ok /\ q.gate = r.gate
             /\ q.proof = "none"
<1>1. PICK q : q = ProofFailed(r)
  OBVIOUS
<1>2. CASE r.proof = "provider"
  <2>1. q = Exit(r, FALSE)
    BY <1>1, <1>2 DEF ProofFailed
  <2>2. /\ q \in JobRow /\ q.scratch = r.scratch /\ ~q.active /\ q.copy = {} /\ q.preview = NoProof
        /\ q.provider = NoProof /\ q.pc = "failed" /\ q.proof = "none"
    BY <2>1, ExitRow
  <2> QED
    BY <1>1, <1>2, <2>2
<1>3. CASE r.proof # "provider"
  <2>1. PICK s : s = [r EXCEPT !.proof = "none", !.preview = NoProof, !.onward = "none"]
    OBVIOUS
  <2>2. s \in JobRow
    BY <2>1, FreshRow DEF JobRow
  <2>3. /\ s.scratch = r.scratch /\ s.active = r.active /\ s.copy = r.copy /\ s.preview = NoProof
        /\ s.provider = r.provider /\ s.proof = "none" /\ s.gate = r.gate
    BY <2>1 DEF JobRow
  <2>4. q = GateFailed(s)
    BY <1>1, <1>3, <2>1 DEF ProofFailed
  <2>5. q \in JobRow /\ Rest(q, s) /\ q.pc = "down" /\ ~q.ok /\ q.gate = s.gate
    BY <2>2, <2>4, GateFailedRow
  <2>6. /\ q.scratch = r.scratch /\ q.active = r.active /\ q.copy = r.copy /\ q.preview = NoProof
        /\ q.provider = r.provider /\ q.proof = "none"
    BY <2>3, <2>5 DEF Rest
  <2> QED
    BY <1>1, <1>3, <2>3, <2>5, <2>6
<1> QED
  BY <1>2, <1>3

(* The phases of the exact-SHA proofs.                                     *)
Proving == {"revision", "integration", "copy", "mutate", "judge", "scrap", "digest", "write",
            "head", "status"}

(* A run in a proof has no services up, no fault files and no fault.       *)
LEMMA InProof ==
  ASSUME IInv, NEW j \in Job,
         job[j].pc \in Proving \/ (job[j].pc = "gate" /\ Gate(j) \in {"sandbox-proof", "preview-proof"})
  PROVE  ports # j /\ Own(j) = {} /\ ~job[j].active
<1>1. Own(j) = {} /\ ~job[j].active
  BY RunOf DEF RowFits, Faulting, Proving
<1>2. ~(job[j].pc = "gate" /\ job[j].gate = 8 /\ Gate(j) \in {"sandbox-proof", "preview-proof"})
  BY GateNames DEF Gate
<1> QED
  BY <1>1, <1>2, RunOf DEF Serving, Proving

(* A step of a proof: only the record changes.                             *)
LEMMA ProofStep ==
  ASSUME IInv, NEW j \in Job,
         job[j].pc \in Proving \/ (job[j].pc = "gate" /\ Gate(j) \in {"sandbox-proof", "preview-proof"}),
         NEW q \in JobRow, Becomes(j, q), RowFits(q), Named(q),
         UNCHANGED <<commits, head, work, faults, abandoned, ports>>,
         manifest' \in [Levels -> ProofRow], slips' \in 0..MaxSlips
  PROVE  IInv'
  BY InProof, BecomesStep

(* A record of a proof that failed, with nothing left to remove.           *)
LEMMA ProofFailedFits ==
  ASSUME IInv, NEW r \in JobRow, ~r.scratch, r.copy = {}, ~r.active, Named(r)
  PROVE  ProofFailed(r) \in JobRow /\ RowFits(ProofFailed(r)) /\ Named(ProofFailed(r))
<1>1. PICK q \in JobRow : q = ProofFailed(r)
  BY ProofFailedRow
<1>2. /\ ~q.scratch /\ q.copy = {} /\ ~q.active /\ q.pc \in {"failed", "down"}
      /\ q.preview = NoProof /\ q.provider \in {r.provider, NoProof}
  BY <1>1, ProofFailedRow
<1>3. RowFits(q)
  BY <1>2, PlainFits DEF Copied
<1>4. Len(commits) \in Nat
  BY DEF IInv, TreeOK
<1>5. Named(q)
  BY <1>2, <1>4, FreshRow DEF Named
<1> QED
  BY <1>1, <1>3, <1>5

(* A record that moves between phases without scratch, copy and fault.     *)
LEMMA PlainGoto ==
  ASSUME NEW r \in JobRow, ~r.scratch, r.copy = {}, ~r.active, NEW pc \in Phase,
         pc \notin Copied \cup {"expect", "revision", "head", "status"}
  PROVE  Goto(r, pc) \in JobRow /\ RowFits(Goto(r, pc)) /\ (Named(r) => Named(Goto(r, pc)))
<1>1. PICK q \in JobRow : q = Goto(r, pc) /\ Rest(q, r) /\ q.pc = pc
  BY GotoRow
<1>2. RowFits(q)
  BY <1>1, PlainFits DEF Rest
<1> QED
  BY <1>1, <1>2 DEF Rest, Named

(* The record a proof looks at the tree with.                              *)
LEMMA LookingPlain ==
  ASSUME IInv, NEW j \in Job,
         \/ job[j].pc \in Proving \ Copied
         \/ job[j].pc = "gate" /\ Gate(j) \in {"sandbox-proof", "preview-proof"}
  PROVE  /\ Looking(job[j]) \in JobRow /\ Same(Looking(job[j]), job[j]) /\ Named(Looking(job[j]))
         /\ ~Looking(job[j]).scratch /\ Looking(job[j]).copy = {} /\ ~Looking(job[j]).active
         /\ job[j] \in JobRow /\ ~job[j].scratch /\ job[j].copy = {} /\ ~job[j].active /\ Named(job[j])
<1>1. job[j] \in JobRow /\ ~job[j].scratch /\ job[j].copy = {} /\ ~job[j].active /\ Named(job[j])
  <2>1. job[j].pc \notin Faulting \cup Copied
    BY DEF Faulting, Proving, Copied
  <2> QED
    BY <2>1, RunOf, NothingDue
<1>2. PICK r \in JobRow : r = Looking(job[j]) /\ Same(r, job[j])
  BY <1>1, LookingRow
<1>3. Named(r) /\ ~r.scratch /\ r.copy = {} /\ ~r.active
  BY <1>1, <1>2, SameFits DEF Same
<1> QED
  BY <1>1, <1>2, <1>3

(* An exact-SHA proof begins as a gate.                                    *)
LEMMA ProofGateStep == ASSUME IInv, NEW j \in Job, ProofGate(j) PROVE IInv'
<1>1. /\ job[j].pc = "gate" /\ Gate(j) \in {"sandbox-proof", "preview-proof"}
      /\ UNCHANGED <<commits, head, work, faults, abandoned, ports, manifest, slips>>
  BY DEF ProofGate, At
<1>2. PICK r \in JobRow : r = Looking(job[j]) /\ Named(r) /\ ~r.scratch /\ r.copy = {} /\ ~r.active
  BY <1>1, LookingPlain
<1>3. PICK pc : pc = IF Gate(j) = "preview-proof" THEN "revision" ELSE "integration"
  OBVIOUS
<1>4. pc \in Phase /\ pc \in {"revision", "integration"}
  BY <1>3 DEF Phase
<1>5. PICK on : on = [r EXCEPT !.pc = pc, !.proof = Gate(j)]
  OBVIOUS
<1>6. on \in JobRow
  BY <1>1, <1>4, <1>5 DEF JobRow
<1>7. /\ on.pc = pc /\ on.proof = Gate(j) /\ on.scratch = r.scratch /\ on.copy = r.copy
      /\ on.active = r.active /\ on.preview = r.preview /\ on.provider = r.provider
  BY <1>5 DEF JobRow
<1>8. PICK q : Becomes(j, q) /\ q \in {GateFailed(r), on}
  BY <1>2, <1>3, <1>5 DEF ProofGate
<1>9. q \in JobRow /\ RowFits(q) /\ Named(q)
  <2>1. CASE q = GateFailed(r)
    BY <1>2, <2>1, GateOver
  <2>2. CASE q = on
    <3>1. q.pc = "revision" => q.proof = "preview-proof"
      BY <1>3, <1>7, <2>2
    <3>2. RowFits(q)
      BY <1>2, <1>4, <1>7, <2>2, <3>1 DEF RowFits, Copied, Asking
    <3> QED
      BY <1>2, <1>6, <1>7, <2>2, <3>2 DEF Named
  <2> QED
    BY <1>8, <2>1, <2>2
<1> QED
  BY <1>1, <1>8, <1>9, RunOf, ProofStep

(* The proof takes note of its commit.                                     *)
LEMMA ReadRevisionStep == ASSUME IInv, NEW j \in Job, ReadRevision(j) PROVE IInv'
<1>1. /\ job[j].pc = "revision"
      /\ UNCHANGED <<commits, head, work, faults, abandoned, ports, manifest, slips>>
  BY DEF ReadRevision, At
<1>2. job[j].pc \in Proving \ Copied
  BY <1>1 DEF Proving, Copied
<1>3. PICK r \in JobRow : r = job[j] /\ Named(r) /\ ~r.scratch /\ r.copy = {} /\ ~r.active
  BY <1>2, LookingPlain
<1>4. PICK v : v = [NoProof EXCEPT !.sha = head]
  OBVIOUS
<1>5. v \in ProofRow /\ v.sha \in 0..Len(commits)
  <2>1. head \in 1..Len(commits)
    BY DEF IInv, TreeOK
  <2> QED
    BY <1>4, <2>1, BegunRow
<1>6. PICK q : /\ Becomes(j, q)
               /\ q \in {[r EXCEPT !.pc = "integration", !.preview = v],
                          [r EXCEPT !.pc = "gate", !.provider = v]}
  BY <1>3, <1>4 DEF ReadRevision
<1>7. q \in JobRow
  <2>1. {"integration", "gate"} \subseteq Phase
    BY DEF Phase
  <2> QED
    BY <1>5, <1>6, <2>1 DEF JobRow
<1>8. /\ q.pc \in {"integration", "gate"}
      /\ q.scratch = r.scratch /\ q.copy = r.copy /\ q.active = r.active
      /\ q.preview \in {r.preview, v} /\ q.provider \in {r.provider, v}
  BY <1>6 DEF JobRow
<1>9. RowFits(q)
  BY <1>3, <1>8, PlainFits DEF Copied
<1>10. Named(q)
  BY <1>3, <1>5, <1>8 DEF Named
<1> QED
  BY <1>1, <1>2, <1>6, <1>7, <1>9, <1>10, RunOf, ProofStep

(* The repository is checked: git is asked for HEAD.                       *)
LEMMA AskHeadStep == ASSUME IInv, NEW j \in Job, AskHead(j) PROVE IInv'
<1>1. /\ job[j].pc = "head"
      /\ UNCHANGED <<commits, head, work, faults, abandoned, ports, manifest, slips>>
  BY DEF AskHead, At
<1>2. job[j].pc \in Proving \ Copied
  BY <1>1 DEF Proving, Copied
<1>3. PICK r \in JobRow : r = job[j] /\ Named(r) /\ ~r.scratch /\ r.copy = {} /\ ~r.active
  BY <1>2, LookingPlain
<1>4. r.onward # "none"
  BY <1>1, <1>3, RunOf DEF RowFits, Asking
<1>5. PICK q : Becomes(j, q) /\ q \in {Goto(r, "status"), ProofFailed(r)}
  BY <1>3 DEF AskHead
<1>6. q \in JobRow /\ RowFits(q) /\ Named(q)
  <2>1. CASE q = Goto(r, "status")
    <3>1. q \in JobRow /\ Rest(q, r) /\ q.pc = "status"
      BY <2>1, GotoRow DEF Phase
    <3>2. RowFits(q)
      BY <1>3, <1>4, <3>1 DEF RowFits, Rest, Copied, Asking
    <3> QED
      BY <1>3, <3>1, <3>2 DEF Rest, Named
  <2>2. CASE q = ProofFailed(r)
    BY <1>3, <2>2, ProofFailedFits
  <2> QED
    BY <1>5, <2>1, <2>2
<1> QED
  BY <1>1, <1>2, <1>5, <1>6, RunOf, ProofStep

(* And for the tree's status: the run goes on, or ends.                    *)
LEMMA AskStatusStep == ASSUME IInv, NEW j \in Job, AskStatus(j) PROVE IInv'
<1>1. /\ job[j].pc = "status"
      /\ UNCHANGED <<commits, head, work, faults, abandoned, ports, manifest, slips>>
  BY DEF AskStatus, At
<1>2. job[j].pc \in Proving \ Copied
  BY <1>1 DEF Proving, Copied
<1>3. PICK r \in JobRow : r = job[j] /\ Named(r) /\ ~r.scratch /\ r.copy = {} /\ ~r.active
  BY <1>2, LookingPlain
<1>4. r.onward # "none"
  BY <1>1, <1>3, RunOf DEF RowFits, Asking
<1>5. PICK q : Becomes(j, q) /\ q \in {Checked(r), ProofFailed(r)}
  BY <1>3 DEF AskStatus
<1>6. q \in JobRow /\ RowFits(q) /\ Named(q)
  <2>1. CASE q = Checked(r) /\ r.onward = "passed"
    <3>1. q \in JobRow /\ q = Exit(r, TRUE)
      BY <1>4, <2>1, CheckedRow
    <3>2. /\ q.pc = "passed" /\ ~q.scratch /\ q.copy = {} /\ ~q.active
          /\ q.preview = NoProof /\ q.provider = NoProof
      BY <1>3, <3>1, ExitRow
    <3>3. Len(commits) \in Nat
      BY DEF IInv, TreeOK
    <3>4. RowFits(q)
      BY <3>2, PlainFits DEF Copied
    <3>5. Named(q)
      BY <3>2, <3>3, FreshRow DEF Named
    <3> QED
      BY <3>1, <3>4, <3>5
  <2>2. CASE q = Checked(r) /\ r.onward # "passed"
    <3>1. q \in JobRow /\ q.pc \in {"integration", "digest", "write"} /\ Alike(q, r)
      BY <1>4, <2>2, CheckedRow
    <3>2. RowFits(q)
      BY <1>3, <3>1, PlainFits DEF Alike, Copied
    <3> QED
      BY <1>3, <3>1, <3>2 DEF Alike, Named
  <2>3. CASE q = ProofFailed(r)
    BY <1>3, <2>3, ProofFailedFits
  <2> QED
    BY <1>5, <2>1, <2>2, <2>3
<1> QED
  BY <1>1, <1>2, <1>5, <1>6, RunOf, ProofStep

(* The integration proof.                                                  *)
LEMMA IntegrationStep == ASSUME IInv, NEW j \in Job, Integration(j) PROVE IInv'
<1>1. /\ job[j].pc = "integration"
      /\ UNCHANGED <<commits, head, work, faults, abandoned, ports, manifest, slips>>
  BY DEF Integration, At
<1>2. job[j].pc \in Proving \ Copied
  BY <1>1 DEF Proving, Copied
<1>3. PICK r \in JobRow : r = Looking(job[j]) /\ Named(r) /\ ~r.scratch /\ r.copy = {} /\ ~r.active
  BY <1>2, LookingPlain
<1>4. PICK q : Becomes(j, q) /\ q \in {Goto(r, "copy"), ProofFailed(r)}
  BY <1>3 DEF Integration
<1>5. "copy" \in Phase /\ "copy" \notin Copied \cup {"expect", "revision", "head", "status"}
  BY DEF Phase, Copied
<1>6. q \in JobRow /\ RowFits(q) /\ Named(q)
  BY <1>3, <1>4, <1>5, PlainGoto, ProofFailedFits
<1> QED
  BY <1>1, <1>2, <1>4, <1>6, RunOf, ProofStep

(* The mutation prover makes its copy.                                     *)
LEMMA CopyAndBaselineStep == ASSUME IInv, NEW j \in Job, CopyAndBaseline(j) PROVE IInv'
<1>1. /\ job[j].pc = "copy"
      /\ UNCHANGED <<commits, head, work, faults, abandoned, ports, manifest, slips>>
  BY DEF CopyAndBaseline, At
<1>2. job[j].pc \in Proving \ Copied
  BY <1>1 DEF Proving, Copied
<1>3. PICK r \in JobRow : r = Looking(job[j]) /\ Named(r) /\ ~r.active
  BY <1>2, LookingPlain
<1>4. PICK ok \in BOOLEAN : ok = (work.missing = {})
  OBVIOUS
<1>5. PICK s : s = [r EXCEPT !.copy = work.missing, !.scratch = TRUE, !.mutant = 1, !.ok = ok]
  OBVIOUS
<1>6. work.missing \in SUBSET Control /\ 1 \in 1..(Controls + 1) /\ 1 \in Control
  BY ProofConstants DEF IInv, TreeOK, TreeRow, Control
<1>7. s \in JobRow
  BY <1>5, <1>6 DEF JobRow
<1>8. /\ s.copy = work.missing /\ s.scratch /\ s.mutant = 1 /\ s.ok = ok /\ s.active = r.active
      /\ s.preview = r.preview /\ s.provider = r.provider
  BY <1>5 DEF JobRow
<1>9. PICK pc : pc = IF s.ok THEN "mutate" ELSE "scrap"
  OBVIOUS
<1>10. pc \in Phase
  BY <1>9 DEF Phase
<1>11. PICK q \in JobRow : q = Goto(s, pc) /\ Rest(q, s) /\ q.pc = pc
  BY <1>7, <1>10, GotoRow
<1>12. Becomes(j, q)
  BY <1>3, <1>4, <1>5, <1>9, <1>11 DEF CopyAndBaseline
<1>13. pc = "mutate" => s.copy = {}
  BY <1>4, <1>8, <1>9
<1>14. pc \in {"mutate", "scrap"}
  BY <1>9
<1>15. RowFits(q) /\ Named(q)
  BY <1>3, <1>6, <1>8, <1>11, <1>13, <1>14 DEF RowFits, Rest, Copied, Asking, Named
<1> QED
  BY <1>1, <1>2, <1>11, <1>12, <1>15, RunOf, ProofStep

(* A control is taken out of the copy.                                     *)
LEMMA ApplyExactlyOnceStep == ASSUME IInv, NEW j \in Job, ApplyExactlyOnce(j) PROVE IInv'
<1>1. /\ job[j].pc = "mutate"
      /\ UNCHANGED <<commits, head, work, faults, abandoned, ports, manifest, slips>>
  BY DEF ApplyExactlyOnce, At
<1>2. PICK r \in JobRow : r = job[j]
  BY RunOf
<1>3. r.copy = {} /\ r.mutant \in Control /\ r.scratch /\ ~r.active /\ Named(r)
  BY <1>1, <1>2, RunOf DEF RowFits, Copied
<1>4. PICK q : q = [r EXCEPT !.pc = "judge", !.copy = {r.mutant}]
  OBVIOUS
<1>5. Becomes(j, q)
  <2>1. r.copy \cup {r.mutant} = {r.mutant} /\ ~(r.mutant \in r.copy)
    BY <1>3
  <2> QED
    BY <1>2, <1>4, <2>1 DEF ApplyExactlyOnce
<1>6. "judge" \in Phase /\ {r.mutant} \in SUBSET Control
  BY <1>3 DEF Phase
<1>7. q \in JobRow
  BY <1>4, <1>6 DEF JobRow
<1>8. /\ q.pc = "judge" /\ q.copy = {r.mutant} /\ q.mutant = r.mutant /\ q.scratch = r.scratch
      /\ q.active = r.active /\ q.preview = r.preview /\ q.provider = r.provider
  BY <1>4 DEF JobRow
<1>9. RowFits(q) /\ Named(q)
  BY <1>3, <1>8 DEF RowFits, Copied, Asking, Named
<1> QED
  BY <1>1, <1>5, <1>7, <1>9, RunOf, ProofStep DEF Proving

(* A mutant is judged and its control put back.                            *)
LEMMA JudgeMutantStep == ASSUME IInv, NEW j \in Job, JudgeMutant(j) PROVE IInv'
<1>1. /\ job[j].pc = "judge" /\ (Slip \/ UNCHANGED slips)
      /\ UNCHANGED <<commits, head, work, faults, abandoned, ports, manifest>>
  BY DEF JudgeMutant, At
<1>2. PICK r \in JobRow : r = job[j]
  BY RunOf
<1>3. r.copy = {r.mutant} /\ r.mutant \in Control /\ r.scratch /\ ~r.active /\ Named(r)
  BY <1>1, <1>2, RunOf DEF RowFits, Copied
<1>4. PICK pc : pc = IF r.mutant + 1 > Controls THEN "scrap" ELSE "mutate"
  OBVIOUS
<1>5. pc \in Phase /\ pc \in {"scrap", "mutate"} /\ r.mutant + 1 \in 1..(Controls + 1)
      /\ (pc = "mutate" => r.mutant + 1 \in Control)
  BY <1>3, <1>4, ProofConstants DEF Phase, Control
<1>6. PICK s : s = [r EXCEPT !.copy = {}, !.mutant = r.mutant + 1, !.pc = pc]
  OBVIOUS
<1>7. s \in JobRow
  BY <1>5, <1>6 DEF JobRow
<1>8. /\ s.pc = pc /\ s.copy = {} /\ s.mutant = r.mutant + 1 /\ s.scratch = r.scratch
      /\ s.active = r.active /\ s.preview = r.preview /\ s.provider = r.provider
  BY <1>6 DEF JobRow
<1>9. RowFits(s) /\ Named(s)
  BY <1>3, <1>5, <1>8 DEF RowFits, Copied, Asking, Named
<1>10. [r EXCEPT !.copy = RestoredCopy(r), !.mutant = NextMutant(r),
                 !.pc = IF NextMutant(r) > Controls THEN "scrap" ELSE "mutate"] = s
  <2>1. RestoredCopy(r) = {} /\ NextMutant(r) = r.mutant + 1
    BY <1>3 DEF RestoredCopy, NextMutant
  <2> QED
    BY <1>4, <1>6, <2>1
<1>11. PICK q : Becomes(j, q) /\ q \in {s, [s EXCEPT !.ok = FALSE]}
  BY <1>2, <1>10 DEF JudgeMutant
<1>12. q \in JobRow /\ RowFits(q) /\ Named(q)
  <2>1. CASE q = s
    BY <1>7, <1>9, <2>1
  <2>2. CASE q = [s EXCEPT !.ok = FALSE]
    <3>1. q \in JobRow
      BY <1>7, <2>2 DEF JobRow
    <3>2. /\ q.pc = s.pc /\ q.copy = s.copy /\ q.mutant = s.mutant /\ q.scratch = s.scratch
          /\ q.active = s.active /\ q.preview = s.preview /\ q.provider = s.provider
          /\ q.probe = s.probe /\ q.original = s.original
      BY <1>7, <2>2 DEF JobRow
    <3>3. q.pc \in {"scrap", "mutate"}
      BY <1>5, <1>8, <3>2
    <3>4. RowFits(q) /\ Named(q)
      BY <1>9, <3>2, <3>3 DEF RowFits, Asking, Named
    <3> QED
      BY <3>1, <3>4
  <2> QED
    BY <1>11, <2>1, <2>2
<1>13. slips' \in 0..MaxSlips
  BY <1>1, RunOf, SlipOK
<1> QED
  BY <1>1, <1>11, <1>12, <1>13, RunOf, ProofStep DEF Proving

(* The copy is removed.                                                    *)
LEMMA RemoveCopyStep == ASSUME IInv, NEW j \in Job, RemoveCopy(j) PROVE IInv'
<1>1. /\ job[j].pc = "scrap" /\ (Slip \/ UNCHANGED slips)
      /\ UNCHANGED <<commits, head, work, faults, abandoned, ports, manifest>>
  BY DEF RemoveCopy, At
<1>2. PICK p \in JobRow : p = job[j]
  BY RunOf
<1>3. ~p.active /\ Named(p)
  BY <1>1, <1>2, RunOf DEF RowFits
<1>4. PICK r : r = [p EXCEPT !.copy = {}, !.scratch = FALSE, !.mutant = 1]
  OBVIOUS
<1>5. 1 \in 1..(Controls + 1)
  BY ProofConstants
<1>6. r \in JobRow
  BY <1>4, <1>5 DEF JobRow
<1>7. /\ r.copy = {} /\ ~r.scratch /\ r.active = p.active
      /\ r.preview = p.preview /\ r.provider = p.provider
  BY <1>4 DEF JobRow
<1>8. ~r.active /\ Named(r)
  BY <1>3, <1>7 DEF Named
<1>9. PICK s : s = [r EXCEPT !.proof = "none"]
  OBVIOUS
<1>10. s \in JobRow
  BY <1>6, <1>9 DEF JobRow
<1>11. /\ s.copy = r.copy /\ s.scratch = r.scratch /\ s.active = r.active
       /\ s.preview = r.preview /\ s.provider = r.provider
  BY <1>6, <1>9 DEF JobRow
<1>12. ~s.scratch /\ s.copy = {} /\ ~s.active /\ Named(s)
  BY <1>7, <1>8, <1>11 DEF Named
<1>13. PICK q : Becomes(j, q) /\ q \in {ProofFailed(r), Goto(r, "digest"), Check(r, "digest"),
                                       GatePassed(s)}
  <2>1. PICK q : q = IF ~r.ok \/ (r.proof = "provider" /\ work.missing # {}) THEN ProofFailed(r)
                ELSE CASE r.proof = "preview-proof" -> Goto(r, "digest")
                       [] r.proof = "provider" -> Check(r, "digest")
                       [] OTHER -> GatePassed(s)
    OBVIOUS
  <2>2. Becomes(j, q) \/ Becomes(j, ProofFailed(r))
    BY <1>2, <1>4, <1>9, <2>1 DEF RemoveCopy
  <2> QED
    BY <2>1, <2>2
<1>14. "digest" \in Phase /\ "digest" \notin Copied \cup {"expect", "revision", "head", "status"}
  BY DEF Phase, Copied
<1>15. q \in JobRow /\ RowFits(q) /\ Named(q)
  <2>1. CASE q = ProofFailed(r)
    BY <1>6, <1>7, <1>8, <2>1, ProofFailedFits
  <2>2. CASE q = Goto(r, "digest")
    BY <1>6, <1>7, <1>8, <1>14, <2>2, PlainGoto
  <2>3. CASE q = GatePassed(s)
    BY <1>10, <1>12, <2>3, GateOver
  <2>4. CASE q = Check(r, "digest")
    BY <1>6, <1>7, <1>8, <2>4, CheckFits
  <2> QED
    BY <1>13, <2>1, <2>2, <2>3, <2>4
<1>16. slips' \in 0..MaxSlips
  BY <1>1, RunOf, SlipOK
<1> QED
  BY <1>1, <1>13, <1>15, <1>16, RunOf, ProofStep DEF Proving

(* The digests are taken.                                                  *)
LEMMA DigestStep == ASSUME IInv, NEW j \in Job, DigestFiles(j) PROVE IInv'
<1>1. /\ job[j].pc = "digest"
      /\ UNCHANGED <<commits, head, work, faults, abandoned, ports, manifest, slips>>
  BY DEF DigestFiles, At
<1>2. job[j].pc \in Proving \ Copied
  BY <1>1 DEF Proving, Copied
<1>3. PICK r \in JobRow : r = Looking(job[j]) /\ Named(r) /\ ~r.scratch /\ r.copy = {} /\ ~r.active
  BY <1>2, LookingPlain
<1>4. PICK q : q = Check(r, "write") /\ Becomes(j, q)
  BY <1>3 DEF DigestFiles
<1>5. q \in JobRow /\ RowFits(q) /\ Named(q)
  BY <1>3, <1>4, CheckFits
<1> QED
  BY <1>1, <1>2, <1>4, <1>5, RunOf, ProofStep

(* The manifest is retained.                                               *)
LEMMA WriteManifestStep == ASSUME IInv, NEW j \in Job, WriteManifest(j) PROVE IInv'
<1>1. /\ job[j].pc = "write" /\ manifest' = [manifest EXCEPT ![Level(j)] = job[j][Level(j)]]
      /\ UNCHANGED <<commits, head, work, faults, abandoned, ports, slips>>
  BY DEF WriteManifest, At
<1>2. job[j].pc \in Proving \ Copied
  BY <1>1 DEF Proving, Copied
<1>3. PICK r \in JobRow : r = job[j] /\ Named(r) /\ ~r.scratch /\ r.copy = {} /\ ~r.active
  BY <1>2, LookingPlain
<1>4. manifest' \in [Levels -> ProofRow]
  <2>1. job[j][Level(j)] \in ProofRow /\ Level(j) \in Levels
    BY <1>3 DEF Level, JobRow, Levels
  <2> QED
    BY <1>1, <2>1, RunOf
<1>5. PICK s : s = [r EXCEPT !.proof = "none", !.preview = NoProof]
  OBVIOUS
<1>6. s \in JobRow
  BY <1>5, FreshRow DEF JobRow
<1>7. /\ s.copy = r.copy /\ s.scratch = r.scratch /\ s.active = r.active
      /\ s.preview = NoProof /\ s.provider = r.provider
  BY <1>5 DEF JobRow
<1>8. Len(commits) \in Nat
  BY DEF IInv, TreeOK
<1>9. ~s.scratch /\ s.copy = {} /\ ~s.active /\ Named(s)
  BY <1>3, <1>7, <1>8, FreshRow DEF Named
<1>10. PICK q : Becomes(j, q) /\ q \in {Check(r, "passed"), GatePassed(s)}
  BY <1>3, <1>5 DEF WriteManifest
<1>11. q \in JobRow /\ RowFits(q) /\ Named(q)
  <2>1. CASE q = Check(r, "passed")
    BY <1>3, <2>1, CheckFits
  <2>2. CASE q = GatePassed(s)
    BY <1>6, <1>9, <2>2, GateOver
  <2> QED
    BY <1>10, <2>1, <2>2
<1> QED
  BY <1>1, <1>2, <1>4, <1>10, <1>11, RunOf, ProofStep
-----------------------------------------------------------------------------
(* A run is killed: what it had in the tree has no owner any more.         *)
LEMMA KillStep == ASSUME IInv, NEW j \in Job, Kill(j) PROVE IInv'
<1>1. /\ Slip /\ Writes(j, work, Bequeathed(j), Goto(Fresh, "killed"))
      /\ abandoned' = (abandoned \/ (job[j].active /\ work.faulty))
      /\ ports' = (IF ports = j THEN Dead ELSE ports) /\ UNCHANGED <<commits, head, manifest>>
  BY DEF Kill
<1>2. PICK q : q = Goto(Fresh, "killed")
  OBVIOUS
<1>3. "killed" \in Phase /\ "killed" \notin Copied \cup {"expect", "revision", "head", "status"}
  BY DEF Phase, Ended, Copied
<1>4. Named(Fresh)
  <2>1. Len(commits) \in Nat
    BY DEF IInv, TreeOK
  <2> QED
    BY <2>1, FreshRow DEF Named
<1>5. q \in JobRow /\ RowFits(q) /\ Named(q)
  BY <1>2, <1>3, <1>4, FreshRow, PlainGoto
<1>6. /\ work \in TreeRow /\ faults \in SUBSET FaultType /\ abandoned \in BOOLEAN
      /\ job[j].active \in BOOLEAN
  BY RunOf DEF IInv, TreeOK, JobRow
<1>7. PICK u : u = Bequeathed(j)
  OBVIOUS
<1>8. u \in SUBSET FaultType /\ \A f \in u : (f \in faults \/ f[1] = Dead) /\ f[1] # j
  BY <1>6, <1>7, LeftFaults
<1>9. abandoned' \in BOOLEAN
  BY <1>1
<1>10. work.faulty /\ ~abandoned' => commits[head].faulty \/ \E k \in Job \ {j} : job[k].active
  BY <1>1, OthersKnow
<1>11. ports' \in {ports, Dead} /\ ports' # j
  BY <1>1, ProofConstants DEF Job
<1>12. slips' \in 0..MaxSlips
  BY <1>1, SlipOK
<1>13. Writes(j, work, u, q)
  BY <1>1, <1>2, <1>7
<1> QED
  BY <1>1, <1>5, <1>6, <1>8, <1>9, <1>10, <1>11, <1>12, <1>13, WritesStep

(* The author changes the tracked files.                                   *)
LEMMA TreeStep ==
  ASSUME IInv, NEW t \in TreeRow, Tree(t), UNCHANGED commits, head' \in DOMAIN commits,
         slips' \in 0..MaxSlips,
         t.faulty => commits[head'].faulty \/ (work.faulty /\ head' = head)
  PROVE  IInv'
<1>1. /\ Writes(None, t, faults, Fresh) /\ abandoned' = (t.faulty /\ (abandoned \/ ~work.faulty))
      /\ UNCHANGED <<ports, manifest>>
  BY DEF Tree
<1>2. abandoned' \in BOOLEAN
  BY <1>1
<1>3. t.faulty /\ ~abandoned' => commits[head'].faulty \/ \E k \in Job : job[k].active
  BY <1>1 DEF IInv, FaultKnown
<1> QED
  BY <1>1, <1>2, <1>3, AuthorWrites

(* The document or a control is edited.                                    *)
LEMMA EditStep == ASSUME IInv, Edit PROVE IInv'
<1>1. Slip /\ UNCHANGED <<commits, head>>
  BY DEF Edit
<1>2. work \in TreeRow /\ head \in DOMAIN commits
  BY DEF IInv, TreeOK
<1>3. PICK t : Tree(t) /\ t \in {[work EXCEPT !.text = 1 - work.text],
                                 [work EXCEPT !.missing = IF work.missing = {} THEN {Controls} ELSE {}]}
  BY DEF Edit
<1>4. t \in TreeRow /\ t.faulty = work.faulty
  <2>1. CASE t = [work EXCEPT !.text = 1 - work.text]
    <3>1. 1 - work.text \in Text
      BY <1>2 DEF TreeRow, Text
    <3> QED
      BY <1>2, <2>1, <3>1 DEF TreeRow
  <2>2. CASE t = [work EXCEPT !.missing = IF work.missing = {} THEN {Controls} ELSE {}]
    <3>1. PICK m \in SUBSET Control : m = IF work.missing = {} THEN {Controls} ELSE {}
      <4>1. Controls \in Control
        BY ProofConstants DEF Control
      <4> QED
        BY <4>1
    <3> QED
      BY <1>2, <2>2, <3>1 DEF TreeRow
  <2> QED
    BY <1>3, <2>1, <2>2
<1> QED
  BY <1>1, <1>2, <1>3, <1>4, SlipOK, TreeStep

(* The edits are discarded.                                                *)
LEMMA DiscardStep == ASSUME IInv, Discard PROVE IInv'
<1>1. /\ Tree(commits[head]) /\ UNCHANGED <<commits, head, slips>>
      /\ head \in DOMAIN commits /\ commits[head] \in TreeRow /\ slips \in 0..MaxSlips
  BY DEF Discard, IInv, TreeOK
<1> QED
  BY <1>1, TreeStep

(* A commit is checked out, and HEAD moves with the tree.                  *)
LEMMA CheckoutStep == ASSUME IInv, NEW c \in DOMAIN commits, Checkout(c) PROVE IInv'
<1>1. /\ Slip /\ head' = c /\ work' = commits[c]
      /\ job' = [k \in Job |-> Overtaking(HeadMoved(job[k]), commits[c], faults)]
      /\ abandoned' = (commits[c].faulty /\ (abandoned \/ ~work.faulty))
      /\ UNCHANGED <<commits, faults, ports, manifest>>
  BY DEF Checkout
<1>2. commits[c] \in TreeRow
  BY DEF IInv, TreeOK
<1>3. ASSUME NEW k \in Job PROVE job'[k] \in JobRow /\ Same(job'[k], job[k])
  <2>1. PICK r \in JobRow : r = HeadMoved(job[k]) /\ Same(r, job[k])
    BY RunOf, HeadMovedRow
  <2>2. job'[k] = Overtaking(r, commits[c], faults)
    BY <1>1, <2>1
  <2>3. job'[k] \in JobRow /\ Same(job'[k], r)
    BY <2>2, OvertakingRow
  <2> QED
    BY <2>1, <2>3 DEF Same
<1>4. job' \in [Job -> JobRow]
  BY <1>1, <1>3
<1>5. slips' \in 0..MaxSlips /\ abandoned' \in BOOLEAN
  BY <1>1, SlipOK
<1> QED
  BY <1>1, <1>2, <1>3, <1>4, <1>5, AuthorMoves

(* The tree is committed.                                                  *)
LEMMA CommitAllStep == ASSUME IInv, CommitAll PROVE IInv'
<1>1. /\ Slip /\ Len(commits) < MaxCommits
      /\ commits' = Append(commits, work) /\ head' = Len(commits')
      /\ job' = [k \in Job |-> HeadMoved(job[k])]
      /\ UNCHANGED <<work, faults, abandoned, ports, manifest>>
  BY DEF CommitAll
<1>2. TreeOK /\ JobsOK /\ AllFit /\ FaultKnown
  BY DEF IInv
<1>3. commits \in Seq(TreeRow) /\ work \in TreeRow /\ Len(commits) \in Nat
  BY <1>2 DEF TreeOK
<1>4. /\ commits' \in Seq(TreeRow) /\ Len(commits') = Len(commits) + 1 /\ head' \in DOMAIN commits'
      /\ commits'[head'] = work
  BY <1>1, <1>3
<1>5. Len(commits') <= MaxCommits
  BY <1>1, <1>3, <1>4, ProofConstants
<1>6. TreeOK'
  BY <1>1, <1>2, <1>4, <1>5, SlipOK DEF TreeOK
<1>7. ASSUME NEW k \in Job PROVE job'[k] \in JobRow /\ Same(job'[k], job[k])
  BY <1>1, RunOf, HeadMovedRow
<1>8. JobsOK'
  <2>1. job' \in [Job -> JobRow]
    BY <1>1, <1>7
  <2>2. ASSUME NEW k \in Job PROVE Named(job[k])'
    <3>1. Named(job[k])
      BY RunOf
    <3> QED
      BY <1>3, <1>4, <1>7, <3>1 DEF Same, Named
  <2> QED
    BY <2>1, <2>2 DEF JobsOK
<1>9. AllFit'
  <2>1. ASSUME NEW k \in Job PROVE JobFits(k)'
    <3>1. JobFits(k)
      BY <1>2 DEF AllFit
    <3>2. RowFits(job'[k]) /\ (Serving(job[k]) => Serving(job'[k])) /\ job'[k].pc = job[k].pc
      BY <1>7, <3>1, SameFits DEF JobFits, Same
    <3>3. RowFits(job[k])' /\ (ports = k => Serving(job[k]))'
      BY <1>1, <3>1, <3>2 DEF JobFits, RowFits, Serving
    <3>4. (Own(k) # {} => job[k].pc \in Faulting)'
      BY <1>1, <3>1, <3>2 DEF JobFits, Own
    <3> QED
      BY <3>3, <3>4 DEF JobFits
  <2> QED
    BY <2>1 DEF AllFit
<1>10. FaultKnown'
  BY <1>1, <1>4 DEF FaultKnown
<1> QED
  BY <1>6, <1>8, <1>9, <1>10 DEF IInv

(* What a killed run left is removed.                                      *)
LEMMA SweepResidueStep == ASSUME IInv, SweepResidue PROVE IInv'
<1>1. PICK u : u = {f \in faults : f[1] # Dead}
  OBVIOUS
<1>2. /\ Writes(None, work, u, Fresh) /\ ports' \in {ports, None}
      /\ UNCHANGED <<commits, head, abandoned, manifest, slips>>
  BY <1>1 DEF SweepResidue
<1>3. /\ work \in TreeRow /\ head \in DOMAIN commits /\ abandoned \in BOOLEAN /\ slips \in 0..MaxSlips
      /\ u \in SUBSET faults
  BY <1>1 DEF IInv, TreeOK
<1>4. work.faulty /\ ~abandoned' => commits[head'].faulty \/ \E k \in Job : job[k].active
  BY <1>2 DEF IInv, FaultKnown
<1> QED
  BY <1>2, <1>3, <1>4, AuthorWrites

(* The invariant holds at the start.                                       *)
LEMMA InitIInv == Init => IInv
<1>1. SUFFICES ASSUME Init PROVE IInv
  OBVIOUS
<1>2. FirstTree \in TreeRow /\ ~FirstTree.faulty
  BY DEF FirstTree, TreeRow, Text
<1>3. commits \in Seq(TreeRow) /\ Len(commits) = 1 /\ head \in DOMAIN commits
  BY <1>1, <1>2 DEF Init
<1>4. manifest \in [Levels -> ProofRow] /\ job \in [Job -> JobRow] /\ \A j \in Job : job[j] = Fresh
  BY <1>1, FreshRow DEF Init
<1>5. TreeOK
  <2>1. Len(commits) <= MaxCommits /\ slips \in 0..MaxSlips
    BY <1>1, <1>3, ProofConstants DEF Init
  <2>2. work \in TreeRow /\ faults \subseteq FaultType /\ abandoned \in BOOLEAN
        /\ ports \in Job \cup {None, Dead}
    BY <1>1, <1>2 DEF Init
  <2> QED
    BY <1>3, <1>4, <2>1, <2>2 DEF TreeOK
<1>6. JobsOK
  BY <1>3, <1>4, FreshRow DEF JobsOK, Named
<1>7. AllFit
  <2>1. RowFits(Fresh)
    BY FreshRow, PlainFits DEF Copied
  <2>2. \A j \in Job : Own(j) = {} /\ ports # j
    BY <1>1, ProofConstants DEF Init, Own, Job
  <2> QED
    BY <1>4, <2>1, <2>2 DEF AllFit, JobFits
<1>8. FaultKnown
  BY <1>1, <1>2 DEF Init, FaultKnown
<1> QED
  BY <1>5, <1>6, <1>7, <1>8 DEF IInv

(* Every step of a run, a kill or the author keeps the invariant.          *)
LEMMA NextIInv == IInv /\ [Next]_vars => IInv'
<1>1. SUFFICES ASSUME IInv, [Next]_vars PROVE IInv'
  OBVIOUS
<1>2. ASSUME NEW j \in Job, Step(j) PROVE IInv'
  <2>1. CASE Verify(j)
    BY <1>1, <2>1, ReadingGateStep, DependenciesGateStep, ComposeDownStep DEF Verify
  <2>2. CASE FaultProof(j)
    BY <1>1, <2>2, FailClosedGateStep, InjectFaultStep, ExpectFailureStep, CleanupStep DEF FaultProof
  <2>3. CASE Proof(j)
    BY <1>1, <2>3, ProofGateStep, ReadRevisionStep, IntegrationStep, CopyAndBaselineStep,
       ApplyExactlyOnceStep, JudgeMutantStep, RemoveCopyStep, DigestStep, AskHeadStep, AskStatusStep,
       WriteManifestStep DEF Proof
  <2> QED
    BY <1>2, <2>1, <2>2, <2>3 DEF Step
<1>3. ASSUME NEW j \in Job, StartProver(j) \/ StartVerify(j) \/ CleanupFails(j) \/ Kill(j) PROVE IInv'
  BY <1>1, <1>3, StartProverStep, StartVerifyStep, CleanupStep, KillStep
<1>4. CASE Author
  BY <1>1, <1>4, EditStep, CommitAllStep, CheckoutStep, DiscardStep, SweepResidueStep DEF Author
<1>5. CASE UNCHANGED vars
  BY <1>1, <1>5 DEF vars, IInv, TreeOK, JobsOK, Named, AllFit, JobFits, RowFits, Own, Serving, FaultKnown
<1> QED
  BY <1>1, <1>2, <1>3, <1>4, <1>5 DEF Next

(* The inductive invariant holds throughout.                               *)
THEOREM InductiveInvariant == Spec => []IInv
  BY InitIInv, NextIInv, PTL DEF Spec

(* A run that ends by itself, well or not, has removed its fault files,    *)
(* put the boundary document back, stopped its services and deleted its    *)
(* copies, or is the one that reported that it could not: the finally      *)
(* blocks of prove-gates-fail-closed.mjs and verify-ci.mjs, whoever else   *)
(* verifies, edits, commits or is killed meanwhile.                        *)
THEOREM RunsLeaveNothing == Spec => []EndedLeavesNothing
<1>1. IInv => EndedLeavesNothing
  <2>1. SUFFICES ASSUME IInv PROVE EndedLeavesNothing
    OBVIOUS
  <2>2. TypeOK
    <3>1. faults \subseteq (Job \cup {Dead}) \X Writing
      BY <2>1 DEF IInv, TreeOK, FaultType
    <3>2. ASSUME NEW j \in Job
          PROVE  /\ job[j].preview.sha \in 0..Len(commits) /\ job[j].provider.sha \in 0..Len(commits)
                 /\ job[j].copy # {} => job[j].scratch
                 /\ job[j].active => job[j].original # NoText
      BY <2>1, RunOf DEF Named, RowFits
    <3> QED
      BY <2>1, <3>1, <3>2 DEF IInv, TreeOK, JobsOK, TypeOK
  <2>3. ASSUME NEW j \in Job, job[j].pc \in Ended PROVE Own(j) = {} /\ ports # j /\ ~job[j].scratch
    BY <2>1, <2>3, RunOf DEF RowFits, Ended, Faulting, Copied, Serving
  <2> QED
    BY <2>1, <2>2, <2>3 DEF EndedLeavesNothing, IInv, FaultKnown
<1> QED
  BY <1>1, InductiveInvariant, PTL

(* A mutant is judged in a copy in which its control alone is missing, in  *)
(* the mutation provers' loop of applying, judging and restoring.          *)
THEOREM MutantsJudgedAlone == Spec => []MutantsAreIsolated
<1>1. IInv => MutantsAreIsolated
  <2>1. SUFFICES ASSUME IInv, NEW j \in Job, job[j].pc = "judge" PROVE job[j].copy = {job[j].mutant}
    BY DEF MutantsAreIsolated, At
  <2> QED
    BY <2>1, RunOf DEF RowFits
<1> QED
  BY <1>1, InductiveInvariant, PTL
-----------------------------------------------------------------------------
(* What the retained evidence rests on.  A proof that read a tree that was *)
(* not its commit's has strayed, and the tree is off still or was brought  *)
(* back.                                                                   *)
Seen(p, c, w, u) == p.strayed => p.sha # 0 /\ (p.missed \/ w # c[p.sha] \/ u # {})

(* The phases after the integration proof, and those of them in which it   *)
(* has passed; and the phases in which a run has not read the boundary     *)
(* document or has failed.                                                 *)
Judged == {"copy", "mutate", "judge", "scrap", "digest", "write", "head", "status"}
Held(r) == r.pc \in Judged /\ (r.pc \in Asking => r.onward # "integration")
Early(r) == (r.pc = "gate" /\ r.gate = 1) \/ (r.pc = "down" /\ ~r.ok)

Intact(p, c)   == p.sha # 0 /\ ~p.strayed => ~c[p.sha].faulty
Complete(p, c) == p.sha # 0 /\ ~p.strayed => c[p.sha].missing = {}

(* HEAD was the commit of a proof that asks for the tree's status, or      *)
(* moved since.                                                            *)
Excused(p) == p.strayed => p.missed
Asked(r, h) == r.pc = "status" => LevelOf(r).sha = h \/ Excused(LevelOf(r))

Exact(r, h, c, w, u) ==
  /\ Seen(r.preview, c, w, u) /\ Seen(r.provider, c, w, u)
  /\ Early(r) \/ Intact(r.provider, c)
  /\ Held(r) => Complete(LevelOf(r), c)
  /\ Asked(r, h)
  /\ r.pc = "write" => Excused(LevelOf(r))

Retained(l, p, c) ==
  p.sha # 0 /\ ~p.missed =>
    ~p.strayed /\ c[p.sha].missing = {} /\ (l = "provider" => ~c[p.sha].faulty)

RunsExact == \A j \in Job : Exact(job[j], head, commits, work, faults)

EvidenceExact ==
  \A l \in Levels : manifest[l].sha \in 0..Len(commits) /\ Retained(l, manifest[l], commits)

EInv == RunsExact /\ EvidenceExact

(* A run without proofs under way has nothing to be held to.               *)
LEMMA NoneExact ==
  ASSUME NEW q, q.preview = NoProof, q.provider = NoProof, NEW h, NEW c, NEW w, NEW u
  PROVE  Exact(q, h, c, w, u)
  BY FreshRow DEF Exact, Seen, Intact, Complete, LevelOf, Asked, Excused

(* A run outside the proofs' phases keeps what it has seen, or drops it.   *)
LEMMA CarriedOut ==
  ASSUME NEW r, NEW q, NEW h, NEW c, NEW w, NEW u, Exact(r, h, c, w, u), q.pc \notin Judged,
         q.preview \in {r.preview, NoProof}, q.provider \in {r.provider, NoProof},
         ~Early(r) \/ Early(q)
  PROVE  Exact(q, h, c, w, u)
<1>1. Seen(q.preview, c, w, u) /\ Seen(q.provider, c, w, u)
  BY FreshRow DEF Exact, Seen
<1>2. Early(q) \/ Intact(q.provider, c)
  BY FreshRow DEF Exact, Intact
<1> QED
  BY <1>1, <1>2 DEF Exact, Judged, Held, Asked

(* A run goes on within a proof.                                           *)
LEMMA CarriedOn ==
  ASSUME NEW r, NEW q, NEW h, NEW c, NEW w, NEW u, Exact(r, h, c, w, u), Held(r),
         q.pc \notin {"write", "status"}, q.preview = r.preview, q.provider = r.provider, q.proof = r.proof
  PROVE  Exact(q, h, c, w, u)
  BY DEF Exact, Judged, Held, Early, LevelOf, Asked

(* A step that looks at the tree: a proof that has not strayed afterwards  *)
(* has read its commit.                                                    *)
LEMMA LookedExact ==
  ASSUME NEW r \in JobRow, Exact(r, head, commits, work, faults),
         r.pc \notin {"write", "status"}
  PROVE  /\ Exact(Looking(r), head, commits, work, faults)
         /\ LET p == LevelOf(Looking(r))
            IN  p.sha # 0 /\ ~p.strayed => work = commits[p.sha] /\ faults = {}
         /\ LET p == Looking(r).provider
            IN  p.sha # 0 /\ ~p.strayed => work = commits[p.sha] /\ faults = {}
<1>1. PICK q \in JobRow : /\ q = Looking(r) /\ Same(q, r)
                          /\ q.preview = Looked(r.preview) /\ q.provider = Looked(r.provider)
  BY LookingRow
<1>2. ASSUME NEW p \in ProofRow, NEW v, v = Looked(p)
      PROVE  /\ v.sha = p.sha /\ (p.strayed => v.strayed)
             /\ Seen(p, commits, work, faults) => Seen(v, commits, work, faults)
             /\ v.sha # 0 /\ ~v.strayed => work = commits[v.sha] /\ faults = {}
  <2>1. v.sha = p.sha /\ v.missed = p.missed
        /\ (v.strayed <=> p.strayed \/ (p.sha # 0 /\ Off(p.sha, work, faults)))
    BY <1>2, LookedRow
  <2> QED
    BY <2>1 DEF Seen, Off
<1>3. r.preview \in ProofRow /\ r.provider \in ProofRow
  BY DEF JobRow
<1>4. /\ q.preview.sha = r.preview.sha /\ (r.preview.strayed => q.preview.strayed)
      /\ Seen(r.preview, commits, work, faults) => Seen(q.preview, commits, work, faults)
      /\ q.preview.sha # 0 /\ ~q.preview.strayed => work = commits[q.preview.sha] /\ faults = {}
  BY <1>1, <1>2, <1>3
<1>5. /\ q.provider.sha = r.provider.sha /\ (r.provider.strayed => q.provider.strayed)
      /\ Seen(r.provider, commits, work, faults) => Seen(q.provider, commits, work, faults)
      /\ q.provider.sha # 0 /\ ~q.provider.strayed => work = commits[q.provider.sha] /\ faults = {}
  BY <1>1, <1>2, <1>3
<1>6. q.pc = r.pc /\ q.gate = r.gate /\ q.ok = r.ok /\ q.proof = r.proof /\ q.onward = r.onward
  BY <1>1 DEF Same
<1>7. Seen(q.preview, commits, work, faults) /\ Seen(q.provider, commits, work, faults)
  BY <1>4, <1>5 DEF Exact
<1>8. Early(q) \/ Intact(q.provider, commits)
  BY <1>5, <1>6 DEF Exact, Early, Intact
<1>9. Held(q) => Complete(LevelOf(q), commits)
  BY <1>4, <1>5, <1>6 DEF Exact, Complete, LevelOf, Held
<1>10. Exact(q, head, commits, work, faults)
  BY <1>6, <1>7, <1>8, <1>9 DEF Exact, Asked
<1> QED
  BY <1>1, <1>4, <1>5, <1>10 DEF LevelOf

(* The tree changes under a run: what strayed and came back is known.      *)
LEMMA OvertakenExact ==
  ASSUME NEW r \in JobRow, NEW t, NEW v, NEW h, Exact(r, h, commits, work, faults)
  PROVE  Exact(Overtaking(r, t, v), h, commits, t, v)
<1>1. PICK q \in JobRow : /\ q = Overtaking(r, t, v) /\ Same(q, r)
                          /\ q.preview = Overtaken(r.preview, t, v)
                          /\ q.provider = Overtaken(r.provider, t, v)
  BY OvertakingRow
<1>2. ASSUME NEW p \in ProofRow, NEW s, s = Overtaken(p, t, v)
      PROVE  /\ s.sha = p.sha /\ s.strayed = p.strayed /\ (p.missed => s.missed)
             /\ Seen(p, commits, work, faults) => Seen(s, commits, t, v)
  <2>1. /\ s.sha = p.sha /\ s.strayed = p.strayed
        /\ s.missed <=> p.missed \/ (p.strayed /\ Off(p.sha, work, faults) /\ ~Off(p.sha, t, v))
    BY <1>2, OvertakenRow
  <2> QED
    BY <2>1 DEF Seen, Off
<1>3. r.preview \in ProofRow /\ r.provider \in ProofRow
  BY DEF JobRow
<1>4. /\ q.preview.sha = r.preview.sha /\ q.preview.strayed = r.preview.strayed
      /\ r.preview.missed => q.preview.missed
      /\ Seen(r.preview, commits, work, faults) => Seen(q.preview, commits, t, v)
  BY <1>1, <1>2, <1>3
<1>5. /\ q.provider.sha = r.provider.sha /\ q.provider.strayed = r.provider.strayed
      /\ r.provider.missed => q.provider.missed
      /\ Seen(r.provider, commits, work, faults) => Seen(q.provider, commits, t, v)
  BY <1>1, <1>2, <1>3
<1>6. q.pc = r.pc /\ q.gate = r.gate /\ q.ok = r.ok /\ q.proof = r.proof /\ q.onward = r.onward
  BY <1>1 DEF Same
<1>7. Seen(q.preview, commits, t, v) /\ Seen(q.provider, commits, t, v)
  BY <1>4, <1>5 DEF Exact
<1>8. Early(q) \/ Intact(q.provider, commits)
  BY <1>5, <1>6 DEF Exact, Early, Intact
<1>9. Held(q) => Complete(LevelOf(q), commits)
  BY <1>4, <1>5, <1>6 DEF Exact, Complete, LevelOf, Held
<1>10. Asked(q, h) /\ (q.pc = "write" => Excused(LevelOf(q)))
  BY <1>4, <1>5, <1>6 DEF Exact, Asked, Excused, LevelOf
<1> QED
  BY <1>1, <1>7, <1>8, <1>9, <1>10 DEF Exact

(* HEAD moves under a run: a check that has asked for it misses what       *)
(* strayed.                                                                *)
LEMMA HeadMovedExact ==
  ASSUME NEW r \in JobRow, NEW h, NEW m, Exact(r, h, commits, work, faults)
  PROVE  Exact(HeadMoved(r), m, commits, work, faults)
<1>1. PICK q \in JobRow :
        /\ q = HeadMoved(r) /\ Same(q, r)
        /\ q.preview.strayed = r.preview.strayed /\ (r.preview.missed => q.preview.missed)
        /\ q.provider.strayed = r.provider.strayed /\ (r.provider.missed => q.provider.missed)
        /\ q.pc = "status" /\ LevelOf(q).strayed => LevelOf(q).missed
  BY HeadMovedRow
<1>2. /\ q.pc = r.pc /\ q.gate = r.gate /\ q.ok = r.ok /\ q.proof = r.proof /\ q.onward = r.onward
      /\ q.preview.sha = r.preview.sha /\ q.provider.sha = r.provider.sha
  BY <1>1 DEF Same
<1>3. Seen(q.preview, commits, work, faults) /\ Seen(q.provider, commits, work, faults)
  BY <1>1, <1>2 DEF Exact, Seen
<1>4. Early(q) \/ Intact(q.provider, commits)
  BY <1>1, <1>2 DEF Exact, Early, Intact
<1>5. Held(q) => Complete(LevelOf(q), commits)
  BY <1>1, <1>2 DEF Exact, Complete, LevelOf, Held
<1>6. Asked(q, m) /\ (q.pc = "write" => Excused(LevelOf(q)))
  BY <1>1, <1>2 DEF Exact, Asked, Excused, LevelOf
<1> QED
  BY <1>1, <1>3, <1>4, <1>5, <1>6 DEF Exact

(* A run takes a step that leaves the tree and the evidence alone.         *)
LEMMA BecomesExact ==
  ASSUME IInv, EInv, NEW j \in Job, NEW q, Becomes(j, q), Exact(q, head, commits, work, faults),
         UNCHANGED <<commits, head, work, faults, manifest>>
  PROVE  EInv'
<1>1. job'[j] = q /\ \A k \in Job \ {j} : job'[k] = job[k]
  BY DEF IInv, JobsOK, Becomes
<1>2. \A k \in Job : Exact(job'[k], head, commits, work, faults)
  BY <1>1 DEF EInv, RunsExact
<1>3. RunsExact'
  BY <1>2 DEF RunsExact, Exact, Seen, Intact, Complete, Asked
<1>4. EvidenceExact'
  BY DEF EInv, EvidenceExact, Retained
<1> QED
  BY <1>3, <1>4 DEF EInv

(* The tree is written by a run or by the author.                          *)
LEMMA WritesExact ==
  ASSUME IInv, EInv, NEW j, NEW q \in JobRow, NEW t, NEW u, Writes(j, t, u, q),
         Exact(q, head, commits, work, faults), UNCHANGED <<commits, head, manifest>>
  PROVE  EInv'
<1>1. /\ job' = [k \in Job |-> Overtaking(IF k = j THEN q ELSE job[k], t, u)]
      /\ work' = t /\ faults' = u
  BY DEF Writes
<1>2. ASSUME NEW k \in Job PROVE Exact(job'[k], head, commits, t, u)
  <2>1. PICK r : r = IF k = j THEN q ELSE job[k]
    OBVIOUS
  <2>2. r \in JobRow /\ Exact(r, head, commits, work, faults)
    BY <2>1 DEF IInv, JobsOK, EInv, RunsExact
  <2>3. job'[k] = Overtaking(r, t, u)
    BY <1>1, <2>1
  <2> QED
    BY <2>2, <2>3, OvertakenExact
<1>3. RunsExact'
  BY <1>1, <1>2 DEF RunsExact, Exact, Seen, Intact, Complete, Asked
<1>4. EvidenceExact'
  BY DEF EInv, EvidenceExact, Retained
<1> QED
  BY <1>3, <1>4 DEF EInv

(* A run starts.                                                           *)
LEMMA StartExact == ASSUME IInv, EInv, NEW j \in Job, StartProver(j) \/ StartVerify(j) PROVE EInv'
<1>1. UNCHANGED <<commits, head, work, faults, manifest>>
  BY DEF StartProver, StartVerify
<1>2. PICK q : /\ Becomes(j, q)
               /\ q \in {Goto(Fresh, "revision"), Exit(Fresh, FALSE), Goto(Fresh, "gate")}
  BY DEF StartProver, StartVerify
<1>3. Exact(q, head, commits, work, faults)
  <2>1. CASE q = Exit(Fresh, FALSE)
    BY <2>1, FreshRow, ExitRow, NoneExact
  <2>2. ASSUME NEW pc \in Phase, q = Goto(Fresh, pc) PROVE Exact(q, head, commits, work, faults)
    <3>1. Rest(q, Fresh)
      BY <2>2, FreshRow, GotoRow
    <3> QED
      BY <3>1, FreshRow, NoneExact DEF Rest
  <2>3. "revision" \in Phase /\ "gate" \in Phase
    BY DEF Phase
  <2> QED
    BY <1>2, <2>1, <2>2, <2>3
<1> QED
  BY <1>1, <1>2, <1>3, BecomesExact

(* The phase and the proofs of a record that leaves a gate.                *)
LEMMA GateLeft ==
  ASSUME NEW r \in JobRow, NEW q, q = GatePassed(r) \/ q = GateFailed(r)
  PROVE  /\ q.preview = r.preview /\ q.provider = r.provider /\ q.pc \notin Judged
         /\ q = GateFailed(r) => Early(q)
<1>1. CASE q = GatePassed(r)
  <2>1. Rest(q, r) /\ q.pc \in {"down", "gate"} /\ q.ok
    BY <1>1, GatePassedRow
  <2>2. q = GateFailed(r) => ~q.ok
    BY GateFailedRow
  <2> QED
    BY <2>1, <2>2 DEF Rest, Judged
<1>2. CASE q = GateFailed(r)
  BY <1>2, GateFailedRow DEF Rest, Judged, Early
<1> QED
  BY <1>1, <1>2

(* A gate that reads: the first one has read the boundary document.        *)
LEMMA ReadingGateExact == ASSUME IInv, EInv, NEW j \in Job, ReadingGate(j) PROVE EInv'
<1>1. job[j].pc = "gate" /\ UNCHANGED <<commits, head, work, faults, manifest>>
  BY DEF ReadingGate, At
<1>2. job[j] \in JobRow /\ Exact(job[j], head, commits, work, faults)
  BY DEF IInv, JobsOK, EInv, RunsExact
<1>3. PICK r \in JobRow : r = Looking(job[j]) /\ Same(r, job[j])
  BY <1>2, LookingRow
<1>4. /\ Exact(r, head, commits, work, faults)
      /\ r.provider.sha # 0 /\ ~r.provider.strayed => work = commits[r.provider.sha]
  BY <1>1, <1>2, <1>3, LookedExact
<1>5. r.pc = "gate" /\ r.gate = job[j].gate /\ r.gate \in 1..8
  BY <1>1, <1>3, RunOf DEF Same
<1>6. PICK pass \in GateOutcomes(j, Gate(j)) : Becomes(j, IF pass THEN GatePassed(r) ELSE GateFailed(r))
  BY <1>3 DEF ReadingGate
<1>7. PICK q : q = IF pass THEN GatePassed(r) ELSE GateFailed(r)
  OBVIOUS
<1>8. CASE q = GateFailed(r)
  BY <1>1, <1>4, <1>6, <1>7, <1>8, GateLeft, CarriedOut, BecomesExact
<1>9. CASE q = GatePassed(r) /\ pass
  <2>1. q.preview = r.preview /\ q.provider = r.provider /\ q.pc \notin Judged
    BY <1>9, GateLeft
  <2>2. CASE r.gate # 1
    <3>1. ~Early(r)
      BY <1>5, <2>2 DEF Early
    <3> QED
      BY <1>1, <1>4, <1>6, <1>7, <2>1, <3>1, CarriedOut, BecomesExact
  <2>3. CASE r.gate = 1
    <3>1. Gate(j) = "architecture"
      BY <1>5, <2>3, GateNames DEF Gate
    <3>2. ~work.faulty
      BY <1>6, <1>9, <3>1 DEF GateOutcomes, Hit
    <3>3. Intact(r.provider, commits)
      BY <1>4, <3>2 DEF Intact
    <3>4. Exact(q, head, commits, work, faults)
      BY <1>4, <2>1, <3>3 DEF Exact, Judged, Held, Asked
    <3> QED
      BY <1>1, <1>6, <1>7, <3>4, BecomesExact
  <2> QED
    BY <2>2, <2>3
<1> QED
  BY <1>7, <1>8, <1>9

(* The other steps of verify-ci.mjs, and the start of the faults.          *)
LEMMA VerifyExact ==
  ASSUME IInv, EInv, NEW j \in Job, DependenciesGate(j) \/ ComposeDown(j) \/ FailClosedGate(j)
  PROVE  EInv'
<1>1. UNCHANGED <<commits, head, work, faults, manifest>>
  BY DEF DependenciesGate, ComposeDown, FailClosedGate
<1>2. PICK r \in JobRow : r = job[j] /\ Exact(r, head, commits, work, faults) /\ r.gate \in 1..8
  BY RunOf DEF IInv, JobsOK, EInv, RunsExact
<1>3. CASE DependenciesGate(j)
  <2>1. PICK q : Becomes(j, q) /\ (q = GatePassed(r) \/ q = GateFailed(r))
    BY <1>2, <1>3 DEF DependenciesGate
  <2>2. r.pc = "gate" /\ r.gate # 1
    BY <1>2, <1>3, GateNames DEF DependenciesGate, At, Gate
  <2>3. ~Early(r)
    BY <2>2 DEF Early
  <2>4. Exact(q, head, commits, work, faults)
    BY <1>2, <2>1, <2>3, GateLeft, CarriedOut
  <2> QED
    BY <1>1, <2>1, <2>4, BecomesExact
<1>4. CASE ComposeDown(j)
  <2>1. PICK q : Becomes(j, q) /\ \/ q = Check([r EXCEPT !.proof = "provider"], "integration") /\ r.ok
                                  \/ \E b \in BOOLEAN : q = Exit(r, b)
    <3>1. PICK pass \in BOOLEAN : Becomes(j, Verified(j, pass)) /\ (pass => r.ok)
      BY <1>2, <1>4 DEF ComposeDown, JobRow
    <3>2. PICK q : q = Verified(j, pass)
      OBVIOUS
    <3>3. \/ q = Check([r EXCEPT !.proof = "provider"], "integration") /\ r.ok
          \/ \E b \in BOOLEAN : q = Exit(r, b)
      BY <1>2, <3>1, <3>2 DEF Verified
    <3> QED
      BY <3>1, <3>2, <3>3
  <2>2. CASE q = Check([r EXCEPT !.proof = "provider"], "integration") /\ r.ok
    <3>1. PICK s \in JobRow : s = [r EXCEPT !.proof = "provider"]
      BY DEF JobRow
    <3>2. s.preview = r.preview /\ s.provider = r.provider
      BY <3>1 DEF JobRow
    <3>3. q.pc = "head" /\ q.onward = "integration" /\ Alike(q, s)
      BY <2>2, <3>1, CheckRow
    <3>4. q.preview = r.preview /\ q.provider = r.provider
      BY <3>2, <3>3 DEF Alike
    <3>5. ~Early(r)
      BY <1>2, <1>4, <2>2 DEF Early, ComposeDown, At
    <3>6. Exact(q, head, commits, work, faults)
      BY <1>2, <3>3, <3>4, <3>5 DEF Exact, Held, Asking, Asked
    <3> QED
      BY <1>1, <2>1, <3>6, BecomesExact
  <2>3. ASSUME NEW b \in BOOLEAN, q = Exit(r, b) PROVE EInv'
    <3>1. Exact(q, head, commits, work, faults)
      BY <2>3, ExitRow, NoneExact
    <3> QED
      BY <1>1, <2>1, <3>1, BecomesExact
  <2> QED
    BY <2>1, <2>2, <2>3
<1>5. CASE FailClosedGate(j)
  <2>1. PICK q : q = [r EXCEPT !.pc = "probe", !.probe = 1, !.original = NoText,
                               !.active = FALSE, !.scratch = TRUE]
    OBVIOUS
  <2>2. q.pc = "probe" /\ q.preview = r.preview /\ q.provider = r.provider
    BY <2>1 DEF JobRow
  <2>3. r.pc = "gate" /\ r.gate # 1
    BY <1>2, <1>5, GateNames DEF FailClosedGate, At, Gate
  <2>4. ~Early(r)
    BY <2>3 DEF Early
  <2>5. Exact(q, head, commits, work, faults)
    BY <1>2, <2>2, <2>4, CarriedOut DEF Judged
  <2>6. Becomes(j, q)
    BY <1>2, <1>5, <2>1 DEF FailClosedGate
  <2> QED
    BY <1>1, <2>5, <2>6, BecomesExact
<1> QED
  BY <1>3, <1>4, <1>5

(* A run within the fail-closed prover.                                    *)
LEMMA FaultingExact ==
  ASSUME IInv, EInv, NEW j \in Job, job[j].pc \in Faulting, NEW q \in JobRow, q.pc \notin Judged,
         q.preview = job[j].preview, q.provider = job[j].provider,
         UNCHANGED <<commits, head, manifest>>,
         \/ Becomes(j, q) /\ UNCHANGED <<work, faults>>
         \/ \E t, u : Writes(j, t, u, q)
  PROVE  EInv'
<1>1. Exact(job[j], head, commits, work, faults) /\ ~Early(job[j])
  BY DEF EInv, RunsExact, Early, Faulting
<1>2. Exact(q, head, commits, work, faults)
  BY <1>1, CarriedOut
<1> QED
  BY <1>2, BecomesExact, WritesExact

(* The steps of prove-gates-fail-closed.mjs.                               *)
LEMMA FaultProofExact ==
  ASSUME IInv, EInv, NEW j \in Job,
         InjectFault(j) \/ ExpectFailure(j) \/ Cleanup(j) \/ CleanupFails(j)
  PROVE  EInv'
<1>1. job[j].pc \in Faulting /\ UNCHANGED <<commits, head, manifest>>
  BY DEF InjectFault, ExpectFailure, Cleanup, CleanupFails, At, Faulting
<1>2. PICK r \in JobRow : r = job[j]
  BY RunOf
<1>3. {"expect", "cleanup"} \subseteq Phase /\ {"expect", "cleanup", "probe"} \cap Judged = {}
  BY DEF Phase, Judged
<1>4. CASE InjectFault(j)
  <2>1. work.text \in Text \cup {NoText}
    BY DEF IInv, TreeOK, TreeRow
  <2>2. CASE Probe(j) # "architecture"
    <3>1. PICK q \in JobRow : q = Goto(r, "expect") /\ Rest(q, r) /\ q.pc = "expect"
      BY <1>3, GotoRow
    <3>2. \E t, u : Writes(j, t, u, q)
      BY <1>2, <1>4, <2>2, <3>1 DEF InjectFault
    <3>3. q.preview = job[j].preview /\ q.provider = job[j].provider
      BY <1>2, <3>1 DEF Rest
    <3> QED
      BY <1>1, <1>3, <3>1, <3>2, <3>3, FaultingExact
  <2>3. CASE Probe(j) = "architecture"
    <3>1. PICK s \in JobRow : s = [r EXCEPT !.original = work.text]
      BY <2>1 DEF JobRow
    <3>2. s.preview = r.preview /\ s.provider = r.provider
      BY <3>1 DEF JobRow
    <3>3. PICK q : /\ q \in {[s EXCEPT !.pc = "cleanup", !.ok = FALSE],
                             [s EXCEPT !.pc = "expect", !.active = TRUE]}
                   /\ \/ Becomes(j, q) /\ UNCHANGED <<work, faults>>
                      \/ \E t, u : Writes(j, t, u, q)
      BY <1>2, <1>4, <2>3, <3>1 DEF InjectFault, Kept
    <3>4. q \in JobRow
      BY <1>3, <3>3 DEF JobRow
    <3>5. q.pc \in {"cleanup", "expect"} /\ q.preview = s.preview /\ q.provider = s.provider
      BY <3>3 DEF JobRow
    <3> QED
      BY <1>1, <1>2, <1>3, <3>2, <3>3, <3>4, <3>5, FaultingExact
  <2> QED
    BY <2>2, <2>3
<1>5. CASE ExpectFailure(j)
  <2>1. PICK s : s = [r EXCEPT !.pc = "cleanup", !.ok = FALSE]
    OBVIOUS
  <2>2. s \in JobRow
    BY <1>3, <2>1 DEF JobRow
  <2>3. s.pc = "cleanup" /\ s.preview = r.preview /\ s.provider = r.provider
    BY <2>1 DEF JobRow
  <2>4. PICK q \in JobRow : /\ q = ProbePassed([r EXCEPT !.active = FALSE])
                            /\ q.preview = r.preview /\ q.provider = r.provider
                            /\ q.pc \in {"probe", "cleanup"}
    BY ProbePassedRow
  <2>5. \/ Becomes(j, s) /\ UNCHANGED <<work, faults>>
        \/ \E t, u : Writes(j, t, u, q)
    BY <1>2, <1>5, <2>1, <2>4 DEF ExpectFailure
  <2> QED
    BY <1>1, <1>2, <1>3, <2>2, <2>3, <2>4, <2>5, FaultingExact
<1>6. CASE Cleanup(j) \/ CleanupFails(j)
  <2>1. PICK d \in JobRow : /\ d = [r EXCEPT !.active = FALSE, !.original = NoText, !.scratch = FALSE,
                                             !.probe = 1]
                            /\ d.preview = r.preview /\ d.provider = r.provider
    BY DoneRow
  <2>2. PICK q : (q = GatePassed(d) \/ q = GateFailed(d)) /\ \E t, u : Writes(j, t, u, q)
    BY <1>2, <1>6, <2>1 DEF Cleanup, CleanupFails
  <2>3. q \in JobRow
    <3>1. GatePassed(d) \in JobRow
      BY GatePassedRow
    <3>2. GateFailed(d) \in JobRow
      BY GateFailedRow
    <3> QED
      BY <2>2, <3>1, <3>2
  <2>4. q.preview = d.preview /\ q.provider = d.provider /\ q.pc \notin Judged
    BY <2>2, GateLeft
  <2> QED
    BY <1>1, <1>2, <2>1, <2>2, <2>3, <2>4, FaultingExact
<1> QED
  BY <1>4, <1>5, <1>6

(* A proof that fails keeps nothing that it could be held to.              *)
LEMMA FailedExact ==
  ASSUME NEW r \in JobRow, NEW h, NEW c, NEW w, NEW u, Exact(r, h, c, w, u)
  PROVE  Exact(ProofFailed(r), h, c, w, u)
<1>1. PICK q : q = ProofFailed(r)
  OBVIOUS
<1>2. CASE r.proof = "provider"
  BY <1>1, <1>2, ProofFailedRow, NoneExact
<1>3. CASE r.proof # "provider"
  <2>1. q.preview = NoProof /\ q.provider \in {r.provider, NoProof} /\ q.pc = "down" /\ ~q.ok
    BY <1>1, <1>3, ProofFailedRow
  <2>2. Exact(q, h, c, w, u)
    BY <2>1, CarriedOut DEF Early, Judged
  <2> QED
    BY <1>1, <2>2
<1> QED
  BY <1>2, <1>3

(* A run moves on within a proof.                                          *)
LEMMA GotoExact ==
  ASSUME NEW r \in JobRow, NEW pc \in Phase, pc \notin {"write", "status"}, NEW h, NEW c, NEW w,
         NEW u, Exact(r, h, c, w, u), Held(r)
  PROVE  Exact(Goto(r, pc), h, c, w, u)
<1>1. PICK q : q = Goto(r, pc) /\ Rest(q, r) /\ q.pc = pc
  BY GotoRow
<1> QED
  BY <1>1, CarriedOn DEF Rest

(* An exact-SHA proof begins as a gate.                                    *)
LEMMA ProofGateExact == ASSUME IInv, EInv, NEW j \in Job, ProofGate(j) PROVE EInv'
<1>1. /\ job[j].pc = "gate" /\ Gate(j) \in {"sandbox-proof", "preview-proof"}
      /\ UNCHANGED <<commits, head, work, faults, manifest>>
  BY DEF ProofGate, At
<1>2. job[j] \in JobRow /\ Exact(job[j], head, commits, work, faults)
  BY DEF IInv, JobsOK, EInv, RunsExact
<1>3. PICK r \in JobRow : r = Looking(job[j]) /\ Same(r, job[j]) /\ Exact(r, head, commits, work, faults)
  BY <1>1, <1>2, LookingRow, LookedExact
<1>4. r.pc = "gate" /\ r.gate # 1
  BY <1>1, <1>3, GateNames DEF Same, Gate
<1>5. ~Early(r)
  BY <1>4 DEF Early
<1>6. PICK pc : pc = IF Gate(j) = "preview-proof" THEN "revision" ELSE "integration"
  OBVIOUS
<1>7. PICK on : on = [r EXCEPT !.pc = pc, !.proof = Gate(j)]
  OBVIOUS
<1>8. on.pc = pc /\ on.preview = r.preview /\ on.provider = r.provider /\ pc \notin Judged
  BY <1>6, <1>7 DEF JobRow, Judged
<1>9. PICK q : Becomes(j, q) /\ q \in {GateFailed(r), on}
  BY <1>3, <1>6, <1>7 DEF ProofGate
<1>10. Exact(q, head, commits, work, faults)
  BY <1>3, <1>5, <1>8, <1>9, GateLeft, CarriedOut
<1> QED
  BY <1>1, <1>9, <1>10, BecomesExact

(* A proof takes note of its commit, and has read nothing of it yet.       *)
LEMMA ReadRevisionExact == ASSUME IInv, EInv, NEW j \in Job, ReadRevision(j) PROVE EInv'
<1>1. job[j].pc = "revision" /\ UNCHANGED <<commits, head, work, faults, manifest>>
  BY DEF ReadRevision, At
<1>2. PICK r \in JobRow : r = job[j] /\ Exact(r, head, commits, work, faults)
  BY DEF IInv, JobsOK, EInv, RunsExact
<1>3. r.proof # "preview-proof" => r.gate = 1
  BY <1>1, <1>2, RunOf DEF RowFits
<1>4. Intact(r.provider, commits)
  BY <1>1, <1>2 DEF Exact, Early
<1>5. PICK v : v = [NoProof EXCEPT !.sha = head]
  OBVIOUS
<1>6. ~v.strayed
  <2>1. head \in Nat
    BY DEF IInv, TreeOK
  <2> QED
    BY <1>5, <2>1, BegunRow
<1>7. CASE r.proof = "preview-proof"
  <2>1. PICK q : q = [r EXCEPT !.pc = "integration", !.preview = v] /\ Becomes(j, q)
    BY <1>2, <1>5, <1>7 DEF ReadRevision
  <2>2. q.pc = "integration" /\ q.preview = v /\ q.provider = r.provider
    BY <2>1 DEF JobRow
  <2>3. Exact(q, head, commits, work, faults)
    BY <1>2, <1>4, <1>6, <2>2 DEF Exact, Seen, Held, Judged, Asked
  <2> QED
    BY <1>1, <2>1, <2>3, BecomesExact
<1>8. CASE r.proof # "preview-proof"
  <2>1. PICK q : q = [r EXCEPT !.pc = "gate", !.provider = v] /\ Becomes(j, q)
    BY <1>2, <1>5, <1>8 DEF ReadRevision
  <2>2. q.pc = "gate" /\ q.gate = r.gate /\ q.provider = v /\ q.preview = r.preview
    BY <2>1 DEF JobRow
  <2>3. Exact(q, head, commits, work, faults)
    BY <1>2, <1>3, <1>6, <1>8, <2>2 DEF Exact, Seen, Held, Judged, Asked, Early
  <2> QED
    BY <1>1, <2>1, <2>3, BecomesExact
<1> QED
  BY <1>7, <1>8

(* The integration proof passes: the commit has its controls, if that is   *)
(* what was read.                                                          *)
LEMMA IntegrationExact == ASSUME IInv, EInv, NEW j \in Job, Integration(j) PROVE EInv'
<1>1. job[j].pc = "integration" /\ UNCHANGED <<commits, head, work, faults, manifest>>
  BY DEF Integration, At
<1>2. job[j] \in JobRow /\ Exact(job[j], head, commits, work, faults)
  BY DEF IInv, JobsOK, EInv, RunsExact
<1>3. PICK r \in JobRow :
        /\ r = Looking(job[j]) /\ Same(r, job[j]) /\ Exact(r, head, commits, work, faults)
        /\ LevelOf(r).sha # 0 /\ ~LevelOf(r).strayed => work = commits[LevelOf(r).sha]
  BY <1>1, <1>2, LookingRow, LookedExact
<1>4. CASE work.missing = {}
  <2>1. PICK q : q = Goto(r, "copy") /\ Rest(q, r) /\ q.pc = "copy"
    BY GotoRow DEF Phase
  <2>2. Becomes(j, q)
    BY <1>3, <1>4, <2>1 DEF Integration, IntegrationGreen
  <2>3. LevelOf(q) = LevelOf(r) /\ q.preview = r.preview /\ q.provider = r.provider
    BY <2>1 DEF LevelOf, Rest
  <2>4. Complete(LevelOf(q), commits)
    BY <1>3, <1>4, <2>3 DEF Complete
  <2>5. Seen(q.preview, commits, work, faults) /\ Seen(q.provider, commits, work, faults)
        /\ Intact(q.provider, commits)
    <3>1. ~Early(r)
      BY <1>1, <1>3 DEF Early, Same
    <3> QED
      BY <1>3, <2>3, <3>1 DEF Exact
  <2>6. Exact(q, head, commits, work, faults)
    BY <2>1, <2>4, <2>5 DEF Exact, Asked
  <2> QED
    BY <1>1, <2>2, <2>6, BecomesExact
<1>5. CASE work.missing # {}
  <2>1. Becomes(j, ProofFailed(r))
    BY <1>3, <1>5 DEF Integration, IntegrationGreen
  <2> QED
    BY <1>1, <1>3, <2>1, FailedExact, BecomesExact
<1> QED
  BY <1>4, <1>5

(* The mutation prover, from the copy to its last mutant.                  *)
LEMMA MutationExact ==
  ASSUME IInv, EInv, NEW j \in Job, CopyAndBaseline(j) \/ ApplyExactlyOnce(j) \/ JudgeMutant(j)
  PROVE  EInv'
<1>1. job[j].pc \in {"copy", "mutate", "judge"} /\ UNCHANGED <<commits, head, work, faults, manifest>>
  BY DEF CopyAndBaseline, ApplyExactlyOnce, JudgeMutant, At
<1>2. PICK r \in JobRow : r = job[j] /\ Exact(r, head, commits, work, faults)
  BY DEF IInv, JobsOK, EInv, RunsExact
<1>3. Held(r)
  BY <1>1, <1>2 DEF Held, Judged, Asking
<1>4. CASE CopyAndBaseline(j)
  <2>1. PICK p \in JobRow : p = Looking(r) /\ Same(p, r) /\ Exact(p, head, commits, work, faults)
    BY <1>1, <1>2, LookingRow, LookedExact
  <2>2. PICK q : /\ Becomes(j, q) /\ q.pc \in {"mutate", "scrap"} /\ q.proof = p.proof
                 /\ q.preview = p.preview /\ q.provider = p.provider
    <3>1. PICK s : s = [p EXCEPT !.copy = work.missing, !.scratch = TRUE, !.mutant = 1,
                                 !.ok = work.missing = {}]
      OBVIOUS
    <3>2. PICK pc : pc = IF s.ok THEN "mutate" ELSE "scrap"
      OBVIOUS
    <3>3. PICK q : q = [s EXCEPT !.pc = pc]
      OBVIOUS
    <3>4. Becomes(j, q)
      BY <1>2, <1>4, <2>1, <3>1, <3>2, <3>3 DEF CopyAndBaseline, Goto
    <3>5. q.pc = pc /\ q.proof = p.proof /\ q.preview = p.preview /\ q.provider = p.provider
      BY <3>1, <3>3 DEF JobRow
    <3>6. pc \in {"mutate", "scrap"}
      BY <3>2
    <3> QED
      BY <3>4, <3>5, <3>6
  <2>3. Held(p)
    BY <1>3, <2>1 DEF Same, Held
  <2>4. Exact(q, head, commits, work, faults)
    BY <2>1, <2>2, <2>3, CarriedOn
  <2> QED
    BY <1>1, <2>2, <2>4, BecomesExact
<1>5. CASE ApplyExactlyOnce(j) \/ JudgeMutant(j)
  <2>1. PICK q : /\ Becomes(j, q) /\ q.pc \notin {"write", "status"} /\ q.proof = r.proof
                 /\ q.preview = r.preview /\ q.provider = r.provider
    <3>1. CASE ApplyExactlyOnce(j)
      <4>1. PICK q : Becomes(j, q) /\ q \in {[r EXCEPT !.pc = "scrap", !.ok = FALSE],
                                             [r EXCEPT !.pc = "judge", !.copy = r.copy \cup {r.mutant}]}
        BY <1>2, <3>1 DEF ApplyExactlyOnce
      <4>2. /\ q.pc \notin {"write", "status"} /\ q.proof = r.proof
            /\ q.preview = r.preview /\ q.provider = r.provider
        BY <4>1 DEF JobRow
      <4> QED
        BY <4>1, <4>2
    <3>2. CASE JudgeMutant(j)
      <4>1. PICK pc : pc = IF NextMutant(r) > Controls THEN "scrap" ELSE "mutate"
        OBVIOUS
      <4>2. PICK s : s = [r EXCEPT !.copy = RestoredCopy(r), !.mutant = NextMutant(r), !.pc = pc]
        OBVIOUS
      <4>3. PICK q : Becomes(j, q) /\ q \in {s, [s EXCEPT !.ok = FALSE]}
        BY <1>2, <3>2, <4>1, <4>2 DEF JudgeMutant
      <4>4. q.pc = pc /\ q.proof = r.proof /\ q.preview = r.preview /\ q.provider = r.provider
        BY <4>2, <4>3 DEF JobRow
      <4>5. pc \notin {"write", "status"}
        BY <4>1
      <4> QED
        BY <4>3, <4>4, <4>5
    <3> QED
      BY <1>5, <3>1, <3>2
  <2>2. Exact(q, head, commits, work, faults)
    BY <1>2, <1>3, <2>1, CarriedOn
  <2> QED
    BY <1>1, <2>1, <2>2, BecomesExact
<1> QED
  BY <1>4, <1>5

(* The copy is removed.                                                    *)
LEMMA RemoveCopyExact == ASSUME IInv, EInv, NEW j \in Job, RemoveCopy(j) PROVE EInv'
<1>1. job[j].pc = "scrap" /\ UNCHANGED <<commits, head, work, faults, manifest>>
  BY DEF RemoveCopy, At
<1>2. PICK p \in JobRow : p = job[j] /\ Exact(p, head, commits, work, faults)
  BY DEF IInv, JobsOK, EInv, RunsExact
<1>3. PICK r : r = [p EXCEPT !.copy = {}, !.scratch = FALSE, !.mutant = 1]
  OBVIOUS
<1>4. 1 \in 1..(Controls + 1)
  BY ProofConstants
<1>5. r \in JobRow
  BY <1>3, <1>4 DEF JobRow
<1>6. r.pc = p.pc /\ r.proof = p.proof /\ r.preview = p.preview /\ r.provider = p.provider
  BY <1>3 DEF JobRow
<1>7. Held(p) /\ Held(r) /\ r.pc = "scrap"
  BY <1>1, <1>2, <1>6 DEF Held, Judged, Asking
<1>8. Exact(r, head, commits, work, faults)
  BY <1>2, <1>6, <1>7, CarriedOn
<1>9. PICK s : s = [r EXCEPT !.proof = "none"]
  OBVIOUS
<1>10. s \in JobRow
  BY <1>5, <1>9 DEF JobRow
<1>11. s.preview = r.preview /\ s.provider = r.provider
  BY <1>5, <1>9 DEF JobRow
<1>12. PICK q : /\ Becomes(j, q)
                /\ q \in {ProofFailed(r), Goto(r, "digest"), Check(r, "digest"), GatePassed(s)}
  <2>1. PICK q : q = IF ~r.ok \/ (r.proof = "provider" /\ work.missing # {}) THEN ProofFailed(r)
                ELSE CASE r.proof = "preview-proof" -> Goto(r, "digest")
                       [] r.proof = "provider" -> Check(r, "digest")
                       [] OTHER -> GatePassed(s)
    OBVIOUS
  <2>2. Becomes(j, q) \/ Becomes(j, ProofFailed(r))
    BY <1>2, <1>3, <1>9, <2>1 DEF RemoveCopy
  <2>3. q \in {ProofFailed(r), Goto(r, "digest"), Check(r, "digest"), GatePassed(s)}
    BY <2>1
  <2> QED
    BY <2>2, <2>3
<1>13. Exact(q, head, commits, work, faults)
  <2>1. CASE q = ProofFailed(r)
    BY <1>5, <1>8, <2>1, FailedExact
  <2>2. CASE q = Goto(r, "digest")
    BY <1>5, <1>7, <1>8, <2>2, GotoExact DEF Phase
  <2>3. CASE q = GatePassed(s)
    <3>1. q.preview = s.preview /\ q.provider = s.provider /\ q.pc \notin Judged
      BY <1>10, <2>3, GateLeft
    <3>2. ~Early(r)
      BY <1>7 DEF Early
    <3> QED
      BY <1>8, <1>11, <3>1, <3>2, CarriedOut
  <2>4. CASE q = Check(r, "digest")
    BY <1>5, <1>7, <1>8, <2>4, CheckRow, CarriedOn DEF Alike
  <2> QED
    BY <1>12, <2>1, <2>2, <2>3, <2>4
<1> QED
  BY <1>1, <1>12, <1>13, BecomesExact

(* The digests are taken.                                                  *)
LEMMA DigestExact == ASSUME IInv, EInv, NEW j \in Job, DigestFiles(j) PROVE EInv'
<1>1. job[j].pc = "digest" /\ UNCHANGED <<commits, head, work, faults, manifest>>
  BY DEF DigestFiles, At
<1>2. PICK r \in JobRow : r = job[j] /\ Exact(r, head, commits, work, faults)
  BY DEF IInv, JobsOK, EInv, RunsExact
<1>3. PICK p \in JobRow : p = Looking(r) /\ Same(p, r) /\ Exact(p, head, commits, work, faults)
  BY <1>1, <1>2, LookingRow, LookedExact
<1>4. Held(p)
  BY <1>1, <1>2, <1>3 DEF Same, Held, Judged, Asking
<1>5. PICK q : q = Check(p, "write") /\ q.pc = "head" /\ Alike(q, p)
  BY <1>3, CheckRow
<1>6. Becomes(j, q)
  BY <1>2, <1>3, <1>5 DEF DigestFiles
<1>7. Exact(q, head, commits, work, faults)
  BY <1>3, <1>4, <1>5, CarriedOn DEF Alike
<1> QED
  BY <1>1, <1>6, <1>7, BecomesExact

(* A check that finds HEAD to be the proof's commit asks for the status.   *)
LEMMA AskHeadExact == ASSUME IInv, EInv, NEW j \in Job, AskHead(j) PROVE EInv'
<1>1. job[j].pc = "head" /\ UNCHANGED <<commits, head, work, faults, manifest>>
  BY DEF AskHead, At
<1>2. PICK r \in JobRow : r = job[j] /\ Exact(r, head, commits, work, faults)
  BY DEF IInv, JobsOK, EInv, RunsExact
<1>3. job[j][Level(j)] = LevelOf(r)
  BY <1>2 DEF Level, LevelOf
<1>4. CASE head = LevelOf(r).sha
  <2>1. PICK q : /\ q = Goto(r, "status") /\ Rest(q, r) /\ q.pc = "status"
    BY GotoRow DEF Phase
  <2>2. Becomes(j, q)
    BY <1>2, <1>3, <1>4, <2>1 DEF AskHead, HeadStands
  <2>3. LevelOf(q) = LevelOf(r) /\ q.preview = r.preview /\ q.provider = r.provider
    BY <2>1 DEF LevelOf, Rest
  <2>4. Intact(q.provider, commits) /\ Asked(q, head)
    BY <1>1, <1>2, <1>4, <2>3 DEF Exact, Early, Asked
  <2>5. Held(q) => Held(r)
    BY <1>1, <1>2, <2>1 DEF Held, Judged, Asking, Rest
  <2>6. Exact(q, head, commits, work, faults)
    BY <1>2, <2>1, <2>3, <2>4, <2>5 DEF Exact
  <2> QED
    BY <1>1, <2>2, <2>6, BecomesExact
<1>5. CASE head # LevelOf(r).sha
  <2>1. Becomes(j, ProofFailed(r))
    BY <1>2, <1>3, <1>5 DEF AskHead, HeadStands
  <2> QED
    BY <1>1, <1>2, <2>1, FailedExact, BecomesExact
<1> QED
  BY <1>4, <1>5

(* A check that finds the tree clean: if HEAD was the proof's commit all   *)
(* along, a proof that had strayed was brought back.                       *)
LEMMA AskStatusExact == ASSUME IInv, EInv, NEW j \in Job, AskStatus(j) PROVE EInv'
<1>1. job[j].pc = "status" /\ UNCHANGED <<commits, head, work, faults, manifest>>
  BY DEF AskStatus, At
<1>2. PICK r \in JobRow : r = job[j] /\ Exact(r, head, commits, work, faults)
  BY DEF IInv, JobsOK, EInv, RunsExact
<1>3. r.onward # "none" /\ ~Early(r)
  BY <1>1, <1>2, RunOf DEF RowFits, Asking, Early
<1>4. CASE ~Clean
  <2>1. Becomes(j, ProofFailed(r))
    BY <1>2, <1>4 DEF AskStatus
  <2> QED
    BY <1>1, <1>2, <2>1, FailedExact, BecomesExact
<1>5. CASE Clean
  <2>1. PICK q : q = Checked(r) /\ Becomes(j, q)
    BY <1>2, <1>5 DEF AskStatus
  <2>2. CASE r.onward = "passed"
    <3>1. q = Exit(r, TRUE)
      BY <1>3, <2>1, <2>2, CheckedRow
    <3>2. Exact(q, head, commits, work, faults)
      BY <3>1, ExitRow, NoneExact
    <3> QED
      BY <1>1, <2>1, <3>2, BecomesExact
  <2>3. CASE r.onward # "passed"
    <3>1. q.pc = r.onward /\ q.pc \in {"integration", "digest", "write"} /\ Alike(q, r)
      BY <1>3, <2>1, <2>3, CheckedRow
    <3>2. LevelOf(q) = LevelOf(r) /\ q.preview = r.preview /\ q.provider = r.provider
      BY <3>1 DEF LevelOf, Alike
    <3>3. Excused(LevelOf(r))
      <4>1. CASE LevelOf(r).sha = head
        <5>1. Seen(LevelOf(r), commits, work, faults)
          BY <1>2 DEF Exact, LevelOf
        <5> QED
          BY <1>5, <4>1, <5>1 DEF Seen, Clean, Excused
      <4>2. CASE LevelOf(r).sha # head
        BY <1>1, <1>2, <4>2 DEF Exact, Asked
      <4> QED
        BY <4>1, <4>2
    <3>4. Held(q) => Held(r)
      BY <1>1, <1>2, <3>1 DEF Held, Judged
    <3>5. Exact(q, head, commits, work, faults)
      BY <1>2, <1>3, <3>1, <3>2, <3>3, <3>4 DEF Exact, Asked
    <3> QED
      BY <1>1, <2>1, <3>5, BecomesExact
  <2> QED
    BY <2>2, <2>3
<1> QED
  BY <1>4, <1>5

(* What is retained is what the proof has seen.                            *)
LEMMA WriteManifestExact == ASSUME IInv, EInv, NEW j \in Job, WriteManifest(j) PROVE EInv'
<1>1. /\ job[j].pc = "write" /\ manifest' = [manifest EXCEPT ![Level(j)] = job[j][Level(j)]]
      /\ UNCHANGED <<commits, head, work, faults>>
  BY DEF WriteManifest, At
<1>2. PICK r \in JobRow : r = job[j] /\ Exact(r, head, commits, work, faults) /\ Named(r)
  BY DEF IInv, JobsOK, EInv, RunsExact
<1>3. r.pc = "write" /\ Held(r) /\ ~Early(r)
  BY <1>1, <1>2 DEF Held, Judged, Asking, Early
<1>4. PICK p \in ProofRow : p = LevelOf(r)
  BY DEF LevelOf, JobRow
<1>5. Level(j) \in Levels /\ job[j][Level(j)] = p /\ (Level(j) = "provider" => p = r.provider)
  BY <1>2, <1>4 DEF Level, LevelOf, Levels
<1>6. p.sha \in 0..Len(commits)
  BY <1>2, <1>4 DEF Named, LevelOf
<1>7. Retained(Level(j), p, commits)
  BY <1>2, <1>3, <1>4, <1>5 DEF Retained, Exact, Complete, Intact, Excused
<1>8. EvidenceExact'
  <2>1. \A l \in Levels : manifest'[l] = IF l = Level(j) THEN p ELSE manifest[l]
    BY <1>1, <1>5 DEF IInv, TreeOK
  <2>2. \A l \in Levels : manifest'[l].sha \in 0..Len(commits) /\ Retained(l, manifest'[l], commits)
    BY <1>5, <1>6, <1>7, <2>1 DEF EInv, EvidenceExact
  <2> QED
    BY <1>1, <2>2 DEF EvidenceExact, Retained
<1>9. PICK s : s = [r EXCEPT !.proof = "none", !.preview = NoProof]
  OBVIOUS
<1>10. s \in JobRow
  BY <1>9, FreshRow DEF JobRow
<1>11. s.preview = NoProof /\ s.provider = r.provider
  BY <1>9 DEF JobRow
<1>12. PICK q : Becomes(j, q) /\ q \in {Check(r, "passed"), GatePassed(s)}
  BY <1>2, <1>9 DEF WriteManifest
<1>13. Exact(q, head, commits, work, faults)
  <2>1. CASE q = Check(r, "passed")
    BY <1>2, <1>3, <2>1, CheckRow, CarriedOn DEF Alike
  <2>2. CASE q = GatePassed(s)
    <3>1. q.preview = s.preview /\ q.provider = s.provider /\ q.pc \notin Judged
      BY <1>10, <2>2, GateLeft
    <3> QED
      BY <1>2, <1>3, <1>11, <3>1, CarriedOut
  <2> QED
    BY <1>12, <2>1, <2>2
<1>14. RunsExact'
  <2>1. job'[j] = q /\ \A k \in Job \ {j} : job'[k] = job[k]
    BY <1>12 DEF IInv, JobsOK, Becomes
  <2>2. \A k \in Job : Exact(job'[k], head, commits, work, faults)
    BY <1>13, <2>1 DEF EInv, RunsExact
  <2> QED
    BY <1>1, <2>2 DEF RunsExact, Exact, Seen, Intact, Complete, Asked
<1> QED
  BY <1>8, <1>14 DEF EInv

(* A run is killed.                                                        *)
LEMMA KillExact == ASSUME IInv, EInv, NEW j \in Job, Kill(j) PROVE EInv'
<1>1. PICK q \in JobRow : q = Goto(Fresh, "killed") /\ Rest(q, Fresh)
  BY FreshRow, GotoRow DEF Phase, Ended
<1>2. Writes(j, work, Bequeathed(j), q) /\ UNCHANGED <<commits, head, manifest>>
  BY <1>1 DEF Kill
<1>3. Exact(q, head, commits, work, faults)
  BY <1>1, FreshRow, NoneExact DEF Rest
<1> QED
  BY <1>2, <1>3, WritesExact

(* A run stays exact when a commit is added: what is committed stays.      *)
LEMMA CommittedExact ==
  ASSUME IInv, commits' = Append(commits, work), NEW r \in JobRow, Named(r), NEW h,
         Exact(r, h, commits, work, faults)
  PROVE  Exact(r, h, commits', work, faults)
<1>1. commits \in Seq(TreeRow) /\ Len(commits) \in Nat
  BY DEF IInv, TreeOK
<1>2. Len(commits') = Len(commits) + 1 /\ \A i \in 1..Len(commits) : commits'[i] = commits[i]
  BY <1>1
<1>3. ASSUME NEW p, p.sha \in 0..Len(commits)
      PROVE  /\ Seen(p, commits, work, faults) => Seen(p, commits', work, faults)
             /\ Intact(p, commits) => Intact(p, commits')
             /\ Complete(p, commits) => Complete(p, commits')
  <2>1. p.sha # 0 => commits'[p.sha] = commits[p.sha]
    BY <1>1, <1>2, <1>3
  <2> QED
    BY <2>1 DEF Seen, Intact, Complete
<1>4. LevelOf(r).sha \in 0..Len(commits)
  BY DEF LevelOf, Named
<1>5. /\ Seen(r.preview, commits', work, faults) /\ Seen(r.provider, commits', work, faults)
      /\ Intact(r.provider, commits) => Intact(r.provider, commits')
  BY <1>3 DEF Exact, Named
<1>6. Complete(LevelOf(r), commits) => Complete(LevelOf(r), commits')
  BY <1>3, <1>4
<1> QED
  BY <1>5, <1>6 DEF Exact

(* The tree is committed, with HEAD moving under every run.                *)
LEMMA CommitAllExact == ASSUME IInv, EInv, CommitAll PROVE EInv'
<1>1. /\ commits' = Append(commits, work) /\ UNCHANGED <<work, faults, manifest>>
      /\ job' = [k \in Job |-> HeadMoved(job[k])]
  BY DEF CommitAll
<1>2. commits \in Seq(TreeRow) /\ Len(commits) \in Nat
  BY DEF IInv, TreeOK
<1>3. Len(commits') = Len(commits) + 1 /\ \A i \in 1..Len(commits) : commits'[i] = commits[i]
  BY <1>1, <1>2
<1>4. ASSUME NEW k \in Job PROVE Exact(job'[k], head', commits', work, faults)
  <2>1. PICK r \in JobRow : r = job[k] /\ Exact(r, head, commits, work, faults) /\ Named(r)
    BY DEF IInv, JobsOK, EInv, RunsExact
  <2>2. PICK q \in JobRow : q = HeadMoved(r) /\ Same(q, r)
    BY HeadMovedRow
  <2>3. Exact(q, head', commits, work, faults)
    BY <2>1, <2>2, HeadMovedExact
  <2>4. Named(q)
    BY <2>1, <2>2 DEF Named, Same
  <2>5. job'[k] = q
    BY <1>1, <2>1, <2>2
  <2> QED
    BY <1>1, <2>3, <2>4, <2>5, CommittedExact
<1>5. RunsExact'
  BY <1>1, <1>4 DEF RunsExact, Exact, Seen, Intact, Complete, Asked
<1>6. EvidenceExact'
  <2>1. ASSUME NEW l \in Levels
        PROVE  manifest[l].sha \in 0..Len(commits') /\ Retained(l, manifest[l], commits')
    <3>1. manifest[l].sha \in 0..Len(commits) /\ Retained(l, manifest[l], commits)
      BY DEF EInv, EvidenceExact
    <3>2. manifest[l].sha # 0 => commits'[manifest[l].sha] = commits[manifest[l].sha]
      BY <1>2, <1>3, <3>1
    <3> QED
      BY <1>2, <1>3, <3>1, <3>2 DEF Retained
  <2> QED
    BY <1>1, <2>1 DEF EvidenceExact, Retained
<1> QED
  BY <1>5, <1>6 DEF EInv

(* Another commit is checked out, with HEAD and the tree.                  *)
LEMMA CheckoutExact == ASSUME IInv, EInv, NEW c \in DOMAIN commits, Checkout(c) PROVE EInv'
<1>1. /\ head' = c /\ work' = commits[c] /\ UNCHANGED <<commits, faults, manifest>>
      /\ job' = [k \in Job |-> Overtaking(HeadMoved(job[k]), commits[c], faults)]
  BY DEF Checkout
<1>2. ASSUME NEW k \in Job PROVE Exact(job'[k], c, commits, commits[c], faults)
  <2>1. job[k] \in JobRow /\ Exact(job[k], head, commits, work, faults)
    BY DEF IInv, JobsOK, EInv, RunsExact
  <2>2. PICK r \in JobRow : r = HeadMoved(job[k]) /\ Exact(r, c, commits, work, faults)
    BY <2>1, HeadMovedRow, HeadMovedExact
  <2>3. job'[k] = Overtaking(r, commits[c], faults)
    BY <1>1, <2>2
  <2> QED
    BY <2>2, <2>3, OvertakenExact
<1>3. RunsExact'
  BY <1>1, <1>2 DEF RunsExact, Exact, Seen, Intact, Complete, Asked
<1>4. EvidenceExact'
  BY <1>1 DEF EInv, EvidenceExact, Retained
<1> QED
  BY <1>3, <1>4 DEF EInv

(* The author changes the tree or moves HEAD.                              *)
LEMMA AuthorExact == ASSUME IInv, EInv, Author PROVE EInv'
<1>1. CASE Edit \/ Discard \/ SweepResidue
  <2>1. PICK t, u : Writes(None, t, u, Fresh) /\ UNCHANGED <<commits, head, manifest>>
    BY <1>1 DEF Edit, Discard, SweepResidue, Tree
  <2>2. Exact(Fresh, head, commits, work, faults) /\ Fresh \in JobRow
    BY FreshRow, NoneExact
  <2> QED
    BY <2>1, <2>2, WritesExact
<1> QED
  BY <1>1, CommitAllExact, CheckoutExact DEF Author

(* What the evidence rests on holds at the start and is kept.              *)
LEMMA InitEInv == Init => EInv
<1>1. SUFFICES ASSUME Init PROVE EInv
  OBVIOUS
<1>2. \A j \in Job : job[j] = Fresh
  BY <1>1 DEF Init
<1>3. RunsExact
  BY <1>2, FreshRow, NoneExact DEF RunsExact
<1>4. \A l \in Levels : manifest[l] = NoProof
  BY <1>1 DEF Init
<1>5. Len(commits) = 1
  BY <1>1 DEF Init
<1> QED
  BY <1>3, <1>4, <1>5, FreshRow DEF EInv, EvidenceExact, Retained

(* Every step keeps it.                                                    *)
LEMMA NextEInv == IInv /\ EInv /\ [Next]_vars => EInv'
<1>1. SUFFICES ASSUME IInv, EInv, [Next]_vars PROVE EInv'
  OBVIOUS
<1>2. ASSUME NEW j \in Job, Step(j) PROVE EInv'
  BY <1>1, <1>2, ReadingGateExact, VerifyExact, FaultProofExact, ProofGateExact,
     ReadRevisionExact, IntegrationExact, MutationExact, RemoveCopyExact, DigestExact,
     AskHeadExact, AskStatusExact, WriteManifestExact
     DEF Step, Verify, FaultProof, Proof
<1>3. ASSUME NEW j \in Job, StartProver(j) \/ StartVerify(j) \/ CleanupFails(j) \/ Kill(j) PROVE EInv'
  BY <1>1, <1>3, StartExact, FaultProofExact, KillExact
<1>4. CASE Author
  BY <1>1, <1>4, AuthorExact
<1>5. CASE UNCHANGED vars
  BY <1>1, <1>5 DEF vars, EInv, RunsExact, EvidenceExact, Exact, Seen, Intact, Complete, Retained,
     Asked
<1> QED
  BY <1>1, <1>2, <1>3, <1>4, <1>5 DEF Next

(* Evidence is of the commit it names: everything that a proof with a      *)
(* retained manifest read of the tree was that commit, and that commit has *)
(* all its controls and, for the provider-runtime proof, an intact         *)
(* boundary document.  It may be otherwise only if the tree was brought    *)
(* back unseen, or HEAD moved between a check's two questions to git, in   *)
(* preview-proof.mjs and aico-005-provider-runtime-proof.mjs, whoever else *)
(* edits, commits, verifies or is killed meanwhile.                        *)
THEOREM EvidenceNamesItsCommit == Spec => []ManifestIsExact
<1>1. IInv /\ EInv => ManifestIsExact
  <2>1. SUFFICES ASSUME IInv, EInv PROVE ManifestIsExact
    OBVIOUS
  <2>2. DOMAIN manifest = Levels
    BY <2>1 DEF IInv, TreeOK
  <2> QED
    BY <2>1, <2>2 DEF EInv, EvidenceExact, Retained, ManifestIsExact
<1> QED
  BY <1>1, InductiveInvariant, InitEInv, NextEInv, PTL DEF Spec
-----------------------------------------------------------------------------
(* A run that nobody disturbs.  Where it is in the fail-closed prover says *)
(* which fault is in the tree: probe 1 is of the boundary document, 4 of   *)
(* the format gate, and 5 and 6 share the sentinel of the proofs.          *)
Probed(r, w, u) ==
  /\ r.gate = 3
  /\ r.pc = "probe" =>
       /\ w = FirstTree /\ u = IF r.probe = 6 THEN {<<Prover, "sandbox-proof">>} ELSE {}
       /\ r.probe # 1 => r.original = 0
  /\ r.pc = "expect" =>
       /\ r.original = 0
       /\ \/ r.probe = 1 /\ w = [FirstTree EXCEPT !.faulty = TRUE] /\ u = {}
          \/ r.probe = 4 /\ w = FirstTree /\ u = {<<Prover, "format">>}
          \/ r.probe = 5 /\ w = FirstTree /\ u = {<<Prover, "sandbox-proof">>}
  /\ r.pc = "cleanup" => r.original = 0 /\ w = FirstTree /\ u = {} /\ ~r.active

(* Elsewhere the tree is the commit; services are up where they should be, *)
(* and the proofs name the one commit there is.                            *)
ProofOf(r) ==
  /\ r.pc = "revision" => \/ r.proof = "none" /\ r.gate = 1
                          \/ r.proof = "preview-proof" /\ r.gate = 6
  /\ r.pc \in Proving \ {"revision"} => \/ r.proof = "provider"
                                        \/ r.proof = "preview-proof" /\ r.gate = 6 /\ r.preview.sha = 1
                                        \/ r.proof = "sandbox-proof" /\ r.gate = 5
  /\ r.pc \in {"digest", "write", "head", "status"} => r.proof \in {"provider", "preview-proof"}

Calm(r, w, u, p) ==
  /\ r.pc \notin {"failed", "killed"}
  /\ r.pc \notin Ended => r.ok /\ (r.provider.sha = 1 \/ (r.pc = "revision" /\ r.proof = "none"))
  /\ r.pc \in Faulting => Probed(r, w, u)
  /\ r.pc \notin Faulting => w = FirstTree /\ u = {}
  /\ p = IF Serving(r) THEN Prover ELSE None
  /\ ProofOf(r)

Quiet ==
  /\ commits = <<FirstTree>> /\ head = 1 /\ ~abandoned
  /\ \A j \in Colleagues : job[j].pc = "idle"
  /\ Calm(job[Prover], work, faults, ports)

UInv == slips = 0 => Quiet

(* Only what others, or failing tools, do is counted as a slip.            *)
LEMMA SlipDisturbs == IInv /\ Slip => slips' # 0
  BY ProofConstants DEF IInv, TreeOK, Slip

(* What a quiet state is like.                                             *)
LEMMA QuietRun ==
  ASSUME IInv, Quiet
  PROVE  /\ Prover \in Job /\ job[Prover] \in JobRow /\ RowFits(job[Prover])
         /\ Calm(job[Prover], work, faults, ports)
         /\ commits[1] = FirstTree /\ head = 1
         /\ FirstTree.text = 0 /\ ~FirstTree.faulty /\ FirstTree.missing = {}
         /\ Clean <=> work = FirstTree /\ faults = {}
         /\ job[Prover].gate \in 1..8 /\ job[Prover].probe \in 1..8
<1>1. Prover \in Job
  BY DEF Job
<1>2. commits[1] = FirstTree /\ head = 1
  BY DEF Quiet
<1>3. FirstTree.text = 0 /\ ~FirstTree.faulty /\ FirstTree.missing = {}
  BY DEF FirstTree
<1>4. Clean <=> work = FirstTree /\ faults = {}
  BY <1>2 DEF Clean
<1> QED
  BY <1>1, <1>2, <1>3, <1>4, RunOf DEF Quiet

(* What a run's proofs have seen of the tree does not matter.              *)
LEMMA SameCalm ==
  ASSUME NEW q, NEW r, Same(q, r), NEW w, NEW u, NEW p, Calm(r, w, u, p)
  PROVE  Calm(q, w, u, p)
<1>1. q.pc \in Faulting => Probed(q, w, u)
  BY DEF Same, Calm, Probed
<1>2. ProofOf(q)
  BY DEF Same, Calm, ProofOf
<1>3. p = IF Serving(q) THEN Prover ELSE None
  BY DEF Same, Calm, Serving
<1> QED
  BY <1>1, <1>2, <1>3 DEF Same, Calm

(* The run takes a step that leaves the tree alone.                        *)
LEMMA BecomesQuiet ==
  ASSUME IInv, Quiet, NEW q, Becomes(Prover, q), Calm(q, work, faults, ports'),
         UNCHANGED <<commits, head, work, faults, abandoned>>
  PROVE  Quiet'
<1>1. job'[Prover] = q /\ \A k \in Job \ {Prover} : job'[k] = job[k]
  BY QuietRun DEF IInv, JobsOK, Becomes
<1>2. \A k \in Colleagues : job'[k].pc = "idle"
  BY <1>1, ProofConstants DEF Job, Quiet
<1>3. Calm(job[Prover], work, faults, ports)'
  <2>1. Calm(job'[Prover], work, faults, ports')
    BY <1>1
  <2> QED
    BY <2>1 DEF Calm, Probed, ProofOf, Serving
<1> QED
  BY <1>2, <1>3 DEF Quiet

(* The run writes to the tree.                                             *)
LEMMA WritesQuiet ==
  ASSUME IInv, Quiet, NEW q \in JobRow, NEW t, NEW u, Writes(Prover, t, u, q),
         Calm(q, t, u, ports), UNCHANGED <<commits, head, ports>>, ~abandoned'
  PROVE  Quiet'
<1>1. /\ job' = [k \in Job |-> Overtaking(IF k = Prover THEN q ELSE job[k], t, u)]
      /\ work' = t /\ faults' = u
  BY DEF Writes
<1>2. job'[Prover] = Overtaking(q, t, u)
  BY <1>1, QuietRun
<1>3. Calm(job'[Prover], t, u, ports)
  BY <1>2, OvertakingRow, SameCalm
<1>4. Calm(job[Prover], work, faults, ports)'
  BY <1>1, <1>3 DEF Calm, Probed, ProofOf, Serving
<1>5. ASSUME NEW k \in Colleagues PROVE job'[k].pc = "idle"
  <2>1. k \in Job /\ k # Prover
    BY ProofConstants DEF Job
  <2>2. job'[k] = Overtaking(job[k], t, u) /\ job[k] \in JobRow
    BY <1>1, <2>1 DEF IInv, JobsOK
  <2>3. Same(job'[k], job[k])
    BY <2>2, OvertakingRow
  <2> QED
    BY <2>3 DEF Same, Quiet
<1> QED
  BY <1>4, <1>5 DEF Quiet

(* A run that stands before a gate.                                        *)
LEMMA GateCalm ==
  ASSUME NEW q, q.pc = "gate", q.ok, q.provider.sha = 1, NEW p,
         p = IF q.gate = 8 THEN Prover ELSE None
  PROVE  Calm(q, FirstTree, {}, p)
  BY DEF Calm, Faulting, Ended, ProofOf, Proving, Serving

(* A run goes on within a proof.                                           *)
LEMMA ProvingCalm ==
  ASSUME NEW r, r.pc \in Proving \ {"revision"}, NEW q, q.pc \in Proving \ {"revision"}, q.ok,
         q.proof = r.proof, q.gate = r.gate,
         q.preview.sha = r.preview.sha, q.provider.sha = r.provider.sha,
         q.pc \in {"digest", "write", "head", "status"} => r.proof \in {"provider", "preview-proof"},
         NEW w, NEW u, NEW p, Calm(r, w, u, p)
  PROVE  Calm(q, w, u, p)
<1>1. r.pc \notin Ended \cup Faulting /\ q.pc \notin Ended \cup Faulting /\ ~Serving(r) /\ ~Serving(q)
  BY DEF Proving, Ended, Faulting, Serving
<1>2. ProofOf(q)
  BY DEF Calm, ProofOf
<1> QED
  BY <1>1, <1>2 DEF Calm, Ended

(* The proof starts on the clean tree.                                     *)
LEMMA StartQuiet == ASSUME IInv, Quiet, StartProver(Prover) PROVE Quiet'
<1>1. job[Prover].pc \in Ended /\ UNCHANGED <<commits, head, work, faults, abandoned, ports>>
  BY DEF StartProver, Running
<1>2. work = FirstTree /\ faults = {} /\ ports = None
  BY <1>1, QuietRun DEF Calm, Ended, Faulting, Serving
<1>3. Becomes(Prover, Goto(Fresh, "revision"))
  BY <1>2, QuietRun DEF StartProver
<1>4. PICK q : q = Goto(Fresh, "revision")
  OBVIOUS
<1>5. q.pc = "revision" /\ q.ok /\ q.proof = "none" /\ q.gate = 1
  BY <1>4 DEF Goto, Fresh
<1>6. Calm(q, work, faults, ports')
  BY <1>1, <1>2, <1>5 DEF Calm, Faulting, Ended, ProofOf, Serving
<1> QED
  BY <1>1, <1>3, <1>4, <1>6, BecomesQuiet

(* A gate that reads the clean tree passes.                                *)
LEMMA ReadingGateQuiet == ASSUME IInv, Quiet, ReadingGate(Prover) PROVE Quiet'
<1>1. /\ job[Prover].pc = "gate" /\ UNCHANGED <<commits, head, work, faults, abandoned, ports>>
      /\ Gate(Prover) \in {"architecture", "provider-decision-evidence", "format", "http-smoke"}
  BY DEF ReadingGate, At
<1>2. PICK r \in JobRow : r = Looking(job[Prover]) /\ Same(r, job[Prover])
  BY QuietRun, LookingRow
<1>3. /\ r.pc = "gate" /\ r.gate = job[Prover].gate /\ r.gate \in {1, 2, 4, 8}
      /\ Calm(r, work, faults, ports)
  <2>1. job[Prover].gate \in {1, 2, 4, 8}
    BY <1>1, QuietRun, GateNames DEF Gate
  <2> QED
    BY <1>1, <1>2, <2>1, QuietRun, SameCalm DEF Same
<1>4. /\ work = FirstTree /\ faults = {} /\ r.ok /\ r.provider.sha = 1
      /\ ports = IF r.gate = 8 THEN Prover ELSE None
  BY <1>3 DEF Calm, Faulting, Ended, Serving
<1>5. ~Hit(Prover, Gate(Prover))
  <2>1. Gate(Prover) = "http-smoke" => ports = Prover
    BY <1>3, <1>4, GateNames DEF Gate
  <2> QED
    BY <1>4, <2>1, QuietRun DEF Hit
<1>6. GateOutcomes(Prover, Gate(Prover)) = {TRUE}
  BY <1>4, <1>5, QuietRun DEF GateOutcomes
<1>7. Becomes(Prover, GatePassed(r))
  BY <1>2, <1>6 DEF ReadingGate
<1>8. PICK q : q = GatePassed(r)
  OBVIOUS
<1>9. q.ok /\ q.provider = r.provider
  BY <1>8, GatePassedRow DEF Rest
<1>10. Calm(q, work, faults, ports)
  <2>1. CASE r.gate = 8
    <3>1. q.pc = "down"
      BY <1>8, <2>1, GatePassedRow
    <3> QED
      BY <1>4, <1>9, <2>1, <3>1 DEF Calm, Faulting, Ended, ProofOf, Proving, Serving
  <2>2. CASE r.gate # 8
    <3>1. q.pc = "gate" /\ q.gate = r.gate + 1
      BY <1>8, <2>2, GatePassedRow
    <3>2. q.gate # 8
      BY <1>3, <3>1
    <3> QED
      BY <1>4, <1>9, <2>2, <3>1, <3>2, GateCalm
  <2> QED
    BY <2>1, <2>2
<1> QED
  BY <1>1, <1>7, <1>8, <1>10, BecomesQuiet

(* The ports are free when the services start.                             *)
LEMMA DependenciesQuiet == ASSUME IInv, Quiet, DependenciesGate(Prover), slips' = 0 PROVE Quiet'
<1>1. job[Prover].pc = "gate" /\ Gate(Prover) = "dependencies"
      /\ UNCHANGED <<commits, head, work, faults, abandoned>>
  BY DEF DependenciesGate, At
<1>2. PICK r \in JobRow : r = job[Prover]
  BY QuietRun
<1>3. r.gate = 7
  BY <1>1, <1>2, QuietRun, GateNames DEF Gate
<1>4. /\ work = FirstTree /\ faults = {} /\ r.ok /\ r.provider.sha = 1 /\ ports = None
  BY <1>1, <1>2, <1>3, QuietRun DEF Calm, Faulting, Ended, Serving
<1>5. ports' = Prover /\ Becomes(Prover, GatePassed(r))
  BY <1>2, <1>4, SlipDisturbs DEF DependenciesGate
<1>6. PICK q : q = GatePassed(r)
  OBVIOUS
<1>7. q.ok /\ q.provider = r.provider
  BY <1>6, GatePassedRow DEF Rest
<1>8. q.pc = "gate" /\ q.gate = r.gate + 1
  <2>1. r.gate # 8
    BY <1>3
  <2> QED
    BY <1>6, <2>1, GatePassedRow
<1>9. q.gate = 8
  BY <1>3, <1>8
<1>10. Calm(q, work, faults, ports')
  BY <1>4, <1>5, <1>7, <1>8, <1>9, GateCalm
<1> QED
  BY <1>1, <1>5, <1>6, <1>10, BecomesQuiet

(* The gates have passed and the repository is to be checked.              *)
LEMMA ComposeDownQuiet == ASSUME IInv, Quiet, ComposeDown(Prover), slips' = 0 PROVE Quiet'
<1>1. job[Prover].pc = "down" /\ UNCHANGED <<commits, head, work, faults, abandoned>>
  BY DEF ComposeDown, At
<1>2. PICK r \in JobRow : r = job[Prover]
  BY QuietRun
<1>3. /\ work = FirstTree /\ faults = {} /\ r.ok /\ r.provider.sha = 1 /\ ports = Prover
  BY <1>1, <1>2, QuietRun DEF Calm, Faulting, Ended, Serving
<1>4. ports' = None /\ Becomes(Prover, Verified(Prover, r.ok))
  BY <1>2, <1>3, SlipDisturbs DEF ComposeDown, Released
<1>5. PICK q : q = Check([r EXCEPT !.proof = "provider"], "integration")
  OBVIOUS
<1>6. Becomes(Prover, q)
  BY <1>2, <1>3, <1>4, <1>5 DEF Verified
<1>7. q.pc = "head" /\ q.proof = "provider" /\ q.ok = r.ok /\ q.provider = r.provider
  <2>1. PICK s \in JobRow : s = [r EXCEPT !.proof = "provider"]
    BY DEF JobRow
  <2>2. s.proof = "provider" /\ s.ok = r.ok /\ s.provider = r.provider
    BY <2>1 DEF JobRow
  <2> QED
    BY <1>5, <2>1, <2>2, CheckRow DEF Alike
<1>8. Calm(q, work, faults, ports')
  BY <1>3, <1>4, <1>7 DEF Calm, Faulting, Ended, ProofOf, Serving
<1> QED
  BY <1>1, <1>6, <1>8, BecomesQuiet

(* The faults begin on the clean tree.                                     *)
LEMMA FailClosedQuiet == ASSUME IInv, Quiet, FailClosedGate(Prover) PROVE Quiet'
<1>1. job[Prover].pc = "gate" /\ Gate(Prover) = "fail-closed"
      /\ UNCHANGED <<commits, head, work, faults, abandoned, ports>>
  BY DEF FailClosedGate, At
<1>2. PICK r \in JobRow : r = job[Prover]
  BY QuietRun
<1>3. r.gate = 3
  BY <1>1, <1>2, QuietRun, GateNames DEF Gate
<1>4. work = FirstTree /\ faults = {} /\ r.ok /\ r.provider.sha = 1 /\ ports = None
  BY <1>1, <1>2, <1>3, QuietRun DEF Calm, Faulting, Ended, Serving
<1>5. PICK q : q = [r EXCEPT !.pc = "probe", !.probe = 1, !.original = NoText,
                             !.active = FALSE, !.scratch = TRUE]
  OBVIOUS
<1>6. Becomes(Prover, q)
  BY <1>2, <1>5 DEF FailClosedGate
<1>7. q.pc = "probe" /\ q.probe = 1 /\ q.gate = r.gate /\ q.ok = r.ok /\ q.provider = r.provider
  BY <1>5 DEF JobRow
<1>8. Probed(q, work, faults)
  BY <1>3, <1>4, <1>7 DEF Probed
<1>9. Calm(q, work, faults, ports')
  BY <1>1, <1>4, <1>7, <1>8 DEF Calm, Faulting, Ended, ProofOf, Proving, Serving
<1> QED
  BY <1>1, <1>6, <1>9, BecomesQuiet

(* A run within the fail-closed prover, that nobody disturbs.              *)
LEMMA FaultingQuiet ==
  ASSUME IInv, Quiet, job[Prover].pc \in Faulting, NEW q \in JobRow, q.pc \in Faulting,
         q.ok = job[Prover].ok, q.provider = job[Prover].provider, NEW t, NEW u, Probed(q, t, u),
         Writes(Prover, t, u, q), UNCHANGED <<commits, head, ports>>, ~abandoned'
  PROVE  Quiet'
<1>1. job[Prover].ok /\ job[Prover].provider.sha = 1 /\ ports = None
  BY QuietRun DEF Calm, Faulting, Ended, Serving
<1>2. Calm(q, t, u, ports)
  BY <1>1 DEF Calm, Faulting, Ended, ProofOf, Proving, Serving
<1> QED
  BY <1>2, WritesQuiet

(* A fault is written into a tree that has none.                           *)
LEMMA InjectFaultQuiet == ASSUME IInv, Quiet, InjectFault(Prover) PROVE Quiet'
<1>1. /\ job[Prover].pc = "probe" /\ Probe(Prover) \in Writing /\ ~abandoned'
      /\ UNCHANGED <<commits, head, abandoned, ports>>
  BY DEF InjectFault, At, Quiet
<1>2. PICK r \in JobRow : r = job[Prover]
  BY QuietRun
<1>3. r.probe \in {1, 4, 5}
  BY <1>1, <1>2, QuietRun, GateNames DEF Probe, Writing
<1>4. Probed(r, work, faults) /\ r.pc \in Faulting
  BY <1>1, <1>2, QuietRun DEF Calm, Faulting
<1>5. work = FirstTree /\ faults = {} /\ r.gate = 3 /\ (r.probe # 1 => r.original = 0)
  BY <1>1, <1>2, <1>3, <1>4 DEF Probed
<1>6. "expect" \in Phase /\ "expect" \in Faulting
  BY DEF Phase, Faulting
<1>7. CASE r.probe # 1
  <2>1. PICK q \in JobRow : q = Goto(r, "expect") /\ Rest(q, r) /\ q.pc = "expect"
                            /\ q.ok = r.ok /\ q.gate = r.gate
    BY <1>6, GotoRow
  <2>2. PICK u : u = {<<Prover, Probe(Prover)>>}
    OBVIOUS
  <2>3. Writes(Prover, work, u, q)
    <3>1. Probe(Prover) # "architecture"
      BY <1>2, <1>7, QuietRun, ProbeNumbers
    <3>2. faults \cup {<<Prover, Probe(Prover)>>} = u
      BY <1>5, <2>2
    <3> QED
      BY <1>2, <2>1, <3>1, <3>2 DEF InjectFault
  <2>4. Probed(q, work, u)
    <3>1. \/ q.probe = 4 /\ u = {<<Prover, "format">>}
          \/ q.probe = 5 /\ u = {<<Prover, "sandbox-proof">>}
      BY <1>2, <1>3, <1>7, <2>1, <2>2, GateNames DEF Probe, Rest
    <3>2. q.original = 0
      BY <1>5, <1>7, <2>1 DEF Rest
    <3> QED
      BY <1>5, <2>1, <3>1, <3>2 DEF Probed
  <2>5. q.provider = r.provider
    BY <2>1 DEF Rest
  <2> QED
    BY <1>1, <1>2, <1>4, <1>6, <2>1, <2>3, <2>4, <2>5, FaultingQuiet
<1>8. CASE r.probe = 1
  <2>1. Probe(Prover) = "architecture" /\ ~work.faulty /\ work.text = 0
    BY <1>2, <1>5, <1>8, QuietRun, ProbeNumbers
  <2>2. PICK q : q = [[r EXCEPT !.original = work.text] EXCEPT !.pc = "expect", !.active = TRUE]
    OBVIOUS
  <2>3. work.text \in Text \cup {NoText}
    BY <2>1 DEF Text
  <2>4. q \in JobRow
    BY <1>6, <2>2, <2>3 DEF JobRow
  <2>5. /\ q.pc = "expect" /\ q.ok = r.ok /\ q.provider = r.provider /\ q.gate = r.gate
        /\ q.probe = r.probe /\ q.original = work.text
    BY <2>2 DEF JobRow
  <2>6. PICK t : t = [FirstTree EXCEPT !.faulty = TRUE]
    OBVIOUS
  <2>7. Writes(Prover, t, faults, q)
    BY <1>2, <1>5, <2>1, <2>2, <2>6 DEF InjectFault, Kept
  <2>8. Probed(q, t, faults)
    BY <1>5, <1>8, <2>1, <2>5, <2>6 DEF Probed
  <2> QED
    BY <1>1, <1>2, <1>4, <1>6, <2>4, <2>5, <2>7, <2>8, FaultingQuiet
<1> QED
  BY <1>7, <1>8

(* The probes by their numbers, and what each finds and leaves.            *)
LEMMA ProbeQuiet ==
  ASSUME IInv, Quiet, NEW r \in JobRow, r = job[Prover],
         r.pc = "expect" \/ (r.pc = "probe" /\ Probe(Prover) \notin Writing)
  PROVE  /\ FailsAsIntended(Probe(Prover))
         /\ LET t == IF Probe(Prover) = "architecture" THEN Restored(Prover) ELSE work IN t = FirstTree
         /\ Withdrawn(Prover, Probe(Prover)) =
              IF r.probe = 5 THEN {<<Prover, "sandbox-proof">>} ELSE {}
         /\ r.original = 0 /\ r.gate = 3
<1>1. Probed(r, work, faults) /\ r.probe \in 1..8
  BY QuietRun DEF Calm, Faulting
<1>2. r.gate = 3
  BY <1>1 DEF Probed
<1>3. CASE r.pc = "expect" /\ r.probe = 1
  <2>1. r.original = 0 /\ work = [FirstTree EXCEPT !.faulty = TRUE] /\ faults = {}
    BY <1>1, <1>3 DEF Probed
  <2>2. Probe(Prover) = "architecture"
    BY <1>3, QuietRun, ProbeNumbers
  <2>3. work.faulty
    BY <2>1 DEF FirstTree
  <2>4. Restored(Prover) = FirstTree
    <3>1. work = [text |-> 0, faulty |-> TRUE, missing |-> {}]
      BY <2>1 DEF FirstTree
    <3>2. Restored(Prover) = [work EXCEPT !.text = 0, !.faulty = FALSE]
      BY <2>1 DEF Restored
    <3> QED
      BY <3>1, <3>2 DEF FirstTree
  <2>5. Withdrawn(Prover, Probe(Prover)) = {}
    BY <2>1, <2>2 DEF Withdrawn
  <2>6. FailsAsIntended(Probe(Prover))
    BY <2>2, <2>3 DEF FailsAsIntended
  <2> QED
    BY <1>2, <1>3, <2>1, <2>2, <2>4, <2>5, <2>6
<1>4. CASE r.pc = "expect" /\ r.probe = 4
  <2>1. r.original = 0 /\ work = FirstTree /\ faults = {<<Prover, "format">>}
    BY <1>1, <1>4 DEF Probed
  <2>2. Probe(Prover) = "format"
    BY <1>4, GateNames DEF Probe
  <2>3. Withdrawn(Prover, Probe(Prover)) = {}
    BY <2>1, <2>2 DEF Withdrawn
  <2>4. FailsAsIntended(Probe(Prover))
    BY <2>1, <2>2 DEF FailsAsIntended
  <2> QED
    BY <1>2, <1>4, <2>1, <2>2, <2>3, <2>4
<1>5. CASE r.pc = "expect" /\ r.probe = 5
  <2>1. r.original = 0 /\ work = FirstTree /\ faults = {<<Prover, "sandbox-proof">>}
    BY <1>1, <1>5 DEF Probed
  <2>2. Probe(Prover) = "sandbox-proof"
    BY <1>5, GateNames DEF Probe
  <2>3. Withdrawn(Prover, Probe(Prover)) = {<<Prover, "sandbox-proof">>}
    BY <2>1, <2>2 DEF Withdrawn
  <2>4. ~Clean
    BY <2>1, QuietRun
  <2>5. FailsAsIntended(Probe(Prover))
    BY <2>2, <2>4 DEF FailsAsIntended
  <2> QED
    BY <1>2, <1>5, <2>1, <2>2, <2>3, <2>5
<1>6. CASE r.pc = "probe" /\ r.probe = 6
  <2>1. r.original = 0 /\ work = FirstTree /\ faults = {<<Prover, "sandbox-proof">>}
    BY <1>1, <1>6 DEF Probed
  <2>2. Probe(Prover) = "preview-proof"
    BY <1>6, GateNames DEF Probe
  <2>3. Withdrawn(Prover, Probe(Prover)) = {}
    BY <2>1, <2>2 DEF Withdrawn
  <2>4. ~Clean
    BY <2>1, QuietRun
  <2>5. FailsAsIntended(Probe(Prover))
    BY <2>2, <2>4 DEF FailsAsIntended
  <2> QED
    BY <1>2, <1>6, <2>1, <2>2, <2>3, <2>5
<1>7. CASE r.pc = "probe" /\ r.probe \in {2, 3, 7, 8}
  <2>1. r.original = 0 /\ work = FirstTree /\ faults = {}
    BY <1>1, <1>7 DEF Probed
  <2>2. Probe(Prover) \in {"provider-decision-evidence", "fail-closed", "dependencies", "http-smoke"}
    BY <1>7, GateNames DEF Probe
  <2>3. Withdrawn(Prover, Probe(Prover)) = {}
    BY <2>1, <2>2 DEF Withdrawn
  <2>4. FailsAsIntended(Probe(Prover))
    BY <2>2 DEF FailsAsIntended
  <2> QED
    BY <1>2, <1>7, <2>1, <2>2, <2>3, <2>4
<1>8. \/ r.pc = "expect" /\ r.probe \in {1, 4, 5}
      \/ r.pc = "probe" /\ r.probe \in {2, 3, 6, 7, 8}
  <2>1. r.pc = "expect" => r.probe \in {1, 4, 5}
    BY <1>1 DEF Probed
  <2>2. r.pc = "probe" => r.probe \notin {1, 4, 5}
    BY GateNames DEF Probe, Writing
  <2> QED
    BY <1>1, <2>1, <2>2
<1> QED
  BY <1>3, <1>4, <1>5, <1>6, <1>7, <1>8

(* Every gate fails for the reason its fault gives it.                     *)
LEMMA ExpectFailureQuiet == ASSUME IInv, Quiet, ExpectFailure(Prover), slips' = 0 PROVE Quiet'
<1>1. PICK r \in JobRow : r = job[Prover]
  BY QuietRun
<1>2. /\ r.pc = "expect" \/ (r.pc = "probe" /\ Probe(Prover) \notin Writing)
      /\ UNCHANGED <<commits, head, ports>>
  BY <1>1 DEF ExpectFailure, At
<1>3. PICK t, u : /\ t = IF Probe(Prover) = "architecture" THEN Restored(Prover) ELSE work
                  /\ u = Withdrawn(Prover, Probe(Prover))
  OBVIOUS
<1>4. /\ t = FirstTree /\ u = IF r.probe = 5 THEN {<<Prover, "sandbox-proof">>} ELSE {}
      /\ r.original = 0 /\ r.gate = 3 /\ FailsAsIntended(Probe(Prover))
  BY <1>1, <1>2, <1>3, ProbeQuiet
<1>5. PICK q \in JobRow : q = ProbePassed([r EXCEPT !.active = FALSE])
  BY ProbePassedRow
<1>6. Writes(Prover, t, u, q) /\ ~abandoned'
  BY <1>1, <1>3, <1>4, <1>5, SlipDisturbs DEF ExpectFailure, Quiet
<1>7. ~q.active /\ q.original = 0 /\ q.gate = 3 /\ q.ok = r.ok /\ q.provider = r.provider
  BY <1>4, <1>5, ProbePassedRow
<1>8. q.pc \in Faulting /\ Probed(q, t, u)
  <2>1. CASE r.probe = 8
    <3>1. q.pc = "cleanup"
      BY <1>5, <2>1, ProbePassedRow
    <3>2. u = {}
      BY <1>4, <2>1
    <3> QED
      BY <1>4, <1>7, <3>1, <3>2 DEF Probed, Faulting
  <2>2. CASE r.probe # 8
    <3>1. q.pc = "probe" /\ q.probe = r.probe + 1
      BY <1>5, <2>2, ProbePassedRow
    <3>2. r.probe \in 1..8
      BY <1>1, QuietRun
    <3>3. u = IF q.probe = 6 THEN {<<Prover, "sandbox-proof">>} ELSE {}
      <4>1. q.probe = 6 <=> r.probe = 5
        BY <3>1, <3>2
      <4> QED
        BY <1>4, <4>1
    <3> QED
      BY <1>4, <1>7, <3>1, <3>3 DEF Probed, Faulting
  <2> QED
    BY <2>1, <2>2
<1>9. job[Prover].pc \in Faulting
  BY <1>1, <1>2 DEF Faulting
<1> QED
  BY <1>1, <1>2, <1>6, <1>7, <1>8, <1>9, FaultingQuiet

(* The cleanup finds the document as it was read.                          *)
LEMMA CleanupQuiet == ASSUME IInv, Quiet, Cleanup(Prover) PROVE Quiet'
<1>1. job[Prover].pc = "cleanup" /\ UNCHANGED <<commits, head, ports>>
  BY DEF Cleanup, At
<1>2. PICK r \in JobRow : r = job[Prover]
  BY QuietRun
<1>3. /\ work = FirstTree /\ faults = {} /\ r.ok /\ r.provider.sha = 1 /\ ports = None
      /\ r.original = 0 /\ ~r.active /\ r.gate = 3
  BY <1>1, <1>2, QuietRun DEF Calm, Probed, Faulting, Ended, Serving
<1>4. Undone(Prover) = FirstTree /\ CleanedUp(Prover) /\ faults \ Own(Prover) = {}
  BY <1>2, <1>3, QuietRun DEF Undone, CleanedUp
<1>5. PICK d \in JobRow : d = [r EXCEPT !.active = FALSE, !.original = NoText, !.scratch = FALSE,
                                        !.probe = 1]
  BY DoneRow
<1>6. d.gate = 3 /\ d.provider = r.provider
  BY <1>3, <1>5, DoneRow
<1>7. PICK q \in JobRow : q = GatePassed(d)
  BY GatePassedRow
<1>8. Writes(Prover, FirstTree, {}, q)
  BY <1>2, <1>3, <1>4, <1>5, <1>7 DEF Cleanup
<1>9. ~abandoned'
  BY DEF Cleanup, Quiet
<1>10. q.ok /\ q.provider = d.provider
  BY <1>7, GatePassedRow DEF Rest
<1>11. q.pc = "gate" /\ q.gate = d.gate + 1
  <2>1. d.gate # 8
    BY <1>6
  <2> QED
    BY <1>7, <2>1, GatePassedRow
<1>12. Calm(q, FirstTree, {}, ports)
  <2>1. q.gate # 8 /\ q.provider.sha = 1
    BY <1>3, <1>6, <1>10, <1>11
  <2> QED
    BY <1>3, <1>10, <1>11, <2>1, GateCalm
<1> QED
  BY <1>1, <1>8, <1>9, <1>12, WritesQuiet

(* What a quiet proof phase is like.                                       *)
LEMMA ProvingRun ==
  ASSUME IInv, Quiet, job[Prover].pc \in Proving
  PROVE  /\ work = FirstTree /\ faults = {} /\ ports = None
         /\ job[Prover].ok /\ ProofOf(job[Prover])
         /\ job[Prover].pc # "revision" => job[Prover].provider.sha = 1
  BY QuietRun DEF Calm, Proving, Faulting, Ended, Serving

(* The exact-SHA proofs find a clean tree.                                 *)
LEMMA ProofGateQuiet == ASSUME IInv, Quiet, ProofGate(Prover) PROVE Quiet'
<1>1. /\ job[Prover].pc = "gate" /\ Gate(Prover) \in {"sandbox-proof", "preview-proof"}
      /\ UNCHANGED <<commits, head, work, faults, abandoned, ports>>
  BY DEF ProofGate, At
<1>2. PICK r \in JobRow : r = Looking(job[Prover]) /\ Same(r, job[Prover])
  BY QuietRun, LookingRow
<1>3. /\ r.gate = job[Prover].gate /\ r.ok = job[Prover].ok
      /\ r.provider.sha = job[Prover].provider.sha
  BY <1>2 DEF Same
<1>4. /\ Gate(Prover) = "sandbox-proof" => r.gate = 5
      /\ Gate(Prover) = "preview-proof" => r.gate = 6
  BY <1>3, QuietRun, GateNames DEF Gate
<1>5. work = FirstTree /\ faults = {} /\ r.ok /\ r.provider.sha = 1 /\ ports = None
  <2>1. ~Serving(job[Prover])
    BY <1>1, <1>3, <1>4 DEF Serving
  <2> QED
    BY <1>1, <1>3, <2>1, QuietRun DEF Calm, Faulting, Ended
<1>6. PICK pc : pc = IF Gate(Prover) = "preview-proof" THEN "revision" ELSE "integration"
  OBVIOUS
<1>7. PICK q : q = [r EXCEPT !.pc = pc, !.proof = Gate(Prover)]
  OBVIOUS
<1>8. Becomes(Prover, q)
  BY <1>2, <1>5, <1>6, <1>7, QuietRun DEF ProofGate
<1>9. q.pc = pc /\ q.proof = Gate(Prover) /\ q.ok = r.ok /\ q.gate = r.gate /\ q.provider = r.provider
  BY <1>7 DEF JobRow
<1>10. ProofOf(q)
  BY <1>1, <1>4, <1>6, <1>9 DEF ProofOf
<1>11. Calm(q, work, faults, ports')
  <2>1. pc \in {"revision", "integration"}
    BY <1>6
  <2> QED
    BY <1>1, <1>5, <1>9, <1>10, <2>1 DEF Calm, Faulting, Ended, Serving
<1> QED
  BY <1>1, <1>8, <1>11, BecomesQuiet

(* The proofs take note of the one commit there is.                        *)
LEMMA ReadRevisionQuiet == ASSUME IInv, Quiet, ReadRevision(Prover) PROVE Quiet'
<1>1. job[Prover].pc = "revision" /\ UNCHANGED <<commits, head, work, faults, abandoned, ports>>
  BY DEF ReadRevision, At
<1>2. PICK r \in JobRow : r = job[Prover] /\ Calm(r, work, faults, ports) /\ ProofOf(r)
  BY QuietRun DEF Calm
<1>3. work = FirstTree /\ faults = {} /\ ports = None /\ r.ok
  BY <1>1, <1>2, ProvingRun DEF Proving
<1>4. PICK v : v = [NoProof EXCEPT !.sha = 1] /\ v.sha = 1
  BY BegunRow
<1>5. CASE r.proof = "preview-proof"
  <2>1. PICK q : q = [r EXCEPT !.pc = "integration", !.preview = v]
    OBVIOUS
  <2>2. Becomes(Prover, q)
    BY <1>2, <1>4, <1>5, <2>1, QuietRun DEF ReadRevision
  <2>3. /\ q.pc = "integration" /\ q.preview = v /\ q.proof = r.proof /\ q.ok = r.ok
        /\ q.gate = r.gate /\ q.provider = r.provider
    BY <2>1 DEF JobRow
  <2>4. r.gate = 6 /\ r.provider.sha = 1
    BY <1>1, <1>2, <1>5 DEF ProofOf, Calm, Ended
  <2>5. Calm(q, work, faults, ports')
    BY <1>1, <1>3, <1>4, <1>5, <2>3, <2>4 DEF Calm, Faulting, Ended, ProofOf, Serving
  <2> QED
    BY <1>1, <2>2, <2>5, BecomesQuiet
<1>6. CASE r.proof # "preview-proof"
  <2>1. PICK q : q = [r EXCEPT !.pc = "gate", !.provider = v]
    OBVIOUS
  <2>2. Becomes(Prover, q)
    BY <1>2, <1>4, <1>6, <2>1, QuietRun DEF ReadRevision
  <2>3. q.pc = "gate" /\ q.ok = r.ok /\ q.gate = r.gate /\ q.provider = v
    BY <2>1 DEF JobRow
  <2>4. r.gate = 1
    BY <1>1, <1>2, <1>6 DEF ProofOf
  <2>5. q.pc = "gate" /\ q.ok /\ q.provider.sha = 1 /\ q.gate # 8
    BY <1>3, <1>4, <2>3, <2>4
  <2>6. ports' = IF q.gate = 8 THEN Prover ELSE None
    BY <1>1, <1>3, <2>5
  <2>7. Calm(q, FirstTree, {}, ports')
    BY <2>5, <2>6, GateCalm
  <2> QED
    BY <1>1, <1>3, <2>2, <2>7, BecomesQuiet
<1> QED
  BY <1>5, <1>6

(* The integration proof and the mutation prover are green on the commit.  *)
LEMMA MutationQuiet ==
  ASSUME IInv, Quiet, slips' = 0,
         Integration(Prover) \/ CopyAndBaseline(Prover) \/ ApplyExactlyOnce(Prover) \/ JudgeMutant(Prover)
  PROVE  Quiet'
<1>1. /\ job[Prover].pc \in {"integration", "copy", "mutate", "judge"}
      /\ UNCHANGED <<commits, head, work, faults, abandoned, ports>>
  BY DEF Integration, CopyAndBaseline, ApplyExactlyOnce, JudgeMutant, At
<1>2. job[Prover].pc \in Proving \ {"revision"}
  BY <1>1 DEF Proving
<1>3. PICK r \in JobRow : r = job[Prover] /\ Calm(r, work, faults, ports) /\ RowFits(r)
  BY QuietRun
<1>4. work.missing = {} /\ r.ok
  BY <1>2, <1>3, QuietRun, ProvingRun
<1>5. PICK q : /\ Becomes(Prover, q) /\ q.pc \in {"copy", "mutate", "judge", "scrap"} /\ q.ok
               /\ q.proof = r.proof /\ q.gate = r.gate
               /\ q.preview.sha = r.preview.sha /\ q.provider.sha = r.provider.sha
  <2>1. PICK p \in JobRow : p = Looking(r) /\ Same(p, r)
    BY LookingRow
  <2>2. /\ p.ok /\ p.proof = r.proof /\ p.gate = r.gate
        /\ p.preview.sha = r.preview.sha /\ p.provider.sha = r.provider.sha
    BY <1>4, <2>1 DEF Same
  <2>3. CASE Integration(Prover)
    <3>1. PICK q : q = Goto(p, "copy")
      OBVIOUS
    <3>2. Becomes(Prover, q)
      BY <1>3, <1>4, <2>1, <2>3, <3>1 DEF Integration, IntegrationGreen
    <3>3. Rest(q, p) /\ q.pc = "copy" /\ q.ok = p.ok /\ q.gate = p.gate
      BY <3>1, GotoRow DEF Phase
    <3>4. q.proof = r.proof /\ q.preview.sha = r.preview.sha /\ q.provider.sha = r.provider.sha
      BY <2>2, <3>3 DEF Rest
    <3> QED
      BY <2>2, <3>2, <3>3, <3>4
  <2>4. CASE CopyAndBaseline(Prover)
    <3>1. PICK s : s = [p EXCEPT !.copy = work.missing, !.scratch = TRUE, !.mutant = 1, !.ok = TRUE]
      OBVIOUS
    <3>2. /\ s.ok = TRUE /\ s.proof = p.proof /\ s.gate = p.gate
          /\ s.preview = p.preview /\ s.provider = p.provider
      BY <3>1 DEF JobRow
    <3>3. PICK q : q = [s EXCEPT !.pc = "mutate"]
      OBVIOUS
    <3>4. Becomes(Prover, q)
      <4>1. [p EXCEPT !.copy = work.missing, !.scratch = TRUE, !.mutant = 1,
                      !.ok = work.missing = {}] = s
        BY <1>4, <3>1
      <4> QED
        BY <1>3, <2>1, <2>4, <3>2, <3>3, <4>1 DEF CopyAndBaseline, Goto
    <3>5. /\ q.pc = "mutate" /\ q.ok = TRUE /\ q.proof = p.proof /\ q.gate = p.gate
          /\ q.preview = p.preview /\ q.provider = p.provider
      BY <3>1, <3>3 DEF JobRow
    <3> QED
      BY <2>2, <3>4, <3>5
  <2>5. CASE ApplyExactlyOnce(Prover)
    <3>1. r.mutant \notin r.copy
      BY <1>3, <2>5 DEF ApplyExactlyOnce, At, RowFits
    <3>2. PICK q : q = [r EXCEPT !.pc = "judge", !.copy = r.copy \cup {r.mutant}]
      OBVIOUS
    <3>3. Becomes(Prover, q)
      BY <1>3, <2>5, <3>1, <3>2 DEF ApplyExactlyOnce
    <3>4. /\ q.pc = "judge" /\ q.ok = r.ok /\ q.proof = r.proof /\ q.gate = r.gate
          /\ q.preview = r.preview /\ q.provider = r.provider
      BY <3>2 DEF JobRow
    <3> QED
      BY <1>4, <3>3, <3>4
  <2>6. CASE JudgeMutant(Prover)
    <3>1. PICK pc : pc = IF NextMutant(r) > Controls THEN "scrap" ELSE "mutate"
      OBVIOUS
    <3>2. PICK q : q = [r EXCEPT !.copy = RestoredCopy(r), !.mutant = NextMutant(r), !.pc = pc]
      OBVIOUS
    <3>3. Becomes(Prover, q)
      BY <1>3, <2>6, <3>1, <3>2, SlipDisturbs DEF JudgeMutant
    <3>4. /\ q.pc = pc /\ q.ok = r.ok /\ q.proof = r.proof /\ q.gate = r.gate
          /\ q.preview = r.preview /\ q.provider = r.provider
      BY <3>2 DEF JobRow
    <3>5. pc \in {"scrap", "mutate"}
      BY <3>1
    <3> QED
      BY <1>4, <3>3, <3>4, <3>5
  <2> QED
    BY <2>3, <2>4, <2>5, <2>6
<1>6. Calm(q, work, faults, ports)
  <2>1. q.pc \in Proving \ {"revision", "digest", "write", "head", "status"}
    BY <1>5 DEF Proving
  <2> QED
    BY <1>2, <1>3, <1>5, <2>1, ProvingCalm
<1> QED
  BY <1>1, <1>5, <1>6, BecomesQuiet

(* A gate that was a proof is left for the next one.                       *)
LEMMA ProofOverQuiet ==
  ASSUME NEW s \in JobRow, s.gate \in {5, 6}, s.provider.sha = 1
  PROVE  Calm(GatePassed(s), FirstTree, {}, None)
<1>1. PICK q : q = GatePassed(s)
  OBVIOUS
<1>2. q.ok /\ q.provider = s.provider
  BY <1>1, GatePassedRow DEF Rest
<1>3. q.pc = "gate" /\ q.gate = s.gate + 1
  <2>1. s.gate # 8
    OBVIOUS
  <2> QED
    BY <1>1, <2>1, GatePassedRow
<1>4. q.gate # 8
  BY <1>3
<1> QED
  BY <1>1, <1>2, <1>3, <1>4, GateCalm

(* The copy is removed, and the sources are those that were copied.        *)
LEMMA RemoveCopyQuiet == ASSUME IInv, Quiet, RemoveCopy(Prover), slips' = 0 PROVE Quiet'
<1>1. job[Prover].pc = "scrap" /\ UNCHANGED <<commits, head, work, faults, abandoned, ports>>
  BY DEF RemoveCopy, At
<1>2. job[Prover].pc \in Proving \ {"revision"}
  BY <1>1 DEF Proving
<1>3. PICK p \in JobRow : p = job[Prover] /\ Calm(p, work, faults, ports) /\ ProofOf(p)
  BY <1>2, QuietRun, ProvingRun
<1>4. work = FirstTree /\ faults = {} /\ ports = None /\ p.ok /\ p.provider.sha = 1
  BY <1>2, <1>3, ProvingRun
<1>5. PICK r : r = [p EXCEPT !.copy = {}, !.scratch = FALSE, !.mutant = 1]
  OBVIOUS
<1>6. 1 \in 1..(Controls + 1)
  BY ProofConstants
<1>7. r \in JobRow
  BY <1>5, <1>6 DEF JobRow
<1>8. /\ r.pc = p.pc /\ r.ok = p.ok /\ r.proof = p.proof /\ r.gate = p.gate
      /\ r.preview = p.preview /\ r.provider = p.provider
  BY <1>5 DEF JobRow
<1>9. PICK s : s = [r EXCEPT !.proof = "none"]
  OBVIOUS
<1>10. s \in JobRow
  BY <1>7, <1>9 DEF JobRow
<1>11. s.provider = r.provider /\ s.gate = r.gate
  BY <1>7, <1>9 DEF JobRow
<1>12. Becomes(Prover, CASE r.proof = "preview-proof" -> Goto(r, "digest")
                         [] r.proof = "provider" -> Check(r, "digest")
                         [] OTHER -> GatePassed(s))
  <2>1. work.missing = {}
    BY <1>4, QuietRun
  <2> QED
    BY <1>3, <1>4, <1>5, <1>8, <1>9, <2>1, SlipDisturbs DEF RemoveCopy
<1>13. r.proof \in {"preview-proof", "provider"} \/ (r.proof = "sandbox-proof" /\ r.gate = 5)
  BY <1>2, <1>3, <1>8 DEF ProofOf
<1>14. CASE r.proof \in {"preview-proof", "provider"}
  <2>1. PICK q : q = IF r.proof = "provider" THEN Check(r, "digest") ELSE Goto(r, "digest")
    OBVIOUS
  <2>2. /\ q.pc \in {"head", "digest"} /\ q.ok = r.ok /\ q.gate = r.gate
        /\ q.proof = r.proof /\ q.preview = r.preview /\ q.provider = r.provider
    <3>1. CASE r.proof = "provider"
      BY <1>7, <2>1, <3>1, CheckRow DEF Alike
    <3>2. CASE r.proof # "provider"
      BY <1>7, <2>1, <3>2, GotoRow DEF Phase, Rest
    <3> QED
      BY <3>1, <3>2
  <2>3. Becomes(Prover, q)
    BY <1>12, <1>14, <2>1
  <2>4. q.proof = p.proof /\ q.preview = p.preview /\ q.provider = p.provider
    BY <1>8, <2>2
  <2>5. q.pc \in Proving \ {"revision"} /\ p.pc \in Proving \ {"revision"}
    BY <1>2, <1>3, <2>2 DEF Proving
  <2>6. Calm(q, work, faults, ports)
    BY <1>3, <1>4, <1>8, <1>14, <2>2, <2>4, <2>5, ProvingCalm
  <2> QED
    BY <1>1, <2>3, <2>6, BecomesQuiet
<1>15. CASE r.proof = "sandbox-proof" /\ r.gate = 5
  <2>1. Becomes(Prover, GatePassed(s))
    BY <1>12, <1>15
  <2>2. Calm(GatePassed(s), work, faults, ports)
    BY <1>4, <1>8, <1>10, <1>11, <1>15, ProofOverQuiet
  <2> QED
    BY <1>1, <2>1, <2>2, BecomesQuiet
<1> QED
  BY <1>13, <1>14, <1>15

(* The repository is checked, the digests taken and retained.              *)
LEMMA ManifestQuiet ==
  ASSUME IInv, Quiet,
         DigestFiles(Prover) \/ AskHead(Prover) \/ AskStatus(Prover) \/ WriteManifest(Prover)
  PROVE  Quiet'
<1>1. /\ job[Prover].pc \in {"digest", "write", "head", "status"}
      /\ UNCHANGED <<commits, head, work, faults, abandoned, ports>>
  BY DEF DigestFiles, AskHead, AskStatus, WriteManifest, At
<1>2. job[Prover].pc \in Proving \ {"revision"}
  BY <1>1 DEF Proving
<1>3. PICK r \in JobRow : /\ r = job[Prover] /\ Calm(r, work, faults, ports) /\ ProofOf(r)
                          /\ RowFits(r)
  BY <1>2, QuietRun, ProvingRun
<1>4. work = FirstTree /\ faults = {} /\ ports = None /\ r.ok /\ r.provider.sha = 1
  BY <1>2, <1>3, ProvingRun
<1>5. r.proof = "provider" \/ (r.proof = "preview-proof" /\ r.gate = 6 /\ r.preview.sha = 1)
  BY <1>1, <1>2, <1>3 DEF ProofOf
<1>6. ASSUME NEW q, Becomes(Prover, q), q.pc \in {"digest", "write", "head", "status", "integration"},
             q.ok = r.ok, q.gate = r.gate, q.proof = r.proof,
             q.preview.sha = r.preview.sha, q.provider.sha = r.provider.sha
      PROVE  Quiet'
  <2>1. q.pc \in Proving \ {"revision"} /\ r.pc \in Proving \ {"revision"}
    BY <1>2, <1>3, <1>6 DEF Proving
  <2>2. Calm(q, work, faults, ports)
    BY <1>3, <1>4, <1>5, <1>6, <2>1, ProvingCalm
  <2> QED
    BY <1>1, <1>6, <2>2, BecomesQuiet
<1>7. CASE DigestFiles(Prover)
  <2>1. PICK p \in JobRow : p = Looking(r) /\ Same(p, r)
    BY LookingRow
  <2>2. PICK q : q = Check(p, "write") /\ q.pc = "head" /\ Alike(q, p)
    BY CheckRow
  <2>3. Becomes(Prover, q)
    BY <1>3, <1>7, <2>1, <2>2 DEF DigestFiles
  <2>4. /\ q.ok = r.ok /\ q.gate = r.gate /\ q.proof = r.proof
        /\ q.preview.sha = r.preview.sha /\ q.provider.sha = r.provider.sha
    BY <2>1, <2>2 DEF Alike, Same
  <2> QED
    BY <1>6, <2>2, <2>3, <2>4
<1>8. CASE AskHead(Prover)
  <2>1. HeadStands(job[Prover][Level(Prover)].sha)
    BY <1>3, <1>4, <1>5, QuietRun DEF Level, HeadStands
  <2>2. PICK q : /\ q = Goto(r, "status") /\ Rest(q, r) /\ q.pc = "status" /\ q.ok = r.ok
                 /\ q.gate = r.gate
    BY GotoRow DEF Phase
  <2>3. Becomes(Prover, q)
    BY <1>3, <1>8, <2>1, <2>2 DEF AskHead
  <2> QED
    BY <1>6, <2>2, <2>3 DEF Rest
<1>9. CASE AskStatus(Prover)
  <2>1. PICK q : q = Checked(r)
    OBVIOUS
  <2>2. Becomes(Prover, q)
    BY <1>3, <1>4, <1>9, <2>1, QuietRun DEF AskStatus
  <2>3. r.onward # "none"
    BY <1>3, <1>9 DEF RowFits, Asking, AskStatus, At
  <2>4. CASE r.onward = "passed"
    <3>1. q = Exit(r, TRUE)
      BY <2>1, <2>3, <2>4, CheckedRow
    <3>2. q.pc = "passed"
      BY <3>1, ExitRow
    <3>3. Calm(q, work, faults, ports)
      BY <1>4, <3>2 DEF Calm, Faulting, Ended, ProofOf, Proving, Serving
    <3> QED
      BY <1>1, <2>2, <3>3, BecomesQuiet
  <2>5. CASE r.onward # "passed"
    <3>1. q.pc \in {"integration", "digest", "write"} /\ Alike(q, r)
      BY <2>1, <2>3, <2>5, CheckedRow
    <3> QED
      BY <1>6, <2>2, <3>1 DEF Alike
  <2> QED
    BY <2>4, <2>5
<1>10. CASE WriteManifest(Prover) /\ r.proof = "provider"
  <2>1. PICK q : q = Check(r, "passed") /\ q.pc = "head" /\ Alike(q, r)
    BY CheckRow
  <2>2. Becomes(Prover, q)
    BY <1>3, <1>10, <2>1 DEF WriteManifest, Level
  <2> QED
    BY <1>6, <2>1, <2>2 DEF Alike
<1>11. CASE WriteManifest(Prover) /\ r.proof # "provider"
  <2>1. PICK s : s = [r EXCEPT !.proof = "none", !.preview = NoProof]
    OBVIOUS
  <2>2. s \in JobRow
    BY <2>1, FreshRow DEF JobRow
  <2>3. s.provider = r.provider /\ s.gate = r.gate
    BY <2>1 DEF JobRow
  <2>4. Becomes(Prover, GatePassed(s))
    BY <1>3, <1>11, <2>1 DEF WriteManifest, Level
  <2>5. Calm(GatePassed(s), work, faults, ports)
    BY <1>4, <1>5, <1>11, <2>2, <2>3, ProofOverQuiet
  <2> QED
    BY <1>1, <2>4, <2>5, BecomesQuiet
<1> QED
  BY <1>7, <1>8, <1>9, <1>10, <1>11

(* A colleague who has not started takes no step.                          *)
LEMMA ColleagueQuiet ==
  ASSUME IInv, Quiet, NEW j \in Colleagues, Step(j) \/ StartProver(j) PROVE FALSE
<1>1. job[j].pc = "idle" /\ j # Prover
  BY ProofConstants DEF Quiet
<1>2. ~Verify(j)
  BY <1>1 DEF Verify, ReadingGate, DependenciesGate, ComposeDown, At
<1>3. ~FaultProof(j)
  BY <1>1 DEF FaultProof, FailClosedGate, InjectFault, ExpectFailure, Cleanup, At
<1>4. ~Proof(j)
  BY <1>1 DEF Proof, ProofGate, ReadRevision, Integration, CopyAndBaseline, ApplyExactlyOnce,
     JudgeMutant, RemoveCopy, DigestFiles, AskHead, AskStatus, WriteManifest, At
<1>5. ~StartProver(j)
  BY <1>1 DEF StartProver
<1> QED
  BY <1>2, <1>3, <1>4, <1>5 DEF Step

(* There is nothing for the author to put in order.                        *)
LEMMA AuthorQuiet == ASSUME IInv, Quiet, Author, slips' = 0 PROVE FALSE
<1>1. Discard \/ SweepResidue
  BY SlipDisturbs DEF Author, Edit, CommitAll, Checkout
<1>2. /\ work.text = 0 /\ work.missing = {} /\ ports # Dead
      /\ \A f \in faults : f[1] = Prover
  <2>1. ports # Dead
    BY QuietRun, ProofConstants DEF Calm
  <2>2. CASE job[Prover].pc \notin Faulting
    BY <2>1, <2>2, QuietRun DEF Calm
  <2>3. CASE job[Prover].pc \in Faulting
    <3>1. Probed(job[Prover], work, faults)
      BY <2>3, QuietRun DEF Calm
    <3>2. work \in {FirstTree, [FirstTree EXCEPT !.faulty = TRUE]}
      BY <2>3, <3>1 DEF Probed, Faulting
    <3>3. faults \in {{}, {<<Prover, "format">>}, {<<Prover, "sandbox-proof">>}}
      BY <2>3, <3>1 DEF Probed, Faulting
    <3>4. work.text = 0 /\ work.missing = {}
      BY <3>2 DEF FirstTree
    <3> QED
      BY <2>1, <3>3, <3>4
  <2> QED
    BY <2>2, <2>3
<1>3. ~Discard
  BY <1>2, QuietRun DEF Discard, Quiet
<1>4. ~SweepResidue
  <2>1. Prover # Dead
    BY ProofConstants
  <2> QED
    BY <1>2, <2>1 DEF SweepResidue
<1> QED
  BY <1>1, <1>3, <1>4

(* At the start all is quiet.                                              *)
LEMMA InitUInv == Init => UInv
<1>1. SUFFICES ASSUME Init PROVE Quiet
  BY DEF UInv
<1>2. \A j \in Job : job[j] = Fresh
  BY <1>1 DEF Init
<1>3. job[Prover].pc = "idle" /\ \A j \in Colleagues : job[j].pc = "idle"
  BY <1>2, FreshRow DEF Job
<1>4. work = FirstTree /\ faults = {} /\ ports = None
  BY <1>1 DEF Init
<1>5. Calm(job[Prover], work, faults, ports)
  BY <1>3, <1>4 DEF Calm, Faulting, Ended, ProofOf, Proving, Serving
<1> QED
  BY <1>1, <1>3, <1>5 DEF Init, Quiet

(* A step that is not a slip keeps it quiet.                               *)
LEMMA NextUInv == IInv /\ UInv /\ [Next]_vars => UInv'
<1>1. SUFFICES ASSUME IInv, UInv, [Next]_vars, slips' = 0 PROVE Quiet'
  BY DEF UInv
<1>2. CASE UNCHANGED vars
  <2>1. Quiet
    BY <1>1, <1>2 DEF vars, UInv
  <2> QED
    BY <1>2, <2>1 DEF vars, Quiet, Calm, Probed, ProofOf, Serving
<1>3. CASE Next
  <2>1. slips = 0
    <3>1. slips' \in {slips, slips + 1}
      BY <1>3 DEF Next, Step, Verify, FaultProof, Proof, Author, StartProver, StartVerify, CleanupFails, Kill,
         ReadingGate, DependenciesGate, ComposeDown, FailClosedGate, InjectFault, ExpectFailure, Cleanup,
         ProofGate, ReadRevision, Integration, CopyAndBaseline, ApplyExactlyOnce, JudgeMutant, RemoveCopy,
         DigestFiles, AskHead, AskStatus, WriteManifest, Edit, CommitAll, Checkout, Discard, SweepResidue, Slip
    <3>2. slips \in Nat
      BY <1>1 DEF IInv, TreeOK
    <3> QED
      BY <1>1, <3>1, <3>2
  <2>2. Quiet
    BY <1>1, <2>1 DEF UInv
  <2>3. ~Author
    BY <1>1, <2>2, AuthorQuiet
  <2>4. PICK j \in Job : StartProver(j) \/ StartVerify(j) \/ Step(j) \/ CleanupFails(j) \/ Kill(j)
    BY <1>3, <2>3 DEF Next
  <2>5. StartProver(j) \/ Step(j)
    BY <1>1, <2>4, SlipDisturbs DEF StartVerify, CleanupFails, Kill
  <2>6. j = Prover
    BY <1>1, <2>2, <2>5, ColleagueQuiet DEF Job
  <2>7. CASE StartProver(Prover)
    BY <1>1, <2>2, <2>7, StartQuiet
  <2>8. CASE Verify(Prover)
    BY <1>1, <2>2, <2>8, ReadingGateQuiet, DependenciesQuiet, ComposeDownQuiet DEF Verify
  <2>9. CASE FaultProof(Prover)
    BY <1>1, <2>2, <2>9, FailClosedQuiet, InjectFaultQuiet, ExpectFailureQuiet, CleanupQuiet DEF FaultProof
  <2>10. CASE Proof(Prover)
    BY <1>1, <2>2, <2>10, ProofGateQuiet, ReadRevisionQuiet, MutationQuiet, RemoveCopyQuiet,
       ManifestQuiet DEF Proof
  <2> QED
    BY <2>5, <2>6, <2>7, <2>8, <2>9, <2>10 DEF Step
<1> QED
  BY <1>1, <1>2, <1>3

(* The verification does not stand in its own way: the faults that         *)
(* prove-gates-fail-closed.mjs writes into the tree, the services that     *)
(* verify-ci.mjs starts and what earlier runs did never make a run fail    *)
(* that nobody disturbed, however often the proof is run again.            *)
THEOREM UndisturbedRunsPass == Spec => []UndisturbedPasses
<1>1. IInv /\ UInv => UndisturbedPasses
  BY DEF UInv, Quiet, Calm, UndisturbedPasses, Job
<1> QED
  BY <1>1, InductiveInvariant, InitUInv, NextUInv, PTL DEF Spec
=============================================================================
