# A verification project for aico-backend

TLA+ models of the AICO control plane (the worker that executes tasks under
leases, the founder's waits and cancellations, the event log with its outbox,
the idempotent commands of the API, goal intake, objects and attachments,
invites and sessions) and of the procedures by which the repository verifies
itself: the sandbox candidate, the owner decisions recorded in commits, the
gates and the exact-commit proofs. TLC checks the models on small instances;
TLAPS proves every safety property of the nine models and the two refinements,
for every instance.

## 1. The system

A founder owns one company, gives it an initiative, and sends goals. A goal
creates a run with one task. A worker process claims the task, calls a model
provider once and publishes a product brief, or blocks the run for a manual
reconciliation when the outcome of the call is unknown. Everything is stored in
PostgreSQL; the API and the workers share nothing else. Paths below are
relative to `src/src/`; scripts are under `src/scripts/`.

The repository is also a process. Architecture decisions are documents with
evidence that scripts validate; a template and its dependency image are built
into artifacts whose digests the owners accept; every commit is verified by a
list of gates, one of which injects faults into the working tree to show that
the others fail; proofs of a revision retain manifests that name its SHA. All
of that happens in one working tree without locks, beside an author who edits.

| Component | State | Operations | Talks to | Hard part |
|---|---|---|---|---|
| Orchestration worker (`modules/orchestration/orchestration-worker.service.ts`) | `tasks` (state, lease), `task_attempts`, `model_invocation_effects`, `artifacts`, `runs` | claim, load context, check lease, begin invocation, invoke, complete, fail, abandon, block | provider; event log; the wait service through the same rows | one logical operation is up to six transactions and an external call; crash, throw or lease expiry between any two |
| Durable human wait (`modules/durability-spike/durable-wait-spike.service.ts`) | `human_waits`, context snapshots, `runs`, `tasks` | open, answer, cancel | same rows as the worker | an answer is valid only for the recorded run version; cancellation races the worker |
| Event log (`modules/governance/domain-event.service.ts`) | `run_event_counters`, `events`, `outbox_messages` | append, inside the caller's transaction | every service | dense numbering under concurrent and failing transactions |
| Outbox publisher (`modules/orchestration/outbox-publisher.service.ts`) | lease columns of `outbox_messages`, `inbox_receipts`, `local_event_projections` | claim, consume, acknowledge | event log, worker loop | three transactions, several publishers, stale leases |
| Run queries (`modules/runs/runs.service.ts`) | none | event pages by cursor; reads | event log | the cursor must not pass an event that is still uncommitted |
| Command executor (`modules/governance/command-executor.service.ts`) | `idempotency_records` | run a command once per key | companies, initiatives, attachments | SERIALIZABLE transactions of concurrent duplicates, retries, lost answers |
| Companies, initiatives (`modules/companies`, `modules/initiatives`) | `companies`, profile versions, `initiatives`, `goal_versions` | create, replace profile, create goal and run | command executor, event log | optimistic versions, unique rows |
| Goal qualification (`modules/initiatives/goal-qualification.ts`, `policy/`) | none (pure) | classify a goal, propose a narrower one | initiatives | several rules broken at once; a narrowing that is refused again |
| Attachments, objects (`modules/attachments`, `modules/objects`) | `object_records`, blobs, grants | ingest, bind, retrieve, put, get, delete | object store, executor | row and blob cannot be changed together |
| Invites and sessions (`modules/auth`) | `founder_invites`, `founders`, `founder_sessions` | issue, redeem, sign out, verify | every endpoint | double redemption; sign-out during verification |
| Worker loop (`modules/orchestration/worker-loop.service.ts`) | none | call worker and publisher for ever | both | any throw ends the loop and the process |
| Sandbox candidate (`build-aico-004-candidate.mjs`, `aico-004-image-builder.mjs`, `validate-aico-004-architecture.mjs`, `verify-aico-004-candidate.mjs`) | template, recipe, archive, SBOM, licences, image metadata, provenance, two manifests | build, validate, verify, accept | the author's edits | eight files written one after the other from sources read one after the other |
| Owner decision record (`validate-aico-005-architecture.mjs`, `aico-005-decision-evidence.mjs`, the fail-closed prover) | header fields of ADR and evidence map, commits, hosted runs and their artifacts | validate, probe, publish evidence | git, hosted CI | a commit cannot hold its own SHA: three commits, each resting on what was published for the one before |
| Gates and repository proofs (`verify-ci.mjs`, `verification-gates.mjs`, `prove-gates-fail-closed.mjs`, `sandbox-proof.mjs`, `preview-proof.mjs`, `aico-005-provider-runtime-proof.mjs`, the mutation provers) | the working tree, fault files, services on fixed ports, scratch copies, manifests | run the gates, inject and withdraw faults, prove a revision, mutate a copy | the author, other terminals | hours long, killed anywhere, beside edits, commits and another run |
| Configuration, health, HTTP plumbing, migrations | none of their own | | | |

What makes each correct:

- worker: the provider is called at most once per task; one brief, exactly when
  the task succeeded; run and task agree; a worker that lost its lease changes
  nothing that matters; every task settles;
- wait: an open wait stays answerable; the lineage of a brief lists every answer
  and the snapshot its goal was read from;
  cancellation is final;
- events: numbers are dense and follow the commits; a paging reader misses
  nothing; each event is projected exactly once, in the end;
- commands: concurrent, retried and failing requests amount to commands executed
  one at a time and once per key; an accepted answer is the recorded one;
  nobody waits for ever;
- goal intake: a founder who follows a refusal is not refused for ever; a file is
  accepted when the policy permits it, and otherwise only for what the inspections
  are known to overlook; links stay within the limits;
  only a goal that needs clarification gets a run that nothing drives; what a
  client is told was refused is in the event log;
- candidate: whatever validates agrees with itself, and with what the owners
  accepted; a build left halfway is repaired by the next;
- decision: what is published as accepted is the proposal that was reviewed;
  what is published as reconciled rests on a published transition; the protocol
  can always be finished;
- gates and proofs: a manifest is of the commit it names; a run cleans up after
  itself; the gates do not stand in one another's way; a sound commit comes to
  be proved.

`PROJECT.json` lists all components and, under `hazards`, where in the code each
of these could go wrong.

## 2. Modules

```
ControlPlane        rows shared by worker and founder      EventStream     what the log promises
  TaskWorker        orchestration-worker.service.ts          EventOutbox   log, publisher, reader
  DurableWait       durable-wait-spike.service.ts              EventOutboxProofs
    Orchestration   both together, properties, IInv            MCEventOutbox
      OrchestrationProofs                                  FounderRules    commands as functions
      MCOrchestration                                        CommandLedger   what commands promise
ObjectRecords       rows and blobs                           CommandExecutor handlers and transactions
  MCObjectRecords                                              CommandExecutorProofs
FounderSessions     invites, sessions, requests                MCCommandExecutor
  MCFounderSessions                                        CandidateBundle build, validation, acceptance
  FounderAccessProofs  of these two modules                  CandidateBundleProofs
GoalPolicy          rules for goals and files                MCCandidateBundle
  GoalIntake        uploads, goals, runs                   DecisionRecord  validator, hosted CI, evidence
    GoalIntakeProofs                                         DecisionRecordProofs
    MCGoalIntake                                             MCDecisionRecord
RepositoryProof     gates, faults, proofs, author
  RepositoryProofProofs
  MCRepositoryProof
```

**ControlPlane.** One record per run for each table, since a run has at most one
task. A context snapshot is the sequence of the answers it lists. A lease token
is a fresh UUID per claim; the model uses the attempt number, which is just as
fresh. `row_version` is kept because answers are checked against it. `DbInit` is
what `createGoalAndRun` commits, including the run without a task that a goal
in need of clarification gets.

**TaskWorker.** `processOnce` per worker, with a program counter. Every
transaction is one action (PostgreSQL makes it atomic, and each closing
transaction starts with `FOR UPDATE`): `ClaimTask`, `LoadContext`,
`IsLeaseCurrent`, `AbandonAttempt`, `BeginModelInvocation`, `Invoke` (external),
`BlockUnknownModelOutcome`, `CompleteTask`, `FailTask`. Each transaction may
also throw before it does anything (`ThrowInTry`) or commit and lose its
acknowledgement (`Throws`): both lead into `failTask`, as in the code. A throw in
`failTask` or outside the try block ends the loop: `Crash`. Time is the flag
`expired` of a lease; a lease may expire under a live holder, at the price of a
fault. `beginModelInvocation` looks at neither lease nor run, and the stale
branches write to the effect row shared by all attempts: both are modelled as
the code does them.

**DurableWait.** `OpenWait`, `Answer`, `CancelRun`, each one transaction.

**EventOutbox.** A transaction begins (which fixes `available_at`), appends under
the row lock of the counter, and commits or rolls back. Publishers claim in the
order of `available_at, id`, skipping locked rows, consume and acknowledge. A
client pages with its last sequence. `EventStream` is the abstract
specification; the refinement mapping sorts the committed events of a run by
their sequence.

**FounderRules, CommandExecutor.** The four commands as functions from the
aggregates to an answer. A handler goes through insert, lookup or execute,
commit; snapshot, row locks and unique entries behave as PostgreSQL's
SERIALIZABLE level does where the code depends on it: a snapshot is fixed at the
first statement, an entry in flight is waited for, one committed after the
snapshot fails the transaction (500, since nothing retries it). Failures at any
other point, including a commit whose acknowledgement is lost, are faults.
`CommandLedger` executes a command in one step on current state.

**ObjectRecords.** `put`, `get`, `head`, `delete`, `ingest`, `bindToGoalVersion` and
`retrieveForRun`, split where a statement of the database ends or the store is
called, since nothing makes the two atomic. An identifier is known to callers
only once it was returned. Two history variables record which objects a delete
took from the store and which a reader missed there.

**FounderSessions.** A redemption locks the invite, then the founder, then writes
both with the session. A verification checks the token, reads the session, reads
the founder. Expiry is a flag raised at any time, separately for the session row
and for the token, which is rounded to seconds. Disabling a founder is external:
the code reads that status and never writes it. `redeemInvite` writes EXPIRED and
then throws, which rolls the write back; an invite is therefore PENDING or
REDEEMED.

**GoalPolicy, GoalIntake.** The rules of `evaluateGoalQualification` with their
precedence, as operators on what the patterns find in a text; the code's patterns
are the only definition of a goal's signals there is, so nothing is claimed of a
goal but what follows from refusing and revising it. A file is what it is: the
type its leading bytes show, the denied content it holds and whether that starts
within the first 4096 bytes, the pages or pixels it decodes to, and how their
number is written. `DeniedFound` and `MeasuredOver` are what the inspections make
of it (a regular expression over page objects, the canvas of a VP8X WebP and 1
for any other WebP, the head of the file), the checks follow in their order, and
`Permitted` is the attachment policy said of the file itself. The code filters lists
of reasons and capabilities in a published order; what a refusal cites is the
same set in any order, so these are sets here, while questions and file checks,
where the first ones count, keep their order. A draft starts as any goal with up to
two signals beside the numeric limits and is narrowed the way a refusal asks.
`Submit` evaluates before the transaction and `CreateGoalAndRun` checks version,
count, uniqueness and total size inside it, row by row; the lists of attachments
a goal may name are a constant (none or any two objects in the run, any set of
lists in the proofs); uploads, deletions and
the audit of a rejection (a transaction of its own) go on meanwhile. Run, task
and wait then move as in `Orchestration`, reduced to their states.

**CandidateBundle.** A derived file is a record of what it was made from, and a
digest is the content it is the digest of. The build is one action per file it
writes, in the order of the script, from what it read when; `Validates` is the
conjunction of the validator's comparisons and of nothing else. Sources are
edited at any time, a build fails or is killed between any two writes; the
verification installs, builds twice and compares. Nothing keeps it from running
beside a build, so it may: it then installs packages whose licence texts the build
takes, and builds from an archive that is being replaced. A verification counts
(`verified`) if no source was edited and no build ran since it began. That two
builds run beside each other is left out (section 6), and so are comparisons that
follow from others (the fixed number of packages, the digest of the design
contract, which is a file of the template). `Accept` is what the owners' commit
changes, allowed where the validator accepts the result.

**DecisionRecord.** A commit is a tree with its ancestors; a tree is contracts and
scripts, body, and the decision fields. `Validates(docs, h, clean)` is the validator
on the files read, HEAD and the answer of `git status`; `FailsClosed` has the
probes of its prover. Hosted runs check out one commit, where every process reads
the same. In the working tree each process reads for itself, and the author may
act between any two of these steps: the evidence script reads HEAD; its validator
loads the documents (`LoadDocuments`), asks git about the history (`AskHistory`),
then for status and HEAD (`AskStatus`); the probes are run (`ProveLocal`); the
script reads ADR and evidence map itself (`ReadAdr`, `ReadMap`), has the validator
run once more if they look reconciled, asks for cleanness, digests the files, and
asks the hosting about the run that is cited. The questions of one validator about
the history, and the probes, are one step each: nothing is claimed of a run during
which HEAD moved, and the probes are refused whatever they read (`ProbesRefused`).
The author follows the protocol or departs from it: edits content or takes the edit
back, records wrong fields, rewinds; artifacts expire. `RestsOnTransition` says what a reconciled
decision rests on; it does not say that the metadata commit has the same body
unless both name the same candidate, since nothing compares the two (section 6).

**RepositoryProof.** Eight of the 22 gates stand for all, one for each way of
reading or changing something. The fail-closed prover writes its faults into the
tree the gates read; exact-SHA proofs compare HEAD and tree where the scripts do,
and as they do: `git rev-parse HEAD` (`AskHead`) and `git status` (`AskStatus`) are
two processes with the author between them, and the provider proof looks for a
clean tree before it reads the commit it will name (`StartProver`, `ReadRevision`).
Mutations are applied to a copy one after the other. A proof carries two history
flags: `strayed`, it read a tree that was not its commit's; and `missed`, a check
had no chance to see it, because the tree was brought back by anybody (the run's own
restoring of the boundary document included), or because HEAD moved between the two
questions of a check. Runs are killed anywhere; cleanups fail, and what they could
not remove is nobody's from then on; the author edits, commits, checks out, discards
and sweeps up what a killed run left.

## 3. Runs

| Run | Instance | Shows |
|---|---|---|
| `orchestration` | 1 run, 3 workers, 4 claims, 3 faults, 2 waits | all safety properties of `Orchestration` |
| `orchestration_live` | 2 runs, 2 workers, 3 claims, 2 faults | `TaskSettles` |
| `outbox` | 2 transactions of up to 2 events, 2 runs, 2 publishers, 1 fault, pages of 2 | density, exactly-once projection; `EventStream` is implemented, the reader's prefix included |
| `outbox_live` | 2 transactions, 1 run, 2 publishers, 3 faults | every event is delivered and acknowledged |
| `commands` | 4 commands, 2 keys, 2 bodies, 2 handlers, 3 requests, 1 fault, three beginnings | answers match records; `CommandLedger` is implemented; no request waits for ever |
| `objects` | 2 objects, 2 callers, 2 faults | misses, deletions and links; every call returns |
| `sessions` | 2 invites, 2 founders, 2 redemptions, 2 requests, 1 fault | one session per invite; ended sessions are denied |
| `goal_intake` | every goal with up to 2 signals, 2 handlers, 2 objects, 2 goals, 2 uploads, 1 fault, limits 2 and 3 | verdicts on files against the policy, narrowing, links, stalled runs, audit |
| `candidate_bundle` | 2 contents per source, 2 edits, 1 failed or killed build, any number of verifications | sets that check agree, accepted sets are frozen; a proposal is repaired |
| `decision_record` | 7 commits, 2 departures or local runs within the first 3 | frozen transitions, verified evidence, probes at every stage; the protocol ends |
| `repository_proofs` | the provider proof and one colleague, 2 controls, 2 commits, 2 disturbances | manifests, cleanup, isolation; the proof comes to pass |
| `stale_effect` | 1 run, 2 workers | a statement of a document that the code does not keep (section 6) |

The type invariant of a module is part of its first invariant (`TypeOK` in
`DenseSequences`, `AnswersMatchRecord`, `RowsAndBlobsAgree`,
`OneSessionPerInvite`, `LinksWithinPolicy`, `CheckedSetAgrees`,
`TransitionIsFrozen`, `EndedLeavesNothing`; `ObjectTypeOK` in that of the objects)
and an invariant of its own in `orchestration`.

*Bounds.* Three workers let one worker be stale while two others compete. A task
needs one claim per fault plus one, hence `MaxAttempts = MaxFaults + 1`: in the
liveness run the bound on claims is never what stops a task. Two waits are needed
for an old answer to meet a new wait. Runs do not share rows, so one run suffices
for safety; the liveness run has two, so that a worker can be busy elsewhere. Two
transactions, two publishers and two handlers are the pairs the races are about;
one of two requests signs out while the other is verified. Commands begin with
nothing, with a company, or with an initiative (`Beginnings`), so that three
requests suffice to race two and retry one at every stage. Two signals show every
pair of rules; sizes 1 and 2 against a total of 3 meet the limit and pass it by
one. Two edits of a source with two contents put a build between old and new and
back again (the two contents are alike, so every run starts from the one); one kill
leaves any prefix of its files. The protocol of a decision
takes three commits; two departures cost up to four more, so seven never stop it.
Two mutations are a mutant and its predecessor, two commits a proof's own and
another; two disturbances are an edit and its undoing, or a kill beside an edit.
Symmetry is declared only over sets whose members are interchangeable and only in
runs without liveness properties. Deadlock is not checked where the founder may
stop sending requests, every task may have settled or the decision is recorded:
the systems really may come to rest.

*Fairness.* `worker-loop.service.ts` calls worker and publisher again whenever
they return, so each worker's next step and each publisher's next step is weakly
fair; a crashed process is restarted by its supervisor, which is the only
assumption from outside the code. Time passes, so the lease of a dead holder
expires. Nothing is assumed of founders, clients, transactions or faults. A
request handler that is not waiting for a lock goes on. Calls on
objects may be made for ever, so there a call that waits for a row lock again
and again could be passed over; PostgreSQL serves waiters in the order of their
arrival, which strong fairness states. Scripts go on until they end or are
killed: the commands they wait for are assumed to end (only the probes of the
gate prover have timeouts; a command that hangs is a run that is killed). Of
people this much is
assumed: the author of a refused proposal builds it again; the author of a decision
takes the next step of the protocol and the hosted CI runs what is pushed; whoever wants the
provider proof starts it again, discards edits that are in its way and sweeps up
what a killed run left. `BundleRepaired`, `DecisionSettles` and `ProofPasses` say
that then no state the scripts leave behind is a trap.

## 4. Proofs

Each `...Proofs` module proves `Spec => []IInv` (theorem `InductiveInvariant`) for
an inductive invariant `IInv` of its component (`FounderAccessProofs` has two
components; the names of the objects' one are `ObjectSpec`, `ObjectIInv` and
`ObjectInvariant`), one lemma per action, and from it the properties below; for
arbitrary sets of runs, workers, objects, handlers and so on, finite or not, and
arbitrary values of the bounds. The assumptions are those the modules declare:
bounds are natural numbers, the null values are not members of the sets they stand
beside, the limits and samples of goal intake have their types
(`BoundsAreNaturals`, `MaxFaultsIsNatural`, `NoClaimIsNoClaim`, `OutboxBounds`,
`RulesConstants`, `ExecutorConstants`, `ObjectConstants`, `SessionConstants`,
`IntakeConstants`, `BundleConstants`, `DecisionConstants`, `ProofConstants`).
Every invariant used was checked with TLC before it was proved.

| Module | Theorem | Property |
|---|---|---|
| `OrchestrationProofs` | `TypeCorrect`, `InvokedOnce`, `BriefPublishedOnce`, `LineageNamesAllAnswers`, `RunAndTaskAgree`, `LeaseIsExclusive`, `WaitStaysAnswerable` | the invariants of run `orchestration` |
| | `StaleWorkersAreFenced`, `CancellationIsFinal` | its action properties |
| `EventOutboxProofs` | `SequencesAreDense`, `EventsProjectedOnce` | `DenseSequences`, `ProjectedOnce` |
| | `OutboxImplementsStream` | the refinement `ImplementsStream` |
| `CommandExecutorProofs` | `SuccessIsOnRecord` | `AnswersMatchRecord` |
| | `ExecutorImplementsLedger` | the refinement `ImplementsLedger` |
| `FounderAccessProofs` | `ObjectsAgree`, `LinksOnlyReady` | `RowsAndBlobsAgree`, the action property `BoundWhileReady` |
| | `InviteSpentOnce`, `DeadSessionsDenied` | `OneSessionPerInvite`, `EndedIsDenied` |
| `GoalIntakeProofs` | `VerdictsArePolicy`, `RefusalsEnd`, `RunsAreDriven`, `RejectionsAreOnRecord`, `AttachmentsWithinPolicy` | `VerdictIsPolicy`, `NarrowingEnds`, `OnlyClarificationStalls`, `RefusalsAreAudited`, `LinksWithinPolicy` |
| `CandidateBundleProofs` | `ValidatedSetIsBound`, `UndisturbedBuildsValidate`, `AcceptanceIsFrozen` | `CheckedSetAgrees`, `UndisturbedBuildIsValid`, `AcceptedIsFrozen` |
| `DecisionRecordProofs` | `TransitionsAreFrozen`, `EvidenceRestsOnRuns`, `ProbesAreRefused` | `TransitionIsFrozen`, `EvidenceIsVerified`, `ProbesKillAtEveryStage` |
| `RepositoryProofProofs` | `RunsLeaveNothing`, `MutantsJudgedAlone`, `EvidenceNamesItsCommit`, `UndisturbedRunsPass` | `EndedLeavesNothing`, `MutantsAreIsolated`, `ManifestIsExact`, `UndisturbedPasses` |

None of the properties is inductive alone; what each needs besides is the
argument why the code is right.

*Orchestration.* That the provider is called once needs to know that a worker
about to call it is covered by `invocation_count` and that nobody called before
(`ProviderInv`), that no two workers are at that point (`ExclusiveInv`), and that a
count of zero means no call (`EffectInv`). That a brief's lineage is the snapshot
its goal was loaded from needs that a claimed task is never handed back to the founder
(`ClaimedInv`), so the snapshot cannot change under a worker (`ClaimsInv`), and
that snapshots hold the resolved rounds in order (`ContextInv`). The action
properties follow from `IInv` and from three facts: only the holder of a task
writes it, a step touches one run, a step moves one worker.

*Event log.* The counter runs ahead of the visible events by what the one
transaction holding its lock has taken. `Spent(r)` is the counter without that;
the visible events of a run bear exactly the numbers `1..Spent(r)`, each once
(`NumbersSpent`), and the pending ones those that follow (`EventsOwned`), so a
commit extends the numbering and a rollback gives it back. Receipts and projection
are the same set, and only what has a receipt is acknowledged (`ReceiptsKept`): a
publisher that outlived its lease finds the receipt. For the refinement, the log
of a run is its events by sequence, the n-th at place n (`LogOrder`); so a commit
appends and a page of the reader is the continuation of its prefix.

*Commands.* A key in flight belongs to one handler and has no record yet
(`KeysHeld`); a row that a command is about to write is locked and still has the
version the command read (`RowsHeld`); and the rest of what it read is tied to
that version or cannot be undone (`SnapshotsPast`). Hence the outcome computed on
the snapshot is the outcome on current state at the commit, which is the step of
the ledger.

*Objects.* An identifier under creation is known to nobody, so its creator works
alone (`CreatorsAlone`), and what was returned has a committed row and its blob, or
was deleted (`KnownObjects`). A bind holds the lock of a READY row from its check to
its commit (`BindersLock`), which keeps the UPDATE of a delete out.

*Sessions.* From the check to the commit a redemption holds the lock of an invite
that stays PENDING, then that of a founder who is not disabled (`LocksHeld`).
Sessions never come back and a disabled founder stays disabled (`DeadStayDead`),
so the second read of a verification, or the first, finds out.

*Goal intake.* The verdict is proved for every file: what the checks say as one
condition (`FileDecision`), what the inspections find of it (`FoundUnlessOverlooked`,
`MeasuredUnlessHidden`), and the policy from both. A narrowing removes all that is cited, and only a number of
screens in the text can be cited later than the rest (`DraftShrinks`): two
refusals at most. A run stands as the result of its goal says (`RunsStand`). The
event of a rejection is committed before the client is told, so the events of a
code are at least the answers plus the handlers about to give one (`EventsAhead`).
The code adds sizes row by row, `LinksWithinPolicy` speaks of the sum over the set
of links; the two agree because the list repeats nothing (`SumOfList`, by the least
length for which they would differ: `NatClosure`), and go on agreeing because a
size never changes once it is written (`LinksStand`).

*Candidate.* The validator compares some of the pairs of files only. The others
agree because of the order of the writes: what a build has written is still
there (`WrittenSoFar`) and the manifest, written last, binds a design decision,
artifacts and an SBOM that belong together even if a build was killed just before
it (`ManifestCoherent`). What an undisturbed build has read is still so
(`ReadSoFar`). A verification that is good so far has no build beside it, and the
image it built is still the one recorded (`CheckedSoFar`).

*Decision record.* An artifact says what was true of the history when its run
ended. Commits are never rewritten (a rewind moves HEAD only), so what the
validator and the evidence script established of a commit stays true
(`RunsSound`), also after the artifact has expired. What the processes of a local
run learn adds up only while nobody touches HEAD and tree: they have then all read
the same (`Undisturbed`). If somebody does, only the last check is left, which asks
the hosting about the very fields that are published: a manifest that calls itself
reconciled cites a transition that was published for the commit it names
(`CitesTransition`), and no more is claimed of it. The proof
corrected the property: it used to claim that candidate, metadata commit and
reconciled commit hold the same body, which two departures cannot refute and
three can (section 6).

*Repository proofs.* Scratch directories, copies and faults exist only in the
phases whose end removes them (`RowFits`, `JobFits`), so none outlives a run that
ends by itself; a copy under judgement lacks the control of its mutant and no
other; and a fault in the boundary document is in the hands of a live run,
committed, or left by a killed one (`FaultKnown`). For evidence (`EInv`): a proof
that read a tree other than its commit's finds the tree still off, or that was missed
(`Seen`). While a check asks for the status, HEAD is the commit of the proof, or it
moved since the first question and the proof, if it strayed, is excused (`Asked`,
`Excused`). Past its first gate a proof that did not stray has read an intact document
(`Intact`), past the integration proof (`Held`) all the controls (`Complete`), and the
check before the manifest is written rules out the first half of `Seen`. A retained
manifest whose checks missed nothing is therefore of its commit. `UndisturbedPasses` goes phase by phase: while nobody slips, the
tree is the commit but for the one fault the prover is at (`Probed`), and services
are up exactly where they should be (`Calm`, `Quiet`). Proving this corrected the
model: a tree brought back used to count only if others did it, and then three
disturbances refute `ManifestIsExact`. The run itself can restore a document that
was changed under it, after which its last check finds nothing.

Only model-checked is liveness (`TaskSettles`, `OutboxDrains`, `RequestsAnswered`,
`CallsReturn`, `BundleRepaired`, `DecisionSettles`, `ProofPasses`): it rests on
fairness and `ENABLED`, which are out of the prover's reach.

## 5. What is not modelled

Text, formatting, digests and cost figures; tenants other than one (every query
is scoped by company, and the models have one); single reads; profile validation
before a command; expiry of waits and of idempotency records, which no code
enforces; configuration, health, HTTP plumbing, migrations as DDL.

The validators of AICO-002, 003, 006, 007 and 008 are lists of texts and values
that documents must contain: they have no state, and a model would repeat the
lists; `RepositoryProof` has their verdict as a gate. The same holds of what the
evidence of a test run must contain, field by field. The runtime preflight
compares version strings. The fixtures drive the running system through single
schedules of what the models explore. The proof services under `test/` (policy
approval, preview, provider) are not part of the running system; the scripts
that run them are modelled.

Deadlock victims of the database (the worker locks task and run, cancellation
run and task) appear as throws.

## 6. Where documents and code disagree

`StaleHolderKeepsEffect` (run `stale_effect`): a worker that lost its lease and
fails late marks the shared invocation record UNKNOWN under the newer attempt,
which is then blocked. `PROJECT.json` quotes the statement under `findings`.

Met while reading, each shown by a few lines of code, in documents' words first:

- an event consumer defers on a gap (`002-multi-agent-runtime.md:219`); the local
  projection consumes by `available_at` and never looks at `run_sequence`;
- a duplicate command is answered from its record (`003-backend-platform.md:91`); a
  concurrent duplicate fails serialization and is answered 500, since nothing in
  `command-executor.service.ts` retries;
- orphaned objects are collected (`001-system-architecture.md:298`); the blob of
  an ingest that is rolled back (`attachments.service.ts:103`) stays;
- DRAFT becomes QUALIFYING or CANCELED (`002-multi-agent-runtime.md:93`); `open`
  makes it AWAITING_FOUNDER_INPUT;
- one result per idempotency key (`002-multi-agent-runtime.md:241`); a rejection
  leaves no record, so a retry may be answered differently;
- the disposition of an attempt in flight is recorded at a cancellation
  (`001-system-architecture.md:358`); `cancelFixture` leaves the attempt RUNNING,
  for ever if its worker is gone;
- PNG, JPEG and WebP have at most 20 megapixels decoded and a PDF 50 pages
  (`alpha-operating-policy-v1.md:60-61`); `webpPixels` gives 1 for every WebP without
  a VP8X header (`attachment-validator.ts:173`), `pdfPageCount` counts what looks
  like an uncompressed page object. Active content and embedded files are denied
  (`:66`); `deniedClass` looks for markup and PDF entries in the first 4096 bytes.
  `VerdictIsPolicy` names both, and shows that nothing else gets past the checks;
- a goal falls in one of six categories (`alpha-operating-policy-v1.md:36`); the
  code knows no category and refuses by three patterns
  (`goal-qualification.ts:333`);
- clarifications are answered and initiatives canceled by the founder
  (`qualification-policy.ts:101`); no endpoint does either;
- the accepted and the final reconciliation commit may alter only the masked
  fields (`AICO_005_PROVIDER_EVIDENCE.md:286`); the validator compares the body of
  HEAD with the candidate HEAD names, and that of the metadata commit with the one
  it named itself, but neither candidate with the other. After a revision between
  two proposals, a metadata commit can accept the second and the reconciliation
  name the first, with its body, and cite the run of the metadata commit; contracts
  and scripts agree in all of them. `EvidenceIsVerified` claims what is left: equal
  bodies where both name the same candidate.

Worth knowing, without a document that says otherwise:

- `redeemInvite` marks an expired invite and rolls the mark back by throwing;
- the body rules of the API bound screens, flows and data mode so that the
  matching rules of the qualification are never reached over HTTP; the policy's
  limit of one active run is not enforced by `createGoalAndRun`;
- an answer links only the newest answer to the new snapshot's rows, while its
  list of answers names all; and the answers stop there: `loadContext` selects the
  goal and two profile fields, which are the same in every snapshot of a run, so
  the provider is never sent an answer (`002-multi-agent-runtime.md:163` only says
  what a manifest may include);
- `sandbox-proof.mjs` and `policy-approval-proof.mjs` look at the tree once and
  print the revision at the end; a manifest of the provider proof whose last
  check fails stays on disk, and `preview-proof.mjs` checks nothing after it has
  written its own;
- the checks of the exact-SHA proofs ask for HEAD first and for the status then
  (`aico-005-provider-runtime-proof.mjs:334`, `preview-proof.mjs:288`): when an edit
  that a proof has read is committed between the two, the old HEAD is found unchanged
  and the tree clean, and the manifest names a commit that the proof did not read;
- the gate prover puts the boundary document back from the text it read before,
  over whatever was changed meanwhile; killed, it leaves its fault and its
  containers on ports the next run needs. If collecting logs fails, that error
  replaces the one of the gate (the services are still stopped);
- the validator of the candidate compares neither the archive with the template
  nor the SBOM with the lock; `CheckedSetAgrees` shows for which of these the
  order of the build makes up. A new file of the template that no list names is
  not noticed, licence texts of installed packages are not compared with the
  lock. Nothing keeps a verification away from a build, or two builds from each
  other; the latter is not modelled, and nothing is claimed of what two builds leave
  that write the same files at the same time;
- a Proposed decision's hosted run is checked by the form of its URL only; the
  local evidence script does not read HEAD again, and publishes ADR and map as it
  read them between two validators that read the files for themselves: beside an
  author who edits and restores, it can call a decision reconciled that no validator
  has seen, although the run it cites is real. The artifacts a reconciliation
  is checked against are kept for 90 days.

## 7. Plan

Done: the models of section 2 and the proofs of section 4. Next, in this order:

1. A composition of the goal command of `CommandExecutor` with `Orchestration`, so
   that runs are created while workers poll, and of ingest and bind with the
   idempotency records.
2. The approval command of the policy proof service (`test/aico-006-spike`), if
   it is promoted to the service.
