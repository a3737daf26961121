# Verification of claude-kit

claude-kit is a Python command line tool (`src/src/claude_kit`) that installs
an SDLC configuration for coding agents into a project and then keeps the
project's pipeline state: which gates of the process are resolved, on what
evidence, with which risks accepted by whom.  Parts of it run agents: they fork
reviewers and makers as native processes, collect typed evidence, apply patches
in worktrees of their own and write the outcome into the same state.  What it
promises is that no gate is passed on stale or missing evidence, and that the
record survives crashes, concurrent commands and upgrades.  The modules here
state those promises and check them.

## Inventory

The lines every definition stands for are in `PROJECT.json` ("map"), and so is
the list of hazards with the properties that cover each.

| Component (source) | State it keeps | Operations | Hard behaviour | What makes it correct | Modules |
|---|---|---|---|---|---|
| Gate ledger (`pipeline.py`) | the snapshot document: status, stage, `gate_history`, `findings_evidence`, `accepted_risks` and their history, `human_stops`, `run_archives` | start, adopt, record-findings, close-gate, not-applicable, accept-risk (and `--refresh`), pause, resolve, complete, abort | evidence, HEAD, branch and policy change between commands; long repair sequences | order without gaps; transitions only over a ledger that is still true; nothing audited is lost | GateLedger, PipelineLedger |
| Snapshot lock and write lease (`pipeline.py`, `secure_fs.py`) | a shared `flock` on the root, an O_EXCL lock file | lock, load, store, unlock, time out | a holder dies and its file stays | no lost update; waiting commands return | ProjectMutation |
| Project transactions (`secure_fs.py`) | rollback copies, marker `transaction.json`, journal | begin, commit, rollback, recover | a crash between any two steps, the recovery's own included | all or nothing; acknowledged writes kept | ProjectMutation |
| Managed stage ledger (`pipeline.py`) | `stage_history`, skips, workspace checkpoints, the evidence gates are bound to | bind, claim, finish, attest skip, reconcile, gate calls, attest completion | coordinators racing, stale attempts, late findings | a stage succeeds once, after its dependencies; the evidence of a gate never changes | ManagedStages, ManagedGates |
| Workflow executor (`workflow_executor.py`, `workflows.py`) | attempts in memory, the ledger on disk | fork, join, retry, stop | results lost between collect and finish; timeouts | the ledger and the workers agree; it ends | WorkflowExecutor |
| Managed execution lease (`execution_lease.py`) | a root lock and two compatibility locks | acquire, release | clients of several releases | one coordinator at a time; a held lock refuses, nobody waits for it | WorkflowExecutor |
| Program units (`pipeline.py`, `program_*.py`) | units, waves, budgets, gate checkpoints | bind, claim, finish, checkpoint, complete, reconcile | edits, kills and clocks at the limits of budgets | the frozen order, boundaries and budgets respected | ProgramPlan, ProgramOrder, ProgramUnits |
| Maker/checker (`maker_checker.py`) | run document, apply intents, uncertain dispatches | make, check, review, apply, abort, resume | crash around an applied patch; workers outliving their coordinator | what was reviewed is what is applied; bounded rounds | Reviews, MakerCheckerLoop, MakerChecker |
| Dispatch (`dispatch.py`, `routed_dispatch.py`, `process_dispatch.py`) | handles, processes, captures | spawn, message, wait, collect, retry, cancel | timeout racing an answer; dying groups | one outcome for each attempt; no orphan | DispatchContract, ProcessDispatch |
| Managed approvals (`managed_approval.py`) | approval records under compare-and-swap | authorize, consume, record, indeterminate | a lost or late broker answer | one signature buys at most one pull request | ManagedApproval |
| Worktrees (`worktrees.py`) | ownership records, git registrations | create, mark, verify, cleanup, abort, resume | creation interrupted anywhere | nothing orphaned, no work removed | Worktrees |
| State migration, execution defaults (`state_migration.py`, `execution_config.py`) | `.ckit` and `.claude` state | preview, migrate, set policy | later edits, frozen runs | convergent; user edits kept | InstalledFiles, ProjectLifecycle |
| Install, merge, upgrade (`runtime_scaffold.py`, `scaffold.py`, `upgrader.py`) | the installed surface, manifests, sidecars, backups | init in its modes, merge, upgrade, runtime | edits and new kit versions between commands | what a user wrote survives | InstalledFiles, ProjectLifecycle |
| Contained file system (`secure_fs.py`) | directory descriptors | replace, create exclusively, move, remove | path swaps | a write never leaves the root | none |
| Learning capture (`learning_capture.py`) | memory entries and their index | record | index update fails | entry and index agree | none |
| Hooks, catalog, projection, rendering, command line, tickets, telemetry | none that outlives a call | pure functions and I/O | - | - | none |

How they interact: every ledger command goes through the write lease and the
snapshot lock; installers, upgrades and migrations exclude them with the
exclusive form of the lease and cover the snapshot with their rollback copies;
managed and program execution write extra contracts into the snapshot through
the same lock, and hold the managed execution lease around it; the executor,
the maker/checker loop and the program coordinator drive workers through the
dispatch contract and the worktrees, and only then write to the ledger.

The models are cut along the same lines.  `ProjectMutation` shows that a locked
ledger command and a transaction may be taken as one step; every other module
takes them so.  `WorkflowExecutor` shows that the managed lease admits one
coordinator at a time; `MakerChecker`, `ProgramUnits` and `Worktrees` take that from
it.  `ProcessDispatch` shows that the dispatchers keep `DispatchContract`; the
coordinators' models rely on no more than it says.

## Modules

**GateLedger** is the abstract gate ledger: `status`, the number of gates an
adoption declared historical, the outcomes of the gates after them in order,
whether a human stop holds the run back, and the runs that ended.

**PipelineLedger** is the code for a run driven by hand.  The snapshot document is
one record, `snap`; its records mirror the JSON (`GateEntry` is an element of
`gate_history`, `Risk` of `accepted_risks`, `FindingSet` is `findings_evidence` with the
counts).  The variables `tree`, `files` and `policy` are what validation compares it
with: git, evidence files, installed policy.  The long `validate()` is split by the
part of the document it reads: `Coherent` (identity, stops, history, stage),
`FindingsValid`, `AcceptancesFresh`; `Valid`, `ValidForFindings`, `ValidForRefresh` and
`ValidTerminal` are the argument combinations its callers use.  Each CLI mutation is
one action whose guards are the command's early returns.  A hash is the content
it hashes; Critical and High are one flag; Low and Cosmetic findings block
nothing and are left out.  `not-applicable` is two actions, because it judges its gate
by the installed policy before it takes the lock: `asked` holds the gates a
waiting command found conditional.

**ProjectMutation** takes a step of the other modules apart.  `tx` is the program
counter of the transaction or recovery in progress, with the entry its loop has
reached; `live`, `backup` and `marker` are the disk.  An entry of the protected
surface is the generation that wrote it, and the last entry also holds the
snapshot, the lock file and the journal, because the state directory lies inside
the surface.  Ledger commands run step by step (`pc`); the snapshot is the set of
commands whose writes it holds, so a lost update is a missing member.
`Interrupt` kills the transaction at any step, `Die` a command; both free their
`flock` and nothing else.  `Fail` is an exception the code rolls back itself.

**ManagedStages** is the ledger a coordinator writes once a workflow graph is
bound: an operator `X..Allowed` for the refusals of each call and one for the
document it writes.  Any caller may make any call in any order.  **ManagedGates**
adds what the gate calls derive from the evidence the stages left (`Projection`):
findings reports, accepted risks, the bundle a gate is bound to, closeout.
**WorkflowExecutor** is the coordinator that really makes the calls, step by step
of `execute_bound_workflow` with its lease; it implements `ManagedStages`.  When a wait
raises or is interrupted, each worker is closed with whatever it came to
(`Closings`), which `finish` may refuse to record (`Unrecordable`); `mishaps` remembers that
this, a kill, an operator's act or an interrupt in an unprotected place happened.

**MakerCheckerLoop** is what a maker/checker run promises, over the artifacts and
reviews of **Reviews**; **MakerChecker** is the coordinator, cut where it writes
something durable or calls the dispatcher, and it implements the loop.  Its worktree is
created effect by effect, in the order of **Worktrees** (`Progression`): a kill can leave a
creation that every later call refuses (`Stuck`).

**DispatchContract** is what a dispatcher promises of the attempts of a worker;
**ProcessDispatch** is the routed dispatcher over its adapters with hosts that run,
fork and exit on their own, and it implements the contract.  An interrupt comes
inside a child's wait (`Interrupt`), between two of a routed one (`InterruptBetween`) or
while somebody winds up already (`InterruptAgain`).

**ProgramPlan** is the manifest of Mode E and its validation (pure operators): units
and gates as they are declared, each with its wave, and validation compares the two;
**ProgramOrder** what executing one promises, **ProgramUnits** the ledger calls and the
coordinator that makes them, which implements the order.

**ManagedApproval** is one approval raced by several coordinators over a store that
compares revisions; the driver and the broker, which are outside the repository,
keep the protocols it declares (marked external in the map).

**InstalledFiles** has what each installer does to a tree, as functions;
**ProjectLifecycle** the commands in any order.  A path stands for the files of its
kind, a content is the set of the parts it was put together from, so "what a user
wrote is lost" is a part that is nowhere any more.  What he wrote *within* the
kit's, in a marked block or as a server under one of its ids (`Within`), is a part of its
own kind: the native installers replace it.

**Worktrees** is the worktree manager, effect by effect: intent, directory, git's
registration, checkout, marker and their removal.

`MC*` modules give the constants values for TLC.  `*Proofs` modules hold the
theorems.

## Runs

| Run | Question | Instance and why it is enough |
|---|---|---|
| pipeline_risks | Is a gate resolved or a run completed only over fresh, complete, audited acceptances? | 2 gates, so that a risk accepted at the first is stale at the second; 2 findings, so that an acceptance can be partial; 3 commits; one retirement. 266,630 states |
| pipeline_lifecycle | Order, skips, pauses, recovery by a new report, archives, and the refinement of `GateLedger` | 2 policies, 2 branches, 2 contents of one evidence file or none, 1 stop, 1 archived run; no Medium findings, which the other run has |
| project_mutation | Crash safety, lost updates, progress | 2 entries (the last is the state directory), 2 commands, 2 transactions, 2 interruptions: an interrupted recovery of an interrupted transaction |
| managed_ledger | Does every order of legal calls leave a document that validates, with the evidence of every gate intact? | 3 stages (a read-only review, a conditional build, a closeout), 2 gates, 3 attempts, 2 contents of the worktree, findings of two severities, 1 refresh. 485,154 states. Human stops and aborts are not in `GSpec`; `managed_execution` has them, and the advisory and deciding stages |
| managed_execution | One coordinator at a time, legal calls only, no attempt lost, every invocation returns | 2 releases that know different lock files, a panel of two stages and a build, 2 invocations, 1 retry, 1 act of an operator. 312,455 states |
| maker_checker | Does what passes equal what was reviewed and applied, whatever dies when? | 2 artifacts, 2 blocking findings of 2 severities, 1 revision, 3 invocations. 229,452 states |
| process_dispatch | Is a host ever left to itself, is an interruption passed on before it is confirmed, does a wait return? | 2 workers behind one adapter or two, 2 attempts, 1 retry: two groups to unwind, and a failed attempt with a successor |
| program_units | The frozen order, boundaries, budgets | 5 waves of all kinds, 2 attempts, caps of 2, 2 plan revisions, 1 fault anywhere, manifests that are no plans. 768,779 states |
| managed_approval | Can one signature buy two pull requests, or a receipt say what did not happen? | 2 coordinators, 2 policies, 2 commits, a clock of 2 ticks. 552,704 states |
| project_files | Does what a user wrote survive every command? | every command in any order, 2 kit versions, 1 edit, one path of each kind that is treated differently; the edit may fall within the kit's own text. 151,922 states |
| worktrees | Can a killed creation or removal orphan a tree or lose work? | 2 workers, 2 kills, 2 edits: a replay killed again. 187,706 states |
| claim_stale_acceptances_can_be_refreshed | The divergence below | the instance of managed_ledger |

Bounds are constants named in the modules (`Max...`) and stand in guards.  Model
values that are interchangeable are declared so (`SYMMETRY`) only in runs without
temporal liveness.  Deadlock is not checked: with the bounds used up, a run
ended, or every command returned, the systems stop.

What the properties say is stated in full above each definition; most of them
relate a document to something outside of it (files, git, live processes, a
worktree) or to its own past.  The two conditional ones of `ProjectMutation`:
`AllOrNothing` and `WritesKept` hold outside two windows, which the auxiliary
variable `torn` remembers: a rollback interrupted while it sweeps its copies, and
a restoration made by a `begin()` that never published a marker.  `WritesKept` also
leaves out the commands that wrote over an interrupted transaction (`exposed`).
Each window is a divergence listed below.

**Fairness.**  `ProjectMutation`: a process that is running takes its next step (`WF` on
`Transaction` and on each `Command`), which is the scheduler's promise; nobody has
to start a command, retry one, or remove a stale lock file.  `MakerChecker`,
`WorkflowExecutor` and `ProcessDispatch`: the coordinator takes its next step (`WF` on
`Step`, for each coordinator), again the scheduler's; workers need not answer,
`WF_vars(\E h : Overrun(h))` of `ProcessDispatch` is the hard timeout, a clock that
goes on.  The other modules state safety only and assume no fairness.

## Where documents and code disagree

The first is a run of its own (`claim_...`); the others were met while modelling.
The models do what the code does.

Gate ledger, by hand:

1. `abort` of a paused run keeps the pending stop; `validate` (`pipeline.py:10926`) calls
   the document malformed from then on, and no later `start` or `adopt` can archive
   it.  An abort after a new report made acceptances stale ends in the same place.
2. `accept-risk --refresh` can record a finding twice at one gate, which validation
   refuses afterwards.
3. An acceptance that has not yet resolved its gate cannot be refreshed once it
   is stale, against the docstring of `record_findings`.  The same holds for a gate
   that was cleared while no Medium finding was open; `RefreshHasRoom` is
   stated for open Medium findings for this reason.
   `not_applicable` reads the policy that makes its gate conditional before it
   takes the lock (`pipeline.py:12017`) and compares digests under it, so that a policy
   swapped in and out again leaves a skip the run's own policy refuses: every later
   `validate` fails and only `abort` is left.

Transactions:

4. A write made between the interruption of a transaction and its recovery is
   acknowledged and then erased by the recovery.
5. A rollback interrupted while removing its copies is repeated from what is
   left of them (`secure_fs.py:2237`, against `docs/architecture.md:369`).
6. A `begin()` that fails to write its marker (`secure_fs.py:1609`) restores with
   nothing on disk that would let an interruption be recovered.

Managed runs:

7. **The claim run.**  An acceptance at a gate that is not the last goes stale when
   the next gate's findings are recorded, and neither it nor the run can be
   repaired; `tests/test_pipeline.py:3405` cuts `ordered_gates` short and never meets it,
   `:5264` covers manual runs only.
8. `not-applicable` of a gate with a skipped owner right after an accepted-risk gate
   is refused ("blocking findings remain"), and `record-findings` for a skipped
   owner is refused; the same of the first gate after any stage succeeded.
9. `accept-risk --refresh` after closeout succeeded makes its evidence mismatch, and a
   refresh that supersedes one accepted finding by another accepted one records it
   twice: the document is invalid for good.  In `ManagedGates` such a document
   refuses every later gate call (`Validates` in their guards), as the code's does;
   `LedgerValid` is about the stage ledger, which a refresh does not touch.
10. An advisory planning FAIL with a critical or high finding blocks every later
    non-decision gate whose closure contains the panel (`workflow_evidence.py:1335`).
11. `validate` compares wall-clock timestamps of one second (`pipeline.py:10618`).
12. "Every initial result above is durable before any retry can stop this
    invocation" (`workflow_executor.py`, `run()`) fails when an operator pauses between
    claim and finish.  A crash during a retry leaves two records with the same
    dispatch id, which `reconcile_stale_stage_attempt` cannot settle.  When a wait is
    interrupted, a sibling that finished with evidence that does not pass stays running
    (`finish` raises, `workflow_executor.py:837`); so does an attempt interrupted between
    its claim and the note of it, or whose closing is interrupted again.
13. Malformed evidence of a succeeded dispatch is "retryable" to the executor, while
    `ProcessDispatcher.retry` accepts failed handles only.

Maker/checker and programs:

14. A run killed after `WorktreeManager.create` wrote its intent and then aborted is
    called incomplete for ever (`maker_checker.py:1197`), so it cannot be archived,
    against the abort's own advice (`:4147`).
15. Editing the owned worktree blocks resume and abort, and a kill in the middle of
    `git apply` leaves a tree after which neither is possible.
16. A cancelled program attempt that broke a boundary or budget is turned into
    "failed" (`pipeline.py:7844`); the artifact check refuses the disagreement, the
    attempt stays running and only abort is left.
17. `validate` runs `_program_execution_problem` on terminal runs too, so once HEAD moves
    after a Mode E run ended it can no longer be archived (`continuity.md:127`).  While
    HEAD is moved every call is refused, abort included.
18. A pause for the retry budget asks for a child manifest revision, which bind refuses
    once an attempt exists; the hard spawn cap raises instead of pausing.

Dispatch:

19. A cancel that meets a scope problem leaves status CANCELLED with a FAILED result,
    so that a layered cancel raises (against `process_dispatch.py:5262`).
20. An interrupt between the final status and the result leaves a terminal attempt
    without result, for which `collect` raises.  `retry` twice on one failed handle
    overwrites the running retry's state.  `RoutedDispatcher.wait` interrupted between
    two child waits passes the interruption on although a cancellation failed
    (`routed_dispatch.py:237`), where an adapter would say so (`process_dispatch.py:5217`).

Worktrees:

21. A cleanup killed after git removed the tree leaves a record that verify, cleanup
    and resume-run refuse for ever; in a creation, a kill between rename and attribute, or between
    git's registration and the marker, leaves an intent no replay can finish (against
    the comment near `worktrees.py:1345`); a maker/checker run in setup is then
    beyond resume and abort, the exception `Stuck` of `RunsRecoverable`.  A commit made between cleanup's check and
    `git worktree remove` is lost.

Project files:

22. The first `init` keeps an existing `CLAUDE.md` but records the user's digest as its
    baseline, so a later upgrade takes it for unedited (`upgrader.py:138`) and overwrites
    it without backup (`upgrader.py:613`), against `docs/architecture.md:378`.
23. Native upgrades never prune orphans (`docs/architecture.md:380`); native `--force`
    overwrites edited files without backup (`docs/org-capabilities.md:253`);
    `init --runtime` does not call the active-run guard its docstring promises.  Native
    runs that are not forced drop, without a copy, what was typed inside a managed block
    (`runtime_scaffold.py:525`) and every server under a recorded id
    (`runtime_scaffold.py:628`), also the user's own one in a file that a legacy `init`
    kept and a migration adopted; the log says "user server definitions preserved".
24. An unrecognised answer to the merge/overwrite/backup/abort prompt runs the plain
    install over an existing `.claude`.  `WorkSurvives` names the losses it excludes.

## Proofs

Every theorem holds for all values of the constants that satisfy the named
assumptions of the modules.  These ask for no more than the code does: numbers
are naturals (`SizeAssumption`, `BoundAssumption`, `TimeAssumption`, ...; at least one
gate, one entry of the surface, one attempt), maps are maps (`ConditionalAssumption`,
`GraphAssumption`, `AdapterAssumption`), and the absent value, which the modules write
`None` where the code has `null`, is not one of the things that can be present
(`NoneAssumption`, `AbsentAssumption`, `NobodyAssumption`, ...).  `GraphAssumption` wants no
stage to depend on itself and nothing more: that the graph has no longer
cycle is not needed.  `LockAssumption` is the one thing asked of releases that run
side by side: each takes a lock, and any two have one in common (the
compatibility paths of `execution_lease.py:243` are there for it).  `OutcomeAssumption`
says that what a worker may come back with is what `finish_stage` takes of that
stage, anything else being "malformed".  Of files, each path is of one kind and the
migration maps old memory one to one (`PathsAssumption`, `NeutralAssumption`).  TLC evaluates
each of them on every run of its module.

An abstract specification is proved about through its instance in the proof module
of the detailed one (`Ledger!...`, `Contract!...`, `Loop!...`), from its own actions
only; what follows for the code follows from the refinement theorem.

**PipelineLedgerProofs.** `PipelineLedgerTyped` (one lemma for each operation that
builds a document).  `LedgerStaysOrdered`: `LedgerInOrder` is inductive on the types
because the order check ties the next gate to the last entry; blankness before
the first run and at most one pending stop are carried along for the refinement.
That nothing is built on an unallowed skip cannot follow from `NotApplicable`, whose
policy check is older than its lock; it follows from the commands that come after
it (`ReadyAllowsSkips`: each validates the entries before it adds one or completes).
`ImplementsTheGateLedger` takes the actions one by one: each is an abstract action
or leaves outcomes, stops, status and archives alone.  `AuditTrailGrows`,
`TransitionsAreTrusted` and `RefreshIsPossible` are action by action from the types;
`ReportsRestore` from the order.  `CompletionsAreCovered` needs the real strengthening,
`AcceptancesHold`: within one gate acceptances are counted (`Counted`), name their
finding once (`Identified`), were attested on the findings file they name
(`Evidenced`), and there are none before the first findings (`Blank`).  Without
`Identified` the count of an accepted-risk gate says nothing about which findings it covers.
Of the abstract ledger: `GateLedgerTyped`, `CompletedRunsResolvedAll`, `HistoryIsKept`, and
by way of the refinement `CompletedPipelinesResolvedAll` and `PipelineHistoryIsKept`.

**ProjectMutationProofs.** `UpdatesAreNotLost` by `CommandInvariant`: a busy command excludes the
exclusive lease, and what a command has loaded is the snapshot on disk as long
as it holds the lock.  `TransactionsAreAtomic` and `AcknowledgedWritesStay` by
`TransactionInvariant`, which says for each step of begin, commit, rollback and recovery
which entries its loop has put in place and which are still to come.  The
proof showed that removing a stale lock file changes the state entry *during* a
transaction, so that "untouched entries are the old ones" must be said of the
entry's content without its lock.

The same module has the theorems about the commands that run in these
transactions (`ProjectLifecycle`): `RecordsStayTheKits`, `FrozenStayInstalled` and
`WorkAlwaysSurvives`.  First, one lemma for each function on trees of `InstalledFiles`: it
keeps the types (`...Typed`), records nobody's text at the kit's paths (`...Hold`), and
loses nothing, or only what is named (`...Keeps`, `...Loses`; `NativeFilesKeep` and
`NativeInstallLoses` for the native spine, `NativeLoses` for its commands).  `TextStays` reduces the
last to single files: text stays where it is, moves, or is in a backup.  Each command
then composes two or three of these functions.  The induction is joint: an
unforced native install overwrites a file only if it is as recorded, and this loses
nothing but what is within the kit's because the records hold nobody's text (`Clean`), which for an adopted manifest
goes back to the legacy records (`MigratedRecordsHold`).  Without the one-to-one map
of `NeutralAssumption` a migration could copy one file over another.

**ManagedLedgerProofs.** `DocumentsStayValid` (`ManagedStages`) and `GatedDocumentsStayValid`
(`ManagedGates`): an operator `Fits` for the types and `ValidLedger`.  Two ideas carry the
proofs.  A stage call *touches* one stage that is not settled (`Touches`), and nothing
rests on a stage that is not settled (`NothingRestsOnUnsettled`), so that
whatever the call does to it changes no dependency that some success relied on.  And the
settled stages are closed under dependency (`SettledIsClosed`), so that the bundle of a
gate, the evidence of its closure, can never change once the gate is resolved:
`EvidenceIsForEver`.  `EveryGateIsAnswered` says what each resolved gate rests on.

The same module proves the coordinator that makes these calls (`WorkflowExecutor`):
`CoordinatorsOwnTheirAttempts`, `ExecutionsSettle`, and the refinement `ExecutionIsManaged`, from
which `ExecutedDocumentsStayValid`.  `ExecutorInvariant` has five parts.  `LeaseHolds`: a
coordinator past its locks holds all of its release's, one on the way those before its
next; so two past theirs would both hold the lock their releases share.  `MemoryHolds`: what a
coordinator remembers is true of the ledger: the attempts in its hands are of different
stages, each the latest of its stage, and those it has still to record are running.
`SkipsAhead`: a checkpoint captured for a skip finds a stage to be skipped.
`StageInvariant` is that of the ledger.  The last part, for executions without a mishap (a
kill, an operator's act during an invocation, a closed worker whose result cannot be
recorded, an interrupt between a claim and its note or a second one), is `Calm`: every running attempt is in the hands of a coordinator that
still has to record it, and the ledger will take what it records.
A ledger call of somebody else preserves `MemoryHolds` because it touches no running
attempt (`EnvironmentStep`), except for reconciling and aborting, which want the lease
and therefore meet no coordinator at work; what a step of one coordinator means
for the others is said once (`StepByOne`), after which each action has a lemma.

**ManagedApprovalProofs.** `OneSignatureOnePull`, `ConsumedIsTrue` and `RecordsAreKept` from
`ApprovalInvariant`: the stored record is well formed (`Sound`), what a coordinator holds in
memory was true of the store at the revision it remembers (`AgentHolds`), and a pull
request exists only for a consumption that is in the store (`CalledFor`,
`MadeFor`, `MadeOnce`).  `AgentHolds` is where the compare-and-swap enters: a store that
compares the revision only is enough because each revision is written once.

**MakerCheckerProofs.** `MakerCheckerInvariant` has three parts.  `Sound` says the document passes the
structural validation and four things this validation leaves open (`Honest`): a
running attempt is the one its stage asks for, the record under review is not
judged yet, a pending patch is new, and setup has no attempt.  `Workspace` relates
document and worktree, `ProcessFits` the document with where the process stands and with the workers
that outlive it.  From it `MakerCheckerTyped`, `SnapshotsTellAll`,
`ReviewsAreOfTheTree` and `RunsCanGoOn`; the torn patch, the given-up setup and the stuck
creation that the last excepts are where the induction breaks without them.  `CoordinatorKeepsTheLoop` shows that all
records but the last have failed, so the loop's list of failed reviews is a prefix of
the records.  `BudgetIsKept` and `ReviewsShrink` are proved of the loop (progress
composes), and `CoordinatorKeepsItsBudget` carries them back to the code.

**ProgramUnitsProofs.** A call does one of three things to the sequences of the program: one
attempt more, which is running (`Grown`), the running attempt ended (`Ended`), or one gate
checkpointed (`Gated`); which guard of the code allows it is looked up once per
call, and one lemma per part of `Sound` says what the three do to it.  `Sound` adds to what
`DocumentHolds` validates: only the last attempt may run (`OnlyLastRuns`), an attempt
has its needs and the waves before it behind it (`Ready`, `InWaveOrder`), a completed wave has
nothing left to do or to gate (`WavesDone`), runners leave the workspace as it was
(`VerifiesOnly`), so what a verification left stands until another wave succeeds
(`Stands`), and each checkpoint differs from the base by what its units may write
(`Owned`).  `VerifiedIsAlwaysBuiltOn` needs `Stands` and `WavesDone`;
the validator checks neither of them.  Budgets are the cardinality of the prompts
counted, so that they grow with a set and not with a fold.  `CoordinatorHolds` says that the
attempt a coordinator waits for is the last one and started from what it saw:
`DocumentAlwaysHolds`, `OnlyOwnersChangeAlways`, `BudgetsAlwaysHold`, and by the same
invariant each step of `ExecutionFollowsTheOrder`.  About the manifest only
`ManifestAssumption` (its parts are of their kind, which the parser guarantees) and
the validation of the code are used.

**ProcessDispatchProofs.** `HostsAreOwned` and `PassedOnIsConfirmed` from `DispatchInvariant`: a queued attempt has
no host, an attempt that an unwinding has visited is over, and a handle is
visited once.  Of a wait raised by an interrupt that no child met, or that was
interrupted twice, `PassedOnIsConfirmed` promises nothing, because the code does not.  `DispatchersKeepTheContract` from the same; of the contract
`OneAttemptAtWork` and `OutcomesAreFinal`, and `NoWorkerRunsTwice` from all of them.

**WorktreesProofs.** `OwnershipIsKept` and `WorkStays` from `WorktreeInvariant`, which says step by
step what a creation or removal has already made sure of.  The proof found an
error of the model, a `Delete` that removed the tree of another record; the code
compares the attribute first, and so does the model now.

Model-checked only:

- liveness (`EveryoneReturns`, `InvocationsReturn` of both coordinators, `WaitsReturn`): fairness is
  out of the prover's reach.

Every invariant and every safety property of the runs is a theorem; the violated
property of `claim_stale_acceptances_can_be_refreshed` is none, of course.

## Not modelled

Parts of a modelled component that are left out:

- Gate ledger: headless allowances; the managed and program contracts inside the same
  document (they have modules of their own); schema-1 snapshots and their
  `skip`/`overridden` entries; hand-edited documents; the content of archives beyond
  status, base and outcomes.  The hash taken by `resolve_human_stop` before the
  lock is taken with it here.
- Project transactions: rescue directories, lock files preserved in the surface,
  the removal of a root that did not exist, schema-1 journals, and power loss (a
  completed write is taken to stay written).
- Managed runs: human stops and aborts in `GSpec` (`ManagedStages`, which the run
  `managed_execution` checks, has them; a stop there only refuses calls).
- Workflow executor: typed external and dynamic program stages, how a request is
  built and evidence parsed.
- Process dispatch: isolation probes, wire formats of the providers, projections of
  prompts, limits of captured output; hosts that leave their session by `setsid`.
- Program units: risk tiers, safeguards, capabilities, evidence documents, the closeout
  projection; the `parallel` flag of a wave, which execution never reads.
- Maker/checker: digests, contracts, routes, what is inside a patch; edits of others in the
  owned worktree.
- Managed approvals: canonical encoding and signature bytes.  A push between preflight and
  creation yields a pull request whose receipt `record_consumed` refuses; the record can
  then only become indeterminate.
- Worktrees: ignored files that appear in the window of a cleanup; temporary
  `.ckit-create-*` directories left by a kill.
- Install, merge, upgrade: edits between the comparison and the copy of one file;
  `merge --force`, which no command line reaches.

Components without a module: the contained file system (the kernel resolves paths;
atomic replacement of a file is the assumption under every write here), learning
capture, hooks, the command line with its reports and health checks, catalog, plans
and prompts, projection and rendering, tickets, board and telemetry, and the
payload itself.  They are pure functions or plain I/O, keep no state between
calls, or (learning capture) have one hazard that is listed with its reason.

## Plan

1. The parts named above that a modelled component leaves out, first typed external
   stages in `WorkflowExecutor` and the capability attestations of `ProgramUnits`.
2. Learning capture: the index update and its undo, the one hazard without a model.
