# Coding Brain, in TLA+

TLA+ models of Coding Brain (`coding-brain`, a local supervisor for coding agents), the TLC runs that
check them on small instances, and the TLAPS proofs of what matters most for every instance.
`PROJECT.json` lists components, runs, findings, hazards and theorems, and names for every definition the
source lines it stands for; this file says what they are and why they can be trusted.

Paths below are relative to the repository root.

## 1. The system

Coding Brain watches Codex, Claude Code and Antigravity sessions. It has no daemon. Every provider starts
a short *hook process* for each event of a session (`src/lifecycle_hook.rs`, `src/brain/permission_hook.rs`,
`src/brain/recovery.rs`), and the user may have any number of *TUI processes* open, each with poller threads.
They share nothing but

- one SQLite database, `brain.sqlite3` (`src/brain/storage/`). Every mutation is one `BEGIN IMMEDIATE`
  transaction with a deadline; its caller learns that it committed, that it did not, or that the outcome is
  uncertain (`CommitUncertain`);
- 256 *request lock files* (`src/brain/permission_request_lock.rs`), dropped by the operating system when
  their holder dies;
- session link files, provider configuration files, the review and preference files;
- the terminal panes in which the agents run.

So the hard behaviours are the same everywhere: processes interleave between transactions, act on what they
read before an inference of up to 25 s, die between two steps, and are told less than what happened.

### Inventory

| Component | State | Operations | Talks to | Hard because | Correct when |
|---|---|---|---|---|---|
| Permission authority (`storage/permissions.rs`, `permission_hook.rs`, `permission_request_lock.rs`) | attempt, commit and activity rows; lock files | admit, finish without authority, commit, record delivery | lifecycle, activity, provider's stdin/stdout | a request may have several invocations, any of which dies or is told `CommitUncertain`; the lifecycle moves during inference | one owner per request, one model answer, answer only behind its commit, rows final, trail and evidence truthful, locks given up |
| Lifecycle store (`storage/lifecycle.rs`, `coding-brain-core/src/lifecycle/projection.rs`) | session snapshots: turn, agents, tombstones, sequence numbers, links | record event, reprove a Codex child | hook processes (writers); recovery, permissions, TUI (readers) | events arrive late, twice, or in an order nobody expects; a reducer and a validation of its output that must agree | no event sequence wedges the store, ended turns and agents stay ended, numbers never reused, the key of a stop stable |
| Automatic recovery (`recovery.rs`, `storage/activity.rs::reserve_recovery`, guarded terminal action) | reservations, audit rows, diagnostics; queue, workers and cache of each TUI | collect, evaluate, reserve, announce, deliver, audit | lifecycle, panes, model, activity | hook and pollers of several TUIs race for one stop; deaths and uncertain outcomes between every two steps; evidence goes stale | one continue per stop, announced first, truthfully recorded |
| Activity journal and retention (`storage/activity.rs`, `maintenance.rs`) | append-only rows, high-water cursor, scan position | append, read page, retain a window, checkpoint | every other component | retention resumes across calls while rows are appended | a reader never misses or repeats a row, a group is removed whole |
| Provider configuration transaction (`src/init/provider_hooks/mod.rs`) | provider files, backups, journal | prepare, commit each write, roll back, recover | users who edit the files | several files, a crash at every step, edits in between | all files old or all new after recovery, user edits kept |
| Storage migration (`storage/migration.rs`) | legacy sources, staging database, phase | build, verify, publish, freeze, resume | hooks that refuse to run meanwhile | a crash at every step | one authority at any time, no decision lost |
| Review state (`storage/review.rs`) | revisioned marks, archives, undo | mutate, archive, undo | several TUIs | mutations from one revision | no lost update, undo restores |
| Learning store and erasure (`storage/decisions.rs`, `brain/decisions.rs`, `distill.rs`) | decisions with erasable payload, legacy files, preferences | record, forget, resume, publish | other processes that go on recording | erasure is interrupted between stores | what was forgotten never comes back |
| Lifecycle hook process (`lifecycle_hook.rs`, `session_links.rs`) | link records | commit event, link, observe, append | lifecycle, journal | each step may be the last; redelivery | a redelivered event completes what was missing, or says so |
| Guarded user actions (`runtime/brain.rs`, `brain_app.rs`) | pending confirmation | preflight, confirm, dispatch | panes | the session changes while the menu is open | the action reaches the session that was confirmed |
| Project identity cache (`lifecycle_project.rs`, `storage/runtime_cache.rs`) | cached identity and evidence | look up, refresh | journal | evidence stale when used | a stale identity is never stored |
| Lifecycle reconciliation (`lifecycle/reconcile.rs`) | none | join snapshot and processes | TUI | its inputs are of different times | no session shown twice or as another one's |

Pure or input/output parts that are not modelled (command safety analysis, model client, storage security,
terminal back ends, navigation, doctor and export, metrics, projections for screens, rendering, command
line, the legacy JSON stores, test support) are in `PROJECT.json` with the reason. Where they matter they
are inputs of the models: the three verdicts of the safety rules, the answers of the model, the prompts
a pane shows.

## 2. What is modelled

```
PermissionStore <- PermissionHook <- PermissionRefinement <- MCPermissionHook
                        ^                  |  refines
                 PermissionProofs    PermissionAuthority
                 (extends PermissionRefinement)

LifecycleSnapshot <- LifecycleStore <- LifecycleRefinement <- MCLifecycle
                        ^                  |  refines
                 LifecycleProofs      LifecycleLog <- Recovery <- MCRecovery
                        ^                                ^
                 LifecycleSoundness                RecoveryProofs
                 (extends LifecycleRefinement)

RecoveryCoordinator <- MCRecoveryCoordinator        ProviderFiles <- MCProviderFiles
        ^                                                 ^
 CoordinatorProofs                                  ProviderProofs

Migration <- MCMigration
   ^   |  refines
   |  Cutover
MigrationProofs

LifecycleSnapshot, ProjectCache <- LifecycleHook <- MCLifecycleHook
                                        ^
                                   HookProofs
```

`<-` reads "is extended by". `LifecycleHook` runs the reducer of `LifecycleSnapshot` and the lookup of
`ProjectCache` in one process. The lifecycle and recovery compose through an interface: `LifecycleStore`
refines `LifecycleLog`, and `Recovery` runs on `LifecycleLog`. `RecoveryCoordinator` starts what `Recovery`
models as an executor.

### Permission authority

`PermissionStore` has the tables as variables (`attempts`, `commits`, and `trail`, the activity rows of each
attempt in order) and one operator per transaction. `PermissionHook` runs any number of invocations over
them; `pc[h]` is the point `run_provider_with_sqlite_timeout` has reached. One action is one call that can
fail, and a storage call has three outcomes: it commits, it fails, or it commits and the hook is told
otherwise. `Die` is possible everywhere. `LifecycleMoves` is any lifecycle hook changing whether the
request would be accepted.

Abstractions. An invocation admits at most once and attempt ids are fresh, so the invocation names its
attempt. The activity table is cut into one trail per attempt; cursors are not modelled. An expired deadline
is one of the failures. Locals of a dead process are reset. A finish that is reported as failed but is
durable leaves the process where a durable finish does, with the same answer, so `FinishFails` needs the
failing outcome only.

`PermissionAuthority` is what all this promises for a request: it is claimed, settled once, and then
answered at most once with what was settled. `PermissionRefinement` maps the rows to it.

### Lifecycle store

`LifecycleSnapshot` holds the reducer as operators on a snapshot and an event (`Accepts`, `After`, one pair
per kind of event, as `LifecycleSnapshot::apply` has one branch), the reproof, and the writer's validation
(`Valid`). `LifecycleStore` has the stored snapshot as `db`; an action is one transaction: any reportable
event, or any reproof with evidence read at any earlier time. A result the validation refuses is not stored.
Dying, timing out or being told `CommitUncertain` leaves the store as it was or as the event made it, so
hooks need no processes of their own here.

Abstractions. `received_at_ms` is the sequence number the event is recorded under. Startup, resume and clear
act alike and are one source, `startup`. Permission events are not recorded in production and are left out,
like paths, leases and the reason for ignoring an event. `RecordAgent` and `AgentReports` are the events
a Claude session reports of its agents; Codex agents have sessions of their own (`CodexAgentReports`), and the
conversations of Antigravity report none. Rows are never removed for age: the 24 h retention
is not compiled in production. `MaxSequence` plays `i64::MAX`, so sequence exhaustion is a state of the model.

`LifecycleLog` is the readers' view: `row[s]` is the number and kind of the latest event of `s`. An event
takes a number no row ever had; a row changes only with its session's next event or when it is removed.

### Automatic recovery

`Recovery` has executors: hook processes (`Hook`, each started by one Stop) and poller threads (`Worker`, of
one TUI or of several, each free for another candidate when it is done). `pc` follows
`execute_recovery_with`: candidate, probe, inference, snapshot, reservation, announcement, second snapshot,
for pollers the refresh before delivery, then the guarded terminal action (capture, recapture, keys,
confirmation) or the answer on standard output, the postflight check and the audits. Each snapshot is two
steps, the lifecycle row and then the pane, because the world may move in between. Every step may fail,
and the reservation, the audits and the delivery may also be durable when they are reported as failed.

The world moves freely: other events (`OtherEvent`, with any sessions removed), repaints, cooling
reservations, and reservations of other sessions that prune this one's. `sends` counts the continues each
attempt has put before its agent; it is a history variable.

Abstractions. A prompt is its fingerprint. The ten seconds of the cooldown are the free step `CoolDown`, so
nothing depends on a clock. Of the diagnostics only `delivery_not_sent` says something of the pane; the
others are left out. Which sessions answer on standard output is chosen in `Init`. The attention rows of
sessions known only as processes are not modelled. `Scan` offers every candidate at any time, which covers
any queueing of `RecoveryCoordinator`.

`RecoveryCoordinator` is that queueing in one TUI: the poll of its tick (`recovery.rs:1205`), which holds the
state's lock from the first received result to the last started thread, and the threads it starts. One action
is one step of the poll (drain a result, queue a finding, start a retry, a worker, a scan) or one step of a
thread (finish the scan, end the evaluation, write a diagnostic, send the result). A thread that cannot be
started and a diagnostic that cannot be written are steps of their own. The release profile aborts the
process on a panic (`Cargo.toml:74`), so a thread that panics leaves nothing to be given back. A scan's
findings are any sequence of attempts, one more than the queue takes at the most, as `collect_rows` cuts it.

### Provider configuration transaction

`ProviderFiles` follows `apply_transaction` and `recover_transactions` of `init/provider_hooks/mod.rs`. On
disk are the files, the one journal and the temporaries of prepared replacements; every process has a point
(`pc`), its own transaction `tx`, and the journal it recovers. A command recovers first, reads the files
again (`Leave`), stages its edits, prepares a temporary of each, and for every file states its intent in the
journal, compares the file with what it staged, renames, and records the rename. The rename fails when the
recovery of another process has removed the temporary (`RenameMisses`). A doctor recovers only. A
call that fails (`BeginFails`, `ApplyFault`, `RecoveryFault`) and a process that dies (`Crash`) may come at
every step; a failure after `Begin` rolls back through the same recovery. The user may write any file at any
moment.

Abstractions. A file is the text the user wrote last and whether it holds the managed hooks: the renderers
keep the former and add the latter. A hash is its content. `raced` and `overlap` are history: the files a
user wrote between the comparison and the rename, for which the code has no protection, and whether two
commands were at work at once, which no lock excludes.

### Storage migration

`Migration` is `resume_locked` (`storage/migration.rs:181`) and the operations under it. A legacy file is a
version number, 0 while it does not exist; an old process writes a file (`LegacyWrite`) unless it is frozen or
the coordinator holds the locks. A run recovers a pending replacement of the state file, compares the sources
with the ones it staged (and starts over when they moved), validates, imports, compares again, publishes the
database, migrates the review marks (which may fail and then never blocks), freezes every source under
the locks of the old writers, writes the manifest, and sets the mark in the database last. Every replacement of
the state file is three steps (`OpenTemp`, `WriteTemp`, `RenameTemp`), because `Crash` is possible between any
two writes. A hook looks at the state file, the name of the database and its mark in three steps and is
admitted or not.

Abstractions. Fingerprints and digests are versions. A database holds the version of each source it was filled
from. `Torn` is a file that was created and not yet written. What is read between two writes under the
coordinator's lock is read at once. Not modelled: the repair and normalisation of the review gate
(`migration.rs:4152-4638`), `inspect`, deadlines (a run that gives up early is a crash), the removal of journals
by old processes, tampering with frozen files, loss of power as opposed to a kill, and the formats.

`Cutover` is what it promises: the history is in the files or in the store, the store takes over once, holding
what the files hold at that step, and from then on the files stay as they are.

### Lifecycle hook and project cache

`LifecycleHook` is the process a provider starts before and after a tool call: `run` and
`persist_provider_hook_sqlite_with_stages` in `lifecycle_hook.rs`. `pc[h]` walks through project, lifecycle commit
(`Record`, with the reducer of `LifecycleSnapshot`), reading the journal and correlating (`Correlate`), the
activity batch (`AppendBatch`) and the cache refresh. Every step may be the last one (`StopStep`), and the commit
may be durable while the hook is told it is uncertain. `journal` is the activity journal; `Ask` and `Answer` are
the permission hook and the user, who decide between the hooks in any order. `Correlated` translates
`correlate_outcome`: the decision that names the call, else what was decided between the start of this call and
the next.

`ProjectCache` is the project lookup of that process. A directory on the way to the working directory has a
`.git`, a manifest and a configuration; the user and git write and remove them (`Edit`) between any two
reads of a hook. A lookup opens the cache, selects a root, loads its row and compares its evidence; a
discovery asks git for the root, collects evidence, reads manifest or remote, collects evidence again and asks
git again. The refresh creates, initialises, and upserts with pruning. The 250 ms may be over at any step
(`Expire`) where the code falls back to a temporary identity. `was` is history: what reading would have
given at the comparison.

Abstractions. All calls are shell calls with one command, the hardest case for an attribution by command. A
decision is identified by the call it was made for, and by that call or none in the row (`named`). The limit of
64 rows of a journal page is not reached. The project of a journal row is not tracked, and neither is the
session link of a stop, which `Recovery` assumes. A file is its version, which no two writes share. Manifest
and git marker are compared at once, the configuration after them. Antigravity's special case of correlation is
left out.

## 3. What the runs check

Bounds are in the `.cfg` files. `CHECK_DEADLOCK FALSE` is in all of them but the coordinator's, because
processes end and bounded numbers run out: stopping is legitimate there. The coordinator never stops, and its
run checks that.

| Run | Instance | Distinct states | Checks |
|---|---|---|---|
| `permission_pair` | two invocations of either of two requests, each on its own lock file: a Codex subagent's, and one of Antigravity that safety rules deny | 125,836 | `AnswerIsCommitted`, `OneLiveAttempt`, `OneModelAnswer`, `SettledIsFinal`, `DeliveryIsTruthful`, `TrailMatchesAttempt`, `DeterministicDenyStands`, `ApprovalSeesLifecycle`, the refinement `ImplementsAuthority`, and `LockIsReleased` under fairness |
| `lifecycle_codex` | two Codex threads, six numbers: one an agent of the other in two turns, or each a session and the other one's agent in one turn (`BoundedSpec`) | 78,391 | `TypeOK`, `ReducerSatisfiesWriter`, `LinkedEventKeepsEdge`, `RedeliveryIsIgnored`, `OnlyStartsRevive`, `StopKeyIsStable`, the refinement `ImplementsLog` |
| `lifecycle_providers` | a Claude session with two agents at a limit of one, or an Antigravity conversation with numbered steps | 4,609 | `ReducerSatisfiesWriter`, `OpenTurnIsNotRecent`, `IdleMeansIdle` |
| `recovery` | a hook and a poller of one session, a second session that can push it out | 1,338,112 | `OneContinuePerAttempt`, `ContinueIsAnnounced`, `RecordIsTruthful` |
| `coordinator` | queue and diagnostic cache of one, two workers of three threads, two attempts with a diagnostic each, one thread that fails to start | 68,836 | `SlotsAreThreads`, `OneEvaluationPerAttempt`, `DiagnosticHasOneWriter`, and under fairness `ScansGoOn` and `DiagnosticIsSettled` |
| `provider_files` | a command on two files and a doctor, one edit of the user, two faults | 558,472 | `UserTextSurvives`, `AllOrNothing`, `SuccessIsComplete`, and `JournalIsResolved` under fairness |
| `migration` | a log that may appear and grow, a journal and the review marks, two crashes | 395,793 | `AdmittedSeesHistory`, `RefusalHasCause`, the refinement `ImplementsCutover`, and `CutoverHappens` under fairness |
| `hook` | two or three calls of one session (Codex or Claude), one or both of two needing a permission, the request naming its call or not, or the end of one call reported twice; or a call of one session beside one of another in two nested directories with two writes and a cache of one row; any hook may stop at any step | 734,817 | `OutcomeIsOfItsCall`, `OneOutcomePerDecision`, `HitIsCurrent` |

Why the bounds are enough.

- *Permission.* All properties relate an invocation to its own rows or two invocations of one request. Two
  reach every race for a lock, an abandonment or a duplicate. The proofs remove the bound for the properties
  that a third invocation could concern (`OneLiveAttempt`, `OneModelAnswer`, `SettledIsFinal`).
- *Lifecycle.* Limits of one make full tables and evictions happen with two agents. Two turns are
  what a late event, a late proof and a recent turn need. Six numbers are the depth: enough for start, agent
  start, stop, second start, and evidence of the first. Symmetry is over interchangeable turns, threads and
  agents, in runs whose temporal properties are action properties only. `BoundedSpec` keeps `lifecycle_codex`
  to two shapes: two turns where one thread is only an agent (`OneAgent`), or two threads that are each
  session and agent where only one turn is used (`OneTurn`). The proofs need neither.
- *Recovery.* Every pair of executors is a hook with a poller or a poller with itself later; two hooks of one
  session have different stops. Three events let a session stop, be removed, and stop again. A second poller
  would multiply the 1.3 million states; the proofs cover any number.
- *Coordinator.* With a limit of one and two of everything, the queue overflows, the cache is full of entries
  that may not be evicted, and every slot is taken while a result waits. The safety properties were checked once
  with a queue of two and three attempts and diagnostics (5.66 million states), and are proved for any number.
- *Provider files.* Two files are what "all or none" needs; the journal names one file in flight whatever their
  number. Two faults are a failure and the failure of its rollback, or a crash and the crash of its recovery.
- *Migration.* One log stands for the three, which the code treats alike in sequence; the journal directory and
  the review marks are treated differently and are there. Two crashes are one and another during the repair.
  With two versions of every source the run has 1.88 million states, checked once. The safety properties are
  proved for any number of logs, versions and crashes.

- *Hook.* An outcome goes astray between two calls of one session. The third is needed because the lifecycle
  takes two starts in a row for one: only a call that ends between them lets both be seen. Three calls of
  which two need a permission, named or not, were checked once (with the two-call scenes 2.12 million states).
  `HitIsCurrent` needs a hook that stores, one that looks up, and two writes, one during the reading and one
  after it; it is proved for any number. `scene` keeps the two questions apart (`late`, `edited`), because no
  correlation reads the project.

`StopIsBare`, `ScanFindsEmptyQueue` and the types of `Migration` are in no run: they are conjuncts of the inductive
invariants and proved.

Every property has a mutant: a plausible bug in one definition (a missing guard, a kept lock, a reset left
out) under which TLC finds it violated. They stand beside the definitions they change, as
"Mutant of ...".

### Fairness

Safety needs none. No fairness is assumed of users, other programs, or crashes.

- `LockIsReleased`: weak fairness of every live invocation. The lock is taken without waiting, every storage
  call ends at the storage deadline (25.5 s, `permission_hook.rs:54-55`), inference by 25 s, and standard input
  is bounded, so an invocation that is not killed steps again; one that is killed loses its lock to the
  operating system.
- `ScansGoOn`, `DiagnosticIsSettled`: the TUI ticks on, every thread ends because its writes have deadlines,
  the scan interval passes, and a write that is tried for ever does not fail for ever (strong fairness of the
  successful write).
- `JournalIsResolved`: a live process goes on, and some command is run again. With finitely many faults.
- `CutoverHappens`: a run goes on, and an ordinary command is run again after a crash; crashes are bounded.

### Where code and documents disagree

Four runs end in a violation. Each checks what a document or a test of the repository says.

- `lifecycle_compact`, `RunningAgentCanStop`: right after a compaction the stop of a running Codex agent is
  accepted by the reducer and refused by the writer's validation (`projection.rs:728`), so it is lost.
- `recovery_prompt`, `ContinueAnswersDecidedPrompt`: the terminal action recognises the prompt anew
  (`recovery.rs:717`), so a pane that was repainted after the last check is answered for another prompt than
  the one that was decided.
- `permission_unread`, `AdmittedDenyIsTold`: a code-owned deny that won admission is not emitted when the
  lifecycle cannot be read afterwards (`permission_hook.rs:1481-1490`), though ADR-0003:69-71 has deterministic
  denies "fail closed when audit stores are unavailable, after the same request has won guarded admission", and
  ADR-0006:58 agrees.
- `migration_freeze`, `FreezeIsResumed`: a crash between the copy of a journal and its rename leaves the copy
  where the locks of the next run refuse it (`legacy.rs:1485`). `tests/storage_migration.rs:1046` expects the
  next run to complete, and tries it with the decisions file only.

Further differences follow from the code that the models translate, without a run of their own.

Permission.
- ADR-0006:40-42 says that only concurrent duplicates are suppressed and a later identical request is
  evaluated normally; the duplicate query (`permissions.rs:355`) also suppresses a later invocation of a settled
  request identity.
- ADR-0003:49-50 gives requests with different keys independent locks; any two may share one of the 256 files
  and suppress each other. `ShardOf` allows both.

Lifecycle.
- A full store refuses every new session although an inactive one could make room (`storage/lifecycle.rs:818`;
  `.internal/specs/2026-07-17-codex-lifecycle-hook-status-design.md:224` removes the least recently updated).
- Claude events without a turn take the session id as their turn (`provider_hooks/claude.rs:131`), which is a
  recent turn after the first stop, so every later prompt is ignored; the same document (line 289) has every
  prompt show as processing.

Recovery.
- `.internal/plans/2026-07-27-guarded-live-continue-reliability.md:1395` says "Evict the oldest retained ID at
  64"; `reserve_if_new` evicts the oldest entry that is not in flight, a pending one too. `DiagnosticIsSettled`
  allows for it: an evicted diagnostic is settled by being forgotten.

Provider files.
- `docs/reference.md:105`: recovery "does not overwrite a file changed concurrently after staging". An edit
  made between the comparison and the rename is overwritten. `UserTextSurvives` excludes exactly that window.
- `docs/troubleshooting.md:26` lets recovery roll back what an interrupted process left. It may also meet a
  live transaction of another command and roll that back, and the command then reports success.
  `AllOrNothing` and `SuccessIsComplete` hold while commands do not overlap.
- A failed sync after the journal was removed reports failure of a change that is complete. A prepared
  temporary that is dropped after a failed rollback makes the next recovery take the missing temporary for a
  rename.

Migration. The reasons in `RefusalHasCause` are the places where a crash stops the migration for good.
- A file that was created and not yet filled is never repaired (`TornFile`): the state, its temporary, a record
  of the freeze, the manifest.
- A staging database created and not yet marked, sidecars of a database whose mark was being changed, and an
  open review staging database are refused (`HalfStore`), though the review should never block the rest.
- Review marks written after the review was published and before the freeze make every later run refuse
  (`Moved`): the branch of `migrate_review` that degrades instead cannot be reached.
  `.internal/specs/2026-08-04-unified-sqlite-storage-design.md:419-426` says it degrades.
- The same document, line 428, has a legacy path that changes after the cutover disable model-derived responses;
  hooks never compare the frozen manifest.

Lifecycle hook.
- `.internal/specs/2026-07-20-benign-lifecycle-outcomes-design.md` keeps calls that no permission was asked for
  free of diagnostics. The journal is read up to the last decision of the turn
  (`storage/activity.rs:469`), so without one it is read as empty, the start of the call is missing, and every
  shell call ends with an orphan diagnostic. The test `post_tool_use_without_decision_activity_is_ignored`
  (`lifecycle_hook.rs:3136`) takes a path that is compiled for tests only.
- For the same reason `post_already_recorded` never sees an outcome that is already there, since outcomes
  come after the last decision: the end of a call reported twice has two outcomes, which
  `duplicate_post_is_idempotent` (`lifecycle_hook.rs:4548`) excludes on the test path. `OneOutcomePerDecision`
  excepts it.
- `.internal/specs/2026-07-27-concurrent-codex-orphan-diagnostics-design.md`: "Do not correlate outcomes by command
  text or ordering across concurrent tools." `correlate_outcome` recognises only a concurrent call that started
  later (`lifecycle_hook.rs:755`). When a request does not name its call, and the decided call started before the
  one that ended and was decided after that one had started, the call that ended is given its outcome; likewise
  when the start of the decided call was not observed. `OutcomeIsOfItsCall` says where attribution is right: for
  requests that name their call, and for a decided call whose start is the last one seen before it is allowed.
- Two calls of a session that start without an event between them are one event to the lifecycle, which does not
  look at the tool id: the second start is not observed.
- An event delivered again after its hook died between commit and append is a duplicate: the observation
  stays missing.

Project cache.
- A manifest that appears after the evidence was collected and is gone when it is collected again leaves a row
  whose evidence says it is missing, with the identity read from it, and every later lookup hits it
  (`Hollow`). `.internal/specs/2026-08-11-lifecycle-project-identity-cache-design.md:87` says "No cache hit may turn
  inferred or temporary evidence into manifest authority".
- A process that dies between the creation of the cache file and its initialisation (`runtime_cache.rs:417-436`)
  leaves a file that no later hook can use or replaces.

## 4. What is proved

The theorems hold for every value of the constants, from the named assumptions only. Permission, recovery and
lifecycle: identifiers and signatures are distinct from `None`, `ShardOf` maps requests to lock files, hooks are not pollers,
sessions with panes are sessions, limits are positive. Coordinator: `AboutIsTotal`, `LimitsAreNumbers`,
`FailuresAreBounded`, `ThreadsAreFinite`. Provider files: `NoneIsNoFile`, `DoctorsAreProcesses`,
`BoundsAreNumbers`. Migration: `SourcesAreDistinct`, `VersionsAreBounded`, `MarksAreNoData`. Hook:
`BoundsArePositive`, `EditsAreBounded`, `HooksAreForTools`, `CallsAreNamed`, `ScenesHaveHooks` (the hooks a
scene starts are finitely many, since a reported end is counted).

In every proof module one lemma per action says that the action keeps the inductive invariant `IInv`, with a
step per conjunct that it can disturb. Each `IInv` was an invariant of a run before it was proved.

**Permission** (`PermissionProofs`). `TypeCorrect`, `RequestHasOneOwner`, `GuardIsExclusive`,
`CommitPrecedesAnswer`, `ModelAnswersOnce`, `SettlementIsFinal`, `ApprovalIsAccepted`. None of the properties
is inductive alone. The invariant `IInv` adds what ties process and rows together: between lock and settlement
a process holds its lock file (`LockHeld`) and its attempt is open (`GuardOpen`); before admission it owns no
row; decided attempts and commit rows go together; at the response its disposition is the committed one. With
these, an admission can only abandon attempts of processes that lost the lock, hence dead ones.

The second half of the module adds what the rows say of what happened: `EvidenceIsTruthful` (`DeliveryIsTruthful`),
`TrailIsFaithful` (`TrailMatchesAttempt`), `DenyIsKept` (`DeterministicDenyStands`), from a second invariant
`Evident` beside `IInv`, and `HookImplementsAuthority` (`ImplementsAuthority`). `DenyIsKept` is about steps: an
invocation that owes a code-owned deny writes it before it ends, whichever storage call fails on the way. Two
steps may give it up, and no others: the one that finds the lock held or a settled attempt of the same request
(`Suppressed`), and the probe that cannot read the lifecycle, which is the divergence `permission_unread` shows.
The mapping of the refinement
chooses a request's live attempt and the answer the model gave; `OneLiveAttempt` and `OneModelAnswer`, part of
`IInv`, make both choices unique, so that a step that does not touch the chosen rows maps to a stutter
(`MappingFrame`), one that does maps to the step of the authority it stands for (`MoveRefines`), and only
responding answers (`RespondRefines`).

**Lifecycle** (`LifecycleProofs`). `TypeCorrect`, `IdleRunsNothing` (`IdleMeansIdle`), `RedeliveryIsHarmless`
(`RedeliveryIsIgnored`), `StopHoldsNoAgent` (`StopIsBare`) and `StopKeyStable` (`StopKeyIsStable`): whatever
arrives in whatever order, a session whose latest event is its stop has no agent, and a reproof, the one
transaction that renumbers a session without an event, only touches sessions that have one. So the sequence of
a stop is a stable key for recovery. The argument classifies every transaction (`StoreStep`): it puts one
rewritten session over a snapshot from which only sessions and agents were removed, or it reproves. Redelivery
follows from the same classification: an accepted event leaves its signature with its session, so the second
delivery is `Repeated`, unless the event was a Codex agent's stop that took its own session with it
(`AcceptedStays`), and then there is no agent left to stop.

**Lifecycle topology** (`LifecycleSoundness`). The reducer and the writer's validation are two programs that must
agree: what one makes and the other refuses is lost. `NoEventIsWedged` (`ReducerSatisfiesWriter`) says that they
do, but for what `KnownRefusal` names, for every sequence of reports. None of the conditions the writer checks is
inductive alone; `StoreIsSound` proves the one that is, `Sound`:

- *each session is whole* (`Whole`): the turn it is in is not one it remembers as ended, its agents are held in
  turns it knows, and nothing in it is newer than its number;
- *links are one level* (`Linkage`): a linked Codex session runs below the session that holds it, in the turn
  it is held for, and holds nothing itself;
- *an agent has one holder* (`Apart`), *and nobody is below itself* (`Ranked`: Codex sessions can be numbered
  so that a holder comes before what it holds).

The last is the induction the code leaves to a walk (`Acyclic`, with a step count as fuel). The reports are what
makes it true: an agent that starts is a session nobody knew (`StartsUnknown`), so it can be ranked last. Every
accepted event is one of four changes (`Hearing`): sessions cut back (`Trimmed`), then the one that reports
rewritten (`Renewed`); `SoundKept` says once that these changes keep the snapshot sound, and one lemma per
kind of event says that it is such a change. Reproofs are the other transaction (`ReproofSound`).

From `Sound` follow `OpenTurnIsNew` (`OpenTurnIsNotRecent`), `LinkedEdgeIsKept` (`LinkedEventKeepsEdge`), and
`StoreImplementsLog` (`ImplementsLog`): every transaction maps to one event of the log that recovery reads, with
rows removed, or to a stutter. The removal of an agent never takes the session it is reported for with it: that is
where `Ranked` is needed again. `RevivalIsReported` (`OnlyStartsRevive`) needs a history besides (`Remembered`):
when each turn of a child began. No edge to the child is older than a turn it has left, and evidence has to be,
to bring that turn back.

What `Subtree`, `Descends` and `Acyclic` compute is proved, not assumed. They are recursive functions over a
step count. The library's induction theorem takes an operator as a parameter, so the module starts with
induction stated with a set (`SetInduction`, from the well-foundedness of the naturals) and the existence of
iterated functions (`Iteration`); `RoundsEnd` then says that the rounds of a closure over a finite set end, and
`SubtreeIsLeast` that what they end with is the least set closed under being somebody's child.

**Recovery** (`RecoveryProofs`). `TypeCorrect`, `AtMostOneContinue`, `Announced`, `TruthfulRecord`. The
difficulty is that reservations are pruned and overtaken, so a reservation alone protects nothing. The
invariant says why that is harmless: numbers grow, so an attempt that is not its session's latest event never
is again (`NumbersAreOld`); while it is, its reservation stands (`FreshIsReserved`) and bars all but one
executor (`FreshHasOneOwner`, `OwnedIsUntouched`); and an executor gets near the keys only by finding the
attempt fresh *after* it reserved (`LateIsAlone`, `LateKnows`). Without the second look at the lifecycle row
the theorem is false, and the mutant `ConfirmRowOnce` shows the trace. `LocalStep` says which steps of an
executor keep the invariant, `WorldStep` which steps of the others do, and one short lemma per group of
actions applies them.

What recovery uses of the lifecycle, fresh numbers and stable rows, is `LifecycleLog`; that the stored
lifecycle implements it is `StoreImplementsLog`. So the theorems about recovery rest on the lifecycle as it is
stored and not on an assumption about it.

**Coordinator** (`CoordinatorProofs`). `NoSlotIsLost`, `EvaluatedOnceAtATime`, `ScanMeetsEmptyQueue`,
`OneWriterPerDiagnostic`. `IInv` is `TypeOK` and these four, with what a poll may rely on at each of its
points: the flag `scanning` is set exactly while a scan thread exists (`ScanIsMarked`), findings are queued only
while no scan runs (`PollInOrder`), and the order of the cache lists its entries once (`CacheIsListed`).
The slots are counted by cardinality, so the threads have to be finitely many.

**Provider files** (`ProviderProofs`). `UserEditsAreKept`, `AllOrNoneReplaced`, `SuccessMeansReplaced`. The
invariant describes what every point of a transaction or of a recovery may find on disk (`Placed`): while a
command applies its edits, the files its journal calls replaced hold the replacement, the others the original,
and the one in flight either, told apart by its temporary (`Explained`, `Applying`); with no command at work a
journal is one that a recovery understands (`Recoverable`). `KnowsText` says
that journals are well formed and that a process about to rename or restore a file holds the text the user wrote
there last, or wrote to it in the unprotected window.

**Migration** (`MigrationProofs`). `TypeCorrect`, `HooksSeeHistory`, and `CutoverIsImplemented`, the refinement
of `Cutover`: its initial states map to initial states, every step to a step or a stutter. The idea is that
what a state file, a goal or a pending temporary claims about sources and databases is `Sound`, stays so whatever
old processes write, and is never replaced by a claim further back (`Follows`). Sources are compared and
frozen only under the locks (`FreezeIsQuiet`), a frozen file is never written again (`FrozenStays`), what was
imported is what the state file recorded (`ImportIsCurrent`), and the mark in the database comes last
(`MarkIsLast`), so a hook that saw it (`HookSeesMark`) sees a store over frozen files.

`TakeoverIsFinal` puts the refinement to use: no step of the migration takes the authority or the content of the
store back, and the store agrees with the files it replaced.

`RefusalsHaveCauses` (`RefusalHasCause`) says that the list of points at which a run can stay stuck is complete.
A refusal is a check that fails, and about thirty checks could; so the second invariant `CInv`, beside `IInv`, has
to say for every check but four kinds that it cannot fail. A state file is not only sound about the sources but
`Real` about the stores: where the databases and the manifest are is one of the places its status, review and phase
allow, half steps included. So is every pending replacement, and it is one the run could have set out for
(`Leads`): a run that finds it after a crash either has the evidence to take it up (`StatusHasEvidence`,
`ReviewHasEvidence`) or a source has moved. Versions only grow, so what has moved stays moved while the refused run
ends (`RealLegacyWrite`). One lemma per action again, over four that say what a kind of step keeps (`RealMoves`,
`RealReplaces`, `RealAdopts`, `RealRefuses`).

**Lifecycle hook** (`HookProofs`). `CachedProjectIsCurrent` (`HitIsCurrent`), from `Invariance`. The invariant
says for every point of a hook what it knows of the files (`At`), and of every row, cached or carried, that its
project is what its evidence stands for (`Good`). Evidence is collected before and after the reading; a file
never returns to a version it had (`EditIsNew`), so equal evidence means that nothing it covers changed in
between, and what was read is what it stands for (`RefreshIsGood`). In the same way a comparison in two steps
is valid at the first. That a non-empty set of directories has a deepest one is proved from the
well-foundedness of the natural numbers (`DeepestIs`).

`OutcomesFindTheirCall` (`OutcomeIsOfItsCall`) and `OutcomesAreUnique` (`OneOutcomePerDecision`), from
`JournalIsBacked`, are about what concurrent hooks make of a shared journal that grows between a hook's reading
and its appending. The key is to state attribution of a row by the rows before it only (`RowFits`): an outcome is
`Backed` by an earlier row that allows its decision, and that row belongs to the call that ended, or the
last start before it was another call's. What is said of a prefix stays true of every longer journal (`Grown`), so
the verdict a hook carries (`Said`) still fits when it is appended, whatever was appended meanwhile. An outcome is
the work of a hook that was started for the end of its call and is past its append (`Authored`), a decision is
allowed once (`AllowedOnce`), hence two outcomes of one decision are two ends of one call.

Only model-checked is liveness: `LockIsReleased`, `ScansGoOn`, `DiagnosticIsSettled`, `JournalIsResolved` and
`CutoverHappens`. The prover has no ENABLED, which fairness is defined by. Every safety property of a passing run
is the subject of a theorem. The induction theorems of the library take an operator, which no installed prover
can instantiate; where a proof needs induction it is over a set of naturals, as above. There are no RECURSIVE
operators; the models recurse with functions over step counts.

Where the models had to change to be reasoned about: `Remember` filters recent turns by an explicit sequence
instead of `SelectSeq`; the fuel of `Subtree` is bounded by the number of sessions; `None` is stated not to be a signature,
a call or a tool; the hooks of a scene are stated to be finitely many. The runs are the same.

## 5. Plan

Done, in this order: permission authority, lifecycle store, automatic recovery, provider configuration,
coordinator, storage migration, lifecycle hook and project cache. Next, each written to be proved about:

1. `ReviewState`, `SessionAction`, `LifecycleReconcile`: revisions and undo; preflight and dispatch; the join
   of two times.
2. `ActivityJournal`: cursors and pages under appends. The resumable retention scan
   (`maintenance.rs:280-575`) has no caller in production, which makes it the least urgent.
3. `LearningErasure`: forget, interrupted and resumed (`storage/decisions.rs:714-779`); it has no caller in
   production either.
4. Proofs: that `Recovery` over the lifecycle store itself, not over its log, keeps `AtMostOneContinue`, by
   composing `StoreImplementsLog` with the theorems of `RecoveryProofs`; then those of the new modules.
