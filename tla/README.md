# TidyFlow: a verification project

TidyFlow (the crates are still called autoflow) organises files on a desktop:
*flows* (jobs) copy or move files that match a filter, *blueprints* lay files
and folders out by a template, watchers and a scheduler start them, a rollback
undoes them, and a central server can command many installations. This
directory models the parts of it that keep state between steps and that run
next to each other, checks the models with TLC on small instances, and proves
with TLAPS, for instances of every size, the safety properties of all of them, and
that the job queue and the in-memory store implement their abstract specifications.

Paths below are relative to `crates/` of the repository unless they begin with
`apps/`, `docs/` or `README.md`.

## 1. Inventory

| Component | State | Operations | Where |
|---|---|---|---|
| Job queue | `queued`, `running_jobs`, `active`, `cancelled`, `cancel_tokens`, `pending`, `paused`, the channel | enqueue, cancel, pause, resume, stop_all; the worker; one task per execution | autoflow-core/src/queue.rs |
| Flow run | locals of `run_job`, the file system | collect, then per file: smart sync, conflict strategy, copy or move, hash, audit; manifest; last_run | autoflow-application/src/execution.rs |
| Rollback | rollback_manifests | rollback_job, rollback_blueprint; save, latest, mark | autoflow-application/src/rollback.rs, autoflow-infrastructure/src/rollback.rs |
| Jobs table | jobs | create, update, delete, toggle; `run_job`'s and the scheduler's save | autoflow-infrastructure/src/jobs.rs, autoflow-core/src/lib.rs, admin.rs |
| Scheduler | next_run in each row | tick every 60 s | autoflow-core/src/scheduler.rs, autoflow-domain/src/schedule.rs |
| WatchService | `handles`, polling tasks, the trigger channel, `blueprint_busy`, `blueprint_suppressed_until` | start, sync_all, sync_job, unregister; the event loop | autoflow-core/src/watch.rs |
| Folder blueprints | the tree below the root, manifests | plan, preflight, simulate, apply, undo | autoflow-application/src/blueprints.rs |
| File blueprints | blueprints, counters | plan, simulate, apply; update_last_run, next_counter, delete | autoflow-application/src/blueprints.rs, autoflow-infrastructure/src/blueprints.rs |
| Auto-correction | the tree | handle_folder_auto_correct | autoflow-application/src/naming.rs |
| Central server, SQLite | admin_commands, deliveries, agents, groups, audit | enroll, heartbeat, rotate, groups, enqueue (single, batch), poll, complete | autoflow-admin-server/src/lib.rs, main.rs |
| Central server, in memory | the same behind RwLocks | the same | autoflow-admin-server/src/lib.rs |
| Remote agent, heartbeat worker | their loops, the keyring | enroll, heartbeat, poll, dispatch, report | autoflow-core/src/admin.rs, lib.rs |
| Local command queue | admin_commands | enqueue, process_next, dispatch | autoflow-core/src/lib.rs, autoflow-infrastructure/src/admin.rs |
| Settings | one row, a cache, the form on the screen | PIN, admin secret, update_settings | autoflow-core/src/lib.rs, autoflow-domain/src/settings.rs, apps/desktop |
| Backups | files in a directory | copy, keep the last n | autoflow-core/src/lib.rs |
| Pure algorithms | none | tokenizer, filters, path policy, naming patterns, calendars | autoflow-domain/src |
| Shell and screens | copies of rows | IPC commands, Svelte screens | apps/desktop |

How they interact. Watch events, the scheduler, the screens and remote commands
all end in `JobQueue::enqueue`, which hands an execution id to one worker over a
channel; the worker spawns a task that calls `run_job`; `run_job` reads a row of
the jobs table, works on the file system, appends to the audit trail, writes the
row back and saves a manifest. Every edit of a row is followed by
`WatchService::sync_job`. Agents poll the server, run what they get through the
same dispatch as local commands, and report. All stores are SQLite, one
statement at a time: no handler opens a transaction.

What is hard here, and what makes each part correct:

* **Job queue.** Eight shared maps with a lock each, a pause flag with a
  notification, messages that are set aside, cancels that race the start and the
  end of a task. Correct: no job runs twice at once, the tables agree with the
  tasks, everything that runs can be stopped, what is accepted will be taken up.
* **Flow runs and rollback.** A target is looked at in one step and written in
  another; other flows, the rollback and users work on the same directories; a
  run can be cancelled, fail or die half way. Correct: no content disappears,
  what was moved can be undone, an undo restores.
* **Jobs table, scheduler, watchers; file blueprints; settings.** Whole rows are
  read, kept and written back, by runs for as long as they take. Correct: what
  the user asked for stays, what is scheduled runs, what is watched is what the
  rows say, no number is drawn twice.
* **Folder blueprints.** A plan is checked once, then executed against a tree
  that changes, by the plan itself too. Correct: content stays unless deletion
  was confirmed, the undo restores, applying again does nothing, the simulation
  is right.
* **Blueprint triggers.** A correction changes the folder it watches and hears of
  it later. Correct: it comes to rest, it loses no file.
* **Remote and local commands.** Lost answers, lost reports, concurrent handlers,
  restarts. Correct: at most one execution per machine, no stuck delivery without a
  fault where the machine polls, the status of a command is the aggregate of its
  deliveries, the audit says what happened, a machine is not locked out by itself.

`PROJECT.json` lists each component with its sources and each hazard with its
line and the properties aimed at it.

## 2. Modules

`ExecutionLifecycle` is the abstract specification of the queue: an execution is
new, accepted, running, closed, and two executions of one job never run together.

`JobQueue` is queue.rs. The variables carry the names of its fields (`tokens` is
`cancel_tokens`, `chan` the mpsc channel, `wpc` the worker's place in its loop).
A step is one critical section; neighbouring sections are one step only where no
other thread can tell. Clients: `Enqueue`, `Cancel`, `Pause`, `Resume`,
`StopAllBegin`/`StopAllCancel`/`StopAllClear`. Worker: `Worker...` in the order
of the loop, with `WorkerLoadPaused` and `WorkerPark` apart because a resume
between them is not noticed. Task: `TaskProgress`, `TaskBreak`, `TaskFinish`,
`TaskFail` and the four releases. `run_job` is reduced to "reports progress, ends".
`ImplementsLifecycle` is the refinement, with `stageOf` for the abstract stage.

`CommandDelivery` is the server's SQLite store and the agents' loop. A step is one
SQL statement (`VerifyPoll`, `PollSelect`, `PollMarkDelivery`, `PollMarkCommand`,
`VerifyResult`, `CompleteCheck`, `CompleteRecord`, `CompleteRead`, `CompleteWrite`, the
batch inserts); agents poll, dispatch and report once; `ConnectionLost` and
`AgentForgets` are the faults. What a handler computes in memory is its record.
An agent polls only while it is `allowed` (admin enabled and managed, server, token and
secret there, enrolled, `allow_remote_commands` on, which it is not by default), and
its envelopes pass only while it is `trusted`; `SettingsChange` and `SecretsChange` take
either away or give it back at any time.

`AdminServer` is everything else of the server and both loops of an installation
that talk to it: the remote agent (`LoopStep`) and the heartbeat worker
(`WorkerStep`). The server's `Handler` has one step per statement, the last of
which appends to the central audit; `StatementFails`, `Late`, `ConnectionLost`,
`HandlerDropped`, `ServerRestarts` and `DesktopRestarts` are the faults. A signature
is the secret that made it. Operators name machines and groups for a batch.

`CommandLedger` is the abstract specification of a command store: a batch, an
assignment, a completion each happen at once. `MemoryStore` is the in-memory
store with its two locks, a step per lock taken, and implements `CommandLedger`
(`ImplementsLedger`): what a thread has changed is hidden as long as it keeps its
first lock. (The SQLite store does not: `CommandDelivery` says how it differs.)

`FlowRuns` is `run_job`'s file loop, `process_file`, `resolve_target` and
`rollback_job`. A path is directory, name and number of the rename suffix; a
content is the number of the write that made it, so that a hash is the content.
Looking and choosing (`RunNext`), the transfer (`RunTransfer`, `RunRemoveSource`),
hashing (`RunHash`), auditing (`RunAudit`) and the end (`RunEnd`) are steps of
their own, users write and delete at any time, a crash ends everything. With
verify_after_copy (on by default, autoflow-domain/src/transfer.rs:35) there are more:
a move hashes its source first (`RunSum`, kept in `sum`), a copy hashes source
(`RunVerify`) and target (`RunCompare`) afterwards, a copy across devices is compared
before its source is removed (`RunConfirm`) and removed if it is bad (`RunDiscard`). A
file that fails them is an error without a RollbackItem and stays where it is.
`RunFileError` is a hash, a transfer or a removal that fails on a file that is there.

`JobTable` is the jobs table with everybody who reads and writes its rows: clients
(`Save`, `Delete`, `ToggleGet`, `ToggleSave`), each followed by `Unregister` and
`Register` of the watcher; startup (`BootList`, `BootGet`, `BootDone`); watchers
(`WatcherSends`, `PollerSends`, `Receive`); runs (`RunLoad`, `RunSave`, `RunFails`);
the scheduler (`SchedList`, `SchedNow`, `SchedGet`, `SchedSave`, `SchedEnqueue`).
A row is whether it is enabled, its trigger, and a number for everything else. A sync
may find the source directory missing (`ShouldWatch`): it then ends without an error and
the job is `unfound`.

`Folders` is what the two models of folder blueprints say of a tree of folders: a path
is a sequence of names, and a tree a function from paths to sets of files.

`FolderPlans` is the folder part of blueprints.rs with `rollback_blueprint`.
`Plan` is `collect_folder_action_nodes`, `Preflight` and `Simulated` are the two
verdicts, `Choose` and `Work` the two halves of `execute_folder_action_item` (what
it finds, what it does), `End` saves the manifest, `UndoStart`/`UndoItem`/`UndoMark`
are the rollback. Two applies, an undo, a user and crashes interleave.

`FileBlueprints` is the file part: the plan is built file by file, each drawing its
number by a statement of its own; the simulation counts by itself; execution looks
for a target in one step and writes in another; `update_last_run` reads and saves.
The user moves files, edits and deletes the blueprint (row and counters in two
statements). A template is one of four ways to make a name, a folder one of two.

`BlueprintTriggers` is one watched folder blueprint with `auto_correct`: the
debouncer's batches (`Debounce`), the trigger loop (`Receive`) with `busy` and
`suppressed`, the spawned runs of both kinds, `handle_folder_auto_correct` step by
step (`RunStep`), and `end_blueprint_run`, which leaves `busy` (`RunStep`) before it
suppresses (`Suppress`). Every change below the root is heard of, the program's own too.

`DesktopSettings` is the settings row, its cache and all who use them: the screen
(which keeps a form and may be left while its call goes on), the PIN commands, the
secret's flag, the background worker. `LocalCommands` extends it with the local
command queue, whose dispatch obeys those settings: select, mark, dispatch, finish.

How they compose. `LocalCommands` extends `DesktopSettings`, `FolderPlans` and
`BlueprintTriggers` extend `Folders`; `MemoryStore` and
`JobQueue` instantiate their abstract specifications; the other modules meet at an
interface that each takes as free: `JobTable`'s runs may take as long as `JobQueue`
lets them, `FlowRuns`' runs start at any time, which is what triggers, scheduler and
commands amount to for them.

Conventions. `MC<module>` instantiates a module for TLC, its `.cfg` files are the
runs. `<module>Proofs` holds theorems; three of these modules speak of two related
models each: `ExecutionProofs` of `JobQueue` and `FlowRuns`, `ServerProofs` of
`AdminServer` and `MemoryStore`, `CommandProofs` of `CommandDelivery` and
`LocalCommands`. (One of such a pair calls its specification `QueueSpec`, `StoreSpec` or
`LocalSpec`.) `FolderTheorems` has the lemmas on paths and trees. A definition named
`X_Broken...` is not part of a model: it is a plausible bug in `X`, and `PROJECT.json`
says which property notices when it takes `X`'s place. Variables under "Observed by
the properties" are there for the properties: no step of the program depends on them
(but for `jobOf`, which is what a Run message carries).

## 3. Runs

| Run | Instance | Shows |
|---|---|---|
| queue_safety | one job, three executions, three pause/stop_all/cancel calls | the tables agree with the tasks, a job never runs twice at once, a pause lets at most one execution through, only a stop_all strands an id in `queued`, and the queue implements ExecutionLifecycle |
| queue_live | two jobs, two executions, two calls, fair worker and tasks | an accepted cancel closes its execution; a resume drains what was set aside, but for the lost-wakeup window |
| delivery | two agents, two commands, the second for one of them, one fault or change of settings or secrets, fair server and agents | at most one execution per machine, results are final, once an agent polls for good and is trusted its deliveries end, one that was handed out ends in any case or can be traced to what orphaned it, a command's status is its deliveries' aggregate but for the two races named |
| agents | one machine, two secrets, two roles, two acts of users and tools, one fault | the audit knows what a caller was told and nothing that did not happen; a batch goes to the machines meant; a machine is locked out only when a secret changed; the fleet view converges |
| store | three threads, two agents, two batches, four other requests | the two locks make the store's operations atomic; only a batch crossing a poll or a completion blocks it |
| flow | two flows, two files, one target directory, two writes, two runs, one fault; verified copies, moves on one device and to another with and without verification | content disappears only by a user, the overwrite strategy or a write under a step in progress; what was transferred is recorded, but for files that fail verification after somebody else's change; an undisturbed rollback restores |
| jobs | one job, two clients, two edits, hybrid and daily triggers, one failing registration | an edit is lost only to an older copy that somebody held; a job is watched as its row says, or not at all if its directory was missing when a sync last looked |
| folders | nine blueprints on four trees, two applies, one step of a user, one fault | content stays, the simulation foretells, the undo restores, a second apply changes nothing |
| files | eight blueprints on four trees, two applies, two acts of the user, a midnight, one fault | files are replaced only as configured, numbers are drawn once, the simulation foretells numbers too, the row is the user's but for update_last_run |
| triggers | a plan of two folders, two acts of the user, one fault | corrections come to rest, one level below the plan at most, and lose a file only to an act in the middle of a rename |
| desktop | two clicks, the screen and a call it left behind, one PIN, one limit, four acts, one fault | a save stores what was meant and loses only what an older copy overlaps; the cache catches up; a local command runs once unless two clicks had selected it |

One run finds a property violated, which is a sentence of the repository:

| Run | What the repository says | What happens |
|---|---|---|
| schedule | "Run jobs on configured intervals or calendar-based schedules" (README.md:78) | `list()` normalizes every row and normalize moves next_run behind now, so a scheduled job is never due |

**Bounds and why they are enough.** Every bound is a named constant and a guard.
Two of a kind (executions, agents, flows, clients, applies, clicks) are what a race
needs; the queue has a third execution because a job may be running while another is
queued and a third is set aside, and the store a third thread because two can block
each other and a third is there to be blocked. Two edits give an older and a newer
row; two runs give a manifest that is and one that is not the latest; one fault shows
each single failure at each place. Jobs are independent in every table but for the
worker, so one job suffices for safety, and the proofs lift the bound. `delivery` also
passes with one agent, three commands and three faults or changes, and its safety
properties with two commands for any agents and two faults or changes. The plans of
`MCFolderPlans` and `MCFileBlueprints` are one of each shape that the properties
distinguish: moves into each other's place, items in a folder that has to be made,
items below a parent with a delete, a delete of what was moved; names that a counter
will meet, files that become one name, a name that the policy refuses, a file in its
place already. `MCInit` of `MCAdminServer` leaves out initial states that differ by
renaming secrets or contents; that of `MCLocalCommands` keeps two rows of the four
(no PIN and no limit, or both); that of `MCFileBlueprints` gives each blueprint its
tree. `triggers` also passes with `Override = "A"`, a blueprint that has its own name
for new folders; only the default is a run.

**Deadlock** is not checked (`CHECK_DEADLOCK FALSE`): every model may stop when its
users do, and the bounds stop it otherwise. Where standing still would be wrong a
liveness property says so; `StuckOnlyByBatch` is the one about locks.

**Fairness.** `JobQueue`: weak fairness of the worker and of a task's end after
its token was fired or `run_job` returned, because tokio polls every ready task;
none for clients, and none for how long a run takes. `CommandDelivery`: weak
fairness of handlers and of the agent's loop, whose poll has the conditions of the
code in its guard; none for operators, settings, secrets or faults.
`AdminServer`: weak fairness of each of a machine's two loops together with the
handler it waits for, since both sleep for bounded times, handlers end, and a lost
connection is noticed (the client sets no timeout of its own). `MemoryStore`: weak
fairness of each thread; requests are bounded.
`JobTable`: weak fairness of startup, the event loop, the scheduler, the second
half of a call and of time; none for users, files and runs. The violated `schedule`
run uses it, so that its counterexample is not a system that stops.
`BlueprintTriggers`: weak fairness of the debouncer's thread, the loop, the run and
of time (the suppression ends). `LocalCommands`: weak fairness of calls that have
started and of the worker. Nowhere is a user, an operator or a fault fair.

**Observed exceptions.** Some properties except what the code cannot promise and
say so with a variable: `stale` (somebody held an older copy), `unwatched` (a failed
or raced registration), `unfound` (a directory that was missing), `unguarded`,
`contested` (written under a step that had looked),
`early` (aggregated during the insert), `orphaned` (a fault, a refused result, or a
deleted blueprint),
`overlapped` (an edit inside update_last_run), `missedResume`, `swept` (cleared by
stop_all). Each is set in one place by the very race it names, and each stands for a
hazard in `PROJECT.json`: the property says that there is no other.

## 4. What the models show of this code

Besides the run above, these are behaviours of the code that the models have and the
properties are stated around. Each was seen as a counterexample to the property
without its exception.

* A job that has left `queued` and is not yet in `running_jobs` is accepted again, and
  the second execution is dropped without a Completed event (queue.rs:127, :146;
  docs/v2/WATCH-SPEC.md:36 says that the queue deduplicates by job_id).
* stop_all empties `pending` but not `queued`: the job is refused as
  ALREADY_RUNNING ("Job já na fila", docs/v2/API-IPC.md:321) until the restart
  (queue.rs:320). `StrandedOnlyByStopAll` says that nothing else does this, and is
  proved.
* An execution that was started but has reported no file yet (a long pre-script) is in
  neither table that cancel looks at: cancel answers ExecutionNotFound (queue.rs:346).
* Of two concurrent completions the older aggregate may be written last
  (autoflow-admin-server/src/lib.rs:1229; docs/v2/ADMIN-MONITORING-SPEC.md:136: the
  server recomputes the aggregate). A command can stay "running" with all its
  deliveries done. The in-memory store does not have this, but a batch and a poll can
  block it for ever (lib.rs:708).
* A delivery for a machine whose remote commands are off (the default) waits without an
  error until they are switched on; one executed while its secret is replaced stays
  "running", because the server refuses the result and the agent does not repeat it
  (autoflow-core/src/admin.rs:694, autoflow-admin-server/src/lib.rs:332).
* With verify_after_copy a file that somebody changes between its transfer and its
  hash is reported as failed but stays at the target, and no rollback knows of it
  (execution.rs:317, :348).
* Every start of the server registers the bootstrap secret again (main.rs:34), and the
  agent's loop never resets `enrolled`: a machine whose secret had been rotated is
  refused until it is restarted itself.
* A job whose source directory is missing when it is saved, or at startup, is not
  watched, no error says so, and nothing looks again when the directory appears
  (watch.rs:506).
* The polling task of a watcher outlives its handle and goes on sending
  (watch.rs:203; docs/specs/contratos-principais.md:40: WatchEnabled
  "Ativa/Desativa o Watch Folder").
* A folder that is empty at the check of a plan and has content at its delete is
  deleted unconfirmed, because an earlier item or somebody else put it there
  (blueprints.rs:1089; apps/desktop/src/lib/i18n/en-US.json:671: "Execution blocks
  any deletion with content").
* A correction hears of the folders that it made when the notifier is slower than the
  suppression, and corrects A/X into A/A. docs/v2/BLUEPRINT-SPEC.md:197 has nested
  folders fall to the normal apply; with recursive watching they do not. It ends
  after one level (`NestingBounded`).
* Rollback renames and never copies, so that a move to another device is not undone
  and its item is skipped (rollback.rs:49); `UndoRestores` of `FlowRuns` asks for one
  device. Move with overwrite removes the target before it tries the rename
  (execution.rs:328). Undoing a copied folder removes the whole target, also what a
  merge found there (rollback.rs:151). resolve_conflict appends to the name it finds
  and so makes `x (1) (1)` rather than `x (2)` of a file that carries a suffix.
* Copying a folder below itself reads what it writes until the path is too long
  (blueprints.rs:1481); no plan of the instances does it.
* handleSave stores `pin_enabled` before the PIN, and validate refuses the first
  without the second: a first PIN cannot be set from that screen
  (apps/desktop/src/routes/settings/+page.svelte:133).

## 5. Proofs

Each inductive invariant was checked by TLC on the instances above before it was
proved (but for `RememberInv`, which quantifies over histories). A step of a proof is
an action of Next; the lemmas name what a family of actions leaves alone.

`ExecutionProofs`, `JobQueue` (for all sets of jobs and ids and every number of calls, from
`NoJob` and `NoExec` being no members of them):

* `TypeInvariant`.
* `RunningTable`, `JobMutualExclusion`, `AlwaysStoppable`. `RunningTableExact` is not
  inductive: the worker may be about to insert the id it holds. `OwnershipInv` adds
  that every id in use was handed out for a job (`IdsHandedOut`) and that the id
  about to be spawned has no task that owns the job (`SpawnsIdle`).
* `PauseBound`, `LostWakeupWindow` from `GateInv`, which says what the worker knows
  of pause and resume at each of its places.
* `NothingElseStrands`: `StrandedOnlyByStopAll`, inductive as it stands; the work is in
  what Append, Tail and SubSeq do to the members of a sequence.

* `QueueImplementsLifecycle`, that is `QueueSpec => ImplementsLifecycle`. The table keeps
  two executions of one job apart (`OwnershipInv`). That nothing is started twice or
  after its end is `PlaceInv`: the Run message of an execution is in one place
  (channel, pending list or hand), and what has still to be started has no task, was
  not dropped and, if it was reported as completed, is in `cancelled`. Then every
  action is `Accept` (enqueue), `Start` (the insertion into `running_jobs`), `Close`
  (a queued cancel, a skip, a drop, the removal from `running_jobs`) or changes the
  facts of no execution (`Same`).

`CommandProofs`, `CommandDelivery` (for all agents, numbers of commands and of faults):

* `TypeInvariant`, `FinalResults`.
* `AtMostOnce`: `AtMostOnceExecution`. The invariant `DeliveryInv` follows a delivery
  from the statement that selects it over the answer to the agent: while it is pending
  nobody executed it, and at most one holder (handler or agent) is about to.
* `StatusFollows`: `StatusFollowsDeliveries`. `StatusInv` says which aggregate the
  handler between its SELECT and its UPDATE carries, and that it is of the present
  deliveries unless the command is `early` or `stale`.

`JobTableProofs` (for all jobs, clients, triggers, times and bounds; assumed are
`TriggersAssumption`, `TimeAssumption`, `BoundsAssumption`, `ClientsAssumption`):

* `TypeInvariant`.
* `NoOtherLostUpdate`: `RowIsAsked`. The invariant `RowInv` says that for a job that
  is not stale every copy in anybody's hands (run, scheduler, toggle) is the row,
  up to the `enabled` that a toggle changes.
* `WatchesFollowRows`: `WatchMatchesRow`. The invariant `WatchInv` says that the
  copies of syncs are the row too, and that as soon as the startup has been there and
  no sync is under way the handle is the row's, or none if the job is `unfound`.

`CommandProofs`, `LocalCommands` (for all PINs, limits, clicks, acts and faults; assumed are
`PinsAssumption`, `LimitsAssumption`, which `normalize` needs, `BoundsAssumption`, and
`ClicksAssumption`: a click is a call of its own, none of the screen's or the worker's):

* `CopiesAreFresh`, that is `SettingsInv`: in every stored row and every copy the limit
  and its older twin agree (`Level`), so that `normalize` changes nothing that is
  written; and a copy taken since the last write is the row, except for the fields its
  caller means to change (`Fresh`, and `FormFresh` for the form on the screen).
* `NoOtherLostSetting`: `SavesExact`, a step property that follows from `SettingsInv`.
* `CommandsWorkOnce`: `OnceUnlessContested`. `QueueInv` says of an uncontested command
  that one click has selected it, that it has not worked before that click is at its
  last statement, and that one that has worked is not pending.

`ServerProofs`, `MemoryStore` (for all threads, agents, batches and requests; assumed are a
finite set of machines, `TargetsAssumption`, and `StoreBoundsAssumption`):

* `StoreIsKept`: `StoreInv`. `IssuedInv` says that the command of a batch is nobody
  else's, `LocksInv` who has which lock and what it has changed under it: the deliveries'
  lock names its holder's one delivery whose command is still to be updated.
* `StoreImplementsLedger`: `StoreSpec => ImplementsLedger`. Batches, polls and completions
  happen at the second of their two steps, under both locks; what is hidden until then
  is exactly what the holder of the first lock has changed (`SeenInv`, `UnpushedInv`).

`ServerProofs`, `AdminServer` (for all machines, secrets, roles, contents and id lists, and
every number of acts and faults; assumed are that no value is `Nothing`, that the id
lists of requests are lists of machines and blanks, and `BoundsAssumption`):

* `BatchesAreExact`: `BatchTargetsExact`. `NormalizedIsExact` says that the recursive
  function `Normalized` gives every named machine once, for every list.
* `AnswersAreAudited`: `AuditTrail`. `AuditInv` counts for each kind of act: callers were
  told of no more than the audit holds, and the audit holds no more than was done less
  what the handlers between their change and their entry still owe (`Owed`).
* `OnlyChangesLockOut`: `LockedOutOnlyByChange`. `SecretsInv` follows a secret from the
  keyring over the enrolment under way to the server's row, as long as nobody has
  changed it (`MachineInv`).

`FileBlueprintsProofs` (for all blueprints, files, trees, applies and acts; assumed
are `AppliesAssumption`, that the user is no apply, `BlueprintsAssumption`, that a
counter starts above 0, as validation demands, and `BoundsAssumption`):

* `RowStaysAsked`: `RowIsAsked`. `RowInv` says that the copy held by update_last_run is
  the row, or an edit has overlapped.
* `NumbersAreUnique`: `NumbersOnce`. `NumbersInv`: every number drawn under a key is
  below its counter, unless the blueprint is gone and nobody applies it (`Dead`) or it
  was deleted while somebody did (`orphaned`).
* `FilesAreKept`: `NothingLost`. `FilesInv` says that what an apply is about to write
  goes to a free target, which resolve_conflict's search finds (`ResolvedIsFree`).
* `SimulationIsRight`: `SimulationForetells`, from `TreesAssumption`: there are finitely
  many files. `ForetoldInv` says that from the counters as they are now the files that
  a call has still to plan lead to what the simulation had shown when it began.

`FolderPlansProofs` (for all blueprints, trees, applies, users and faults; assumed are
`BlueprintsAssumption`: paths are sequences of names, a parent comes before its children,
no folder is moved or copied into itself; `TreesAssumption`: a tree has the parents of
its folders; `MaxSuffixAssumption`):

* `WellFormed`: `TypesInv`, that the tree stays one, that a call knows of a delete what
  was checked when it began, and that a record never relates a folder to itself.
* `ContentIsKept`: `NothingLost`. `KeptInv` is inductive beside `TypesInv`; the work is in
  what the copy, the move and the removal of a folder do to the files of a tree
  (`CopyIs`, `MoveIs`, `RemoveIs`), a merge into a folder that is there included.
* `SimulationIsRight`: `SimulationForetells`. `AloneInv` says what "alone" is worth (one
  call, no undo); `AheadInv` says that every transfer that a call has still before it
  finds its folder and a free place, which the items before it cannot change
  because none of them disturbs it (`WorkedFolders`).
* `SecondApplyChangesNothing`: `Idempotent`. `StableInv` says that an item that has been
  worked on finds nothing to do (`Stable`), that items that are disjoint from it leave
  it so (`StableElsewhere`), and that an apply of stable items changes nothing.
* `UndoBringsBack`: `UndoRestores`. An invariant of the present tree does not suffice, for
  each record is undone in a tree that the items after it have changed. `RememberInv`
  says that there is a past: for every record the tree and the item that it was made
  in (`Recalls`), each tree of which is what the record before has made of its own but for
  deletes and empty folders on the way of other items (`Resembles`). A record adds to the past
  (`PastGrows`), an undo takes its last one away (`PastShrinks`): a copy was made
  at a free place (`CopyUndone`), and what a move left behind nobody has
  used (`MoveUndone`). `Restorable` is what this needs of a plan.

`BlueprintTriggersProofs` (for all plans, paths, names, files, acts and faults; assumed are
`PlanAssumption`: every node's parent comes before it; `NoFileAssumption`):

* `WellFormed`, `FoldersStayShallow`: `NestingBounded`. `TypesInv` says of every folder,
  event and run that it is in reach, one level below the plan at most. A correction
  takes the name of a node and stays in its parent (`CorrectedIs`), and the plan is
  applied at the root only; both is needed for the bound to be kept.
* `FilesAreKept`: `LostOnlyIfContested`. `FilesInv` says what a run in the middle of a
  correction knows of its two folders as long as no act came in between (`RunKnows`).

`FolderTheorems` has what these two need of paths and trees: prefixes, fronts, and where
`copy_dir_recursive` puts what it copies (`RebasedIs`, `RebasedOnce`, `RebasedBack`).

`ExecutionProofs`, `FlowRuns` (for all flows, files, options, writes, runs and faults; assumed are
`BoundsAssumption`, `ConfigsAssumption`, and `DirectoriesAssumption`: no flow has its
own source directory as its target):

* `TypesAreKept`; every manifest and every rollback belongs to one flow, and a run has
  looked at paths of its own directories only.
* `TransfersAreRecorded`: `TransfersRecorded`. The exception for files that fail
  verification is no loophole: `QuietInv` (`QuietIsKept`) says that as long as nobody
  else has changed files since the run began, every check finds what the transfer
  left, so that `Rejected` is reached only after somebody else's change.
* `RollbackRestores`: `UndoRestores`. `AloneInv` carries the tree as the run found it and says that the tree
  is what the items so far have made of it (`Applied`): each item went from a place of
  its own to a place of its own that was free. The rollback takes them back from the last.
* `FilesAreKept`: `NothingLost`, under the hypothesis `NoLoops` that no flow feeds
  itself through the directories of others; one flow's target may be another's source.
  `FilesInv` says that a content exists upstream of every copy that a rollback
  may remove: a recorded hash stands for a content that is in a directory that feeds
  the flow (`Safe`, `ItemKnows`), and not only where a step is about to remove it, be
  it the source of a copy across devices or a copy that fails its check (`Leaving`).
  The hypothesis is needed: of two flows that feed each
  other TLC finds that a rollback of one deletes its copy and fails to mark the
  manifest, the rollback of the other brings its file back to that very place,
  and the first rollback, still pending, takes it for its copy and deletes
  the last one (rollback.rs). `NoChainsNoLoops` gives the simple case, in
  which no flow writes where another reads.

How data is reasoned about. An induction theorem of the library takes an operator and
cannot be used. Where a fact about a function on numbers is needed for every argument
(`Normalized`, `Simulated`, `Plan`, the least free suffix) the proof takes the least argument
for which it fails (`WFMin`) and shows that there is none.

Only model-checked is what the provers cannot reach, liveness under fairness
(`CancelTakesEffect`, `ResumeTakesUpPending`, `DeliveriesEnd`, `FleetConverges`,
`StuckOnlyByBatch`, `CacheCatchesUp`, `CorrectionsSettle`), and the type invariants that
no theorem needs. Every other property of a run that passes is a theorem. Of the
recursive function `Plan` the proofs use what `PlanIs` says (a list of items with paths
and no transfer into itself), and not in which order it lists the nodes.

## 6. Abstractions and what is not modelled

* File names do not collide by content in `FolderPlans` (a merge unites sets), and
  no plan there copies a folder into or onto itself. `NothingLost` there concedes what
  came into a folder after the check and what the undo of a copy removes with it.
* Templates are evaluated before the models begin; `FileBlueprints` keeps four kinds of
  names because conflicts and numbers depend on them. Tokens that are evaluated anew by
  the apply (a time, a `{guid}`) are left out: for them the simulation foretells nothing.
* `FlowRuns` has no half-written targets (a transfer that fails leaves none), and a copy
  across devices whose source cannot be removed counts as failed, not as transferred.
  A flow into its own source directory is not modelled.
* The screen's form and its PIN are fixed at the click in `DesktopSettings`. In the code
  the form stays editable during a save and `newPin` is read again after the first call
  (settings/+page.svelte:134, :366).
* A move in `FileBlueprints` is one step, its fallback from rename to copy and remove
  (blueprints.rs:1431) included.
* Schedules are an interval and a time of day in ticks: weekdays, time zones and
  daylight saving are not modelled.
* The criteria of a filter (size, dates, patterns, content) are independent predicates
  on one file; collection, its order and recursion and the names that the path policy
  refuses are part of `FileBlueprints`.
* What a dispatched command does to jobs is an outcome in `CommandDelivery` and
  `LocalCommands`: the calls themselves are in `JobQueue` and `JobTable`.
* The two read-only routes of the server (fleet, groups) change nothing and are no actions.
* Not modelled: the tokenizer (a pure function on strings), the audit store's queries
  and purge, the backup worker and its retention, packages and encryption, scripts,
  notifications and mail, migrations, the shell and the screens (but for the settings
  form). They keep no state between steps that others see, or are input and output;
  cryptography is taken as given. `PROJECT.json` gives a reason per component.

## 7. Plan

What is left, in this order:

1. The tokenizer's round trip, weekly schedules and filters against reference
   definitions over small inputs.
2. The backup worker beside writers of the database, and its retention.
