# AIHelper: TLA+ verification project

AIHelper (`ah`) is a Rust command line tool whose commands are also offered to
agents through an MCP server. Most commands read something and answer. The parts
that can go wrong in ways a test hardly reaches are those around them: the executor
that runs commands in parallel, the server that shares it between sessions, the
jobs, the managed background service, the self-update, the files several processes
share, the agents' own configurations, and whatever depends on a child process, a
forge, a download or a server. This directory models those parts in TLA+, checks
them with TLC on small instances, and proves the parts that carry the most for every
instance with TLAPS.

`PROJECT.json` lists the components, the runs, the source lines each definition
models, the hazards and the theorems. This file explains them.

    tlc -workers 2 -config MCExecutor_distinct.cfg MCExecutor   # a run
    for m in *Proofs.tla; do tlapm $m; done                     # the proofs

## Inventory

| Component | State | Operations | What is hard | What makes it correct |
| --- | --- | --- | --- | --- |
| Parallel executor (`ah-runtime/executor.rs`, `ah-plugin-api/cancellation.rs`) | semaphore, `tracked` map, one `ExecutionState` per call, process-wide set of cancelled ids | `submit`, `cancel`, `close`, `run_execution`, drain | cancel, deadline, return of the handler and close race for one answer; handlers may never return | one answer per call, exact slots, close misses nobody, cancellations do not stray |
| Background jobs (`ah-mcp/jobs.rs`) | bounded map of records, TTL | `reserve`, `rollback`, `attach`, `snapshot`, `cancel`, completion task | completion in two phases; eviction beside running jobs | records are truthful, stable, never evicted while alive |
| MCP sessions and catalog (`ah-mcp/server*.rs`) | catalog snapshot and revision, peers, active executions per session | `call_tool`, `list_tools`, `on_cancelled`, `on_initialized`, refresh, notify | set and revision change in two steps; late failures of notifications; reused protocol ids | catalog consistent and fresh; only what is named is cancelled or dropped |
| Transports and shutdown (`ah-mcp/transport.rs`, `shutdown.rs`, `events.rs`, `mcp_serve.rs`) | shutdown flag, budget, event queue | serve loops, triggers, flush, exit | several triggers at once, stuck connections, handlers and sinks | one grace period for everything; it always ends; flushed means recorded |
| Managed service (`ah-service`, `bin/ah-mcp-service.rs`) | registration, definitions, pointer, runtime document, two locks | `install`, `start`, `stop`, `restart`, `uninstall`, `status`; runner, launcher, scheduler | command, runner, scheduler, logon and crash in any order; documents that disagree | a registration can always be resolved; nothing foreign is stopped; stopped means stopped |
| Update transaction (`ah-update-helper/apply`, `ah-updater`) | transaction directory, journal, staged and backed-up files, permanent backup | `prepare`, `activate`, `commit`, `rollback`, `recover`, `finalize` | crash or failure between any two file operations; foreign files | old or new release, never a mixture; recovery finishes |
| Child processes (`ah-domains/run/io.rs`, `ah-update-helper/bounded_process.rs`) | process tree, pipes, two readers | spawn, poll, kill, capture | full pipes, processes left behind, failing system calls | nothing survives, output exact, the deadline ends the call |
| State files and vault (`ah-persist`, `ah-secrets`, `plugin_settings.rs`, `ah-domains/task`) | JSON files, sidecar lock, advisory lock, capabilities | `transaction`, `atomic_write`, vault operations, browser form | locks that outlive their owner, reads outside the lock, forms sent twice | no update is lost, a capability stores once |
| Updater client (`ah-updater`, `ah-updater-core`) | binding and identity of the installation, transaction directories, lifecycle lease, copies of the helper | `check`, `prepare`, handoff, acknowledgement, undo, start-up recovery, cleanup | several `ah` at once; a lease that changes hands between processes; a service stopped by a process that dies | one critical section, never without the lease; a stopped service is remembered |
| Update helper (`process.rs`, `restart_manager.rs`, `apply/backup.rs`) | Restart Manager session, observed processes, permanent backup with its `.new` and `.old` | quiesce, classify, terminate; promote, consume | process ids reused between listing and kill; death between two renames | only own processes are killed; a rollback finds what the last upgrade replaced |
| Releases (`ah-release-tool`, `ah-release-manifest`, `candidate.rs`, `github.rs`) | listing, selected release, manifests, archives, candidate directory | validate, stage, sign, publish; list, select, download, extract, smoke test | releases published between two pages; a build that writes while the tool signs | what is installed is what was signed; the newest release is found |
| Scheduler backends (`windows_scheduler.rs`, `systemd_*.rs`, `store.rs`) | unit file, manager's copy, task, invocations, definition files | register, inspect, start, stop, delete | user edits, missing reload, crash between file and registration | "installed" is so; a registration names a whole definition |
| Agents (`ah-ai`) | documents of six agents, rules file with a managed block; cells of the status screen | `ai install`, `ai uninstall`, `ai status` | calls of foreign command lines that fail half way, edits in between, workers that die | success is so, the user's text survives, the screen ends |
| Plugins (`ah-plugin-*`, `src/plugins`) | loaded libraries, typed registry, disabled domains, secrets | load, shadow, dispatch, typed and legacy calls | layouts of several directories, changes between resolve and call | one owner per domain, secrets as declared |
| github, gitlab (`ah-plugin-github`, `-gitlab`, `-sdk`) | requests sent, pages, wait deadline | every command | lost answers of writes, pages that move, waits without end | tokens go where they may; the answer tells the truth |
| postgres (`ah-plugin-postgres`) | tool cache: lock, archive, directories | find, download, `use`, `cleanup`, statements | two processes in one cache, crash with the lock | what runs was verified; nothing writes unconfirmed |
| http (`ah-domains/http`) | attempts, extracted variables, verdicts | `request`, `replay`, `assert` | retries under a deadline, extraction from failed cases | the verdict is about the last response |
| Observability (`ah-observability`, `ah-redact`, `ah-mcp/plaintext_auth.rs`) | one log file per day, advisory lock | redact, bound, append, clean up; the gate for inline credentials | writers of several processes, crash in a line, midnight; passes that call each other over nested texts | lines stay whole, no secret in them, gate and log agree |
| Readers (`ah-domains` file, search, ctx, git, project) | none of their own; a position in a walk | `read`, `head`, `tail`, `tree`, `search`, `ctx`, `git`, `project` commands | overlapping roots, links that lead back, limits, a tree or repository that changes between two reads | the answer is exact and says when it is cut |
| Front end (`src/entry.rs`, `src/cli`, `src/runtime_flow`) | the words of a line | routes, recovery, parsing, dispatch, record | several readers of the same words that must agree | every run is accounted for, the child gets its own words |
| ollama, platform, output | none of their own | one-shot | | not modelled |

How they interact. A request reaches `McpServer::call_tool`, which registers an
execution id, submits to the executor and refreshes the catalog before it answers;
`ah.job.start` instead reserves a record and hands the execution to the job
registry, which watches its logical and its physical end. `begin_shutdown` closes
the executor. The service's runner is such a server with an instance lease; the
lifecycle commands speak to it over its control endpoint and to the scheduler. The
updater stops the service through the same lifecycle, hands over to the helper,
and the helper's smoke test and restart run as bounded child processes. Settings,
tasks and the vault are files that the server and any number of command lines
write at the same time. Every run of `ah` first looks for an interrupted update, then
routes its words, loads plugins and leaves a record in the log.

## Modules

| Module | Models | Composes |
| --- | --- | --- |
| `ExecutionLifecycle` | what an executor promises: accept or reject, one answer, release, physical completion | |
| `Executor` | the executor in steps between lock, channel and atomic operations | refines `ExecutionLifecycle` |
| `RuntimeProofs` | theorems about `Executor`, `PluginHost`, `PostgresTool`, `HttpDomain` and `Forge` | extends them |
| `JobRegistry` | the job registry | extends `ExecutionLifecycle`, in place of the executor |
| `ServerProcessProofs` | theorems about `JobRegistry`, `ChildProcess` and `McpShutdown` | extends them |
| `McpServer` | sessions, catalog, peers, cancellation | |
| `McpServerProofs` | theorems about `McpServer` | extends `McpServer` |
| `McpShutdown` | stdio and HTTP serving until exit | |
| `ServiceLifecycle` | the managed service with scheduler, launcher, runner and updater | |
| `ServiceProofs` | theorems about `ServiceLifecycle`, `ServiceRegistration` and `AgentInstall` | extends them |
| `AtomicInstall` | an update that happens in one step | |
| `UpdateTransaction` | the journalled transaction and its recovery | refines `AtomicInstall` |
| `UpdateTransactionProofs` | theorems about `UpdateTransaction` | extends `UpdateTransaction` |
| `ChildProcess` | one child under `run` on Windows, `run` elsewhere, and the helper | |
| `StateStore` | settings, tasks and vault with their locks, and the browser form | |
| `SharedFileProofs` | theorems about `StateStore` and `EventLog` | extends both |
| `UpdateClient` | several `ah` processes of an installation and the helpers they launch | abstracts `UpdateTransaction` to the state of its journal |
| `UpdateClientProofs` | theorems about `UpdateClient` | extends `UpdateClient` |
| `BackupRotation` | the permanent backup: promote, consume, finalize again | |
| `Quiescence` | the helper against the processes of the installation | |
| `UpdatePathProofs` | theorems about `BackupRotation`, `Quiescence`, `ReleaseDiscovery` and `ReleaseArtifacts` | extends `MCUpdatePath`, which puts them together |
| `ReleaseDiscovery` | listing, selection and download of a release | |
| `ReleaseArtifacts` | the release tool and the updater's verification, extraction and smoke test | |
| `ServiceRegistration` | the Windows and the systemd adapter below `ServiceLifecycle` | |
| `AgentInstall` | `ai install` and `ai uninstall` for all agents | |
| `AgentStatus` | the live screen of `ai status` | |
| `PluginHost` | loading, ownership, settings, dispatch and secrets of plugins | |
| `Forge` | every command of the github and gitlab plugins over the SDK | |
| `PostgresTool` | the shared tool cache and the commands of the postgres plugin | |
| `HttpDomain` | requests, replays and spec files | |
| `Redaction` | the passes over texts, arguments and values, the record of an event made with them, and the gate of the MCP adapter | |
| `EventLog` | the event log of several processes | takes what a line shows as a parameter; `MCHost` puts `Redaction` in |
| `FileTools` | the file, search and ctx commands over a work tree | |
| `GitDomain` | the git commands over what git prints | |
| `ProjectDomain` | the tables of project rules; detection, versions and suggested commands | |
| `CommandLine` | one run of `ah`, from its words to its record | |

The `MC` modules give the constants their values. Machines that share no variable are
put into one MC module (`MCServerProcess`, `MCHost`, `MCUpdatePath`, `MCExternal`):
a variable `machine` chooses, once, which of them runs, the others rest in one initial
state, and the specification is the disjunction of their steps with their own
fairness. Such a run explores each machine completely and alone; it says nothing
about interleavings between machines, and none is claimed: where components do
interact, one module has the state of both (`JobRegistry` over
`ExecutionLifecycle`, the runner, launcher and scheduler in `ServiceLifecycle`,
client and helper in `UpdateClient`).

State and actions follow the code. In `Executor`, `permits`, `tracked` and `closed`
are the fields of `ParallelExecutor`; `sender` is the `Option` inside
`LogicalCompletion`, which is why whoever takes it decides the answer; `pc` says
where `submit` and `run_execution` are. `JobRegistry` has one record per job with
the fields of `JobRecord`; its completion task, a racing `job_cancel` and `attach`
have steps of their own because each drops the lock in between. In `McpServer` a
request carries the revision it loaded and the pieces it built; the change of the
domains is three steps (settings file, domain set, revision), as in
`host_commands.rs` and `manager.rs`. `McpShutdown` has a clock with `Grace` ticks and
shows each wait of the serve loop as a step that may also time out.
`ServiceLifecycle` keeps the documents as they are on disk, `lease` for the instance
lock, and one record for the running command; a definition is a number, and whether
a registration is owned, drifted or foreign is what the parsers of tasks and units
would say. `UpdateTransaction` keeps every file as old, new, absent or foreign,
every temporary by its name, and the journal with its sequence number; a crash may
come at any `FailurePoint` and between writing and renaming. `ChildProcess` numbers
the bytes a child writes, so that what is captured can be compared. `StateStore`
keeps the document, the lock and a copy per thread.

In `UpdateClient` a process is a program counter `clientPc`, its helper another, and the
lease is the set of open handles, so that the moment in which both hold it, and the one in
which neither does, can be told apart; whether an attempt to start the service again
succeeds is open, and where the code ignores a failure nobody repeats it. `BackupRotation`
has the three directories `<id>`, `<id>.new` and `<id>.old` and dies between any two
operations on them. `Quiescence` gives each process a start time, because the code
identifies a process by pid and start. `ReleaseArtifacts` treats a digest as the content it
was taken from. `ServiceRegistration` keeps the unit file as lines and the manager's copy of
it apart. `AgentInstall` reads documents as entries per server name, with whatever stands
there that is no object (`stray`), and the rules file as tokens, of which the markers of the
managed block are two. `AgentStatus` has a worker per agent that may die, or wait for a CLI
that never returns (`Hangs`). `PluginHost` keeps the libraries still to be loaded as a set
and takes them directory by directory, file by file. In `PluginHost`, `Forge`,
`PostgresTool` and `HttpDomain` an invocation is a record of the arguments that decide
something; the environment answers, redirects, fails or is late. An HTTP attempt is answered
within its timeout and its body read in steps that each have that timeout anew; a removal in
the tool cache takes some of the files, or fails, or dies in between. `CommandLine` has each
reader of the words (startup scan, `--cwd` scan, `run check` split, redaction, early parser,
clap) as an operator of its own, because the question is whether they agree.

`Redaction` reads a name as its tokens and a text as its spans (words, pairs, URLs,
user:password pairs), a curl line or a document, and marks what each says as plain, secret
or a vault reference, so that what is left to see can be asked of any record (`Shows`); with
these passes it computes the line of an event (`EventLine`). `EventLog` writes a line in the
steps of `try_write`, whatever it shows: it has `LineOf` as a constant operator, because the
recursive passes would keep a proof about the writers from the prover, and `MCHost` states
`LogSound` where both meet. `FileTools` walks a tree of named nodes with links and
unreadable entries, `GitDomain` gets its answers as the fields of git's porcelain and
plumbing formats, an annotated tag's header before its commit included, and parses them as
the code does, `ProjectDomain` runs its tables over a directory and takes the version line
the code takes; in all three somebody else may change what is read between two reads of one
command.

Definitions named as a mutant (`LeakPermit`, `KillRootOnly`, ...) are not part of
any specification. Each is a plausible mistake in one operation, and shows that the
property it belongs to would notice it. `PROJECT.json` names one for every property
of a run. Where a property is the conjunction of several, the modules keep a mutant
for the other conjuncts as well (`CloseExecutorForgotten`, `RecordFlushFirst`,
`RecheckGivesUp`, ...), to be put in by hand.

## Runs

| Run | Question | Bounds |
| --- | --- | --- |
| `executor` | Are slots, close and cancellations right when two calls race for one slot? | 2 calls, own ids, 1 slot, no spare thread: a handler that never returns blocks the pool |
| `executor_ids` | The same with one id, and does the executor implement its abstract promise? | 2 calls, 1 id, 2 slots |
| `server_process` | Does a record ever lie, vanish or stay for ever? Does the process end in time with everything in order? | 2 jobs for 1 record and 1 slot, TTL 1, clock to 2: eviction by capacity and by age both happen; 2 triggers, 2 calls, queue of 2, grace of 2 ticks, both transports |
| `mcp_server` | Is the catalog consistent and fresh, and do cancellations stay with their session? | 2 interchangeable sessions, 2 requests, 1 protocol id (always reused), 3 revisions, so both requests may change the catalog |
| `host` | Do the commands that change the machine keep their promises in any order? | service: 2 interchangeable settings, 2 definitions, 2 launches, 1 retry, 1 crash, logon or edit; registration: both adapters, 2 generations, 3 commands, 1 edit, 2 starts; agents: 12 requests, 7 documents, 5 rules files, 2 runs, 1 edit; plugins: 4 layouts with every reason to skip a library, 14 calls, 2 at a time; about 650 command lines, each under every environment and recovery; log: 2 writers of 2 processes, 3 days, retention 1, one event for each place a secret may stand in, 3 entries of a list and 5 levels of a value (`MaxEntries`, `MaxJsonDepth`) |
| `update_path` | Is an update atomic and recoverable, from the listing to the permanent backup? | transaction: 1 added, 1 replaced, 1 removed file, 2 attempts, 2 crashes, 1 I/O error, 1 foreign file; clients: 3 processes, 2 that upgrade and 1 that rolls back, 1 crash, 1 failure, 3 starts; backup: 3 releases, 2 deaths, 1 failing rename; quiescence: 2 pids for 3 processes, so one is reused; discovery: pages of 2, 2 releases published meanwhile; artifacts: 13 builds, 5 calls of the tool, 1 rebuild under it |
| `external` | Do commands that depend on something outside end, and tell the truth? | child: limit 2, pipe 1, 3 bytes, 1 failing system call, all hosts; status: 2 agents, 1 dying worker, 1 CLI that may never return; forge: every command, every origin and target of a token, up to 2 redirects (`Redirects`), 2 issues published meanwhile; postgres: every command alone, and 2 or 3 processes in one cache, which makes the double removal of a stale lock reachable, 1 crash; http: 3 attempts, deadline 4, 6 responses, at most 1 read of a body that waits (`MaxReads`); readers: trees with overlapping roots, cycles and unreadable files, 1 edit of the tree (`MaxTreeEdits`), repositories with renames and every kind of entry, 1 change and 1 failing call of git, directories with every rule's file, 1 edit (`MaxProjectEdits`) |
| `state_store` | Is any update lost, or any form stored twice? | 2 server threads, 1 terminal, 2 cells, 2 capabilities with room for 1, 1 crash |
| `service_reconcile` | Can a later command always reconcile? (violated) | as `host`, no fault and no retry |
| `service_status` | Is status harmless? (violated) | as above, 1 status call |
| `update_collision` | Does a crash always leave something recovery can finish? (violated) | 2 files, 1 crash |
| `command_line` | May every host flag stand before the child of `run check`? (violated) | the lines of `host` |

The bounds are the smallest in which each limit is met and passed and in which two
actors of each kind meet. Deadlock is checked for the machines that never may stop:
the jobs, the server, the service and the state store; in `server_process` and `host`
the machines that do end are given a stuttering step (`Stopped`, `RunOver`) for it. The
other runs end with every process gone or every call answered. Settings, sessions and
the threads of the server are interchangeable, so the runs `host`, `mcp_server` and
`state_store` use symmetry; they check no liveness.

What the properties say:

- Executor. `SlotAccounting`: missing permits are held by calls. `OneLivePerId`: an
  id names one live execution. `CloseStopsEverything`: a submit that races with
  close is either stopped by it or refused. `NoStrayCancellation`: a handler is told
  to stop only for its own call (with ids that are never reused, as `McpServer`
  makes them). `SlotReclaimed`: an accepted call is answered and its slot comes back
  even if the handler never returns. `ImplementsLifecycle`: the refinement.
- Jobs. `RecordsSound`: no live job is evicted, the capacity is kept, and a record
  tells what its execution did. `TerminalIsStable`.
- Server. `CatalogSound`: the published catalog is the one of its revision, an
  answered request has read its own writes, and a peer is dropped only for its own
  failure. `CancelsOnlyNamed`.
- Shutdown. `ExitIsClean`: one grace period for everything, the executor closed at the
  exit, and a flush that was answered covers what was accepted before it.
  `ServerEnds`: jobs and shutdowns end.
- Service. `RemovalSafe`: the registration names a readable definition whatever a
  command died after, and nothing runs while files are removed. `CommandsExact`: start
  and restart name the instance that was asked for, nothing foreign is stopped, and
  stopped means quiet. `InstalledIsSo`: an undisturbed "installed" means that the
  manager would run exactly that. `RegistrationSafe`: a marker names a whole definition
  file; a stop hits the invocation it names.
- Agents. `InstallHonest`: success is so, also when something else was edited
  meanwhile, and a failed replacement leaves a registration. `UserTextKept`: nothing of the
  user's is lost but the edits that fell between the read and the write of a run, as many
  and no more, and what `json_config::merge` displaces because it is no object where the
  servers belong. `StatusEnds` (in `WaitsEnd`): the screen ends and is complete, also when a
  worker dies, unless an agent's CLI never returns; then every other row is shown.
- Plugins. `DispatchSound`: one owner per domain, disabled domains stay out, and a typed
  command gets the secrets its request names, in declared slots and kinds.
- Command line. `LineSound`: a `--cwd` before the command word means one directory to
  all readers, a child gets its words as typed, every run that got past the early
  routes leaves one record, without what may be secret, and a managed runner that was
  ready has served or is marked failed.
- Log. `LogSound`: what a writer finished is one line of its day (`LogIntact`); no secret
  that stands where redaction looks for one is in it, nor a vault reference even with
  `AH_LOG_UNREDACTED` (`NothingSecretLogged`); and the gate of the MCP adapter refuses an
  http call exactly when the event of the call has something inline to hide
  (`GateAgrees`). "Where redaction looks" is the list of `SecretTexts` in `MCHost`.
- Update. `AllOrNothing`: the journal tells the truth about the files and no temporary
  outlives its transaction. `ForeignKept`. `ImplementsAtomicInstall`: the refinement.
  `Recovers`: recovery finishes unless one of the residues listed in `Residue` stops it.
  `HandoverSound`: one critical section, always under the lease; a service the update
  stopped, knowing that it ran, is remembered until somebody has tried to start it again;
  the binding names a whole identity. `HelperKeepsTransaction`: no transaction disappears
  under a live helper. `RollbackTargetKept`: the backup is the release before the last
  upgrade, and during promotion a whole one exists somewhere. `KillsOnlyOwn`.
  `ReleasePathSound`: nothing newer that was there is missed (`SelectionComplete`), what is
  made ready is what was signed, and what the tool accepts the updater accepts
  (`ReleaseSound`). `UpdateWaitsEnd`: finalization, quiescence and discovery end.
- Outside. `NoSurvivors`, `CaptureExact`: the child. `ForgeSound`: the requests a plugin
  makes have tokens only for the hosts they are for, and a redirect takes GitHub's to no
  other; an answer agrees with the writes made, the pages read, the run waited for and the
  log lines selected. `ToolSound`: downloads of a version take turns and install what was
  verified, unless its lock was removed under one of them, and only a confirmed command
  writes. `AssertSound`: attempts stay within the retries, begin before the deadline and are
  answered within it, and the verdict is about the last responses; what the reading of a
  slow body adds is not bounded. `ReadersSound`: a search returns the first matches of every
  file under its roots, each once for every spelling of its path, and says when there is one
  more; a pack has every entry once for each root; a file is shown as it was at one moment
  (`ReadToolsSound`); every part of an answer about a repository was so at some moment of
  the command, and a tag is created exactly when the command says so (`GitSound`); a
  detected file and a suggested script are real ones, and a version is one the manifest has,
  the project's own unless another stands where the code looks (`ProjectSound`). `WaitsEnd`:
  the deadline ends a child's call, its output never blocks it, and status screens and forge
  commands end.
- Store. `NoLostUpdate`: the file is what its operations make of it, one after the
  other, except through two named gaps. `CapabilityOnce`.

`TypeOK`, `JobTypeOK`, `McpTypeOK` and `ServiceTypeOK` are type invariants. Those of
`Executor`, `UpdateTransaction`, `McpServer` and `ServiceLifecycle` are proved, those of
`JobRegistry` and `UpdateClient` are part of the proved inductive invariants, and none is
part of a run.

### Fairness

- `Executor`: tasks that `run_execution` spawned, the close call and a cancellation
  under way proceed (Tokio polls ready tasks). Nothing is assumed of handlers; the
  timer of the drain grace is a step of the task.
- `JobRegistry`: the completion task, `attach` and the executor behind
  `ExecutionLifecycle` proceed, the latter because of `SlotReclaimed`.
- `McpShutdown`: triggers that have begun, the serve loop and time proceed;
  connections, handlers and the sink need not.
- `UpdateTransaction`: the helper proceeds while it lives, and somebody starts `ah`
  again after a crash. Crashes are bounded, so recovery gets its chance.
- `ServiceLifecycle`: commands and runners proceed, a start that waits long enough
  times out, and for `LaterCommandReconciles` the user repeats `uninstall`.
- `ChildProcess`: the polling caller, readers whose pipe has data or is closed, and
  the death of a process that was terminated. `OutputNeverBlocks` also assumes that
  the child proceeds; `DeadlineEnds` does not.
- `BackupRotation`: finalization is tried again, because every `ah` recovers first.
- `Quiescence`: the helper is scheduled and the grace period passes.
- `ReleaseDiscovery`, `Forge`: the client proceeds; its requests and sleeps have timeouts.
- `AgentStatus`: workers that live send, and the screen receives. A dead worker drops
  its end of the channel. Nothing is assumed of an agent's CLI, which is waited for without
  a timeout (`registrar.rs:158`, `docs/reference/ai.md:234`): `Hangs` ends its worker.

## Findings

1. `update_collision`. The temporary of a journal transition is named by
   transaction id and sequence number only. A crash between writing and renaming
   leaves a file in whose place the rollback transition needs another content;
   recovery then fails on every start (`apply/journal.rs:103`).
2. `service_reconcile`. `install --no-start` with changed settings beside a running
   service leaves a runner that `stop`, `restart` and `uninstall` refuse as long as
   it lives (`lifecycle/stop.rs:181`).
3. `service_status`. `status` takes the instance lease for a moment to see whether
   it is free. A runner that starts in this moment exits as if another ran, and its
   launcher does not retry (`lock.rs:41`).

4. `command_line`. `ah run check --cwd DIR CMD` starts a child named `--cwd`: the flag
   is passed over as one of the host's when the line is divided, and is not taken out
   of what the run domain then parses (`src/cli/passthrough.rs:121`). The reference
   tells users to put it there (`docs/reference/run.md:21`).

Observed while modelling, without a run of their own. A name in parentheses is a
property in the module that states the expectation, with the constants that refute it.

- After the drain grace a job is no longer shown as draining although its handler
  may still run (`executor.rs:559`; `mcp.md` speaks of the handler's exit). The same
  abandoned handler keeps a thread of the blocking pool, so an accepted call may
  wait for one.
- A cancellation that arrives after its request's scope was dropped stays in the
  set of cancelled ids (`cancellation.rs:88`; the module says it cannot accumulate).
- `list_tools` refreshes the shared catalog without notifying the other sessions,
  and the next refresh then finds nothing to report (`server.rs:557`).
- A shutdown whose budget ends while handlers run exits with success
  (`mcp_serve.rs:171`).
- A crash in `prepare` before the journal exists, a partial temporary, or a
  permanent backup removed half way is refused by every later recovery
  (`apply/mod.rs:280`, `managed.rs:228`, `backup.rs:212`). The first two are residues
  of `Recovers`.
- A rollback of a committed update consumes the permanent backup before the service
  is restored (`activation_command.rs:121`); a crash after that never restores it.
- Outside Windows a process that keeps an output pipe open after the root has gone
  holds up the call beyond its timeout (`run/io.rs:116`): the exception `Lingering`
  of `DeadlineEnds`.
- Two waiters that judge the same sidecar lock stale can both enter: the second
  removes the lock the first has just created (`ah-persist/src/lib.rs:178`); and a
  transaction that is suspended for 300 seconds loses its lock. `intruded` in
  `NoLostUpdate`.
- An edit of a secret reads it before the vault is locked and writes back the parts
  it was not given (`setup.rs:262`, `secrets/domain.rs`): `overtaken`.
- A capability that is purged while its secret is stored makes the form report an
  error for a secret that was stored (`setup.rs:288`).
- A third `ah` that starts while two recoveries follow each other can be told to recover by
  hand (`StartupRecovers`, `Clients = {1, 2, 3}`; `activate.rs:231`,
  `docs/reference/upgrade.md`). A helper that dies between finalization and the restart of
  the service forgets that it ran (`HandoverSound` with `FinalizeCrash = TRUE`;
  `activation_command.rs:109`), and so does one whose restart fails there; in `ah` a failed
  restart is ignored (`activate.rs:277`). A service that came up after the plan was captured
  is stopped, and not started again (`activate.rs:274`, `guard.rs:32`). A death while the
  used backup is removed stops finalization (`FinalizationCompletes` with `ConsumeCrash =
  TRUE`; `backup.rs:212`).
- A release deleted between two pages of the listing may hide another one. A directory
  entry with content is accepted by the release tool and refused by the updater
  (exception in `SignedInstalls`).
- `ai install cursor` with a question asked panics where "a CLI-registered target always
  has a program" (`NeverPanics`; `apply.rs:157`, `registrar.rs:46`). An edit between
  the read and the write of a document is lost (`raced`; `json_config.rs:95`). A value of
  `mcpServers` that is no object is replaced by an empty map (`json_config.rs:69`), although
  the comment above it speaks of keeping what is there. Of two
  managed blocks only the first is removed.
- A line appended to the unit file wins over the one that is compared
  (`InstalledIsSo` with `UnitEdits = {"append"}`; `systemd_scheduler.rs:103`), and a stop
  under systemd is by unit name, so it hits whatever runs then (`ProvesWhatItStops`;
  `systemd_scheduler.rs:313`). A definition file that was written half way stays under its
  final name (`store.rs:80`).
- A library whose domain nests in a builtin's command makes the typed registry fail for
  every command (`BuiltinsRemainAvailable`; `invoke.rs:262`, `docs/reference/plugins.md`).
- Three processes and a crash, or a download longer than the lock's thirty minutes, let
  two processes write one archive (`pgRobbed` in `TakeTurns`; `download.rs:162`). A stale
  lock that cannot be removed is tried again without end, whatever the timeout
  (`download.rs:162-164`). `cleanup` takes no lock (`tool.rs:274`), and a removal that stops
  half-way leaves a version directory with files missing (`cut`).
- GitLab's `PRIVATE-TOKEN` goes along when the client follows a redirect to another host
  (`context.rs:43`); `plugins/ah-plugin-gitlab/src/api.rs:35` and `ah-plugin-sdk/src/http.rs:47`
  say that a token stays with its authority. GitHub's is an `Authorization` header, which the
  client drops.
- The timeout of the blocking client begins anew with every read of a body, so a slow one
  takes `http` past the caller's deadline (`http/io.rs:20`, `84`).
- A case that cannot be interpolated ends `http assert` without the remaining cases
  (`spec.rs:365`, `docs/reference/http.md`). Replaying a curl line with
  `--bearer` still sends curl's own Authorization header (`curl.rs:168`).
- A forge write whose answer is lost is reported as retryable (`typed.rs:387`); closing
  an issue may leave the comment without the close (`commands.rs:210`).
- `ah upgrade` and `ah mcp service` leave no record in the log (`runtime_flow/mod.rs:272`).
  The startup scan takes the value of `--internal-handoff` for a command word
  (`entry.rs:122`).
- A separator inside the value (the padding of a token) makes a text that begins with
  "Bearer" a header, of which only what follows the separator is replaced
  (`ah-redact/src/lib.rs:199`). `SecretTexts` has no such text.
- A root that is spelled by a detour (`a/..`) is another root to `search`, which then lists
  every file twice (`search/io.rs:328`). `ctx pack` packs an entry once for every root it is
  under (`ctx/domain.rs:115`), and `ctx symbols` cuts the symbols of a file without saying
  so (`ctx/domain.rs:357`). `ctx pack` without paths walks the directory of the process, not
  the `--cwd` of the call. `project detect` in a directory that is itself called `target`,
  `build` or the like finds nothing, a nested `package.json` that does not parse fails the
  whole command, and the Xcode rules never match, because such a project is a directory. The
  line counts of a renamed file in `git commit-info` are missing: `--numstat` names it
  otherwise than `diff-tree`. Of an annotated tag `git commit-info` takes the header of the
  tag for part of the hash (`git/domain.rs:372`), and a line of a message that looks like
  one of `--numstat` is counted as one. The version of a `pubspec.yaml` is that of its last
  indented `version:` line, which may be a dependency's, and that of a `pom.xml` its first
  tag, which may be the parent's (`version.rs:119`, `170`).

## Proofs

Eight modules hold theorems, each for every value of the constants that satisfies the
assumptions of the module it extends: any number of calls, jobs, sessions, processes,
definitions or files, and any number of crashes, failures and retries. Where a theorem
states a property of a run, the run shows it on an instance and the theorem for all.

### The executor

`RuntimeProofs` proves about `Executor`, for every finite set of calls, every set
of ids, every assignment of ids to calls, every number of slots and of spare threads
(`ExecutorAssumption`):

| Theorem | Statement |
| --- | --- |
| `Inductive` | `Spec => []IInv` |
| `TypeCorrect` | `Spec => []TypeOK` |
| `SlotsExact` | `Spec => []SlotAccounting` |
| `IdsUnambiguous` | `Spec => []OneLivePerId` |
| `AnswerFirst` | `Spec => []AnsweredBeforeReleased` |
| `CloseIsComplete` | `Spec => []CloseStopsEverything` |
| `AnswersFinal` | `Spec => AnswerIsFinal` |
| `Refinement` | `Spec => ImplementsLifecycle` |
| `CancellationReachesItsOwn` | `FreshIds` implies `Spec => []NoStrayCancellation` |

None of the properties is inductive alone. `IInv` is the conjunction of

- `Shape`, the type invariant without the upper bound on `permits`: that bound only
  follows from the count;
- `SlotAccounting`, which needs `Shape` so that a step moves exactly one call in or
  out of the set of holders (`HoldersStep` turns that into the change of its
  cardinality, with the finite-set theorems);
- `Tracking`: the map and the program counters agree in both directions, from which
  `OneLivePerId` follows and `remove_tracked` removes its own entry;
- `Answering`: the sender is gone exactly when an answer exists, and is gone from
  every call past the select; finality of answers and the refinement rest on it;
- `Copied`: what `cancel` and `close` copied under the lock was registered once, so
  that stopping it later does not touch a call that was never accepted;
- `Closing`: admission is closed before the snapshot of `close` is taken, and
  `CloseStopsEverything`.

Each part has a lemma that every step preserves it, one case per action. `Refinement`
maps the program counter to the phase of the lifecycle (`PhaseOf`), and shows that
registration, deciding, releasing and signalling are the corresponding abstract
steps and all others stutter. `CancellationReachesItsOwn` has a hypothesis: no two calls
share an id. The executor does not enforce it and `executor_ids` runs without it; the
server provides it, because `next_execution_id` only counts up (`IdsBelow` below).

### State files and the log

`SharedFileProofs` proves about `StateStore`, for any threads, processes, cells,
capabilities and number of crashes (`StoreAssumption`):

| Theorem | Statement |
| --- | --- |
| `UpdatesKept` | `StoreSpec => []NoLostUpdate` |
| `CapabilityStoresOnce` | `StoreSpec => []CapabilityOnce` |

`UpdatesKept` rests on `UpdateInv`: the types; `Disciplines`, that neither kind of
store runs the operations or the lock of the other, so that an edit is never made
under a sidecar and a lock is never broken in the vault; `Exclusive`, that a
transaction owns the lock as long as none was intruded upon; and `SeenCurrent`, that
what is about to be renamed is the effect on the document as it is now. An edit is the
exception: it carries what it resolved before, and `EffectLocal` shows that this makes
no difference when nothing outside its cells changed, which is `~overtaken`.

`CapabilityStoresOnce` rests on `FormInv`: `Serialised`, that a submission holds the
mutex of the server from start to answer, so there is one at a time; `Issued`, that a
token drawn now has stored nothing; `Spent`, that a capability which stored is gone or
is about to be removed by the submission that stored; and `Progress`, that a
submission between `inspect` and the rename has a capability that stored nothing. A
crash between rename and `finish` is covered because it takes the capabilities along.

And about `EventLog`, for any writers, processes, days and retention (`LogAssumption`;
0 stands for a newline and for a free lock and is therefore no writer):

| Theorem | Statement |
| --- | --- |
| `LogStaysIntact` | `LogSpec => []LogIntact` |

`LogIntact` is the part of `LogSound` about the file: two records share a line only after a
writer that died or failed, and a record reported as written is there as long as retention
keeps it. `LogInv`: `LockInv`, that exactly the writer between its text and its newline
holds the lock of the file that still is the log of its day; `TextInv`, that a line
without its newline is the last one and of such a writer, or of one that died or failed;
`SweepInv` and `FreshInv`, that a writer removes only what was past retention on its own
day, so that a log within retention is the first of its name although a writer of
yesterday may still be sweeping; and `WrittenInv`, which these carry through a removal.

### Jobs

| Theorem | Statement |
| --- | --- |
| `RecordsKept` | `JobSpec => []RecordsSound` |
| `ResultsRepeatable` | `JobSpec => TerminalIsStable` |
| `WithinLifecycle` | `JobSpec => LifecycleSpec`: the registry uses the executor only as `ExecutionLifecycle` allows |

`JobInv` says of each execution where `job_start`, the completion task and `job_cancel`
are with it and whether its record must be there (`Progress`), of each record that what it
tells was decided and that it counts as completed only when its task is done (`RecordOK`),
and that the map is within its capacity. That eviction takes only completed records
(`Shrinks`) needs the oldest record to exist, which is a least element of a set of numbers
(`LeastNat`). These are in `ServerProcessProofs`.

### Shutdown and child processes

| Theorem | Statement |
| --- | --- |
| `ShutdownIsClean` | `ShutdownSpec => ExitIsClean` |
| `NothingSurvives` | `ChildSpec => []NoSurvivors` |
| `CaptureIsExact` | `ChildSpec => []CaptureExact` |

`ShutdownInv`: `StartedInv`, whoever is past the start has set it, and the executor is closed
by whoever has come that far, or by the one a controller let through; `GraceInv`, a waiter
knows the start or will be woken, and no wait ends later than the grace period does;
`QueueInv`, what was accepted is what was recorded followed by what is queued, wherever in
the queue the flush stands. `NamesAssumption` only keeps the
names the model gives to the main task and to the flush apart from triggers and calls.

`ChildInv`: `GroupInv`, the root is in the group from its birth, and once the caller waits
for what it killed nothing in the group runs and nothing can join it, because only a running
root starts a process; `PipeInv`, what is captured is what is to be kept of the bytes read so
far, and a reader that has finished has read everything. A reader keeps the first or the
last bytes chunk by chunk, so the proof rests on lemmas about what is kept of a sequence
when more is read.

### Sessions and catalog

| Theorem | Statement |
| --- | --- |
| `McpTypeCorrect` | `McpSpec => []McpTypeOK` |
| `CancellationExact` | `McpSpec => []CancelsOnlyNamed` |
| `CatalogTold` | `McpSpec => CatalogSound` |

`McpInv` adds to the types that ids are handed out once and stay with the session and
protocol id they were given to (`IdsBelow`, `IdsOwned`), that outside the write lock the
disabled domains are those of the revision (`LockInv`), that a build about to be published
is of one revision although its pieces were read at different moments (`BuildInv`), and how
far a refresh has come towards what its request must see (`FreshInv`). The bound on
revisions is in the invariant because the settings mutex, held from the update of the stored
set to the end of the handler, is what lets only one revision be raised at a time
(`BoundInv`). Each action has a lemma that says what it does to the record of its request,
field by field (`KeepsCall`, `KeepsReading`, `Others`, ...); the proofs that follow read
those and never expand an `EXCEPT` again.

### Managed service

| Theorem | Statement |
| --- | --- |
| `ServiceTypeCorrect` | `Spec => []ServiceTypeOK` |
| `RemovalIsSafe` | `Spec => []RemovalSafe` |
| `CommandsAreExact` | `Spec => CommandsExact` |

`ServiceInv` has twelve parts. `IndexInv` carries the first half of `RemovalSafe`: where an
install is between definition, registration and pointer, both name something readable.
`LeaseInv` carries the second: from the proof that the service is stopped to the last file
removed, the command itself holds the instance lease, so no runner can be alive. `DocInv`
says that a runtime document, on disk or as the command read it, is true of its runner for
as long as that runs, and that a process id is not used again by another definition;
`AimInv` and `ReadyInv` turn this into what a stop is about to reach and what a start has
named, `MarkInv` into "newer than the command". The remaining parts are what these need:
which command is at which point, which fields of a process go together, which definitions
exist.

The state of a command is a record with nineteen fields, and the state of a process one
with seven, so the proof is in two layers. The effect lemmas say of every action which
fields it changes (`Only(F)` for the command, `Alike(n, F)` for a process) and what to.
All steps of a process are summarised in one relation (`Turn`: queue, boot, retry, lease,
start, serve, drain, end), and what they do to instance ids and definitions in another
(`Evolves`). The preservation lemmas, one per part, use only these.

### Registration and agents

| Theorem | Statement |
| --- | --- |
| `RegistrationIsSafe` | `RegistrationSpec => []RegistrationSafe` |
| `InstalledMeansSo` | `"append" \notin UnitEdits` implies `RegistrationSpec => InstalledIsSo` |
| `InstallIsHonest` | `OneBlock` of every first rules file implies `AgentSpec => []InstallHonest` |
| `SettingsAreKept` | `AgentSpec => [][SettingsStay]_agentVars` |

Also in `ServiceProofs`. `RegistrationInv` adds to the types what a command may rely on at
each of its points whatever users do meanwhile (`CommandInv`): that the definition it is
about to register is whole, and that what it has read, or registered, is the only
configuration a marker can name, so that cleaning up the other definitions is safe.
`StatusInv` is for the second theorem: what a status nothing disturbed has seen is what is
there, and the unit file and the manager's copy have each of their three lines once
(`Whole`). The hypothesis excludes the edit for which the theorem is false: an appended
assignment is read by the manager and not by the comparison (see Findings). `GensAssumption`
keeps configurations apart from the marks of an absent, edited or empty one.

`AgentInv` follows a run through its stages: `RunKeeps`, while the old registration is gone
from an agent that had one the run knows it and can give it back; `RunReports`, each part of
the report is so from the stage that made it so, through whatever edits come. `RulesInv`
follows the rules file: it has one block at most (`OneBlock`), the draft that is about to
be written is the text without its block and with the new one, and what is done is in the
file. The hypothesis is about the file the first run finds: `strip` takes one block, and of
a file with two uninstall would leave the second. `RestInv` says that a document about to be
stored has the settings of the one on disk but for the edits counted since it was read, and
whatever is no object unless `merge` displaces it. `AgentAssumption` has the requests the command
line can produce, agents with at least one document, and a rendered block that is not itself
a marker.

### Update transaction

| Theorem | Statement |
| --- | --- |
| `JournalTruthful` | `Spec => [](TypeOK /\ AllOrNothing)` |
| `ForeignSafe` | `Spec => ForeignKept` |
| `TransactionAtomic` | `Spec => ImplementsAtomicInstall` |

For every plan (a sequence of added, replaced and removed paths), every subset of the
points at which the process may be interrupted, every number of crashes, failures and
foreign files. `TransactionInv`: `PhaseInv` and `PlaceInv`, that journal, program counter,
loop position and sequence number agree, also right after a crash; `ReadyInv`, that a
complete temporary holds what the step installs and the step is still needed; `FilesInv`,
what the loops have done up to their position, in both directions; and `TempInv`, that a
temporary belongs to a step that has not ended or lies where rollback looks for it.
`TransactionAtomic` maps the journal to `AtomicInstall`: the rename that makes it
"committed" is the abstract `Commit`; the directory appearing and being dropped are `Open`
and `Close`, the moves of files and of the record are `Mutate`, everything else stutters.

### Updater client

| Theorem | Statement |
| --- | --- |
| `HandoverExclusive` | `ClientSpec => [](HandedOverWithoutGap /\ BindingSound)` |
| `TransactionKept` | `ClientSpec => HelperKeepsTransaction` |
| `HandoverKept` | `FinalizeCrash = FALSE` implies `ClientSpec => []HandoverSound` |

`LeaseInv`: everybody in the critical section has an open handle of the lease, and all open
handles are those of one `ah` and its helper. `HelperInv`: one helper at a time, with its
copy on disk. `TransInv`: which transactions can exist where somebody works, in particular
one that has started and is the one everybody works on. `AdoptionInv` is the persist lock
around the first binding. `ServiceInv`, for the third theorem, says that a service the
update has stopped, knowing that it ran, and nobody has tried to start again is remembered
by a transaction, or by the helper that has just removed it and is about to start the
service. That helper is the exception: with `FinalizeCrash = TRUE` it may die there, crashed
or terminated after a failed acknowledgement, and the theorem is false (see Findings). The
hypothesis excludes exactly this window and nothing else; the first two theorems hold
without it.

### Update helper and releases

| Theorem | Statement |
| --- | --- |
| `OnlyOwnKilled` | `QuietSpec => []KillsOnlyOwn` |
| `BackupKept` | `BackupSpec => []RollbackTargetKept` |
| `ReleasePathIsSound` | `PathSpec => []ReleasePathSound` |

`QuietInv`: pid and start time together name a process for ever, so what was classified as
the installation's own still is, if it is still there, and only such are terminated.
`BackupInv`: the three directories are in one of three shapes (`ShapeStaging`,
`ShapeAside`, `ShapePublished`), and each step of a promotion, also one taken up again
after a death, knows which. These are in `UpdatePathProofs`.

`DiscoveryInv`, for listings of any length and any releases published between two pages: a
release that was there from the beginning has been collected or stands after the pages read
so far, because new ones are put in front and only push it back. `ArtifactInv` follows the
tool to its signature (`ToolInv`: what is signed describes the staged archives, and these
were accepted) and the updater from there to the candidate (`TakeInv`: from the verified
manifest on everything is this release's, for this target, and what is extracted so far is
the archive but for what is left).
`DiscoveryAssumption` and `ArtifactAssumption` are the types of listings and archives.

### Plugins

| Theorem | Statement |
| --- | --- |
| `DispatchIsSound` | `HostSpec => []DispatchSound` |
| `RunsAreAsAsked` | `PgSpec => []RunsAsAsked` |
| `ToolIsSound` | `PgSpec => []ToolSound` |
| `AssertIsSound` | `HttpSpec => []AssertSound` |
| `TokensGoWhereAllowed` | `ForgeSpec => []TokenWhereAllowed` |
| `WaitsAreHonest` | `ForgeSpec => []WaitAsAnswered` |

Also in `RuntimeProofs`. `HostInv`, for any directories, libraries, builtins and calls: of the
libraries loaded so far the last sound one has its domain (`DiscoveryInv`), the registry that
is kept is the one that would be built (`RegistryInv`), and a call under way carries the
plugin, the verdict on its domain and the secrets as resolved, whatever the settings and the
vault do meanwhile (`CallsInv`). `PluginAssumption` says that builtins are filed under their
own domain and that two libraries of a directory have different file names.

`CommandsInv`: what a postgres command has opened and used so far follows from its
arguments. It needs no assumption on the others. `DownloadInv` is about the cache,
for any number of processes and crashes, slow downloads, and removals that fail or stop
half-way: `TurnInv`, whoever downloads a version has its lock unless that was removed under a
live download, which `pgRobbed` records; `ContentInv`, what a download unpacks is what it has
compared. That downloads take turns is false of such a version (see Findings), and the
property claims nothing of its directory.

`HttpInv` ties the log of attempts to the place of the command: at most as many attempts of a
case as it has used, all but the last with an outcome that may be retried (`RetryInv`), each
begun before the deadline and answered within it, each made with values of cases that
passed (`OriginInv`), verdicts about the last attempt of each
case (`VerdictInv`). `HttpAssumption` has what the parsers of arguments and spec files accept.

`ForgeTokenInv`: a token is bound to the authority of the API URL when it is resolved
(`TokenBound`), and `Authorization::apply` compares; of the hops of a redirect the theorem
speaks for GitHub's only. `WaitInv`: a wait probes and sleeps only while its time is not
over, and its first probe only is free of that. The rest of `ForgeSound` is about filters
over pages and lines and stays with TLC.

### Only model-checked

Whatever needs fairness or `ENABLED`, which the prover does not handle: `SlotReclaimed`,
`ServerEnds`, `Recovers`, `UpdateWaitsEnd`, `WaitsEnd`, and the liveness expectation
`LaterCommandReconciles`.

What is about the result of a scan, a filter or a fold for every input, which is an
induction over data: `LineSound` (several readers of the same words agree), `ReadersSound`
(walks and parsers, two of them recursive operators), of `LogSound` the parts
`NothingSecretLogged` and `GateAgrees` (passes that call each other over nested values), of
`ForgeSound` the parts `WritesAsAnswered`, `ListingWhole` and `LogAsAnswered` (`SelectSeq`
over pages and lines), and of `UserTextKept` the words of the rules file (also a
`SelectSeq`).

## Plan

1. Done: all components with state of their own are modelled and checked, and every safety
   property of a run is proved, apart from those, or the parts of those, listed above.
2. Left for later: the mapping of typed results to MCP content, HTTP header policy, and
   a module of pure algorithms (JSON path, suggestions, bounded walks) against
   reference definitions.

## Not modelled

Text, formats and layout throughout; cryptography, which works or fails; time
except as clocks that may pass a limit; the network except as answers that may not
come. Power failure is not distinguished from a crash of the process: the code
syncs files before it renames them. Redirects of the updater's and the http domain's own
client, drop-in files of systemd units, and
environment blocks and quoting of child processes are left out, and so are regular
expressions, the parsing of symbols and byte limits of texts. The ollama plugin sends one
request per command. `PROJECT.json` gives the reason for each
component that has no module.
