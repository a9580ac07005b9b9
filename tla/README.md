# Personas & Agentes: formal models

TLA+ modules for the parts of Personas & Agentes whose correctness depends on
order, failure and concurrency, the TLC configurations that check them on small
instances, and TLAPS proofs of the properties that matter most for every
instance. Every definition is translated from the code; `PROJECT.json` gives the
lines each one stands for, the runs, the faulty variants that show each property
can fail, the disagreements found between code and text, and the hazards the
properties are for.

Run inside this directory:

    tlasany TaskDispatch.tla
    tlc -workers 2 -config TaskDispatch.cfg TaskDispatch
    tlapm TaskDispatchProofs.tla

Contents: 1 the system, 2 the modules, 3 the runs, 4 fairness, 5 the proofs,
6 what the code does not do, 7 what is not modelled, 8 plan.

## 1. The system

Personas & Agentes is a TypeScript (Bun) application with a native side. A
*PSA micro-kernel* (`src_local/psa`) loads plugins that register tools, runs
agent turns that stream reasoning, text and tool calls to an HTTP client, and
asks an operator before an exclusive tool runs. An older half
(`src_local/core`, `src_local/engines`) audits a project: daemons watch files,
queue work, diagnose, score and repair. Both use a Go *hub*
(`src_native/hub`) over gRPC, which keeps the tasks and delegates analysis and
inference to a Rust *sidecar* (`src_native/analyzer`) or to its command line.

The TypeScript side runs on one thread, so its interleavings are those of
awaits, timers and callbacks. The hub is goroutines over channels, a mutex and
SQLite; the sidecar is threads over one lock.

| Component | State it keeps | Operations | Talks to | What is hard |
|---|---|---|---|---|
| Worker pool, sentinel daemon | queue, counter, flags, watcher | enqueue, start, stop, end of a task, file event | file system | ends and stops while others are queued, a watch that fails |
| Plugin kernel | plugins, tools of each | use, register, remove, reload, load | tool registry, server | registrations that overlap, an `apply` or teardown that throws |
| Agent loop, approval manager, server | turns, pending approvals, timers, log | a turn's steps, approve, disconnect, time out | tools, model, HTTP client | answers that race timers, ids drawn from the clock |
| Task queue, worker, hub table, reflex engine | rows and their status, loop flags, counter | enqueue, poll, run, report, pause, stop | hub, generators | lost and reordered updates, restarts, what changes during a poll |
| Hub client, handlers, sidecar | circuit status, calls in flight, the brain's lock | every method | each other, command line | breaker shared by all callers, retries under one deadline, deaths of either process |
| Boot and shutdown | child processes, ports | check, clean, spawn, poll, kill | operating system, breaker | the breaker opens during the boot, hubs of other processes |
| Broadcast, watchers, parity daemon | clients, channels, backlog | broadcast, join, leave, compare | file system to daemons | stalled clients, changes during a comparison |
| Protocol code | none | create, write, read, call | hub of the same, an older or a newer build | defaults, widths, unknown fields |
| Audit engine, hash cache, stability ledger | two files and every process's copies | audit, persist, repair, file event | other processes | edits between hash and audit, whole-file writes, deaths between two writes |
| Auto-heal | file, backup | plan, patch, validate, revert | language model | repairs of the same file share its backup |
| Health score | none of its own | score by hub or by engine | pipeline | two implementations, boundaries and roundings |
| Test engine, documentation | tests on disk, tasks | plan, generate, gate, write, verify | model, developer | tasks on the same file, edits between read and write |
| Tool plugins | processes, terminals, buffers, skill cache | exec, create, send, read, kill, edit, scan | operating system, user | limits racing ends, background jobs, names used again |
| Session service and its index | a file per session, counters, SQLite rows | create, append, history, fork, sync | agent loop, plugins | torn writes, restarts |
| Analyzer's cache | one JSON file | analyze, fingerprint | other processes | whole-file writes by processes that do not lock |
| Warm-Purge engine | process handle, loaded model, timer | stream, boot, purge | `llama-server` | overlapping streams, slow boots, abandoned generators |
| Resource budget and its followers | snapshot, mode, timer, listeners, ring of events | sample, start, stop, throttle, poll | event bus, native watcher | a bus that is emptied, a full ring, roundings at the borders of modes |
| Database hub and its users | the one connection, calls under retry, a cache of stacks | get an instance, close, execute, remember, list | other processes' locks, directories that fail a probe | a hub closed under its holders, retries that overtake, writes nobody awaits |
| Micro-agents | count of executions, cache of modules | execute, purge | resource budget | a purge between two awaits of an execution, binaries that fail |
| Validation phase | findings, queue of processes | verify, run tests, judge | `bun`, `zig` | processes that fail or do not start, verdicts read out of text |
| Kernel event bus | lists of handlers, hooks | on, off, emit, waterfall | plugins | handlers that change during an emission, hooks that skip or repeat `next` |
| Coverage report | its own file | detect, match personas, write | file system | the report is among the files it is made from |

Components that are not modelled are in section 7.

## 2. The modules

| Module | Models | Notes |
|---|---|---|
| `JobPool` | what a bounded job pool promises: accepted jobs run, once, at most so many at a time | abstract |
| `TaskWorkerPool`, `SentinelDaemon`, `MCSentinel` | `task_worker_pool.ts`, `sentinel_daemon.ts` | refines `JobPool`; the daemon extends the pool |
| `PluginKernel`, `MCPluginKernel`, `PluginKernelProofs` | `psa_plugin.ts`, `psa_plugin_loader.ts`, `PsaContext.use`, the registry and the reload endpoint | the instance has the sessions and the vault too, one part per behavior |
| `AgentTurns` | `psa_agent_loop.ts`, `psa_approval_manager.ts`, `executeTool`, the server's turn endpoints | four classes that share the turn |
| `TaskDispatch`, `TaskDispatchProofs` | `TaskQueue`, `TaskWorker`, the hub's `ai_tasks`, `ReflexEngine` | over a lossy, reordering channel |
| `CircuitBreaker` | `_call` of `hub_manager_grpc.ts` | extended by the next two |
| `HubCalls` | every method of the client, the Go handlers, the sidecar's handlers and lock | |
| `HubBoot` | `system_manager.ts`, the orchestrator's wait for the hub | |
| `HubProofs` | | proofs about the last three and `HubWire` |
| `LossyFanout` | a subscriber gets messages once, in order, since it joined, maybe not all | abstract |
| `ChangeWatch`, `ChangeWatchProofs` | watcher, sentinel, broadcaster and streams of the hub; `HubWatcher`; `ParityDaemon` | refines `LossyFanout` |
| `HubWire` | `hub.ts`, `hub.client.ts`: every message and method | the messages tried are a constant (`Samples`) |
| `AuditState`, `MCAuditState` | `AuditEngine`, `CacheManager`, `StabilityLedger` and everybody who writes their files | |
| `AutoHeal` | `Healer`, `PatchManager`, the pipeline's wait | |
| `HealthScore` | `score_calculator.rs`, `ScoringEngine`, `HealthSynthesizer` | |
| `TestFactory` | `test_engine.ts`, the test auditor, the task processor's documentation | |
| `WorkerProofs` | | proofs about the pool and about `TestFactory` |
| `ToolProcesses`, `ToolFiles` | shell, terminal, file and skill plugins | |
| `SessionLog`, `SessionIndex` | `psa_session_service.ts`, `SqliteStoragePlugin` | the index extends the log |
| `AnalyzerCache` | `cache.rs`, the two requests that use it | |
| `DatabaseVault` | `database_hub.ts`, `rememberFinding`, `loadAllStacks` | |
| `WarmPurge` | `warm_purge_offline_engine.ts` and the processes it starts | |
| `ResourceBudget` | `sovereign_resource_budget.ts`, `zig_file_watcher_bridge.ts`, the linger window, `resetBus` | |
| `WasmAgents` | `wasm_micro_agent_runtime.ts` | |
| `RuntimeProofs` | | proofs about the last three |
| `TestValidation` | `test_runner.ts`, `qa_diagnostics_service.ts`, `runTargetedVerification`, `validator.ts` | |
| `PsaEvents` | `psa_events.ts` | |
| `Selection` | `Array.prototype.filter`, of arrays of any length | of the last and of `SessionLog` |
| `AgentProofs` | | proofs about turns, tools' processes and files, session files and their index, kernel events |
| `IntelligenceCoverage` | `intelligence_control_engine.ts` | |
| `Reports` | | what the last and `TestValidation` say together |
| `DiagnosisProofs` | | proofs about what a diagnosis says and leaves on disk: `AuditState`, `AutoHeal`, `AnalyzerCache`, `DatabaseVault`, `TestValidation`, `IntelligenceCoverage`, `HealthScore` |
| `MCStandalone` | instance of the modules that share no state | one component per behavior |

State and actions follow the code's names. An action of a TypeScript module is
what runs between two awaits: it examines what the code examines after its await
and performs every assignment up to the next one. A definition whose comment
begins with *Faulty* is no part of the model: it is the form a plausible bug
would give the definition after it, used to show that a property notices.
History variables are marked as such where they are declared; they record what
has happened for a property and guard nothing.

**TaskWorkerPool, SentinelDaemon.** `queue`, `activeWorkers`, `isRunning` are the
fields; `running` is the set of executions in flight, which settle in any order.
`Enqueue` puts a CRITICAL task first and any other last. `ProcessNext` is the
code up to its one await: it takes the head of the queue if the pool runs and has
room, and its callers run it once each. `watch()` may fail: the flag then stays
set without a watcher. The daemon enqueues HIGH tasks alone; whoever else owns a
pool, as the tests do, may call the class with any priority, so that `MCSentinel`
lets either have it. CRITICAL tasks are part of the pool's interface that nobody
under `src/` uses today: what is checked of them is what the class promises.

**PluginKernel.** A registration is an operation suspended at `await apply`, so
two overlap; `register` credits a plugin with the difference of two listings of
the tools, one before the await and one after. `awaited` tells the two ways to
boot apart: `loadFromDirectory` awaits each registration, the `ctx.use` chains of
the server and of the CLI none, and the registrations of their plugins surround one
another. `inside` records who entered its tools inside whose registration: those
tools are credited to that other one too, and `robbed` records who has lost them
since by its removal. `overlapped` records that a request began while another was
suspended.

**AgentTurns.** A turn is suspended at each `yield` and each `await`. The
approval map is keyed by call id, which is a millisecond clock's value, so two
turns may draw the same one (`OwnCallId` says that one did not). A timer removes
the entry of its key, whoever owns it. The client may leave at a `yield`; tools
and the model may throw; the operator answers any id, at any time.

**TaskDispatch.** A loop asks for as many PENDING rows as its budget allows and
starts a task per row without claiming it. `updates` is a bag of status updates
nobody awaits. `Pass` is the loop's body up to its first await. What the worker
was given is a variable: whether it has an orchestrator, and which rows reach it
with a `task_type` it knows. Those of the gRPC client carry `taskType`, so they are
none of these: such a row is reported COMPLETED and no generator is called; only a
queue that is registered as a service may hand over others. Without an orchestrator
every row is reported FAILED. A diagnosis begins by taking the worker's listeners off
the bus (`BeginDiagnosis`), so that the halt it may emit at its end (`EndDiagnosis`)
is heard only by a worker that was built while it ran.

**CircuitBreaker, HubCalls, HubBoot.** Callers are concurrent; time is "the
cooldown since the last failure is over". `HubCalls` replaces "the hub answers"
by the way of a call: handler, sidecar or command line, `withRetry` under one
deadline of 30 s, the sidecar's first-come read-write lock. What a method
computes is left out; which path it takes is not, so methods are grouped by
path (`Direct`, `Retried`, `Degrading`, `Streamed`, `Thinkers`, ...). `HubBoot`
counts seconds (`age`), with the code's numbers: 15 polls, 5 waits, threshold 5,
cooldown 30.

**ChangeWatch.** One unbuffered channel, senders that wait, a broadcaster that
skips clients without room. `made` is the channel's existence: it is made inside
the broadcaster's goroutine, and a send before that blocks for ever.
`processBacklog` of the daemon runs to its await in one step.

**HubWire.** A message type is the sequence of the kinds of its fields, a
message a sequence of values, its bytes a sequence of numbered entries. Writing
leaves out defaults; reading fills them in, splits packed values and skips what
it does not know. Messages are in messages two levels deep (`ProcessInfo` in
`HealthUpdate` in `StatusResponse`), so the writer is `Pack` on three levels and the
reader `Unpack`, without recursion on types: a reader first keeps the bytes of a
message in a message, and of one that comes in two parts the bytes of both, which
is what reading the second part into the first comes to. The hub may have been
built from another `hub.proto`.

**AuditState.** Every process has copies of two files it read when it was built
and writes them whole. A file is hashed in one step and audited in a later one,
and edited at any time. `excused` is the set of files to which one of four
accidents happened (edited between hash and audit, an audit that nobody answered, a
death in a write, an older copy written over a newer one): the exact conditions
under which the ledger may lack a flaw the cache hides. Nobody answers when the hub
manager is missing, the circuit is open, the hub fails or answers nothing, or the
file is gone or in an ignored directory: the auditor then reports no findings, and
the hash is kept all the same.

**AutoHeal.** A text is who wrote it and which issues it has. `Patch` is
everything `applyAndValidate` does without an await. A process may die in any
step, inside a patch too: after the rename, or in the write.

**HealthScore.** Points are counted in 60ths and hundredths, with each
implementation's own roundings. Of a file's metrics only the complexity arrives:
the others are read under names nobody writes.

**TestFactory.** The graph of imports, the plan, the gate, and tasks that write
and run tests concurrently. What the model answers is one of a few texts,
described by what gate and auditor look at. `raced`, `crowded` and `healed`
record edits made while a file was being documented, tests two tasks worked on
at once, and tests written by a repair.

**ToolProcesses, ToolFiles.** Processes write, end and leave background jobs
that hold their pipes; Node's events follow in the order Node gives them. An
edit works on sequences of characters because places that overlap, `$` patterns
and CRLF are what can go wrong.

**SessionLog, SessionIndex.** A file is a sequence of lines plus how the last
one ends. A failed write leaves nothing, the line without its newline, or a
fragment; the next is glued to it, and what does not parse is skipped. `acked`
records the events whose `append` returned. The index is filled by a sync that
reads every file, passes over an insertion that throws (`lost`) and dies between two
files. It reads the workspace's directory, and the sessions may be in another
(`SyncElsewhere`).

**AnalyzerCache.** A text stands for its hash. Each process loads the whole
file, computes, truncates the file and writes its own copy back.

**DatabaseVault.** `connections` are the hubs there have been; a user keeps the
one it was given, which `getInstance` closes for everybody when a caller resolves
to another vault (`resolveDbPath`: the project's, or the user's when the probe of
the directory fails). A statement meets another process's write lock, or fails for
any other reason, which ends its call. Whoever keeps a hub may close it: that forgets
the instance, even another one, which stays open (`forgotten`). `turn` is the order
of first tries: a write that met the lock is tried again after writes that came
later. The constructor throws where it needs the
lock, after the old instance is closed. Only vaults in `WithInsights` have the
table findings go to, since nobody makes it in the fallback.

**WarmPurge.** `stream` holds the place of each call of
`streamChatCompletion`. A process that finds the port taken exits; a model loads
in time or later. `disorder` records the three things after which the engine
loses track: streams that overlapped, a server that was not ready in 20 s
(`late`), a generator its consumer abandoned (`left`).

**ResourceBudget.** `usage` is the last snapshot, from which score, mode and
configuration are operators with the code's weights and roundings. `hears` is
the bus's list for `resource:mode_changed`; `resetBus` empties it, as every
diagnosis does. `native` says whether the watcher has its ring, which gives up
its oldest path and takes none of 256 bytes or more (`Unfit`), or the list it falls
back to; a path with accents is cut, since its length in characters is passed as its
length in bytes. A root of 512 bytes or more starts no thread and leaves the ring as
it is. `told` has the mode each follower heard last.

**WasmAgents.** `execution` holds the place of each call, `active` the counter.
A payload is the set of marks the emulations look for, so that "more code" is a
larger set.

**TestValidation.** A diagnosis verifies the changed files (`toVerify`), then
runs the processes of the plan (`queue`) and reads each one's output. `BunEnds`,
`ZigEnds` and `BuildEnds` are the ways a process may end, with the numbers its
output has first: the tests' own text may supply them.

**PsaEvents.** `lists` has every array of handlers there has been and `current`
the one in the map, because `on` appends to an array and `off` replaces it.
`stack` is the nesting of `runWaterfall`, whose one index all hooks share.

**IntelligenceCoverage.** A file is the words of the catalog it contains. The
report is a file too, whose words are the names, patterns and evidence written
into it.

## 3. What the runs show

Runs that pass (seconds to three minutes on two cores):

| Run | Bounds | What it shows |
|---|---|---|
| `sentinel` | 2 ids, limit 2, 5 file events of the daemon or 4 calls of another owner | the pool's count is exact, nothing is stranded, CRITICAL starts first and the rest in order, across stop, restart and a failed watch; a reported change is audited; the pool implements `JobPool` |
| `plugin_kernel` | 4 plugins with 5 tools, one with a teardown, one that throws, 4 requests, 2 at a time; the stores below | after either kind of boot, whatever overlaps: a plugin is credited with another's tools only where that one registered inside its registration, and loses its own only to the removal of such a one; until requests overlap, only an un-awaited boot makes such pairs |
| `agent_turns` | 2 turns, 2 call ids that may be equal | no exclusive tool runs without a yes under its id; a turn with an id of its own ends, and is decided by the answer to its own prompt |
| `task_dispatch` | 2 rows that reach the worker with their type or not, with and without orchestrator, limit 2, one loop, 1 loss, 2 runs of a row | the limit holds; a row that is COMPLETED or FAILED has a cause for it, whatever it is; a pending row is taken in spite of losses |
| `hub_calls` | 2 callers, threshold 2, 2 attempts, one method of each path | the brain's lock is only waited for and held by live calls or an inference nobody waits for; nothing is sent while the breaker is hot; calls with a deadline end behind an inference that does not; the circuit closes when failures end |
| `hub_boot` | the code's numbers, one other caller | the boot ends, ready or degraded; a hub it started that is up before the breaker has counted its threshold is found |
| `change_watch` | 1 file, 3 edits, 1 other message, a page with a buffer of 1 that joins twice | clients get messages once, in order and since they joined, whatever their pace; a file in the backlog always has a comparison or a timer that comes back for it, and is compared |
| `audit_state` | 2 processes, 2 files, one that is no agent and begins with a flaw, 1 edit, 1 death, throw or audit without answer | no text is skipped that no audit has come to; a flaw the cache hides is in the ledger unless an accident excuses the file |
| `warm_purge` | 2 streams, 2 models, 2 processes, 1 crash | until streams overlap or a model is late no process is orphaned; until streams overlap no purge cuts one off; every request ends, always |
| `standalone` | see `MCStandalone` | the questions below, one component at a time |

`standalone` puts the components that share no state into one model; each
behavior is of one of them, and the variables of the others stay. The sessions and
the vault, which the plugins open, are in `plugin_kernel` in the same way. A
property of several parts is the conjunction of those named after it.

| Component | Properties | Bounds |
|---|---|---|
| `HubWire` | `ReadsWhatWasSent`: every method reaches its handler, every value its reader, whichever build of the protocol the hub has | every method, values at the edges of their types |
| `HealthScore` | `ScoreIsFair`. `WorseNeverHelps`: no bad news raises either score; `SevereNeverHealthy`: a high alert is never HEALTHY, but for the engine's total of 0 | 2 files, seven high alerts and six medium ones, past the last ceiling and the total of 0 |
| `TestFactory` | `TestsTrusted`. `AuditorAgrees`: what the gate accepts the auditor does not call a smoke test where three assertions are asked, nor asks for again where five are; `VerifiedTestsPass`: a task that had its test for itself and reports success leaves one that passes; `EditsKept`: documentation loses an edit only between its read and its write | 5 files that import each other, 5 answers, 2 workers, 2 plans, 2 tasks |
| `AutoHeal` | `NothingLost`: of every file a whole text is in its place or its backup | 3 repairs of 2 files |
| `ToolProcesses` | `ToolsAnswerTruly`. `NothingForgotten`: a command has a timer or has ended, a terminal's shell a name or a signal; `ResultIsTrue`: the answer has the beginning of each stream, says when it was cut, and says 0 only if the command did | a stream cut twice; two shells under one name |
| `ToolFiles` | `FilesAnswerTruly`. `EditIsExact`: an edit replaces the one place there is; `SkillsFound`: a skill is what the last scan saw in the last file of its name | texts of 3 or 4 characters, 3 spots, 3 versions |
| `SessionLog`, `SessionIndex` | `HistoryKept`: the history is the log, short of one event per failed write, and a fork's is a prefix of its parent's; `SyncIsComplete`: a sync of their directory leaves out only events whose number was used before and those whose last insertion failed | 2 sessions, 3 events, a torn write, a restart, 2 syncs, one failed insertion in each |
| `AnalyzerCache` | `StaleOnlyByTheOther`: a result of another text is given only where a result of the other kind has renewed the hash | 2 processes, 2 files (one that is not parsed), 2 texts, 3 requests |
| `ResourceBudget` | `BudgetFollowed`. `FollowsTheMode`: who is on the bus has the mode's interval, who was taken off it the one of that moment; `PolledInOrder`: a poll gives what the queue takes of what was reported, in order, all of it or the newest that the ring holds | one machine, 2 loads, a ring of 2, 3 events, paths that are cut and that do not fit |
| `WasmAgents` | `AgentsAnswer`. `NobodyWaits`: no execution is refused for want of a place; `MoreCodeHidesNothing`: what a part of the payload deserves the whole gets | 2 executions, limits 1 and 3, a purge |
| `DatabaseVault` | `VaultKeepsItsWord`. `OneConnection`: every hub is closed but the instance and those forgotten by the close of another; `AppliedOnce`: a write is in one vault, once, and its call was told so; `LostForAReason`: a finding that is rejected was tried to the end, or its hub was closed, or its vault has no table for it; `PassedAtALock`: writes pass one another only at a lock; `AnswersWereStored`: a listing that answers stacks answers what one has stored | a root's vault and the user's, 2 connections, 2 tries, a finding, 2 listings, 2 editions |
| `TestValidation` | in `ReportsAreTrue`: `RunIsJudged`. `SuccessIsEarned`: a run reported successful had every process end well; `FailureIsReal`: one reported failed has a process that failed or printed the words of a failure; `RateIsBounded`: the rate is a percentage unless a native process did not start or the native suite failed | 7 lists of findings, up to the nine after which one more asks for the whole suite; 2 lists of changes |
| `PsaEvents` | `BusDelivers`. `EveryoneIsTold`: an emission reaches who was subscribed when it began; `HooksDecide`: a hook that does not call `next` prevents | 2 handlers, 3 subscriptions, 2 replaced lists, 2 emissions; 2 hooks, 3 registrations, 2 calls of `next` |
| `IntelligenceCoverage` | in `ReportsAreTrue`: `CoverageIsTrue`: a report misses nothing the files show, and only three technologies can live on in it by being in it | 8 files, 3 texts, 2 rewrites |

Runs that must be found violated, each against a sentence of the repository
(quoted under `findings` in `PROJECT.json`):

| Run | What the code does |
|---|---|
| `heal_confirmed` | the audit that validates a repair is given no map of files and reads none: every patch is confirmed, fixed or not |
| `analyzer_cache` | set_analysis and set_fingerprint renew the hash of an entry and keep its other result, which is then given for a text it was not computed from |

**Why the bounds are enough.** The hazards are between two parties: two turns,
two registrations, two streams, two processes over one file, a task that ends
while another is queued. Where a third plays a part it is there: three plugins
let one be credited with another's tools while a third is reloaded; three repairs
let two share a file while the third has its own; the hub's paths are all
present, because an inference of one kind holds up a read of another.
Processes of the warm engine are two, one it knows and one it lost. Counters are
capped only where they count external events (edits, losses, crashes,
restarts); each cap is a named constant that appears in a guard. Limits are 2, the least
at which "below", "at" and "above" differ, except in `hub_boot`, where the
numbers are the question. What the limits could hide for larger values is what
the proofs are for. `CHECK_DEADLOCK FALSE` stands where caps use up the steps.

**Symmetry** is used for the requests of `plugin_kernel` and the processes of
`audit_state`, which check invariants and step properties only. The other runs
use none.

## 4. Fairness

* `sentinel`: weak fairness of a task's end: `executeTask` awaits an audit that
  ends or throws, and both reach `finally`. Starting is not fair.
* `agent_turns`: weak fairness of each turn's next step and of each timer. The
  event loop resumes a generator whose value is consumed, and a client that
  leaves is a step too. The operator is not fair: that is what the 60 s are for.
* `task_dispatch`: each loop goes on (timer, answered poll), some update
  arrives, some generator ends. Losses are bounded; they, diagnoses, stops,
  starts and the event that lifts a pause are not fair.
* `warm_purge`: a suspended stream goes on, a server ends its answer
  (`max_tokens`), a process binds and loads. Requests, crashes, abandonment and
  the purge timer are not fair.
* `hub_calls`: handlers, the sidecar's short steps, deadlines and the clock go
  on, a command line ends unless it is an inference. Strong fairness of a
  caller's next call stands for callers that keep calling, which only
  `CircuitCloses` needs. Nothing makes an inference end or a process come back;
  `CircuitCloses` assumes a hub that stays up in its hypothesis.
* `hub_boot`: the boot's own steps and its clock go on; a check is answered or
  fails unless a wedged hub holds the port, as its health check has no deadline.
  `BootEnds` assumes no wedged hub in its hypothesis.
* `change_watch`: the broadcaster is scheduled, a comparison ends, timers fire.
  Clients are not fair.
* The other runs check no liveness.

## 5. What is proved

The proofs hold for every value of the constants the named assumptions allow
(`ConcurrencyAssumption`, `PluginAssumption`, `AuditAssumption`, ...), which TLC
evaluates in the runs. Most say that sets are finite or disjoint and bounds are
natural numbers. These say more, each from the code: `BootAssumption` (at least
`FAILURE_THRESHOLD - 1` polls, 15 against 5), `BudgetAssumption` (the ring has a
place, there is a watcher's interval to fall back to), `WasmAssumption` (every
limit of executions is at least one), `ToolAssumption` (a command is not a
terminal's shell),
`CoverageAssumption` (the report's own path fits no pattern, that of `build.zig`
fits Zig's), `FactoryAssumption` (edited files are in the project, numbers of
branches and assertions are numbers or missing), `ScoreAssumption` (at least one
file: without any, both scores are 0), `FilesAssumption` (a text is a sequence of
characters), `SamplesAssumption` (a message has a value of the right kind for each
field of its type, which is what TypeScript's types say), `OneLoop` of the task
worker, below.

* **WorkerProofs.** *Pool:* `Inv` adds to the checked invariants that `running`
  is finite, without which its cardinality says nothing. The heart is a lemma
  about `ProcessNext`: from a queue of distinct entries it makes a queue and a
  set that are disjoint, finite, within the limit, with a nonempty queue only at
  the limit. Every action is a change of `queue` or `running` followed by it.
  Results: types, exact count, nothing stranded, every entry in one place, start
  order, refinement of `JobPool`.
  *Test engine:* `TestsTrusted`, whatever the graph of imports, the answers and
  the number of tasks. `FactoryInv` says that a test which two tasks never
  shared has at most one holder (`OneHolder`), which knows whether a repair wrote
  what is on disk and has loaded just that when it runs it (`HolderKnows`); that
  what no repair wrote has passed the gate (`GatedUnlessHealed`); and that what a
  copy being documented lacks was edited since it was read (`CopiesKeep`). That
  gate and auditor agree is arithmetic, once a text is known to be gated.
* **AgentProofs.** *Turns:* `Inv` relates where a turn is suspended to what it holds
  (`Suspended`), says that what is pending is waited for (`PendingIsWaiting`) and
  where a yes comes from (`ApprovalsComeFromAnswers`). `GateHolds` follows, equal
  call ids included, and `AnswerDecidesItsTurn` for turns whose id is their own.
  *Tools:* `ToolInv` ties each buffer to what has been read of its stream
  (`BuffersFollow`), and says that a limit is that of a process without an answer
  (`LimitsAreOpen`) and that after an answer the process is over and nothing is
  written or read any more (`AnswersAreLast`): the answer is then what the process
  wrote, cut where it says so.
  *Kernel events:* `ListenInv` says that while an emission is under way the array it
  reads only grows, `off` having replaced it by another, and that whom it has told
  is a prefix of that array. `HookInv` says which hooks of a stack are waiting for the
  `next` they called; the last handler is reached only over all of them.
  *Sessions:* `LogInv` says that the numbers in a file rise, that what is lost of
  the acknowledged events and the unfinished last line together are no more than
  the failed writes (`Debt`), that an unfinished last line was never acknowledged
  (`Sound`), and that a fork has all its parent holds up to the last event they
  share (`Descended`).
  *Index:* a row and the event of its number in the file are the same, or the row
  is the older one (`RowsFit`), and what is written is newer than any row: a sync
  leaves out what has a number used before and what failed to be inserted, and nothing
  else. Of several events of one number in a file the oldest is attempted
  (`OldestIsAttempted`).
  *Files:* `EditInv` says that the file and the page last shown are texts, without
  which a target has no length, and that the last edit was exact. That it is: the
  places found from the left and the splits of the text are counted alike, so a
  count of one leaves no place after the first (`OneOccurrence`), and there is none
  before it. `SkillInv` says that the cache has the names the last scan saw and the last
  file of each (`CacheFollows`). Lines, pages, counts and replacements are recursive
  functions of texts of every length: `RecursionExists` gives for any recursion that
  goes down in a rank the function it computes, and `ByRank` what holds of its values.
  Filters are computed for arrays of every length: `Select` is a recursive function
  of a sequence, about which a property is proved by taking a least length that
  violates it (`WFMin`), which needs no induction theorem.
* **PluginKernelProofs.** `Exact` is about every pending registration and every
  record of one: its listing lacks its plugin's tools, and what is or will be
  credited to it beyond them is of plugins that entered inside it (`inside`); what a
  plugin has entered is in the registry unless it was robbed. Each fragment of the
  manager keeps it (`EnterKeeps`, `RemoveKeeps`, `AppliedKeeps`, `BootAllKeeps`), with
  no condition on who overlaps. That without overlapping requests only the boot
  surrounds needs that requests wait for the boot (`Served`) and go one at a time
  until two overlap (`Single`).
* **HubProofs**, for any number of callers, any threshold and every path.
  *Breaker:* types, status against count and half-open against cooldown are
  inductive together; that nothing is sent while the breaker is hot follows as an
  action property. *Calls:* every step of `HubCalls` is shown to be a step of the
  breaker or to leave it alone (`HubStepIsBreakerStep`), so `HubSpec => Spec` and
  all of the breaker's theorems hold of the whole way of a call.
  `LockHasLiveOwners` needs the queue's places: a caller is in the lock's queue
  exactly once while it waits and nowhere else. Leaving the queue was a filter,
  whose result the prover cannot compute by induction; it is written as a removal
  of the one place, which is what the queue's distinctness makes it. *Boot:*
  `SeenInTime` says that a hub up before the breaker has counted its threshold is
  found. It is carried by `OwnFailures` (until another caller fails, the count
  is that of the boot's own failed polls) and `HeardEarly` (a hub heard early has
  a poll left before the circuit opens), which is where `BootAssumption` comes in.
  *Wire:* `WireReadsWhatWasSent` is about any messages at all, not only those at the
  edges that TLC tries. Bytes read in a row are the second ones read into what the
  first ones gave (`ReadIntoRow`), so a message can be followed field by field: after
  the entries of n fields a reader has those n and defaults for the rest
  (`PackedArrives`, by counting up). What the messages in it are plays no part there,
  so the same result serves each level (`NestedArrives`, `MessageArrives`), and a
  reader of another build, whose type agrees where both have a field (`Builds`). The
  tables of the two files give every client method the handler of its name
  (`ClientsCall`, `OneMethodOfAName`). The invariant `WireInv` then only says which
  message and which type the bytes under way are of (`Underway`).
* **TaskDispatchProofs.** `CountOfRuns` (the counter is the number of
  generators at work) keeps it from going negative. `NeverOverLimit` needs
  `BudgetFits`: what a poll was promised still fits when it is answered, because
  only one loop starts tasks (`OneLoop`, the one assumption that is about how the
  class is used: a stop and a start within one wait leave two loops). `StatusEarned`
  needs the same of updates in flight (`InFlightEarned`), which is why
  reordering and loss do no harm. It is about every row, whatever the worker was
  given.
* **ChangeWatchProofs.** `InOrder`: what is in a client's buffer rises strictly
  from the last message it was told to the last one logged, so that skipping a
  full client, joining late and leaving are all harmless. With it every step is a
  step of `LossyFanout` or a stutter (`StepIsFanout`), so `Spec => ImplementsLossyFanout`
  for any clients, capacities and pace. `BacklogHasRunner` is inductive
  with the types of the daemon's parts.
* **RuntimeProofs.** *Warm-Purge:* `NoOrphan` needs that streams are one at a time
  until they overlap (`OneAtATime`), that the purge timer runs only while none is
  under way (`TimerInSilence`), that a cold engine remembers no model
  (`ColdForgets`), and where the processes alive are known (`Tidy`: the one under
  the handle, or none). `PurgeInSilence` is an action property from the second.
  *Budget:* `BudgetInv` relates who is subscribed to the interval of the mode, and
  the ring to what was reported and fits it (`RingKeepsTheNewest`). `LoadNeverHelps`,
  that more load never raises the score and a mode for less load grants no less, is
  proved as a fact about the functions for every percentage, from lemmas about
  integer division; no run checks it. *Micro-agents:* the counter is exactly the executions under way and
  never above one, as nothing is awaited in between, so that no limit refuses
  anybody; the emulations' logic is monotone in the marks of a payload.
* **DiagnosisProofs.** What a diagnosis leaves behind, part by part.
  *Audit:* `AuditInv` follows a file through an audit: hashes
  gathered and read are in `audited` (`HashesRead`), the text read is the one
  hashed unless the file is excused (`TextAsHashed`), a flaw in it is then among
  the findings (`FlawsFound`), and what a process's copy of the cache hides is in
  its copy of the ledger or on disk (`CopiesOnRecord`). Each is needed to carry
  the next over `Persist`. Any number of processes and files, edits, throws and
  deaths.
  *Repairs:* `HealInv` is the types, `Whole` (until the process ends
  every file is whole in its own place) and `NothingLost`. `Whole` is needed
  because a patch moves what is in its place to the backup: the backup is a whole
  text only if that was one, whoever wrote it. Any number of repairs of any
  number of files.
  *Analyzer's cache:* `CacheInv` says of every map there is, on disk or in
  a process's memory, that a result of another text than the entry's hash
  appears only with the other result computed for the hash (`Renewed`), and of
  every process that what it computes has been noted (`Noted`). It is inductive
  because saves replace a map by another map, never merge them; that is why losing
  or truncating the file does no harm.
  *Vault:* `VaultInv` adds to the checked conjuncts what each place of a call
  holds (`CallsFit`: a call under way has a hub and a turn of its own, and only a
  call that met the lock has tries) and that a vault's cache is the answer of some
  listing it applied (`CacheWasStored`), without which a listing that finds the
  cache could answer anything. Any number of roots, calls, retries, errors and closes,
  those of hubs that are no longer the instance included.
  *Validation:* `ValidInv` says of the sums so far that they are true of the processes
  that have ended (`TrueOf`: a success of none that failed, a failure of one that
  did), whose consolidation is over a list of any length. *Coverage:* `ReportRepeats` says that the words in the report's
  file are those of the names, patterns and evidence of what it reported last, so that the next one can find only
  these. The two are `ReportsAreTrue`, of the two components side by side.
  *Score:* bad news moves the counts the pillars are made of one way only, and each
  quotient, ceiling and rounding is monotone in them (`HubScoreFollows`,
  `EngineScoreFollows`); a level never rises with more alerts (`LevelFollows`).
  Complexities are summed as the cardinality of a set of units, which needs no
  recursion. The theorem is about shares rounded down to a 60th, exact for up to
  three files.

Every invariant and action property a run checks, and every refinement, is a
theorem. Only model-checked are the liveness properties, since fairness and ENABLED
are beyond the prover: `EveryTurnStops`, `BoundedCallsEnd`, `CircuitCloses`,
`BootEnds`, `EveryTaskTaken`, `EveryChangeCompared`, `ChangesAudited`,
`EveryRequestEnds`.

## 6. What the code does not do

The conditions in the properties mark what the code does not promise. Each was
found as a counterexample to the property without the condition. Those that
a sentence of the repository contradicts are kept as definitions, so that a
configuration can show them; they are in no run of the project but for the two above.

* Plugins: `ReloadIsLocal` fails with the boots of the server and the CLI, whose
  `ctx.use` calls overlap: a plugin is credited with the tools of later ones and its
  reload removes them. Two reloads that overlap do the same. `ToolsOfAppliedPlugins`
  says that nothing else does.
* Turns: `AnswerDecides` fails for two turns of one millisecond, which one
  answer decides. One timer may delete the other's entry, and that turn then
  waits for ever. The cancel endpoint looks in a map nothing fills.
* Tasks: the worker switches on `task_type`, which the client's rows do not have, so
  that a row of the table is COMPLETED without any work. Stop and start within one wait
  leave two loops, twice the limit. Every diagnosis takes the worker's listeners, so
  that it does not hear the halt at the end of the same one, and a pause is lifted by
  an event nobody sends. A row left RUNNING by a process that died stays so.
* Hub: whatever rejects counts as a failure of the hub, a missing file
  included, and a success while closed does not reset the count. A hub that
  takes longer than about four seconds to come up is never seen by the fifteen
  polls, since the fifth failure opens the circuit for 30 s. A health check has
  no deadline, so a wedged orphan keeps the boot from the clean-up that would
  kill it. The clean-up kills a hub that came up since the check, and a boot
  under way spawns processes after the shutdown.
* Broadcast: `FileEventsNameFiles` fails, because messages without a path are
  forwarded as file events. A send before the broadcaster has made its channel
  blocks for ever, and a directory created after the walk is not watched.
* Audit: `HealedMeansFixed` fails. An audit that finds nothing about a file
  marks it HEALED, even if the cache made it skip the file; the audit that
  validates a repair reads nothing and heals the whole ledger.
  A hub that fails, an open circuit or a missing manager counts as no findings, and
  the file's hash is kept: `HiddenFlawOnRecord` excuses such a file.
* Repairs: two repairs of one file overwrite each other, and the original is
  lost when the second backs up the first one's text.
* Score: a high alert is not HEALTHY, but seven of them are: the engine's total
  is then 0, and `health.total || 85` reports 85, HEALTHY. The alerts for agents
  that differ between stacks are added after the score. A file of type TEST or
  CONFIG that has telemetry raises the hub's score when it becomes complex. An
  alert without severity is a medium one for the hub and a low one for the
  engine; a blank purpose counts as stated for the hub only; the engine's penalty
  is not a number without a matrix. A new discovery drops the cognitive check.
* Tests: the gate is looser than the auditor, so an e2e test with two assertions
  is accepted and asked for again on every run. A repair's text is not gated, and
  a test that still fails stays on disk. The planner filters on whether the
  source exists, so it returns to pairs that have tests, never to a file without
  a unit test. Pairs that share their first file share a test file. The worker
  reports COMPLETED whatever it got. Every documentation task writes a
  docstring, that of a failed call too, and each diagnosis asks for it again.
* Tools: a background job that holds the pipes keeps `shell.exec` waiting past
  its limit; a command that another's signal ended is reported as exit 0.
  `DeadMeansDone` fails: a terminal is reported dead before its last output is
  read. `fs.edit_file` expands `$` patterns, does not count overlapping places,
  and does not find a target of several lines copied from a file with CRLF; an
  empty target is accepted for a text of at most two characters. A skill whose name reads as
  a number is listed and never loaded; a cached skill is not read again;
  `modelInvocable` is never looked at; a plain file named `skills` ends the scan.
* Sessions: the line after a torn one is lost with it although it was
  acknowledged, and numbers start again after a restart. The index is filled only when
  the plugin is applied, from a directory the sessions need not be in; an event
  numbered like an earlier one is never indexed, and one whose insertion throws not
  until a later sync.
* Analyzer: `AnswersFitTheirText` (run as `analyzer_cache`).
  `analyzer analyze -` and `fingerprint -`, to which the hub falls back with
  content, are not commands of the binary; a stream with content names the file
  "-", which has no extension and so an empty analysis. The coverage audit
  removes underscores from one side of its comparison only.
* Warm-Purge: `NeverOrphan` fails: a boot that times out keeps its process and
  forgets it. Streams that overlap may be answered by each other's model or cut
  off by each other's purge, and an abandoned one is never purged.
* Budget: nothing but a test starts its loop. A diagnosis removes every listener
  of the event bus, the followers of the mode and the orchestrator's own among
  them, and nobody listens again. A native start that fails leaves the watcher
  marked as active, so later starts are refused until a stop. A path with
  accents reaches the native ring cut short, one of 256 bytes or more not at all.
* Database: a hub is closed under whoever holds it as soon as a caller resolves
  to another vault, which one failed probe of a directory is enough for; from then
  on its writes are rejected. The close of an old hub forgets the instance even
  when that is another one, which then stays open. A finding is not awaited, so that nobody hears of its
  loss, and the fallback vault has no table for it. A retry may put an older
  list of stacks over a newer one in a cache that nothing invalidates.
* Micro-agents: the limit is never reached, because nothing is awaited between
  the count going up and coming down; a binary is instantiated before the limit
  is looked at, and the answer is the emulation's with or without it.
* Validation: the numbers of passed and failed tests may be those a test printed
  itself. A `bun` that does not start rejects out of the whole suite, and a
  native process that does not start, or a native suite that fails, counts as a
  failure but not as a run, so that the rate may be negative.
* Kernel events: a hook that calls `next` twice passes over the hooks that have
  had their turn. A waterfall's hooks are never removed.
* Coverage report: there are never blind spots and coverage is always 100 %.
  Technologies whose name fits a pattern (`slm_gguf`, `wasm_micro_agents`,
  `micro_gpt_neural`) stay in the report by being in it. Where there is a
  `package.json` it is the evidence given for Zig. The engine's source contains
  all the patterns, so its own project always has all eleven technologies.

## 7. What is not modelled

Of the modelled components: the marks REFERENCE and Strategic/DNA, repairs that
create a file for a DISPARITY, manual clear and sync of the ledger; the
confinement of paths to the workspace and `list_dir`; the todo, language-server,
web, webhook, bridge, compaction, interaction and subagent plugins (one
synchronous write each, or a call outside; a subagent's approval prompts reach
nobody and are refused after 60 s); the breakdown beside a score; the streaming
flags of the protocol, whose streams carry the same messages one by one; the
sidecar as a process of its own during the boot; how the CPU's use is measured;
the benchmark of the test suite; of the vault's users the structural memory
(no caller), settings and snapshots, the listing of siblings; scores and texts of the micro-agents' answers.

Not modelled at all:

* **Git synchronisation.** It has no caller.
* **TaskExecutor**: `AuditState` uses it as "every item once".
* **Analysis, diagnostics, reporting, security, strategic and governance engines,
  Rust scanners (deduplication, connectivity), Zig analyzer**: functions of text
  with no state a model checker would exercise.
* **CLI, scripts, tray, WinUI, installer, formal gate, the sources of
  the micro-agents' binaries, registry data, documents.**

Tools, generators, language models, the operating system and the parsers are
external: a call ends or fails. Durations are "the timer may fire" except in
`HubBoot`. Logging, telemetry and wording are left out. SQLite is a table with
atomic statements.

## 8. Plan

The order was that of importance: what every user goes through (turns,
approvals, plugins, pool), then the dispatcher and the stores, the hub and its
boot, the daemons around it, the audit and what survives it, the tools, then the
parts on their own: budget, micro-agents, validation, kernel events, report.
All of it is in place. What remains, by worth:

1. `TaskWorker` with a claim on the rows it takes, should the hub get one:
   `OneLoop` could then be dropped.
2. A hub that keeps a field it does not know and sends it on
   (`UnknownFieldHandler`), should a message ever be passed through.
