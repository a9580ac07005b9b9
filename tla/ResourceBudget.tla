---------------------------- MODULE ResourceBudget ----------------------------
(***************************************************************************)
(* The resource budget and those who follow it                             *)
(* (src_local/engines/maintenance/sovereign_resource_budget.ts,            *)
(* utils/zig/zig_file_watcher_bridge.ts, the linger window of              *)
(* utils/ai/warm_purge_offline_engine.ts, core/event_bus.ts).              *)
(*                                                                         *)
(* A loop samples the machine and says on the event bus when its mode      *)
(* changes. The file watcher and the engine take the mode when they are    *)
(* made and listen afterwards; a diagnosis begins by removing every        *)
(* listener from the bus. The watcher's events are those a host reports:   *)
(* natively they are in a ring of RingSize paths, else in a list. Exact    *)
(* halves are rounded up. The machine is never on battery.                 *)
(***************************************************************************)
EXTENDS Integers, Sequences, SequencesExt

CONSTANTS
  Loads,       \* percentages a sample may read
  Changed,     \* paths of files that change
  Accented,    \* those that have more bytes than characters
  Unfit,       \* those the native side takes no event of: empty, or 256 characters and more
  RingSize,    \* paths the native ring holds
  MaxNews      \* bound: events reported and not polled

ASSUME BudgetAssumption == RingSize \in Nat \ {0} /\ MaxNews \in Nat

VARIABLES
  machine,   \* [cores, bigRam (16 GB), tightRam (less than 4 GB free)]
  usage,     \* the latest snapshot: [ram, cpu]
  loop,      \* the interval timer is set
  hears,     \* who listens to resource:mode_changed
  interval,  \* watchIntervalMs of the watcher, 0 before it is made
  linger,    \* lingerWindowMs of the engine, 0 before it is made
  native,    \* isZigAvailable
  watching,  \* isWatchingActive
  daemon,    \* is_watching and watch_interval_ms of the native side
  pending,   \* the paths in the ring or the list
  told,      \* history: the mode of the last sample made while each was on the bus
  news,      \* history: the fit paths reported since the queue was last emptied
  polled     \* what the last call returned and the news it was due, if it was a poll

budgetVars == <<machine, usage, loop, hears, interval, linger, native, watching, daemon,
                pending, told, news, polled>>

NoPoll == [got |-> << >>, due |-> << >>]

-----------------------------------------------------------------------------
Machines == [cores : {1, 4, 6, 16}, bigRam : BOOLEAN, tightRam : BOOLEAN]
Snapshots == [ram : 0..100, cpu : 0..100]

HigherOf(m, n) == IF m >= n THEN m ELSE n
LowerOf(m, n) == IF m <= n THEN m ELSE n

estimatedTempC(ram, cpu) == (400 + 4 * cpu + ram + 5) \div 10

calculateResourceScore(ram, cpu, tempC, onBattery) ==
  LET thermal == IF tempC > 75 THEN HigherOf(0, 100 - (tempC - 75) * 4) ELSE 100
      battery == IF onBattery THEN 50 ELSE 100
      weighted == (40 * HigherOf(0, 100 - ram) + 40 * HigherOf(0, 100 - cpu)
                     + 15 * thermal + 5 * battery + 50) \div 100
  IN  LowerOf(100, HigherOf(0, weighted))

determineMode(score) ==
  CASE score < 30 -> "Ultraleve"
    [] score >= 30 /\ score <= 70 -> "Balanceado"
    [] OTHER -> "Turbo"

\* sampleTelemetry: the score and mode of a snapshot.
ScoreOf(u) == calculateResourceScore(u.ram, u.cpu, estimatedTempC(u.ram, u.cpu), FALSE)
ModeOf(u) == determineMode(ScoreOf(u))

AdaptiveConfig(on, mode) ==
  LET cores == on.cores
      effective == IF cores > 4 THEN HigherOf(4, cores \div 2) ELSE cores
  IN  CASE mode = "Ultraleve" ->
             [workers |-> 1, agents |-> 1, fileWatchIntervalMs |-> 10000, ai |-> "CloudOnly",
              threads |-> HigherOf(1, LowerOf(effective \div 2, 4)), context |-> 2048]
        [] mode = "Balanceado" ->
             [workers |-> HigherOf(2, cores), agents |-> 3, fileWatchIntervalMs |-> 3000,
              ai |-> "CloudOrWarmPurge",
              threads |-> HigherOf(1, LowerOf((3 * effective) \div 4, 6)),
              context |-> IF on.bigRam THEN 4096 ELSE 2048]
        [] mode = "Turbo" ->
             [workers |-> HigherOf(4, 2 * cores), agents |-> 8, fileWatchIntervalMs |-> 1000,
              ai |-> "LocalOrCloudWithCache",
              threads |-> HigherOf(1, LowerOf(effective, 8)), context |-> 4096]

getAdaptiveConfig == AdaptiveConfig(machine, ModeOf(usage))

\* What the engine asks for when it starts the server of a model.
getOptimalSlmContextSize(on, mode, is7bOr8b) ==
  IF is7bOr8b /\ on.tightRam THEN 2048 ELSE AdaptiveConfig(on, mode).context

\* adjustLingerWindow of the engine.
LingerWindow(mode) ==
  CASE mode = "Ultraleve" -> 15000
    [] mode = "Balanceado" -> 60000
    [] mode = "Turbo" -> 120000

-----------------------------------------------------------------------------
BudgetInit ==
  /\ machine \in Machines /\ usage \in [ram : Loads, cpu : Loads]
  /\ loop = FALSE /\ hears = {} /\ interval = 0 /\ linger = 0
  /\ native \in BOOLEAN
  /\ watching = FALSE
  /\ daemon = [on |-> FALSE, interval |-> 3000]
  /\ told = [watcher |-> "none", engine |-> "none"]
  /\ pending = << >> /\ news = << >> /\ polled = NoPoll

queueVars == <<watching, pending, news>>

startLoop ==
  /\ ~loop /\ loop' = TRUE
  /\ polled' = NoPoll
  /\ UNCHANGED <<machine, usage, hears, interval, linger, native, daemon, told, queueVars>>

stopLoop ==
  /\ loop /\ loop' = FALSE
  /\ polled' = NoPoll
  /\ UNCHANGED <<machine, usage, hears, interval, linger, native, daemon, told, queueVars>>

\* The bus calls each listener before emit returns. The watcher passes on an
\* interval that is new to it, watching or not.
Tick ==
  /\ loop
  /\ usage' \in [ram : Loads, cpu : Loads]
  /\ LET changed == ModeOf(usage') # ModeOf(usage)
         asked == AdaptiveConfig(machine, ModeOf(usage')).fileWatchIntervalMs
     IN  /\ interval' = IF changed /\ "watcher" \in hears THEN asked ELSE interval
         /\ linger' = IF changed /\ "engine" \in hears THEN LingerWindow(ModeOf(usage')) ELSE linger
         /\ daemon' = IF native /\ interval' # interval
                      THEN [daemon EXCEPT !.interval = interval'] ELSE daemon
         /\ told' = [who \in DOMAIN told |-> IF who \in hears THEN ModeOf(usage') ELSE told[who]]
  /\ polled' = NoPoll
  /\ UNCHANGED <<machine, loop, hears, native, queueVars>>

\* The first getInstance of the bridge.
MakeWatcher ==
  /\ interval = 0
  /\ interval' = getAdaptiveConfig.fileWatchIntervalMs
  /\ hears' = hears \cup {"watcher"}
  /\ told' = [told EXCEPT !.watcher = ModeOf(usage)]
  /\ polled' = NoPoll
  /\ UNCHANGED <<machine, usage, loop, linger, native, daemon, queueVars>>

\* The first getInstance of the engine.
MakeEngine ==
  /\ linger = 0
  /\ linger' = LingerWindow(ModeOf(usage))
  /\ hears' = hears \cup {"engine"}
  /\ told' = [told EXCEPT !.engine = ModeOf(usage)]
  /\ polled' = NoPoll
  /\ UNCHANGED <<machine, usage, loop, interval, native, daemon, queueVars>>

\* DiagnosticPipeline.reset, through resetBus.
resetBus ==
  /\ hears # {} /\ hears' = {}
  /\ polled' = NoPoll
  /\ UNCHANGED <<machine, usage, loop, interval, linger, native, daemon, told, queueVars>>

-----------------------------------------------------------------------------
\* The native side does nothing with a directory of 512 characters and more, else
\* it empties its ring; its thread may not start.  The bridge counts as watching
\* all the same.
startWatcher ==
  /\ interval # 0 /\ ~watching
  /\ watching' = TRUE
  /\ \/ UNCHANGED <<daemon, pending, news>>
     \/ /\ native
        /\ \E started \in BOOLEAN : daemon' = [on |-> started, interval |-> interval]
        /\ pending' = << >> /\ news' = << >>
  /\ polled' = NoPoll
  /\ UNCHANGED <<machine, usage, loop, hears, interval, linger, native, told>>

stopWatcher ==
  /\ watching /\ watching' = FALSE
  /\ daemon' = [daemon EXCEPT !.on = FALSE]
  /\ polled' = NoPoll
  /\ UNCHANGED <<machine, usage, loop, hears, interval, linger, native, told, pending, news>>

\* stopWatcher, and the listener is taken off the bus.
release ==
  /\ interval # 0
  /\ hears' = hears \ {"watcher"}
  /\ watching' = FALSE
  /\ daemon' = [daemon EXCEPT !.on = FALSE]
  /\ polled' = NoPoll
  /\ UNCHANGED <<machine, usage, loop, interval, linger, native, told, pending, news>>

\* Faulty: a full ring takes no more.
PushUntilFull(queue, report) ==
  IF report.path \in Unfit \/ Len(queue) = RingSize THEN queue ELSE Append(queue, report)

\* push_event of the native side, and the guard of simulate_file_change.
PushEvent(queue, report) ==
  IF report.path \in Unfit THEN queue
  ELSE Append(IF Len(queue) = RingSize THEN Tail(queue) ELSE queue, report)

\* The native side is given as many bytes as the path has characters.
simulateFileChange(path) ==
  LET report == [path |-> path, cut |-> native /\ path \in Accented]
  IN  /\ interval # 0 /\ Len(news) < MaxNews
      /\ pending' = IF native THEN PushEvent(pending, report) ELSE Append(pending, report)
      /\ news' = IF native /\ path \in Unfit THEN news ELSE Append(news, report)
      /\ polled' = NoPoll
      /\ UNCHANGED <<machine, usage, loop, hears, interval, linger, native, watching, daemon, told>>

\* Until the queue is empty; a native side that does not watch gives nothing.
pollEvents ==
  /\ watching
  /\ native => daemon.on
  /\ polled' = [got |-> pending, due |-> news]
  /\ pending' = << >> /\ news' = << >>
  /\ UNCHANGED <<machine, usage, loop, hears, interval, linger, native, watching, daemon, told>>

BudgetNext ==
  \/ startLoop \/ stopLoop \/ Tick
  \/ MakeWatcher \/ MakeEngine \/ resetBus
  \/ startWatcher \/ stopWatcher \/ release \/ pollEvents
  \/ \E path \in Changed : simulateFileChange(path)

BudgetSpec == BudgetInit /\ [][BudgetNext]_budgetVars

-----------------------------------------------------------------------------
\* Whoever was made keeps to the mode of the last sample made while it was on the
\* bus: the latest one, until a diagnosis or release takes it off, and from then on
\* the one of that moment, whatever the load.  A native thread that runs sleeps as
\* long as its bridge says.
FollowsTheMode ==
  /\ interval # 0 => interval = AdaptiveConfig(machine, told.watcher).fileWatchIntervalMs
  /\ linger # 0 => linger = LingerWindow(told.engine)
  /\ \A who \in hears : told[who] = ModeOf(usage)
  /\ daemon.on => daemon.interval = interval

\* A fact of the functions, proved in RuntimeProofs and checked by no run.
\* More load of either kind never raises the score, over every rounding and the
\* start of the thermal penalty; and a mode for less load grants no less of
\* anything on the same machine, never more threads than there are cores.
LoadNeverHelps ==
  /\ \A u \in Snapshots :
       /\ u.ram < 100 => ScoreOf([u EXCEPT !.ram = @ + 1]) <= ScoreOf(u)
       /\ u.cpu < 100 => ScoreOf([u EXCEPT !.cpu = @ + 1]) <= ScoreOf(u)
  /\ \A on \in Machines, pair \in {<<"Ultraleve", "Balanceado">>, <<"Balanceado", "Turbo">>} :
       LET less == AdaptiveConfig(on, pair[1])
           more == AdaptiveConfig(on, pair[2])
       IN  /\ \A k \in {"workers", "agents", "threads", "context"} : less[k] <= more[k]
           /\ less.fileWatchIntervalMs >= more.fileWatchIntervalMs
           /\ more.threads <= on.cores
           /\ \A big \in BOOLEAN :
                getOptimalSlmContextSize(on, pair[1], big) <= getOptimalSlmContextSize(on, pair[2], big)

\* A poll gives what was reported since the queue was last emptied, in order: all
\* of it from the list; from the ring the newest RingSize of the reports that fit it.
PolledInOrder ==
  LET n == Len(polled.due)
  IN  polled.got = IF native /\ n > RingSize
                   THEN SubSeq(polled.due, n - RingSize + 1, n) ELSE polled.due

\* The mode is followed by whoever is told of it, and of what the queue takes the
\* watcher loses no more than a full ring does.
BudgetFollowed == FollowsTheMode /\ PolledInOrder
=============================================================================
