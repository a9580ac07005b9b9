------------------------------- MODULE HubBoot -------------------------------
(***************************************************************************)
(* The boot of the native processes, and their end:                        *)
(*   - src_local/core/system_manager.ts: ensureInfrastructure,             *)
(*     cleanupPorts, shutdown;                                             *)
(*   - src_local/core/orchestrator.ts: _initNativeInfrastructure,          *)
(*     _waitForHub;                                                        *)
(*   - src_native/hub/main.go: run, which exits when it cannot listen.     *)
(*                                                                         *)
(* Every health check is a call through the circuit breaker, which the     *)
(* boot shares with the other callers of the process.  Time is counted in  *)
(* seconds: the boot sleeps one between checks, and the breaker's cooldown *)
(* is longer than the whole boot.                                          *)
(***************************************************************************)
EXTENDS CircuitBreaker

CONSTANTS
  Booter,         \* the caller that boots
  COOLDOWN,       \* COOLDOWN_MS, in seconds
  Polls,          \* health checks after the spawn
  Waits           \* _waitForHub's retries

ASSUME BootAssumption ==
  /\ Booter \in Callers
  /\ {COOLDOWN, Polls, Waits} \subseteq Nat \ {0}
  /\ Polls >= FAILURE_THRESHOLD - 1      \* 15 and 5

VARIABLES
  phase,         \* where _initNativeInfrastructure is
  left,          \* checks left in its loop
  ready,         \* what ensureInfrastructure returned
  child,         \* the hub among nativeProcesses
  other,         \* a hub on the port that this process did not start
  shutdownInProgress,
  age,           \* seconds since the breaker's last failure, up to COOLDOWN
  heardAt,       \* history: FailedPolls when child came up, or Never
  othersFailed   \* history: another caller's failure counts in the breaker

boot == <<phase, left, ready>>
procs == <<child, other, shutdownInProgress>>
history == <<heardAt, othersFailed>>
bootVars == <<vars, boot, procs, age, history>>

Never == Polls + 1
Checking == {"check", "poll", "wait"}
Sleeping == {"pollSleep", "waitSleep"}

BootTypeOK ==
  /\ TypeOK
  /\ phase \in Checking \cup Sleeping \cup {"clean", "running"}
  /\ left \in 0..(Polls + Waits)
  /\ ready \in BOOLEAN
  /\ child \in {"none", "starting", "listening", "dead"}
  /\ other \in {"gone", "healthy", "wedged"}
  /\ shutdownInProgress \in BOOLEAN
  /\ age \in 0..COOLDOWN
  /\ heardAt \in 0..Never
  /\ othersFailed \in BOOLEAN

\* An earlier run may have left its hub behind: at work, or holding the port
\* without answering.
BootInit ==
  /\ circuitStatus = "CLOSED" /\ failureCount = 0 /\ cooledDown = TRUE
  /\ call = [c \in Callers |-> "idle"]
  /\ other \in {"gone", "healthy", "wedged"}
  /\ serving = (other = "healthy")
  /\ phase = "check" /\ left = 0 /\ ready = FALSE
  /\ child = "none" /\ shutdownInProgress = FALSE
  /\ age = COOLDOWN
  /\ heardAt = Never /\ othersFailed = FALSE

-----------------------------------------------------------------------------
(* isHealthy. *)

Check ==
  /\ phase \in Checking
  /\ Begin(Booter)
  /\ UNCHANGED <<boot, procs, age, history>>

\* ensureInfrastructure returns b; _waitForHub checks at once.
Return(b) == phase' = "wait" /\ left' = Waits /\ ready' = b

Healthy ==
  /\ call[Booter] = "sent"
  /\ Succeed(Booter)
  /\ IF phase = "wait"
     THEN phase' = "running" /\ UNCHANGED <<left, ready>>
     ELSE Return(TRUE)
  /\ UNCHANGED <<procs, age, history>>

\* Faulty variant: the polls go on until one finds the hub.
GoOnForever ==
  \/ phase = "check" /\ phase' = "clean" /\ UNCHANGED <<left, ready>>
  \/ phase = "poll" /\ phase' = "pollSleep" /\ UNCHANGED <<left, ready>>
  \/ phase = "wait" /\ phase' = "waitSleep" /\ left' = left - 1 /\ UNCHANGED ready

\* The boot goes on after a check that found no healthy hub.
GoOn ==
  \/ phase = "check" /\ phase' = "clean" /\ UNCHANGED <<left, ready>>
  \/ phase = "poll" /\ left > 1 /\ phase' = "pollSleep" /\ left' = left - 1 /\ UNCHANGED ready
  \/ phase = "poll" /\ left = 1 /\ Return(FALSE)
  \/ phase = "wait" /\ phase' = "waitSleep" /\ left' = left - 1 /\ UNCHANGED ready

\* The check failed, which the breaker counts.  A wedged hub may fail it, or never
\* answer: the check has no deadline.
Unhealthy ==
  /\ Fail(Booter)
  /\ GoOn
  /\ age' = 0
  /\ UNCHANGED <<procs, history>>

\* The breaker answered in the hub's place.
Unasked ==
  /\ phase \in Checking
  /\ call[Booter] = "idle" /\ Refused
  /\ GoOn
  /\ UNCHANGED <<vars, procs, age, history>>

\* One second passes: the boot wakes if it sleeps, the breaker cools.
Tick ==
  /\ phase \in Checking => call[Booter] # "idle"
  /\ phase # "clean"
  /\ phase' = CASE phase = "pollSleep" -> "poll"
                [] phase = "waitSleep" -> IF left > 0 THEN "wait" ELSE "running"
                [] OTHER -> phase
  /\ age' = IF age < COOLDOWN THEN age + 1 ELSE age
  /\ UNCHANGED <<vars, left, ready, procs, history>>

Cools ==
  /\ age = COOLDOWN
  /\ CoolDown
  /\ UNCHANGED <<boot, procs, age, history>>

-----------------------------------------------------------------------------
(* cleanupPorts, spawn and shutdown. *)

\* What HubDown and HubUp do to serving and the calls, if a hub goes or comes.
Serves(b) ==
  /\ serving' = b
  /\ call' = [c \in Callers |-> IF ~b /\ call[c] = "sent" THEN "doomed" ELSE call[c]]
  /\ UNCHANGED breaker

\* Whoever listens on the ports is killed, a hub that came up since the check
\* included; then the processes are spawned, if their programs are found.
CleanAndSpawn ==
  /\ phase = "clean"
  /\ other' = "gone"
  /\ Serves(FALSE)
  /\ \/ child' = "starting" /\ phase' = "pollSleep" /\ left' = Polls /\ UNCHANGED ready
     \/ UNCHANGED child /\ Return(FALSE)
  /\ UNCHANGED <<shutdownInProgress, age, heardAt, othersFailed>>

\* The first SIGINT or SIGTERM kills the registered processes; the others return
\* at once, and neither ends this process.
Shutdown ==
  /\ ~shutdownInProgress /\ shutdownInProgress' = TRUE
  /\ child' = IF child \in {"starting", "listening"} THEN "dead" ELSE child
  /\ Serves(other = "healthy")
  /\ UNCHANGED <<boot, other, age, history>>

-----------------------------------------------------------------------------
(* The hubs, and the other callers. *)

\* Polls that have failed, the one under way included.
FailedPolls == (Polls - left) + (IF call[Booter] = "doomed" THEN 1 ELSE 0)

\* The spawned hub listens, or exits if the port is taken.
ChildListens ==
  /\ child = "starting"
  /\ child' = IF other = "gone" THEN "listening" ELSE "dead"
  /\ Serves(other # "wedged")
  /\ heardAt' = IF other = "gone" /\ phase \in {"poll", "pollSleep"} THEN FailedPolls ELSE Never
  /\ UNCHANGED <<boot, other, shutdownInProgress, age, othersFailed>>

ChildDies ==
  /\ child = "listening"
  /\ child' = "dead"
  /\ Serves(FALSE)
  /\ UNCHANGED <<boot, other, shutdownInProgress, age, history>>

\* Another process starts a hub on the free port.
OtherListens ==
  /\ other = "gone" /\ child # "listening"
  /\ other' = "healthy"
  /\ Serves(TRUE)
  /\ UNCHANGED <<boot, child, shutdownInProgress, age, history>>

Others(c) ==
  /\ c # Booter
  /\ \/ Begin(c) /\ UNCHANGED <<age, othersFailed>>
     \/ call[c] = "sent" /\ Succeed(c) /\ UNCHANGED <<age, othersFailed>>
     \/ Fail(c) /\ age' = 0 /\ othersFailed' = TRUE
  /\ UNCHANGED <<boot, procs, heardAt>>

BootNext ==
  \/ Check \/ Healthy \/ Unhealthy \/ Unasked \/ Tick \/ Cools
  \/ CleanAndSpawn \/ Shutdown
  \/ ChildListens \/ ChildDies \/ OtherListens
  \/ \E c \in Callers : Others(c)

\* The boot and the clock go on.  A check gets an answer, unless the hub it
\* reached is wedged.
BootSpec ==
  /\ BootInit /\ [][BootNext]_bootVars
  /\ WF_bootVars(Check) /\ WF_bootVars(Unasked) /\ WF_bootVars(Tick)
  /\ WF_bootVars(CleanAndSpawn)
  /\ WF_bootVars((Healthy \/ Unhealthy) /\ other # "wedged")

-----------------------------------------------------------------------------
(* Properties. *)

\* The boot ends, ready or degraded, whatever hubs come and go, as long as no
\* check is left without an answer by a hub that holds the port.
BootEnds == [](other # "wedged") => <>(phase = "running")

\* A hub that this boot started and that is up before the breaker has counted
\* FAILURE_THRESHOLD failures - the first check and FAILURE_THRESHOLD - 2 polls -
\* is found by the polls, if no failure of another caller spoils the count.
\* Beyond that nothing is promised: the circuit opens for longer than the boot
\* lasts, and the polls left ask nobody.
SeenInTime ==
  /\ child = "listening" /\ heardAt <= FAILURE_THRESHOLD - 2
  /\ ~othersFailed
  /\ phase \in {"wait", "waitSleep", "running"}
  => ready

=============================================================================
