----------------------------- MODULE WarmPurge ------------------------------
(***************************************************************************)
(* WarmPurgeOfflineEngine: one llama-server process, started when a stream *)
(* needs its model, kept warm for a linger window and purged afterwards.   *)
(* Several streams share the engine; each is suspended at every await of   *)
(* ensureServerRunning and at every chunk it yields.  The processes belong *)
(* to the operating system: only one of them can hold the port, and one    *)
(* that finds it taken exits.                                              *)
(***************************************************************************)
EXTENDS Integers, FiniteSets

CONSTANTS
    Streams,    \* concurrent calls of streamChatCompletion
    Models,     \* model files found on disk
    Procs,      \* bound: processes alive or referred to at the same time
    None,       \* no model, no process
    MaxCrashes  \* bound: llama-server processes that die by themselves

ASSUME WarmAssumption ==
    /\ None \notin Models /\ None \notin Procs
    /\ MaxCrashes \in Nat

VARIABLES
    isWarm, currentLoadedModel, activeServerProcess,
    purgeTimer,     \* whether a purge is scheduled
    os,             \* the state of each process
    loads,          \* the model each process was started with
    stream,         \* where each stream is, its model, the process it reads from
    crashes,
    disorder        \* history: what has happened that the properties set apart

engine == <<isWarm, currentLoadedModel, activeServerProcess, purgeTimer>>
system == <<os, loads>>
vars == <<engine, system, stream, crashes, disorder>>

\* Two streams were in progress at once; a live server was not ready within the
\* 20 s a stream waits for it; a consumer stopped iterating at a yield.
Disorders == {"overlap", "late", "left"}

Alive == {"starting", "loading", "serving"}
Holders == {p \in Procs : os[p] \in {"loading", "serving"}}
Serving == {p \in Procs : os[p] = "serving"}
LiveProcs == {p \in Procs : os[p] \in Alive}
Places == {"idle", "switching", "checking", "booting", "posting", "streaming", "fallback"}

Init ==
    /\ isWarm = FALSE /\ purgeTimer = FALSE
    /\ currentLoadedModel = None /\ activeServerProcess = None
    /\ os = [p \in Procs |-> "dead"]
    /\ loads = [p \in Procs |-> None]
    /\ stream = [s \in Streams |-> [at |-> "idle", model |-> None, from |-> None]]
    /\ crashes = 0
    /\ disorder = {}

At(s, place) == stream[s].at = place
Place(s, place, m, p) == stream' = [stream EXCEPT ![s] = [at |-> place, model |-> m, from |-> p]]
GoTo(s, place) == Place(s, place, stream[s].model, None)
LeaveToIdle(s) == Place(s, "idle", None, None)

-----------------------------------------------------------------------------
(* The engine.  An action is what runs between two awaits or yields.       *)

\* forcePurge kills the one process the engine remembers and forgets it; what
\* isWarm becomes is left to the caller, which may set it again.
Purged == IF activeServerProcess = None THEN os ELSE [os EXCEPT ![activeServerProcess] = "dead"]
Forget == purgeTimer' = FALSE /\ currentLoadedModel' = None /\ activeServerProcess' = None

\* checkMemorySafety finds too little free memory: everything is purged and
\* the stream falls back, which marks the engine warm.
RefuseForMemory(s) ==
    /\ Forget /\ isWarm' = TRUE
    /\ os' = Purged
    /\ Place(s, "fallback", stream[s].model, None)
    /\ UNCHANGED loads

\* The server is started; the handle it overwrites may be of a live process.
Spawn(s, m, procs) ==
    \E p \in Procs :
        /\ procs[p] = "dead" /\ \A r \in Streams : stream[r].from # p
        /\ activeServerProcess' = p
        /\ os' = [procs EXCEPT ![p] = "starting"]
        /\ loads' = [loads EXCEPT ![p] = m]
        /\ Place(s, "booting", m, None)

Note(what, happens) == disorder' = IF happens THEN disorder \cup {what} ELSE disorder
Joins == Note("overlap", \E r \in Streams : ~At(r, "idle"))

\* touchActivity drops the scheduled purge of the request before.
RequestOther(s, m) ==
    /\ At(s, "idle") /\ isWarm /\ currentLoadedModel \notin {None, m}
    /\ Forget /\ isWarm' = FALSE
    /\ os' = Purged
    /\ Place(s, "switching", m, None)
    /\ Joins
    /\ UNCHANGED <<loads, crashes>>

\* Faulty: the purge scheduled after the last request stays scheduled.
RequestSameUntouched(s, m) ==
    /\ At(s, "idle") /\ isWarm /\ currentLoadedModel = m
    /\ Place(s, "checking", m, None)
    /\ Joins
    /\ UNCHANGED <<engine, system, crashes>>

RequestSame(s, m) ==
    /\ At(s, "idle") /\ isWarm /\ currentLoadedModel = m
    /\ purgeTimer' = FALSE
    /\ Place(s, "checking", m, None)
    /\ Joins
    /\ UNCHANGED <<isWarm, currentLoadedModel, activeServerProcess, system, crashes>>

RequestCold(s, m) ==
    /\ At(s, "idle") /\ ~(isWarm /\ currentLoadedModel # None)
    /\ \/ /\ purgeTimer' = FALSE
          /\ Spawn(s, m, os)
          /\ UNCHANGED <<isWarm, currentLoadedModel>>
       \/ RefuseForMemory(s)
    /\ Joins
    /\ UNCHANGED crashes

\* No file of that name on disk, or no executable: the fallback at once.
RequestUnknown(s) ==
    /\ At(s, "idle")
    /\ isWarm' = TRUE /\ purgeTimer' = FALSE
    /\ GoTo(s, "fallback")
    /\ Joins
    /\ UNCHANGED <<currentLoadedModel, activeServerProcess, system, crashes>>

\* The 600 ms after the purge of the other model have passed.
Switched(s) ==
    /\ At(s, "switching")
    /\ \/ Spawn(s, stream[s].model, os) /\ UNCHANGED <<isWarm, purgeTimer, currentLoadedModel>>
       \/ RefuseForMemory(s)
    /\ UNCHANGED <<crashes, disorder>>

CheckHealthy(s) ==
    /\ At(s, "checking") /\ Serving # {}
    /\ GoTo(s, "posting")
    /\ UNCHANGED <<engine, system, crashes, disorder>>

\* A server that is still loading answers 503: nothing is thrown, nothing
\* purged, and a second one is started.
CheckRefused(s) ==
    /\ At(s, "checking") /\ Holders # {} /\ Serving = {}
    /\ \/ Spawn(s, stream[s].model, os) /\ UNCHANGED <<isWarm, purgeTimer, currentLoadedModel>>
       \/ RefuseForMemory(s)
    /\ UNCHANGED <<crashes, disorder>>

\* Faulty: the server that does not answer is not purged.
CheckFailsUnpurged(s) ==
    /\ At(s, "checking")
    /\ Spawn(s, stream[s].model, os)
    /\ UNCHANGED <<isWarm, purgeTimer, currentLoadedModel, crashes, disorder>>

\* Nobody listens, or a busy server does not answer within 600 ms.
CheckFails(s) ==
    /\ At(s, "checking")
    /\ \/ /\ Spawn(s, stream[s].model, Purged)
          /\ isWarm' = FALSE /\ purgeTimer' = FALSE /\ currentLoadedModel' = None
       \/ RefuseForMemory(s)
    /\ UNCHANGED <<crashes, disorder>>

\* /health answers: it does not say which process, or which model, answered.
BootPoll(s) ==
    /\ At(s, "booting") /\ Serving # {}
    /\ isWarm' = TRUE /\ currentLoadedModel' = stream[s].model
    /\ GoTo(s, "posting")
    /\ UNCHANGED <<activeServerProcess, purgeTimer, system, crashes, disorder>>

\* 40 polls without an answer: the process is kept, the stream falls back.
BootTimesOut(s) ==
    /\ At(s, "booting") /\ Serving = {}
    /\ isWarm' = TRUE
    /\ GoTo(s, "fallback")
    /\ Note("late", LiveProcs # {})
    /\ UNCHANGED <<currentLoadedModel, activeServerProcess, purgeTimer, system, crashes>>

PostAnswered(s) ==
    /\ At(s, "posting")
    /\ \E p \in Serving : Place(s, "streaming", stream[s].model, p)
    /\ UNCHANGED <<engine, system, crashes, disorder>>

PostFails(s) ==
    /\ At(s, "posting") /\ Serving = {}
    /\ isWarm' = TRUE
    /\ GoTo(s, "fallback")
    /\ UNCHANGED <<currentLoadedModel, activeServerProcess, purgeTimer, system, crashes, disorder>>

StreamEnds(s) ==
    /\ At(s, "streaming") /\ stream[s].from \in Serving
    /\ purgeTimer' = TRUE
    /\ LeaveToIdle(s)
    /\ UNCHANGED <<isWarm, currentLoadedModel, activeServerProcess, system, crashes, disorder>>

\* Faulty: the reader is asked again for ever.
StreamBreaksRetrying(s) ==
    /\ At(s, "streaming") /\ stream[s].from \notin Serving
    /\ isWarm' = TRUE
    /\ UNCHANGED <<currentLoadedModel, activeServerProcess, purgeTimer, system, stream, crashes, disorder>>

\* The server read from is gone: the read throws.
StreamBreaks(s) ==
    /\ At(s, "streaming") /\ stream[s].from \notin Serving
    /\ isWarm' = TRUE
    /\ GoTo(s, "fallback")
    /\ UNCHANGED <<currentLoadedModel, activeServerProcess, purgeTimer, system, crashes, disorder>>

FallbackEnds(s) ==
    /\ At(s, "fallback")
    /\ purgeTimer' = TRUE
    /\ LeaveToIdle(s)
    /\ UNCHANGED <<isWarm, currentLoadedModel, activeServerProcess, system, crashes, disorder>>

\* The consumer returns the generator at a yield: nothing after it runs.
Abandon(s) ==
    /\ At(s, "streaming") \/ At(s, "fallback")
    /\ LeaveToIdle(s)
    /\ Note("left", TRUE)
    /\ UNCHANGED <<engine, system, crashes>>

PurgeFires ==
    /\ purgeTimer
    /\ Forget /\ isWarm' = FALSE
    /\ os' = Purged
    /\ UNCHANGED <<loads, stream, crashes, disorder>>

-----------------------------------------------------------------------------
(* The processes (external).                                               *)

Bind(p) ==
    /\ os[p] = "starting"
    /\ os' = [os EXCEPT ![p] = IF Holders = {} THEN "loading" ELSE "dead"]
    /\ UNCHANGED <<engine, loads, stream, crashes, disorder>>

Load(p) ==
    /\ os[p] = "loading"
    /\ os' = [os EXCEPT ![p] = "serving"]
    /\ UNCHANGED <<engine, loads, stream, crashes, disorder>>

Crash(p) ==
    /\ os[p] \in Alive /\ crashes < MaxCrashes
    /\ crashes' = crashes + 1
    /\ os' = [os EXCEPT ![p] = "dead"]
    /\ UNCHANGED <<engine, loads, stream, disorder>>

Step(s) ==
    \/ Switched(s)
    \/ CheckHealthy(s) \/ CheckRefused(s) \/ CheckFails(s)
    \/ BootPoll(s) \/ BootTimesOut(s)
    \/ PostAnswered(s) \/ PostFails(s)
    \/ StreamEnds(s) \/ StreamBreaks(s) \/ FallbackEnds(s)

Next ==
    \/ \E s \in Streams, m \in Models : RequestOther(s, m) \/ RequestSame(s, m) \/ RequestCold(s, m)
    \/ \E s \in Streams : RequestUnknown(s) \/ Step(s) \/ Abandon(s)
    \/ PurgeFires
    \/ \E p \in Procs : Bind(p) \/ Load(p) \/ Crash(p)

\* A suspended stream is resumed: its timer fires, its request is answered or
\* refused, a server ends its answer (max_tokens) and finishes loading.
Fairness ==
    /\ \A s \in Streams : WF_vars(Step(s))
    /\ \A p \in Procs : WF_vars(Bind(p)) /\ WF_vars(Load(p))

Spec == Init /\ [][Next]_vars /\ Fairness

-----------------------------------------------------------------------------
(* Properties.                                                             *)

TypeOK ==
    /\ isWarm \in BOOLEAN /\ purgeTimer \in BOOLEAN
    /\ currentLoadedModel \in Models \cup {None}
    /\ activeServerProcess \in Procs \cup {None}
    /\ os \in [Procs -> Alive \cup {"dead"}]
    /\ loads \in [Procs -> Models \cup {None}]
    /\ stream \in [Streams -> [at : Places, model : Models \cup {None}, from : Procs \cup {None}]]
    /\ \A s \in Streams : At(s, "streaming") <=> stream[s].from # None
    /\ crashes \in 0..MaxCrashes
    /\ disorder \subseteq Disorders

NoneOf(what) == disorder \cap what = {}

\* Whatever is alive is the process forcePurge would kill.
OnlyKnownAlive == LiveProcs \subseteq {activeServerProcess}

\* As long as no two streams overlapped and no model was late, no process
\* outlives the engine's knowledge of it, through switches of model, crashes,
\* unanswered checks, low memory and consumers that leave.
NoOrphan == NoneOf({"overlap", "late"}) => OnlyKnownAlive

\* "Memory returned 100% to OS (0 MB lingering)" (docs/ARCHITECTURE.md): the
\* same whatever happened.
NeverOrphan == OnlyKnownAlive

\* The scheduled purge comes in the silence after a request, not while a stream
\* is in progress, as long as streams do not overlap.
PurgeInSilence ==
    [][PurgeFires /\ NoneOf({"overlap"}) => \A s \in Streams : At(s, "idle")]_vars

\* Every request gets an answer, of the model or of the fallback, whatever
\* servers, other streams and consumers do.
EveryRequestEnds == \A s \in Streams : ~At(s, "idle") ~> At(s, "idle")
=============================================================================
