---------------------------- MODULE RuntimeProofs ----------------------------
(***************************************************************************)
(* The runtime of the local models, for any number of streams, models,     *)
(* processes, crashes, events and calls: the warm engine (WarmPurge), the  *)
(* budget it follows (ResourceBudget) and the micro-agents (WasmAgents).   *)
(***************************************************************************)
EXTENDS WarmPurge, ResourceBudget, WasmAgents, SequenceTheorems, TLAPS

-----------------------------------------------------------------------------
(* NoOrphan is not inductive: a stream that starts a second server is only *)
(* harmless because nothing is alive when it does, and that depends on     *)
(* what the engine remembers and on where the one stream in progress is.   *)

Idle(s) == At(s, "idle")

\* Without an overlap at most one stream is in progress.
OneAtATime ==
    NoneOf({"overlap"}) => \A r, s \in Streams : ~Idle(r) /\ ~Idle(s) => r = s

\* Without an overlap a purge is scheduled only while no stream is in progress.
TimerInSilence ==
    NoneOf({"overlap"}) /\ purgeTimer => \A s \in Streams : Idle(s)

\* An engine that is not warm has forgotten its model.
ColdForgets == ~isWarm => currentLoadedModel = None

Booting == \E s \in Streams : At(s, "booting")

\* Only the remembered process lives; unless a stream waits for it to boot, it
\* serves, and lives only if its model is remembered; nothing lives while a stream
\* waits between two models.
Tidy ==
    NoneOf({"overlap", "late"}) =>
        /\ OnlyKnownAlive
        /\ Booting \/ LiveProcs \subseteq Serving
        /\ currentLoadedModel = None => Booting \/ LiveProcs = {}
        /\ (\E s \in Streams : At(s, "switching")) => LiveProcs = {}

\* A stream on its way to a server knows the model it asked for.
Asked ==
    \A s \in Streams : stream[s].at \in {"switching", "checking", "booting"} => stream[s].model # None

WarmInv == TypeOK /\ OneAtATime /\ TimerInSilence /\ ColdForgets /\ Asked /\ Tidy

-----------------------------------------------------------------------------
(* Types *)

\* What Place makes of the streams.
LEMMA PlaceTyped ==
    ASSUME TypeOK, NEW s \in Streams, NEW place \in Places,
           NEW m \in Models \cup {None}, NEW p \in Procs \cup {None},
           Place(s, place, m, p), place = "streaming" <=> p # None
    PROVE  /\ stream' \in [Streams -> [at : Places, model : Models \cup {None}, from : Procs \cup {None}]]
           /\ \A r \in Streams : stream'[r].at = "streaming" <=> stream'[r].from # None
           /\ stream'[s].at = place
           /\ \A r \in Streams : r # s => stream'[r] = stream[r]
BY DEF Place, TypeOK, At

\* The model of a stream that has one.
LEMMA StreamTyped ==
    ASSUME TypeOK, NEW s \in Streams
    PROVE  stream[s].model \in Models \cup {None} /\ stream[s].at \in Places
BY DEF TypeOK

\* A server that is started.
LEMMA SpawnTyped ==
    ASSUME TypeOK, NEW s \in Streams, NEW m \in Models \cup {None},
           NEW procs \in [Procs -> Alive \cup {"dead"}], Spawn(s, m, procs)
    PROVE  /\ os' \in [Procs -> Alive \cup {"dead"}]
           /\ loads' \in [Procs -> Models \cup {None}]
           /\ activeServerProcess' \in Procs
           /\ Place(s, "booting", m, None)
           /\ \A p \in Procs : os'[p] \in Alive => p = activeServerProcess' \/ procs[p] \in Alive
BY DEF Spawn, TypeOK, Alive

\* A purge.
LEMMA PurgedTyped ==
    ASSUME TypeOK
    PROVE  /\ Purged \in [Procs -> Alive \cup {"dead"}]
           /\ \A p \in Procs : Purged[p] \in Alive => os[p] \in Alive /\ p # activeServerProcess
BY WarmAssumption DEF Purged, TypeOK, Alive

\* Notes are disorders.
LEMMA NoteTyped ==
    ASSUME TypeOK, NEW what \in Disorders, NEW happens \in BOOLEAN, Note(what, happens)
    PROVE  disorder' \subseteq Disorders /\ disorder \subseteq disorder' /\ (happens => what \in disorder')
BY DEF TypeOK, Note

\* Every step keeps the types.
LEMMA WarmTypeNext ==
    ASSUME TypeOK, [Next]_vars
    PROVE  TypeOK'
<1> USE WarmAssumption
<1> DEFINE Streaming == \A r \in Streams : stream'[r].at = "streaming" <=> stream'[r].from # None
<1>0. ASSUME isWarm' \in BOOLEAN, purgeTimer' \in BOOLEAN,
             currentLoadedModel' \in Models \cup {None},
             activeServerProcess' \in Procs \cup {None},
             os' \in [Procs -> Alive \cup {"dead"}],
             loads' \in [Procs -> Models \cup {None}],
             stream' \in [Streams -> [at : Places, model : Models \cup {None}, from : Procs \cup {None}]],
             Streaming,
             crashes' \in 0..MaxCrashes, disorder' \subseteq Disorders
      PROVE  TypeOK'
  BY <1>0 DEF TypeOK, At
<1>1. ASSUME NEW s \in Streams, RefuseForMemory(s), crashes' = crashes, disorder' \subseteq Disorders
      PROVE  TypeOK'
  <2>1. Place(s, "fallback", stream[s].model, None)
    BY <1>1 DEF RefuseForMemory
  <2>2. Streaming /\ stream' \in [Streams -> [at : Places, model : Models \cup {None}, from : Procs \cup {None}]]
    BY <2>1, PlaceTyped, StreamTyped DEF Places
  <2> QED
    BY <1>0, <1>1, <2>2, PurgedTyped DEF RefuseForMemory, Forget, TypeOK
<1>2. ASSUME NEW s \in Streams, NEW m \in Models \cup {None},
             NEW procs \in [Procs -> Alive \cup {"dead"}], Spawn(s, m, procs),
             isWarm' \in BOOLEAN, purgeTimer' \in BOOLEAN, currentLoadedModel' \in Models \cup {None},
             crashes' = crashes, disorder' \subseteq Disorders
      PROVE  TypeOK'
  <2>1. Place(s, "booting", m, None)
    BY <1>2, SpawnTyped
  <2>2. Streaming /\ stream' \in [Streams -> [at : Places, model : Models \cup {None}, from : Procs \cup {None}]]
    BY <2>1, PlaceTyped DEF Places
  <2> QED
    BY <1>0, <1>2, <2>2, SpawnTyped DEF TypeOK
<1>3. ASSUME NEW s \in Streams, NEW place \in Places \ {"streaming"}, NEW m \in Models \cup {None},
             Place(s, place, m, None), UNCHANGED <<system, crashes>>,
             isWarm' \in BOOLEAN, purgeTimer' \in BOOLEAN, currentLoadedModel' \in Models \cup {None},
             activeServerProcess' = activeServerProcess, disorder' \subseteq Disorders
      PROVE  TypeOK'
  <2>1. Streaming /\ stream' \in [Streams -> [at : Places, model : Models \cup {None}, from : Procs \cup {None}]]
    BY <1>3, PlaceTyped
  <2> QED
    BY <1>0, <1>3, <2>1 DEF TypeOK, system
<1>4. ASSUME NEW s \in Streams, NEW m \in Models,
             RequestOther(s, m) \/ RequestSame(s, m) \/ RequestCold(s, m)
      PROVE  TypeOK'
  <2>0. disorder' \subseteq Disorders
    BY <1>4, NoteTyped DEF RequestOther, RequestSame, RequestCold, Joins, Disorders
  <2>1. CASE RequestOther(s, m)
    <3>1. Place(s, "switching", m, None)
      BY <2>1 DEF RequestOther
    <3>2. Streaming /\ stream' \in [Streams -> [at : Places, model : Models \cup {None}, from : Procs \cup {None}]]
      BY <3>1, PlaceTyped DEF Places
    <3> QED
      BY <1>0, <2>0, <2>1, <3>2, PurgedTyped DEF RequestOther, Forget, TypeOK
  <2>2. CASE RequestSame(s, m)
    BY <1>3, <2>0, <2>2 DEF RequestSame, Places, TypeOK
  <2>3. CASE RequestCold(s, m)
    BY <1>1, <1>2, <2>0, <2>3 DEF RequestCold, TypeOK
  <2> QED
    BY <1>4, <2>1, <2>2, <2>3
<1>5. ASSUME NEW s \in Streams, RequestUnknown(s) PROVE TypeOK'
  <2>1. disorder' \subseteq Disorders
    BY <1>5, NoteTyped DEF RequestUnknown, Joins, Disorders
  <2> QED
    BY <1>3, <1>5, <2>1, StreamTyped DEF RequestUnknown, GoTo, Places, TypeOK
<1>6. ASSUME NEW s \in Streams, Switched(s) \/ CheckRefused(s) \/ CheckFails(s) PROVE TypeOK'
  <2>1. stream[s].model \in Models \cup {None} /\ os \in [Procs -> Alive \cup {"dead"}]
        /\ Purged \in [Procs -> Alive \cup {"dead"}]
    BY StreamTyped, PurgedTyped DEF TypeOK
  <2>2. crashes' = crashes /\ disorder' \subseteq Disorders
    BY <1>6 DEF Switched, CheckRefused, CheckFails, TypeOK
  <2>3. CASE RefuseForMemory(s)
    BY <1>1, <2>2, <2>3
  <2>4. CASE ~RefuseForMemory(s)
    BY <1>2, <1>6, <2>1, <2>2, <2>4 DEF Switched, CheckRefused, CheckFails, TypeOK
  <2> QED
    BY <2>3, <2>4
<1>7. ASSUME NEW s \in Streams, CheckHealthy(s) \/ PostFails(s) \/ StreamBreaks(s) PROVE TypeOK'
  BY <1>3, <1>7, StreamTyped DEF CheckHealthy, PostFails, StreamBreaks, GoTo, engine, Places, TypeOK
<1>8. ASSUME NEW s \in Streams, BootPoll(s) PROVE TypeOK'
  BY <1>3, <1>8, StreamTyped DEF BootPoll, GoTo, Places, TypeOK
<1>9. ASSUME NEW s \in Streams, BootTimesOut(s) PROVE TypeOK'
  <2>1. disorder' \subseteq Disorders
    BY <1>9, NoteTyped DEF BootTimesOut, Disorders
  <2> QED
    BY <1>3, <1>9, <2>1, StreamTyped DEF BootTimesOut, GoTo, Places, TypeOK
<1>10. ASSUME NEW s \in Streams, PostAnswered(s) PROVE TypeOK'
  <2>1. PICK p \in Procs : Place(s, "streaming", stream[s].model, p)
    BY <1>10 DEF PostAnswered, Serving
  <2>2. Streaming /\ stream' \in [Streams -> [at : Places, model : Models \cup {None}, from : Procs \cup {None}]]
    BY <2>1, PlaceTyped, StreamTyped DEF Places
  <2> QED
    BY <1>0, <1>10, <2>2 DEF PostAnswered, TypeOK, engine, system
<1>11. ASSUME NEW s \in Streams, StreamEnds(s) \/ FallbackEnds(s) PROVE TypeOK'
  BY <1>3, <1>11 DEF StreamEnds, FallbackEnds, LeaveToIdle, Places, TypeOK
<1>12. ASSUME NEW s \in Streams, Abandon(s) PROVE TypeOK'
  <2>1. disorder' \subseteq Disorders
    BY <1>12, NoteTyped DEF Abandon, Disorders
  <2> QED
    BY <1>3, <1>12, <2>1 DEF Abandon, LeaveToIdle, Places, TypeOK, engine
<1>13. CASE PurgeFires
  BY <1>13, PurgedTyped DEF PurgeFires, Forget, TypeOK, At
<1>14. ASSUME NEW p \in Procs, Bind(p) \/ Load(p) \/ Crash(p) PROVE TypeOK'
  BY <1>14 DEF Bind, Load, Crash, TypeOK, At, engine, Alive
<1>15. CASE UNCHANGED vars
  BY <1>15 DEF vars, engine, system, TypeOK, At
<1> QED
  BY <1>4, <1>5, <1>6, <1>7, <1>8, <1>9, <1>10, <1>11, <1>12, <1>13, <1>14, <1>15 DEF Next, Step

-----------------------------------------------------------------------------
(* Where the streams are, and the timer *)

Others(s) == \A r \in Streams : r # s => stream'[r] = stream[r]

\* A request: a stream begins, what is in progress is noted, no purge is scheduled.
Begins(s) ==
    /\ Idle(s) /\ Others(s)
    /\ Joins /\ disorder \subseteq disorder'
    /\ ~purgeTimer'

\* A stream goes on, and schedules a purge only as it ends.
GoesOn(s) ==
    /\ ~Idle(s) /\ Others(s)
    /\ disorder \subseteq disorder'
    /\ purgeTimer' => purgeTimer \/ stream'[s].at = "idle"

\* The timer, or a process.
Elsewhere == UNCHANGED <<stream, disorder>> /\ (purgeTimer' => purgeTimer)

\* What Place leaves alone.
LEMMA PlaceMoves ==
    ASSUME TypeOK, NEW s \in Streams, NEW place, NEW m, NEW p, Place(s, place, m, p)
    PROVE  Others(s) /\ stream'[s].at = place /\ stream'[s].model = m
BY DEF Place, TypeOK, Others

\* A server that is started, for a stream that then boots.
LEMMA SpawnMoves ==
    ASSUME TypeOK, NEW s \in Streams, NEW m, NEW procs, Spawn(s, m, procs)
    PROVE  Others(s) /\ stream'[s].at = "booting"
BY PlaceMoves DEF Spawn

\* Every step is one of the three.
LEMMA StepShape ==
    ASSUME TypeOK, [Next]_vars
    PROVE  \/ \E s \in Streams : Begins(s) \/ GoesOn(s)
           \/ Elsewhere
<1>1. ASSUME NEW s \in Streams, RefuseForMemory(s)
      PROVE  Others(s) /\ stream'[s].at = "fallback" /\ ~purgeTimer'
  BY <1>1, PlaceMoves DEF RefuseForMemory, Forget
<1>2. ASSUME Joins PROVE disorder \subseteq disorder'
  BY <1>2 DEF Joins, Note
<1>3. ASSUME NEW s \in Streams, NEW m \in Models,
             RequestOther(s, m) \/ RequestSame(s, m) \/ RequestCold(s, m)
      PROVE  Begins(s)
  <2>1. CASE RequestOther(s, m)
    BY <1>2, <2>1, PlaceMoves DEF RequestOther, Begins, Idle, Forget
  <2>2. CASE RequestSame(s, m)
    BY <1>2, <2>2, PlaceMoves DEF RequestSame, Begins, Idle
  <2>3. CASE RequestCold(s, m)
    BY <1>1, <1>2, <2>3, SpawnMoves DEF RequestCold, Begins, Idle
  <2> QED
    BY <1>3, <2>1, <2>2, <2>3
<1>4. ASSUME NEW s \in Streams, RequestUnknown(s) PROVE Begins(s)
  BY <1>2, <1>4, PlaceMoves DEF RequestUnknown, GoTo, Begins, Idle
<1>5. ASSUME NEW s \in Streams, Switched(s) \/ CheckRefused(s) \/ CheckFails(s) PROVE GoesOn(s)
  <2>1. ~Idle(s) /\ disorder' = disorder
    BY <1>5 DEF Switched, CheckRefused, CheckFails, At, Idle
  <2>2. Others(s) /\ (purgeTimer' => purgeTimer)
    BY <1>1, <1>5, SpawnMoves DEF Switched, CheckRefused, CheckFails
  <2> QED
    BY <2>1, <2>2 DEF GoesOn
<1>6. ASSUME NEW s \in Streams, CheckHealthy(s) \/ PostFails(s) \/ StreamBreaks(s) \/ BootPoll(s)
      PROVE  GoesOn(s)
  BY <1>6, PlaceMoves DEF CheckHealthy, PostFails, StreamBreaks, BootPoll, GoTo, GoesOn, Idle, At, engine
<1>7. ASSUME NEW s \in Streams, BootTimesOut(s) PROVE GoesOn(s)
  BY <1>7, PlaceMoves DEF BootTimesOut, GoTo, Note, GoesOn, Idle, At
<1>8. ASSUME NEW s \in Streams, PostAnswered(s) PROVE GoesOn(s)
  <2>1. PICK p \in Serving : Place(s, "streaming", stream[s].model, p)
    BY <1>8 DEF PostAnswered
  <2> QED
    BY <1>8, <2>1, PlaceMoves DEF PostAnswered, GoesOn, Idle, At, engine
<1>9. ASSUME NEW s \in Streams, StreamEnds(s) \/ FallbackEnds(s) \/ Abandon(s) PROVE GoesOn(s)
  BY <1>9, PlaceMoves DEF StreamEnds, FallbackEnds, Abandon, LeaveToIdle, Note, GoesOn, Idle, At
<1>10. CASE PurgeFires
  BY <1>10 DEF PurgeFires, Forget, Elsewhere
<1>11. ASSUME NEW p \in Procs, Bind(p) \/ Load(p) \/ Crash(p) PROVE Elsewhere
  BY <1>11 DEF Bind, Load, Crash, engine, Elsewhere
<1>12. CASE UNCHANGED vars
  BY <1>12 DEF vars, engine, Elsewhere
<1> QED
  BY <1>3, <1>4, <1>5, <1>6, <1>7, <1>8, <1>9, <1>10, <1>11, <1>12 DEF Next, Step

\* Every step keeps one stream at a time, and the timer in the silence.
LEMMA OneAtATimeNext ==
    ASSUME TypeOK, OneAtATime, TimerInSilence, [Next]_vars
    PROVE  OneAtATime' /\ TimerInSilence'
<1>1. ASSUME NEW s \in Streams, Begins(s) PROVE OneAtATime' /\ TimerInSilence'
  <2>1. ASSUME NoneOf({"overlap"})' PROVE \A r \in Streams : Idle(r)
    BY <1>1, <2>1 DEF Begins, Joins, Note, NoneOf, Idle, At
  <2>2. OneAtATime'
    BY <1>1, <2>1 DEF Begins, Others, OneAtATime, Idle, At
  <2> QED
    BY <1>1, <2>2 DEF Begins, TimerInSilence
<1>2. ASSUME NEW s \in Streams, GoesOn(s) PROVE OneAtATime' /\ TimerInSilence'
  <2>1. NoneOf({"overlap"})' => NoneOf({"overlap"})
    BY <1>2 DEF GoesOn, NoneOf
  <2>2. ASSUME NoneOf({"overlap"}), NEW r \in Streams, r # s PROVE Idle(r) /\ Idle(r)'
    BY <1>2, <2>2 DEF GoesOn, Others, OneAtATime, Idle, At
  <2>3. OneAtATime'
    BY <2>1, <2>2 DEF OneAtATime
  <2>4. ASSUME NoneOf({"overlap"})', purgeTimer' PROVE Idle(s)'
    <3>1. ~purgeTimer
      BY <1>2, <2>1, <2>4 DEF GoesOn, TimerInSilence
    <3> QED
      BY <1>2, <2>4, <3>1 DEF GoesOn, Idle, At
  <2> QED
    BY <2>1, <2>2, <2>3, <2>4 DEF TimerInSilence
<1>3. CASE Elsewhere
  BY <1>3 DEF Elsewhere, OneAtATime, TimerInSilence, NoneOf, Idle, At
<1> QED
  BY <1>1, <1>2, <1>3, StepShape

\* Every step keeps an engine that is not warm without a model.
LEMMA ColdNext ==
    ASSUME ColdForgets, [Next]_vars
    PROVE  ColdForgets'
BY DEF ColdForgets, Next, Step, RequestOther, RequestSame, RequestCold, RequestUnknown, Switched,
       CheckHealthy, CheckRefused, CheckFails, BootPoll, BootTimesOut, PostAnswered, PostFails,
       StreamEnds, StreamBreaks, FallbackEnds, Abandon, PurgeFires, Bind, Load, Crash,
       RefuseForMemory, Forget, vars, engine

-----------------------------------------------------------------------------
(* The processes *)

Clean == NoneOf({"overlap", "late"})

\* While all is clean, a step with nothing alive after it keeps Tidy.
LEMMA NothingAlive ==
    ASSUME LiveProcs' = {}
    PROVE  Tidy'
BY DEF Tidy, OnlyKnownAlive

\* What a purge of the known process leaves alive: nothing.
LEMMA PurgeKillsAll ==
    ASSUME TypeOK, OnlyKnownAlive
    PROVE  \A p \in Procs : Purged[p] \notin Alive
BY PurgedTyped DEF OnlyKnownAlive, LiveProcs

\* A server started when nothing lives is the only one, and its stream boots.
LEMMA SpawnAlone ==
    ASSUME TypeOK, NEW s \in Streams, NEW m \in Models \cup {None},
           NEW procs \in [Procs -> Alive \cup {"dead"}], Spawn(s, m, procs),
           \A p \in Procs : procs[p] \notin Alive,
           (\E r \in Streams : At(r, "switching"))' => FALSE
    PROVE  Tidy'
<1>1. Booting'
  BY SpawnMoves DEF Booting, At
<1>2. OnlyKnownAlive'
  BY SpawnTyped DEF OnlyKnownAlive, LiveProcs
<1> QED
  BY <1>1, <1>2 DEF Tidy

\* A step that starts, kills and forgets nothing, and moves no stream into or out
\* of "booting" and "switching".
LEMMA TidyKept ==
    ASSUME Tidy, UNCHANGED <<activeServerProcess, currentLoadedModel, os>>,
           disorder \subseteq disorder',
           \A r \in Streams : /\ At(r, "booting")' <=> At(r, "booting")
                              /\ At(r, "switching")' => At(r, "switching")
    PROVE  Tidy'
<1>1. Clean' => Clean
  BY DEF Clean, NoneOf
<1>2. LiveProcs' = LiveProcs /\ Serving' = Serving /\ (OnlyKnownAlive' <=> OnlyKnownAlive)
  BY DEF LiveProcs, Serving, OnlyKnownAlive
<1>3. (Booting' <=> Booting) /\ ((\E r \in Streams : At(r, "switching"))' => \E r \in Streams : At(r, "switching"))
  BY DEF Booting
<1> QED
  BY <1>1, <1>2, <1>3 DEF Tidy, Clean

\* Every step keeps the model of a stream on its way.
LEMMA AskedNext ==
    ASSUME TypeOK, Asked, [Next]_vars
    PROVE  Asked'
<1> DEFINE OnItsWay == {"switching", "checking", "booting"}
<1>1. ASSUME NEW s \in Streams, Others(s),
             stream'[s].at \in OnItsWay => stream'[s].model # None
      PROVE  Asked'
  BY <1>1 DEF Others, Asked
<1>2. ASSUME NEW s \in Streams, RefuseForMemory(s) PROVE Asked'
  BY <1>1, <1>2, PlaceMoves DEF RefuseForMemory
<1>3. ASSUME NEW s \in Streams, NEW m, NEW procs, m # None, Spawn(s, m, procs) PROVE Asked'
  <2>1. Others(s) /\ stream'[s].model = m
    BY <1>3, PlaceMoves DEF Spawn
  <2> QED
    BY <1>1, <1>3, <2>1
<1>4. ASSUME NEW s \in Streams, NEW m \in Models,
             RequestOther(s, m) \/ RequestSame(s, m) \/ RequestCold(s, m)
      PROVE  Asked'
  <2>1. m # None
    BY WarmAssumption
  <2>2. CASE RequestOther(s, m) \/ RequestSame(s, m)
    BY <1>1, <2>1, <2>2, PlaceMoves DEF RequestOther, RequestSame
  <2>3. CASE RequestCold(s, m)
    BY <1>2, <1>3, <2>1, <2>3 DEF RequestCold
  <2> QED
    BY <1>4, <2>2, <2>3
<1>5. ASSUME NEW s \in Streams, Switched(s) \/ CheckRefused(s) \/ CheckFails(s) PROVE Asked'
  <2>1. stream[s].model # None
    BY <1>5 DEF Switched, CheckRefused, CheckFails, At, Asked
  <2> QED
    BY <1>2, <1>3, <1>5, <2>1 DEF Switched, CheckRefused, CheckFails
<1>6. ASSUME NEW s \in Streams,
             \/ RequestUnknown(s) \/ CheckHealthy(s) \/ PostFails(s) \/ StreamBreaks(s)
             \/ BootPoll(s) \/ BootTimesOut(s) \/ StreamEnds(s) \/ FallbackEnds(s) \/ Abandon(s)
      PROVE  Asked'
  <2>1. \E place \in {"fallback", "posting", "idle"}, m \in Models \cup {None} : Place(s, place, m, None)
    BY <1>6, StreamTyped DEF RequestUnknown, CheckHealthy, PostFails, StreamBreaks, BootPoll, BootTimesOut,
       StreamEnds, FallbackEnds, Abandon, GoTo, LeaveToIdle
  <2> QED
    BY <1>1, <2>1, PlaceMoves
<1>7. ASSUME NEW s \in Streams, PostAnswered(s) PROVE Asked'
  <2>1. PICK p \in Serving : Place(s, "streaming", stream[s].model, p)
    BY <1>7 DEF PostAnswered
  <2> QED
    BY <1>1, <2>1, PlaceMoves
<1>8. CASE PurgeFires \/ (\E p \in Procs : Bind(p) \/ Load(p) \/ Crash(p)) \/ UNCHANGED vars
  BY <1>8 DEF PurgeFires, Bind, Load, Crash, vars, Asked
<1> QED
  BY <1>4, <1>5, <1>6, <1>7, <1>8 DEF Next, Step

\* The stream that makes a step is the only one in progress while all is clean.
LEMMA OthersIdle ==
    ASSUME OneAtATime, Clean, NEW s \in Streams, ~Idle(s), NEW r \in Streams, r # s
    PROVE  Idle(r)
BY DEF OneAtATime, Clean, NoneOf

\* A request that finds all clean, and leaves it so, finds no stream in progress.
LEMMA RequestFindsSilence ==
    ASSUME Joins, Clean'
    PROVE  Clean /\ \A r \in Streams : Idle(r)
BY DEF Joins, Note, Clean, NoneOf, Idle

\* Every step of a stream keeps the processes tidy.
LEMMA TidyRequests ==
    ASSUME WarmInv, Clean', NEW s \in Streams,
           \/ \E m \in Models : RequestOther(s, m) \/ RequestSame(s, m) \/ RequestCold(s, m)
           \/ RequestUnknown(s)
    PROVE  Tidy'
<1> USE DEF WarmInv
<1>1. Joins /\ disorder \subseteq disorder'
  BY DEF RequestOther, RequestSame, RequestCold, RequestUnknown, Joins, Note
<1>2. Clean /\ \A r \in Streams : Idle(r)
  BY <1>1, RequestFindsSilence
<1>3. ~Booting /\ OnlyKnownAlive /\ LiveProcs \subseteq Serving
      /\ (currentLoadedModel = None => LiveProcs = {})
  BY <1>2 DEF Tidy, Clean, Booting, Idle, At
<1>4. \A p \in Procs : Purged[p] \notin Alive
  BY <1>3, PurgeKillsAll
<1>5. ASSUME RefuseForMemory(s) PROVE Tidy'
  BY <1>4, <1>5, NothingAlive DEF RefuseForMemory, LiveProcs
<1>6. CASE \E m \in Models : RequestOther(s, m)
  BY <1>4, <1>6, NothingAlive DEF RequestOther, LiveProcs
<1>7. CASE \E m \in Models : RequestSame(s, m)
  <2>1. PICK m \in Models : RequestSame(s, m)
    BY <1>7
  <2>2. Others(s) /\ stream'[s].at = "checking"
    BY <2>1, PlaceMoves DEF RequestSame
  <2>3. \A r \in Streams : ~At(r, "booting")' /\ ~At(r, "switching")'
    BY <1>2, <2>2 DEF Others, At, Idle
  <2>4. \A r \in Streams : ~At(r, "booting")
    BY <1>3 DEF Booting
  <2> QED
    BY <1>1, <2>1, <2>3, <2>4, TidyKept DEF RequestSame, system
<1>8. CASE \E m \in Models : RequestCold(s, m)
  <2>1. PICK m \in Models : RequestCold(s, m)
    BY <1>8
  <2>2. currentLoadedModel = None /\ LiveProcs = {}
    BY <1>3, <2>1 DEF RequestCold, ColdForgets
  <2>3. CASE Spawn(s, m, os)
    <3>1. \A r \in Streams : ~At(r, "switching")'
      BY <1>2, <2>3, SpawnMoves DEF Others, At, Idle
    <3>2. os \in [Procs -> Alive \cup {"dead"}] /\ \A p \in Procs : os[p] \notin Alive
      BY <2>2 DEF TypeOK, LiveProcs
    <3> QED
      BY <2>3, <3>1, <3>2, SpawnAlone
  <2> QED
    BY <1>5, <2>1, <2>3 DEF RequestCold
<1>9. CASE RequestUnknown(s)
  <2>2. Others(s) /\ stream'[s].at = "fallback"
    BY <1>9, PlaceMoves DEF RequestUnknown, GoTo
  <2>3. \A r \in Streams : ~At(r, "booting")' /\ ~At(r, "switching")'
    BY <1>2, <2>2 DEF Others, At, Idle
  <2>4. \A r \in Streams : ~At(r, "booting")
    BY <1>3 DEF Booting
  <2> QED
    BY <1>1, <1>9, <2>3, <2>4, TidyKept DEF RequestUnknown, system
<1> QED
  BY <1>6, <1>7, <1>8, <1>9

\* The steps between a request and its answer that start a server.
LEMMA TidyServers ==
    ASSUME WarmInv, Clean', NEW s \in Streams, Switched(s) \/ CheckRefused(s) \/ CheckFails(s)
    PROVE  Tidy'
<1> USE DEF WarmInv
<1>1. Clean /\ ~Idle(s)
  BY DEF Switched, CheckRefused, CheckFails, Clean, NoneOf, Idle, At
<1>2. \A r \in Streams : r # s => Idle(r)
  BY <1>1, OthersIdle
<1>3. OnlyKnownAlive /\ (Booting \/ LiveProcs \subseteq Serving)
      /\ ((\E r \in Streams : At(r, "switching")) => LiveProcs = {})
  BY <1>1 DEF Tidy, Clean
<1>4. \A p \in Procs : Purged[p] \notin Alive
  BY <1>3, PurgeKillsAll
<1>5. ASSUME RefuseForMemory(s) PROVE Tidy'
  BY <1>4, <1>5, NothingAlive DEF RefuseForMemory, LiveProcs
<1>6. ASSUME NEW procs \in [Procs -> Alive \cup {"dead"}], Spawn(s, stream[s].model, procs),
             \A p \in Procs : procs[p] \notin Alive
      PROVE  Tidy'
  <2>1. \A r \in Streams : ~At(r, "switching")'
    BY <1>2, <1>6, SpawnMoves DEF Others, At, Idle
  <2> QED
    BY <1>6, <2>1, SpawnAlone, StreamTyped
<1>7. CASE Switched(s)
  <2>1. os \in [Procs -> Alive \cup {"dead"}] /\ \A p \in Procs : os[p] \notin Alive
    BY <1>3, <1>7 DEF Switched, TypeOK, LiveProcs
  <2> QED
    BY <1>5, <1>6, <1>7, <2>1 DEF Switched
<1>8. CASE CheckRefused(s)
  <2>1. ~Booting
    BY <1>2, <1>8 DEF CheckRefused, Booting, At, Idle
  <2>2. Holders \subseteq Serving
    BY <1>3, <2>1 DEF Holders, LiveProcs, Serving, Alive
  <2> QED
    BY <1>8, <2>2 DEF CheckRefused
<1>9. CASE CheckFails(s)
  BY <1>4, <1>5, <1>6, <1>9, PurgedTyped DEF CheckFails
<1> QED
  BY <1>7, <1>8, <1>9

\* The end of a boot.
LEMMA TidyBoot ==
    ASSUME WarmInv, Clean', NEW s \in Streams, BootPoll(s) \/ BootTimesOut(s)
    PROVE  Tidy'
<1> USE DEF WarmInv
<1>1. CASE BootPoll(s)
  <2>1. Clean /\ OnlyKnownAlive /\ ~Idle(s)
    BY <1>1 DEF BootPoll, Clean, NoneOf, Tidy, Idle, At
  <2>2. \A r \in Streams : ~At(r, "switching")'
    BY <1>1, <2>1, OthersIdle, PlaceMoves DEF BootPoll, GoTo, Others, At, Idle
  <2>3. LiveProcs \subseteq Serving
    BY <1>1, <2>1 DEF BootPoll, OnlyKnownAlive, LiveProcs, Serving, Alive
  <2>4. currentLoadedModel' # None
    BY <1>1 DEF BootPoll, Asked, At
  <2>5. LiveProcs' = LiveProcs /\ Serving' = Serving /\ (OnlyKnownAlive' <=> OnlyKnownAlive)
    BY <1>1 DEF BootPoll, system, LiveProcs, Serving, OnlyKnownAlive
  <2> QED
    BY <2>1, <2>2, <2>3, <2>4, <2>5 DEF Tidy
<1>2. CASE BootTimesOut(s)
  <2>1. LiveProcs = {}
    BY <1>2 DEF BootTimesOut, Note, Clean, NoneOf
  <2> QED
    BY <1>2, <2>1, NothingAlive DEF BootTimesOut, system, LiveProcs
<1> QED
  BY <1>1, <1>2

\* The steps that only move a stream.
LEMMA TidyMoves ==
    ASSUME WarmInv, NEW s \in Streams,
           \/ CheckHealthy(s) \/ PostAnswered(s) \/ PostFails(s)
           \/ StreamEnds(s) \/ StreamBreaks(s) \/ FallbackEnds(s) \/ Abandon(s)
    PROVE  Tidy'
<1> USE DEF WarmInv
<1>1. \E place \in {"fallback", "posting", "idle", "streaming"}, m \in Models \cup {None},
         p \in Procs \cup {None} : Place(s, place, m, p)
  BY StreamTyped DEF CheckHealthy, PostAnswered, PostFails, StreamEnds, StreamBreaks, FallbackEnds,
     Abandon, GoTo, LeaveToIdle, Serving
<1>2. Others(s) /\ stream'[s].at \in {"fallback", "posting", "idle", "streaming"}
  BY <1>1, PlaceMoves
<1>3. stream[s].at # "booting"
  BY DEF CheckHealthy, PostAnswered, PostFails, StreamEnds, StreamBreaks, FallbackEnds, Abandon, At
<1>4. \A r \in Streams : /\ At(r, "booting")' <=> At(r, "booting")
                         /\ At(r, "switching")' => At(r, "switching")
  BY <1>2, <1>3 DEF Others, At
<1>5. UNCHANGED <<activeServerProcess, currentLoadedModel, os>> /\ disorder \subseteq disorder'
  BY DEF CheckHealthy, PostAnswered, PostFails, StreamEnds, StreamBreaks, FallbackEnds, Abandon,
     Note, engine, system
<1> QED
  BY <1>4, <1>5, TidyKept

\* The steps of the processes.
LEMMA TidyProcesses ==
    ASSUME WarmInv, NEW p \in Procs, Bind(p) \/ Load(p) \/ Crash(p)
    PROVE  Tidy'
<1> USE DEF WarmInv
<1>1. SUFFICES ASSUME Clean PROVE Tidy'
  BY DEF Bind, Load, Crash, Tidy, Clean, NoneOf
<1>2. UNCHANGED <<activeServerProcess, currentLoadedModel, stream>>
  BY DEF Bind, Load, Crash, engine
<1>3. os[p] \in Alive /\ LiveProcs' \subseteq LiveProcs /\ LiveProcs # {}
  BY DEF Bind, Load, Crash, LiveProcs, Alive, TypeOK
<1>4. OnlyKnownAlive'
  BY <1>1, <1>2, <1>3 DEF Tidy, Clean, OnlyKnownAlive
<1>5. ~\E s \in Streams : At(s, "switching")'
  BY <1>1, <1>2, <1>3 DEF Tidy, Clean, At
<1>6. CASE Booting
  BY <1>2, <1>4, <1>5, <1>6 DEF Tidy, Booting, At
<1>7. CASE ~Booting
  <2>1. LiveProcs \subseteq Serving /\ currentLoadedModel # None
    BY <1>1, <1>3, <1>7 DEF Tidy, Clean
  <2>2. Crash(p)
    BY <1>3, <2>1 DEF Bind, Load, LiveProcs, Serving
  <2>3. LiveProcs' \subseteq Serving'
    BY <2>1, <2>2 DEF Crash, LiveProcs, Serving, TypeOK, Alive
  <2> QED
    BY <1>2, <1>4, <1>5, <2>1, <2>3 DEF Tidy
<1> QED
  BY <1>6, <1>7

\* Every step keeps the processes tidy.
LEMMA TidyNext ==
    ASSUME WarmInv, [Next]_vars
    PROVE  Tidy'
<1>1. CASE ~Clean'
  BY <1>1 DEF Tidy, Clean
<1>2. CASE Clean' /\ PurgeFires
  <2>1. OnlyKnownAlive
    BY <1>2 DEF PurgeFires, Clean, NoneOf, WarmInv, Tidy
  <2>2. \A p \in Procs : Purged[p] \notin Alive
    BY <2>1, PurgeKillsAll DEF WarmInv
  <2> QED
    BY <1>2, <2>2, NothingAlive DEF PurgeFires, LiveProcs
<1>3. CASE UNCHANGED vars
  BY <1>3, TidyKept DEF vars, engine, system, WarmInv, At
<1> QED
  BY <1>1, <1>2, <1>3, TidyRequests, TidyServers, TidyBoot, TidyMoves, TidyProcesses DEF Next, Step

-----------------------------------------------------------------------------
(* The theorems *)

\* No server has been started yet.
LEMMA WarmInit == Init => WarmInv
<1> SUFFICES ASSUME Init PROVE WarmInv
  OBVIOUS
<1> USE WarmAssumption DEF Init
<1>1. TypeOK
  <2>1. stream \in [Streams -> [at : Places, model : Models \cup {None}, from : Procs \cup {None}]]
    BY DEF Places
  <2>2. \A s \in Streams : At(s, "streaming") <=> stream[s].from # None
    BY DEF At
  <2>3. /\ os \in [Procs -> Alive \cup {"dead"}] /\ loads \in [Procs -> Models \cup {None}]
        /\ crashes \in 0..MaxCrashes
    OBVIOUS
  <2> QED
    BY <2>1, <2>2, <2>3 DEF TypeOK
<1>2. \A s \in Streams : Idle(s)
  BY DEF Idle, At
<1>3. LiveProcs = {}
  BY DEF LiveProcs, Alive
<1>4. OneAtATime /\ TimerInSilence /\ ColdForgets /\ Asked
  BY <1>2 DEF OneAtATime, TimerInSilence, ColdForgets, Asked, Idle, At
<1>5. Tidy
  BY <1>3 DEF Tidy, OnlyKnownAlive
<1> QED
  BY <1>1, <1>4, <1>5 DEF WarmInv

\* The invariant holds in every reachable state.
THEOREM WarmInvariant == Spec => []WarmInv
<1>1. WarmInv /\ [Next]_vars => WarmInv'
  BY WarmTypeNext, OneAtATimeNext, ColdNext, AskedNext, TidyNext DEF WarmInv
<1> QED
  BY <1>1, WarmInit, PTL DEF Spec

\* The types of the engine, the streams and the processes.
THEOREM WarmTypeCorrect == Spec => []TypeOK
<1>1. WarmInv => TypeOK
  BY DEF WarmInv
<1> QED
  BY <1>1, WarmInvariant, PTL

\* Streams that do not overlap, on a machine that loads in time, never leave a
\* process the engine does not know.
THEOREM NoOrphanLeft == Spec => []NoOrphan
<1>1. WarmInv => NoOrphan
  BY DEF WarmInv, Tidy, NoOrphan
<1> QED
  BY <1>1, WarmInvariant, PTL

\* A purge comes in the silence.
THEOREM PurgesAreSilent == Spec => PurgeInSilence
<1>1. WarmInv => (PurgeFires /\ NoneOf({"overlap"}) => \A s \in Streams : At(s, "idle"))
  BY DEF WarmInv, TimerInSilence, PurgeFires, Idle
<1>2. WarmInv /\ [Next]_vars => [PurgeFires /\ NoneOf({"overlap"}) => \A s \in Streams : At(s, "idle")]_vars
  BY <1>1
<1>3. Spec => [][PurgeFires /\ NoneOf({"overlap"}) => \A s \in Streams : At(s, "idle")]_vars
  BY <1>2, WarmInvariant, PTL DEF Spec
<1> QED
  BY <1>3 DEF PurgeInSilence

-----------------------------------------------------------------------------
(* The micro-agents.  Nobody waits because a place is held within one step *)
(* only; an answer finds what it should because it is what the emulation   *)
(* says of the whole payload, which the answer's record keeps.             *)

AgentNames == {"audit", "security", "git", "telemetry", "database", "linter"}
Executing == {"compiling", "instantiating"}
Payloads == (UNION {SUBSET MarksOf(agent) : agent \in AgentNames \cup {"other"}}) \cup {Odd}
Results == {runEmulatedWasmLogic(agent, payload) : agent \in AgentNames, payload \in Payloads} \cup {{}}
ExecutionStates == Executing \cup {"none", "unregistered", "answered", "failed", "waiting"}

WasmTypeOK ==
    /\ maxAgents \in Limits
    /\ active \in Nat
    /\ execution \in [Executions -> [state : ExecutionStates, agent : AgentNames \cup {"none"},
                                     payload : Payloads, result : Results]]
    /\ purges \in 0..MaxPurges

\* A call that is in progress has its agent; one that is answered has the answer
\* of its agent to its payload.
AnsweredInFull ==
    \A x \in Executions :
        /\ execution[x].state \in Executing => execution[x].agent \in AgentNames
        /\ execution[x].state = "answered" =>
              /\ execution[x].agent \in AgentNames
              /\ execution[x].result = runEmulatedWasmLogic(execution[x].agent, execution[x].payload)

WasmInv == WasmTypeOK /\ NobodyWaits /\ AnsweredInFull

\* The agents that are registered.
LEMMA AgentsNamed == DOMAIN agents = AgentNames
BY DEF agents, AgentNames

\* What execute is given.
LEMMA PayloadOfAgent ==
    ASSUME NEW agent \in AgentNames \cup {"other"}, NEW payload \in (SUBSET MarksOf(agent)) \cup {Odd}
    PROVE  payload \in Payloads
<1>1. SUBSET MarksOf(agent) \in {SUBSET MarksOf(a) : a \in AgentNames \cup {"other"}}
    OBVIOUS
<1>2. SUBSET MarksOf(agent) \subseteq UNION {SUBSET MarksOf(a) : a \in AgentNames \cup {"other"}}
    BY <1>1
<1>3. CASE payload = Odd
    BY <1>3 DEF Payloads
<1>4. CASE payload \in SUBSET MarksOf(agent)
    BY <1>2, <1>4 DEF Payloads
<1> QED
    BY <1>3, <1>4

\* The end of an execution: there is a place, and it is given back.
LEMMA FinishKeeps ==
    ASSUME WasmInv, NEW x \in Executions, NEW agent \in AgentNames, NEW payload \in Payloads,
           Finish(x, agent, payload), UNCHANGED <<maxAgents, purges>>
    PROVE  WasmInv'
<1> USE DEF WasmInv
<1> DEFINE threw == Throws(agent, payload)
           answer == IF threw
                     THEN [state |-> "failed", agent |-> agent, payload |-> payload, result |-> {}]
                     ELSE [state |-> "answered", agent |-> agent, payload |-> payload,
                           result |-> runEmulatedWasmLogic(agent, payload)]
<1>1. active = 0 /\ maxAgents \in Nat \ {0}
    BY WasmAssumption DEF NobodyWaits, WasmTypeOK
<1>2. execution' = [execution EXCEPT ![x] = answer] /\ active' = 0
    <2>1. ~(active >= maxAgents)
        BY <1>1
    <2>2. (active + 1) - 1 = 0
        BY <1>1
    <2>3. active' = (active + 1) - 1
        <3>1. active' = Released(active + 1, threw)
            BY <2>1 DEF Finish
        <3> QED
            BY <3>1 DEF Released
    <2>4. execution' = [execution EXCEPT ![x] = answer]
        BY <2>1 DEF Finish
    <2> QED
        BY <2>2, <2>3, <2>4
<1>3. /\ answer \in [state : {"failed", "answered"}, agent : AgentNames,
                     payload : Payloads, result : Results]
      /\ answer.state = "answered" => answer.result = runEmulatedWasmLogic(answer.agent, answer.payload)
    <2>1. CASE threw
        <3>1. answer = [state |-> "failed", agent |-> agent, payload |-> payload, result |-> {}]
            BY <2>1
        <3> QED
            BY <3>1 DEF Results
    <2>2. CASE ~threw
        <3>1. answer = [state |-> "answered", agent |-> agent, payload |-> payload,
                        result |-> runEmulatedWasmLogic(agent, payload)]
            BY <2>2
        <3> QED
            BY <3>1 DEF Results
    <2> QED
        BY <2>1, <2>2
<1> HIDE DEF threw, answer
<1>4. execution'[x] = answer /\ \A y \in Executions \ {x} : execution'[y] = execution[y]
    BY <1>2 DEF WasmTypeOK
<1>5. WasmTypeOK'
    BY <1>1, <1>2, <1>3 DEF WasmTypeOK, ExecutionStates
<1>6. NobodyWaits'
    BY <1>2, <1>3, <1>4 DEF NobodyWaits
<1>7. AnsweredInFull'
    BY <1>3, <1>4 DEF AnsweredInFull, Executing
<1> QED
    BY <1>5, <1>6, <1>7

\* Every step of the micro-agents keeps the invariant.
LEMMA WasmKeeps == WasmInv /\ [WasmNext]_wasmVars => WasmInv'
<1> SUFFICES ASSUME WasmInv, [WasmNext]_wasmVars PROVE WasmInv'
    OBVIOUS
<1> USE DEF WasmInv
<1>1. ASSUME NEW x \in Executions, NEW agent \in DOMAIN agents \cup {"other"},
             NEW payload \in (SUBSET MarksOf(agent)) \cup {Odd}, execute(x, agent, payload)
      PROVE  WasmInv'
    <2>1. payload \in Payloads
        BY AgentsNamed, PayloadOfAgent
    <2>2. CASE agent \notin DOMAIN agents
        BY <1>1, <2>2 DEF execute, WasmTypeOK, NobodyWaits, AnsweredInFull, ExecutionStates, Executing
    <2>3. CASE agent \in DOMAIN agents \cap Binaries
        <3>1. agent \in AgentNames
            BY <2>3, AgentsNamed
        <3>2. /\ execution' = [execution EXCEPT ![x] = [state |-> "compiling", agent |-> agent,
                                                        payload |-> payload, result |-> {}]]
              /\ UNCHANGED <<active, maxAgents, purges>>
            BY <1>1, <2>3 DEF execute
        <3> QED
            BY <2>1, <3>1, <3>2
            DEF Results, WasmTypeOK, NobodyWaits, AnsweredInFull, ExecutionStates, Executing
    <2>4. CASE agent \in DOMAIN agents \ Binaries
        BY <1>1, <2>1, <2>4, AgentsNamed, FinishKeeps DEF execute
    <2> QED
        BY <2>2, <2>3, <2>4
<1>2. ASSUME NEW x \in Executions, Compiled(x)
      PROVE  WasmInv'
    BY <1>2 DEF Compiled, WasmTypeOK, NobodyWaits, AnsweredInFull, ExecutionStates, Executing
<1>3. ASSUME NEW x \in Executions, Emulate(x)
      PROVE  WasmInv'
    <2>1. execution[x].agent \in AgentNames /\ execution[x].payload \in Payloads
        BY <1>3 DEF Emulate, WasmTypeOK, AnsweredInFull, Executing
    <2> QED
        BY <1>3, <2>1, FinishKeeps DEF Emulate
<1>4. CASE purgeAll
    BY <1>4, WasmAssumption DEF purgeAll, WasmTypeOK, NobodyWaits, AnsweredInFull
<1>5. CASE SetLimit
    BY <1>5 DEF SetLimit, WasmTypeOK, NobodyWaits, AnsweredInFull
<1>6. CASE UNCHANGED wasmVars
    BY <1>6 DEF wasmVars, WasmTypeOK, NobodyWaits, AnsweredInFull
<1> QED
    BY <1>1, <1>2, <1>3, <1>4, <1>5, <1>6 DEF WasmNext

\* What may be found in a part of a payload only.
Excused(agent, payload) ==
    CASE agent = "database" /\ "WHERE" \in payload -> {"SQL statement missing mandatory WHERE clause."}
      [] agent = "git" -> {"not validSemanticMessage"}
      [] OTHER -> {}

\* What an agent finds in a part, it finds in the whole, or it is excused.
LEMMA LogicIsMonotone ==
    ASSUME NEW agent \in AgentNames, NEW payload, NEW part \in SUBSET payload
    PROVE  runEmulatedWasmLogic(agent, part) \subseteq
             runEmulatedWasmLogic(agent, payload) \cup Excused(agent, payload)
<1> USE DEF runEmulatedWasmLogic, Excused
<1>1. CASE agent = "audit"
    BY <1>1 DEF auditLogic
<1>2. CASE agent = "security"
    BY <1>2 DEF securityLogic
<1>3. CASE agent = "git"
    BY <1>3 DEF gitLogic
<1>4. CASE agent = "telemetry"
    BY <1>4
<1>5. CASE agent = "database"
    BY <1>5 DEF databaseLogic
<1>6. CASE agent = "linter"
    BY <1>6 DEF linterLogic
<1> QED
    BY <1>1, <1>2, <1>3, <1>4, <1>5, <1>6 DEF AgentNames

\* The invariant holds in every reachable state of the micro-agents.
THEOREM WasmInvariant == WasmSpec => []WasmInv
<1>1. WasmInit => WasmInv
    <2> SUFFICES ASSUME WasmInit PROVE WasmInv
        OBVIOUS
    <2>1. {} \in Payloads
        BY PayloadOfAgent DEF AgentNames
    <2>2. NotCalled \in [state : {"none"}, agent : {"none"}, payload : Payloads, result : Results]
        BY <2>1 DEF NotCalled, Results
    <2>3. \A x \in Executions : execution[x] = NotCalled /\ execution[x].state = "none"
        BY <2>2 DEF WasmInit
    <2>4. WasmTypeOK
        BY <2>2, WasmAssumption DEF WasmInit, WasmTypeOK, ExecutionStates
    <2> QED
        BY <2>3, <2>4 DEF WasmInit, WasmInv, NobodyWaits, AnsweredInFull, Executing
<1> QED
    BY <1>1, WasmKeeps, PTL DEF WasmSpec

\* Every execution is answered at once, whatever limits and purges come in between,
\* and more code never hides a finding.
THEOREM AgentsAnswerInFull == WasmSpec => []AgentsAnswer
<1>1. WasmInv => AgentsAnswer
    <2> SUFFICES ASSUME WasmInv PROVE AgentsAnswer
        OBVIOUS
    <2>1. NobodyWaits
        BY DEF WasmInv
    <2>2. MoreCodeHidesNothing
        <3> SUFFICES ASSUME NEW x \in Executions, execution[x].state = "answered",
                            NEW part \in SUBSET execution[x].payload
                     PROVE  runEmulatedWasmLogic(execution[x].agent, part) \subseteq
                              execution[x].result
                                \cup Excused(execution[x].agent, execution[x].payload)
            BY DEF MoreCodeHidesNothing, Excused
        <3>1. execution[x].agent \in AgentNames
            BY DEF WasmInv, AnsweredInFull
        <3>2. execution[x].result = runEmulatedWasmLogic(execution[x].agent, execution[x].payload)
            BY DEF WasmInv, AnsweredInFull
        <3> QED
            BY <3>1, <3>2, LogicIsMonotone
    <2> QED
        BY <2>1, <2>2 DEF AgentsAnswer
<1> QED
    BY <1>1, WasmInvariant, PTL

-----------------------------------------------------------------------------
(* The budget.  The score is arithmetic: each term of it falls with the    *)
(* load, and so does its rounded sum.  That the watcher and the engine     *)
(* follow the mode is inductive with what a thread that runs implies; what *)
(* a poll returns rests on what is in the ring all along.                  *)

Modes == {"Ultraleve", "Balanceado", "Turbo"}

\* A higher temperature is penalised no less.
LEMMA HeatNeverHelps ==
    ASSUME NEW s \in Int, NEW t \in Int, s <= t
    PROVE  LET thermal(temp) == IF temp > 75 THEN HigherOf(0, 100 - (temp - 75) * 4) ELSE 100
           IN  thermal(t) <= thermal(s) /\ thermal(t) \in Int /\ thermal(s) \in Int
BY DEF HigherOf

\* Rounded down, the larger is no less.
LEMMA DivisionIsMonotone ==
    ASSUME NEW m \in Int, NEW n \in Int, m <= n
    PROVE  /\ m \div 10 <= n \div 10 /\ m \div 10 \in Int /\ n \div 10 \in Int
           /\ m \div 100 <= n \div 100 /\ m \div 100 \in Int /\ n \div 100 \in Int
OBVIOUS

\* More load, no higher score.
LEMMA ScoreFallsWithLoad ==
    ASSUME NEW u \in Snapshots, NEW v \in Snapshots, u.ram <= v.ram, u.cpu <= v.cpu
    PROVE  ScoreOf(v) <= ScoreOf(u)
<1> DEFINE thermal(temp) == IF temp > 75 THEN HigherOf(0, 100 - (temp - 75) * 4) ELSE 100
           tempOf(w) == estimatedTempC(w.ram, w.cpu)
           sum(w) == 40 * HigherOf(0, 100 - w.ram) + 40 * HigherOf(0, 100 - w.cpu)
                       + 15 * thermal(tempOf(w)) + 5 * 100 + 50
<1>1. u.ram \in Int /\ u.cpu \in Int /\ v.ram \in Int /\ v.cpu \in Int
    BY DEF Snapshots
<1>2. tempOf(u) \in Int /\ tempOf(v) \in Int /\ tempOf(u) <= tempOf(v)
    <2>1. 400 + 4 * u.cpu + u.ram + 5 <= 400 + 4 * v.cpu + v.ram + 5
        BY <1>1
    <2> QED
        BY <1>1, <2>1, DivisionIsMonotone DEF estimatedTempC
<1>3. thermal(tempOf(v)) <= thermal(tempOf(u)) /\ thermal(tempOf(v)) \in Int /\ thermal(tempOf(u)) \in Int
    BY <1>2, HeatNeverHelps
<1>4. sum(u) \in Int /\ sum(v) \in Int /\ sum(v) <= sum(u)
    <2> HIDE DEF thermal, tempOf
    <2> QED
        BY <1>1, <1>3 DEF HigherOf
<1>5. sum(v) \div 100 <= sum(u) \div 100 /\ sum(v) \div 100 \in Int /\ sum(u) \div 100 \in Int
    <2> HIDE DEF sum
    <2> QED
        BY <1>4, DivisionIsMonotone
<1>6. /\ ScoreOf(u) = LowerOf(100, HigherOf(0, sum(u) \div 100))
      /\ ScoreOf(v) = LowerOf(100, HigherOf(0, sum(v) \div 100))
    BY DEF ScoreOf, calculateResourceScore
<1> HIDE DEF sum
<1> QED
    BY <1>5, <1>6 DEF LowerOf, HigherOf

\* A mode for less load grants no less.
LEMMA LighterModeGrantsMore ==
    ASSUME NEW on \in Machines,
           NEW pair \in {<<"Ultraleve", "Balanceado">>, <<"Balanceado", "Turbo">>}
    PROVE  LET less == AdaptiveConfig(on, pair[1])
               more == AdaptiveConfig(on, pair[2])
           IN  /\ \A k \in {"workers", "agents", "threads", "context"} : less[k] <= more[k]
               /\ less.fileWatchIntervalMs >= more.fileWatchIntervalMs
               /\ more.threads <= on.cores
               /\ \A big \in BOOLEAN :
                    getOptimalSlmContextSize(on, pair[1], big) <= getOptimalSlmContextSize(on, pair[2], big)
<1> USE DEF AdaptiveConfig, getOptimalSlmContextSize, HigherOf, LowerOf
<1>1. on.cores \in {1, 4, 6, 16} /\ on.bigRam \in BOOLEAN /\ on.tightRam \in BOOLEAN
    BY DEF Machines
<1>2. CASE pair = <<"Ultraleve", "Balanceado">>
    BY <1>1, <1>2
<1>3. CASE pair = <<"Balanceado", "Turbo">>
    BY <1>1, <1>3
<1> QED
    BY <1>2, <1>3

\* Load never helps, over every rounding.
LEMMA LoadHelpsNobody == LoadNeverHelps
<1>1. ASSUME NEW u \in Snapshots, u.ram < 100
      PROVE  ScoreOf([u EXCEPT !.ram = @ + 1]) <= ScoreOf(u)
    <2> DEFINE v == [u EXCEPT !.ram = @ + 1]
    <2>1. v \in Snapshots /\ u.ram <= v.ram /\ u.cpu <= v.cpu
        BY <1>1 DEF Snapshots
    <2> HIDE DEF v
    <2>2. ScoreOf(v) <= ScoreOf(u)
        BY <2>1, ScoreFallsWithLoad
    <2> QED
        BY <2>2 DEF v
<1>2. ASSUME NEW u \in Snapshots, u.cpu < 100
      PROVE  ScoreOf([u EXCEPT !.cpu = @ + 1]) <= ScoreOf(u)
    <2> DEFINE v == [u EXCEPT !.cpu = @ + 1]
    <2>1. v \in Snapshots /\ u.ram <= v.ram /\ u.cpu <= v.cpu
        BY <1>2 DEF Snapshots
    <2> HIDE DEF v
    <2>2. ScoreOf(v) <= ScoreOf(u)
        BY <2>1, ScoreFallsWithLoad
    <2> QED
        BY <2>2 DEF v
<1> QED
    BY <1>1, <1>2, LighterModeGrantsMore DEF LoadNeverHelps

Reports == [path : Changed, cut : BOOLEAN]

\* What of the reports the queue of the watcher keeps.
Kept(s) == IF native /\ Len(s) > RingSize THEN SubSeq(s, Len(s) - RingSize + 1, Len(s)) ELSE s

BudgetTyped ==
    /\ interval \in Nat /\ native \in BOOLEAN
    /\ daemon \in [on : BOOLEAN, interval : Nat]
    /\ pending \in Seq(Reports) /\ news \in Seq(Reports)
    /\ hears \subseteq {"watcher", "engine"}
    /\ told \in [{"watcher", "engine"} -> Modes \cup {"none"}]

\* The mode of a snapshot is one of three.
LEMMA ModeIsOne == ASSUME NEW u PROVE ModeOf(u) \in Modes
BY DEF ModeOf, determineMode, Modes

\* A native thread runs only where the native side is, for a watcher that was made.
OnlyMadeWatchersRun == daemon.on => native /\ interval # 0

BudgetInv ==
    /\ BudgetTyped
    /\ OnlyMadeWatchersRun
    /\ FollowsTheMode
    /\ pending = Kept(news)
    /\ PolledInOrder

\* The intervals the modes ask for.
LEMMA IntervalOfMode ==
    ASSUME NEW on, NEW u
    PROVE  AdaptiveConfig(on, ModeOf(u)).fileWatchIntervalMs \in Nat \ {0}
<1>1. ModeOf(u) \in Modes
    BY DEF ModeOf, determineMode, Modes
<1>2. CASE ModeOf(u) = "Ultraleve"
    BY <1>2 DEF AdaptiveConfig
<1>3. CASE ModeOf(u) = "Balanceado"
    BY <1>3 DEF AdaptiveConfig
<1>4. CASE ModeOf(u) = "Turbo"
    BY <1>4 DEF AdaptiveConfig
<1> QED
    BY <1>1, <1>2, <1>3, <1>4 DEF Modes

\* A full ring that gives up its oldest report keeps the newest ones.
LEMMA RingKeepsTheNewest ==
    ASSUME NEW s \in Seq(Reports), NEW report \in Reports, native, report.path \notin Unfit
    PROVE  PushEvent(Kept(s), report) = Kept(Append(s, report))
<1> DEFINE n == Len(s)
           longer == Append(s, report)
<1>0. n \in Nat /\ RingSize \in Nat \ {0}
    BY LenProperties, BudgetAssumption
<1>1. longer \in Seq(Reports) /\ Len(longer) = n + 1
      /\ longer[n + 1] = report /\ \A i \in 1..n : longer[i] = s[i]
    BY AppendProperties
<1>2. CASE n < RingSize
    <2>1. Kept(s) = s /\ Kept(longer) = longer /\ Len(s) # RingSize
        BY <1>0, <1>1, <1>2 DEF Kept
    <2> QED
        BY <2>1 DEF PushEvent
<1>3. CASE n >= RingSize
    <2> DEFINE first == n - RingSize + 1
               ring == SubSeq(s, first, n)
               shifted == SubSeq(longer, first + 1, n + 1)
    <2>1. first \in 1..n /\ first + 1 \in Int /\ n + 1 \in Int
        BY <1>0, <1>3
    <2>2. Kept(s) = ring
        <3>1. CASE n = RingSize
            <4>1. first = 1 /\ Kept(s) = s
                BY <1>0, <3>1 DEF Kept
            <4> QED
                BY <4>1, SubSeqFull
        <3>2. CASE n > RingSize
            BY <1>0, <3>2 DEF Kept
        <3> QED
            BY <1>0, <1>3, <3>1, <3>2
    <2>3. Kept(longer) = shifted
        <3>1. Len(longer) > RingSize /\ Len(longer) - RingSize + 1 = first + 1
            BY <1>0, <1>1, <1>3
        <3> QED
            BY <1>1, <3>1 DEF Kept
    <2>4. /\ ring \in Seq(Reports) /\ Len(ring) = RingSize
          /\ \A i \in 1..RingSize : ring[i] = s[first + i - 1]
        <3>1. \A i \in first..n : s[i] \in Reports
            BY <1>0, <2>1, ElementOfSeq
        <3>2. /\ ring \in Seq(Reports)
              /\ Len(ring) = IF first <= n THEN n - first + 1 ELSE 0
              /\ \A i \in 1..(n - first + 1) : ring[i] = s[first + i - 1]
            BY <1>0, <2>1, <3>1, SubSeqProperties
        <3>3. n - first + 1 = RingSize /\ first <= n
            BY <1>0, <2>1
        <3> QED
            BY <3>2, <3>3
    <2>5. /\ shifted \in Seq(Reports) /\ Len(shifted) = RingSize
          /\ \A i \in 1..RingSize : shifted[i] = longer[first + i]
        <3>1. \A i \in (first + 1)..(n + 1) : longer[i] \in Reports
            BY <1>0, <1>1, <2>1, ElementOfSeq
        <3>2. /\ shifted \in Seq(Reports)
              /\ Len(shifted) = IF first + 1 <= n + 1 THEN (n + 1) - (first + 1) + 1 ELSE 0
              /\ \A i \in 1..((n + 1) - (first + 1) + 1) : shifted[i] = longer[(first + 1) + i - 1]
            <4> HIDE DEF first, longer
            <4> QED
                BY <2>1, <3>1, SubSeqProperties
        <3>3. (n + 1) - (first + 1) + 1 = RingSize /\ first + 1 <= n + 1
              /\ \A i \in 1..RingSize : (first + 1) + i - 1 = first + i
            BY <1>0, <2>1
        <3> QED
            BY <3>2, <3>3
    <2> DEFINE pushed == Append(Tail(ring), report)
    <2> HIDE DEF ring, shifted
    <2>6. PushEvent(Kept(s), report) = pushed
        BY <2>2, <2>4 DEF PushEvent
    <2>7. /\ Tail(ring) \in Seq(Reports) /\ Len(Tail(ring)) = RingSize - 1
          /\ \A i \in 1..(RingSize - 1) : Tail(ring)[i] = ring[i + 1]
        BY <1>0, <2>4, HeadTailProperties, EmptySeq
    <2>8. /\ pushed \in Seq(Reports) /\ Len(pushed) = RingSize
          /\ pushed[RingSize] = report
          /\ \A i \in 1..(RingSize - 1) : pushed[i] = Tail(ring)[i]
        BY <1>0, <2>7, AppendProperties
    <2> HIDE DEF pushed
    <2>9. ASSUME NEW i \in 1..RingSize
          PROVE  pushed[i] = shifted[i]
        <3>1. CASE i = RingSize
            <4>1. first + i = n + 1
                BY <1>0, <3>1
            <4> QED
                BY <1>1, <2>5, <2>8, <3>1, <4>1
        <3>2. CASE i # RingSize
            <4>1. i \in 1..(RingSize - 1) /\ i + 1 \in 1..RingSize
                  /\ first + (i + 1) - 1 = first + i /\ first + i \in 1..n
                BY <1>0, <2>1, <3>2
            <4>2. pushed[i] = s[first + i]
                BY <2>4, <2>7, <2>8, <4>1
            <4>3. shifted[i] = s[first + i]
                BY <1>1, <2>5, <4>1
            <4> QED
                BY <4>2, <4>3
        <3> QED
            BY <3>1, <3>2
    <2>10. pushed = shifted
        BY <2>5, <2>8, <2>9, SeqEqual
    <2> QED
        BY <2>3, <2>6, <2>10
<1> QED
    BY <1>0, <1>2, <1>3

\* The queue has its type.
LEMMA PushTyped ==
    ASSUME NEW queue \in Seq(Reports), NEW report \in Reports
    PROVE  PushEvent(queue, report) \in Seq(Reports)
<1>1. Append(queue, report) \in Seq(Reports)
    BY AppendProperties
<1>2. ASSUME Len(queue) = RingSize
      PROVE  Append(Tail(queue), report) \in Seq(Reports)
    <2>1. queue # << >>
        BY <1>2, BudgetAssumption, EmptySeq
    <2> QED
        BY <2>1, HeadTailProperties, AppendProperties
<1> QED
    BY <1>1, <1>2 DEF PushEvent

\* Nothing is kept of nothing.
LEMMA NothingKept == Kept(<< >>) = << >>
<1>1. ~(Len(<< >>) > RingSize)
    BY BudgetAssumption, EmptySeq
<1> QED
    BY <1>1 DEF Kept

\* A step that is no poll.
LEMMA NothingPolled == ASSUME polled' = NoPoll PROVE PolledInOrder'
<1>1. polled'.got = << >> /\ polled'.due = << >>
    BY DEF NoPoll
<1>2. Len(<< >>) = 0 /\ ~(0 > RingSize)
    BY BudgetAssumption, EmptySeq
<1> QED
    BY <1>1, <1>2 DEF PolledInOrder

\* The loop samples the machine: whoever listens is told of a new mode, and a native
\* thread of a new interval.
LEMMA TickKeeps == ASSUME BudgetInv, Tick PROVE BudgetInv'
<1> USE DEF BudgetInv
<1> DEFINE new == AdaptiveConfig(machine, ModeOf(usage')).fileWatchIntervalMs
           same == ModeOf(usage') = ModeOf(usage)
<1>1. /\ interval' = (IF ~same /\ "watcher" \in hears THEN new ELSE interval)
      /\ linger' = (IF ~same /\ "engine" \in hears THEN LingerWindow(ModeOf(usage')) ELSE linger)
      /\ daemon' = (IF native /\ interval' # interval THEN [daemon EXCEPT !.interval = interval']
                    ELSE daemon)
      /\ told' = [who \in DOMAIN told |-> IF who \in hears THEN ModeOf(usage') ELSE told[who]]
      /\ polled' = NoPoll
      /\ UNCHANGED <<machine, hears, native, watching, pending, news>>
    BY DEF Tick, queueVars
<1>2. new \in Nat \ {0}
    BY IntervalOfMode
<1>3. DOMAIN told = {"watcher", "engine"} /\ ModeOf(usage') \in Modes
    BY ModeIsOne DEF BudgetTyped
<1>4. /\ told' \in [{"watcher", "engine"} -> Modes \cup {"none"}]
      /\ \A who \in {"watcher", "engine"} :
            told'[who] = IF who \in hears THEN ModeOf(usage') ELSE told[who]
    BY <1>1, <1>3 DEF BudgetTyped
<1>5. interval' \in Nat /\ (interval # 0 => interval' # 0)
    BY <1>1, <1>2 DEF BudgetTyped
<1>6. /\ daemon' \in [on : BOOLEAN, interval : Nat]
      /\ daemon'.on = daemon.on
      /\ daemon'.on => daemon'.interval = interval'
    BY <1>1, <1>5 DEF BudgetTyped, OnlyMadeWatchersRun, FollowsTheMode
<1>7. BudgetTyped' /\ OnlyMadeWatchersRun'
    BY <1>1, <1>4, <1>5, <1>6 DEF BudgetTyped, OnlyMadeWatchersRun
<1>8. FollowsTheMode'
    <2>1. interval' # 0 => interval' = AdaptiveConfig(machine', told'.watcher).fileWatchIntervalMs
        <3>1. CASE "watcher" \in hears
            <4>1. told.watcher = ModeOf(usage) /\ told'.watcher = ModeOf(usage')
                BY <1>4, <3>1 DEF FollowsTheMode
            <4> QED
                BY <1>1, <3>1, <4>1 DEF FollowsTheMode
        <3>2. CASE "watcher" \notin hears
            <4>1. told'.watcher = told.watcher
                BY <1>4, <3>2
            <4> QED
                BY <1>1, <3>2, <4>1 DEF FollowsTheMode
        <3> QED
            BY <3>1, <3>2
    <2>2. linger' # 0 => linger' = LingerWindow(told'.engine)
        <3>1. CASE "engine" \in hears
            <4>1. told.engine = ModeOf(usage) /\ told'.engine = ModeOf(usage')
                BY <1>4, <3>1 DEF FollowsTheMode
            <4> QED
                BY <1>1, <3>1, <4>1 DEF FollowsTheMode
        <3>2. CASE "engine" \notin hears
            <4>1. told'.engine = told.engine
                BY <1>4, <3>2
            <4> QED
                BY <1>1, <3>2, <4>1 DEF FollowsTheMode
        <3> QED
            BY <3>1, <3>2
    <2>3. \A who \in hears' : told'[who] = ModeOf(usage')
        BY <1>1, <1>4 DEF BudgetTyped
    <2> QED
        BY <1>6, <2>1, <2>2, <2>3 DEF FollowsTheMode
<1>9. pending' = Kept(news)' /\ PolledInOrder'
    BY <1>1, NothingPolled DEF Kept
<1> QED
    BY <1>7, <1>8, <1>9

\* Every step of the budget and its followers keeps the invariant.
LEMMA BudgetKeeps == BudgetInv /\ [BudgetNext]_budgetVars => BudgetInv'
<1> SUFFICES ASSUME BudgetInv, [BudgetNext]_budgetVars PROVE BudgetInv'
    OBVIOUS
<1> USE DEF BudgetInv
<1>1. ASSUME UNCHANGED <<pending, news, native>>
      PROVE  pending' = Kept(news)' /\ pending' \in Seq(Reports) /\ news' \in Seq(Reports)
    BY <1>1 DEF Kept, BudgetTyped
<1>2. CASE startLoop \/ stopLoop
    <2>1. polled' = NoPoll /\ UNCHANGED <<machine, usage, hears, interval, linger, native, daemon,
                                         told, watching, pending, news>>
        BY <1>2 DEF startLoop, stopLoop, queueVars
    <2> QED
        BY <1>1, <2>1, NothingPolled
        DEF BudgetTyped, OnlyMadeWatchersRun, FollowsTheMode
<1>3. CASE Tick
    BY <1>3, TickKeeps
<1>4. CASE MakeWatcher
    <2>1. /\ interval = 0 /\ interval' = getAdaptiveConfig.fileWatchIntervalMs
          /\ hears' = hears \cup {"watcher"} /\ polled' = NoPoll
          /\ told' = [told EXCEPT !.watcher = ModeOf(usage)]
          /\ UNCHANGED <<machine, usage, linger, native, daemon, watching, pending, news>>
        BY <1>4 DEF MakeWatcher, queueVars
    <2>2. interval' \in Nat
        BY <2>1, IntervalOfMode DEF getAdaptiveConfig
    <2>3. ~daemon.on
        BY <2>1 DEF OnlyMadeWatchersRun
    <2>4. /\ told' \in [{"watcher", "engine"} -> Modes \cup {"none"}]
          /\ told'["watcher"] = ModeOf(usage) /\ told'["engine"] = told["engine"]
        BY <2>1, ModeIsOne DEF BudgetTyped
    <2>5. FollowsTheMode'
        BY <2>1, <2>3, <2>4 DEF FollowsTheMode, getAdaptiveConfig, BudgetTyped
    <2> QED
        BY <1>1, <2>1, <2>2, <2>3, <2>4, <2>5, NothingPolled DEF BudgetTyped, OnlyMadeWatchersRun
<1>5. CASE MakeEngine
    <2>1. /\ linger' = LingerWindow(ModeOf(usage)) /\ hears' = hears \cup {"engine"}
          /\ polled' = NoPoll
          /\ told' = [told EXCEPT !.engine = ModeOf(usage)]
          /\ UNCHANGED <<machine, usage, interval, native, daemon, watching, pending, news>>
        BY <1>5 DEF MakeEngine, queueVars
    <2>2. /\ told' \in [{"watcher", "engine"} -> Modes \cup {"none"}]
          /\ told'["engine"] = ModeOf(usage) /\ told'["watcher"] = told["watcher"]
        BY <2>1, ModeIsOne DEF BudgetTyped
    <2>3. FollowsTheMode'
        BY <2>1, <2>2 DEF FollowsTheMode, BudgetTyped
    <2> QED
        BY <1>1, <2>1, <2>2, <2>3, NothingPolled DEF BudgetTyped, OnlyMadeWatchersRun
<1>6. CASE resetBus
    <2>1. /\ hears' = {} /\ polled' = NoPoll
          /\ UNCHANGED <<machine, usage, interval, linger, native, daemon, told, watching, pending, news>>
        BY <1>6 DEF resetBus, queueVars
    <2> QED
        BY <1>1, <2>1, NothingPolled DEF BudgetTyped, OnlyMadeWatchersRun, FollowsTheMode
<1>7. CASE startWatcher
    <2>1. /\ interval # 0 /\ polled' = NoPoll
          /\ UNCHANGED <<machine, usage, hears, interval, linger, native, told>>
        BY <1>7 DEF startWatcher
    <2>2. CASE UNCHANGED <<daemon, pending, news>>
        BY <1>1, <2>1, <2>2, NothingPolled DEF BudgetTyped, OnlyMadeWatchersRun, FollowsTheMode
    <2>3. CASE native /\ pending' = << >> /\ news' = << >>
                /\ \E started \in BOOLEAN : daemon' = [on |-> started, interval |-> interval]
        <3>1. PICK started \in BOOLEAN : daemon' = [on |-> started, interval |-> interval]
            BY <2>3
        <3>2. pending' = Kept(news)' /\ << >> \in Seq(Reports)
            BY <2>1, <2>3, NothingKept, EmptySeq DEF Kept
        <3> QED
            BY <2>1, <2>3, <3>1, <3>2, NothingPolled
            DEF BudgetTyped, OnlyMadeWatchersRun, FollowsTheMode
    <2> QED
        BY <1>7, <2>2, <2>3 DEF startWatcher
<1>8. CASE stopWatcher \/ release
    <2>1. /\ polled' = NoPoll /\ daemon' = [daemon EXCEPT !.on = FALSE] /\ hears' \subseteq hears
          /\ UNCHANGED <<machine, usage, interval, linger, native, told, pending, news>>
        BY <1>8 DEF stopWatcher, release
    <2>2. daemon' \in [on : BOOLEAN, interval : Nat] /\ ~daemon'.on
        BY <2>1 DEF BudgetTyped
    <2>3. FollowsTheMode'
        BY <2>1, <2>2 DEF FollowsTheMode
    <2> QED
        BY <1>1, <2>1, <2>2, <2>3, NothingPolled DEF BudgetTyped, OnlyMadeWatchersRun
<1>9. CASE pollEvents
    <2>1. /\ polled' = [got |-> pending, due |-> news] /\ pending' = << >> /\ news' = << >>
          /\ UNCHANGED <<machine, usage, hears, interval, linger, native, daemon, told>>
        BY <1>9 DEF pollEvents
    <2>2. PolledInOrder'
        BY <2>1 DEF PolledInOrder, Kept
    <2>3. pending' = Kept(news)' /\ << >> \in Seq(Reports)
        BY <2>1, NothingKept, EmptySeq DEF Kept
    <2>4. FollowsTheMode'
        BY <2>1 DEF FollowsTheMode
    <2> QED
        BY <2>1, <2>2, <2>3, <2>4 DEF BudgetTyped, OnlyMadeWatchersRun
<1>10. ASSUME NEW path \in Changed, simulateFileChange(path)
       PROVE  BudgetInv'
    <2> DEFINE report == [path |-> path, cut |-> native /\ path \in Accented]
    <2>1. /\ pending' = (IF native THEN PushEvent(pending, report) ELSE Append(pending, report))
          /\ news' = (IF native /\ path \in Unfit THEN news ELSE Append(news, report))
          /\ polled' = NoPoll
          /\ UNCHANGED <<machine, usage, hears, interval, linger, native, daemon, told>>
        BY <1>10 DEF simulateFileChange
    <2>2. report \in Reports /\ report.path = path
        BY DEF Reports, BudgetTyped
    <2> HIDE DEF report
    <2>3. news' \in Seq(Reports) /\ pending' \in Seq(Reports)
        BY <2>1, <2>2, PushTyped, AppendProperties DEF BudgetTyped
    <2>4. pending' = Kept(news)'
        <3>1. CASE native /\ path \notin Unfit
            <4>1. PushEvent(Kept(news), report) = Kept(Append(news, report))
                BY <2>2, <3>1, RingKeepsTheNewest DEF BudgetTyped
            <4> QED
                BY <2>1, <3>1, <4>1 DEF Kept
        <3>2. CASE native /\ path \in Unfit
            BY <2>1, <2>2, <3>2 DEF Kept, PushEvent
        <3>3. CASE ~native
            BY <2>1, <3>3 DEF Kept
        <3> QED
            BY <3>1, <3>2, <3>3
    <2>5. FollowsTheMode'
        BY <2>1 DEF FollowsTheMode
    <2> QED
        BY <2>1, <2>3, <2>4, <2>5, NothingPolled DEF BudgetTyped, OnlyMadeWatchersRun
<1>11. CASE UNCHANGED budgetVars
    BY <1>11 DEF budgetVars, BudgetTyped, OnlyMadeWatchersRun, FollowsTheMode,
                 Kept, PolledInOrder
<1> QED
    BY <1>2, <1>3, <1>4, <1>5, <1>6, <1>7, <1>8, <1>9, <1>10, <1>11 DEF BudgetNext

\* The invariant holds in every reachable state of the budget.
THEOREM BudgetInvariant == BudgetSpec => []BudgetInv
<1>1. BudgetInit => BudgetInv
    <2> SUFFICES ASSUME BudgetInit PROVE BudgetInv
        OBVIOUS
    <2>1. hears = {} /\ interval = 0 /\ daemon = [on |-> FALSE, interval |-> 3000]
          /\ pending = << >> /\ news = << >> /\ polled = NoPoll /\ native \in BOOLEAN
          /\ linger = 0 /\ told = [watcher |-> "none", engine |-> "none"]
        BY DEF BudgetInit
    <2>2. BudgetTyped /\ OnlyMadeWatchersRun /\ FollowsTheMode
        BY <2>1, EmptySeq DEF BudgetTyped, OnlyMadeWatchersRun, FollowsTheMode
    <2>3. PolledInOrder
        <3>1. polled.got = << >> /\ polled.due = << >>
            BY <2>1 DEF NoPoll
        <3>2. Len(<< >>) = 0 /\ ~(0 > RingSize)
            BY BudgetAssumption, EmptySeq
        <3> QED
            BY <3>1, <3>2 DEF PolledInOrder
    <2> QED
        BY <2>1, <2>2, <2>3, NothingKept DEF BudgetInv
<1> QED
    BY <1>1, BudgetKeeps, PTL DEF BudgetSpec

\* For any loads, paths and bounds: the watcher and the engine keep to the mode of
\* the last sample made while they were on the bus, and a poll gives what the queue
\* takes, in order, but for what a full ring gave up.
THEOREM BudgetIsFollowed == BudgetSpec => []BudgetFollowed
<1>1. BudgetInv => BudgetFollowed
    BY DEF BudgetInv, BudgetFollowed
<1> QED
    BY <1>1, BudgetInvariant, PTL

=============================================================================
