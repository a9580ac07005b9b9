---------------------------- MODULE TaskDispatch ----------------------------
(***************************************************************************)
(* The durable task table of the Go hub and the TaskQueue / TaskWorker     *)
(* pair that drains it: polling loops ask the hub for PENDING rows, start  *)
(* them without claiming them, and report their status with updates nobody *)
(* waits for.  The updates travel as concurrent unary calls: they may      *)
(* arrive in any order, and are lost when the hub or its database refuses. *)
(* ReflexEngine halts the worker over the event bus, which every diagnosis *)
(* empties of its listeners when it begins.                                *)
(***************************************************************************)
EXTENDS Integers, FiniteSets

CONSTANTS
    Tasks,          \* rows of ai_tasks
    Loops,          \* invocations of start() whose loop may still be alive
    MaxConcurrent,  \* maxConcurrentTasks
    MaxStarts,      \* bound: calls of start()
    MaxLosses,      \* bound: calls to the hub that fail
    MaxInFlight,    \* bound: equal updates in flight
    MaxRepeats      \* bound: runs of one row at the same time

ASSUME DispatchAssumption ==
    /\ IsFiniteSet(Tasks)
    /\ MaxConcurrent \in Nat \ {0}
    /\ MaxStarts \in Nat /\ MaxLosses \in Nat /\ MaxInFlight \in Nat \ {0}
    /\ MaxRepeats \in Nat \ {0}

VARIABLES
    rows,       \* the status column of ai_tasks, "none" before the insert
    updates,    \* updates in flight: how many, by task and status
    running, paused, listening,     \* the fields and listeners of TaskWorker
    currentTasks,
    loops,      \* where each loop is, its budget and the rows it was given
    runs,       \* processTask calls that have not returned: task, ordinal
    outcomes,   \* how the generators called for a task have ended so far
    diagnosing, \* the diagnosis the worker was built during still runs
    orchestrated,   \* the worker was given an orchestrator
    typed,      \* rows that reach the worker with a task_type it knows
    starts, losses

worker == <<running, paused, listening>>
given == <<orchestrated, typed>>
bounds == <<starts, losses>>
vars == <<rows, updates, worker, currentTasks, loops, runs, outcomes, diagnosing, given, bounds>>

Ordinals == 1..MaxRepeats
Reported == {"RUNNING", "COMPLETED", "FAILED"}
Off == [at |-> "off", budget |-> 0, got |-> {}]
Waiting == [at |-> "waiting", budget |-> 0, got |-> {}]

TypeOK ==
    /\ rows \in [Tasks -> Reported \cup {"none", "PENDING"}]
    /\ updates \in [Tasks \X Reported -> 0..MaxInFlight]
    /\ worker \in BOOLEAN \X BOOLEAN \X BOOLEAN
    /\ currentTasks \in Nat
    /\ loops \in [Loops -> [at : {"off", "asking", "answered", "waiting"},
                            budget : 0..MaxConcurrent, got : SUBSET Tasks]]
    /\ runs \subseteq Tasks \X Ordinals
    /\ outcomes \in [Tasks -> SUBSET {"COMPLETED", "FAILED"}]
    /\ diagnosing \in BOOLEAN /\ orchestrated \in BOOLEAN /\ typed \subseteq Tasks
    /\ starts \in 0..MaxStarts /\ losses \in 0..MaxLosses

\* The rows of the hub client carry their type as taskType and the worker reads
\* task_type: only a queue registered as a service can hand over typed rows.
\* Without an orchestrator the type is never read.
\* The worker may be built while a diagnosis of another orchestrator runs.
Init ==
    /\ rows = [t \in Tasks |-> "none"]
    /\ updates = [m \in Tasks \X Reported |-> 0]
    /\ running = FALSE /\ paused = FALSE /\ listening = TRUE
    /\ currentTasks = 0
    /\ loops = [l \in Loops |-> Off]
    /\ runs = {}
    /\ outcomes = [t \in Tasks |-> {}]
    /\ diagnosing \in BOOLEAN /\ orchestrated \in BOOLEAN /\ typed \in SUBSET Tasks
    /\ orchestrated \/ typed = {}
    /\ starts = 0 /\ losses = 0

-----------------------------------------------------------------------------
(* The hub.                                                                *)

EnqueueTask(t) ==
    /\ rows[t] = "none"
    /\ rows' = [rows EXCEPT ![t] = "PENDING"]
    /\ UNCHANGED <<updates, worker, currentTasks, loops, runs, outcomes, diagnosing, given, bounds>>

Answered(l, got) == [at |-> "answered", budget |-> loops[l].budget, got |-> got]
PendingRows == {t \in Tasks : rows[t] = "PENDING"}

\* created_at has the resolution of a second: among the rows of one second
\* any LIMIT-sized choice is a legal answer.
GetPendingTasks(l) ==
    /\ loops[l].at = "asking"
    /\ \E got \in SUBSET PendingRows :
          /\ Cardinality(got) <= loops[l].budget
          /\ Cardinality(got) = loops[l].budget \/ got = PendingRows
          /\ loops' = [loops EXCEPT ![l] = Answered(l, got)]
    /\ UNCHANGED <<rows, updates, worker, currentTasks, runs, outcomes, diagnosing, given, bounds>>

\* getPendingTasks of the client answers a failed query with no rows.
LoseQuery(l) ==
    /\ loops[l].at = "asking"
    /\ losses < MaxLosses
    /\ losses' = losses + 1
    /\ loops' = [loops EXCEPT ![l] = Answered(l, {})]
    /\ UNCHANGED <<rows, updates, worker, currentTasks, runs, outcomes, diagnosing, given, starts>>

UpdateTask(t, s) ==
    /\ updates[<<t, s>>] > 0
    /\ updates' = [updates EXCEPT ![<<t, s>>] = @ - 1]
    /\ rows' = [rows EXCEPT ![t] = s]
    /\ UNCHANGED <<worker, currentTasks, loops, runs, outcomes, diagnosing, given, bounds>>

\* updateTaskStatus swallows the failure: open circuit, hub down, locked table.
LoseUpdate(t, s) ==
    /\ updates[<<t, s>>] > 0
    /\ losses < MaxLosses
    /\ losses' = losses + 1
    /\ updates' = [updates EXCEPT ![<<t, s>>] = @ - 1]
    /\ UNCHANGED <<rows, worker, currentTasks, loops, runs, outcomes, diagnosing, given, starts>>

-----------------------------------------------------------------------------
(* The worker.                                                             *)

\* getDynamicConcurrency: all, half or a quarter of the base, at least one.
DynamicLimits ==
    LET AtLeastOne(n) == IF n = 0 THEN 1 ELSE n
    IN  {MaxConcurrent, AtLeastOne(MaxConcurrent \div 2), AtLeastOne(MaxConcurrent \div 4)}

\* Faulty: asks for as many tasks as the limit, those at work notwithstanding.
PassWholeLimit(l) ==
    \E limit \in DynamicLimits :
        loops' = [loops EXCEPT ![l] =
            IF ~paused /\ currentTasks < limit
            THEN [at |-> "asking", budget |-> limit, got |-> {}]
            ELSE Waiting]

\* One pass of the loop of start(), up to its next await.
Pass(l) ==
    \/ paused /\ loops' = [loops EXCEPT ![l] = Waiting]
    \/ /\ ~paused
       /\ \E limit \in DynamicLimits :
             loops' = [loops EXCEPT ![l] =
                IF currentTasks < limit
                THEN [at |-> "asking", budget |-> limit - currentTasks, got |-> {}]
                ELSE Waiting]

Start(l) ==
    /\ ~running /\ loops[l].at = "off"
    /\ starts < MaxStarts
    /\ starts' = starts + 1
    /\ running' = TRUE
    /\ Pass(l)
    /\ UNCHANGED <<rows, updates, paused, listening, currentTasks, runs, outcomes, diagnosing, given, losses>>

\* Faulty: a paused loop ends instead of waiting.
WakeEndingWhenPaused(l) ==
    /\ loops[l].at = "waiting"
    /\ IF running /\ ~paused THEN Pass(l) ELSE loops' = [loops EXCEPT ![l] = Off]
    /\ UNCHANGED <<rows, updates, worker, currentTasks, runs, outcomes, diagnosing, given, bounds>>

Wake(l) ==
    /\ loops[l].at = "waiting"
    /\ IF running THEN Pass(l) ELSE loops' = [loops EXCEPT ![l] = Off]
    /\ UNCHANGED <<rows, updates, worker, currentTasks, runs, outcomes, diagnosing, given, bounds>>

Free(t) == {n \in Ordinals : <<t, n>> \notin runs}
NewRun(t) == <<t, CHOOSE n \in Free(t) : TRUE>>

Sent(messages) == [m \in Tasks \X Reported |-> IF m \in messages THEN updates[m] + 1 ELSE updates[m]]

\* The answer starts every row it names, whatever was stopped or paused since.
\* A row is reported RUNNING, and ended in the same turn with no generator
\* called when it matches no case of processTask (COMPLETED), or when the
\* worker has no orchestrator to call (FAILED).
RunTasks(l) ==
    LET got == loops[l].got
        started == IF orchestrated THEN got \cap typed ELSE {}
        ended == IF orchestrated THEN "COMPLETED" ELSE "FAILED"
    IN  /\ loops[l].at = "answered"
        /\ \A t \in got, s \in Reported : updates[<<t, s>>] < MaxInFlight
        /\ \A t \in started : Free(t) # {}
        /\ loops' = [loops EXCEPT ![l] = Waiting]
        /\ updates' = Sent((got \X {"RUNNING"}) \cup ((got \ started) \X {ended}))
        /\ runs' = runs \cup {NewRun(t) : t \in started}
        /\ currentTasks' = currentTasks + Cardinality(started)
        /\ UNCHANGED <<rows, worker, outcomes, diagnosing, given, bounds>>

\* Faulty: a generator that threw is reported as completed.
FinishTaskCompleted(t, n, s) ==
    /\ <<t, n>> \in runs
    /\ updates[<<t, "COMPLETED">>] < MaxInFlight
    /\ updates' = Sent({<<t, "COMPLETED">>})
    /\ runs' = runs \ {<<t, n>>}
    /\ currentTasks' = currentTasks - 1
    /\ outcomes' = [outcomes EXCEPT ![t] = @ \cup {s}]
    /\ UNCHANGED <<rows, worker, loops, diagnosing, given, bounds>>

\* The generator of one run returns or throws: the rest of processTask and the
\* finally of runTask follow in the same turn of the event loop.
FinishTask(t, n, s) ==
    /\ <<t, n>> \in runs
    /\ updates[<<t, s>>] < MaxInFlight
    /\ updates' = Sent({<<t, s>>})
    /\ runs' = runs \ {<<t, n>>}
    /\ currentTasks' = currentTasks - 1
    /\ outcomes' = [outcomes EXCEPT ![t] = @ \cup {s}]
    /\ UNCHANGED <<rows, worker, loops, diagnosing, given, bounds>>

\* The owner stops a worker it started.
Stop ==
    /\ running
    /\ running' = FALSE /\ listening' = FALSE
    /\ UNCHANGED <<rows, updates, paused, currentTasks, loops, runs, outcomes, diagnosing, given, bounds>>

\* The next diagnosis begins with reset(): the listeners of every worker built
\* so far leave the bus and nothing registers them again, so that whatever it
\* emits at its own end changes nothing here.  One diagnosis runs at a time.
BeginDiagnosis ==
    /\ ~diagnosing
    /\ listening' = FALSE
    /\ UNCHANGED <<rows, updates, running, paused, currentTasks, loops, runs, outcomes, diagnosing, given, bounds>>

\* A diagnosis ends in ReflexEngine.triggerReflexes, which emits
\* system:halt-experimentation below 40, or without it: a better score, a dry
\* run, an exception.
EndDiagnosis(halts) ==
    /\ diagnosing
    /\ diagnosing' = FALSE
    /\ paused' = (paused \/ (halts /\ listening))
    /\ UNCHANGED <<rows, updates, running, listening, currentTasks, loops, runs, outcomes, given, bounds>>

\* system:health-check with a score above 60, which nothing under src_local
\* emits, lifts the pause.
HealthCheck ==
    /\ listening /\ paused
    /\ paused' = FALSE
    /\ UNCHANGED <<rows, updates, running, listening, currentTasks, loops, runs, outcomes, diagnosing, given, bounds>>

-----------------------------------------------------------------------------

Next ==
    \/ \E t \in Tasks : EnqueueTask(t)
    \/ \E l \in Loops : Start(l) \/ Wake(l) \/ GetPendingTasks(l) \/ LoseQuery(l) \/ RunTasks(l)
    \/ \E t \in Tasks, s \in Reported : UpdateTask(t, s) \/ LoseUpdate(t, s)
    \/ \E t \in Tasks, n \in Ordinals, s \in {"COMPLETED", "FAILED"} : FinishTask(t, n, s)
    \/ Stop
    \/ BeginDiagnosis \/ \E halts \in BOOLEAN : EndDiagnosis(halts)
    \/ HealthCheck

LoopStep(l) == Wake(l) \/ GetPendingTasks(l) \/ RunTasks(l)
Delivery == \E t \in Tasks, s \in Reported : UpdateTask(t, s)
Return == \E t \in Tasks, n \in Ordinals, s \in {"COMPLETED", "FAILED"} : FinishTask(t, n, s)

\* Timers fire, the hub answers, calls that were sent complete, and generators
\* return or throw.
Fairness == (\A l \in Loops : WF_vars(LoopStep(l))) /\ WF_vars(Delivery) /\ WF_vars(Return)

Spec == Init /\ [][Next]_vars
FairSpec == Spec /\ Fairness

-----------------------------------------------------------------------------
(* Properties.                                                             *)

\* The generators at work never outnumber maxConcurrentTasks, although the
\* budget of a poll was computed before it was answered.
NeverOverLimit == Cardinality(runs) <= MaxConcurrent

\* Whatever order the updates arrive in and whichever are lost, a row of a type
\* the worker knows says COMPLETED only when a generator called for it has
\* returned, any other row only when there was an orchestrator; and a row says
\* FAILED only when a generator called for it threw, or there was none to call.
StatusEarned ==
    \A t \in Tasks :
        /\ rows[t] = "COMPLETED" => orchestrated /\ (t \in typed => "COMPLETED" \in outcomes[t])
        /\ rows[t] = "FAILED" => ~orchestrated \/ "FAILED" \in outcomes[t]

\* A row of a worker that stays up and unpaused does not stay PENDING, although
\* updates and answers get lost and the limit shrinks under load.
EveryTaskTaken ==
    <>[](running /\ ~paused) =>
        \A t \in Tasks : rows[t] = "PENDING" ~> rows[t] # "PENDING"
=============================================================================
