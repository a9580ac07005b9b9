------------------------- MODULE TaskDispatchProofs -------------------------
(***************************************************************************)
(* The safety of the dispatch of tasks for every table, limit and bound.   *)
(* NeverOverLimit is not inductive: the answer of a poll is used after the *)
(* counter it was computed from, so the argument carries the budget of the *)
(* poll until it is spent (BudgetFits), and the counter has to be the      *)
(* number of runs (CountOfRuns).  It needs that a single loop is alive.    *)
(* StatusEarned needs the same for the updates still in flight.            *)
(***************************************************************************)
EXTENDS TaskDispatch, FiniteSetTheorems, TLAPS

\* The counter is the number of generators at work.
CountOfRuns == IsFiniteSet(runs) /\ currentTasks = Cardinality(runs)

\* What a poll was promised still fits under the limit when it is answered.
BudgetFits ==
    /\ currentTasks <= MaxConcurrent
    /\ \A l \in Loops :
          /\ loops[l].at \in {"asking", "answered"} => currentTasks + loops[l].budget <= MaxConcurrent
          /\ loops[l].at = "answered" => Cardinality(loops[l].got) <= loops[l].budget

\* What a report of an end of row t must be about.
Earned(t, s) ==
    /\ s = "COMPLETED" => orchestrated /\ (t \in typed => "COMPLETED" \in outcomes[t])
    /\ s = "FAILED" => ~orchestrated \/ "FAILED" \in outcomes[t]

\* An update that reports an end is about an end that happened.
InFlightEarned ==
    \A t \in Tasks, s \in {"COMPLETED", "FAILED"} : updates[<<t, s>>] > 0 => Earned(t, s)

\* A generator is at work only for a worker with an orchestrator.
CalledByWorker == runs # {} => orchestrated

CountInv == TypeOK /\ CountOfRuns
OneLoop == \A l, k \in Loops : l = k

Loop == [at : {"off", "asking", "answered", "waiting"}, budget : 0..MaxConcurrent, got : SUBSET Tasks]

-----------------------------------------------------------------------------
\* The limits the governance may answer are between one and the base.
LEMMA LimitRange == \A limit \in DynamicLimits : limit \in 1..MaxConcurrent
<1> DEFINE half == MaxConcurrent \div 2
           quarter == MaxConcurrent \div 4
<1>1. half \in Nat /\ quarter \in Nat /\ half <= MaxConcurrent /\ quarter <= MaxConcurrent /\ MaxConcurrent >= 1
  BY DispatchAssumption
<1> HIDE DEF half, quarter
<1>2. DynamicLimits = {MaxConcurrent, IF half = 0 THEN 1 ELSE half, IF quarter = 0 THEN 1 ELSE quarter}
  BY DEF DynamicLimits, half, quarter
<1>3. QED
  BY <1>1, <1>2, DispatchAssumption

\* The two rest positions of a loop.
LEMMA RestingLoops == Off \in Loop /\ Waiting \in Loop
BY DispatchAssumption DEF Off, Waiting, Loop

\* A pass leaves the loop waiting, or asking for what the limit leaves over.
LEMMA PassResult ==
  ASSUME TypeOK, CountOfRuns, NEW l \in Loops, Pass(l)
  PROVE  \E p \in Loop :
            /\ loops' = [loops EXCEPT ![l] = p]
            /\ \/ p.at = "waiting"
               \/ p.at = "asking" /\ currentTasks + p.budget <= MaxConcurrent
<1>1. currentTasks \in Nat
  BY FS_CardinalityType DEF CountOfRuns
<1>2. CASE paused
  BY <1>2, RestingLoops DEF Pass, Waiting
<1>3. CASE ~paused
  <2>1. PICK limit \in DynamicLimits : loops' = [loops EXCEPT ![l] =
                IF currentTasks < limit
                THEN [at |-> "asking", budget |-> limit - currentTasks, got |-> {}]
                ELSE Waiting]
    BY <1>3 DEF Pass
  <2>2. limit \in 1..MaxConcurrent
    BY LimitRange
  <2>3. CASE currentTasks < limit
    <3> DEFINE p == [at |-> "asking", budget |-> limit - currentTasks, got |-> {}]
    <3>1. p \in Loop
      BY <1>1, <2>2, <2>3, DispatchAssumption DEF Loop
    <3>2. p.at = "asking" /\ currentTasks + p.budget <= MaxConcurrent
      BY <1>1, <2>2, <2>3, DispatchAssumption
    <3>3. loops' = [loops EXCEPT ![l] = p]
      BY <2>1, <2>3
    <3> HIDE DEF p
    <3>4. QED
      BY <3>1, <3>2, <3>3
  <2>4. CASE ~(currentTasks < limit)
    <3>1. loops' = [loops EXCEPT ![l] = Waiting]
      BY <2>1, <2>4
    <3>2. QED
      BY <3>1, RestingLoops DEF Waiting
  <2>5. QED
    BY <2>3, <2>4
<1>4. QED
  BY <1>2, <1>3

\* The runs an answer starts are new and as many as the rows it names.
LEMMA NewRuns ==
  ASSUME NEW got \in SUBSET Tasks, \A t \in got : Free(t) # {}
  PROVE  LET new == {NewRun(t) : t \in got}
         IN  /\ new \subseteq Tasks \X Ordinals
             /\ new \cap runs = {}
             /\ IsFiniteSet(new)
             /\ Cardinality(new) = Cardinality(got)
<1> DEFINE new == {NewRun(t) : t \in got}
           f == [t \in got |-> NewRun(t)]
<1>1. \A t \in got : (CHOOSE n \in Free(t) : TRUE) \in Free(t)
  OBVIOUS
<1>2. \A t \in got : NewRun(t) \in Tasks \X Ordinals /\ NewRun(t) \notin runs /\ NewRun(t)[1] = t
  BY <1>1 DEF NewRun, Free
<1>3. IsFiniteSet(got)
  BY FS_Subset, DispatchAssumption
<1>4. f \in Bijection(got, new)
  BY <1>2 DEF Bijection, Injection, Surjection, IsInjective
<1>5. IsFiniteSet(new) /\ Cardinality(new) = Cardinality(got)
  BY <1>3, <1>4, FS_Bijection DEF ExistsBijection
<1>6. QED
  BY <1>2, <1>5

-----------------------------------------------------------------------------
\* The constructor of the worker and an empty table are a correct state.
LEMMA DispatchInit ==
  Init => CountInv /\ BudgetFits /\ StatusEarned /\ InFlightEarned
<1> SUFFICES ASSUME Init PROVE CountInv /\ BudgetFits /\ StatusEarned /\ InFlightEarned
  OBVIOUS
<1>1. Off \in Loop
  BY RestingLoops
<1>2. TypeOK
  <2>1. loops \in [Loops -> Loop]
    BY <1>1 DEF Init
  <2>2. /\ rows \in [Tasks -> Reported \cup {"none", "PENDING"}]
        /\ updates \in [Tasks \X Reported -> 0..MaxInFlight]
        /\ runs \subseteq Tasks \X Ordinals
        /\ outcomes \in [Tasks -> SUBSET {"COMPLETED", "FAILED"}]
    BY DispatchAssumption DEF Init
  <2>3. worker \in BOOLEAN \X BOOLEAN \X BOOLEAN
    BY DEF Init, worker
  <2>4. /\ currentTasks \in Nat /\ diagnosing \in BOOLEAN /\ orchestrated \in BOOLEAN /\ typed \subseteq Tasks
        /\ starts \in 0..MaxStarts /\ losses \in 0..MaxLosses
    BY DispatchAssumption DEF Init
  <2>5. QED
    BY <2>1, <2>2, <2>3, <2>4 DEF TypeOK, Loop
<1>3. CountOfRuns
  BY FS_EmptySet DEF Init, CountOfRuns
<1>4. BudgetFits
  BY DispatchAssumption DEF Init, BudgetFits, Off
<1>5. StatusEarned /\ InFlightEarned
  BY DispatchAssumption DEF Init, StatusEarned, InFlightEarned, Earned, Reported
<1>6. QED
  BY <1>2, <1>3, <1>4, <1>5 DEF CountInv

\* What a call sends keeps the bag of updates within its bound, and adds
\* nothing but its messages.
LEMMA SentType ==
  ASSUME TypeOK, NEW messages \in SUBSET (Tasks \X Reported),
         \A m \in messages : updates[m] < MaxInFlight
  PROVE  /\ Sent(messages) \in [Tasks \X Reported -> 0..MaxInFlight]
         /\ \A m \in (Tasks \X Reported) \ messages : Sent(messages)[m] = updates[m]
<1>1. updates \in [Tasks \X Reported -> 0..MaxInFlight]
  BY DEF TypeOK
<1>2. ASSUME NEW m \in Tasks \X Reported PROVE Sent(messages)[m] \in 0..MaxInFlight
  BY <1>1, DispatchAssumption DEF Sent
<1>3. QED
  BY <1>2 DEF Sent

-----------------------------------------------------------------------------
\* Type correctness and the count are preserved by every step.
LEMMA CountNext ==
  ASSUME CountInv, [Next]_vars
  PROVE  CountInv'
<1> USE DispatchAssumption
<1>0. /\ rows \in [Tasks -> Reported \cup {"none", "PENDING"}]
      /\ updates \in [Tasks \X Reported -> 0..MaxInFlight]
      /\ running \in BOOLEAN /\ paused \in BOOLEAN /\ listening \in BOOLEAN
      /\ currentTasks \in Nat
      /\ loops \in [Loops -> Loop]
      /\ runs \subseteq Tasks \X Ordinals
      /\ outcomes \in [Tasks -> SUBSET {"COMPLETED", "FAILED"}]
      /\ diagnosing \in BOOLEAN /\ orchestrated \in BOOLEAN /\ typed \subseteq Tasks
      /\ starts \in 0..MaxStarts /\ losses \in 0..MaxLosses
      /\ TypeOK /\ CountOfRuns
  BY DEF CountInv, TypeOK, worker, Loop
<1>2. ASSUME NEW t \in Tasks, EnqueueTask(t) PROVE CountInv'
  BY <1>0, <1>2 DEF EnqueueTask, CountInv, TypeOK, CountOfRuns, worker, given, bounds, Loop
<1>3. ASSUME NEW l \in Loops, Start(l) PROVE CountInv'
  <2>1. loops' \in [Loops -> Loop]
    BY <1>0, <1>3, PassResult DEF Start
  <2>2. /\ UNCHANGED <<rows, updates, paused, listening, currentTasks, runs, outcomes, diagnosing, given, losses>>
        /\ running' \in BOOLEAN /\ starts' \in 0..MaxStarts
    BY <1>0, <1>3 DEF Start
  <2>3. QED
    BY <1>0, <2>1, <2>2 DEF CountInv, TypeOK, CountOfRuns, worker, given, Loop
<1>4. ASSUME NEW l \in Loops, Wake(l) PROVE CountInv'
  <2>1. loops' \in [Loops -> Loop]
    <3>1. CASE running
      BY <1>0, <1>4, <3>1, PassResult DEF Wake
    <3>2. CASE ~running
      BY <1>0, <1>4, <3>2, RestingLoops DEF Wake
    <3>3. QED
      BY <3>1, <3>2
  <2>2. UNCHANGED <<rows, updates, worker, currentTasks, runs, outcomes, diagnosing, given, bounds>>
    BY <1>4 DEF Wake
  <2>3. QED
    BY <1>0, <2>1, <2>2 DEF CountInv, TypeOK, CountOfRuns, worker, given, bounds, Loop
<1>5. ASSUME NEW l \in Loops, GetPendingTasks(l) PROVE CountInv'
  <2>1. loops' \in [Loops -> Loop]
    BY <1>0, <1>5 DEF GetPendingTasks, Answered, Loop, PendingRows
  <2>2. QED
    BY <1>0, <1>5, <2>1 DEF GetPendingTasks, CountInv, TypeOK, CountOfRuns, worker, given, bounds, Loop
<1>6. ASSUME NEW l \in Loops, LoseQuery(l) PROVE CountInv'
  <2>1. loops' \in [Loops -> Loop]
    BY <1>0, <1>6 DEF LoseQuery, Answered, Loop
  <2>2. QED
    BY <1>0, <1>6, <2>1 DEF LoseQuery, CountInv, TypeOK, CountOfRuns, worker, given, Loop
<1>7. ASSUME NEW l \in Loops, RunTasks(l) PROVE CountInv'
  <2> DEFINE got == loops[l].got
             started == IF orchestrated THEN got \cap typed ELSE {}
             ended == IF orchestrated THEN "COMPLETED" ELSE "FAILED"
             new == {NewRun(t) : t \in started}
             messages == (got \X {"RUNNING"}) \cup ((got \ started) \X {ended})
  <2>1. got \in SUBSET Tasks /\ started \in SUBSET Tasks
    BY <1>0 DEF Loop
  <2>2. /\ new \subseteq Tasks \X Ordinals /\ new \cap runs = {}
        /\ IsFiniteSet(new) /\ Cardinality(new) = Cardinality(started)
    <3>1. \A t \in started : Free(t) # {}
      BY <1>7 DEF RunTasks
    <3> HIDE DEF started
    <3>2. QED
      BY <2>1, <3>1, NewRuns
  <2>3. messages \in SUBSET (Tasks \X Reported) /\ \A m \in messages : updates[m] < MaxInFlight
    <3>1. \A t \in got, s \in Reported : updates[<<t, s>>] < MaxInFlight
      BY <1>7 DEF RunTasks
    <3> HIDE DEF got
    <3>2. messages \in SUBSET (Tasks \X Reported)
      BY <2>1 DEF Reported
    <3>3. ASSUME NEW m \in messages PROVE updates[m] < MaxInFlight
      <4>1. m[1] \in got /\ m[2] \in Reported /\ m = <<m[1], m[2]>>
        BY DEF Reported
      <4> HIDE DEF messages
      <4>2. QED
        BY <3>1, <4>1
    <3>4. QED
      BY <3>2, <3>3
  <2>4. loops' \in [Loops -> Loop]
    BY <1>0, <1>7, RestingLoops DEF RunTasks
  <2>5. updates' \in [Tasks \X Reported -> 0..MaxInFlight]
    <3>1. updates' = Sent(messages)
      BY <1>7 DEF RunTasks
    <3> HIDE DEF messages
    <3>2. QED
      BY <1>0, <2>3, <3>1, SentType
  <2>6. /\ runs' \subseteq Tasks \X Ordinals /\ currentTasks' \in Nat
        /\ IsFiniteSet(runs') /\ currentTasks' = Cardinality(runs')
    <3>1. runs' = runs \cup new /\ currentTasks' = currentTasks + Cardinality(started)
      BY <1>7 DEF RunTasks
    <3> HIDE DEF started, new
    <3>2. /\ IsFiniteSet(runs \cup new)
          /\ Cardinality(runs \cup new) = Cardinality(runs) + Cardinality(new) - Cardinality(runs \cap new)
      BY <1>0, <2>2, FS_Union DEF CountOfRuns
    <3>3. Cardinality(runs \cap new) = 0
      <4>1. runs \cap new = {}
        BY <2>2
      <4>2. QED
        BY <4>1, FS_EmptySet
    <3>4. Cardinality(new) \in Nat
      BY <2>2, FS_CardinalityType
    <3>5. currentTasks' = Cardinality(runs') /\ currentTasks' \in Nat
      BY <1>0, <2>2, <3>1, <3>2, <3>3, <3>4 DEF CountOfRuns
    <3>6. QED
      BY <1>0, <2>2, <3>1, <3>2, <3>5
  <2>7. QED
    BY <1>0, <1>7, <2>4, <2>5, <2>6 DEF RunTasks, CountInv, TypeOK, CountOfRuns, worker, given, bounds, Loop
<1>8. ASSUME NEW t \in Tasks, NEW s \in Reported, UpdateTask(t, s) PROVE CountInv'
  <2>1. updates' \in [Tasks \X Reported -> 0..MaxInFlight] /\ rows' \in [Tasks -> Reported \cup {"none", "PENDING"}]
    BY <1>0, <1>8 DEF UpdateTask
  <2>2. QED
    BY <1>0, <1>8, <2>1 DEF UpdateTask, CountInv, TypeOK, CountOfRuns, worker, given, bounds, Loop
<1>9. ASSUME NEW t \in Tasks, NEW s \in Reported, LoseUpdate(t, s) PROVE CountInv'
  <2>1. updates' \in [Tasks \X Reported -> 0..MaxInFlight] /\ losses' \in 0..MaxLosses
    BY <1>0, <1>9 DEF LoseUpdate
  <2>2. QED
    BY <1>0, <1>9, <2>1 DEF LoseUpdate, CountInv, TypeOK, CountOfRuns, worker, given, Loop
<1>10. ASSUME NEW t \in Tasks, NEW n \in Ordinals, NEW s \in {"COMPLETED", "FAILED"}, FinishTask(t, n, s)
       PROVE CountInv'
  <2>1. updates' \in [Tasks \X Reported -> 0..MaxInFlight]
    <3>1. {<<t, s>>} \in SUBSET (Tasks \X Reported)
      BY <1>10 DEF Reported
    <3>2. \A m \in {<<t, s>>} : updates[m] < MaxInFlight
      BY <1>10 DEF FinishTask
    <3>3. QED
      BY <1>0, <1>10, <3>1, <3>2, SentType DEF FinishTask
  <2>2. /\ runs' \subseteq Tasks \X Ordinals /\ currentTasks' \in Nat
        /\ IsFiniteSet(runs') /\ currentTasks' = Cardinality(runs')
    <3>1. /\ IsFiniteSet(runs \ {<<t, n>>})
          /\ Cardinality(runs \ {<<t, n>>}) = Cardinality(runs) - 1
      BY <1>0, <1>10, FS_RemoveElement DEF CountOfRuns, FinishTask
    <3>2. Cardinality(runs \ {<<t, n>>}) \in Nat
      BY <3>1, FS_CardinalityType
    <3>3. runs' = runs \ {<<t, n>>} /\ currentTasks' = currentTasks - 1
      BY <1>10 DEF FinishTask
    <3>4. QED
      BY <1>0, <3>1, <3>2, <3>3 DEF CountOfRuns
  <2>3. outcomes' \in [Tasks -> SUBSET {"COMPLETED", "FAILED"}]
    BY <1>0, <1>10 DEF FinishTask
  <2>4. QED
    BY <1>0, <1>10, <2>1, <2>2, <2>3 DEF FinishTask, CountInv, TypeOK, CountOfRuns, worker, given, bounds, Loop
<1>11. CASE Stop
  BY <1>0, <1>11 DEF Stop, CountInv, TypeOK, CountOfRuns, worker, given, bounds, Loop
<1>12. CASE BeginDiagnosis
  BY <1>0, <1>12 DEF BeginDiagnosis, CountInv, TypeOK, CountOfRuns, worker, given, bounds, Loop
<1>16. ASSUME NEW halts \in BOOLEAN, EndDiagnosis(halts) PROVE CountInv'
  <2>1. paused' \in BOOLEAN /\ diagnosing' \in BOOLEAN
    BY <1>0, <1>16 DEF EndDiagnosis
  <2>2. QED
    BY <1>0, <1>16, <2>1 DEF EndDiagnosis, CountInv, TypeOK, CountOfRuns, worker, given, bounds, Loop
<1>13. CASE HealthCheck
  BY <1>0, <1>13 DEF HealthCheck, CountInv, TypeOK, CountOfRuns, worker, given, bounds, Loop
<1>14. CASE UNCHANGED vars
  BY <1>0, <1>14 DEF vars, CountInv, TypeOK, CountOfRuns, worker, given, bounds, Loop
<1>15. QED
  BY <1>2, <1>3, <1>4, <1>5, <1>6, <1>7, <1>8, <1>9, <1>10, <1>11, <1>12, <1>13, <1>14, <1>16 DEF Next

\* Type correctness holds in every reachable state.
THEOREM DispatchTypeCorrect == Spec => []TypeOK
<1>1. CountInv => TypeOK
  BY DEF CountInv
<1>2. QED
  BY <1>1, DispatchInit, CountNext, PTL DEF Spec

-----------------------------------------------------------------------------
\* With one loop, no step lets the work outgrow the limit: the budget only
\* meets a counter that has fallen since it was computed.
LEMMA BudgetNext ==
  ASSUME OneLoop, CountInv, BudgetFits, [Next]_vars
  PROVE  BudgetFits'
<1> USE DispatchAssumption
<1>0. /\ currentTasks \in Nat /\ currentTasks' \in Nat
      /\ loops \in [Loops -> Loop] /\ loops' \in [Loops -> Loop]
      /\ TypeOK /\ CountOfRuns
  BY CountNext DEF CountInv, TypeOK, Loop
<1>1. ASSUME currentTasks' <= currentTasks, loops' = loops PROVE BudgetFits'
  <2>1. ASSUME NEW l \in Loops PROVE loops[l].budget \in Nat
    BY <1>0 DEF Loop
  <2>2. QED
    BY <1>0, <1>1, <2>1 DEF BudgetFits
<1>2. ASSUME NEW l \in Loops, NEW p \in Loop, loops' = [loops EXCEPT ![l] = p],
             currentTasks' <= MaxConcurrent,
             p.at \in {"asking", "answered"} => currentTasks' + p.budget <= MaxConcurrent,
             p.at = "answered" => Cardinality(p.got) <= p.budget
      PROVE  BudgetFits'
  <2>1. \A k \in Loops : loops'[k] = p
    BY <1>0, <1>2 DEF OneLoop
  <2>2. QED
    BY <1>2, <2>1 DEF BudgetFits
<1>3. ASSUME NEW l \in Loops, Pass(l), UNCHANGED currentTasks PROVE BudgetFits'
  <2>1. PICK p \in Loop :
            /\ loops' = [loops EXCEPT ![l] = p]
            /\ \/ p.at = "waiting"
               \/ p.at = "asking" /\ currentTasks + p.budget <= MaxConcurrent
    BY <1>0, <1>3, PassResult
  <2>2. currentTasks' <= MaxConcurrent
    BY <1>3 DEF BudgetFits
  <2>3. QED
    BY <1>2, <1>3, <2>1, <2>2
<1>4. ASSUME NEW l \in Loops, Start(l) PROVE BudgetFits'
  BY <1>3, <1>4 DEF Start
<1>5. ASSUME NEW l \in Loops, Wake(l) PROVE BudgetFits'
  <2>1. currentTasks' = currentTasks /\ (running => Pass(l)) /\ (~running => loops' = [loops EXCEPT ![l] = Off])
    BY <1>5 DEF Wake
  <2>2. CASE running
    BY <1>3, <2>1, <2>2
  <2>3. CASE ~running
    <3>1. currentTasks' <= MaxConcurrent
      BY <2>1 DEF BudgetFits
    <3>2. Off \in Loop /\ Off.at = "off"
      BY RestingLoops DEF Off
    <3>3. QED
      BY <1>2, <2>1, <2>3, <3>1, <3>2
  <2>4. QED
    BY <2>2, <2>3
<1>6. ASSUME NEW l \in Loops, GetPendingTasks(l) PROVE BudgetFits'
  <2>1. PICK got \in SUBSET PendingRows :
            /\ Cardinality(got) <= loops[l].budget
            /\ loops' = [loops EXCEPT ![l] = Answered(l, got)]
    BY <1>6 DEF GetPendingTasks
  <2> DEFINE p == Answered(l, got)
  <2>2. p \in Loop /\ p.at = "answered" /\ p.budget = loops[l].budget /\ p.got = got
    BY <1>0 DEF Loop, PendingRows, Answered
  <2>3. loops' = [loops EXCEPT ![l] = p]
    BY <2>1
  <2>4. currentTasks' = currentTasks /\ currentTasks + loops[l].budget <= MaxConcurrent /\ currentTasks <= MaxConcurrent
    BY <1>6 DEF GetPendingTasks, BudgetFits
  <2> HIDE DEF p
  <2>5. QED
    BY <1>2, <2>1, <2>2, <2>3, <2>4
<1>7. ASSUME NEW l \in Loops, LoseQuery(l) PROVE BudgetFits'
  <2> DEFINE p == Answered(l, {})
  <2>1. p \in Loop /\ p.at = "answered" /\ p.budget = loops[l].budget /\ Cardinality(p.got) = 0
    BY <1>0, FS_EmptySet DEF Loop, Answered
  <2>2. loops' = [loops EXCEPT ![l] = p]
    BY <1>7 DEF LoseQuery
  <2>3. currentTasks' = currentTasks /\ currentTasks + loops[l].budget <= MaxConcurrent /\ currentTasks <= MaxConcurrent
    BY <1>7 DEF LoseQuery, BudgetFits
  <2>4. Cardinality(p.got) <= p.budget
    BY <1>0, <2>1 DEF Loop
  <2> HIDE DEF p
  <2>5. QED
    BY <1>2, <2>1, <2>2, <2>3, <2>4
<1>8. ASSUME NEW l \in Loops, RunTasks(l) PROVE BudgetFits'
  <2>1. loops' = [loops EXCEPT ![l] = Waiting] /\ Waiting \in Loop /\ Waiting.at = "waiting"
    BY <1>8, RestingLoops DEF RunTasks, Waiting
  <2>2. /\ currentTasks + loops[l].budget <= MaxConcurrent /\ currentTasks <= MaxConcurrent
        /\ Cardinality(loops[l].got) <= loops[l].budget
    BY <1>8 DEF RunTasks, BudgetFits
  <2> DEFINE started == IF orchestrated THEN loops[l].got \cap typed ELSE {}
  <2>3. currentTasks' = currentTasks + Cardinality(started)
    BY <1>8 DEF RunTasks
  <2>4. loops[l].got \in SUBSET Tasks /\ loops[l].budget \in Nat
    BY <1>0 DEF Loop
  <2>5. /\ Cardinality(started) \in Nat /\ Cardinality(loops[l].got) \in Nat
        /\ Cardinality(started) <= Cardinality(loops[l].got)
    <3>1. IsFiniteSet(loops[l].got) /\ started \subseteq loops[l].got
      BY <2>4, FS_Subset
    <3>2. QED
      BY <3>1, FS_Subset, FS_CardinalityType
  <2>6. currentTasks' <= MaxConcurrent
    BY <1>0, <2>2, <2>3, <2>4, <2>5
  <2>7. QED
    BY <1>2, <2>1, <2>6
<1>9. ASSUME NEW t \in Tasks, NEW n \in Ordinals, NEW s \in {"COMPLETED", "FAILED"}, FinishTask(t, n, s)
      PROVE BudgetFits'
  BY <1>0, <1>1, <1>9 DEF FinishTask
<1>10. ASSUME UNCHANGED <<currentTasks, loops>> PROVE BudgetFits'
  BY <1>0, <1>1, <1>10
<1>11. QED
  BY <1>4, <1>5, <1>6, <1>7, <1>8, <1>9, <1>10
     DEF Next, EnqueueTask, UpdateTask, LoseUpdate, Stop, BeginDiagnosis, EndDiagnosis, HealthCheck, vars

\* With a single live loop, the generators at work never outnumber
\* maxConcurrentTasks, for every table, limit and loss.
THEOREM DispatchWithinLimit == OneLoop /\ Spec => []NeverOverLimit
<1>1. OneLoop /\ CountInv /\ BudgetFits /\ [Next]_vars => CountInv' /\ BudgetFits'
  BY CountNext, BudgetNext
<1>2. CountInv /\ BudgetFits => NeverOverLimit
  BY DEF CountInv, CountOfRuns, BudgetFits, NeverOverLimit
<1>3. Init => CountInv /\ BudgetFits
  BY DispatchInit
<1>4. ASSUME OneLoop PROVE Spec => []NeverOverLimit
  <2>1. CountInv /\ BudgetFits /\ [Next]_vars => CountInv' /\ BudgetFits'
    BY <1>1, <1>4
  <2>2. QED
    BY <1>2, <1>3, <2>1, PTL DEF Spec
<1>5. QED
  BY <1>4

-----------------------------------------------------------------------------
\* What a row was earned by stays with it: generators only add to how they ended.
LEMMA EarnedStays ==
  ASSUME NEW t, NEW s, Earned(t, s), UNCHANGED given, outcomes[t] \subseteq outcomes'[t]
  PROVE  Earned(t, s)'
BY DEF Earned, given

\* Only a worker with an orchestrator starts runs.
LEMMA CalledNext ==
  ASSUME CalledByWorker, [Next]_vars
  PROVE  CalledByWorker'
<1>1. ASSUME NEW l \in Loops, RunTasks(l) PROVE CalledByWorker'
  <2>1. CASE orchestrated
    BY <1>1, <2>1 DEF RunTasks, given, CalledByWorker
  <2>2. CASE ~orchestrated
    BY <1>1, <2>2 DEF RunTasks, given, CalledByWorker
  <2>3. QED
    BY <2>1, <2>2
<1>2. ASSUME runs' \subseteq runs, UNCHANGED orchestrated PROVE CalledByWorker'
  BY <1>2 DEF CalledByWorker
<1>3. QED
  BY <1>1, <1>2
     DEF Next, EnqueueTask, Start, Wake, GetPendingTasks, LoseQuery, UpdateTask, LoseUpdate, FinishTask,
         Stop, BeginDiagnosis, EndDiagnosis, HealthCheck, vars, given

\* Every report of an end, in flight or in the table, is about an end that
\* happened.
LEMMA StatusNext ==
  ASSUME TypeOK, CalledByWorker, StatusEarned, InFlightEarned, [Next]_vars
  PROVE  StatusEarned' /\ InFlightEarned'
<1> DEFINE Ends == {"COMPLETED", "FAILED"}
<1> USE DispatchAssumption
<1>0. /\ rows \in [Tasks -> Reported \cup {"none", "PENDING"}]
      /\ updates \in [Tasks \X Reported -> 0..MaxInFlight]
      /\ outcomes \in [Tasks -> SUBSET Ends]
      /\ orchestrated \in BOOLEAN /\ typed \subseteq Tasks
  BY DEF TypeOK
<1>1. StatusEarned <=> \A u \in Tasks : rows[u] \in Ends => Earned(u, rows[u])
  BY DEF StatusEarned, Earned
<1>2. StatusEarned' <=> \A u \in Tasks : rows'[u] \in Ends => Earned(u, rows[u])'
  BY DEF StatusEarned, Earned
<1>3. UNCHANGED given /\ \A u \in Tasks : outcomes[u] \subseteq outcomes'[u]
  BY <1>0 DEF Next, EnqueueTask, Start, Wake, GetPendingTasks, LoseQuery, RunTasks, UpdateTask, LoseUpdate,
              FinishTask, Stop, BeginDiagnosis, EndDiagnosis, HealthCheck, vars
<1>4. \A u \in Tasks, r \in Ends : Earned(u, r) => Earned(u, r)'
  BY <1>3, EarnedStays
<1>5. ASSUME rows' = rows PROVE StatusEarned'
  <2>1. ASSUME NEW u \in Tasks, rows'[u] \in Ends PROVE Earned(u, rows[u])'
    <3>1. PICK r \in Ends : rows[u] = r
      BY <1>5, <2>1
    <3>2. Earned(u, r)'
      BY <1>1, <1>4, <2>1, <3>1
    <3>3. QED
      BY <1>5, <3>1, <3>2
  <2>2. QED
    BY <1>2, <2>1
<1>6. ASSUME \A u \in Tasks, r \in Ends : updates'[<<u, r>>] > 0 => updates[<<u, r>>] > 0 \/ Earned(u, r)'
      PROVE InFlightEarned'
  BY <1>4, <1>6 DEF InFlightEarned
<1>7. ASSUME NEW t \in Tasks, EnqueueTask(t) PROVE StatusEarned' /\ InFlightEarned'
  <2>1. ASSUME NEW u \in Tasks, rows'[u] \in Ends PROVE Earned(u, rows[u])'
    <3>1. rows[u] \in Ends /\ rows'[u] = rows[u]
      BY <1>0, <1>7, <2>1 DEF EnqueueTask
    <3>2. PICK r \in Ends : rows[u] = r
      BY <3>1
    <3>3. Earned(u, r)'
      BY <1>1, <1>4, <3>1, <3>2
    <3>4. QED
      BY <3>1, <3>2, <3>3
  <2>2. updates' = updates
    BY <1>7 DEF EnqueueTask
  <2>3. QED
    BY <1>2, <1>6, <2>1, <2>2
<1>8. ASSUME NEW t \in Tasks, NEW s \in Reported, UpdateTask(t, s) PROVE StatusEarned' /\ InFlightEarned'
  <2>1. \A u \in Tasks, r \in Ends : updates'[<<u, r>>] > 0 => updates[<<u, r>>] > 0
    BY <1>0, <1>8 DEF UpdateTask, Reported
  <2>2. ASSUME NEW u \in Tasks, rows'[u] \in Ends PROVE Earned(u, rows[u])'
    <3>1. PICK r \in Ends : rows'[u] = r
      BY <2>2
    <3>2. Earned(u, r)
      <4>1. CASE u = t
        <5>1. r = s /\ updates[<<u, r>>] > 0
          BY <1>0, <1>8, <3>1, <4>1 DEF UpdateTask
        <5>2. QED
          BY <5>1 DEF InFlightEarned
      <4>2. CASE u # t
        <5>1. rows[u] = r
          BY <1>0, <1>8, <3>1, <4>2 DEF UpdateTask
        <5>2. QED
          BY <1>1, <5>1
      <4>3. QED
        BY <4>1, <4>2
    <3>3. Earned(u, r)'
      BY <1>4, <3>2
    <3>4. QED
      BY <3>1, <3>3
  <2>3. QED
    BY <1>2, <1>6, <2>1, <2>2
<1>9. ASSUME NEW t \in Tasks, NEW s \in Reported, LoseUpdate(t, s) PROVE StatusEarned' /\ InFlightEarned'
  <2>1. \A u \in Tasks, r \in Ends : updates'[<<u, r>>] > 0 => updates[<<u, r>>] > 0
    BY <1>0, <1>9 DEF LoseUpdate, Reported
  <2>2. rows' = rows
    BY <1>9 DEF LoseUpdate
  <2>3. QED
    BY <1>5, <1>6, <2>1, <2>2
<1>10. ASSUME NEW l \in Loops, RunTasks(l) PROVE StatusEarned' /\ InFlightEarned'
  <2> DEFINE got == loops[l].got
             started == IF orchestrated THEN got \cap typed ELSE {}
             ended == IF orchestrated THEN "COMPLETED" ELSE "FAILED"
             messages == (got \X {"RUNNING"}) \cup ((got \ started) \X {ended})
  <2>1. updates' = Sent(messages) /\ outcomes' = outcomes /\ rows' = rows
    BY <1>10 DEF RunTasks
  <2>2. ASSUME NEW u \in Tasks, NEW r \in Ends, <<u, r>> \in messages PROVE Earned(u, r)'
    <3>1. u \notin started /\ u \in got /\ r = ended
      BY <2>2
    <3>2. Earned(u, r)
      BY <3>1, <1>0 DEF Earned
    <3>3. QED
      BY <1>4, <3>2
  <2>3. ASSUME NEW u \in Tasks, NEW r \in Ends PROVE updates'[<<u, r>>] > 0 => updates[<<u, r>>] > 0 \/ Earned(u, r)'
    <3>1. CASE <<u, r>> \in messages
      BY <2>2, <3>1
    <3>2. CASE <<u, r>> \notin messages
      <4>1. <<u, r>> \in Tasks \X Reported
        BY DEF Reported
      <4> HIDE DEF messages
      <4>2. QED
        BY <2>1, <3>2, <4>1 DEF Sent
    <3>3. QED
      BY <3>1, <3>2
  <2>4. QED
    BY <1>5, <1>6, <2>1, <2>3
<1>11. ASSUME NEW t \in Tasks, NEW n \in Ordinals, NEW s \in Ends, FinishTask(t, n, s)
       PROVE StatusEarned' /\ InFlightEarned'
  <2>1. updates' = Sent({<<t, s>>}) /\ outcomes' = [outcomes EXCEPT ![t] = @ \cup {s}] /\ rows' = rows
    BY <1>11 DEF FinishTask
  <2>2. s \in outcomes'[t] /\ Earned(t, s)'
    <3>1. s \in outcomes'[t]
      BY <1>0, <2>1
    <3>2. s = "COMPLETED" => orchestrated'
      BY <1>11 DEF FinishTask, CalledByWorker, given
    <3>3. QED
      BY <3>1, <3>2 DEF Earned
  <2>3. ASSUME NEW u \in Tasks, NEW r \in Ends PROVE updates'[<<u, r>>] > 0 => updates[<<u, r>>] > 0 \/ Earned(u, r)'
    <3>1. CASE <<u, r>> = <<t, s>>
      BY <2>2, <3>1
    <3>2. CASE <<u, r>> # <<t, s>>
      BY <2>1, <3>2 DEF Sent, Reported
    <3>3. QED
      BY <3>1, <3>2
  <2>4. QED
    BY <1>5, <1>6, <2>1, <2>3
<1>12. ASSUME UNCHANGED <<rows, updates>> PROVE StatusEarned' /\ InFlightEarned'
  BY <1>5, <1>6, <1>12
<1>13. QED
  BY <1>7, <1>8, <1>9, <1>10, <1>11, <1>12
     DEF Next, Start, Wake, GetPendingTasks, LoseQuery, Stop, BeginDiagnosis, EndDiagnosis, HealthCheck, vars

\* For every table, with an orchestrator or without, and whichever rows have a
\* type the worker knows: COMPLETED is reported of a known type only after its
\* generator returned and of the others only with an orchestrator, FAILED only
\* after a generator threw or without one, whatever order updates arrive in and
\* whichever of them are lost.
THEOREM DispatchStatusEarned == Spec => []StatusEarned
<1>1. CountInv => TypeOK
  BY DEF CountInv
<1>2. Init => CountInv /\ CalledByWorker /\ StatusEarned /\ InFlightEarned
  BY DispatchInit DEF Init, CalledByWorker
<1>3. CountInv /\ CalledByWorker /\ StatusEarned /\ InFlightEarned /\ [Next]_vars
      => (CountInv /\ CalledByWorker /\ StatusEarned /\ InFlightEarned)'
  BY <1>1, CountNext, CalledNext, StatusNext
<1>4. QED
  BY <1>2, <1>3, PTL DEF Spec
=============================================================================
