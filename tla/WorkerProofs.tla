---------------------------- MODULE WorkerProofs ----------------------------
(***************************************************************************)
(* What is done in the background: the pool of tasks, and the tests and    *)
(* docstrings the task worker's tasks write.                               *)
(*                                                                         *)
(* The pool is safe for every set of task ids, every concurrency limit and *)
(* every number of enqueue calls.  None of its invariants is inductive     *)
(* alone: the counter stays exact only because an entry cannot be started  *)
(* twice, which holds only because the entries of the queue are distinct   *)
(* and new ones carry an unused serial.  Inv is their conjunction.         *)
(*                                                                         *)
(* The test engine is trusted for any files, answers, edits and number of  *)
(* tasks at a time: while one task has a test for itself it knows what is  *)
(* on disk and whether it wrote it as a repair (OneHolder, HolderKnows).   *)
(***************************************************************************)
EXTENDS TaskWorkerPool, TestFactory, FiniteSetTheorems, SequenceTheorems, TLAPS

\* A pool in use: q is waiting, run is in flight and active counts it.
Consistent(q, active, run) ==
  /\ q \in Seq(Entry)
  /\ run \subseteq Entry
  /\ IsFiniteSet(run)
  /\ active = Cardinality(run)
  /\ active <= MaxConcurrency
  /\ Distinct(q)
  /\ Elements(q) \cap run = {}

Inv ==
  /\ TypeOK
  /\ IsFiniteSet(running)
  /\ ActiveCountExact
  /\ NoStrandedTask
  /\ InOnePlace

-----------------------------------------------------------------------------
(* Queues. *)

\* Shifting a queue of distinct entries takes the head out of it for good.
LEMMA TailElements ==
  ASSUME NEW q \in Seq(Entry), q # <<>>, Distinct(q)
  PROVE  /\ Head(q) \in Entry
         /\ Tail(q) \in Seq(Entry)
         /\ Distinct(Tail(q))
         /\ Head(q) \notin Elements(Tail(q))
         /\ Elements(q) = Elements(Tail(q)) \cup {Head(q)}
<1>1. /\ Head(q) \in Entry /\ Tail(q) \in Seq(Entry)
      /\ Len(Tail(q)) = Len(q) - 1
      /\ \A i \in 1..Len(Tail(q)) : Tail(q)[i] = q[i + 1]
  BY HeadTailProperties
<1>2. /\ Len(q) \in Nat \ {0}
      /\ DOMAIN q = 1..Len(q)
      /\ DOMAIN Tail(q) = 1..(Len(q) - 1)
  BY <1>1, LenProperties, EmptySeq
<1>3. Head(q) = q[1]
  OBVIOUS
<1>4. \A i, j \in DOMAIN Tail(q) : Tail(q)[i] = Tail(q)[j] => i = j
  BY <1>1, <1>2 DEF Distinct
<1>5. Head(q) \notin Elements(Tail(q))
  <2>1. SUFFICES ASSUME NEW i \in DOMAIN Tail(q), Tail(q)[i] = Head(q) PROVE FALSE
    BY DEF Elements
  <2>2. q[i + 1] = q[1] /\ i + 1 \in DOMAIN q /\ 1 \in DOMAIN q /\ i + 1 # 1
    BY <1>1, <1>2, <1>3, <2>1
  <2>3. QED
    BY <2>2 DEF Distinct
<1>6. Elements(q) \subseteq Elements(Tail(q)) \cup {Head(q)}
  <2>1. SUFFICES ASSUME NEW i \in DOMAIN q, i # 1
                 PROVE  q[i] \in Elements(Tail(q))
    BY <1>3 DEF Elements
  <2>2. i - 1 \in DOMAIN Tail(q) /\ Tail(q)[i - 1] = q[i]
    BY <1>1, <1>2, <2>1
  <2>3. QED
    BY <2>2 DEF Elements
<1>7. Elements(Tail(q)) \cup {Head(q)} \subseteq Elements(q)
  <2>1. \A i \in DOMAIN Tail(q) : i + 1 \in DOMAIN q /\ Tail(q)[i] = q[i + 1]
    BY <1>1, <1>2
  <2>2. 1 \in DOMAIN q
    BY <1>2
  <2>3. QED
    BY <1>3, <2>1, <2>2 DEF Elements
<1>8. QED
  BY <1>1, <1>4, <1>5, <1>6, <1>7 DEF Distinct

\* The elements of a queue of entries are entries.
LEMMA ElementsInEntry ==
  ASSUME NEW q \in Seq(Entry)
  PROVE  Elements(q) \subseteq Entry
BY LenProperties DEF Elements

\* Insert adds one entry, at either end, to the ones already there.
LEMMA InsertElements ==
  ASSUME NEW q \in Seq(Entry), NEW e \in Entry, Distinct(q), e \notin Elements(q)
  PROVE  /\ Insert(q, e) \in Seq(Entry)
         /\ Distinct(Insert(q, e))
         /\ Elements(Insert(q, e)) = Elements(q) \cup {e}
<1>1. Len(q) \in Nat /\ DOMAIN q = 1..Len(q)
  BY LenProperties
<1>2. CASE e.critical
  <2> DEFINE r == <<e>> \o q
  <2>1. <<e>> \in Seq(Entry) /\ Len(<<e>>) = 1 /\ <<e>>[1] = e
    OBVIOUS
  <2>2. /\ r \in Seq(Entry)
        /\ Len(r) = Len(q) + 1
        /\ \A i \in 1..(Len(q) + 1) : r[i] = IF i <= 1 THEN <<e>>[i] ELSE q[i - 1]
    BY <2>1, <1>1, ConcatProperties
  <2>3. DOMAIN r = 1..(Len(q) + 1)
    BY <2>2, LenProperties
  <2>4. r[1] = e /\ \A i \in 1..Len(q) : r[i + 1] = q[i]
    BY <2>1, <2>2, <1>1
  <2>5. \A i \in DOMAIN r : i = 1 \/ (i - 1 \in DOMAIN q /\ r[i] = q[i - 1])
    BY <2>2, <2>3, <1>1
  <2>6. Elements(r) \subseteq Elements(q) \cup {e}
    BY <2>4, <2>5 DEF Elements
  <2>7. Elements(q) \cup {e} \subseteq Elements(r)
    <3>1. \A i \in DOMAIN q : i + 1 \in DOMAIN r /\ r[i + 1] = q[i]
      BY <2>3, <2>4, <1>1
    <3>2. 1 \in DOMAIN r
      BY <2>3, <1>1
    <3>3. \A i \in DOMAIN q : q[i] \in Elements(r)
      BY <3>1 DEF Elements
    <3>4. e \in Elements(r)
      BY <3>2, <2>4 DEF Elements
    <3>5. QED
      BY <3>3, <3>4 DEF Elements
  <2>8. Distinct(r)
    <3>1. SUFFICES ASSUME NEW i \in DOMAIN r, NEW j \in DOMAIN r, r[i] = r[j] PROVE i = j
      BY DEF Distinct
    <3>2. CASE i = 1 \/ j = 1
      BY <3>1, <3>2, <2>4, <2>5 DEF Elements
    <3>3. CASE i # 1 /\ j # 1
      <4>1. i - 1 = j - 1
        BY <3>1, <3>3, <2>5 DEF Distinct
      <4>2. QED
        BY <4>1, <2>3
    <3>4. QED
      BY <3>2, <3>3
  <2>9. Insert(q, e) = r
    BY <1>2 DEF Insert
  <2>10. QED
    BY <2>2, <2>6, <2>7, <2>8, <2>9
<1>3. CASE ~e.critical
  <2> DEFINE r == Append(q, e)
  <2>1. /\ r \in Seq(Entry)
        /\ Len(r) = Len(q) + 1
        /\ \A i \in 1..Len(q) : r[i] = q[i]
        /\ r[Len(q) + 1] = e
    BY AppendProperties
  <2>2. DOMAIN r = 1..(Len(q) + 1)
    BY <2>1, LenProperties
  <2>3. \A i \in DOMAIN r : i = Len(q) + 1 \/ i \in DOMAIN q
    BY <2>2, <1>1
  <2>4. DOMAIN q \subseteq DOMAIN r /\ Len(q) + 1 \in DOMAIN r
    BY <2>2, <1>1
  <2>5. \A i \in DOMAIN q : r[i] = q[i]
    BY <2>1, <1>1
  <2>6. Elements(r) = Elements(q) \cup {e}
    BY <2>1, <2>3, <2>4, <2>5 DEF Elements
  <2>7. Distinct(r)
    BY <2>1, <2>3, <2>5 DEF Distinct, Elements
  <2>8. Insert(q, e) = r
    BY <1>3 DEF Insert
  <2>9. QED
    BY <2>1, <2>6, <2>7, <2>8
<1>4. QED
  BY <1>2, <1>3

-----------------------------------------------------------------------------
(* processNext. *)

\* From a consistent pool, processNext leaves a consistent pool, moves entries
\* from the queue to the executions and nowhere else, and never leaves a
\* running pool idle with work waiting.
LEMMA ProcessNextProperties ==
  ASSUME NEW q, NEW active, NEW on \in BOOLEAN, NEW run,
         Consistent(q, active, run),
         ProcessNext(q, active, on, run)
  PROVE  /\ Consistent(queue', activeWorkers', running')
         /\ Queued' \cup running' = Elements(q) \cup run
         /\ Queued' \subseteq Elements(q)
         /\ run \subseteq running'
         /\ on /\ queue' # <<>> => activeWorkers' > 0
<1>1. active \in Nat
  BY FS_CardinalityType DEF Consistent
<1>2. CASE MayTake(q, active, on)
  <2>1. /\ queue' = Tail(q)
        /\ activeWorkers' = active + 1
        /\ running' = run \cup {Head(q)}
    BY <1>2 DEF ProcessNext
  <2>2. q \in Seq(Entry) /\ q # <<>> /\ Distinct(q) /\ active < MaxConcurrency
    BY <1>2 DEF Consistent, MayTake
  <2>3. /\ Head(q) \in Entry
        /\ Tail(q) \in Seq(Entry)
        /\ Distinct(Tail(q))
        /\ Head(q) \notin Elements(Tail(q))
        /\ Elements(q) = Elements(Tail(q)) \cup {Head(q)}
    BY <2>2, TailElements
  <2>4. Head(q) \notin run
    BY <2>3 DEF Consistent
  <2>5. IsFiniteSet(running') /\ activeWorkers' = Cardinality(running')
    BY <2>1, <2>4, FS_AddElement DEF Consistent
  <2>6. activeWorkers' <= MaxConcurrency /\ activeWorkers' > 0
    BY <1>1, <2>1, <2>2, ConcurrencyAssumption
  <2>7. Consistent(queue', activeWorkers', running')
    BY <2>1, <2>2, <2>3, <2>5, <2>6 DEF Consistent
  <2>8. Queued' = Elements(Tail(q))
    BY <2>1 DEF Queued, Elements
  <2>9. QED
    BY <2>1, <2>3, <2>6, <2>7, <2>8
<1>3. CASE ~MayTake(q, active, on)
  <2>1. queue' = q /\ activeWorkers' = active /\ running' = run
    BY <1>3 DEF ProcessNext
  <2>2. on /\ queue' # <<>> => activeWorkers' > 0
    BY <1>1, <1>3, <2>1, ConcurrencyAssumption DEF MayTake
  <2>3. Queued' = Elements(q)
    BY <2>1 DEF Queued, Elements
  <2>4. QED
    BY <2>1, <2>2, <2>3
<1>4. QED
  BY <1>2, <1>3

-----------------------------------------------------------------------------
(* The invariant. *)

\* The constructor leaves an empty, stopped, consistent pool.
LEMMA InitInv == Init => Inv
<1>1. SUFFICES ASSUME Init PROVE Inv
  OBVIOUS
<1>2. Queued = {}
  BY <1>1 DEF Init, Queued, Elements
<1>3. Distinct(queue)
  BY <1>1 DEF Init, Distinct
<1>4. IsFiniteSet(running) /\ Cardinality(running) = 0
  BY <1>1, FS_EmptySet DEF Init
<1>5. queue \in Seq(Entry)
  BY <1>1, EmptySeq DEF Init
<1>6. TypeOK
  BY <1>1, <1>5 DEF Init, TypeOK
<1>7. ActiveCountExact /\ NoStrandedTask
  BY <1>1, <1>4, ConcurrencyAssumption DEF Init, ActiveCountExact, NoStrandedTask
<1>8. InOnePlace
  BY <1>1, <1>2, <1>3 DEF Init, InOnePlace, Finished
<1>9. QED
  BY <1>4, <1>6, <1>7, <1>8 DEF Inv

\* Inv makes the pool consistent.
LEMMA InvConsistent == Inv => Consistent(queue, activeWorkers, running)
BY DEF Inv, TypeOK, ActiveCountExact, InOnePlace, Consistent, Queued

\* A step that leaves a consistent pool, nothing in two places and every serial
\* used leaves Inv true.
LEMMA ConsistentInv ==
  ASSUME Consistent(queue, activeWorkers, running)',
         isRunning' \in BOOLEAN,
         completed' \subseteq Entry, failed' \subseteq Entry, accepted' \in Nat,
         isRunning' /\ queue' # <<>> => activeWorkers' > 0,
         Queued' \cap Finished' = {}, running' \cap Finished' = {},
         \A e \in Queued' \cup running' \cup Finished' : e.serial < accepted'
  PROVE  Inv'
<1>1. activeWorkers' \in Nat
  BY FS_CardinalityType DEF Consistent
<1>2. Queued' \cap running' = {}
  BY DEF Consistent, Queued
<1>3. TypeOK'
  BY <1>1 DEF Consistent, TypeOK
<1>4. ActiveCountExact' /\ NoStrandedTask'
  BY DEF Consistent, ActiveCountExact, NoStrandedTask
<1>5. InOnePlace'
  BY <1>2 DEF Consistent, InOnePlace
<1>6. QED
  BY <1>3, <1>4, <1>5 DEF Inv, Consistent

\* enqueue: the new entry has an unused serial, so it is nowhere in the pool, and
\* no older entry is dropped.
LEMMA EnqueueInv ==
  ASSUME Inv, NEW id \in TaskIds, NEW critical \in BOOLEAN, Enqueue(id, critical)
  PROVE  /\ Inv'
         /\ Queued \subseteq Queued' \cup running'
         /\ running \subseteq running'
<1> DEFINE e == [id |-> id, critical |-> critical, serial |-> accepted]
           q == Insert(queue, e)
<1>1. e \in Entry /\ e.serial = accepted
  BY DEF Inv, TypeOK, Entry
<1>2. e \notin Queued \cup running \cup Finished
  BY <1>1 DEF Inv, InOnePlace, TypeOK
<1>3. q \in Seq(Entry) /\ Distinct(q) /\ Elements(q) = Queued \cup {e}
  BY <1>1, <1>2, InsertElements DEF Inv, TypeOK, InOnePlace, Queued
<1>4. Consistent(q, activeWorkers, running)
  BY <1>2, <1>3 DEF Inv, TypeOK, ActiveCountExact, InOnePlace, Consistent
<1>5. ProcessNext(q, activeWorkers, isRunning, running)
  BY DEF Enqueue, Entry
<1>6. isRunning \in BOOLEAN
  BY DEF Inv, TypeOK
<1>7. /\ Consistent(queue', activeWorkers', running')
      /\ Queued' \cup running' = Queued \cup {e} \cup running
      /\ running \subseteq running'
      /\ isRunning /\ queue' # <<>> => activeWorkers' > 0
  <2> HIDE DEF q
  <2>1. /\ Consistent(queue', activeWorkers', running')
        /\ Queued' \cup running' = Elements(q) \cup running
        /\ running \subseteq running'
        /\ isRunning /\ queue' # <<>> => activeWorkers' > 0
    BY <1>4, <1>5, <1>6, ProcessNextProperties
  <2>2. QED
    BY <1>3, <2>1
<1>8. /\ accepted' = accepted + 1
      /\ isRunning' = isRunning
      /\ completed' = completed
      /\ failed' = failed
      /\ Finished' = Finished
  BY DEF Enqueue, Finished
<1>9. Queued' \cup running' \subseteq running \cup Queued \cup {e}
  BY <1>7
<1>10. Queued' \cap Finished' = {} /\ running' \cap Finished' = {}
  BY <1>2, <1>8, <1>9 DEF Inv, InOnePlace
<1>11. \A x \in Queued' \cup running' \cup Finished' : x.serial < accepted'
  <2>1. \A x \in Queued \cup running \cup Finished : x \in Entry /\ x.serial < accepted
    BY ElementsInEntry DEF Inv, TypeOK, InOnePlace, Queued, Finished
  <2>2. \A x \in Queued \cup running \cup Finished : x.serial < accepted'
    BY <1>8, <2>1 DEF Inv, TypeOK, Entry
  <2>3. e.serial < accepted'
    BY <1>1, <1>8 DEF Inv, TypeOK
  <2>4. QED
    BY <1>8, <1>9, <2>2, <2>3
<1>12. completed' \subseteq Entry /\ failed' \subseteq Entry /\ accepted' \in Nat
  BY <1>8 DEF Inv, TypeOK
<1>13. Inv'
  BY <1>6, <1>7, <1>8, <1>10, <1>11, <1>12, ConsistentInv
<1>14. Queued \subseteq Queued' \cup running'
  BY <1>7
<1>15. QED
  BY <1>7, <1>13, <1>14

\* start keeps the invariant, called once or many times.
LEMMA StartInv ==
  ASSUME Inv, Start
  PROVE  Inv'
<1>1. Consistent(queue, activeWorkers, running)
  BY InvConsistent
<1>2. ProcessNext(queue, activeWorkers, TRUE, running) /\ isRunning' = TRUE
  BY DEF Start
<1>3. /\ Consistent(queue', activeWorkers', running')
      /\ Queued' \cup running' = Queued \cup running
      /\ queue' # <<>> => activeWorkers' > 0
  BY <1>1, <1>2, ProcessNextProperties DEF Queued
<1>4. accepted' = accepted /\ completed' = completed /\ failed' = failed /\ Finished' = Finished
  BY DEF Start, Finished
<1>5. Queued' \cap Finished' = {} /\ running' \cap Finished' = {}
  BY <1>3, <1>4 DEF Inv, InOnePlace
<1>6. \A x \in Queued' \cup running' \cup Finished' : x.serial < accepted'
  BY <1>3, <1>4 DEF Inv, InOnePlace
<1>7. completed' \subseteq Entry /\ failed' \subseteq Entry /\ accepted' \in Nat
  BY <1>4 DEF Inv, TypeOK
<1>8. QED
  BY <1>2, <1>3, <1>5, <1>6, <1>7, ConsistentInv

\* stop keeps the invariant: the counter goes on counting what is in flight.
LEMMA StopInv ==
  ASSUME Inv, Stop
  PROVE  Inv'
BY DEF Inv, TypeOK, ActiveCountExact, NoStrandedTask, InOnePlace, Stop, Queued, Finished

\* Both ends of an execution: entry leaves the executions for the finished.
LEMMA SettleInv ==
  ASSUME Inv, NEW entry \in running, Settle(entry)
  PROVE  /\ Inv'
         /\ Finished' = Finished \cup {entry}
         /\ Queued' \cup running' = Queued \cup (running \ {entry})
         /\ running \ {entry} \subseteq running'
<1> DEFINE run == running \ {entry}
           active == activeWorkers - 1
<1>1. /\ ProcessNext(queue, active, isRunning, run)
      /\ Finished' = Finished \cup {entry}
      /\ accepted' = accepted /\ isRunning' = isRunning
      /\ completed' \subseteq completed \cup {entry} /\ failed' \subseteq failed \cup {entry}
  BY DEF Settle, Complete, Fail, Finished
<1>2. IsFiniteSet(run) /\ Cardinality(run) = Cardinality(running) - 1
  BY FS_RemoveElement DEF Inv
<1>3. Consistent(queue, active, run)
  <2>1. active = Cardinality(run) /\ active <= MaxConcurrency
    BY <1>2, ConcurrencyAssumption DEF Inv, TypeOK, ActiveCountExact
  <2>2. QED
    BY <1>2, <2>1 DEF Inv, TypeOK, InOnePlace, Consistent, Queued
<1>4. isRunning \in BOOLEAN
  BY DEF Inv, TypeOK
<1>5. /\ Consistent(queue', activeWorkers', running')
      /\ Queued' \cup running' = Queued \cup run
      /\ run \subseteq running'
      /\ isRunning /\ queue' # <<>> => activeWorkers' > 0
  <2> HIDE DEF run, active
  <2>1. /\ Consistent(queue', activeWorkers', running')
        /\ Queued' \cup running' = Elements(queue) \cup run
        /\ run \subseteq running'
        /\ isRunning /\ queue' # <<>> => activeWorkers' > 0
    BY <1>1, <1>3, <1>4, ProcessNextProperties
  <2>2. QED
    BY <2>1 DEF Queued
<1>6. entry \notin Queued
  BY DEF Inv, InOnePlace
<1>7. Queued' \cap Finished' = {} /\ running' \cap Finished' = {}
  BY <1>1, <1>5, <1>6 DEF Inv, InOnePlace
<1>8. \A x \in Queued' \cup running' \cup Finished' : x.serial < accepted'
  BY <1>1, <1>5 DEF Inv, InOnePlace
<1>9. completed' \subseteq Entry /\ failed' \subseteq Entry /\ accepted' \in Nat
  BY <1>1 DEF Inv, TypeOK
<1>10. isRunning' \in BOOLEAN /\ (isRunning' /\ queue' # <<>> => activeWorkers' > 0)
  BY <1>1, <1>4, <1>5
<1>11. Inv'
  BY <1>5, <1>7, <1>8, <1>9, <1>10, ConsistentInv
<1>12. QED
  BY <1>1, <1>5, <1>11

\* Inv is inductive.
LEMMA NextInv ==
  ASSUME Inv, [Next]_vars
  PROVE  Inv'
<1>1. CASE Next
  <2>1. ASSUME NEW id \in TaskIds, NEW critical \in BOOLEAN, Enqueue(id, critical) PROVE Inv'
    BY <2>1, EnqueueInv
  <2>2. CASE Start
    BY <2>2, StartInv
  <2>3. CASE Stop
    BY <2>3, StopInv
  <2>4. ASSUME NEW entry \in running, Settle(entry) PROVE Inv'
    BY <2>4, SettleInv
  <2>5. QED
    BY <1>1, <2>1, <2>2, <2>3, <2>4 DEF Next, Settle
<1>2. CASE UNCHANGED vars
  BY <1>2 DEF vars, Inv, TypeOK, ActiveCountExact, NoStrandedTask, InOnePlace, Queued, Finished
<1>3. QED
  BY <1>1, <1>2

\* Inv holds in every reachable state.
THEOREM PoolInvariant == Spec => []Inv
<1>1. QED
  BY InitInv, NextInv, PTL DEF Spec

\* The types of the pool's state.
THEOREM PoolTypeCorrect == Spec => []TypeOK
<1>1. Inv => TypeOK
  BY DEF Inv
<1>2. QED
  BY <1>1, PoolInvariant, PTL

\* activeWorkers counts the executions in flight and never exceeds the limit.
THEOREM PoolCountExact == Spec => []ActiveCountExact
<1>1. Inv => ActiveCountExact
  BY DEF Inv
<1>2. QED
  BY <1>1, PoolInvariant, PTL

\* A running pool with work waiting has an execution in flight to take it up.
THEOREM PoolNeverStrands == Spec => []NoStrandedTask
<1>1. Inv => NoStrandedTask
  BY DEF Inv
<1>2. QED
  BY <1>1, PoolInvariant, PTL

\* No entry is lost to two places, or created twice.
THEOREM PoolInOnePlace == Spec => []InOnePlace
<1>1. Inv => InOnePlace
  BY DEF Inv
<1>2. QED
  BY <1>1, PoolInvariant, PTL

-----------------------------------------------------------------------------
(* The pool implements JobPool. *)

\* Entries only move forward.
Moves ==
  /\ Queued \subseteq Queued' \cup running'
  /\ running \subseteq running' \cup Finished'
  /\ Finished \subseteq Finished'
  /\ Finished' \subseteq Finished \cup running

\* A step of the pool is a step of JobPool, or changes nothing JobPool sees.
LEMMA StepRefines ==
  ASSUME Inv, [Next]_vars
  PROVE  [Pool!Next]_<<Queued, running, Finished>>
<1>1. Inv'
  BY NextInv
<1>2. /\ Queued' \cap running' = {}
      /\ Queued' \cap Finished' = {}
      /\ running' \cap Finished' = {}
      /\ IsFiniteSet(running')
      /\ Cardinality(running') <= MaxConcurrency
  BY <1>1 DEF Inv, InOnePlace, ActiveCountExact
<1>3. SUFFICES ASSUME Next PROVE Moves
  <2>1. Pool!IsFiniteSet(running') = IsFiniteSet(running')
    BY DEF Pool!IsFiniteSet, IsFiniteSet
  <2>2. Pool!Cardinality(running') = Cardinality(running')
    BY DEF Pool!Cardinality, Cardinality
  <2>3. QED
    BY <1>2, <2>1, <2>2 DEF Moves, Pool!Next, Pool!Disjoint, vars, Queued, Finished
<1>4. ASSUME NEW id \in TaskIds, NEW critical \in BOOLEAN, Enqueue(id, critical)
      PROVE  Moves
  <2>1. /\ Queued \subseteq Queued' \cup running'
        /\ running \subseteq running'
    BY <1>4, EnqueueInv
  <2>2. Finished' = Finished
    BY <1>4 DEF Enqueue, Finished
  <2>3. QED
    BY <2>1, <2>2 DEF Moves
<1>5. CASE Start
  <2>1. /\ Queued' \cup running' = Queued \cup running
        /\ running \subseteq running'
    BY <1>5, InvConsistent, ProcessNextProperties DEF Start, Queued
  <2>2. Finished' = Finished
    BY <1>5 DEF Start, Finished
  <2>3. QED
    BY <2>1, <2>2 DEF Moves
<1>6. CASE Stop
  BY <1>6 DEF Moves, Stop, Queued, Finished
<1>7. ASSUME NEW entry \in running, Settle(entry)
      PROVE  Moves
  <2>1. /\ Finished' = Finished \cup {entry}
        /\ Queued' \cup running' = Queued \cup (running \ {entry})
        /\ running \ {entry} \subseteq running'
    BY <1>7, SettleInv
  <2>2. QED
    BY <2>1 DEF Moves
<1>8. QED
  BY <1>3, <1>4, <1>5, <1>6, <1>7 DEF Next, Settle

\* No accepted task is dropped, run twice or run beyond the limit: the pool with
\* its queue and its counter implements the pool without them.
THEOREM PoolRefinesJobPool == Spec => ImplementsJobPool
<1>1. Init => Pool!Init
  BY DEF Init, Pool!Init, Queued, Elements, Finished
<1>2. Inv /\ [Next]_vars => [Pool!Next]_<<Queued, running, Finished>>
  BY StepRefines
<1>3. QED
  BY <1>1, <1>2, PoolInvariant, PTL DEF Spec, ImplementsJobPool, Pool!Spec, Pool!vars

-----------------------------------------------------------------------------
(* The order in which tasks begin. *)

\* What the queue keeps sorted: every entry goes before those behind it.
Ordered(q) ==
  \A i, j \in DOMAIN q : i < j => GoesBefore(q[i], q[j])

\* Shifting an ordered queue leaves it ordered, and the entry shifted out was
\* due.
LEMMA TailOrdered ==
  ASSUME NEW q \in Seq(Entry), q # <<>>, Ordered(q)
  PROVE  /\ Ordered(Tail(q))
         /\ \A x \in Elements(Tail(q)) : GoesBefore(Head(q), x)
<1>1. /\ Len(q) \in Nat \ {0}
      /\ DOMAIN q = 1..Len(q)
      /\ DOMAIN Tail(q) = 1..(Len(q) - 1)
      /\ Head(q) = q[1]
      /\ \A i \in 1..(Len(q) - 1) : Tail(q)[i] = q[i + 1]
  BY HeadTailProperties, LenProperties, EmptySeq
<1>2. Ordered(Tail(q))
  <2>1. SUFFICES ASSUME NEW i \in 1..(Len(q) - 1), NEW j \in 1..(Len(q) - 1), i < j
                 PROVE  GoesBefore(q[i + 1], q[j + 1])
    BY <1>1 DEF Ordered
  <2>2. i + 1 \in DOMAIN q /\ j + 1 \in DOMAIN q /\ i + 1 < j + 1
    BY <1>1, <2>1
  <2>3. QED
    BY <2>2 DEF Ordered
<1>3. ASSUME NEW x \in Elements(Tail(q)) PROVE GoesBefore(Head(q), x)
  <2>1. PICK i \in 1..(Len(q) - 1) : x = q[i + 1]
    BY <1>1, <1>3 DEF Elements
  <2>2. 1 \in DOMAIN q /\ i + 1 \in DOMAIN q /\ 1 < i + 1
    BY <1>1, <2>1
  <2>3. QED
    BY <1>1, <2>1, <2>2 DEF Ordered
<1>4. QED
  BY <1>2, <1>3

\* A newer entry goes where it keeps the queue ordered: unshift for CRITICAL,
\* push otherwise.
LEMMA InsertOrdered ==
  ASSUME NEW q \in Seq(Entry), NEW e \in Entry, Ordered(q),
         \A x \in Elements(q) : x.serial < e.serial
  PROVE  Ordered(Insert(q, e))
<1>1. Len(q) \in Nat /\ DOMAIN q = 1..Len(q)
  BY LenProperties
<1>2. CASE e.critical
  <2> DEFINE r == <<e>> \o q
  <2>1. <<e>> \in Seq(Entry) /\ Len(<<e>>) = 1 /\ <<e>>[1] = e
    OBVIOUS
  <2>2. /\ r \in Seq(Entry)
        /\ Len(r) = Len(q) + 1
        /\ \A i \in 1..(Len(q) + 1) : r[i] = IF i <= 1 THEN <<e>>[i] ELSE q[i - 1]
    BY <2>1, <1>1, ConcatProperties
  <2>3. DOMAIN r = 1..(Len(q) + 1)
    BY <2>2, LenProperties
  <2>4. r[1] = e /\ \A i \in DOMAIN r : i # 1 => i - 1 \in DOMAIN q /\ r[i] = q[i - 1]
    BY <2>1, <2>2, <2>3, <1>1
  <2>5. SUFFICES ASSUME NEW i \in DOMAIN r, NEW j \in DOMAIN r, i < j
                 PROVE  GoesBefore(r[i], r[j])
    BY <1>2 DEF Insert, Ordered
  <2>6. j - 1 \in DOMAIN q /\ r[j] = q[j - 1]
    BY <2>3, <2>4, <2>5
  <2>7. CASE i = 1
    BY <1>2, <2>4, <2>6, <2>7 DEF GoesBefore, Elements
  <2>8. CASE i # 1
    <3>1. i - 1 \in DOMAIN q /\ r[i] = q[i - 1] /\ i - 1 < j - 1
      BY <2>3, <2>4, <2>5, <2>8
    <3>2. QED
      BY <2>6, <3>1 DEF Ordered
  <2>9. QED
    BY <2>7, <2>8
<1>3. CASE ~e.critical
  <2> DEFINE r == Append(q, e)
  <2>1. /\ r \in Seq(Entry)
        /\ Len(r) = Len(q) + 1
        /\ \A i \in 1..Len(q) : r[i] = q[i]
        /\ r[Len(q) + 1] = e
    BY AppendProperties
  <2>2. DOMAIN r = 1..(Len(q) + 1)
    BY <2>1, LenProperties
  <2>3. SUFFICES ASSUME NEW i \in DOMAIN r, NEW j \in DOMAIN r, i < j
                 PROVE  GoesBefore(r[i], r[j])
    BY <1>3 DEF Insert, Ordered
  <2>4. i \in DOMAIN q /\ r[i] = q[i]
    BY <2>1, <2>2, <2>3, <1>1
  <2>5. CASE j = Len(q) + 1
    BY <1>3, <2>1, <2>4, <2>5 DEF Elements, GoesBefore
  <2>6. CASE j # Len(q) + 1
    <3>1. j \in DOMAIN q /\ r[j] = q[j]
      BY <2>1, <2>2, <2>6, <1>1
    <3>2. QED
      BY <2>3, <2>4, <3>1 DEF Ordered
  <2>7. QED
    BY <2>5, <2>6
<1>4. QED
  BY <1>2, <1>3

\* The entry processNext takes was first in an ordered queue.
LEMMA ProcessNextOrdered ==
  ASSUME NEW q \in Seq(Entry), NEW active, NEW on, NEW run,
         Ordered(q), ProcessNext(q, active, on, run)
  PROVE  /\ Ordered(queue')
         /\ \A e \in running' \ run, x \in Elements(queue') : GoesBefore(e, x)
<1>1. CASE MayTake(q, active, on)
  <2>1. queue' = Tail(q) /\ running' = run \cup {Head(q)} /\ q # <<>>
    BY <1>1 DEF ProcessNext, MayTake
  <2>2. QED
    BY <2>1, TailOrdered
<1>2. CASE ~MayTake(q, active, on)
  BY <1>2 DEF ProcessNext
<1>3. QED
  BY <1>1, <1>2

\* StartsInOrder without the box.
InOrderStep ==
  \A e \in running' \ running, x \in Elements(queue') : GoesBefore(e, x)

\* Every step keeps the queue ordered and begins tasks in order.
LEMMA OrderStep ==
  ASSUME Inv, Ordered(queue), [Next]_vars
  PROVE  Ordered(queue') /\ InOrderStep
<1>1. queue \in Seq(Entry)
  BY DEF Inv, TypeOK
<1>2. ASSUME NEW id \in TaskIds, NEW critical \in BOOLEAN, Enqueue(id, critical)
      PROVE  Ordered(queue') /\ InOrderStep
  <2> DEFINE e == [id |-> id, critical |-> critical, serial |-> accepted]
             q == Insert(queue, e)
  <2>1. e \in Entry /\ e.serial = accepted
    BY DEF Inv, TypeOK, Entry
  <2>2. \A x \in Elements(queue) : x.serial < e.serial
    BY <2>1 DEF Inv, InOnePlace, Queued
  <2>3. e \notin Elements(queue)
    BY <2>1, <2>2 DEF Inv, TypeOK
  <2>4. q \in Seq(Entry) /\ Ordered(q)
    BY <1>1, <2>1, <2>2, <2>3, InsertElements, InsertOrdered DEF Inv, InOnePlace
  <2>5. ProcessNext(q, activeWorkers, isRunning, running)
    BY <1>2 DEF Enqueue
  <2>6. QED
    <3> HIDE DEF q
    <3>1. QED
      BY <2>4, <2>5, ProcessNextOrdered DEF InOrderStep
<1>3. CASE Start
  <2>1. ProcessNext(queue, activeWorkers, TRUE, running)
    BY <1>3 DEF Start
  <2>2. QED
    BY <1>1, <2>1, ProcessNextOrdered DEF InOrderStep
<1>4. CASE Stop \/ UNCHANGED vars
  BY <1>4 DEF Stop, vars, InOrderStep
<1>5. ASSUME NEW entry \in running, Settle(entry)
      PROVE  Ordered(queue') /\ InOrderStep
  <2> DEFINE run == running \ {entry}
             active == activeWorkers - 1
  <2>1. ProcessNext(queue, active, isRunning, run)
    BY <1>5 DEF Settle, Complete, Fail
  <2>2. running' \ running \subseteq running' \ run
    OBVIOUS
  <2>3. QED
    <3> HIDE DEF run, active
    <3>1. QED
      BY <1>1, <2>1, <2>2, ProcessNextOrdered DEF InOrderStep
<1>6. QED
  BY <1>2, <1>3, <1>4, <1>5 DEF Next, Settle

\* Tasks begin in the order of unshift and push (StartsInOrder), over any
\* number of stops and restarts, for any limit and any ids and priorities.
THEOREM PoolStartsInOrder == Spec => StartsInOrder
<1>1. Init => Ordered(queue)
  BY DEF Init, Ordered
<1>2. Inv /\ Ordered(queue) /\ [Next]_vars => Ordered(queue)' /\ [InOrderStep]_vars
  <2>1. SUFFICES ASSUME Inv, Ordered(queue), [Next]_vars PROVE Ordered(queue)' /\ InOrderStep
    OBVIOUS
  <2>2. Ordered(queue') /\ InOrderStep
    BY <2>1, OrderStep
  <2>3. QED
    BY <2>2 DEF Ordered
<1>3. Spec => [][InOrderStep]_vars
  BY <1>1, <1>2, PoolInvariant, PTL DEF Spec
<1>4. QED
  BY <1>3 DEF StartsInOrder, InOrderStep

-----------------------------------------------------------------------------
(* Tests and documentation (TestFactory).                                  *)

\* The fields a job has at its place.
JobShape(j) ==
  \/ j = Vacant
  \/ /\ j.at = "documenting" /\ DOMAIN j = {"at", "file", "content"}
     /\ j.file \in Files => DOMAIN j.content = {"edits", "docstrings"}
  \/ /\ j.at \in {"asked", "written", "running"}
     /\ DOMAIN j = {"at", "kind", "file", "fix", "seen"}
     /\ j.fix \in BOOLEAN

\* The shapes of what the engine and the documentation work on.
FactoryTypeOK ==
  /\ tests \in [Slots -> Answers \cup {NoTest}]
  /\ DOMAIN jobs = TestWorkers /\ \A w \in TestWorkers : JobShape(jobs[w])
  /\ DOMAIN source = Files /\ \A f \in Files : DOMAIN source[f] = {"edits", "docstrings"}
  /\ DOMAIN verdict = Slots /\ DOMAIN edits = Files /\ DOMAIN raced = Files

\* What no repair wrote went through the gate.
GatedUnlessHealed == \A s \in Slots \ healed :
  tests[s] # NoTest => validateGeneratedTest(tests[s], s[1], s[2])

\* A test that is not crowded has one task at most ...
OneHolder == \A s \in Slots \ crowded : \A w, x \in Holders(s) : w = x

\* ... which knows what is on disk: whether it was a repair that it wrote, and the text
\* it has loaded.
HolderKnows == \A s \in Slots \ crowded : \A w \in Holders(s) :
  /\ jobs[w].at \in {"written", "running"} => (s \in healed <=> jobs[w].fix)
  /\ jobs[w].at = "running" => jobs[w].seen = tests[s]

\* What a copy being documented lacks was edited since it was read.
CopiesKeep == \A w \in TestWorkers : jobs[w].at = "documenting" /\ jobs[w].file \in Files =>
  edits[jobs[w].file] \ jobs[w].content.edits \subseteq raced[jobs[w].file]

\* The invariant of the test engine and of the documentation.
FactoryInv ==
  /\ FactoryTypeOK /\ GatedUnlessHealed /\ OneHolder /\ HolderKnows /\ CopiesKeep
  /\ VerifiedTestsPass /\ EditsKept

\* A text that went through the gate with three assertions is no smoke test, and with
\* five none of the basic ones (validateGeneratedTest and auditSingleTest).
LEMMA GateIsStricter ==
  ASSUME NEW text \in Answers, NEW file, NEW layer, validateGeneratedTest(text, file, layer),
         RequiredAsserts(file, layer) \in Nat
  PROVE  /\ RequiredAsserts(file, layer) >= 3 => auditSingleTest(text) # "SMOKE"
         /\ RequiredAsserts(file, layer) >= 5 => auditSingleTest(text) \notin {"SMOKE", "BASIC"}
<1>1. /\ text.asserts \in Nat /\ text.size = "full" /\ text.imports
      /\ text.asserts >= RequiredAsserts(file, layer)
  BY FactoryAssumption DEF validateGeneratedTest
<1> DEFINE n == text.asserts
           r == RequiredAsserts(file, layer)
<1>2. /\ r >= 3 => ~ (n <= 2) /\ ~ (n < 3)
      /\ r >= 5 => ~ (n <= 2) /\ ~ (n < 3) /\ ~ (n < 5)
  BY <1>1
<1>3. ASSUME r >= 3 PROVE auditSingleTest(text) # "SMOKE"
  BY <1>1, <1>2, <1>3 DEF auditSingleTest
<1>4. ASSUME r >= 5 PROVE auditSingleTest(text) \notin {"SMOKE", "BASIC"}
  BY <1>1, <1>2, <1>4 DEF auditSingleTest
<1> QED
  BY <1>3, <1>4

\* The number of assertions asked for is one.
LEMMA RequiredIsNat ==
  ASSUME NEW file \in Files, NEW layer PROVE RequiredAsserts(file, layer) \in Nat
<1>1. Branches[file] \in Nat \cup {-1}
  BY FactoryAssumption DEF Files
<1>2. \A n \in Nat : ((n + 1) \div 2) + 1 \in Nat
  OBVIOUS
<1>3. Branches[file] # Unanalysed => ((Branches[file] + 1) \div 2) + 1 \in Nat
  BY <1>1, <1>2 DEF Unanalysed
<1> QED
  BY <1>3 DEF RequiredAsserts

\* The invariant implies what the engine promises.
LEMMA FactoryInvImplies == FactoryInv => TestsTrusted
<1> SUFFICES ASSUME FactoryInv PROVE AuditorAgrees
  BY DEF FactoryInv, TestsTrusted
<1> SUFFICES ASSUME NEW s \in Slots \ healed, tests[s] # NoTest
             PROVE  /\ RequiredAsserts(s[1], s[2]) >= 3 => auditSingleTest(tests[s]) # "SMOKE"
                    /\ RequiredAsserts(s[1], s[2]) >= 5 => ~ShouldRegenerate(s)
  BY DEF AuditorAgrees
<1>1. tests[s] \in Answers
  BY DEF FactoryInv, FactoryTypeOK
<1>2. s[1] \in Files
  BY DEF Slots
<1>3. validateGeneratedTest(tests[s], s[1], s[2])
  BY DEF FactoryInv, GatedUnlessHealed
<1> QED
  BY <1>1, <1>2, <1>3, RequiredIsNat, GateIsStricter DEF ShouldRegenerate

\* The invariant holds at first.
LEMMA FactoryInitially == ASSUME NEW WithTest, FactoryInit(WithTest) PROVE FactoryInv
<1>1. PICK d \in [WithTest -> Answers \cup {NoTest}] :
        tests = [s \in Slots |-> IF s \in WithTest THEN d[s] ELSE NoTest]
  BY DEF FactoryInit
<1>2. tests \in [Slots -> Answers \cup {NoTest}]
  BY <1>1
<1>3. /\ \A w \in TestWorkers : jobs[w] = Vacant /\ jobs[w].at = "idle"
      /\ DOMAIN jobs = TestWorkers
  BY DEF FactoryInit, Vacant
<1>4. FactoryTypeOK
  BY <1>2, <1>3 DEF FactoryInit, FactoryTypeOK, JobShape
<1>5. GatedUnlessHealed
  BY DEF FactoryInit, GatedUnlessHealed
<1>6. \A s \in Slots : Holders(s) = {} /\ verdict[s] = "none"
  BY <1>3 DEF FactoryInit, Holders
<1>7. CopiesKeep
  BY <1>3 DEF CopiesKeep
<1>8. EditsKept
  BY DEF FactoryInit, EditsKept
<1> QED
  BY <1>4, <1>5, <1>6, <1>7, <1>8 DEF FactoryInv, OneHolder, HolderKnows, VerifiedTestsPass

\* A job is at one of its places, and holds a test at three of them.
LEMMA Places ==
  ASSUME FactoryTypeOK, NEW w \in TestWorkers
  PROVE  /\ jobs[w].at \in {"idle", "documenting", "asked", "written", "running"}
         /\ jobs[w] = Vacant <=> jobs[w].at = "idle"
         /\ jobs[w].at \in {"asked", "written", "running"} =>
              DOMAIN jobs[w] = {"at", "kind", "file", "fix", "seen"} /\ jobs[w].fix \in BOOLEAN
         /\ jobs[w].at = "documenting" =>
              DOMAIN jobs[w] = {"at", "file", "content"}
              /\ (jobs[w].file \in Files => DOMAIN jobs[w].content = {"edits", "docstrings"})
  BY DEF FactoryTypeOK, JobShape, Vacant

\* While nothing but the job of w changes, the holders of a test are the same but for w.
LEMMA HoldersAfter ==
  ASSUME DOMAIN jobs = TestWorkers, NEW w \in TestWorkers, NEW j,
         jobs' = [jobs EXCEPT ![w] = j], NEW s
  PROVE  /\ \A x \in TestWorkers \ {w} : jobs'[x] = jobs[x] /\ (x \in Holders(s)' <=> x \in Holders(s))
         /\ jobs'[w] = j
         /\ w \in Holders(s)' <=> j.at \notin {"idle", "documenting"} /\ SlotOf(j) = s
  BY DEF Holders, SlotOf

\* A plan, or the end of a diagnosis, only lengthens the queue.
LEMMA PlanKeeps ==
  ASSUME FactoryInv, runTestGeneration \/ FinalizeDiagnosis PROVE FactoryInv'
<1>1. UNCHANGED <<tests, source, jobs, healed, verdict, crowded, edits, raced>>
  BY DEF runTestGeneration, FinalizeDiagnosis
<1> QED
  BY <1>1 DEF FactoryInv, FactoryTypeOK, GatedUnlessHealed, OneHolder, HolderKnows, CopiesKeep,
              VerifiedTestsPass, EditsKept, Holders, SlotOf, Slots, JobShape, validateGeneratedTest

\* A step that leaves what is on disk and begins, ends or moves on a job which holds no test
\* keeps what is said of tests.
LEMMA TestsUntouched ==
  ASSUME FactoryInv, NEW w \in TestWorkers, NEW j, jobs' = [jobs EXCEPT ![w] = j],
         j.at \in {"idle", "documenting"}, jobs[w].at \in {"idle", "documenting"},
         UNCHANGED <<tests, healed, verdict, crowded>>
  PROVE  GatedUnlessHealed' /\ OneHolder' /\ HolderKnows' /\ VerifiedTestsPass'
<1>1. DOMAIN jobs = TestWorkers
  BY DEF FactoryInv, FactoryTypeOK
<1>2. ASSUME NEW s
      PROVE  /\ Holders(s)' = Holders(s)
             /\ \A x \in Holders(s) : jobs'[x] = jobs[x]
  <2>1. w \notin Holders(s) /\ w \notin Holders(s)'
    BY <1>1, HoldersAfter DEF Holders
  <2>2. \A x \in TestWorkers \ {w} : jobs'[x] = jobs[x] /\ (x \in Holders(s)' <=> x \in Holders(s))
    BY <1>1, HoldersAfter
  <2>3. Holders(s) \subseteq TestWorkers /\ Holders(s)' \subseteq TestWorkers
    BY DEF Holders
  <2> QED
    BY <2>1, <2>2, <2>3
<1>3. GatedUnlessHealed'
  BY DEF FactoryInv, GatedUnlessHealed, validateGeneratedTest
<1>4. OneHolder'
  BY <1>2 DEF FactoryInv, OneHolder
<1>5. HolderKnows'
  BY <1>2 DEF FactoryInv, HolderKnows
<1>6. VerifiedTestsPass'
  BY <1>2 DEF FactoryInv, VerifiedTestsPass
<1> QED
  BY <1>3, <1>4, <1>5, <1>6

\* A documentation task reads the file: its copy lacks nothing the file has.
LEMMA ReadKeeps ==
  ASSUME FactoryInv, NEW w \in TestWorkers, generateDocumentation(w) PROVE FactoryInv'
<1> DEFINE file == Head(backlog).file
           j == [at |-> "documenting", file |-> file, content |-> source[file]]
<1>1. jobs' = [jobs EXCEPT ![w] = j] /\ jobs[w] = Vacant
      /\ UNCHANGED <<tests, source, healed, verdict, crowded, edits, raced>>
  BY DEF generateDocumentation
<1>2. j.at = "documenting" /\ j.file = file /\ j.content = source[file]
      /\ DOMAIN j = {"at", "file", "content"}
  OBVIOUS
<1> HIDE DEF file, j
<1>3. DOMAIN jobs = TestWorkers /\ jobs[w].at = "idle"
  BY <1>1 DEF FactoryInv, FactoryTypeOK, Vacant
<1>4. \A x \in TestWorkers : jobs'[x] = IF x = w THEN j ELSE jobs[x]
  BY <1>1, <1>3
<1>5. FactoryTypeOK'
  <2>1. file \in Files => DOMAIN j.content = {"edits", "docstrings"}
    BY <1>2 DEF FactoryInv, FactoryTypeOK
  <2>2. JobShape(j)
    BY <1>2, <2>1 DEF JobShape
  <2>3. \A x \in TestWorkers : JobShape(jobs[x])
    BY DEF FactoryInv, FactoryTypeOK
  <2>4. \A x \in TestWorkers : JobShape(jobs'[x])
    BY <1>4, <2>2, <2>3
  <2>5. \A x \in TestWorkers : JobShape(jobs[x])'
    BY <2>4 DEF JobShape, Vacant, Files
  <2>6. DOMAIN jobs' = TestWorkers
    BY <1>1, <1>3
  <2> QED
    BY <1>1, <2>5, <2>6 DEF FactoryInv, FactoryTypeOK, Slots, Files
<1>6. CopiesKeep'
  <2>1. j.file \in Files => edits[j.file] \ j.content.edits \subseteq raced[j.file]
    BY <1>2 DEF FactoryInv, EditsKept
  <2> QED
    BY <1>1, <1>4, <2>1 DEF FactoryInv, CopiesKeep
<1>7. EditsKept'
  BY <1>1 DEF FactoryInv, EditsKept
<1>8. GatedUnlessHealed' /\ OneHolder' /\ HolderKnows' /\ VerifiedTestsPass'
  BY <1>1, <1>2, <1>3, TestsUntouched
<1> QED
  BY <1>5, <1>6, <1>7, <1>8 DEF FactoryInv

\* Writing the docstring, or anything the model answers, puts the copy in the file's place.
LEMMA DocstringKeeps ==
  ASSUME FactoryInv, NEW w \in TestWorkers, InsertDocstring(w) PROVE FactoryInv'
<1> DEFINE file == jobs[w].file
           copy == [jobs[w].content EXCEPT !.docstrings = @ + 1]
<1>1. /\ jobs' = [jobs EXCEPT ![w] = Vacant] /\ source' = [source EXCEPT ![file] = copy]
      /\ jobs[w].at = "documenting"
      /\ UNCHANGED <<tests, healed, verdict, crowded, edits, raced>>
  BY DEF InsertDocstring
<1>2. FactoryTypeOK /\ DOMAIN jobs = TestWorkers /\ DOMAIN source = Files
  BY DEF FactoryInv, FactoryTypeOK
<1>3. file \in Files => DOMAIN copy = {"edits", "docstrings"} /\ copy.edits = jobs[w].content.edits
  <2>1. file \in Files => DOMAIN jobs[w].content = {"edits", "docstrings"}
    <3>1. jobs[w].at = "documenting" =>
            DOMAIN jobs[w] = {"at", "file", "content"}
            /\ (jobs[w].file \in Files => DOMAIN jobs[w].content = {"edits", "docstrings"})
      BY <1>2, Places
    <3> QED
      BY <1>1, <3>1
  <2> QED
    BY <2>1
<1> HIDE DEF copy
<1>4. \A x \in TestWorkers : jobs'[x] = IF x = w THEN Vacant ELSE jobs[x]
  BY <1>1, <1>2
<1>5. \A f \in Files : source'[f] = IF f = file THEN copy ELSE source[f]
  BY <1>1, <1>2
<1>6. Vacant.at = "idle"
  BY DEF Vacant
<1>7. FactoryTypeOK'
  <2>1. \A x \in TestWorkers : JobShape(jobs[x]) /\ JobShape(Vacant)
    BY DEF FactoryInv, FactoryTypeOK, JobShape
  <2>2. \A x \in TestWorkers : JobShape(jobs'[x])
    BY <1>4, <2>1
  <2>3. DOMAIN jobs' = TestWorkers /\ DOMAIN source' = Files
        /\ \A f \in Files : DOMAIN source'[f] = {"edits", "docstrings"}
    BY <1>1, <1>2, <1>3, <1>5 DEF FactoryTypeOK
  <2> QED
    BY <1>1, <2>2, <2>3 DEF FactoryInv, FactoryTypeOK, Slots, Files, JobShape, Vacant
<1>8. CopiesKeep'
  BY <1>1, <1>4, <1>6 DEF FactoryInv, CopiesKeep
<1>9. EditsKept'
  <2>1. file \in Files => edits[file] \ copy.edits \subseteq raced[file]
    BY <1>1, <1>3 DEF FactoryInv, CopiesKeep
  <2> QED
    BY <1>1, <1>5, <2>1 DEF FactoryInv, EditsKept
<1>10. GatedUnlessHealed' /\ OneHolder' /\ HolderKnows' /\ VerifiedTestsPass'
  BY <1>1, <1>6, TestsUntouched
<1> QED
  BY <1>7, <1>8, <1>9, <1>10 DEF FactoryInv

\* An edit is in the file, and counts as raced where a copy was read before.
LEMMA EditKeeps ==
  ASSUME FactoryInv, NEW f \in Edited, EditSource(f) PROVE FactoryInv'
<1> DEFINE e == Cardinality(edits[f]) + 1
           race == \E w \in TestWorkers : jobs[w].at = "documenting" /\ jobs[w].file = f
<1>1. /\ edits' = [edits EXCEPT ![f] = @ \cup {e}]
      /\ source' = [source EXCEPT ![f].edits = @ \cup {e}]
      /\ raced' = [raced EXCEPT ![f] = IF race THEN @ \cup {e} ELSE @]
      /\ UNCHANGED <<tests, jobs, healed, verdict, crowded>>
  BY DEF EditSource
<1> HIDE DEF e, race
<1>2. f \in Files
  BY FactoryAssumption DEF Files
<1>3. FactoryTypeOK
  BY DEF FactoryInv
<1>4. /\ DOMAIN edits' = Files /\ DOMAIN raced' = Files /\ DOMAIN source' = Files
      /\ \A g \in Files : DOMAIN source'[g] = {"edits", "docstrings"}
      /\ \A g \in Files \ {f} : edits'[g] = edits[g] /\ raced'[g] = raced[g] /\ source'[g] = source[g]
      /\ edits'[f] = edits[f] \cup {e} /\ source'[f].edits = source[f].edits \cup {e}
      /\ raced'[f] = IF race THEN raced[f] \cup {e} ELSE raced[f]
  BY <1>1, <1>2, <1>3 DEF FactoryTypeOK
<1>5. FactoryTypeOK'
  BY <1>1, <1>3, <1>4 DEF FactoryTypeOK, Slots, Files, JobShape, Vacant
<1>6. CopiesKeep'
  <2> SUFFICES ASSUME NEW w \in TestWorkers, jobs[w].at = "documenting", jobs[w].file \in Files
               PROVE  edits'[jobs[w].file] \ jobs[w].content.edits \subseteq raced'[jobs[w].file]
    BY <1>1 DEF CopiesKeep, Files
  <2>1. edits[jobs[w].file] \ jobs[w].content.edits \subseteq raced[jobs[w].file]
    BY DEF FactoryInv, CopiesKeep
  <2>2. CASE jobs[w].file = f
    <3>1. race
      BY <2>2 DEF race
    <3> QED
      BY <1>4, <2>1, <2>2, <3>1
  <2>3. CASE jobs[w].file # f
    BY <1>4, <2>1, <2>3
  <2> QED
    BY <2>2, <2>3
<1>7. EditsKept'
  <2> SUFFICES ASSUME NEW g \in Files PROVE edits'[g] \ source'[g].edits \subseteq raced'[g]
    BY DEF EditsKept, Files
  <2>1. edits[g] \ source[g].edits \subseteq raced[g]
    BY DEF FactoryInv, EditsKept
  <2> QED
    BY <1>4, <2>1
<1>8. GatedUnlessHealed' /\ OneHolder' /\ HolderKnows' /\ VerifiedTestsPass'
  BY <1>1 DEF FactoryInv, GatedUnlessHealed, OneHolder, HolderKnows,
              VerifiedTestsPass, Holders, SlotOf, Slots, validateGeneratedTest
<1> QED
  BY <1>5, <1>6, <1>7, <1>8 DEF FactoryInv

-----------------------------------------------------------------------------
(* The tasks that write tests.                                             *)

\* What a step of a test task says of copies and of the shapes.
LEMMA TestTaskKeeps ==
  ASSUME FactoryInv, NEW w \in TestWorkers, NEW j, jobs' = [jobs EXCEPT ![w] = j],
         j.at # "documenting", JobShape(j), tests' \in [Slots -> Answers \cup {NoTest}],
         DOMAIN verdict' = Slots, UNCHANGED <<source, edits, raced>>
  PROVE  FactoryTypeOK' /\ CopiesKeep' /\ EditsKept'
<1>1. DOMAIN jobs = TestWorkers /\ \A x \in TestWorkers : JobShape(jobs[x])
  BY DEF FactoryInv, FactoryTypeOK
<1>2. \A x \in TestWorkers : jobs'[x] = IF x = w THEN j ELSE jobs[x]
  BY <1>1
<1>3. FactoryTypeOK'
  <2>1. \A x \in TestWorkers : JobShape(jobs'[x])
    BY <1>1, <1>2
  <2>2. DOMAIN jobs' = TestWorkers
    BY <1>1
  <2> QED
    BY <2>1, <2>2 DEF FactoryInv, FactoryTypeOK, Slots, Files, JobShape, Vacant
<1>4. CopiesKeep'
  BY <1>2 DEF FactoryInv, CopiesKeep
<1>5. EditsKept'
  BY DEF FactoryInv, EditsKept
<1> QED
  BY <1>3, <1>4, <1>5

\* A task that begins is the only one of its test, or the test is crowded.
LEMMA BeginKeeps ==
  ASSUME FactoryInv, NEW w \in TestWorkers, generateTest(w) PROVE FactoryInv'
<1> DEFINE task == Head(backlog)
           slot == <<task.file, task.kind>>
           j == [at |-> "asked", kind |-> task.kind, file |-> task.file, fix |-> FALSE, seen |-> NoTest]
<1>1. /\ jobs[w] = Vacant /\ jobs' = [jobs EXCEPT ![w] = j]
      /\ verdict' = [verdict EXCEPT ![slot] = "none"]
      /\ crowded' = IF Holders(slot) = {} THEN crowded \ {slot} ELSE crowded \cup {slot}
      /\ UNCHANGED <<tests, source, healed, edits, raced>>
  BY DEF generateTest
<1>2. j.at = "asked" /\ SlotOf(j) = slot /\ j.fix = FALSE
      /\ DOMAIN j = {"at", "kind", "file", "fix", "seen"}
  BY DEF SlotOf
<1> HIDE DEF j, slot, task
<1>3. DOMAIN jobs = TestWorkers /\ jobs[w].at = "idle" /\ DOMAIN verdict = Slots
      /\ tests \in [Slots -> Answers \cup {NoTest}]
  BY <1>1 DEF FactoryInv, FactoryTypeOK, Vacant
<1>4. FactoryTypeOK' /\ CopiesKeep' /\ EditsKept'
  <2>1. JobShape(j)
    BY <1>2 DEF JobShape
  <2> QED
    BY <1>1, <1>2, <1>3, <2>1, TestTaskKeeps
<1>5. GatedUnlessHealed'
  BY <1>1 DEF FactoryInv, GatedUnlessHealed, validateGeneratedTest
<1>6. ASSUME NEW s
      PROVE  /\ s # slot => Holders(s)' = Holders(s)
             /\ s = slot => Holders(s)' = Holders(s) \cup {w}
             /\ w \notin Holders(s)
             /\ \A x \in Holders(s) : jobs'[x] = jobs[x]
  <2>1. w \notin Holders(s) /\ (w \in Holders(s)' <=> s = slot)
    BY <1>1, <1>2, <1>3, HoldersAfter DEF Holders
  <2>2. \A x \in TestWorkers \ {w} : jobs'[x] = jobs[x] /\ (x \in Holders(s)' <=> x \in Holders(s))
    BY <1>1, <1>3, HoldersAfter
  <2>3. Holders(s) \subseteq TestWorkers /\ Holders(s)' \subseteq TestWorkers
    BY DEF Holders
  <2> QED
    BY <2>1, <2>2, <2>3
<1>7. ASSUME NEW s \in Slots \ crowded'
      PROVE  /\ s = slot => Holders(s)' = {w}
             /\ s # slot => s \in Slots \ crowded /\ Holders(s)' = Holders(s) /\ verdict'[s] = verdict[s]
  BY <1>1, <1>3, <1>6
<1>8. jobs'[w] = j
  BY <1>1, <1>3
<1>9. OneHolder'
  BY <1>7 DEF FactoryInv, OneHolder, Slots
<1>10. HolderKnows'
  <2> SUFFICES ASSUME NEW s \in Slots \ crowded', NEW x \in Holders(s)'
               PROVE  /\ jobs'[x].at \in {"written", "running"} => (s \in healed <=> jobs'[x].fix)
                      /\ jobs'[x].at = "running" => jobs'[x].seen = tests[s]
    BY <1>1 DEF HolderKnows, Slots
  <2>1. CASE s = slot
    BY <1>2, <1>7, <1>8, <2>1
  <2>2. CASE s # slot
    BY <1>6, <1>7, <2>2 DEF FactoryInv, HolderKnows
  <2> QED
    BY <2>1, <2>2
<1>11. VerifiedTestsPass'
  <2> SUFFICES ASSUME NEW s \in Slots \ crowded', verdict'[s] = "verified", Holders(s)' = {}
               PROVE  tests[s].green /\ (s \in healed => tests[s].coverage # "low")
    BY <1>1 DEF VerifiedTestsPass, Slots
  <2>1. s # slot
    BY <1>7
  <2> QED
    BY <1>7, <2>1 DEF FactoryInv, VerifiedTestsPass
<1> QED
  BY <1>4, <1>5, <1>9, <1>10, <1>11 DEF FactoryInv

\* What becomes of a test at a step of a task that goes on holding it, or lets it go: if
\* it was alone, it still is, and nobody else has a say in it.
LEMMA HoldersShrink ==
  ASSUME FactoryInv, NEW w \in TestWorkers, NEW j, jobs' = [jobs EXCEPT ![w] = j],
         jobs[w].at \in {"asked", "written", "running"},
         j.at \in {"idle", "documenting"} \/ SlotOf(j) = SlotOf(jobs[w]), NEW s
  PROVE  /\ w \in Holders(s) <=> s = SlotOf(jobs[w])
         /\ Holders(s)' \subseteq Holders(s)
         /\ \A x \in Holders(s) \ {w} : x \in Holders(s)' /\ jobs'[x] = jobs[x]
         /\ w \in Holders(s) => (w \in Holders(s)' <=> j.at \notin {"idle", "documenting"})
         /\ s \in Slots \ crowded /\ w \in Holders(s) => Holders(s) = {w}
<1>1. DOMAIN jobs = TestWorkers
  BY DEF FactoryInv, FactoryTypeOK
<1>2. w \in Holders(s) <=> s = SlotOf(jobs[w])
  BY DEF Holders
<1>3. /\ \A x \in TestWorkers \ {w} : jobs'[x] = jobs[x] /\ (x \in Holders(s)' <=> x \in Holders(s))
      /\ w \in Holders(s)' <=> j.at \notin {"idle", "documenting"} /\ SlotOf(j) = s
  BY ZenonT(60), <1>1, HoldersAfter
<1>4. Holders(s) \subseteq TestWorkers /\ Holders(s)' \subseteq TestWorkers
  BY DEF Holders
<1>5. s \in Slots \ crowded /\ w \in Holders(s) => Holders(s) = {w}
  BY DEF FactoryInv, OneHolder
<1> QED
  BY <1>2, <1>3, <1>4, <1>5

\* A task that goes on, and one that fails: no text on disk changes, nor who wrote it.
LEMMA NothingWritten ==
  ASSUME FactoryInv, NEW w \in TestWorkers, NEW j, jobs' = [jobs EXCEPT ![w] = j],
         jobs[w].at \in {"asked", "written", "running"},
         j = Vacant \/ (/\ JobShape(j) /\ SlotOf(j) = SlotOf(jobs[w])
                        /\ j.at \in {"asked", "written", "running"}),
         NEW result, result # "verified",
         \/ j # Vacant /\ verdict' = verdict
         \/ j = Vacant /\ verdict' = [verdict EXCEPT ![SlotOf(jobs[w])] = result],
         \A s \in Slots \ crowded : s = SlotOf(jobs[w]) =>
            /\ j.at \in {"written", "running"} => (s \in healed <=> j.fix)
            /\ j.at = "running" => j.seen = tests[s],
         UNCHANGED <<tests, source, healed, crowded, edits, raced>>
  PROVE  FactoryInv'
<1> DEFINE slot == SlotOf(jobs[w])
<1>1. DOMAIN jobs = TestWorkers /\ DOMAIN verdict = Slots /\ JobShape(Vacant) /\ Vacant.at = "idle"
      /\ tests \in [Slots -> Answers \cup {NoTest}]
  BY DEF FactoryInv, FactoryTypeOK, JobShape, Vacant
<1>2. FactoryTypeOK' /\ CopiesKeep' /\ EditsKept'
  BY <1>1, TestTaskKeeps
<1>3. GatedUnlessHealed'
  BY DEF FactoryInv, GatedUnlessHealed, validateGeneratedTest
<1>4. j.at \in {"idle", "documenting"} \/ SlotOf(j) = slot
  BY <1>1
<1> HIDE DEF slot
<1>5. ASSUME NEW s
      PROVE  /\ w \in Holders(s) <=> s = slot
             /\ Holders(s)' \subseteq Holders(s)
             /\ \A x \in Holders(s) \ {w} : x \in Holders(s)' /\ jobs'[x] = jobs[x]
             /\ w \in Holders(s) => (w \in Holders(s)' <=> j.at \notin {"idle", "documenting"})
             /\ s \in Slots \ crowded /\ w \in Holders(s) => Holders(s) = {w}
  BY <1>4, HoldersShrink DEF slot
<1>6. jobs'[w] = j
  BY <1>1
<1>7. OneHolder'
  BY <1>5 DEF FactoryInv, OneHolder, Slots
<1>8. HolderKnows'
  <2> SUFFICES ASSUME NEW s \in Slots \ crowded, NEW x \in Holders(s)'
               PROVE  /\ jobs'[x].at \in {"written", "running"} => (s \in healed <=> jobs'[x].fix)
                      /\ jobs'[x].at = "running" => jobs'[x].seen = tests[s]
    BY DEF HolderKnows, Slots
  <2>1. CASE x = w
    <3>1. s = slot
      BY <1>5, <2>1
    <3> QED
      BY <1>6, <2>1, <3>1 DEF slot
  <2>2. CASE x # w
    <3>1. x \in Holders(s) \ {w}
      BY <1>5, <2>2
    <3> QED
      BY <1>5, <3>1 DEF FactoryInv, HolderKnows
  <2> QED
    BY <2>1, <2>2
<1>9. VerifiedTestsPass'
  <2> SUFFICES ASSUME NEW s \in Slots \ crowded, verdict'[s] = "verified", Holders(s)' = {}
               PROVE  tests[s].green /\ (s \in healed => tests[s].coverage # "low")
    BY DEF VerifiedTestsPass, Slots
  <2>1. s # slot
    <3> SUFFICES ASSUME s = slot PROVE FALSE
      OBVIOUS
    <3>1. j.at \in {"idle", "documenting"}
      BY <1>5
    <3>2. j = Vacant
      BY <3>1
    <3> QED
      BY <1>1, <3>2 DEF slot
  <2>2. w \notin Holders(s) /\ verdict'[s] = verdict[s]
    BY <1>1, <1>5, <2>1 DEF slot
  <2>3. Holders(s) = {}
    BY <1>5, <2>2
  <2> QED
    BY <2>2, <2>3 DEF FactoryInv, VerifiedTestsPass
<1> QED
  BY <1>2, <1>3, <1>7, <1>8, <1>9 DEF FactoryInv

\* Loading takes what is on disk.
LEMMA LoadKeeps ==
  ASSUME FactoryInv, NEW w \in TestWorkers, LoadTest(w) PROVE FactoryInv'
<1> DEFINE j == [jobs[w] EXCEPT !.at = "running", !.seen = tests[SlotOf(jobs[w])]]
<1>1. /\ jobs[w].at = "written" /\ jobs' = [jobs EXCEPT ![w] = j]
      /\ UNCHANGED <<tests, source, healed, verdict, crowded, edits, raced>>
  BY DEF LoadTest
<1>2. DOMAIN jobs[w] = {"at", "kind", "file", "fix", "seen"} /\ jobs[w].fix \in BOOLEAN
  BY <1>1, Places DEF FactoryInv
<1>3. /\ j.at = "running" /\ j.seen = tests[SlotOf(jobs[w])] /\ j.fix = jobs[w].fix
      /\ j.file = jobs[w].file /\ j.kind = jobs[w].kind /\ DOMAIN j = DOMAIN jobs[w]
  BY <1>2
<1> HIDE DEF j
<1>4. SlotOf(j) = SlotOf(jobs[w]) /\ JobShape(j) /\ j # Vacant
  BY <1>2, <1>3 DEF SlotOf, JobShape, Vacant
<1>5. \A s \in Slots \ crowded : s = SlotOf(jobs[w]) => (s \in healed <=> j.fix)
  <2> SUFFICES ASSUME NEW s \in Slots \ crowded, s = SlotOf(jobs[w])
               PROVE  s \in healed <=> j.fix
    OBVIOUS
  <2>1. w \in Holders(s)
    BY <1>1 DEF Holders
  <2> QED
    BY <1>1, <1>3, <2>1 DEF FactoryInv, HolderKnows
<1> QED
  BY ZenonT(60), <1>1, <1>3, <1>4, <1>5, NothingWritten

\* An answer is refused, or written over what is on disk.
LEMMA AnswerKeeps ==
  ASSUME FactoryInv, NEW w \in TestWorkers, AnswerTest(w) PROVE FactoryInv'
<1> DEFINE slot == SlotOf(jobs[w])
           j == [jobs[w] EXCEPT !.at = "written"]
<1>1. PICK text \in Answers \cup {NoAnswer} :
        \/ Accepted(jobs[w], text) /\ WriteTest(w, text) /\ UNCHANGED verdict
        \/ ~Accepted(jobs[w], text) /\ Return(w, "failed") /\ UNCHANGED <<tests, healed>>
  BY DEF AnswerTest
<1>2. jobs[w].at = "asked" /\ UNCHANGED <<source, crowded, edits, raced>>
  BY DEF AnswerTest
<1>3. DOMAIN jobs[w] = {"at", "kind", "file", "fix", "seen"} /\ jobs[w].fix \in BOOLEAN
  BY <1>2, Places DEF FactoryInv
<1>4. CASE Return(w, "failed") /\ UNCHANGED <<tests, healed>>
  <2>1. jobs' = [jobs EXCEPT ![w] = Vacant] /\ verdict' = [verdict EXCEPT ![SlotOf(jobs[w])] = "failed"]
    BY <1>4 DEF Return
  <2>2. Vacant.at = "idle"
    BY DEF Vacant
  <2>3. "failed" # "verified"
    OBVIOUS
  <2> QED
    BY <1>2, <1>4, <2>1, <2>2, <2>3, NothingWritten
<1>5. CASE Accepted(jobs[w], text) /\ WriteTest(w, text) /\ UNCHANGED verdict
  <2>1. /\ tests' = [tests EXCEPT ![slot] = text] /\ jobs' = [jobs EXCEPT ![w] = j]
        /\ healed' = IF jobs[w].fix THEN healed \cup {slot} ELSE healed \ {slot}
    BY <1>5 DEF WriteTest
  <2>2. /\ j.at = "written" /\ j.fix = jobs[w].fix /\ j.file = jobs[w].file /\ j.kind = jobs[w].kind
        /\ DOMAIN j = DOMAIN jobs[w]
    BY <1>3
  <2> HIDE DEF j
  <2>3. SlotOf(j) = slot /\ JobShape(j) /\ j # Vacant
    BY <1>3, <2>2 DEF SlotOf, JobShape, Vacant
  <2>4. text \in Answers
    BY <1>5 DEF Accepted, validateGeneratedTest
  <2>5. tests \in [Slots -> Answers \cup {NoTest}] /\ DOMAIN verdict = Slots /\ DOMAIN jobs = TestWorkers
    BY DEF FactoryInv, FactoryTypeOK
  <2>6. tests' \in [Slots -> Answers \cup {NoTest}]
        /\ \A s \in Slots : tests'[s] = IF s = slot THEN text ELSE tests[s]
    BY <2>1, <2>4, <2>5
  <2>7. FactoryTypeOK' /\ CopiesKeep' /\ EditsKept'
    BY <1>2, <1>5, <2>1, <2>2, <2>3, <2>5, <2>6, TestTaskKeeps
  <2>8. ASSUME NEW s
        PROVE  /\ w \in Holders(s) <=> s = slot
               /\ Holders(s)' = Holders(s)
               /\ \A x \in Holders(s) \ {w} : jobs'[x] = jobs[x]
               /\ s \in Slots \ crowded /\ w \in Holders(s) => Holders(s) = {w}
    <3>1. jobs[w].at \in {"asked", "written", "running"} /\ SlotOf(j) = SlotOf(jobs[w])
      BY <1>2, <2>3
    <3>2. /\ w \in Holders(s) <=> s = SlotOf(jobs[w])
          /\ Holders(s)' \subseteq Holders(s)
          /\ \A x \in Holders(s) \ {w} : x \in Holders(s)' /\ jobs'[x] = jobs[x]
          /\ w \in Holders(s) => (w \in Holders(s)' <=> j.at \notin {"idle", "documenting"})
          /\ s \in Slots \ crowded /\ w \in Holders(s) => Holders(s) = {w}
      BY <2>1, <3>1, HoldersShrink
    <3>3. w \in Holders(s) => w \in Holders(s)'
      BY <2>2, <3>2
    <3>4. Holders(s) \subseteq Holders(s)'
      BY <3>2, <3>3
    <3> QED
      BY <3>2, <3>4
  <2>9. jobs'[w] = j /\ \A s : s # slot => (s \in healed' <=> s \in healed)
    BY <2>1, <2>5
  <2>10. GatedUnlessHealed'
    <3> SUFFICES ASSUME NEW s \in Slots \ healed', tests'[s] # NoTest
                 PROVE  validateGeneratedTest(tests'[s], s[1], s[2])
      BY DEF GatedUnlessHealed, Slots, validateGeneratedTest
    <3>1. CASE s = slot
      <4>1. ~ jobs[w].fix
        BY <2>1, <3>1
      <4>2. validateGeneratedTest(text, jobs[w].file, jobs[w].kind)
        BY <1>5, <4>1 DEF Accepted
      <4> QED
        BY <2>6, <3>1, <4>2 DEF SlotOf
    <3>2. CASE s # slot
      BY <2>6, <2>9, <3>2 DEF FactoryInv, GatedUnlessHealed
    <3> QED
      BY <3>1, <3>2
  <2>11. OneHolder'
    BY <1>2, <2>8 DEF FactoryInv, OneHolder, Slots
  <2>12. HolderKnows'
    <3> SUFFICES ASSUME NEW s \in Slots \ crowded, NEW x \in Holders(s)
                 PROVE  /\ jobs'[x].at \in {"written", "running"} => (s \in healed' <=> jobs'[x].fix)
                        /\ jobs'[x].at = "running" => jobs'[x].seen = tests'[s]
      BY <1>2, <2>8 DEF HolderKnows, Slots
    <3>1. CASE x = w
      <4>1. s = slot
        BY <2>8, <3>1
      <4>2. slot \in healed' <=> jobs[w].fix
        BY <2>1
      <4> QED
        BY <2>2, <2>9, <3>1, <4>1, <4>2
    <3>2. CASE x # w
      <4>1. s # slot
        BY <2>8, <3>2
      <4> QED
        BY <2>6, <2>8, <2>9, <3>2, <4>1 DEF FactoryInv, HolderKnows
    <3> QED
      BY <3>1, <3>2
  <2>13. VerifiedTestsPass'
    <3> SUFFICES ASSUME NEW s \in Slots \ crowded, verdict[s] = "verified", Holders(s) = {}
                 PROVE  tests'[s].green /\ (s \in healed' => tests'[s].coverage # "low")
      BY <1>2, <1>5, <2>8 DEF VerifiedTestsPass, Slots
    <3>1. s # slot
      BY <2>8
    <3> QED
      BY <2>6, <2>9, <3>1 DEF FactoryInv, VerifiedTestsPass
  <2> QED
    BY <2>7, <2>10, <2>11, <2>12, <2>13 DEF FactoryInv
<1> QED
  BY <1>1, <1>4, <1>5

\* A run of the test: it passes, it is repaired, or the task fails.
LEMMA VerifyKeeps ==
  ASSUME FactoryInv, NEW w \in TestWorkers, verifyTest(w) PROVE FactoryInv'
<1> DEFINE slot == SlotOf(jobs[w])
<1>1. jobs[w].at = "running" /\ UNCHANGED <<tests, source, healed, crowded, edits, raced>>
  BY DEF verifyTest
<1>2. DOMAIN jobs[w] = {"at", "kind", "file", "fix", "seen"} /\ jobs[w].fix \in BOOLEAN
  BY <1>1, Places DEF FactoryInv
<1>3. Vacant.at = "idle" /\ "failed" # "verified"
  BY DEF Vacant
<1>4. CASE Return(w, "failed")
  <2>1. jobs' = [jobs EXCEPT ![w] = Vacant] /\ verdict' = [verdict EXCEPT ![SlotOf(jobs[w])] = "failed"]
    BY <1>4 DEF Return
  <2> QED
    BY <1>1, <1>3, <2>1, NothingWritten
<1>5. CASE /\ jobs' = [jobs EXCEPT ![w].at = "asked", ![w].fix = TRUE, ![w].seen = NoTest]
           /\ UNCHANGED verdict
  <2> DEFINE j == [jobs[w] EXCEPT !.at = "asked", !.fix = TRUE, !.seen = NoTest]
  <2>1. jobs' = [jobs EXCEPT ![w] = j]
    BY <1>5
  <2>2. /\ j.at = "asked" /\ j.fix = TRUE /\ j.file = jobs[w].file /\ j.kind = jobs[w].kind
        /\ DOMAIN j = DOMAIN jobs[w]
    BY <1>2
  <2> HIDE DEF j
  <2>3. SlotOf(j) = SlotOf(jobs[w]) /\ JobShape(j) /\ j # Vacant
    BY <1>2, <2>2 DEF SlotOf, JobShape, Vacant
  <2> QED
    BY <1>1, <1>3, <1>5, <2>1, <2>2, <2>3, NothingWritten
<1>6. CASE Passes(jobs[w]) /\ Return(w, "verified")
  <2>1. jobs' = [jobs EXCEPT ![w] = Vacant] /\ verdict' = [verdict EXCEPT ![slot] = "verified"]
    BY <1>6 DEF Return
  <2>2. DOMAIN jobs = TestWorkers /\ DOMAIN verdict = Slots /\ JobShape(Vacant)
        /\ tests \in [Slots -> Answers \cup {NoTest}]
    BY DEF FactoryInv, FactoryTypeOK, JobShape
  <2>3. FactoryTypeOK' /\ CopiesKeep' /\ EditsKept'
    BY <1>1, <1>3, <2>1, <2>2, TestTaskKeeps
  <2>4. GatedUnlessHealed'
    BY <1>1 DEF FactoryInv, GatedUnlessHealed, validateGeneratedTest
  <2>5. ASSUME NEW s
        PROVE  /\ w \in Holders(s) <=> s = slot
               /\ Holders(s)' = Holders(s) \ {w}
               /\ \A x \in Holders(s) \ {w} : jobs'[x] = jobs[x]
               /\ s \in Slots \ crowded /\ w \in Holders(s) => Holders(s) = {w}
    <3>1. /\ w \in Holders(s) <=> s = SlotOf(jobs[w])
          /\ Holders(s)' \subseteq Holders(s)
          /\ \A x \in Holders(s) \ {w} : x \in Holders(s)' /\ jobs'[x] = jobs[x]
          /\ w \in Holders(s) => (w \in Holders(s)' <=> Vacant.at \notin {"idle", "documenting"})
          /\ s \in Slots \ crowded /\ w \in Holders(s) => Holders(s) = {w}
      BY <1>1, <1>3, <2>1, HoldersShrink
    <3>2. w \notin Holders(s)'
      BY <1>3, <3>1
    <3> QED
      BY <3>1, <3>2
  <2>6. OneHolder'
    BY <1>1, <2>5 DEF FactoryInv, OneHolder, Slots
  <2>7. HolderKnows'
    BY <1>1, <2>5 DEF FactoryInv, HolderKnows, Slots
  <2>8. VerifiedTestsPass'
    <3> SUFFICES ASSUME NEW s \in Slots \ crowded, verdict'[s] = "verified", Holders(s)' = {}
                 PROVE  tests[s].green /\ (s \in healed => tests[s].coverage # "low")
      BY <1>1 DEF VerifiedTestsPass, Slots
    <3>1. CASE s = slot
      <4>1. w \in Holders(s)
        BY <2>5, <3>1
      <4>2. jobs[w].seen = tests[s] /\ (s \in healed <=> jobs[w].fix)
        BY <1>1, <4>1 DEF FactoryInv, HolderKnows
      <4> QED
        BY <1>6, <4>2 DEF Passes
    <3>2. CASE s # slot
      <4>1. Holders(s) = {} /\ verdict'[s] = verdict[s]
        BY <2>1, <2>2, <2>5, <3>2
      <4> QED
        BY <4>1 DEF FactoryInv, VerifiedTestsPass
    <3> QED
      BY <3>1, <3>2
  <2> QED
    BY <2>3, <2>4, <2>6, <2>7, <2>8 DEF FactoryInv
<1> QED
  BY <1>4, <1>5, <1>6 DEF verifyTest

\* The invariant is kept by every step.
LEMMA FactoryStep == FactoryInv /\ [FactoryNext]_factoryVars => FactoryInv'
<1> SUFFICES ASSUME FactoryInv, [FactoryNext]_factoryVars PROVE FactoryInv'
  OBVIOUS
<1>1. CASE runTestGeneration \/ FinalizeDiagnosis
  BY <1>1, PlanKeeps
<1>2. ASSUME NEW w \in TestWorkers, \/ generateTest(w) \/ AnswerTest(w) \/ LoadTest(w) \/ verifyTest(w)
                                    \/ generateDocumentation(w) \/ InsertDocstring(w)
      PROVE  FactoryInv'
  BY <1>2, BeginKeeps, AnswerKeeps, LoadKeeps, VerifyKeeps, ReadKeeps, DocstringKeeps
<1>3. ASSUME NEW f \in Edited, EditSource(f) PROVE FactoryInv'
  BY <1>3, EditKeeps
<1>4. CASE UNCHANGED factoryVars
  BY <1>4 DEF factoryVars, FactoryInv, FactoryTypeOK, GatedUnlessHealed, OneHolder, HolderKnows,
              CopiesKeep, VerifiedTestsPass, EditsKept, Holders, SlotOf, Slots, Files, JobShape,
              Vacant, validateGeneratedTest
<1> QED
  BY <1>1, <1>2, <1>3, <1>4 DEF FactoryNext

\* TestsTrusted: for any files, tests on disk at first, answers, tasks at a time and edits,
\* the gate agrees with the auditor, a verified test passes, and documentation loses
\* only the edits that raced it (TestEngine, TestQualityAuditor and TaskProcessor).
THEOREM FactoryIsTrusted ==
  ASSUME NEW CONSTANT WithTest PROVE FactorySpec(WithTest) => []TestsTrusted
<1>1. FactoryInit(WithTest) => FactoryInv
  BY FactoryInitially
<1> QED
  BY <1>1, FactoryStep, FactoryInvImplies, PTL DEF FactorySpec
=============================================================================
