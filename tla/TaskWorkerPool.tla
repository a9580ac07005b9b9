--------------------------- MODULE TaskWorkerPool ---------------------------
(***************************************************************************)
(* The worker pool of src_local/core/task_worker_pool.ts.                  *)
(*                                                                         *)
(* The class runs on one JavaScript thread: everything up to an await is   *)
(* one step.  processNext has a single await (executeTask), so a task is   *)
(* taken from the queue in the step that calls processNext and ends in a   *)
(* later step of its own, which runs the `finally` block and calls         *)
(* processNext again.                                                      *)
(*                                                                         *)
(* A queue entry carries the serial number of the enqueue that created it  *)
(* (the code's created_at): the same task id may be enqueued again once    *)
(* its previous entry has left the queue.                                  *)
(***************************************************************************)
EXTENDS Naturals, Sequences, FiniteSets

CONSTANTS
  TaskIds,          \* values of WorkerTask.id
  MaxConcurrency,   \* the constructor's argument
  MaxEnqueues       \* bound on the number of accepted enqueue calls

ASSUME ConcurrencyAssumption == MaxConcurrency \in Nat \ {0}
ASSUME EnqueuesAssumption == MaxEnqueues \in Nat

VARIABLES
  queue,          \* WorkerTask[]
  activeWorkers,  \* the counter the code keeps
  isRunning,
  running,        \* the entries whose executeTask promise is pending
  completed,      \* the entries for which task:completed was emitted
  failed,         \* the entries for which task:failed was emitted
  accepted        \* accepted enqueue calls so far, the next serial number

vars == <<queue, activeWorkers, isRunning, running, completed, failed, accepted>>

Entry == [id : TaskIds, critical : BOOLEAN, serial : Nat]

Elements(q) == {q[i] : i \in DOMAIN q}

Queued == Elements(queue)
Finished == completed \cup failed

TypeOK ==
  /\ queue \in Seq(Entry)
  /\ activeWorkers \in Nat
  /\ isRunning \in BOOLEAN
  /\ running \subseteq Entry
  /\ completed \subseteq Entry
  /\ failed \subseteq Entry
  /\ accepted \in Nat

Init ==
  /\ queue = <<>>
  /\ activeWorkers = 0
  /\ isRunning = FALSE
  /\ running = {}
  /\ completed = {}
  /\ failed = {}
  /\ accepted = 0

-----------------------------------------------------------------------------
(* The synchronous part of processNext, called at the end of enqueue, start *)
(* and of every execution, on the state its caller has just left.           *)

\* Faulty variant: the limit is exceeded by one.
MayTakeOneTooMany(q, active, on) == on /\ active <= MaxConcurrency /\ q # <<>>

MayTake(q, active, on) == on /\ active < MaxConcurrency /\ q # <<>>

\* Faulty variant: the task is read from the queue without being shifted out.
ProcessNextWithoutShift(q, active, on, run) ==
  /\ queue' = q
  /\ \/ /\ MayTake(q, active, on)
        /\ activeWorkers' = active + 1
        /\ running' = run \cup {Head(q)}
     \/ /\ ~MayTake(q, active, on)
        /\ activeWorkers' = active
        /\ running' = run

ProcessNext(q, active, on, run) ==
  \/ /\ MayTake(q, active, on)
     /\ queue' = Tail(q)
     /\ activeWorkers' = active + 1
     /\ running' = run \cup {Head(q)}
  \/ /\ ~MayTake(q, active, on)
     /\ queue' = q
     /\ activeWorkers' = active
     /\ running' = run

\* Faulty variant: a CRITICAL task waits its turn.
InsertAtBack(q, entry) == Append(q, entry)

\* A CRITICAL task goes to the front (unshift), any other to the back (push).
Insert(q, entry) == IF entry.critical THEN <<entry>> \o q ELSE Append(q, entry)

\* enqueue: a task whose id is already queued is dropped and nothing changes.
Enqueue(id, critical) ==
  /\ accepted < MaxEnqueues
  /\ \A i \in DOMAIN queue : queue[i].id # id
  /\ accepted' = accepted + 1
  /\ ProcessNext(Insert(queue, [id |-> id, critical |-> critical, serial |-> accepted]),
                 activeWorkers, isRunning, running)
  /\ UNCHANGED <<isRunning, completed, failed>>

\* start has no guard: a second call starts one more execution.
Start ==
  /\ isRunning' = TRUE
  /\ ProcessNext(queue, activeWorkers, TRUE, running)
  /\ UNCHANGED <<completed, failed, accepted>>

\* stop lets the running executions end; they find isRunning false.
Stop ==
  /\ isRunning' = FALSE
  /\ UNCHANGED <<queue, activeWorkers, running, completed, failed, accepted>>

\* The executeTask promise of `entry` settles: the event, then `finally`.
Complete(entry) ==
  /\ entry \in running
  /\ completed' = completed \cup {entry}
  /\ ProcessNext(queue, activeWorkers - 1, isRunning, running \ {entry})
  /\ UNCHANGED <<isRunning, failed, accepted>>

\* Faulty variant: the queue is looked at again only after a success.
FailWithoutNext(entry) ==
  /\ entry \in running
  /\ failed' = failed \cup {entry}
  /\ activeWorkers' = activeWorkers - 1
  /\ running' = running \ {entry}
  /\ UNCHANGED <<queue, isRunning, completed, accepted>>

Fail(entry) ==
  /\ entry \in running
  /\ failed' = failed \cup {entry}
  /\ ProcessNext(queue, activeWorkers - 1, isRunning, running \ {entry})
  /\ UNCHANGED <<isRunning, completed, accepted>>

Settle(entry) == Complete(entry) \/ Fail(entry)

Next ==
  \/ \E id \in TaskIds, critical \in BOOLEAN : Enqueue(id, critical)
  \/ Start
  \/ Stop
  \/ \E entry \in running : Complete(entry)
  \/ \E entry \in running : Fail(entry)

\* Every task body of executeTask settles: a 50 ms timer, a VACUUM that is not
\* awaited, or one file's analysis.  Nothing else is fair: the sentinel may
\* never call start, and may call stop at any time.
Fairness == WF_vars(\E entry \in running : Settle(entry))

Spec == Init /\ [][Next]_vars /\ Fairness

-----------------------------------------------------------------------------
(* Properties. *)

\* The counter the scheduler compares with maxConcurrency is the number of
\* executions really in flight, whatever the order of start, stop, enqueue and
\* the ends of tasks: a missed decrement would shrink the pool for good.
ActiveCountExact ==
  /\ activeWorkers = Cardinality(running)
  /\ activeWorkers <= MaxConcurrency

\* A running pool never holds a queued task that no later step will look at:
\* processNext is only called by enqueue, start and the end of a task, so some
\* execution must be in flight to take the queue's head when it ends.
NoStrandedTask == isRunning /\ queue # <<>> => activeWorkers > 0

\* No entry is in the queue twice.
Distinct(q) == \A i, j \in DOMAIN q : q[i] = q[j] => i = j

\* Every accepted entry is at one place at a time: once in the queue, or in
\* flight, or finished; and no two enqueue calls created the same entry.
InOnePlace ==
  /\ Distinct(queue)
  /\ Queued \cap running = {}
  /\ Queued \cap Finished = {}
  /\ running \cap Finished = {}
  /\ \A e \in Queued \cup running \cup Finished : e.serial < accepted

\* Whether e is taken before x when both wait: of two CRITICAL tasks the one
\* enqueued last, of two others the one enqueued first, and any CRITICAL task
\* before any other.
GoesBefore(e, x) ==
  IF e.critical
    THEN x.critical => x.serial < e.serial
    ELSE ~x.critical /\ e.serial < x.serial

\* Tasks begin in the order unshift and push give them, over stops, restarts
\* and executions still in flight: a task that begins goes before every task
\* that is left waiting.  A CRITICAL task is therefore overtaken by the CRITICAL
\* tasks enqueued after it and by nothing else; any other task by the CRITICAL
\* ones alone.
StartsInOrder ==
  [][\A e \in running' \ running, x \in Elements(queue') : GoesBefore(e, x)]_vars

\* The pool implements JobPool: no accepted task is lost, run twice or run
\* beyond the concurrency limit.
Pool == INSTANCE JobPool WITH pending <- Queued, done <- Finished

ImplementsJobPool == Pool!Spec
=============================================================================
