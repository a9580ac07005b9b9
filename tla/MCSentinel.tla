----------------------------- MODULE MCSentinel -----------------------------
(***************************************************************************)
(* An instance of the pool with each of its two kinds of owner.  The daemon *)
(* enqueues nothing but HIGH tasks; whoever owns a pool of his own, as the  *)
(* tests do, may call enqueue with any priority, start and stop at any     *)
(* time.  Nobody under src enqueues CRITICAL tasks today.                   *)
(* The owner is chosen once, so that each is explored on a pool to itself.  *)
(***************************************************************************)
EXTENDS SentinelDaemon

CONSTANT MaxOwnEnqueues   \* bound on the enqueue calls of an owner that is not the daemon

VARIABLE owner

MCInit ==
  /\ SentinelInit
  /\ owner \in {"daemon", "caller"}

\* A call of the pool's own interface, by an owner that is not the daemon.
OwnCall ==
  /\ owner = "caller"
  /\ \/ \E id \in TaskIds, critical \in BOOLEAN :
          accepted < MaxOwnEnqueues /\ Enqueue(id, critical)
     \/ Start
     \/ Stop
  /\ UNCHANGED <<daemonRunning, watcher>>

MCNext ==
  /\ \/ owner = "daemon" /\ SentinelNext
     \/ OwnCall
     \/ owner = "caller" /\ PoolStep
  /\ UNCHANGED owner

MCSpec == MCInit /\ [][MCNext]_<<dvars, owner>> /\ WF_dvars(PoolStep)
=============================================================================
