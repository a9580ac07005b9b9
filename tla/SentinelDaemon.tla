--------------------------- MODULE SentinelDaemon ---------------------------
(***************************************************************************)
(* src_local/core/sentinel_daemon.ts: a file watcher that feeds the worker *)
(* pool.  The daemon owns its pool: start and stop are called on it only   *)
(* from here, and every enqueue is one file event of the watcher.          *)
(*                                                                         *)
(* A task id is "audit_<file>_<ms>": one value of TaskIds stands for one   *)
(* file changed in one millisecond, so two events of fs.watch for the same *)
(* save share an id and the pool drops the second while the first waits.   *)
(***************************************************************************)
EXTENDS TaskWorkerPool

VARIABLES
  daemonRunning,   \* SentinelDaemon.isRunning
  watcher          \* the watcher is open

dvars == <<vars, daemonRunning, watcher>>

SentinelInit ==
  /\ Init
  /\ daemonRunning = FALSE
  /\ watcher = FALSE

\* Faulty variant: a daemon restarted with a backlog waits for the next event.
StartDaemonWithoutPool ==
  /\ ~daemonRunning
  /\ daemonRunning' = TRUE
  /\ isRunning' = TRUE
  /\ watcher' \in {TRUE, watcher}
  /\ UNCHANGED <<queue, activeWorkers, running, completed, failed, accepted>>

\* start: nothing when already running; watch() may throw, which leaves the
\* daemon running without a watcher.
StartDaemon ==
  /\ ~daemonRunning
  /\ daemonRunning' = TRUE
  /\ Start
  /\ watcher' \in {TRUE, watcher}

\* The watcher's callback; an ignored file changes nothing.
FileChanged(id) ==
  /\ watcher
  /\ Enqueue(id, FALSE)
  /\ UNCHANGED <<daemonRunning, watcher>>

StopDaemon ==
  /\ daemonRunning
  /\ watcher' = FALSE
  /\ Stop
  /\ daemonRunning' = FALSE

\* An execution of the pool ends.
PoolStep ==
  /\ \E entry \in running : Settle(entry)
  /\ UNCHANGED <<daemonRunning, watcher>>

SentinelNext ==
  \/ StartDaemon
  \/ \E id \in TaskIds : FileChanged(id)
  \/ StopDaemon
  \/ PoolStep

SentinelSpec == SentinelInit /\ [][SentinelNext]_dvars /\ WF_dvars(PoolStep)

-----------------------------------------------------------------------------
(* Properties. *)

\* A change reported while the daemon was running is audited to the end if the
\* daemon is running for good from some moment on, even when it was stopped
\* with the audit still queued and restarted later, with or without a watcher.
ChangesAudited ==
  (<>[]daemonRunning) =>
    \A n \in 0 .. MaxEnqueues - 1 :
      [](accepted > n => <>(\E e \in Finished : e.serial = n))
=============================================================================
