---------------------------- MODULE SessionIndex ----------------------------
(***************************************************************************)
(* The session files together with their index: SqliteStoragePlugin reads  *)
(* every file of workspaceRoot/.psa_sessions whenever it is applied and    *)
(* inserts the events it does not have; an insertion that fails (a busy    *)
(* database, a full disk, a column that may not be null) is passed over.   *)
(* Its only other source, the event "agent/step", is emitted by nobody, so *)
(* between two applications the index stands still.  The table of the      *)
(* sessions themselves and their totals are left out.                      *)
(***************************************************************************)
EXTENDS SessionLog

CONSTANTS
    MaxSyncs,   \* bound: applications of the plugin
    MaxLost     \* bound: insertions that fail in one of them

ASSUME IndexAssumption == MaxSyncs \in Nat /\ MaxLost \in Nat

VARIABLES
    rows,       \* rows of session_events: the events of each session
    refused,    \* history: the events of each session whose last insertion failed
    syncs

index == <<rows, refused>>
sessionVars == <<logVars, index, syncs>>

IndexInit ==
    /\ LogInit
    /\ rows = [s \in Sessions |-> {}]
    /\ refused = [s \in Sessions |-> {}]
    /\ syncs = 0

\* Faulty: an event counts as indexed when any session has its number.
AttemptedAnywhere(s, lost) ==
    LET history == GetHistory(s)
        Has(n) == \E t \in Sessions : \E e \in rows[t] : e.index = n
    IN  {history[i] : i \in {k \in DOMAIN history : ~Has(history[k].index)
            /\ \A j \in 1..(k - 1) :
                  history[j].index = history[k].index => <<s, history[j]>> \in lost}}

\* The events a sync tries to insert: those whose number the session has no row for by
\* then, from before or from an earlier event of the same file that was not lost.
Attempted(s, lost) ==
    LET history == GetHistory(s)
        Has(n) == \E e \in rows[s] : e.index = n
    IN  {history[i] : i \in {k \in DOMAIN history : ~Has(history[k].index)
            /\ \A j \in 1..(k - 1) :
                  history[j].index = history[k].index => <<s, history[j]>> \in lost}}

\* What the files have without a row, of any session.
Unindexed == UNION {{s} \X (ToSet(GetHistory(s)) \ rows[s]) : s \in Sessions}

\* syncFromSessionFiles has no await; read files up to part, the others not yet
\* when the process dies.
SyncFiles(part) ==
    /\ syncs < MaxSyncs /\ syncs' = syncs + 1
    /\ \E lost \in SUBSET Unindexed :
         /\ Cardinality(lost) <= MaxLost
         /\ rows' = [s \in Sessions |->
              IF s \in part THEN rows[s] \cup {e \in Attempted(s, lost) : <<s, e>> \notin lost} ELSE rows[s]]
         /\ refused' = [s \in Sessions |->
              IF s \in part THEN (refused[s] \ Attempted(s, lost)) \cup {e \in Attempted(s, lost) : <<s, e>> \in lost}
              ELSE refused[s]]

Sync == SyncFiles(Sessions) /\ UNCHANGED logVars

SyncDies == \E part \in SUBSET Sessions : SyncFiles(part) /\ Restart

\* The sessions are stored elsewhere: in the working directory, when that is not the
\* workspace, or in the user's data directory, when it cannot be written to.
SyncElsewhere ==
    /\ syncs < MaxSyncs /\ syncs' = syncs + 1
    /\ UNCHANGED <<logVars, index>>

IndexNext == (LogNext /\ UNCHANGED <<index, syncs>>) \/ Sync \/ SyncDies \/ SyncElsewhere

IndexSpec == IndexInit /\ [][IndexNext]_sessionVars

-----------------------------------------------------------------------------

\* After a sync of the directory the sessions are in, an event without a row is one
\* that a restart or a failed write has numbered like an earlier one, which has the
\* row, or one whose last insertion failed: whatever failed before is made up for,
\* unless a later event has taken its number in between.
SyncIsComplete == [][Sync =>
    \A s \in Sessions : \A i \in DOMAIN GetHistory(s) :
        \/ GetHistory(s)[i] \in rows'[s] \cup refused'[s]
        \/ \E e \in rows'[s] : e.index = GetHistory(s)[i].index /\ e.body < GetHistory(s)[i].body]_sessionVars
=============================================================================
