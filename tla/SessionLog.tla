----------------------------- MODULE SessionLog -----------------------------
(***************************************************************************)
(* PsaSessionService: every session is a file of JSON lines that turns,    *)
(* plugins and forks append to; the number of an event comes from a        *)
(* counter that lives in memory only.  A write may fail after a part of    *)
(* the line reached the file (a full disk, a killed process): the line is  *)
(* left without its newline and the next one is glued to it.  A line that  *)
(* does not parse is skipped when the history is read.                     *)
(***************************************************************************)
EXTENDS Integers, FiniteSets, Sequences, SequencesExt, Selection

CONSTANTS
    Sessions,       \* session ids
    MaxEvents,      \* bound: events that turns append
    MaxTorn,        \* bound: writes that fail half-way
    MaxRestarts     \* bound: restarts of the process

ASSUME LogAssumption == MaxEvents \in Nat /\ MaxTorn \in Nat /\ MaxRestarts \in Nat

VARIABLES
    jsonl,        \* the lines of the file of each session, <<>> when absent
    tail,       \* how the last line ends: with its newline, whole without it, or cut
    counts,     \* eventCounts, an absent key counting as 0
    activeSessions,
    acked,      \* the bodies of the events whose append has returned, in order
    made, torn, restarts

memory == <<counts, activeSessions>>
logVars == <<jsonl, tail, memory, acked, made, torn, restarts>>

SessionInit(parent, step) == [kind |-> "init", parent |-> parent, step |-> step]
EventLine(index, body) == [kind |-> "event", index |-> index, body |-> body]
EventLines == [kind : {"event"}, index : Nat, body : Nat]
Junk == [kind |-> "junk"]

Bodies(events) == [i \in DOMAIN events |-> events[i].body]

\* getHistory: the lines that parse and are not the session_init.
GetHistory(s) == Select(jsonl[s], EventLines)

\* A line written after an unfinished one is glued to it and neither parses.
GluedLog(lines, end, line) ==
    IF end = "newline" THEN Append(lines, line) ELSE Append(Front(lines), Junk)

LogInit ==
    /\ jsonl = [s \in Sessions |-> <<>>]
    /\ tail = [s \in Sessions |-> "newline"]
    /\ counts = [s \in Sessions |-> 0]
    /\ activeSessions = {}
    /\ acked = [s \in Sessions |-> <<>>]
    /\ made = 0 /\ torn = 0 /\ restarts = 0

-----------------------------------------------------------------------------

\* Faulty: the file is written without looking whether it exists.
CreateSessionTruncating(s) ==
    /\ s \notin activeSessions
    /\ activeSessions' = activeSessions \cup {s}
    /\ counts' = [counts EXCEPT ![s] = 0]
    /\ jsonl' = [jsonl EXCEPT ![s] = <<SessionInit(s, 0)>>]
    /\ UNCHANGED <<tail, acked, made, torn, restarts>>

\* The ids of created sessions are drawn at random: their file is new.
CreateSession(s) ==
    /\ jsonl[s] = <<>> /\ s \notin activeSessions
    /\ activeSessions' = activeSessions \cup {s}
    /\ counts' = [counts EXCEPT ![s] = 0]
    /\ jsonl' = [jsonl EXCEPT ![s] = <<SessionInit(s, 0)>>]
    /\ UNCHANGED <<tail, acked, made, torn, restarts>>

\* A turn may append to an id nobody created: the file then has no session_init.
AppendEvent(s) ==
    /\ made < MaxEvents
    /\ made' = made + 1
    /\ counts' = [counts EXCEPT ![s] = @ + 1]
    /\ jsonl' = [jsonl EXCEPT ![s] = GluedLog(@, tail[s], EventLine(counts[s] + 1, made + 1))]
    /\ tail' = [tail EXCEPT ![s] = "newline"]
    /\ acked' = [acked EXCEPT ![s] = Append(@, made + 1)]
    /\ UNCHANGED <<activeSessions, torn, restarts>>

\* What a failed write of line leaves of it, and how the file then ends.
LeftBy(lines, end, line) ==
    {<<lines, end>>} \cup
    (IF end = "newline"
     THEN {<<Append(lines, line), "whole">>, <<Append(lines, Junk), "cut">>}
     ELSE {<<Append(Front(lines), Junk), "cut">>})

\* The counter has moved before the write that throws.
AppendThrows(s) ==
    /\ made < MaxEvents /\ torn < MaxTorn
    /\ made' = made + 1
    /\ torn' = torn + 1
    /\ counts' = [counts EXCEPT ![s] = @ + 1]
    /\ \E left \in LeftBy(jsonl[s], tail[s], EventLine(counts[s] + 1, made + 1)) :
          /\ jsonl' = [jsonl EXCEPT ![s] = left[1]]
          /\ tail' = [tail EXCEPT ![s] = left[2]]
    /\ UNCHANGED <<activeSessions, acked, restarts>>

\* The first n events of a history as fork appends them to the new session.
Renumbered(history, n) == [i \in 1..n |-> EventLine(i, history[i].body)]

\* fork reads, creates and appends without a pause.
Fork(s, t, step) ==
    LET history == GetHistory(s)
        n == IF step <= Len(history) THEN step ELSE Len(history)
    IN  /\ s # t /\ jsonl[s] # <<>>
        /\ jsonl[t] = <<>> /\ t \notin activeSessions
        /\ activeSessions' = activeSessions \cup {t}
        /\ counts' = [counts EXCEPT ![t] = n]
        /\ jsonl' = [jsonl EXCEPT ![t] = <<SessionInit(s, step)>> \o Renumbered(history, n)]
        /\ acked' = [acked EXCEPT ![t] = SubSeq(Bodies(history), 1, n)]
        /\ UNCHANGED <<tail, made, torn, restarts>>

\* One of the appends of a fork fails: fork throws and leaves what was copied.
ForkThrows(s, t, step) ==
    LET history == GetHistory(s)
    IN  /\ s # t /\ torn < MaxTorn
        /\ jsonl[t] = <<>> /\ t \notin activeSessions
        /\ torn' = torn + 1
        /\ activeSessions' = activeSessions \cup {t}
        /\ \E i \in 1..Len(history) :
              LET written == <<SessionInit(s, step)>> \o Renumbered(history, i - 1)
              IN  /\ i <= step
                  /\ counts' = [counts EXCEPT ![t] = i]
                  /\ acked' = [acked EXCEPT ![t] = SubSeq(Bodies(history), 1, i - 1)]
                  /\ \E left \in LeftBy(written, "newline", EventLine(i, history[i].body)) :
                        /\ jsonl' = [jsonl EXCEPT ![t] = left[1]]
                        /\ tail' = [tail EXCEPT ![t] = left[2]]
        /\ UNCHANGED <<made, restarts>>

Restart ==
    /\ restarts < MaxRestarts
    /\ restarts' = restarts + 1
    /\ activeSessions' = {}
    /\ counts' = [s \in Sessions |-> 0]
    /\ UNCHANGED <<jsonl, tail, acked, made, torn>>

LogNext ==
    \/ \E s \in Sessions : CreateSession(s) \/ AppendEvent(s) \/ AppendThrows(s)
    \/ \E s, t \in Sessions, step \in 0..MaxEvents : Fork(s, t, step) \/ ForkThrows(s, t, step)
    \/ Restart

LogSpec == LogInit /\ [][LogNext]_logVars

-----------------------------------------------------------------------------
(* Properties.                                                             *)

LogTypeOK ==
    /\ \A s \in Sessions : \A i \in DOMAIN jsonl[s] :
          jsonl[s][i].kind \in (IF i = 1 THEN {"init", "event", "junk"} ELSE {"event", "junk"})
    /\ tail \in [Sessions -> {"newline", "whole", "cut"}]
    /\ counts \in [Sessions -> 0..MaxEvents]
    /\ activeSessions \subseteq Sessions
    /\ acked \in [Sessions -> Seq(1..MaxEvents)]
    /\ made \in 0..MaxEvents /\ torn \in 0..MaxTorn /\ restarts \in 0..MaxRestarts

\* As long as no write has failed, the history read back is what append has
\* acknowledged, in that order, across forks and restarts.
HistoryIsLog == torn = 0 => \A s \in Sessions : Bodies(GetHistory(s)) = acked[s]

\* The acknowledged events that a history no longer has.
LostEvents ==
    {e \in Sessions \X (1..MaxEvents) :
        e[2] \in ToSet(acked[e[1]]) \ ToSet(Bodies(GetHistory(e[1])))}

\* A write that fails half-way costs at most one acknowledged event.
LossBounded == Cardinality(LostEvents) <= torn

\* What a fork shares with its parent stays a prefix of the parent's history,
\* however both grow and whichever of their writes fail.
ForkIsPrefix ==
    \A t \in Sessions :
        jsonl[t] # <<>> /\ jsonl[t][1].kind = "init" /\ jsonl[t][1].parent # t =>
            LET parent == Bodies(GetHistory(jsonl[t][1].parent))
                shared == Select(Bodies(GetHistory(t)), ToSet(parent))
            IN  IsPrefix(shared, parent)

\* The files give the history back: whole while no write failed, short of one event
\* per failure afterwards, and to a fork its parent's as far as they share it.
HistoryKept == HistoryIsLog /\ LossBounded /\ ForkIsPrefix
=============================================================================
