---------------------------- MODULE ChangeWatch -----------------------------
(***************************************************************************)
(* How a change of a file reaches those who wait for it.  In the Go hub    *)
(* the watcher, the sentinel and the gRPC handlers send on one unbuffered  *)
(* channel; the broadcaster hands each message to every connected client   *)
(* that has room for it.  On the TypeScript side the stream of the         *)
(* HubWatcher feeds the backlog of the ParityDaemon.                       *)
(***************************************************************************)
EXTENDS Naturals, Sequences, SequencesExt

CONSTANTS
    Files,      \* files of the project
    Agents,     \* those the ParityDaemon compares: agents of src_local
    Callers,    \* gRPC handlers that broadcast (UpdateTask, BroadcastSignal, RequestPeerReview)
    Pages,      \* clients of the dashboard (ServeSSE)
    Stream,     \* the client that is the HubWatcher's stream (WatchEvents)
    PageBuffer, \* messages a page's channel holds (10 in the code)
    MaxEdits,   \* bound: changes of files
    MaxOthers,  \* bound: messages that are not about a file
    MaxJoins    \* bound: connections of a page

ASSUME WatchAssumption ==
    /\ Agents \subseteq Files /\ Stream \notin Pages
    /\ PageBuffer \in Nat /\ MaxEdits \in Nat /\ MaxOthers \in Nat /\ MaxJoins \in Nat

VARIABLES
    made,       \* whether the broadcaster has made the channel
    watched,    \* files whose directory the walk has reached
    events,     \* what the file system has reported, not yet read
    sender,     \* each goroutine that sends: [at, msg]
    log,        \* every message broadcast
    clients,    \* the clients in the hub's table
    since, got, \* when each joined, and what it received
    buf,        \* what waits for each client, the message it is handling included
    backlog, isProcessing, timers,  \* the ParityDaemon; timers counts its setTimeout
    edits, others, joins

hub == <<made, watched, events, sender>>
fanout == <<log, clients, since, got, buf>>
daemon == <<backlog, isProcessing, timers>>
bounds == <<edits, others, joins>>
vars == <<hub, fanout, daemon, bounds>>

Clients == Pages \cup {Stream}
Senders == {"watcher", "sentinel"} \cup Callers
Messages == Files \cup {"HEALTH_UPDATE", "TASK_UPDATED"}
Capacity(c) == IF c = Stream THEN 1 ELSE PageBuffer + 1
Idle == [at |-> "idle", msg |-> "HEALTH_UPDATE"]

Init ==
    /\ made = FALSE /\ watched = {} /\ events = <<>>
    /\ sender = [s \in Senders |-> Idle]
    /\ log = <<>> /\ clients = {}
    /\ since = [c \in Clients |-> 0]
    /\ got = [c \in Clients |-> <<>>] /\ buf = [c \in Clients |-> <<>>]
    /\ backlog = <<>> /\ isProcessing = FALSE /\ timers = 0
    /\ edits = 0 /\ others = 0 /\ joins = [c \in Clients |-> 0]

-----------------------------------------------------------------------------
(* The hub *)

\* startBroadcaster makes the channel inside its goroutine.
MakeChannel == ~made /\ made' = TRUE /\ UNCHANGED <<watched, events, sender, fanout, daemon, bounds>>

\* filepath.Walk adds the directories one by one; one created later is never added.
Walk(f) ==
    /\ f \notin watched /\ watched' = watched \cup {f}
    /\ UNCHANGED <<made, events, sender, fanout, daemon, bounds>>

Edit(f) ==
    /\ edits < MaxEdits /\ edits' = edits + 1
    /\ events' = IF f \in watched THEN Append(events, f) ELSE events
    /\ UNCHANGED <<made, watched, sender, fanout, daemon, others, joins>>

\* A send on a channel that is still nil never ends.
Sends(s, m) == sender' = [sender EXCEPT ![s] =
                  [at |-> IF made THEN "sending" ELSE "blocked", msg |-> m]]
IsIdle(s) == sender[s].at = "idle"

\* The watcher's loop reads the next event when its last send is over.
WatcherSends ==
    /\ IsIdle("watcher") /\ events # <<>>
    /\ Sends("watcher", Head(events)) /\ events' = Tail(events)
    /\ UNCHANGED <<made, watched, fanout, daemon, bounds>>

\* Every tick of the sentinel, unless its last message still waits.
SentinelSends ==
    /\ IsIdle("sentinel") /\ others < MaxOthers /\ others' = others + 1
    /\ Sends("sentinel", "HEALTH_UPDATE")
    /\ UNCHANGED <<made, watched, events, fanout, daemon, edits, joins>>

\* A handler broadcasts when it has done its work.
CallerSends(s) ==
    /\ s \in Callers /\ IsIdle(s) /\ others < MaxOthers /\ others' = others + 1
    /\ Sends(s, "TASK_UPDATED")
    /\ UNCHANGED <<made, watched, events, fanout, daemon, edits, joins>>

Room(c) == Len(buf[c]) < Capacity(c)

\* Faulty: what finds no room is put before what waits, not dropped.
BroadcastAhead(s) ==
    /\ sender[s].at = "sending"
    /\ log' = Append(log, sender[s].msg)
    /\ buf' = [c \in Clients |-> IF c \notin clients THEN buf[c]
                 ELSE IF Room(c) THEN Append(buf[c], Len(log')) ELSE <<Len(log')>> \o buf[c]]
    /\ sender' = [sender EXCEPT ![s] = Idle]
    /\ UNCHANGED <<made, watched, events, clients, since, got, daemon, bounds>>

\* The broadcaster takes a message and, with clientsLock held, gives it to every
\* client that has room; the others do not get it.
Broadcast(s) ==
    /\ sender[s].at = "sending"
    /\ log' = Append(log, sender[s].msg)
    /\ buf' = [c \in Clients |-> IF c \in clients /\ Room(c)
                                 THEN Append(buf[c], Len(log')) ELSE buf[c]]
    /\ sender' = [sender EXCEPT ![s] = Idle]
    /\ UNCHANGED <<made, watched, events, clients, since, got, daemon, bounds>>

-----------------------------------------------------------------------------
(* The clients *)

\* A page connects again when its stream ends; HubWatcher.listen is called once.
Join(c) ==
    /\ c \notin clients
    /\ joins[c] < (IF c = Stream THEN 1 ELSE MaxJoins)
    /\ joins' = [joins EXCEPT ![c] = @ + 1]
    /\ clients' = clients \cup {c}
    /\ since' = [since EXCEPT ![c] = Len(log)]
    /\ got' = [got EXCEPT ![c] = <<>>] /\ buf' = [buf EXCEPT ![c] = <<>>]
    /\ UNCHANGED <<hub, log, daemon, edits, others>>

\* The stream is over: the deferred delete, with what waited for the client.
Leave(c) ==
    /\ c \in clients /\ clients' = clients \ {c}
    /\ buf' = [buf EXCEPT ![c] = <<>>]
    /\ UNCHANGED <<hub, log, since, got, daemon, bounds>>

Taken(c) == buf[c] # <<>> /\ buf' = [buf EXCEPT ![c] = Tail(@)]
                          /\ got' = [got EXCEPT ![c] = Append(@, Head(buf[c]))]

PageReceives(c) ==
    /\ c \in Pages /\ Taken(c)
    /\ UNCHANGED <<hub, log, clients, since, daemon, bounds>>

\* processBacklog, up to the answer of the language model it waits for.
Process(pending) ==
    IF isProcessing \/ pending = <<>>
    THEN backlog' = pending /\ UNCHANGED isProcessing
    ELSE backlog' = Tail(pending) /\ isProcessing' = TRUE

\* HubWatcher.notify and the callback of the ParityDaemon run in one step.
StreamReceives ==
    /\ Taken(Stream)
    /\ LET m == log[Head(buf[Stream])]
       IN IF m \in Agents THEN Process(Append(backlog, m)) ELSE UNCHANGED <<backlog, isProcessing>>
    /\ UNCHANGED <<hub, log, clients, since, timers, bounds>>

-----------------------------------------------------------------------------
(* The ParityDaemon *)

\* Faulty: the next file waits for the next change.
ComparedAndStop ==
    /\ isProcessing /\ isProcessing' = FALSE
    /\ UNCHANGED <<hub, fanout, backlog, timers, bounds>>

\* The comparison ends, with a result or an error; what is left gets a timer.
Compared ==
    /\ isProcessing /\ isProcessing' = FALSE
    /\ timers' = IF backlog = <<>> THEN timers ELSE timers + 1
    /\ UNCHANGED <<hub, fanout, backlog, bounds>>

Timer ==
    /\ timers > 0 /\ timers' = timers - 1
    /\ Process(backlog)
    /\ UNCHANGED <<hub, fanout, bounds>>

Next ==
    \/ MakeChannel \/ WatcherSends \/ SentinelSends \/ StreamReceives \/ Compared \/ Timer
    \/ \E f \in Files : Walk(f) \/ Edit(f)
    \/ \E s \in Senders : CallerSends(s) \/ Broadcast(s)
    \/ \E c \in Clients : Join(c) \/ Leave(c) \/ PageReceives(c)

\* The broadcaster is scheduled, the calls of the language model end and timers
\* fire.  Nothing is assumed of the clients.
Spec ==
    /\ Init /\ [][Next]_vars
    /\ \A s \in Senders : WF_vars(Broadcast(s))
    /\ WF_vars(Compared) /\ WF_vars(Timer)

-----------------------------------------------------------------------------
TypeOK ==
    /\ made \in BOOLEAN /\ watched \subseteq Files /\ events \in Seq(Files)
    /\ sender \in [Senders -> [at : {"idle", "sending", "blocked"}, msg : Messages]]
    /\ log \in Seq(Messages) /\ clients \subseteq Clients
    /\ since \in [Clients -> Nat] /\ got \in [Clients -> Seq(Nat)]
    /\ \A c \in Clients : buf[c] \in Seq(DOMAIN log) /\ Len(buf[c]) <= Capacity(c)
    /\ backlog \in Seq(Agents) /\ isProcessing \in BOOLEAN /\ timers \in Nat

Fanout == INSTANCE LossyFanout

\* The broadcaster, whatever the pace of the clients, is a lossy fan-out: no
\* client gets a message twice, out of order, or from before it joined.
ImplementsLossyFanout == Fanout!Spec

\* Files wait only when a comparison or a timer will come back for them, although
\* changes arrive between the end of one comparison and the timer it set.
BacklogHasRunner == backlog # <<>> => isProcessing \/ timers > 0

\* A changed agent in the backlog is compared in the end.
EveryChangeCompared == \A f \in Agents :
    (\E i \in DOMAIN backlog : backlog[i] = f) ~> (\A i \in DOMAIN backlog : backlog[i] # f)

\* What is told as FILE_EVENT is the path of a file (Event.path of WatchEvents).
FileEventsNameFiles == \A i \in DOMAIN got[Stream] :
    log[got[Stream][i]] # "HEALTH_UPDATE" => log[got[Stream][i]] \in Files
=============================================================================
