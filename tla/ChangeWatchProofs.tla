------------------------- MODULE ChangeWatchProofs --------------------------
(***************************************************************************)
(* For any files, callers, pages and sizes of their channels: the hub's    *)
(* broadcaster with its clients implements LossyFanout, and no file waits  *)
(* in the ParityDaemon's backlog without anybody to come back for it.      *)
(***************************************************************************)
EXTENDS ChangeWatch, TLAPS, SequenceTheorems

-----------------------------------------------------------------------------
(* What waits for a client are positions of the log in their order, all    *)
(* after the last one it received: without this, the messages a client     *)
(* takes from its channel would not be known to be new to it.              *)

LastTold(c) == Fanout!Last(c)

\* A sequence of positions, from those after low up to high.
Rising(s, low, high) ==
    /\ low \in 0..high
    /\ \A i \in DOMAIN s : s[i] \in (low + 1)..high
    /\ \A i, j \in DOMAIN s : i < j => s[i] < s[j]

Queued(c) == Rising(buf[c], LastTold(c), Len(log))

InOrder == \A c \in Clients : Queued(c)

\* TypeOK, and that buf has a channel for each client and nobody else.
Typed == TypeOK /\ buf \in [Clients -> Seq(Nat)]

WatchInv == Typed /\ InOrder /\ BacklogHasRunner

-----------------------------------------------------------------------------
(* The channels of the clients *)

\* A message more is broadcast.
LEMMA LogGrows ==
    ASSUME Typed, NEW m \in Messages, log' = Append(log, m)
    PROVE  /\ log' \in Seq(Messages) /\ Len(log') = Len(log) + 1 /\ Len(log) \in Nat
           /\ DOMAIN log = 1..Len(log) /\ DOMAIN log' = 1..Len(log')
BY AppendProperties, LenProperties DEF Typed, TypeOK

\* A channel, its length and its elements.
LEMMA Channel ==
    ASSUME Typed, NEW c \in Clients
    PROVE  /\ buf[c] \in Seq(Nat) /\ Len(buf[c]) \in Nat
           /\ DOMAIN buf[c] = 1..Len(buf[c])
           /\ got[c] \in Seq(Nat) /\ since[c] \in Nat
           /\ Len(log) \in Nat /\ DOMAIN log = 1..Len(log)
BY LenProperties DEF Typed, TypeOK

\* The sizes of the channels.
LEMMA Capacities ==
    ASSUME NEW c \in Clients
    PROVE  Capacity(c) \in Nat \ {0}
BY WatchAssumption DEF Capacity

\* What a client was told last, after one more message and after a new start.
LEMMA LastOfAppend ==
    ASSUME NEW s \in Seq(Nat), NEW n \in Nat
    PROVE  /\ Append(s, n) \in Seq(Nat) /\ Append(s, n) # <<>>
           /\ Append(s, n)[Len(Append(s, n))] = n
BY AppendProperties, EmptySeq

\* A rising sequence may be continued with the next position, or not.
LEMMA RisingAppend ==
    ASSUME NEW s \in Seq(Nat), NEW low, NEW high \in Nat, Rising(s, low, high)
    PROVE  Rising(s, low, high + 1) /\ Rising(Append(s, high + 1), low, high + 1)
<1> DEFINE n == Len(s)
           t == Append(s, high + 1)
<1>1. n \in Nat /\ DOMAIN s = 1..n
  BY LenProperties
<1>2. /\ DOMAIN t = 1..(n + 1) /\ t[n + 1] = high + 1
      /\ \A k \in 1..n : t[k] = s[k]
  BY AppendProperties, LenProperties
<1> HIDE DEF n, t
<1>3. low \in Nat /\ low <= high
  BY DEF Rising
<1>4. \A k \in 1..n : s[k] \in (low + 1)..high
  BY <1>1 DEF Rising
<1>5. \A i, j \in 1..n : i < j => s[i] < s[j]
  BY <1>1 DEF Rising
<1>6. \A k \in 1..(n + 1) : k \in 1..n \/ k = n + 1
  BY <1>1
<1>7. Rising(s, low, high + 1)
  BY <1>1, <1>3, <1>4, <1>5 DEF Rising
<1>8. \A k \in 1..(n + 1) : t[k] \in (low + 1)..(high + 1)
  BY <1>2, <1>3, <1>4, <1>6
<1>9. ASSUME NEW i \in 1..(n + 1), NEW j \in 1..(n + 1), i < j PROVE t[i] < t[j]
  <2>1. i \in 1..n
    BY <1>1, <1>9
  <2>2. CASE j \in 1..n
    BY <1>2, <1>5, <1>9, <2>1, <2>2
  <2>3. CASE j = n + 1
    <3>1. s[i] <= high /\ s[i] \in Nat
      BY <1>3, <1>4, <2>1
    <3> QED
      BY <1>2, <2>1, <2>3, <3>1
  <2> QED
    BY <1>6, <2>2, <2>3
<1>10. Rising(t, low, high + 1)
  BY <1>2, <1>3, <1>8, <1>9 DEF Rising
<1> QED
  BY <1>7, <1>10 DEF t

\* The rest of a rising sequence is after its head.
LEMMA RisingTail ==
    ASSUME NEW s \in Seq(Nat), NEW low, NEW high \in Nat, Rising(s, low, high), s # <<>>
    PROVE  Head(s) \in (low + 1)..high /\ Rising(Tail(s), Head(s), high)
<1> DEFINE n == Len(s)
           t == Tail(s)
<1>1. n \in Nat \ {0} /\ DOMAIN s = 1..n /\ Head(s) = s[1]
  BY EmptySeq, LenProperties
<1>2. DOMAIN t = 1..(n - 1) /\ \A k \in 1..(n - 1) : t[k] = s[k + 1]
  BY HeadTailProperties, LenProperties
<1> HIDE DEF n, t
<1>3. low \in Nat /\ low <= high
  BY DEF Rising
<1>4. \A k \in 1..n : s[k] \in (low + 1)..high
  BY <1>1 DEF Rising
<1>5. \A i, j \in 1..n : i < j => s[i] < s[j]
  BY <1>1 DEF Rising
<1>6. 1 \in 1..n /\ \A k \in 1..(n - 1) : k + 1 \in 1..n /\ 1 < k + 1
  BY <1>1
<1>7. s[1] \in (low + 1)..high
  BY <1>4, <1>6
<1>8. ASSUME NEW k \in 1..(n - 1) PROVE t[k] \in (s[1] + 1)..high
  <2>1. s[1] < s[k + 1] /\ s[k + 1] \in (low + 1)..high
    BY <1>4, <1>5, <1>6
  <2> QED
    BY <1>2, <1>3, <1>7, <2>1
<1>9. ASSUME NEW i \in 1..(n - 1), NEW j \in 1..(n - 1), i < j PROVE t[i] < t[j]
  <2>1. i + 1 < j + 1 /\ i + 1 \in 1..n /\ j + 1 \in 1..n
    BY <1>1, <1>6, <1>9
  <2> QED
    BY <1>2, <1>5, <2>1
<1>10. s[1] \in 0..high
  BY <1>3, <1>7
<1>11. Rising(t, s[1], high)
  BY <1>2, <1>8, <1>9, <1>10 DEF Rising
<1> QED
  BY <1>1, <1>7, <1>11 DEF t

\* A broadcast keeps the order of what waits for a client.
LEMMA BroadcastInOrder ==
    ASSUME Typed, InOrder, NEW s \in Senders, Broadcast(s)
    PROVE  /\ InOrder'
           /\ log' \in Seq(Messages)
           /\ buf' \in [Clients -> Seq(Nat)]
           /\ \A c \in Clients : buf'[c] \in Seq(DOMAIN log') /\ Len(buf'[c]) <= Capacity(c)
<1>1. sender[s].msg \in Messages
  BY DEF Typed, TypeOK
<1>2. /\ log' \in Seq(Messages) /\ Len(log') = Len(log) + 1 /\ Len(log) \in Nat
      /\ DOMAIN log = 1..Len(log) /\ DOMAIN log' = 1..Len(log')
  BY <1>1, LogGrows DEF Broadcast
<1>3. ASSUME NEW c \in Clients
      PROVE  /\ buf'[c] \in Seq(Nat) /\ buf'[c] \in Seq(DOMAIN log')
             /\ Len(buf'[c]) <= Capacity(c) /\ Queued(c)'
  <2>1. /\ buf[c] \in Seq(Nat) /\ Len(buf[c]) \in Nat
        /\ buf[c] \in Seq(DOMAIN log) /\ Len(buf[c]) <= Capacity(c) /\ Capacity(c) \in Nat
    BY Channel, Capacities DEF Typed, TypeOK
  <2>2. LastTold(c)' = LastTold(c)
    BY DEF Broadcast, LastTold, Fanout!Last
  <2>3. Rising(buf[c], LastTold(c), Len(log))
    BY DEF InOrder, Queued
  <2>4. DOMAIN log \subseteq DOMAIN log'
    BY <1>2
  <2>5. buf[c] \in Seq(DOMAIN log')
    BY <2>1, <2>4, SeqMonotonic
  <2>6. /\ Rising(buf[c], LastTold(c), Len(log) + 1)
        /\ Rising(Append(buf[c], Len(log) + 1), LastTold(c), Len(log) + 1)
    BY <1>2, <2>1, <2>3, RisingAppend
  <2>7. CASE buf'[c] = buf[c]
    <3>1. Queued(c)'
      BY <1>2, <2>2, <2>6, <2>7 DEF Queued
    <3> QED
      BY <2>1, <2>5, <2>7, <3>1
  <2>8. CASE buf'[c] = Append(buf[c], Len(log')) /\ Room(c)
    <3>1. Len(log') \in Nat /\ Len(log') \in DOMAIN log'
      BY <1>2
    <3>2. buf'[c] \in Seq(Nat) /\ buf'[c] \in Seq(DOMAIN log') /\ Len(buf'[c]) = Len(buf[c]) + 1
      BY <2>1, <2>5, <2>8, <3>1, AppendProperties
    <3>3. Len(buf'[c]) <= Capacity(c)
      BY <2>1, <2>8, <3>2 DEF Room
    <3>4. Queued(c)'
      BY <1>2, <2>2, <2>6, <2>8 DEF Queued
    <3> QED
      BY <3>2, <3>3, <3>4
  <2> QED
    BY <2>7, <2>8 DEF Broadcast
<1>4. buf' = [c \in Clients |-> buf'[c]]
  BY DEF Broadcast
<1> QED
  BY <1>2, <1>3, <1>4 DEF InOrder

\* A client takes the first message of its channel: it is new to it, and the
\* others are newer.
LEMMA TakenInOrder ==
    ASSUME Typed, InOrder, NEW c \in Clients, Taken(c), UNCHANGED <<log, since>>
    PROVE  /\ InOrder'
           /\ Head(buf[c]) \in (LastTold(c) + 1)..Len(log)
           /\ got' \in [Clients -> Seq(Nat)]
           /\ buf' \in [Clients -> Seq(Nat)]
           /\ \A d \in Clients : buf'[d] \in Seq(DOMAIN log') /\ Len(buf'[d]) <= Capacity(d)
<1>1. /\ buf[c] \in Seq(Nat) /\ got[c] \in Seq(Nat) /\ Len(buf[c]) \in Nat
      /\ buf[c] \in Seq(DOMAIN log) /\ Len(buf[c]) <= Capacity(c) /\ Capacity(c) \in Nat
      /\ Len(log) \in Nat
  BY Channel, Capacities DEF Typed, TypeOK
<1>2. buf[c] # <<>> /\ Head(buf[c]) \in Nat
  BY <1>1, HeadTailProperties DEF Taken
<1>3. /\ Tail(buf[c]) \in Seq(Nat) /\ Tail(buf[c]) \in Seq(DOMAIN log)
      /\ Len(Tail(buf[c])) = Len(buf[c]) - 1
  <2>1. Tail(buf[c]) \in Seq(Nat) /\ Len(Tail(buf[c])) = Len(buf[c]) - 1
    BY <1>1, <1>2, HeadTailProperties
  <2>2. Tail(buf[c]) \in Seq(DOMAIN log)
    BY <1>1, <1>2, HeadTailProperties
  <2> QED
    BY <2>1, <2>2
<1>4. /\ buf'[c] = Tail(buf[c]) /\ got'[c] = Append(got[c], Head(buf[c]))
      /\ buf' \in [Clients -> Seq(Nat)] /\ got' \in [Clients -> Seq(Nat)]
      /\ \A d \in Clients : d # c => buf'[d] = buf[d] /\ got'[d] = got[d]
  BY <1>1, <1>2, <1>3, LastOfAppend DEF Taken, Typed, TypeOK
<1>5. LastTold(c)' = Head(buf[c])
  <2>1. got'[c] # <<>> /\ got'[c][Len(got'[c])] = Head(buf[c])
    BY ZenonT(60), <1>1, <1>2, <1>4, LastOfAppend
  <2> QED
    BY <2>1 DEF LastTold, Fanout!Last
<1>6. Rising(buf[c], LastTold(c), Len(log))
  BY DEF InOrder, Queued
<1>7. Head(buf[c]) \in (LastTold(c) + 1)..Len(log) /\ Rising(Tail(buf[c]), Head(buf[c]), Len(log))
  BY <1>1, <1>2, <1>6, RisingTail
<1>8. Queued(c)'
  BY <1>4, <1>5, <1>7 DEF Queued
<1>9. ASSUME NEW d \in Clients, d # c PROVE Queued(d)'
  <2>1. LastTold(d)' = LastTold(d)
    BY <1>4, <1>9 DEF LastTold, Fanout!Last
  <2> QED
    BY <1>4, <1>9, <2>1 DEF InOrder, Queued
<1>10. ASSUME NEW d \in Clients PROVE buf'[d] \in Seq(DOMAIN log') /\ Len(buf'[d]) <= Capacity(d)
  <2>1. CASE d = c
    <3>1. Len(buf'[c]) <= Capacity(c)
      BY <1>1, <1>3, <1>4
    <3> QED
      BY <1>3, <1>4, <2>1, <3>1
  <2>2. CASE d # c
    BY <1>4, <2>2 DEF Typed, TypeOK
  <2> QED
    BY <2>1, <2>2
<1> QED
  BY <1>4, <1>7, <1>8, <1>9, <1>10 DEF InOrder

\* A client joins, or leaves, with an empty channel.
LEMMA JoinInOrder ==
    ASSUME Typed, InOrder, NEW c \in Clients, Join(c) \/ Leave(c)
    PROVE  InOrder' /\ Typed'
<1>1. /\ Len(log) \in Nat /\ log' = log
  BY LenProperties DEF Typed, TypeOK, Join, Leave
<1>2. /\ buf' \in [Clients -> Seq(Nat)] /\ buf'[c] = <<>> /\ DOMAIN buf'[c] = {}
      /\ \A d \in Clients : d # c => buf'[d] = buf[d] /\ got'[d] = got[d] /\ since'[d] = since[d]
  <2>1. <<>> \in Seq(Nat) /\ DOMAIN <<>> = {}
    BY EmptySeq
  <2> QED
    BY <2>1 DEF Typed, TypeOK, Join, Leave
<1>3. /\ since' \in [Clients -> Nat] /\ got' \in [Clients -> Seq(Nat)]
      /\ LastTold(c)' \in 0..Len(log)
  <2>1. CASE Join(c)
    <3>1. got'[c] = <<>> /\ since'[c] = Len(log) /\ <<>> \in Seq(Nat)
      BY <2>1, EmptySeq DEF Join, Typed, TypeOK
    <3>2. LastTold(c)' = Len(log)
      BY <3>1 DEF LastTold, Fanout!Last
    <3> QED
      BY <1>1, <2>1, <3>1, <3>2 DEF Join, Typed, TypeOK
  <2>2. CASE Leave(c)
    <3>1. LastTold(c)' = LastTold(c)
      BY <2>2 DEF Leave, LastTold, Fanout!Last
    <3> QED
      BY <2>2, <3>1 DEF Leave, Typed, TypeOK, InOrder, Queued, Rising
  <2> QED
    BY <2>1, <2>2
<1>4. ASSUME NEW d \in Clients PROVE Queued(d)'
  <2>1. CASE d = c
    BY <1>1, <1>2, <1>3, <2>1 DEF Queued, Rising
  <2>2. CASE d # c
    <3>1. LastTold(d)' = LastTold(d)
      BY <1>2, <2>2 DEF LastTold, Fanout!Last
    <3> QED
      BY <1>1, <1>2, <2>2, <3>1 DEF InOrder, Queued
  <2> QED
    BY <2>1, <2>2
<1>5. ASSUME NEW d \in Clients PROVE buf'[d] \in Seq(DOMAIN log') /\ Len(buf'[d]) <= Capacity(d)
  <2>1. CASE d = c
    <3>1. <<>> \in Seq(DOMAIN log') /\ Len(<<>>) = 0
      BY EmptySeq
    <3> QED
      BY <1>2, <2>1, <3>1, Capacities
  <2>2. CASE d # c
    BY <1>1, <1>2, <2>2 DEF Typed, TypeOK
  <2> QED
    BY <2>1, <2>2
<1>6. clients' \subseteq Clients /\ UNCHANGED <<hub, daemon>>
  BY DEF Join, Leave, Typed, TypeOK
<1> QED
  BY <1>1, <1>2, <1>3, <1>4, <1>5, <1>6 DEF InOrder, Typed, TypeOK, hub, daemon

\* A step that leaves the fan-out alone.
LEMMA ElsewhereInOrder ==
    ASSUME InOrder, UNCHANGED <<log, since, got, buf>>
    PROVE  InOrder'
BY DEF InOrder, Queued, LastTold, Fanout!Last

-----------------------------------------------------------------------------
(* Types, and the backlog *)

FanoutTyped ==
    /\ log \in Seq(Messages) /\ clients \subseteq Clients
    /\ since \in [Clients -> Nat] /\ got \in [Clients -> Seq(Nat)]
    /\ buf \in [Clients -> Seq(Nat)]
    /\ \A c \in Clients : buf[c] \in Seq(DOMAIN log) /\ Len(buf[c]) <= Capacity(c)

HubTyped ==
    /\ made \in BOOLEAN /\ watched \subseteq Files /\ events \in Seq(Files)
    /\ sender \in [Senders -> [at : {"idle", "sending", "blocked"}, msg : Messages]]

DaemonTyped == backlog \in Seq(Agents) /\ isProcessing \in BOOLEAN /\ timers \in Nat

\* The three parts.
LEMMA TypedParts == Typed <=> FanoutTyped /\ HubTyped /\ DaemonTyped
BY DEF Typed, TypeOK, FanoutTyped, HubTyped, DaemonTyped

\* A message on its way to the broadcaster.
LEMMA SendsTyped ==
    ASSUME HubTyped, NEW s \in Senders, NEW m \in Messages, Sends(s, m)
    PROVE  sender' \in [Senders -> [at : {"idle", "sending", "blocked"}, msg : Messages]]
BY DEF HubTyped, Sends

\* processBacklog takes the first file, if it may.
LEMMA ProcessKeeps ==
    ASSUME NEW pending \in Seq(Agents), isProcessing \in BOOLEAN, Process(pending)
    PROVE  /\ backlog' \in Seq(Agents) /\ isProcessing' \in BOOLEAN
           /\ backlog' # <<>> => isProcessing'
BY HeadTailProperties DEF Process

\* What is in the channel of the stream is in the log.
LEMMA StreamTaken ==
    ASSUME Typed, InOrder, StreamReceives
    PROVE  /\ Taken(Stream) /\ UNCHANGED <<log, since>>
           /\ DaemonTyped' /\ (BacklogHasRunner => BacklogHasRunner')
<1>1. CASE log[Head(buf[Stream])] \in Agents
  <2>1. Append(backlog, log[Head(buf[Stream])]) \in Seq(Agents)
    BY <1>1, AppendProperties DEF Typed, TypeOK
  <2> QED
    BY <1>1, <2>1, ProcessKeeps DEF StreamReceives, DaemonTyped, Typed, TypeOK, BacklogHasRunner
<1>2. CASE log[Head(buf[Stream])] \notin Agents
  BY <1>2 DEF StreamReceives, DaemonTyped, Typed, TypeOK, BacklogHasRunner
<1> QED
  BY <1>1, <1>2

\* Every step keeps the types, the order, and somebody for the backlog.
LEMMA WatchNext ==
    ASSUME WatchInv, [Next]_vars
    PROVE  WatchInv'
<1> USE DEF WatchInv
<1>0. FanoutTyped /\ HubTyped /\ DaemonTyped
  BY TypedParts
<1>1. ASSUME UNCHANGED fanout PROVE FanoutTyped' /\ InOrder'
  BY <1>0, <1>1, ElsewhereInOrder DEF fanout, FanoutTyped
<1>2. ASSUME UNCHANGED hub PROVE HubTyped'
  BY <1>0, <1>2 DEF hub, HubTyped
<1>3. ASSUME UNCHANGED daemon PROVE DaemonTyped' /\ BacklogHasRunner'
  BY <1>0, <1>3 DEF daemon, DaemonTyped, BacklogHasRunner
<1>4. ASSUME FanoutTyped', HubTyped', DaemonTyped', InOrder', BacklogHasRunner' PROVE WatchInv'
  BY <1>4 DEF Typed, TypeOK, FanoutTyped, HubTyped, DaemonTyped
<1>5. CASE MakeChannel
  BY <1>0, <1>1, <1>3, <1>4, <1>5 DEF MakeChannel, HubTyped
<1>6. ASSUME NEW f \in Files, Walk(f) \/ Edit(f) PROVE WatchInv'
  <2>1. HubTyped'
    BY <1>0, <1>6, AppendProperties DEF Walk, Edit, HubTyped
  <2> QED
    BY <1>1, <1>3, <1>4, <1>6, <2>1 DEF Walk, Edit
<1>7. CASE WatcherSends
  <2>1. Head(events) \in Messages /\ events' \in Seq(Files)
    BY <1>0, <1>7, HeadTailProperties DEF WatcherSends, HubTyped, Messages
  <2>2. HubTyped'
    BY <1>0, <1>7, <2>1, SendsTyped DEF WatcherSends, HubTyped, Senders
  <2> QED
    BY <1>1, <1>3, <1>4, <1>7, <2>2 DEF WatcherSends
<1>8. CASE SentinelSends
  <2>1. HubTyped'
    BY <1>0, <1>8, SendsTyped DEF SentinelSends, HubTyped, Senders, Messages
  <2> QED
    BY <1>1, <1>3, <1>4, <1>8, <2>1 DEF SentinelSends
<1>9. ASSUME NEW s \in Senders, CallerSends(s) PROVE WatchInv'
  <2>1. HubTyped'
    BY <1>0, <1>9, SendsTyped DEF CallerSends, HubTyped, Messages
  <2> QED
    BY <1>1, <1>3, <1>4, <1>9, <2>1 DEF CallerSends
<1>10. ASSUME NEW s \in Senders, Broadcast(s) PROVE WatchInv'
  <2>1. Idle \in [at : {"idle", "sending", "blocked"}, msg : Messages]
    BY DEF Idle, Messages
  <2>2. HubTyped'
    BY <1>0, <1>10, <2>1 DEF Broadcast, HubTyped
  <2>3. FanoutTyped' /\ InOrder'
    BY <1>0, <1>10, BroadcastInOrder DEF Broadcast, FanoutTyped
  <2> QED
    BY <1>3, <1>4, <1>10, <2>2, <2>3 DEF Broadcast
<1>11. ASSUME NEW c \in Clients, Join(c) \/ Leave(c) PROVE WatchInv'
  <2>1. UNCHANGED daemon
    BY <1>11 DEF Join, Leave
  <2> QED
    BY <1>3, <1>11, <2>1, JoinInOrder
<1>12. ASSUME NEW c \in Clients, PageReceives(c) PROVE WatchInv'
  <2>1. Taken(c) /\ UNCHANGED <<log, since>>
    BY <1>12 DEF PageReceives
  <2>2. FanoutTyped' /\ InOrder'
    BY <1>0, <1>12, <2>1, TakenInOrder DEF PageReceives, FanoutTyped
  <2> QED
    BY <1>2, <1>3, <1>4, <1>12, <2>2 DEF PageReceives
<1>13. CASE StreamReceives
  <2>1. FanoutTyped' /\ InOrder'
    BY <1>0, <1>13, StreamTaken, TakenInOrder DEF StreamReceives, FanoutTyped, Clients
  <2> QED
    BY <1>2, <1>4, <1>13, <2>1, StreamTaken DEF StreamReceives
<1>14. CASE Compared
  <2>1. DaemonTyped' /\ BacklogHasRunner'
    <3>1. backlog' = backlog /\ isProcessing' = FALSE /\ timers \in Nat /\ backlog \in Seq(Agents)
      BY <1>0, <1>14 DEF Compared, DaemonTyped
    <3>2. backlog = <<>> => timers' = timers
      BY <1>14 DEF Compared
    <3>3. backlog # <<>> => timers' = timers + 1
      BY <1>14 DEF Compared
    <3>4. timers' \in Nat /\ (backlog # <<>> => timers' > 0)
      BY <3>1, <3>2, <3>3
    <3> QED
      BY <3>1, <3>4 DEF DaemonTyped, BacklogHasRunner
  <2> QED
    BY <1>1, <1>2, <1>4, <1>14, <2>1 DEF Compared
<1>15. CASE Timer
  <2>1. DaemonTyped' /\ BacklogHasRunner'
    <3>1. backlog \in Seq(Agents) /\ isProcessing \in BOOLEAN /\ Process(backlog)
      BY <1>0, <1>15 DEF Timer, DaemonTyped
    <3>2. /\ backlog' \in Seq(Agents) /\ isProcessing' \in BOOLEAN
          /\ backlog' # <<>> => isProcessing'
      BY <3>1, ProcessKeeps
    <3>3. timers' \in Nat
      BY <1>0, <1>15 DEF Timer, DaemonTyped
    <3> QED
      BY <3>2, <3>3 DEF DaemonTyped, BacklogHasRunner
  <2> QED
    BY <1>1, <1>2, <1>4, <1>15, <2>1 DEF Timer
<1>16. CASE UNCHANGED vars
  BY <1>1, <1>2, <1>3, <1>4, <1>16 DEF vars
<1> QED
  BY <1>5, <1>6, <1>7, <1>8, <1>9, <1>10, <1>11, <1>12, <1>13, <1>14, <1>15, <1>16 DEF Next

\* Nobody is connected, nothing waits.
LEMMA WatchInit == Init => WatchInv
<1> SUFFICES ASSUME Init PROVE WatchInv
  OBVIOUS
<1> USE DEF Init
<1>1. \A S : <<>> \in Seq(S)
  BY EmptySeq
<1>2. Len(<<>>) = 0 /\ DOMAIN <<>> = {}
  BY EmptySeq
<1>3. HubTyped
  BY <1>1 DEF HubTyped, Idle, Messages
<1>4. DaemonTyped /\ BacklogHasRunner
  BY <1>1 DEF DaemonTyped, BacklogHasRunner
<1>5. FanoutTyped
  <2>1. \A c \in Clients : buf[c] = <<>> /\ Capacity(c) \in Nat
    BY Capacities
  <2> QED
    BY <1>1, <1>2, <2>1 DEF FanoutTyped
<1>6. ASSUME NEW c \in Clients PROVE Queued(c)
  <2>1. buf[c] = <<>> /\ LastTold(c) = 0 /\ Len(log) = 0
    BY <1>2 DEF LastTold, Fanout!Last
  <2> QED
    BY <1>2, <2>1 DEF Queued, Rising
<1> QED
  BY <1>3, <1>4, <1>5, <1>6, TypedParts DEF WatchInv, InOrder

-----------------------------------------------------------------------------
(* The theorems *)

\* The invariant holds in every reachable state.
THEOREM WatchInvariant == Spec => []WatchInv
BY WatchInit, WatchNext, PTL DEF Spec

\* The types of the hub, its clients and the daemon.
THEOREM WatchTypeCorrect == Spec => []TypeOK
<1>1. WatchInv => TypeOK
  BY DEF WatchInv, Typed
<1> QED
  BY <1>1, WatchInvariant, PTL

\* Whatever waits in the backlog will be come back for.
THEOREM BacklogIsRun == Spec => []BacklogHasRunner
<1>1. WatchInv => BacklogHasRunner
  BY DEF WatchInv
<1> QED
  BY <1>1, WatchInvariant, PTL

\* Each step is one of the lossy fan-out, or does not concern it.
LEMMA StepIsFanout ==
    ASSUME WatchInv, [Next]_vars
    PROVE  [Fanout!Next]_(Fanout!vars)
<1> USE DEF WatchInv
<1>1. ASSUME NEW s \in Senders, Broadcast(s) PROVE Fanout!Next
  <2>1. sender[s].msg \in Messages
    BY DEF Typed, TypeOK
  <2>2. Fanout!Publish
    BY <1>1, <2>1 DEF Broadcast, Fanout!Publish
  <2> QED
    BY <2>2 DEF Fanout!Next
<1>2. ASSUME NEW c \in Clients, Join(c) PROVE Fanout!Next
  BY <1>2 DEF Join, Fanout!Next, Fanout!Join
<1>3. ASSUME NEW c \in Clients, Taken(c), UNCHANGED <<log, since>> PROVE Fanout!Next
  <2>1. Head(buf[c]) \in (Fanout!Last(c) + 1)..Len(log)
    BY <1>3, TakenInOrder DEF LastTold
  <2>2. got' = [got EXCEPT ![c] = Append(@, Head(buf[c]))]
    BY <1>3 DEF Taken
  <2>3. Fanout!Receive(c)
    BY <1>3, <2>1, <2>2 DEF Fanout!Receive
  <2> QED
    BY <2>3 DEF Fanout!Next
<1>4. CASE StreamReceives
  BY <1>3, <1>4 DEF StreamReceives, Clients
<1>5. ASSUME NEW c \in Clients, PageReceives(c) PROVE Fanout!Next
  BY <1>3, <1>5 DEF PageReceives
<1>6. CASE UNCHANGED <<log, since, got>>
  BY <1>6 DEF Fanout!vars
<1>7. ASSUME MakeChannel \/ WatcherSends \/ SentinelSends \/ Compared \/ Timer \/ UNCHANGED vars
      PROVE  UNCHANGED <<log, since, got>>
  BY <1>7 DEF MakeChannel, WatcherSends, SentinelSends, Compared, Timer, vars, fanout
<1>8. ASSUME NEW f \in Files, Walk(f) \/ Edit(f) PROVE UNCHANGED <<log, since, got>>
  BY <1>8 DEF Walk, Edit, fanout
<1>9. ASSUME NEW s \in Senders, CallerSends(s) PROVE UNCHANGED <<log, since, got>>
  BY <1>9 DEF CallerSends, fanout
<1>10. ASSUME NEW c \in Clients, Leave(c) PROVE UNCHANGED <<log, since, got>>
  BY <1>10 DEF Leave
<1> QED
  BY <1>1, <1>2, <1>4, <1>5, <1>6, <1>7, <1>8, <1>9, <1>10 DEF Next

\* The broadcaster and its clients implement the lossy fan-out.
THEOREM FanoutImplemented == Spec => ImplementsLossyFanout
<1>1. Init => Fanout!Init
  BY DEF Init, Fanout!Init
<1>2. WatchInv /\ [Next]_vars => [Fanout!Next]_(Fanout!vars)
  BY StepIsFanout
<1>3. Spec => Fanout!Init /\ [][Fanout!Next]_(Fanout!vars)
  BY <1>1, <1>2, WatchInvariant, PTL DEF Spec
<1> QED
  BY <1>3 DEF ImplementsLossyFanout, Fanout!Spec

=============================================================================
