---------------------------- MODULE ToolProcesses ----------------------------
(***************************************************************************)
(* The processes the tools of an agent start: a command per call of        *)
(* shell.exec (psa/plugins/core/shell_plugin.ts) and shells that stay open *)
(* between calls (terminal_pty_plugin.ts).  Node's events interleave with  *)
(* what the processes do; a command may leave a background job behind,     *)
(* which holds the pipes it inherited.                                     *)
(***************************************************************************)
EXTENDS Naturals, Sequences

CONSTANTS
  Commands,    \* the processes of calls of shell.exec
  Shells,      \* the processes of calls of terminal.create
  Terminals,   \* names of terminal sessions
  Cap,         \* characters of a stream shell.exec keeps (50000 and 20000)
  MaxOutput    \* bound: characters written by each of them

ASSUME ToolAssumption ==
  /\ Commands \cap Shells = {} /\ "none" \notin Shells
  /\ Cap \in Nat
  /\ MaxOutput \in [Commands \cup Shells -> Nat]

VARIABLES
  proc,        \* "none" before it is spawned, "running", "ended"
  status,      \* how it ended: "zero", "other", "signal"
  background,  \* processes whose background job is alive
  wrote,       \* per stream, the characters written so far
  taken,       \* and those the reader has taken from the pipe
  limit, kill, \* shell calls whose time limit, and whose SIGKILL, is to come
  timedOut,    \* shell calls whose time limit has passed
  kept,        \* stdoutBuffer and stderrBuffer: numbers of characters, "cut" at the end
  result,      \* exitCode of an answered call: "none" while it waits
  session,     \* the terminals: the process of each, "none" without one
  isAlive,     \* terminal processes not seen to have exited
  unread,      \* characters of outputBuffer no read has cleared
  signalled    \* processes terminal.kill has signalled

process == <<proc, status, background, wrote>>
shell == <<limit, kill, timedOut, kept, result>>
terminal == <<session, isAlive, unread, signalled>>
toolVars == <<process, taken, shell, terminal>>

Pipes == {"stdout", "stderr"}
Procs == Commands \cup Shells
Waiting(p) == proc[p] # "none" /\ result[p] = "none"

ToolInit ==
  /\ proc = [p \in Procs |-> "none"] /\ status = proc /\ background = {}
  /\ wrote = [p \in Procs |-> [s \in Pipes |-> 0]] /\ taken = wrote
  /\ limit = {} /\ kill = {} /\ timedOut = {}
  /\ kept = [p \in Commands |-> [s \in Pipes |-> << >>]]
  /\ result = [p \in Commands |-> "none"]
  /\ session = [i \in Terminals |-> "none"]
  /\ isAlive = {} /\ unread = [p \in Shells |-> 0] /\ signalled = {}

-----------------------------------------------------------------------------
(* What processes do. *)

Spawn(p) ==
  /\ proc[p] = "none"
  /\ proc' = [proc EXCEPT ![p] = "running"]
  /\ UNCHANGED <<status, background, wrote, taken>>

End(p, how) ==
  /\ proc' = [proc EXCEPT ![p] = "ended"]
  /\ status' = [status EXCEPT ![p] = how]

Output(p, s) ==
  /\ wrote[p]["stdout"] + wrote[p]["stderr"] < MaxOutput[p]
  /\ wrote' = [wrote EXCEPT ![p][s] = @ + 1]
  /\ UNCHANGED <<proc, status, background, taken, shell, terminal>>

WriteChar(p, s) == (proc[p] = "running" \/ p \in background) /\ Output(p, s)

LeaveJob(p) ==
  /\ proc[p] = "running"
  /\ background' = background \cup {p}
  /\ UNCHANGED <<proc, status, wrote, taken, shell, terminal>>

JobEnds(p) ==
  /\ p \in background
  /\ background' = background \ {p}
  /\ UNCHANGED <<proc, status, wrote, taken, shell, terminal>>

\* It exits, or somebody else kills it.
ProcessEnds(p, how) ==
  /\ proc[p] = "running"
  /\ End(p, how)
  /\ UNCHANGED <<background, wrote, taken, shell, terminal>>

\* SIGTERM: the process ends by it, in its own way, or ignores it.
Terminate(p) ==
  \/ \E how \in {"zero", "other", "signal"} : proc[p] = "running" /\ End(p, how)
  \/ UNCHANGED <<proc, status>>

-----------------------------------------------------------------------------
(* shell.exec *)

ShellExec(p) ==
  /\ Spawn(p) /\ result[p] = "none"
  /\ limit' = limit \cup {p}
  /\ UNCHANGED <<kill, timedOut, kept, result, terminal>>

\* spawn throws, or its error event comes instead of a process.
SpawnFails(p) ==
  /\ proc[p] = "none" /\ result[p] = "none"
  /\ result' = [result EXCEPT ![p] = "-1"]
  /\ UNCHANGED <<process, taken, limit, kill, timedOut, kept, terminal>>

\* Faulty: what does not fit is dropped before it is appended.
KeepWhatFits(buffer, char) ==
  IF Len(buffer) >= Cap THEN buffer ELSE Append(buffer, char)

\* A buffer above the limit is cut back to it and marked, each time.
Keep(buffer, char) ==
  LET longer == Append(buffer, char)
  IN  IF Len(longer) > Cap THEN Append(SubSeq(longer, 1, Cap), "cut") ELSE longer

ShellData(p, s) ==
  /\ taken[p][s] < wrote[p][s]
  /\ taken' = [taken EXCEPT ![p][s] = @ + 1]
  /\ kept' = [kept EXCEPT ![p][s] = Keep(@, taken'[p][s])]
  /\ UNCHANGED <<process, limit, kill, timedOut, result, terminal>>

\* Faulty: SIGTERM is all a command gets.
TermOnly(p) ==
  /\ p \in limit
  /\ limit' = limit \ {p} /\ timedOut' = timedOut \cup {p}
  /\ Terminate(p)
  /\ UNCHANGED <<background, wrote, taken, kill, kept, result, terminal>>

\* The time limit: SIGTERM now, SIGKILL in a second.
LimitFires(p) ==
  /\ p \in limit
  /\ limit' = limit \ {p} /\ timedOut' = timedOut \cup {p}
  /\ Terminate(p)
  /\ kill' = kill \cup {p}
  /\ UNCHANGED <<background, wrote, taken, kept, result, terminal>>

KillFires(p) ==
  /\ p \in kill
  /\ kill' = kill \ {p}
  /\ \/ proc[p] = "running" /\ End(p, "signal")
     \/ proc[p] # "running" /\ UNCHANGED <<proc, status>>
  /\ UNCHANGED <<background, wrote, taken, limit, timedOut, kept, result, terminal>>

Drained(p) == proc[p] = "ended" /\ p \notin background /\ taken[p] = wrote[p]

\* code ?? (timedOut ? -2 : 0): a process ended by a signal has no code.
ExitCode(p) ==
  CASE status[p] # "signal" -> status[p]
    [] p \in timedOut -> "-2"
    [] OTHER -> "zero"

\* The close event comes when the process has ended and nobody holds its pipes.
Close(p) ==
  /\ Waiting(p) /\ Drained(p)
  /\ limit' = limit \ {p}
  /\ result' = [result EXCEPT ![p] = ExitCode(p)]
  /\ UNCHANGED <<process, taken, kill, timedOut, kept, terminal>>

-----------------------------------------------------------------------------
(* terminal.create, terminal.send, terminal.read, terminal.kill *)

\* Faulty: a name in use is given to the new terminal.
CreateAnyway(i, p) ==
  /\ Spawn(p)
  /\ session' = [session EXCEPT ![i] = p]
  /\ isAlive' = isAlive \cup {p}
  /\ UNCHANGED <<unread, signalled, shell>>

Create(i, p) ==
  /\ session[i] = "none"
  /\ Spawn(p)
  /\ session' = [session EXCEPT ![i] = p]
  /\ isAlive' = isAlive \cup {p}
  /\ UNCHANGED <<unread, signalled, shell>>

\* The line goes to the stdin of a shell, which echoes something: one that has
\* exited unseen fails the call.
Send(i, s) ==
  LET p == session[i]
  IN  p # "none" /\ p \in isAlive /\ proc[p] = "running" /\ Output(p, s)

\* The background readers, which go on after the session is gone.
TerminalData(p, s) ==
  /\ taken[p][s] < wrote[p][s]
  /\ taken' = [taken EXCEPT ![p][s] = @ + 1]
  /\ unread' = [unread EXCEPT ![p] = @ + 1]
  /\ UNCHANGED <<process, shell, session, isAlive, signalled>>

\* proc.exited resolves at any time after the end, before or after the last data.
ExitSeen(p) ==
  /\ p \in isAlive /\ proc[p] = "ended"
  /\ isAlive' = isAlive \ {p}
  /\ UNCHANGED <<process, taken, shell, session, unread, signalled>>

\* A read that keeps the buffer changes nothing.
ReadTerminal(i) ==
  /\ session[i] # "none"
  /\ unread' = [unread EXCEPT ![session[i]] = 0]
  /\ UNCHANGED <<process, taken, shell, session, isAlive, signalled>>

KillTerminal(i) ==
  LET p == session[i]
  IN  /\ p # "none"
      /\ Terminate(p)
      /\ isAlive' = isAlive \ {p} /\ signalled' = signalled \cup {p}
      /\ session' = [session EXCEPT ![i] = "none"]
      /\ UNCHANGED <<background, wrote, taken, shell, unread>>

Live(p) ==
  \/ \E s \in Pipes : WriteChar(p, s)
  \/ \E how \in {"zero", "other", "signal"} : ProcessEnds(p, how)
  \/ LeaveJob(p) \/ JobEnds(p)

CommandNext == \E p \in Commands :
  \/ Live(p)
  \/ \E s \in Pipes : ShellData(p, s)
  \/ ShellExec(p) \/ SpawnFails(p) \/ LimitFires(p) \/ KillFires(p) \/ Close(p)

TerminalNext ==
  \/ \E p \in Shells :
       \/ Live(p) \/ ExitSeen(p)
       \/ \E s \in Pipes : TerminalData(p, s)
       \/ \E i \in Terminals : Create(i, p)
  \/ \E i \in Terminals : ReadTerminal(i) \/ KillTerminal(i) \/ \E s \in Pipes : Send(i, s)

ToolSpec == ToolInit /\ [][CommandNext \/ TerminalNext]_toolVars

-----------------------------------------------------------------------------
\* A call of shell.exec that has no answer yet will get one: a timer is running,
\* or its process has ended and only a background job can keep the pipes open.
AnswerIsDue == \A p \in Commands : Waiting(p) => p \in limit \cup kill \/ proc[p] = "ended"

\* The answer has the first characters of each stream, and says so when there were
\* more; it says 0 only if the command did, unless a signal that was not the tool's
\* ended it.
ResultIsTrue ==
  \A p \in Commands : result[p] \in {"zero", "other", "-2"} =>
    /\ \A s \in Pipes :
         kept[p][s] = IF wrote[p][s] <= Cap THEN [k \in 1..wrote[p][s] |-> k]
                      ELSE [k \in 1..(Cap + 1) |-> IF k <= Cap THEN k ELSE "cut"]
    /\ result[p] = "zero" => status[p] = "zero" \/ (status[p] = "signal" /\ p \notin timedOut)
    /\ result[p] = "-2" => p \in timedOut

\* A terminal's shell that runs is under a name of the session map, unless
\* terminal.kill has signalled it: none is left that no call can reach.
TerminalsReachable ==
  \A p \in Shells : proc[p] = "running" =>
    p \in signalled \/ \E i \in Terminals : session[i] = p

\* No process that a tool started is forgotten while it runs: a command has a timer,
\* a terminal's shell a name or a signal.
NothingForgotten == AnswerIsDue /\ TerminalsReachable

\* "Lê e limpa o buffer de saída acumulado": a reader who is told that the shell is
\* gone has seen all it wrote.
DeadMeansDone ==
  \A i \in Terminals : session[i] # "none" =>
    LET p == session[i] IN p \notin isAlive => taken[p] = wrote[p]

\* A tool that starts a process neither forgets it nor misreports it.
ToolsAnswerTruly == NothingForgotten /\ ResultIsTrue
=============================================================================
