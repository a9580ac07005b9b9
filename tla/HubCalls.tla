------------------------------ MODULE HubCalls ------------------------------
(***************************************************************************)
(* What happens to a call of HubManagerGRPC on its way through the Go hub  *)
(* and the Rust sidecar, and back to the circuit breaker:                  *)
(*   - src_local/core/hub_manager_grpc.ts, the methods of the client;      *)
(*   - src_native/hub/main.go, the handlers, runRust and withRetry;        *)
(*   - src_native/analyzer/src/server.rs, the sidecar's handlers and the   *)
(*     read-write lock of its one brain.                                   *)
(*                                                                         *)
(* A method is what decides its path; what it computes is left out.        *)
(***************************************************************************)
EXTENDS CircuitBreaker, Sequences, SequencesExt

\* Answered from the hub's memory and database.
HubOnly == {"GetStatus", "EnqueueTask", "GetPendingTasks", "UpdateTask", "GetRules",
            "Remember", "BroadcastSignal", "RequestPeerReview"}

\* Handed to the sidecar as they are, once; without it most go to the command line.
Direct == {"ScanProject", "AnalyzeFile", "GetDependencies", "Deduplicate", "Fingerprint",
           "GetConnectivity", "Audit", "Batch", "Reason", "Patterns", "Penalty",
           "CalculateScore", "AuditCoverage", "ExecuteHealing", "Embed"}
NoFallback == {"ScanProject", "Embed"}

\* Always through runRust: up to MaxTries attempts within 30 s.
Retried == {"DiscoverIdentity", "IndexProject", "ScanTopology", "GetContext",
            "GetKnowledgeGraph", "QueryKnowledgeGraph"}

\* Methods the hub answers even if the sidecar fails them.
Degrading == {"AnalyzeCode", "Retrieve", "AnalyzeStream"}

\* Streams do not go through _call: the breaker neither stops nor counts them.
Streamed == {"AnalyzeStream", "Retrieve"}

\* In the sidecar: methods that write-lock the brain for a whole inference, and
\* methods that read-lock it.  The others do not touch it.
Thinkers == {"Reason", "ExecuteHealing"}
Readers == {"GetContext", "GetKnowledgeGraph", "QueryKnowledgeGraph", "Embed", "Retrieve"}

\* Methods whose fallback wrote a temporary file for the command line: if runRust
\* finds the sidecar after all, it has no such command or takes the file's name
\* for the request.
LateLinkFails == {"Deduplicate", "GetConnectivity", "Audit", "Batch", "Reason", "Patterns",
                  "Penalty", "CalculateScore", "AuditCoverage"}

\* Methods that may be refused for what they ask: a persona or a row that is not
\* there (by the hub), a file or a directory that is not there (by the sidecar).
HubMayReject == (HubOnly \ {"GetStatus", "BroadcastSignal", "RequestPeerReview"})
                  \cup {"AnalyzeCode", "Retrieve"}
SidecarMayReject == {"ScanProject", "AnalyzeFile", "GetDependencies", "Fingerprint", "AnalyzeStream"}

AllMethods == HubOnly \cup Direct \cup Retried \cup Degrading

CONSTANTS
  Methods,      \* bound: the methods that are called
  MaxTries      \* maxRetries

ASSUME HubAssumption ==
  /\ Methods \subseteq AllMethods
  /\ MaxTries \in Nat \ {0}
  /\ {"nobody", "abandoned"} \cap Callers = {}

VARIABLES
  method,      \* method[c]: what c has called
  at,          \* at[c]: how far its call has come
  tries,       \* tries[c]: attempts withRetry has begun, 0 outside of runRust
  linked,      \* h.rustClient # nil
  sidecar,     \* the Rust process is up
  queue,       \* who waits for the brain's lock, first come first served
  thinking     \* whose inference holds the lock for writing

calls == <<method, at, tries>>
side == <<linked, sidecar, queue, thinking>>
hubVars == <<vars, calls, side>>

Nobody == "nobody"
Abandoned == "abandoned"    \* the caller has left, the inference goes on

InSidecar == {"calling", "queued", "thinking"}
Places == InSidecar \cup {"idle", "handler", "fallback", "cli", "waiting", "broken", "failing"}

HubTypeOK ==
  /\ TypeOK
  /\ method \in [Callers -> Methods \cup {Nobody}]
  /\ at \in [Callers -> Places]
  /\ tries \in [Callers -> 0..MaxTries]
  /\ linked \in BOOLEAN /\ sidecar \in BOOLEAN
  /\ queue \in Seq(Callers)
  /\ thinking \in Callers \cup {Nobody, Abandoned}

HubInit ==
  /\ Init
  /\ method = [c \in Callers |-> Nobody]
  /\ at = [c \in Callers |-> "idle"]
  /\ tries = [c \in Callers |-> 0]
  /\ linked = FALSE /\ sidecar = TRUE
  /\ queue = <<>> /\ thinking = Nobody

Move(c, from, to) ==
  /\ at[c] \in from
  /\ at' = [at EXCEPT ![c] = to]

-----------------------------------------------------------------------------
(* How a call starts and ends. *)

\* A call through _call; a hub that is away fails it.
Ask(c, m) ==
  /\ m \in Methods \ Streamed
  /\ Begin(c)
  /\ Move(c, {"idle"}, IF serving THEN "handler" ELSE "failing")
  /\ method' = [method EXCEPT ![c] = m]
  /\ UNCHANGED <<tries, side>>

\* A stream is opened beside the breaker.
Open(c, m) ==
  /\ m \in Methods \cap Streamed
  /\ Move(c, {"idle"}, IF serving THEN "handler" ELSE "failing")
  /\ method' = [method EXCEPT ![c] = m]
  /\ UNCHANGED <<vars, tries, side>>

Leave(c) ==
  /\ method' = [method EXCEPT ![c] = Nobody]
  /\ tries' = [tries EXCEPT ![c] = 0]
  /\ at' = [at EXCEPT ![c] = "idle"]

\* The hub answers; the breaker hears of it unless it is a stream.
Answered(c) ==
  /\ Leave(c)
  /\ IF method[c] \in Streamed THEN UNCHANGED vars ELSE Succeed(c)

\* The hub will answer with an error.
Failing(c) ==
  /\ at' = [at EXCEPT ![c] = "failing"]
  /\ IF method[c] \in Streamed THEN UNCHANGED vars ELSE Disturb(c)
  /\ UNCHANGED <<method, tries>>

\* The error reaches the client: null, an empty list or what a stream sent so far.
Fails(c) ==
  /\ at[c] = "failing"
  /\ Leave(c)
  /\ IF method[c] \in Streamed THEN UNCHANGED vars ELSE Fail(c)
  /\ UNCHANGED side

\* The sidecar failed the call for good.
GiveUp(c) == IF method[c] \in Degrading THEN Answered(c) ELSE Failing(c)

-----------------------------------------------------------------------------
(* The handlers of the Go hub. *)

\* A handler that needs no sidecar, or does without: an unconfigured stack, an
\* empty query.
OwnAnswer(c) ==
  /\ at[c] = "handler"
  /\ method[c] \in HubOnly \cup (Degrading \ {"AnalyzeStream"})
  /\ Answered(c)
  /\ UNCHANGED side

Reject(c) ==
  /\ at[c] = "handler"
  /\ \/ method[c] \in HubMayReject
     \/ method[c] \in NoFallback /\ ~linked
  /\ Failing(c)
  /\ UNCHANGED side

ThroughRunRust(c) == method[c] \in Retried \cup {"AnalyzeStream"} \/ at[c] = "fallback"

\* The request goes to the sidecar, by runRust with its retries or without.
Delegate(c) ==
  /\ linked
  /\ method[c] \notin HubOnly
  /\ ~(at[c] = "fallback" /\ method[c] \in LateLinkFails)
  /\ Move(c, {"handler", "fallback"}, "calling")
  /\ tries' = [tries EXCEPT ![c] = IF ThroughRunRust(c) THEN 1 ELSE 0]
  /\ UNCHANGED <<vars, method, side>>

\* The handler found no sidecar and prepares for the command line; runRust will
\* look again.
FallBack(c) ==
  /\ ~linked
  /\ method[c] \in Direct \ NoFallback
  /\ Move(c, {"handler"}, "fallback")
  /\ UNCHANGED <<vars, method, tries, side>>

\* runRust finds a sidecar its caller had not: its request was not made for it.
LinkedTooLate(c) ==
  /\ linked
  /\ at[c] = "fallback" /\ method[c] \in LateLinkFails
  /\ Failing(c)
  /\ UNCHANGED side

\* No sidecar, or a language only the command line scans.
CommandLine(c) ==
  /\ \/ at[c] = "fallback" /\ ~linked
     \/ at[c] = "handler" /\ method[c] \in Retried \cup {"AnalyzeFile"} /\ ~linked
     \/ at[c] = "handler" /\ method[c] = "AnalyzeStream"
  /\ Move(c, {"handler", "fallback"}, "cli")
  /\ UNCHANGED <<vars, method, tries, side>>

CommandEnds(c) ==
  /\ at[c] = "cli"
  /\ Answered(c) \/ GiveUp(c)
  /\ UNCHANGED side

-----------------------------------------------------------------------------
(* The handlers of the sidecar. *)

\* A handler that does not touch the brain.
Execute(c) ==
  /\ sidecar
  /\ at[c] = "calling" /\ method[c] \notin Readers \cup Thinkers
  /\ Answered(c)
  /\ UNCHANGED side

\* The brain's lock is asked for.
Enqueue(c) ==
  /\ sidecar
  /\ method[c] \in Readers \cup Thinkers
  /\ Move(c, {"calling"}, "queued")
  /\ queue' = Append(queue, c)
  /\ UNCHANGED <<vars, method, tries, linked, sidecar, thinking>>

Granted(c) ==
  /\ queue # <<>> /\ Head(queue) = c
  /\ thinking = Nobody
  /\ queue' = Tail(queue)

\* A reader's turn: it reads and answers; the brain may have no embedding for a text.
Read(c) ==
  /\ Granted(c)
  /\ method[c] \in Readers
  /\ Answered(c) \/ (method[c] \in {"Embed", "Retrieve"} /\ GiveUp(c))
  /\ UNCHANGED <<linked, sidecar, thinking>>

\* A thinker's turn: the lock is held until the inference ends.
Think(c) ==
  /\ Granted(c)
  /\ method[c] \in Thinkers
  /\ Move(c, {"queued"}, "thinking")
  /\ thinking' = c
  /\ UNCHANGED <<vars, method, tries, linked, sidecar>>

ThinkEnds ==
  /\ thinking # Nobody
  /\ thinking' = Nobody
  /\ IF thinking = Abandoned THEN UNCHANGED <<vars, calls>> ELSE Answered(thinking)
  /\ UNCHANGED <<linked, sidecar, queue>>

-----------------------------------------------------------------------------
(* The sidecar fails a call, or does not answer in time. *)

Unreachable(c) ==
  /\ ~sidecar
  /\ Move(c, {"calling"}, "broken")
  /\ UNCHANGED <<vars, method, tries, side>>

\* An attempt failed: withRetry sleeps before the next one, if there is one.
TryFails(c) ==
  /\ at[c] = "broken" \/ (sidecar /\ at[c] = "calling" /\ method[c] \in SidecarMayReject)
  /\ IF tries[c] \in 1..(MaxTries - 1)
     THEN /\ Move(c, Places, "waiting")
          /\ UNCHANGED <<vars, method, tries>>
     ELSE GiveUp(c)
  /\ UNCHANGED side

Again(c) ==
  /\ Move(c, {"waiting"}, "calling")
  /\ tries' = [tries EXCEPT ![c] = @ + 1]
  /\ UNCHANGED <<vars, method, side>>

\* A call the hub no longer waits for: out of the queue, and if its inference
\* runs it goes on, the lock held for nobody.
Forget(c) ==
  /\ queue' = IF \E i \in DOMAIN queue : queue[i] = c
              THEN RemoveAt(queue, CHOOSE i \in DOMAIN queue : queue[i] = c)
              ELSE queue
  /\ thinking' = IF thinking = c THEN Abandoned ELSE thinking

\* Faulty variant: a call that has reached the brain's queue is not cancelled.
DeadlineBeforeTheLock(c) ==
  /\ tries[c] > 0 \/ method[c] = "Reason"
  /\ at[c] \in {"calling", "waiting"}
  /\ GiveUp(c)
  /\ Forget(c)
  /\ UNCHANGED <<linked, sidecar>>

\* Faulty variant: the cancelled call keeps its place in the queue.
DeadlineLeavingPlace(c) ==
  /\ tries[c] > 0 \/ method[c] = "Reason"
  /\ at[c] \in InSidecar \cup {"waiting"}
  /\ GiveUp(c)
  /\ thinking' = IF thinking = c THEN Abandoned ELSE thinking
  /\ UNCHANGED <<linked, sidecar, queue>>

\* runRust's 30 s, which all its attempts share, or Reason's 60 s are over.  The
\* other calls have no deadline.
Deadline(c) ==
  /\ tries[c] > 0 \/ method[c] = "Reason"
  /\ at[c] \in InSidecar \cup {"waiting"}
  /\ GiveUp(c)
  /\ Forget(c)
  /\ UNCHANGED <<linked, sidecar>>

-----------------------------------------------------------------------------
(* The two processes, and the clock of the breaker. *)

\* What is in the sidecar is lost with it, the lock included.
SidecarDown ==
  /\ sidecar /\ sidecar' = FALSE
  /\ at' = [c \in Callers |-> IF at[c] \in InSidecar THEN "broken" ELSE at[c]]
  /\ queue' = <<>> /\ thinking' = Nobody
  /\ UNCHANGED <<vars, method, tries, linked>>

SidecarUp ==
  /\ ~sidecar /\ sidecar' = TRUE
  /\ UNCHANGED <<vars, calls, linked, queue, thinking>>

\* Every call in the hub fails; an inference in the sidecar goes on.
HubDies ==
  /\ HubDown
  /\ at' = [c \in Callers |-> IF at[c] = "idle" THEN "idle" ELSE "failing"]
  /\ queue' = <<>>
  /\ thinking' = IF thinking \in Callers THEN Abandoned ELSE thinking
  /\ linked' = FALSE
  /\ UNCHANGED <<method, tries, sidecar>>

HubStarts ==
  /\ HubUp
  /\ UNCHANGED <<calls, side>>

\* The goroutine of run sets h.rustClient; the dial does not wait for the sidecar.
Link ==
  /\ serving /\ ~linked /\ linked' = TRUE
  /\ UNCHANGED <<vars, calls, sidecar, queue, thinking>>

Cool ==
  /\ CoolDown
  /\ UNCHANGED <<calls, side>>

HubStep(c) ==
  \/ OwnAnswer(c) \/ Reject(c) \/ Delegate(c) \/ FallBack(c)
  \/ LinkedTooLate(c) \/ CommandLine(c) \/ Fails(c)

SidecarStep(c) ==
  \/ Execute(c) \/ Enqueue(c) \/ Read(c) \/ Think(c)
  \/ Unreachable(c) \/ TryFails(c) \/ Again(c) \/ Deadline(c)

HubNext ==
  \/ \E c \in Callers :
       \/ \E m \in Methods : Ask(c, m) \/ Open(c, m)
       \/ HubStep(c) \/ SidecarStep(c) \/ CommandEnds(c)
  \/ ThinkEnds \/ SidecarDown \/ SidecarUp \/ HubDies \/ HubStarts \/ Link \/ Cool

\* The hub, the sidecar and the clock keep going, callers keep calling, and a
\* command line ends unless it is an inference.  Nothing makes an inference end,
\* a process come back or a method without deadline return.
Fairness ==
  /\ WF_hubVars(Cool)
  /\ \A c \in Callers :
       /\ SF_hubVars(\E m \in Methods : Ask(c, m))
       /\ WF_hubVars(HubStep(c))
       /\ WF_hubVars(Execute(c) \/ Enqueue(c) \/ Unreachable(c) \/ TryFails(c) \/ Again(c))
       /\ WF_hubVars(Read(c))
       /\ WF_hubVars(Deadline(c))
       /\ WF_hubVars(CommandEnds(c) /\ method[c] \notin Thinkers)

HubSpec == HubInit /\ [][HubNext]_hubVars /\ Fairness

-----------------------------------------------------------------------------
(* Properties. *)

\* The lock is only ever waited for, and held, by calls the hub still waits for
\* or by an inference nobody waits for any more: a cancelled call that kept its
\* place would be granted a lock nobody gives back.
LockHasLiveOwners ==
  /\ \A c \in Callers :
       /\ at[c] = "thinking" <=> thinking = c
       /\ at[c] = "queued" <=> \E i \in DOMAIN queue : queue[i] = c
  /\ \A i, j \in DOMAIN queue : queue[i] = queue[j] => i = j

\* The hub's own methods and those with a deadline end even if an inference never
\* does: 30 s bound all attempts, the wait for the brain included.
BoundedCallsEnd ==
  \A c \in Callers :
    at[c] # "idle" /\ method[c] \in HubOnly \cup Retried ~> at[c] = "idle"

\* Once the hub stays up and no call fails any more, the circuit closes for good,
\* if only the calls come back.
CircuitCloses ==
  /\ <>[]serving
  /\ <>[][\A c \in Callers : ~Disturb(c)]_hubVars
  /\ \A c \in Callers : []<>(call[c] = "idle")
  => <>[](circuitStatus = "CLOSED")
=============================================================================
