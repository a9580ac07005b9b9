--------------------------- MODULE CircuitBreaker ---------------------------
(***************************************************************************)
(* The circuit breaker every gRPC call to the Go hub goes through:         *)
(* HubManagerGRPC._call in src_local/core/hub_manager_grpc.ts.             *)
(*                                                                         *)
(* Callers share one HubManagerGRPC (getInstance); their calls interleave  *)
(* at the await of the operation.  The clock is left out but for the one   *)
(* comparison the code makes: whether COOLDOWN_MS has elapsed since        *)
(* lastFailureTime.                                                        *)
(***************************************************************************)
EXTENDS Integers

CONSTANTS
  Callers,
  FAILURE_THRESHOLD,
  MaxFailures       \* bound: failureCount is counted up to here

ASSUME BreakerAssumption ==
  /\ FAILURE_THRESHOLD \in Nat \ {0}
  /\ MaxFailures \in Nat /\ MaxFailures >= FAILURE_THRESHOLD

VARIABLES
  circuitStatus,
  failureCount,
  cooledDown,     \* Date.now() - lastFailureTime > COOLDOWN_MS
  call,           \* call[c]: "idle", "sent", or "doomed" (it may still fail)
  serving         \* the hub answers what it is sent (environment)

breaker == <<circuitStatus, failureCount, cooledDown>>
vars == <<breaker, call, serving>>

TypeOK ==
  /\ circuitStatus \in {"CLOSED", "OPEN", "HALF_OPEN"}
  /\ failureCount \in Nat
  /\ cooledDown \in BOOLEAN
  /\ call \in [Callers -> {"idle", "sent", "doomed"}]
  /\ serving \in BOOLEAN

\* lastFailureTime starts at 0.
Init ==
  /\ circuitStatus = "CLOSED"
  /\ failureCount = 0
  /\ cooledDown = TRUE
  /\ call = [c \in Callers |-> "idle"]
  /\ serving = TRUE

-----------------------------------------------------------------------------
(* _call. *)

\* A call made now is answered null at once, and changes nothing.
Refused == circuitStatus = "OPEN" /\ ~cooledDown

Send(c) == call' = [call EXCEPT ![c] = IF serving THEN "sent" ELSE "doomed"]

\* Faulty variant: the cooldown is not consulted.
BeginWithoutCooldown(c) ==
  /\ call[c] = "idle"
  /\ Send(c)
  /\ circuitStatus' = IF circuitStatus = "OPEN" THEN "HALF_OPEN" ELSE circuitStatus
  /\ UNCHANGED <<failureCount, cooledDown, serving>>

\* Faulty variant: an open circuit sends its probe without becoming half-open.
BeginStayingOpen(c) ==
  /\ call[c] = "idle"
  /\ circuitStatus # "OPEN"
  /\ Send(c)
  /\ UNCHANGED <<breaker, serving>>

\* The operation is sent; an open circuit that has cooled down becomes half-open.
Begin(c) ==
  /\ call[c] = "idle"
  /\ ~Refused
  /\ Send(c)
  /\ circuitStatus' = IF circuitStatus = "OPEN" THEN "HALF_OPEN" ELSE circuitStatus
  /\ UNCHANGED <<failureCount, cooledDown, serving>>

\* The operation resolved; any status but CLOSED is reset, count included.
Succeed(c) ==
  /\ call[c] # "idle"
  /\ call' = [call EXCEPT ![c] = "idle"]
  /\ circuitStatus' = "CLOSED"
  /\ failureCount' = IF circuitStatus = "CLOSED" THEN failureCount ELSE 0
  /\ UNCHANGED <<cooledDown, serving>>

\* Faulty variant: the threshold is taken for the failures before this one's.
FailAtOneLess(c) ==
  /\ call[c] = "doomed"
  /\ call' = [call EXCEPT ![c] = "idle"]
  /\ failureCount' = IF failureCount < MaxFailures THEN failureCount + 1 ELSE failureCount
  /\ cooledDown' = FALSE
  /\ circuitStatus' = IF failureCount' + 1 >= FAILURE_THRESHOLD THEN "OPEN" ELSE circuitStatus
  /\ UNCHANGED serving

\* The operation rejected; the call answers null.  Beyond the threshold nothing
\* depends on the count.
Fail(c) ==
  /\ call[c] = "doomed"
  /\ call' = [call EXCEPT ![c] = "idle"]
  /\ failureCount' = IF failureCount < MaxFailures THEN failureCount + 1 ELSE failureCount
  /\ cooledDown' = FALSE
  /\ circuitStatus' = IF failureCount' >= FAILURE_THRESHOLD THEN "OPEN" ELSE circuitStatus
  /\ UNCHANGED serving

-----------------------------------------------------------------------------
(* The environment. *)

\* COOLDOWN_MS elapses without a failure.
CoolDown ==
  /\ ~cooledDown
  /\ cooledDown' = TRUE
  /\ UNCHANGED <<circuitStatus, failureCount, call, serving>>

\* The hub goes away; whatever was sent may fail.
HubDown ==
  /\ serving
  /\ serving' = FALSE
  /\ call' = [c \in Callers |-> IF call[c] = "sent" THEN "doomed" ELSE call[c]]
  /\ UNCHANGED breaker

HubUp ==
  /\ ~serving
  /\ serving' = TRUE
  /\ UNCHANGED <<breaker, call>>

\* What this call needs is missing - a file, a persona, the analyzer behind the
\* hub: to the breaker that is a failure like any other.
Disturb(c) ==
  /\ call[c] = "sent"
  /\ call' = [call EXCEPT ![c] = "doomed"]
  /\ UNCHANGED <<breaker, serving>>

Next ==
  \/ \E c \in Callers : Begin(c) \/ Succeed(c) \/ Fail(c) \/ Disturb(c)
  \/ CoolDown \/ HubDown \/ HubUp

Spec == Init /\ [][Next]_vars

-----------------------------------------------------------------------------
(* Properties. *)

\* The status and the count never disagree, however calls interleave: below the
\* threshold the circuit is closed, from the threshold on it is not.
StatusMatchesCount == circuitStatus = "CLOSED" <=> failureCount < FAILURE_THRESHOLD

\* A half-open circuit has seen no failure since its cooldown: one failed call,
\* the probe or an older one, opens it again.
HalfOpenIsCool == circuitStatus = "HALF_OPEN" => cooledDown

\* The hub is spared while the circuit is open: once the threshold is reached a
\* call is sent only after a cooldown without failures, and the circuit is then
\* half-open, however many older calls are still to settle.
SentOnlyWhenCool ==
  [][\A c \in Callers :
       call[c] = "idle" /\ call'[c] # "idle" =>
         failureCount < FAILURE_THRESHOLD \/ (cooledDown /\ circuitStatus' = "HALF_OPEN")]_vars
=============================================================================
