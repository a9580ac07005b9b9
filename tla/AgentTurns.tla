----------------------------- MODULE AgentTurns -----------------------------
(***************************************************************************)
(* Agent turns and the approval gate for exclusive tools:                  *)
(*   src_local/psa/core/psa_agent_loop.ts        runTurn                   *)
(*   src_local/psa/kernel/psa_approval_manager.ts                          *)
(*   src_local/psa/tools/psa_tool_service.ts     executeTool               *)
(*   src_local/server/psa_server.ts              /v1/stream, /v1/approval  *)
(*                                                                         *)
(* A turn is one HTTP request; turns interleave at every await and yield.  *)
(* Data (prompts, arguments, results) is left out; the log keeps the type  *)
(* of each appended event.                                                 *)
(***************************************************************************)
EXTENDS Naturals, Sequences, FiniteSets

CONSTANTS
  Turns,          \* the requests
  CallIds,        \* values of call_<Date.now()>: two turns may read the same one
  NoTurn,         \* no entry in the approval map
  NoCall          \* no call id yet

ASSUME TurnsAssumption ==
  /\ NoTurn \notin Turns
  /\ NoCall \notin CallIds

VARIABLES
  pc,           \* pc[t]: where turn t is suspended
  tool,         \* tool[t]: the kind of the selected tool
  callId,       \* callId[t]
  pending,      \* PsaApprovalManager.pending: call id -> the turn asking
  timers,       \* turns whose 60 s timer has not fired
  promise,      \* promise[t]: what requestApproval's promise settled to
  answered,     \* answered[t]: the operator's answer to t's prompt
  log,          \* log[t]: what turn t appended to its session's log, in order
  gone          \* turns whose client has disconnected

gate == <<pending, timers, promise>>
vars == <<pc, tool, callId, gate, answered, log, gone>>

Yielding == {"started", "reasoned", "called", "prompted", "infer", "verified"}
Underway == Yielding \cup {"awaiting", "execute", "running", "verify"}
Stopped == {"ended", "failed", "aborted"}

EventType ==
  {"turn_start", "reasoning", "tool_call", "tool_result", "text", "verification", "turn_end"}

TurnsTypeOK ==
  /\ pc \in [Turns -> {"idle"} \cup Underway \cup Stopped]
  /\ tool \in [Turns -> {"none", "plain", "exclusive"}]
  /\ callId \in [Turns -> CallIds \cup {NoCall}]
  /\ pending \in [CallIds -> Turns \cup {NoTurn}]
  /\ timers \subseteq Turns
  /\ promise \in [Turns -> {"none", "waiting", "yes", "no"}]
  /\ answered \in [Turns -> {"none", "yes", "no"}]
  /\ log \in [Turns -> Seq(EventType)]
  /\ gone \subseteq Turns

Init ==
  /\ pc = [t \in Turns |-> "idle"]
  /\ tool = [t \in Turns |-> "none"]
  /\ callId = [t \in Turns |-> NoCall]
  /\ pending = [c \in CallIds |-> NoTurn]
  /\ timers = {}
  /\ promise = [t \in Turns |-> "none"]
  /\ answered = [t \in Turns |-> "none"]
  /\ log = [t \in Turns |-> <<>>]
  /\ gone = {}

-----------------------------------------------------------------------------
(* One turn. *)

At(t, from, to) ==
  /\ pc[t] = from
  /\ pc' = [pc EXCEPT ![t] = to]

\* ctx.sessions.append: synchronous appends to the session's file.
Log(t, types) == log' = [log EXCEPT ![t] = @ \o types]

StartTurn(t) ==
  /\ At(t, "idle", "started")
  /\ Log(t, <<"turn_start">>)
  /\ UNCHANGED <<tool, callId, gate, answered, gone>>

Reason(t) ==
  /\ At(t, "started", "reasoned")
  /\ Log(t, <<"reasoning">>)
  /\ UNCHANGED <<tool, callId, gate, answered, gone>>

\* The tool list is read, a tool is chosen and the call id is the clock's value.
SelectTool(t, kind) ==
  /\ At(t, "reasoned", "called")
  /\ tool' = [tool EXCEPT ![t] = kind]
  /\ \E c \in CallIds : callId' = [callId EXCEPT ![t] = c]
  /\ UNCHANGED <<gate, answered, log, gone>>

\* No tool matches the prompt.
SelectNone(t) ==
  /\ At(t, "reasoned", "infer")
  /\ UNCHANGED <<tool, callId, gate, answered, log, gone>>

\* The tool_call event; an exclusive tool goes through the gate.
Call(t) ==
  /\ \/ tool[t] = "exclusive" /\ At(t, "called", "prompted")
     \/ tool[t] = "plain" /\ At(t, "called", "execute")
  /\ Log(t, <<"tool_call">>)
  /\ UNCHANGED <<tool, callId, gate, answered, gone>>

\* requestApproval: the entry under the call id is set, replacing any other.
RequestApproval(t) ==
  /\ At(t, "prompted", "awaiting")
  /\ pending' = [pending EXCEPT ![callId[t]] = t]
  /\ timers' = timers \cup {t}
  /\ promise' = [promise EXCEPT ![t] = "waiting"]
  /\ UNCHANGED <<tool, callId, answered, log, gone>>

\* The awaited promise has settled.
Approved(t) ==
  /\ promise[t] = "yes"
  /\ At(t, "awaiting", "execute")
  /\ UNCHANGED <<tool, callId, gate, answered, log, gone>>

\* A refusal is a result.
Rejected(t) ==
  /\ promise[t] = "no"
  /\ At(t, "awaiting", "infer")
  /\ Log(t, <<"tool_result">>)
  /\ UNCHANGED <<tool, callId, gate, answered, gone>>

\* executeTool finds the tool and its hooks let it through.
Invoke(t) ==
  /\ At(t, "execute", "running")
  /\ UNCHANGED <<tool, callId, gate, answered, log, gone>>

\* The tool was unregistered meanwhile, or a hook blocked it: executeTool throws
\* and nothing in runTurn catches it.
InvokeThrows(t) ==
  /\ At(t, "execute", "failed")
  /\ UNCHANGED <<tool, callId, gate, answered, log, gone>>

\* The tool's promise settled; an error is a result too.
ToolReturns(t) ==
  /\ At(t, "running", "infer")
  /\ Log(t, <<"tool_result">>)
  /\ UNCHANGED <<tool, callId, gate, answered, gone>>

\* The model's stream ended. Unless its text has code to verify, the turn closes
\* at once.
Infer(t) ==
  /\ \/ /\ At(t, "infer", "verify")
        /\ Log(t, <<"text">>)
     \/ /\ At(t, "infer", "ended")
        /\ Log(t, <<"text", "turn_end">>)
  /\ UNCHANGED <<tool, callId, gate, answered, gone>>

\* The model's stream throws.
InferThrows(t) ==
  /\ At(t, "infer", "failed")
  /\ UNCHANGED <<tool, callId, gate, answered, log, gone>>

\* The verifier is a tool too: executeTool may throw before it runs.
Verify(t) ==
  /\ At(t, "verify", "verified")
  /\ Log(t, <<"verification">>)
  /\ UNCHANGED <<tool, callId, gate, answered, gone>>

VerifyThrows(t) ==
  /\ At(t, "verify", "failed")
  /\ UNCHANGED <<tool, callId, gate, answered, log, gone>>

EndTurn(t) ==
  /\ At(t, "verified", "ended")
  /\ Log(t, <<"turn_end">>)
  /\ UNCHANGED <<tool, callId, gate, answered, gone>>

-----------------------------------------------------------------------------
(* The client of a turn. *)

Disconnect(t) ==
  /\ pc[t] \in Underway
  /\ t \notin gone
  /\ gone' = gone \cup {t}
  /\ UNCHANGED <<pc, tool, callId, gate, answered, log>>

\* enqueue throws on a cancelled stream, which closes the generator where it
\* has just yielded.
Abort(t) ==
  /\ t \in gone
  /\ pc[t] \in Yielding
  /\ pc' = [pc EXCEPT ![t] = "aborted"]
  /\ UNCHANGED <<tool, callId, gate, answered, log, gone>>

-----------------------------------------------------------------------------
(* The approval manager. *)

Settle(t, value) ==
  promise' = IF promise[t] = "waiting" THEN [promise EXCEPT ![t] = value] ELSE promise

\* Faulty variant: a timer that gives up waiting and lets the tool run.
TimeoutApproving(t) ==
  /\ t \in timers
  /\ timers' = timers \ {t}
  /\ \/ /\ pending[callId[t]] # NoTurn
        /\ pending' = [pending EXCEPT ![callId[t]] = NoTurn]
        /\ Settle(t, "yes")
     \/ /\ pending[callId[t]] = NoTurn
        /\ UNCHANGED <<pending, promise>>
  /\ UNCHANGED <<pc, tool, callId, answered, log, gone>>

\* Faulty variant: the timer drops the request without settling its promise.
TimeoutSilent(t) ==
  /\ t \in timers
  /\ timers' = timers \ {t}
  /\ pending' = [pending EXCEPT ![callId[t]] = NoTurn]
  /\ UNCHANGED <<pc, tool, callId, promise, answered, log, gone>>

\* t's timer: it looks at whatever is pending under the call id and resolves
\* its own promise.
Timeout(t) ==
  /\ t \in timers
  /\ timers' = timers \ {t}
  /\ \/ /\ pending[callId[t]] # NoTurn
        /\ pending' = [pending EXCEPT ![callId[t]] = NoTurn]
        /\ Settle(t, "no")
     \/ /\ pending[callId[t]] = NoTurn
        /\ UNCHANGED <<pending, promise>>
  /\ UNCHANGED <<pc, tool, callId, answered, log, gone>>

\* Faulty variant: any answer resolves the promise to true.
ResolveApproving(t, value) ==
  /\ tool[t] = "exclusive"
  /\ answered[t] = "none"
  /\ answered' = [answered EXCEPT ![t] = value]
  /\ \/ /\ pending[callId[t]] # NoTurn
        /\ pending' = [pending EXCEPT ![callId[t]] = NoTurn]
        /\ Settle(pending[callId[t]], "yes")
     \/ /\ pending[callId[t]] = NoTurn
        /\ UNCHANGED <<pending, promise>>
  /\ UNCHANGED <<pc, tool, callId, timers, log, gone>>

\* The operator answers the call of turn t, once: POST /v1/approval with t's call
\* id, at any time after the tool_call event, resolves the request the map holds.
ResolveApproval(t, value) ==
  /\ tool[t] = "exclusive"
  /\ answered[t] = "none"
  /\ answered' = [answered EXCEPT ![t] = value]
  /\ \/ /\ pending[callId[t]] # NoTurn
        /\ pending' = [pending EXCEPT ![callId[t]] = NoTurn]
        /\ Settle(pending[callId[t]], value)
     \/ /\ pending[callId[t]] = NoTurn
        /\ UNCHANGED <<pending, promise>>
  /\ UNCHANGED <<pc, tool, callId, timers, log, gone>>

-----------------------------------------------------------------------------

TurnStep(t) ==
  \/ Reason(t) \/ SelectNone(t) \/ Call(t) \/ RequestApproval(t)
  \/ \E kind \in {"plain", "exclusive"} : SelectTool(t, kind)
  \/ Approved(t) \/ Rejected(t) \/ Invoke(t) \/ InvokeThrows(t) \/ ToolReturns(t)
  \/ Infer(t) \/ InferThrows(t) \/ Verify(t) \/ VerifyThrows(t) \/ EndTurn(t)
  \/ Abort(t)

Next ==
  \/ \E t \in Turns : StartTurn(t) \/ TurnStep(t) \/ Disconnect(t) \/ Timeout(t)
  \/ \E t \in Turns, value \in {"yes", "no"} : ResolveApproval(t, value)

\* Promises resume, tools and model streams settle, and timers fire; the
\* operator may never answer, and clients may never come.
Fairness == \A t \in Turns : WF_vars(TurnStep(t)) /\ WF_vars(Timeout(t))

Spec == Init /\ [][Next]_vars /\ Fairness

-----------------------------------------------------------------------------
(* Properties. *)

\* Whatever is pending is a request some turn still waits for, under the call id
\* of that turn: an answer is never spent on a request that was already settled.
PendingIsWaiting ==
  \A c \in CallIds :
    pending[c] # NoTurn => promise[pending[c]] = "waiting" /\ callId[pending[c]] = c

\* An exclusive tool runs only after the operator said yes under its call id;
\* a timeout, a disconnect or a lost answer never opens the gate.
GateHolds ==
  \A t \in Turns :
    pc[t] \in {"execute", "running"} /\ tool[t] = "exclusive" =>
      \E u \in Turns : callId[u] = callId[t] /\ answered[u] = "yes"

\* No other turn was given t's call id.
OwnCallId(t) == \A u \in Turns : callId[u] = callId[t] /\ callId[t] # NoCall => u = t

AnsweredItself(t) == promise[t] = "yes" => answered[t] = "yes"

\* The operator's answer decides the turn whose prompt was answered, when that
\* turn shares its call id with no other: neither a timer, nor another prompt's
\* answer, nor an answer that came before the request stands for it.
AnswerDecidesItsTurn == \A t \in Turns : OwnCallId(t) => AnsweredItself(t)

\* "retorna uma Promise que resolve quando o operador clica em Aprovar/Rejeitar"
\* (psa_approval_manager.ts): the same of every turn.
AnswerDecides == \A t \in Turns : AnsweredItself(t)

\* A turn that never shares its call id, once started, ends, fails or is aborted:
\* no disconnect, no throw and no silent operator suspends it for ever, since its
\* approval request is settled by the operator or by its 60 s timer.
EveryTurnStops ==
  \A t \in Turns : []OwnCallId(t) => (pc[t] = "started" ~> pc[t] \in Stopped)

=============================================================================
