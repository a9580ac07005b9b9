-------------------------- MODULE AgentProofs --------------------------
(***************************************************************************)
(* The approval gate for every set of turns and call ids, turns that read  *)
(* the same clock value included; what a turn's tools answer of the        *)
(* processes they start, and of files; whom the kernel's events reach;     *)
(* what the session files keep, and what a sync of their index leaves out. *)
(*                                                                         *)
(* PendingIsWaiting and GateHolds speak of the map and of the running      *)
(* tools; they are inductive only with the facts that tie a turn's promise *)
(* to the place where it is suspended and to a fixed call id (Suspended),  *)
(* and an approval to the answer it came from (ApprovalsComeFromAnswers).  *)
(* BusDelivers needs that a list of listeners only grows behind whom an    *)
(* emission has reached (ListenInv) and where a stack of hooks stands      *)
(* (HookInv); HistoryKept needs a debt of a session to its failed writes   *)
(* (LogInv); SyncIsComplete that every row is at least as old as what the  *)
(* files hold under its number, but for refused events (IndexInv).         *)
(***************************************************************************)
EXTENDS AgentTurns, ToolProcesses, ToolFiles, PsaEvents, SessionIndex,
        SequenceTheorems, FiniteSetTheorems, WellFoundedInduction, TLAPS

\* What the place of a turn says of its tool, its call id and its promise.
Suspended(t) ==
  /\ tool[t] # "none" => pc[t] \notin {"idle", "started", "reasoned"} /\ callId[t] \in CallIds
  /\ pc[t] = "called" => tool[t] # "none"
  /\ pc[t] \in {"prompted", "awaiting"} => tool[t] = "exclusive"
  /\ promise[t] # "none" => tool[t] = "exclusive"
  /\ answered[t] # "none" => tool[t] = "exclusive"
  /\ t \in timers => promise[t] # "none"
  /\ promise[t] = "waiting" => pc[t] = "awaiting"
  /\ pc[t] \in {"execute", "running"} /\ tool[t] = "exclusive" => promise[t] = "yes"

\* A request is approved by an answer to a prompt with the same call id.
ApprovalsComeFromAnswers ==
  \A t \in Turns :
    promise[t] = "yes" => \E u \in Turns : callId[u] = callId[t] /\ answered[u] = "yes"

Inv ==
  /\ TurnsTypeOK
  /\ \A t \in Turns : Suspended(t)
  /\ PendingIsWaiting
  /\ ApprovalsComeFromAnswers

\* Nothing is under way when the server starts.
LEMMA TurnsInit == Init => Inv
BY TurnsAssumption, EmptySeq
DEF Init, Inv, TurnsTypeOK, Suspended, PendingIsWaiting, ApprovalsComeFromAnswers

-----------------------------------------------------------------------------
(* Types. *)

\* Appending events keeps the log a log.
LEMMA LogType ==
  ASSUME NEW t \in Turns, TurnsTypeOK, NEW types \in Seq(EventType), Log(t, types)
  PROVE  log' \in [Turns -> Seq(EventType)]
<1>1. log[t] \o types \in Seq(EventType)
  BY ConcatProperties DEF TurnsTypeOK
<1>2. QED
  BY <1>1 DEF Log, TurnsTypeOK

\* The events the turns append.
LEMMA EventSeqs ==
  /\ \A type \in EventType : <<type>> \in Seq(EventType)
  /\ <<"text", "turn_end">> \in Seq(EventType)
BY DEF EventType

\* Settling a promise, settled or not, keeps the promises typed.
LEMMA SettleType ==
  ASSUME TurnsTypeOK, NEW t, NEW value \in {"yes", "no"}, Settle(t, value)
  PROVE  promise' \in [Turns -> {"none", "waiting", "yes", "no"}]
<1>1. CASE t \in Turns
  BY <1>1 DEF Settle, TurnsTypeOK
<1>2. CASE t \notin Turns
  BY <1>2 DEF Settle, TurnsTypeOK
<1>3. QED
  BY <1>1, <1>2

\* Every step keeps the types.
LEMMA TypeStep ==
  ASSUME TurnsTypeOK, [Next]_vars
  PROVE  TurnsTypeOK'
<1> USE DEF TurnsTypeOK, Underway, Yielding, Stopped, gate
<1>1. ASSUME NEW t \in Turns, NEW types \in Seq(EventType), Log(t, types)
      PROVE  log' \in [Turns -> Seq(EventType)]
  BY <1>1, LogType
<1>2. ASSUME NEW t \in Turns, NEW type \in EventType, Log(t, <<type>>)
      PROVE  log' \in [Turns -> Seq(EventType)]
  BY <1>1, <1>2, EventSeqs
<1>3. ASSUME NEW t \in Turns, Log(t, <<"text", "turn_end">>)
      PROVE  log' \in [Turns -> Seq(EventType)]
  BY <1>1, <1>3, EventSeqs
<1>4. {"turn_start", "reasoning", "tool_call", "tool_result", "text", "verification", "turn_end"} \subseteq EventType
  BY DEF EventType
<1>5. ASSUME NEW t \in Turns,
             StartTurn(t) \/ Reason(t) \/ Call(t) \/ Rejected(t) \/ ToolReturns(t) \/ Infer(t)
               \/ Verify(t) \/ EndTurn(t)
      PROVE  TurnsTypeOK'
  <2>1. log' \in [Turns -> Seq(EventType)]
    BY <1>2, <1>3, <1>4, <1>5
    DEF StartTurn, Reason, Call, Rejected, ToolReturns, Infer, Verify, EndTurn
  <2>2. QED
    BY <1>5, <2>1
    DEF At, StartTurn, Reason, Call, Rejected, ToolReturns, Infer, Verify, EndTurn
<1>6. ASSUME NEW t \in Turns, NEW kind \in {"plain", "exclusive"}, SelectTool(t, kind)
      PROVE  TurnsTypeOK'
  BY <1>6 DEF SelectTool, At
<1>7. ASSUME NEW t \in Turns,
             SelectNone(t) \/ Approved(t) \/ Invoke(t) \/ InvokeThrows(t) \/ InferThrows(t) \/ VerifyThrows(t)
      PROVE  TurnsTypeOK'
  BY <1>7 DEF At, SelectNone, Approved, Invoke, InvokeThrows, InferThrows, VerifyThrows
<1>8. ASSUME NEW t \in Turns, Abort(t) \/ Disconnect(t) PROVE TurnsTypeOK'
  BY <1>8 DEF Abort, Disconnect
<1>9. ASSUME NEW t \in Turns, RequestApproval(t) PROVE TurnsTypeOK'
  BY <1>9 DEF At, RequestApproval
<1>10. ASSUME NEW t \in Turns, Timeout(t) PROVE TurnsTypeOK'
  <2>1. promise' \in [Turns -> {"none", "waiting", "yes", "no"}]
    BY <1>10, SettleType DEF Timeout
  <2>2. QED
    BY <1>10, <2>1 DEF Timeout
<1>11. ASSUME NEW t \in Turns, NEW value \in {"yes", "no"}, ResolveApproval(t, value) PROVE TurnsTypeOK'
  <2>1. promise' \in [Turns -> {"none", "waiting", "yes", "no"}]
    BY <1>11, SettleType DEF ResolveApproval
  <2>2. answered' \in [Turns -> {"none", "yes", "no"}]
    BY <1>11 DEF ResolveApproval
  <2>3. pending' \in [CallIds -> Turns \cup {NoTurn}]
    BY <1>11 DEF ResolveApproval
  <2>4. QED
    BY <1>11, <2>1, <2>2, <2>3 DEF ResolveApproval
<1>12. CASE UNCHANGED vars
  BY <1>12 DEF vars
<1>13. QED
  BY <1>5, <1>6, <1>7, <1>8, <1>9, <1>10, <1>11, <1>12 DEF Next, TurnStep

-----------------------------------------------------------------------------
(* The gate. *)

\* A turn's place, tool and promise stay in step: no step but its own moves a
\* turn, and no one but the operator or its timer settles its promise.
LEMMA SuspendedStep ==
  ASSUME Inv, [Next]_vars
  PROVE  \A t \in Turns : Suspended(t)'
<1> SUFFICES ASSUME NEW u \in Turns PROVE Suspended(u)'
  OBVIOUS
<1> USE TurnsAssumption DEF Inv, TurnsTypeOK, Suspended, gate
<1>1. ASSUME NEW t \in Turns, StartTurn(t) PROVE Suspended(u)'
  BY <1>1 DEF StartTurn, At
<1>2. ASSUME NEW t \in Turns, Reason(t) PROVE Suspended(u)'
  BY <1>2 DEF Reason, At
<1>3. ASSUME NEW t \in Turns, SelectNone(t) PROVE Suspended(u)'
  BY <1>3 DEF SelectNone, At
<1>4. ASSUME NEW t \in Turns, Call(t) PROVE Suspended(u)'
  BY <1>4 DEF Call, At
<1>5. ASSUME NEW t \in Turns, Approved(t) PROVE Suspended(u)'
  BY <1>5 DEF Approved, At
<1>6. ASSUME NEW t \in Turns, Rejected(t) PROVE Suspended(u)'
  BY <1>6 DEF Rejected, At
<1>7. ASSUME NEW t \in Turns, Invoke(t) PROVE Suspended(u)'
  BY <1>7 DEF Invoke, At
<1>8. ASSUME NEW t \in Turns, InvokeThrows(t) PROVE Suspended(u)'
  BY <1>8 DEF InvokeThrows, At
<1>9. ASSUME NEW t \in Turns, ToolReturns(t) PROVE Suspended(u)'
  BY <1>9 DEF ToolReturns, At
<1>10. ASSUME NEW t \in Turns, Infer(t) PROVE Suspended(u)'
  BY <1>10 DEF Infer, At
<1>11. ASSUME NEW t \in Turns, InferThrows(t) PROVE Suspended(u)'
  BY <1>11 DEF InferThrows, At
<1>12. ASSUME NEW t \in Turns, Verify(t) PROVE Suspended(u)'
  BY <1>12 DEF Verify, At
<1>13. ASSUME NEW t \in Turns, VerifyThrows(t) PROVE Suspended(u)'
  BY <1>13 DEF VerifyThrows, At
<1>14. ASSUME NEW t \in Turns, EndTurn(t) PROVE Suspended(u)'
  BY <1>14 DEF EndTurn, At
<1>15. ASSUME NEW t \in Turns, Abort(t) PROVE Suspended(u)'
  BY <1>15 DEF Abort, Yielding
<1>16. ASSUME NEW t \in Turns, Disconnect(t) PROVE Suspended(u)'
  BY <1>16 DEF Disconnect
<1>17. ASSUME NEW t \in Turns, RequestApproval(t) PROVE Suspended(u)'
  BY <1>17 DEF RequestApproval, At
<1>18. ASSUME NEW t \in Turns, Timeout(t) PROVE Suspended(u)'
  BY <1>18 DEF Timeout, Settle
<1>19. ASSUME NEW t \in Turns, NEW kind \in {"plain", "exclusive"}, SelectTool(t, kind)
      PROVE  Suspended(u)'
  BY <1>19 DEF SelectTool, At
<1>20. ASSUME NEW t \in Turns, NEW value \in {"yes", "no"}, ResolveApproval(t, value)
      PROVE  Suspended(u)'
  <2>1. pc' = pc /\ tool' = tool /\ callId' = callId /\ timers' = timers
    BY <1>20 DEF ResolveApproval
  <2>2. answered'[u] # "none" => tool[u] = "exclusive"
    BY <1>20 DEF ResolveApproval
  <2>3. promise'[u] = promise[u] \/ (promise[u] = "waiting" /\ promise'[u] \in {"yes", "no"})
    BY <1>20 DEF ResolveApproval, Settle
  <2>4. QED
    BY <2>1, <2>2, <2>3
<1>21. CASE UNCHANGED vars
  BY <1>21 DEF vars
<1> HIDE DEF Inv, TurnsTypeOK, Suspended, gate
<1>22. QED
  BY <1>1, <1>2, <1>3, <1>4, <1>5, <1>6, <1>7, <1>8, <1>9, <1>10, <1>11, <1>12, <1>13, <1>14, <1>15, <1>16, <1>17, <1>18, <1>19, <1>20, <1>21
  DEF Next, TurnStep

\* The steps that leave the gate, the tools and the call ids alone.
Elsewhere == UNCHANGED <<tool, callId, pending, timers, promise, answered>>

\* Which step is a step of the gate.
LEMMA StepKinds ==
  ASSUME [Next]_vars
  PROVE  \/ Elsewhere
         \/ \E t \in Turns, kind \in {"plain", "exclusive"} : SelectTool(t, kind)
         \/ \E t \in Turns : RequestApproval(t) \/ Timeout(t)
         \/ \E t \in Turns, value \in {"yes", "no"} : ResolveApproval(t, value)
<1> USE DEF Elsewhere, gate
<1>1. ASSUME NEW t \in Turns,
             StartTurn(t) \/ Reason(t) \/ SelectNone(t) \/ Call(t) \/ Infer(t) \/ InferThrows(t)
               \/ Verify(t) \/ VerifyThrows(t) \/ EndTurn(t) \/ Approved(t) \/ Rejected(t) \/ Invoke(t)
               \/ InvokeThrows(t) \/ ToolReturns(t) \/ Abort(t) \/ Disconnect(t)
      PROVE  Elsewhere
  BY <1>1
  DEF StartTurn, Reason, SelectNone, Call, Infer, InferThrows, Verify, VerifyThrows, EndTurn,
      Approved, Rejected, Invoke, InvokeThrows, ToolReturns, Abort, Disconnect
<1>2. CASE UNCHANGED vars
  BY <1>2 DEF vars
<1>3. QED
  BY <1>1, <1>2 DEF Next, TurnStep

\* What the steps of the gate find: a turn that still has to pick its tool has no
\* request and no answer, and one with a request has its call id.
LEMMA GateFacts ==
  ASSUME Inv, NEW t \in Turns
  PROVE  /\ pending \in [CallIds -> Turns \cup {NoTurn}]
         /\ promise \in [Turns -> {"none", "waiting", "yes", "no"}]
         /\ answered \in [Turns -> {"none", "yes", "no"}]
         /\ callId \in [Turns -> CallIds \cup {NoCall}]
         /\ pc[t] = "reasoned" => promise[t] = "none" /\ answered[t] = "none"
         /\ pc[t] = "prompted" \/ t \in timers \/ tool[t] = "exclusive" => callId[t] \in CallIds
BY DEF Inv, TurnsTypeOK, Suspended

\* Clearing the entry under the call id of the turn whose promise settles.
LEMMA ClearEntry ==
  ASSUME Inv, PendingIsWaiting,
         NEW t \in Turns, NEW u \in Turns, NEW value, NEW id \in CallIds,
         callId[u] = id,
         pending' = [pending EXCEPT ![id] = NoTurn], Settle(u, value),
         callId' = callId
  PROVE  PendingIsWaiting'
<1> SUFFICES ASSUME NEW c \in CallIds, pending'[c] # NoTurn
             PROVE  promise'[pending'[c]] = "waiting" /\ callId[pending'[c]] = c
  BY DEF PendingIsWaiting
<1>1. c # id /\ pending'[c] = pending[c] /\ pending[c] \in Turns
  BY GateFacts
<1>2. promise[pending[c]] = "waiting" /\ callId[pending[c]] = c
  BY <1>1 DEF PendingIsWaiting
<1>3. pending[c] # u
  BY <1>1, <1>2
<1>4. promise'[pending[c]] = promise[pending[c]]
  BY <1>1, <1>3, GateFacts DEF Settle
<1>5. QED
  BY <1>1, <1>2, <1>4

\* An entry is removed in the step that settles its promise.
LEMMA PendingStep ==
  ASSUME Inv, [Next]_vars
  PROVE  PendingIsWaiting'
<1>1. PendingIsWaiting
  BY DEF Inv
<1>2. CASE Elsewhere
  BY <1>1, <1>2 DEF Elsewhere, PendingIsWaiting
<1>3. ASSUME NEW t \in Turns, NEW kind \in {"plain", "exclusive"}, SelectTool(t, kind)
      PROVE  PendingIsWaiting'
  <2>1. promise[t] = "none" /\ pending' = pending /\ promise' = promise
    BY <1>3, GateFacts DEF SelectTool, At, gate
  <2>2. \A u \in Turns \ {t} : callId'[u] = callId[u]
    BY <1>3, GateFacts DEF SelectTool
  <2>3. QED
    BY <1>1, <2>1, <2>2, GateFacts DEF PendingIsWaiting
<1>4. ASSUME NEW t \in Turns, RequestApproval(t) PROVE PendingIsWaiting'
  <2>1. /\ callId[t] \in CallIds
        /\ pending' = [pending EXCEPT ![callId[t]] = t]
        /\ promise' = [promise EXCEPT ![t] = "waiting"]
        /\ callId' = callId
    BY <1>4, GateFacts DEF RequestApproval, At
  <2>2. QED
    BY <1>1, <2>1, GateFacts DEF PendingIsWaiting
<1>5. ASSUME NEW t \in Turns, Timeout(t) PROVE PendingIsWaiting'
  <2>1. callId' = callId /\ callId[t] \in CallIds
    BY <1>5, GateFacts DEF Timeout
  <2>2. CASE UNCHANGED <<pending, promise>>
    BY <1>1, <2>1, <2>2 DEF PendingIsWaiting
  <2>3. CASE pending' = [pending EXCEPT ![callId[t]] = NoTurn] /\ Settle(t, "no")
    BY <1>1, <2>1, <2>3, ClearEntry
  <2>4. QED
    BY <1>5, <2>2, <2>3 DEF Timeout
<1>6. ASSUME NEW t \in Turns, NEW value \in {"yes", "no"}, ResolveApproval(t, value)
      PROVE  PendingIsWaiting'
  <2>1. callId' = callId /\ callId[t] \in CallIds
    BY <1>6, GateFacts DEF ResolveApproval
  <2>2. CASE UNCHANGED <<pending, promise>>
    BY <1>1, <2>1, <2>2 DEF PendingIsWaiting
  <2>3. CASE /\ pending[callId[t]] # NoTurn
             /\ pending' = [pending EXCEPT ![callId[t]] = NoTurn]
             /\ Settle(pending[callId[t]], value)
    <3>1. pending[callId[t]] \in Turns /\ callId[pending[callId[t]]] = callId[t]
      BY <1>1, <2>1, <2>3, GateFacts DEF PendingIsWaiting
    <3>2. QED
      BY <1>1, <2>1, <2>3, <3>1, ClearEntry
  <2>4. QED
    BY <1>6, <2>2, <2>3 DEF ResolveApproval
<1>7. QED
  BY <1>2, <1>3, <1>4, <1>5, <1>6, StepKinds

\* A promise resolves to true only in the step in which the operator says yes
\* under its call id.
LEMMA ApprovalStep ==
  ASSUME Inv, [Next]_vars
  PROVE  ApprovalsComeFromAnswers'
<1>1. ApprovalsComeFromAnswers /\ PendingIsWaiting
  BY DEF Inv
<1>2. CASE Elsewhere
  BY <1>1, <1>2 DEF Elsewhere, ApprovalsComeFromAnswers
<1>3. ASSUME NEW t \in Turns, NEW kind \in {"plain", "exclusive"}, SelectTool(t, kind)
      PROVE  ApprovalsComeFromAnswers'
  <2>1. /\ promise[t] = "none" /\ answered[t] = "none"
        /\ promise' = promise /\ answered' = answered
    BY <1>3, GateFacts DEF SelectTool, At, gate
  <2>2. \A u \in Turns \ {t} : callId'[u] = callId[u]
    BY <1>3, GateFacts DEF SelectTool
  <2>3. QED
    BY <1>1, <2>1, <2>2 DEF ApprovalsComeFromAnswers
<1>4. ASSUME NEW t \in Turns, RequestApproval(t) \/ Timeout(t)
      PROVE  ApprovalsComeFromAnswers'
  <2>1. callId' = callId /\ answered' = answered
    BY <1>4 DEF RequestApproval, Timeout
  <2>2. \A u \in Turns : promise'[u] = "yes" => promise[u] = "yes"
    BY <1>4, GateFacts DEF RequestApproval, Timeout, Settle
  <2>3. QED
    BY <1>1, <2>1, <2>2 DEF ApprovalsComeFromAnswers
<1>5. ASSUME NEW t \in Turns, NEW value \in {"yes", "no"}, ResolveApproval(t, value)
      PROVE  ApprovalsComeFromAnswers'
  <2>1. /\ callId' = callId
        /\ callId[t] \in CallIds
        /\ answered[t] = "none"
        /\ answered' = [answered EXCEPT ![t] = value]
    BY <1>5, GateFacts DEF ResolveApproval
  <2>2. \A v \in Turns : answered[v] = "yes" => answered'[v] = "yes"
    BY <2>1, GateFacts
  <2>3. SUFFICES ASSUME NEW u \in Turns, promise'[u] = "yes"
                 PROVE  \E v \in Turns : callId[v] = callId[u] /\ answered'[v] = "yes"
    BY <2>1 DEF ApprovalsComeFromAnswers
  <2>4. CASE promise[u] = "yes"
    BY <1>1, <2>2, <2>4 DEF ApprovalsComeFromAnswers
  <2>5. CASE promise[u] # "yes"
    <3>1. pending[callId[t]] # NoTurn /\ u = pending[callId[t]] /\ value = "yes"
      BY <1>5, <2>3, <2>5, GateFacts DEF ResolveApproval, Settle
    <3>2. callId[u] = callId[t]
      BY <1>1, <2>1, <3>1 DEF PendingIsWaiting
    <3>3. answered'[t] = "yes"
      BY <2>1, <3>1, GateFacts
    <3>4. QED
      BY <3>2, <3>3
  <2>6. QED
    BY <2>4, <2>5
<1>6. QED
  BY <1>2, <1>3, <1>4, <1>5, StepKinds

\* Inv holds in every reachable state.
THEOREM TurnsInvariant == Spec => []Inv
<1>1. Inv /\ [Next]_vars => Inv'
  BY TypeStep, SuspendedStep, PendingStep, ApprovalStep DEF Inv
<1>2. QED
  BY <1>1, TurnsInit, PTL DEF Spec

\* The types of the server's state.
THEOREM TurnsTypeCorrect == Spec => []TurnsTypeOK
<1>1. Inv => TurnsTypeOK
  BY DEF Inv
<1>2. QED
  BY <1>1, TurnsInvariant, PTL

\* An answer is never spent on a request that was already settled.
THEOREM PendingRequestsWait == Spec => []PendingIsWaiting
<1>1. Inv => PendingIsWaiting
  BY DEF Inv
<1>2. QED
  BY <1>1, TurnsInvariant, PTL

\* No exclusive tool runs without a yes from the operator, even when turns share
\* a call id.
THEOREM ApprovalGateHolds == Spec => []GateHolds
<1>1. Inv => GateHolds
  BY DEF Inv, Suspended, ApprovalsComeFromAnswers, GateHolds
<1>2. QED
  BY <1>1, TurnsInvariant, PTL

\* The yes was given to the turn that runs, when that turn shares its call id
\* with no other.
THEOREM AnswersDecideTheirTurns == Spec => []AnswerDecidesItsTurn
<1>1. Inv => AnswerDecidesItsTurn
  BY TurnsAssumption
  DEF Inv, Suspended, ApprovalsComeFromAnswers, OwnCallId, AnsweredItself, AnswerDecidesItsTurn
<1>2. QED
  BY <1>1, TurnsInvariant, PTL

-----------------------------------------------------------------------------
(* Commands and terminals (ToolProcesses).                                 *)

\* What shell.exec keeps of a stream of n characters.
Beginning(n) ==
  IF n <= Cap THEN [k \in 1..n |-> k] ELSE [k \in 1..(Cap + 1) |-> IF k <= Cap THEN k ELSE "cut"]

\* The state by its types.
ToolTypeOK ==
  /\ proc \in [Procs -> {"none", "running", "ended"}]
  /\ status \in [Procs -> {"none", "zero", "other", "signal"}]
  /\ wrote \in [Procs -> [Pipes -> Nat]] /\ taken \in [Procs -> [Pipes -> Nat]]
  /\ limit \subseteq Commands /\ kill \subseteq Commands
  /\ kept \in [Commands -> [Pipes -> Seq(Nat \cup {"cut"})]]
  /\ result \in [Commands -> {"none", "-1", "zero", "other", "-2"}]
  /\ session \in [Terminals -> Shells \cup {"none"}]

\* The buffers follow what has been read.
BuffersFollow == \A p \in Commands, s \in Pipes : kept[p][s] = Beginning(taken[p][s])

\* A limit is that of a process without an answer.
LimitsAreOpen == \A p \in limit : proc[p] # "none" /\ result[p] = "none"

\* After an answer the process is over, nothing more is written or read, and the
\* answer says how it ended.
AnswersAreLast ==
  \A p \in Commands : result[p] \in {"zero", "other", "-2"} =>
    /\ Drained(p)
    /\ result[p] = "zero" => status[p] = "zero" \/ (status[p] = "signal" /\ p \notin timedOut)
    /\ result[p] = "-2" => p \in timedOut

\* Whatever has ended did so in some way.
EndsHaveStatus == \A p \in Procs : proc[p] = "ended" => status[p] # "none"

\* The inductive invariant.
ToolInv ==
  /\ ToolTypeOK /\ EndsHaveStatus /\ BuffersFollow /\ LimitsAreOpen /\ AnswersAreLast
  /\ AnswerIsDue /\ TerminalsReachable

\* A character more leaves what a stream longer by it would have left (Keep).
LEMMA KeepExtends ==
  ASSUME NEW n \in Nat PROVE Keep(Beginning(n), n + 1) = Beginning(n + 1)
<1> DEFINE more == Append(Beginning(n), n + 1)
<1>0. Cap \in Nat  BY ToolAssumption
<1>k. Keep(Beginning(n), n + 1) = IF Len(more) > Cap THEN Append(SubSeq(more, 1, Cap), "cut") ELSE more
  BY Zenon DEF Keep
<1>1. CASE n < Cap
  <2>1. Beginning(n) = [k \in 1..n |-> k] /\ Beginning(n + 1) = [k \in 1..(n + 1) |-> k]
    BY <1>0, <1>1 DEF Beginning
  <2>2. Beginning(n) \in Seq(Nat) /\ Len(Beginning(n)) = n
    BY <2>1
  <2>3. more \in Seq(Nat) /\ Len(more) = n + 1
    BY <2>2
  <2>4. \A k \in 1..(n + 1) : more[k] = k
    BY <2>1, <2>2, <2>3
  <2>5. more = Beginning(n + 1)
    BY <2>1, <2>3, <2>4
  <2>6. ~(Len(more) > Cap)
    BY <1>0, <1>1, <2>3
  <2> QED BY <1>k, <2>5, <2>6
<1>2. CASE n >= Cap
  <2> DEFINE whole == SubSeq(more, 1, Cap)
             Marks == Nat \cup {"cut"}
  <2>1. /\ Beginning(n) \in Seq(Marks) /\ Len(Beginning(n)) >= Cap
        /\ \A k \in 1..Cap : Beginning(n)[k] = k
    <3>1. CASE n = Cap  BY <1>0, <3>1 DEF Beginning
    <3>2. CASE n > Cap
      <4>1. Beginning(n) = [k \in 1..(Cap + 1) |-> IF k <= Cap THEN k ELSE "cut"]
        BY <1>0, <3>2 DEF Beginning
      <4>2. \A k \in 1..(Cap + 1) : (IF k <= Cap THEN k ELSE "cut") \in Marks
        BY <1>0
      <4> QED BY <1>0, <4>1, <4>2
    <3> QED BY <1>0, <1>2, <3>1, <3>2
  <2>2. /\ more \in Seq(Marks) /\ Len(more) > Cap
        /\ \A k \in 1..Cap : more[k] = k
    BY <1>0, <2>1
  <2>3. whole \in Seq(Marks) /\ Len(whole) = Cap /\ \A k \in 1..Cap : whole[k] = k
    BY <1>0, <2>2
  <2>4. /\ Append(whole, "cut") \in Seq(Marks) /\ Len(Append(whole, "cut")) = Cap + 1
        /\ \A k \in 1..(Cap + 1) : Append(whole, "cut")[k] = IF k <= Cap THEN k ELSE "cut"
    <3> HIDE DEF whole
    <3>1. "cut" \in Marks  OBVIOUS
    <3>2. /\ Append(whole, "cut") \in Seq(Marks) /\ Len(Append(whole, "cut")) = Cap + 1
          /\ \A k \in 1..Cap : Append(whole, "cut")[k] = whole[k]
          /\ Append(whole, "cut")[Cap + 1] = "cut"
      BY <1>0, <2>3, <3>1, AppendProperties
    <3>3. ASSUME NEW k \in 1..(Cap + 1)
          PROVE  Append(whole, "cut")[k] = IF k <= Cap THEN k ELSE "cut"
      <4>1. CASE k <= Cap  BY <1>0, <2>3, <3>2, <4>1
      <4>2. CASE ~(k <= Cap)  BY <1>0, <3>2, <4>2
      <4> QED BY <4>1, <4>2
    <3> QED BY <3>2, <3>3
  <2>5. Append(whole, "cut") = [k \in 1..(Cap + 1) |-> IF k <= Cap THEN k ELSE "cut"]
    <3> DEFINE app == Append(whole, "cut")
               cut == [k \in 1..(Cap + 1) |-> IF k <= Cap THEN k ELSE "cut"]
    <3>1. \A k \in 1..(Cap + 1) : (IF k <= Cap THEN k ELSE "cut") \in Marks
      BY <1>0
    <3>2. cut \in Seq(Marks) /\ Len(cut) = Cap + 1
      BY <1>0, <3>1
    <3>3. \A k \in 1..(Cap + 1) : cut[k] = IF k <= Cap THEN k ELSE "cut"
      OBVIOUS
    <3>4. app \in Seq(Marks) /\ Len(app) = Len(cut) /\ \A k \in 1..Len(app) : app[k] = cut[k]
      BY <2>4, <3>2, <3>3
    <3> HIDE DEF app, cut, Marks
    <3>5. app = cut
      BY <3>2, <3>4, SeqEqual
    <3> QED BY <3>5 DEF app, cut
  <2>6. Beginning(n + 1) = [k \in 1..(Cap + 1) |-> IF k <= Cap THEN k ELSE "cut"]
    BY <1>0, <1>2 DEF Beginning
  <2>7. Keep(Beginning(n), n + 1) = Append(whole, "cut")
    BY <1>k, <2>2
  <2> QED BY <2>5, <2>6, <2>7
<1> QED BY <1>0, <1>1, <1>2

\* It is a sequence of characters, and perhaps the mark.
LEMMA BeginningTyped ==
  ASSUME NEW n \in Nat PROVE Beginning(n) \in Seq(Nat \cup {"cut"})
<1>0. Cap \in Nat  BY ToolAssumption
<1>1. CASE n <= Cap
  BY <1>1 DEF Beginning
<1>2. CASE ~(n <= Cap)
  <2>1. \A k \in 1..(Cap + 1) : (IF k <= Cap THEN k ELSE "cut") \in Nat \cup {"cut"}
    BY <1>0
  <2>2. Beginning(n) = [k \in 1..(Cap + 1) |-> IF k <= Cap THEN k ELSE "cut"]
    BY <1>2 DEF Beginning
  <2> QED BY <1>0, <2>1, <2>2
<1> QED BY <1>1, <1>2

\* No process has been made at first.
LEMMA ToolInitially == ToolInit => ToolInv
<1> SUFFICES ASSUME ToolInit PROVE ToolInv  OBVIOUS
<1> USE DEF ToolInit
<1>1. ToolTypeOK
  BY EmptySeq DEF ToolTypeOK
<1>2. Beginning(0) = << >>
  BY ToolAssumption DEF Beginning
<1>3. BuffersFollow
  BY <1>2 DEF BuffersFollow, Procs
<1>4. LimitsAreOpen /\ AnswersAreLast /\ AnswerIsDue /\ TerminalsReachable /\ EndsHaveStatus
  BY DEF LimitsAreOpen, AnswersAreLast, AnswerIsDue, TerminalsReachable, EndsHaveStatus, Waiting, Procs
<1> QED BY <1>1, <1>3, <1>4 DEF ToolInv

\* Nobody comes back to life, and an end is final.
ProcsGoOn ==
  /\ proc' \in [Procs -> {"none", "running", "ended"}]
  /\ status' \in [Procs -> {"none", "zero", "other", "signal"}]
  /\ \A p \in Procs :
       /\ proc[p] = "none" <=> proc'[p] = "none"
       /\ proc[p] = "ended" => proc'[p] = "ended" /\ status'[p] = status[p]
       /\ proc'[p] = "ended" => status'[p] # "none"

\* A step of the processes alone: what is drained stays so.
ProcessStep ==
  /\ ToolTypeOK' /\ ProcsGoOn
  /\ \A p \in Procs : Drained(p) => p \notin background' /\ wrote'[p] = wrote[p]

\* An end changes the ended process only.
LEMMA EndIsProcessStep ==
  ASSUME ToolInv, NEW p \in Procs, NEW how \in {"zero", "other", "signal"},
         proc[p] = "running" /\ End(p, how)
  PROVE  ProcsGoOn
BY DEF ToolInv, ToolTypeOK, EndsHaveStatus, End, ProcsGoOn

\* So does a SIGTERM, whatever the process makes of it.
LEMMA TerminateIsProcessStep ==
  ASSUME ToolInv, NEW p \in Procs, Terminate(p)
  PROVE  ProcsGoOn
<1>1. CASE \E how \in {"zero", "other", "signal"} : proc[p] = "running" /\ End(p, how)
  BY <1>1, EndIsProcessStep
<1>2. CASE UNCHANGED <<proc, status>>
  BY <1>2 DEF ToolInv, ToolTypeOK, EndsHaveStatus, ProcsGoOn
<1> QED BY <1>1, <1>2 DEF Terminate

\* Only what runs, or has left a job, writes.
LEMMA OutputIsProcessStep ==
  ASSUME ToolInv, NEW p \in Procs, NEW s \in Pipes, WriteChar(p, s) \/ (proc[p] = "running" /\ Output(p, s))
  PROVE  ProcessStep
<1>1. /\ proc[p] = "running" \/ p \in background
      /\ wrote' = [wrote EXCEPT ![p][s] = @ + 1]
      /\ UNCHANGED <<proc, status, background, taken, shell, terminal>>
  BY DEF WriteChar, Output
<1>2. ToolTypeOK'
  <2>1. wrote' \in [Procs -> [Pipes -> Nat]]
    BY <1>1 DEF ToolInv, ToolTypeOK
  <2> QED BY <1>1, <2>1 DEF ToolInv, ToolTypeOK, shell, terminal
<1> QED BY <1>1, <1>2 DEF ProcessStep, ProcsGoOn, Drained, ToolInv, ToolTypeOK, EndsHaveStatus

\* So what a process does by itself.
LEMMA LiveIsProcessStep ==
  ASSUME ToolInv, NEW p \in Procs, Live(p)
  PROVE  ProcessStep /\ UNCHANGED <<taken, shell, terminal>>
<1>1. ASSUME NEW s \in Pipes, WriteChar(p, s)
      PROVE  ProcessStep /\ UNCHANGED <<taken, shell, terminal>>
  BY <1>1, OutputIsProcessStep DEF WriteChar, Output
<1>2. ASSUME NEW how \in {"zero", "other", "signal"}, ProcessEnds(p, how)
      PROVE  ProcessStep /\ UNCHANGED <<taken, shell, terminal>>
  <2>1. ToolTypeOK'
    BY <1>2, EndIsProcessStep DEF ProcessEnds, ProcsGoOn, ToolInv, ToolTypeOK, shell, terminal
  <2> QED BY <1>2, <2>1, EndIsProcessStep DEF ProcessEnds, ProcessStep, Drained
<1>3. ASSUME LeaveJob(p) \/ JobEnds(p)
      PROVE  ProcessStep /\ UNCHANGED <<taken, shell, terminal>>
  BY <1>3 DEF LeaveJob, JobEnds, ProcessStep, ProcsGoOn, Drained, ToolInv, ToolTypeOK, EndsHaveStatus,
              shell, terminal
<1> QED BY <1>1, <1>2, <1>3 DEF Live

\* Such a step keeps what is known of answers and terminals while timers, readers
\* and names stay.
LEMMA ProcessStepKeeps ==
  ASSUME ToolInv, ProcessStep, UNCHANGED <<taken, shell, terminal>>
  PROVE  ToolInv'
<1> USE DEF shell, terminal
<1>1. BuffersFollow' /\ LimitsAreOpen'
  BY DEF ToolInv, ToolTypeOK, ProcessStep, ProcsGoOn, BuffersFollow, LimitsAreOpen, Procs
<1>2. AnswersAreLast'
  BY DEF ToolInv, ToolTypeOK, ProcessStep, ProcsGoOn, AnswersAreLast, Drained, Procs
<1>3. AnswerIsDue'
  BY DEF ToolInv, ToolTypeOK, ProcessStep, ProcsGoOn, AnswerIsDue, Waiting, Procs
<1>4. TerminalsReachable'
  BY ZenonT(60) DEF ToolInv, ToolTypeOK, ProcessStep, ProcsGoOn, TerminalsReachable, Procs
<1> QED BY <1>1, <1>2, <1>3, <1>4 DEF ProcessStep, ProcsGoOn, EndsHaveStatus, ToolInv

\* The buffers grow by what is read.
LEMMA ShellDataKeeps ==
  ASSUME ToolInv, NEW p \in Commands, NEW s \in Pipes, ShellData(p, s)
  PROVE  ToolInv'
<1>0. /\ p \in Procs /\ taken[p][s] < wrote[p][s] /\ taken[p][s] \in Nat
      /\ taken' = [taken EXCEPT ![p][s] = @ + 1]
      /\ kept' = [kept EXCEPT ![p][s] = Keep(@, taken'[p][s])]
      /\ UNCHANGED <<process, limit, kill, timedOut, result, terminal>>
  BY DEF ShellData, ToolInv, ToolTypeOK, Procs
<1>1. /\ taken'[p][s] = taken[p][s] + 1 /\ taken' \in [Procs -> [Pipes -> Nat]]
      /\ \A q \in Procs, z \in Pipes : q # p \/ z # s => taken'[q][z] = taken[q][z]
  BY <1>0 DEF ToolInv, ToolTypeOK
<1>2. kept'[p][s] = Beginning(taken'[p][s])
  <2>1. kept'[p][s] = Keep(kept[p][s], taken'[p][s])
    BY <1>0 DEF ToolInv, ToolTypeOK
  <2>2. kept[p][s] = Beginning(taken[p][s])
    BY DEF ToolInv, BuffersFollow
  <2> QED BY <1>0, <1>1, <2>1, <2>2, KeepExtends
<1>3. Beginning(taken'[p][s]) \in Seq(Nat \cup {"cut"})
  BY <1>0, <1>1, BeginningTyped
<1>4. \A q \in Commands, z \in Pipes : q # p \/ z # s => kept'[q][z] = kept[q][z]
  BY <1>0 DEF ToolInv, ToolTypeOK
<1>5. kept' \in [Commands -> [Pipes -> Seq(Nat \cup {"cut"})]]
  <2>1. Keep(kept[p][s], taken'[p][s]) \in Seq(Nat \cup {"cut"})
    BY <1>0, <1>2, <1>3 DEF ToolInv, ToolTypeOK
  <2> QED BY <1>0, <2>1 DEF ToolInv, ToolTypeOK
<1>6. ToolTypeOK'
  BY <1>0, <1>1, <1>5 DEF ToolInv, ToolTypeOK, process, terminal
<1>7. BuffersFollow'
  BY <1>1, <1>2, <1>4 DEF ToolInv, BuffersFollow, Procs
<1>8. LimitsAreOpen' /\ AnswerIsDue' /\ TerminalsReachable'
  BY <1>0 DEF ToolInv, LimitsAreOpen, AnswerIsDue, TerminalsReachable, Waiting, process, terminal
<1>9. AnswersAreLast'
  <2> SUFFICES ASSUME NEW q \in Commands, result'[q] \in {"zero", "other", "-2"}
               PROVE  /\ Drained(q)'
                      /\ result'[q] = "zero" => status'[q] = "zero" \/ (status'[q] = "signal" /\ q \notin timedOut')
                      /\ result'[q] = "-2" => q \in timedOut'
    BY DEF AnswersAreLast
  <2>1. UNCHANGED <<result, status, proc, background, wrote, timedOut>>
    BY <1>0 DEF process
  <2>2. Drained(q) /\ q \in Procs
    BY <2>1 DEF ToolInv, AnswersAreLast, Procs
  <2>3. q # p
    BY <1>0, <2>2 DEF Drained, ToolInv, ToolTypeOK
  <2>4. taken'[q] = taken[q]
    BY <1>0, <2>3
  <2> QED BY <2>1, <2>2, <2>4 DEF Drained, ToolInv, AnswersAreLast
<1> QED BY <1>0, <1>6, <1>7, <1>8, <1>9 DEF ToolInv, EndsHaveStatus, process

\* A process is made once; what there is of others stays.
LEMMA SpawnTyped ==
  ASSUME ToolInv, NEW p \in Procs, Spawn(p)
  PROVE  /\ proc[p] = "none" /\ proc' = [proc EXCEPT ![p] = "running"]
         /\ proc' \in [Procs -> {"none", "running", "ended"}]
         /\ UNCHANGED <<status, background, wrote, taken>>
         /\ \A q \in Commands : Drained(q) => q # p /\ Drained(q)'
BY DEF ToolInv, ToolTypeOK, Spawn, Drained, Procs

\* A command's own calls, timers and events keep the invariant.
LEMMA CommandKeeps ==
  ASSUME ToolInv, NEW p \in Commands,
         ShellExec(p) \/ SpawnFails(p) \/ LimitFires(p) \/ KillFires(p) \/ Close(p)
  PROVE  ToolInv'
<1>0. p \in Procs /\ p \notin Shells
  BY ToolAssumption DEF Procs
<1>1. CASE ShellExec(p)
  <2>1. /\ Spawn(p) /\ result[p] = "none" /\ limit' = limit \cup {p}
        /\ UNCHANGED <<kill, timedOut, kept, result, terminal>>
    BY <1>1 DEF ShellExec
  <2>2. ToolTypeOK'
    BY <1>0, <2>1, SpawnTyped DEF ToolInv, ToolTypeOK, terminal
  <2>3. BuffersFollow' /\ LimitsAreOpen' /\ AnswersAreLast'
    BY <1>0, <2>1, SpawnTyped
    DEF ToolInv, ToolTypeOK, BuffersFollow, LimitsAreOpen, AnswersAreLast, Procs
  <2>4. AnswerIsDue' /\ TerminalsReachable'
    BY <1>0, <2>1, SpawnTyped
    DEF ToolInv, ToolTypeOK, AnswerIsDue, Waiting, TerminalsReachable, terminal, Procs
  <2>5. EndsHaveStatus'
    BY <1>0, <2>1, SpawnTyped DEF ToolInv, ToolTypeOK, EndsHaveStatus
  <2> QED BY <2>2, <2>3, <2>4, <2>5 DEF ToolInv
<1>2. CASE SpawnFails(p)
  <2>1. /\ proc[p] = "none" /\ result[p] = "none" /\ result' = [result EXCEPT ![p] = "-1"]
        /\ UNCHANGED <<proc, status, background, wrote, taken, limit, kill, timedOut, kept,
                       session, signalled>>
    BY <1>2 DEF SpawnFails, process, terminal
  <2>2. ToolTypeOK'
    BY <2>1 DEF ToolInv, ToolTypeOK
  <2>3. BuffersFollow' /\ LimitsAreOpen' /\ AnswersAreLast' /\ AnswerIsDue' /\ TerminalsReachable'
    BY <2>1 DEF ToolInv, ToolTypeOK, BuffersFollow, LimitsAreOpen, AnswersAreLast, Drained,
                AnswerIsDue, Waiting, TerminalsReachable
  <2> QED BY <2>1, <2>2, <2>3 DEF ToolInv, EndsHaveStatus
<1>3. CASE LimitFires(p) \/ KillFires(p)
  <2>1. ProcsGoOn
    <3>1. CASE LimitFires(p)
      BY <1>0, <3>1, TerminateIsProcessStep DEF LimitFires
    <3>2. CASE KillFires(p)
      <4>1. CASE proc[p] = "running" /\ End(p, "signal")
        BY <1>0, <4>1, EndIsProcessStep
      <4>2. CASE UNCHANGED <<proc, status>>
        BY <4>2 DEF ToolInv, ToolTypeOK, EndsHaveStatus, ProcsGoOn
      <4> QED BY <3>2, <4>1, <4>2 DEF KillFires
    <3> QED BY <1>3, <3>1, <3>2
  <2>2. /\ limit' \subseteq limit /\ limit' \subseteq Commands /\ kill' \subseteq Commands
        /\ UNCHANGED <<background, wrote, taken, kept, result, session, signalled>>
        /\ \A q \in Commands : result[q] \in {"zero", "other", "-2"} =>
             (q \in timedOut' <=> q \in timedOut)
    BY <1>3 DEF LimitFires, KillFires, ToolInv, ToolTypeOK, LimitsAreOpen, terminal
  <2>3. ToolTypeOK' /\ BuffersFollow'
    BY <2>1, <2>2 DEF ProcsGoOn, ToolInv, ToolTypeOK, BuffersFollow
  <2>4. LimitsAreOpen' /\ AnswersAreLast'
    BY <2>1, <2>2 DEF ProcsGoOn, ToolInv, ToolTypeOK, LimitsAreOpen, AnswersAreLast, Drained, Procs
  <2>5. AnswerIsDue'
    <3>1. CASE LimitFires(p)
      BY <2>1, <2>2, <3>1 DEF ProcsGoOn, LimitFires, ToolInv, AnswerIsDue, Waiting, Procs
    <3>2. CASE KillFires(p)
      <4>1. proc'[p] # "running"
        BY <1>0, <3>2 DEF KillFires, End, ToolInv, ToolTypeOK
      <4>2. \A q \in Commands : q # p => (q \in limit' \cup kill' <=> q \in limit \cup kill)
        BY <3>2 DEF KillFires
      <4>3. \A q \in Procs : proc'[q] \in {"none", "running", "ended"}
        BY <2>1 DEF ProcsGoOn
      <4> QED BY <1>0, <2>1, <2>2, <4>1, <4>2, <4>3 DEF ProcsGoOn, ToolInv, AnswerIsDue, Waiting, Procs
    <3> QED BY <1>3, <3>1, <3>2
  <2>6. TerminalsReachable'
    BY <2>1, <2>2 DEF ProcsGoOn, ToolInv, ToolTypeOK, TerminalsReachable, Procs
  <2> QED BY <2>1, <2>3, <2>4, <2>5, <2>6 DEF ToolInv, ProcsGoOn, EndsHaveStatus
<1>4. CASE Close(p)
  <2>1. /\ Waiting(p) /\ Drained(p) /\ limit' = limit \ {p}
        /\ result' = [result EXCEPT ![p] = ExitCode(p)]
        /\ UNCHANGED <<proc, status, background, wrote, taken, kill, timedOut, kept, session, signalled>>
    BY <1>4 DEF Close, process, terminal
  <2>2. status[p] # "none"
    BY <1>0, <2>1 DEF ToolInv, EndsHaveStatus, Drained
  <2>3. /\ ExitCode(p) \in {"zero", "other", "-2"}
        /\ ExitCode(p) = "zero" => status[p] = "zero" \/ (status[p] = "signal" /\ p \notin timedOut)
        /\ ExitCode(p) = "-2" => p \in timedOut
    BY <1>0, <2>2 DEF ExitCode, ToolInv, ToolTypeOK
  <2>4. ToolTypeOK'
    BY <2>1, <2>3 DEF ToolInv, ToolTypeOK
  <2>5. BuffersFollow' /\ LimitsAreOpen' /\ AnswerIsDue' /\ TerminalsReachable'
    BY <2>1, <2>3 DEF ToolInv, ToolTypeOK, BuffersFollow, LimitsAreOpen, AnswerIsDue, Waiting,
                      TerminalsReachable
  <2>6. AnswersAreLast'
    BY <2>1, <2>3 DEF ToolInv, ToolTypeOK, AnswersAreLast, Drained
  <2> QED BY <2>1, <2>4, <2>5, <2>6 DEF ToolInv, EndsHaveStatus
<1> QED BY <1>1, <1>2, <1>3, <1>4

\* The output of terminals leaves commands alone.
LEMMA OutputIsTaken ==
  ASSUME ToolInv, NEW p \in Shells, NEW s \in Pipes, TerminalData(p, s)
  PROVE  ToolInv'
<1>0. p \in Procs /\ p \notin Commands
  BY ToolAssumption DEF Procs
<1>1. /\ taken' = [taken EXCEPT ![p][s] = @ + 1]
      /\ UNCHANGED <<process, shell, session, signalled>>
  BY DEF TerminalData
<1>2. /\ taken' \in [Procs -> [Pipes -> Nat]]
      /\ \A q \in Commands : taken'[q] = taken[q]
  BY <1>0, <1>1 DEF ToolInv, ToolTypeOK, Procs
<1> QED BY <1>1, <1>2
  DEF ToolInv, ToolTypeOK, BuffersFollow, LimitsAreOpen, AnswersAreLast, Drained, EndsHaveStatus,
      AnswerIsDue, Waiting, TerminalsReachable, process, shell

\* A new shell has its name from the start.
LEMMA CreateKeeps ==
  ASSUME ToolInv, NEW p \in Shells, NEW i \in Terminals, Create(i, p)
  PROVE  ToolInv'
<1>0. p \in Procs /\ p \notin Commands
  BY ToolAssumption DEF Procs
<1>1. /\ session[i] = "none" /\ Spawn(p) /\ session' = [session EXCEPT ![i] = p]
      /\ UNCHANGED <<limit, kill, timedOut, kept, result, signalled>>
  BY DEF Create, shell
<1>2. ToolTypeOK' /\ EndsHaveStatus'
  BY <1>0, <1>1, SpawnTyped DEF ToolInv, ToolTypeOK, EndsHaveStatus
<1>3. \A q \in Commands : q \in Procs /\ proc'[q] = proc[q]
  BY <1>0, <1>1, SpawnTyped DEF ToolInv, ToolTypeOK, Procs
<1>5. UNCHANGED <<status, background, wrote, taken>>
  BY <1>0, <1>1, SpawnTyped
<1>6. BuffersFollow' /\ LimitsAreOpen' /\ AnswerIsDue'
  BY <1>1, <1>3, <1>5 DEF ToolInv, ToolTypeOK, BuffersFollow, LimitsAreOpen, AnswerIsDue, Waiting
<1>7. AnswersAreLast'
  BY <1>1, <1>3, <1>5 DEF ToolInv, AnswersAreLast, Drained
<1>4. TerminalsReachable'
  <2> SUFFICES ASSUME NEW q \in Shells, proc'[q] = "running"
               PROVE  q \in signalled' \/ \E j \in Terminals : session'[j] = q
    BY DEF TerminalsReachable
  <2>1. CASE q = p  BY <1>1, <2>1 DEF ToolInv, ToolTypeOK
  <2>2. CASE q # p
    <3>1. proc[q] = "running"
      BY <1>0, <1>1, <2>2, SpawnTyped DEF ToolInv, ToolTypeOK, Procs
    <3>2. q # "none"
      BY ToolAssumption
    <3> QED BY <1>1, <3>1, <3>2 DEF ToolInv, ToolTypeOK, TerminalsReachable
  <2> QED BY <2>1, <2>2
<1> QED BY <1>2, <1>4, <1>6, <1>7 DEF ToolInv

\* A shell whose name is taken away has been signalled.
LEMMA KillKeeps ==
  ASSUME ToolInv, NEW i \in Terminals, KillTerminal(i)
  PROVE  ToolInv'
<1> DEFINE p == session[i]
<1>1. /\ p # "none" /\ Terminate(p)
      /\ signalled' = signalled \cup {p}
      /\ session' = [session EXCEPT ![i] = "none"]
      /\ UNCHANGED <<background, wrote, taken, limit, kill, timedOut, kept, result>>
  BY DEF KillTerminal, shell
<1>2. ProcsGoOn
  BY <1>1, TerminateIsProcessStep DEF ToolInv, ToolTypeOK, Procs
<1>3. ToolTypeOK' /\ EndsHaveStatus'
  BY <1>1, <1>2 DEF ToolInv, ToolTypeOK, EndsHaveStatus, ProcsGoOn
<1>4. BuffersFollow' /\ LimitsAreOpen' /\ AnswersAreLast' /\ AnswerIsDue'
  BY <1>1, <1>2
  DEF ToolInv, ToolTypeOK, ProcsGoOn, BuffersFollow, LimitsAreOpen, AnswersAreLast, Drained,
      AnswerIsDue, Waiting, Procs
<1>5. TerminalsReachable'
  <2> SUFFICES ASSUME NEW q \in Shells, proc'[q] = "running"
               PROVE  q \in signalled' \/ \E j \in Terminals : session'[j] = q
    BY DEF TerminalsReachable
  <2>1. proc[q] = "running"
    BY <1>2 DEF ToolInv, ToolTypeOK, ProcsGoOn, Procs
  <2> QED BY <1>1, <2>1 DEF ToolInv, ToolTypeOK, TerminalsReachable
<1> QED BY <1>3, <1>4, <1>5 DEF ToolInv

\* What a terminal shows of a process concerns nobody else.
LEMMA SeenKeeps ==
  ASSUME ToolInv, UNCHANGED <<process, taken, shell, session, signalled>>
  PROVE  ToolInv'
BY DEF ToolInv, ToolTypeOK, BuffersFollow, LimitsAreOpen, AnswersAreLast, Drained, EndsHaveStatus,
       AnswerIsDue, Waiting, TerminalsReachable, process, shell

\* Every step keeps the invariant.
LEMMA ToolKeeps == ToolInv /\ [CommandNext \/ TerminalNext]_toolVars => ToolInv'
<1> SUFFICES ASSUME ToolInv, [CommandNext \/ TerminalNext]_toolVars PROVE ToolInv'
  OBVIOUS
<1>1. ASSUME NEW p \in Procs, Live(p) PROVE ToolInv'
  BY <1>1, LiveIsProcessStep, ProcessStepKeeps
<1>2. CASE CommandNext
  BY <1>1, <1>2, ShellDataKeeps, CommandKeeps DEF CommandNext, Procs
<1>3. ASSUME NEW i \in Terminals, NEW s \in Pipes, Send(i, s) PROVE ToolInv'
  <2>1. /\ session[i] # "none" /\ proc[session[i]] = "running"
        /\ Output(session[i], s)
    BY <1>3 DEF Send
  <2>2. session[i] \in Procs
    BY <2>1 DEF ToolInv, ToolTypeOK, Procs
  <2> QED BY <2>1, <2>2, OutputIsProcessStep, ProcessStepKeeps DEF Output
<1>4. CASE TerminalNext
  <2>1. ASSUME NEW p \in Shells, Live(p) \/ ExitSeen(p) PROVE ToolInv'
    BY <1>1, <2>1, SeenKeeps DEF ExitSeen, Procs
  <2>2. ASSUME NEW p \in Shells, NEW s \in Pipes, TerminalData(p, s) PROVE ToolInv'
    BY <2>2, OutputIsTaken
  <2>3. ASSUME NEW p \in Shells, NEW i \in Terminals, Create(i, p) PROVE ToolInv'
    BY <2>3, CreateKeeps
  <2>4. ASSUME NEW i \in Terminals, ReadTerminal(i) \/ KillTerminal(i) PROVE ToolInv'
    BY <2>4, SeenKeeps, KillKeeps DEF ReadTerminal
  <2> QED BY <1>3, <1>4, <2>1, <2>2, <2>3, <2>4 DEF TerminalNext
<1>5. CASE UNCHANGED toolVars
  BY <1>5, SeenKeeps DEF toolVars, terminal
<1> QED BY <1>2, <1>4, <1>5

\* A command, its timers, buffers and answer agree, and so do a terminal and its
\* name (ToolProcesses).
THEOREM ToolInvariant == ToolSpec => []ToolInv
BY ToolInitially, ToolKeeps, PTL DEF ToolSpec

\* For any number of commands and terminals and any limit on what is kept, no tool
\* forgets a process that runs, and the answer of a command is the beginning of what
\* it wrote and the way it ended.
THEOREM ToolsAreTrue == ToolSpec => []ToolsAnswerTruly
<1>1. ToolInv => ToolsAnswerTruly
  <2> SUFFICES ASSUME ToolInv PROVE ToolsAnswerTruly  OBVIOUS
  <2>1. ASSUME NEW p \in Commands, result[p] \in {"zero", "other", "-2"}, NEW s \in Pipes
        PROVE  kept[p][s] = IF wrote[p][s] <= Cap THEN [k \in 1..wrote[p][s] |-> k]
                            ELSE [k \in 1..(Cap + 1) |-> IF k <= Cap THEN k ELSE "cut"]
    <3>1. taken[p][s] = wrote[p][s]
      BY <2>1 DEF ToolInv, AnswersAreLast, Drained
    <3>2. kept[p][s] = Beginning(taken[p][s])
      BY DEF ToolInv, BuffersFollow
    <3> QED BY <3>1, <3>2 DEF Beginning
  <2>2. ResultIsTrue
    BY <2>1 DEF ResultIsTrue, ToolInv, AnswersAreLast
  <2> QED BY <2>2 DEF ToolsAnswerTruly, NothingForgotten, ToolInv
<1> QED BY <1>1, ToolInvariant, PTL

-----------------------------------------------------------------------------
(* Select, and sequences.                                                  *)

\* Induction, for a set of numbers.
LEMMA Inductive ==
  ASSUME NEW T \in SUBSET Nat, 0 \in T, \A n \in T : n + 1 \in T
  PROVE  T = Nat
<1> SUFFICES ASSUME T # Nat PROVE FALSE
  OBVIOUS
<1> DEFINE U == Nat \ T
<1>1. U # {} /\ U \subseteq Nat
  OBVIOUS
<1>2. PICK x \in U : \A y \in U : ~ (<<y, x>> \in OpToRel(<, Nat))
  BY <1>1, NatLessThanWellFounded, WFMin
<1>3. x # 0 /\ x - 1 \in Nat
  OBVIOUS
<1>4. x - 1 \in U
  BY <1>3
<1>5. <<x - 1, x>> \in OpToRel(<, Nat)
  BY <1>3 DEF OpToRel
<1> QED
  BY <1>2, <1>4, <1>5

\* f selects the elements of s that are in S, up to each place.
Selects(f, s, S) ==
  /\ DOMAIN f = 0..Len(s)
  /\ f[0] = << >>
  /\ \A n \in 1..Len(s) : f[n] = IF s[n] \in S THEN Append(f[n - 1], s[n]) ELSE f[n - 1]

\* There is such a function.
LEMMA SelectsExists ==
  ASSUME NEW T, NEW s \in Seq(T), NEW S
  PROVE  \E f \in [0..Len(s) -> Seq(T)] : Selects(f, s, S)
<1> DEFINE N == Len(s)
           Good(f, m) == /\ f[0] = << >>
                         /\ \A n \in 1..N : n <= m =>
                              f[n] = IF s[n] \in S THEN Append(f[n - 1], s[n]) ELSE f[n - 1]
           M == {m \in Nat : \E f \in [0..N -> Seq(T)] : Good(f, m)}
<1>0. N \in Nat
  BY LenProperties
<1>1. 0 \in M
  <2>1. [n \in 0..N |-> << >>] \in [0..N -> Seq(T)]
    BY EmptySeq
  <2>2. Good([n \in 0..N |-> << >>], 0)
    BY <1>0
  <2> QED
    BY <2>1, <2>2
<1>2. ASSUME NEW m \in M PROVE m + 1 \in M
  <2>1. PICK f \in [0..N -> Seq(T)] : Good(f, m)
    BY <1>2
  <2>2. CASE m + 1 > N
    <3>1. Good(f, m + 1)
      BY <1>0, <2>1, <2>2
    <3> QED
      BY <3>1
  <2>3. CASE m + 1 <= N
    <3> DEFINE x == IF s[m + 1] \in S THEN Append(f[m], s[m + 1]) ELSE f[m]
               g == [f EXCEPT ![m + 1] = x]
    <3>0. m \in Nat /\ m + 1 \in 1..N /\ m \in 0..N /\ m + 1 \in 0..N
      BY <1>0, <2>3
    <3>1. s[m + 1] \in T /\ f[m] \in Seq(T)
      BY <3>0, ElementOfSeq
    <3>2. x \in Seq(T)
      BY <3>1, AppendProperties
    <3> HIDE DEF x
    <3>3. g \in [0..N -> Seq(T)]
      BY <3>2
    <3>4. g[m + 1] = x /\ \A k \in 0..N : k # m + 1 => g[k] = f[k]
      BY <3>0
    <3> HIDE DEF g
    <3>5. g[0] = << >>
      <4>1. 0 \in 0..N /\ 0 # m + 1
        BY <1>0, <3>0
      <4> QED
        BY <2>1, <3>4, <4>1
    <3>6. ASSUME NEW n \in 1..N, n <= m + 1
          PROVE  g[n] = IF s[n] \in S THEN Append(g[n - 1], s[n]) ELSE g[n - 1]
      <4>1. n - 1 \in 0..N /\ n - 1 # m + 1 /\ n \in 0..N
        BY <1>0, <3>0, <3>6
      <4>2. g[n - 1] = f[n - 1]
        BY <3>4, <4>1
      <4>3. CASE n = m + 1
        <5>1. n - 1 = m
          BY <3>0, <4>3
        <5> QED
          BY <3>4, <4>2, <4>3, <5>1 DEF x
      <4>4. CASE n # m + 1
        <5>1. n <= m
          BY <3>0, <3>6, <4>4
        <5>2. f[n] = IF s[n] \in S THEN Append(f[n - 1], s[n]) ELSE f[n - 1]
          BY <2>1, <5>1
        <5> QED
          BY <3>4, <4>1, <4>2, <4>4, <5>2
      <4> QED
        BY <4>3, <4>4
    <3> QED
      BY SMTT(60), <3>0, <3>3, <3>5, <3>6
  <2> QED
    BY <1>0, <2>2, <2>3
<1>3. N \in M
  <2> HIDE DEF M
  <2>1. M \in SUBSET Nat
    BY DEF M
  <2> QED
    BY <1>0, <1>1, <1>2, <2>1, Inductive
<1>4. PICK f \in [0..N -> Seq(T)] : Good(f, N)
  BY <1>3
<1>5. Selects(f, s, S)
  BY <1>0, <1>4 DEF Selects
<1> QED
  BY <1>4, <1>5

\* Select(s, S) is the last of such a function.
LEMMA SelectIsLast ==
  ASSUME NEW T, NEW s \in Seq(T), NEW S
  PROVE  \E f : Selects(f, s, S) /\ Select(s, S) = f[Len(s)]
<1> DEFINE Step(f, n) == IF n = 0 THEN << >>
                         ELSE IF s[n] \in S THEN Append(f[n - 1], s[n]) ELSE f[n - 1]
           Fixed(f) == f = [n \in 0..Len(s) |-> Step(f, n)]
<1>0. Len(s) \in Nat
  BY LenProperties
<1>1. PICK g \in [0..Len(s) -> Seq(T)] : Selects(g, s, S)
  BY SelectsExists
<1>2. Fixed(g)
  <2>1. \A n \in 0..Len(s) : g[n] = Step(g, n)
    <3> SUFFICES ASSUME NEW n \in 0..Len(s) PROVE g[n] = Step(g, n)
      OBVIOUS
    <3>1. CASE n = 0
      BY <1>1, <3>1 DEF Selects
    <3>2. CASE n # 0
      <4>1. n \in 1..Len(s)
        BY <1>0, <3>2
      <4> QED
        BY ZenonT(60), <1>1, <3>2, <4>1 DEF Selects
    <3> QED
      BY <3>1, <3>2
  <2> QED
    BY <2>1
<1> DEFINE h == CHOOSE f : Fixed(f)
<1>3. Fixed(h)
  BY ZenonT(60), <1>2
<1>4. Select(s, S) = h[Len(s)]
  BY DEF Select
<1> HIDE DEF h
<1>5. Selects(h, s, S)
  <2>1. DOMAIN h = 0..Len(s) /\ \A n \in 0..Len(s) : h[n] = Step(h, n)
    <3>1. DOMAIN [n \in 0..Len(s) |-> Step(h, n)] = 0..Len(s)
      OBVIOUS
    <3>2. \A n \in 0..Len(s) : [k \in 0..Len(s) |-> Step(h, k)][n] = Step(h, n)
      OBVIOUS
    <3> HIDE DEF Step
    <3> QED
      BY <1>3, <3>1, <3>2
  <2>2. h[0] = << >>
    BY <1>0, <2>1
  <2>3. ASSUME NEW n \in 1..Len(s)
        PROVE  h[n] = IF s[n] \in S THEN Append(h[n - 1], s[n]) ELSE h[n - 1]
    <3>1. n # 0 /\ n \in 0..Len(s)
      BY <1>0
    <3> QED
      BY <2>1, <3>1
  <2> QED
    BY <2>1, <2>2, <2>3 DEF Selects
<1> QED
  BY <1>4, <1>5

\* r has the elements of s up to n that are in S, each from its place.
Places0(place, r, s, n, S) ==
  /\ place \in [1..Len(r) -> 1..n]
  /\ \A j, k \in 1..Len(r) : j < k => place[j] < place[k]
  /\ \A k \in 1..Len(r) : r[k] = s[place[k]]
  /\ \A i \in 1..n : s[i] \in S => \E k \in 1..Len(r) : place[k] = i

\* An element more.
LEMMA OneMore ==
  ASSUME NEW T, NEW s \in Seq(T), NEW S, NEW n \in Nat, n + 1 \in 1..Len(s),
         NEW r \in Seq(T \cap S), NEW place, Places0(place, r, s, n, S)
  PROVE  \E q \in Seq(T \cap S) : \E after :
           /\ q = IF s[n + 1] \in S THEN Append(r, s[n + 1]) ELSE r
           /\ Places0(after, q, s, n + 1, S)
<1>0. s[n + 1] \in T /\ Len(r) \in Nat
  BY ElementOfSeq, LenProperties
<1>1. CASE s[n + 1] \in S
  <2> DEFINE q == Append(r, s[n + 1])
             after == [k \in 1..(Len(r) + 1) |-> IF k <= Len(r) THEN place[k] ELSE n + 1]
  <2>1. /\ q \in Seq(T \cap S) /\ Len(q) = Len(r) + 1 /\ q[Len(r) + 1] = s[n + 1]
        /\ \A k \in 1..Len(r) : q[k] = r[k]
    BY <1>0, <1>1, AppendProperties
  <2>2. /\ after[Len(r) + 1] = n + 1
        /\ \A k \in 1..Len(r) : after[k] = place[k] /\ place[k] \in 1..n
        /\ DOMAIN after = 1..(Len(r) + 1)
    <3>1. \A k \in 1..Len(r) : place[k] \in 1..n
      BY DEF Places0
    <3>2. Len(r) + 1 \in 1..(Len(r) + 1) /\ ~ (Len(r) + 1 <= Len(r))
      BY <1>0
    <3>3. \A k \in 1..Len(r) : k \in 1..(Len(r) + 1) /\ k <= Len(r)
      BY <1>0
    <3> QED
      BY <3>1, <3>2, <3>3
  <2>2a. after \in [1..(Len(r) + 1) -> 1..(n + 1)]
    BY <1>0 DEF Places0
  <2> HIDE DEF q, after
  <2>3. \A k \in 1..(Len(r) + 1) : k \in 1..Len(r) \/ k = Len(r) + 1
    BY <1>0
  <2>5. \A j, k \in 1..Len(q) : j < k => after[j] < after[k]
    <3> SUFFICES ASSUME NEW j \in 1..(Len(r) + 1), NEW k \in 1..(Len(r) + 1), j < k
                 PROVE  after[j] < after[k]
      BY <2>1
    <3>1. j \in 1..Len(r)
      BY <1>0
    <3>2. CASE k = Len(r) + 1
      BY <2>2, <3>1, <3>2
    <3>3. CASE k \in 1..Len(r)
      BY <2>2, <3>1, <3>3 DEF Places0
    <3> QED
      BY <2>3, <3>2, <3>3
  <2>6. \A k \in 1..Len(q) : q[k] = s[after[k]]
    <3> SUFFICES ASSUME NEW k \in 1..(Len(r) + 1) PROVE q[k] = s[after[k]]
      BY <2>1
    <3>1. CASE k = Len(r) + 1
      BY <2>1, <2>2, <3>1
    <3>2. CASE k \in 1..Len(r)
      BY <2>1, <2>2, <3>2 DEF Places0
    <3> QED
      BY <2>3, <3>1, <3>2
  <2>7. \A i \in 1..(n + 1) : s[i] \in S => \E k \in 1..Len(q) : after[k] = i
    <3> SUFFICES ASSUME NEW i \in 1..(n + 1), s[i] \in S
                 PROVE  \E k \in 1..(Len(r) + 1) : after[k] = i
      BY <2>1
    <3>1. CASE i = n + 1
      <4>1. Len(r) + 1 \in 1..(Len(r) + 1)
        BY <1>0
      <4> QED
        BY <2>2, <3>1, <4>1
    <3>2. CASE i \in 1..n
      <4>1. PICK k \in 1..Len(r) : place[k] = i
        BY <3>2 DEF Places0
      <4>2. k \in 1..(Len(r) + 1)
        BY <1>0
      <4> QED
        BY <2>2, <4>1, <4>2
    <3> QED
      BY <3>1, <3>2
  <2>8. Places0(after, q, s, n + 1, S)
    BY <2>1, <2>2a, <2>5, <2>6, <2>7 DEF Places0
  <2> QED
    BY <1>1, <2>1, <2>8 DEF q
<1>2. CASE s[n + 1] \notin S
  <2>1. place \in [1..Len(r) -> 1..(n + 1)]
    BY DEF Places0
  <2>2. \A i \in 1..(n + 1) : s[i] \in S => i \in 1..n
    BY <1>2
  <2>3. Places0(place, r, s, n + 1, S)
    BY <2>1, <2>2 DEF Places0
  <2> QED
    BY <1>2, <2>3
<1> QED
  BY <1>1, <1>2

\* What Select returns: elements of s that are in S, all of them, in their order.
LEMMA SelectPlaces ==
  ASSUME NEW T, NEW s \in Seq(T), NEW S
  PROVE  /\ Select(s, S) \in Seq(T \cap S)
         /\ \E place : Places0(place, Select(s, S), s, Len(s), S)
<1>0. Len(s) \in Nat
  BY LenProperties
<1>1. PICK f : Selects(f, s, S) /\ Select(s, S) = f[Len(s)]
  BY SelectIsLast
<1> DEFINE M == {n \in Nat : n <= Len(s) =>
             f[n] \in Seq(T \cap S) /\ \E place : Places0(place, f[n], s, n, S)}
<1>2. 0 \in M
  <2>1. << >> \in Seq(T \cap S) /\ Len(<< >>) = 0
    BY EmptySeq
  <2>2. Places0([k \in 1..0 |-> 1], << >>, s, 0, S)
    BY <2>1 DEF Places0
  <2> QED
    BY <1>1, <2>1, <2>2 DEF Selects
<1>3. ASSUME NEW n \in M PROVE n + 1 \in M
  <2> SUFFICES ASSUME n + 1 <= Len(s)
               PROVE  f[n + 1] \in Seq(T \cap S) /\ \E place : Places0(place, f[n + 1], s, n + 1, S)
    OBVIOUS
  <2>1. n \in Nat /\ n <= Len(s) /\ n + 1 \in 1..Len(s) /\ (n + 1) - 1 = n
    BY <1>0
  <2>2. f[n] \in Seq(T \cap S) /\ \E place : Places0(place, f[n], s, n, S)
    BY <2>1
  <2>3. f[n + 1] = IF s[n + 1] \in S THEN Append(f[n], s[n + 1]) ELSE f[n]
    BY <1>1, <2>1 DEF Selects
  <2>4. PICK place : Places0(place, f[n], s, n, S)
    BY <2>2
  <2>5. n + 1 \in 1..Len(s) /\ f[n] \in Seq(T \cap S) /\ n \in Nat
    BY <2>1, <2>2
  <2>6. PICK q \in Seq(T \cap S) : \E after :
           /\ q = IF s[n + 1] \in S THEN Append(f[n], s[n + 1]) ELSE f[n]
           /\ Places0(after, q, s, n + 1, S)
    BY <2>4, <2>5, OneMore
  <2>7. f[n + 1] = q
    BY <2>3, <2>6
  <2> QED
    BY <2>6, <2>7
<1>4. Len(s) \in M
  <2> HIDE DEF M
  <2>1. M \in SUBSET Nat
    BY DEF M
  <2> QED
    BY <1>0, <1>2, <1>3, <2>1, Inductive
<1> QED
  BY <1>0, <1>1, <1>4

\* An element at the end is selected or not, after those before it.
LEMMA SelectAppend ==
  ASSUME NEW T, NEW s \in Seq(T), NEW x \in T, NEW S
  PROVE  Select(Append(s, x), S) = IF x \in S THEN Append(Select(s, S), x) ELSE Select(s, S)
<1> DEFINE t == Append(s, x)
<1>0. /\ Len(s) \in Nat /\ t \in Seq(T) /\ Len(t) = Len(s) + 1 /\ t[Len(s) + 1] = x
      /\ \A n \in 1..Len(s) : t[n] = s[n]
  BY LenProperties, AppendProperties
<1> HIDE DEF t
<1>1. PICK f : Selects(f, s, S) /\ Select(s, S) = f[Len(s)]
  BY SelectIsLast
<1>2. PICK g : Selects(g, t, S) /\ Select(t, S) = g[Len(t)]
  BY <1>0, SelectIsLast
<1> DEFINE M == {n \in Nat : n <= Len(s) => f[n] = g[n]}
<1>3. 0 \in M
  BY <1>1, <1>2 DEF Selects
<1>4. ASSUME NEW n \in M PROVE n + 1 \in M
  <2> SUFFICES ASSUME n + 1 <= Len(s) PROVE f[n + 1] = g[n + 1]
    OBVIOUS
  <2>1. n \in Nat /\ n + 1 \in 1..Len(s) /\ n + 1 \in 1..Len(t) /\ (n + 1) - 1 = n /\ f[n] = g[n]
    BY <1>0
  <2>2. f[n + 1] = IF s[n + 1] \in S THEN Append(f[n], s[n + 1]) ELSE f[n]
    BY <1>1, <2>1 DEF Selects
  <2>3. g[n + 1] = IF t[n + 1] \in S THEN Append(g[n], t[n + 1]) ELSE g[n]
    BY <1>2, <2>1 DEF Selects
  <2>4. t[n + 1] = s[n + 1]
    BY <1>0, <2>1
  <2> QED
    BY <2>1, <2>2, <2>3, <2>4
<1>5. Len(s) \in M
  <2> HIDE DEF M
  <2>1. M \in SUBSET Nat
    BY DEF M
  <2> QED
    BY <1>0, <1>3, <1>4, <2>1, Inductive
<1>6. f[Len(s)] = g[Len(s)]
  BY <1>0, <1>5
<1>7. Len(s) + 1 \in 1..Len(t) /\ (Len(s) + 1) - 1 = Len(s)
  BY <1>0
<1>8. g[Len(t)] = IF x \in S THEN Append(g[Len(s)], x) ELSE g[Len(s)]
  BY <1>0, <1>2, <1>7 DEF Selects
<1> QED
  BY <1>1, <1>2, <1>6, <1>8 DEF t

\* A sequence is a prefix of another when that has the same elements as far as it goes.
LEMMA PrefixBy ==
  ASSUME NEW S, NEW a \in Seq(S), NEW b \in Seq(S), Len(a) <= Len(b),
         \A k \in 1..Len(a) : a[k] = b[k]
  PROVE  IsPrefix(a, b)
<1>0. Len(a) \in Nat /\ Len(b) \in Nat
  BY LenProperties
<1>1. \A k \in 1..Len(a) : a[k] \in S /\ b[k] \in S
  BY <1>0, ElementOfSeq
<1>2. /\ SubSeq(a, 1, Len(a)) \in Seq(S) /\ SubSeq(b, 1, Len(a)) \in Seq(S)
      /\ Len(SubSeq(a, 1, Len(a))) = Len(SubSeq(b, 1, Len(a)))
  BY <1>0, <1>1, SubSeqProperties
<1>3. \A k \in 1..(Len(a) - 1 + 1) : SubSeq(a, 1, Len(a))[k] = a[1 + k - 1] /\ SubSeq(b, 1, Len(a))[k] = b[1 + k - 1]
  BY <1>0, <1>1, SubSeqProperties
<1>4. \A k \in 1..Len(a) : SubSeq(a, 1, Len(a))[k] = SubSeq(b, 1, Len(a))[k]
  <2> SUFFICES ASSUME NEW k \in 1..Len(a) PROVE SubSeq(a, 1, Len(a))[k] = SubSeq(b, 1, Len(a))[k]
    OBVIOUS
  <2>1. k \in 1..(Len(a) - 1 + 1) /\ 1 + k - 1 = k
    BY <1>0
  <2> QED
    BY <1>3, <2>1
<1>5. Len(SubSeq(a, 1, Len(a))) = Len(a)
  <2>1. Len(SubSeq(a, 1, Len(a))) = IF 1 <= Len(a) THEN Len(a) - 1 + 1 ELSE 0
    BY <1>0, <1>1, SubSeqProperties
  <2> QED
    BY <1>0, <2>1
<1>6. SubSeq(a, 1, Len(a)) = SubSeq(b, 1, Len(a))
  BY <1>2, <1>4, <1>5, SeqEqual
<1> QED
  BY <1>6 DEF IsPrefix

\* All but the last.
LEMMA FrontProperties ==
  ASSUME NEW S, NEW s \in Seq(S), s # << >>
  PROVE  /\ Front(s) \in Seq(S) /\ Len(Front(s)) = Len(s) - 1
         /\ \A k \in 1..(Len(s) - 1) : Front(s)[k] = s[k]
         /\ Len(s) \in Nat /\ Len(s) > 0 /\ Last(s) = s[Len(s)] /\ Last(s) \in S
<1>0. Len(s) \in Nat /\ Len(s) > 0
  BY LenProperties, EmptySeq
<1>1. \A k \in 1..(Len(s) - 1) : s[k] \in S
  BY <1>0, ElementOfSeq
<1>2. /\ Front(s) \in Seq(S)
      /\ Len(Front(s)) = IF 1 <= Len(s) - 1 THEN Len(s) - 1 - 1 + 1 ELSE 0
      /\ \A k \in 1..(Len(s) - 1 - 1 + 1) : Front(s)[k] = s[1 + k - 1]
  BY <1>0, <1>1, SubSeqProperties DEF Front
<1>3. Len(Front(s)) = Len(s) - 1
  <2>1. \A n \in Nat : n > 0 => (IF 1 <= n - 1 THEN n - 1 - 1 + 1 ELSE 0) = n - 1
    OBVIOUS
  <2> QED
    BY <1>0, <1>2, <2>1
<1>4. \A k \in 1..(Len(s) - 1) : Front(s)[k] = s[k]
  <2> SUFFICES ASSUME NEW k \in 1..(Len(s) - 1) PROVE Front(s)[k] = s[k]
    OBVIOUS
  <2>1. k \in 1..(Len(s) - 1 - 1 + 1) /\ 1 + k - 1 = k
    BY <1>0
  <2> QED
    BY <1>2, <2>1
<1>5. Last(s) = s[Len(s)] /\ Last(s) \in S
  BY <1>0, ElementOfSeq DEF Last
<1> QED
  BY <1>0, <1>2, <1>3, <1>4, <1>5

\* A sequence of numbers, each greater than those before it.
Increasing(s) == \A i, j \in 1..Len(s) : i < j => s[i] < s[j]

\* An increasing sequence of elements of another, with all that come before them, is a
\* prefix of that.
LEMMA IncreasingPrefix ==
  ASSUME NEW a \in Seq(Nat), NEW b \in Seq(Nat), Increasing(a), Increasing(b),
         \A i \in 1..Len(a) : \E j \in 1..Len(b) : a[i] = b[j],
         \A i \in 1..Len(a), j \in 1..Len(b) : b[j] < a[i] => \E k \in 1..Len(a) : a[k] = b[j]
  PROVE  IsPrefix(a, b)
<1>0. /\ Len(a) \in Nat /\ Len(b) \in Nat
      /\ \A i \in 1..Len(a) : a[i] \in Nat
      /\ \A j \in 1..Len(b) : b[j] \in Nat
  BY LenProperties, ElementOfSeq
<1> DEFINE Same(i) == i \in 1..Len(b) /\ a[i] = b[i]
           M == {n \in Nat : \A i \in 1..Len(a) : i <= n => Same(i)}
<1>1. 0 \in M
  BY <1>0
<1>2. ASSUME NEW n \in M PROVE n + 1 \in M
  <2>0. n \in Nat /\ \A i \in 1..Len(a) : i <= n => Same(i)
    OBVIOUS
  <2> SUFFICES ASSUME n + 1 \in 1..Len(a) PROVE Same(n + 1)
    <3>1. \A i \in 1..Len(a) : i <= n + 1 => i <= n \/ i = n + 1
      BY <1>0, <2>0
    <3> HIDE DEF Same
    <3> QED
      BY <2>0, <3>1
  <2>1. PICK j \in 1..Len(b) : a[n + 1] = b[j]
    OBVIOUS
  <2>2. ~ (j < n + 1)
    <3> SUFFICES ASSUME j < n + 1 PROVE FALSE
      OBVIOUS
    <3>1. j \in 1..Len(a) /\ j <= n
      BY <1>0, <2>0
    <3>2. a[j] = b[j]
      BY <2>0, <3>1
    <3>3. a[j] < a[n + 1]
      BY <3>1 DEF Increasing
    <3>4. a[n + 1] = a[j] /\ a[j] \in Nat
      BY <1>0, <2>1, <3>1, <3>2
    <3>5. \A x, y \in Nat : x = y => ~ (x < y)
      OBVIOUS
    <3> QED
      BY <3>3, <3>4, <3>5
  <2>3. ~ (j > n + 1)
    <3> SUFFICES ASSUME j > n + 1 PROVE FALSE
      OBVIOUS
    <3>1. n + 1 \in 1..Len(b) /\ n + 1 < j
      BY <1>0, <2>0
    <3>2. b[n + 1] < a[n + 1]
      BY <2>1, <3>1 DEF Increasing
    <3>3. PICK k \in 1..Len(a) : a[k] = b[n + 1]
      BY <3>1, <3>2
    <3>4. k < n + 1
      <4> SUFFICES ASSUME ~ (k < n + 1) PROVE FALSE
        OBVIOUS
      <4>1. k = n + 1 \/ n + 1 < k
        BY <2>0
      <4>2. a[n + 1] = a[k] \/ a[n + 1] < a[k]
        BY <4>1 DEF Increasing
      <4>3. a[n + 1] \in Nat /\ a[k] \in Nat
        BY <1>0
      <4>4. a[k] < a[n + 1]
        BY <3>2, <3>3
      <4>5. \A x, y \in Nat : x < y => ~ (y = x \/ y < x)
        OBVIOUS
      <4> QED
        BY <4>2, <4>3, <4>4, <4>5
    <3>5. k <= n /\ k \in 1..Len(b) /\ a[k] = b[k]
      BY <1>0, <2>0, <3>4
    <3>6. b[k] < b[n + 1]
      BY <3>1, <3>4, <3>5 DEF Increasing
    <3>7. b[k] \in Nat
      BY <1>0, <3>5
    <3> QED
      BY SMTT(60), <3>3, <3>5, <3>6, <3>7
  <2>4. j = n + 1
    BY <1>0, <2>0, <2>2, <2>3
  <2> QED
    BY <2>1, <2>4
<1>3. Len(a) \in M
  <2> HIDE DEF M
  <2>1. M \in SUBSET Nat
    BY DEF M
  <2> QED
    BY <1>0, <1>1, <1>2, <2>1, Inductive
<1>4. \A i \in 1..Len(a) : Same(i)
  BY <1>0, <1>3
<1>5. Len(a) <= Len(b)
  <2>1. CASE Len(a) = 0
    BY <1>0, <2>1
  <2>2. CASE Len(a) # 0
    <3>1. Len(a) \in 1..Len(a)
      BY <1>0, <2>2
    <3>2. Len(a) \in 1..Len(b)
      BY <1>4, <3>1
    <3> QED
      BY <1>0, <3>2
  <2> QED
    BY <2>1, <2>2
<1> QED
  BY <1>4, <1>5, PrefixBy

-----------------------------------------------------------------------------
\* An emission: whether it runs, which list of handlers it goes through, and how far it is.
Emission == [state : {"none", "running", "returned"}, list : Nat, i : Nat]

\* An emission goes through the list it found, which since then has only grown.
Follows(e) ==
  LET l == emission[e].list
      i == emission[e].i
  IN  /\ l \in 1..Len(lists) /\ i \in 1..(Len(lists[l]) + 1)
      /\ Len(reached[e]) = i - 1
      /\ \A k \in 1..(i - 1) : reached[e][k] = lists[l][k]
      /\ Len(atStart[e]) <= Len(lists[l])
      /\ \A k \in 1..Len(atStart[e]) : atStart[e][k] = lists[l][k]

\* The types of lists and emissions.
ListenTypeOK ==
  /\ lists \in Seq(Seq(Handlers)) /\ current \in 0..Len(lists)
  /\ emission \in [Emissions -> Emission]
  /\ reached \in [Emissions -> Seq(Handlers)] /\ atStart \in [Emissions -> Seq(Handlers)]

\* The invariant of the listeners.
ListenInv ==
  /\ ListenTypeOK
  /\ \A e \in Emissions : /\ emission[e].state = "none" => reached[e] = << >>
                          /\ emission[e].state = "running" => Follows(e)
  /\ EveryoneIsTold

\* Lists are only added, and grow at their end.
Grown ==
  /\ lists' \in Seq(Seq(Handlers)) /\ Len(lists) <= Len(lists')
  /\ \A l \in 1..Len(lists) : /\ Len(lists[l]) <= Len(lists'[l])
                              /\ \A k \in 1..Len(lists[l]) : lists'[l][k] = lists[l][k]

\* It holds at first.
LEMMA ListenInitially == EventsInit => ListenInv
<1> SUFFICES ASSUME EventsInit PROVE ListenInv
  OBVIOUS
<1>1. lists = << >> /\ current = 0 /\ \A e \in Emissions : emission[e].state = "none" /\ reached[e] = << >>
  BY DEF EventsInit
<1>2. lists \in Seq(Seq(Handlers)) /\ current \in 0..Len(lists)
  BY <1>1, EmptySeq
<1>3. << >> \in Seq(Handlers)
  BY EmptySeq
<1>4. emission \in [Emissions -> Emission]
  BY DEF EventsInit, Emission
<1>5. reached \in [Emissions -> Seq(Handlers)] /\ atStart \in [Emissions -> Seq(Handlers)]
  BY <1>3 DEF EventsInit
<1> QED
  BY <1>1, <1>2, <1>4, <1>5 DEF ListenInv, ListenTypeOK, EveryoneIsTold

\* An emission follows a list that grows.
LEMMA StillFollows ==
  ASSUME ListenTypeOK, Grown, NEW e \in Emissions, Follows(e),
         emission'[e] = emission[e], reached'[e] = reached[e], atStart'[e] = atStart[e]
  PROVE  Follows(e)'
<1> DEFINE l == emission[e].list
           i == emission[e].i
<1>1. /\ l \in 1..Len(lists) /\ i \in 1..(Len(lists[l]) + 1)
      /\ Len(reached[e]) = i - 1
      /\ \A k \in 1..(i - 1) : reached[e][k] = lists[l][k]
      /\ Len(atStart[e]) <= Len(lists[l])
      /\ \A k \in 1..Len(atStart[e]) : atStart[e][k] = lists[l][k]
  BY DEF Follows
<1>2. Len(lists) \in Nat /\ Len(lists') \in Nat /\ Len(lists) <= Len(lists')
  BY LenProperties DEF ListenTypeOK, Grown
<1>3. lists[l] \in Seq(Handlers) /\ lists'[l] \in Seq(Handlers)
  <2>1. l \in 1..Len(lists')
    BY <1>1, <1>2
  <2> QED
    BY <1>1, <2>1, ElementOfSeq DEF ListenTypeOK, Grown
<1>4. Len(lists[l]) \in Nat /\ Len(lists'[l]) \in Nat /\ Len(atStart[e]) \in Nat
  BY <1>3, LenProperties DEF ListenTypeOK
<1>5. Len(lists[l]) <= Len(lists'[l]) /\ \A k \in 1..Len(lists[l]) : lists'[l][k] = lists[l][k]
  BY <1>1 DEF Grown
<1>6. l \in 1..Len(lists') /\ i \in 1..(Len(lists'[l]) + 1) /\ Len(atStart[e]) <= Len(lists'[l])
  <2>1. l \in 1..Len(lists')
    BY <1>1, <1>2
  <2>2. \A a, b, c, d \in Nat : a \in 1..(b + 1) /\ b <= c /\ d <= b => a \in 1..(c + 1) /\ d <= c
    OBVIOUS
  <2>3. i \in Nat
    BY <1>1, <1>4
  <2> HIDE DEF l, i
  <2> QED
    BY <1>1, <1>4, <1>5, <2>1, <2>2, <2>3
<1>7. \A k \in 1..(i - 1) : reached[e][k] = lists'[l][k]
  <2>1. \A k \in 1..(i - 1) : k \in 1..Len(lists[l])
    BY <1>1, <1>4
  <2> QED
    BY <1>1, <1>5, <2>1
<1>8. \A k \in 1..Len(atStart[e]) : atStart[e][k] = lists'[l][k]
  <2>1. \A k \in 1..Len(atStart[e]) : k \in 1..Len(lists[l])
    BY <1>1, <1>4
  <2> QED
    BY <1>1, <1>5, <2>1
<1>9. emission'[e].list = l /\ emission'[e].i = i
  OBVIOUS
<1> HIDE DEF l, i
<1> QED
  BY <1>1, <1>6, <1>7, <1>8, <1>9 DEF Follows

\* What changes only the lists.
LEMMA ListsGrow ==
  ASSUME ListenInv, Grown, current' \in 0..Len(lists'), UNCHANGED <<emission, reached, atStart>>
  PROVE  ListenInv'
<1>1. ListenTypeOK'
  BY DEF ListenInv, ListenTypeOK, Grown
<1>2. ASSUME NEW e \in Emissions, emission[e].state = "running" PROVE Follows(e)'
  BY <1>2, StillFollows DEF ListenInv
<1>3. EveryoneIsTold'
  BY DEF ListenInv, EveryoneIsTold
<1> QED
  BY <1>1, <1>2, <1>3 DEF ListenInv

\* on makes a longer list.
LEMMA OnKeeps == ASSUME ListenInv, NEW h \in Handlers, on(h) PROVE ListenInv'
<1>0. lists \in Seq(Seq(Handlers)) /\ Len(lists) \in Nat /\ current \in 0..Len(lists)
  BY LenProperties DEF ListenInv, ListenTypeOK
<1>1. UNCHANGED <<emission, reached, atStart>>
  BY DEF on
<1>2. CASE current = 0
  <2>1. lists' = Append(lists, <<h>>) /\ current' = Len(lists')
    BY <1>2 DEF on
  <2>2. <<h>> \in Seq(Handlers)
    OBVIOUS
  <2>3. /\ lists' \in Seq(Seq(Handlers)) /\ Len(lists') = Len(lists) + 1
        /\ \A l \in 1..Len(lists) : lists'[l] = lists[l]
    BY <1>0, <2>1, <2>2, AppendProperties
  <2>4. Grown
    <3>1. \A l \in 1..Len(lists) : Len(lists[l]) \in Nat
      BY <1>0, ElementOfSeq, LenProperties
    <3> QED
      BY <1>0, <2>3, <3>1 DEF Grown
  <2>5. current' \in 0..Len(lists')
    BY <1>0, <2>1, <2>3
  <2> QED
    BY <1>1, <2>4, <2>5, ListsGrow
<1>3. CASE current # 0
  <2>1. lists' = [lists EXCEPT ![current] = Append(@, h)] /\ current' = current
    BY <1>3 DEF on
  <2>2. current \in 1..Len(lists) /\ lists[current] \in Seq(Handlers) /\ Len(lists[current]) \in Nat
    BY <1>0, <1>3, ElementOfSeq, LenProperties
  <2>3. /\ Append(lists[current], h) \in Seq(Handlers)
        /\ Len(Append(lists[current], h)) = Len(lists[current]) + 1
        /\ \A k \in 1..Len(lists[current]) : Append(lists[current], h)[k] = lists[current][k]
    BY <2>2, AppendProperties
  <2>4. /\ lists' \in Seq(Seq(Handlers)) /\ Len(lists') = Len(lists)
        /\ lists'[current] = Append(lists[current], h)
        /\ \A l \in 1..Len(lists) : l # current => lists'[l] = lists[l]
    BY <1>0, <2>1, <2>2, <2>3, ExceptSeq
  <2>5. Grown
    <3>1. \A l \in 1..Len(lists) : Len(lists[l]) \in Nat
      BY <1>0, ElementOfSeq, LenProperties
    <3>2. ASSUME NEW l \in 1..Len(lists)
          PROVE  /\ Len(lists[l]) <= Len(lists'[l])
                 /\ \A k \in 1..Len(lists[l]) : lists'[l][k] = lists[l][k]
      <4>1. CASE l = current
        <5>1. lists'[l] = Append(lists[current], h) /\ lists[l] = lists[current]
          BY <2>4, <4>1
        <5>2. Len(lists'[l]) = Len(lists[l]) + 1 /\ Len(lists[l]) \in Nat
          BY <2>2, <2>3, <5>1
        <5>3. \A k \in 1..Len(lists[l]) : lists'[l][k] = lists[l][k]
          BY <2>3, <5>1
        <5> QED
          BY <5>2, <5>3
      <4>2. CASE l # current
        BY SMTT(60), <2>4, <3>1, <4>2
      <4> QED
        BY <4>1, <4>2
    <3> QED
      BY <1>0, <2>4, <3>2 DEF Grown
  <2>6. current' \in 0..Len(lists')
    BY <1>0, <2>1, <2>4
  <2> QED
    BY <1>1, <2>5, <2>6, ListsGrow
<1> QED
  BY <1>2, <1>3

\* off makes a new list of all but one handler: emissions keep the list they found.
LEMMA OffKeeps == ASSUME ListenInv, NEW h \in Handlers, off(h) PROVE ListenInv'
<1> DEFINE remaining == Select(lists[current], Handlers \ {h})
<1>0. lists \in Seq(Seq(Handlers)) /\ Len(lists) \in Nat /\ current \in 0..Len(lists)
  BY LenProperties DEF ListenInv, ListenTypeOK
<1>1. UNCHANGED <<emission, reached, atStart>> /\ current # 0 /\ ReplacedOff(remaining)
  BY DEF off
<1>2. remaining \in Seq(Handlers)
  <2>1. lists[current] \in Seq(Handlers)
    BY <1>0, <1>1, ElementOfSeq
  <2>2. remaining \in Seq(Handlers \cap (Handlers \ {h}))
    BY <2>1, SelectPlaces
  <2> QED
    BY <2>2, SeqMonotonic
<1> HIDE DEF remaining
<1>3. \A l \in 1..Len(lists) : Len(lists[l]) \in Nat
  BY <1>0, ElementOfSeq, LenProperties
<1>4. CASE remaining = << >>
  <2>1. lists' = lists /\ current' = 0
    BY <1>1, <1>4 DEF ReplacedOff
  <2>2. Grown /\ current' \in 0..Len(lists')
    BY <1>0, <1>3, <2>1 DEF Grown
  <2> QED
    BY <1>1, <2>2, ListsGrow
<1>5. CASE remaining # << >>
  <2>1. lists' = Append(lists, remaining) /\ current' = Len(lists')
    BY <1>1, <1>5 DEF ReplacedOff
  <2>2. /\ lists' \in Seq(Seq(Handlers)) /\ Len(lists') = Len(lists) + 1
        /\ \A l \in 1..Len(lists) : lists'[l] = lists[l]
    BY <1>0, <1>2, <2>1, AppendProperties
  <2>3. Grown /\ current' \in 0..Len(lists')
    BY <1>0, <1>3, <2>1, <2>2 DEF Grown
  <2> QED
    BY <1>1, <2>3, ListsGrow
<1> QED
  BY <1>4, <1>5

\* What changes only one emission.
LEMMA OneEmission ==
  ASSUME ListenInv, NEW e \in Emissions, UNCHANGED <<lists, current>>,
         emission' \in [Emissions -> Emission],
         reached' \in [Emissions -> Seq(Handlers)], atStart' \in [Emissions -> Seq(Handlers)],
         \A d \in Emissions : d # e =>
           emission'[d] = emission[d] /\ reached'[d] = reached[d] /\ atStart'[d] = atStart[d],
         emission'[e].state # "none",
         emission'[e].state = "running" => Follows(e)',
         emission'[e].state = "returned" => IsPrefix(atStart'[e], reached'[e])
  PROVE  ListenInv'
<1>1. ListenTypeOK'
  BY DEF ListenInv, ListenTypeOK
<1>2. Grown
  <2>1. \A l \in 1..Len(lists) : Len(lists[l]) \in Nat
    BY ElementOfSeq, LenProperties DEF ListenInv, ListenTypeOK
  <2>2. Len(lists) \in Nat
    BY LenProperties DEF ListenInv, ListenTypeOK
  <2> QED
    BY <2>1, <2>2 DEF Grown, ListenInv, ListenTypeOK
<1>3. ASSUME NEW d \in Emissions, emission'[d].state = "none" PROVE reached'[d] = << >>
  BY <1>3 DEF ListenInv
<1>4. ASSUME NEW d \in Emissions, emission'[d].state = "running" PROVE Follows(d)'
  BY <1>2, <1>4, StillFollows DEF ListenInv
<1>5. EveryoneIsTold'
  BY DEF ListenInv, EveryoneIsTold
<1> QED
  BY <1>1, <1>3, <1>4, <1>5 DEF ListenInv

\* emit takes the list that is current.
LEMMA EmitKeeps == ASSUME ListenInv, NEW e \in Emissions, emit(e) PROVE ListenInv'
<1>0. /\ lists \in Seq(Seq(Handlers)) /\ Len(lists) \in Nat /\ current \in 0..Len(lists)
      /\ emission \in [Emissions -> Emission] /\ reached[e] = << >>
      /\ reached \in [Emissions -> Seq(Handlers)] /\ atStart \in [Emissions -> Seq(Handlers)]
  BY LenProperties DEF ListenInv, ListenTypeOK, emit
<1>1. UNCHANGED <<lists, current, reached>>
  BY DEF emit
<1>2. << >> \in Seq(Handlers) /\ Len(<< >>) = 0
  BY EmptySeq
<1>3. CASE current = 0
  <2>1. /\ emission' = [emission EXCEPT ![e] = [@ EXCEPT !.state = "returned"]]
        /\ atStart' = [atStart EXCEPT ![e] = << >>]
    BY <1>3 DEF emit
  <2>2. [emission[e] EXCEPT !.state = "returned"] \in Emission
    BY <1>0 DEF Emission
  <2>3. /\ emission' \in [Emissions -> Emission] /\ atStart' \in [Emissions -> Seq(Handlers)]
        /\ emission'[e].state = "returned" /\ atStart'[e] = << >>
        /\ \A d \in Emissions : d # e => emission'[d] = emission[d] /\ atStart'[d] = atStart[d]
    BY <1>0, <1>2, <2>1, <2>2 DEF Emission
  <2>4. IsPrefix(atStart'[e], reached'[e])
    <3>1. IsPrefix(<< >>, << >>)
      BY <1>2 DEF IsPrefix
    <3> QED
      BY <1>0, <1>1, <2>3, <3>1
  <2> QED
    BY <1>0, <1>1, <2>3, <2>4, OneEmission
<1>4. CASE current # 0
  <2>1. /\ emission' = [emission EXCEPT ![e] = [state |-> "running", list |-> current, i |-> 1]]
        /\ atStart' = [atStart EXCEPT ![e] = lists[current]]
    BY <1>4 DEF emit
  <2>2. /\ [state |-> "running", list |-> current, i |-> 1] \in Emission
        /\ current \in 1..Len(lists) /\ lists[current] \in Seq(Handlers) /\ Len(lists[current]) \in Nat
    BY <1>0, <1>4, ElementOfSeq, LenProperties DEF Emission
  <2>3. /\ emission' \in [Emissions -> Emission] /\ atStart' \in [Emissions -> Seq(Handlers)]
        /\ emission'[e] = [state |-> "running", list |-> current, i |-> 1]
        /\ atStart'[e] = lists[current]
        /\ \A d \in Emissions : d # e => emission'[d] = emission[d] /\ atStart'[d] = atStart[d]
    BY <1>0, <2>1, <2>2
  <2>4. Follows(e)'
    <3>1. /\ emission'[e].list = current /\ emission'[e].i = 1 /\ reached'[e] = << >>
          /\ lists'[current] = lists[current]
      BY <1>0, <1>1, <2>3
    <3>2. 1 \in 1..(Len(lists[current]) + 1) /\ Len(<< >>) = 1 - 1 /\ \A k \in 1..(1 - 1) : FALSE
      BY <1>2, <2>2
    <3> QED
      BY <1>1, <2>2, <2>3, <3>1, <3>2 DEF Follows
  <2>5. emission'[e].state = "running"
    BY <2>3
  <2>6. /\ reached' \in [Emissions -> Seq(Handlers)]
        /\ \A d \in Emissions : d # e =>
             emission'[d] = emission[d] /\ reached'[d] = reached[d] /\ atStart'[d] = atStart[d]
    BY <1>0, <1>1, <2>3
  <2> QED
    BY <1>1, <2>3, <2>4, <2>5, <2>6, OneEmission
<1> QED
  BY <1>3, <1>4

\* An emission calls the next handler of its list.
LEMMA CallKeeps == ASSUME ListenInv, NEW e \in Emissions, CallHandler(e) PROVE ListenInv'
<1> DEFINE l == emission[e].list
           i == emission[e].i
<1>0. /\ lists \in Seq(Seq(Handlers)) /\ Len(lists) \in Nat
      /\ emission \in [Emissions -> Emission]
      /\ reached \in [Emissions -> Seq(Handlers)] /\ atStart \in [Emissions -> Seq(Handlers)]
  BY LenProperties DEF ListenInv, ListenTypeOK
<1>1. /\ UNCHANGED <<lists, current, atStart>> /\ emission[e].state = "running"
      /\ i <= Len(lists[l])
      /\ reached' = [reached EXCEPT ![e] = Append(@, lists[l][i])]
      /\ emission' = [emission EXCEPT ![e].i = @ + 1]
  BY DEF CallHandler
<1>2. /\ l \in 1..Len(lists) /\ i \in 1..(Len(lists[l]) + 1)
      /\ Len(reached[e]) = i - 1
      /\ \A k \in 1..(i - 1) : reached[e][k] = lists[l][k]
      /\ Len(atStart[e]) <= Len(lists[l])
      /\ \A k \in 1..Len(atStart[e]) : atStart[e][k] = lists[l][k]
  BY <1>1 DEF ListenInv, Follows
<1>3. lists[l] \in Seq(Handlers) /\ Len(lists[l]) \in Nat
  BY <1>0, <1>2, ElementOfSeq, LenProperties
<1>4. i \in Nat /\ i \in 1..Len(lists[l]) /\ i + 1 \in 1..(Len(lists[l]) + 1) /\ (i + 1) - 1 = i
  BY SMTT(60), <1>1, <1>2, <1>3
<1>5. lists[l][i] \in Handlers
  BY <1>3, <1>4, ElementOfSeq
<1>6. /\ emission'[e].state = "running" /\ emission'[e].list = l /\ emission'[e].i = i + 1
      /\ emission' \in [Emissions -> Emission]
      /\ \A d \in Emissions : d # e => emission'[d] = emission[d]
  BY SMTT(60), <1>0, <1>1, <1>4 DEF Emission
<1>7. /\ reached' \in [Emissions -> Seq(Handlers)] /\ Len(reached'[e]) = i
      /\ reached'[e][i] = lists[l][i]
      /\ \A k \in 1..(i - 1) : reached'[e][k] = reached[e][k]
      /\ \A d \in Emissions : d # e => reached'[d] = reached[d]
  <2>1. /\ Append(reached[e], lists[l][i]) \in Seq(Handlers)
        /\ Len(Append(reached[e], lists[l][i])) = Len(reached[e]) + 1
        /\ Append(reached[e], lists[l][i])[Len(reached[e]) + 1] = lists[l][i]
        /\ \A k \in 1..Len(reached[e]) : Append(reached[e], lists[l][i])[k] = reached[e][k]
    BY <1>0, <1>5, AppendProperties
  <2>2. Len(reached[e]) + 1 = i /\ Len(reached[e]) = i - 1
    BY <1>2, <1>4
  <2>3. reached'[e] = Append(reached[e], lists[l][i]) /\ \A d \in Emissions : d # e => reached'[d] = reached[d]
    BY <1>0, <1>1
  <2>4. reached' \in [Emissions -> Seq(Handlers)]
    BY <1>0, <1>1, <2>1
  <2> HIDE DEF l, i
  <2> QED
    BY <2>1, <2>2, <2>3, <2>4
<1>8. \A k \in 1..((i + 1) - 1) : reached'[e][k] = lists[l][k]
  <2> SUFFICES ASSUME NEW k \in 1..i PROVE reached'[e][k] = lists[l][k]
    BY <1>4
  <2>1. k = i \/ k \in 1..(i - 1)
    BY <1>4
  <2> QED
    BY <1>2, <1>7, <2>1
<1> HIDE DEF l, i
<1>9. Follows(e)'
  BY SMTT(60), <1>1, <1>2, <1>4, <1>6, <1>7, <1>8 DEF Follows
<1> QED
  BY <1>0, <1>1, <1>6, <1>7, <1>9, OneEmission

\* An emission returns when its list is done.
LEMMA EmittedKeeps == ASSUME ListenInv, NEW e \in Emissions, Emitted(e) PROVE ListenInv'
<1> DEFINE l == emission[e].list
           i == emission[e].i
<1>0. /\ lists \in Seq(Seq(Handlers)) /\ Len(lists) \in Nat
      /\ emission \in [Emissions -> Emission]
      /\ reached \in [Emissions -> Seq(Handlers)] /\ atStart \in [Emissions -> Seq(Handlers)]
  BY LenProperties DEF ListenInv, ListenTypeOK
<1>1. /\ UNCHANGED <<lists, current, atStart, reached>> /\ emission[e].state = "running"
      /\ i > Len(lists[l])
      /\ emission' = [emission EXCEPT ![e].state = "returned"]
  BY DEF Emitted
<1>2. /\ l \in 1..Len(lists) /\ i \in 1..(Len(lists[l]) + 1)
      /\ Len(reached[e]) = i - 1
      /\ \A k \in 1..(i - 1) : reached[e][k] = lists[l][k]
      /\ Len(atStart[e]) <= Len(lists[l])
      /\ \A k \in 1..Len(atStart[e]) : atStart[e][k] = lists[l][k]
  BY <1>1 DEF ListenInv, Follows
<1>3. Len(lists[l]) \in Nat /\ Len(atStart[e]) \in Nat
  BY <1>0, <1>2, ElementOfSeq, LenProperties
<1>4. i - 1 = Len(lists[l]) /\ Len(atStart[e]) <= Len(reached[e])
  BY SMTT(60), <1>1, <1>2, <1>3
<1>5. \A k \in 1..Len(atStart[e]) : atStart[e][k] = reached[e][k]
  <2>1. \A k \in 1..Len(atStart[e]) : k \in 1..(i - 1)
    BY <1>2, <1>3, <1>4
  <2> QED
    BY <1>2, <2>1
<1>6. IsPrefix(atStart[e], reached[e])
  BY <1>0, <1>4, <1>5, PrefixBy
<1>7. /\ emission' \in [Emissions -> Emission] /\ emission'[e].state = "returned"
      /\ \A d \in Emissions : d # e => emission'[d] = emission[d]
  BY <1>0, <1>1 DEF Emission
<1> QED
  BY <1>0, <1>1, <1>6, <1>7, OneEmission

-----------------------------------------------------------------------------
\* A hook that runs, and how often it has called next.
Running == [hook : Nat, nexts : Nat]
\* What the final handler saw.
Final == [passed : SUBSET Nat, again : BOOLEAN, needed : SUBSET Nat]

\* No hook below the n-th on the stack s has called next twice.
OnceBelow(s, n) == \A j \in 1..(n - 1) : s[j].nexts <= 1

\* The types of the hooks, the stack and the final handler.
HookTypeOK ==
  /\ hooks \in Seq(Hooks) /\ stack \in Seq(Running) /\ finals \in Seq(Final)
  /\ dispatched \in 0..Len(hooks) /\ passedBy \subseteq 1..dispatched

\* The hooks on the stack s await the ones above them; as long as each has called next
\* once, they are the first ones in their order, and all that have been dispatched when
\* the one on top has not called it.
Awaiting(s, d, passed) ==
  /\ \A k \in 1..Len(s) : s[k].hook \in 1..d /\ (s[k].nexts > 0 => s[k].hook \in passed)
  /\ \A k \in 1..(Len(s) - 1) : s[k].nexts > 0
  /\ \A k \in 1..Len(s) : OnceBelow(s, k) => s[k].hook = k
  /\ Len(s) > 0 /\ OnceBelow(s, Len(s)) /\ s[Len(s)].nexts = 0 => d = Len(s)

\* The invariant of the waterfall.
HookInv ==
  /\ HookTypeOK /\ Awaiting(stack, dispatched, passedBy)
  /\ waterfall = "idle" => stack = << >> /\ dispatched = 0 /\ passedBy = {}
  /\ HooksDecide

\* It holds at first.
LEMMA HooksInitially == EventsInit => HookInv
<1> SUFFICES ASSUME EventsInit PROVE HookInv
  OBVIOUS
<1>1. /\ hooks = << >> /\ stack = << >> /\ dispatched = 0 /\ passedBy = {} /\ finals = << >>
      /\ Len(<< >>) = 0
  BY EmptySeq DEF EventsInit
<1>2. HookTypeOK
  BY <1>1, EmptySeq DEF HookTypeOK
<1>3. Awaiting(<< >>, 0, {})
  BY <1>1 DEF Awaiting
<1>4. HooksDecide
  BY <1>1 DEF HooksDecide
<1> QED
  BY <1>1, <1>2, <1>3, <1>4 DEF HookInv

\* The next hook starts above those that await, which have called next.
LEMMA Pushed ==
  ASSUME NEW s \in Seq(Running), NEW d \in Nat, NEW passed, Awaiting(s, d, passed),
         \A k \in 1..Len(s) : s[k].nexts > 0,
         OnceBelow(s, Len(s) + 1) => d = Len(s),
         NEW t, t = Append(s, [hook |-> d + 1, nexts |-> 0])
  PROVE  t \in Seq(Running) /\ Awaiting(t, d + 1, passed)
<1>0. /\ Len(s) \in Nat /\ t \in Seq(Running) /\ Len(t) = Len(s) + 1
      /\ t[Len(s) + 1] = [hook |-> d + 1, nexts |-> 0]
      /\ \A k \in 1..Len(s) : t[k] = s[k]
  <2>1. [hook |-> d + 1, nexts |-> 0] \in Running
    BY DEF Running
  <2> QED
    BY <2>1, LenProperties, AppendProperties
<1>1. \A k \in 1..Len(s) : s[k].hook \in Nat /\ s[k].nexts \in Nat
  <2>1. \A k \in 1..Len(s) : s[k] \in Running
    BY ElementOfSeq
  <2> QED
    BY <2>1 DEF Running
<1>2. \A k \in 1..Len(t) : k \in 1..Len(s) \/ k = Len(s) + 1
  BY <1>0
<1>3. \A k \in 1..Len(t) : OnceBelow(t, k) => OnceBelow(s, k)
  <2> SUFFICES ASSUME NEW k \in 1..Len(t), OnceBelow(t, k), NEW j \in 1..(k - 1) PROVE s[j].nexts <= 1
    BY DEF OnceBelow
  <2>1. j \in 1..Len(s)
    BY <1>0
  <2> QED
    BY <1>0, <2>1 DEF OnceBelow
<1>4. ASSUME NEW k \in 1..Len(t)
      PROVE  t[k].hook \in 1..(d + 1) /\ (t[k].nexts > 0 => t[k].hook \in passed)
  <2>1. CASE k \in 1..Len(s)
    BY <1>0, <1>1, <2>1 DEF Awaiting
  <2>2. CASE k = Len(s) + 1
    BY <1>0, <2>2
  <2> QED
    BY <1>2, <2>1, <2>2
<1>5. \A k \in 1..(Len(t) - 1) : t[k].nexts > 0
  <2>1. Len(t) - 1 = Len(s)
    BY <1>0
  <2> QED
    BY <1>0, <2>1
<1>6. ASSUME NEW k \in 1..Len(t), OnceBelow(t, k) PROVE t[k].hook = k
  <2>1. OnceBelow(s, k)
    BY <1>3, <1>6
  <2>2. CASE k \in 1..Len(s)
    BY <1>0, <2>1, <2>2 DEF Awaiting
  <2>3. CASE k = Len(s) + 1
    <3>1. d = Len(s)
      BY <2>1, <2>3
    <3> QED
      BY <1>0, <2>3, <3>1
  <2> QED
    BY <1>2, <2>2, <2>3
<1>7. OnceBelow(t, Len(t)) => d + 1 = Len(t)
  <2>1. Len(t) \in 1..Len(t)
    BY <1>0
  <2> QED
    BY <1>0, <1>3, <2>1
<1> QED
  BY <1>0, <1>4, <1>5, <1>6, <1>7 DEF Awaiting

\* A hook that has called next once more.
Again(r) == [r EXCEPT !.nexts = @ + 1]

\* The hook on top calls next: under is the stack with that counted.
LEMMA TopCalls ==
  ASSUME HookInv, stack # << >>,
         NEW under, under = Append(Front(stack), Again(Last(stack))),
         NEW passed, passed = passedBy \cup {Last(stack).hook}
  PROVE  /\ under \in Seq(Running) /\ Awaiting(under, dispatched, passed)
         /\ \A k \in 1..Len(under) : under[k].nexts > 0
         /\ OnceBelow(under, Len(under) + 1) => dispatched = Len(under)
         /\ passed \subseteq 1..dispatched
<1> DEFINE n == Len(stack)
           top == Again(Last(stack))
<1>0. /\ stack \in Seq(Running) /\ dispatched \in Nat /\ passedBy \subseteq 1..dispatched
      /\ Awaiting(stack, dispatched, passedBy)
  BY LenProperties DEF HookInv, HookTypeOK
<1>1. /\ Front(stack) \in Seq(Running) /\ Len(Front(stack)) = n - 1
      /\ \A k \in 1..(n - 1) : Front(stack)[k] = stack[k]
      /\ n \in Nat /\ n > 0 /\ Last(stack) = stack[n] /\ Last(stack) \in Running
  BY <1>0, FrontProperties
<1>2. top \in Running /\ top.hook = stack[n].hook /\ top.nexts = stack[n].nexts + 1
      /\ stack[n].nexts \in Nat
  BY SMTT(60), <1>1 DEF Running, Again
<1>3. /\ under \in Seq(Running) /\ Len(under) = n /\ under[n] = top
      /\ \A k \in 1..(n - 1) : under[k] = stack[k]
  <2>1. /\ under \in Seq(Running) /\ Len(under) = (n - 1) + 1 /\ under[(n - 1) + 1] = top
        /\ \A k \in 1..(n - 1) : under[k] = Front(stack)[k]
    BY <1>1, <1>2, AppendProperties
  <2>2. (n - 1) + 1 = n
    BY <1>1
  <2> HIDE DEF n, top
  <2> QED
    BY <1>1, <2>1, <2>2
<1> HIDE DEF n, top
<1>4. \A k \in 1..n : k \in 1..(n - 1) \/ k = n
  BY <1>1
<1>4a. n \in 1..n
  BY <1>1
<1>5. /\ \A k \in 1..n : stack[k].hook \in 1..dispatched /\ (stack[k].nexts > 0 => stack[k].hook \in passedBy)
      /\ \A k \in 1..(n - 1) : stack[k].nexts > 0
      /\ \A k \in 1..n : OnceBelow(stack, k) => stack[k].hook = k
      /\ OnceBelow(stack, n) /\ stack[n].nexts = 0 => dispatched = n
  BY <1>0, <1>1 DEF Awaiting, n
<1>6. \A k \in 1..n : OnceBelow(under, k) => OnceBelow(stack, k)
  <2> SUFFICES ASSUME NEW k \in 1..n, OnceBelow(under, k), NEW j \in 1..(k - 1) PROVE stack[j].nexts <= 1
    BY DEF OnceBelow
  <2>1. j \in 1..(n - 1)
    BY <1>1
  <2> QED
    BY <1>3, <2>1 DEF OnceBelow
<1>7. passed \subseteq 1..dispatched
  BY <1>0, <1>1, <1>4a, <1>5
<1>8. ASSUME NEW k \in 1..n
      PROVE  under[k].hook \in 1..dispatched /\ under[k].nexts > 0 /\ under[k].hook \in passed
  <2>1. CASE k = n
    <3>1. top.nexts > 0
      BY <1>2
    <3>2. stack[n].hook \in passed /\ stack[n].hook \in 1..dispatched
      BY <1>1, <1>4a, <1>5
    <3> QED
      BY <1>2, <1>3, <2>1, <3>1, <3>2
  <2>2. CASE k \in 1..(n - 1)
    BY <1>3, <1>5, <2>2
  <2> QED
    BY <1>4, <2>1, <2>2
<1>9. ASSUME NEW k \in 1..n, OnceBelow(under, k) PROVE under[k].hook = k
  <2>1. stack[k].hook = k
    BY <1>5, <1>6, <1>9
  <2>2. CASE k = n
    BY <1>2, <1>3, <2>1, <2>2
  <2>3. CASE k \in 1..(n - 1)
    BY <1>3, <2>1, <2>3
  <2> QED
    BY <1>4, <2>2, <2>3
<1>9a. under[n].nexts = stack[n].nexts + 1 /\ stack[n].nexts \in Nat
  BY <1>2, <1>3
<1>10. ASSUME OnceBelow(under, n + 1) PROVE dispatched = n
  <2>1. OnceBelow(under, n)
    BY <1>1, <1>10 DEF OnceBelow
  <2>2. under[n].nexts <= 1
    <3>1. n \in 1..((n + 1) - 1)
      BY <1>1
    <3> QED
      BY <1>10, <3>1 DEF OnceBelow
  <2>3. stack[n].nexts = 0
    BY <1>9a, <2>2
  <2> QED
    BY <1>4a, <1>5, <1>6, <2>1, <2>3
<1>11. Awaiting(under, dispatched, passed)
  <2>1. under[n].nexts # 0
    BY <1>9a
  <2>2. \A k \in 1..(n - 1) : under[k].nexts > 0
    BY <1>3, <1>5
  <2> QED
    BY <1>3, <1>8, <1>9, <2>1, <2>2 DEF Awaiting
<1> QED
  BY <1>3, <1>7, <1>8, <1>10, <1>11

\* The next hook runs, or the final handler: every hook has let it.
LEMMA DispatchKeeps ==
  ASSUME HookInv, NEW under \in Seq(Running), Awaiting(under, dispatched, passedBy'),
         \A k \in 1..Len(under) : under[k].nexts > 0,
         OnceBelow(under, Len(under) + 1) => dispatched = Len(under),
         passedBy' \subseteq 1..dispatched, hooks' = hooks, Dispatch(under)
  PROVE  HookTypeOK' /\ Awaiting(stack, dispatched, passedBy)' /\ HooksDecide'
<1>0. /\ hooks \in Seq(Hooks) /\ Len(hooks) \in Nat /\ dispatched \in 0..Len(hooks) /\ dispatched \in Nat
      /\ finals \in Seq(Final) /\ Len(under) \in Nat
  BY LenProperties DEF HookInv, HookTypeOK
<1>1. CASE dispatched < Len(hooks)
  <2>1. /\ stack' = Append(under, [hook |-> dispatched + 1, nexts |-> 0])
        /\ dispatched' = dispatched + 1 /\ finals' = finals
    BY <1>1 DEF Dispatch
  <2>2. stack' \in Seq(Running) /\ Awaiting(stack', dispatched + 1, passedBy')
    BY <1>0, <2>1, Pushed
  <2>3. dispatched' \in 0..Len(hooks') /\ passedBy' \subseteq 1..dispatched'
    BY <1>0, <1>1, <2>1
  <2>4. HooksDecide'
    BY <2>1 DEF HookInv, HooksDecide
  <2> QED
    BY <1>0, <2>1, <2>2, <2>3, <2>4 DEF HookTypeOK
<1>2. CASE ~ (dispatched < Len(hooks))
  <2> DEFINE final == [passed |-> passedBy', again |-> \E k \in DOMAIN under : under[k].nexts > 1,
                       needed |-> DOMAIN hooks]
  <2>1. stack' = under /\ dispatched' = dispatched /\ finals' = Append(finals, final)
    BY <1>2 DEF Dispatch
  <2>2. dispatched = Len(hooks) /\ DOMAIN hooks = 1..Len(hooks) /\ DOMAIN under = 1..Len(under)
    BY <1>0, <1>2, LenProperties
  <2>3. final.again \/ final.needed = final.passed
    <3> SUFFICES ASSUME \A k \in 1..Len(under) : ~ (under[k].nexts > 1)
                 PROVE  1..dispatched \subseteq passedBy'
      BY <2>2
    <3>1. \A k \in 1..Len(under) : under[k] \in Running
      BY ElementOfSeq
    <3>2. \A k \in 1..Len(under) : under[k].nexts <= 1
      BY <3>1 DEF Running
    <3>3. \A n \in 1..(Len(under) + 1) : OnceBelow(under, n)
      <4> SUFFICES ASSUME NEW n \in 1..(Len(under) + 1), NEW j \in 1..(n - 1) PROVE under[j].nexts <= 1
        BY DEF OnceBelow
      <4>1. j \in 1..Len(under)
        BY <1>0
      <4> QED
        BY <3>2, <4>1
    <3>4. dispatched = Len(under)
      <4>1. Len(under) + 1 \in 1..(Len(under) + 1)
        BY <1>0
      <4> QED
        BY <3>3, <4>1
    <3> SUFFICES ASSUME NEW k \in 1..Len(under) PROVE k \in passedBy'
      BY <3>4
    <3>5. k \in 1..(Len(under) + 1)
      BY <1>0
    <3>6. under[k].hook = k
      BY <3>3, <3>5 DEF Awaiting
    <3> QED
      BY <3>6 DEF Awaiting
  <2>4. final \in Final
    <3>0. 1..dispatched \subseteq Nat /\ 1..Len(hooks) \subseteq Nat
      BY <1>0
    <3>1. passedBy' \subseteq Nat /\ DOMAIN hooks \subseteq Nat
      BY <2>2, <3>0
    <3>2. (\E k \in DOMAIN under : under[k].nexts > 1) \in BOOLEAN
      OBVIOUS
    <3> QED
      BY <3>1, <3>2 DEF Final
  <2> HIDE DEF final
  <2>5. /\ finals' \in Seq(Final) /\ Len(finals') = Len(finals) + 1 /\ finals'[Len(finals) + 1] = final
        /\ \A k \in 1..Len(finals) : finals'[k] = finals[k]
    BY <1>0, <2>1, <2>4, AppendProperties
  <2>6. HooksDecide'
    <3>1. Len(finals) \in Nat /\ DOMAIN finals = 1..Len(finals) /\ DOMAIN finals' = 1..(Len(finals) + 1)
      BY <1>0, <2>5, LenProperties
    <3> SUFFICES ASSUME NEW k \in 1..(Len(finals) + 1)
                 PROVE  finals'[k].again \/ finals'[k].needed = finals'[k].passed
      BY <3>1 DEF HooksDecide
    <3>2. k \in 1..Len(finals) \/ k = Len(finals) + 1
      BY <3>1
    <3>3. CASE k \in 1..Len(finals)
      BY <2>5, <3>1, <3>3 DEF HookInv, HooksDecide
    <3>4. CASE k = Len(finals) + 1
      BY <2>3, <2>5, <3>4
    <3> QED
      BY <3>2, <3>3, <3>4
  <2> QED
    BY <1>0, <2>1, <2>2, <2>5, <2>6 DEF HookTypeOK
<1> QED
  BY <1>1, <1>2

\* A hook more.
LEMMA AddHookKeeps == ASSUME HookInv, NEW h \in Hooks, AddHook(h) PROVE HookInv'
<1>1. hooks \in Seq(Hooks) /\ Len(hooks) \in Nat /\ hooks' = Append(hooks, h)
  BY LenProperties DEF AddHook, HookInv, HookTypeOK
<1>2. hooks' \in Seq(Hooks) /\ Len(hooks') = Len(hooks) + 1
  BY <1>1, AppendProperties
<1>3. dispatched \in 0..Len(hooks')
  BY <1>1, <1>2 DEF HookInv, HookTypeOK
<1> QED
  BY <1>2, <1>3 DEF AddHook, HookInv, HookTypeOK, HooksDecide

\* A waterfall starts with its first hook, or with the final handler.
LEMMA RunWaterfallKeeps == ASSUME HookInv, runWaterfall PROVE HookInv'
<1>1. dispatched = 0 /\ passedBy' = {} /\ hooks' = hooks /\ waterfall' = "running" /\ Dispatch(<< >>)
  BY DEF runWaterfall, HookInv
<1>2. << >> \in Seq(Running) /\ Len(<< >>) = 0
  BY EmptySeq
<1> DEFINE under == << >>
<1>3. /\ under \in Seq(Running) /\ Awaiting(under, dispatched, passedBy') /\ Dispatch(under)
      /\ \A k \in 1..Len(under) : under[k].nexts > 0
      /\ dispatched = Len(under) /\ passedBy' \subseteq 1..dispatched
  BY <1>1, <1>2 DEF Awaiting
<1> HIDE DEF under
<1>4. HookTypeOK' /\ Awaiting(stack, dispatched, passedBy)' /\ HooksDecide'
  BY <1>1, <1>3, DispatchKeeps
<1> QED
  BY <1>1, <1>4 DEF HookInv

\* The hook on top calls next.
LEMMA CallsNextKeeps == ASSUME HookInv, HookCallsNext PROVE HookInv'
<1> DEFINE under == Append(Front(stack), Again(Last(stack)))
<1>1. /\ stack # << >> /\ passedBy' = passedBy \cup {Last(stack).hook} /\ hooks' = hooks
      /\ waterfall' = waterfall /\ Dispatch(under)
  BY DEF HookCallsNext, Again
<1>2. /\ under \in Seq(Running) /\ Awaiting(under, dispatched, passedBy')
      /\ \A k \in 1..Len(under) : under[k].nexts > 0
      /\ OnceBelow(under, Len(under) + 1) => dispatched = Len(under)
      /\ passedBy' \subseteq 1..dispatched
  BY <1>1, TopCalls
<1> HIDE DEF under
<1>3. HookTypeOK' /\ Awaiting(stack, dispatched, passedBy)' /\ HooksDecide'
  BY <1>1, <1>2, DispatchKeeps
<1> QED
  BY <1>1, <1>3 DEF HookInv

\* The hook on top returns.
LEMMA HookReturnsKeeps == ASSUME HookInv, HookReturns PROVE HookInv'
<1> DEFINE n == Len(stack)
<1>0. /\ stack \in Seq(Running) /\ stack # << >> /\ stack' = Front(stack)
      /\ UNCHANGED <<hooks, dispatched, waterfall, passedBy, finals>>
  BY DEF HookReturns, HookInv, HookTypeOK
<1>1. /\ stack' \in Seq(Running) /\ Len(stack') = n - 1 /\ n \in Nat /\ n > 0
      /\ \A k \in 1..(n - 1) : stack'[k] = stack[k]
  BY <1>0, FrontProperties
<1>2. /\ \A k \in 1..n : stack[k].hook \in 1..dispatched /\ (stack[k].nexts > 0 => stack[k].hook \in passedBy)
      /\ \A k \in 1..(n - 1) : stack[k].nexts > 0
      /\ \A k \in 1..n : OnceBelow(stack, k) => stack[k].hook = k
  BY DEF HookInv, Awaiting
<1> HIDE DEF n
<1>3. \A k \in 1..(n - 1) : k \in 1..n
  BY <1>1
<1>4. \A k \in 1..(n - 1) : OnceBelow(stack', k) => OnceBelow(stack, k)
  <2> SUFFICES ASSUME NEW k \in 1..(n - 1), OnceBelow(stack', k), NEW j \in 1..(k - 1)
               PROVE  stack[j].nexts <= 1
    BY DEF OnceBelow
  <2>1. j \in 1..(n - 1)
    BY <1>1
  <2> QED
    BY <1>1, <2>1 DEF OnceBelow
<1>5. Awaiting(stack', dispatched, passedBy)
  <2>1. \A k \in 1..Len(stack') : /\ stack'[k].hook \in 1..dispatched /\ stack'[k].nexts > 0
                                  /\ stack'[k].hook \in passedBy
    BY <1>1, <1>2, <1>3
  <2>2. \A k \in 1..Len(stack') : OnceBelow(stack', k) => stack'[k].hook = k
    BY <1>1, <1>2, <1>3, <1>4
  <2>3. \A k \in 1..(Len(stack') - 1) : k \in 1..Len(stack')
    BY <1>1
  <2>4. Len(stack') > 0 => stack'[Len(stack')].nexts # 0
    <3> SUFFICES ASSUME Len(stack') > 0 PROVE stack'[Len(stack')].nexts # 0
      OBVIOUS
    <3>1. Len(stack') \in 1..(n - 1)
      BY <1>1
    <3>2. stack'[Len(stack')] \in Running /\ stack'[Len(stack')].nexts > 0
      BY <1>1, <2>1, <3>1, ElementOfSeq
    <3>3. \A m \in Nat : m > 0 => m # 0
      OBVIOUS
    <3> QED
      BY <3>2, <3>3 DEF Running
  <2> QED
    BY <2>1, <2>2, <2>3, <2>4 DEF Awaiting
<1>6. waterfall' # "idle"
  BY <1>0 DEF HookInv
<1> QED
  BY <1>0, <1>1, <1>5, <1>6 DEF HookInv, HookTypeOK, HooksDecide

\* The waterfall returns.
LEMMA WaterfallReturnsKeeps == ASSUME HookInv, WaterfallReturns PROVE HookInv'
BY DEF WaterfallReturns, HookInv, HookTypeOK, HooksDecide

\* Both invariants hold in every reachable state.
THEOREM EventsInvariant == EventsSpec => [](ListenInv /\ HookInv)
<1>1. EventsInit => ListenInv /\ HookInv
  BY ListenInitially, HooksInitially
<1>2. ListenInv /\ HookInv /\ [ListenNext \/ HookNext]_eventVars => (ListenInv /\ HookInv)'
  <2> SUFFICES ASSUME ListenInv, HookInv, [ListenNext \/ HookNext]_eventVars
               PROVE  ListenInv' /\ HookInv'
    OBVIOUS
  <2>1. UNCHANGED listenVars => ListenInv'
    BY DEF listenVars, ListenInv, ListenTypeOK, Follows, EveryoneIsTold
  <2>2. UNCHANGED hookVars => HookInv'
    BY DEF hookVars, HookInv, HookTypeOK, HooksDecide
  <2>3. CASE ListenNext
    <3>1. ListenInv'
      BY SMTT(60), <2>3, OnKeeps, OffKeeps, EmitKeeps, CallKeeps, EmittedKeeps DEF ListenNext
    <3>2. UNCHANGED hookVars
      BY <2>3 DEF ListenNext, on, off, emit, CallHandler, Emitted
    <3> QED
      BY <2>2, <3>1, <3>2
  <2>4. CASE HookNext
    <3>1. HookInv'
      BY <2>4, AddHookKeeps, RunWaterfallKeeps, CallsNextKeeps, HookReturnsKeeps,
         WaterfallReturnsKeeps DEF HookNext
    <3>2. UNCHANGED listenVars
      BY <2>4 DEF HookNext, AddHook, runWaterfall, HookCallsNext, HookReturns, WaterfallReturns
    <3> QED
      BY <2>1, <3>1, <3>2
  <2>5. CASE UNCHANGED eventVars
    BY <2>1, <2>2, <2>5 DEF eventVars, listenVars, hookVars
  <2> QED
    BY <2>3, <2>4, <2>5
<1> QED
  BY <1>1, <1>2, PTL DEF EventsSpec

\* BusDelivers: an emission reaches the handlers it found, in their order and as often as
\* they were there, also when handlers come and go meanwhile; and the final handler of a
\* waterfall runs only when every hook has let it (PsaEventBus.emit, off, runWaterfall).
THEOREM BusIsReliable == EventsSpec => []BusDelivers
<1>1. ListenInv /\ HookInv => BusDelivers
  BY DEF ListenInv, HookInv, BusDelivers
<1> QED
  BY <1>1, EventsInvariant, PTL

-----------------------------------------------------------------------------
(* The files of sessions (SessionLog).                                     *)

\* The lines of a file.
InitLines == [kind : {"init"}, parent : Sessions, step : Nat]

\* A line is an event, the first line of a session, or does not parse.
FileLines == EventLines \cup InitLines \cup {Junk}

\* The bodies of the events among some lines.
Held(lines) == {b \in Nat : \E i \in 1..Len(lines) : lines[i] \in EventLines /\ lines[i].body = b}

\* Lines whose events have greater and greater bodies.
Rising(lines) ==
    \A i, j \in 1..Len(lines) :
        i < j /\ lines[i] \in EventLines /\ lines[j] \in EventLines => lines[i].body < lines[j].body

\* An event line has a number and a body, and nothing else is an event line.
LEMMA LinesDiffer ==
  /\ \A e \in EventLines : e.body \in Nat
  /\ Junk \notin EventLines
  /\ \A l \in InitLines : l \notin EventLines /\ l.kind = "init"
  /\ \A l \in EventLines : l.kind # "init"
  /\ Junk.kind # "init"
<1>1. \A e \in EventLines : e.body \in Nat /\ e.kind = "event"
  BY DEF EventLines
<1>2. \A l \in InitLines : l.kind = "init"
  BY DEF InitLines
<1>3. Junk.kind = "junk"
  BY DEF Junk
<1> QED
  BY <1>1, <1>2, <1>3

\* An event line has the number and the body it was made with.
LEMMA NewLine ==
  ASSUME NEW n \in Nat, NEW b \in Nat
  PROVE  EventLine(n, b) \in EventLines /\ EventLine(n, b).body = b
  BY DEF EventLine, EventLines

\* The history read back has the bodies of the event lines, in their order.
LEMMA HistoryOf ==
  ASSUME NEW lines \in Seq(FileLines), Rising(lines)
  PROVE  LET h == Select(lines, EventLines)
         IN  /\ h \in Seq(EventLines)
             /\ Len(h) \in Nat
             /\ Bodies(h) \in Seq(Nat)
             /\ Len(Bodies(h)) = Len(h)
             /\ \A i \in 1..Len(h) : h[i] \in EventLines /\ Bodies(h)[i] = h[i].body
             /\ Increasing(Bodies(h))
             /\ ToSet(Bodies(h)) = Held(lines)
<1> DEFINE h == Select(lines, EventLines)
<1>1. PICK place : Places0(place, h, lines, Len(lines), EventLines)
  BY SelectPlaces
<1>2. h \in Seq(EventLines)
  <2>1. h \in Seq(FileLines \cap EventLines)
    BY SelectPlaces
  <2>2. FileLines \cap EventLines = EventLines
    BY DEF FileLines
  <2> QED
    BY <2>1, <2>2
<1> HIDE DEF h
<1>3. Len(h) \in Nat /\ DOMAIN h = 1..Len(h) /\ \A i \in 1..Len(h) : h[i] \in EventLines
  BY <1>2, LenProperties, ElementOfSeq
<1>4. \A i \in 1..Len(h) : h[i].body \in Nat
  BY <1>3, LinesDiffer
<1>5. Bodies(h) = [i \in 1..Len(h) |-> h[i].body]
  BY <1>3 DEF Bodies
<1>6. Bodies(h) \in Seq(Nat) /\ Len(Bodies(h)) = Len(h) /\ DOMAIN Bodies(h) = 1..Len(h)
  <2>1. Bodies(h) \in [1..Len(h) -> Nat]
    BY <1>4, <1>5
  <2>2. Bodies(h) \in Seq(Nat)
    BY <1>3, <2>1, SeqDef
  <2>3. DOMAIN Bodies(h) = 1..Len(h)
    BY <1>5
  <2>4. Len(Bodies(h)) \in Nat /\ DOMAIN Bodies(h) = 1..Len(Bodies(h))
    BY <2>2, LenProperties
  <2> QED
    BY <1>3, <2>2, <2>3, <2>4
<1>7. \A i \in 1..Len(h) : Bodies(h)[i] = h[i].body
  BY <1>5
<1>8. /\ \A i \in 1..Len(h) : place[i] \in 1..Len(lines) /\ h[i] = lines[place[i]]
      /\ \A i, j \in 1..Len(h) : i < j => place[i] < place[j]
      /\ \A i \in 1..Len(lines) : lines[i] \in EventLines => \E k \in 1..Len(h) : place[k] = i
  BY <1>1 DEF Places0
<1>9. Increasing(Bodies(h))
  <2> SUFFICES ASSUME NEW i \in 1..Len(h), NEW j \in 1..Len(h), i < j
               PROVE  h[i].body < h[j].body
    BY <1>6, <1>7 DEF Increasing
  <2>1. /\ place[i] \in 1..Len(lines) /\ h[i] = lines[place[i]] /\ h[i] \in EventLines
        /\ place[j] \in 1..Len(lines) /\ h[j] = lines[place[j]] /\ h[j] \in EventLines
        /\ place[i] < place[j]
    BY <1>3, <1>8
  <2> QED
    BY <2>1 DEF Rising
<1>10. ToSet(Bodies(h)) = {h[i].body : i \in 1..Len(h)}
  BY <1>6, <1>7 DEF ToSet
<1>11. ASSUME NEW b \in Held(lines) PROVE b \in {h[i].body : i \in 1..Len(h)}
  <2>1. PICK i \in 1..Len(lines) : lines[i] \in EventLines /\ lines[i].body = b
    BY DEF Held
  <2>2. PICK k \in 1..Len(h) : place[k] = i
    BY <1>8, <2>1
  <2> QED
    BY <1>8, <2>1, <2>2
<1>12. ASSUME NEW i \in 1..Len(h) PROVE h[i].body \in Held(lines)
  BY <1>3, <1>4, <1>8 DEF Held
<1>13. ToSet(Bodies(h)) = Held(lines)
  BY <1>10, <1>11, <1>12
<1> QED
  BY <1>2, <1>3, <1>6, <1>7, <1>9, <1>13 DEF h

\* A line more.
LEMMA LineAdded ==
  ASSUME NEW lines \in Seq(FileLines), NEW x \in FileLines
  PROVE  LET new == Append(lines, x)
         IN  /\ new \in Seq(FileLines) /\ new # << >> /\ Last(new) = x
             /\ Held(new) = Held(lines) \cup (IF x \in EventLines THEN {x.body} ELSE {})
             /\ Rising(lines) /\ (x \in EventLines => \A b \in Held(lines) : b < x.body)
                => Rising(new)
             /\ lines # << >> => new[1] = lines[1]
             /\ lines = << >> => new[1] = x
<1> DEFINE new == Append(lines, x)
           n == Len(lines)
<1>0. /\ n \in Nat /\ new \in Seq(FileLines) /\ Len(new) = n + 1 /\ new[n + 1] = x
      /\ \A i \in 1..n : new[i] = lines[i]
      /\ \A i \in 1..n : lines[i] \in FileLines
      /\ new # << >>
  BY LenProperties, AppendProperties, ElementOfSeq
<1>1. Last(new) = x
  BY <1>0 DEF Last
<1> HIDE DEF new
<1>2. \A i \in 1..(n + 1) : i \in 1..n \/ i = n + 1
  BY <1>0
<1>2a. 1..n \subseteq 1..(n + 1) /\ n + 1 \in 1..(n + 1)
  BY <1>0
<1>3. Held(new) = Held(lines) \cup (IF x \in EventLines THEN {x.body} ELSE {})
  <2> DEFINE one == IF x \in EventLines THEN {x.body} ELSE {}
  <2>1. ASSUME NEW b \in Held(new) PROVE b \in Held(lines) \cup one
    <3>1. PICK i \in 1..(n + 1) : new[i] \in EventLines /\ new[i].body = b
      BY <1>0 DEF Held
    <3>2. CASE i \in 1..n
      BY <1>0, <3>1, <3>2 DEF Held
    <3>3. CASE i = n + 1
      BY <1>0, <3>1, <3>3
    <3> QED
      BY <1>2, <3>2, <3>3
  <2>2. ASSUME NEW b \in Held(lines) PROVE b \in Held(new)
    <3>1. PICK i \in 1..n : lines[i] \in EventLines /\ lines[i].body = b
      BY DEF Held
    <3> QED
      BY <1>0, <1>2a, <3>1 DEF Held
  <2>3. ASSUME NEW b \in one PROVE b \in Held(new)
    <3>1. x \in EventLines /\ b = x.body /\ b \in Nat
      BY LinesDiffer
    <3> QED
      BY <1>0, <1>2a, <3>1 DEF Held
  <2> QED
    BY <2>1, <2>2, <2>3
<1>4. ASSUME Rising(lines), x \in EventLines => \A b \in Held(lines) : b < x.body
      PROVE  Rising(new)
  <2> SUFFICES ASSUME NEW i \in 1..(n + 1), NEW j \in 1..(n + 1), i < j,
                      new[i] \in EventLines, new[j] \in EventLines
               PROVE  new[i].body < new[j].body
    BY <1>0 DEF Rising
  <2>1. i \in 1..n
    BY <1>0
  <2>2. CASE j \in 1..n
    BY <1>0, <1>4, <2>1, <2>2 DEF Rising
  <2>3. CASE j = n + 1
    <3>1. new[i] = lines[i] /\ lines[i].body \in Nat
      BY <1>0, <2>1, LinesDiffer
    <3>2. lines[i].body \in Held(lines)
      BY <2>1, <3>1 DEF Held
    <3> QED
      BY <1>0, <1>4, <2>3, <3>1, <3>2
  <2> QED
    BY <1>2, <2>2, <2>3
<1>5. lines # << >> => new[1] = lines[1]
  <2>1. lines # << >> => 1 \in 1..n
    BY <1>0, EmptySeq
  <2> QED
    BY <1>0, <2>1
<1>6. lines = << >> => new[1] = x
  <2>1. lines = << >> => n = 0
    BY EmptySeq
  <2> QED
    BY <1>0, <2>1
<1> QED
  BY <1>0, <1>1, <1>3, <1>4, <1>5, <1>6 DEF new

\* The last line away.
LEMMA LineGone ==
  ASSUME NEW lines \in Seq(FileLines), lines # << >>, Rising(lines)
  PROVE  LET less == Front(lines)
         IN  /\ less \in Seq(FileLines) /\ Rising(less)
             /\ Held(less) \subseteq Held(lines)
             /\ \A b \in Held(lines) \ Held(less) : Last(lines) \in EventLines /\ b = Last(lines).body
             /\ \A b \in Held(less), c \in Held(lines) : c < b => c \in Held(less)
             /\ less # << >> => less[1] = lines[1]
<1> DEFINE less == Front(lines)
           n == Len(lines)
<1>0. /\ n \in Nat /\ n > 0 /\ less \in Seq(FileLines) /\ Len(less) = n - 1
      /\ \A i \in 1..(n - 1) : less[i] = lines[i]
      /\ Last(lines) = lines[n]
      /\ \A i \in 1..n : lines[i] \in FileLines
  BY FrontProperties, ElementOfSeq
<1> HIDE DEF less
<1>1. 1..(n - 1) \subseteq 1..n /\ n \in 1..n /\ \A i \in 1..n : i \in 1..(n - 1) \/ i = n
  BY <1>0
<1>2. Rising(less)
  BY <1>0, <1>1 DEF Rising
<1>3. Held(less) \subseteq Held(lines)
  <2> SUFFICES ASSUME NEW b \in Held(less) PROVE b \in Held(lines)
    OBVIOUS
  <2>1. PICK i \in 1..(n - 1) : less[i] \in EventLines /\ less[i].body = b
    BY <1>0 DEF Held
  <2> QED
    BY <1>0, <1>1, <2>1 DEF Held
<1>4. ASSUME NEW b \in Held(lines), b \notin Held(less)
      PROVE  Last(lines) \in EventLines /\ b = Last(lines).body
  <2>1. PICK i \in 1..n : lines[i] \in EventLines /\ lines[i].body = b
    BY DEF Held
  <2>2. i \notin 1..(n - 1)
    BY <1>0, <1>4, <2>1 DEF Held
  <2> QED
    BY <1>0, <1>1, <2>1, <2>2
<1>5. ASSUME NEW b \in Held(less), NEW c \in Held(lines), c < b PROVE c \in Held(less)
  <2> SUFFICES ASSUME c \notin Held(less) PROVE FALSE
    OBVIOUS
  <2>1. lines[n] \in EventLines /\ c = lines[n].body
    BY <1>0, <1>4
  <2>2. PICK i \in 1..(n - 1) : less[i] \in EventLines /\ less[i].body = b
    BY <1>0 DEF Held
  <2>3. i < n /\ lines[i] \in EventLines /\ lines[i].body = b /\ i \in 1..n
    BY <1>0, <2>2
  <2>4. b < c
    BY <1>1, <2>1, <2>3 DEF Rising
  <2>5. b \in Nat /\ c \in Nat
    BY DEF Held
  <2>6. \A x, y \in Nat : ~ (x < y /\ y < x)
    OBVIOUS
  <2> QED
    BY <1>5, <2>4, <2>5, <2>6
<1>6. less # << >> => less[1] = lines[1]
  <2>1. less # << >> => 1 \in 1..(n - 1)
    BY <1>0, EmptySeq
  <2> QED
    BY <1>0, <2>1
<1> QED
  BY <1>0, <1>2, <1>3, <1>4, <1>5, <1>6 DEF less

\* When only the first element is not in S, Select drops it and nothing else.
LEMMA SelectAfterFirst ==
  ASSUME NEW T, NEW S, NEW x \in T, x \notin S, NEW u \in Seq(T), \A i \in 1..Len(u) : u[i] \in S
  PROVE  Select(<<x>> \o u, S) = u
<1> DEFINE s == <<x>> \o u
           n == Len(u)
<1>0. /\ n \in Nat /\ s \in Seq(T) /\ Len(s) = n + 1 /\ s[1] = x
      /\ \A i \in 1..n : s[i + 1] = u[i]
      /\ \A i \in 1..n : u[i] \in T
  <2>1. <<x>> \in Seq(T) /\ Len(<<x>>) = 1 /\ <<x>>[1] = x
    OBVIOUS
  <2>2. n \in Nat /\ \A i \in 1..n : u[i] \in T
    BY LenProperties, ElementOfSeq
  <2>3. s \in Seq(T) /\ Len(s) = n + 1
    BY <2>1, <2>2, ConcatProperties
  <2>4. \A i \in 1..(n + 1) : s[i] = IF i <= 1 THEN <<x>>[i] ELSE u[i - 1]
    BY <2>1, <2>2, ConcatProperties
  <2>5. \A i \in 1..n : s[i + 1] = u[i]
    <3> SUFFICES ASSUME NEW i \in 1..n PROVE s[i + 1] = u[i]
      OBVIOUS
    <3>1. i + 1 \in 1..(n + 1) /\ ~ (i + 1 <= 1) /\ (i + 1) - 1 = i
      BY <2>2
    <3> QED
      BY <2>4, <3>1
  <2>6. s[1] = x
    <3>1. 1 \in 1..(n + 1)
      BY <2>2
    <3> QED
      BY <2>1, <2>4, <3>1
  <2> QED
    BY <2>2, <2>3, <2>5, <2>6
<1> HIDE DEF s
<1>1. PICK f : Selects(f, s, S) /\ Select(s, S) = f[Len(s)]
  BY <1>0, SelectIsLast
<1> DEFINE Good(k) == f[k + 1] \in Seq(T) /\ Len(f[k + 1]) = k /\ \A i \in 1..k : f[k + 1][i] = u[i]
           M == {k \in Nat : k <= n => Good(k)}
<1>2. 0 \in M
  <2>1. f[1] = << >>
    <3>1. 1 \in 1..Len(s) /\ 1 - 1 = 0
      BY <1>0
    <3>2. f[1] = f[1 - 1]
      BY <1>0, <1>1, <3>1 DEF Selects
    <3> QED
      BY <1>1, <3>1, <3>2 DEF Selects
  <2>2. << >> \in Seq(T) /\ Len(<< >>) = 0
    BY EmptySeq
  <2>3. 0 + 1 = 1 /\ \A i \in 1..0 : FALSE
    OBVIOUS
  <2> QED
    BY <2>1, <2>2, <2>3
<1>3. ASSUME NEW k \in M PROVE k + 1 \in M
  <2> SUFFICES ASSUME k + 1 <= n PROVE Good(k + 1)
    OBVIOUS
  <2>1. k \in Nat /\ k <= n /\ k + 1 \in 1..n /\ (k + 1) + 1 \in 1..Len(s) /\ ((k + 1) + 1) - 1 = k + 1
    BY <1>0
  <2>2. Good(k)
    BY <2>1
  <2>3. s[(k + 1) + 1] = u[k + 1] /\ u[k + 1] \in S /\ u[k + 1] \in T
    BY <1>0, <2>1
  <2>4. f[(k + 1) + 1] = Append(f[k + 1], u[k + 1])
    <3>1. f[(k + 1) + 1] = IF s[(k + 1) + 1] \in S
                           THEN Append(f[((k + 1) + 1) - 1], s[(k + 1) + 1])
                           ELSE f[((k + 1) + 1) - 1]
      BY <1>1, <2>1 DEF Selects
    <3> QED
      BY <2>1, <2>3, <3>1
  <2>5. /\ f[(k + 1) + 1] \in Seq(T) /\ Len(f[(k + 1) + 1]) = k + 1
        /\ f[(k + 1) + 1][k + 1] = u[k + 1]
        /\ \A i \in 1..k : f[(k + 1) + 1][i] = f[k + 1][i]
    BY <2>2, <2>3, <2>4, AppendProperties
  <2>6. \A i \in 1..(k + 1) : i \in 1..k \/ i = k + 1
    BY <2>1
  <2>7. \A i \in 1..(k + 1) : f[(k + 1) + 1][i] = u[i]
    BY <2>2, <2>5, <2>6
  <2> QED
    BY <2>5, <2>7
<1>4. n \in M
  <2> HIDE DEF M
  <2>1. M \in SUBSET Nat
    BY DEF M
  <2> QED
    BY <1>0, <1>2, <1>3, <2>1, Inductive
<1>5. Good(n)
  BY <1>0, <1>4
<1>6. f[n + 1] = u
  BY <1>0, <1>5, SeqEqual
<1> QED
  BY <1>0, <1>1, <1>6 DEF s

\* What a fork writes: its first line, then copies of the first n events of a history.
LEMMA CopyOf ==
  ASSUME NEW h \in Seq(EventLines), Increasing(Bodies(h)), NEW n \in Nat, n <= Len(h),
         NEW init \in InitLines
  PROVE  LET new == <<init>> \o Renumbered(h, n)
             b == {h[i].body : i \in 1..n}
         IN  /\ new \in Seq(FileLines) /\ new # << >> /\ new[1] = init
             /\ Rising(new) /\ Held(new) = b
             /\ Last(new) \notin EventLines \/ Last(new).body \in b
             /\ Bodies(Select(new, EventLines)) = SubSeq(Bodies(h), 1, n)
             /\ SubSeq(Bodies(h), 1, n) \in Seq(Nat)
             /\ ToSet(SubSeq(Bodies(h), 1, n)) = b
<1> DEFINE r == Renumbered(h, n)
           new == <<init>> \o r
           b == {h[i].body : i \in 1..n}
<1>0. /\ Len(h) \in Nat /\ DOMAIN h = 1..Len(h) /\ \A i \in 1..Len(h) : h[i] \in EventLines
      /\ \A i \in 1..Len(h) : h[i].body \in Nat
      /\ 1..n \subseteq 1..Len(h)
  <2>1. Len(h) \in Nat /\ DOMAIN h = 1..Len(h) /\ \A i \in 1..Len(h) : h[i] \in EventLines
    BY LenProperties, ElementOfSeq
  <2> QED
    BY <2>1, LinesDiffer
<1>1. r = [i \in 1..n |-> EventLine(i, h[i].body)]
  BY DEF Renumbered
<1>2. \A i \in 1..n : EventLine(i, h[i].body) \in EventLines /\ EventLine(i, h[i].body).body = h[i].body
  BY <1>0, NewLine
<1>3. r \in Seq(EventLines) /\ Len(r) = n /\ \A i \in 1..n : r[i] \in EventLines /\ r[i].body = h[i].body
  <2>1. r \in [1..n -> EventLines]
    BY <1>1, <1>2
  <2>2. r \in Seq(EventLines)
    BY <2>1, SeqDef
  <2>3. Len(r) = n
    BY <2>1, <2>2, LenProperties
  <2> QED
    BY <1>1, <1>2, <2>2, <2>3
<1> HIDE DEF r
<1>4. r \in Seq(FileLines) /\ init \in FileLines /\ init \notin EventLines
  <2>1. EventLines \subseteq FileLines /\ init \in FileLines
    BY DEF FileLines
  <2> QED
    BY <1>3, <2>1, SeqMonotonic, LinesDiffer
<1>5. /\ new \in Seq(FileLines) /\ Len(new) = n + 1 /\ new[1] = init
      /\ \A i \in 1..n : new[i + 1] = r[i]
  <2>1. <<init>> \in Seq(FileLines) /\ Len(<<init>>) = 1 /\ <<init>>[1] = init
    BY <1>4
  <2>2. new \in Seq(FileLines) /\ Len(new) = 1 + n
    BY <1>3, <1>4, <2>1, ConcatProperties
  <2>3. \A i \in 1..(1 + n) : new[i] = IF i <= 1 THEN <<init>>[i] ELSE r[i - 1]
    BY <1>3, <1>4, <2>1, ConcatProperties
  <2>4. \A i \in 1..n : i + 1 \in 1..(1 + n) /\ ~ (i + 1 <= 1) /\ (i + 1) - 1 = i
    OBVIOUS
  <2>5. 1 \in 1..(1 + n) /\ 1 + n = n + 1
    OBVIOUS
  <2> QED
    BY <2>1, <2>2, <2>3, <2>4, <2>5
<1>6. new # << >>
  BY <1>5, EmptySeq
<1> HIDE DEF new
<1>7. \A i \in 1..Len(new) : new[i] \in EventLines
        => i - 1 \in 1..n /\ new[i] = r[i - 1] /\ new[i].body = h[i - 1].body
  <2> SUFFICES ASSUME NEW i \in 1..(n + 1), new[i] \in EventLines
               PROVE  i - 1 \in 1..n /\ new[i] = r[i - 1] /\ new[i].body = h[i - 1].body
    BY <1>5
  <2>1. i # 1
    BY <1>4, <1>5
  <2>2. i - 1 \in 1..n /\ (i - 1) + 1 = i
    BY <2>1
  <2> QED
    BY <1>3, <1>5, <2>2
<1>8. \A i, j \in 1..n : i < j => h[i].body < h[j].body
  <2>1. \A i \in 1..Len(h) : Bodies(h)[i] = h[i].body
    BY <1>0 DEF Bodies
  <2>2. Bodies(h) \in Seq(Nat) /\ Len(Bodies(h)) = Len(h)
    <3>1. Bodies(h) \in [1..Len(h) -> Nat]
      BY <1>0 DEF Bodies
    <3>2. Bodies(h) \in Seq(Nat)
      BY <1>0, <3>1, SeqDef
    <3> QED
      BY <1>0, <3>1, <3>2, LenProperties
  <2>3. \A i, j \in 1..Len(h) : i < j => h[i].body < h[j].body
    BY <2>1, <2>2 DEF Increasing
  <2> QED
    BY <1>0, <2>3
<1>9. Rising(new)
  <2> SUFFICES ASSUME NEW i \in 1..Len(new), NEW j \in 1..Len(new), i < j,
                      new[i] \in EventLines, new[j] \in EventLines
               PROVE  new[i].body < new[j].body
    BY DEF Rising
  <2>1. /\ i - 1 \in 1..n /\ new[i].body = h[i - 1].body
        /\ j - 1 \in 1..n /\ new[j].body = h[j - 1].body
    BY <1>7
  <2>2. i - 1 < j - 1
    BY <1>5
  <2> QED
    BY <1>8, <2>1, <2>2
<1>10. Held(new) = b
  <2>1. ASSUME NEW c \in Held(new) PROVE c \in b
    <3>1. PICK i \in 1..Len(new) : new[i] \in EventLines /\ new[i].body = c
      BY DEF Held
    <3> QED
      BY <1>7, <3>1
  <2>2. ASSUME NEW i \in 1..n PROVE h[i].body \in Held(new)
    <3>1. new[i + 1] \in EventLines /\ new[i + 1].body = h[i].body /\ i + 1 \in 1..Len(new)
      BY <1>3, <1>5
    <3> QED
      BY <1>0, <3>1 DEF Held
  <2> QED
    BY <2>1, <2>2
<1>11. Last(new) \notin EventLines \/ Last(new).body \in b
  <2> SUFFICES ASSUME Last(new) \in EventLines PROVE Last(new).body \in b
    OBVIOUS
  <2>1. Last(new) = new[Len(new)] /\ Len(new) \in 1..Len(new)
    BY <1>5 DEF Last
  <2> QED
    BY <1>7, <2>1
<1>12. Select(new, EventLines) = r
  BY <1>3, <1>4, SelectAfterFirst DEF new
<1>13. Bodies(r) = SubSeq(Bodies(h), 1, n) /\ Bodies(r) \in Seq(Nat)
       /\ ToSet(Bodies(r)) = b
  <2>1. DOMAIN r = 1..n
    BY <1>3, LenProperties
  <2>2. Bodies(r) = [i \in 1..n |-> h[i].body]
    BY <1>3, <2>1 DEF Bodies
  <2>3. Bodies(r) \in [1..n -> Nat]
    BY <1>0, <2>2
  <2>4. Bodies(r) \in Seq(Nat) /\ Len(Bodies(r)) = n
    <3>1. Bodies(r) \in Seq(Nat)
      BY <2>3, SeqDef
    <3> QED
      BY <2>3, <3>1, LenProperties
  <2>5. \A i \in 1..n : Bodies(h)[i] = h[i].body /\ Bodies(h)[i] \in Nat
    BY <1>0 DEF Bodies
  <2>6. SubSeq(Bodies(h), 1, n) = Bodies(r)
    <3>1. /\ SubSeq(Bodies(h), 1, n) \in Seq(Nat)
          /\ Len(SubSeq(Bodies(h), 1, n)) = IF 1 <= n THEN n - 1 + 1 ELSE 0
          /\ \A k \in 1..(n - 1 + 1) : SubSeq(Bodies(h), 1, n)[k] = Bodies(h)[1 + k - 1]
      BY <2>5, SubSeqProperties
    <3>2. (IF 1 <= n THEN n - 1 + 1 ELSE 0) = n /\ n - 1 + 1 = n
      OBVIOUS
    <3>3. \A k \in 1..n : 1 + k - 1 = k
      OBVIOUS
    <3>4. \A k \in 1..n : SubSeq(Bodies(h), 1, n)[k] = Bodies(r)[k]
      BY <2>2, <2>5, <3>1, <3>2, <3>3
    <3> QED
      BY <2>4, <3>1, <3>2, <3>4, SeqEqual
  <2>7. ToSet(Bodies(r)) = b
    BY <2>2 DEF ToSet
  <2> QED
    BY <2>4, <2>6, <2>7
<1> QED
  BY <1>5, <1>6, <1>9, <1>10, <1>11, <1>12, <1>13 DEF new, r

-----------------------------------------------------------------------------
(* The log: the inductive invariant.                                       *)

\* The types of the files, their ends, the counters and the acknowledged events.
LogTypes ==
    /\ jsonl \in [Sessions -> Seq(FileLines)]
    /\ tail \in [Sessions -> {"newline", "whole", "cut"}]
    /\ counts \in [Sessions -> Nat]
    /\ acked \in [Sessions -> Seq(Nat)]
    /\ made \in Nat /\ torn \in Nat

\* A file has its events in the order they were made, and an unfinished last line is not
\* of an acknowledged event.
Sound(s) ==
    /\ Rising(jsonl[s])
    /\ \A b \in Held(jsonl[s]) : b <= made
    /\ \A b \in ToSet(acked[s]) : b <= made
    /\ tail[s] # "newline" =>
          /\ jsonl[s] # << >>
          /\ Last(jsonl[s]) \in EventLines => Last(jsonl[s]).body \notin ToSet(acked[s])

\* The acknowledged events that no file holds any more.
Unheld == {e \in Sessions \X (1..MaxEvents) : e[2] \in ToSet(acked[e[1]]) \ Held(jsonl[e[1]])}

\* The sessions whose last line is unfinished.
Open == {s \in Sessions : tail[s] # "newline"}

\* Each write that failed may have cost an event, or will.
Debt ==
    /\ IsFiniteSet(Unheld) /\ IsFiniteSet(Open)
    /\ Cardinality(Unheld) + Cardinality(Open) <= torn

\* H has all of P that is below what it shares with P.
Under(H, P) == \A a \in H \cap P, b \in P : b < a => b \in H

\* A file that starts as the copy of another, and which.
Child(t) == jsonl[t] # << >> /\ jsonl[t][1].kind = "init" /\ jsonl[t][1].parent # t
Parent(t) == jsonl[t][1].parent

\* A fork has what its parent holds, up to the last event they share.
Descended ==
    \A t \in Sessions : Child(t) =>
        /\ Parent(t) \in Sessions /\ jsonl[Parent(t)] # << >>
        /\ Under(Held(jsonl[t]), Held(jsonl[Parent(t)]))

\* The invariant of the log.
LogInv ==
    /\ LogTypes
    /\ \A s \in Sessions : Sound(s)
    /\ Debt
    /\ HistoryIsLog
    /\ Descended

-----------------------------------------------------------------------------

\* The invariant implies the property.
LEMMA LogInvImplies == LogInv => HistoryKept
<1> SUFFICES ASSUME LogInv PROVE HistoryKept
  OBVIOUS
<1>1. \A s \in Sessions : jsonl[s] \in Seq(FileLines) /\ Rising(jsonl[s])
  BY DEF LogInv, LogTypes, Sound
<1>2. ASSUME NEW s \in Sessions
      PROVE  /\ Bodies(GetHistory(s)) \in Seq(Nat) /\ Increasing(Bodies(GetHistory(s)))
             /\ ToSet(Bodies(GetHistory(s))) = Held(jsonl[s])
  BY <1>1, HistoryOf DEF GetHistory
<1>3. LossBounded
  <2>1. LostEvents = Unheld
    BY <1>2 DEF LostEvents, Unheld
  <2>2. Cardinality(Unheld) \in Nat /\ Cardinality(Open) \in Nat
    BY FS_CardinalityType DEF LogInv, Debt
  <2> QED
    BY <2>1, <2>2 DEF LogInv, Debt, LossBounded, LogTypes
<1>4. ForkIsPrefix
  <2> SUFFICES ASSUME NEW t \in Sessions, Child(t)
               PROVE  IsPrefix(Select(Bodies(GetHistory(t)), ToSet(Bodies(GetHistory(Parent(t))))),
                               Bodies(GetHistory(Parent(t))))
    BY DEF ForkIsPrefix, Child, Parent
  <2>1. /\ Parent(t) \in Sessions
        /\ Under(Held(jsonl[t]), Held(jsonl[Parent(t)]))
    BY DEF LogInv, Descended
  <2> DEFINE own == Bodies(GetHistory(t))
             b == Bodies(GetHistory(Parent(t)))
             H == Held(jsonl[t])
             P == Held(jsonl[Parent(t)])
             a == Select(own, ToSet(b))
  <2>2. /\ own \in Seq(Nat) /\ Increasing(own) /\ ToSet(own) = H
        /\ b \in Seq(Nat) /\ Increasing(b) /\ ToSet(b) = P
    BY <1>2, <2>1
  <2>3. /\ Under(H, P) /\ H \subseteq Nat /\ P \subseteq Nat
    BY <2>1 DEF Held
  <2>4. PICK place : Places0(place, a, own, Len(own), P)
    BY <2>2, SelectPlaces
  <2>5. a \in Seq(Nat \cap P)
    BY <2>2, SelectPlaces
  <2> HIDE DEF own, b, H, P, a
  <2>6. a \in Seq(Nat) /\ Len(a) \in Nat /\ \A i \in 1..Len(a) : a[i] \in P /\ a[i] \in Nat
    BY <2>5, SeqMonotonic, ElementOfSeq, LenProperties
  <2>7. /\ \A i \in 1..Len(a) : place[i] \in 1..Len(own) /\ a[i] = own[place[i]]
        /\ \A i, j \in 1..Len(a) : i < j => place[i] < place[j]
        /\ \A i \in 1..Len(own) : own[i] \in P => \E k \in 1..Len(a) : place[k] = i
    BY <2>4 DEF Places0
  <2>8. Increasing(a)
    BY ZenonT(60), <2>2, <2>7 DEF Increasing
  <2>9. /\ DOMAIN own = 1..Len(own) /\ DOMAIN b = 1..Len(b)
        /\ \A i \in 1..Len(own) : own[i] \in H
        /\ \A j \in 1..Len(b) : b[j] \in P
        /\ \A x \in H : \E i \in 1..Len(own) : own[i] = x
        /\ \A x \in P : \E j \in 1..Len(b) : b[j] = x
    BY <2>2, LenProperties DEF ToSet
  <2>10. \A i \in 1..Len(a) : \E j \in 1..Len(b) : a[i] = b[j]
    BY <2>6, <2>9
  <2>11. ASSUME NEW i \in 1..Len(a), NEW j \in 1..Len(b), b[j] < a[i]
         PROVE  \E k \in 1..Len(a) : a[k] = b[j]
    <3>1. a[i] \in H \cap P /\ b[j] \in P
      BY <2>6, <2>7, <2>9
    <3>2. b[j] \in H
      BY <2>3, <2>11, <3>1 DEF Under
    <3>3. PICK n \in 1..Len(own) : own[n] = b[j]
      BY <2>9, <3>2
    <3> QED
      BY <2>7, <3>1, <3>3
  <2>12. IsPrefix(a, b)
    BY <2>2, <2>6, <2>8, <2>10, <2>11, IncreasingPrefix
  <2>13. ToSet(b) = P
    BY <2>2
  <2> QED
    BY <2>12, <2>13 DEF own, b, a
<1> QED
  BY <1>3, <1>4 DEF LogInv, HistoryKept

-----------------------------------------------------------------------------

\* One more acknowledged.
LEMMA OneMoreAcked ==
  ASSUME NEW q \in Seq(Nat), NEW x \in Nat
  PROVE  Append(q, x) \in Seq(Nat) /\ ToSet(Append(q, x)) = ToSet(q) \cup {x}
<1>1. /\ Append(q, x) \in Seq(Nat) /\ Len(Append(q, x)) = Len(q) + 1 /\ Len(q) \in Nat
      /\ Append(q, x)[Len(q) + 1] = x
      /\ \A i \in 1..Len(q) : Append(q, x)[i] = q[i]
  BY AppendProperties, LenProperties
<1>2. DOMAIN Append(q, x) = 1..(Len(q) + 1) /\ DOMAIN q = 1..Len(q)
  BY <1>1, LenProperties
<1>3. \A i \in 1..(Len(q) + 1) : i \in 1..Len(q) \/ i = Len(q) + 1
  BY <1>1
<1>4. 1..Len(q) \subseteq 1..(Len(q) + 1) /\ Len(q) + 1 \in 1..(Len(q) + 1)
  BY <1>1
<1> DEFINE a == Append(q, x)
<1> HIDE DEF a
<1>5. ToSet(a) = {a[i] : i \in 1..(Len(q) + 1)} /\ ToSet(q) = {q[i] : i \in 1..Len(q)}
  BY <1>2 DEF ToSet, a
<1>6. a[Len(q) + 1] = x /\ \A i \in 1..Len(q) : a[i] = q[i]
  BY <1>1 DEF a
<1>7. ToSet(a) = ToSet(q) \cup {x}
  BY <1>3, <1>4, <1>5, <1>6
<1> QED
  BY <1>1, <1>7 DEF a

\* The bodies of a history with one event more.
LEMMA OneMoreBody ==
  ASSUME NEW h \in Seq(EventLines), NEW e \in EventLines
  PROVE  Bodies(Append(h, e)) = Append(Bodies(h), e.body)
<1>1. /\ Append(h, e) \in Seq(EventLines) /\ Len(Append(h, e)) = Len(h) + 1 /\ Len(h) \in Nat
      /\ Append(h, e)[Len(h) + 1] = e
      /\ \A i \in 1..Len(h) : Append(h, e)[i] = h[i]
      /\ \A i \in 1..Len(h) : h[i] \in EventLines
  BY AppendProperties, LenProperties, ElementOfSeq
<1>2. DOMAIN Append(h, e) = 1..(Len(h) + 1) /\ DOMAIN h = 1..Len(h)
  BY <1>1, LenProperties
<1>3. Bodies(h) = [i \in 1..Len(h) |-> h[i].body] /\ Bodies(h) \in [1..Len(h) -> Nat]
  BY <1>1, <1>2, LinesDiffer DEF Bodies
<1>4. Bodies(h) \in Seq(Nat) /\ Len(Bodies(h)) = Len(h) /\ e.body \in Nat
  <2>1. Bodies(h) \in Seq(Nat)
    BY <1>1, <1>3, SeqDef
  <2> QED
    BY <1>1, <1>3, <2>1, LenProperties, LinesDiffer
<1> DEFINE l == Append(h, e)
           r == Append(Bodies(h), e.body)
<1>5. Bodies(l) = [i \in 1..(Len(h) + 1) |-> l[i].body]
  BY <1>2 DEF Bodies
<1>6. /\ r \in Seq(Nat) /\ Len(r) = Len(h) + 1 /\ r[Len(h) + 1] = e.body
      /\ \A i \in 1..Len(h) : r[i] = Bodies(h)[i]
  BY <1>4, AppendProperties
<1> HIDE DEF l, r
<1>7. \A i \in 1..(Len(h) + 1) : l[i].body = r[i] /\ l[i].body \in Nat
  <2> SUFFICES ASSUME NEW i \in 1..(Len(h) + 1) PROVE l[i].body = r[i] /\ l[i].body \in Nat
    OBVIOUS
  <2>1. CASE i \in 1..Len(h)
    <3>1. l[i] = h[i] /\ h[i] \in EventLines
      BY <1>1, <2>1 DEF l
    <3> QED
      BY <1>3, <1>6, <2>1, <3>1, LinesDiffer
  <2>2. CASE i = Len(h) + 1
    BY <1>1, <1>4, <1>6, <2>2 DEF l
  <2> QED
    BY <1>1, <2>1, <2>2
<1>8. Bodies(l) \in Seq(Nat) /\ Len(Bodies(l)) = Len(h) + 1
  <2>1. Bodies(l) \in [1..(Len(h) + 1) -> Nat]
    BY <1>5, <1>7
  <2>2. Bodies(l) \in Seq(Nat)
    BY <1>1, <2>1, SeqDef
  <2> QED
    BY <1>1, <2>1, <2>2, LenProperties
<1>9. Bodies(l) = r
  BY <1>1, <1>5, <1>6, <1>7, <1>8, SeqEqual
<1> QED
  BY <1>9 DEF l, r

\* What a write of the event x leaves of a file: the event is there or not, and if
\* another is gone it is the last.
After(lines, new, x) ==
    /\ new \in Seq(FileLines) /\ Rising(new)
    /\ Held(new) \subseteq Held(lines) \cup {x}
    /\ \A b \in Held(new) \cap Held(lines), c \in Held(lines) : c < b => c \in Held(new)
    /\ \A b \in Held(lines) \ Held(new) : Last(lines) \in EventLines /\ b = Last(lines).body
    /\ lines # << >> => new # << >>
    /\ new # << >> /\ new[1].kind = "init" => lines # << >> /\ new[1] = lines[1]

\* A line that does not parse more.
LEMMA JunkAdded ==
  ASSUME NEW lines \in Seq(FileLines), Rising(lines)
  PROVE  LET new == Append(lines, Junk)
         IN  /\ new \in Seq(FileLines) /\ new # << >> /\ Last(new) = Junk
             /\ Held(new) = Held(lines) /\ Rising(new)
             /\ lines # << >> => new[1] = lines[1]
             /\ lines = << >> => new[1] = Junk
<1>1. Junk \in FileLines /\ Junk \notin EventLines
  BY LinesDiffer DEF FileLines
<1> DEFINE new == Append(lines, Junk)
           more == IF Junk \in EventLines THEN {Junk.body} ELSE {}
<1>2. /\ new \in Seq(FileLines) /\ new # << >> /\ Last(new) = Junk
      /\ Held(new) = Held(lines) \cup more
      /\ Rising(lines) /\ (Junk \in EventLines => \A b \in Held(lines) : b < Junk.body)
         => Rising(new)
      /\ lines # << >> => new[1] = lines[1]
      /\ lines = << >> => new[1] = Junk
  BY <1>1, LineAdded
<1>3. more = {}
  BY <1>1
<1> HIDE DEF new, more
<1>4. Held(new) = Held(lines)
  BY <1>2, <1>3
<1> QED
  BY <1>1, <1>2, <1>4 DEF new

\* An append that succeeds.
LEMMA Glued ==
  ASSUME NEW lines \in Seq(FileLines), Rising(lines), NEW end, end # "newline" => lines # << >>,
         NEW n \in Nat, NEW x \in Nat, \A b \in Held(lines) : b < x
  PROVE  LET new == GluedLog(lines, end, EventLine(n, x))
         IN  /\ After(lines, new, x) /\ new # << >>
             /\ end = "newline" => x \in Held(new) /\ Held(lines) \subseteq Held(new)
<1> DEFINE line == EventLine(n, x)
<1>0. line \in EventLines /\ line.body = x /\ line \in FileLines /\ line.kind # "init"
  BY NewLine, LinesDiffer DEF FileLines
<1> HIDE DEF line
<1>1. Junk \in FileLines /\ Junk \notin EventLines /\ Junk.kind # "init"
  BY LinesDiffer DEF FileLines
<1>2. CASE end = "newline"
  <2> DEFINE new == Append(lines, line)
  <2>1. /\ new \in Seq(FileLines) /\ new # << >> /\ Held(new) = Held(lines) \cup {x} /\ Rising(new)
        /\ lines # << >> => new[1] = lines[1]
        /\ lines = << >> => new[1] = line
    BY <1>0, LineAdded
  <2> HIDE DEF new
  <2>2. After(lines, new, x)
    BY <1>0, <2>1 DEF After
  <2>3. GluedLog(lines, end, line) = new
    BY <1>2 DEF GluedLog, new
  <2> QED
    BY <2>1, <2>2, <2>3 DEF line
<1>3. CASE end # "newline"
  <2> DEFINE less == Front(lines)
             new == Append(less, Junk)
  <2>1. /\ less \in Seq(FileLines) /\ Rising(less)
        /\ Held(less) \subseteq Held(lines)
        /\ \A b \in Held(lines) \ Held(less) : Last(lines) \in EventLines /\ b = Last(lines).body
        /\ \A b \in Held(less), c \in Held(lines) : c < b => c \in Held(less)
        /\ less # << >> => less[1] = lines[1]
    BY <1>3, LineGone
  <2> HIDE DEF less
  <2>2. /\ new \in Seq(FileLines) /\ new # << >> /\ Held(new) = Held(less) /\ Rising(new)
        /\ less # << >> => new[1] = less[1]
        /\ less = << >> => new[1] = Junk
    BY <2>1, JunkAdded
  <2> HIDE DEF new
  <2>3. After(lines, new, x)
    BY <1>1, <1>3, <2>1, <2>2 DEF After
  <2>4. GluedLog(lines, end, line) = new
    BY <1>3 DEF GluedLog, new, less
  <2> QED
    BY <1>3, <2>2, <2>3, <2>4 DEF line
<1> QED
  BY <1>2, <1>3

\* What a failed write leaves: nothing that was held is lost, unless it was in an
\* unfinished last line; and only the event written may be left in one.
LEMMA LeftOver ==
  ASSUME NEW lines \in Seq(FileLines), Rising(lines),
         NEW end \in {"newline", "whole", "cut"}, end # "newline" => lines # << >>,
         NEW n \in Nat, NEW x \in Nat, \A b \in Held(lines) : b < x,
         NEW left \in LeftBy(lines, end, EventLine(n, x))
  PROVE  /\ After(lines, left[1], x)
         /\ left[2] \in {"newline", "whole", "cut"}
         /\ end = "newline" => Held(lines) \subseteq Held(left[1])
         /\ left[2] # "newline" =>
              /\ left[1] # << >>
              /\ Last(left[1]) \in EventLines =>
                   Last(left[1]).body = x \/ (end # "newline" /\ left[1] = lines)
<1> DEFINE line == EventLine(n, x)
<1>0. line \in EventLines /\ line.body = x /\ line \in FileLines /\ line.kind # "init"
  BY NewLine, LinesDiffer DEF FileLines
<1>1. Junk \in FileLines /\ Junk \notin EventLines /\ Junk.kind # "init"
  BY LinesDiffer DEF FileLines
<1>2. \/ left = <<lines, end>>
      \/ end = "newline" /\ left = <<Append(lines, line), "whole">>
      \/ end = "newline" /\ left = <<Append(lines, Junk), "cut">>
      \/ end # "newline" /\ left = <<Append(Front(lines), Junk), "cut">>
  BY DEF LeftBy
<1> HIDE DEF line
<1>3. CASE left = <<lines, end>>
  <2>1. left[1] = lines /\ left[2] = end
    BY <1>3
  <2> QED
    BY <2>1 DEF After
<1>4. CASE end = "newline" /\ left = <<Append(lines, line), "whole">>
  <2> DEFINE new == Append(lines, line)
  <2>1. /\ new \in Seq(FileLines) /\ new # << >> /\ Held(new) = Held(lines) \cup {x} /\ Rising(new)
        /\ Last(new) = line
        /\ lines # << >> => new[1] = lines[1]
        /\ lines = << >> => new[1] = line
    BY <1>0, LineAdded
  <2>2. left[1] = new /\ left[2] = "whole"
    BY <1>4
  <2> HIDE DEF new
  <2>3. After(lines, new, x)
    BY <1>0, <2>1 DEF After
  <2> QED
    BY <1>0, <2>1, <2>2, <2>3
<1>5. CASE end = "newline" /\ left = <<Append(lines, Junk), "cut">>
  <2> DEFINE new == Append(lines, Junk)
  <2>1. /\ new \in Seq(FileLines) /\ new # << >> /\ Held(new) = Held(lines) /\ Rising(new)
        /\ Last(new) = Junk
        /\ lines # << >> => new[1] = lines[1]
        /\ lines = << >> => new[1] = Junk
    BY JunkAdded
  <2>2. left[1] = new /\ left[2] = "cut"
    BY <1>5
  <2> HIDE DEF new
  <2>3. After(lines, new, x)
    BY <1>1, <2>1 DEF After
  <2> QED
    BY <1>1, <2>1, <2>2, <2>3
<1>6. CASE end # "newline" /\ left = <<Append(Front(lines), Junk), "cut">>
  <2> DEFINE less == Front(lines)
             new == Append(less, Junk)
  <2>1. /\ less \in Seq(FileLines) /\ Rising(less)
        /\ Held(less) \subseteq Held(lines)
        /\ \A b \in Held(lines) \ Held(less) : Last(lines) \in EventLines /\ b = Last(lines).body
        /\ \A b \in Held(less), c \in Held(lines) : c < b => c \in Held(less)
        /\ less # << >> => less[1] = lines[1]
    BY <1>6, LineGone
  <2>2. left[1] = new /\ left[2] = "cut"
    BY <1>6
  <2> HIDE DEF less
  <2>3. /\ new \in Seq(FileLines) /\ new # << >> /\ Held(new) = Held(less) /\ Rising(new)
        /\ Last(new) = Junk
        /\ less # << >> => new[1] = less[1]
        /\ less = << >> => new[1] = Junk
    BY <2>1, JunkAdded
  <2> HIDE DEF new
  <2>4. After(lines, new, x)
    BY <1>1, <1>6, <2>1, <2>3 DEF After
  <2> QED
    BY <1>1, <1>6, <2>2, <2>3, <2>4
<1> QED
  BY <1>2, <1>3, <1>4, <1>5, <1>6

-----------------------------------------------------------------------------
(* A step changes the file of one session.                                 *)

\* What other sessions had not lost is not lost by a change of this one.
LEMMA UnheldElsewhere ==
  ASSUME NEW s \in Sessions, NEW X,
         \A u \in Sessions \ {s} : jsonl'[u] = jsonl[u] /\ acked'[u] = acked[u],
         ToSet(acked'[s]) \ Held(jsonl'[s]) \subseteq (ToSet(acked[s]) \ Held(jsonl[s])) \cup X
  PROVE  Unheld' \subseteq Unheld \cup ({s} \X X)
<1> SUFFICES ASSUME NEW e \in Unheld', e \notin Unheld PROVE e \in {s} \X X
  OBVIOUS
<1>1. /\ e \in Sessions \X (1..MaxEvents) /\ e[2] \in ToSet(acked'[e[1]]) \ Held(jsonl'[e[1]])
      /\ e[2] \notin ToSet(acked[e[1]]) \ Held(jsonl[e[1]])
  BY DEF Unheld
<1>2. e[1] = s
  BY <1>1
<1>3. e[2] \in X /\ e = <<e[1], e[2]>>
  BY <1>1, <1>2
<1> QED
  BY <1>2, <1>3

\* The debt when a write succeeds, with an unfinished line before it ...
LEMMA DebtPaid ==
  ASSUME Debt, torn \in Nat, torn' = torn, NEW e, NEW s \in Open,
         Unheld' \subseteq Unheld \cup {e}, Open' \subseteq Open \ {s}
  PROVE  Debt'
<1> DEFINE U == Unheld \cup {e}
           O == Open \ {s}
<1>1. /\ IsFiniteSet(Unheld) /\ IsFiniteSet(Open) /\ Cardinality(Unheld) \in Nat /\ Cardinality(Open) \in Nat
      /\ Cardinality(Unheld) + Cardinality(Open) <= torn
  BY FS_CardinalityType DEF Debt
<1>2. IsFiniteSet(U) /\ Cardinality(U) <= Cardinality(Unheld) + 1
  <2>1. /\ IsFiniteSet(U)
        /\ Cardinality(U) = IF e \in Unheld THEN Cardinality(Unheld) ELSE Cardinality(Unheld) + 1
    BY <1>1, FS_AddElement
  <2> QED
    BY <1>1, <2>1
<1>3. IsFiniteSet(O) /\ Cardinality(O) = Cardinality(Open) - 1
  BY <1>1, FS_RemoveElement
<1>4. IsFiniteSet(Unheld') /\ Cardinality(Unheld') <= Cardinality(U)
      /\ Cardinality(Unheld') \in Nat /\ Cardinality(U) \in Nat
  BY <1>2, FS_Subset, FS_CardinalityType
<1>5. IsFiniteSet(Open') /\ Cardinality(Open') <= Cardinality(O)
      /\ Cardinality(Open') \in Nat /\ Cardinality(O) \in Nat
  BY <1>3, FS_Subset, FS_CardinalityType
<1> HIDE DEF U, O
<1>6. Cardinality(Unheld') + Cardinality(Open') <= torn'
  BY <1>1, <1>2, <1>3, <1>4, <1>5
<1> QED
  BY <1>4, <1>5, <1>6 DEF Debt

\* ... when nothing is lost ...
LEMMA DebtSame ==
  ASSUME Debt, torn \in Nat, torn' = torn, Unheld' \subseteq Unheld, Open' \subseteq Open
  PROVE  Debt'
<1>1. /\ IsFiniteSet(Unheld) /\ IsFiniteSet(Open) /\ Cardinality(Unheld) \in Nat /\ Cardinality(Open) \in Nat
      /\ Cardinality(Unheld) + Cardinality(Open) <= torn
  BY FS_CardinalityType DEF Debt
<1>2. IsFiniteSet(Unheld') /\ Cardinality(Unheld') <= Cardinality(Unheld) /\ Cardinality(Unheld') \in Nat
  BY <1>1, FS_Subset, FS_CardinalityType
<1>3. IsFiniteSet(Open') /\ Cardinality(Open') <= Cardinality(Open) /\ Cardinality(Open') \in Nat
  BY <1>1, FS_Subset, FS_CardinalityType
<1>4. Cardinality(Unheld') + Cardinality(Open') <= torn'
  BY <1>1, <1>2, <1>3
<1> QED
  BY <1>2, <1>3, <1>4 DEF Debt

\* ... and when a write fails.
LEMMA DebtMade ==
  ASSUME Debt, torn \in Nat, torn' = torn + 1, NEW s,
         Unheld' \subseteq Unheld, Open' \subseteq Open \cup {s}
  PROVE  Debt'
<1> DEFINE O == Open \cup {s}
<1>1. /\ IsFiniteSet(Unheld) /\ IsFiniteSet(Open) /\ Cardinality(Unheld) \in Nat /\ Cardinality(Open) \in Nat
      /\ Cardinality(Unheld) + Cardinality(Open) <= torn
  BY FS_CardinalityType DEF Debt
<1>2. IsFiniteSet(Unheld') /\ Cardinality(Unheld') <= Cardinality(Unheld) /\ Cardinality(Unheld') \in Nat
  BY <1>1, FS_Subset, FS_CardinalityType
<1>3. IsFiniteSet(O) /\ Cardinality(O) <= Cardinality(Open) + 1
  <2>1. /\ IsFiniteSet(O)
        /\ Cardinality(O) = IF s \in Open THEN Cardinality(Open) ELSE Cardinality(Open) + 1
    BY <1>1, FS_AddElement
  <2> QED
    BY <1>1, <2>1
<1>4. IsFiniteSet(Open') /\ Cardinality(Open') <= Cardinality(O)
      /\ Cardinality(Open') \in Nat /\ Cardinality(O) \in Nat
  BY <1>3, FS_Subset, FS_CardinalityType
<1> HIDE DEF O
<1>5. Cardinality(Unheld') + Cardinality(Open') <= torn'
  BY <1>1, <1>2, <1>3, <1>4
<1> QED
  BY <1>2, <1>4, <1>5 DEF Debt

\* A write to a file keeps what it has of its parent, and what its forks have of it.
LEMMA StillDescended ==
  ASSUME LogTypes, Descended, \A u \in Sessions : \A b \in Held(jsonl[u]) : b <= made,
         NEW s \in Sessions, \A u \in Sessions \ {s} : jsonl'[u] = jsonl[u],
         After(jsonl[s], jsonl'[s], made + 1)
  PROVE  Descended'
<1> SUFFICES ASSUME NEW t \in Sessions, Child(t)'
             PROVE  /\ Parent(t)' \in Sessions /\ jsonl'[Parent(t)'] # << >>
                    /\ Under(Held(jsonl'[t]), Held(jsonl'[Parent(t)']))
  BY DEF Descended
<1>1. Child(t) /\ Parent(t)' = Parent(t)
  <2>1. CASE t = s
    BY <2>1 DEF Child, Parent, After
  <2>2. CASE t # s
    <3>1. jsonl'[t] = jsonl[t]
      BY <2>2
    <3> QED
      BY <3>1 DEF Child, Parent
  <2> QED
    BY <2>1, <2>2
<1> DEFINE p == Parent(t)
<1>2. p \in Sessions /\ jsonl[p] # << >> /\ Under(Held(jsonl[t]), Held(jsonl[p])) /\ p # t
  BY <1>1 DEF Descended, Child, Parent
<1> HIDE DEF p
<1>3. jsonl'[p] # << >>
  BY <1>2 DEF After
<1>4. \A u \in Sessions : \A b \in Held(jsonl[u]) : b \in Nat /\ b <= made
  BY DEF Held
<1>5. made \in Nat
  BY DEF LogTypes
<1>6. Under(Held(jsonl'[t]), Held(jsonl'[p]))
  <2>1. CASE t = s
    <3>1. jsonl'[p] = jsonl[p]
      BY <1>2, <2>1
    <3> SUFFICES ASSUME NEW a \in Held(jsonl'[t]), a \in Held(jsonl[p]), NEW b \in Held(jsonl[p]), b < a
                 PROVE  b \in Held(jsonl'[t])
      BY <3>1 DEF Under
    <3>2. a \in Held(jsonl[t]) \cup {made + 1}
      BY <2>1 DEF After
    <3>3. a # made + 1
      BY <1>2, <1>4, <1>5
    <3>4. a \in Held(jsonl[t])
      BY <3>2, <3>3
    <3>5. b \in Held(jsonl[t])
      BY <1>2, <3>4 DEF Under
    <3> QED
      BY <2>1, <3>4, <3>5 DEF After
  <2>2. CASE t # s
    <3>1. jsonl'[t] = jsonl[t]
      BY <2>2
    <3>2. Held(jsonl'[p]) \subseteq Held(jsonl[p]) \cup {made + 1}
      <4>1. CASE p = s
        BY <4>1 DEF After
      <4>2. CASE p # s
        BY <1>2, <4>2
      <4> QED
        BY <4>1, <4>2
    <3> SUFFICES ASSUME NEW a \in Held(jsonl[t]), a \in Held(jsonl'[p]), NEW b \in Held(jsonl'[p]), b < a
                 PROVE  b \in Held(jsonl[t])
      BY <3>1 DEF Under
    <3>3. a \in Nat /\ a <= made
      BY <1>4
    <3>4. a # made + 1 /\ b # made + 1
      BY <1>5, <3>3
    <3>5. a \in Held(jsonl[p]) /\ b \in Held(jsonl[p])
      BY <3>2, <3>4
    <3> QED
      BY <1>2, <3>5 DEF Under
  <2> QED
    BY <2>1, <2>2
<1> QED
  BY <1>1, <1>2, <1>3, <1>6 DEF p

\* A new file is nobody's parent.
LEMMA NewFile ==
  ASSUME Descended, NEW t \in Sessions, jsonl[t] = << >>,
         \A u \in Sessions \ {t} : jsonl'[u] = jsonl[u],
         Child(t)' => /\ Parent(t)' \in Sessions \ {t} /\ jsonl[Parent(t)'] # << >>
                      /\ Under(Held(jsonl'[t]), Held(jsonl[Parent(t)']))
  PROVE  Descended'
<1> SUFFICES ASSUME NEW u \in Sessions, Child(u)'
             PROVE  /\ Parent(u)' \in Sessions /\ jsonl'[Parent(u)'] # << >>
                    /\ Under(Held(jsonl'[u]), Held(jsonl'[Parent(u)']))
  BY DEF Descended
<1>1. CASE u = t
  BY <1>1
<1>2. CASE u # t
  <2>1. jsonl'[u] = jsonl[u]
    BY <1>2
  <2>2. Child(u) /\ Parent(u)' = Parent(u)
    BY <2>1 DEF Child, Parent
  <2>3. /\ Parent(u) \in Sessions /\ jsonl[Parent(u)] # << >>
        /\ Under(Held(jsonl[u]), Held(jsonl[Parent(u)]))
    BY <2>2 DEF Descended
  <2>4. jsonl'[Parent(u)] = jsonl[Parent(u)]
    BY <2>3
  <2> QED
    BY <2>1, <2>2, <2>3, <2>4
<1> QED
  BY <1>1, <1>2

\* What the invariant says of one session.
LEMMA LogHas ==
  ASSUME LogInv, NEW s \in Sessions
  PROVE  /\ jsonl[s] \in Seq(FileLines) /\ acked[s] \in Seq(Nat)
         /\ tail[s] \in {"newline", "whole", "cut"} /\ counts[s] \in Nat
         /\ made \in Nat /\ torn \in Nat
         /\ Rising(jsonl[s])
         /\ \A b \in Held(jsonl[s]) : b \in Nat /\ b <= made /\ b < made + 1
         /\ \A b \in ToSet(acked[s]) : b <= made
         /\ tail[s] # "newline" => jsonl[s] # << >>
         /\ tail[s] # "newline" /\ Last(jsonl[s]) \in EventLines
              => Last(jsonl[s]).body \notin ToSet(acked[s])
<1>1. LogTypes /\ Sound(s)
  BY DEF LogInv
<1>2. \A b \in Held(jsonl[s]) : b \in Nat /\ b <= made
  BY <1>1 DEF Sound, Held
<1>3. made \in Nat
  BY <1>1 DEF LogTypes
<1>4. \A b \in Held(jsonl[s]) : b < made + 1
  BY <1>2, <1>3
<1> QED
  BY <1>1, <1>2, <1>4 DEF LogTypes, Sound

\* A session whose file, end and acknowledged events are as they were is as sound.
LEMMA SoundElsewhere ==
  ASSUME LogInv, made' \in Nat, made' >= made, NEW u \in Sessions,
         jsonl'[u] = jsonl[u], tail'[u] = tail[u], acked'[u] = acked[u]
  PROVE  Sound(u)'
<1>1. Sound(u) /\ made \in Nat
  BY DEF LogInv, LogTypes
<1>2. \A b \in Held(jsonl[u]) : b \in Nat /\ b <= made
  BY <1>1 DEF Sound, Held
<1>3. \A b \in Held(jsonl[u]) : b <= made'
  BY <1>1, <1>2
<1>4. acked[u] \in Seq(Nat)
  BY DEF LogInv, LogTypes
<1>5. \A b \in ToSet(acked[u]) : b \in Nat /\ b <= made
  BY <1>1, <1>4, ElementOfSeq, LenProperties DEF Sound, ToSet
<1>6. \A b \in ToSet(acked[u]) : b <= made'
  BY <1>1, <1>5
<1> QED
  BY <1>1, <1>3, <1>6 DEF Sound

\* While no write has failed, every line is finished.
LEMMA NoneOpen ==
  ASSUME LogInv, torn = 0, NEW s \in Sessions
  PROVE  tail[s] = "newline"
<1>1. IsFiniteSet(Open) /\ Cardinality(Unheld) \in Nat /\ Cardinality(Open) \in Nat
      /\ Cardinality(Unheld) + Cardinality(Open) <= 0
  BY FS_CardinalityType DEF LogInv, Debt
<1>2. Cardinality(Open) = 0
  BY <1>1
<1>3. Open = {}
  BY <1>1, <1>2, FS_EmptySet
<1> QED
  BY <1>3 DEF Open

\* An append that succeeds: the event is read back, unless its line was glued to an
\* unfinished one, which is then no debt any more.
LEMMA AppendKeeps ==
  ASSUME LogInv, NEW s \in Sessions, AppendEvent(s)
  PROVE  LogInv'
<1> DEFINE x == made + 1
           line == EventLine(counts[s] + 1, x)
           new == GluedLog(jsonl[s], tail[s], line)
<1>1. /\ jsonl[s] \in Seq(FileLines) /\ acked[s] \in Seq(Nat)
      /\ tail[s] \in {"newline", "whole", "cut"} /\ counts[s] \in Nat
      /\ made \in Nat /\ torn \in Nat
      /\ Rising(jsonl[s])
      /\ \A b \in Held(jsonl[s]) : b \in Nat /\ b <= made /\ b < x
      /\ \A b \in ToSet(acked[s]) : b <= made
      /\ tail[s] # "newline" => jsonl[s] # << >>
      /\ tail[s] # "newline" /\ Last(jsonl[s]) \in EventLines
           => Last(jsonl[s]).body \notin ToSet(acked[s])
  BY LogHas
<1>2. LogTypes /\ Debt /\ HistoryIsLog /\ Descended
  BY DEF LogInv
<1>3. /\ jsonl' = [jsonl EXCEPT ![s] = new]
      /\ tail' = [tail EXCEPT ![s] = "newline"]
      /\ acked' = [acked EXCEPT ![s] = Append(acked[s], x)]
      /\ counts' = [counts EXCEPT ![s] = counts[s] + 1]
      /\ made' = x /\ torn' = torn
  BY DEF AppendEvent
<1>4. x \in Nat /\ counts[s] + 1 \in Nat
  BY <1>1
<1>5. /\ After(jsonl[s], new, x) /\ new # << >>
      /\ tail[s] = "newline" => x \in Held(new) /\ Held(jsonl[s]) \subseteq Held(new)
  BY <1>1, <1>4, Glued
<1>6. Append(acked[s], x) \in Seq(Nat) /\ ToSet(Append(acked[s], x)) = ToSet(acked[s]) \cup {x}
  BY <1>1, <1>4, OneMoreAcked
<1> DEFINE acks == Append(acked[s], x)
<1> HIDE DEF new, acks
<1>7. /\ jsonl'[s] = new /\ tail'[s] = "newline" /\ acked'[s] = acks
      /\ \A u \in Sessions \ {s} : jsonl'[u] = jsonl[u] /\ tail'[u] = tail[u] /\ acked'[u] = acked[u]
  BY <1>2, <1>3 DEF LogTypes, acks
<1>8. LogTypes'
  BY <1>2, <1>3, <1>4, <1>5, <1>6 DEF LogTypes, After
<1>9. ASSUME NEW u \in Sessions PROVE Sound(u)'
  <2>1. CASE u = s
    <3>1. \A b \in Held(new) : b <= x
      BY <1>1, <1>4, <1>5 DEF After
    <3>2. \A b \in ToSet(acked[s]) \cup {x} : b <= x
      <4>1. \A b \in ToSet(acked[s]) : b \in Nat
        BY <1>1, ElementOfSeq, LenProperties DEF ToSet
      <4> QED
        BY <1>1, <4>1
    <3> QED
      BY <1>3, <1>5, <1>6, <1>7, <2>1, <3>1, <3>2 DEF Sound, After, acks
  <2>2. CASE u # s
    <3>1. made' \in Nat /\ made' >= made
      BY <1>1, <1>3, <1>4
    <3> QED
      BY <1>7, <2>2, <3>1, SoundElsewhere
  <2> QED
    BY <2>1, <2>2
<1>10. Debt'
  <2>1. CASE tail[s] = "newline"
    <3>1. ToSet(acked'[s]) \ Held(jsonl'[s]) \subseteq (ToSet(acked[s]) \ Held(jsonl[s])) \cup {}
      BY <1>5, <1>6, <1>7, <2>1 DEF acks
    <3>2. Unheld' \subseteq Unheld \cup ({s} \X {})
      BY <1>7, <3>1, UnheldElsewhere
    <3>3. Unheld' \subseteq Unheld
      BY <3>2
    <3>4. Open' \subseteq Open
      BY <1>7 DEF Open
    <3> QED
      BY <1>1, <1>2, <1>3, <3>3, <3>4, DebtSame
  <2>2. CASE tail[s] # "newline"
    <3>1. \A b \in Held(jsonl[s]) \ Held(new) : b \notin ToSet(acked[s])
      BY <1>1, <1>5, <2>2 DEF After
    <3>2. ToSet(acked'[s]) \ Held(jsonl'[s]) \subseteq (ToSet(acked[s]) \ Held(jsonl[s])) \cup {x}
      BY <1>6, <1>7, <3>1 DEF acks
    <3>3. Unheld' \subseteq Unheld \cup ({s} \X {x})
      BY <1>7, <3>2, UnheldElsewhere
    <3>4. Unheld' \subseteq Unheld \cup {<<s, x>>}
      BY <3>3
    <3>5. s \in Open
      BY <2>2 DEF Open
    <3>6. Open' \subseteq Open \ {s}
      BY <1>7 DEF Open
    <3> QED
      BY <1>1, <1>2, <1>3, <3>4, <3>5, <3>6, DebtPaid
  <2> QED
    BY <2>1, <2>2
<1>11. HistoryIsLog'
  <2> SUFFICES ASSUME torn = 0, NEW u \in Sessions
               PROVE  Bodies(Select(jsonl'[u], EventLines)) = acked'[u]
    BY <1>3 DEF HistoryIsLog, GetHistory
  <2>1. \A v \in Sessions : Bodies(Select(jsonl[v], EventLines)) = acked[v]
    BY <1>2 DEF HistoryIsLog, GetHistory
  <2>2. CASE u = s
    <3>1. new = Append(jsonl[s], line)
      BY NoneOpen DEF new, GluedLog
    <3> DEFINE h == Select(jsonl[s], EventLines)
    <3>2. line \in EventLines /\ line \in FileLines /\ line.body = x
      BY <1>4, NewLine DEF FileLines
    <3> HIDE DEF line
    <3>3. Select(Append(jsonl[s], line), EventLines) = Append(h, line)
      BY <1>1, <3>2, SelectAppend
    <3>4. h \in Seq(EventLines)
      BY <1>1, HistoryOf
    <3> HIDE DEF h
    <3>5. Bodies(Append(h, line)) = Append(Bodies(h), x)
      BY <3>2, <3>4, OneMoreBody
    <3>6. Bodies(h) = acked[s]
      BY <2>1 DEF h
    <3> QED
      BY <1>7, <2>2, <3>1, <3>3, <3>5, <3>6 DEF acks
  <2>3. CASE u # s
    BY <1>7, <2>1, <2>3
  <2> QED
    BY <2>2, <2>3
<1>12. Descended'
  <2>1. \A u \in Sessions : \A b \in Held(jsonl[u]) : b <= made
    BY LogHas
  <2> QED
    BY <1>2, <1>5, <1>7, <2>1, StillDescended
<1> QED
  BY <1>8, <1>9, <1>10, <1>11, <1>12 DEF LogInv

\* An append that fails adds to the debt, and an unfinished line is never one acknowledged.
LEMMA AppendThrowsKeeps ==
  ASSUME LogInv, NEW s \in Sessions, AppendThrows(s)
  PROVE  LogInv'
<1> DEFINE x == made + 1
           line == EventLine(counts[s] + 1, x)
<1>1. /\ jsonl[s] \in Seq(FileLines) /\ acked[s] \in Seq(Nat)
      /\ tail[s] \in {"newline", "whole", "cut"} /\ counts[s] \in Nat
      /\ made \in Nat /\ torn \in Nat
      /\ Rising(jsonl[s])
      /\ \A b \in Held(jsonl[s]) : b \in Nat /\ b <= made /\ b < x
      /\ \A b \in ToSet(acked[s]) : b <= made
      /\ tail[s] # "newline" => jsonl[s] # << >>
      /\ tail[s] # "newline" /\ Last(jsonl[s]) \in EventLines
           => Last(jsonl[s]).body \notin ToSet(acked[s])
  BY LogHas
<1>2. LogTypes /\ Debt /\ HistoryIsLog /\ Descended
  BY DEF LogInv
<1>3. PICK left \in LeftBy(jsonl[s], tail[s], line) :
        /\ jsonl' = [jsonl EXCEPT ![s] = left[1]]
        /\ tail' = [tail EXCEPT ![s] = left[2]]
        /\ acked' = acked
        /\ counts' = [counts EXCEPT ![s] = counts[s] + 1]
        /\ made' = x /\ torn' = torn + 1
  BY DEF AppendThrows
<1>4. x \in Nat /\ counts[s] + 1 \in Nat
  BY <1>1
<1>5. /\ After(jsonl[s], left[1], x)
      /\ left[2] \in {"newline", "whole", "cut"}
      /\ tail[s] = "newline" => Held(jsonl[s]) \subseteq Held(left[1])
      /\ left[2] # "newline" =>
           /\ left[1] # << >>
           /\ Last(left[1]) \in EventLines =>
                Last(left[1]).body = x \/ (tail[s] # "newline" /\ left[1] = jsonl[s])
  BY SMTT(60), <1>1, <1>4, LeftOver
<1> HIDE DEF line
<1> DEFINE new == left[1]
           end == left[2]
<1> HIDE DEF new, end
<1>6. /\ jsonl' = [jsonl EXCEPT ![s] = new]
      /\ tail' = [tail EXCEPT ![s] = end]
  BY <1>3 DEF new, end
<1>7. /\ jsonl'[s] = new /\ tail'[s] = end
      /\ \A u \in Sessions \ {s} : jsonl'[u] = jsonl[u] /\ tail'[u] = tail[u]
      /\ \A u \in Sessions : acked'[u] = acked[u]
  BY <1>2, <1>3, <1>6 DEF LogTypes
<1>8. /\ After(jsonl[s], new, x) /\ end \in {"newline", "whole", "cut"}
      /\ tail[s] = "newline" => Held(jsonl[s]) \subseteq Held(new)
      /\ end # "newline" => new # << >>
      /\ end # "newline" /\ Last(new) \in EventLines =>
                Last(new).body = x \/ (tail[s] # "newline" /\ new = jsonl[s])
  BY <1>5 DEF new, end
<1>9. LogTypes'
  BY <1>2, <1>1, <1>3, <1>4, <1>6, <1>8 DEF LogTypes, After
<1>10. \A b \in ToSet(acked[s]) : b \in Nat /\ b <= made /\ b # x
  <2>1. \A b \in ToSet(acked[s]) : b \in Nat
    BY <1>1, ElementOfSeq, LenProperties DEF ToSet
  <2> QED
    BY <1>1, <2>1
<1>11. ASSUME NEW u \in Sessions PROVE Sound(u)'
  <2>1. CASE u = s
    <3>1. \A b \in Held(new) : b <= x
      BY <1>1, <1>4, <1>8 DEF After
    <3>2. \A b \in ToSet(acked[s]) : b <= x
      BY <1>1, <1>10
    <3>3. end # "newline" /\ Last(new) \in EventLines => Last(new).body \notin ToSet(acked[s])
      BY <1>1, <1>8, <1>10
    <3> QED
      BY <1>3, <1>7, <1>8, <2>1, <3>1, <3>2, <3>3 DEF Sound, After
  <2>2. CASE u # s
    <3>1. made' \in Nat /\ made' >= made
      BY <1>1, <1>3, <1>4
    <3> QED
      BY <1>7, <2>2, <3>1, SoundElsewhere
  <2> QED
    BY <2>1, <2>2
<1>12. Debt'
  <2>1. \A b \in Held(jsonl[s]) \ Held(new) : b \notin ToSet(acked[s])
    BY <1>1, <1>8 DEF After
  <2>2. ToSet(acked'[s]) \ Held(jsonl'[s]) \subseteq (ToSet(acked[s]) \ Held(jsonl[s])) \cup {}
    BY <1>7, <2>1
  <2>3. Unheld' \subseteq Unheld \cup ({s} \X {})
    BY <1>7, <2>2, UnheldElsewhere
  <2>4. Unheld' \subseteq Unheld
    BY <2>3
  <2>5. Open' \subseteq Open \cup {s}
    BY <1>7 DEF Open
  <2> QED
    BY <1>1, <1>2, <1>3, <2>4, <2>5, DebtMade
<1>13. HistoryIsLog'
  <2>1. torn' # 0
    BY <1>1, <1>3
  <2> QED
    BY <2>1 DEF HistoryIsLog
<1>14. Descended'
  <2>1. \A u \in Sessions : \A b \in Held(jsonl[u]) : b <= made
    BY LogHas
  <2> QED
    BY <1>2, <1>7, <1>8, <2>1, StillDescended
<1> QED
  BY <1>9, <1>11, <1>12, <1>13, <1>14 DEF LogInv

\* A session is created on a file that does not exist.
LEMMA NewSessionKeeps ==
  ASSUME LogInv, NEW s \in Sessions, CreateSession(s)
  PROVE  LogInv'
<1> DEFINE init == SessionInit(s, 0)
           new == <<init>>
<1>1. /\ jsonl[s] \in Seq(FileLines) /\ acked[s] \in Seq(Nat)
      /\ tail[s] \in {"newline", "whole", "cut"} /\ counts[s] \in Nat
      /\ made \in Nat /\ torn \in Nat
      /\ \A b \in ToSet(acked[s]) : b <= made
      /\ jsonl[s] = << >> /\ tail[s] = "newline"
  BY LogHas DEF CreateSession
<1>2. LogTypes /\ Debt /\ HistoryIsLog /\ Descended
  BY DEF LogInv
<1>3. /\ jsonl' = [jsonl EXCEPT ![s] = new]
      /\ tail' = tail /\ acked' = acked /\ made' = made /\ torn' = torn
      /\ counts' = [counts EXCEPT ![s] = 0]
  BY DEF CreateSession
<1>4. init \in FileLines /\ init \notin EventLines /\ init.kind = "init" /\ init.parent = s
  <2>1. init \in InitLines /\ init.kind = "init" /\ init.parent = s
    BY DEF SessionInit, InitLines
  <2> QED
    BY <2>1, LinesDiffer DEF FileLines
<1> HIDE DEF init
<1>5. new = Append(<< >>, init) /\ << >> \in Seq(FileLines) /\ Len(<< >>) = 0
  BY <1>4
<1>6. Held(<< >>) = {} /\ Rising(<< >>)
  BY <1>5 DEF Held, Rising
<1>7. new \in Seq(FileLines) /\ new # << >> /\ new[1] = init /\ Held(new) = {} /\ Rising(new)
  BY ZenonT(60), <1>4, <1>5, <1>6, LineAdded
<1>8. Select(new, EventLines) = Select(<< >>, EventLines)
  BY ZenonT(60), <1>4, <1>5, SelectAppend
<1> HIDE DEF new
<1>9. /\ jsonl'[s] = new
      /\ \A u \in Sessions \ {s} : jsonl'[u] = jsonl[u]
      /\ \A u \in Sessions : tail'[u] = tail[u] /\ acked'[u] = acked[u]
  BY <1>2, <1>3 DEF LogTypes
<1>10. LogTypes'
  BY <1>2, <1>3, <1>7 DEF LogTypes
<1>11. ASSUME NEW u \in Sessions PROVE Sound(u)'
  <2>1. CASE u = s
    BY <1>1, <1>3, <1>7, <1>9, <2>1 DEF Sound
  <2>2. CASE u # s
    <3>1. made' \in Nat /\ made' >= made
      BY <1>1, <1>3
    <3> QED
      BY <1>9, <2>2, <3>1, SoundElsewhere
  <2> QED
    BY <2>1, <2>2
<1>12. Debt'
  <2>1. ToSet(acked'[s]) \ Held(jsonl'[s]) \subseteq (ToSet(acked[s]) \ Held(jsonl[s])) \cup {}
    BY <1>1, <1>6, <1>9
  <2>2. Unheld' \subseteq Unheld \cup ({s} \X {})
    BY <1>9, <2>1, UnheldElsewhere
  <2>3. Unheld' \subseteq Unheld
    BY <2>2
  <2>4. Open' \subseteq Open
    BY <1>9 DEF Open
  <2> QED
    BY <1>1, <1>2, <1>3, <2>3, <2>4, DebtSame
<1>13. HistoryIsLog'
  <2> SUFFICES ASSUME torn = 0, NEW u \in Sessions
               PROVE  Bodies(Select(jsonl'[u], EventLines)) = acked'[u]
    BY <1>3 DEF HistoryIsLog, GetHistory
  <2>1. \A v \in Sessions : Bodies(Select(jsonl[v], EventLines)) = acked[v]
    BY <1>2 DEF HistoryIsLog, GetHistory
  <2>2. Select(jsonl'[u], EventLines) = Select(jsonl[u], EventLines)
    BY <1>1, <1>8, <1>9
  <2> QED
    BY <1>9, <2>1, <2>2
<1>14. Descended'
  <2>1. ~ Child(s)'
    BY <1>4, <1>7, <1>9 DEF Child
  <2> QED
    BY <1>1, <1>2, <1>9, <2>1, NewFile
<1> QED
  BY <1>10, <1>11, <1>12, <1>13, <1>14 DEF LogInv

\* The beginning of a history is all of it that is below any part of it.
LEMMA CopyIsUnder ==
  ASSUME NEW h \in Seq(EventLines), Increasing(Bodies(h)), NEW n \in Nat, n <= Len(h)
  PROVE  /\ Under({h[i].body : i \in 1..n}, {h[i].body : i \in 1..Len(h)})
         /\ \A k \in 1..Len(h), i \in 1..n : n < k => h[i].body < h[k].body
<1>0. /\ Len(h) \in Nat /\ DOMAIN h = 1..Len(h) /\ \A i \in 1..Len(h) : h[i] \in EventLines
      /\ \A i \in 1..Len(h) : h[i].body \in Nat
      /\ 1..n \subseteq 1..Len(h)
  <2>1. Len(h) \in Nat /\ DOMAIN h = 1..Len(h) /\ \A i \in 1..Len(h) : h[i] \in EventLines
    BY LenProperties, ElementOfSeq
  <2> QED
    BY <2>1, LinesDiffer
<1>1. \A i, j \in 1..Len(h) : i < j => h[i].body < h[j].body
  <2>1. \A i \in 1..Len(h) : Bodies(h)[i] = h[i].body
    BY <1>0 DEF Bodies
  <2>2. Len(Bodies(h)) = Len(h)
    <3>1. Bodies(h) \in [1..Len(h) -> Nat]
      BY <1>0 DEF Bodies
    <3>2. Bodies(h) \in Seq(Nat)
      BY <1>0, <3>1, SeqDef
    <3> QED
      BY <1>0, <3>1, <3>2, LenProperties
  <2> QED
    BY <2>1, <2>2 DEF Increasing
<1>2. ASSUME NEW i \in 1..n, NEW k \in 1..Len(h), h[k].body < h[i].body
      PROVE  k \in 1..n
  <2> SUFFICES ASSUME n < k PROVE FALSE
    BY <1>0
  <2>1. i \in 1..Len(h) /\ i < k
    BY <1>0
  <2>2. h[i].body < h[k].body
    BY <1>1, <2>1
  <2>3. h[i].body \in Nat /\ h[k].body \in Nat
    BY <1>0, <2>1
  <2>4. \A x, y \in Nat : ~ (x < y /\ y < x)
    OBVIOUS
  <2> QED
    BY <1>2, <2>2, <2>3, <2>4
<1>3. Under({h[i].body : i \in 1..n}, {h[i].body : i \in 1..Len(h)})
  BY <1>2 DEF Under
<1>4. \A k \in 1..Len(h), i \in 1..n : n < k => h[i].body < h[k].body
  <2> SUFFICES ASSUME NEW k \in 1..Len(h), NEW i \in 1..n, n < k PROVE h[i].body < h[k].body
    OBVIOUS
  <2>1. i \in 1..Len(h) /\ i < k
    BY <1>0
  <2> QED
    BY <1>1, <2>1
<1> QED
  BY <1>3, <1>4

\* A step that makes the file of t out of the first n events of that of s, of which t then
\* holds all it has acknowledged, and maybe one event of s more.
LEMMA CopyKeeps ==
  ASSUME LogInv, NEW s \in Sessions, NEW t \in Sessions, s # t,
         jsonl[s] # << >>, jsonl[t] = << >>,
         NEW new \in Seq(FileLines), NEW end \in {"newline", "whole", "cut"},
         NEW acks \in Seq(Nat), NEW count \in Nat,
         jsonl' = [jsonl EXCEPT ![t] = new], tail' = [tail EXCEPT ![t] = end],
         acked' = [acked EXCEPT ![t] = acks], counts' = [counts EXCEPT ![t] = count],
         made' = made,
         Rising(new), new # << >>, new[1].kind = "init", new[1].parent = s,
         ToSet(acks) \subseteq Held(new), Held(new) \subseteq Held(jsonl[s]),
         Under(Held(new), Held(jsonl[s])),
         end # "newline" /\ Last(new) \in EventLines => Last(new).body \notin ToSet(acks),
         \/ torn' = torn /\ end = "newline" /\ Bodies(Select(new, EventLines)) = acks
         \/ torn' = torn + 1
  PROVE  LogInv'
<1>1. LogTypes /\ Debt /\ HistoryIsLog /\ Descended /\ made \in Nat /\ torn \in Nat
      /\ tail[t] = "newline"
  BY LogHas DEF LogInv, LogTypes
<1>2. /\ jsonl'[t] = new /\ tail'[t] = end /\ acked'[t] = acks
      /\ \A u \in Sessions \ {t} : jsonl'[u] = jsonl[u] /\ tail'[u] = tail[u] /\ acked'[u] = acked[u]
  BY <1>1 DEF LogTypes
<1>3. LogTypes'
  <2>1. torn' \in Nat
    BY <1>1
  <2> QED
    BY <1>1, <2>1 DEF LogTypes
<1>4. \A b \in Held(jsonl[s]) : b <= made
  BY LogHas
<1>5. ASSUME NEW u \in Sessions PROVE Sound(u)'
  <2>1. CASE u = t
    BY <1>2, <1>4, <2>1 DEF Sound
  <2>2. CASE u # t
    <3>1. made' \in Nat /\ made' >= made
      BY <1>1
    <3> QED
      BY <1>2, <2>2, <3>1, SoundElsewhere
  <2> QED
    BY <2>1, <2>2
<1>6. Debt'
  <2>1. ToSet(acked'[t]) \ Held(jsonl'[t]) \subseteq (ToSet(acked[t]) \ Held(jsonl[t])) \cup {}
    BY <1>2
  <2>2. Unheld' \subseteq Unheld \cup ({t} \X {})
    BY <1>2, <2>1, UnheldElsewhere
  <2>3. Unheld' \subseteq Unheld
    BY <2>2
  <2>4. CASE torn' = torn /\ end = "newline"
    <3>1. Open' \subseteq Open
      BY <1>2, <2>4 DEF Open
    <3> QED
      BY <1>1, <2>3, <2>4, <3>1, DebtSame
  <2>5. CASE torn' = torn + 1
    <3>1. Open' \subseteq Open \cup {t}
      BY <1>2 DEF Open
    <3> QED
      BY <1>1, <2>3, <2>5, <3>1, DebtMade
  <2> QED
    BY <2>4, <2>5
<1>7. HistoryIsLog'
  <2> SUFFICES ASSUME torn' = 0, NEW u \in Sessions
               PROVE  Bodies(Select(jsonl'[u], EventLines)) = acked'[u]
    BY DEF HistoryIsLog, GetHistory
  <2>1. torn = 0 /\ Bodies(Select(new, EventLines)) = acks
    BY <1>1
  <2>2. \A v \in Sessions : Bodies(Select(jsonl[v], EventLines)) = acked[v]
    BY <1>1, <2>1 DEF HistoryIsLog, GetHistory
  <2> QED
    BY <1>2, <2>1, <2>2
<1>8. Descended'
  <2>1. Parent(t)' = s
    BY <1>2 DEF Parent
  <2> QED
    BY <1>1, <1>2, <2>1, NewFile
<1> QED
  BY <1>3, <1>5, <1>6, <1>7, <1>8 DEF LogInv

\* A fork copies the beginning of a history.
LEMMA ForkKeeps ==
  ASSUME LogInv, NEW s \in Sessions, NEW t \in Sessions, NEW step \in 0..MaxEvents,
         Fork(s, t, step)
  PROVE  LogInv'
<1> DEFINE h == GetHistory(s)
           n == IF step <= Len(h) THEN step ELSE Len(h)
           init == SessionInit(s, step)
           new == <<init>> \o Renumbered(h, n)
           acks == SubSeq(Bodies(h), 1, n)
<1>1. /\ s # t /\ jsonl[s] # << >> /\ jsonl[t] = << >>
      /\ jsonl' = [jsonl EXCEPT ![t] = new]
      /\ tail' = tail
      /\ acked' = [acked EXCEPT ![t] = acks]
      /\ counts' = [counts EXCEPT ![t] = n]
      /\ made' = made /\ torn' = torn
  BY DEF Fork
<1>2. /\ h \in Seq(EventLines) /\ Len(h) \in Nat /\ Increasing(Bodies(h))
      /\ ToSet(Bodies(h)) = Held(jsonl[s])
      /\ \A i \in 1..Len(h) : Bodies(h)[i] = h[i].body
      /\ Bodies(h) \in Seq(Nat) /\ Len(Bodies(h)) = Len(h)
  BY LogHas, HistoryOf DEF GetHistory
<1>3. step \in Nat
  BY LogAssumption
<1>4. init \in InitLines /\ init.kind = "init" /\ init.parent = s
  BY <1>3 DEF SessionInit, InitLines
<1> HIDE DEF h, init
<1>5. n \in Nat /\ n <= Len(h)
  BY <1>2, <1>3
<1> HIDE DEF n
<1> DEFINE b == {h[i].body : i \in 1..n}
<1>6. /\ new \in Seq(FileLines) /\ new # << >> /\ new[1] = init
      /\ Rising(new) /\ Held(new) = b
      /\ Bodies(Select(new, EventLines)) = acks
      /\ acks \in Seq(Nat) /\ ToSet(acks) = b
  BY <1>2, <1>4, <1>5, CopyOf
<1>7. Held(jsonl[s]) = {h[i].body : i \in 1..Len(h)}
  <2>1. DOMAIN Bodies(h) = 1..Len(h)
    BY <1>2, LenProperties
  <2> QED
    BY <1>2, <2>1 DEF ToSet
<1>8. Under(b, Held(jsonl[s])) /\ b \subseteq Held(jsonl[s])
  <2>1. Under(b, Held(jsonl[s]))
    BY <1>2, <1>5, <1>7, CopyIsUnder
  <2>2. 1..n \subseteq 1..Len(h)
    BY <1>2, <1>5
  <2> QED
    BY <1>7, <2>1, <2>2
<1> HIDE DEF new, acks, b
<1>9. tail' = [tail EXCEPT ![t] = "newline"]
  <2>1. tail \in [Sessions -> {"newline", "whole", "cut"}] /\ tail[t] = "newline"
    BY <1>1, LogHas DEF LogInv, LogTypes
  <2> QED
    BY <1>1, <2>1
<1>10. /\ new[1].kind = "init" /\ new[1].parent = s
       /\ ToSet(acks) \subseteq Held(new) /\ Held(new) \subseteq Held(jsonl[s])
       /\ Under(Held(new), Held(jsonl[s]))
  BY <1>4, <1>6, <1>8
<1> DEFINE end == "newline"
<1>11. end \in {"newline", "whole", "cut"} /\ end = "newline" /\ tail' = [tail EXCEPT ![t] = end]
  BY <1>9
<1> HIDE DEF end
<1> QED
  BY <1>1, <1>5, <1>6, <1>10, <1>11, CopyKeeps

\* What a failed write leaves of a file whose lines are finished.
LEMMA LeftOfFinished ==
  ASSUME NEW lines \in Seq(FileLines), Rising(lines), lines # << >>,
         NEW n \in Nat, NEW x \in Nat, \A b \in Held(lines) : b < x,
         NEW left \in LeftBy(lines, "newline", EventLine(n, x))
  PROVE  /\ After(lines, left[1], x)
         /\ left[2] \in {"newline", "whole", "cut"}
         /\ Held(lines) \subseteq Held(left[1])
         /\ left[2] # "newline" /\ Last(left[1]) \in EventLines => Last(left[1]).body = x
<1> DEFINE end == "newline"
<1>1. end \in {"newline", "whole", "cut"} /\ end = "newline"
  OBVIOUS
<1>2. left \in LeftBy(lines, end, EventLine(n, x))
  OBVIOUS
<1> HIDE DEF end
<1>3. /\ After(lines, left[1], x)
      /\ left[2] \in {"newline", "whole", "cut"}
      /\ end = "newline" => Held(lines) \subseteq Held(left[1])
      /\ left[2] # "newline" =>
           /\ left[1] # << >>
           /\ Last(left[1]) \in EventLines =>
                Last(left[1]).body = x \/ (end # "newline" /\ left[1] = lines)
  BY <1>1, <1>2, LeftOver
<1> QED
  BY <1>1, <1>3

\* A fork that fails leaves the beginning of a history, and acknowledged no more than that.
LEMMA ForkThrowsKeeps ==
  ASSUME LogInv, NEW s \in Sessions, NEW t \in Sessions, NEW step \in 0..MaxEvents,
         ForkThrows(s, t, step)
  PROVE  LogInv'
<1> DEFINE h == GetHistory(s)
           init == SessionInit(s, step)
<1>1. /\ s # t /\ jsonl[t] = << >> /\ made' = made /\ torn' = torn + 1
  BY DEF ForkThrows
<1>2. PICK i \in 1..Len(h) :
        /\ counts' = [counts EXCEPT ![t] = i]
        /\ acked' = [acked EXCEPT ![t] = SubSeq(Bodies(h), 1, i - 1)]
        /\ \E left \in LeftBy(<<init>> \o Renumbered(h, i - 1), "newline", EventLine(i, h[i].body)) :
              /\ jsonl' = [jsonl EXCEPT ![t] = left[1]]
              /\ tail' = [tail EXCEPT ![t] = left[2]]
  BY DEF ForkThrows
<1> DEFINE lines == <<init>> \o Renumbered(h, i - 1)
           acks == SubSeq(Bodies(h), 1, i - 1)
           x == h[i].body
<1>3. PICK left \in LeftBy(lines, "newline", EventLine(i, x)) :
              /\ jsonl' = [jsonl EXCEPT ![t] = left[1]]
              /\ tail' = [tail EXCEPT ![t] = left[2]]
  BY <1>2
<1>4. /\ h \in Seq(EventLines) /\ Len(h) \in Nat /\ Increasing(Bodies(h))
      /\ ToSet(Bodies(h)) = Held(jsonl[s])
      /\ \A k \in 1..Len(h) : Bodies(h)[k] = h[k].body /\ h[k] \in EventLines
      /\ Bodies(h) \in Seq(Nat) /\ Len(Bodies(h)) = Len(h)
  BY LogHas, HistoryOf DEF GetHistory
<1>5. step \in Nat
  BY LogAssumption
<1>6. init \in InitLines /\ init.kind = "init" /\ init.parent = s
  BY <1>5 DEF SessionInit, InitLines
<1>7. Held(jsonl[s]) = {h[k].body : k \in 1..Len(h)}
  <2>1. DOMAIN Bodies(h) = 1..Len(h)
    BY <1>4, LenProperties
  <2> QED
    BY <1>4, <2>1 DEF ToSet
<1> HIDE DEF h, init
<1>8. i - 1 \in Nat /\ i - 1 <= Len(h) /\ i - 1 < i /\ i \in Nat /\ i <= Len(h)
  BY <1>4
<1> DEFINE b == {h[k].body : k \in 1..(i - 1)}
           c == {h[k].body : k \in 1..i}
<1>9. /\ lines \in Seq(FileLines) /\ lines # << >> /\ lines[1] = init
      /\ Rising(lines) /\ Held(lines) = b
      /\ acks \in Seq(Nat) /\ ToSet(acks) = b
  BY ZenonT(60), <1>4, <1>6, <1>8, CopyOf
<1>10. x \in Nat /\ \A y \in b : y < x
  <2>1. x \in Nat
    BY <1>4, LinesDiffer
  <2>2. \A k \in 1..(i - 1) : h[k].body < x
    BY <1>4, <1>8, CopyIsUnder
  <2> QED
    BY <2>1, <2>2
<1> HIDE DEF lines, acks, x
<1> DEFINE new == left[1]
           end == left[2]
<1>11. /\ After(lines, new, x)
       /\ end \in {"newline", "whole", "cut"}
       /\ Held(lines) \subseteq Held(new)
       /\ end # "newline" /\ Last(new) \in EventLines => Last(new).body = x
  <2>1. \A y \in Held(lines) : y < x
    BY <1>9, <1>10
  <2>2. lines \in Seq(FileLines) /\ Rising(lines) /\ lines # << >> /\ i \in Nat /\ x \in Nat
    BY <1>8, <1>9, <1>10
  <2>3. /\ After(lines, left[1], x)
        /\ left[2] \in {"newline", "whole", "cut"}
        /\ Held(lines) \subseteq Held(left[1])
        /\ left[2] # "newline" /\ Last(left[1]) \in EventLines => Last(left[1]).body = x
    BY <2>1, <2>2, LeftOfFinished
  <2> QED
    BY <2>3
<1>12. jsonl' = [jsonl EXCEPT ![t] = new] /\ tail' = [tail EXCEPT ![t] = end]
  BY <1>3
<1> HIDE DEF new, end
<1>13. /\ new \in Seq(FileLines) /\ Rising(new) /\ new # << >>
       /\ b \subseteq Held(new) /\ Held(new) \subseteq b \cup {x}
  BY <1>9, <1>11 DEF After
<1>14. new[1].kind = "init" /\ new[1].parent = s
  <2>1. new[1] = init \/ new[1].kind # "init"
    BY <1>9, <1>13, <1>11 DEF After
  <2>2. new[1] = lines[1]
    <3>1. EventLine(i, x) \in FileLines
      BY <1>8, <1>10, LinesDiffer DEF EventLine, EventLines, FileLines
    <3>2. \/ new = lines
          \/ new = Append(lines, EventLine(i, x))
          \/ new = Append(lines, Junk)
      BY <1>3 DEF new, LeftBy
    <3>3. Append(lines, EventLine(i, x))[1] = lines[1]
      BY <1>9, <3>1, LineAdded
    <3>4. Append(lines, Junk)[1] = lines[1]
      BY <1>9, JunkAdded
    <3> QED
      BY <3>2, <3>3, <3>4
  <2> QED
    BY <1>6, <1>9, <2>2
<1>15. c = b \cup {x}
  <2>1. 1..i = 1..(i - 1) \cup {i}
    BY <1>8
  <2> QED
    BY <2>1 DEF x
<1>16. Under(b, Held(jsonl[s])) /\ Under(c, Held(jsonl[s])) /\ c \subseteq Held(jsonl[s])
  <2>1. Under(b, Held(jsonl[s]))
    BY <1>4, <1>7, <1>8, CopyIsUnder
  <2>2. Under(c, Held(jsonl[s]))
    BY <1>4, <1>7, <1>8, CopyIsUnder
  <2>3. 1..i \subseteq 1..Len(h)
    BY <1>4, <1>8
  <2> QED
    BY <1>7, <2>1, <2>2, <2>3
<1>17. Held(new) = b \/ Held(new) = c
  BY <1>13, <1>15
<1>18. Under(Held(new), Held(jsonl[s])) /\ Held(new) \subseteq Held(jsonl[s])
  BY <1>15, <1>16, <1>17
<1>19. x \notin b
  <2>1. ~ (x < x)
    BY <1>10
  <2> QED
    BY <1>10, <2>1
<1>20. end # "newline" /\ Last(new) \in EventLines => Last(new).body \notin ToSet(acks)
  BY <1>9, <1>11, <1>19
<1>21. jsonl[s] # << >>
  <2>1. x \in Held(jsonl[s])
    BY <1>15, <1>16
  <2>2. Held(<< >>) = {}
    BY EmptySeq DEF Held
  <2> QED
    BY <2>1, <2>2
<1>22. ToSet(acks) \subseteq Held(new)
  BY <1>9, <1>13
<1>23. acked' = [acked EXCEPT ![t] = acks]
  BY <1>2 DEF acks
<1> HIDE DEF b, c
<1> QED
  BY <1>1, <1>2, <1>8, <1>9, <1>11, <1>12, <1>13, <1>14, <1>18, <1>20, <1>21, <1>22, <1>23, CopyKeeps

\* The invariant holds at first ...
LEMMA LogInit1 == LogInit => LogInv
<1> SUFFICES ASSUME LogInit PROVE LogInv
  OBVIOUS
<1>1. << >> \in Seq(FileLines) /\ << >> \in Seq(Nat) /\ Len(<< >>) = 0
  OBVIOUS
<1>2. Held(<< >>) = {} /\ Rising(<< >>) /\ ToSet(<< >>) = {}
  BY <1>1 DEF Held, Rising, ToSet
<1>3. \A s \in Sessions : jsonl[s] = << >> /\ tail[s] = "newline" /\ acked[s] = << >>
  BY DEF LogInit
<1>4. LogTypes
  BY <1>1 DEF LogInit, LogTypes
<1>5. \A s \in Sessions : Sound(s)
  BY <1>2, <1>3 DEF Sound
<1>6. Debt
  <2>1. Unheld = {} /\ Open = {}
    BY <1>2, <1>3 DEF Unheld, Open
  <2> QED
    BY <2>1, FS_EmptySet DEF Debt, LogInit
<1>7. HistoryIsLog
  <2>1. Rising(<< >>) /\ << >> \in Seq(FileLines)
    BY <1>1, <1>2
  <2> DEFINE h == Select(<< >>, EventLines)
  <2>2. PICK place : Places0(place, h, << >>, 0, EventLines)
    BY <1>1, SelectPlaces
  <2>3. h \in Seq(EventLines) /\ Len(h) \in Nat /\ Bodies(h) \in Seq(Nat) /\ Len(Bodies(h)) = Len(h)
    BY <2>1, HistoryOf
  <2> HIDE DEF h
  <2>4. ToSet(Bodies(h)) = Held(<< >>)
    BY <2>1, HistoryOf DEF h
  <2>5. Bodies(h) = << >>
    <3> DEFINE q == Bodies(h)
    <3>1. q \in Seq(Nat) /\ ToSet(q) = {}
      BY <1>2, <2>3, <2>4
    <3> HIDE DEF q
    <3>2. DOMAIN q = {}
      BY <3>1 DEF ToSet
    <3>3. Len(q) = 0
      BY <3>1, <3>2, LenProperties
    <3>4. q = << >>
      BY <3>1, <3>3, EmptySeq
    <3> QED
      BY <3>4 DEF q
  <2> QED
    BY <1>3, <2>5 DEF HistoryIsLog, GetHistory, h
<1>8. Descended
  BY <1>3 DEF Descended, Child
<1> QED
  BY <1>4, <1>5, <1>6, <1>7, <1>8 DEF LogInv

\* ... and is kept by every step.
LEMMA LogStep == LogInv /\ [LogNext]_logVars => LogInv'
<1> SUFFICES ASSUME LogInv, [LogNext]_logVars PROVE LogInv'
  OBVIOUS
<1>1. ASSUME NEW s \in Sessions, CreateSession(s) PROVE LogInv'
  BY <1>1, NewSessionKeeps
<1>2. ASSUME NEW s \in Sessions, AppendEvent(s) PROVE LogInv'
  BY <1>2, AppendKeeps
<1>3. ASSUME NEW s \in Sessions, AppendThrows(s) PROVE LogInv'
  BY <1>3, AppendThrowsKeeps
<1>4. ASSUME NEW s \in Sessions, NEW t \in Sessions, NEW step \in 0..MaxEvents, Fork(s, t, step)
      PROVE  LogInv'
  BY <1>4, ForkKeeps
<1>5. ASSUME NEW s \in Sessions, NEW t \in Sessions, NEW step \in 0..MaxEvents,
             ForkThrows(s, t, step)
      PROVE  LogInv'
  BY <1>5, ForkThrowsKeeps
<1> DEFINE Same == /\ jsonl' = jsonl /\ tail' = tail /\ acked' = acked /\ made' = made /\ torn' = torn
                   /\ counts' \in [Sessions -> Nat]
<1>6. ASSUME Same PROVE LogInv'
  <2>1. /\ LogTypes' /\ HistoryIsLog' /\ Descended'
    BY <1>6 DEF LogInv, LogTypes, HistoryIsLog, GetHistory, Descended, Child, Parent
  <2>2. \A s \in Sessions : Sound(s)'
    BY <1>6 DEF LogInv, Sound
  <2>3. Debt'
    <3>1. Unheld' = Unheld /\ Open' = Open
      BY <1>6 DEF Unheld, Open
    <3> QED
      BY <1>6, <3>1 DEF LogInv, Debt
  <2> QED
    BY <2>1, <2>2, <2>3 DEF LogInv
<1>7. CASE Restart
  BY <1>6, <1>7 DEF Restart
<1>8. CASE UNCHANGED logVars
  BY <1>6, <1>8 DEF logVars, memory, LogInv, LogTypes
<1> QED
  BY <1>1, <1>2, <1>3, <1>4, <1>5, <1>7, <1>8 DEF LogNext

\* HistoryKept: the files give the history back, whole while no write failed, short of at
\* most one acknowledged event for each that did; and what a fork shares with its parent
\* stays a prefix of what the parent has (appendEvent, getHistory, createSession and
\* forkSession of PsaSessionService).
THEOREM HistoryIsKept == LogSpec => []HistoryKept
<1>1. LogInv => HistoryKept
  BY LogInvImplies
<1> QED
  BY <1>1, LogInit1, LogStep, PTL DEF LogSpec

-----------------------------------------------------------------------------
(* The index of sessions (SessionIndex).                                   *)

\* An event is an event line of the file.
WrittenIn(lines) == {lines[i] : i \in 1..Len(lines)} \cap EventLines

\* Of the rows of a session and the events in its file: those of one number are the same,
\* or the row's is the older, or the other's insertion has failed.
RowsFit(some, events, failed) ==
    \A e \in some, l \in events :
      e.index = l.index => e = l \/ e.body < l.body \/ l \in failed

\* What a sync inserts of a session, and what it leaves refused.
Inserted(s, lost) == {e \in Attempted(s, lost) : <<s, e>> \notin lost}
StillRefused(s, lost) ==
    (refused[s] \ Attempted(s, lost)) \cup {e \in Attempted(s, lost) : <<s, e>> \in lost}

\* The invariant of the index.
IndexInv ==
    /\ LogInv
    /\ rows \in [Sessions -> SUBSET EventLines]
    /\ \A s \in Sessions :
          /\ \A e \in rows[s] : e.body <= made
          /\ jsonl[s] = << >> => rows[s] = {}
          /\ RowsFit(rows[s], WrittenIn(jsonl[s]), refused[s])

\* A line more, or one less.
LEMMA WrittenAfter ==
  ASSUME NEW lines \in Seq(FileLines)
  PROVE  /\ \A x \in FileLines : WrittenIn(Append(lines, x)) \subseteq WrittenIn(lines) \cup {x}
         /\ WrittenIn(Append(lines, Junk)) \subseteq WrittenIn(lines)
         /\ lines # << >> => WrittenIn(Append(Front(lines), Junk)) \subseteq WrittenIn(lines)
<1>1. ASSUME NEW q \in Seq(FileLines), NEW x \in FileLines
      PROVE  WrittenIn(Append(q, x)) \subseteq WrittenIn(q) \cup {x}
  <2>1. /\ Append(q, x) \in Seq(FileLines) /\ Len(Append(q, x)) = Len(q) + 1 /\ Len(q) \in Nat
        /\ Append(q, x)[Len(q) + 1] = x
        /\ \A i \in 1..Len(q) : Append(q, x)[i] = q[i]
    BY AppendProperties, LenProperties
  <2> DEFINE a == Append(q, x)
  <2> HIDE DEF a
  <2>2. Len(a) = Len(q) + 1 /\ a[Len(q) + 1] = x /\ \A i \in 1..Len(q) : a[i] = q[i]
    BY <2>1 DEF a
  <2>3. \A i \in 1..(Len(q) + 1) : i \in 1..Len(q) \/ i = Len(q) + 1
    BY <2>1
  <2>4. WrittenIn(a) \subseteq WrittenIn(q) \cup {x}
    BY <2>2, <2>3 DEF WrittenIn
  <2> QED
    BY <2>4 DEF a
<1>2. Junk \in FileLines /\ Junk \notin EventLines
  BY LinesDiffer DEF FileLines
<1>3. ASSUME NEW q \in Seq(FileLines) PROVE WrittenIn(Append(q, Junk)) \subseteq WrittenIn(q)
  <2>1. WrittenIn(Append(q, Junk)) \subseteq WrittenIn(q) \cup {Junk}
    BY <1>1, <1>2
  <2>2. WrittenIn(Append(q, Junk)) \subseteq EventLines
    BY DEF WrittenIn
  <2> QED
    BY <1>2, <2>1, <2>2
<1>4. ASSUME lines # << >> PROVE WrittenIn(Append(Front(lines), Junk)) \subseteq WrittenIn(lines)
  <2>1. /\ Front(lines) \in Seq(FileLines) /\ Len(Front(lines)) = Len(lines) - 1 /\ Len(lines) \in Nat
        /\ \A k \in 1..(Len(lines) - 1) : Front(lines)[k] = lines[k]
    BY <1>4, FrontProperties
  <2> DEFINE less == Front(lines)
  <2> HIDE DEF less
  <2>2. less \in Seq(FileLines) /\ Len(less) = Len(lines) - 1
        /\ \A k \in 1..(Len(lines) - 1) : less[k] = lines[k]
    BY <2>1 DEF less
  <2>3. 1..(Len(lines) - 1) \subseteq 1..Len(lines)
    BY <2>1
  <2>4. WrittenIn(less) \subseteq WrittenIn(lines)
    BY <2>2, <2>3 DEF WrittenIn
  <2>5. WrittenIn(Append(less, Junk)) \subseteq WrittenIn(less)
    BY <1>3, <2>2
  <2> QED
    BY <2>4, <2>5 DEF less
<1> QED
  BY <1>1, <1>3, <1>4

\* Whatever a write leaves.
LEMMA WrittenByWrite ==
  ASSUME NEW lines \in Seq(FileLines), NEW end, end # "newline" => lines # << >>,
         NEW n \in Nat, NEW x \in Nat
  PROVE  /\ WrittenIn(GluedLog(lines, end, EventLine(n, x))) \subseteq WrittenIn(lines) \cup {EventLine(n, x)}
         /\ \A left \in LeftBy(lines, end, EventLine(n, x)) :
              WrittenIn(left[1]) \subseteq WrittenIn(lines) \cup {EventLine(n, x)}
<1> DEFINE line == EventLine(n, x)
<1>0. line \in FileLines
  BY NewLine DEF FileLines
<1> HIDE DEF line
<1>1. /\ WrittenIn(Append(lines, line)) \subseteq WrittenIn(lines) \cup {line}
      /\ WrittenIn(Append(lines, Junk)) \subseteq WrittenIn(lines)
      /\ end # "newline" => WrittenIn(Append(Front(lines), Junk)) \subseteq WrittenIn(lines)
  BY <1>0, WrittenAfter
<1>2. WrittenIn(GluedLog(lines, end, line)) \subseteq WrittenIn(lines) \cup {line}
  BY <1>1 DEF GluedLog
<1>3. ASSUME NEW left \in LeftBy(lines, end, line)
      PROVE  WrittenIn(left[1]) \subseteq WrittenIn(lines) \cup {line}
  <2>1. \/ left[1] = lines
        \/ left[1] = Append(lines, line)
        \/ left[1] = Append(lines, Junk)
        \/ end # "newline" /\ left[1] = Append(Front(lines), Junk)
    BY DEF LeftBy
  <2> QED
    BY <1>1, <2>1
<1> QED
  BY <1>2, <1>3 DEF line

\* What a step of the log does to the events of a file.
LEMMA LogWrites ==
  ASSUME LogInv, [LogNext]_logVars, NEW s \in Sessions
  PROVE  /\ made' >= made
         /\ \/ jsonl[s] = << >>
            \/ jsonl'[s] = jsonl[s]
            \/ /\ jsonl'[s] # << >>
               /\ \A l \in WrittenIn(jsonl'[s]) : l \in WrittenIn(jsonl[s]) \/ l.body = made + 1
<1>1. /\ jsonl[s] \in Seq(FileLines) /\ made \in Nat /\ counts[s] \in Nat
      /\ tail[s] # "newline" => jsonl[s] # << >>
      /\ DOMAIN jsonl = Sessions
  BY LogHas DEF LogInv, LogTypes
<1> DEFINE line == EventLine(counts[s] + 1, made + 1)
<1>2. /\ WrittenIn(GluedLog(jsonl[s], tail[s], line)) \subseteq WrittenIn(jsonl[s]) \cup {line}
      /\ \A left \in LeftBy(jsonl[s], tail[s], line) : WrittenIn(left[1]) \subseteq WrittenIn(jsonl[s]) \cup {line}
      /\ line.body = made + 1
  <2>1. jsonl[s] \in Seq(FileLines) /\ (tail[s] # "newline" => jsonl[s] # << >>)
        /\ counts[s] + 1 \in Nat /\ made + 1 \in Nat
    BY <1>1
  <2>2. line.body = made + 1
    BY <2>1, NewLine
  <2>3. /\ WrittenIn(GluedLog(jsonl[s], tail[s], line)) \subseteq WrittenIn(jsonl[s]) \cup {line}
        /\ \A left \in LeftBy(jsonl[s], tail[s], line) : WrittenIn(left[1]) \subseteq WrittenIn(jsonl[s]) \cup {line}
    BY <2>1, WrittenByWrite
  <2> QED
    BY <2>2, <2>3
<1> HIDE DEF line
<1>3. ASSUME NEW u \in Sessions, CreateSession(u)
      PROVE  made' >= made /\ (jsonl[s] = << >> \/ jsonl'[s] = jsonl[s])
  BY <1>1, <1>3 DEF CreateSession
<1>4. ASSUME NEW u \in Sessions, NEW v \in Sessions, NEW step \in 0..MaxEvents, Fork(v, u, step)
      PROVE  made' >= made /\ (jsonl[s] = << >> \/ jsonl'[s] = jsonl[s])
  BY <1>1, <1>4 DEF Fork
<1>5. ASSUME NEW u \in Sessions, NEW v \in Sessions, NEW step \in 0..MaxEvents, ForkThrows(v, u, step)
      PROVE  made' >= made /\ (jsonl[s] = << >> \/ jsonl'[s] = jsonl[s])
  BY <1>1, <1>5 DEF ForkThrows
<1>6. ASSUME NEW u \in Sessions, AppendEvent(u) \/ AppendThrows(u)
      PROVE  /\ made' >= made
             /\ \/ jsonl[s] = << >>
                \/ jsonl'[s] = jsonl[s]
                \/ /\ jsonl'[s] # << >>
                   /\ \A l \in WrittenIn(jsonl'[s]) : l \in WrittenIn(jsonl[s]) \/ l.body = made + 1
  <2>1. made' = made + 1
    BY <1>6 DEF AppendEvent, AppendThrows
  <2>2. CASE u # s
    <3>1. jsonl'[s] = jsonl[s]
      BY <1>1, <1>6, <2>2 DEF AppendEvent, AppendThrows
    <3> QED
      BY <1>1, <2>1, <3>1
  <2>3. CASE u = s
    <3>1. WrittenIn(jsonl'[s]) \subseteq WrittenIn(jsonl[s]) \cup {line}
      <4>1. CASE AppendEvent(s)
        BY <1>1, <1>2, <4>1 DEF AppendEvent, line
      <4>2. CASE AppendThrows(s)
        <5>1. PICK left \in LeftBy(jsonl[s], tail[s], line) : jsonl' = [jsonl EXCEPT ![s] = left[1]]
          BY <4>2 DEF AppendThrows, line
        <5> QED
          BY <1>1, <1>2, <5>1
      <4> QED
        BY <1>6, <2>3, <4>1, <4>2
    <3>2. jsonl[s] # << >> => jsonl'[s] # << >>
      <4>1. \A b \in Held(jsonl[s]) : b < made + 1
        BY LogHas
      <4>2. CASE AppendEvent(s)
        <5>1. Rising(jsonl[s]) /\ counts[s] + 1 \in Nat /\ made + 1 \in Nat
              /\ tail[s] \in {"newline", "whole", "cut"}
          BY <1>1, LogHas
        <5>2. GluedLog(jsonl[s], tail[s], line) # << >>
          <6>1. jsonl[s] \in Seq(FileLines) /\ (tail[s] # "newline" => jsonl[s] # << >>)
                /\ \A b \in Held(jsonl[s]) : b < made + 1
            BY <1>1, <4>1
          <6>2. LET new == GluedLog(jsonl[s], tail[s], EventLine(counts[s] + 1, made + 1))
                IN  After(jsonl[s], new, made + 1) /\ new # << >>
            BY <5>1, <6>1, Glued
          <6> QED
            BY <6>2 DEF line
        <5> QED
          BY <1>1, <4>2, <5>2 DEF AppendEvent, line
      <4>3. CASE AppendThrows(s)
        <5>1. PICK left \in LeftBy(jsonl[s], tail[s], line) : jsonl' = [jsonl EXCEPT ![s] = left[1]]
          BY <4>3 DEF AppendThrows, line
        <5>2. Rising(jsonl[s]) /\ tail[s] \in {"newline", "whole", "cut"} /\ counts[s] + 1 \in Nat
          BY <1>1, LogHas
        <5>3. After(jsonl[s], left[1], made + 1)
          BY <1>1, <4>1, <5>1, <5>2, LeftOver DEF line
        <5>4. jsonl'[s] = left[1]
          BY <1>1, <5>1
        <5> QED
          BY <5>3, <5>4 DEF After
      <4> QED
        BY <1>6, <2>3, <4>2, <4>3
    <3> QED
      BY <1>1, <1>2, <2>1, <3>1, <3>2
  <2> QED
    BY <2>2, <2>3
<1>7. CASE Restart \/ UNCHANGED logVars
  BY <1>1, <1>7 DEF Restart, logVars
<1> QED
  BY <1>3, <1>4, <1>5, <1>6, <1>7 DEF LogNext

\* The events read back are those in the file; of those with one number a sync tries the
\* oldest, and the next ones as long as the insertions fail.
LEMMA OldestIsAttempted ==
  ASSUME IndexInv, NEW s \in Sessions, NEW lost
  PROVE  /\ Attempted(s, lost) \subseteq WrittenIn(jsonl[s])
         /\ RowsFit(rows[s] \cup Inserted(s, lost), WrittenIn(jsonl[s]), StillRefused(s, lost))
         /\ \A l \in WrittenIn(jsonl[s]) :
              \/ l \in rows[s] \cup Inserted(s, lost) \cup StillRefused(s, lost)
              \/ \E e \in rows[s] \cup Inserted(s, lost) : e.index = l.index /\ e.body < l.body
         /\ \A i \in DOMAIN GetHistory(s) : GetHistory(s)[i] \in WrittenIn(jsonl[s])
<1> DEFINE h == GetHistory(s)
           Has(n) == \E e \in rows[s] : e.index = n
           Tries(k) == /\ ~ Has(h[k].index)
                       /\ \A j \in 1..(k - 1) : h[j].index = h[k].index => <<s, h[j]>> \in lost
<1>1. /\ h \in Seq(EventLines) /\ Len(h) \in Nat /\ Increasing(Bodies(h))
      /\ \A i \in 1..Len(h) : h[i] \in EventLines /\ Bodies(h)[i] = h[i].body
      /\ Len(Bodies(h)) = Len(h)
  BY LogHas, HistoryOf DEF GetHistory, IndexInv
<1>2. PICK place : Places0(place, h, jsonl[s], Len(jsonl[s]), EventLines)
  BY LogHas, SelectPlaces DEF GetHistory, IndexInv
<1>3. Attempted(s, lost) = {h[i] : i \in {k \in DOMAIN h : Tries(k)}}
  BY DEF Attempted
<1> HIDE DEF h
<1>4. DOMAIN h = 1..Len(h)
  BY <1>1, LenProperties
<1>5. \A i, j \in 1..Len(h) : i < j => h[i].body < h[j].body
  BY <1>1 DEF Increasing
<1>6. \A i \in 1..Len(h) : h[i] \in WrittenIn(jsonl[s])
  <2> SUFFICES ASSUME NEW i \in 1..Len(h) PROVE h[i] \in WrittenIn(jsonl[s])
    OBVIOUS
  <2>1. place[i] \in 1..Len(jsonl[s]) /\ h[i] = jsonl[s][place[i]] /\ h[i] \in EventLines
    BY <1>1, <1>2 DEF Places0
  <2> QED
    BY <2>1 DEF WrittenIn
<1>7. \A l \in WrittenIn(jsonl[s]) : \E i \in 1..Len(h) : h[i] = l
  <2> SUFFICES ASSUME NEW n \in 1..Len(jsonl[s]), jsonl[s][n] \in EventLines
               PROVE  \E i \in 1..Len(h) : h[i] = jsonl[s][n]
    BY DEF WrittenIn
  <2>1. PICK i \in 1..Len(h) : place[i] = n
    BY <1>2 DEF Places0
  <2> QED
    BY <1>2, <2>1 DEF Places0
<1>8. Attempted(s, lost) \subseteq WrittenIn(jsonl[s])
  BY <1>3, <1>4, <1>6
<1>9. \A k \in 1..Len(h) : Tries(k) => h[k] \in Attempted(s, lost)
  BY <1>3, <1>4
<1>10. ASSUME NEW e \in rows[s] \cup Inserted(s, lost), NEW l \in WrittenIn(jsonl[s]),
              e.index = l.index
       PROVE  e = l \/ e.body < l.body \/ l \in StillRefused(s, lost)
  <2>1. CASE e \in rows[s]
    <3>1. e = l \/ e.body < l.body \/ l \in refused[s]
      BY <1>10, <2>1 DEF IndexInv, RowsFit
    <3>2. l \notin Attempted(s, lost)
      BY <1>3, <1>10, <2>1
    <3> QED
      BY <3>1, <3>2 DEF StillRefused
  <2>2. CASE e \in Inserted(s, lost)
    <3>1. PICK k \in 1..Len(h) : Tries(k) /\ h[k] = e
      BY <1>3, <1>4, <2>2 DEF Inserted
    <3>2. PICK i \in 1..Len(h) : h[i] = l
      BY <1>7
    <3>3. CASE i < k
      <4>1. i \in 1..(k - 1) /\ (\A j \in 1..(i - 1) : j \in 1..(k - 1))
        BY <1>1, <3>3
      <4>2. <<s, l>> \in lost
        BY <1>10, <3>1, <3>2, <4>1
      <4>3. Tries(i)
        BY <1>10, <3>1, <3>2, <4>1
      <4> QED
        BY <1>9, <3>2, <4>2, <4>3 DEF StillRefused
    <3>4. CASE k < i
      BY <1>5, <3>1, <3>2, <3>4
    <3>5. i < k \/ k < i \/ i = k
      BY <1>1
    <3> QED
      BY <3>1, <3>2, <3>3, <3>4, <3>5
  <2> QED
    BY <2>1, <2>2
<1>11. ASSUME NEW l \in WrittenIn(jsonl[s])
       PROVE  \/ l \in rows[s] \cup Inserted(s, lost) \cup StillRefused(s, lost)
              \/ \E e \in rows[s] \cup Inserted(s, lost) : e.index = l.index /\ e.body < l.body
  <2>1. PICK i \in 1..Len(h) : h[i] = l
    BY <1>7
  <2>2. CASE Has(l.index)
    <3>1. PICK e \in rows[s] : e.index = l.index
      BY <2>2
    <3> QED
      BY <3>1, <1>10
  <2>3. CASE ~ Has(l.index) /\ Tries(i)
    <3>1. l \in Attempted(s, lost)
      BY <1>9, <2>1, <2>3
    <3> QED
      BY <3>1 DEF Inserted, StillRefused
  <2>4. CASE ~ Has(l.index) /\ ~ Tries(i)
    <3> DEFINE Made == {k \in Nat : k \in 1..(i - 1) /\ h[k].index = l.index /\ <<s, h[k]>> \notin lost}
    <3>1. PICK k \in Made : \A j \in Made : ~ (<<j, k>> \in OpToRel(<, Nat))
      <4>1. PICK j \in 1..(i - 1) : h[j].index = h[i].index /\ <<s, h[j]>> \notin lost
        BY <2>1, <2>4
      <4>2. j \in Nat
        BY <1>1
      <4>3. Made # {} /\ Made \subseteq Nat
        BY <2>1, <4>1, <4>2
      <4> QED
        BY <4>3, NatLessThanWellFounded, WFMin
    <3>2. k \in Nat /\ k \in 1..(i - 1) /\ h[k].index = l.index /\ <<s, h[k]>> \notin lost
      BY <3>1
    <3>3. k \in 1..Len(h) /\ k < i
      BY <1>1, <3>2
    <3>4. \A j \in 1..(k - 1) : h[j].index = h[k].index => <<s, h[j]>> \in lost
      <4> SUFFICES ASSUME NEW j \in 1..(k - 1), h[j].index = h[k].index, <<s, h[j]>> \notin lost
                   PROVE FALSE
        OBVIOUS
      <4>1. j \in Nat /\ j < k /\ j \in 1..(i - 1)
        BY <1>1, <3>2
      <4>2. j \in Made
        BY <3>2, <4>1
      <4>3. <<j, k>> \in OpToRel(<, Nat)
        BY <3>2, <4>1 DEF OpToRel
      <4> QED
        BY <3>1, <4>2, <4>3
    <3>5. Tries(k)
      BY <2>4, <3>2, <3>4
    <3>6. h[k] \in Inserted(s, lost)
      BY <1>9, <3>2, <3>3, <3>5 DEF Inserted
    <3>7. h[k].body < l.body
      BY <1>5, <2>1, <3>3
    <3> QED
      BY <3>2, <3>6, <3>7
  <2> QED
    BY <2>2, <2>3, <2>4
<1>12. \A i \in DOMAIN GetHistory(s) : GetHistory(s)[i] \in WrittenIn(jsonl[s])
  BY <1>4, <1>6 DEF h
<1>13. RowsFit(rows[s] \cup Inserted(s, lost), WrittenIn(jsonl[s]), StillRefused(s, lost))
  BY <1>10 DEF RowsFit
<1> QED
  BY <1>8, <1>11, <1>12, <1>13

\* A sync, of all the files or of some, adds to the rows what it inserts.
LEMMA SyncKeeps ==
  ASSUME IndexInv, NEW part \in SUBSET Sessions, SyncFiles(part), LogInv',
         jsonl' = jsonl, made' = made
  PROVE  IndexInv'
<1>1. PICK lost \in SUBSET Unindexed :
        /\ rows' = [s \in Sessions |->
             IF s \in part THEN rows[s] \cup Inserted(s, lost) ELSE rows[s]]
        /\ refused' = [s \in Sessions |->
             IF s \in part THEN StillRefused(s, lost) ELSE refused[s]]
  BY DEF SyncFiles, Inserted, StillRefused
<1>2. ASSUME NEW s \in Sessions
      PROVE  /\ rows'[s] \subseteq rows[s] \cup Inserted(s, lost)
             /\ Inserted(s, lost) \subseteq WrittenIn(jsonl[s])
             /\ RowsFit(rows'[s], WrittenIn(jsonl[s]), refused'[s])
             /\ WrittenIn(jsonl[s]) \subseteq EventLines
             /\ rows[s] \subseteq EventLines
  <2>1. /\ Inserted(s, lost) \subseteq WrittenIn(jsonl[s])
        /\ RowsFit(rows[s] \cup Inserted(s, lost), WrittenIn(jsonl[s]), StillRefused(s, lost))
    BY OldestIsAttempted DEF Inserted
  <2>2. /\ RowsFit(rows[s], WrittenIn(jsonl[s]), refused[s])
        /\ WrittenIn(jsonl[s]) \subseteq EventLines
        /\ rows[s] \subseteq EventLines
    BY DEF IndexInv, WrittenIn
  <2>3. CASE s \in part
    <3>1. rows'[s] = rows[s] \cup Inserted(s, lost) /\ refused'[s] = StillRefused(s, lost)
      BY <1>1, <2>3
    <3> QED
      BY <2>1, <2>2, <3>1
  <2>4. CASE s \notin part
    <3>1. rows'[s] = rows[s] /\ refused'[s] = refused[s]
      BY <1>1, <2>4
    <3> QED
      BY <2>1, <2>2, <3>1
  <2> QED
    BY <2>3, <2>4
<1>3. rows' \in [Sessions -> SUBSET EventLines]
  <2>1. \A s \in Sessions : rows'[s] \subseteq EventLines
    BY <1>2
  <2>2. rows' = [s \in Sessions |-> rows'[s]]
    BY <1>1
  <2> QED
    BY <2>1, <2>2
<1>4. ASSUME NEW s \in Sessions
      PROVE  /\ \A e \in rows'[s] : e.body <= made'
             /\ jsonl'[s] = << >> => rows'[s] = {}
             /\ RowsFit(rows'[s], WrittenIn(jsonl'[s]), refused'[s])
  <2>1. \A e \in WrittenIn(jsonl[s]) : e.body <= made
    <3>1. WrittenIn(jsonl[s]) \subseteq EventLines
      BY <1>2
    <3>2. \A e \in WrittenIn(jsonl[s]) : e.body \in Held(jsonl[s])
      BY LinesDiffer DEF WrittenIn, Held
    <3> QED
      BY <3>2, LogHas DEF IndexInv
  <2>2. \A e \in rows'[s] : e.body <= made
    BY <1>2, <2>1 DEF IndexInv
  <2>3. jsonl[s] = << >> => rows'[s] = {}
    <3> SUFFICES ASSUME jsonl[s] = << >> PROVE rows'[s] = {}
      OBVIOUS
    <3>1. WrittenIn(jsonl[s]) = {}
      BY EmptySeq DEF WrittenIn
    <3>2. rows[s] = {}
      BY DEF IndexInv
    <3> QED
      BY <1>2, <3>1, <3>2
  <2> QED
    BY <1>2, <2>2, <2>3
<1> QED
  BY <1>3, <1>4 DEF IndexInv

\* The invariant holds at first ...
LEMMA IndexInitially == IndexInit => IndexInv
<1> SUFFICES ASSUME IndexInit PROVE IndexInv
  OBVIOUS
<1>1. LogInv
  BY LogInit1 DEF IndexInit
<1>2. \A s \in Sessions : rows[s] = {}
  BY DEF IndexInit
<1>3. rows \in [Sessions -> SUBSET EventLines]
  BY DEF IndexInit
<1> QED
  BY <1>1, <1>2, <1>3 DEF IndexInv, RowsFit

\* ... and is kept: what is written is newer than every row.
LEMMA IndexStep == IndexInv /\ [IndexNext]_sessionVars => IndexInv'
<1> SUFFICES ASSUME IndexInv, [IndexNext]_sessionVars PROVE IndexInv'
  OBVIOUS
<1>1. [LogNext]_logVars
  BY DEF IndexNext, Sync, SyncDies, SyncElsewhere, LogNext, sessionVars
<1>2. LogInv'
  BY <1>1, LogStep DEF IndexInv
<1>3. CASE rows' = rows /\ refused' = refused
  <2>1. ASSUME NEW s \in Sessions
        PROVE  /\ \A e \in rows[s] : e.body <= made'
               /\ jsonl'[s] = << >> => rows[s] = {}
               /\ RowsFit(rows[s], WrittenIn(jsonl'[s]), refused[s])
    <3>1. /\ made' >= made
          /\ \/ jsonl[s] = << >>
             \/ jsonl'[s] = jsonl[s]
             \/ /\ jsonl'[s] # << >>
                /\ \A l \in WrittenIn(jsonl'[s]) : l \in WrittenIn(jsonl[s]) \/ l.body = made + 1
      BY <1>1, LogWrites DEF IndexInv
    <3>2. /\ rows[s] \subseteq EventLines
          /\ \A e \in rows[s] : e.body \in Nat /\ e.body <= made
          /\ jsonl[s] = << >> => rows[s] = {}
          /\ RowsFit(rows[s], WrittenIn(jsonl[s]), refused[s])
          /\ made \in Nat /\ made' \in Nat
      BY <1>2, LinesDiffer DEF IndexInv, LogInv, LogTypes
    <3>3. \A e \in rows[s] : e.body <= made' /\ e.body < made + 1
      BY <3>1, <3>2
    <3>4. RowsFit(rows[s], WrittenIn(jsonl'[s]), refused[s])
      <4>1. CASE jsonl[s] = << >>
        BY <3>2, <4>1 DEF RowsFit
      <4>2. CASE jsonl'[s] = jsonl[s]
        BY <3>2, <4>2
      <4>3. CASE \A l \in WrittenIn(jsonl'[s]) : l \in WrittenIn(jsonl[s]) \/ l.body = made + 1
        BY <3>2, <3>3, <4>3 DEF RowsFit
      <4> QED
        BY <3>1, <4>1, <4>2, <4>3
    <3>5. jsonl'[s] = << >> => rows[s] = {}
      BY <3>1, <3>2
    <3> QED
      BY <3>3, <3>4, <3>5
  <2> QED
    BY <1>2, <1>3, <2>1 DEF IndexInv
<1>4. CASE Sync
  <2>1. jsonl' = jsonl /\ made' = made /\ SyncFiles(Sessions)
    BY <1>4 DEF Sync, logVars
  <2> QED
    BY <1>2, <2>1, SyncKeeps
<1>5. CASE SyncDies
  <2>1. PICK part \in SUBSET Sessions : SyncFiles(part) /\ Restart
    BY <1>5 DEF SyncDies
  <2>2. jsonl' = jsonl /\ made' = made
    BY <2>1 DEF Restart
  <2> QED
    BY <1>2, <2>1, <2>2, SyncKeeps
<1> QED
  BY <1>3, <1>4, <1>5 DEF IndexNext, SyncElsewhere, index, sessionVars

\* SyncIsComplete: after a sync an event has no row only if its session has one of the
\* same number that is older, or if its own last insertion failed (syncFromSessionFiles
\* of SqliteStoragePlugin).
THEOREM SyncLeavesNoneOut == IndexSpec => SyncIsComplete
<1>1. ASSUME IndexInv, Sync
      PROVE  \A s \in Sessions : \A i \in DOMAIN GetHistory(s) :
               \/ GetHistory(s)[i] \in rows'[s] \cup refused'[s]
               \/ \E e \in rows'[s] :
                    e.index = GetHistory(s)[i].index /\ e.body < GetHistory(s)[i].body
  <2> SUFFICES ASSUME NEW s \in Sessions, NEW i \in DOMAIN GetHistory(s)
               PROVE  \/ GetHistory(s)[i] \in rows'[s] \cup refused'[s]
                      \/ \E e \in rows'[s] :
                           e.index = GetHistory(s)[i].index /\ e.body < GetHistory(s)[i].body
    OBVIOUS
  <2>1. PICK lost \in SUBSET Unindexed :
          rows'[s] = rows[s] \cup Inserted(s, lost) /\ refused'[s] = StillRefused(s, lost)
    BY <1>1 DEF Sync, SyncFiles, Inserted, StillRefused
  <2> QED
    BY <1>1, <2>1, OldestIsAttempted
<1>2. IndexInv /\ [IndexNext]_sessionVars =>
        [Sync => \A s \in Sessions : \A i \in DOMAIN GetHistory(s) :
           \/ GetHistory(s)[i] \in rows'[s] \cup refused'[s]
           \/ \E e \in rows'[s] :
                e.index = GetHistory(s)[i].index /\ e.body < GetHistory(s)[i].body]_sessionVars
  BY <1>1
<1> QED
  BY <1>2, IndexInitially, IndexStep, PTL DEF IndexSpec, SyncIsComplete

-----------------------------------------------------------------------------
(* Recursion over numbers.                                                 *)

\* A set of numbers has a least one.
LEMMA LeastOf ==
  ASSUME NEW U \in SUBSET Nat, U # {}
  PROVE  Min(U) \in U /\ \A y \in U : Min(U) <= y
<1>1. PICK x \in U : \A y \in U : ~ (<<y, x>> \in OpToRel(<, Nat))
  BY NatLessThanWellFounded, WFMin
<1>2. \A y \in U : x <= y
  <2> SUFFICES ASSUME NEW y \in U PROVE x <= y
    OBVIOUS
  <2>1. ~ (y < x)
    BY <1>1 DEF OpToRel
  <2> QED
    BY <2>1
<1> QED
  BY <1>2 DEF Min

\* What holds of x when it holds of all that have a lower rank holds of all of D.
LEMMA ByRank ==
  ASSUME NEW D, NEW T, NEW rank \in [D -> Nat],
         \A x \in D : (\A y \in D : rank[y] < rank[x] => y \in T) => x \in T
  PROVE  D \subseteq T
<1> SUFFICES ASSUME NEW z \in D, z \notin T PROVE FALSE
  OBVIOUS
<1> DEFINE U == {rank[x] : x \in D \ T}
<1>1. U \in SUBSET Nat /\ U # {}
  OBVIOUS
<1>2. Min(U) \in U /\ \A y \in U : Min(U) <= y
  BY <1>1, LeastOf
<1>3. PICK x \in D \ T : rank[x] = Min(U)
  BY <1>2
<1>4. \A y \in D : rank[y] < rank[x] => y \in T
  <2> SUFFICES ASSUME NEW y \in D, rank[y] < rank[x], y \notin T PROVE FALSE
    OBVIOUS
  <2>1. rank[x] <= rank[y]
    BY <1>2, <1>3
  <2> QED
    BY <2>1
<1> QED
  BY <1>3, <1>4

\* x is computed from base, or with op from the one place next[x].
Computes(f, D, stop, base, next, op) ==
  \A x \in D : f[x] = IF x \in stop THEN base[x] ELSE op[x][f[next[x]]]

\* A recursion that goes down in rank computes a function.
LEMMA RecursionExists ==
  ASSUME NEW D, NEW V, NEW some \in V, NEW rank \in [D -> Nat], NEW R \in Nat,
         NEW stop, NEW base, NEW next, NEW op,
         \A x \in D : rank[x] <= R,
         \A x \in D : x \in stop => base[x] \in V,
         \A x \in D : x \notin stop =>
           next[x] \in D /\ rank[next[x]] < rank[x] /\ \A v \in V : op[x][v] \in V
  PROVE  \E f \in [D -> V] : Computes(f, D, stop, base, next, op)
<1> DEFINE Body(f, x) == IF x \in stop THEN base[x] ELSE op[x][f[next[x]]]
           Good(f, m) == \A x \in D : rank[x] < m => f[x] = Body(f, x)
           M == {m \in Nat : \E f \in [D -> V] : Good(f, m)}
<1>1. 0 \in M
  <2>1. [x \in D |-> some] \in [D -> V]
    OBVIOUS
  <2>2. Good([x \in D |-> some], 0)
    OBVIOUS
  <2> HIDE DEF Good
  <2> QED
    BY <2>1, <2>2
<1>2. ASSUME NEW m \in M PROVE m + 1 \in M
  <2>1. PICK f \in [D -> V] : Good(f, m)
    BY <1>2
  <2> DEFINE g == [x \in D |-> Body(f, x)]
  <2>2. g \in [D -> V]
    OBVIOUS
  <2>3. Good(g, m + 1)
    <3> SUFFICES ASSUME NEW x \in D, rank[x] < m + 1 PROVE g[x] = Body(g, x)
      OBVIOUS
    <3>1. CASE x \in stop
      BY <3>1
    <3>2. CASE x \notin stop
      <4>1. next[x] \in D /\ rank[next[x]] < m
        <5>1. next[x] \in D /\ rank[next[x]] < rank[x]
          BY <3>2
        <5>2. rank[next[x]] \in Nat /\ rank[x] \in Nat /\ m \in Nat
          BY <5>1
        <5> QED
          BY <5>1, <5>2
      <4>2. f[next[x]] = Body(f, next[x])
        BY <2>1, <4>1
      <4>3. g[next[x]] = f[next[x]]
        BY <4>1, <4>2
      <4> QED
        BY <3>2, <4>3
    <3> QED
      BY <3>1, <3>2
  <2> HIDE DEF g, Good
  <2> QED
    BY <2>2, <2>3
<1>3. R + 1 \in M
  <2>1. M \in SUBSET Nat
    OBVIOUS
  <2> HIDE DEF M
  <2> QED
    BY <1>1, <1>2, <2>1, Inductive
<1>4. PICK f \in [D -> V] : Good(f, R + 1)
  BY <1>3
<1>5. \A x \in D : rank[x] < R + 1
  OBVIOUS
<1> QED
  BY <1>4, <1>5 DEF Computes

-----------------------------------------------------------------------------
(* The texts of files, and edits of them.                                  *)

\* Append, for any set.
LEMMA Appended ==
  \A S : \A seq \in Seq(S), elt \in S : Append(seq, elt) \in Seq(S) /\ Append(seq, elt) # << >>
<1> SUFFICES ASSUME NEW S, NEW seq \in Seq(S), NEW elt \in S
             PROVE  Append(seq, elt) \in Seq(S) /\ Append(seq, elt) # << >>
  OBVIOUS
<1> QED
  BY AppendProperties

\* The lines of a text are texts.
LEMMA LinesAreTexts ==
  ASSUME NEW C, NEW text \in Seq(C)
  PROVE  Lines(text) \in Seq(Seq(C))
<1> DEFINE N == Len(text)
           D == 0..N
           V == Seq(Seq(C)) \ {<< >>}
           Next1(n, v) == LET before == Front(v)
                              line == Last(v)
                          IN  IF text[n] = "n" THEN before \o <<Ended(line), << >>>>
                              ELSE Append(before, Append(line, text[n]))
           Body(h, n) == IF n = 0 THEN << << >> >> ELSE Next1(n, h[n - 1])
           Fixed(h) == h = [n \in D |-> Body(h, n)]
           split == CHOOSE h : Fixed(h)
           rank == [n \in D |-> n]
           base == [n \in D |-> << << >> >>]
           next == [n \in D |-> n - 1]
           op == [n \in D |-> [v \in V |-> Next1(n, v)]]
<1>0. N \in Nat /\ D \subseteq Nat /\ \A n \in D : n # 0 => n - 1 \in D /\ n \in 1..N /\ n - 1 < n
  BY LenProperties
<1>1. << << >> >> \in V
  OBVIOUS
<1>2. ASSUME NEW n \in 1..N, NEW v \in V PROVE Next1(n, v) \in V
  <2>1. text[n] \in C
    BY ElementOfSeq
  <2>2. Front(v) \in Seq(Seq(C)) /\ Last(v) \in Seq(C)
    <3>1. v \in Seq(Seq(C)) /\ v # << >>
      OBVIOUS
    <3> QED
      BY <3>1 DEF Front, Last
  <2>3. Ended(Last(v)) \in Seq(C)
    BY <2>2 DEF Ended, Front
  <2>4. Front(v) \o <<Ended(Last(v)), << >>>> \in V
    BY <2>2, <2>3
  <2>5. Append(Front(v), Append(Last(v), text[n])) \in V
    <3>1. Append(Last(v), text[n]) \in Seq(C)
      BY <2>1, <2>2, AppendProperties
    <3>2. \A b \in Seq(Seq(C)), l \in Seq(C) : Append(b, l) \in Seq(Seq(C)) /\ Append(b, l) # << >>
      BY Appended
    <3> QED
      BY <2>2, <3>1, <3>2
  <2> QED
    BY <2>4, <2>5
<1> HIDE DEF V, Next1
<1>3. PICK g \in [D -> V] : Computes(g, D, {0}, base, next, op)
  <2>1. rank \in [D -> Nat] /\ \A x \in D : rank[x] <= N
    BY <1>0
  <2>2. \A x \in D : x \in {0} => base[x] \in V
    BY <1>1
  <2>3. \A x \in D : x \notin {0} =>
          next[x] \in D /\ rank[next[x]] < rank[x] /\ \A v \in V : op[x][v] \in V
    BY <1>0, <1>2
  <2> HIDE DEF D, N, rank, base, next, op
  <2> QED
    BY <1>0, <1>1, <2>1, <2>2, <2>3, RecursionExists
<1>4. Fixed(g)
  <2>1. \A n \in D : g[n] = Body(g, n)
    <3> SUFFICES ASSUME NEW n \in D PROVE g[n] = Body(g, n)
      OBVIOUS
    <3>1. CASE n = 0
      BY <1>3, <3>1 DEF Computes
    <3>2. CASE n # 0
      <4>1. n - 1 \in D /\ g[n - 1] \in V /\ next[n] = n - 1
        BY <1>0, <3>2
      <4>2. op[n][g[n - 1]] = Next1(n, g[n - 1])
        BY <4>1
      <4>3. g[n] = op[n][g[next[n]]]
        BY <1>3, <3>2 DEF Computes
      <4> QED
        BY <3>2, <4>1, <4>2, <4>3
    <3> QED
      BY <3>1, <3>2
  <2> HIDE DEF Body, D
  <2> QED
    BY <2>1
<1>5. Fixed(split)
  <2> HIDE DEF Fixed
  <2> QED
    BY <1>4
<1>6. Lines(text) = split[N]
  BY DEF Lines, Next1
<1> HIDE DEF split
<1>7. \A n \in D : split[n] = Body(split, n)
  <2> HIDE DEF Body
  <2> QED
    BY <1>5
<1>8. D \subseteq {n \in D : split[n] \in V}
  <2> DEFINE T == {n \in D : split[n] \in V}
  <2>1. rank \in [D -> Nat]
    BY <1>0
  <2>2. ASSUME NEW x \in D, \A y \in D : rank[y] < rank[x] => y \in T
        PROVE  x \in T
    <3>1. CASE x = 0
      BY <1>1, <1>7, <3>1
    <3>2. CASE x # 0
      <4>1. x - 1 \in D /\ x \in 1..N /\ rank[x - 1] < rank[x]
        BY <1>0, <3>2
      <4>2. split[x - 1] \in V
        BY <2>2, <4>1
      <4> QED
        BY <1>2, <1>7, <3>2, <4>1, <4>2
    <3> QED
      BY <3>1, <3>2
  <2> HIDE DEF T, rank, D
  <2>3. D \subseteq T
    BY <2>1, <2>2, ByRank
  <2> QED
    BY <2>3 DEF T
<1> QED
  BY <1>0, <1>6, <1>8 DEF V

\* What is shown of a text is a text.
LEMMA PageIsAText ==
  ASSUME NEW C, "n" \in C, NEW text \in Seq(C), NEW startLine \in Nat, NEW endLine \in Nat
  PROVE  Page(text, startLine, endLine) \in Seq(C)
<1> DEFINE lines == Lines(text)
           start == IF startLine = 0 THEN 1 ELSE startLine
           end == IF endLine = 0 \/ endLine > Len(lines) THEN Len(lines) ELSE endLine
           D == start..end
           V == Seq(C)
           Next1(k, v) == v \o <<"n">> \o lines[k]
           Body(h, k) == IF k = start THEN lines[k] ELSE Next1(k, h[k - 1])
           Fixed(h) == h = [k \in D |-> Body(h, k)]
           joined == CHOOSE h : Fixed(h)
           rank == [k \in D |-> k]
           next == [k \in D |-> k - 1]
           op == [k \in D |-> [v \in V |-> Next1(k, v)]]
<1>1. lines \in Seq(V)
  BY LinesAreTexts
<1>2. Page(text, startLine, endLine) = IF start > end THEN << >> ELSE joined[end]
  BY DEF Page
<1> HIDE DEF lines, joined
<1>3. Len(lines) \in Nat
  BY <1>1, LenProperties
<1>4. /\ start \in Nat \ {0} /\ end \in Nat /\ end <= Len(lines)
      /\ D \subseteq 1..Len(lines) /\ D \subseteq Nat
      /\ \A k \in D : k # start => k - 1 \in D /\ k - 1 < k
      /\ \A k \in D : k <= end
  BY <1>3
<1> HIDE DEF start, end
<1>5. \A k \in D : lines[k] \in V
  <2> HIDE DEF D, V
  <2> QED
    BY <1>1, <1>4, ElementOfSeq
<1>6. ASSUME NEW k \in D, NEW v \in V PROVE Next1(k, v) \in V
  <2>1. lines[k] \in V
    BY <1>5
  <2>2. <<"n">> \in Seq(C)
    OBVIOUS
  <2> QED
    BY <2>1, <2>2, ConcatProperties
<1> HIDE DEF V, Next1
<1>7. CASE start <= end
  <2>1. PICK g \in [D -> V] : Computes(g, D, {start}, lines, next, op)
    <3>1. rank \in [D -> Nat] /\ \A x \in D : rank[x] <= end
      BY <1>4
    <3>2. \A x \in D : x \in {start} => lines[x] \in V
      BY <1>5
    <3>3. \A x \in D : x \notin {start} =>
            next[x] \in D /\ rank[next[x]] < rank[x] /\ \A v \in V : op[x][v] \in V
      BY <1>4, <1>6
    <3>4. << >> \in V
      BY DEF V
    <3> HIDE DEF D, rank, next, op
    <3> QED
      BY <1>4, <3>1, <3>2, <3>3, <3>4, RecursionExists
  <2>2. Fixed(g)
    <3>1. \A k \in D : g[k] = Body(g, k)
      <4> SUFFICES ASSUME NEW k \in D PROVE g[k] = Body(g, k)
        OBVIOUS
      <4>1. CASE k = start
        BY <2>1, <4>1 DEF Computes
      <4>2. CASE k # start
        <5>1. k - 1 \in D /\ g[k - 1] \in V /\ next[k] = k - 1
          BY <1>4, <4>2
        <5>2. op[k][g[k - 1]] = Next1(k, g[k - 1])
          BY <5>1
        <5>3. g[k] = op[k][g[next[k]]]
          BY <2>1, <4>2 DEF Computes
        <5> QED
          BY <4>2, <5>1, <5>2, <5>3
      <4> QED
        BY <4>1, <4>2
    <3> HIDE DEF Body, D
    <3> QED
      BY <3>1
  <2>3. Fixed(joined)
    <3> HIDE DEF Fixed
    <3> QED
      BY <2>2 DEF joined
  <2>4. \A k \in D : joined[k] = Body(joined, k)
    <3> HIDE DEF Body
    <3> QED
      BY <2>3
  <2> DEFINE T == {k \in D : joined[k] \in V}
  <2>5. rank \in [D -> Nat]
    BY <1>4
  <2>6. ASSUME NEW x \in D, \A y \in D : rank[y] < rank[x] => y \in T
        PROVE  x \in T
    <3>1. CASE x = start
      BY <1>5, <2>4, <3>1
    <3>2. CASE x # start
      <4>1. x - 1 \in D /\ rank[x - 1] < rank[x]
        BY <1>4, <3>2
      <4>2. joined[x - 1] \in V
        BY <2>6, <4>1
      <4> QED
        BY <1>6, <2>4, <3>2, <4>2
    <3> QED
      BY <3>1, <3>2
  <2>7. end \in D
    BY <1>4, <1>7
  <2>8. end \in T
    <3> HIDE DEF T, rank, D
    <3>1. D \subseteq T
      BY <2>5, <2>6, ByRank
    <3> QED
      BY <2>7, <3>1
  <2> QED
    BY <1>2, <1>4, <1>7, <2>8 DEF V
<1>8. CASE ~ (start <= end)
  BY <1>2, <1>4, <1>8 DEF V
<1> QED
  BY <1>7, <1>8

\* A replacement is put in as a text, and as it is when it has no dollar sign.
LEMMA ExpandIsAText ==
  ASSUME NEW C, "$" \in C, NEW with \in Seq(C), NEW before \in Seq(C), NEW target \in Seq(C),
         NEW after \in Seq(C)
  PROVE  /\ Expand(with, before, target, after) \in Seq(C)
         /\ "$" \notin ToSet(with) => Expand(with, before, target, after) = with
<1> DEFINE N == Len(with)
           D == 1..(N + 2)
           V == Seq(C)
           stands(c) == Stands(c, before, target, after)
           Pattern(k) == k < N /\ with[k] = "$" /\ with[k + 1] \in Letters
           Next1(k, v) == IF Pattern(k) THEN stands(with[k + 1]) \o v ELSE <<with[k]>> \o v
           next == [k \in D |-> IF Pattern(k) THEN k + 2 ELSE k + 1]
           Body(h, k) == IF k > N THEN << >>
                         ELSE IF k < N /\ with[k] = "$" /\ with[k + 1] \in Letters
                              THEN stands(with[k + 1]) \o h[k + 2]
                              ELSE <<with[k]>> \o h[k + 1]
           Fixed(h) == h = [k \in D |-> Body(h, k)]
           expanded == CHOOSE h : Fixed(h)
           stop == {k \in D : k > N}
           rank == [k \in D |-> N + 2 - k]
           base == [k \in D |-> << >>]
           op == [k \in D |-> [v \in V |-> Next1(k, v)]]
<1>0. /\ N \in Nat /\ D \subseteq Nat /\ 1 \in D
      /\ \A k \in D : k \notin stop => k \in 1..N /\ k + 1 \in D /\ k + 2 \in D
  BY LenProperties
<1>1. Expand(with, before, target, after) = expanded[1]
  BY DEF Expand
<1>2. \A h : \A k \in D : Body(h, k) = IF k > N THEN << >>
                             ELSE IF Pattern(k) THEN stands(with[k + 1]) \o h[k + 2]
                             ELSE <<with[k]>> \o h[k + 1]
  OBVIOUS
<1>3. \A c \in Letters : stands(c) \in V
  <2>1. \A c \in Letters : stands(c) \in {<<"$">>, target, before, after}
    BY DEF Stands, Letters
  <2>2. <<"$">> \in Seq(C)
    OBVIOUS
  <2> HIDE DEF stands
  <2> QED
    BY <2>1, <2>2
<1> HIDE DEF stands, Body, expanded
<1>4. ASSUME NEW k \in D, k \notin stop, NEW v \in V PROVE Next1(k, v) \in V
  <2>1. with[k] \in C
    BY <1>0, <1>4, ElementOfSeq
  <2>2. <<with[k]>> \in V /\ Pattern(k) => stands(with[k + 1]) \in V
    BY <1>3, <2>1
  <2>3. <<with[k]>> \in V
    BY <2>1
  <2>4. Pattern(k) => stands(with[k + 1]) \in V
    BY <1>3
  <2> HIDE DEF Pattern
  <2> QED
    BY <2>3, <2>4, ConcatProperties
<1>5. \A k \in D : k \notin stop => next[k] \in D /\ rank[next[k]] < rank[k]
  <2> HIDE DEF stop, Pattern
  <2> QED
    BY <1>0
<1>6. \A k \in D : k \notin stop <=> ~ (k > N)
  OBVIOUS
<1>7. rank \in [D -> Nat] /\ \A k \in D : rank[k] <= N + 2
  BY <1>0
<1> HIDE DEF stop, V
<1>8. << >> \in V
  BY DEF V
<1>9. \A h : \A k \in D : Body(h, k) = IF k \in stop THEN << >> ELSE Next1(k, h[next[k]])
  <2> SUFFICES ASSUME NEW h, NEW k \in D
               PROVE  Body(h, k) = IF k \in stop THEN << >> ELSE Next1(k, h[next[k]])
    OBVIOUS
  <2>1. next[k] = IF Pattern(k) THEN k + 2 ELSE k + 1
    OBVIOUS
  <2> HIDE DEF Pattern, next
  <2> QED
    BY <1>2, <1>6, <2>1
<1> HIDE DEF Next1, next, rank, D
<1>10. PICK g \in [D -> V] : Computes(g, D, stop, base, next, op)
  <2>1. \A k \in D : k \in stop => base[k] \in V
    BY <1>8
  <2>2. \A k \in D : k \notin stop =>
          next[k] \in D /\ rank[next[k]] < rank[k] /\ \A v \in V : op[k][v] \in V
    BY <1>4, <1>5
  <2>3. N + 2 \in Nat
    BY <1>0
  <2> HIDE DEF base, op, N
  <2> QED
    BY <1>7, <1>8, <2>1, <2>2, <2>3, RecursionExists
<1>11. Fixed(g)
  <2>1. \A k \in D : g[k] = Body(g, k)
    <3> SUFFICES ASSUME NEW k \in D PROVE g[k] = Body(g, k)
      OBVIOUS
    <3>1. g[k] = IF k \in stop THEN base[k] ELSE op[k][g[next[k]]]
      BY <1>10 DEF Computes
    <3>2. k \notin stop => op[k][g[next[k]]] = Next1(k, g[next[k]])
      BY <1>5, <1>10
    <3> QED
      BY <1>9, <3>1, <3>2
  <2> QED
    BY <2>1
<1>12. \A k \in D : expanded[k] = IF k \in stop THEN << >> ELSE Next1(k, expanded[next[k]])
  <2>1. Fixed(expanded)
    <3> HIDE DEF Fixed
    <3> QED
      BY <1>11 DEF expanded
  <2>2. \A k \in D : expanded[k] = Body(expanded, k)
    BY <2>1
  <2> QED
    BY <1>9, <2>2
<1>13. expanded[1] \in V
  <2> DEFINE T == {k \in D : expanded[k] \in V}
  <2>1. ASSUME NEW k \in D, \A y \in D : rank[y] < rank[k] => y \in T
        PROVE  k \in T
    <3>1. CASE k \in stop
      BY <1>8, <1>12, <3>1
    <3>2. CASE k \notin stop
      <4>1. expanded[next[k]] \in V
        BY <1>5, <2>1, <3>2
      <4> QED
        BY <1>4, <1>12, <3>2, <4>1
    <3> QED
      BY <3>1, <3>2
  <2> HIDE DEF T
  <2>2. D \subseteq T
    BY <1>7, <2>1, ByRank
  <2> QED
    BY <1>0, <2>2 DEF T
<1>14. ASSUME "$" \notin ToSet(with) PROVE expanded[1] = with
  <2>1. \A k \in 1..N : with[k] # "$"
    <3> SUFFICES ASSUME NEW k \in 1..N PROVE with[k] \in ToSet(with)
      BY <1>14
    <3> QED
      BY DEF ToSet
  <2> DEFINE T == {k \in D : expanded[k] = SubSeq(with, k, N)}
  <2>2. ASSUME NEW k \in D, \A y \in D : rank[y] < rank[k] => y \in T
        PROVE  k \in T
    <3>1. CASE k \in stop
      <4>1. k > N /\ k \in Nat
        BY <1>0, <1>6, <3>1
      <4>2. SubSeq(with, k, N) = << >>
        BY <1>0, <4>1, SubSeqEmpty
      <4> QED
        BY <1>12, <3>1, <4>2
    <3>2. CASE k \notin stop
      <4>1. k \in 1..N /\ k + 1 \in D
        BY <1>0, <3>2
      <4>2. ~ Pattern(k)
        BY <2>1, <4>1
      <4>3. next[k] = k + 1
        BY <4>2 DEF next
      <4>4. expanded[k + 1] = SubSeq(with, k + 1, N)
        BY <1>5, <2>2, <3>2, <4>1, <4>3
      <4>5. expanded[k] = <<with[k]>> \o SubSeq(with, k + 1, N)
        BY <1>12, <3>2, <4>2, <4>3, <4>4 DEF Next1
      <4>6. <<with[k]>> \o SubSeq(with, k + 1, N) = SubSeq(with, k, N)
        BY <1>0, <4>1, SubSeqRecursiveFirst
      <4> QED
        BY <4>5, <4>6
    <3> QED
      BY <3>1, <3>2
  <2> HIDE DEF T
  <2>3. D \subseteq T
    BY <1>7, <2>2, ByRank
  <2>4. SubSeq(with, 1, N) = with
    BY SubSeqFull
  <2> QED
    BY <1>0, <2>3, <2>4 DEF T
<1> QED
  BY <1>1, <1>13, <1>14 DEF V

\* A text that is split in two has no second place after the first.
LEMMA OneOccurrence ==
  ASSUME NEW C, NEW text \in Seq(C), NEW target \in Seq(C), target # << >>,
         Places(text, target) # {}, Occurrences(text, target) <= 1
  PROVE  \A k \in Places(text, target) : k < Min(Places(text, target)) + Len(target)
<1> DEFINE N == Len(text)
           L == Len(target)
           D == 1..(N + 1)
           P(x) == {k \in Places(text, target) : k >= x}
           Body(h, x) == IF P(x) = {} THEN 0 ELSE 1 + h[Min(P(x)) + L]
           Fixed(h) == h = [x \in D |-> Body(h, x)]
           count == CHOOSE h : Fixed(h)
           stop == {x \in D : P(x) = {}}
           rank == [x \in D |-> N + 1 - x]
           base == [x \in D |-> 0]
           next == [x \in D |-> Min(P(x)) + L]
           op == [x \in D |-> [v \in Nat |-> 1 + v]]
<1>0. N \in Nat /\ L \in Nat \ {0} /\ D \subseteq Nat /\ 1 \in D
  BY LenProperties, EmptySeq
<1>1. Occurrences(text, target) = count[1]
  BY DEF Occurrences
<1>2. \A k \in Places(text, target) : k \in Nat \ {0} /\ k + L <= N + 1
  BY <1>0 DEF Places
<1> HIDE DEF count, N, L
<1>3. \A x \in D : x \notin stop =>
        /\ Min(P(x)) \in Places(text, target) /\ Min(P(x)) >= x
        /\ Min(P(x)) + L \in D /\ Min(P(x)) + L > x
  <2> SUFFICES ASSUME NEW x \in D, P(x) # {}
               PROVE  /\ Min(P(x)) \in Places(text, target) /\ Min(P(x)) >= x
                      /\ Min(P(x)) + L \in D /\ Min(P(x)) + L > x
    OBVIOUS
  <2>1. P(x) \in SUBSET Nat
    BY <1>2
  <2>2. Min(P(x)) \in P(x)
    <3> HIDE DEF P
    <3> QED
      BY <2>1, LeastOf
  <2> DEFINE m == Min(P(x))
  <2> HIDE DEF m
  <2>3. m \in Places(text, target) /\ m >= x
    BY <2>2 DEF m
  <2>4. m + L \in D /\ m + L > x
    BY <1>0, <1>2, <2>3
  <2> QED
    BY <2>3, <2>4 DEF m
<1>4. \A x \in D : x \in stop <=> P(x) = {}
  OBVIOUS
<1> HIDE DEF P, stop
<1>5. rank \in [D -> Nat] /\ \A x \in D : rank[x] <= N + 1
  BY <1>0
<1>6. \A x \in D : x \notin stop => next[x] \in D /\ rank[next[x]] < rank[x]
  <2> SUFFICES ASSUME NEW x \in D, x \notin stop
               PROVE  next[x] \in D /\ rank[next[x]] < rank[x]
    OBVIOUS
  <2>1. next[x] \in D /\ next[x] > x
    BY <1>3
  <2> HIDE DEF next
  <2> QED
    BY <1>0, <2>1
<1>7. \A x \in D : next[x] = Min(P(x)) + L
  OBVIOUS
<1> HIDE DEF next, rank, D
<1>8. PICK g \in [D -> Nat] : Computes(g, D, stop, base, next, op)
  <2>1. \A x \in D : x \in stop => base[x] \in Nat
    OBVIOUS
  <2>2. \A x \in D : x \notin stop =>
          next[x] \in D /\ rank[next[x]] < rank[x] /\ \A v \in Nat : op[x][v] \in Nat
    BY <1>6
  <2>3. N + 1 \in Nat /\ 0 \in Nat
    BY <1>0
  <2> HIDE DEF base, op
  <2> QED
    BY <1>5, <2>1, <2>2, <2>3, RecursionExists
<1>9. Fixed(g)
  <2>1. \A x \in D : g[x] = Body(g, x)
    <3> SUFFICES ASSUME NEW x \in D PROVE g[x] = Body(g, x)
      OBVIOUS
    <3>1. g[x] = IF x \in stop THEN base[x] ELSE op[x][g[next[x]]]
      BY <1>8 DEF Computes
    <3>2. x \notin stop => op[x][g[next[x]]] = 1 + g[next[x]]
      BY <1>6, <1>8
    <3> QED
      BY <1>4, <1>7, <3>1, <3>2
  <2> QED
    BY <2>1
<1>10. \A x \in D : count[x] = Body(count, x)
  <2>1. Fixed(count)
    <3> HIDE DEF Fixed
    <3> QED
      BY <1>9 DEF count
  <2> HIDE DEF Body
  <2> QED
    BY <2>1
<1>11. \A x \in D : count[x] \in Nat
  <2> DEFINE T == {x \in D : count[x] \in Nat}
  <2>1. ASSUME NEW x \in D, \A y \in D : rank[y] < rank[x] => y \in T
        PROVE  x \in T
    <3>1. CASE x \in stop
      BY <1>4, <1>10, <3>1
    <3>2. CASE x \notin stop
      <4>1. count[next[x]] \in Nat
        BY <1>6, <2>1, <3>2
      <4> QED
        BY <1>4, <1>7, <1>10, <3>2, <4>1
    <3> QED
      BY <3>1, <3>2
  <2> HIDE DEF T
  <2>2. D \subseteq T
    BY <1>5, <2>1, ByRank
  <2> QED
    BY <2>2 DEF T
<1> DEFINE m == Min(Places(text, target))
<1>12. P(1) = Places(text, target)
  BY <1>2 DEF P
<1>13. m + L \in D /\ 1 \notin stop
  BY <1>0, <1>3, <1>4, <1>12
<1>14. count[1] = 1 + count[m + L]
  BY <1>0, <1>4, <1>10, <1>12, <1>13
<1>15. ASSUME NEW k \in Places(text, target), ~ (k < m + L) PROVE FALSE
  <2>1. P(m + L) # {}
    <3>1. k >= m + L
      <4>1. m + L \in Nat /\ k \in Nat
        BY <1>0, <1>2, <1>13 DEF D
      <4> HIDE DEF m
      <4> QED
        BY <1>15, <4>1
    <3> QED
      BY <3>1 DEF P
  <2>2. count[m + L] = 1 + count[next[m + L]] /\ next[m + L] \in D
    BY <1>4, <1>6, <1>7, <1>10, <1>13, <2>1
  <2>3. count[next[m + L]] \in Nat /\ count[1] <= 1
    BY <1>1, <1>11, <2>2
  <2> HIDE DEF m
  <2> QED
    BY <1>14, <2>2, <2>3
<1> QED
  BY <1>15 DEF L

\* The characters of the texts.
Chars == {"n", "$"} \cup UNION {ToSet(t) : t \in Written \cup Targets \cup Replacements}

\* The texts of the model are sequences of them.
LEMMA TextsHaveChars ==
  /\ \A t \in Written \cup Targets \cup Replacements : t \in Seq(Chars)
  /\ "n" \in Chars /\ "$" \in Chars
<1>0. "n" \in Chars /\ "$" \in Chars
  BY DEF Chars
<1> SUFFICES ASSUME NEW t \in Written \cup Targets \cup Replacements PROVE t \in Seq(Chars)
  BY <1>0
<1>1. t \in Seq(ToSet(t))
  BY FilesAssumption
<1>2. ToSet(t) \subseteq Chars
  BY DEF Chars
<1> HIDE DEF Chars
<1> QED
  BY <1>1, <1>2, SeqMonotonic

\* The first place, and what is before and after it.
LEMMA FirstPlace ==
  ASSUME NEW C, NEW text \in Seq(C), NEW target \in Seq(C), Places(text, target) # {}
  PROVE  LET k == Min(Places(text, target))
             before == SubSeq(text, 1, k - 1)
             after == SubSeq(text, k + Len(target), Len(text))
         IN  /\ k \in Places(text, target) /\ \A j \in Places(text, target) : k <= j
             /\ k \in Nat \ {0} /\ k + Len(target) <= Len(text) + 1
             /\ before \in Seq(C) /\ Len(before) = k - 1
             /\ after \in Seq(C) /\ Len(after) = Len(text) + 1 - (k + Len(target))
<1> DEFINE k == Min(Places(text, target))
           N == Len(text)
           L == Len(target)
           before == SubSeq(text, 1, k - 1)
           after == SubSeq(text, k + L, N)
<1>0. N \in Nat /\ L \in Nat
  BY LenProperties
<1>1. \A j \in Places(text, target) : j \in Nat \ {0} /\ j + L <= N + 1
  BY <1>0 DEF Places
<1>2. k \in Places(text, target) /\ \A j \in Places(text, target) : k <= j
  BY <1>1, LeastOf
<1> HIDE DEF k
<1>3. k \in Nat \ {0} /\ k + L <= N + 1
  BY <1>1, <1>2
<1>4. \A i \in 1..N : text[i] \in C
  BY ElementOfSeq
<1>5. before \in Seq(C) /\ Len(before) = k - 1
  <2>1. 1 \in Int /\ k - 1 \in Int /\ \A i \in 1..(k - 1) : text[i] \in C
    BY <1>0, <1>3, <1>4
  <2>2. before \in Seq(C) /\ Len(before) = IF 1 <= k - 1 THEN k - 1 - 1 + 1 ELSE 0
    BY <2>1, SubSeqProperties
  <2> HIDE DEF before
  <2> QED
    BY <1>3, <2>2
<1>6. after \in Seq(C) /\ Len(after) = N + 1 - (k + L)
  <2>1. k + L \in Int /\ N \in Int /\ \A i \in (k + L)..N : text[i] \in C
    BY <1>0, <1>3, <1>4
  <2>2. after \in Seq(C) /\ Len(after) = IF k + L <= N THEN N - (k + L) + 1 ELSE 0
    BY <2>1, SubSeqProperties
  <2> HIDE DEF after
  <2> QED
    BY <1>0, <1>3, <2>2
<1> QED
  BY <1>2, <1>3, <1>5, <1>6 DEF k

\* An edit of a text is a text.
LEMMA ReplaceIsAText ==
  ASSUME NEW C, "$" \in C, NEW text \in Seq(C), NEW target \in Seq(C), NEW with \in Seq(C),
         Places(text, target) # {}
  PROVE  Replace(text, target, with) \in Seq(C)
<1> DEFINE k == Min(Places(text, target))
           before == SubSeq(text, 1, k - 1)
           after == SubSeq(text, k + Len(target), Len(text))
<1>1. before \in Seq(C) /\ after \in Seq(C)
  BY FirstPlace
<1>2. Replace(text, target, with) = before \o Expand(with, before, target, after) \o after
  BY DEF Replace
<1> HIDE DEF before, after
<1>3. Expand(with, before, target, after) \in Seq(C)
  BY <1>1, ExpandIsAText
<1> QED
  BY <1>1, <1>2, <1>3, ConcatProperties

\* The stretches of s and t of length l, from x and from y, have the same characters.
Agree(s, x, t, y, l, C) == \A i \in 1..l : s[x + i - 1] \in C /\ s[x + i - 1] = t[y + i - 1]

\* Two stretches of the same length and characters are the same.
LEMMA SameStretch ==
  ASSUME NEW C, NEW s, NEW t, NEW x \in Int, NEW y \in Int, NEW l \in Nat,
         Agree(s, x, t, y, l, C)
  PROVE  SubSeq(s, x, x + l - 1) = SubSeq(t, y, y + l - 1)
<1> DEFINE a == SubSeq(s, x, x + l - 1)
           b == SubSeq(t, y, y + l - 1)
<1>1. /\ \A i \in x..(x + l - 1) : s[i] \in C
      /\ \A i \in y..(y + l - 1) : t[i] \in C
  <2>1. \A i \in x..(x + l - 1) : i - x + 1 \in 1..l /\ x + (i - x + 1) - 1 = i
    OBVIOUS
  <2>2. \A i \in y..(y + l - 1) : i - y + 1 \in 1..l /\ y + (i - y + 1) - 1 = i
    OBVIOUS
  <2> QED
    BY <2>1, <2>2 DEF Agree
<1>2. x + l - 1 \in Int /\ y + l - 1 \in Int
  OBVIOUS
<1>3. /\ a \in Seq(C) /\ Len(a) = l
      /\ \A i \in 1..l : a[i] = s[x + i - 1]
  <2>1. /\ a \in Seq(C)
        /\ Len(a) = IF x <= x + l - 1 THEN x + l - 1 - x + 1 ELSE 0
        /\ \A i \in 1..(x + l - 1 - x + 1) : a[i] = s[x + i - 1]
    BY <1>1, <1>2, SubSeqProperties
  <2> HIDE DEF a
  <2> QED
    BY <2>1
<1>4. /\ b \in Seq(C) /\ Len(b) = l
      /\ \A i \in 1..l : b[i] = t[y + i - 1]
  <2>1. /\ b \in Seq(C)
        /\ Len(b) = IF y <= y + l - 1 THEN y + l - 1 - y + 1 ELSE 0
        /\ \A i \in 1..(y + l - 1 - y + 1) : b[i] = t[y + i - 1]
    BY <1>1, <1>2, SubSeqProperties
  <2> HIDE DEF b
  <2> QED
    BY <2>1
<1> HIDE DEF a, b
<1>5. a = b
  BY <1>3, <1>4, SeqEqual DEF Agree
<1> QED
  BY <1>5 DEF a, b

\* now is was with the new text in the place of the old one, which is nowhere else.
Exact(was, target, with, now) ==
  \E k \in Places(was, target) :
    LET before == SubSeq(was, 1, k - 1)
        after == SubSeq(was, k + Len(target), Len(was))
    IN  /\ now = before \o with \o after
        /\ Places(before, target) \cup Places(after, target) = {}

\* An edit of the only place is exact.
LEMMA ReplaceIsExact ==
  ASSUME NEW C, "$" \in C, NEW text \in Seq(C), NEW target \in Seq(C), NEW with \in Seq(C),
         Places(text, target) # {}, Occurrences(text, target) <= 1,
         target # << >>, "$" \notin ToSet(with)
  PROVE  Exact(text, target, with, Replace(text, target, with))
<1> DEFINE k == Min(Places(text, target))
           N == Len(text)
           L == Len(target)
           before == SubSeq(text, 1, k - 1)
           after == SubSeq(text, k + L, N)
<1>0. N \in Nat /\ L \in Nat \ {0}
  BY LenProperties, EmptySeq
<1>1. /\ k \in Places(text, target) /\ \A j \in Places(text, target) : k <= j
      /\ k \in Nat \ {0} /\ k + L <= N + 1
      /\ before \in Seq(C) /\ Len(before) = k - 1
      /\ after \in Seq(C) /\ Len(after) = N + 1 - (k + L)
  BY FirstPlace
<1>2. Replace(text, target, with) = before \o Expand(with, before, target, after) \o after
  BY DEF Replace
<1>3. \A j \in Places(text, target) : j < k + L
  BY OneOccurrence
<1> HIDE DEF k
<1>4. ASSUME NEW j \in Places(before, target) PROVE FALSE
  <2>1. j \in 1..(k - L) /\ SubSeq(before, j, j + L - 1) = target
    BY <1>1, <1>4 DEF Places
  <2>2. j \in 1..(k - 1) /\ j + L - 1 \in 1..(k - 1) /\ j \in 1..(N + 1 - L) /\ j < k
    BY <1>0, <1>1, <2>1
  <2>3. SubSeq(before, j, j + L - 1) = SubSeq(text, j, j + L - 1)
    <3>1. \A i \in 1..L : j + i - 1 \in 1..(k - 1)
      BY <1>0, <1>1, <2>2
    <3>2. \A i \in 1..(k - 1) : before[i] \in C /\ before[i] = text[i]
      <4>1. \A i \in 1..(k - 1) : before[i] = text[i]
        BY <1>1
      <4> HIDE DEF before
      <4> QED
        BY <1>1, <4>1, ElementOfSeq
    <3> HIDE DEF before, L
    <3>3. Agree(before, j, text, j, L, C)
      BY <3>1, <3>2 DEF Agree
    <3>4. j \in Int /\ L \in Nat
      BY <1>0, <2>2
    <3> QED
      BY <3>3, <3>4, SameStretch
  <2>4. j \in Places(text, target)
    BY <2>1, <2>2, <2>3 DEF Places
  <2> QED
    BY <1>1, <2>2, <2>4
<1>5. ASSUME NEW j \in Places(after, target) PROVE FALSE
  <2> DEFINE p == k + L + j - 1
  <2>1. j \in 1..(N + 1 - (k + L) + 1 - L) /\ SubSeq(after, j, j + L - 1) = target
    BY <1>1, <1>5 DEF Places
  <2>2. p \in 1..(N + 1 - L) /\ ~ (p < k + L) /\ j \in Nat \ {0} /\ p + L - 1 <= N
    BY <1>0, <1>1, <2>1
  <2>3. SubSeq(after, j, j + L - 1) = SubSeq(text, p, p + L - 1)
    <3>1. \A i \in 1..L : /\ j + i - 1 \in 1..(N + 1 - (k + L))
                           /\ k + L + (j + i - 1) - 1 = p + i - 1
      BY <1>0, <1>1, <2>1, <2>2
    <3>2. \A i \in 1..(N + 1 - (k + L)) : after[i] \in C /\ after[i] = text[k + L + i - 1]
      <4>1. \A i \in 1..(N + 1 - (k + L)) : after[i] = text[k + L + i - 1]
        BY <1>0, <1>1
      <4> HIDE DEF after
      <4> QED
        BY <1>1, <4>1, ElementOfSeq
    <3> HIDE DEF after
    <3>3. Agree(after, j, text, p, L, C)
      <4> HIDE DEF p
      <4> QED
        BY <3>1, <3>2 DEF Agree
    <3>4. j \in Int /\ p \in Int /\ L \in Nat
      BY <1>0, <2>2
    <3> HIDE DEF L, N, p
    <3> QED
      BY <3>3, <3>4, SameStretch
  <2> HIDE DEF p
  <2>4. p \in Places(text, target)
    BY <2>1, <2>2, <2>3 DEF Places
  <2> QED
    BY <1>3, <2>2, <2>4
<1>6. Expand(with, before, target, after) = with
  <2> HIDE DEF before, after
  <2> QED
    BY <1>1, ExpandIsAText
<1> QED
  BY <1>1, <1>2, <1>4, <1>5, <1>6 DEF Exact

-----------------------------------------------------------------------------
(* The catalogue of skills, and the tools of files together.               *)

\* The files among in that have the name n.
FilesNamed(in, n) == {s \in DOMAIN Spots : There(in[s]) /\ NameOf(s, in[s]) = n}

\* The cache has the names that the last scan saw, and the last file of each.
CacheFollows ==
  /\ \A n : n \in DOMAIN cache <=> FilesNamed(scanned, n) # {}
  /\ \A n \in DOMAIN cache : cache[n].file = scanned[Max(FilesNamed(scanned, n))]

\* What a scan finds is what the files hold.
LEMMA ScanFollows ==
  ASSUME Rescan
  PROVE  CacheFollows'
<1> DEFINE found == {s \in DOMAIN Spots : There(skills[s])}
           named(n) == {s \in found : NameOf(s, skills[s]) = n}
           names == {NameOf(s, skills[s]) : s \in found}
<1>1. scanned' = skills /\ cache' = Scan
  BY DEF Rescan
<1>2. \A n : named(n) = FilesNamed(skills, n)
  BY DEF FilesNamed
<1>3. cache' = [n \in names |-> [spot |-> Max(named(n)), file |-> skills[Max(named(n))]]]
  BY <1>1 DEF Scan
<1>4. \A n : n \in names <=> named(n) # {}
  OBVIOUS
<1> HIDE DEF names, named
<1>5. DOMAIN cache' = names /\ \A n \in names : cache'[n].file = skills[Max(named(n))]
  BY <1>3
<1>6. \A n : FilesNamed(scanned, n)' = FilesNamed(skills, n)
  BY <1>1 DEF FilesNamed
<1>7. \A n : n \in DOMAIN cache' <=> FilesNamed(skills, n) # {}
  BY <1>2, <1>4, <1>5
<1>8. \A n \in DOMAIN cache' : cache'[n].file = skills[Max(FilesNamed(skills, n))]
  BY <1>2, <1>5
<1> QED
  BY <1>1, <1>7, <1>8 DEF CacheFollows, FilesNamed

\* The cache follows the scan, and what was loaded is true.
SkillInv == CacheFollows /\ SkillsFound

\* Nothing was scanned yet.
LEMMA SkillsInitially == SkillInit => SkillInv
<1> SUFFICES ASSUME SkillInit PROVE SkillInv
  OBVIOUS
<1>1. DOMAIN cache = {}
  BY DEF SkillInit
<1>2. \A n : FilesNamed(scanned, n) = {}
  BY DEF SkillInit, FilesNamed, There
<1> QED
  BY <1>1, <1>2 DEF SkillInit, SkillInv, CacheFollows, SkillsFound

\* skill.load keeps SkillInv.
LEMMA LoadIsTrue ==
  ASSUME NEW n, CacheFollows, LoadSkill(n)
  PROVE  SkillInv'
<1>1. skills' = skills /\ loaded' = Answer(n)
  BY DEF LoadSkill
<1>2. CacheFollows'
  <2>1. CASE Rescan
    BY <2>1, ScanFollows
  <2>2. CASE UNCHANGED <<cache, scanned>>
    BY <2>2 DEF CacheFollows, FilesNamed
  <2> QED
    BY <2>1, <2>2 DEF LoadSkill
<1>3. \A in : {s \in DOMAIN Spots : There(in[s]) /\ NameOf(s, in[s]) = n} = FilesNamed(in, n)
  BY DEF FilesNamed
<1>4. CASE n \in DOMAIN cache' \ Numeric
  <2>1. loaded'.name = n /\ "answer" \in DOMAIN loaded' /\ loaded'.answer = cache'[n]
    BY <1>1, <1>4 DEF Answer
  <2>2. FilesNamed(scanned', n) # {} /\ cache'[n].file = scanned'[Max(FilesNamed(scanned', n))]
    BY <1>2, <1>4 DEF CacheFollows, FilesNamed
  <2> QED
    BY <1>2, <2>1, <2>2 DEF SkillInv, SkillsFound, FilesNamed
<1>5. CASE n \notin DOMAIN cache' \ Numeric
  <2>1. loaded'.name = n /\ "answer" \notin DOMAIN loaded'
    BY <1>1, <1>5 DEF Answer
  <2>2. FilesNamed(skills', n) = {} \/ n \in Numeric
    <3>1. Rescan
      BY <1>5 DEF LoadSkill
    <3> QED
      BY <1>1, <1>2, <1>5, <3>1 DEF CacheFollows, Rescan, FilesNamed
  <2> QED
    BY <1>2, <2>1, <2>2 DEF SkillInv, SkillsFound, FilesNamed
<1> QED
  BY <1>4, <1>5

\* So does every step.
LEMMA SkillsStep == SkillInv /\ [FSNext \/ SkillNext]_<<fsVars, skillVars>> => SkillInv'
<1> SUFFICES ASSUME SkillInv, [FSNext \/ SkillNext]_<<fsVars, skillVars>> PROVE SkillInv'
  OBVIOUS
<1>1. CASE UNCHANGED skillVars
  BY <1>1 DEF SkillInv, skillVars, CacheFollows, FilesNamed, SkillsFound
<1>2. CASE loaded' = << >> /\ UNCHANGED <<cache, scanned>>
  BY <1>2 DEF SkillInv, CacheFollows, FilesNamed, SkillsFound
<1>3. CASE ListSkills
  <2>1. CacheFollows' /\ loaded' = << >>
    BY <1>3, ScanFollows DEF ListSkills
  <2> QED
    BY <2>1 DEF SkillInv, SkillsFound
<1>4. CASE \E n : LoadSkill(n)
  BY <1>4, LoadIsTrue DEF SkillInv
<1>5. CASE FSNext
  BY <1>1, <1>5 DEF FSNext, ReadFile, WriteFile, EditFile
<1>6. CASE SkillNext
  BY <1>2, <1>3, <1>4, <1>6 DEF SkillNext, SkillRemoved, SkillWritten
<1> QED
  BY <1>1, <1>5, <1>6


\* The file and the page are texts, and the last edit was exact.
EditInv == content \in Seq(Chars) /\ page \in Seq(Chars) /\ EditIsExact

\* There is no file yet.
LEMMA EditsInitially == FSInit => EditInv
BY DEF FSInit, EditInv, EditIsExact

\* fs.edit_file keeps EditInv.
LEMMA EditIsTrue ==
  ASSUME EditInv, NEW with \in Replacements, NEW target \in Targets \cup {page},
         EditFile(target, with)
  PROVE  EditInv'
<1>1. content \in Seq(Chars) /\ with \in Seq(Chars) /\ target \in Seq(Chars) /\ "$" \in Chars
  BY TextsHaveChars DEF EditInv
<1>2. /\ Places(content, target) # {} /\ Occurrences(content, target) <= 1
      /\ content' = Replace(content, target, with) /\ page' = page
      /\ edited' = [was |-> content, target |-> target, with |-> with, now |-> content']
  BY DEF EditFile
<1>3. content' \in Seq(Chars)
  BY <1>1, <1>2, ReplaceIsAText
<1>4. EditIsExact'
  <2> SUFFICES ASSUME target # << >>, "$" \notin ToSet(with)
               PROVE  Exact(content, target, with, content')
    BY <1>2 DEF EditIsExact, Exact
  <2> QED
    BY <1>1, <1>2, ReplaceIsExact
<1> QED
  BY <1>2, <1>3, <1>4 DEF EditInv

\* So does every step.
LEMMA EditsStep == EditInv /\ [FSNext \/ SkillNext]_<<fsVars, skillVars>> => EditInv'
<1> SUFFICES ASSUME EditInv, [FSNext \/ SkillNext]_<<fsVars, skillVars>> PROVE EditInv'
  OBVIOUS
<1>1. CASE UNCHANGED fsVars
  BY <1>1 DEF EditInv, fsVars, EditIsExact
<1>2. ASSUME NEW from \in 0..2, NEW to \in 0..2, ReadFile(from, to) PROVE EditInv'
  <2>1. content' = content /\ page' = Page(content, from, to) /\ edited' = << >>
    BY <1>2 DEF ReadFile
  <2>2. page' \in Seq(Chars)
    <3>1. from \in Nat /\ to \in Nat /\ content \in Seq(Chars) /\ "n" \in Chars
      BY TextsHaveChars DEF EditInv
    <3> QED
      BY <2>1, <3>1, PageIsAText
  <2> QED
    BY <2>1, <2>2 DEF EditInv, EditIsExact
<1>3. ASSUME NEW text \in Written, NEW overwrite, WriteFile(text, overwrite) PROVE EditInv'
  <2>1. content' = text /\ page' = page /\ edited' = << >>
    BY <1>3 DEF WriteFile
  <2>2. text \in Seq(Chars)
    BY TextsHaveChars
  <2> QED
    BY <2>1, <2>2 DEF EditInv, EditIsExact
<1>4. CASE FSNext
  BY <1>2, <1>3, <1>4, EditIsTrue DEF FSNext
<1>5. CASE SkillNext
  BY <1>1, <1>5 DEF SkillNext, SkillRemoved, SkillWritten, ListSkills, LoadSkill
<1> QED
  BY <1>1, <1>4, <1>5

\* FilesAnswerTruly: an accepted edit is exact, and a skill that is loaded or not found is
\* so in the files (fs.edit_file of fs_plugin.ts, getSkill of skill_plugin.ts).
THEOREM FilesAreTrue == FilesSpec => []FilesAnswerTruly
<1> DEFINE FilesInv == EditInv /\ SkillInv
<1>1. FSInit /\ SkillInit => FilesInv
  BY EditsInitially, SkillsInitially
<1>2. FilesInv /\ [FSNext \/ SkillNext]_<<fsVars, skillVars>> => FilesInv'
  BY EditsStep, SkillsStep
<1>3. FilesInv => FilesAnswerTruly
  BY DEF EditInv, SkillInv, FilesAnswerTruly
<1> QED
  BY <1>1, <1>2, <1>3, PTL DEF FilesSpec
=============================================================================
