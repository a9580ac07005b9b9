------------------------------ MODULE WasmAgents ------------------------------
(***************************************************************************)
(* The runtime of the micro-agents                                         *)
(* (src_local/utils/ai/wasm_micro_agent_runtime.ts).                       *)
(*                                                                         *)
(* A step goes from one await to the next. Where the binary of an agent is *)
(* there it is compiled and instantiated, and a failure of it is passed    *)
(* over: the answer comes from the emulation in either case. A payload is  *)
(* the set of what its agent looks for in it, one word standing for those  *)
(* that are treated alike, or an object that has a number where a text is  *)
(* expected.                                                               *)
(***************************************************************************)
EXTENDS Naturals, FiniteSets

CONSTANTS
  Executions,   \* calls of execute
  Binaries,     \* agents whose binary is in bin/wasm or src_native/wasm_agents
  Limits,       \* maxWasmMicroAgents of the modes
  MaxPurges     \* bound

ASSUME WasmAssumption == Limits \subseteq Nat \ {0} /\ MaxPurges \in Nat

VARIABLES
  maxAgents,    \* maxWasmMicroAgents of the budget's mode
  active,       \* activeExecutions
  execution,    \* each call: [state, agent, payload, result]
  purges

wasmVars == <<maxAgents, active, execution, purges>>

-----------------------------------------------------------------------------
\* registerDefaultAgents: the agents, and the memory in KB each is said to take.
agents ==
  [audit |-> 600, security |-> 800, git |-> 1024, telemetry |-> 300, database |-> 700,
   linter |-> 900]

\* What an agent may meet in its payload.
MarksOf(agent) ==
  CASE agent = "audit" -> {"except:", "catch (", "{}", "TODO"}
    [] agent = "security" -> {"eval", "entropy"}
    [] agent = "git" -> {"semantic", "merge begin", "merge middle", "merge end"}
    [] agent = "database" -> {"DELETE FROM", "WHERE", "DROP TABLE"}
    [] agent = "linter" -> {"console.log(", "var "}
    [] OTHER -> {}

Odd == {"number"}

auditLogic(code) ==
  (IF "except:" \in code \/ {"catch (", "{}"} \subseteq code
   THEN {"silent exception handling detected"} ELSE {})
  \cup (IF "TODO" \in code THEN {"TODO placeholder left in code"} ELSE {})

securityLogic(code) ==
  (IF "eval" \in code THEN {"eval/exec usage"} ELSE {})
  \cup (IF "entropy" \in code THEN {"high entropy string detected"} ELSE {})

gitLogic(payload) ==
  (IF "semantic" \notin payload THEN {"not validSemanticMessage"} ELSE {})
  \cup (IF {"merge begin", "merge middle", "merge end"} \subseteq payload THEN {"hasMergeConflicts"} ELSE {})

databaseLogic(sql) ==
  (IF "DELETE FROM" \in sql /\ "WHERE" \notin sql
   THEN {"SQL statement missing mandatory WHERE clause."} ELSE {})
  \cup (IF "DROP TABLE" \in sql THEN {"Destructive DDL statement detected in payload."} ELSE {})

linterLogic(code) ==
  (IF "console.log(" \in code THEN {"no-console-print"} ELSE {})
  \cup (IF "var " \in code THEN {"no-var"} ELSE {})

runEmulatedWasmLogic(agent, payload) ==
  CASE agent = "audit" -> auditLogic(payload)
    [] agent = "security" -> securityLogic(payload)
    [] agent = "git" -> gitLogic(payload)
    [] agent = "telemetry" -> {}
    [] agent = "database" -> databaseLogic(payload)
    [] agent = "linter" -> linterLogic(payload)

-----------------------------------------------------------------------------
NotCalled == [state |-> "none", agent |-> "none", payload |-> {}, result |-> {}]

WasmInit ==
  /\ maxAgents \in Limits
  /\ active = 0
  /\ execution = [x \in Executions |-> NotCalled]
  /\ purges = 0

\* A number has none of the methods of a text. Telemetry reads no payload.
Throws(agent, payload) == payload = Odd /\ agent # "telemetry"

\* The end of the try.
\* Faulty: only a success gives its place back.
ReleasedBySuccess(count, threw) == IF threw THEN count ELSE count - 1

Released(count, threw) == count - 1

\* From the last await to the answer. An execution that found no place would wait.
Finish(x, agent, payload) ==
  LET threw == Throws(agent, payload)
      answer == IF threw THEN [state |-> "failed", agent |-> agent, payload |-> payload, result |-> {}]
                ELSE [state |-> "answered", agent |-> agent, payload |-> payload,
                      result |-> runEmulatedWasmLogic(agent, payload)]
  IN  IF active >= maxAgents
      THEN /\ execution' = [execution EXCEPT ![x].state = "waiting"]
           /\ UNCHANGED active
      ELSE /\ execution' = [execution EXCEPT ![x] = answer]
           /\ active' = Released(active + 1, threw)

execute(x, agent, payload) ==
  /\ execution[x].state = "none"
  /\ \/ /\ agent \notin DOMAIN agents
        /\ execution' = [execution EXCEPT ![x] = [@ EXCEPT !.state = "unregistered"]]
        /\ UNCHANGED active
     \/ /\ agent \in DOMAIN agents \cap Binaries
        /\ execution' = [execution EXCEPT ![x] =
                           [state |-> "compiling", agent |-> agent, payload |-> payload, result |-> {}]]
        /\ UNCHANGED active
     \/ /\ agent \in DOMAIN agents \ Binaries
        /\ Finish(x, agent, payload)
  /\ UNCHANGED <<maxAgents, purges>>

Compiled(x) ==
  /\ execution[x].state = "compiling"
  /\ execution' = [execution EXCEPT ![x].state = "instantiating"]
  /\ UNCHANGED <<maxAgents, active, purges>>

\* A binary that does not compile, or one that was instantiated, or not.
Emulate(x) ==
  /\ execution[x].state \in {"compiling", "instantiating"}
  /\ Finish(x, execution[x].agent, execution[x].payload)
  /\ UNCHANGED <<maxAgents, purges>>

purgeAll ==
  /\ purges < MaxPurges
  /\ purges' = purges + 1
  /\ active' = 0
  /\ UNCHANGED <<maxAgents, execution>>

\* The budget changes its mode.
SetLimit ==
  /\ maxAgents' \in Limits
  /\ UNCHANGED <<active, execution, purges>>

WasmNext ==
  \/ \E x \in Executions :
       \/ \E agent \in DOMAIN agents \cup {"other"} :
            \E payload \in (SUBSET MarksOf(agent)) \cup {Odd} : execute(x, agent, payload)
       \/ Compiled(x) \/ Emulate(x)
  \/ purgeAll \/ SetLimit

WasmSpec == WasmInit /\ [][WasmNext]_wasmVars

-----------------------------------------------------------------------------
\* Nobody waits for a place, under the smallest limit and across purges: an
\* execution has its place only within one step, so that none is lost by a
\* failure or counted twice by a purge, and the wait is never entered.
NobodyWaits == active = 0 /\ \A x \in Executions : execution[x].state # "waiting"

\* What an agent finds in a payload it finds in every larger one, except that a
\* WHERE anywhere excuses the statements without one, and a commit message may
\* become semantic.
MoreCodeHidesNothing ==
  \A x \in Executions : execution[x].state = "answered" =>
    LET agent == execution[x].agent
        payload == execution[x].payload
        excused == CASE agent = "database" /\ "WHERE" \in payload ->
                          {"SQL statement missing mandatory WHERE clause."}
                     [] agent = "git" -> {"not validSemanticMessage"}
                     [] OTHER -> {}
    IN  \A part \in SUBSET payload :
          runEmulatedWasmLogic(agent, part) \subseteq execution[x].result \cup excused

\* Every execution is answered, and by no less than its payload's parts deserve.
AgentsAnswer == NobodyWaits /\ MoreCodeHidesNothing
=============================================================================
