---------------------------- MODULE MCStandalone ----------------------------
(***************************************************************************)
(* One model for the components that share no state with another: the      *)
(* messages of the hub, the health score, the test engine, the repairs,    *)
(* the tools, the analyzer's cache, the resource budget, the micro-agents, *)
(* the validation, the kernel's events and the coverage report.  A         *)
(* behavior is one of a single component, while the variables of the       *)
(* others keep a value they may start with.                                *)
(***************************************************************************)
EXTENDS HubWire, HealthScore, TestFactory, AutoHeal, ToolProcesses, ToolFiles,
        AnalyzerCache, ResourceBudget, WasmAgents, Reports, PsaEvents

VARIABLE part   \* the component that runs

allVars == <<part, wireVars, scoreVars, factoryVars, healVars, toolVars, fsVars, skillVars,
             cacheVars, budgetVars, wasmVars, validVars, eventVars, coverageVars>>

\* Up to seven high alerts: the last ceiling of the engine is passed at the fifth,
\* its total reaches 0 at the seventh.
Alerts == [HIGH |-> 7, MEDIUM |-> 6, LOW |-> 1, none |-> 1]

\* Two files import each other and are imported by three: both are hubs, tied for
\* the most importers.
ImportOrder == <<"a", "b", "c", "d", "e">>
ImportsOf == [f \in ToSet(ImportOrder) |-> CASE f = "a" -> <<"b">> [] f = "b" -> <<"a">>
                                      [] OTHER -> <<"a", "b">>]
BranchesOf == [f \in ToSet(ImportOrder) |-> CASE f = "a" -> 8 [] f = "b" -> Unanalysed [] OTHER -> 0]
Undocumented == <<"c">>

Plain(asserts) ==
  [asserts |-> asserts, trivial |-> "no", imports |-> TRUE, blocks |-> TRUE, mocks |-> FALSE,
   edges |-> FALSE, async |-> FALSE, size |-> "full", green |-> TRUE, coverage |-> "unknown",
   error |-> FALSE]

\* As few assertions as the gate of any layer lets through; enough for any file here;
\* enough, and failing; three with edge cases, covering little; trivial, of nothing.
Texts5 == {Plain(2), Plain(5), [Plain(6) EXCEPT !.green = FALSE],
           [Plain(3) EXCEPT !.edges = TRUE, !.coverage = "low"],
           [Plain(6) EXCEPT !.imports = FALSE, !.trivial = "toBe"]}

\* Enough for a stream cut twice; the second shell needs no more than a sign of life.
Output4 == [p \in {"c1", "t1", "t2"} |-> CASE p = "c1" -> 4 [] p = "t1" -> 2 [] p = "t2" -> 1]

\* Texts of lines and of overlapping places, and a line that ends in CRLF.
Written5 == BoundedSeq({"x", "n"}, 3) \cup {<<"x", "y", "x">>, <<"y", "x">>, <<"x", "r", "n", "x">>}
Targets2 == BoundedSeq({"x", "y"}, 2)
Put == {<< >>, <<"y">>, <<"x", "x">>, <<"$", "$">>, <<"$", "&">>, <<"$", "'">>}

\* Two files of one name in two directories, and another.
Entries == <<"a", "a", "b">>

\* The budget's steps are those of one machine.
Desktop == [cores |-> 6, bigRam |-> TRUE, tightRam |-> FALSE]
Idle == [ram |-> 5, cpu |-> 5]

\* No finding, one kind, a file found twice, and nine: one more is a full run.
Found7 == {<< >>, <<"t">>, <<"t", "l">>, <<"z", "t">>, <<"z", "z">>, [i \in 1..9 |-> "m"],
           [i \in 1..9 |-> "l"]}
Watched2 == {<< >>, <<"l", "z">>}

\* The report is met before most of the files; two paths are evidence themselves.
Tree == <<"package.json", "build.zig", "report", "a.zig", "b", "c", "d", "e">>
InPath == [f \in ToSet(Tree) |-> CASE f \in {"build.zig", "a.zig"} -> {".zig"}
                                   [] f = "e" -> {"hub.exe"} [] OTHER -> {}]
Empty0 == [f \in ToSet(Tree) |-> Missing]
Projects2 == {Empty0, [f \in ToSet(Tree) |->
               CASE f = "report" -> Missing [] f = "package.json" -> {"typescript", "ui"}
                 [] f = "build.zig" -> {"libzig_analyzer"}
                 [] OTHER -> {"WASI", "PatternFinder", "DatabaseHub"}]}
Words3 == {{}, {"MicroGPT", "LocalSLMEngine"}, {"Bun.serve", "wasm", "@grpc/grpc-js"}}

\* Of a message type: every choice of these values for its fields, and of a full
\* and a blank message in it.
Scalars(field) ==
  CASE field.kind = "string" -> {"", "text"}
    [] field.kind = "bool" -> {"false", "true"}
    [] field.kind = "int32" -> {"0", "7", "2^31"}
    [] field.kind = "double" -> {"0", "-0", "0.1"}
    [] field.kind = "strings" -> {<< >>, <<"">>, <<"text", "">>}
    [] field.kind = "floats" -> {<< >>, <<"0", "0.1">>, <<"0.1", "1e39">>}

RECURSIVE Full(_)
Full(type) ==
  [i \in DOMAIN type |->
     IF type[i].kind \in Nested THEN <<Full(type[i].of)>>
     ELSE CASE type[i].kind = "string" -> "text"
            [] type[i].kind = "bool" -> "true"
            [] type[i].kind = "int32" -> "7"
            [] type[i].kind = "double" -> "0.1"
            [] type[i].kind = "strings" -> <<"", "text">>
            [] type[i].kind = "floats" -> <<"0.1">>]

ValuesOf(field) ==
  IF field.kind \in Nested
  THEN LET blank == Created(field.of)
           full == Full(field.of)
       IN  {<< >>, <<blank>>, <<full>>} \cup
           (IF field.kind = "messages" THEN {<<full, blank, full>>} ELSE {})
  ELSE Scalars(field)

RECURSIVE EveryChoice(_)
EveryChoice(type) ==
  IF type = Empty THEN {Empty}
  ELSE {Append(m, value) : m \in EveryChoice(Front(type)), value \in ValuesOf(Last(type))}

Parts ==
  {"wire", "score", "tests", "repairs", "commands", "terminals", "files", "skills",
   "cache", "budget", "agents", "validation", "events", "hooks", "coverage"}

Init ==
  /\ part \in Parts
  /\ WireInit /\ (part = "wire" \/ build = "same")
  /\ ScoreInit
  /\ part = "score" \/ \A f \in SourceFiles : map[f].type = "CORE" /\ map[f].complexity = 1
  /\ FactoryInit(IF part = "tests" THEN {<<"a", "unit">>} ELSE {})
  /\ HealInit
  /\ part = "repairs" \/ fileOf = CHOOSE where \in [Findings -> HealedFiles] : TRUE
  /\ ToolInit /\ FSInit /\ SkillInit /\ CacheInit
  /\ BudgetInit /\ machine = Desktop /\ (part # "budget" => usage = Idle /\ ~native)
  /\ WasmInit /\ (part = "agents" \/ maxAgents = CHOOSE n \in Limits : TRUE)
  /\ ValidInit /\ (part = "validation" \/ changes = << >>)
  /\ EventsInit
  /\ CoverageInit /\ (part = "coverage" \/ text = Empty0)

Next ==
  /\ UNCHANGED part
  /\ \/ /\ part = "wire" /\ WireNext
        /\ UNCHANGED <<scoreVars, factoryVars, healVars, toolVars, fsVars, skillVars, cacheVars, budgetVars, wasmVars, validVars, eventVars, coverageVars>>
     \/ /\ part = "score" /\ ScoreNext
        /\ UNCHANGED <<wireVars, factoryVars, healVars, toolVars, fsVars, skillVars, cacheVars, budgetVars, wasmVars, validVars, eventVars, coverageVars>>
     \/ /\ part = "tests" /\ FactoryNext
        /\ UNCHANGED <<wireVars, scoreVars, healVars, toolVars, fsVars, skillVars, cacheVars, budgetVars, wasmVars, validVars, eventVars, coverageVars>>
     \/ /\ part = "repairs" /\ HealNext
        /\ UNCHANGED <<wireVars, scoreVars, factoryVars, toolVars, fsVars, skillVars, cacheVars, budgetVars, wasmVars, validVars, eventVars, coverageVars>>
     \/ /\ \/ part = "commands" /\ CommandNext
           \/ part = "terminals" /\ TerminalNext
        /\ UNCHANGED <<wireVars, scoreVars, factoryVars, healVars, fsVars, skillVars, cacheVars, budgetVars, wasmVars, validVars, eventVars, coverageVars>>
     \/ /\ \/ part = "files" /\ FSNext
           \/ part = "skills" /\ SkillNext
        /\ UNCHANGED <<wireVars, scoreVars, factoryVars, healVars, toolVars, cacheVars, budgetVars, wasmVars, validVars, eventVars, coverageVars>>
     \/ /\ part = "cache" /\ CacheNext
        /\ UNCHANGED <<wireVars, scoreVars, factoryVars, healVars, toolVars, fsVars, skillVars, budgetVars, wasmVars, validVars, eventVars, coverageVars>>
     \/ /\ part = "budget" /\ BudgetNext
        /\ UNCHANGED <<wireVars, scoreVars, factoryVars, healVars, toolVars, fsVars, skillVars, cacheVars, wasmVars, validVars, eventVars, coverageVars>>
     \/ /\ part = "agents" /\ WasmNext
        /\ UNCHANGED <<wireVars, scoreVars, factoryVars, healVars, toolVars, fsVars, skillVars, cacheVars, budgetVars, validVars, eventVars, coverageVars>>
     \/ /\ part = "validation" /\ ValidNext
        /\ UNCHANGED <<wireVars, scoreVars, factoryVars, healVars, toolVars, fsVars, skillVars, cacheVars, budgetVars, wasmVars, eventVars, coverageVars>>
     \/ /\ \/ part = "events" /\ ListenNext
           \/ part = "hooks" /\ HookNext
        /\ UNCHANGED <<wireVars, scoreVars, factoryVars, healVars, toolVars, fsVars, skillVars, cacheVars, budgetVars, wasmVars, validVars, coverageVars>>
     \/ /\ part = "coverage" /\ CoverageNext
        /\ UNCHANGED <<wireVars, scoreVars, factoryVars, healVars, toolVars, fsVars, skillVars, cacheVars, budgetVars, wasmVars, validVars, eventVars>>

Spec == Init /\ [][Next]_allVars

=============================================================================
