------------------------------ MODULE TestFactory ------------------------------
(***************************************************************************)
(* The test engine (core/test_engine.ts): it plans tests from the graph of *)
(* imports and from the audit of the tests on disk, asks the model for     *)
(* them, gates the answers, writes and runs them, and asks for a repair of *)
(* what fails.  The workers of the task queue run it, and the generation   *)
(* of documentation, on the same files while a developer edits them.       *)
(***************************************************************************)
EXTENDS Integers, Sequences, SequencesExt, FiniteSets

CONSTANTS
  Sources,     \* the source files, in the order of the walk
  Imports,     \* file -> the files it imports, in order
  Branches,    \* file -> cyclomatic complexities its analysis sums, or Unanalysed
  Answers,     \* texts the model may give for a test
  DarkMatter,  \* files a diagnosis wants documented
  TestWorkers, \* tasks processed at the same time
  Edited,      \* bound: files the developer edits, MaxEdits times each
  MaxPlans, MaxTasks, MaxEdits  \* bounds: plans, tasks begun, edits

ASSUME FactoryAssumption ==
  /\ Edited \subseteq ToSet(Sources)
  /\ \A file \in ToSet(Sources) : Branches[file] \in Nat \cup {-1}
  /\ \A text \in Answers : text.asserts \in Nat /\ text.size \notin {"absent", "null"}

VARIABLES
  tests,    \* <<file, layer>> -> the test on disk
  source,   \* file -> the edits and the number of docstrings it holds
  backlog,  \* PENDING tasks, oldest first
  jobs,     \* worker -> what it is doing
  healed,   \* tests whose text on disk a repair wrote
  verdict,  \* test -> what the last task that had it for itself returned
  crowded,  \* tests that two tasks have had at once since they were last free
  edits, raced,    \* file -> edits made; those made while a task documented it
  plans, begun

factoryVars == <<tests, source, backlog, jobs, healed, verdict, crowded, edits, raced,
                 plans, begun>>

Layers == {"unit", "integration", "e2e"}
Files == ToSet(Sources)
Slots == Files \X Layers
NoTest == [size |-> "absent"]
NoAnswer == [size |-> "null"]
Unanalysed == -1
Vacant == [at |-> "idle"]

-----------------------------------------------------------------------------
(* What the engine and the auditor think of a text.                        *)

RequiredAsserts(file, layer) ==
  CASE layer = "integration" -> 3
    [] layer = "e2e" -> 2
    [] Branches[file] = Unanalysed -> 3
    [] OTHER -> ((Branches[file] + 1) \div 2) + 1

\* Faulty: any text with enough assertions will do.
CountsOnly(text, file, layer) ==
  /\ text # NoAnswer
  /\ text.asserts >= RequiredAsserts(file, layer)

validateGeneratedTest(text, file, layer) ==
  /\ text # NoAnswer
  /\ text.size = "full"
  /\ text.trivial # "toBe"
  /\ text.imports
  /\ text.asserts >= RequiredAsserts(file, layer)
  /\ text.blocks

auditSingleTest(text) ==
  CASE text.size = "stub" -> "SMOKE"
    [] text.trivial # "no" /\ text.asserts <= 2 -> "SMOKE"
    [] ~text.imports -> "SMOKE"
    [] text.asserts < 3 -> "BASIC"
    [] ~text.mocks /\ ~text.edges /\ text.asserts < 5 -> "BASIC"
    [] text.asserts >= 5 /\ text.edges /\ (text.mocks \/ text.async) -> "PHD"
    [] OTHER -> "GOOD"

ShouldRegenerate(slot) ==
  tests[slot] # NoTest /\ auditSingleTest(tests[slot]) \in {"SMOKE", "BASIC"}

-----------------------------------------------------------------------------
(* The plan.                                                               *)

Importers(file) == {f \in Files : file \in ToSet(Imports[f])}
FanIn(file) == Cardinality(Importers(file))
IsHub(file) == FanIn(file) >= 4

\* The imported files, most imported first, in the order of the walk among equals.
SortedByFanIn ==
  LET n == Len(Sources)
  IN  FlattenSeq([i \in 1..n |-> SelectSeq(Sources, LAMBDA f : FanIn(f) = n + 1 - i)])

Hubs == SelectSeq(SortedByFanIn, IsHub)
FirstOf(s, n) == SubSeq(s, 1, IF n < Len(s) THEN n ELSE Len(s))
PairsOf(files, Chosen(_)) ==
  FlattenSeq([i \in 1..Len(files) |->
    LET f == files[i]  kept == Chosen(f)
    IN  [k \in 1..Len(kept) |-> <<f, kept[k]>>]])

\* Mutual imports, then imports between hubs, then the first imports of hubs; a
\* pair counts once, whichever file comes first.
FindStrongestPairs ==
  LET Mutual(f) == SelectSeq(Imports[f], LAMBDA g : f \in ToSet(Imports[g]))
      BetweenHubs(f) == SelectSeq(Imports[f], IsHub)
      Leading(f) == FirstOf(Imports[f], 3)
      all == PairsOf(Sources, Mutual) \o PairsOf(Hubs, BetweenHubs)
               \o PairsOf(FirstOf(Hubs, 10), Leading)
      new == SelectSeq([i \in 1..Len(all) |-> <<i, all[i]>>], LAMBDA p :
               \A k \in 1..(p[1] - 1) : ToSet(all[k]) # ToSet(p[2]))
  IN  FirstOf([i \in 1..Len(new) |-> new[i][2]], 20)

Percent(p) == (p * Len(Sources) + 99) \div 100
E2ECandidates == FirstOf(SortedByFanIn, IF Percent(5) > 1 THEN Percent(5) ELSE 1)

ScanPyramidMetrics(layer) == Cardinality({f \in Files : tests[<<f, layer>>] # NoTest})
Needed(layer, ideal) ==
  LET missing == ideal - ScanPyramidMetrics(layer)
  IN  IF missing > 0 THEN missing ELSE 0

TaskRow(kind, file) == [kind |-> kind, file |-> file]

\* The filter of the files without a unit test looks for the source, which is
\* there: only tests that exist are asked for again.
planTestsByPyramid ==
  LET pairs == FirstOf(FindStrongestPairs, Needed("integration", Percent(15)))
      flows == FirstOf(E2ECandidates, Needed("e2e", Percent(5)))
      audited == FlattenSeq([i \in 1..Len(Sources) |->
                   SelectSeq([k \in 1..3 |-> <<Sources[i], <<"e2e", "integration", "unit">>[k]>>],
                             ShouldRegenerate)])
  IN  [i \in 1..Len(audited) |-> TaskRow(audited[i][2], audited[i][1])]
        \o [i \in 1..Len(pairs) |-> TaskRow("integration", pairs[i][1])]
        \o [i \in 1..Len(flows) |-> TaskRow("e2e", flows[i])]

runTestGeneration ==
  /\ plans < MaxPlans
  /\ plans' = plans + 1
  /\ backlog' = backlog \o planTestsByPyramid
  /\ UNCHANGED <<tests, source, jobs, healed, verdict, crowded, edits, raced, begun>>

\* The end of a diagnosis asks for the documentation of up to five files.
FinalizeDiagnosis ==
  /\ plans < MaxPlans
  /\ plans' = plans + 1
  /\ backlog' = backlog \o [i \in 1..Len(FirstOf(DarkMatter, 5)) |-> TaskRow("doc", DarkMatter[i])]
  /\ UNCHANGED <<tests, source, jobs, healed, verdict, crowded, edits, raced, begun>>

-----------------------------------------------------------------------------
(* Test tasks.  A job asks the model, writes, loads the text and runs it.  *)

SlotOf(job) == <<job.file, job.kind>>
Holders(slot) == {w \in TestWorkers :
                    jobs[w].at \notin {"idle", "documenting"} /\ SlotOf(jobs[w]) = slot}

generateTest(w) ==
  LET task == Head(backlog)  slot == <<task.file, task.kind>>
  IN  /\ backlog # <<>> /\ jobs[w] = Vacant /\ begun < MaxTasks
      /\ task.kind # "doc"
      /\ jobs' = [jobs EXCEPT ![w] = [at |-> "asked", kind |-> task.kind, file |-> task.file,
                                      fix |-> FALSE, seen |-> NoTest]]
      /\ backlog' = Tail(backlog)
      /\ verdict' = [verdict EXCEPT ![slot] = "none"]
      /\ crowded' = IF Holders(slot) = {} THEN crowded \ {slot} ELSE crowded \cup {slot}
      /\ begun' = begun + 1
      /\ UNCHANGED <<tests, source, healed, edits, raced, plans>>

\* The worker marks the task COMPLETED whatever it returned.
Return(w, result) ==
  /\ jobs' = [jobs EXCEPT ![w] = Vacant]
  /\ verdict' = [verdict EXCEPT ![SlotOf(jobs[w])] = result]

WriteTest(w, text) ==
  /\ tests' = [tests EXCEPT ![SlotOf(jobs[w])] = text]
  /\ healed' = IF jobs[w].fix THEN healed \cup {SlotOf(jobs[w])} ELSE healed \ {SlotOf(jobs[w])}
  /\ jobs' = [jobs EXCEPT ![w].at = "written"]

\* Of a repair only a null answer and one that says "Error:" are refused.
Accepted(job, text) ==
  IF job.fix THEN text # NoAnswer /\ ~text.error
             ELSE validateGeneratedTest(text, job.file, job.kind)

AnswerTest(w) == \E text \in Answers \cup {NoAnswer} :
  /\ jobs[w].at = "asked"
  /\ \/ /\ Accepted(jobs[w], text)
        /\ WriteTest(w, text)
        /\ UNCHANGED verdict
     \/ /\ ~Accepted(jobs[w], text)
        /\ Return(w, "failed")
        /\ UNCHANGED <<tests, healed>>
  /\ UNCHANGED <<source, backlog, crowded, edits, raced, plans, begun>>

LoadTest(w) ==
  /\ jobs[w].at = "written"
  /\ jobs' = [jobs EXCEPT ![w].at = "running", ![w].seen = tests[SlotOf(jobs[w])]]
  /\ UNCHANGED <<tests, source, backlog, healed, verdict, crowded, edits, raced, plans, begun>>

AutoHeals(job) == job.kind # "e2e" /\ ~job.fix
\* Faulty: a repaired test is trusted.
PassesWhenRepaired(job) == job.fix \/ job.seen.green

Passes(job) == job.seen.green /\ (job.fix => job.seen.coverage # "low")

\* A run may also fail because it could not be started.
verifyTest(w) ==
  /\ jobs[w].at = "running"
  /\ \/ /\ Passes(jobs[w])
        /\ Return(w, "verified")
     \/ /\ AutoHeals(jobs[w])
        /\ jobs' = [jobs EXCEPT ![w].at = "asked", ![w].fix = TRUE, ![w].seen = NoTest]
        /\ UNCHANGED verdict
     \/ /\ ~AutoHeals(jobs[w])
        /\ Return(w, "failed")
  /\ UNCHANGED <<tests, source, backlog, healed, crowded, edits, raced, plans, begun>>

-----------------------------------------------------------------------------
(* Documentation, and the developer.                                       *)

\* Faulty: the file is read once, when the process starts.
DocumentCachedCopy(w) ==
  /\ backlog # <<>> /\ jobs[w] = Vacant /\ begun < MaxTasks
  /\ Head(backlog).kind = "doc"
  /\ jobs' = [jobs EXCEPT ![w] = [at |-> "documenting", file |-> Head(backlog).file,
                                  content |-> [edits |-> {}, docstrings |-> 0]]]
  /\ backlog' = Tail(backlog)
  /\ begun' = begun + 1
  /\ UNCHANGED <<tests, source, healed, verdict, crowded, edits, raced, plans>>

generateDocumentation(w) ==
  /\ backlog # <<>> /\ jobs[w] = Vacant /\ begun < MaxTasks
  /\ Head(backlog).kind = "doc"
  /\ jobs' = [jobs EXCEPT ![w] = [at |-> "documenting", file |-> Head(backlog).file,
                                  content |-> source[Head(backlog).file]]]
  /\ backlog' = Tail(backlog)
  /\ begun' = begun + 1
  /\ UNCHANGED <<tests, source, healed, verdict, crowded, edits, raced, plans>>

\* A refusal or an error of the model is a docstring too.
InsertDocstring(w) ==
  /\ jobs[w].at = "documenting"
  /\ source' = [source EXCEPT ![jobs[w].file] =
                  [jobs[w].content EXCEPT !.docstrings = @ + 1]]
  /\ jobs' = [jobs EXCEPT ![w] = Vacant]
  /\ UNCHANGED <<tests, backlog, healed, verdict, crowded, edits, raced, plans, begun>>

EditSource(f) ==
  LET e == Cardinality(edits[f]) + 1
  IN  /\ e <= MaxEdits
      /\ edits' = [edits EXCEPT ![f] = @ \cup {e}]
      /\ source' = [source EXCEPT ![f].edits = @ \cup {e}]
      /\ raced' = [raced EXCEPT ![f] =
                    IF \E w \in TestWorkers : jobs[w].at = "documenting" /\ jobs[w].file = f
                    THEN @ \cup {e} ELSE @]
      /\ UNCHANGED <<tests, backlog, jobs, healed, verdict, crowded, plans, begun>>

-----------------------------------------------------------------------------
\* Of the tests on disk at first, any may be the work of a developer.
FactoryInit(WithTest) ==
  /\ \E d \in [WithTest -> Answers \cup {NoTest}] :
       tests = [s \in Slots |-> IF s \in WithTest THEN d[s] ELSE NoTest]
  /\ source = [f \in Files |-> [edits |-> {}, docstrings |-> 0]]
  /\ backlog = <<>>
  /\ jobs = [w \in TestWorkers |-> Vacant]
  /\ healed = {s \in Slots : tests[s] # NoTest}
  /\ verdict = [s \in Slots |-> "none"]
  /\ crowded = {}
  /\ edits = [f \in Files |-> {}] /\ raced = [f \in Files |-> {}]
  /\ plans = 0 /\ begun = 0

FactoryNext ==
  \/ runTestGeneration \/ FinalizeDiagnosis
  \/ \E w \in TestWorkers : \/ generateTest(w) \/ AnswerTest(w) \/ LoadTest(w) \/ verifyTest(w)
                            \/ generateDocumentation(w) \/ InsertDocstring(w)
  \/ \E f \in Edited : EditSource(f)

FactorySpec(WithTest) == FactoryInit(WithTest) /\ [][FactoryNext]_factoryVars

-----------------------------------------------------------------------------
(* Properties.                                                             *)

\* The gate of the engine and the auditor of the plan agree: a test that went
\* through the gate is never a smoke test to the auditor when its layer asks
\* for three assertions, nor asked for again when it asks for five.
AuditorAgrees == \A s \in Slots \ healed : tests[s] # NoTest =>
  /\ RequiredAsserts(s[1], s[2]) >= 3 => auditSingleTest(tests[s]) # "SMOKE"
  /\ RequiredAsserts(s[1], s[2]) >= 5 => ~ShouldRegenerate(s)

\* A task that had its test for itself and returned true leaves a test that
\* passes, and that covers enough if a repair wrote it.
VerifiedTestsPass == \A s \in Slots \ crowded :
  (verdict[s] = "verified" /\ Holders(s) = {}) =>
    /\ tests[s].green
    /\ s \in healed => tests[s].coverage # "low"

\* Documentation loses an edit only if it was made between the reading of the
\* file and the writing of the docstring.
EditsKept == \A f \in Files : edits[f] \ source[f].edits \subseteq raced[f]

\* What the test engine writes can be trusted: its gate agrees with its auditor, its
\* verified tests pass, and its documentation keeps what others edit.
TestsTrusted == AuditorAgrees /\ VerifiedTestsPass /\ EditsKept
================================================================================
