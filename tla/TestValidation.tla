---------------------------- MODULE TestValidation ----------------------------
(***************************************************************************)
(* The validation phase of a diagnosis and the runner of the tests         *)
(* (src_local/engines/automation/qa_diagnostics_service.ts,                *)
(* core/orchestrator.ts runTargetedVerification, core/validator.ts,        *)
(* engines/automation/test_runner.ts).                                     *)
(*                                                                         *)
(* A file is a test (".test." in its name), a Zig file or logic; tests of  *)
(* a directory test/ are those. A process may not start; of what it prints *)
(* only the numbers the runner looks for are kept, and a test may itself   *)
(* print one of them: its text is on stdout, which is read before stderr   *)
(* with bun's own summary. A rate is in whole percents.                    *)
(***************************************************************************)
EXTENDS Integers, Sequences, SequencesExt

CONSTANTS
  Tests, Zigs,    \* files by kind, the others being logic
  Complex,        \* logic files the map has at complexity 20 or less
  FindingLists,   \* files of the findings a diagnosis starts from
  ChangeLists     \* lastDetectedChanges

VARIABLES
  stage,     \* "idle", "verifying", "running", "done"
  asked,     \* "validation", "suite"
  toVerify,  \* files yet to be verified
  findings,  \* files of the findings
  changes,   \* lastDetectedChanges
  failures,  \* history: files whose verification failed
  queue,     \* processes yet to be run: "bun", "zig build", or a Zig file
  ended,     \* history: the processes that were to run, as they ended
  summed,    \* their TestResults: whether all are successes, the sums of the numbers
  judged     \* the result of the phase or the suite

validVars == <<stage, asked, toVerify, findings, changes, failures, queue, ended, summed, judged>>

-----------------------------------------------------------------------------
Rate(passed, total) == IF total > 0 THEN (100 * passed) \div total ELSE 0

Skipped == [success |-> TRUE, total_run |-> 0, failed |-> 0, pass_rate |-> 100]
NoTestFiles == [success |-> TRUE, total_run |-> 0, failed |-> 0, pass_rate |-> 0]
Thrown == [success |-> FALSE, total_run |-> 0, failed |-> 1, pass_rate |-> 0]
NoVerdict == [success |-> FALSE, total_run |-> 0, failed |-> 0, pass_rate |-> 0]

\* How a process may end. bun exits with 0 when no test fails and there is one;
\* with something else also for an error outside the tests.
BunEnds ==
  [process : {"bun"}, started : {FALSE}]
  \cup {e \in [process : {"bun"}, started : {TRUE}, code : {0, 1}, pass : 0..2, fail : 0..1,
               noise : {"none", "2 pass", "1 fail"}] :
          e.code = 0 => e.fail = 0 /\ e.pass > 0}

NotSaid == -1

ZigEnds(file) ==
  [process : {file}, started : {FALSE}]
  \cup {e \in [process : {file}, started : {TRUE}, code : {0, 1}, all : {NotSaid, 0, 2},
               failedSaid : BOOLEAN] : e.code = 1 => e.all = NotSaid}

BuildEnds == [process : {"zig build"}, started : BOOLEAN, code : {0, 1}]

EndsOf(process) ==
  CASE process = "bun" -> BunEnds
    [] process = "zig build" -> BuildEnds
    [] OTHER -> ZigEnds(process)

\* parseBunOutput: the first number of each kind.
\* Faulty: the exit code is not asked for.
ParseCountsOnly(e) ==
  LET passed == IF e.noise = "2 pass" THEN 2 ELSE e.pass
      failed == IF e.noise = "1 fail" THEN 1 ELSE e.fail
  IN  [success |-> failed = 0, total_run |-> passed + failed, failed |-> failed,
       pass_rate |-> Rate(passed, passed + failed)]

parseBunOutput(e) ==
  LET passed == IF e.noise = "2 pass" THEN 2 ELSE e.pass
      failed == IF e.noise = "1 fail" THEN 1 ELSE e.fail
  IN  [success |-> e.code = 0 /\ failed = 0, total_run |-> passed + failed, failed |-> failed,
       pass_rate |-> Rate(passed, passed + failed)]

\* executeZigTest, one file; "All N tests passed" is counted.
ZigResult(e) ==
  LET failed == e.failedSaid \/ e.code # 0
      passed == IF e.all # NotSaid THEN e.all ELSE IF failed THEN 0 ELSE 1
      total == passed + (IF failed THEN 1 ELSE 0)
  IN  IF ~e.started THEN Thrown
      ELSE [success |-> e.code = 0 /\ ~failed, total_run |-> total,
            failed |-> IF failed THEN 1 ELSE 0, pass_rate |-> Rate(passed, total)]

\* runUnittestDiscover, the native part.
BuildResult(e) ==
  IF ~e.started THEN Thrown
  ELSE IF e.code = 0 THEN [success |-> TRUE, total_run |-> 1, failed |-> 0, pass_rate |-> 100]
  ELSE [success |-> FALSE, total_run |-> 0, failed |-> 1, pass_rate |-> 0]

ResultOf(e) ==
  CASE e.process = "bun" -> parseBunOutput(e)
    [] e.process = "zig build" -> BuildResult(e)
    [] OTHER -> ZigResult(e)

\* _consolidate_results, as results come in: the reductions of none, and with one more.
NoResults == [success |-> TRUE, total_run |-> 0, failed |-> 0]

Plus(sums, r) ==
  [success |-> sums.success /\ r.success, total_run |-> sums.total_run + r.total_run,
   failed |-> sums.failed + r.failed]

_consolidate_results(sums) ==
  [success |-> sums.success, total_run |-> sums.total_run, failed |-> sums.failed,
   pass_rate |-> Rate(sums.total_run - sums.failed, sums.total_run)]

-----------------------------------------------------------------------------
ValidInit ==
  /\ stage = "idle" /\ asked = "validation"
  /\ toVerify = {} /\ findings = << >> /\ changes \in ChangeLists /\ failures = << >>
  /\ queue = << >> /\ ended = << >> /\ summed = NoResults /\ judged = NoVerdict

\* runTestSuite; a build.zig adds the native tests.
runTestSuite(hasBuildZig) ==
  /\ stage = "idle" /\ stage' = "running" /\ asked' = "suite"
  /\ queue' = IF hasBuildZig THEN <<"bun", "zig build">> ELSE <<"bun">>
  /\ UNCHANGED <<toVerify, findings, changes, failures, ended, summed, judged>>

\* runValidationPhase: fastFallback, or a plan of the files with a finding.
runValidationPhase(found, skipTests) ==
  /\ stage = "idle" /\ findings' = found
  /\ IF skipTests
     THEN /\ stage' = "done" /\ judged' = Skipped
          /\ UNCHANGED toVerify
     ELSE /\ stage' = "verifying" /\ toVerify' = ToSet(found)
          /\ UNCHANGED judged
  /\ UNCHANGED <<asked, changes, failures, queue, ended, summed>>

\* runTargetedVerification, one file: a test is run, logic is looked up in the map.
VerifyFile(file, passes) ==
  /\ stage = "verifying" /\ file \in toVerify
  /\ toVerify' = toVerify \ {file}
  /\ failures' = IF (file \in Tests /\ ~passes) \/ (file \notin Tests \cup Complex)
                 THEN Append(failures, file) ELSE failures
  /\ UNCHANGED <<stage, asked, findings, changes, queue, ended, summed, judged>>

\* runSelectiveTests: bun once for the test files, then zig for each Zig file.
SelectiveQueue(files) ==
  (IF ToSet(files) \cap Tests # {} THEN <<"bun">> ELSE << >>)
    \o SelectSeq(files, LAMBDA f : f \in Zigs)

\* verifyCoreHealth: nothing without a directory of tests, the changed files when
\* there are 1 to 9, else all tests. The changes a watcher has seen go first.
verifyCoreHealth(hasTests) ==
  LET all == findings \o failures
      files == IF changes # << >> THEN changes ELSE all
      selective == Len(files) \in 1..9
  IN  /\ stage = "verifying" /\ toVerify = {}
      /\ findings' = all
      /\ \/ /\ ~hasTests
            /\ stage' = "done" /\ judged' = Skipped
            /\ UNCHANGED queue
         \/ /\ hasTests /\ selective /\ SelectiveQueue(files) = << >>
            /\ stage' = "done" /\ judged' = NoTestFiles
            /\ UNCHANGED queue
         \/ /\ hasTests /\ (selective => SelectiveQueue(files) # << >>)
            /\ stage' = "running"
            /\ queue' = IF selective THEN SelectiveQueue(files) ELSE <<"bun">>
            /\ UNCHANGED judged
      /\ UNCHANGED <<asked, toVerify, changes, failures, ended, summed>>

\* bun that does not start rejects: the validation catches it, the suite passes it
\* on, and neither runs what is left.
RunProcess(e) ==
  /\ stage = "running" /\ queue # << >> /\ e.process = Head(queue)
  /\ ended' = Append(ended, e)
  /\ IF e.process = "bun" /\ ~e.started
     THEN /\ queue' = << >> /\ summed' = NoResults
          /\ stage' = "done"
          /\ judged' = IF asked = "validation" THEN Thrown ELSE NoVerdict
     ELSE /\ queue' = Tail(queue)
          /\ summed' = Plus(summed, ResultOf(e))
          /\ UNCHANGED <<stage, judged>>
  /\ UNCHANGED <<asked, toVerify, findings, changes, failures>>

\* A full run is bun's result alone.
Conclude ==
  /\ stage = "running" /\ queue = << >>
  /\ stage' = "done"
  /\ judged' = _consolidate_results(summed)
  /\ UNCHANGED <<asked, toVerify, findings, changes, failures, queue, ended, summed>>

ValidNext ==
  \/ \E zig \in BOOLEAN : runTestSuite(zig)
  \/ \E found \in FindingLists, skip \in BOOLEAN : runValidationPhase(found, skip)
  \/ \E file \in toVerify, passes \in BOOLEAN : VerifyFile(file, passes)
  \/ \E has \in BOOLEAN : verifyCoreHealth(has)
  \/ queue # << >> /\ \E e \in EndsOf(Head(queue)) : RunProcess(e)
  \/ Conclude

ValidSpec == ValidInit /\ [][ValidNext]_validVars

-----------------------------------------------------------------------------
Bad(e) == ~e.started \/ e.code # 0

\* A phase that reports success has had every process it was to run start and
\* exit with 0, whatever the tests printed and in whichever order they failed.
SuccessIsEarned == stage = "done" /\ judged.success => ~\E i \in DOMAIN ended : Bad(ended[i])

\* The other way round, a failure that is reported has a process that failed, or
\* one that printed the words of a failure.
FailureIsReal ==
  stage = "done" /\ ~judged.success =>
    \E i \in DOMAIN ended :
      \/ Bad(ended[i])
      \/ "noise" \in DOMAIN ended[i] /\ ended[i].noise = "1 fail"
      \/ "failedSaid" \in DOMAIN ended[i] /\ ended[i].failedSaid

\* A native process whose result counts one failure of no test run: one that did not
\* start, or the native suite when it fails; a Zig file that fails counts one of one.
Uncounted(e) == e.process # "bun" /\ (~e.started \/ (e.process = "zig build" /\ e.code # 0))

\* The rate is a percentage, unless there was such a process.
RateIsBounded ==
  judged.pass_rate \notin 0..100 => \E i \in DOMAIN ended : Uncounted(ended[i])

\* A verdict of the tests can be trusted.
RunIsJudged == SuccessIsEarned /\ FailureIsReal /\ RateIsBounded
=============================================================================
