------------------------------ MODULE HealthScore ------------------------------
(***************************************************************************)
(* The health score of a diagnosis (engines/diagnostics/                   *)
(* health_synthesizer.ts): what the hub computes from the map of the files *)
(* and the alerts (analyzer/src/score_calculator.rs), and what the         *)
(* ScoringEngine computes when the hub does not answer                     *)
(* (core/governance/scoring_engine.ts).                                    *)
(*                                                                         *)
(* Points are counted in 60ths, which every share of up to three files is  *)
(* a whole number of. Of the metrics of a file only the complexity         *)
(* arrives: ScoreCalculator reads the others under names the analyst does  *)
(* not write and sends its defaults.                                       *)
(***************************************************************************)
EXTENDS Integers, FiniteSets

CONSTANTS
  SourceFiles,  \* the files of the map
  CoreFiles,    \* those of type CORE; the others are of any type
  Divergent,    \* agents that differ between stacks
  MaxAlerts,    \* bound: severity -> alerts found
  MaxLosses     \* bound: files that lose a test, a log or a purpose

\* Of a map without files both scores are 0, whatever the alerts.
ASSUME ScoreAssumption ==
  IsFiniteSet(SourceFiles) /\ SourceFiles # {} /\ Divergent \in Nat

VARIABLES
  map,        \* file -> what the audit knows of it
  alerts,     \* severity -> number of alerts ("none": an alert without one)
  cognitive,  \* the state of the cognitive check, "unknown" after a new discovery
  losses,
  report      \* the score and status of the last report, and who computed it

scoreVars == <<map, alerts, cognitive, losses, report>>

Severities == {"HIGH", "MEDIUM", "LOW", "none"}
NoReport == [status |-> "none", by |-> "none"]

-----------------------------------------------------------------------------
Total == Cardinality(SourceFiles)
FilesWith(Test(_)) == Cardinality({f \in SourceFiles : Test(map[f])})
AtMost(a, b) == IF a < b THEN a ELSE b
AtLeast(a, b) == IF a > b THEN a ELSE b
Round(points) == (points + 30) \div 60
Share(points, n, of) == (60 * points * n) \div AtLeast(of, 1)

\* The complexities of all the files, each unit counted.
SumComplexity == Cardinality(UNION {{f} \X (1..map[f].complexity) : f \in SourceFiles})

\* The hub's pillars. A marker of some complexity counts twice.
IsMarker(info) == info.type \in {"PACKAGE_MARKER", "CONFIG"}
IsRelevant(info) ==
  /\ info.type \in {"AGENT", "CORE", "LOGIC", "UTIL", "UNKNOWN"} \/ info.complexity >= 1
  /\ info.type \notin {"DOC", "TEST"}

calc_stability ==
  LET markers == FilesWith(IsMarker)
      total == FilesWith(IsRelevant) + markers
      covered == FilesWith(LAMBDA i : IsRelevant(i) /\ i.test)
  IN  Share(40, AtMost(covered + markers, total), total)

\* The mean of the files' mean complexity and of the default, 1, of their metrics.
calc_purity ==
  LET simple == (60 * SumComplexity) \div Total
      average == (60 + simple) \div 2
  IN  AtLeast(60 * 20 - 2 * AtLeast(average - 60 * 7, 0), 0)

calc_observability ==
  LET Observed(i) == i.type \notin {"TEST", "PACKAGE_MARKER", "CONFIG"} \/ i.complexity > 1
  IN  Share(15, FilesWith(LAMBDA i : Observed(i) /\ i.telemetry), FilesWith(Observed))

calc_security == AtLeast(60 * (15 - 5 * alerts["HIGH"]), 0)

calc_excellence == Share(10, FilesWith(LAMBDA i : i.purpose # "UNKNOWN" \/ IsMarker(i)), Total)

\* Each file of the matrix has the default maintainability, 80, and complexity, 1.
calc_quality_bonus == 72 * FilesWith(LAMBDA i : i.type # "TEST")

get_adjustments ==
  CASE cognitive = "FAIL" -> 60 * 5
    [] cognitive = "DEGRADED" -> 60 * 2
    [] OTHER -> 0

\* Faulty: an alert without a severity is taken for no alert, a high one for a medium.
LowCeilings ==
  LET raw == calc_stability + calc_purity + calc_observability + calc_security
             + calc_excellence + calc_quality_bonus \div Total
      ceiling == IF alerts["HIGH"] + alerts["MEDIUM"] > 0 THEN 95 ELSE 100
  IN  Round(AtLeast(AtMost(raw, 60 * ceiling) - get_adjustments, 0))

\* An alert without a severity is sent as a medium one.
calculate_score ==
  LET raw == calc_stability + calc_purity + calc_observability + calc_security
             + calc_excellence + calc_quality_bonus \div Total
      ceiling == IF alerts["HIGH"] > 0 THEN 70
                 ELSE IF alerts["MEDIUM"] + alerts["none"] > 0 THEN 95 ELSE 100
  IN  Round(AtLeast(AtMost(raw, 60 * ceiling) - get_adjustments, 0))

-----------------------------------------------------------------------------
\* The ScoringEngine. There an alert without a severity is a low one.
high == alerts["HIGH"]
med == alerts["MEDIUM"]
low == alerts["LOW"] + alerts["none"]

\* Faulty: the medium alerts are looked at first.
MediumFirst ==
  CASE med > 5 -> "STANDARD"
    [] med \in 1 .. 5 -> "EXCELLENT"
    [] med = 0 /\ high > 5 -> "CRITICAL"
    [] med = 0 /\ high \in 3 .. 5 -> "DEGRADED"
    [] med = 0 /\ high \in 1 .. 2 -> "SUBSTANDARD"
    [] OTHER -> "SOVEREIGN"

getComplianceLevel ==
  CASE high > 5 -> "CRITICAL"
    [] high \in 3 .. 5 -> "DEGRADED"
    [] high \in 1 .. 2 -> "SUBSTANDARD"
    [] high = 0 /\ med > 5 -> "STANDARD"
    [] high = 0 /\ med \in 1 .. 5 -> "EXCELLENT"
    [] high = 0 /\ med = 0 -> "SOVEREIGN"

\* vetoThreshold, in tenths.
POLICIES == [SOVEREIGN |-> 10, EXCELLENT |-> 9, STANDARD |-> 7,
             SUBSTANDARD |-> 5, DEGRADED |-> 3, CRITICAL |-> 1]
Ceilings == [SOVEREIGN |-> 100, EXCELLENT |-> 95, STANDARD |-> 85,
             SUBSTANDARD |-> 60, DEGRADED |-> 40, CRITICAL |-> 20]

calcPillars ==
  LET stability == Share(35, FilesWith(LAMBDA i : i.test), Total)
      purity == AtLeast(60 * 15 - (90 * (SumComplexity - Total)) \div Total, 0)
      obs == Share(10, FilesWith(LAMBDA i : i.type # "TEST" /\ i.telemetry), Total)
      excellence == Share(10, FilesWith(LAMBDA i : i.purpose = "stated"), Total)
      compliance == 90 * POLICIES[getComplianceLevel]
  IN  stability + purity + obs + calc_security + excellence + compliance

applyConstraints ==
  LET penalty == 12 * (15 * high + 5 * med + low)
  IN  AtLeast(0, AtMost(calcPillars, 60 * Ceilings[getComplianceLevel]) - penalty)

\* toFixed(2): hundredths of a point.
calculateHealth == (10 * applyConstraints + 3) \div 6

\* health.total || 85: a total of 0 is taken for a missing one.
Fallback == IF calculateHealth = 0 THEN 85 ELSE (calculateHealth + 50) \div 100

-----------------------------------------------------------------------------
ScoreInit ==
  /\ map \in [SourceFiles -> [type : {"CORE", "TEST", "CONFIG"}, complexity : {1, 12},
                              test : {TRUE}, telemetry : {TRUE}, purpose : {"stated"}]]
  /\ \A f \in CoreFiles : map[f].type = "CORE"
  /\ alerts = [s \in Severities |-> 0]
  /\ cognitive = "HEALTHY" /\ losses = 0
  /\ report = NoReport

\* One more alert.
FindAlert(s) ==
  /\ alerts[s] < MaxAlerts[s]
  /\ alerts' = [alerts EXCEPT ![s] = @ + 1]
  /\ UNCHANGED <<map, cognitive, losses, report>>

\* A file loses its test, its telemetry, its purpose.
Lose(f) ==
  /\ losses < MaxLosses
  /\ losses' = losses + 1
  /\ \/ map[f].test /\ map' = [map EXCEPT ![f].test = FALSE]
     \/ map[f].telemetry /\ map' = [map EXCEPT ![f].telemetry = FALSE]
     \/ map[f].purpose = "stated" /\ map' = [map EXCEPT ![f].purpose = "UNKNOWN"]
  /\ UNCHANGED <<alerts, cognitive, report>>

\* runCognitiveAudit: no answer, or one that is not the expected word.
runCognitiveAudit(status) ==
  /\ cognitive = "HEALTHY" /\ status \in {"DEGRADED", "FAIL"}
  /\ cognitive' = status
  /\ UNCHANGED <<map, alerts, losses, report>>

\* The discovery after a repair returns a context of its own: the cognitive
\* check of the old one is gone.
Rediscover ==
  /\ cognitive \notin {"unknown"} /\ report = NoReport
  /\ cognitive' = "unknown"
  /\ UNCHANGED <<map, alerts, losses, report>>

\* Whether the hub answers shows only here. The agents found to differ between
\* stacks are added to the alerts after the score is computed, to the same list
\* the report shows.
synthesize360(hub) ==
  LET score == IF hub THEN calculate_score ELSE Fallback
  IN  /\ report = NoReport
      /\ report' = [by |-> IF hub THEN "hub" ELSE "engine",
                    status |-> IF score > 80 THEN "HEALTHY"
                               ELSE IF score > 50 THEN "WARNING" ELSE "CRITICAL"]
      /\ alerts' = [alerts EXCEPT !["HIGH"] = @ + Divergent]
      /\ UNCHANGED <<map, cognitive, losses>>

ScoreNext ==
  /\ report = NoReport
  /\ \/ \E s \in Severities : FindAlert(s)
     \/ \E f \in SourceFiles : Lose(f)
     \/ \E status \in {"DEGRADED", "FAIL"} : runCognitiveAudit(status)
     \/ Rediscover
     \/ \E hub \in BOOLEAN : synthesize360(hub)

ScoreSpec == ScoreInit /\ [][ScoreNext]_scoreVars

-----------------------------------------------------------------------------
BadNews ==
  \/ \E s \in Severities : FindAlert(s)
  \/ \E f \in SourceFiles : Lose(f)
  \/ \E status \in {"DEGRADED", "FAIL"} : runCognitiveAudit(status)

\* Bad news never helps: one more alert of any severity, a file that loses its
\* test, its telemetry or its purpose, or a failed cognitive check raises neither
\* the hub's score nor the engine's total, at any boundary between levels,
\* ceilings and roundings.
WorseNeverHelps ==
  BadNews => calculate_score' <= calculate_score /\ calculateHealth' <= calculateHealth

\* A diagnosis that found a critical or high alert is not reported HEALTHY, by
\* whichever of the two the score is computed - unless the engine's total is 0,
\* which is reported as 85. The agents that differ are not among those alerts.
SevereNeverHealthy ==
  report'.status = "HEALTHY" =>
    \/ alerts["HIGH"] = 0
    \/ report'.by = "engine" /\ calculateHealth = 0

\* The score goes the way of the findings, by either computation.
ScoreIsFair == [][WorseNeverHelps /\ SevereNeverHealthy]_scoreVars
=============================================================================
