------------------------------ MODULE Reports ------------------------------
(***************************************************************************)
(* The two reports on the project that a reader takes its word from: the   *)
(* validation of a suite and the coverage of its technologies.             *)
(***************************************************************************)
EXTENDS TestValidation, IntelligenceCoverage

\* What is reported of the project can be relied on: a suite reported successful has
\* had every process of it end well, and none that failed is lost (TestValidation);
\* the report on coverage misses no technology the files show, and repeats none from
\* the report before but the three that fit a pattern (IntelligenceCoverage).
ReportsAreTrue == RunIsJudged /\ CoverageIsTrue
=============================================================================
