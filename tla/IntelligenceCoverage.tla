-------------------------- MODULE IntelligenceCoverage --------------------------
(***************************************************************************)
(* The report of the technologies a project uses and of the personas that  *)
(* answer for them                                                         *)
(* (src_local/engines/diagnostics/intelligence_control_engine.ts).         *)
(*                                                                         *)
(* A text or a path is the set of the words of the catalog it contains,    *)
(* one word standing for those of a pattern that are treated alike. The    *)
(* report is itself a file of the project: its rows name the technologies  *)
(* and the first evidence for each, and the next diagnosis reads it.       *)
(***************************************************************************)
EXTENDS Naturals, Sequences, FiniteSets, SequencesExt

CONSTANTS
  Walk,         \* the files in the order of getAllFiles, ReportFile among them
  ReportFile,   \* docs/INTELLIGENCE_COVERAGE_REPORT.md
  PathWords,    \* file -> words of its path
  Projects,     \* what the files may hold at first
  Rewrites,     \* texts a file may be given
  MaxRewrites   \* bound

VARIABLES
  text,      \* file -> its words, {"absent"} when it is not there
  reports,   \* history: the last two reports, [detected, blindspots, coverage, shown]
  rewrites   \* files rewritten

coverageVars == <<text, reports, rewrites>>

Missing == {"absent"}

-----------------------------------------------------------------------------
\* techCatalog: the pattern of each technology.
pattern ==
  [ts_bun |-> {"Bun.serve"},
   slm_gguf |-> {".gguf", "WarmPurgeOfflineEngine", "llama"},
   local_slm_engine |-> {"LocalSLMEngine", "WarmPurgeOfflineEngine"},
   zvec_grep |-> {"@zvec/zvec-grep", "ZvecGrepEngine"},
   wasm_micro_agents |-> {".wasm", "WASI"},
   zig_native_ffi |-> {".zig", "libzig_analyzer"},
   go_hub_grpc |-> {"hub.exe", "@grpc/grpc-js"},
   rust_simd |-> {"PatternFinder", "cargo"},
   winui_dsh_desktop |-> {"PsaServer"},
   sqlite_persistence |-> {"DatabaseHub"},
   micro_gpt_neural |-> {"MicroGPT"}]

\* The report's own path fits no pattern, that of build.zig the one of Zig.
ASSUME CoverageAssumption ==
  /\ Walk \in Seq(ToSet(Walk)) /\ ReportFile \in ToSet(Walk)
  /\ \A initial \in Projects : DOMAIN initial = ToSet(Walk)
  /\ \A tech \in DOMAIN pattern : PathWords[ReportFile] \cap pattern[tech] = {}
  /\ PathWords["build.zig"] \cap pattern["zig_native_ffi"] # {}

\* The words of the patterns that are in the name of the technology.
NameWords(tech) ==
  CASE tech = "slm_gguf" -> {"llama"}
    [] tech = "local_slm_engine" -> {"llama"}
    [] tech = "wasm_micro_agents" -> {"WASI"}
    [] tech = "micro_gpt_neural" -> {"MicroGPT"}
    [] OTHER -> {}

\* The words that package.json must have for a technology, one of them.
PackageWords ==
  [ts_bun |-> {"typescript"}, zvec_grep |-> {"@zvec/zvec-grep"},
   wasm_micro_agents |-> {".wasm", "wasm", "agents_registry"},
   go_hub_grpc |-> {"@grpc/grpc-js"}, winui_dsh_desktop |-> {"ui"}]

manifests == <<"package.json", "Cargo.toml", "build.zig">>

\* A manifest that is there and says something.
Says(file) == file \in ToSet(Walk) /\ text[file] \notin {Missing, {}}

manifestCheck(tech) ==
  CASE tech \in DOMAIN PackageWords ->
         Says("package.json") /\ text["package.json"] \cap PackageWords[tech] # {}
    [] tech = "zig_native_ffi" -> Says("build.zig")
    [] OTHER -> FALSE

\* The first manifest with the pattern is an evidence, and package.json without it.
ManifestEvidence(tech) ==
  LET admitted == {i \in DOMAIN manifests :
        /\ manifestCheck(tech) /\ Says(manifests[i])
        /\ manifests[i] = "package.json" \/ text[manifests[i]] \cap pattern[tech] # {}}
  IN  {manifests[i] : i \in {i \in admitted : \A j \in admitted : i <= j}}

Matches(tech, file) ==
  text[file] # Missing /\ (text[file] \cup PathWords[file]) \cap pattern[tech] # {}

\* detectProjectTechnologies, one technology: the first n evidences, the manifest and
\* then the files in the order they are met. It stops at five.
evidences(tech, n) ==
  LET first == ManifestEvidence(tech)
      more == {i \in DOMAIN Walk : Walk[i] \notin first /\ Matches(tech, Walk[i])}
  IN  first \cup {Walk[i] : i \in {i \in more :
                    Cardinality(first) + Cardinality({j \in more : j < i}) < n}}

detectProjectTechnologies == {tech \in DOMAIN pattern : evidences(tech, 5) # {}}

\* evaluatePersonaCapabilities: handledTechs.
handledTechs ==
  [strategic_cognitive_architect |->
     {"slm_gguf", "local_slm_engine", "zvec_grep", "micro_gpt_neural", "ts_bun"},
   audit_code_guardian |-> {"rust_simd", "go_hub_grpc", "ts_bun"},
   security_cloud_guardian |-> {"ts_bun", "local_slm_engine"},
   architecture_types |-> {"go_hub_grpc", "rust_simd", "ts_bun"},
   resilience_healing_architect |-> {"sqlite_persistence", "ts_bun", "zig_native_ffi"},
   sys_perf_architect |-> {"ts_bun", "wasm_micro_agents"},
   sync_devops_architect |-> {"go_hub_grpc", "ts_bun"},
   ui_ux_architect |-> {"winui_dsh_desktop", "ts_bun"}]

\* writeMarkdownReport: the name of each technology and its first two evidences.
\* Faulty: each row gives the pattern of its technology.
RowsWithPattern(detected) == UNION {pattern[tech] : tech \in detected}

ReportText(detected) ==
  (UNION {NameWords(tech) : tech \in detected})
  \cup UNION {PathWords[f] : f \in UNION {evidences(tech, 2) : tech \in detected}}

-----------------------------------------------------------------------------
CoverageInit ==
  /\ text \in Projects
  /\ reports = << >> /\ rewrites = 0

\* The project changes between diagnoses; a file is written or removed.
Rewrite(file, words) ==
  /\ file # ReportFile /\ rewrites < MaxRewrites /\ text[file] # words
  /\ text' = [text EXCEPT ![file] = words]
  /\ rewrites' = rewrites + 1
  /\ UNCHANGED reports

\* What the files other than the report show.
Shown == {tech \in DOMAIN pattern : manifestCheck(tech) \/ \E f \in ToSet(Walk) \ {ReportFile} : Matches(tech, f)}

\* One report, which replaces the one before it. The coverage is in tenths of a
\* percent.
generateReport ==
  LET detected == detectProjectTechnologies
      blindspots == detected \ UNION {handledTechs[p] : p \in DOMAIN handledTechs}
      n == Cardinality(detected)
      report == [detected |-> detected, blindspots |-> blindspots, shown |-> Shown,
                 coverage |-> IF n > 0 THEN (2000 * (n - Cardinality(blindspots)) + n) \div (2 * n)
                              ELSE 1000]
  IN  /\ reports' = Append(IF Len(reports) = 2 THEN Tail(reports) ELSE reports, report)
      /\ text' = [text EXCEPT ![ReportFile] = ReportText(detected)]
      /\ UNCHANGED rewrites

CoverageNext ==
  \/ \E file \in ToSet(Walk), words \in Rewrites \cup {Missing} : Rewrite(file, words)
  \/ generateReport

CoverageSpec == CoverageInit /\ [][CoverageNext]_coverageVars

-----------------------------------------------------------------------------
\* A report misses nothing a file shows. What it has beyond that it has read in the
\* report before it: two reports on end only the three technologies whose own name
\* fits a pattern, and of the others none, as a path that was an evidence is not
\* listed again once its file is gone.
CoverageIsTrue ==
  /\ \A i \in DOMAIN reports : reports[i].shown \subseteq reports[i].detected
  /\ Len(reports) = 2 =>
       (reports[1].detected \ reports[1].shown) \cap (reports[2].detected \ reports[2].shown)
         \subseteq {"slm_gguf", "wasm_micro_agents", "micro_gpt_neural"}
=============================================================================
