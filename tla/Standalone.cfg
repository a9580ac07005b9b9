SPECIFICATION Spec
CONSTANTS
  Samples <- EveryChoice
  SourceFiles = {s1, s2}
  CoreFiles = {s1}
  Divergent = 1
  MaxAlerts <- Alerts
  MaxLosses = 1
  Sources <- ImportOrder
  Imports <- ImportsOf
  Branches <- BranchesOf
  Answers <- Texts5
  DarkMatter <- Undocumented
  TestWorkers = {w1, w2}
  Edited = {"c"}
  MaxPlans = 2
  MaxTasks = 2
  MaxEdits = 1
  Findings = {h1, h2, h3}
  HealedFiles = {f1, f2}
  User = User
  Commands = {"c1"}
  Shells = {"t1", "t2"}
  Terminals = {"i1"}
  Cap = 2
  MaxOutput <- Output4
  Written <- Written5
  Targets <- Targets2
  Replacements <- Put
  Spots <- Entries
  Titles = {"none", "a", "b", "7"}
  NoTitle = "none"
  Numeric = {"7"}
  MaxVersions = 3
  Analysers = {a1, a2}
  Paths = {"code", "text"}
  Unsupported = {"text"}
  Contents = {"v1", "v2"}
  None = None
  MaxRequests = 3
  Loads = {5, 95}
  Changed = {"f", "g", "l"}
  Accented = {"g"}
  Unfit = {"l"}
  RingSize = 2
  MaxNews = 3
  Executions = {x1, x2}
  Binaries = {"database"}
  Limits = {1, 3}
  MaxPurges = 1
  Tests = {"t"}
  Zigs = {"z"}
  Complex = {"m"}
  FindingLists <- Found7
  ChangeLists <- Watched2
  Handlers = {l1, l2}
  Emissions = {e1, e2}
  Hooks = {k1, k2}
  MaxListeners = 3
  MaxLists = 2
  MaxNext = 2
  MaxHooks = 3
  Walk <- Tree
  ReportFile = "report"
  PathWords <- InPath
  Projects <- Projects2
  Rewrites <- Words3
  MaxRewrites = 2
INVARIANTS
  ReadsWhatWasSent
  TestsTrusted
  NothingLost
  ToolsAnswerTruly
  FilesAnswerTruly
  StaleOnlyByTheOther
  BudgetFollowed
  AgentsAnswer
  BusDelivers
  ReportsAreTrue
PROPERTIES
  ScoreIsFair
\* The bounds use up the steps.
CHECK_DEADLOCK FALSE
