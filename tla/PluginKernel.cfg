SPECIFICATION AllSpec
CONSTANTS
  Plugins <- MCPlugins
  Tools <- MCTools
  Provides <- MCProvides
  BootOrder <- MCBootOrder
  Teardown = {"fs"}
  MayThrow = {"ext"}
  Requests = {r1, r2}
  MaxRequests = 4
  Sessions = {n1, n2}
  MaxEvents = 3
  MaxTorn = 1
  MaxRestarts = 1
  MaxSyncs = 2
  MaxLost = 1
  Roots = {"r"}
  UserVault = "f"
  EnvVaults = {}
  WithInsights = {"r"}
  Memories = {"m1"}
  Listings = {"l1", "l2"}
  maxRetries = 2
  MaxConnections = 2
  MaxEditions = 2
SYMMETRY RequestSymmetry
INVARIANTS
  ToolsOfAppliedPlugins
  HistoryKept
  VaultKeepsItsWord
PROPERTIES
  SyncIsComplete
\* The bounds use up the steps.
CHECK_DEADLOCK FALSE
