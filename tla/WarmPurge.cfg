SPECIFICATION Spec
CONSTANTS
  Streams = {s1, s2}
  Models = {m1, m2}
  Procs = {p1, p2}
  None = None
  MaxCrashes = 1
INVARIANTS
  NoOrphan
PROPERTIES
  PurgeInSilence
  EveryRequestEnds
