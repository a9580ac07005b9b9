SPECIFICATION FlawedSpec
CONSTANTS
  Files = {f1, f2}
  Agents = {f1}
  Procs = {p1, p2}
  MaxEdits = 1
  MaxMishaps = 1
SYMMETRY ProcSymmetry
INVARIANTS
  SkippedWasAudited
  HiddenFlawOnRecord
