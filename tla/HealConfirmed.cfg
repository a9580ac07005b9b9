SPECIFICATION HealSpec
CONSTANTS
  Findings = {h1}
  HealedFiles = {f1}
  User = User
INVARIANT ConfirmedMeansFixed
CHECK_DEADLOCK FALSE
