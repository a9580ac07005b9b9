SPECIFICATION CacheSpec
CONSTANTS
  Analysers = {a1, a2}
  Paths = {p1}
  Unsupported = {}
  Contents = {t1, t2}
  None = None
  MaxRequests = 4
INVARIANTS
  AnswersFitTheirText
CHECK_DEADLOCK FALSE
