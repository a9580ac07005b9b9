SPECIFICATION Spec
CONSTANTS
  Files = {f1}
  Agents = {f1}
  Callers = {r1}
  Pages = {g1}
  Stream = Stream
  PageBuffer = 1
  MaxEdits = 3
  MaxOthers = 1
  MaxJoins = 2
INVARIANTS
  BacklogHasRunner
PROPERTIES
  ImplementsLossyFanout
  EveryChangeCompared
CHECK_DEADLOCK FALSE
