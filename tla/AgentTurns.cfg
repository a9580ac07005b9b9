SPECIFICATION Spec
CONSTANTS
  Turns = {u1, u2}
  CallIds = {c1, c2}
  NoTurn = NoTurn
  NoCall = NoCall
CHECK_DEADLOCK FALSE
INVARIANTS
  GateHolds
  AnswerDecidesItsTurn
PROPERTIES
  EveryTurnStops
