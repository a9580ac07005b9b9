SPECIFICATION MCSpec
CONSTANTS
  TaskIds = {t1, t2}
  MaxConcurrency = 2
  MaxEnqueues = 5
  MaxOwnEnqueues = 4
INVARIANTS
  ActiveCountExact
  NoStrandedTask
PROPERTIES
  StartsInOrder
  ChangesAudited
  ImplementsJobPool
