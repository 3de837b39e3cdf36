SPECIFICATION Spec
CONSTANTS
  q1 = q1
  q2 = q2
  n1 = n1
  n2 = n2
  Queries <- MCQueries
  Natives <- MCNatives
  Concurrency = 2
  MaxTargets = 2
INVARIANTS RoomForResults NothingHeldAfterAnswer
PROPERTIES PoolSpec QueriesAreAnswered
