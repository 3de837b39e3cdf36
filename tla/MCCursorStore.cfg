SPECIFICATION Spec
CONSTANTS
  q1 = q1
  q2 = q2
  q3 = q3
  Queries <- MCQueries
  PageSizes <- MCPageSizes
  MaxEntries = 2
  MaxRows = 3
  TTL = 2
  Limit = 3
  MaxTime = 3
CHECK_DEADLOCK FALSE
INVARIANTS TypeOK WithinCount WithinRows SingleUse
PROPERTIES LostOnlyUnderPressure StreamSpec
