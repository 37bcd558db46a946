SPECIFICATION ShopsSpec
CONSTANTS
  Row = {1, 2, 3}
  Untradeable = {3}
  PageSize = 2
  Process = {"service", "once"}
  Day = 3
  MaxFetch = 1
  MaxTime = 14
  MaxChanges = 1
  MaxFailures = 1
INVARIANTS StampHonest AgeBounded
CHECK_DEADLOCK FALSE
