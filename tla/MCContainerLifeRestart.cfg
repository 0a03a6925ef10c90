\* One client, two starts.
SPECIFICATION LifeFairSpec
CONSTANTS
  NoOne = NoOne
  Callers = {p1}
  MaxCreates = 2
  LifeLoads <- RestartAlways
PROPERTIES
  RestartRuns
CHECK_DEADLOCK FALSE
