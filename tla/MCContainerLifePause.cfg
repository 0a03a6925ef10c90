\* Two clients, one start.
SPECIFICATION LifeFairSpec
CONSTANTS
  NoOne = NoOne
  Callers = {p1, p2}
  MaxCreates = 1
  LifeLoads <- PauseExec
PROPERTIES
  PauseEnds
CHECK_DEADLOCK FALSE
