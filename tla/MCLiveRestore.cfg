\* The daemon dies and restores the container; the stream replays an event.
SPECIFICATION LrSpec
CONSTANTS
  LrLoads <- MCLrLoads
INVARIANTS
  StatesAgree
CHECK_DEADLOCK FALSE
