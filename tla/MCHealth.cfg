\* The exit of a container whose probe has just returned.
SPECIFICATION HlSpec
CONSTANTS
  HlMax = 4
  HlLoads <- MCHlLoads
PROPERTIES
  HandlerReturns
CHECK_DEADLOCK FALSE
