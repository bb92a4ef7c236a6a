CONSTANTS
  Modes = {"interactive", "nonInteractive", "json"}
  CoalesceRequests = TRUE
  CutEnds = FALSE
  MaxRequests = 2
  MaxPieces = 8
SPECIFICATION Spec
PROPERTIES AskedOnceAnswered EndNoticed
CHECK_DEADLOCK FALSE
