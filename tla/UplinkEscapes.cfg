CONSTANTS
  Parts = {"uplink"}
  Frames <- EscapedFrames
  InconsistentFrames <- NoCodes
  TunnelFrames <- MCTunnelFrames
  FragmentRequests = FALSE
  FragmentResponses = FALSE
  CoalesceReads = FALSE
  Modes = {"interactive"}
  CoalesceRequests = FALSE
  CutEnds = FALSE
  MaxUp = 3
  MaxDown = 0
  MaxLength = 0
  MaxRequests = 1
  MaxPieces = 4
SPECIFICATION Spec
CHECK_DEADLOCK FALSE
INVARIANT FramesIntact
