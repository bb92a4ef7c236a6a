CONSTANTS
  Parts = {"codec", "uplink", "downlink", "monitor"}
  Frames <- PlainFrames
  InconsistentFrames <- FaultyCodes
  TunnelFrames <- MCTunnelFrames
  FragmentRequests = FALSE
  FragmentResponses = FALSE
  CoalesceReads = FALSE
  Modes = {"interactive", "nonInteractive", "json"}
  CoalesceRequests = TRUE
  CutEnds = TRUE
  MaxUp = 4
  MaxDown = 5
  MaxLength = 5
  MaxRequests = 2
  MaxPieces = 8
SPECIFICATION Spec
CHECK_DEADLOCK FALSE
INVARIANTS UplinkIntact DownlinkIntact OnlyWholeResponses CodecAgrees
