SPECIFICATION FairSpec
CONSTANTS
  Connections = {c1, c2, c3}
  NoConnection = NoConnection
  Transports = {"tcp", "ssl", "webSocket"}
  DelayedClose = TRUE
  FailsAtOnce = TRUE
  StartsRunning = {TRUE, FALSE}
  CoalesceReads = FALSE
  MaxData = 2
INVARIANTS RemoteConnectedIsRegistered TunnelDataComplete
PROPERTIES AttemptSettles
