SPECIFICATION FairSpec
CONSTANTS
  Connections = {c1, c2, c3}
  NoConnection = NoConnection
  Transports = {"tcp", "ssl", "webSocket"}
  DelayedClose = TRUE
  SocketAddresses = {1, 2}
  FailsAtOnce = TRUE
  StartsRunning = {TRUE, FALSE}
INVARIANTS SessionHasConnection
PROPERTIES StoppedStaysDown OldConnectionHarmless RunningComesBack
