CONSTANTS
  Connections = {c1, c2}
  DelayedClose = TRUE
  Configurations = {k1, k2}
  NoConfiguration = NoConfiguration
  StopsEarly = FALSE
  MaxQueued = 2
SPECIFICATION Spec
INVARIANTS KnownAreUsable UsersHaveEngine
PROPERTIES SocketsFreed
