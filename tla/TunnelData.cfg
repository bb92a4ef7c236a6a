CONSTANTS
  Clients = {c1, c2, c3}
  NoClient = NoClient
  Reserved = 3
  MaxData = 2
  MaxServers = 2
SPECIFICATION Spec
SYMMETRY Symmetry
INVARIANTS OnlyPeerData AllForwarded WrittenBeforeDisconnect
CHECK_DEADLOCK FALSE
