CONSTANTS
  c1 = c1  c2 = c2  c3 = c3
  u1 = u1  u2 = u2  u3 = u3
  ClientIds = {c1, c2, c3}
  Uuids = {u1, u2, u3}
  NoClient = NoClient
  NullUuid = NullUuid
  MaxAddress = 3
  ConnectionLimit = 3
  MaxVanished = 0
SPECIFICATION Spec
SYMMETRY Symmetry
INVARIANTS TypeOK UuidOwnership TunnelTablesAgree DataHasServer ServerViewMatches StatisticsAgree
PROPERTIES TunnelEndsWithPeer RoleIsFinal FreeAddressAssertion ImplementsRegistry
