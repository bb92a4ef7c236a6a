CONSTANTS
  c1 = c1  c2 = c2  c3 = c3
  u1 = u1  u2 = u2  u3 = u3
  ClientIds = {c1, c2, c3}
  Uuids = {u1, u2, u3}
  NoClient = NoClient
  NullUuid = NullUuid
  MaxAddress = 4
  ConnectionLimit = 2
  MaxVanished = 0
SPECIFICATION Spec
SYMMETRY Symmetry
PROPERTY FreeAddressAssertion
