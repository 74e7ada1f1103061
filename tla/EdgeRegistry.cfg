SPECIFICATION RegistrySpec
CONSTANTS
  b1 = b1
  b2 = b2
  a1 = a1
  a2 = a2
  a3 = a3
  Backends = {b1, b2}
  AgentIds = {a1, a2, a3}
  Homes <- OneHomeEach
  Regs = {r1, r2, r3}
  Absent = Absent
SYMMETRY Symmetry
VIEW WithoutGarbage
INVARIANTS
  MapsAgree
PROPERTIES
  SlotsSpec
