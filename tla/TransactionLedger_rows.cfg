SPECIFICATION FairSpec
CONSTANTS
  p1 = p1
  p2 = p2
  k1 = k1
  k2 = k2
  l1 = l1
  l2 = l2
  l3 = l3
  c1 = c1
  a1 = a1
  s1 = s1
  none = none
  ChargePoints = {p1}
  Loops = {l1}
  PointOf <- PointOfDef
  Connectors = {k1}
  Owner <- OwnerDef
  NoConnector = none
  Closers = {c1}
  Admins = {a1}
  Stoppers = {s1}
  Meters = {0, 5}
  Parts = 2
  Energies = {0, 2, 3}
  Faults = {"read", "create", "save"}
  Wrap = 2
  MaxRows = 1
  MaxPendings = 0
  MaxSecond = 2
INVARIANTS
  TypeOK
  EnergyNearMeters
PROPERTIES
  RowsOnlyAdvance
  AbandonedIsClosed
