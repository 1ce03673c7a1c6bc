SPECIFICATION Spec
CONSTANTS
  p1 = p1
  p2 = p2
  k1 = k1
  k2 = k2
  l1 = l1
  l2 = l2
  l3 = l3
  c1 = c1
  a1 = a1
  s1 = s1
  none = none
  ChargePoints = {p1, p2}
  Loops = {l1, l2, l3}
  PointOf <- PointOfDef
  Connectors = {k1, k2}
  Owner <- OwnerDef
  NoConnector = none
  Closers = {}
  Admins = {}
  Stoppers = {}
  Meters = {0}
  Parts = 1
  Energies = {}
  Faults = {"read", "save"}
  Wrap = 10
  MaxRows = 2
  MaxPendings = 1
  MaxSecond = 2
SYMMETRY LoopSymmetry
VIEW WithoutReadings
INVARIANTS
  LinksMatch
  ToldIdStopsOwnRow
