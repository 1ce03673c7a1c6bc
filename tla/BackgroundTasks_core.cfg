SPECIFICATION FairSpec
CONSTANTS
  p1 = p1
  p2 = p2
  c1 = c1
  c2 = c2
  c3 = c3
  Nobody = Nobody
  Connectors = {c1, c2, c3}
  ChargePoints = {p1, p2}
  Owner <- OwnerDef
INVARIANTS
  TypeOK
  PollerAsksOwner
PROPERTIES
  EveryoneIsAsked
  OrphanIsReported
