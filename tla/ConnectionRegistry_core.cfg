SPECIFICATION FairSpec
CONSTANTS
  c1 = c1
  c2 = c2
  nobody = nobody
  Conns = {c1, c2}
  Nobody = nobody
  Old = 1
INVARIANTS
  TypeOK
  ClientHasReader
PROPERTIES
  OnlyOthersEvict
  GoneIsNoticed
