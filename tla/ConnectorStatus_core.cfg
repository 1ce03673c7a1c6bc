SPECIFICATION Spec
CONSTANTS
  k1 = k1
  r1 = r1
  r2 = r2
  admin = admin
  monitor = monitor
  Connectors = {k1}
  Statuses = {"Available", "Charging", "Preparing", "Faulted"}
  Readers = {r1, r2}
  Monitors = {monitor}
  Admins = {admin}
  MaxMisses = 1
SYMMETRY Symmetry
INVARIANTS
  TypeOK
  RowsAreFew
  OverallIsFresh
