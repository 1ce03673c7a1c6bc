SPECIFICATION Spec
CONSTANTS
  a1 = a1
  a2 = a2
  t1 = t1
  t2 = t2
  NoRow = NoRow
  Requests = {a1, a2}
  TagOf <- TagOfDef
  Tags = {t1, t2}
  MaxTime = 1
  MaxPosts = 1
SYMMETRY Alike
INVARIANTS
  TypeOK
  AcceptedWasValid
  AcceptedIsKnown
PROPERTY AdminDecides
