SPECIFICATION Spec
CONSTANTS
  Values = {0, 1, 2}
  MaxTime = 2
  MaxReadings = 3
  Limit = 2
INVARIANTS
  TypeOK
  StopIsReported
  BackupsRepeat
PROPERTY LagIsBounded
