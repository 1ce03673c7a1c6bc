SPECIFICATION FairSpec
CONSTANTS
  m1 = m1
  m2 = m2
  c1 = c1
  c2 = c2
  p1 = p1
  Nobody = Nobody
  Calls = {m1, m2}
  ChargePoints = {p1}
  Connections = {c1, c2}
  PointOf <- PointOfDef
  Target <- TargetDef
  Caller <- CallerDef
  MaxAnswers = 2
  MaxBreaks = 1
INVARIANTS
  TypeOK
  NoChannelPanic
  NoLeak
  InlineNeedsOtherLoop
PROPERTIES
  TimeoutMeansNoAnswer
  ImplementsRemoteCall
  EveryCallReturns
