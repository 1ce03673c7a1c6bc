SPECIFICATION FairSpec
CONSTANTS
  m1 = m1
  m2 = m2
  m3 = m3
  m4 = m4
  ticker = ticker
  f1 = f1
  f2 = f2
  f3 = f3
  Messages = {m1, m2, m3, m4}
  Urgent = {m1}
  Flushers = {ticker, f1, f2, f3}
  Ticker = ticker
  MaxQueue = 2
INVARIANTS
  TypeOK
  Conservation
  FullQueueIsFlushed
PROPERTY EveryMessageSettles
