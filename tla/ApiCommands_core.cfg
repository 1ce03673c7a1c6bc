SPECIFICATION FairSpec
CONSTANTS
  r1 = r1
  r2 = r2
  Requests = {r1}
INVARIANTS
  TypeOK
  SuccessIsEarned
  ResetIsLast
PROPERTY EveryRequestIsAnswered
