CONSTANTS
  a1 = a1
  a2 = a2
  i1 = i1
  i2 = i2
  q1 = q1
  Attempts = {a1, a2}
  Instances = {i1, i2}
  Clients = {q1}
  Batch = 1
  PassEvery = 3
  RestFor = 3
  PollAfter = 1
  LeaseFor = 2
  StaleAfter = 2
  LookupFor = 1
  MaxCrashes = 1
SPECIFICATION FairSpec
INVARIANT TypeOK
INVARIANT PassesLookUpApart
PROPERTY NoStarvation
PROPERTY SilenceEnds
CHECK_DEADLOCK FALSE
