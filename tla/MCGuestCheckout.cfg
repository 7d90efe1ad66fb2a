CONSTANTS
  s1 = s1
  s2 = s2
  r1 = r1
  r2 = r2
  r3 = r3
  k1 = k1
  k2 = k2
  p1 = p1
  p2 = p2
  Sessions = {s1, s2}
  Issued = {s1}
  Requests = {r1, r2, r3}
  Before <- MCBefore
  Keys = {k1}
  PaymentKeys = {k1, k2}
  Payloads = {p1, p2}
  HoldFor = 1
  RetryFor = 1
  SessionFor = 2
  RetainFor = 2
  BatchSize = 1
  MaxDay = 2
  MaxFailures = 1
SPECIFICATION FairSpec
INVARIANT TypeOK
INVARIANT OneCheckoutPerCommand
INVARIANT SessionsKeepTheirCheckouts
INVARIANT OnlyRetriesOutliveRedaction
PROPERTY FaithfulAnswers
PROPERTY EventuallyRedacted
CHECK_DEADLOCK FALSE
