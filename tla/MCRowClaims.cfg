SPECIFICATION FairSpec

CONSTANTS
  t1 = t1
  t2 = t2
  p1 = p1
  None = None
  Transactions = {t1, t2}
  Checkouts = {1, 2}
  Products = {p1}
  ProductOf <- OneProduct
  Stock <- Scarce
  Held = {1}
  Kinds = {"read", "create", "attempt", "event", "pass"}
  Reports = {"APPROVED", "PENDING"}

INVARIANTS
  DeadlockNeedsASweep

PROPERTIES
  ImplementsHoldLedger
  EveryTransactionEnds
