CONSTANTS
  c1 = c1
  p1 = p1
  Checkouts = {c1}
  Products = {p1}
  ProductOf <- OneProduct
  Quantity <- OneUnit
  InitialStock <- Stock1
  MaxAttempts = 1
  FirstStatuses = {"PENDING"}
  ProviderMoves <- FinalMoves
  MismatchPossible = FALSE
  EscalateUnresolved = FALSE
  ForgetReceipts = FALSE
  Skew = 0
  MaxLookUps = 0
  MaxNow = 1
SPECIFICATION Spec
PROPERTY ReviewHasCause
CHECK_DEADLOCK FALSE
