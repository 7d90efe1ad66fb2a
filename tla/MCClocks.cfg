CONSTANTS
  c1 = c1
  p1 = p1
  Checkouts = {c1}
  Products = {p1}
  ProductOf <- OneProduct
  Quantity <- OneUnit
  InitialStock <- Stock1
  MaxAttempts = 1
  FirstStatuses = {"PENDING"}
  ProviderMoves <- VoidingMoves
  MismatchPossible = TRUE
  EscalateUnresolved = TRUE
  ForgetReceipts = TRUE
  Skew = 1
  MaxLookUps = 1
  MaxNow = 2
SPECIFICATION FairSpec
PROPERTY StampsMonotone
PROPERTY ContradictionFlagged
PROPERTY ApprovalIsRecorded
CHECK_DEADLOCK FALSE
