CONSTANTS
  c1 = c1
  p1 = p1
  Checkouts = {c1}
  Products = {p1}
  ProductOf <- OneProduct
  Quantity <- OneUnit
  InitialStock <- Stock1
  MaxAttempts = 3
  FirstStatuses = {"PENDING"}
  ProviderMoves <- FlippingMoves
  MismatchPossible = FALSE
  EscalateUnresolved = FALSE
  ForgetReceipts = FALSE
  Skew = 0
  MaxLookUps = 0
  MaxNow = 0
SPECIFICATION Spec
INVARIANT TypeOK
INVARIANT StockConserved
INVARIANT SaleIsConsistent
INVARIANT PaymentInProgress
INVARIANT EventsAcknowledged
INVARIANT RetryLimit
INVARIANT AtMostOneCharge
INVARIANT NoChargeBehindFailure
PROPERTY ApprovedIsFinal
PROPERTY ImplementsHoldLedger
CHECK_DEADLOCK FALSE
