SPECIFICATION Spec

CONSTANTS
  t1 = t1
  t2 = t2
  p1 = p1
  None = None
  Transactions = {t1, t2}
  Checkouts = {1, 2}
  Products = {p1}
  ProductOf <- OneProduct
  Stock <- Plenty
  Held = {1, 2}
  Kinds = {"read", "attempt"}
  Reports = {"APPROVED"}

SYMMETRY Connections

INVARIANTS
  NoOppositeWaits
