SPECIFICATION Spec
CONSTANTS
  Entitlements = {e1, e2}
  Serial = {e2}
  Keys = {k1, k2}
  Requests = {r1, r2, r3}
  Quantities = {1, 2}
  Totals = {2}
  NoAnswer = NoAnswer
SYMMETRY IdSymmetry
INVARIANTS
  QuantityHolds
  RequestsHold
  BooksBalance
PROPERTIES
  QuantityChangesWithItsRow
  KeepsIdempotencyPromise
CHECK_DEADLOCK FALSE
