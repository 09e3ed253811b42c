SPECIFICATION Spec
CONSTANTS
  Approvals = {a, b}
  Serial = {b}
  Users = {u, v, w}
  Handlers = {h1, h2}
  Amounts = {m1, m2}
  Dual = {FALSE, TRUE}
  None = None
SYMMETRY IdSymmetry
INVARIANTS
  SignaturesHold
  EffectsHold
PROPERTIES
  DecidedOnce
CHECK_DEADLOCK FALSE
