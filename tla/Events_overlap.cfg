SPECIFICATION Spec
CONSTANTS
  Approvals = {a}
  Serial = {a}
  Users = {u, v}
  Creator = u
  Handlers = {h1}
  Editors = {e1, e2}
  Amounts = {20, 24, 26}
  SystemCap = 25
  Dual = {FALSE}
  Rules = {r}
  MaxEdits = 2
  MaxIssued = 2
  None = None
SYMMETRY IdSymmetry
INVARIANTS
  LifeHolds
  BudgetHolds
PROPERTIES
  ForwardOnly
CHECK_DEADLOCK FALSE
