SPECIFICATION Spec
CONSTANTS
  Reservations = {a, b}
  Created = {a, b}
  Serial = {b}
  Handlers = {h1, h2}
  Ends = {0, 1}
  ActualEnds = {1, 2}
  Grace = 1
  MaxRows = 1
  None = None
SYMMETRY HandlerSymmetry
INVARIANTS
  UseHolds
  OvertimeHolds
  ReschedulingHolds
PROPERTIES
  TurnsFollowStateMachine
CHECK_DEADLOCK FALSE
