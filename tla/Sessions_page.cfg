\* The system may rest: nobody has to press anything.
SPECIFICATION Spec
CHECK_DEADLOCK FALSE
CONSTANTS
  Handlers <- MCHandlers
  Requests <- MCRequests
  None = None
  MaxRoles = 1
  MaxAged = 1
  MaxCalls = 1
INVARIANTS
  RotatedOnce
  LogoutEndsSessions
PROPERTIES
  RequestsEnd
