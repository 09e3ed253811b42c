\* An event that is created, served and closed by two overlapping requests.
\* The bounds end the day; nothing is due when it is over.
CONSTANTS
  Handlers = {h1, h2}
  Managers = {manager}
  Slots = {s1, s2}
  None = None
  MaxTime = 2
  Headcount = 1
  MaxCheckIns = 3
  MaxFlags = 1
  MaxActive = 1
SPECIFICATION CheckInSpec
SYMMETRY Symmetry
INVARIANTS
  CapacityHolds
  WindowsApart
PROPERTIES
  ServedInTurn
CHECK_DEADLOCK FALSE
