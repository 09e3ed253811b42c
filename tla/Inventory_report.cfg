\* The system may rest: nobody has to ask for a report, and the days are bounded.
SPECIFICATION InventorySpec
CHECK_DEADLOCK FALSE
CONSTANTS
  Items <- MCItems
  Reporters <- MCHandlers
  MaxDay = 2
  MaxLevel = 2
  PageSize = 2
  MaxResolutions = 1
  MaxChanges = 1
  MaxReports = 1
INVARIANTS
  ReportsAreComplete
  SnapshotsAreOfTheirDay
PROPERTIES
  EveryDayIsTaken
