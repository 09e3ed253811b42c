\* The server may stay down.
SPECIFICATION MCSpec
CHECK_DEADLOCK FALSE
CONSTANTS
  Keys = 2
  MaxVersion = 3
  MaxPurges = 2
  MaxStarts = 2
  MaxBackups = 2
  MaxDrills = 1
INVARIANTS
  TimersMatchEntries
  PurgeLasts
  BackupsAreTold
PROPERTIES
  StaleValuesGo
  BackupsEnd
