\* The system may rest: nobody has to upload or confirm anything.
SPECIFICATION IssuanceSpec
CHECK_DEADLOCK FALSE
CONSTANTS
  Issuers <- MCHandlers
  IssuanceRules <- MCRules
  Formula <- MCFormula
  Files <- MCFiles
  MaxBatches = 2
  MaxManual = 1
  MaxImported = 4
INVARIANTS
  ImportedOnce
  ImportIsWhole
PROPERTIES
  RulesApply
