\* The system may rest: nobody has to create or change anything.
SPECIFICATION CatalogSpec
CHECK_DEADLOCK FALSE
CONSTANTS
  h1 = h1
  h2 = h2
  field = field
  Editors <- MCHandlers
  Fields <- MCFields
  Rules <- MCRules
  MaxResources = 2
  MaxTemplates = 2
  MaxWrites = 2
SYMMETRY MCSymmetry
INVARIANTS
  MetadataWereChecked
  TreeShowsPublished
