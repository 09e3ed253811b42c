SPECIFICATION Spec
CONSTANTS
  Handlers = {h1, h2}
  MaxVersions = 2
SYMMETRY HandlerSymmetry
INVARIANTS
  ReviewHolds
PROPERTIES
  VersionsAreKept
  StaysListed
CHECK_DEADLOCK FALSE
