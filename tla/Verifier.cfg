CONSTANTS
  Lists <- MCLists
  StripSets <- MCStripSets
  Sizes = 16
SPECIFICATION Spec
INVARIANTS VerdictExact MissingExact
