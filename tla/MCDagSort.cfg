SPECIFICATION Spec
CONSTANTS
  Inputs <- MCLists
INVARIANTS
  VerdictIsRight
  DependenciesPlacedFirst
  SortKeepsPlaceable
CHECK_DEADLOCK FALSE
