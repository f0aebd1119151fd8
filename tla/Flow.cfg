CONSTANTS
  Families <- AllFamilies
  MaxElseIfs = 2
  ExprLabels = {1}
SPECIFICATION Spec
CHECK_DEADLOCK FALSE
INVARIANTS
  TypeOK
  LabelsPlacedOnce
  NoDanglingJump
  BreakStackMatchesLoops
  CodeFollowsSource
  StackHeightsAgree
