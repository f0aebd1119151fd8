CONSTANT Families <- AllFamilies
SPECIFICATION Spec
CHECK_DEADLOCK FALSE
INVARIANTS
  TypeOK
  ValueAndReadsAreRight
  IllSortedCodeIsNamed
  LabelsPlacedOnce
  JumpsHaveTargets
