CONSTANT Families <- AllFamilies
SPECIFICATION Spec
CHECK_DEADLOCK FALSE
INVARIANTS
  TypeOK
  DefinitionsKeepTheirBodies
  CallsReachTheirFunction
  AbortsAreNamed
  RejectionsAreNamed
