CONSTANTS
  MaxNodes = 5
  Leaves <- Types
  Uses <- AllUses
SPECIFICATION Spec
CHECK_DEADLOCK FALSE
INVARIANTS
  TypeOK
  ValueIsConverted
  IllSortedCodeIsNamed
  AbortsAreNamed
