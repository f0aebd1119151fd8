CONSTANTS
  MaxNodes = 3
  Leaves <- Types
  Uses <- StringStatements
SPECIFICATION Spec
CHECK_DEADLOCK FALSE
INVARIANT StringsWhereExpected
