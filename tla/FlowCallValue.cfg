CONSTANTS
  Families <- CallFamily
  MaxElseIfs = 0
  ExprLabels = {0}
SPECIFICATION Spec
CHECK_DEADLOCK FALSE
INVARIANT CallStatementsBalance
