CONSTANTS
  Names = {"x"}
  Types = {"int", "bool"}
  NoInit = NoInit
  Statements <- AfterShadow
  MaxEvents = 7
SPECIFICATION Spec
CHECK_DEADLOCK FALSE
INVARIANT StoresAreWellTyped
