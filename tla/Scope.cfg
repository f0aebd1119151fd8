CONSTANTS
  Names = {"x", "y"}
  Types = {"int", "bool"}
  NoInit = NoInit
  Statements <- TwoNames
  MaxEvents = 7
SPECIFICATION Spec
CHECK_DEADLOCK FALSE
INVARIANTS
  TypeOK
  CollectScopeIsLexical
  AcceptsWhatScopingAccepts
  UnstoredLoadsAreNamed
  CodeUsesLexicalVariables
  SlotsAreDistinct
  SlotsAreAllocated
PROPERTY
  SymbolsAreStable
