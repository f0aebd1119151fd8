CONSTANTS
  MaxEvents = 7
  Contexts <- AllContexts
  Uses <- AllUses
SPECIFICATION Spec
CHECK_DEADLOCK FALSE
INVARIANTS
  TypeOK
  LastFieldTypeFollows
  PlainStatementsMeanTheirSource
  AbortsAreNamed
