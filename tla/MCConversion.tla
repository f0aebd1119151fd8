---------------------------- MODULE MCConversion ----------------------------
(* ConversionSemantics for TLC: every type as a leaf, and the uses that tell *)
(* a string from the other targets.                                          *)
EXTENDS ConversionSemantics

Use(kind, type) == [kind |-> kind, type |-> type]

AllUses ==
  {Use("print", "string"), Use("call", "string"), Use("call", "int"),
   Use("call", "float"), Use("declare", "string"), Use("assign", "pointer"),
   Use("return", "struct"), Use("element", "bool")}

StringStatements ==
  {Use(kind, "string") : kind \in Statements}
=============================================================================
