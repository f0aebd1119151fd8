------------------------------- MODULE MCExpr -------------------------------
(* ExprSemantics for TLC.  Operands: variables of each type, an int literal, *)
(* and enough values for every branch of the reference to be taken.         *)
EXTENDS ExprSemantics

Var(type, value) == [type |-> type, value |-> value, named |-> TRUE]

Booleans == {Var("bool", 0), Var("bool", 1)}
Literal  == [type |-> "int", value |-> 1, named |-> FALSE]

AllOperands ==
  Booleans \cup {Var("int", -1), Literal}
    \cup {Var("string", 0), Var("string", 1)}
    \cup {Var("pointer", 1), Var("nullptr", 0)}

Everything ==
  [size |-> 5, operators |-> Unary \cup Binary \cup {"if"}, operands |-> AllOperands]

\* Deeper nests of the operators that jump.
Logic ==
  [size |-> 7, operators |-> {"and", "or", "not", "if", "eq"}, operands |-> Booleans]

AllFamilies == {Everything, Logic}
OneFamily   == {Everything}
=============================================================================
