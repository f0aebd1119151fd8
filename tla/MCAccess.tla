------------------------------ MODULE MCAccess ------------------------------
(* AccessSemantics for TLC.                                                 *)
EXTENDS AccessSemantics

Locals == [s |-> "S", ts |-> "T[]", ns |-> "int[]", q |-> "S*"]

\* In main; in a method of S, with its members visible beside a local that hides
\* one of them; and in main, with locals that have the name of a member and
\* another type.
AllContexts ==
  {[method |-> FALSE, locals |-> Locals],
   [method |-> TRUE, locals |-> [this |-> "S", ts |-> "T[]"]],
   [method |-> FALSE, locals |-> [n |-> "S", s |-> "T"]]}

AllUses == {"declare", "assign", "target", "element"}
=============================================================================
