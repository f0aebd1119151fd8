------------------------------- MODULE MCScope -------------------------------
(* ScopeProps for TLC.  In `TwoNames` x is read into y, which may have      *)
(* either type; `AfterShadow` holds just what the programs of its run need.   *)
EXTENDS ScopeProps

Stmt(op, name, type, src) == [op |-> op, name |-> name, type |-> type, src |-> src]

TwoNames ==
  {Stmt("declare", "y", t, NoInit) : t \in {"int", "bool"}}
    \cup {Stmt("declare", "x", "int", s) : s \in {NoInit, "int", "x"}}
    \cup {Stmt("param", "y", "int", NoInit), Stmt("assign", "y", "int", "x")}
    \cup {Stmt("assign", "x", "int", "int")}

\* An assignment after a block that declares the name with another type.
AfterShadow ==
  {Stmt("declare", "x", t, NoInit) : t \in {"int", "bool"}}
    \cup {Stmt("assign", "x", "int", "bool")}
=============================================================================
