---------------------------- MODULE ConversionGen ----------------------------
(***************************************************************************)
(* Conversions to string, and casts.  Nobody writes the first: the type    *)
(* checker finds where a string is expected, and marks a node of the parse *)
(* tree (expectingStringConversion); a later pass, the generator, looks    *)
(* for marks at some nodes and appends a conversion there.  The two agree  *)
(* on the nodes by convention only.                                        *)
(*                                                                         *)
(* Both listeners do this in exit handlers, so the expression is built in  *)
(* postorder: `pending` holds the operands that wait for their operator.   *)
(* An if expression, whose jumps ExprGen models, is one instruction here.  *)
(***************************************************************************)
EXTENDS Integers, Sequences, FiniteSets, SequencesExt

CONSTANTS
  MaxNodes,  \* bound: nodes of the expression
  Leaves,    \* the types of the leaves
  Uses       \* what is done with the value: records [kind, type]

Structs  == {"struct", "bare"}  \* with a $toString of its own, and without
Pointers == {"pointer", "nullptr"}
Numeric  == {"int", "float", "bool"}
Types    == Numeric \cup {"string", "void", "array"} \cup Structs \cup Pointers

Binary == {"add", "sub", "if"}
Casts  == Numeric \cup {"string"}

\* A print is a call of a built-in function that takes a string.
Calls      == {"print", "call"}
Statements == {"declare", "assign", "return", "element"}

ASSUME ConstantsAssumption ==
  /\ MaxNodes \in Nat
  /\ Leaves \subseteq Types
  /\ Uses \subseteq [kind : Calls \cup Statements, type : Types \ {"void"}]
  /\ \A use \in Uses : use.kind = "print" => use.type = "string"

VARIABLES
  phase,    \* see Phases
  tree,     \* the nodes, in postorder
  types,    \* expressionTypes
  pending,  \* the nodes whose parent has not been exited
  marks,    \* expectingStringConversion
  use,      \* what the statement does with the expression
  next,     \* the node the generator comes to next
  code      \* currentFunction->instructions

vars == <<phase, tree, types, pending, marks, use, next, code>>

Phases == {"checking", "generating", "done", "rejected", "aborted"}

\* The contexts that are marked: the base_expression of a node, the
\* expression of an argument, and the statement (or array expression).
Base(n)  == <<"base", n>>
Argument == <<"expression", 0>>
Holder   == <<"statement", 0>>

NoUse == [kind |-> "none", type |-> "void"]

-----------------------------------------------------------------------------
(* The type checker.                                                       *)

\* hasToStringMethod: SpecialMethodsListener has given every struct a
\* $toString symbol by now, whether or not the program defines the method.
HasToString(t) == t \in Structs

\* canConvertToString
Convertible(t) == t # "array"

\* areTypesCompatible: "yes", "mark" (it also marks its targetCtx), or "no".
Compatible(source, target) ==
  CASE source = target                                              -> "yes"
    [] source # target /\ target = "string" /\ Convertible(source)  -> "mark"
    [] source = "nullptr" /\ target \in {"pointer"} \cup Structs    -> "yes"
    [] OTHER                                                        -> "no"

\* Mutation: only a string makes + a concatenation.
ConcatenatesStrings(l, r) ==
  \/ l = "string" /\ Convertible(r)
  \/ r = "string" /\ Convertible(l)

\* A string or a struct on one side and anything convertible on the other.
Concatenates(l, r) ==
  \/ (l = "string" \/ HasToString(l)) /\ Convertible(r)
  \/ (r = "string" \/ HasToString(r)) /\ Convertible(l)

\* The type of an operator's node, "error" where one is reported.
CheckedType(kind, l, r) ==
  CASE kind = "add" /\ Concatenates(l, r) -> "string"
    [] kind \in {"add", "sub"} /\ l \in Numeric /\ r \in Numeric
         /\ ~(kind = "add" /\ Concatenates(l, r)) -> l
    [] kind = "if" /\ Compatible(l, r) # "no" -> r
    [] kind = "if" /\ Compatible(l, r) = "no" /\ Compatible(r, l) # "no" -> l
    [] OTHER -> "error"

\* Mutation: the right operand of a concatenation is never marked.
OperandMarksLeftOnly(kind, a, b) ==
  IF kind = "add" /\ Concatenates(types[a], types[b])
  THEN {Base(n) : n \in {m \in {a} : types[m] # "string"}} ELSE {}

\* The marks an operator makes, on its operands a and b.  The branches of an
\* if expression are compared with the other branch as targetCtx.
OperandMarks(kind, a, b) ==
  CASE kind = "add" /\ Concatenates(types[a], types[b]) ->
         {Base(n) : n \in {m \in {a, b} : types[m] # "string"}}
    [] kind = "if" /\ Compatible(types[a], types[b]) = "mark" -> {Base(b)}
    [] kind = "if" /\ Compatible(types[a], types[b]) = "no"
         /\ Compatible(types[b], types[a]) = "mark" -> {Base(a)}
    [] OTHER -> {}

\* Mutation: the statement is marked for an argument too.
UseContextIsStatement(kind) == Holder

\* The targetCtx of checkArgumentCompatibility and of the statements' checks.
UseContext(kind) == IF kind \in Calls THEN Argument ELSE Holder

-----------------------------------------------------------------------------
(* The generator.                                                          *)

Instr(op, node) == [op |-> op, node |-> node]

\* Mutation: there is no conversion of a pointer.
ConversionOpOfValues(t) ==
  CASE t = "int"    -> "Integer.toString"
    [] t = "float"  -> "Float.toString"
    [] t = "bool"   -> "Boolean.toString"
    [] t = "struct" -> "struct.$toString"
    [] t = "bare"   -> "bare.$toString"
    [] OTHER        -> "throw"

\* Mutation: a number is converted as an int.
ConversionOpOfFloats(t) ==
  CASE t \in Pointers -> "Object.toString"
    [] t \in {"int", "float"} -> "Integer.toString"
    [] t = "bool"     -> "Boolean.toString"
    [] t = "struct"   -> "struct.$toString"
    [] t = "bare"     -> "bare.$toString"
    [] OTHER          -> "throw"

\* generateStringConversion of a context whose expression is of type t.
ConversionOp(t) ==
  CASE t \in Pointers -> "Object.toString"
    [] t = "int"      -> "Integer.toString"
    [] t = "float"    -> "Float.toString"
    [] t = "bool"     -> "Boolean.toString"
    [] t = "struct"   -> "struct.$toString"
    [] t = "bare"     -> "bare.$toString"
    [] OTHER          -> "throw"

\* Mutation: a mark left by another pass is ignored for pointers.
ConversionOfPrimitives(context, t, n) ==
  IF context \in marks /\ t \notin Pointers
  THEN <<Instr(ConversionOp(t), n)>> ELSE <<>>

Conversion(context, t, n) ==
  IF context \in marks THEN <<Instr(ConversionOp(t), n)>> ELSE <<>>

\* exitCast_expression and convertPrimitiveToPrimitive.
CastOp(from, to) ==
  CASE from = "pointer" /\ to = "int"  -> "identityHashCode"
    [] from = "nullptr" /\ to = "int"  -> "identityHashCode"
    [] from \in Structs /\ to = "string" -> ConversionOp(from)
    [] from \in {"int", "bool"} /\ to = "float"  -> "i2f"
    [] from \in {"int", "bool"} /\ to = "string" -> "Integer.toString"
    [] from \in {"int", "bool"} /\ to \in {"int", "bool"} -> "nothing"
    [] from = "float" /\ to \in {"int", "bool"}  -> "f2i"
    [] from = "float" /\ to = "string" -> "Float.toString"
    [] from = "string" /\ to = "int"   -> "Integer.parseInt"
    [] from = "string" /\ to = "float" -> "Float.parseFloat"
    [] from = "string" /\ to = "bool"  -> "Boolean.parseBoolean"
    [] from = to /\ from \in {"float", "string"} -> "nothing"
    [] OTHER -> "throw"

\* The handlers of an expression return early, before placing its parent's
\* jumps, unless its type is primitive.
PlacesJumps(t) == t \in Numeric \cup {"string", "void"}

\* The operation of node n, on operands whose code is in place.  A node of
\* type void is an operand no handler can deal with: it throws.
Operation(n) ==
  LET node == tree[n]
      l == types[node.args[1]]
      r == types[node.args[2]]
  IN
  CASE types[n] = "void" -> "throw"
    [] node.kind = "leaf" /\ types[n] # "void" -> "load"
    [] node.kind = "cast" -> CastOp(l, node.type)
    [] node.kind = "add" /\ types[n] = "string" -> "concat"
    [] node.kind \in {"add", "sub"} /\ types[n] \in {"int", "bool"} ->
         IF node.kind = "add" THEN "iadd" ELSE "isub"
    [] node.kind \in {"add", "sub"} /\ types[n] = "float" ->
         IF node.kind = "add" THEN "fadd" ELSE "fsub"
    [] node.kind = "if" /\ types[n] # "void" ->
         IF PlacesJumps(l) /\ PlacesJumps(r) THEN "select" ELSE "mislaid"

NodeCode(n) == <<Instr(Operation(n), n)>> \o Conversion(Base(n), types[n], n)

\* What is appended once the value is on the stack: exitExpression's
\* conversion, then the call or the store.
UseCode(root) ==
  Conversion(Argument, types[root], root) \o <<Instr(use.kind, root)>>

Throws(instructions) == \E i \in DOMAIN instructions : instructions[i].op = "throw"

\* The instructions go in place, unless one of the handlers throws.
Emit(instructions, then) ==
  IF Throws(instructions)
  THEN phase' = "aborted" /\ UNCHANGED code
  ELSE phase' = then /\ code' = code \o instructions

-----------------------------------------------------------------------------
Init ==
  /\ phase = "checking"
  /\ tree = <<>>
  /\ types = <<>>
  /\ pending = <<>>
  /\ marks = {}
  /\ use = NoUse
  /\ next = 1
  /\ code = <<>>

\* The bound leaves room for the operators the pending operands need.
Room(operands) == Len(tree) + operands + 1 <= MaxNodes

\* Mutation: the operands go on waiting for a parent.
ExitKeepsOperands(node, type, operands) ==
  /\ tree' = Append(tree, node)
  /\ types' = Append(types, type)
  /\ pending' = Append(pending, Len(tree) + 1)
  /\ UNCHANGED <<use, next, code>>

Exit(node, type, operands) ==
  /\ tree' = Append(tree, node)
  /\ types' = Append(types, type)
  /\ pending' = Append(SubSeq(pending, 1, Len(pending) - operands), Len(tree) + 1)
  /\ UNCHANGED <<use, next, code>>

Reject ==
  /\ phase' = "rejected"
  /\ UNCHANGED <<tree, types, pending, marks, use, next, code>>

CheckLeaf(type) ==
  /\ phase = "checking" /\ Room(Len(pending))
  /\ Exit([kind |-> "leaf", type |-> type, args |-> <<>>], type, 0)
  /\ UNCHANGED <<phase, marks>>

\* exitBase_expression and exitIf_expression
CheckOperator(kind) ==
  /\ phase = "checking" /\ Len(pending) >= 2
  /\ LET a == pending[Len(pending) - 1]
         b == pending[Len(pending)]
         t == CheckedType(kind, types[a], types[b])
     IN
     IF t = "error" THEN Reject
     ELSE /\ Exit([kind |-> kind, type |-> t, args |-> <<a, b>>], t, 2)
          /\ marks' = marks \cup OperandMarks(kind, a, b)
          /\ UNCHANGED phase

\* exitCast_expression: any type is cast to any primitive type.
CheckCast(target) ==
  /\ phase = "checking" /\ pending # <<>> /\ Room(Len(pending) - 1)
  /\ Exit([kind |-> "cast", type |-> target, args |-> <<Last(pending)>>],
          target, 1)
  /\ UNCHANGED <<phase, marks>>

\* The check of the whole expression, by the statement or call it is in.
\* Code generation begins with what comes before the expression's code.
CheckUse(what) ==
  /\ phase = "checking" /\ Len(pending) = 1
  /\ LET fits == Compatible(types[Last(pending)], what.type) IN
     IF fits = "no" THEN Reject
     ELSE /\ phase' = "generating"
          /\ use' = what
          /\ marks' = IF fits = "mark" THEN marks \cup {UseContext(what.kind)}
                                       ELSE marks
          /\ code' = IF what.kind = "print" THEN <<Instr("getstatic out", 0)>>
                                            ELSE <<>>
          /\ UNCHANGED <<tree, types, pending, next>>

GenerateNode ==
  /\ phase = "generating" /\ next <= Len(tree)
  /\ Emit(NodeCode(next), "generating")
  /\ next' = next + 1
  /\ UNCHANGED <<tree, types, pending, marks, use>>

GenerateUse ==
  /\ phase = "generating" /\ next = Len(tree) + 1
  /\ Emit(UseCode(Last(pending)), "done")
  /\ UNCHANGED <<tree, types, pending, marks, use, next>>

Next ==
  \/ \E type \in Leaves : CheckLeaf(type)
  \/ \E kind \in Binary : CheckOperator(kind)
  \/ \E target \in Casts : CheckCast(target)
  \/ \E what \in Uses : CheckUse(what)
  \/ GenerateNode
  \/ GenerateUse

Spec == Init /\ [][Next]_vars

=============================================================================
