------------------------------- MODULE ExprGen -------------------------------
(***************************************************************************)
(* Expression-level code generation of BytecodeIRGeneratorListener: the    *)
(* enter and exit handlers of base, unary and if expressions, the labels   *)
(* of && || and if expressions, and the instructions they append.  Trees   *)
(* the type checker rejects are not compiled; its rules for these          *)
(* operators decide which trees those are.                                 *)
(*                                                                         *)
(* The expression is revealed one node at a time, in the walker's order.   *)
(* Floats, and string conversions, are not in this module.                 *)
(***************************************************************************)
EXTENDS Integers, Sequences

CONSTANT
  Families    \* bound: the expressions compiled are those of one family, a
              \* record of their size, the operators they are made of, and
              \* their leaves (records [type, value, named])

Unary == {"not", "plus", "increment", "paren"}
Binary == {"and", "or", "eq", "lt", "sub"}
Arity(kind) == IF kind \in Unary THEN 1 ELSE IF kind \in Binary THEN 2 ELSE 3

Types == {"bool", "int", "string", "pointer", "nullptr"}
Pointers == {"pointer", "nullptr"}

ASSUME ConstantsAssumption ==
  \A family \in Families :
    /\ family.size \in Nat
    /\ family.operators \subseteq Unary \cup Binary \cup {"if"}
    /\ \A x \in family.operands :
         x.type \in Types /\ x.value \in Int /\ x.named \in BOOLEAN

VARIABLES
  phase,         \* "walking", "done", "rejected" or "aborted"
  tree,          \* the nodes revealed so far, in preorder
  types,         \* expressionTypes of the nodes that have been exited
  open,          \* the operators being walked, outermost first
  labelCounter,  \* labelCounter
  code           \* currentFunction->instructions

vars == <<phase, tree, types, open, labelCounter, code>>

-----------------------------------------------------------------------------
Instr(op, arg) == [op |-> op, arg |-> arg]
Label(l) == Instr("label", l)
Push(v)  == Instr("iconst", v)

Top == open[Len(open)]
Parent == IF open = <<>> THEN 0 ELSE Top.node

\* An operator has no operand of its own; `named` says a leaf is a variable.
NoOperand == [type |-> "", value |-> 0, named |-> FALSE]

\* A node: its operator, its parent and which of the parent's operands it is.
Node(kind, operand) ==
  [kind |-> kind, operand |-> operand, parent |-> Parent,
   index |-> IF open = <<>> THEN 0 ELSE Top.walked]

\* The operands of n that have been walked, in order.
Operand(n, i) ==
  CHOOSE c \in 1..Len(tree) : tree[c].parent = n /\ tree[c].index = i

-----------------------------------------------------------------------------
(* The type checker.  "error" stands for a reported mismatch, after which  *)
(* no code is generated.                                                   *)

\* exitIf_expression on branches of types t and f.  A string branch beside
\* another type is a conversion, which this module leaves out.
BranchType(t, f) ==
  CASE t = f                              -> t
    [] t = "nullptr" /\ f = "pointer"     -> f
    [] t = "pointer" /\ f = "nullptr"     -> t
    [] OTHER                              -> "error"

CheckedType(kind, t) ==
  CASE kind \in {"and", "or"} ->
         IF t[1] \in {"bool"} \cup Pointers /\ t[2] \in {"bool"} \cup Pointers
         THEN "bool" ELSE "error"
    [] kind \in {"eq", "lt"} -> "bool"
    [] kind = "sub" ->
         IF t[1] \in {"int", "bool"} /\ t[2] \in {"int", "bool"}
         THEN t[1] ELSE "error"
    [] kind = "not" ->
         IF t[1] \in {"bool"} \cup Pointers THEN "bool" ELSE "error"
    [] kind \in {"plus", "increment"} -> IF t[1] = "int" THEN "int" ELSE "error"
    [] kind = "paren" -> t[1]
    [] kind = "if" ->
         IF t[1] \in {"bool"} \cup Pointers THEN BranchType(t[2], t[3])
         ELSE "error"

-----------------------------------------------------------------------------
(* Code generation of one node, its operands' code being in place.         *)

\* Mutation: true and false are swapped.
MaterialiseSwapped ==
  <<Push(1), Instr("goto", labelCounter + 1), Label(labelCounter), Push(0),
    Label(labelCounter + 1)>>

\* The two labels a comparison generates: labelCounter and the next.
Materialise ==
  <<Push(0), Instr("goto", labelCounter + 1), Label(labelCounter), Push(1),
    Label(labelCounter + 1)>>

IsStringComparison(kind, t) ==
  kind \in {"eq", "lt"}
    /\ t[1] \notin Pointers /\ t[2] \notin Pointers
    /\ (t[1] = "string" \/ t[2] = "string")

\* Mutation: pointers are compared like ints.
ComparisonOpOfValues(kind, left) ==
  CASE left \in {"int", "pointer"} -> IF kind = "eq" THEN "if_icmpeq" ELSE "if_icmplt"
    [] left = "bool" /\ kind = "eq" -> "if_icmpeq"
    [] OTHER -> "throw"

\* The comparison instruction, or "throw" where the code throws.
ComparisonOp(kind, left) ==
  CASE left = "int" -> IF kind = "eq" THEN "if_icmpeq" ELSE "if_icmplt"
    [] left = "bool" /\ kind = "eq" -> "if_icmpeq"
    [] left = "pointer" /\ kind = "eq" -> "if_acmpeq"
    [] OTHER -> "throw"

\* exitBase_expression and exitUnary_expression: the code that combines the
\* operands, and whether the handler throws.
Combine(frame, t) ==
  CASE frame.kind = "paren" -> <<>>
    [] frame.kind = "sub"   -> <<Instr("isub", 0)>>
    [] frame.kind \in {"eq", "lt"} ->
         IF IsStringComparison(frame.kind, t)
         THEN <<Instr("equals", 0)>>
         ELSE <<Instr(ComparisonOp(frame.kind, t[1]), labelCounter)>> \o Materialise
    [] frame.kind \in {"and", "or"} ->
         IF frame.processed THEN <<Label(frame.exit)>> ELSE <<>>
    [] frame.kind = "not" ->
         IF t[1] \in Pointers THEN <<>> ELSE <<Push(1), Instr("ixor", 0)>>
    [] frame.kind = "plus" ->
         <<Instr("dup", 0), Instr("ifge", labelCounter), Instr("ineg", 0),
           Label(labelCounter)>>
    [] frame.kind = "increment" ->
         <<Push(1), Instr("iadd", 0), Instr("dup", 0), Instr("istore", 0)>>
    [] frame.kind = "if" -> <<>>

\* Mutation: a comparison counts one of its two labels.
NewLabelsOneEach(kind) == IF kind \in {"eq", "lt", "plus"} THEN 1 ELSE 0

NewLabels(kind) ==
  CASE kind \in {"eq", "lt"} -> 2 [] kind = "plus" -> 1 [] OTHER -> 0

\* The handler throws, or dereferences the null symbol of a ++ whose operand
\* is not the name of a variable.
Throws(frame, t) ==
  \/ /\ frame.kind \in {"eq", "lt"}
     /\ IF IsStringComparison(frame.kind, t) THEN frame.kind = "lt"
        ELSE ComparisonOp(frame.kind, t[1]) = "throw"
  \/ /\ frame.kind = "increment"
     /\ ~tree[Operand(frame.node, 0)].operand.named

\* exitBase_expression returns before it looks at its parent.
ReturnsEarly(kind, type, t) ==
  type \in Pointers \/ IsStringComparison(kind, t)

\* The jumps around operand i of the parent expression.
ParentJumps(parent, i) ==
  CASE parent.kind = "if" /\ i = 0 -> <<Instr("ifeq", parent.fall)>>
    [] parent.kind = "if" /\ i = 1 -> <<Instr("goto", parent.exit),
                                        Label(parent.fall)>>
    [] parent.kind = "if" /\ i = 2 -> <<Label(parent.exit)>>
    [] parent.kind = "and" /\ i = 0 -> <<Instr("ifeq", parent.fall)>>
    [] parent.kind = "or"  /\ i = 0 -> <<Instr("ifne", parent.fall)>>
    [] parent.kind = "and" /\ i = 1 ->
         <<Instr("ifeq", parent.fall), Push(1), Instr("goto", parent.exit),
           Label(parent.fall), Push(0)>>
    [] parent.kind = "or" /\ i = 1 ->
         <<Instr("ifne", parent.fall), Push(0), Instr("goto", parent.exit),
           Label(parent.fall), Push(1)>>
    [] OTHER -> <<>>

-----------------------------------------------------------------------------
Init ==
  /\ phase = "walking"
  /\ tree = <<>>
  /\ types = <<>>
  /\ open = <<>>
  /\ labelCounter = 0
  /\ code = <<>>

Walking == phase = "walking" /\ (tree # <<>> => open # <<>>)

Operators == UNION {family.operators : family \in Families}
Operands  == UNION {family.operands : family \in Families}

\* Some family has the nodes revealed so far and this one.
Fits(kind, operand) ==
  \E family \in Families :
    /\ Len(tree) < family.size
    /\ \A node \in {Node(kind, operand)} \cup {tree[i] : i \in DOMAIN tree} :
         \/ node.kind \in family.operators
         \/ node.kind = "leaf" /\ node.operand \in family.operands

\* Mutation: the right operand never marks its parent processed.
AfterOperandUnmarked(above, early) == [above EXCEPT !.walked = above.walked + 1]

\* The parent `above`, once operand i of it has been exited.
AfterOperand(above, early) ==
  [above EXCEPT !.walked = above.walked + 1,
                !.processed = \/ above.processed
                              \/ /\ above.kind \in {"and", "or"}
                                 /\ above.walked = 1 /\ ~early]

\* Mutation: an if expression generates one of its two labels.
ReservedLabelsOneForIf(kind) ==
  CASE kind \in {"and", "or"} -> 2 [] kind = "if" -> 1 [] OTHER -> 0

\* The labels an operator reserves when it is entered.
ReservedLabels(kind) == IF kind \in {"and", "or", "if"} THEN 2 ELSE 0

\* enterBase_expression and enterIf_expression of an operator.
EnterOperator(kind) ==
  /\ Walking
  /\ IF open = <<>> THEN TRUE ELSE Top.walked < Arity(Top.kind)
  /\ Fits(kind, NoOperand)
  /\ tree' = Append(tree, Node(kind, NoOperand))
  /\ types' = Append(types, "")
  /\ open' = Append(open,
       [node |-> Len(tree) + 1, kind |-> kind, walked |-> 0,
        fall |-> IF kind = "if" THEN labelCounter + 1 ELSE labelCounter,
        exit |-> IF kind = "if" THEN labelCounter ELSE labelCounter + 1,
        processed |-> FALSE])
  /\ labelCounter' = labelCounter + ReservedLabels(kind)
  /\ UNCHANGED <<phase, code>>

\* A literal or a variable: its value is pushed, and its exit handler runs.
Leaf(operand) ==
  /\ Walking
  /\ IF open = <<>> THEN TRUE ELSE Top.walked < Arity(Top.kind)
  /\ Fits("leaf", operand)
  /\ LET early == ReturnsEarly("leaf", operand.type, <<>>) IN
     /\ tree' = Append(tree, Node("leaf", operand))
     /\ types' = Append(types, operand.type)
     /\ code' = code \o <<Instr("load", Len(tree) + 1)>>
                  \o (IF open = <<>> \/ early THEN <<>>
                      ELSE ParentJumps(Top, Top.walked))
     /\ IF open = <<>>
        THEN phase' = "done" /\ UNCHANGED open
        ELSE /\ open' = [open EXCEPT ![Len(open)] = AfterOperand(Top, early)]
             /\ UNCHANGED phase
     /\ UNCHANGED labelCounter

\* The exit handlers of an operator all of whose operands have been walked.
ExitOperator ==
  /\ phase = "walking" /\ open # <<>>
  /\ Top.walked = Arity(Top.kind)
  /\ LET frame == Top
         t     == [i \in 1..Arity(frame.kind) |-> types[Operand(frame.node, i - 1)]]
         type  == CheckedType(frame.kind, t)
         early == ReturnsEarly(frame.kind, type, t)
         rest  == SubSeq(open, 1, Len(open) - 1)
         above == rest[Len(rest)]
     IN
     IF type = "error"
     THEN phase' = "rejected" /\ UNCHANGED <<tree, types, open, labelCounter, code>>
     ELSE IF Throws(frame, t)
     THEN phase' = "aborted" /\ UNCHANGED <<tree, types, open, labelCounter, code>>
     ELSE
     /\ types' = [types EXCEPT ![frame.node] = type]
     /\ code' = code \o Combine(frame, t)
                  \o (IF rest = <<>> \/ early THEN <<>>
                      ELSE ParentJumps(above, above.walked))
     /\ labelCounter' = labelCounter + NewLabels(frame.kind)
     /\ IF rest = <<>>
        THEN phase' = "done" /\ open' = rest
        ELSE /\ open' = [rest EXCEPT ![Len(rest)] = AfterOperand(above, early)]
             /\ UNCHANGED phase
     /\ UNCHANGED tree

Next ==
  \/ \E kind \in Operators : EnterOperator(kind)
  \/ \E operand \in Operands : Leaf(operand)
  \/ ExitOperator

Spec == Init /\ [][Next]_vars

=============================================================================
