---------------------------- MODULE ExprSemantics ----------------------------
(***************************************************************************)
(* What the code ExprGen emits must compute: the value of the source       *)
(* expression, reading exactly the operands short-circuit evaluation       *)
(* reads, in order.  The code is run on a stack machine that checks types  *)
(* the way the JVM verifier does; the reference is read off the tree.      *)
(***************************************************************************)
EXTENDS ExprJumps

-----------------------------------------------------------------------------
(* The reference.  A pointer is a boolean in a condition: null is false.   *)

AsBit(b) == IF b THEN 1 ELSE 0

\* The value of node n and the leaves read to compute it, in order.
RECURSIVE Eval(_)
Eval(n) ==
  LET node == tree[n]
      a == Eval(Operand(n, 0))
      b == Eval(Operand(n, 1))
      c == Eval(Operand(n, 2))
      Then(x, y, v) == [value |-> v, read |-> x.read \o y.read]
  IN
  CASE node.kind = "leaf" -> [value |-> node.operand.value, read |-> <<n>>]
    [] node.kind = "paren" -> a
    [] node.kind = "not" -> [a EXCEPT !.value = AsBit(a.value = 0)]
    [] node.kind = "plus" -> [a EXCEPT !.value = IF @ < 0 THEN -@ ELSE @]
    [] node.kind = "increment" -> [a EXCEPT !.value = @ + 1]
    [] node.kind = "sub" -> Then(a, b, a.value - b.value)
    [] node.kind = "eq" -> Then(a, b, AsBit(a.value = b.value))
    [] node.kind = "lt" -> Then(a, b, AsBit(a.value < b.value))
    [] node.kind = "and" ->
         IF a.value # 0 THEN Then(a, b, AsBit(b.value # 0))
                        ELSE [a EXCEPT !.value = 0]
    [] node.kind = "or" ->
         IF a.value # 0 THEN [a EXCEPT !.value = 1]
                        ELSE Then(a, b, AsBit(b.value # 0))
    [] node.kind = "if" ->
         IF a.value # 0 THEN Then(a, b, b.value) ELSE Then(a, c, c.value)

-----------------------------------------------------------------------------
(* The machine.  A stack entry is <<sort, value>>: "i" for ints and        *)
(* booleans, "a" for strings and pointers.                                 *)

Sort(type) == IF type \in {"bool", "int"} THEN "i" ELSE "a"

Rejected == [status |-> "rejected", stack |-> <<>>, read |-> <<>>]

Target(l) ==
  LET places == {i \in DOMAIN code : code[i].op = "label" /\ code[i].arg = l}
  IN  IF places = {} THEN 0 ELSE CHOOSE i \in places : \A j \in places : i <= j

\* The sorts each instruction pops, the deepest first.
Pops(op) ==
  CASE op \in {"isub", "iadd", "ixor", "if_icmpeq", "if_icmplt"} -> <<"i", "i">>
    [] op \in {"if_acmpeq", "equals"} -> <<"a", "a">>
    [] op \in {"ineg", "dup", "istore", "ifeq", "ifne", "ifge"} -> <<"i">>
    [] OTHER -> <<>>

Jumps(op, x, y) ==
  CASE op = "goto" -> TRUE
    [] op = "ifeq" -> y = 0
    [] op = "ifne" -> y # 0
    [] op = "ifge" -> y >= 0
    [] op \in {"if_icmpeq", "if_acmpeq"} -> x = y
    [] op = "if_icmplt" -> x < y
    [] OTHER -> FALSE

\* What an instruction pushes, x and y being the deeper and the top operand.
Result(instr, x, y) ==
  CASE instr.op = "iconst" -> << <<"i", instr.arg>> >>
    [] instr.op = "load" -> << <<Sort(tree[instr.arg].operand.type),
                                 tree[instr.arg].operand.value>> >>
    [] instr.op = "isub" -> << <<"i", x - y>> >>
    [] instr.op = "iadd" -> << <<"i", x + y>> >>
    [] instr.op = "ixor" -> << <<"i", AsBit(x # y)>> >>
    [] instr.op = "equals" -> << <<"i", AsBit(x = y)>> >>
    [] instr.op = "ineg" -> << <<"i", -y>> >>
    [] instr.op = "dup" -> << <<"i", y>>, <<"i", y>> >>
    [] OTHER -> <<>>

RECURSIVE Run(_, _, _)
Run(pc, stack, read) ==
  IF pc > Len(code) THEN [status |-> "ended", stack |-> stack, read |-> read]
  ELSE
  LET instr == code[pc]
      pops  == Pops(instr.op)
      depth == Len(stack) - Len(pops)
      x     == IF Len(pops) = 2 THEN stack[depth + 1][2] ELSE 0
      y     == IF Len(pops) > 0 THEN stack[Len(stack)][2] ELSE 0
      next  == IF Jumps(instr.op, x, y) THEN Target(instr.arg) ELSE pc + 1
  IN
  IF depth < 0 \/ \E i \in 1..Len(pops) : stack[depth + i][1] # pops[i]
  THEN Rejected
  ELSE IF next = 0 THEN Rejected
  ELSE Run(next, SubSeq(stack, 1, depth) \o Result(instr, x, y),
           IF instr.op = "load" THEN Append(read, instr.arg) ELSE read)

-----------------------------------------------------------------------------
ComputesItsValue ==
  LET source == Eval(1)
      run    == Run(1, <<>>, <<>>)
  IN  /\ run.status = "ended"
      /\ run.stack = << <<Sort(types[1]), source.value>> >>
      /\ run.read = source.read

\* The exit handler of node n returned before placing its parent's jumps.
LosesJumps(n) ==
  /\ tree[n].parent # 0 /\ tree[tree[n].parent].kind \in Parents
  /\ \/ types[n] \in Pointers
     \/ /\ tree[n].kind \in {"eq", "lt"}
        /\ \E c \in 1..Len(tree) : tree[c].parent = n /\ types[c] = "string"

\* A pointer where the language wants a boolean.
PointerAsBoolean(n) ==
  /\ types[n] \in Pointers /\ tree[n].parent # 0
  /\ LET p == tree[tree[n].parent] IN
       p.kind \in {"and", "or", "not"} \/ (p.kind = "if" /\ tree[n].index = 0)

\* Operands of a comparison that have no one sort: the type checker takes any.
MixedComparison(n) ==
  /\ tree[n].kind \in {"eq", "lt"}
  /\ Sort(types[Operand(n, 0)]) # Sort(types[Operand(n, 1)])
     \/ {"string", "pointer"} = {types[Operand(n, 0)], types[Operand(n, 1)]}
     \/ {"string", "nullptr"} = {types[Operand(n, 0)], types[Operand(n, 1)]}

\* Of these, the ones that no instruction compares.
MixedSorts(n) ==
  tree[n].kind \in {"eq", "lt"}
    /\ Sort(types[Operand(n, 0)]) # Sort(types[Operand(n, 1)])

\* Evaluation comes to node n: it reads one of the leaves below it.
RECURSIVE Below(_, _)
Below(n, leaf) == leaf = n \/ (leaf # 0 /\ Below(n, tree[leaf].parent))

Evaluated(n) == \E i \in DOMAIN Eval(1).read : Below(n, Eval(1).read[i])

\* Arithmetic the type checker types as bool: its value need not be 0 or 1.
BooleanArithmetic(n) == tree[n].kind = "sub" /\ types[n] = "bool"

\* Trees in which every operator is applied to operands it is meant for.
WellFormed ==
  phase = "done" /\ \A n \in Nodes : ~MixedComparison(n) /\ ~BooleanArithmetic(n)

-----------------------------------------------------------------------------
\* The code of an expression leaves exactly its value on the stack, having
\* read the operands that short-circuit evaluation reads, for every nesting
\* of && || ! comparisons and if expressions.  Left out: operands of
\* && || and if whose exit handler returns early (string comparisons and
\* pointers), pointers as booleans (refuted by a run of its own), and the
\* ill-sorted operands WellFormed names, which the type checker accepts.
ValueAndReadsAreRight ==
  (WellFormed /\ \A n \in Nodes : ~LosesJumps(n) /\ ~PointerAsBoolean(n))
    => ComputesItsValue

\* The type checker allows pointers in logical operations, in if expressions
\* and under !, "treating them as boolean".
PointersActAsBooleans ==
  (WellFormed /\ \E n \in Nodes : PointerAsBoolean(n)) => ComputesItsValue

\* The code of an accepted expression meets an operand of the wrong sort just if
\* evaluation comes to a comparison of an int or a bool with a string or a pointer,
\* whose types the type checker does not compare.  Lost jumps and pointers as
\* booleans are left out, as above.
IllSortedCodeIsNamed ==
  (phase = "done" /\ \A n \in Nodes : ~LosesJumps(n) /\ ~PointerAsBoolean(n))
    => (Run(1, <<>>, <<>>) = Rejected <=>
          \E n \in Nodes : MixedSorts(n) /\ Evaluated(n))

=============================================================================
