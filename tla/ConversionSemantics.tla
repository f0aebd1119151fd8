------------------------- MODULE ConversionSemantics -------------------------
(***************************************************************************)
(* What the code ConversionGen emits must compute.  The code is straight-  *)
(* line: Run is the machine after each instruction.  A stack entry is a    *)
(* sort, which the JVM verifier tracks, and a term that says how the value *)
(* came to be; the reference builds the same terms from the expression.    *)
(***************************************************************************)
EXTENDS ConversionGen

-----------------------------------------------------------------------------
(* The reference: every operator and use gets the operands it asks for.    *)

\* As a string, a value is converted once, by what its own type says.
AsString(type, term) ==
  IF type = "string" THEN term ELSE <<"toString", type, term>>

\* "as", as examples/ex8_types_and_casting.cgl shows it: a bool is 0 or 1.
CastTerm(from, to, term) ==
  CASE from = to \/ (from = "bool" /\ to = "int") -> term
    [] from \in {"int", "bool"} /\ to = "float" -> <<"i2f", term>>
    [] from = "bool" /\ to = "string" -> AsString("int", term)
    [] from \notin {"bool", "string"} /\ to = "string" -> AsString(from, term)
    [] from \in Pointers /\ to = "int" -> <<"identityHashCode", term>>
    [] from = "float" /\ to = "int" -> <<"f2i", term>>
    [] from = "string" /\ to # "string" -> <<"parse", to, term>>
    [] OTHER -> <<"unspecified", to, term>>

Nodes == 1..Len(tree)

\* Node n, given what its operands mean; they are strings where the node is.
NodeMeaning(meaning, n) ==
  LET node == tree[n]
      Arg(i) == IF types[n] = "string"
                THEN AsString(types[node.args[i]], meaning[node.args[i]])
                ELSE meaning[node.args[i]]
  IN
  CASE node.kind = "leaf" -> <<"leaf", n>>
    [] node.kind = "cast" ->
         CastTerm(types[node.args[1]], node.type, meaning[node.args[1]])
    [] node.kind \in Binary -> <<node.kind, Arg(1), Arg(2)>>

Meaning[n \in Nodes] == NodeMeaning(Meaning, n)

\* The value the statement or call is to receive.
Received(root) ==
  IF use.type = "string" THEN AsString(types[root], Meaning[root]) ELSE Meaning[root]

-----------------------------------------------------------------------------
(* The machine.                                                            *)

Sort(t) ==
  CASE t \in {"int", "bool"} -> "I"
    [] t = "float" -> "F"
    [] OTHER -> t

\* The sorts an instruction pops, the deepest first.
Pops(instr) ==
  LET n == instr.node IN
  CASE instr.op \in {"Integer.toString", "Boolean.toString", "i2f", "ineg"} -> <<"I">>
    [] instr.op \in {"Float.toString", "f2i"} -> <<"F">>
    [] instr.op = "struct.$toString" -> <<"struct">>
    [] instr.op \in {"Integer.parseInt", "Float.parseFloat", "Boolean.parseBoolean"}
         -> <<"string">>
    [] instr.op = "Object.toString" -> <<Sort(types[n])>>
    [] instr.op = "identityHashCode" -> <<Sort(types[tree[n].args[1]])>>
    [] instr.op = "concat" -> <<"string", "string">>
    [] instr.op \in {"iadd", "isub"} -> <<"I", "I">>
    [] instr.op \in {"fadd", "fsub"} -> <<"F", "F">>
    [] instr.op = "select" -> <<Sort(types[n]), Sort(types[n])>>
    [] instr.op = "print" -> <<"out", "string">>
    [] instr.op \in {"call", "declare", "assign", "return", "element"}
         -> <<Sort(use.type)>>
    [] OTHER -> <<>>

\* The type that a conversion to string takes its operand for.
Printed(instr) ==
  LET n == instr.node IN
  CASE instr.op = "Integer.toString" -> "int"
    [] instr.op # "Integer.toString" /\ tree[n].kind = "cast" /\ types[n] = "string" ->
         types[tree[n].args[1]]
    [] OTHER -> types[n]

\* What it pushes, x being the deeper and y the top operand.
Pushes(instr, x, y) ==
  LET n == instr.node IN
  CASE instr.op = "load" -> << <<Sort(types[n]), <<"leaf", n>> >> >>
    [] instr.op = "getstatic out" -> << <<"out", <<"out">> >> >>
    [] instr.op \in {"Integer.toString", "Float.toString", "Boolean.toString",
                     "struct.$toString", "Object.toString"} ->
         << <<"string", AsString(Printed(instr), y)>> >>
    [] instr.op = "concat" -> << <<"string", <<"add", x, y>> >> >>
    [] instr.op = "iadd" -> << <<"I", <<"add", x, y>> >> >>
    [] instr.op = "isub" -> << <<"I", <<"sub", x, y>> >> >>
    [] instr.op = "fadd" -> << <<"F", <<"add", x, y>> >> >>
    [] instr.op = "fsub" -> << <<"F", <<"sub", x, y>> >> >>
    [] instr.op = "select" -> << <<Sort(types[n]), <<"if", x, y>> >> >>
    [] instr.op = "i2f" -> << <<"F", <<"i2f", y>> >> >>
    [] instr.op = "f2i" -> << <<"I", <<"f2i", y>> >> >>
    [] instr.op = "identityHashCode" -> << <<"I", <<"identityHashCode", y>> >> >>
    [] instr.op = "Integer.parseInt" -> << <<"I", <<"parse", "int", y>> >> >>
    [] instr.op = "Float.parseFloat" -> << <<"F", <<"parse", "float", y>> >> >>
    [] instr.op = "Boolean.parseBoolean" -> << <<"I", <<"parse", "bool", y>> >> >>
    [] OTHER -> <<>>

Fault == [stack |-> <<>>, received |-> <<"fault">>]

Step(machine, instr) ==
  LET pops  == Pops(instr)
      depth == Len(machine.stack) - Len(pops)
      y     == Last(machine.stack)[2]
      x     == machine.stack[Len(machine.stack) - 1][2]
  IN
  IF \/ machine = Fault \/ depth < 0
     \/ \E i \in 1..Len(pops) : machine.stack[depth + i][1] # pops[i]
     \/ instr.op \in {"mislaid", "bare.$toString"}
  THEN Fault
  ELSE [stack |-> SubSeq(machine.stack, 1, depth)
                    \o (CASE Len(pops) = 0 -> Pushes(instr, 0, 0)
                          [] Len(pops) = 1 -> Pushes(instr, 0, y)
                          [] OTHER         -> Pushes(instr, x, y)),
        received |-> IF instr.op = use.kind THEN y ELSE machine.received]

\* The machine after i instructions.
Run[i \in 0..Len(code)] ==
  IF i = 0 THEN [stack |-> <<>>, received |-> <<"nothing">>]
  ELSE Step(Run[i - 1], code[i])

Outcome == Run[Len(code)]

ReceivesItsValue ==
  Outcome = [stack |-> <<>>, received |-> Received(Last(pending))]

-----------------------------------------------------------------------------
(* Expressions the properties leave out, each with its reason.             *)

Operands(n) == {tree[n].args[i] : i \in DOMAIN tree[n].args}

\* Operands of arithmetic of different types: the left one decides, and the
\* right one is never converted.
MixedArithmetic(n) ==
  /\ tree[n].kind \in {"add", "sub"} /\ types[n] # "string"
  /\ \E m \in Operands(n) : Sort(types[m]) # Sort(types[n])

\* A bool that need not be 0 or 1, or that no example shows the value of.
LooseBool(n) ==
  types[n] = "bool" /\ tree[n].kind # "leaf"
    /\ ~(tree[n].kind = "cast" /\ types[tree[n].args[1]] \in {"bool", "string"})

\* An if expression whose branches' handlers lose its jumps: see ExprGen.
LosesJumps(n) == tree[n].kind = "if" /\ \E m \in Operands(n) : ~PlacesJumps(types[m])

\* Null is an Object whose toString cannot be called, and a struct without
\* a $toString of its own has the symbol of one but no code.
Unprintable(n) ==
  types[n] \in {"nullptr", "bare"}
    /\ \/ Base(n) \in marks
       \/ n = Last(pending) /\ Argument \in marks
       \/ \E m \in Nodes : tree[m].kind = "cast" /\ tree[m].type = "string"
                           /\ n \in Operands(m)

\* A null pointer where a pointer or a struct is declared is one of those.
NullAs == types[Last(pending)] = "nullptr" /\ use.type # "nullptr"

WellFormed ==
  /\ phase = "done"
  /\ \A n \in Nodes :
       ~MixedArithmetic(n) /\ ~LooseBool(n) /\ ~LosesJumps(n) /\ ~Unprintable(n)

-----------------------------------------------------------------------------
\* The two passes keep their state in step: every node has a type, is
\* pending or has one parent, and only contexts the type checker has are
\* marked.
TypeOK ==
  /\ phase \in Phases
  /\ Len(types) = Len(tree) /\ \A n \in Nodes : types[n] \in Types
  /\ \A n \in Nodes :
       Cardinality({m \in Nodes : n \in Operands(m)})
         + Cardinality({i \in DOMAIN pending : pending[i] = n}) = 1
  /\ marks \subseteq {Base(n) : n \in Nodes} \cup {Argument, Holder}
  /\ next \in 1..(Len(tree) + 1)
  /\ phase = "done" => next = Len(tree) + 1 /\ Len(pending) = 1

\* The value a call or statement receives is that of the source expression,
\* each operand converted to string exactly where a string is expected and
\* no other operand converted, for every nesting of +, -, casts and if.
\* Left out: a string expected by a statement (refuted by a run of its own).
ValueIsConverted ==
  (WellFormed /\ ~NullAs /\ Holder \notin marks) => ReceivesItsValue

\* The accepted programs the generator does not survive are those with an
\* operand of type void, those that cast what cannot be cast, and those
\* with a string beside another type in the branches of an if expression:
\* the type checker marks the branch that is the string already.
Uncastable(n) ==
  tree[n].kind = "cast" /\ CastOp(types[tree[n].args[1]], tree[n].type) = "throw"

StringBesideOther(n) ==
  tree[n].kind = "if" /\ types[n] = "string" /\ \E m \in Operands(n) : types[m] # "string"

AbortsAreNamed ==
  phase \in {"aborted", "done"} =>
    (phase = "aborted" <=>
       \E n \in Nodes : types[n] = "void" \/ Uncastable(n) \/ StringBesideOther(n))

\* "All types have a `$toString` method [...] it is called automatically when
\* a string is expected" (informal_spec.md).
StringsWhereExpected ==
  (WellFormed /\ ~NullAs /\ types[Last(pending)] # "nullptr"
     /\ types[Last(pending)] # "bare") => ReceivesItsValue

\* The code of an accepted expression passes the verifier unless it adds or
\* subtracts numbers of different sorts: the type checker gives the result the
\* left one's type, and the right one is used as it is.  Left out, as in
\* ValueIsConverted: strings expected by a statement, null where another type is
\* declared, what has no conversion, and jumps that are lost.
IllSortedCodeIsNamed ==
  (/\ phase = "done" /\ ~NullAs /\ Holder \notin marks
   /\ \A n \in Nodes : ~LosesJumps(n) /\ ~Unprintable(n))
    => (Outcome = Fault <=> \E n \in Nodes : MixedArithmetic(n))

=============================================================================
