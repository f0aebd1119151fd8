--------------------------- MODULE AccessSemantics ---------------------------
(***************************************************************************)
(* What the code of AccessGen must do.  The code is straight-line, so it   *)
(* is run by a fold; a stack entry is a type, which the JVM verifier       *)
(* tracks, and a term.  The reference folds over the events of the source  *)
(* statement in the same order, as a language with lexical scoping would.  *)
(* Both yield the effects: what is stored where, and what is called.  A    *)
(* term that reads something holds how many effects came before it.        *)
(***************************************************************************)
EXTENDS AccessGen

Machine(stack, effects) == [stack |-> stack, effects |-> effects]
Fault == Machine(<< <<"fault">> >>, <<>>)

\* Pop n entries and push those given; have an effect.
Push(m, n, entries) == Machine(SubSeq(m.stack, 1, Len(m.stack) - n) \o entries, m.effects)
Effect(m, effect)   == Machine(m.stack, Append(m.effects, effect))

Entry(m, i) == m.stack[Len(m.stack) - i]
Top1(m)     == Entry(m, 0)[2]
Top2(m)     == Entry(m, 1)[2]

\* What is read, and when.
Read(m, what) == IF what = <<"this">> THEN what ELSE <<"read", what, Len(m.effects)>>

-----------------------------------------------------------------------------
(* The reference.                                                          *)

Variable(m, name) ==
  IF IsMember(name) THEN Read(m, <<"S", name, <<"this">> >>) ELSE Read(m, <<name>>)

SetVariable(m, name, term) ==
  Effect(m, IF IsMember(name) THEN <<"put", "S", name, <<"this">>, term>>
                              ELSE <<"set", name, term>>)

\* A place whose value is the top of the stack is that value, read.
Place(term) == IF term[1] = "read" THEN term[2] ELSE term

\* A call of a function of class owner with the top of the stack, and the
\* object below if it is an access's.
CallTerm(m, owner, method) ==
  LET object == CASE method -> Top2(m)
                  [] ~method /\ owner = "S" -> <<"this">>
                  [] OTHER -> <<>>
  IN  Effect(Push(m, IF method THEN 2 ELSE 1,
                  << <<Returned(owner), <<"result", Len(m.effects)>> >> >>),
             <<"call", owner, object, Top1(m)>>)

Evaluate(m, e) ==
  CASE e.kind = "literal" -> Push(m, 0, << <<"int", <<"literal">> >> >>)
    [] e.kind \in {"variable"} \/ (e.kind = "identifier" /\ e.base = None) ->
         Push(m, 0, << <<VariableType(e.name), Variable(m, e.name)>> >>)
    [] e.kind = "identifier" /\ e.base # None ->
         Push(m, 1, << <<e.type, Read(m, <<e.base, e.name, Top1(m)>>)>> >>)
    [] e.kind = "postfixVariable" ->
         SetVariable(Push(m, 0, << <<"int", Variable(m, e.name)>> >>), e.name,
                     <<"increment", Variable(m, e.name)>>)
    [] e.kind = "prefix" ->
         SetVariable(Push(m, 1, << <<"int", <<"increment", Top1(m)>> >> >>), e.name,
                     <<"increment", Top1(m)>>)
    [] e.kind = "enterIndex" ->
         IF e.base = None THEN Push(m, 0, << <<e.type, Variable(m, e.name)>> >>)
         ELSE Push(m, 1, << <<e.type, Read(m, <<e.base, e.name, Top1(m)>>)>> >>)
    [] e.kind = "exitIndex" ->
         Push(m, 2, << <<e.type, Read(m, <<"element", Top2(m), Top1(m)>>)>> >>)
    [] e.kind = "exitCall" ->
         CallTerm(m, IF e.field THEN FunctionOf(e.base, e.name) ELSE FunctionHere(e.name),
                  e.field)
    [] e.kind = "postfix" -> Effect(m, <<"increments", Top1(m)>>)
    [] OTHER -> m

\* The place assigned to, which is not read, loses the time of its reading.
Meaning ==
  LET m == FoldLeft(Evaluate, Machine(<<>>, <<>>), events) IN
  CASE use \in {"declare", "assign"} -> Effect(Push(m, 1, <<>>), <<"set", "v", Top1(m)>>)
    [] OTHER -> Effect(Push(m, 1, <<>>),
                       <<"put">> \o Place(Top1(m)) \o <<Read(m, <<"rhs">>)>>)

-----------------------------------------------------------------------------
(* The machine.                                                            *)

TypeOf(name) ==
  CASE name = "v" -> value [] name = "rhs" -> value [] OTHER -> VariableType(name)

\* The types an instruction pops, the deepest first.
Pops(m, i) ==
  CASE i.op = "getfield" -> <<i.owner>>
    [] i.op = "putfield" -> <<i.owner, Fields[i.owner][i.name]>>
    [] i.op = "invoke" /\ i.owner = "Main" -> <<"int">>
    [] i.op = "invoke" /\ i.owner # "Main" -> <<i.owner, "int">>
    [] i.op = "iaload" -> <<"int[]", "int">>
    [] i.op = "aaload" -> <<"T[]", "int">>
    [] i.op = "iastore" -> <<"int[]", "int", "int">>
    [] i.op = "aastore" -> <<"T[]", "int", "T">>
    [] i.op = "increment" -> <<"int">>
    [] i.op = "store" -> <<TypeOf(i.name)>>
    [] OTHER -> <<>>

Execute(m, i) ==
  CASE i.op = "const" -> Push(m, 0, << <<"int", <<"literal">> >> >>)
    [] i.op = "load" -> Push(m, 0, << <<TypeOf(i.name), Read(m, <<i.name>>)>> >>)
    [] i.op = "getfield" ->
         Push(m, 1, << <<Fields[i.owner][i.name], Read(m, <<i.owner, i.name, Top1(m)>>)>> >>)
    [] i.op = "putfield" ->
         Effect(Push(m, 2, <<>>), <<"put", i.owner, i.name, Top2(m), Top1(m)>>)
    [] i.op = "invoke" ->
         Effect(Push(m, IF i.owner = "Main" THEN 1 ELSE 2,
                     << <<Returned(i.owner), <<"result", Len(m.effects)>> >> >>),
                <<"call", i.owner, IF i.owner = "Main" THEN <<>> ELSE Top2(m), Top1(m)>>)
    [] i.op \in {"iaload", "aaload"} ->
         Push(m, 2, << <<IF i.op = "iaload" THEN "int" ELSE "T",
                         Read(m, <<"element", Top2(m), Top1(m)>>)>> >>)
    [] i.op \in {"iastore", "aastore"} ->
         Effect(Push(m, 3, <<>>), <<"put", "element", Entry(m, 2)[2], Top2(m), Top1(m)>>)
    [] i.op = "increment" -> Push(m, 1, << <<"int", <<"increment", Top1(m)>> >> >>)
    [] i.op = "store" -> Effect(Push(m, 1, <<>>), <<"set", i.name, Top1(m)>>)
    [] i.op = "dup" -> Push(m, 0, <<Entry(m, 0)>>)
    [] i.op = "dup_x1" -> Push(m, 2, <<Entry(m, 0), Entry(m, 1), Entry(m, 0)>>)

Needs(i) == CASE i.op = "dup" -> 1 [] i.op = "dup_x1" -> 2 [] OTHER -> 0

Step(m, i) ==
  LET pops == Pops(m, i)
      depth == Len(m.stack) - Len(pops)
  IN
  IF \/ m = Fault \/ depth < 0 \/ Len(m.stack) < Needs(i)
     \/ \E k \in DOMAIN pops : m.stack[depth + k][1] # pops[k]
  THEN Fault ELSE Execute(m, i)

Outcome == FoldLeft(Step, Machine(<<>>, <<>>), code)

-----------------------------------------------------------------------------
(* Statements that are compiled wrongly, read off the source.              *)

Indices == DOMAIN events

Field(i) == events[i].field

IsEnter(i) == events[i].kind \in {"enterCall", "enterIndex"}

\* The call or index entered at i has been exited by k.
Exited(i, k) == \E x \in 1..k : events[x].node = i

\* Operand j is inside the argument of a method call, or the index of a field
\* that is not the first, entered at i: lastFieldType is the struct of that.
InsideOf(i, j) ==
  IsEnter(i) /\ Field(i) /\ events[i].base # None /\ i < j /\ ~Exited(i, j)

Inside(j) == \E i \in Indices : InsideOf(i, j)

\* The first field of an access.
First(i) ==
  Field(i) /\ events[i].base = None /\ events[i].kind \in {"identifier", "enterIndex", "paren"}

\* An operand that the access around it changes the meaning of: the first
\* field of another access, a call of a method of this object, or an element
\* that is taken for the target of the assignment.
NestedInAccess(i) ==
  /\ Inside(i)
  /\ \/ First(i)
     \/ ~Field(i) /\ events[i].kind = "enterCall" /\ events[i].name = "get"
     \/ ~Field(i) /\ events[i].kind = "exitIndex" /\ use # "declare"

\* A method call on an object, in a method: this is passed as well.
CallInMethod(i) == Field(i) /\ events[i].kind = "exitCall" /\ where.method

\* A function that is no method, called as one.
CallOfNoMethod(i) == Field(i) /\ events[i].kind = "exitCall" /\ events[i].name = "twice"

\* An element of a field: it is loaded twice in the middle of an access of a
\* declaration, and not at all at the end of one in an assignment.
ElementOfField(i) ==
  /\ Field(i) /\ events[i].kind = "exitIndex" /\ events[i].base # None
  /\ ~(events[i].target /\ events[i].last)
  /\ use = "declare" <=> ~events[i].last

\* A field that is indexed and has the name of a variable: both are loaded.
IndexedNamesake(i) ==
  /\ Field(i) /\ events[i].kind = "enterIndex" /\ events[i].base # None
  /\ VariableType(events[i].name) \notin Structs \cup {None}

\* A member of an array, which the type checker takes for an element.
MemberOfArray(i) == Field(i) /\ events[i].base \in Arrays

\* ++ of a member of this object, before it, or of anything but a variable.
LostIncrement(i) ==
  \/ events[i].kind = "prefix" /\ (events[i].name = None \/ IsMember(events[i].name))
  \/ events[i].kind = "postfix"

\* An assignment to the result of a method.
AssignsToResult(i) ==
  use = "target" /\ i = Len(events) /\ events[i].kind = "exitCall"

Plain ==
  \A i \in Indices :
    ~(\/ NestedInAccess(i) \/ CallInMethod(i) \/ CallOfNoMethod(i) \/ ElementOfField(i)
      \/ IndexedNamesake(i) \/ MemberOfArray(i) \/ LostIncrement(i)
      \/ AssignsToResult(i) \/ events[i].arrow)

\* The innermost of those i is inside of.
Innermost(j, i) ==
  InsideOf(j, i) /\ \A k \in Indices : InsideOf(k, i) => k <= j

\* The access at i cannot begin inside another: its first field is no member
\* of that one's struct, or no field at all, in parentheses that have not taken
\* lastFieldType away; or, after it, the method of the other is looked up
\* outside of the struct.
CannotBegin(i) ==
  /\ First(i)
  /\ \E j \in Indices :
       \/ Innermost(j, i) /\ (IF events[i].kind = "paren"
                              THEN \A m \in j..i : ~events[m].last
                              ELSE events[i].name \notin DOMAIN Fields[events[j].base])
       \/ InsideOf(j, i) /\ events[j].kind = "enterCall" /\ events[j].name = "get" /\ ~where.method

\* The access at i begins inside another, at a name that is a member of that
\* one's struct too, of another type: it goes on from there.
Misread(i) ==
  /\ First(i) /\ events[i].kind = "identifier"
  /\ \E j \in Indices :
       /\ Innermost(j, i) /\ events[i].name \in DOMAIN Fields[events[j].base]
       /\ Fields[events[j].base][events[i].name] # events[i].type

-----------------------------------------------------------------------------
\* The walk is well bracketed: every call and index entered is open or has
\* been exited, once, and nothing else is open when code is generated.
TypeOK ==
  /\ phase \in Phases
  /\ value \in Types \cup {None}
  /\ lastFieldType \in Types \cup {None}
  /\ next \in 1..(Len(events) + 1)
  /\ open # <<>> /\ Head(open).kind = "statement"
  /\ phase \in {"generating", "done", "aborted"} => IsRoot /\ value # None
  /\ \A i \in Indices : IsEnter(i) =>
       \/ ~Exited(i, Len(events)) /\ \E d \in DOMAIN open : open[d].node = i
       \/ /\ \E x \in Indices : events[x].node = i /\ \A y \in Indices \ {x} : events[y].node # i
          /\ \A d \in DOMAIN open : open[d].node # i

\* At each field of a plain statement, lastFieldType is the type that the
\* type checker found the access to have reached.  Of any statement, it is
\* gone at the end: the next statement's accesses begin afresh.
LastFieldTypeFollows ==
  phase \in {"generating", "done"} =>
    IF next > Len(events) THEN lastFieldType = None
    ELSE Field(next) /\ Plain => lastFieldType = events[next].base

\* A plain statement is compiled, and its code stores, reads and calls what
\* the source does, in the same order, on the same objects.
PlainStatementsMeanTheirSource ==
  phase \in {"aborted", "done"} /\ Plain => phase = "done" /\ Outcome = Meaning

\* The accepted statements the generator does not survive are exactly those
\* that dereference a pointer to a struct, increment what has no name before
\* its use, take a member of an array, or nest an access that cannot begin.
\* Nothing is said of an access that goes on from a member it has misread.
AbortsAreNamed ==
  phase \in {"aborted", "done"} /\ (\A i \in Indices : ~Misread(i)) =>
    (phase = "aborted" <=>
       \E i \in Indices :
         \/ events[i].arrow
         \/ events[i].kind = "prefix" /\ events[i].name = None
         \/ MemberOfArray(i) /\ ~(events[i].target /\ events[i].last)
         \/ CannotBegin(i))

=============================================================================
