---------------------------- MODULE LinkageProps ----------------------------
(***************************************************************************)
(* What linking must achieve: a method for every function, with its body   *)
(* and no other, and calls that run the function they were resolved to.    *)
(* Linkage by bare names keeps this for programs of plain names only, so   *)
(* the properties say exactly which programs those are.                    *)
(***************************************************************************)
EXTENDS Linkage

Functions == OfKind("fn")
Structs   == OfKind("struct")

-----------------------------------------------------------------------------
(* What is run.                                                            *)

\* The code of the methods of Main with that name.
Written(name) ==
  {code[methods[k]] : k \in {k \in DOMAIN methods : WrittenName(methods[k]) = name}}

\* What the call in function i runs: a built-in function or code.  The
\* arguments were checked against, and converted for, the types found then.
Runs(i) ==
  LET called == CalledFunction(i)
      call   == WrittenCall(called)
  IN
  CASE ParamsOf(called) # resolved[i].params -> <<"ill-typed">>
    [] call[1] = "static" -> <<"code", Written(call[2])>>
    [] call[1] = "ctor"   -> <<"code", {Lookup(code, call, <<>>)}>>
    [] OTHER              -> call

\* A constructor that gives each public field the argument at its place.
RightStores(i) ==
  LET public == InOrder(PublicFields(i)) IN
  [n \in DOMAIN public |-> <<"put", public[n], n>>]

\* What it is to run.
ToRun(i) ==
  LET s == resolved[i].symbol IN
  CASE s[1] = "fn"   -> <<"code", {Body(s[2])}>>
    [] s[1] = "ctor" -> <<"code", {RightStores(s[2])}>>
    [] OTHER         -> s

\* Function i has one method of its own, and its code is its body.
HasItsMethod(i) ==
  /\ Cardinality({k \in DOMAIN methods :
                    WrittenName(methods[k]) = WrittenName(<<"fn", i>>)}) = 1
  /\ Written(WrittenName(<<"fn", i>>)) = {Body(i)}

-----------------------------------------------------------------------------
(* Names that are not plain, read off the program.                         *)

SameName(i, j) == program[i].name = program[j].name
Mangling(i)    == Mangled(program[i].name, program[i].params)

\* Two functions, or a constructor and a function, that bare names do not
\* tell apart: overloads, and one whose name is another's mangled name.
Entangled(i, j) ==
  \/ SameName(i, j)
  \/ program[j].name = Mangling(i)
  \/ program[i].name = Mangling(j)

\* A call of a name that is one of two such functions'.
AmbiguousCall(i) ==
  \E j \in Functions \cup Structs, k \in Functions :
    j # k /\ Entangled(j, k) /\ program[i].call.name \in {program[j].name, program[k].name}

\* The names the writer treats specially.
Special(name) == name \in {Word("main"), Word("println"), Word("readline")}

\* A call of a user's function of such a name, or of sqrt, which is declared
\* but is nowhere defined.
HijackedCall(i) ==
  LET name == program[i].call.name IN
  \/ Special(name) /\ \E j \in Functions : program[j].name = name
  \/ name = Word("sqrt") /\ \A j \in Functions \cup Structs : program[j].name # name

\* The name of function i, or the one it calls, means a variable there, or
\* (for its own name) a struct.
Hidden(i) ==
  \/ program[i].hides = program[i].name
  \/ \E j \in DOMAIN program : program[j].kind # "fn" /\ SameName(i, j)
  \/ /\ Calls(program[i])
     /\ \/ program[i].hides = program[i].call.name
        \/ \E j \in OfKind("global") : program[j].name = program[i].call.name
     /\ \A j \in Structs : program[j].name # program[i].call.name

\* A call of println when the first function of that name has no parameters,
\* or of the name that one is mangled to: the writer reads the first one's type.
PrintsNothing ==
  LET named == {j \in Functions : program[j].name = Word("println")} IN
  \E i \in Callers, j \in named :
    /\ program[j].params = <<>>
    /\ \/ program[i].call.name = Mangling(j)
       \/ program[i].call.name = Word("println") /\ \A k \in named : j <= k

\* Struct i has a private field before a public one, and two public fields
\* of different types on one line.
PrivateFirst(i) ==
  \E k \in PublicFields(i) : \E j \in 1..(k - 1) : j \notin PublicFields(i)

Crowded(i) ==
  \E j, k \in PublicFields(i) :
    Line(i, j) = Line(i, k) /\ program[i].fields[j].type # program[i].fields[k].type

\* The mangled name of the constructor of a crowded struct may be this one,
\* depending on the order its fields come in.
Unsure(name) ==
  \E j \in Structs :
    /\ Crowded(j)
    /\ \E ks \in ByLine(j) : name = Mangled(program[j].name, FieldTypes(j, ks))

\* A call of the constructor of such a struct.
UnorderedCall(i) ==
  LET name == program[i].call.name IN
  \/ \E j \in Structs : program[j].name = name /\ (PrivateFirst(j) \/ Crowded(j))
  \/ Unsure(name)

\* A default value that is more than a literal.
Computed(i) == \E k \in DOMAIN program[i].fields : program[i].fields[k].computed

\* A global variable of the name of an earlier struct, or of the name an earlier
\* function is stored under.
NamesNoVariable(j) ==
  \E i \in 1..(j - 1) :
    \/ program[i].kind = "struct" /\ SameName(i, j)
    \/ program[i].kind = "fn" /\ program[j].name = Mangling(i)

\* Two definitions no language would take together.
Clash(i, j) ==
  /\ i # j /\ SameName(i, j)
  /\ \/ program[i].kind # "fn" /\ program[j].kind # "fn"
     \/ program[i].params = program[j].params /\ {program[i].kind, program[j].kind}
          \subseteq {"fn", "struct"}

\* Two that only the way names are stored confuses.
ManglingClash(i, j) ==
  /\ i # j
  /\ \/ ~SameName(i, j) /\ Mangling(i) = Mangling(j)
     \/ program[i].kind # "fn" /\ program[i].name = Mangling(j)

\* The functions a call may mean: the program's, or else the built-in one.
Meant(i) ==
  LET name == program[i].call.name
      own  == {program[j].params : j \in {k \in Functions \cup Structs :
                                           program[k].name = name}}
  IN  IF own # {} THEN own
      ELSE {BuiltinParams(b) : b \in {c \in Builtins : name = Word(c)}}

\* A call no function takes.
IllegalCall(i) == \A params \in Meant(i) : ~Accepts(program[i].call.args, params)

\* A call of a struct's name that comes before the struct, and before any
\* function of that name.
EarlyCall(i) ==
  /\ program[i].hides # program[i].call.name
  /\ \E j \in Structs : j > i /\ program[j].name = program[i].call.name
  /\ \A j \in 1..i : program[j].name # program[i].call.name

\* A call that some overload takes, but not the first with as many
\* parameters, and none exactly.
OrderDependent(i) ==
  /\ program[i].call.args \notin Meant(i)
  /\ \E params \in Meant(i) :
       Len(params) = Len(program[i].call.args) /\ ~Accepts(program[i].call.args, params)

-----------------------------------------------------------------------------
\* Every function in an overload list is the one its mangled name stands
\* for, and Main's methods are functions that have code.
TypeOK ==
  /\ phase \in Phases
  /\ todo \subseteq DOMAIN program
  /\ \A name \in DOMAIN symbols : symbols[name] \in Symbols
  /\ \A name \in DOMAIN overloads : \A k \in DOMAIN overloads[name] :
       LET s == overloads[name][k] IN
       /\ IsFunction(s) /\ NameOf(s) = name
       /\ s[1] = "fn" => symbols[Mangled(name, ParamsOf(s))] = s
  /\ \A k \in DOMAIN methods : IsFunction(methods[k]) /\ methods[k] \in DOMAIN code

\* A function gets one method, with its body and nothing else, if and only
\* if no other function has its name, or its mangled name for a name: the
\* generator looks the function it is defining up by its bare name.  What has
\* the name of a crowded struct's constructor is left open.
DefinitionsKeepTheirBodies ==
  phase = "done" =>
    \A i \in Functions :
      ~Unsure(program[i].name) =>
        (HasItsMethod(i) <=>
           \A j \in (Functions \cup Structs) \ {i} : ~Entangled(i, j))

\* A call runs the function the type checker resolved it to, if bare names
\* tell that function apart and the writer has no code of its own for it.
\* A constructor gives each public field its own argument, if the private
\* fields come last and no line has fields of different types.
CallsReachTheirFunction ==
  phase = "done" =>
    \A i \in Callers :
      ~AmbiguousCall(i) /\ ~HijackedCall(i) /\ ~UnorderedCall(i) => Runs(i) = ToRun(i)

\* The programs the compiler neither rejects nor survives are those in which a
\* variable or a struct hides a function from the generator but not from the
\* type checker, those that call println and define it without parameters
\* first, those with a computed default value in a struct, and, in the first
\* pass already, those that declare a variable where its name is taken by
\* something that is none.
AbortsAreNamed ==
  phase \in {"aborted", "done"} =>
    (phase = "aborted" <=> \/ PrintsNothing
                          \/ (\E i \in Functions : Hidden(i))
                          \/ (\E j \in Structs : Computed(j))
                          \/ \E j \in OfKind("global") : NamesNoVariable(j))

\* A program is rejected for two definitions that clash, or for a call no
\* function takes or of a struct that comes later; otherwise its names
\* collide only once mangled, a line has fields of different types, or the
\* overload that takes a call comes after one that does not.
RejectionsAreNamed ==
  phase = "rejected" =>
    \/ \E i, j \in DOMAIN program : Clash(i, j) \/ ManglingClash(i, j)
    \/ \E i \in Structs : Crowded(i)
    \/ \E i \in Callers : IllegalCall(i) \/ EarlyCall(i) \/ OrderDependent(i)

\* "Default" constructors initialize public members in order of appearance
\* (examples/ex6_math_structs.cgl), whatever private members there are.
MembersInOrder ==
  phase = "done" =>
    \A i \in Callers :
      (/\ resolved[i].symbol[1] = "ctor" /\ ~AmbiguousCall(i)
       /\ \A j \in Structs : ~Crowded(j)) => Runs(i) = ToRun(i)

=============================================================================
