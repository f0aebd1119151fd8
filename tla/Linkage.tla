------------------------------- MODULE Linkage -------------------------------
(***************************************************************************)
(* From the name of a function to its code.  Four parties look names up,   *)
(* each in its own way: symbol collection stores a function under its      *)
(* mangled name and in a list of overloads; the type checker resolves a    *)
(* call among the overloads; the generator resolves definitions and calls  *)
(* by the bare name; and the bytecode writer emits mangled names again,    *)
(* with names of its own for print, readline, main and constructors.       *)
(*                                                                         *)
(* The constructor of a struct is nobody's text: one pass makes it, from   *)
(* the public fields by line, and the generator makes its parameters and   *)
(* its code once more, from all the fields in order.                       *)
(*                                                                         *)
(* A program is a sequence of top-level definitions.  Names and types are  *)
(* the words that underscores join, because mangling is not injective.     *)
(***************************************************************************)
EXTENDS Integers, Sequences, FiniteSets, SequencesExt

CONSTANT
  Families  \* bound: the programs are those of one family, a record of how
            \* many definitions there are (size), how many of them call a
            \* function (callers) and give their first parameter a name that
            \* is among the names defined (hiders), how many are structs, and
            \* the names, parameter types, calls and fields they are made of

Types    == {"int", "float", "string"}
Builtins == {"println", "readline", "sqrt"}

Word(name) == <<name>>
NoName == <<>>

ASSUME FamiliesAssumption ==
  \A family \in Families :
    /\ family.size \in Nat /\ family.callers \in Nat /\ family.hiders \in Nat
    /\ family.structs \in Nat
    /\ family.names \subseteq Seq(STRING) \ {NoName}
    /\ family.params \subseteq Seq(Types)
    /\ family.calls \subseteq [name : Seq(STRING) \ {NoName}, args : Seq(Types)]
    /\ family.fields \subseteq Seq([type : Types, private : BOOLEAN,
                                   beside : BOOLEAN, computed : BOOLEAN])

VARIABLES
  phase,      \* see Phases
  program,    \* the definitions
  symbols,    \* Scope::symbols of the program scope: name -> symbol
  overloads,  \* its functionOverloads: name -> the symbols in order
  parameters, \* of each constructor: indices of its struct's fields
  todo,       \* the definitions the current pass has yet to visit
  resolved,   \* the symbol and the parameter types each call was checked with
  methods,    \* the symbols in the methods of the class Main
  code        \* symbol -> the instructions appended to it

vars == <<phase, program, symbols, overloads, parameters, todo, resolved, methods, code>>

Phases == {"collecting", "constructors", "checking", "generating", "writing",
           "done", "rejected", "aborted"}

-----------------------------------------------------------------------------
(* Definitions.  A function's body is a mark of its own and at most one     *)
(* call; `hides` is the name of its first parameter.                        *)

NoCall == [name |-> NoName, args |-> <<>>]
NoSymbol == <<"none", 0>>

Fn(name, params, hides, call) ==
  [kind |-> "fn", name |-> name, params |-> params, hides |-> hides, call |-> call,
   fields |-> <<>>]

\* A global variable with a literal for its initial value: without one, the
\* use-before-definition pass rejects a call of its name.
Global(name) ==
  [kind |-> "global", name |-> name, params |-> <<>>, hides |-> NoName,
   call |-> NoCall, fields |-> <<>>]

PublicIndices(fields) == {k \in DOMAIN fields : ~fields[k].private}

InOrder(indices) ==
  CHOOSE ks \in SetToSeqs(indices) : \A m, n \in DOMAIN ks : m < n => ks[m] < ks[n]

\* A struct's params are the types of its public fields, in order.  A field
\* may stand beside the one before it, on its line, and have a default value
\* that is computed.
Struct(name, fields) ==
  LET public == InOrder(PublicIndices(fields)) IN
  [kind |-> "struct", name |-> name,
   params |-> [n \in DOMAIN public |-> fields[public[n]].type],
   hides |-> NoName, call |-> NoCall, fields |-> fields]

\* Symbols: <<"fn", i>>, <<"struct", i>>, <<"ctor", i>>, <<"global", i>>,
\* <<"param", i>>, <<"builtin", name>>.
IsFunction(s) == s[1] \in {"fn", "ctor", "builtin"}

Symbols ==
  ({"fn", "struct", "ctor", "global"} \X DOMAIN program) \cup ({"builtin"} \X Builtins)

\* addBuiltinFunctions
BuiltinParams(name) ==
  CASE name = "println" -> <<"string">> [] name = "sqrt" -> <<"float">>
    [] OTHER -> <<>>

NameOf(s) == IF s[1] = "builtin" THEN Word(s[2]) ELSE program[s[2]].name

FieldTypes(i, ks) == [n \in DOMAIN ks |-> program[i].fields[ks[n]].type]

ParamsOf(s) ==
  CASE s[1] = "builtin" -> BuiltinParams(s[2])
    [] s[1] = "ctor"    -> FieldTypes(s[2], parameters[s[2]])
    [] OTHER            -> program[s[2]].params

\* Mutation: the parameters are no part of the mangled name.
MangledWithoutTypes(name, params) == name \o <<"">>

\* getMangledName: name_type_type_
Mangled(name, params) == name \o params \o <<"">>

Lookup(table, name, otherwise) ==
  IF name \in DOMAIN table THEN table[name] ELSE otherwise

\* Mutation: the scopes are asked from the outermost in.
ResolveOutermost(name) ==
  IF \E b \in Builtins : name = Word(b) THEN <<"builtin", name[1]>>
  ELSE IF name \in DOMAIN symbols THEN symbols[name]
  ELSE IF name \in DOMAIN overloads THEN overloads[name][1]
  ELSE NoSymbol

\* Scope::resolve from the program scope: variables, structs and mangled
\* names first, then the first overload, then the enclosing scope.
Resolve(name) ==
  IF name \in DOMAIN symbols THEN symbols[name]
  ELSE IF name \in DOMAIN overloads THEN overloads[name][1]
  ELSE IF \E b \in Builtins : name = Word(b) THEN <<"builtin", name[1]>>
  ELSE NoSymbol

\* And from the scope of function i, which holds its parameters.
ResolveIn(i, name) ==
  IF program[i].hides = name THEN <<"param", i>> ELSE Resolve(name)

\* resolveFunctionCall: the overload with those types, or else the first
\* with as many parameters.  A scope that knows the name is the last asked.
Candidates(name) ==
  Lookup(overloads, name,
         IF \E b \in Builtins : name = Word(b) THEN << <<"builtin", name[1]>> >>
                                               ELSE <<>>)

ResolveCall(name, args) ==
  LET candidates == Candidates(name)
      fits  == {k \in DOMAIN candidates : Len(ParamsOf(candidates[k])) = Len(args)}
      exact == {k \in fits : ParamsOf(candidates[k]) = args}
      First(ks) == candidates[CHOOSE k \in ks : \A j \in ks : k <= j]
  IN  IF exact # {} THEN First(exact) ELSE IF fits # {} THEN First(fits) ELSE NoSymbol

-----------------------------------------------------------------------------
Put(table, name, value) ==
  [n \in DOMAIN table \cup {name} |-> IF n = name THEN value ELSE table[n]]

\* Mutation: a function of the same mangled name is replaced.
AddFunctionUnchecked(s, name, params) ==
  /\ symbols' = Put(symbols, Mangled(name, params), s)
  /\ overloads' = Put(overloads, name, Append(Lookup(overloads, name, <<>>), s))
  /\ UNCHANGED phase

\* Scope::addFunction
AddFunction(s, name, params) ==
  IF Mangled(name, params) \in DOMAIN symbols
  THEN phase' = "rejected" /\ UNCHANGED <<symbols, overloads>>
  ELSE /\ symbols' = Put(symbols, Mangled(name, params), s)
       /\ overloads' = Put(overloads, name, Append(Lookup(overloads, name, <<>>), s))
       /\ UNCHANGED phase

\* exitVariable_declaration writes to the variable the name means, although the
\* declaration was refused, and follows a null pointer if it means no variable.
AfterRedeclaration(s, name) ==
  IF s[1] = "global" /\ symbols[name][1] # "global" THEN "aborted" ELSE "rejected"

\* Scope::add, of a struct or a global variable
AddOther(s, name) ==
  IF name \in DOMAIN symbols
  THEN phase' = AfterRedeclaration(s, name) /\ UNCHANGED <<symbols, overloads>>
  ELSE symbols' = Put(symbols, name, s) /\ UNCHANGED <<phase, overloads>>

Init ==
  /\ phase = "collecting"
  /\ program = <<>>
  /\ symbols = <<>>
  /\ overloads = <<>>
  /\ parameters = <<>>
  /\ todo = {}
  /\ resolved = <<>>
  /\ methods = <<>>
  /\ code = <<>>

Hides(d) == d.hides # NoName
Calls(d) == d.call # NoCall

OfKind(kind) == {i \in DOMAIN program : program[i].kind = kind}

Callers == {i \in DOMAIN program : Calls(program[i])}

\* The definitions that may follow those collected so far.
Definitions ==
  UNION {
    LET hiders == {i \in DOMAIN program : Hides(program[i])}
        hidden == IF Cardinality(hiders) < family.hiders THEN family.names ELSE {}
        called == IF Cardinality(Callers) < family.callers THEN family.calls ELSE {}
    IN
    {Fn(n, p, NoName, c) :
       n \in family.names, p \in family.params, c \in called \cup {NoCall}}
    \cup {Fn(n, p, h, c) : n \in family.names, p \in family.params \ {<<>>},
                           h \in hidden, c \in called \cup {NoCall}}
    \cup (IF Cardinality(OfKind("struct")) < family.structs
          THEN {Struct(n, fs) : n \in family.names, fs \in family.fields} ELSE {})
    \cup {Global(n) : n \in family.names} :
    family \in {f \in Families : /\ Len(program) < f.size
                                 /\ \A i \in DOMAIN program : program[i].name \in f.names}}

\* Symbol collection: enterFunction_definition, enterStruct_definition and
\* enterVariable_declaration at the top level.
Collect(d) ==
  /\ phase = "collecting"
  /\ program' = Append(program, d)
  /\ LET i == Len(program) + 1 IN
       IF d.kind = "fn" THEN AddFunction(<<"fn", i>>, d.name, d.params)
                        ELSE AddOther(<<d.kind, i>>, d.name)
  /\ UNCHANGED <<parameters, todo, resolved, methods, code>>

NextTodo == CHOOSE i \in todo : \A j \in todo : i <= j

EndCollection ==
  /\ phase = "collecting" /\ program # <<>>
  /\ phase' = "constructors"
  /\ todo' = OfKind("struct")
  /\ UNCHANGED <<program, symbols, overloads, parameters, resolved, methods, code>>

PublicFields(i) == PublicIndices(program[i].fields)

Line(i, k) == Cardinality({j \in 1..k : ~program[i].fields[j].beside})

\* The fields come out of an unordered map and are sorted by their lines.
ByLine(i) ==
  {ks \in SetToSeqs(PublicFields(i)) :
     \A m, n \in DOMAIN ks : m < n => Line(i, ks[m]) <= Line(i, ks[n])}

\* DefaultConstructorListener: the constructor is a function of the scope the
\* struct is in.
CreateConstructor ==
  /\ phase = "constructors" /\ todo # {}
  /\ \E ks \in ByLine(NextTodo) :
       /\ parameters' = Put(parameters, NextTodo, ks)
       /\ AddFunction(<<"ctor", NextTodo>>, program[NextTodo].name,
                      FieldTypes(NextTodo, ks))
  /\ todo' = todo \ {NextTodo}
  /\ UNCHANGED <<program, resolved, methods, code>>

EndConstructors ==
  /\ phase = "constructors" /\ todo = {}
  /\ phase' = "checking"
  /\ todo' = Callers
  /\ resolved' = [i \in DOMAIN program |-> [symbol |-> NoSymbol, params |-> <<>>]]
  /\ UNCHANGED <<program, symbols, overloads, parameters, methods, code>>

Accepts(args, params) ==
  /\ Len(args) = Len(params)
  /\ \A k \in DOMAIN args : args[k] = params[k] \/ params[k] = "string"

\* The use-before-definition pass: the name, looked up by itself, is a struct
\* that no definition has marked.  A struct or a function, when it is entered,
\* marks what its name means, be it the struct of that name.
UsedTooEarly(i) ==
  LET name == program[i].call.name IN
  /\ ResolveIn(i, name)[1] = "struct"
  /\ \A j \in 1..i : program[j].name # name

\* exitFunction_call of the type checker
CheckCall ==
  /\ phase = "checking" /\ todo # {}
  /\ LET i == NextTodo
         call == program[i].call
         s == ResolveCall(call.name, call.args)
     IN
     /\ IF s = NoSymbol \/ UsedTooEarly(i)
        THEN phase' = "rejected" /\ UNCHANGED resolved
        ELSE /\ resolved' = [resolved EXCEPT ![i] = [symbol |-> s, params |-> ParamsOf(s)]]
             /\ phase' = IF Accepts(call.args, ParamsOf(s)) THEN phase ELSE "rejected"
     /\ todo' = todo \ {i}
  /\ UNCHANGED <<program, symbols, overloads, parameters, methods, code>>

EndChecking ==
  /\ phase = "checking" /\ todo = {}
  /\ phase' = "generating"
  /\ todo' = OfKind("fn") \cup OfKind("struct")
  /\ UNCHANGED <<program, symbols, overloads, parameters, resolved, methods, code>>

\* Mutation: the parameters of the caller do not hide anything.
CalledFunctionUnhidden(i) ==
  LET name == program[i].call.name
      ctors == {j \in OfKind("struct") : program[j].name = name}
  IN  IF ctors # {} THEN <<"ctor", CHOOSE j \in ctors : TRUE>> ELSE Resolve(name)

\* The function a call is generated for: constructors first.  For print and
\* println the generator also pushes System.out here, which is taken for a part of
\* the call that is written; a constructor is called "<init>" by then.
CalledFunction(i) ==
  LET name == program[i].call.name
      ctors == {j \in OfKind("struct") : program[j].name = name}
  IN  IF ctors # {} THEN <<"ctor", CHOOSE j \in ctors : TRUE>> ELSE ResolveIn(i, name)

Body(i) ==
  << <<"body", i>> >> \o
    (IF Calls(program[i]) THEN << <<"call", CalledFunction(i)>> >> ELSE <<>>)

\* enterFunction_definition and the calls in the body.  The function being
\* defined is looked up by its bare name, from inside its own scope.
GenerateFunction ==
  /\ phase = "generating" /\ todo # {} /\ program[NextTodo].kind = "fn"
  /\ LET i == NextTodo
         current == ResolveIn(i, program[i].name)
     IN
     IF ~IsFunction(current)
          \/ (Calls(program[i]) /\ ~IsFunction(CalledFunction(i)))
     THEN phase' = "aborted" /\ UNCHANGED <<methods, code>>
     ELSE /\ methods' = Append(methods, current)
          /\ code' = Put(code, current, Lookup(code, current, <<>>) \o Body(i))
          /\ UNCHANGED phase
  /\ todo' = todo \ {NextTodo}
  /\ UNCHANGED <<program, symbols, overloads, parameters, resolved>>

\* Mutation: the fields are numbered without the private ones, but from 0.
StoresFromZero(i) ==
  LET public == InOrder(PublicFields(i)) IN
  [n \in DOMAIN public |-> <<"put", public[n], n - 1>>]

\* The constructor's code: field k is loaded from the local variable k.
Stores(i) ==
  LET public == InOrder(PublicFields(i)) IN
  [n \in DOMAIN public |-> <<"put", public[n], public[n]>>]

\* enterVariable_declaration of the fields, then exitStruct_definition.  No
\* function is current while a default value that is computed is walked.
GenerateStruct ==
  /\ phase = "generating" /\ todo # {} /\ program[NextTodo].kind = "struct"
  /\ LET i == NextTodo IN
     IF \E k \in DOMAIN program[i].fields : program[i].fields[k].computed
     THEN phase' = "aborted" /\ UNCHANGED <<parameters, code>>
     ELSE /\ parameters' = [parameters EXCEPT ![i] = InOrder(PublicFields(i))]
          /\ code' = Put(code, <<"ctor", i>>,
                         Lookup(code, <<"ctor", i>>, <<>>) \o Stores(i))
          /\ UNCHANGED phase
  /\ todo' = todo \ {NextTodo}
  /\ UNCHANGED <<program, symbols, overloads, resolved, methods>>

EndGenerating ==
  /\ phase = "generating" /\ todo = {}
  /\ phase' = "writing"
  /\ UNCHANGED <<program, symbols, overloads, parameters, todo, resolved, methods, code>>

\* The name generateClass writes for a method of Main.
WrittenName(s) ==
  CASE s[1] = "ctor" -> Word("<init>")
    [] s[1] # "ctor" /\ NameOf(s) = Word("main") -> Word("main")
    [] OTHER -> Mangled(NameOf(s), ParamsOf(s))

\* Mutation: no built-in function but println is written specially.
WrittenCallPrintOnly(s) ==
  CASE s[1] = "ctor" -> s
    [] s[1] # "ctor" /\ NameOf(s) = Word("println") -> <<"builtin", "println">>
    [] OTHER -> <<"static", Mangled(NameOf(s), ParamsOf(s))>>

\* What generateCallInstruction writes for a call of s.
WrittenCall(s) ==
  CASE s[1] = "ctor" -> s
    [] s[1] # "ctor" /\ NameOf(s) = Word("println") ->
         IF ParamsOf(s) # <<>> /\ ParamsOf(s)[1] = "string"
         THEN <<"builtin", "println">> ELSE <<"nothing">>
    [] s[1] # "ctor" /\ NameOf(s) = Word("readline") -> <<"builtin", "readline">>
    [] OTHER -> <<"static", Mangled(NameOf(s), ParamsOf(s))>>

WrittenCalls ==
  {s \in Symbols : \E t \in DOMAIN code : \E k \in DOMAIN code[t] :
                      code[t][k] = <<"call", s>>}

\* Writing the class.  The parameter of a function called println is read
\* without asking whether it has one.
Write ==
  /\ phase = "writing"
  /\ phase' = IF \E s \in WrittenCalls :
                   s[1] # "ctor" /\ NameOf(s) = Word("println") /\ ParamsOf(s) = <<>>
              THEN "aborted" ELSE "done"
  /\ UNCHANGED <<program, symbols, overloads, parameters, todo, resolved, methods, code>>

Next ==
  \/ \E d \in Definitions : Collect(d)
  \/ EndCollection \/ CreateConstructor \/ EndConstructors
  \/ CheckCall \/ EndChecking \/ GenerateFunction \/ GenerateStruct
  \/ EndGenerating \/ Write

Spec == Init /\ [][Next]_vars

=============================================================================
