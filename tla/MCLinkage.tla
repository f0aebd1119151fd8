------------------------------ MODULE MCLinkage ------------------------------
(* LinkageProps for TLC.                                                    *)
EXTENDS LinkageProps

Call(name, args) == [name |-> name, args |-> args]

F        == <<"f">>
FInt     == <<"f", "int">>      \* f_int, which f(int) and f_int() mangle to
FMangled == <<"f", "int", "">>  \* f_int_, which f(int) is stored under

\* Names of the other families: a program is of one family.
G        == <<"g">>
Pair     == <<"Pair">>

Some == {<<>>, <<"int">>, <<"string">>}
Args == Some \cup {<<"float">>}

Field(type) == [type |-> type, private |-> FALSE, beside |-> FALSE, computed |-> FALSE]

\* No field, and one public field of each type.
Plain == {<<>>, <<Field("int")>>, <<Field("string")>>}

\* Overloads, and names that mangling confuses.
MangledNames ==
  [size |-> 3, callers |-> 1, hiders |-> 0, structs |-> 3, names |-> {F, FInt, FMangled},
   params |-> Some, fields |-> Plain,
   calls |-> {Call(F, a) : a \in Args} \cup {Call(FMangled, <<>>)}]

\* Names that are hidden, and names that mean something to the compiler.
Reserved ==
  [size |-> 2, callers |-> 1, hiders |-> 1, structs |-> 2,
   names |-> {G, Word("println"), Word("readline"), Word("main")},
   params |-> Some, fields |-> Plain,
   calls |-> {Call(n, a) : n \in {G, Word("println"), Word("readline"), Word("main"),
                                  Word("sqrt")}, a \in Args}]

\* Constructors: every arrangement of three fields, and calls that fit some.
Fields ==
  [type : {"int", "string"}, private : BOOLEAN, beside : BOOLEAN, computed : {FALSE}]

Members ==
  [size |-> 2, callers |-> 1, hiders |-> 0, structs |-> 1, names |-> {Pair, Word("use")},
   params |-> {<<>>},
   fields |-> {fs \in BoundedSeq(Fields, 3) : fs # <<>> => ~fs[1].beside}
                \cup {<<[Field("int") EXCEPT !.computed = TRUE]>>},
   calls |-> {Call(Pair, a) : a \in BoundedSeq({"int", "string"}, 3)}]

\* Names that constructors and println() are stored under: the fields of a
\* crowded struct come in either order.
Beside(type) == [Field(type) EXCEPT !.beside = TRUE]

Stored ==
  LET swapped == Pair \o <<"string", "int", "">>
      println == <<"println", "">>
  IN
  [size |-> 3, callers |-> 1, hiders |-> 0, structs |-> 1,
   names |-> {Pair, swapped, Word("println"), println}, params |-> {<<>>},
   fields |-> {<<Field("int"), Beside("string")>>},
   calls |-> {Call(swapped, <<>>), Call(println, <<>>), Call(Pair, <<"int", "string">>)}]

AllFamilies == {MangledNames, Reserved, Members, Stored}

MemberFamily == {Members}
=============================================================================
