------------------------------ MODULE ScopeProps ------------------------------
(***************************************************************************)
(* What the passes of ScopePasses promise: lexical scoping, read off the   *)
(* program's text, is what every pass and the generated code implement.    *)
(***************************************************************************)
EXTENDS ScopePasses

-----------------------------------------------------------------------------
(* The reference: scoping as the program's text has it.                    *)

Declarations == {i \in DOMAIN program : program[i].op \in {"declare", "param"}}

\* Event i is inside scope s: s opens before i and has not ended before i.
Inside(s, i) ==
  \/ s = 0
  \/ /\ s < i /\ program[s].op \in {"function", "block"}
     /\ \A e \in DOMAIN program :
          (program[e].op = "end" /\ program[e].parent = s) => i <= e

\* The declarations of the name that are in scope at event i.
Visible(name, i) ==
  {d \in Declarations : /\ d <= i /\ program[d].name = name
                        /\ Inside(program[d].parent, i)}

\* The innermost of them, 0 if there is none.  A scope has one declaration of
\* a name in the programs this is used for.
Lexical(name, i) ==
  IF Visible(name, i) = {} THEN 0
  ELSE CHOOSE d \in Visible(name, i) :
         \A o \in Visible(name, i) : program[o].parent <= program[d].parent

Redeclared ==
  \E d, o \in Declarations : /\ d # o /\ program[d].name = program[o].name
                             /\ program[d].parent = program[o].parent

\* Some name is declared in two scopes one of which is inside the other.
Shadows ==
  \E d, o \in Declarations : /\ program[d].name = program[o].name
                             /\ program[d].parent < program[o].parent
                             /\ Inside(program[d].parent, program[o].parent)

\* A name is declared in a scope after the scope has read or assigned it.
LateShadow ==
  \E d \in Declarations, i \in DOMAIN program :
    /\ i < d /\ Inside(program[d].parent, i) /\ program[d].parent < i
    /\ \/ program[i].op \in {"assign"} /\ program[i].name = program[d].name
       \/ program[i].src = program[d].name

Reads(i) == program[i].src \in Names

\* A statement reads its own variable in its declaration.
SelfInit(i) == program[i].op = "declare" /\ program[i].src = program[i].name

WellResolved ==
  \A i \in DOMAIN program :
    /\ Reads(i) => Lexical(program[i].src, i) # 0
    /\ program[i].op = "assign" => Lexical(program[i].name, i) # 0

TypeRead(i) ==
  IF Reads(i) THEN TypeOfSymbol(Lexical(program[i].src, i)) ELSE program[i].src

WellTyped ==
  \A i \in DOMAIN program :
    /\ (program[i].op = "declare" /\ program[i].src # NoInit) =>
         TypeRead(i) = program[i].type
    /\ program[i].op = "assign" =>
         TypeRead(i) = TypeOfSymbol(Lexical(program[i].name, i))

\* Event w gives variable d a value.
Writes(w, d) ==
  \/ w = d /\ (program[d].op = "param" \/ program[d].src # NoInit)
  \/ program[w].op = "assign" /\ Lexical(program[w].name, w) = d

\* Every variable read has been written earlier in the text, or is being
\* initialised (from itself, at worst).
WrittenBeforeRead ==
  \A i \in DOMAIN program : Reads(i) =>
    LET d == Lexical(program[i].src, i) IN
      d # 0 => \E w \in 1..i : Writes(w, d) /\ (w = i => SelfInit(i))

Analysed == phase \in {"generate", "finished", "rejected"}
Accepted == phase \in {"generate", "finished"}

-----------------------------------------------------------------------------
Ops == {"function", "block", "end", "param", "declare", "assign", "use"}

EventRecord == [op : Ops, name : Names \cup {""}, type : Types \cup {""},
                src : Sources, parent : Scopes]

\* The state keeps its shape: scopes and symbols are events of the program,
\* and whatever scope a pass is in, the program's scope is in its chain.
TypeOK ==
  /\ phase \in Phases
  /\ program \in Seq(EventRecord) /\ Len(program) <= MaxEvents
  /\ nest \in Seq(Scopes)
  /\ pos \in 0..(Len(program) + 1) /\ (phase # "collect" => pos # 0)
  /\ chain \in [Scopes -> SUBSET Scopes]
  /\ currentScope \in Scopes /\ 0 \in chain[currentScope]
  /\ symbols \in [Scopes -> [Names -> 0..Len(program)]]
  /\ isDefined \in [Events -> BOOLEAN]
  /\ localIndex \in [Events -> {-1} \cup Nat] /\ nextLocal \in Nat

\* The first pass is always in the scope of the innermost function or block
\* it has entered and not left, whose chain is exactly the open events: every
\* push of a scope is matched by one pop.
CollectScopeIsLexical ==
  phase = "collect" =>
    /\ currentScope = Enclosing
    /\ chain[currentScope] = {nest[i] : i \in DOMAIN nest}

\* Scope::add never replaces a symbol, and later passes leave the scope tree
\* and the symbols alone: what a scope calls a name never changes.
SymbolsAreStable ==
  [][\A s \in Scopes, n \in Names :
       symbols[s][n] # 0 => symbols'[s][n] = symbols[s][n]]_vars

\* In a program without shadowing the passes accept exactly what lexical
\* scoping accepts, although two of them never leave a scope they entered:
\* no declaration clashes, every name is declared, types agree, and every
\* variable read has been written before, in the text.
AcceptsWhatScopingAccepts ==
  (Analysed /\ ~Shadows) =>
    (Accepted <=> ~Redeclared /\ WellResolved /\ WellTyped /\ WrittenBeforeRead)

\* The generated code of an accepted program loads and stores the variables
\* lexical scoping names, with or without shadowing, as long as no name is
\* declared in a scope that has used it before.
CodeUsesLexicalVariables ==
  (Accepted /\ ~LateShadow) =>
    \A k \in DOMAIN code :
      LET i == code[k].at IN
      code[k].symbol = (IF code[k].op = "load" THEN Lexical(program[i].src, i)
                        ELSE Lexical(program[i].name, i))

\* Two variables of one function never share a slot, a variable has one slot
\* everywhere, and a slot in use is one nextLocal has passed.
FunctionOf(i) ==
  Greatest({f \in 1..i : program[f].op = "function"})
SlotsAreDistinct ==
  \A k, l \in DOMAIN code :
    LET a == code[k] b == code[l] IN
    ( /\ program[a.symbol].parent # 0 /\ program[b.symbol].parent # 0
      /\ FunctionOf(a.at) = FunctionOf(b.at)
      /\ a.slot # -1 /\ b.slot # -1 )
    => (a.slot = b.slot <=> a.symbol = b.symbol)

\* A variable local to a function has its slot before it is first loaded or
\* stored, in programs without a late declaration.
Unallocated ==
  \E k \in DOMAIN code : code[k].slot = -1 /\ program[code[k].symbol].parent # 0
SlotsAreAllocated == ~LateShadow => ~Unallocated

\* "cannot assign float to int": in an accepted program every value assigned
\* has the type of the variable the code stores it in.
StoresAreWellTyped ==
  \A k \in DOMAIN code :
    LET i == code[k].at IN
    (code[k].op = "store" /\ program[i].src \in Types)
      => program[code[k].symbol].type = program[i].src

\* "Use of a variable before definition" is checked for: in an accepted program
\* without shadowing, a variable of a function is stored before each load of it,
\* in the code, unless it is being initialised from itself.  That the first pass
\* takes for a definition, and the slot is then loaded as it is.
UnstoredLoadsAreNamed ==
  (Accepted /\ ~Shadows) =>
    \A k \in DOMAIN code :
      LET s == code[k].symbol IN
      (code[k].op = "load" /\ program[s].op = "declare" /\ program[s].parent # 0) =>
        ((\E w \in 1..(k - 1) : code[w].op = "store" /\ code[w].symbol = s)
           <=> ~SelfInit(code[k].at))

=============================================================================
