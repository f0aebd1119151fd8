----------------------------- MODULE ScopePasses -----------------------------
(***************************************************************************)
(* Variables across the passes: SymbolCollectionListener builds the scope  *)
(* tree and the symbols, TypeCheckingListener and                          *)
(* UseBeforeDefinitionListener resolve names in it again, each with a      *)
(* `currentScope` of its own, and BytecodeIRGeneratorListener resolves     *)
(* them a fourth time to assign and use local variable slots.              *)
(*                                                                         *)
(* The program is chosen event by event while the first pass walks it; the *)
(* later passes walk the recorded events.  An event is a function or block *)
(* (up to its "end"), a parameter, a declaration, an assignment or a use.  *)
(* A scope is named by the event that opens it (0 is the program), a       *)
(* variable symbol by the event that declares it (0 is no symbol).         *)
(***************************************************************************)
EXTENDS Integers, Sequences

CONSTANTS
  Names,      \* variable names
  Types,      \* types none of which converts to another
  NoInit,     \* a declaration without an initialiser
  Statements, \* the param, declare, assign and use statements of programs
  MaxEvents   \* bound: events of the program

\* A statement's src is what it reads: a variable's name, a literal of a
\* type, or nothing.
Sources == Names \cup Types \cup {NoInit}

ASSUME ConstantsAssumption ==
  /\ MaxEvents \in Nat
  /\ Names \cap Types = {} /\ NoInit \notin Names \cup Types
  /\ Statements \subseteq [op : {"param", "declare", "assign", "use"},
                           name : Names, type : Types, src : Sources]

Events == 1..MaxEvents
Scopes == 0..MaxEvents

VARIABLES
  phase,         \* the pass that is walking, or how the compilation ended
  program,       \* the events, in the walker's order
  nest,          \* the events still open in the parse tree, outermost first
  pos,           \* how far the current later pass has walked
  currentScope,  \* currentScope of the pass that is walking
  chain,         \* the scopes reached from each scope by parent pointers
  symbols,       \* Scope::symbols: the variable each scope has for each name
  isDefined,     \* VariableSymbol::isDefined
  localIndex,    \* VariableSymbol::localIndex
  nextLocal,     \* currentLocalIndex
  errors,        \* what the shared ErrorReporter holds
  code           \* the loads and stores generated

vars == <<phase, program, nest, pos, currentScope, chain, symbols, isDefined,
          localIndex, nextLocal, errors, code>>

-----------------------------------------------------------------------------
Phases == {"collect", "check", "define", "generate", "finished", "rejected"}

Greatest(S) == CHOOSE x \in S : \A y \in S : x >= y

\* Mutation: the search ends at the outermost scope that has the name.
ResolveOutermost(scope, name) ==
  LET holders == {s \in chain[scope] : symbols[s][name] # 0} IN
  IF holders = {} THEN 0
  ELSE symbols[CHOOSE s \in holders : \A t \in holders : s <= t][name]

\* Scope::resolve.  Scopes are created outside in, so the innermost scope
\* that has the name is the latest.
Resolve(scope, name) ==
  LET holders == {s \in chain[scope] : symbols[s][name] # 0} IN
  IF holders = {} THEN 0 ELSE symbols[Greatest(holders)][name]

Enclosing == nest[Len(nest)]

\* The parse-tree ancestor whose scope getCurrentScope finds.
TreeScope(i) == program[i].parent

\* The symbol of the name an event declares or assigns.
Target(scope, st) ==
  IF st.op \in {"declare", "param", "assign"} THEN Resolve(scope, st.name) ELSE 0

TypeOfSymbol(s) == IF s = 0 THEN "void" ELSE program[s].type

SourceType(scope, src) ==
  IF src \in Names THEN TypeOfSymbol(Resolve(scope, src)) ELSE src

Report(kind, i) == [kind |-> kind, at |-> i]

-----------------------------------------------------------------------------
Init ==
  /\ phase = "collect"
  /\ program = <<>>
  /\ nest = <<0>>
  /\ pos = 0
  /\ currentScope = 0
  /\ chain = [s \in Scopes |-> IF s = 0 THEN {0} ELSE {}]
  /\ symbols = [s \in Scopes |-> [n \in Names |-> 0]]
  /\ isDefined = [e \in Events |-> FALSE]
  /\ localIndex = [e \in Events |-> -1]
  /\ nextLocal = 0
  /\ errors = {}
  /\ code = <<>>

-----------------------------------------------------------------------------
(* Pass 1, SymbolCollectionListener.                                       *)

Event(op, name, type, src) ==
  [op |-> op, name |-> name, type |-> type, src |-> src, parent |-> Enclosing]

Collecting(op) ==
  /\ phase = "collect" /\ Len(program) < MaxEvents
  /\ IF Enclosing = 0 THEN op \in {"function", "declare"} ELSE op # "function"

\* enterFunction_definition and the enter handlers of loops and blocks: a
\* new scope under the current one becomes the current one.
CollectEnter(op) ==
  LET e == Len(program) + 1 IN
  /\ Collecting(op)
  /\ program' = Append(program, Event(op, "", "", NoInit))
  /\ nest' = Append(nest, e)
  /\ chain' = [chain EXCEPT ![e] = chain[currentScope] \cup {e}]
  /\ currentScope' = e
  /\ UNCHANGED <<phase, pos, symbols, isDefined, localIndex, nextLocal, errors,
                 code>>

\* Mutation: leaving any scope goes to the program's.
ParentScopeIsProgram(s) == 0

\* The exit handlers: back to the parent scope.  A scope's parent is the
\* latest of the other scopes in its chain.
ParentScope(s) == Greatest(chain[s] \ {s})

CollectExit ==
  /\ phase = "collect" /\ Len(program) < MaxEvents
  /\ Enclosing # 0
  /\ program' = Append(program, Event("end", "", "", NoInit))
  /\ nest' = SubSeq(nest, 1, Len(nest) - 1)
  /\ currentScope' = ParentScope(currentScope)
  /\ UNCHANGED <<phase, pos, chain, symbols, isDefined, localIndex, nextLocal,
                 errors, code>>

\* enterVariable: a name that resolves to nothing is reported.
UnresolvedUses(names, table, e) ==
  {Report("unresolved", e) :
     n \in {m \in names : \A s \in chain[currentScope] : table[s][m] = 0}}

\* Mutation: the symbol replaces one of the same name and scope.
RegisteredAnyway(name, e) == [symbols EXCEPT ![currentScope][name] = e]

\* createAndRegisterVariableSymbol adds the symbol unless its scope has the
\* name already, which is a redeclaration.
Registered(name, e) ==
  IF symbols[currentScope][name] = 0
  THEN [symbols EXCEPT ![currentScope][name] = e] ELSE symbols

Redeclarations(name, e) ==
  IF symbols[currentScope][name] = 0 THEN {} ELSE {Report("redeclaration", e)}

\* exitVariable_declaration marks what the name now resolves to as defined.
DefinedBy(name, e) ==
  IF symbols[currentScope][name] = 0 THEN e ELSE symbols[currentScope][name]

CollectDeclare(st) ==
  LET e == Len(program) + 1 IN
  /\ st.op = "declare" /\ Collecting("declare")
  /\ Enclosing = 0 => st.src \notin Names  \* the generator has no function then
  /\ program' = Append(program, Event("declare", st.name, st.type, st.src))
  /\ symbols' = Registered(st.name, e)
  /\ isDefined' = IF st.src = NoInit THEN isDefined
                  ELSE [isDefined EXCEPT ![DefinedBy(st.name, e)] = TRUE]
  /\ errors' = errors \cup Redeclarations(st.name, e)
                 \cup UnresolvedUses({st.src} \cap Names, symbols', e)
  /\ UNCHANGED <<phase, nest, pos, currentScope, chain, localIndex, nextLocal,
                 code>>

\* A parameter comes right after its function's name; it is always defined.
CollectParam(st) ==
  LET e == Len(program) + 1 IN
  /\ st.op = "param" /\ Collecting("param")
  /\ program # <<>> /\ program[e - 1].op \in {"function", "param"}
  /\ program' = Append(program, Event("param", st.name, st.type, NoInit))
  /\ symbols' = Registered(st.name, e)
  /\ isDefined' = [isDefined EXCEPT ![e] = TRUE]
  /\ errors' = errors \cup Redeclarations(st.name, e)
  /\ UNCHANGED <<phase, nest, pos, currentScope, chain, localIndex, nextLocal,
                 code>>

\* An assignment or a use: every identifier in it is looked up.
CollectReference(st) ==
  LET e == Len(program) + 1
      names == ({st.src} \cap Names) \cup (IF st.op = "assign" THEN {st.name} ELSE {})
  IN
  /\ st.op \in {"assign", "use"} /\ Collecting(st.op)
  /\ program' = Append(program, Event(st.op, st.name, st.type, st.src))
  /\ errors' = errors \cup UnresolvedUses(names, symbols, e)
  /\ UNCHANGED <<phase, nest, pos, currentScope, chain, symbols, isDefined,
                 localIndex, nextLocal, code>>

\* The next pass starts at the program's scope.
StartPass(from, to) ==
  /\ phase = from
  /\ phase' = to
  /\ pos' = 1
  /\ currentScope' = 0

CollectDone ==
  /\ Enclosing = 0 /\ program # <<>>
  /\ StartPass("collect", "check")
  /\ UNCHANGED <<program, nest, chain, symbols, isDefined, localIndex,
                 nextLocal, errors, code>>

-----------------------------------------------------------------------------
(* enterEveryRule of the two checking passes: entering a rule that has a   *)
(* scope makes it current, and no exit handler undoes that.                *)

\* Mutation: whatever rule is entered replaces currentScope.
OpensScopeAlways(i) == TRUE

OpensScope(i) == program[i].op \in {"function", "block"}

\* Mutation: entering a scope does not make it current.
EnterEveryRuleIgnored(i) == currentScope

EnterEveryRule(i) == IF OpensScope(i) THEN i ELSE currentScope

Step(p) == phase = p /\ pos <= Len(program) /\ pos' = pos + 1

(* TypeCheckingListener: initialisers and assigned values.                 *)

\* Mutation: assigned values are not checked.
MismatchOfInitialiser(st, i) ==
  st.op = "declare" /\ st.src # NoInit /\ SourceType(currentScope, st.src) # st.type

Mismatch(st, i) ==
  \/ /\ st.op = "declare" /\ st.src # NoInit
     /\ SourceType(currentScope, st.src) # st.type
  \/ /\ st.op = "assign"
     /\ SourceType(currentScope, st.src)
          # TypeOfSymbol(Target(currentScope, st))

Check ==
  /\ Step("check")
  /\ currentScope' = EnterEveryRule(pos)
  /\ errors' = errors \cup (IF Mismatch(program[pos], pos)
                            THEN {Report("mismatch", pos)} ELSE {})
  /\ UNCHANGED <<phase, program, nest, chain, symbols, isDefined, localIndex,
                 nextLocal, code>>

CheckDone ==
  /\ pos > Len(program)
  /\ StartPass("check", "define")
  /\ UNCHANGED <<program, nest, chain, symbols, isDefined, localIndex,
                 nextLocal, errors, code>>

(* UseBeforeDefinitionListener: a read of a symbol not yet marked defined; *)
(* an assignment marks its target.                                         *)

\* Mutation: a name is looked up in the current scope only.
ReadsUndefinedHere(st) ==
  /\ st.src \in Names
  /\ LET s == symbols[currentScope][st.src] IN s # 0 /\ ~isDefined[s]

ReadsUndefined(st) ==
  /\ st.src \in Names
  /\ LET s == Resolve(currentScope, st.src) IN s # 0 /\ ~isDefined[s]

Define ==
  LET st == program[pos]
      target == Target(currentScope, st)
  IN
  /\ Step("define")
  /\ currentScope' = EnterEveryRule(pos)
  /\ errors' = errors \cup (IF ReadsUndefined(st)
                            THEN {Report("undefined", pos)} ELSE {})
  /\ isDefined' = IF st.op = "assign" /\ target # 0
                  THEN [isDefined EXCEPT ![target] = TRUE] ELSE isDefined
  /\ UNCHANGED <<phase, program, nest, chain, symbols, localIndex, nextLocal,
                 code>>

\* main stops after the analysis if any pass reported an error.
DefineDone ==
  /\ pos > Len(program)
  /\ StartPass("define", IF errors = {} THEN "generate" ELSE "rejected")
  /\ UNCHANGED <<program, nest, chain, symbols, isDefined, localIndex,
                 nextLocal, errors, code>>

-----------------------------------------------------------------------------
(* BytecodeIRGeneratorListener: slots, loads and stores.                   *)

Access(op, s, slots, i) == [op |-> op, symbol |-> s, slot |-> slots[s], at |-> i]

Loads(st, slots, i) ==
  IF st.src \in Names
  THEN <<Access("load", Resolve(TreeScope(i), st.src), slots, i)>> ELSE <<>>

Stores(st, target, slots, i) ==
  IF st.op = "assign" \/ (st.op = "declare" /\ st.src # NoInit)
  THEN <<Access("store", target, slots, i)>> ELSE <<>>

\* Mutation: parameters get no slot.
DeclaresNoParam(st, i) == st.op = "declare" /\ TreeScope(i) # 0

\* assignLocalIndex: a symbol keeps the slot it has.
Declares(st, i) == st.op \in {"declare", "param"} /\ TreeScope(i) # 0

\* Mutation: slots start again in every block.
ResetsSlotsInBlocks(st) == st.op \in {"function", "block"}

ResetsSlots(st) == st.op = "function"

Generate ==
  LET st == program[pos]
      target == Target(TreeScope(pos), st)
      fresh == Declares(st, pos) /\ localIndex[target] = -1
      slots == IF fresh THEN [localIndex EXCEPT ![target] = nextLocal]
               ELSE localIndex
  IN
  /\ Step("generate")
  /\ localIndex' = slots
  /\ nextLocal' = IF ResetsSlots(st) THEN 0
                  ELSE IF fresh THEN nextLocal + 1 ELSE nextLocal
  /\ code' = IF TreeScope(pos) = 0 THEN code
             ELSE code \o Loads(st, slots, pos) \o Stores(st, target, slots, pos)
  /\ UNCHANGED <<phase, program, nest, currentScope, chain, symbols, isDefined,
                 errors>>

GenerateDone ==
  /\ pos > Len(program)
  /\ StartPass("generate", "finished")
  /\ UNCHANGED <<program, nest, chain, symbols, isDefined, localIndex,
                 nextLocal, errors, code>>

-----------------------------------------------------------------------------
Collect ==
  \/ \E op \in {"function", "block"} : CollectEnter(op)
  \/ CollectExit
  \/ \E st \in Statements :
       CollectDeclare(st) \/ CollectParam(st) \/ CollectReference(st)
  \/ CollectDone

Next ==
  \/ Collect
  \/ Check \/ CheckDone
  \/ Define \/ DefineDone
  \/ Generate \/ GenerateDone

Spec == Init /\ [][Next]_vars

=============================================================================
