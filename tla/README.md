# Verification of the cgull compiler

cgull compiles a small C-like language to JVM assembly (`.jasm`), which `run.sh`
assembles with JASM and runs. The compiler is a sequential batch program: nothing in
it is concurrent. What is hard to test is order. Five listeners walk the parse tree
one after the other and leave state for the next; the code generator spreads the code
of one construct over the enter and exit handlers of several rules; and every run
shares the directory `out` with the runs before it.

Paths below are relative to `src/src/`; BIR is
`compiler/listeners/bytecode_ir_generator_listener.cpp`.

## Inventory

| Component | State | Operations | Correct when |
| --- | --- | --- | --- |
| driver: `main.cpp`, `run.sh`, `semantic_analyzer.cpp`, `errors/` | stop stage, collected errors, one shared `ErrorReporter`, the directory `out` | lex, parse, five analysis passes, compile, write, assemble, run | a faulty program writes and runs nothing; what runs is this program; exit 0 means no error |
| lexer and parser (generated by ANTLR from `grammar/cgull.g4`) | collected errors | parse | external |
| symbol tables: `symbols/symbol.cpp` | `Scope::symbols`, `functionOverloads`, `parent` | `add`, `resolve` | a name is the innermost declaration in scope; symbols never change meaning |
| types: `symbols/type.cpp` | none | compare, print | types are compared structurally |
| symbol collection listener | `currentScope`, `scopes` | enter and exit of every rule that opens a scope, declarations, uses | scopes follow the nesting of the text |
| default constructor, special method listeners | `constructorMap` | one constructor per struct; checks of `$` methods | parameters agree with the generated constructor |
| type checking listener | `currentScope`, `expressionTypes`, conversion marks | one exit handler per expression and statement | accepts exactly the well-typed programs |
| use-before-definition listener | `currentScope`, `isDefined` of symbols | reads, assignments, calls | accepts exactly programs that write before they read |
| code generation listener (BIR) | label counter, label records, break stack, slots, current function and class, field context | one enter/exit pair per rule | control flow, values, variables and stack heights of the source; labels unique and placed |
| bytecode writer: `bytecode_compiler.cpp`, IR, primitive wrappers | `generatedClasses` | empty `out`, write classes | every class written whole |

The passes talk through the symbols and scopes they share (`isDefined`, `localIndex`),
through maps keyed by tree nodes (`scopes`, `expressionTypes`, conversion marks,
resolved methods), and through the error reporter, which `main` reads after the last of
them. `PROJECT.json` lists, under "hazards", what can go wrong in this and is hard to
reach with a test, at the line where it bites.

## Modules

| Module | Models |
| --- | --- |
| `Pipeline` | main, the order of the passes, the error checks, `generateBytecode`, `run.sh`, over several programs compiled into one `out` |
| `BatchCompiler` | abstract: what `run.sh file` promises; `Pipeline` implements it |
| `ScopePasses` | variables through symbol collection, type checking, use-before-definition and slot assignment |
| `ScopeProps` | lexical scoping read off the program's text, and the properties that compare the passes with it |
| `FlowGen` | statement-level code generation: labels, jumps, break stack |
| `FlowLabels` | what labels and the break stack must satisfy, without recursion, so that it can be proved |
| `FlowSemantics` | structured control flow read off the tree, the machine that follows jumps, the stack heights of a JVM verifier, and the properties |
| `ExprGen` | expression-level code generation: short circuit, comparison, if expressions, unary operators, with the type rules that decide what is compiled |
| `ExprJumps` | what the labels and jumps of expressions must satisfy, without recursion, so that it can be proved |
| `ExprSemantics` | values and operand reads by the source, a stack machine, and the properties |
| `ConversionGen` | conversions to string and casts: the marks the type checker leaves on the tree, and the generator that looks for them |
| `ConversionSemantics` | what the value of an expression is to be, a stack machine that tracks sorts, and the properties |
| `Linkage` | functions, structs, globals and calls from their names to their code: the symbol table with mangled names and overloads, default constructors, the check of calls, the generator, the writer |
| `LinkageProps` | which method each body is to land in and which function each call is to run, and the programs for which that fails |
| `AccessGen` | member access, indexing, method calls and increments: the checker's stack of accesses, the generator's one `lastFieldType` |
| `AccessSemantics` | what a statement reads, stores and calls by the source, a stack machine, and the properties |
| `ScopeProofs`, `FlowProofs`, `FlowSemanticsProofs`, `ExprProofs`, `ConversionProofs`, `LinkageProofs`, `AccessProofs`, `PipelineProofs` | theorems |
| `MCFlow`, `MCExpr`, `MCScope`, `MCConversion`, `MCLinkage`, `MCAccess`, `MCPipeline` | values of the constants for TLC |

The generator is one listener of two thousand lines. Its parts are modelled apart where
they share no state but the instruction list: statements place labels around an
expression whatever it is, an expression's conversions do not depend on its jumps, and
`lastFieldType` belongs to accesses alone. `ScopePasses` and `Linkage` follow names
through all the passes, since there it is the passes that must agree.

How state corresponds to the code:

* **The parse tree is revealed, not chosen.** An action of `FlowGen`, `ExprGen`,
  `ScopePasses`, `ConversionGen` or `AccessGen` is the walker reaching a node, together
  with all the handlers that run there. `tree` (or `program`, `events`) records what has
  been revealed; the grammar's rules are the guards. `open` is the walker's path, and
  holds the label record the handlers keep in a map for the node.
* **`ScopePasses`** names a scope by the event that opens it and a variable by the
  event that declares it, so `symbols[s][n]` is `Scope::symbols` and `chain[s]` is what
  following `parent` from s reaches. The first pass chooses the program; the later ones
  walk the recorded events. The program scope and the builtin scope above it are one.
  A `for` statement, whose header and block each open a scope, is two nested "block"
  events. What a statement reads is one name or one literal.
* **`FlowGen`** makes an expression one instruction after the labels its own code
  places (`ExprLabels` is how many). In it `labelCounter`, `breakLabels` and `code`
  are the members of that name.
* **`ExprGen`** keeps the type checker's verdict and the code generator's steps for one
  node together, in exit order. The comparisons are represented by `==` and `<`,
  arithmetic by `-`; `!=`, `>` and the rest differ in one instruction.
* **`ConversionGen`** builds the expression in postorder, as the exit handlers see it.
  `types` is `expressionTypes`; `marks` is `expectingStringConversion`, whose members
  are the tree nodes the type checker passes as `targetCtx`: a node's base expression,
  an argument's expression, or the statement around it. After the type checker's pass
  the generator walks the nodes again and consumes the marks it looks for.
* **`Linkage`** has a program of top-level definitions. `symbols` and `overloads`
  are the program scope's, `resolved` is what the type checker found each call to be,
  `methods` those of the class `Main`, `parameters` the default constructors'. A name is a sequence of words, because mangling joins with underscores:
  `f_int` as a name of the source, and as `f(int)` mangled, are the same sequence. A body
  is a mark, so that one can see where it went, and at most one call. What a call of
  `print` or `println` needs on the stack besides its argument, `System.out`, is a part
  of that call.
* **`AccessGen`** has one statement, as the sequence of the listener's events. `open` is
  the type checker's stack, which knows each access by itself; `lastFieldType` is the
  generator's member, shared by all. A frame's `node`, and an exit event's, is the event
  that entered that call or index, which the code gets from the tree node. Two structs, arrays of one and of ints, a pointer,
  one method and one function are enough for each branch of the handlers.
* **`Pipeline`** has a file hold the number of the run it comes from, `Nothing`, or
  `Broken`. Which stage finds an error, throws, or meets a failing file operation is a
  free choice, and the user may interrupt at any step, also half way through emptying
  `out` or writing a file.

## Runs

| Run | Bounds | Shows |
| --- | --- | --- |
| `Flow` | 3 statements of every kind in any number of functions, 2 else-ifs; and 5 of simple, break, if, for; expressions place one label | labels placed once; no dangling jump; break stack; control flow; stack heights |
| `Expr` | 5 nodes, every operator and operand type; and 7 nodes of `&&`, `\|\|`, `!`, `==` and if over booleans | values, order of reads; labels placed once; which expressions have a jump without a target, and which the verifier rejects |
| `Scope` | 7 events, 2 names, 2 types | acceptance, resolution, slots, scopes; loads of what was never stored |
| `Conversions` | 5 nodes of `+`, `-`, casts and if over ten types, 8 kinds of use | each value is converted just where a string is expected; which programs abort, and which the verifier rejects |
| `Linkage` | 3 definitions with names that mangling confuses; 2 with hidden and built-in names; 2 with every arrangement of up to 3 fields; 3 with names that constructors and `println()` are stored under | bodies, calls, constructors; which programs are rejected, and which abort |
| `Access` | 7 events, in main and in methods, in 4 kinds of statement | `lastFieldType` follows the access; reads, stores and calls are the source's; which statements abort |
| `Pipeline` | 3 compilations, 2 class names | no stale class, faulty programs leave no trace, every run ends, refinement |

Why the bounds are enough. A control-flow mistake shows where one statement's end meets
its neighbour's: a loop, what encloses it, what is in it, what breaks out of it and what
follows, which is five statements. Three statements of every kind, in any number of
functions, show every pair of constructs and labels that leak from one function to the
next. An expression handler looks at its node, its parent and its operands; seven nodes
are an operator whose operands are both operators of operators, and in `Conversions`
five are an operator whose operand is one, in a context that expects a string. The bugs
of scoping need a function, a block, a declaration in each, an access after the block,
and the two ends: seven events. `Linkage` compares functions by pairs, and a call needs
a third; three members are a private one between two public ones. In `Access` seven
events are an access nested in the argument or index of another that goes on after it;
for deeper nestings there are the theorems of `AccessProofs`.
Runs of the pipeline meet only through `out`, so the second may see what the first left,
and the third what both left. `ExprLabels`, `MaxElseIfs`, `MaxNodes`, `MaxEvents`,
`MaxRuns` and the sizes in `Families` are the only bounds. Deadlock is not checked: the
walks end, and the bounds end them.

Many properties have a condition, and each condition names the programs it leaves out.
They are the programs the compiler gets wrong, or programs no document gives a value
(`MixedComparison`, `BooleanArithmetic`, `MixedArithmetic`, `LooseBool`). Where it can be
said exactly, a property names them instead: `IllSortedCodeIsNamed` of `ExprSemantics`
says that code fails the verifier just if evaluation comes to a comparison of operands of
two sorts (`true == "s"` is accepted), that of `ConversionSemantics` just if there is
mixed arithmetic (`1 - 1.0` is accepted, and becomes `isub` of a float), and
`UnstoredLoadsAreNamed` of `ScopeProps` that a slot is loaded before anything is stored
in it just if a variable is initialised with itself (`int x = x;` is accepted). The
properties called `AbortsAreNamed` go both ways: the compiler aborts on a program it does
not reject just if it is one of the named. `RejectionsAreNamed` goes one way, and lists every
reason to reject a program:

| Module | Programs left out |
| --- | --- |
| `FlowSemantics` | `HasUntilBreak`: `break` in an until loop goes to the loop's condition, not past it. `HasValueCall`: a call statement leaves its value on the stack |
| `ExprSemantics` | `LosesJumps`: a string comparison under `&&` or `\|\|`, or as a condition, loses its parent's jumps. `PointerAsBoolean`: no code tests a pointer. `Strands` of `ExprJumps` says which jumps are left without a target: those to a label that a handler returns before it places |
| `ScopeProps` | `Shadows`: after a block that shadows, the checks look names up in the block. `LateShadow`: a block that uses an outer variable and declares its name later loads the inner one, from slot -1 |
| `ConversionSemantics` | `Unprintable`: null, and structs without `$toString`, have no code that converts them. `NullAs`: null where a pointer or struct is declared. `StringBesideOther`: the branch of an if expression that is a string is marked instead of the other, and the generator throws. `Uncastable` |
| `LinkageProps` | `Entangled`, `AmbiguousCall`: overloads, and names that equal another's mangled name, share the first one's method. `HijackedCall`: a user's `println`, `readline` or `main`, or the undefined `sqrt`. `Hidden`: a parameter, global or struct hides the function from the generator. `PrintsNothing`, `Computed`: the generator or the writer throws. `NamesNoVariable`: a global named like a struct, or like a function's mangled name, makes the first pass follow a null pointer where it should report the redeclaration. `UnorderedCall`: `PrivateFirst` and `Crowded` structs get the wrong arguments, and what is called or named like a crowded struct's constructor depends on the order of its fields (`Unsure`). `ManglingClash`, `EarlyCall`, `OrderDependent`: legal programs that are rejected |
| `AccessSemantics` | `NestedInAccess`: an access inside another's argument or index; if its first field is no member of the innermost struct around it, it is `CannotBegin`, and if it is one of another type, `Misread`. `CallInMethod`: `this` is passed besides the object. `CallOfNoMethod`, `ElementOfField`, `IndexedNamesake`, `MemberOfArray`, `LostIncrement`, `AssignsToResult`, and `->` |

Runs that expect a violation show it for those a document or comment speaks of:

| Run | What happens |
| --- | --- |
| `FlowCallValue` | `readline();` in a loop leaves a value on the operand stack each time round |
| `ExprPointers` | a pointer under `&&`, `\|\|`, `!` or as a condition gets no code that tests it |
| `ScopeStale` | after a block, the type checker still looks names up in the block, and accepts an ill-typed assignment |
| `ConversionLost` | a string expected by a declaration, assignment or return is marked on the statement, where nothing looks: the value is stored unconverted |
| `PrivateFirst` | a public member after a private one is initialised from the next argument's slot |

Two more are shown by actions that end the walk: `break` outside a loop and `++` of a
literal end the compiler by an exception or a null dereference (`ExitBreakThrows` of
`FlowGen`, `Throws` of `ExprGen`), though a comment at each says type checking rules
them out. If emptying `out` fails, which the
compiler ignores, an earlier program's files are assembled and loaded: `RemoveMayFail` is
FALSE in the run `Pipeline`, and an assumption of the theorems that need it.

## Fairness

Only `Pipeline` has a liveness property, `EveryRunEnds`. `FairSpec` assumes weak
fairness of `Step`: compiler and script are one sequential process, and the system
eventually runs its next instruction. Nothing is assumed of the user (`StartCompiler`,
`Interrupt`) or of the compiled program (`MainEnds`), which may run for ever. The other
modules are walks over a finite tree, which end because it does.

## Proofs

All are for any values of the constants. The only assumptions are those the modules
declare about their constants (`ConstantsAssumption`, `BoundsAssumption`), which TLC
evaluates on every run, and `RemoveMayFail = FALSE` where it is stated.

`ScopeProofs`, about programs of any length over any names and types:

* `TypeCorrect`, `FirstPassIsLexical`, `SymbolsNeverChange`. `TypeOK` is not inductive:
  the exit handlers go to `currentScope->parent`, and that this is a scope, and not the
  null above the program's, depends on every enter having been matched. The invariant
  `IInv` adds that the open events are a stack in the order they were opened
  (`NestIsStack`), that every scope reaches the program's (`ScopesReachProgram`), and
  that the chain of each open scope is the stack up to it (`ChainsFollowNest`). From it,
  leaving a scope pops exactly one: the greatest element of the chain without the scope
  itself is the event below it on the stack. One lemma per kind of step; later passes
  only move inside scopes the first one built.
* `CodeIsLexical`, `SlotsDistinct`, `SlotsAllocated`. The invariant has two more parts.
  `TextInv` ties the scope tree to the text: the open events are those that have started
  and not ended (`NestIsOpen`), an event's chain holds exactly the scopes it is inside
  (`ChainsAreLexical`), and a symbol is a declaration of its name in its scope
  (`SymbolsAreDeclared`). `CodeInv` says that slots are given out in order within a
  function, to each declaration passed (`SlotsFollowWalk`), and what each access emitted
  so far was resolved to (`AccessInv`). `Scope::resolve` takes the greatest scope that
  holds the name; that there is one follows from the well-foundedness of < on the
  naturals, and it is the innermost declaration by `TextInv`.

* `AcceptsLexical`. `AcceptInv` relates the errors so far to the reference, event by
  event: in the first pass they are empty just if each event so far is `GoodAt` its
  place, in the second just if each event passed is also `TypedAt`, in the third
  `DefinedAt`, where `isDefined` holds of what is initialised anywhere or assigned before
  (`WritesDefined`). The hard part is that the two checking passes never leave a scope.
  `CurrentIsLast` says that they are in the scope opened last. Every scope around an
  event is still reached from there (`LastScopeReaches`), and of two scopes reached the
  later is inside the earlier (`ChainIsNested`), so two of them with one name would
  shadow: without shadowing the only declaration found is the visible one
  (`StaleFinds`). The run `ScopeStale` shows that the condition is needed.

`FlowProofs`, about programs of any size and nesting, and any `ExprLabels`:

* `TypeCorrect`, `LabelsOnce`, `JumpsHaveTargets`, `BreakStack`. A label travels from
  the handler that generates it to the one that places it in a frame of `open` or on
  `breakLabels`. `Owed(frame)` are the labels a frame has yet to place, by the part of
  the statement it is in, and `Live` all that are owed. `IInv` says that no label is owed
  twice (`OwedOnce`), or owed and placed (`OwedNotPlaced`), that the labels a frame may
  hand out and the jumps emitted go to one or the other (`TargetsExist`), and that each
  `breakLabels` entry is one open loop's. When a function ends nothing is open, so
  nothing is owed, and each jump's target is placed. Handlers come in four shapes, each
  with a lemma: they emit code (`LeafStep`), open a frame (`PushStep`), move within the
  innermost (`KeepTop`) or leave it (`LeaveTop`).

`FlowSemanticsProofs`, about the same programs:

* `HeightsAgree`. Each height is decided by the instruction before: one operand after a
  condition or an update, none after any other (`Level`). That needs `Matched`: a
  condition or update is followed by the instruction that takes its value, which follows
  nothing else. Each handler appends code that is matched by itself (`Even`), and
  `CallsAreStatements` says that an instruction that leaves a call's value is a statement
  of the tree, which `HasValueCall` would name. A jump goes to a label, and a label takes
  no value, so control never arrives between the two. `Found` is a recursive function:
  the least round that were no solution of its equation, or found another height, gives
  the contradiction.
* `ControlFlowAgrees`. The code of a function is laid out in parts: what the walk emits
  when it enters a statement, leaves a condition or an update, enters a block or leaves
  it. `FollowInv` says which parts are there, one after the other (`Laid`): each part
  emitted spans an interval, has the instructions its kind of statement asks for
  (`HasCode`), with the labels its statement's record holds (`Kept`), and ends where the
  part that follows it in the tree begins (`Following`), or where the code ends if that
  one comes next (`Coming`). The code of an expression may hold labels of its own, so the
  parts are not of fixed length, and where they are is part of the invariant's witnesses.
  Each handler adds a part, or two (`Adds`, `Fills`), where the code ends. That each
  label is placed once makes a jump go to the part that placed its label. When the
  function is finished the argument is about two walks, of the source's places and of
  the code's labels and gotos (`IsWalk`): the position of the start of a statement and
  of the end of a block leads in one or two steps to the position of the next such place
  (`Reaches`), so both walks come to the same point, or neither comes to one
  (`StopsAgree`): the second case, an endless loop around no point, needs that a walk
  that does not stop in as many steps as there are places never does (`WalkShift`),
  by counting. `PointsFollow` is then a case for each kind of point.

`ExprProofs`, about expressions of any size and nesting:

* `TypeCorrect`, `LabelsOnce`, `JumpTargets`. `Walk` says that the open operators are a
  path of the tree, whose operands are revealed in order and each exited before the next
  (`OpenPath`, `OpenOperands`, `ExitedOperands`, `OneOperandEach`); without it an exit
  handler could be any operand's. `LabelsOK` follows the labels: each is placed, or owed
  by the one open operator that reserved it, and a label that is owed has been jumped to
  just if the operand before it did place its parent's jumps (`JumpsOK`). `JumpTargets`
  is an equivalence, so the invariant has to count the jumps lost as well. `Lost` are
  the operands whose handler returned early, and `Stranded` says that such an operand
  follows one that did jump; all targets are placed or owed just if nothing is stranded.
  At the end nothing is owed, and `Stranded` is what `Strands` says of the tree.

`ConversionProofs`, about expressions of any size, under any use:

* `ConversionInvHolds`, `TypeCorrect`, `AbortsNamed`, `ValuesConverted`. The type checker
  marks a context, and the generator, a walk later, converts whatever node it finds
  marked. `TreeOK` says of the tree that its nodes wait for their parents on a stack,
  in an order some history of the walk had (`Stacks`): the operands of each node were
  the top of that stack when it was entered. `MarksOK` says which operands are marked,
  exactly those a parent of type string asked for and whose own type is another. While
  code is generated, `Survived` says that no node passed throws, and `Computed`, in an
  expression that is `Fine`, that the machine has run without a fault and holds on its
  stack the values of the nodes that wait, in order, each converted if it is marked
  (`Entries`). One lemma per instruction says what it does to the stack (`Does`), one per
  kind of node that its handler turns the entries of the operands into its own. `Run` and
  `Meaning` are recursive functions: that there is a function that satisfies each equation
  is shown by the least argument for which there would be none.

`LinkageProofs`, about programs of any number of definitions, over any names, parameters,
fields and calls that the assumption on `Families` allows:

* `TypeCorrect`, `DefinitionsKept`, `CallsReach`, `AbortsNamed`, `RejectionsNamed`, from
  `LinkageInv`. Its first part, `NamesInv`, holds of the symbol table: a symbol is under
  a name or a mangled name of its own (`SymbolsInv`), overload lists hold the functions
  of one name, in the order of the text (`OverloadsInv`), and unless the program was
  rejected each definition is in them (`RegisteredInv`). `ResolvedInv` says that a
  checked call is one of the candidates of its name. `GenerationInv` follows the
  generator, which looks up the function it is in by its bare name: what each function
  found (`Current`), that the methods are in one-to-one correspondence with the functions
  done (`MethodsInv`), and that a body is in the code of the symbol found, and alone
  there just if no other function found the same (`CodeInv`). The parameters of a
  constructor are in one of several orders (`ByLine`), so the proof holds for each.
  The attempt showed that the properties were wrong for programs no family had: a
  function named like a crowded struct's constructor, or a call of one, and a call
  of the name that `println()` is stored under. The properties and
  `PrintsNothing` now say so (`Unsure`), and the family `Stored` has those programs.

`AccessProofs`, about statements of any length and nesting, in any of the contexts:

* `AccessInvHolds`, `TypeCorrect`, `FieldTypeFollows`, `AbortsNamed`. The generator runs
  after the checker, so the invariant describes `events` while the checker builds it.
  `Walk` says of each event what the type checker let pass (`EventOK`) and which type
  the field exited last before it has left (`Where`): a field that is not its access's
  first comes to the type its access had reached, and any other event to that of the
  innermost call or index around it, until an access in there has ended (`Around`). That
  is not inductive by itself: of the open frames it needs that their nodes are in order
  and not exited, that all else has been exited, and that each access reached has a first
  field inside all that is around it (`FrameOK`, `NodesInOrder`, `EntersAccounted`,
  `AccessesBegun`), and what has happened since (`Current`). `Generated` says that
  `lastFieldType` is what the field exited last leaves, and that no event so far was
  `Doomed`; an event's code throws just if it is doomed. `Pending` says that a type left
  over is that of an access that has not ended, and when all is generated there is none.
  The attempt showed two things. `AbortsAreNamed` had been wrong for nestings longer than
  the run's bound: it took any access around for the one that matters, where it is the
  innermost, and the innermost until an access inside it has ended. And two guards of the
  `CASE` in `FieldCode` overlapped, which TLC resolves by their order and TLA+ does not.

`PipelineProofs`, about any number of compilations and any class names:

* `TypeCorrect`; `ExitZeroMeansClean` and `ErrorsNeverWrite`, whether emptying `out`
  works or not; `MainRunsItsProgram` and `ImplementsBatch` if it works. The invariant
  says which stages a process with errors cannot be in (`ErrorsStopTheRun`), that a Main
  class is among the generated ones (`MainIsThere`), and what `out` holds between
  emptying it and running Main (`OutputIsThisRuns`): the `.jasm` files of exactly the
  classes written so far, and the class files of exactly those assembled so far, all of
  this run. Nothing is assumed of `out` before that, so an earlier crash or interrupt
  cannot matter. For the refinement, each step within a run either stutters, finds the
  first error, or gives up (`InRunIsPending`); `RunMain` is `Execute`, and the invariant
  gives that it executes `{run}`.

Only model-checked:

* `ValueAndReadsAreRight`: the source's meaning and the machine are recursive over the
  tree and the code. The library's induction theorems cannot be used, but the arguments
  of `ConversionProofs` and `ControlFlowAgrees`, by a least counterexample, could; what
  is missing is the invariant that ties the two together for the jumps of short-circuit
  operators.
* `PlainStatementsMeanTheirSource`: the same, over folds.
* `IllSortedCodeIsNamed` and `UnstoredLoadsAreNamed`, for which the invariants of
  `ExprProofs`, `ConversionProofs` and `ScopeProofs` would have to follow machine states
  that go wrong, and the order of stores.
* Liveness (`EveryRunEnds`), which is outside TLAPS.

## Not modelled

* Dereference of pointers, allocation and array literals as expressions (`->` on a
  struct is in `AccessGen`); indexing of an expression in parentheses, which the grammar
  and the type checker allow (`(a)[0]`), and on which the generator always aborts, since
  `enterIndexable` (BIR:1846) follows the identifier it does not have; loads and stores
  of globals; the body of a user's own constructor; scopes of access blocks inside
  structs; the checks of a user's `$` methods, which only report.
* The text of instructions and messages, `instructions/` and the primitive wrappers,
  which are records and constant classes; `make`; write errors the output stream reports
  and nobody reads.
* ANTLR, JASM and the JVM, beyond the small machines of the `Semantics` modules.

The components of `PROJECT.json` say which parts are partly modelled.

## Plan

1. Done: the modules, runs and proofs above.
2. Globals: their loads and stores by class, and the initialisers that are dropped.
3. Pointers: allocation, dereference and `->` in the generator against the checker.
4. Proofs: the values of `ExprSemantics` and of `AccessSemantics`, by the argument of
   `ConversionProofs`.
