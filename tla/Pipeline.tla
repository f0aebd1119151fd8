------------------------------- MODULE Pipeline -------------------------------
(***************************************************************************)
(* The compilation pipeline: main.cpp (lexing, parsing, the five passes of *)
(* SemanticAnalyzer::analyze over one ErrorReporter, BytecodeCompiler) and *)
(* run.sh around it, which assembles and runs what `out` holds.  Programs  *)
(* are compiled one after the other into the same `out`.  Which stage      *)
(* finds an error, throws, or meets a failing file operation is a free     *)
(* choice; the passes themselves are modelled in the other modules.        *)
(***************************************************************************)
EXTENDS Integers

CONSTANTS
  MaxRuns,       \* bound: programs compiled
  ClassNames,    \* names of generated classes, "Main" among them
  RemoveMayFail  \* whether emptying `out` may fail

ASSUME ConstantsAssumption ==
  MaxRuns \in Nat /\ "Main" \in ClassNames /\ RemoveMayFail \in BOOLEAN

VARIABLES
  run,          \* the number of the program being compiled
  option,       \* the command line's second argument
  phase,        \* the stage the process is in
  lexErrors, parseErrors,  \* what the collecting listeners hold (emptiness)
  reported,     \* the shared ErrorReporter holds an error
  classes,      \* generatedClasses: their names
  todo,         \* files the current loop has still to handle
  jasm, class,  \* contents of out/N.jasm and out/N.class: the program they
                \* come from, Nothing, or Broken
  exitCode,     \* of the compiler, or of the script when it ends
  executed      \* the programs the classes `java` loaded last came from

vars == <<run, option, phase, lexErrors, parseErrors, reported, classes, todo,
          jasm, class, exitCode, executed>>

-----------------------------------------------------------------------------
Nothing == 0
Broken  == -1

\* "absent": one argument.  "other": a second argument main does not know.
Options == {"absent", "--lexer", "--parser", "--semantic", "other"}

\* The passes of analyze, in order, and what follows each.
Passes == {"collect", "constructors", "special", "types", "define"}

\* Mutation: the passes start over after type checking, for late definitions.
NextPassRestarts ==
  [collect |-> "constructors", constructors |-> "special", special |-> "types",
   types |-> "collect"]

NextPass ==
  [collect |-> "constructors", constructors |-> "special", special |-> "types",
   types |-> "define"]

Compiling == {"lex", "parse", "generate", "remove", "create", "write"} \cup Passes
Phases == Compiling \cup {"idle", "exited", "assemble", "java"}

Aborted == 134  \* an uncaught exception
Interrupted == 130

Exit(code) == phase' = "exited" /\ exitCode' = code
GoTo(next) == phase' = next /\ UNCHANGED exitCode

\* Mutation: main returns a count of errors.
ExitIfCounts(errors) == Exit(IF errors THEN 2 ELSE 0)

ExitIf(errors) == Exit(IF errors THEN 1 ELSE 0)

Input  == <<run, option>>
Output == <<jasm, class, executed>>

-----------------------------------------------------------------------------
Init ==
  /\ run = 0 /\ option = "absent" /\ phase = "idle"
  /\ lexErrors = FALSE /\ parseErrors = FALSE /\ reported = FALSE
  /\ classes = {} /\ todo = {}
  /\ jasm = [c \in ClassNames |-> Nothing]
  /\ class = [c \in ClassNames |-> Nothing]
  /\ exitCode = 1 /\ executed = {}

\* A new process: every member starts afresh; only `out` is left over.
StartCompiler ==
  /\ phase = "idle" /\ run < MaxRuns
  /\ run' = run + 1
  /\ option' \in Options
  /\ phase' = "lex"
  /\ lexErrors' = FALSE /\ parseErrors' = FALSE /\ reported' = FALSE
  /\ classes' = {} /\ todo' = {}
  /\ UNCHANGED <<exitCode, Output>>

\* main: the input file cannot be opened.
NoInput ==
  /\ phase = "lex"
  /\ Exit(1)
  /\ UNCHANGED <<Input, lexErrors, parseErrors, reported, classes, todo, Output>>

Lex ==
  /\ phase = "lex"
  /\ lexErrors' \in BOOLEAN
  /\ IF option = "--lexer" THEN ExitIf(lexErrors') ELSE GoTo("parse")
  /\ UNCHANGED <<Input, parseErrors, reported, classes, todo, Output>>

\* Mutation: main looks at the parser's errors only.
HasAnyErrorsOfParser(lexer, parser) == parser

HasAnyErrors(lexer, parser) == lexer \/ parser

Parse ==
  /\ phase = "parse"
  /\ parseErrors' \in BOOLEAN
  /\ LET errors == HasAnyErrors(lexErrors, parseErrors') IN
     IF option = "--parser" THEN ExitIf(errors)
     ELSE IF errors THEN Exit(1) ELSE GoTo("collect")
  /\ UNCHANGED <<Input, lexErrors, reported, classes, todo, Output>>

\* Mutation: each pass reports to a reporter of its own.
ReportedAfterLastOnly(found) == found

\* The passes share one ErrorReporter, which only grows.
ReportedAfter(found) == reported \/ found

\* Mutation: main checks for errors only when it stops after the analysis.
AfterAnalysisUnchecked(errors) ==
  IF option = "--semantic" THEN ExitIf(errors) ELSE GoTo("generate")

AfterAnalysis(errors) ==
  IF option = "--semantic" THEN ExitIf(errors)
  ELSE IF errors THEN Exit(1) ELSE GoTo("generate")

\* A pass walks the whole tree whatever the passes before it reported.
AnalysisPass ==
  /\ phase \in Passes
  /\ reported' \in {ReportedAfter(found) : found \in BOOLEAN}
  /\ IF phase = "define" THEN AfterAnalysis(reported') ELSE GoTo(NextPass[phase])
  /\ UNCHANGED <<Input, lexErrors, parseErrors, classes, todo, Output>>

\* A pass or the generator throws, or dereferences null: the process ends
\* where it is.
Crash ==
  /\ phase \in Passes \cup {"generate"}
  /\ Exit(Aborted)
  /\ UNCHANGED <<Input, lexErrors, parseErrors, reported, classes, todo, Output>>

\* BytecodeCompiler::compile, in memory.  Its own ErrorReporter, which main
\* checks next, is written by nothing.
Compile ==
  /\ phase = "generate"
  /\ classes' \in {{"Main"} \cup s : s \in SUBSET ClassNames}
  /\ GoTo("remove")
  /\ UNCHANGED <<Input, lexErrors, parseErrors, reported, todo, Output>>

-----------------------------------------------------------------------------
(* BytecodeCompiler::generateBytecode.                                     *)

Without(files, gone) == [c \in ClassNames |-> IF c \in gone THEN Nothing ELSE files[c]]

\* Mutation: out is emptied of .jasm files only.
EmptiesJasmOnly(left) == jasm' = Without(jasm, ClassNames \ left) /\ UNCHANGED class

Empties(left) ==
  /\ jasm' = Without(jasm, ClassNames \ left)
  /\ class' = Without(class, ClassNames \ left)

\* remove_all may stop part way; the exception is caught and dropped.
RemoveOutput ==
  /\ phase = "remove"
  /\ \E left \in IF RemoveMayFail THEN SUBSET ClassNames ELSE {{}} : Empties(left)
  /\ GoTo("create")
  /\ UNCHANGED <<Input, lexErrors, parseErrors, reported, classes, todo, executed>>

CreateOutput ==
  /\ phase = "create"
  /\ \/ GoTo("write") /\ todo' = classes
     \/ Exit(Aborted) /\ UNCHANGED todo
  /\ UNCHANGED <<Input, lexErrors, parseErrors, reported, classes, Output>>

\* Opening a file may fail, and generateClass may throw half way through.
WriteClass ==
  /\ phase = "write"
  /\ \E c \in todo :
       \/ /\ jasm' = [jasm EXCEPT ![c] = run]
          /\ todo' = todo \ {c}
          /\ GoTo("write")
       \/ /\ jasm' \in {jasm, [jasm EXCEPT ![c] = Broken]}
          /\ Exit(Aborted)
          /\ UNCHANGED todo
  /\ UNCHANGED <<Input, lexErrors, parseErrors, reported, classes, class, executed>>

WriteDone ==
  /\ phase = "write" /\ todo = {}
  /\ Exit(0)
  /\ UNCHANGED <<Input, lexErrors, parseErrors, reported, classes, todo, Output>>

-----------------------------------------------------------------------------
(* run.sh, around the compiler.                                            *)

\* Mutation: the script assembles whatever the compiler's exit code.
AssemblesAnyway == option = "absent"

Assembles == option = "absent" /\ exitCode = 0

ShellContinues ==
  /\ phase = "exited"
  /\ IF Assembles
     THEN GoTo("assemble") /\ todo' = {c \in ClassNames : jasm[c] # Nothing}
     ELSE GoTo("idle") /\ UNCHANGED todo
  /\ UNCHANGED <<Input, lexErrors, parseErrors, reported, classes, Output>>

\* jasm may reject a file, and the script stops there.
Assemble ==
  /\ phase = "assemble"
  /\ \E c \in todo :
       \/ /\ jasm[c] # Broken
          /\ class' = [class EXCEPT ![c] = jasm[c]]
          /\ todo' = todo \ {c}
          /\ GoTo("assemble")
       \/ /\ class' \in {class, [class EXCEPT ![c] = Broken]}
          /\ phase' = "idle" /\ exitCode' = 1
          /\ UNCHANGED todo
  /\ UNCHANGED <<Input, lexErrors, parseErrors, reported, classes, jasm, executed>>

RunMain ==
  /\ phase = "assemble" /\ todo = {}
  /\ GoTo("java")
  /\ executed' = {class[c] : c \in ClassNames} \ {Nothing}
  /\ UNCHANGED <<Input, lexErrors, parseErrors, reported, classes, todo, jasm, class>>

\* The script's exit code is the program's.
MainEnds ==
  /\ phase = "java"
  /\ phase' = "idle" /\ exitCode' \in {0, 1}
  /\ UNCHANGED <<Input, lexErrors, parseErrors, reported, classes, todo, Output>>

\* The user interrupts script, compiler or assembler: the file being written
\* stays as it is, and so does `out` if remove_all was half way through it.
Interrupt ==
  /\ phase # "idle"
  /\ phase' = "idle" /\ exitCode' = Interrupted
  /\ \/ UNCHANGED <<jasm, class>>
     \/ phase = "remove" /\ \E left \in SUBSET ClassNames : Empties(left)
     \/ /\ phase = "write"
        /\ \E c \in todo : jasm' = [jasm EXCEPT ![c] = Broken]
        /\ UNCHANGED class
     \/ /\ phase = "assemble"
        /\ \E c \in todo : class' = [class EXCEPT ![c] = Broken]
        /\ UNCHANGED jasm
  /\ UNCHANGED <<Input, lexErrors, parseErrors, reported, classes, todo, executed>>

-----------------------------------------------------------------------------
Step ==
  \/ NoInput \/ Lex \/ Parse \/ AnalysisPass \/ Crash
  \/ Compile \/ RemoveOutput \/ CreateOutput \/ WriteClass \/ WriteDone
  \/ ShellContinues \/ Assemble \/ RunMain

Next == StartCompiler \/ Step \/ MainEnds \/ Interrupt

Spec == Init /\ [][Next]_vars

\* Compiler and script are one sequential process that the system runs to its
\* end; nothing makes the user start it or interrupt it, or the program it
\* runs end.
FairSpec == Spec /\ WF_vars(Step)

-----------------------------------------------------------------------------
FileContents == {Nothing, Broken} \cup 1..run

\* Files hold nothing, a broken class or a class of a program compiled so far.
TypeOK ==
  /\ run \in 0..MaxRuns /\ option \in Options /\ phase \in Phases
  /\ {lexErrors, parseErrors, reported} \subseteq BOOLEAN
  /\ classes \subseteq ClassNames /\ todo \subseteq ClassNames
  /\ jasm \in [ClassNames -> FileContents]
  /\ class \in [ClassNames -> FileContents]
  /\ exitCode \in {0, 1, Aborted, Interrupted}
  /\ executed \subseteq FileContents \ {Nothing}

\* "Bytecode generation will not be performed": once any stage has found an
\* error, no step of main or run.sh touches `out` or runs a class, whichever
\* stage the error was found in and whichever arguments were given.
ErrorsWriteNothing ==
  [][(lexErrors \/ parseErrors \/ reported) => UNCHANGED Output]_vars

\* The compiler exits 0 only if the stages it was asked to run found nothing.
ExitZeroIsClean ==
  (phase \in {"exited", "assemble"} /\ exitCode = 0) =>
    /\ ~lexErrors
    /\ option # "--lexer" => ~parseErrors /\ ~reported

\* While Main runs, the class files in `out` are those of the program just
\* compiled, every one of them and no other.
MainRunsThisProgram ==
  phase = "java" =>
    \A c \in ClassNames : class[c] = (IF c \in classes THEN run ELSE Nothing)

\* Every compilation ends, or has started the compiled program.
EveryRunEnds == (phase # "idle") ~> (phase \in {"idle", "java"})

-----------------------------------------------------------------------------
(* Refinement of BatchCompiler.                                            *)

State ==
  IF phase = "java" THEN "running"
  ELSE IF phase = "idle" \/ (phase = "exited" /\ ~Assembles) THEN "over"
  ELSE "pending"

Batch == INSTANCE BatchCompiler
           WITH submitted <- run, state <- State, executed <- executed,
                faulty <- lexErrors \/ parseErrors \/ reported

\* A program found faulty is not run, and what is run is the program submitted
\* last, whole and nothing else.
RefinesBatch == Batch!Spec

=============================================================================
