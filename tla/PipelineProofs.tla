---------------------------- MODULE PipelineProofs ----------------------------
(***************************************************************************)
(* Proofs about Pipeline, for any number of runs and any class names:      *)
(* `out` never mixes two programs when emptying it works, faulty programs  *)
(* write nothing, and the pipeline implements BatchCompiler.               *)
(***************************************************************************)
EXTENDS Pipeline, TLAPS

Faulty == lexErrors \/ parseErrors \/ reported

\* The compiler has exited and the script is about to assemble.
Handover == phase = "exited" /\ Assembles

\* Where an error found earlier would have ended the process.
ErrorsStopTheRun ==
  /\ phase = "lex" => ~lexErrors /\ ~parseErrors /\ ~reported
  /\ phase = "parse" => ~parseErrors /\ ~reported
  /\ phase \in Passes => ~lexErrors /\ ~parseErrors
  /\ phase \in {"generate", "remove", "create", "write", "assemble", "java"} => ~Faulty
  /\ Handover => ~Faulty

\* The files hold the named classes of this run, and nothing else.
Holds(files, names) ==
  files = [c \in ClassNames |-> IF c \in names THEN run ELSE Nothing]

\* What `out` holds from the moment it has been emptied.
OutputIsThisRuns ==
  /\ phase = "create" => Holds(jasm, {}) /\ Holds(class, {})
  /\ phase = "write" =>
       todo \subseteq classes /\ Holds(jasm, classes \ todo) /\ Holds(class, {})
  /\ Handover => Holds(jasm, classes) /\ Holds(class, {})
  /\ phase = "assemble" =>
       todo \subseteq classes /\ Holds(jasm, classes) /\ Holds(class, classes \ todo)
  /\ phase = "java" => Holds(class, classes)

\* A process belongs to a run.
RunIsCounted == phase # "idle" => run # 0

\* The generated classes have a Main.
MainIsThere ==
  phase \in {"remove", "create", "write", "assemble"} \/ Handover => "Main" \in classes

IInv ==
  /\ TypeOK /\ RunIsCounted /\ ErrorsStopTheRun /\ ExitZeroIsClean /\ MainIsThere
  /\ RemoveMayFail = FALSE => OutputIsThisRuns

-----------------------------------------------------------------------------
(* Type correctness.                                                       *)

LEMMA MaxRunsIsNat == MaxRuns \in Nat
BY ConstantsAssumption

LEMMA MainIsAClass == "Main" \in ClassNames
BY ConstantsAssumption

LEMMA ExitCodesOf ==
  ASSUME NEW errors, ExitIf(errors), errors \in BOOLEAN
  PROVE  phase' = "exited" /\ exitCode' \in {0, 1}
BY DEF ExitIf, Exit

LEMMA InitTypeOK == Init => TypeOK /\ RunIsCounted
<1> SUFFICES ASSUME Init PROVE TypeOK /\ RunIsCounted
  OBVIOUS
<1>1. run \in 0..MaxRuns
  BY MaxRunsIsNat DEF Init
<1>2. jasm \in [ClassNames -> FileContents] /\ class \in [ClassNames -> FileContents]
  BY DEF Init, FileContents, Nothing
<1> QED
  BY <1>1, <1>2
     DEF Init, TypeOK, RunIsCounted, Options, Phases

\* A new run adds a program that files may come from.
LEMMA StartTypeOK ==
  ASSUME TypeOK, StartCompiler PROVE TypeOK' /\ RunIsCounted'
<1>1. run' \in 0..MaxRuns /\ run' # 0
  BY MaxRunsIsNat DEF StartCompiler, TypeOK
<1>2. FileContents \subseteq FileContents'
  BY DEF StartCompiler, TypeOK, FileContents
<1>3. jasm' \in [ClassNames -> FileContents'] /\ class' \in [ClassNames -> FileContents']
  BY <1>2 DEF StartCompiler, TypeOK, Output
<1> QED
  BY <1>1, <1>2, <1>3
     DEF StartCompiler, TypeOK, RunIsCounted, Phases, Compiling, Output

LEMMA NextTypeOK ==
  ASSUME TypeOK, RunIsCounted, [Next]_vars PROVE TypeOK' /\ RunIsCounted'
<1> USE DEF RunIsCounted
<1>1. CASE StartCompiler
  BY <1>1, StartTypeOK
<1>2. CASE NoInput
  BY <1>2 DEF NoInput, Exit, TypeOK, Phases, FileContents, Input, Output
<1>3. CASE Lex
  BY <1>3, ExitCodesOf
     DEF Lex, GoTo, TypeOK, Phases, Compiling, FileContents, Input, Output
<1>4. CASE Parse
  BY <1>4, ExitCodesOf
     DEF Parse, HasAnyErrors, Exit, GoTo, TypeOK, Phases, Compiling, Passes,
         FileContents, Input, Output
<1>5. CASE AnalysisPass
  BY <1>5, ExitCodesOf
     DEF AnalysisPass, ReportedAfter, AfterAnalysis, NextPass, Exit, GoTo, TypeOK,
         Phases, Compiling, Passes, FileContents, Input, Output
<1>6. CASE Crash
  BY <1>6 DEF Crash, Exit, TypeOK, Phases, Passes, FileContents, Input, Output
<1>7. CASE Compile
  BY <1>7, MainIsAClass
     DEF Compile, GoTo, TypeOK, Phases, Compiling, FileContents, Input, Output
<1>8. CASE RemoveOutput
  BY <1>8 DEF RemoveOutput, Empties, Without, GoTo, TypeOK, Phases, Compiling,
         FileContents, Input, Nothing
<1>9. CASE CreateOutput
  BY <1>9 DEF CreateOutput, GoTo, Exit, TypeOK, Phases, Compiling,
         FileContents, Input, Output
<1>10. CASE WriteClass
  <2>1. run \in FileContents /\ Broken \in FileContents /\ UNCHANGED FileContents
    BY <1>10 DEF WriteClass, TypeOK, FileContents, Input
  <2>2. jasm' \in [ClassNames -> FileContents]
    BY <1>10, <2>1 DEF WriteClass, TypeOK
  <2> QED
    BY <1>10, <2>1, <2>2 DEF WriteClass, GoTo, Exit, TypeOK, Phases, Compiling, Input
<1>11. CASE WriteDone
  BY <1>11 DEF WriteDone, Exit, TypeOK, Phases, FileContents, Input, Output
<1>12. CASE ShellContinues
  BY <1>12 DEF ShellContinues, GoTo, TypeOK, Phases, FileContents, Input, Output
<1>13. CASE Assemble
  BY <1>13 DEF Assemble, GoTo, TypeOK, Phases, FileContents, Input
<1>14. CASE RunMain
  BY <1>14 DEF RunMain, GoTo, TypeOK, Phases, FileContents, Input
<1>15. CASE MainEnds
  BY <1>15 DEF MainEnds, TypeOK, Phases, FileContents, Input, Output
<1>16. CASE Interrupt
  <2>1. run' = run /\ UNCHANGED FileContents
    BY <1>16 DEF Interrupt, Input, FileContents
  <2>2. jasm' \in [ClassNames -> FileContents] /\ class' \in [ClassNames -> FileContents]
    BY <1>16 DEF Interrupt, Empties, Without, TypeOK, FileContents, Nothing
  <2> QED
    BY <1>16, <2>1, <2>2 DEF Interrupt, TypeOK, Phases, Input
<1>17. CASE UNCHANGED vars
  BY <1>17 DEF vars, TypeOK, FileContents
<1> QED
  BY <1>1, <1>2, <1>3, <1>4, <1>5, <1>6, <1>7, <1>8, <1>9, <1>10, <1>11, <1>12,
     <1>13, <1>14, <1>15, <1>16, <1>17 DEF Next, Step

\* Every variable keeps to its values, and `out` holds nothing that no program
\* submitted so far put there.
THEOREM TypeCorrect == Spec => []TypeOK
<1> QED BY InitTypeOK, NextTypeOK, PTL DEF Spec

-----------------------------------------------------------------------------
(* Errors stop the run.                                                    *)

\* A process that goes on after main checked for errors has none.
LEMMA NextErrorsStopTheRun ==
  ASSUME TypeOK, ErrorsStopTheRun, [Next]_vars PROVE ErrorsStopTheRun'
<1> USE DEF ErrorsStopTheRun, Faulty, Handover, Assembles, Passes
<1>1. CASE StartCompiler
  BY <1>1 DEF StartCompiler
<1>2. CASE NoInput
  BY <1>2 DEF NoInput, Exit
<1>3. CASE Lex
  BY <1>3 DEF Lex, ExitIf, Exit, GoTo, Input
<1>4. CASE Parse
  BY <1>4 DEF Parse, HasAnyErrors, ExitIf, Exit, GoTo, Input
<1>5. CASE AnalysisPass
  <2>1. CASE phase = "define"
    BY <1>5, <2>1 DEF AnalysisPass, AfterAnalysis, ExitIf, Exit, GoTo, Input
  <2>2. CASE phase # "define"
    BY <1>5, <2>2 DEF AnalysisPass, NextPass, GoTo, Input
  <2> QED
    BY <2>1, <2>2
<1>6. CASE Crash
  BY <1>6 DEF Crash, Exit, Aborted
<1>7. CASE Compile
  BY <1>7 DEF Compile, GoTo
<1>8. CASE RemoveOutput
  BY <1>8 DEF RemoveOutput, GoTo
<1>9. CASE CreateOutput
  BY <1>9 DEF CreateOutput, GoTo, Exit, Aborted
<1>10. CASE WriteClass
  BY <1>10 DEF WriteClass, GoTo, Exit, Aborted
<1>11. CASE WriteDone
  BY <1>11 DEF WriteDone, Exit
<1>12. CASE ShellContinues
  BY <1>12 DEF ShellContinues, GoTo
<1>13. CASE Assemble
  BY <1>13 DEF Assemble, GoTo
<1>14. CASE RunMain
  BY <1>14 DEF RunMain, GoTo
<1>15. CASE MainEnds
  BY <1>15 DEF MainEnds
<1>16. CASE Interrupt
  BY <1>16 DEF Interrupt
<1>17. CASE UNCHANGED vars
  BY <1>17 DEF vars
<1> QED
  BY <1>1, <1>2, <1>3, <1>4, <1>5, <1>6, <1>7, <1>8, <1>9, <1>10, <1>11, <1>12,
     <1>13, <1>14, <1>15, <1>16, <1>17 DEF Next, Step

\* Only the four steps that follow a run without errors touch `out` or run what
\* it holds; an interrupt leaves it half emptied or with a broken file only where
\* one of them was.
LEMMA FaultyStepKeepsOutput ==
  ASSUME ErrorsStopTheRun, [Next]_vars, Faulty PROVE UNCHANGED Output
<1> USE DEF ErrorsStopTheRun, Faulty
<1>1. CASE RemoveOutput \/ WriteClass \/ Assemble \/ RunMain
  BY <1>1 DEF RemoveOutput, WriteClass, Assemble, RunMain
<1>2. CASE Interrupt
  BY <1>2 DEF Interrupt, Output
<1>3. CASE UNCHANGED vars
  BY <1>3 DEF vars, Output
<1>4. CASE StartCompiler \/ NoInput \/ Lex \/ Parse \/ AnalysisPass \/ Crash
            \/ Compile \/ CreateOutput \/ WriteDone \/ ShellContinues \/ MainEnds
  BY <1>4 DEF StartCompiler, NoInput, Lex, Parse, AnalysisPass, Crash, Compile,
       CreateOutput, WriteDone, ShellContinues, MainEnds, Output
<1> QED
  BY <1>1, <1>2, <1>3, <1>4 DEF Next, Step

\* Only a run whose stages found nothing gets to exit code 0.
LEMMA NextExitZeroIsClean ==
  ASSUME TypeOK, ErrorsStopTheRun, ExitZeroIsClean, [Next]_vars PROVE ExitZeroIsClean'
<1> USE DEF ErrorsStopTheRun, ExitZeroIsClean, Faulty
<1>1. CASE StartCompiler \/ NoInput \/ Crash
  BY <1>1 DEF StartCompiler, NoInput, Crash, Exit, Aborted
<1>2. CASE Lex
  BY <1>2 DEF Lex, ExitIf, Exit, GoTo, Input
<1>3. CASE Parse
  BY <1>3 DEF Parse, HasAnyErrors, ExitIf, Exit, GoTo, Input
<1>4. CASE AnalysisPass
  <2>1. CASE phase = "define"
    BY <1>4, <2>1 DEF AnalysisPass, AfterAnalysis, ExitIf, Exit, GoTo, Input, Passes
  <2>2. CASE phase # "define"
    <3>1. phase' \in Passes
      BY <1>4, <2>2 DEF AnalysisPass, NextPass, GoTo, Passes
    <3> QED
      BY <3>1 DEF Passes
  <2> QED
    BY <2>1, <2>2
<1>5. CASE Compile \/ RemoveOutput \/ CreateOutput \/ WriteClass
  BY <1>5 DEF Compile, RemoveOutput, CreateOutput, WriteClass, GoTo, Exit, Aborted
<1>6. CASE WriteDone
  BY <1>6 DEF WriteDone, Exit, Input
<1>7. CASE ShellContinues \/ Assemble
  BY <1>7 DEF ShellContinues, Assemble, GoTo, Input
<1>8. CASE RunMain \/ MainEnds \/ Interrupt
  BY <1>8 DEF RunMain, MainEnds, Interrupt, GoTo
<1>9. CASE UNCHANGED vars
  BY <1>9 DEF vars
<1> QED
  BY <1>1, <1>2, <1>3, <1>4, <1>5, <1>6, <1>7, <1>8, <1>9 DEF Next, Step

-----------------------------------------------------------------------------
(* `out` holds this run's classes and nothing else.                        *)

LEMMA NextMainIsThere ==
  ASSUME TypeOK, MainIsThere, [Next]_vars PROVE MainIsThere'
<1> USE DEF MainIsThere, Handover, Assembles
<1>1. CASE StartCompiler
  BY <1>1 DEF StartCompiler
<1>2. CASE NoInput \/ Lex \/ Parse \/ Crash
  BY <1>2 DEF NoInput, Lex, Parse, Crash, ExitIf, Exit, GoTo, Input, Aborted
<1>3. CASE AnalysisPass
  <2>1. CASE phase = "define"
    BY <1>3, <2>1 DEF AnalysisPass, AfterAnalysis, ExitIf, Exit, GoTo, Input
  <2>2. CASE phase # "define"
    BY <1>3, <2>2 DEF AnalysisPass, NextPass, GoTo, Input, Passes
  <2> QED
    BY <2>1, <2>2
<1>4. CASE Compile
  BY <1>4 DEF Compile, GoTo
<1>5. CASE RemoveOutput \/ CreateOutput \/ WriteClass \/ WriteDone
  BY <1>5 DEF RemoveOutput, CreateOutput, WriteClass, WriteDone, Exit, GoTo, Input, Aborted
<1>6. CASE ShellContinues \/ Assemble \/ RunMain \/ MainEnds \/ Interrupt
  BY <1>6 DEF ShellContinues, Assemble, RunMain, MainEnds, Interrupt, GoTo, Input
<1>7. CASE UNCHANGED vars
  BY <1>7 DEF vars
<1> QED
  BY <1>1, <1>2, <1>3, <1>4, <1>5, <1>6, <1>7 DEF Next, Step

\* Emptying `out`, filling it class by class, and assembling it class by class
\* keep it to the classes of this run.
LEMMA NextOutputIsThisRuns ==
  ASSUME RemoveMayFail = FALSE, TypeOK, RunIsCounted, OutputIsThisRuns, [Next]_vars
  PROVE  OutputIsThisRuns'
<1> USE DEF OutputIsThisRuns, Handover, Assembles, Holds
<1>1. CASE StartCompiler
  BY <1>1 DEF StartCompiler
<1>2. CASE NoInput \/ Lex \/ Parse \/ Crash
  BY <1>2 DEF NoInput, Lex, Parse, Crash, ExitIf, Exit, GoTo, Input, Aborted
<1>3. CASE AnalysisPass
  <2>1. CASE phase = "define"
    BY <1>3, <2>1 DEF AnalysisPass, AfterAnalysis, ExitIf, Exit, GoTo, Input
  <2>2. CASE phase # "define"
    BY <1>3, <2>2 DEF AnalysisPass, NextPass, GoTo, Input, Passes
  <2> QED
    BY <2>1, <2>2
<1>4. CASE Compile
  BY <1>4 DEF Compile, GoTo
<1>5. CASE RemoveOutput
  BY <1>5 DEF RemoveOutput, Empties, Without, GoTo
<1>6. CASE CreateOutput
  BY <1>6 DEF CreateOutput, GoTo, Exit, Input, Output, Aborted
<1>7. CASE WriteClass
  BY <1>7 DEF WriteClass, GoTo, Exit, Input, Aborted, TypeOK
<1>8. CASE WriteDone
  BY <1>8 DEF WriteDone, Exit, Input, Output
<1>9. CASE ShellContinues
  BY <1>9 DEF ShellContinues, GoTo, Input, Output, TypeOK, RunIsCounted, Nothing
<1>10. CASE Assemble
  BY <1>10 DEF Assemble, GoTo, Input, TypeOK
<1>11. CASE RunMain
  BY <1>11 DEF RunMain, GoTo, Input
<1>12. CASE MainEnds \/ Interrupt
  BY <1>12 DEF MainEnds, Interrupt
<1>13. CASE UNCHANGED vars
  BY <1>13 DEF vars
<1> QED
  BY <1>1, <1>2, <1>3, <1>4, <1>5, <1>6, <1>7, <1>8, <1>9, <1>10, <1>11, <1>12,
     <1>13 DEF Next, Step

LEMMA InitIInv == Init => IInv
<1> SUFFICES ASSUME Init PROVE IInv
  OBVIOUS
<1> QED
  BY InitTypeOK
     DEF Init, IInv, ErrorsStopTheRun, ExitZeroIsClean, MainIsThere, OutputIsThisRuns,
         Handover, Passes

LEMMA NextIInv == IInv /\ [Next]_vars => IInv'
BY NextTypeOK, NextErrorsStopTheRun, NextExitZeroIsClean, NextMainIsThere,
   NextOutputIsThisRuns DEF IInv

LEMMA IInvHolds == Spec => []IInv
BY InitIInv, NextIInv, PTL DEF Spec

-----------------------------------------------------------------------------
(* The properties.                                                         *)

\* main and run.sh: once a stage has found an error, no step touches `out` or
\* runs a class.
THEOREM ErrorsNeverWrite == Spec => ErrorsWriteNothing
<1>1. IInv /\ [Next]_vars => [Faulty => UNCHANGED Output]_vars
  BY FaultyStepKeepsOutput DEF IInv
<1>2. [Faulty => UNCHANGED Output]_vars
        => [(lexErrors \/ parseErrors \/ reported) => UNCHANGED Output]_vars
  BY DEF Faulty
<1> QED
  BY <1>1, <1>2, IInvHolds, PTL DEF Spec, ErrorsWriteNothing

\* main: a compiler that exits 0, and a script that goes on to assemble, had no
\* error in any stage the arguments asked for.
THEOREM ExitZeroMeansClean == Spec => []ExitZeroIsClean
<1> QED
  BY IInvHolds, PTL DEF IInv

\* run.sh: if emptying `out` works, the classes it holds while Main runs are
\* this program's, all of them and no other.
THEOREM MainRunsItsProgram ==
  ASSUME RemoveMayFail = FALSE PROVE Spec => []MainRunsThisProgram
<1>1. IInv => MainRunsThisProgram
  BY DEF IInv, OutputIsThisRuns, Holds, MainRunsThisProgram
<1> QED
  BY <1>1, IInvHolds, PTL

-----------------------------------------------------------------------------
(* The pipeline implements BatchCompiler.                                  *)

\* Every step that is not the start of a run, the start of Main or an end
\* keeps the run's number and what was executed.
InRun ==
  \/ NoInput \/ Lex \/ Parse \/ AnalysisPass \/ Crash \/ Compile
  \/ RemoveOutput \/ CreateOutput \/ WriteClass \/ WriteDone \/ ShellContinues \/ Assemble

\* A stage may find the first error, and main may then exit; it neither forgets
\* an error nor goes back to a pending run.
LEMMA InRunIsPending ==
  ASSUME TypeOK, ErrorsStopTheRun, InRun
  PROVE  /\ run' = run /\ executed' = executed
         /\ Faulty => Faulty'
         /\ State = "pending" => State' \in {"pending", "over"}
         /\ State # "pending" => State = "over" /\ State' = "over" /\ (Faulty' => Faulty)
<1> USE DEF ErrorsStopTheRun, Faulty, State, Handover, Assembles
<1>1. CASE NoInput \/ Crash
  BY <1>1 DEF NoInput, Crash, Exit, Input, Output, Passes, Aborted
<1>2. CASE Lex
  BY <1>2 DEF Lex, ExitIf, Exit, GoTo, Input, Output
<1>3. CASE Parse
  BY <1>3 DEF Parse, HasAnyErrors, ExitIf, Exit, GoTo, Input, Output
<1>4. CASE AnalysisPass
  <2>1. CASE phase = "define"
    BY <1>4, <2>1 DEF AnalysisPass, AfterAnalysis, ReportedAfter, ExitIf, Exit, GoTo,
         Input, Output
  <2>2. CASE phase # "define"
    <3>1. phase' \in Passes /\ phase \in Passes
      BY <1>4, <2>2 DEF AnalysisPass, NextPass, GoTo, Passes
    <3>2. reported => reported'
      BY <1>4 DEF AnalysisPass, ReportedAfter
    <3> QED
      BY <1>4, <3>1, <3>2 DEF AnalysisPass, Input, Output, Passes
  <2> QED
    BY <2>1, <2>2
<1>5. CASE Compile \/ RemoveOutput
  BY <1>5 DEF Compile, RemoveOutput, GoTo, Input, Output
<1>6. CASE CreateOutput \/ WriteClass \/ WriteDone
  BY <1>6 DEF CreateOutput, WriteClass, WriteDone, GoTo, Exit, Input, Output, Aborted
<1>7. CASE ShellContinues \/ Assemble
  BY <1>7 DEF ShellContinues, Assemble, GoTo, Input, Output
<1> QED
  BY <1>1, <1>2, <1>3, <1>4, <1>5, <1>6, <1>7 DEF InRun

LEMMA InitRefines == Init => Batch!Init
BY DEF Init, Batch!Init, State

LEMMA NextRefines ==
  ASSUME RemoveMayFail = FALSE, IInv, [Next]_vars
  PROVE  [Batch!Next]_Batch!vars
<1> USE DEF Batch!Next, Batch!vars
<1>1. CASE StartCompiler
  <2>1. State = "over" /\ State' = "pending"
    BY <1>1 DEF StartCompiler, State, Handover
  <2> QED
    BY <1>1, <2>1 DEF StartCompiler, Output, Batch!Submit
<1>2. CASE InRun
  <2>1. /\ run' = run /\ executed' = executed
        /\ Faulty => Faulty'
        /\ State = "pending" => State' \in {"pending", "over"}
        /\ State # "pending" => State = "over" /\ State' = "over" /\ (Faulty' => Faulty)
    BY <1>2, InRunIsPending DEF IInv
  <2>2. CASE State = "pending" /\ State' = "over"
    BY <2>1, <2>2 DEF Batch!GiveUp, Faulty
  <2>3. CASE State = "pending" /\ State' = "pending" /\ Faulty' /\ ~Faulty
    BY <2>1, <2>3 DEF Batch!FindFault, Faulty
  <2>4. CASE State' = State /\ (Faulty <=> Faulty')
    BY <2>1, <2>4 DEF Faulty
  <2> QED
    BY <2>1, <2>2, <2>3, <2>4
<1>3. CASE RunMain
  <2>1. State = "pending" /\ State' = "running"
    BY <1>3 DEF RunMain, GoTo, State
  <2>2. ~Faulty /\ Holds(class, classes) /\ "Main" \in classes /\ run # Nothing
    BY <1>3 DEF RunMain, IInv, ErrorsStopTheRun, OutputIsThisRuns, MainIsThere,
         RunIsCounted, Holds, Nothing
  <2>3. executed' = {run}
    BY <1>3, <2>2, MainIsAClass DEF RunMain, Holds
  <2> QED
    BY <1>3, <2>1, <2>2, <2>3 DEF RunMain, Input, Batch!Execute, Faulty
<1>4. CASE MainEnds \/ (Interrupt /\ phase = "java")
  <2>1. State = "running" /\ State' = "over"
    BY <1>4 DEF MainEnds, Interrupt, State
  <2> QED
    BY <1>4, <2>1 DEF MainEnds, Interrupt, Input, Output, Batch!Finish
<1>5. CASE Interrupt /\ phase # "java"
  <2>1. State \in {"pending", "over"} /\ State' = "over"
    BY <1>5 DEF Interrupt, State
  <2> QED
    BY <1>5, <2>1 DEF Interrupt, Input, Batch!GiveUp
<1>6. CASE UNCHANGED vars
  BY <1>6 DEF vars, State, Assembles
<1> QED
  BY <1>1, <1>2, <1>3, <1>4, <1>5, <1>6 DEF Next, Step, InRun

\* main and run.sh keep the promise of BatchCompiler, if emptying `out` works.
THEOREM ImplementsBatch ==
  ASSUME RemoveMayFail = FALSE PROVE Spec => RefinesBatch
<1>1. IInv /\ [Next]_vars => [Batch!Next]_Batch!vars
  BY NextRefines
<1> QED
  BY <1>1, InitRefines, IInvHolds, PTL DEF Spec, RefinesBatch, Batch!Spec

=============================================================================
