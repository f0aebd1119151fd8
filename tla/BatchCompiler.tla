---------------------------- MODULE BatchCompiler ----------------------------
(***************************************************************************)
(* What `run.sh file` promises its user: a program submitted is either     *)
(* given up or run; a program found faulty is not run; what runs is the    *)
(* program submitted last, whole and nothing else.                         *)
(***************************************************************************)
EXTENDS Integers

CONSTANT MaxRuns  \* bound: programs submitted

VARIABLES
  submitted,  \* the number of the program submitted last
  state,      \* what becomes of it: "pending", "running" or "over"
  faulty,     \* an error was found in it
  executed    \* the programs the classes executed last came from

vars == <<submitted, state, faulty, executed>>

Init == submitted = 0 /\ state = "over" /\ faulty = FALSE /\ executed = {}

Submit ==
  /\ state = "over" /\ submitted < MaxRuns
  /\ submitted' = submitted + 1
  /\ state' = "pending" /\ faulty' = FALSE
  /\ UNCHANGED executed

FindFault ==
  /\ state = "pending"
  /\ faulty' = TRUE
  /\ UNCHANGED <<submitted, state, executed>>

\* Because it is faulty, because only a stage was asked for, or because the
\* compiler or the assembler failed.  The last fault may be found by the step
\* that gives up.
GiveUp ==
  /\ state = "pending"
  /\ state' = "over"
  /\ faulty' \in {faulty, TRUE}
  /\ UNCHANGED <<submitted, executed>>

Execute ==
  /\ state = "pending" /\ ~faulty
  /\ state' = "running" /\ executed' = {submitted}
  /\ UNCHANGED <<submitted, faulty>>

Finish ==
  /\ state = "running"
  /\ state' = "over"
  /\ UNCHANGED <<submitted, faulty, executed>>

Next == Submit \/ FindFault \/ GiveUp \/ Execute \/ Finish

Spec == Init /\ [][Next]_vars

=============================================================================
