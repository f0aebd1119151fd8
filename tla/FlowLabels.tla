----------------------------- MODULE FlowLabels -----------------------------
(***************************************************************************)
(* What the labels of FlowGen must satisfy: JASM takes a label only once,  *)
(* and a jump only to a label of the same method.  The handlers that       *)
(* generate a label, jump to it and place it are all different ones.       *)
(***************************************************************************)
EXTENDS FlowGen, FiniteSets

\* Where some instructions place labels, and the labels they place.
Places(instructions) == {i \in DOMAIN instructions : instructions[i].op = "label"}
Placed(instructions) == {instructions[i].arg : i \in Places(instructions)}

\* A function whose definition has just been exited.
FunctionDone == phase = "outside" /\ tree # <<>>

\* The positions in open of the loops whose block is being walked.
OpenLoops == {i \in DOMAIN open : open[i].kind \in Loops /\ open[i].next = "body"}

-----------------------------------------------------------------------------
\* The listener's state keeps its shape: labels are numbers generateLabel has
\* returned, the open statements are a chain of the tree, and nothing is open
\* between two functions.
TypeOK ==
  /\ phase \in Phases
  /\ used.count \in Nat /\ used.kinds \subseteq Kinds \cup {"elseif"}
  /\ labelCounter \in Nat
  /\ \A i \in DOMAIN breakLabels : breakLabels[i] \in 0..(labelCounter - 1)
  /\ \A n \in DOMAIN tree : tree[n].kind \in Kinds /\ tree[n].parent < n
  /\ \A i \in DOMAIN open : open[i].node \in DOMAIN tree
  /\ \A i \in DOMAIN open \ {1} : tree[open[i].node].parent = open[i - 1].node
  /\ phase = "outside" => open = <<>>

\* Every label of a function is placed at most once (JASM rejects a second
\* definition), although labels are generated by the enter handlers and
\* placed by five other handlers, some of them conditionally.
LabelsPlacedOnce ==
  \A i, j \in Places(code) : code[i].arg = code[j].arg => i = j

\* When a function is finished, every goto and ifeq of its code has its
\* target in the same function: enter and exit handlers agree on which of
\* the labels they made will be placed.
NoDanglingJump ==
  FunctionDone =>
    \A i \in {i \in DOMAIN code : code[i].op \in {"goto", "ifeq"}} :
      code[i].arg \in Placed(code)

\* breakLabels holds exactly one label for each loop whose block is open, so
\* a break goes to the innermost loop and no label leaks into the next
\* function or past a loop.
BreakStackMatchesLoops == Len(breakLabels) = Cardinality(OpenLoops)

=============================================================================
