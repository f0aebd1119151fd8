------------------------------ MODULE ExprJumps ------------------------------
(***************************************************************************)
(* What the labels and jumps of ExprGen must satisfy: JASM takes a label   *)
(* only once, and a jump only to a label of the same method.  The handler  *)
(* of an operand places the jumps of its parent, or does not.              *)
(***************************************************************************)
EXTENDS ExprGen

Nodes   == 1..Len(tree)
Parents == {"and", "or", "if"}

\* Where some instructions place labels, and the labels they place.
Places(instructions) == {i \in DOMAIN instructions : instructions[i].op = "label"}
Placed(instructions) == {instructions[i].arg : i \in Places(instructions)}

JumpOps == {"goto", "ifeq", "ifne", "ifge", "if_icmpeq", "if_icmplt", "if_acmpeq"}

\* Where some instructions jump to.
Targets(instructions) ==
  {instructions[i].arg : i \in {i \in DOMAIN instructions : instructions[i].op \in JumpOps}}

\* The exit handler of node n returned before it placed its parent's jumps.
ReturnedEarly(n) ==
  \/ types[n] \in Pointers
  \/ /\ tree[n].kind \in {"eq", "lt"}
     /\ "string" \in {types[Operand(n, 0)], types[Operand(n, 1)]}
     /\ {types[Operand(n, 0)], types[Operand(n, 1)]} \cap Pointers = {}

\* Operand i of n jumped to a label that operand i + 1 was to place.
Strands(n) ==
  /\ tree[n].kind \in Parents
  /\ \E i \in 0..(Arity(tree[n].kind) - 2) :
       ~ReturnedEarly(Operand(n, i)) /\ ReturnedEarly(Operand(n, i + 1))

-----------------------------------------------------------------------------
\* The walk's state keeps its shape: one type per node, labels that
\* generateLabel has returned, an operator's operands walked in order.
TypeOK ==
  /\ phase \in {"walking", "done", "rejected", "aborted"}
  /\ Len(types) = Len(tree)
  /\ labelCounter \in Nat
  /\ \A i \in DOMAIN open :
       /\ tree[open[i].node].kind = open[i].kind
       /\ open[i].walked \in 0..Arity(open[i].kind)
       /\ open[i].kind \in Parents =>
            open[i].fall < labelCounter /\ open[i].exit < labelCounter
  /\ phase = "done" => open = <<>>

\* Every label is placed at most once: the exit label of && and || is placed
\* by the expression itself, the fallthrough label by its right operand, and
\* both handlers run once per operand.
LabelsPlacedOnce ==
  \A i, j \in Places(code) : code[i].arg = code[j].arg => i = j

\* The code of an expression can be assembled, every jump having its target
\* in it, if and only if no operator strands a jump: one operand's handler
\* places it, and the next operand's returns before it places the label.
JumpsHaveTargets ==
  phase = "done" =>
    (Targets(code) \subseteq Placed(code) <=> \A n \in Nodes : ~Strands(n))

=============================================================================
