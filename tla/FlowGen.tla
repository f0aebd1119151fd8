------------------------------- MODULE FlowGen -------------------------------
(***************************************************************************)
(* Statement-level code generation of BytecodeIRGeneratorListener: the     *)
(* walk over the statements of a function, the labels it generates, the    *)
(* label records it keeps per statement, the stack of break labels, and    *)
(* the instructions it appends.                                            *)
(*                                                                         *)
(* The parse tree is not chosen in advance: the walker reveals it one      *)
(* node at a time, and `tree` records what has been revealed.  An          *)
(* expression is abstracted to one instruction ("eval", "update" or        *)
(* "simple") after the labels its own code generates and places; ExprGen   *)
(* models what is inside.                                                  *)
(***************************************************************************)
EXTENDS Integers, Sequences

CONSTANTS
  Families,    \* bound: the programs walked are those of one family, a record
               \* of their size (statements in all the functions of a
               \* program) and the kinds of statement they are made of
  MaxElseIfs,  \* bound: ELSE_IF clauses of one if statement
  ExprLabels   \* numbers of labels an expression's code may generate

ASSUME BoundsAssumption ==
  /\ \A family \in Families :
       /\ family.size \in Nat
       /\ family.kinds \subseteq {"simple", "valuecall", "return", "break", "if",
                                 "elseif", "while", "until", "for", "infinite"}
  /\ MaxElseIfs \in Nat
  /\ ExprLabels \subseteq Nat

VARIABLES
  phase,         \* where the walk is: see Phases
  tree,          \* the statements of the current function, in preorder
  used,          \* statements revealed so far, over all functions: their
                 \* number, and their kinds
  open,          \* the statements being walked, outermost first, with labels
  labelCounter,  \* labelCounter
  breakLabels,   \* breakLabels: a stack, top last
  code           \* currentFunction->instructions

vars == <<phase, tree, used, open, labelCounter, breakLabels, code>>

-----------------------------------------------------------------------------
(* Phases of the walk.  "outside": between two function definitions.       *)
(* "aborted": the listener threw, and the process ends.                    *)
Phases == {"outside", "inside", "done", "aborted"}

Loops  == {"while", "until", "for", "infinite"}
Leaves == {"simple", "valuecall", "return", "break"}
Kinds  == Loops \cup Leaves \cup {"if"}

NoLabel == -1
NoLabels == [start |-> NoLabel, end |-> NoLabel, cond |-> NoLabel,
             update |-> NoLabel, conds |-> <<>>]

\* A node: its kind, its parent (0 is the function block), the parent's
\* block it is in, and the shape of an if statement.
Node(kind, elseIfs, hasElse) ==
  [kind |-> kind, elseIfs |-> elseIfs, hasElse |-> hasElse,
   parent |-> IF open = <<>> THEN 0 ELSE open[Len(open)].node,
   block |-> IF open = <<>> THEN 0 ELSE open[Len(open)].block]

Branches(node) == 1 + node.elseIfs + (IF node.hasElse THEN 1 ELSE 0)

Label(l)    == [op |-> "label", arg |-> l, sub |-> 0]
Goto(l)     == [op |-> "goto", arg |-> l, sub |-> 0]
IfEq(l)     == [op |-> "ifeq", arg |-> l, sub |-> 0]
Pop         == [op |-> "pop", arg |-> 0, sub |-> 0]
Instr(op, n, k) == [op |-> op, arg |-> n, sub |-> k]

Emit(instructions) == code' = code \o instructions

\* The code of an expression that generates d labels: it places each of
\* them and leaves its value on the operand stack.
ExprCode(op, n, k, d) ==
  [j \in 1..d |-> Label(labelCounter + j - 1)] \o <<Instr(op, n, k)>>

-----------------------------------------------------------------------------
Top == open[Len(open)]
SetTop(frame) == open' = [open EXCEPT ![Len(open)] = frame]
PopTop == open' = SubSeq(open, 1, Len(open) - 1)

\* The walker is where the grammar allows a statement: in the function
\* block, or in the branch block of the innermost open statement.
AtStatement == phase = "inside" /\ (open # <<>> => Top.next = "body")

AtChild(next) == phase = "inside" /\ open # <<>> /\ Top.next = next

\* The program revealed so far and one more statement of these kinds are in
\* some family.  An if statement with else-ifs is of the kinds "if" and "elseif".
Fits(kinds) ==
  \E family \in Families :
    used.count < family.size /\ used.kinds \cup kinds \subseteq family.kinds

Reveal(kind, elseIfs, hasElse) ==
  LET kinds == {kind} \cup (IF elseIfs > 0 THEN {"elseif"} ELSE {}) IN
  /\ AtStatement /\ Fits(kinds)
  /\ used' = [count |-> used.count + 1, kinds |-> used.kinds \cup kinds]
  /\ tree' = Append(tree, Node(kind, elseIfs, hasElse))
  /\ UNCHANGED phase

\* Opens the node Reveal adds; `next` is the first child the walker visits.
Push(kind, next, labels) ==
  open' = Append(open, [node |-> Len(tree) + 1, kind |-> kind, next |-> next,
                        block |-> 0, labels |-> labels])

-----------------------------------------------------------------------------
(* The label records the enter handlers make; each calls generateLabel     *)
(* once per label, in this order.                                          *)

IfLabels(branches) ==
  [NoLabels EXCEPT !.end = labelCounter,
                   !.conds = [i \in 1..branches |-> labelCounter + i]]

WhileLabels == [NoLabels EXCEPT !.start = labelCounter,
                                !.end = labelCounter + 1]

StartOnlyLabels == [NoLabels EXCEPT !.start = labelCounter]

ForLabels == [NoLabels EXCEPT !.start = labelCounter,
                              !.end = labelCounter + 1,
                              !.cond = labelCounter + 2,
                              !.update = labelCounter + 3]

(* The instructions enterExpression and exitExpression place around a      *)
(* statement's expression.                                                 *)

\* Mutation: the target is the label of the condition's own block.
IfJumpTargetIsOwnBlock(frame) == frame.labels.conds[frame.block + 1]

\* A false condition jumps to the next else-if or else block, or the end.
IfJumpTarget(frame) ==
  IF frame.block + 1 < Len(frame.labels.conds)
  THEN frame.labels.conds[frame.block + 2]
  ELSE frame.labels.end

BeforeCondition(frame) ==
  IF frame.kind = "for" THEN <<Label(frame.labels.cond)>> ELSE <<>>

AfterCondition(frame) ==
  CASE frame.kind = "if"    -> <<IfEq(IfJumpTarget(frame))>>
    [] frame.kind = "while" -> <<IfEq(frame.labels.end)>>
    [] frame.kind = "until" -> <<IfEq(frame.labels.start)>>
    [] frame.kind = "for"   -> <<IfEq(frame.labels.end),
                                 Goto(frame.labels.start)>>

\* Mutation: the update's value is left on the operand stack.
AfterUpdateWithoutPop(frame) == <<Goto(frame.labels.cond)>>

AfterUpdate(frame) == <<Pop, Goto(frame.labels.cond)>>

(* The instructions enterBranch_block and exitBranch_block place.          *)

BlockEntry(frame) ==
  CASE frame.kind = "if"  -> IF frame.block = 0
                             THEN <<Label(frame.labels.conds[1])>> ELSE <<>>
    [] frame.kind = "for" -> <<Label(frame.labels.start)>>
    [] OTHER              -> <<>>

\* Mutation: a while forgets the label its condition jumps to.
LoopExitWithoutEnd(frame) ==
  CASE frame.kind \in {"while", "infinite"} -> <<Goto(frame.labels.start)>>
    [] frame.kind = "for"   -> <<Goto(frame.labels.update), Label(frame.labels.end)>>
    [] frame.kind = "until" -> <<>>

\* Mutation: a for goes back to its condition and skips the update.
LoopExitSkipsUpdate(frame) ==
  CASE frame.kind = "while"    -> <<Goto(frame.labels.start), Label(frame.labels.end)>>
    [] frame.kind = "for"      -> <<Goto(frame.labels.cond), Label(frame.labels.end)>>
    [] frame.kind = "infinite" -> <<Goto(frame.labels.start)>>
    [] frame.kind = "until"    -> <<>>

LoopExit(frame) ==
  CASE frame.kind = "while"    -> <<Goto(frame.labels.start),
                                    Label(frame.labels.end)>>
    [] frame.kind = "for"      -> <<Goto(frame.labels.update),
                                    Label(frame.labels.end)>>
    [] frame.kind = "infinite" -> <<Goto(frame.labels.start)>>
    [] frame.kind = "until"    -> <<>>

IsLastBlock(frame) == frame.block = Branches(tree[frame.node]) - 1

\* Mutation: every block of the if places the end label.
IfBlockExitAlwaysEnds(frame) ==
  <<Goto(frame.labels.end)>>
    \o (IF frame.block + 1 < Len(frame.labels.conds)
        THEN <<Label(frame.labels.conds[frame.block + 2])>> ELSE <<>>)
    \o <<Label(frame.labels.end)>>

IfBlockExit(frame) ==
  <<Goto(frame.labels.end)>>
    \o (IF frame.block + 1 < Len(frame.labels.conds)
        THEN <<Label(frame.labels.conds[frame.block + 2])>> ELSE <<>>)
    \o (IF IsLastBlock(frame) THEN <<Label(frame.labels.end)>> ELSE <<>>)

-----------------------------------------------------------------------------
Init ==
  /\ phase = "outside"
  /\ tree = <<>>
  /\ used = [count |-> 0, kinds |-> {}]
  /\ open = <<>>
  /\ labelCounter = 0
  /\ breakLabels = <<>>
  /\ code = <<>>

EnterFunction ==
  /\ phase = "outside"
  /\ phase' = "inside"
  /\ tree' = <<>>
  /\ code' = <<>>
  /\ UNCHANGED <<used, open, labelCounter, breakLabels>>

ExitFunction ==
  /\ phase = "inside" /\ open = <<>>
  /\ phase' = "outside"
  /\ UNCHANGED <<tree, used, open, labelCounter, breakLabels, code>>

ExitProgram ==
  /\ phase = "outside"
  /\ phase' = "done"
  /\ UNCHANGED <<tree, used, open, labelCounter, breakLabels, code>>

\* A declaration, assignment, unary statement or void call: code that
\* leaves the operand stack as it found it.
SimpleStatement ==
  \E d \in ExprLabels :
    /\ Reveal("simple", 0, FALSE)
    /\ Emit(ExprCode("simple", Len(tree) + 1, 0, d))
    /\ labelCounter' = labelCounter + d
    /\ UNCHANGED <<open, breakLabels>>

\* A call statement whose function returns a value: nothing pops it.
ValueCallStatement ==
  /\ Reveal("valuecall", 0, FALSE)
  /\ Emit(<<Instr("valuecall", Len(tree) + 1, 0)>>)
  /\ UNCHANGED <<open, labelCounter, breakLabels>>

ExitReturn ==
  /\ Reveal("return", 0, FALSE)
  /\ Emit(<<Instr("return", Len(tree) + 1, 0)>>)
  /\ UNCHANGED <<open, labelCounter, breakLabels>>

ExitBreak ==
  /\ breakLabels # <<>>
  /\ Reveal("break", 0, FALSE)
  /\ Emit(<<Goto(breakLabels[Len(breakLabels)])>>)
  /\ UNCHANGED <<open, labelCounter, breakLabels>>

\* No pass rejects a break outside a loop, so the walk can meet one.
ExitBreakThrows ==
  /\ AtStatement /\ Fits({"break"})
  /\ breakLabels = <<>>
  /\ phase' = "aborted"
  /\ UNCHANGED <<tree, used, open, labelCounter, breakLabels, code>>

EnterIf ==
  \E elseIfs \in 0..MaxElseIfs, hasElse \in BOOLEAN :
    LET branches == 1 + elseIfs + (IF hasElse THEN 1 ELSE 0) IN
    /\ Reveal("if", elseIfs, hasElse)
    /\ Push("if", "cond", IfLabels(branches))
    /\ labelCounter' = labelCounter + 1 + branches
    /\ UNCHANGED <<breakLabels, code>>

EnterWhile ==
  /\ Reveal("while", 0, FALSE)
  /\ Push("while", "cond", WhileLabels)
  /\ labelCounter' = labelCounter + 2
  /\ Emit(<<Label(WhileLabels.start)>>)
  /\ UNCHANGED breakLabels

EnterInfinite ==
  /\ Reveal("infinite", 0, FALSE)
  /\ Push("infinite", "block", StartOnlyLabels)
  /\ labelCounter' = labelCounter + 1
  /\ Emit(<<Label(StartOnlyLabels.start)>>)
  /\ UNCHANGED breakLabels

EnterUntil ==
  /\ Reveal("until", 0, FALSE)
  /\ Push("until", "block", StartOnlyLabels)
  /\ labelCounter' = labelCounter + 1
  /\ Emit(<<Label(StartOnlyLabels.start)>>)
  /\ UNCHANGED breakLabels

\* The init declaration comes before the condition's label and is
\* straight-line code: it is the "simple" instruction of the for node.
EnterFor ==
  /\ Reveal("for", 0, FALSE)
  /\ Push("for", "cond", ForLabels)
  /\ labelCounter' = labelCounter + 4
  /\ Emit(<<Instr("simple", Len(tree) + 1, 0)>>)
  /\ UNCHANGED breakLabels

\* The condition of an if, else-if, while, for or until.
Condition ==
  \E d \in ExprLabels :
    /\ AtChild("cond")
    /\ Emit(BeforeCondition(Top) \o ExprCode("eval", Top.node, Top.block, d)
              \o AfterCondition(Top))
    /\ labelCounter' = labelCounter + d
    /\ CASE Top.kind = "until" -> PopTop
         [] Top.kind = "for"   -> SetTop([Top EXCEPT !.next = "update"])
         [] OTHER              -> SetTop([Top EXCEPT !.next = "block"])
    /\ UNCHANGED <<phase, tree, used, breakLabels>>

ForUpdate ==
  \E d \in ExprLabels :
    /\ AtChild("update")
    /\ Emit(<<Label(Top.labels.update)>>
              \o ExprCode("update", Top.node, 0, d) \o AfterUpdate(Top))
    /\ labelCounter' = labelCounter + d
    /\ SetTop([Top EXCEPT !.next = "block"])
    /\ UNCHANGED <<phase, tree, used, breakLabels>>

\* Mutation: the break label is the next number, but is not generated.
OpenBreakWithoutLabel(frame) ==
  IF frame.kind \in Loops
  THEN breakLabels' = Append(breakLabels, labelCounter) /\ UNCHANGED labelCounter
  ELSE UNCHANGED <<breakLabels, labelCounter>>

\* The block of a loop pushes a new break label.
OpenBreak(frame) ==
  IF frame.kind \in Loops
  THEN /\ breakLabels' = Append(breakLabels, labelCounter)
       /\ labelCounter' = labelCounter + 1
  ELSE UNCHANGED <<breakLabels, labelCounter>>

EnterBlock ==
  /\ AtChild("block")
  /\ Emit(BlockEntry(Top))
  /\ SetTop([Top EXCEPT !.next = "body"])
  /\ OpenBreak(Top)
  /\ UNCHANGED <<phase, tree, used>>

\* Mutation: the break label is placed and stays on the stack.
BreakLabelsPeeked == breakLabels

BreakLabelsPopped == SubSeq(breakLabels, 1, Len(breakLabels) - 1)

\* The end of a loop's block: the loop's own labels first, then the break
\* label, which is popped.  An until still has its condition to come.
ExitLoopBlock ==
  /\ AtChild("body") /\ Top.kind \in Loops
  /\ IF breakLabels # <<>>
     THEN /\ Emit(LoopExit(Top) \o <<Label(breakLabels[Len(breakLabels)])>>)
          /\ breakLabels' = BreakLabelsPopped
     ELSE /\ Emit(LoopExit(Top))
          /\ UNCHANGED breakLabels
  /\ IF Top.kind = "until" THEN SetTop([Top EXCEPT !.next = "cond"])
                           ELSE PopTop
  /\ UNCHANGED <<phase, tree, used, labelCounter>>

ExitIfBlock ==
  /\ AtChild("body") /\ Top.kind = "if"
  /\ Emit(IfBlockExit(Top))
  /\ IF IsLastBlock(Top)
     THEN PopTop
     ELSE SetTop([Top EXCEPT
            !.block = Top.block + 1,
            !.next = IF Top.block + 1 <= tree[Top.node].elseIfs
                     THEN "cond" ELSE "block"])
  /\ UNCHANGED <<phase, tree, used, labelCounter, breakLabels>>

Next ==
  \/ EnterFunction \/ ExitFunction \/ ExitProgram
  \/ SimpleStatement \/ ValueCallStatement \/ ExitReturn
  \/ ExitBreak \/ ExitBreakThrows
  \/ EnterIf \/ EnterWhile \/ EnterInfinite \/ EnterUntil \/ EnterFor
  \/ Condition \/ ForUpdate \/ EnterBlock \/ ExitLoopBlock \/ ExitIfBlock

Spec == Init /\ [][Next]_vars

=============================================================================
