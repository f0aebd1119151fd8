------------------------- MODULE FlowSemanticsProofs -------------------------
(***************************************************************************)
(* Theorems of FlowSemantics, for functions of any size and nesting: the   *)
(* operand-stack heights agree, and the control flow of the emitted code   *)
(* is that of the source.                                                  *)
(***************************************************************************)
EXTENDS FlowSemantics, FlowProofs, WellFoundedInduction

-----------------------------------------------------------------------------
(* Operand-stack heights.  A condition or an update is followed by the     *)
(* instruction that takes its value, which follows nothing else.           *)

Givers == {"eval", "update"}
Takers == {"ifeq", "pop"}

Matched(c) ==
  /\ \A i \in DOMAIN c : c[i].op \in Givers => i < Len(c) /\ c[i + 1].op \in Takers
  /\ \A i \in DOMAIN c : c[i].op \in Takers => i > 1 /\ c[i - 1].op \in Givers

\* Only a call statement has a value that nothing takes.
CallsAreStatements ==
  \A i \in DOMAIN code :
    code[i].op = "valuecall" =>
      code[i].arg \in DOMAIN tree /\ tree[code[i].arg].kind = "valuecall"

HeightInv == IInv /\ Matched(code) /\ CallsAreStatements

\* Code that needs no operand and leaves none.
Calm(c) == \A i \in DOMAIN c : c[i].op \notin Givers \cup Takers \cup {"valuecall"}

\* Code in which values are taken, and which calls nothing for a value.
Even(c) == c \in Seq(Instruction) /\ Matched(c) /\ \A i \in DOMAIN c : c[i].op # "valuecall"

\* Two pieces, one after the other.
LEMMA MatchedTogether ==
  ASSUME NEW s \in Seq(Instruction), NEW t \in Seq(Instruction), Matched(s), Matched(t)
  PROVE  Matched(s \o t)
<1>1. /\ s \o t \in Seq(Instruction) /\ Len(s) \in Nat /\ Len(t) \in Nat
      /\ DOMAIN s = 1..Len(s) /\ DOMAIN t = 1..Len(t)
      /\ Len(s \o t) = Len(s) + Len(t) /\ DOMAIN (s \o t) = 1..(Len(s) + Len(t))
      /\ \A i \in 1..Len(s) : (s \o t)[i] = s[i]
      /\ \A i \in 1..Len(t) : (s \o t)[Len(s) + i] = t[i]
  BY ConcatProperties
<1>2. \A i \in DOMAIN (s \o t) :
        i \in DOMAIN s \/ \E j \in DOMAIN t : i = Len(s) + j
  <2> TAKE i \in DOMAIN (s \o t)
  <2>1. i <= Len(s) \/ i - Len(s) \in 1..Len(t)
    BY <1>1
  <2> QED BY <1>1, <2>1
<1> DEFINE c == s \o t
<1> HIDE DEF c
<1>3. ASSUME NEW i \in DOMAIN c, c[i].op \in Givers
      PROVE  i < Len(c) /\ c[i + 1].op \in Takers
  <2>1. CASE i \in DOMAIN s
    <3>1. s[i].op \in Givers
      BY <1>1, <1>3, <2>1 DEF c
    <3>2. i < Len(s) /\ s[i + 1].op \in Takers
      BY <2>1, <3>1 DEF Matched
    <3>3. i + 1 \in 1..Len(s)
      BY <1>1, <2>1, <3>2
    <3>4. c[i + 1] = s[i + 1]
      BY <1>1, <3>3 DEF c
    <3> QED BY <1>1, <2>1, <3>2, <3>4 DEF c
  <2>2. CASE \E j \in DOMAIN t : i = Len(s) + j
    <3>1. PICK j \in DOMAIN t : i = Len(s) + j
      BY <2>2
    <3>2. t[j].op \in Givers
      BY <1>1, <1>3, <3>1 DEF c
    <3>3. j < Len(t) /\ t[j + 1].op \in Takers
      BY <3>2 DEF Matched
    <3>d. Len(t) \in Nat /\ Len(s) \in Nat /\ j \in 1..Len(t)
      BY <1>1, <3>1
    <3>e. i = Len(s) + j /\ j < Len(t)
      BY <3>1, <3>3
    <3>4. j + 1 \in 1..Len(t) /\ Len(s) + (j + 1) = i + 1
      BY ONLY <3>d, <3>e
    <3>5. c[i + 1] = t[j + 1]
      BY <1>1, <3>4 DEF c
    <3>6. Len(c) = Len(s) + Len(t)
      BY <1>1 DEF c
    <3>7. i < Len(c)
      BY ONLY <3>d, <3>e, <3>6
    <3> QED BY <3>3, <3>5, <3>7
  <2> QED BY <1>2, <2>1, <2>2 DEF c
<1>4. ASSUME NEW i \in DOMAIN c, c[i].op \in Takers
      PROVE  i > 1 /\ c[i - 1].op \in Givers
  <2>1. CASE i \in DOMAIN s
    <3>1. s[i].op \in Takers
      BY <1>1, <1>4, <2>1 DEF c
    <3>2. i > 1 /\ s[i - 1].op \in Givers
      BY <2>1, <3>1 DEF Matched
    <3>3. i - 1 \in 1..Len(s)
      BY <1>1, <2>1, <3>2
    <3>4. c[i - 1] = s[i - 1]
      BY <1>1, <3>3 DEF c
    <3> QED BY <3>2, <3>4
  <2>2. CASE \E j \in DOMAIN t : i = Len(s) + j
    <3>1. PICK j \in DOMAIN t : i = Len(s) + j
      BY <2>2
    <3>2. t[j].op \in Takers
      BY <1>1, <1>4, <3>1 DEF c
    <3>3. j > 1 /\ t[j - 1].op \in Givers
      BY <3>2 DEF Matched
    <3>d. Len(t) \in Nat /\ Len(s) \in Nat /\ j \in 1..Len(t)
      BY <1>1, <3>1
    <3>e. i = Len(s) + j /\ j > 1
      BY <3>1, <3>3
    <3>4. j - 1 \in 1..Len(t) /\ Len(s) + (j - 1) = i - 1 /\ i > 1
      BY ONLY <3>d, <3>e
    <3>5. c[i - 1] = t[j - 1]
      BY <1>1, <3>4 DEF c
    <3> QED BY <3>3, <3>4, <3>5
  <2> QED BY <1>2, <2>1, <2>2 DEF c
<1>5. Matched(c)
  BY <1>3, <1>4 DEF Matched
<1> QED BY <1>5 DEF c

\* The same, of pieces without a call.
LEMMA EvenTogether ==
  ASSUME NEW s, NEW t, Even(s), Even(t)
  PROVE  Even(s \o t)
<1>1. s \in Seq(Instruction) /\ t \in Seq(Instruction)
  BY DEF Even
<1>2. s \o t \in Seq(Instruction) /\ Matched(s \o t)
  BY <1>1, MatchedTogether, ConcatProperties DEF Even
<1>3. /\ Len(s) \in Nat /\ Len(t) \in Nat
      /\ DOMAIN s = 1..Len(s) /\ DOMAIN t = 1..Len(t)
      /\ DOMAIN (s \o t) = 1..(Len(s) + Len(t))
      /\ \A i \in 1..Len(s) : (s \o t)[i] = s[i]
      /\ \A i \in 1..Len(t) : (s \o t)[Len(s) + i] = t[i]
  BY <1>1, ConcatProperties
<1>4. ASSUME NEW i \in DOMAIN (s \o t) PROVE (s \o t)[i].op # "valuecall"
  <2>1. CASE i <= Len(s)
    BY <1>3, <2>1 DEF Even
  <2>2. CASE i > Len(s)
    <3>1. i - Len(s) \in 1..Len(t) /\ Len(s) + (i - Len(s)) = i
      BY <1>3, <2>2
    <3>2. (s \o t)[i] = t[i - Len(s)]
      BY <1>3, <3>1
    <3> QED BY <1>3, <3>1, <3>2 DEF Even
  <2> QED BY <1>3, <2>1, <2>2
<1> QED BY <1>2, <1>4 DEF Even

\* Calm code has nothing to match.
LEMMA CalmIsEven ==
  ASSUME NEW s \in Seq(Instruction), Calm(s)
  PROVE  Even(s)
BY DEF Calm, Even, Matched

\* No code, and one instruction.
LEMMA EvenShort ==
  /\ Even(<<>>)
  /\ \A a \in Instruction : a.op \notin Givers \cup Takers \cup {"valuecall"} => Even(<<a>>)
<1>1. Even(<<>>)
  <2>1. <<>> \in Seq(Instruction) /\ DOMAIN <<>> = {}
    OBVIOUS
  <2>2. PICK s : s = <<>>
    OBVIOUS
  <2>3. s \in Seq(Instruction) /\ DOMAIN s = {}
    BY ONLY <2>1, <2>2
  <2>4. Calm(s)
    BY ONLY <2>3 DEF Calm
  <2> QED BY <2>2, <2>3, <2>4, CalmIsEven
<1>2. ASSUME NEW a \in Instruction, a.op \notin Givers \cup Takers \cup {"valuecall"}
      PROVE  Even(<<a>>)
  <2>1. <<a>> \in Seq(Instruction) /\ DOMAIN <<a>> = {1} /\ <<a>>[1] = a
    OBVIOUS
  <2> QED BY <1>2, <2>1, CalmIsEven DEF Calm
<1> QED BY <1>1, <1>2

\* Two instructions are one after the other.
LEMMA PairIsConcat ==
  ASSUME NEW a \in Instruction, NEW b \in Instruction
  PROVE  <<a>> \o <<b>> = <<a, b>>
<1>1. <<a>> \in Seq(Instruction) /\ <<b>> \in Seq(Instruction)
      /\ <<a, b>> \in Seq(Instruction)
      /\ Len(<<a>>) = 1 /\ Len(<<b>>) = 1 /\ Len(<<a, b>>) = 2
      /\ <<a>>[1] = a /\ <<b>>[1] = b /\ <<a, b>>[1] = a /\ <<a, b>>[2] = b
  OBVIOUS
<1>2. /\ <<a>> \o <<b>> \in Seq(Instruction) /\ Len(<<a>> \o <<b>>) = 2
      /\ (<<a>> \o <<b>>)[1] = a /\ (<<a>> \o <<b>>)[2] = b
  BY <1>1, ConcatProperties
<1>3. \A i \in 1..2 : <<a, b>>[i] = (<<a>> \o <<b>>)[i]
  BY <1>1, <1>2
<1> QED BY <1>1, <1>2, <1>3, SeqEqual

\* A value and what takes it.
LEMMA EvenPair ==
  ASSUME NEW a \in Instruction, NEW b \in Instruction, a.op \in Givers, b.op \in Takers
  PROVE  Even(<<a, b>>)
<1>1. /\ <<a, b>> \in Seq(Instruction) /\ DOMAIN <<a, b>> = {1, 2} /\ Len(<<a, b>>) = 2
      /\ <<a, b>>[1] = a /\ <<a, b>>[2] = b
  OBVIOUS
<1>2. a.op \notin Takers /\ b.op \notin Givers /\ a.op # "valuecall" /\ b.op # "valuecall"
  BY DEF Givers, Takers
<1>3. Matched(<<a, b>>)
  BY <1>1, <1>2 DEF Matched
<1> QED BY <1>1, <1>2, <1>3 DEF Even

\* The labels an expression's code places before its value is there.
ExprLabelCode(d) == [j \in 1..d |-> Label(labelCounter + j - 1)]

LEMMA EvenLabels ==
  ASSUME NEW d \in Nat, labelCounter \in Nat
  PROVE  Even(ExprLabelCode(d))
<1>1. \A j \in 1..d : Label(labelCounter + j - 1) \in Instruction
                      /\ Label(labelCounter + j - 1).op = "label"
  BY DEF Label, Instruction
<1> DEFINE s == [j \in 1..d |-> Label(labelCounter + j - 1)]
<1>a. s \in [1..d -> Instruction]
  BY <1>1
<1>b. s \in Seq(Instruction)
  BY ONLY <1>a, d \in Nat
<1>c. DOMAIN s = 1..d /\ \A j \in 1..d : s[j].op = "label"
  BY <1>1
<1>2. ExprLabelCode(d) \in Seq(Instruction) /\ DOMAIN ExprLabelCode(d) = 1..d
      /\ \A j \in 1..d : ExprLabelCode(d)[j].op = "label"
  BY <1>b, <1>c DEF ExprLabelCode
<1> QED BY <1>2, CalmIsEven DEF Calm, Givers, Takers

\* The value of an expression is taken by what follows its code.
LEMMA EvenExpr ==
  ASSUME NEW op \in Givers, NEW n \in Nat, NEW k \in Nat, NEW d \in Nat, labelCounter \in Nat,
         NEW b \in Instruction, b.op \in Takers, NEW t, Even(t)
  PROVE  Even(ExprCode(op, n, k, d) \o (<<b>> \o t))
<1>1. PICK a : a = Instr(op, n, k)
  OBVIOUS
<1>2. a \in Instruction /\ a.op = op
  BY <1>1 DEF Instr, Instruction, Givers
<1>3. PICK s : s = ExprLabelCode(d)
  OBVIOUS
<1>4. Even(s) /\ s \in Seq(Instruction) /\ t \in Seq(Instruction)
  BY <1>3, EvenLabels DEF Even
<1>5. ExprCode(op, n, k, d) = s \o <<a>>
  BY <1>1, <1>3 DEF ExprCode, ExprLabelCode
<1>6. (s \o <<a>>) \o (<<b>> \o t) = s \o (<<a, b>> \o t)
  <2>1. /\ <<a>> \in Seq(Instruction) /\ <<b>> \in Seq(Instruction)
        /\ <<b>> \o t \in Seq(Instruction)
    BY <1>2, <1>4, ConcatProperties
  <2>2. (s \o <<a>>) \o (<<b>> \o t) = s \o (<<a>> \o (<<b>> \o t))
    BY <1>4, <2>1, ConcatAssociative
  <2>3. <<a>> \o (<<b>> \o t) = (<<a>> \o <<b>>) \o t
    BY <1>4, <2>1, ConcatAssociative
  <2> QED BY <1>2, <2>2, <2>3, PairIsConcat
<1>7. Even(<<a, b>>)
  BY <1>2, EvenPair
<1>8. Even(s \o (<<a, b>> \o t))
  BY <1>4, <1>7, EvenTogether
<1> QED BY <1>5, <1>6, <1>8

-----------------------------------------------------------------------------
(* The steps keep values matched.                                          *)

\* A step that adds code in which values are taken.
LEMMA EvenStep ==
  ASSUME HeightInv, IInv', NEW new, Even(new), Emit(new),
         DOMAIN tree \subseteq DOMAIN tree', \A n \in DOMAIN tree : tree'[n] = tree[n]
  PROVE  HeightInv'
<1>1. code \in Seq(Instruction) /\ new \in Seq(Instruction) /\ code' = code \o new
  BY DEF HeightInv, IInv, Types, Even, Emit
<1>2. Matched(code \o new)
  BY <1>1, MatchedTogether DEF HeightInv, Even
<1>3. /\ Len(code) \in Nat /\ Len(new) \in Nat
      /\ DOMAIN code = 1..Len(code) /\ DOMAIN new = 1..Len(new)
      /\ DOMAIN code' = 1..(Len(code) + Len(new))
      /\ \A i \in 1..Len(code) : code'[i] = code[i]
      /\ \A i \in 1..Len(new) : code'[Len(code) + i] = new[i]
  BY <1>1, ConcatProperties
<1>4. ASSUME NEW i \in DOMAIN code', code'[i].op = "valuecall"
      PROVE  code'[i].arg \in DOMAIN tree' /\ tree'[code'[i].arg].kind = "valuecall"
  <2>1. CASE i <= Len(code)
    <3>1. i \in DOMAIN code /\ code'[i] = code[i]
      BY <1>3, <2>1
    <3>2. code[i].arg \in DOMAIN tree /\ tree[code[i].arg].kind = "valuecall"
      BY <1>4, <3>1 DEF HeightInv, CallsAreStatements
    <3> QED BY <3>1, <3>2
  <2>2. CASE i > Len(code)
    <3>1. i - Len(code) \in 1..Len(new) /\ Len(code) + (i - Len(code)) = i
      BY <1>3, <2>2
    <3>2. code'[i] = new[i - Len(code)]
      BY <1>3, <3>1
    <3> QED BY <1>3, <1>4, <3>1, <3>2 DEF Even
  <2> QED BY <1>3, <2>1, <2>2
<1> QED BY <1>1, <1>2, <1>4 DEF HeightInv, CallsAreStatements

\* A step that leaves code and tree alone.
LEMMA SameCode ==
  ASSUME HeightInv, IInv', code' = code,
         DOMAIN tree \subseteq DOMAIN tree', \A n \in DOMAIN tree : tree'[n] = tree[n]
  PROVE  HeightInv'
BY DEF HeightInv, CallsAreStatements, Matched

\* What a revealed statement does to the tree.
LEMMA TreeGrows ==
  ASSUME IInv, NEW kind \in Kinds, NEW elseIfs \in Nat, NEW hasElse \in BOOLEAN,
         Reveal(kind, elseIfs, hasElse)
  PROVE  /\ Len(tree) \in Nat /\ Len(tree) + 1 \in Nat
         /\ DOMAIN tree \subseteq DOMAIN tree' /\ \A n \in DOMAIN tree : tree'[n] = tree[n]
         /\ Len(tree) + 1 \in DOMAIN tree' /\ tree'[Len(tree) + 1].kind = kind
<1>1. /\ Len(tree) \in Nat
      /\ DOMAIN tree = 1..Len(tree) /\ DOMAIN tree' = 1..(Len(tree) + 1)
      /\ \A n \in DOMAIN tree : tree'[n] = tree[n]
      /\ tree'[Len(tree) + 1] = Node(kind, elseIfs, hasElse)
  BY RevealStep
<1>2. Node(kind, elseIfs, hasElse).kind = kind
  BY DEF Node
<1> QED BY <1>1, <1>2

\* Labels and jumps, one at a time.
LEMMA EvenJumps ==
  ASSUME NEW l \in Int
  PROVE  Even(<<Label(l)>>) /\ Even(<<Goto(l)>>)
<1>1. Label(l) \in Instruction /\ Goto(l) \in Instruction
      /\ Label(l).op = "label" /\ Goto(l).op = "goto"
  BY DEF Label, Goto, Instruction
<1> QED BY <1>1, EvenShort DEF Givers, Takers

\* Two of them.
LEMMA EvenJumpPair ==
  ASSUME NEW k \in Int, NEW l \in Int
  PROVE  Even(<<Goto(k), Label(l)>>)
<1>1. Label(l) \in Instruction /\ Goto(k) \in Instruction
  BY DEF Label, Goto, Instruction
<1>2. Even(<<Goto(k)>> \o <<Label(l)>>)
  BY EvenJumps, EvenTogether
<1> QED BY <1>1, <1>2, PairIsConcat

\* Statements and loops that begin with one instruction or none.
LEMMA RevealsEven ==
  ASSUME HeightInv, IInv',
         \/ ExitReturn \/ ExitBreak \/ EnterIf \/ EnterWhile \/ EnterInfinite
         \/ EnterUntil \/ EnterFor
  PROVE  HeightInv'
<1>i. IInv /\ tree \in Seq(NodeRecord) /\ Len(tree) \in Nat /\ labelCounter \in Nat
  BY DEF HeightInv, IInv, Types
<1>s. \A op \in {"return", "simple"} :
        /\ Instr(op, Len(tree) + 1, 0) \in Instruction
        /\ Instr(op, Len(tree) + 1, 0).op = op
  BY <1>i DEF Instr, Instruction
<1>e. \A op \in {"return", "simple"} : Even(<<Instr(op, Len(tree) + 1, 0)>>)
  BY <1>s, EvenShort DEF Givers, Takers
<1>1. CASE ExitReturn
  <2>1. Reveal("return", 0, FALSE) /\ Emit(<<Instr("return", Len(tree) + 1, 0)>>)
    BY <1>1 DEF ExitReturn
  <2>2. "return" \in Kinds
    BY DEF Kinds, Leaves
  <2> QED BY <1>i, <1>e, <2>1, <2>2, TreeGrows, EvenStep
<1>2. CASE ExitBreak
  <2>1. PICK l : l = breakLabels[Len(breakLabels)]
    OBVIOUS
  <2>2. Reveal("break", 0, FALSE) /\ Emit(<<Goto(l)>>) /\ breakLabels # <<>>
    BY <1>2, <2>1 DEF ExitBreak
  <2>3. l \in Int /\ "break" \in Kinds
    BY <1>i, <2>1, <2>2 DEF IInv, Types, Kinds, Leaves
  <2> QED BY <1>i, <2>2, <2>3, EvenJumps, TreeGrows, EvenStep
<1>3. CASE EnterIf
  <2>1. PICK elseIfs \in 0..MaxElseIfs, hasElse \in BOOLEAN : Reveal("if", elseIfs, hasElse)
    BY <1>3 DEF EnterIf
  <2>2. code' = code
    BY <1>3 DEF EnterIf
  <2>3. elseIfs \in Nat /\ "if" \in Kinds
    BY BoundsAssumption DEF Kinds
  <2> QED BY <1>i, <2>1, <2>2, <2>3, TreeGrows, SameCode
<1>4. CASE EnterWhile
  <2>1. Reveal("while", 0, FALSE) /\ Emit(<<Label(WhileLabels.start)>>)
    BY <1>4 DEF EnterWhile
  <2>2. WhileLabels.start \in Int /\ "while" \in Kinds
    BY <1>i DEF WhileLabels, NoLabels, Kinds, Loops
  <2> QED BY <1>i, <2>1, <2>2, EvenJumps, TreeGrows, EvenStep
<1>5. CASE EnterInfinite
  <2>1. Reveal("infinite", 0, FALSE) /\ Emit(<<Label(StartOnlyLabels.start)>>)
    BY <1>5 DEF EnterInfinite
  <2>2. StartOnlyLabels.start \in Int /\ "infinite" \in Kinds
    BY <1>i DEF StartOnlyLabels, NoLabels, Kinds, Loops
  <2> QED BY <1>i, <2>1, <2>2, EvenJumps, TreeGrows, EvenStep
<1>6. CASE EnterUntil
  <2>1. Reveal("until", 0, FALSE) /\ Emit(<<Label(StartOnlyLabels.start)>>)
    BY <1>6 DEF EnterUntil
  <2>2. StartOnlyLabels.start \in Int /\ "until" \in Kinds
    BY <1>i DEF StartOnlyLabels, NoLabels, Kinds, Loops
  <2> QED BY <1>i, <2>1, <2>2, EvenJumps, TreeGrows, EvenStep
<1>7. CASE EnterFor
  <2>1. Reveal("for", 0, FALSE) /\ Emit(<<Instr("simple", Len(tree) + 1, 0)>>)
    BY <1>7 DEF EnterFor
  <2>2. "for" \in Kinds
    BY DEF Kinds, Loops
  <2> QED BY <1>i, <1>e, <2>1, <2>2, TreeGrows, EvenStep
<1> QED BY <1>1, <1>2, <1>3, <1>4, <1>5, <1>6, <1>7

\* A simple statement's code ends with nothing on the stack.
LEMMA SimpleEven == HeightInv /\ IInv' /\ SimpleStatement => HeightInv'
<1> SUFFICES ASSUME HeightInv, IInv', NEW d \in ExprLabels, Reveal("simple", 0, FALSE),
                    Emit(ExprCode("simple", Len(tree) + 1, 0, d))
             PROVE  HeightInv'
  BY DEF SimpleStatement
<1>1. IInv /\ tree \in Seq(NodeRecord) /\ Len(tree) \in Nat /\ labelCounter \in Nat /\ d \in Nat
  BY BoundsAssumption DEF HeightInv, IInv, Types
<1>2. PICK a : a = Instr("simple", Len(tree) + 1, 0)
  OBVIOUS
<1>3. a \in Instruction /\ a.op = "simple"
  BY <1>1, <1>2 DEF Instr, Instruction
<1>4. Even(<<a>>)
  BY <1>3, EvenShort DEF Givers, Takers
<1>5. ExprCode("simple", Len(tree) + 1, 0, d) = ExprLabelCode(d) \o <<a>>
  BY <1>2 DEF ExprCode, ExprLabelCode
<1>6. Even(ExprLabelCode(d) \o <<a>>)
  BY <1>1, <1>4, EvenLabels, EvenTogether
<1>7. "simple" \in Kinds
  BY DEF Kinds, Leaves
<1> QED BY <1>1, <1>5, <1>6, <1>7, TreeGrows, EvenStep

\* The value of a call statement is that of a statement of the tree.
LEMMA ValueCallEven == HeightInv /\ IInv' /\ ValueCallStatement => HeightInv'
<1> SUFFICES ASSUME HeightInv, IInv', ValueCallStatement PROVE HeightInv'
  OBVIOUS
<1>a. "valuecall" \in Kinds
  BY ONLY DEF Kinds, Leaves
<1>b. Reveal("valuecall", 0, FALSE)
  BY DEF ValueCallStatement
<1>c. IInv /\ code \in Seq(Instruction) /\ tree \in Seq(NodeRecord) /\ Len(tree) \in Nat
  BY DEF HeightInv, IInv, Types
<1>1. /\ IInv /\ code \in Seq(Instruction) /\ tree \in Seq(NodeRecord) /\ Len(tree) \in Nat
      /\ Reveal("valuecall", 0, FALSE) /\ "valuecall" \in Kinds
  BY ONLY <1>a, <1>b, <1>c
<1>2. PICK a : a = Instr("valuecall", Len(tree) + 1, 0)
  OBVIOUS
<1>3. a \in Instruction /\ a.op = "valuecall" /\ a.arg = Len(tree) + 1
  BY <1>1, <1>2 DEF Instr, Instruction
<1>4. code' = code \o <<a>>
  BY <1>2 DEF ValueCallStatement, Emit
<1>5. <<a>> \in Seq(Instruction) /\ DOMAIN <<a>> = {1} /\ <<a>>[1] = a /\ Len(<<a>>) = 1
  BY <1>3
<1>6. Matched(<<a>>)
  BY <1>3, <1>5 DEF Matched, Givers, Takers
<1>7. Matched(code \o <<a>>)
  BY <1>1, <1>5, <1>6, MatchedTogether DEF HeightInv
<1>8. /\ Len(code) \in Nat /\ DOMAIN code = 1..Len(code)
      /\ DOMAIN code' = 1..(Len(code) + 1)
      /\ \A i \in 1..Len(code) : code'[i] = code[i]
      /\ code'[Len(code) + 1] = a
  BY <1>1, <1>4, <1>5, ConcatProperties
<1>9. ASSUME NEW i \in DOMAIN code', code'[i].op = "valuecall"
      PROVE  code'[i].arg \in DOMAIN tree' /\ tree'[code'[i].arg].kind = "valuecall"
  <2>1. CASE i \in DOMAIN code
    <3>1. code[i].arg \in DOMAIN tree /\ tree[code[i].arg].kind = "valuecall"
      BY <1>8, <1>9, <2>1 DEF HeightInv, CallsAreStatements
    <3>2. DOMAIN tree \subseteq DOMAIN tree' /\ \A n \in DOMAIN tree : tree'[n] = tree[n]
      BY ONLY <1>1, TreeGrows, 0 \in Nat, FALSE \in BOOLEAN
    <3>3. code'[i] = code[i]
      BY <1>8, <2>1
    <3> QED BY ONLY <3>1, <3>2, <3>3
  <2>2. CASE i = Len(code) + 1
    BY <1>1, <1>3, <1>8, <2>2, TreeGrows
  <2> QED BY <1>8, <2>1, <2>2
<1> QED BY <1>4, <1>7, <1>9 DEF HeightInv, CallsAreStatements

\* The innermost open statement's labels are numbers.
LEMMA TopLabels ==
  ASSUME IInv, open # <<>>
  PROVE  /\ Top \in FrameRecord /\ FrameOK(Top) /\ Top.node \in Nat /\ Top.block \in Nat
         /\ labelCounter \in Nat
         /\ Top.labels.start \in Int /\ Top.labels.end \in Int
         /\ Top.labels.cond \in Int /\ Top.labels.update \in Int
         /\ Top.labels.conds \in Seq(Int)
         /\ \A i \in DOMAIN Top.labels.conds : Top.labels.conds[i] \in Int
<1>1. /\ Top \in FrameRecord /\ FrameOK(Top) /\ Top.node \in Nat /\ Top.block \in Nat
      /\ Top.labels \in LabelRecord /\ labelCounter \in Nat
  BY TopOK
<1> QED BY <1>1 DEF LabelRecord

\* The jump of an if's condition.
LEMMA IfTarget ==
  ASSUME IInv, open # <<>>, Top.kind = "if"
  PROVE  IfJumpTarget(Top) \in Int
<1>1. /\ Top.labels.end \in Int /\ Top.labels.conds \in Seq(Int) /\ Top.block \in Nat
      /\ \A i \in DOMAIN Top.labels.conds : Top.labels.conds[i] \in Int
      /\ FrameOK(Top)
  BY TopLabels
<1>2. Len(Top.labels.conds) \in Nat /\ DOMAIN Top.labels.conds = 1..Len(Top.labels.conds)
  BY <1>1
<1> QED BY <1>1, <1>2 DEF IfJumpTarget

\* A condition's value is taken by the ifeq that follows it.
LEMMA ConditionEven == HeightInv /\ IInv' /\ Condition => HeightInv'
<1> SUFFICES ASSUME HeightInv, IInv', NEW d \in ExprLabels, AtChild("cond"), tree' = tree,
                    Emit(BeforeCondition(Top) \o ExprCode("eval", Top.node, Top.block, d)
                           \o AfterCondition(Top))
             PROVE  HeightInv'
  BY DEF Condition
<1>1. IInv /\ open # <<>> /\ d \in Nat /\ Top.next = "cond"
  BY BoundsAssumption DEF HeightInv, AtChild
<1>2. /\ Top \in FrameRecord /\ FrameOK(Top) /\ Top.node \in Nat /\ Top.block \in Nat
      /\ labelCounter \in Nat
      /\ Top.labels.start \in Int /\ Top.labels.end \in Int /\ Top.labels.cond \in Int
  BY <1>1, TopLabels
<1>3. Top.kind \in {"if", "while", "until", "for"}
  BY <1>1, <1>2 DEF FrameRecord, FrameOK, Loops
<1>4. Even(BeforeCondition(Top))
  BY <1>2, EvenShort, EvenJumps DEF BeforeCondition
<1>5. \E b \in Instruction : \E t : b.op \in Takers /\ Even(t) /\ AfterCondition(Top) = <<b>> \o t
  <2>1. \A l \in Int : IfEq(l) \in Instruction /\ IfEq(l).op \in Takers
    BY DEF IfEq, Instruction, Takers
  <2>2. \A l \in Int : <<IfEq(l)>> = <<IfEq(l)>> \o <<>>
    <3> SUFFICES ASSUME NEW l \in Int PROVE <<IfEq(l)>> = <<IfEq(l)>> \o <<>>
      OBVIOUS
    <3>1. <<IfEq(l)>> \in Seq(Instruction)
      BY <2>1
    <3> QED BY <3>1, ConcatEmptySeq
  <2>3. CASE Top.kind = "if"
    <3>1. IfJumpTarget(Top) \in Int
      BY <1>1, <2>3, IfTarget
    <3>2. AfterCondition(Top) = <<IfEq(IfJumpTarget(Top))>>
      BY <2>3 DEF AfterCondition
    <3> QED BY <2>1, <2>2, <3>1, <3>2, EvenShort
  <2>4. CASE Top.kind = "while"
    <3>1. AfterCondition(Top) = <<IfEq(Top.labels.end)>>
      BY <2>4 DEF AfterCondition
    <3> QED BY <1>2, <2>1, <2>2, <3>1, EvenShort
  <2>5. CASE Top.kind = "until"
    <3>1. AfterCondition(Top) = <<IfEq(Top.labels.start)>>
      BY <2>5 DEF AfterCondition
    <3> QED BY <1>2, <2>1, <2>2, <3>1, EvenShort
  <2>6. CASE Top.kind = "for"
    <3>1. AfterCondition(Top) = <<IfEq(Top.labels.end), Goto(Top.labels.start)>>
      BY <2>6 DEF AfterCondition
    <3>2. IfEq(Top.labels.end) \in Instruction /\ Goto(Top.labels.start) \in Instruction
      BY <1>2 DEF IfEq, Goto, Instruction
    <3>3. AfterCondition(Top) = <<IfEq(Top.labels.end)>> \o <<Goto(Top.labels.start)>>
      BY <3>1, <3>2, PairIsConcat
    <3> QED BY <1>2, <2>1, <3>3, EvenJumps
  <2> QED BY <1>3, <2>3, <2>4, <2>5, <2>6
<1>6. Even(ExprCode("eval", Top.node, Top.block, d) \o AfterCondition(Top))
  <2>a. PICK b \in Instruction : \E t : b.op \in Takers /\ Even(t)
                                         /\ AfterCondition(Top) = <<b>> \o t
    BY <1>5
  <2>1. PICK t : b.op \in Takers /\ Even(t) /\ AfterCondition(Top) = <<b>> \o t
    BY <2>a
  <2>2. "eval" \in Givers
    BY DEF Givers
  <2> QED BY <1>1, <1>2, <2>1, <2>2, EvenExpr
<1>7. Even(BeforeCondition(Top) \o (ExprCode("eval", Top.node, Top.block, d)
                                     \o AfterCondition(Top)))
  BY <1>4, <1>6, EvenTogether
<1>8. BeforeCondition(Top) \o ExprCode("eval", Top.node, Top.block, d) \o AfterCondition(Top)
        = BeforeCondition(Top) \o (ExprCode("eval", Top.node, Top.block, d)
                                    \o AfterCondition(Top))
  <2>1. ExprCode("eval", Top.node, Top.block, d) \in Seq(Instruction)
    BY <1>1, <1>2, ExprPiece DEF Piece
  <2>2. AfterCondition(Top) \in Seq(Instruction)
    <3>a. PICK b \in Instruction : \E t : Even(t) /\ AfterCondition(Top) = <<b>> \o t
      BY <1>5
    <3>1. PICK t : Even(t) /\ AfterCondition(Top) = <<b>> \o t
      BY <3>a
    <3>2. <<b>> \in Seq(Instruction) /\ t \in Seq(Instruction)
      BY <3>1 DEF Even
    <3> QED BY <3>1, <3>2, ConcatProperties
  <2> QED BY <1>4, <2>1, <2>2, ConcatAssociative DEF Even
<1> QED BY <1>7, <1>8, EvenStep

\* An update's value is popped.
LEMMA UpdateEven == HeightInv /\ IInv' /\ ForUpdate => HeightInv'
<1> SUFFICES ASSUME HeightInv, IInv', NEW d \in ExprLabels, AtChild("update"), tree' = tree,
                    Emit(<<Label(Top.labels.update)>>
                           \o ExprCode("update", Top.node, 0, d) \o AfterUpdate(Top))
             PROVE  HeightInv'
  BY DEF ForUpdate
<1>1. IInv /\ open # <<>> /\ d \in Nat /\ Top.next = "update"
  BY BoundsAssumption DEF HeightInv, AtChild
<1>2. /\ Top.node \in Nat /\ labelCounter \in Nat
      /\ Top.labels.update \in Int /\ Top.labels.cond \in Int
  BY <1>1, TopLabels
<1>3. Pop \in Instruction /\ Pop.op \in Takers /\ "update" \in Givers
  BY DEF Pop, Instruction, Takers, Givers
<1>4. Even(<<Label(Top.labels.update)>>) /\ Even(<<Goto(Top.labels.cond)>>)
  BY <1>2, EvenJumps
<1>5. AfterUpdate(Top) = <<Pop>> \o <<Goto(Top.labels.cond)>>
  <2>1. Goto(Top.labels.cond) \in Instruction
    BY <1>2 DEF Goto, Instruction
  <2> QED BY <1>3, <2>1, PairIsConcat DEF AfterUpdate
<1>6. Even(ExprCode("update", Top.node, 0, d) \o AfterUpdate(Top))
  BY <1>1, <1>2, <1>3, <1>4, <1>5, EvenExpr
<1>7. Even(<<Label(Top.labels.update)>> \o (ExprCode("update", Top.node, 0, d)
                                              \o AfterUpdate(Top)))
  BY <1>4, <1>6, EvenTogether
<1>8. <<Label(Top.labels.update)>> \o ExprCode("update", Top.node, 0, d) \o AfterUpdate(Top)
        = <<Label(Top.labels.update)>> \o (ExprCode("update", Top.node, 0, d)
                                             \o AfterUpdate(Top))
  <2>1. ExprCode("update", Top.node, 0, d) \in Seq(Instruction)
    BY <1>1, <1>2, ExprPiece DEF Piece
  <2>2. AfterUpdate(Top) \in Seq(Instruction) /\ <<Label(Top.labels.update)>> \in Seq(Instruction)
    <3>1. <<Pop>> \in Seq(Instruction) /\ <<Goto(Top.labels.cond)>> \in Seq(Instruction)
      BY <1>3, <1>4 DEF Even
    <3> QED BY <1>4, <1>5, <3>1, ConcatProperties DEF Even
  <2> QED BY <2>1, <2>2, ConcatAssociative
<1> QED BY <1>7, <1>8, EvenStep

\* Blocks are between labels and jumps.
LEMMA BlocksEven ==
  ASSUME HeightInv, IInv', EnterBlock \/ ExitLoopBlock \/ ExitIfBlock
  PROVE  HeightInv'
<1>1. IInv /\ open # <<>> /\ tree' = tree
  BY DEF HeightInv, EnterBlock, ExitLoopBlock, ExitIfBlock, AtChild
<1>2. /\ Top \in FrameRecord /\ FrameOK(Top) /\ Top.block \in Nat
      /\ Top.labels.start \in Int /\ Top.labels.end \in Int /\ Top.labels.update \in Int
      /\ Top.labels.conds \in Seq(Int)
      /\ \A i \in DOMAIN Top.labels.conds : Top.labels.conds[i] \in Int
  BY <1>1, TopLabels
<1>3. Len(Top.labels.conds) \in Nat /\ DOMAIN Top.labels.conds = 1..Len(Top.labels.conds)
  BY <1>2
<1>4. CASE EnterBlock
  <2>1. Emit(BlockEntry(Top))
    BY <1>4 DEF EnterBlock
  <2>2. Even(BlockEntry(Top))
    <3>1. CASE Top.kind = "if"
      <4>1. Top.block = 0 => Top.labels.conds[1] \in Int
        BY <1>2, <1>3, <3>1 DEF FrameOK
      <4>2. BlockEntry(Top) = IF Top.block = 0 THEN <<Label(Top.labels.conds[1])>> ELSE <<>>
        BY <3>1 DEF BlockEntry
      <4> QED BY <4>1, <4>2, EvenJumps, EvenShort
    <3>2. CASE Top.kind = "for"
      <4>1. BlockEntry(Top) = <<Label(Top.labels.start)>>
        BY <3>2 DEF BlockEntry
      <4> QED BY <1>2, <4>1, EvenJumps
    <3>3. CASE Top.kind \notin {"if", "for"}
      <4>1. BlockEntry(Top) = <<>>
        BY <3>3 DEF BlockEntry
      <4> QED BY <4>1, EvenShort
    <3> QED BY <3>1, <3>2, <3>3
  <2> QED BY <1>1, <2>1, <2>2, EvenStep
<1>5. CASE ExitLoopBlock
  <2>1. Even(LoopExit(Top))
    <3>1. Top.kind \in {"while", "for", "infinite", "until"}
      BY <1>5 DEF ExitLoopBlock, Loops
    <3>2. CASE Top.kind = "while"
      <4>1. LoopExit(Top) = <<Goto(Top.labels.start), Label(Top.labels.end)>>
        BY <3>2 DEF LoopExit
      <4> QED BY <1>2, <4>1, EvenJumpPair
    <3>3. CASE Top.kind = "for"
      <4>1. LoopExit(Top) = <<Goto(Top.labels.update), Label(Top.labels.end)>>
        BY <3>3 DEF LoopExit
      <4> QED BY <1>2, <4>1, EvenJumpPair
    <3>4. CASE Top.kind = "infinite"
      <4>1. LoopExit(Top) = <<Goto(Top.labels.start)>>
        BY <3>4 DEF LoopExit
      <4> QED BY <1>2, <4>1, EvenJumps
    <3>5. CASE Top.kind = "until"
      <4>1. LoopExit(Top) = <<>>
        BY <3>5 DEF LoopExit
      <4> QED BY <4>1, EvenShort
    <3> QED BY <3>1, <3>2, <3>3, <3>4, <3>5
  <2>2. CASE breakLabels = <<>>
    <3>1. Emit(LoopExit(Top))
      BY <1>5, <2>2 DEF ExitLoopBlock
    <3> QED BY <1>1, <2>1, <3>1, EvenStep
  <2>3. CASE breakLabels # <<>>
    <3>1. PICK l : l = breakLabels[Len(breakLabels)]
      OBVIOUS
    <3>2. Emit(LoopExit(Top) \o <<Label(l)>>)
      BY <1>5, <2>3, <3>1 DEF ExitLoopBlock
    <3>3. l \in Int
      BY <1>1, <2>3, <3>1 DEF IInv, Types
    <3>4. Even(LoopExit(Top) \o <<Label(l)>>)
      BY <2>1, <3>3, EvenJumps, EvenTogether
    <3> QED BY <1>1, <3>2, <3>4, EvenStep
  <2> QED BY <2>2, <2>3
<1>6. CASE ExitIfBlock
  <2>1. Emit(IfBlockExit(Top)) /\ Top.kind = "if"
    BY <1>6 DEF ExitIfBlock
  <2>2. Even(<<Goto(Top.labels.end)>>)
    BY <1>2, EvenJumps
  <2>3. PICK s : s = IF Top.block + 1 < Len(Top.labels.conds)
                     THEN <<Label(Top.labels.conds[Top.block + 2])>> ELSE <<>>
    OBVIOUS
  <2>4. Even(s)
    <3>1. CASE Top.block + 1 < Len(Top.labels.conds)
      <4>1. Top.labels.conds[Top.block + 2] \in Int
        <5>1. PICK cs, b : cs = Top.labels.conds /\ b = Top.block
          OBVIOUS
        <5>2. cs \in Seq(Int)
          BY <1>2, <5>1
        <5>3. b \in Nat /\ b + 1 < Len(cs)
          BY <1>2, <3>1, <5>1
        <5>4. cs[b + 2] \in Int
          BY ONLY <5>2, <5>3
        <5> QED BY ONLY <5>1, <5>4
      <4> QED BY <2>3, <3>1, <4>1, EvenJumps
    <3>2. CASE ~(Top.block + 1 < Len(Top.labels.conds))
      BY <2>3, <3>2, EvenShort
    <3> QED BY <3>1, <3>2
  <2>5. PICK t : t = IF IsLastBlock(Top) THEN <<Label(Top.labels.end)>> ELSE <<>>
    OBVIOUS
  <2>6. Even(t)
    <3>1. CASE IsLastBlock(Top)
      BY <1>2, <2>5, <3>1, EvenJumps
    <3>2. CASE ~IsLastBlock(Top)
      BY <2>5, <3>2, EvenShort
    <3> QED BY <3>1, <3>2
  <2>7. IfBlockExit(Top) = (<<Goto(Top.labels.end)>> \o s) \o t
    BY <2>3, <2>5 DEF IfBlockExit
  <2>8. Even((<<Goto(Top.labels.end)>> \o s) \o t)
    BY <2>2, <2>4, <2>6, EvenTogether
  <2> QED BY <1>1, <2>1, <2>7, <2>8, EvenStep
<1> QED BY <1>4, <1>5, <1>6

\* Every step keeps values matched.
LEMMA HeightStep == HeightInv /\ [Next]_vars => HeightInv'
<1> SUFFICES ASSUME HeightInv, [Next]_vars PROVE HeightInv'
  OBVIOUS
<1>1. IInv /\ IInv'
  BY InductiveStep DEF HeightInv
<1>2. CASE EnterFunction
  <2>1. code' = <<>> /\ tree' = <<>>
    BY <1>2 DEF EnterFunction
  <2> QED BY <1>1, <2>1 DEF HeightInv, Matched, CallsAreStatements
<1>3. CASE ExitFunction \/ ExitProgram \/ ExitBreakThrows \/ UNCHANGED vars
  <2>1. tree' = tree /\ code' = code
    BY <1>3 DEF ExitFunction, ExitProgram, ExitBreakThrows, vars
  <2> QED BY <1>1, <2>1, SameCode
<1> QED BY <1>1, <1>2, <1>3, SimpleEven, ValueCallEven, RevealsEven, ConditionEven,
           UpdateEven, BlocksEven DEF Next

\* Values are matched in every function.
LEMMA HeightsInvariant == Spec => []HeightInv
<1>1. Init => HeightInv
  BY InitIInv DEF Init, HeightInv, Matched, CallsAreStatements
<1> QED BY <1>1, HeightStep, PTL DEF Spec

-----------------------------------------------------------------------------
(* The heights found.                                                      *)

\* A non-empty set of numbers has a least.
LEMMA LeastExists ==
  ASSUME NEW S \in SUBSET Nat, S # {}
  PROVE  \E m \in S : \A s \in S : m <= s
<1> DEFINE R == OpToRel(<, Nat)
<1>1. IsWellFoundedOn(R, Nat)
  BY NatLessThanWellFounded
<1>2. \A i, j \in Nat : i < j => <<i, j>> \in R
  BY DEF OpToRel
<1>3. \E m \in S : \A s \in S : ~(<<s, m>> \in R)
  <2> HIDE DEF R
  <2> QED BY <1>1, WFMin
<1> HIDE DEF R
<1>4. PICK m \in S : \A s \in S : ~(<<s, m>> \in R)
  BY <1>3
<1>5. \A s \in S : ~(s < m)
  BY <1>2, <1>4
<1> QED BY <1>5

\* One round of the search, from what the last one found.
Round(before) ==
  [all |-> before.all \cup Beyond(before.new), new |-> Beyond(before.new) \ before.all]

Origin == [all |-> {<<1, 0>>}, new |-> {<<1, 0>>}]

\* Found is what its definition says.
LEMMA FoundEquation ==
  ASSUME Len(code) \in Nat
  PROVE  Found = [k \in 0..(Len(code) + 2) |-> IF k = 0 THEN Origin ELSE Round(Found[k - 1])]
<1>1. PICK N : N = Len(code) + 2
  OBVIOUS
<1>2. N \in Nat
  BY <1>1
<1> DEFINE Search(f, n) == f = [k \in 0..n |-> IF k = 0 THEN Origin ELSE Round(f[k - 1])]
           S == {n \in 0..N : ~\E f : Search(f, n)}
<1>3. S = {}
  <2> SUFFICES ASSUME S # {} PROVE FALSE
    OBVIOUS
  <2>1. S \in SUBSET Nat
    OBVIOUS
  <2>2. PICK n \in S : \A s \in S : n <= s
    <3> HIDE DEF S
    <3> QED BY <2>1, LeastExists
  <2>3. n \in 0..N /\ ~\E f : Search(f, n)
    OBVIOUS
  <2>4. CASE n = 0
    <3>1. Search([k \in 0..0 |-> Origin], 0)
      OBVIOUS
    <3> QED BY <2>3, <2>4, <3>1
  <2>5. CASE n # 0
    <3>a. n - 1 \in 0..N /\ n - 1 < n /\ n \in Nat
      BY ONLY <1>2, <2>3, <2>5
    <3>b. n - 1 \notin S
      <4> HIDE DEF S
      <4>1. ~(n <= n - 1)
        BY ONLY <3>a
      <4> QED BY ONLY <2>2, <4>1
    <3>1. \E f : Search(f, n - 1)
      <4> HIDE DEF Search
      <4> QED BY ONLY <3>a, <3>b DEF S
    <3>2. PICK f : Search(f, n - 1)
      BY <3>1
    <3>3. PICK g : g = [k \in 0..n |-> IF k = n THEN Round(f[n - 1]) ELSE f[k]]
      OBVIOUS
    <3>4. \A k \in 0..n : g[k] = IF k = 0 THEN Origin ELSE Round(g[k - 1])
      <4> TAKE k \in 0..n
      <4>1. CASE k = n
        <5>1. n - 1 \in 0..n /\ n - 1 # n
          BY <2>3, <2>5
        <5>2. g[n] = Round(f[n - 1]) /\ g[n - 1] = f[n - 1]
          BY <2>3, <3>3, <5>1
        <5> QED BY <2>5, <4>1, <5>2
      <4>2. CASE k # n
        <5>1. k \in 0..(n - 1) /\ (k # 0 => k - 1 \in 0..n /\ k - 1 # n)
          BY <2>3, <4>2
        <5>2. g[k] = f[k] /\ (k # 0 => g[k - 1] = f[k - 1])
          BY <3>3, <4>2, <5>1
        <5>3. f[k] = IF k = 0 THEN Origin ELSE Round(f[k - 1])
          BY <3>2, <5>1
        <5> QED BY <5>2, <5>3
      <4> QED BY <4>1, <4>2
    <3>5. Search(g, n)
      <4>1. g = [k \in 0..n |-> g[k]]
        BY <3>3
      <4> QED BY <3>4, <4>1
    <3> QED BY <2>3, <3>5
  <2> QED BY <2>4, <2>5
<1>4. N \in 0..N
  BY <1>2
<1>5. \E f : Search(f, N)
  BY <1>3, <1>4
<1>6. Search(CHOOSE f : Search(f, N), N)
  BY <1>5
<1>7. Found = CHOOSE f : Search(f, N)
  BY <1>1 DEF Found, Round, Origin
<1> QED BY <1>1, <1>6, <1>7

\* The height before instruction i.
Above(i) == IF i > 1 /\ code[i - 1].op \in Givers THEN 1 ELSE 0

Level == {<<i, Above(i)>> : i \in 1..(Len(code) + 1)}

\* Each step keeps to these heights.
LEMMA BeyondIsLevel ==
  ASSUME HeightInv, ~HasValueCall, NEW pairs, pairs \subseteq Level
  PROVE  Beyond(pairs) \subseteq Level
<1> SUFFICES ASSUME NEW p \in pairs, p[1] <= Len(code), NEW j \in Flow(p[1])
             PROVE  <<j, p[2] + Pushes(code[p[1]].op)>> \in Level
  BY DEF Beyond
<1>1. /\ code \in Seq(Instruction) /\ Len(code) \in Nat /\ DOMAIN code = 1..Len(code)
      /\ Matched(code)
  BY DEF HeightInv, IInv, Types
<1>2. PICK i \in 1..(Len(code) + 1) : p = <<i, Above(i)>>
  BY DEF Level
<1>3. p[1] = i /\ p[2] = Above(i) /\ i \in DOMAIN code
  BY <1>1, <1>2
<1>4. j = i + 1 \/ (j \in DOMAIN code /\ code[j].op = "label")
  BY <1>3 DEF Flow, PlacesOf
<1>5. j \in 1..(Len(code) + 1)
  BY <1>1, <1>3, <1>4
<1>6. code[i].op # "valuecall"
  BY <1>3 DEF HeightInv, CallsAreStatements, HasValueCall
<1>7. j # i + 1 => Above(j) = 0
  <2> SUFFICES ASSUME j \in DOMAIN code, code[j].op = "label", j > 1, code[j - 1].op \in Givers
               PROVE  FALSE
    BY <1>4 DEF Above
  <2>1. j - 1 \in DOMAIN code /\ (j - 1) + 1 = j
    BY <1>1
  <2>2. code[j].op \in Takers
    BY <1>1, <2>1 DEF Matched
  <2> QED BY <2>2 DEF Takers
<1>8. Above(i + 1) = IF code[i].op \in Givers THEN 1 ELSE 0
  <2>1. i + 1 > 1 /\ (i + 1) - 1 = i
    BY <1>1, <1>3
  <2> QED BY <2>1 DEF Above
<1>9. Above(j) = Above(i) + Pushes(code[i].op)
  <2>1. CASE code[i].op \in Givers
    <3>1. code[i].op \notin Takers
      BY <2>1 DEF Givers, Takers
    <3>2. Above(i) = 0
      <4> SUFFICES ASSUME i > 1, code[i - 1].op \in Givers PROVE FALSE
        BY DEF Above
      <4>1. i - 1 \in DOMAIN code /\ (i - 1) + 1 = i
        BY <1>1, <1>3
      <4> QED BY <1>1, <3>1, <4>1 DEF Matched
    <3>3. j = i + 1
      BY <1>3, <2>1 DEF Flow, Givers
    <3>4. Pushes(code[i].op) = 1
      BY <2>1 DEF Pushes, Givers
    <3> QED BY <1>8, <2>1, <3>2, <3>3, <3>4
  <2>2. CASE code[i].op \in Takers
    <3>1. Above(i) = 1
      BY <1>1, <1>3, <2>2 DEF Matched, Above
    <3>2. Above(j) = 0
      BY <1>7, <1>8, <2>2 DEF Givers, Takers
    <3>3. Pushes(code[i].op) = -1
      BY <2>2 DEF Pushes, Takers
    <3> QED BY <3>1, <3>2, <3>3
  <2>3. CASE code[i].op \notin Givers \cup Takers
    <3>1. Above(i) = 0
      <4> SUFFICES ASSUME i > 1, code[i - 1].op \in Givers PROVE FALSE
        BY DEF Above
      <4>1. i - 1 \in DOMAIN code /\ (i - 1) + 1 = i
        BY <1>1, <1>3
      <4> QED BY <1>1, <2>3, <4>1 DEF Matched
    <3>2. Above(j) = 0
      BY <1>7, <1>8, <2>3
    <3>3. Pushes(code[i].op) = 0
      BY <1>6, <2>3 DEF Pushes, Givers, Takers
    <3> QED BY <3>1, <3>2, <3>3
  <2> QED BY <2>1, <2>2, <2>3
<1> QED BY <1>3, <1>5, <1>9 DEF Level

\* Every pair found has the height of its instruction.
LEMMA FoundIsLevel ==
  ASSUME HeightInv, ~HasValueCall
  PROVE  Heights \subseteq Level
<1>1. code \in Seq(Instruction) /\ Len(code) \in Nat
  BY DEF HeightInv, IInv, Types
<1> DEFINE S == {k \in 0..(Len(code) + 2) :
                   ~(Found[k].all \subseteq Level /\ Found[k].new \subseteq Level)}
<1>2. \A k \in 0..(Len(code) + 2) :
        Found[k] = IF k = 0 THEN Origin ELSE Round(Found[k - 1])
  BY <1>1, FoundEquation
<1>3. S = {}
  <2> SUFFICES ASSUME S # {} PROVE FALSE
    OBVIOUS
  <2>1. S \in SUBSET Nat
    OBVIOUS
  <2>2. PICK k \in S : \A s \in S : k <= s
    <3> HIDE DEF S
    <3> QED BY <2>1, LeastExists
  <2>3. /\ k \in 0..(Len(code) + 2)
        /\ ~(Found[k].all \subseteq Level /\ Found[k].new \subseteq Level)
    OBVIOUS
  <2>4. CASE k = 0
    <3>1. Found[k].all = {<<1, 0>>} /\ Found[k].new = {<<1, 0>>}
      BY <1>2, <2>3, <2>4 DEF Origin
    <3>2. <<1, 0>> \in Level
      <4>1. Above(1) = 0 /\ 1 \in 1..(Len(code) + 1)
        BY <1>1 DEF Above
      <4> QED BY <4>1 DEF Level
    <3> QED BY <2>3, <3>1, <3>2
  <2>5. CASE k # 0
    <3>1. k - 1 \in 0..(Len(code) + 2) /\ k - 1 \notin S
      BY <1>1, <2>1, <2>2, <2>3, <2>5
    <3>2. Found[k - 1].all \subseteq Level /\ Found[k - 1].new \subseteq Level
      BY <3>1
    <3>3. Beyond(Found[k - 1].new) \subseteq Level
      BY <3>2, BeyondIsLevel
    <3>4. Found[k] = Round(Found[k - 1])
      BY <1>2, <2>3, <2>5
    <3>5. /\ Found[k].all = Found[k - 1].all \cup Beyond(Found[k - 1].new)
          /\ Found[k].new = Beyond(Found[k - 1].new) \ Found[k - 1].all
      BY <3>4 DEF Round
    <3> QED BY <2>3, <3>2, <3>3, <3>5
  <2> QED BY <2>4, <2>5
<1>4. Len(code) + 2 \in 0..(Len(code) + 2)
  BY <1>1
<1> QED BY <1>3, <1>4 DEF Heights

\* Operand-stack heights agree for every function without a call statement
\* that leaves its value: every path to an instruction brings the same height,
\* never a negative one, and statements start on an empty stack.
THEOREM HeightsAgree == Spec => []StackHeightsAgree
<1>1. ASSUME HeightInv PROVE StackHeightsAgree
  <2> SUFFICES ASSUME ~HasValueCall
               PROVE  /\ OneHeightEach(Heights)
                      /\ \A p \in Heights :
                           (p[1] > Len(code) \/ code[p[1]].op \in {"simple", "return", "label"})
                             => p[2] = 0
    BY DEF StackHeightsAgree
  <2>1. /\ code \in Seq(Instruction) /\ Len(code) \in Nat /\ DOMAIN code = 1..Len(code)
        /\ Matched(code)
    BY <1>1 DEF HeightInv, IInv, Types
  <2>2. Heights \subseteq Level
    BY <1>1, FoundIsLevel
  <2>3. PICK H : H = Heights
    OBVIOUS
  <2>4. \A p \in H : /\ p[1] \in 1..(Len(code) + 1) /\ p[2] = Above(p[1])
                     /\ p = <<p[1], Above(p[1])>>
    BY <2>2, <2>3 DEF Level
  <2>5. Cardinality({p[1] : p \in H}) = Cardinality(H)
    <3>1. PICK I : I = {p[1] : p \in H}
      OBVIOUS
    <3>2. I \subseteq 1..(Len(code) + 1)
      BY <2>4, <3>1
    <3>3. IsFiniteSet(I)
      <4>1. IsFiniteSet(1..(Len(code) + 1))
        BY <2>1, FS_Interval
      <4> QED BY <3>2, <4>1, FS_Subset
    <3>4. PICK f : f = [i \in I |-> <<i, Above(i)>>]
      OBVIOUS
    <3>5. f \in Bijection(I, H)
      <4>1. \A i \in I : f[i] \in H /\ f[i][1] = i
        BY <2>4, <3>1, <3>4
      <4>2. f \in [I -> H]
        BY <3>4, <4>1
      <4>3. \A i, j \in I : f[i] = f[j] => i = j
        BY <4>1
      <4>4. \A p \in H : \E i \in I : f[i] = p
        BY <2>4, <3>1, <3>4
      <4> QED BY <4>2, <4>3, <4>4 DEF Bijection, Injection, Surjection, IsInjective
    <3>6. ExistsBijection(I, H)
      BY <3>5 DEF ExistsBijection
    <3> QED BY <3>1, <3>3, <3>6, FS_Bijection
  <2>6. \A i \in 1..(Len(code) + 1) : Above(i) \in {0, 1}
    BY DEF Above
  <2>7. OneHeightEach(H)
    BY <2>4, <2>5, <2>6 DEF OneHeightEach
  <2>8. ASSUME NEW p \in H, p[1] > Len(code) \/ code[p[1]].op \in {"simple", "return", "label"}
        PROVE  p[2] = 0
    <3> SUFFICES ASSUME p[1] > 1, code[p[1] - 1].op \in Givers PROVE FALSE
      BY <2>4 DEF Above
    <3>1. p[1] - 1 \in DOMAIN code /\ (p[1] - 1) + 1 = p[1] /\ p[1] \in Nat
      BY <2>1, <2>4
    <3>2. p[1] - 1 < Len(code) /\ code[p[1]].op \in Takers
      BY <2>1, <3>1 DEF Matched
    <3> QED BY <2>1, <2>8, <3>1, <3>2 DEF Takers
  <2> QED BY <2>3, <2>7, <2>8
<1> QED BY <1>1, HeightsInvariant, PTL

-----------------------------------------------------------------------------
(* Walks.  F leads from one member of X to the next, and the walk stops    *)
(* when it leaves B.  W[k][x] is where it is k steps after the first.      *)

WalkOn(before, X, B, F) == [x \in X |-> IF F[x] \notin B THEN F[x] ELSE before[F[x]]]

IsWalk(W, X, B, F, N) ==
  W = [k \in 0..N |-> IF k = 0 THEN [x \in X |-> F[x]] ELSE WalkOn(W[k - 1], X, B, F)]

\* What a walk is, one step at a time.
LEMMA WalkSteps ==
  ASSUME NEW W, NEW X, NEW B, NEW F, NEW N, IsWalk(W, X, B, F, N),
         NEW x \in X, NEW k \in 0..N
  PROVE  W[k][x] = IF k = 0 \/ F[x] \notin B THEN F[x] ELSE W[k - 1][F[x]]
<1>1. W[k] = IF k = 0 THEN [y \in X |-> F[y]] ELSE WalkOn(W[k - 1], X, B, F)
  BY DEF IsWalk
<1> QED BY <1>1 DEF WalkOn

\* There are such walks.
LEMMA WalkExists ==
  ASSUME NEW X, NEW B, NEW F, NEW N \in Nat
  PROVE  \E W : IsWalk(W, X, B, F, N)
<1> DEFINE S == {n \in 0..N : ~\E W : IsWalk(W, X, B, F, n)}
<1>1. S = {}
  <2> SUFFICES ASSUME S # {} PROVE FALSE
    OBVIOUS
  <2>1. S \in SUBSET Nat
    OBVIOUS
  <2>2. PICK n \in S : \A s \in S : n <= s
    <3> HIDE DEF S
    <3> QED BY <2>1, LeastExists
  <2>3. n \in 0..N /\ n \in Nat /\ ~\E W : IsWalk(W, X, B, F, n)
    OBVIOUS
  <2>f. PICK first : first = [x \in X |-> F[x]]
    OBVIOUS
  <2>4. CASE n = 0
    <3>1. PICK W : W = [k \in 0..0 |-> first]
      OBVIOUS
    <3>2. W = [k \in 0..0 |-> IF k = 0 THEN first ELSE WalkOn(W[k - 1], X, B, F)]
      BY <3>1
    <3> QED BY ONLY <2>3, <2>f, <2>4, <3>2 DEF IsWalk
  <2>5. CASE n # 0
    <3>a. n - 1 \in 0..N /\ n - 1 < n /\ n - 1 \in Nat
      BY ONLY <2>3, <2>5, N \in Nat
    <3>b. n - 1 \notin S
      <4> HIDE DEF S
      <4>1. ~(n <= n - 1)
        BY ONLY <2>3, <3>a
      <4> QED BY ONLY <2>2, <4>1
    <3>1. \E V : IsWalk(V, X, B, F, n - 1)
      <4> HIDE DEF IsWalk
      <4> QED BY ONLY <3>a, <3>b DEF S
    <3>2. PICK V : IsWalk(V, X, B, F, n - 1)
      BY <3>1
    <3>3. PICK W : W = [k \in 0..n |-> IF k = n THEN WalkOn(V[n - 1], X, B, F) ELSE V[k]]
      OBVIOUS
    <3>4. \A k \in 0..n : W[k] = IF k = 0 THEN first ELSE WalkOn(W[k - 1], X, B, F)
      <4> TAKE k \in 0..n
      <4>1. CASE k = n
        <5>1. n - 1 \in 0..n /\ n - 1 # n /\ n \in 0..n
          BY ONLY <2>3, <2>5
        <5>2. W[n] = WalkOn(V[n - 1], X, B, F) /\ W[n - 1] = V[n - 1]
          BY ONLY <3>3, <5>1
        <5> QED BY ONLY <2>5, <4>1, <5>2
      <4>2. CASE k # n
        <5>1. k \in 0..(n - 1) /\ (k # 0 => k - 1 \in 0..n /\ k - 1 # n)
          BY ONLY <2>3, <4>2, k \in 0..n
        <5>2. W[k] = V[k] /\ (k # 0 => W[k - 1] = V[k - 1])
          BY ONLY <3>3, <4>2, <5>1, k \in 0..n
        <5>3. V[k] = IF k = 0 THEN first ELSE WalkOn(V[k - 1], X, B, F)
          BY ONLY <2>f, <3>2, <5>1 DEF IsWalk
        <5> QED BY ONLY <5>2, <5>3
      <4> QED BY <4>1, <4>2
    <3>5. W = [k \in 0..n |-> W[k]]
      BY <3>3
    <3>6. W = [k \in 0..n |-> IF k = 0 THEN first ELSE WalkOn(W[k - 1], X, B, F)]
      BY ONLY <3>4, <3>5
    <3> QED BY ONLY <2>3, <2>f, <3>6 DEF IsWalk
  <2> QED BY <2>4, <2>5
<1>2. N \in 0..N
  OBVIOUS
<1> HIDE DEF IsWalk
<1> QED BY ONLY <1>1, <1>2

\* A walk that has stopped has stopped.
LEMMA WalkStops ==
  ASSUME NEW W, NEW X, NEW B \in SUBSET X, NEW F, NEW N \in Nat, IsWalk(W, X, B, F, N)
  PROVE  \A k \in 0..N : \A x \in X : \A m \in 0..N :
           (m <= k /\ W[m][x] \notin B) => W[k][x] = W[m][x]
<1> DEFINE Same(k) == \A x \in X : \A m \in 0..N :
                        (m <= k /\ W[m][x] \notin B) => W[k][x] = W[m][x]
           S == {k \in 0..N : ~Same(k)}
<1>1. S = {}
  <2> SUFFICES ASSUME S # {} PROVE FALSE
    OBVIOUS
  <2>1. S \in SUBSET Nat
    OBVIOUS
  <2>2. PICK k \in S : \A s \in S : k <= s
    <3> HIDE DEF S
    <3> QED BY <2>1, LeastExists
  <2>3. k \in 0..N /\ k \in Nat /\ ~Same(k)
    OBVIOUS
  <2>4. PICK x \in X, m \in 0..N : m <= k /\ W[m][x] \notin B /\ W[k][x] # W[m][x]
    BY <2>3
  <2>5. m # k /\ k # 0 /\ m \in Nat
    BY ONLY <2>3, <2>4, m \in 0..N, N \in Nat
  <2>6. W[k][x] = IF F[x] \notin B THEN F[x] ELSE W[k - 1][F[x]]
    BY ONLY <2>3, <2>5, IsWalk(W, X, B, F, N), x \in X, WalkSteps
  <2>7. W[m][x] = IF m = 0 \/ F[x] \notin B THEN F[x] ELSE W[m - 1][F[x]]
    BY ONLY IsWalk(W, X, B, F, N), x \in X, m \in 0..N, WalkSteps
  <2>8. m # 0 /\ F[x] \in B
    BY ONLY <2>4, <2>6, <2>7
  <2>9. k - 1 \in 0..N /\ m - 1 \in 0..N /\ m - 1 <= k - 1 /\ ~(k <= k - 1)
    BY ONLY <2>3, <2>4, <2>5, <2>8, m \in 0..N, N \in Nat
  <2>10. Same(k - 1)
    <3> HIDE DEF Same
    <3>1. k - 1 \notin S
      <4> HIDE DEF S
      <4> QED BY ONLY <2>2, <2>9
    <3> QED BY ONLY <2>9, <3>1 DEF S
  <2> QED BY ONLY <2>4, <2>6, <2>7, <2>8, <2>9, <2>10, B \in SUBSET X
<1> HIDE DEF Same
<1>2. \A k \in 0..N : Same(k)
  BY ONLY <1>1
<1> QED BY <1>2 DEF Same

\* A walk that stops in k steps, and not before, comes to one that stops in
\* any number less.
Rank(W, B, x, k) == W[k][x] \notin B /\ (k = 0 \/ W[k - 1][x] \in B)

LEMMA RanksBelow ==
  ASSUME NEW W, NEW X, NEW B \in SUBSET X, NEW F, NEW N \in Nat, IsWalk(W, X, B, F, N),
         NEW n \in 0..N, NEW y \in B, Rank(W, B, y, n)
  PROVE  \A k \in 0..n : \E x \in B : Rank(W, B, x, n - k)
<1> DEFINE S == {k \in 0..n : ~\E x \in B : Rank(W, B, x, n - k)}
<1>0. n \in Nat
  OBVIOUS
<1>1. S = {}
  <2> SUFFICES ASSUME S # {} PROVE FALSE
    OBVIOUS
  <2>1. S \in SUBSET Nat
    OBVIOUS
  <2>2. PICK k \in S : \A s \in S : k <= s
    <3> HIDE DEF S
    <3> QED BY <2>1, LeastExists
  <2>3. k \in 0..n /\ k \in Nat /\ ~\E x \in B : Rank(W, B, x, n - k)
    OBVIOUS
  <2>4. k # 0
    <3>1. n - 0 = n
      BY <1>0
    <3> QED BY ONLY <2>3, <3>1, y \in B, Rank(W, B, y, n)
  <2>5. PICK r : r = n - k
    OBVIOUS
  <2>6. /\ k - 1 \in 0..n /\ ~(k <= k - 1) /\ n - (k - 1) = r + 1
        /\ r \in 0..N /\ r + 1 \in 0..N /\ r + 1 # 0 /\ (r + 1) - 1 = r
        /\ (r # 0 => r - 1 \in 0..N)
    BY ONLY <1>0, <2>3, <2>4, <2>5, N \in Nat, n \in 0..N
  <2>7. k - 1 \notin S
    <3> HIDE DEF S
    <3> QED BY ONLY <2>2, <2>6
  <2>8. PICK x \in B : Rank(W, B, x, r + 1)
    <3> HIDE DEF Rank
    <3> QED BY ONLY <2>6, <2>7 DEF S
  <2>9. W[r + 1][x] \notin B /\ W[r][x] \in B
    BY ONLY <2>6, <2>8 DEF Rank
  <2>10. W[r + 1][x] = IF F[x] \notin B THEN F[x] ELSE W[r][F[x]]
    <3>1. x \in X
      OBVIOUS
    <3>2. W[r + 1][x] = IF r + 1 = 0 \/ F[x] \notin B THEN F[x] ELSE W[(r + 1) - 1][F[x]]
      BY ONLY <2>6, <3>1, IsWalk(W, X, B, F, N), WalkSteps
    <3> QED BY ONLY <2>6, <3>2
  <2>11. W[r][x] = IF r = 0 \/ F[x] \notin B THEN F[x] ELSE W[r - 1][F[x]]
    <3>1. x \in X
      OBVIOUS
    <3> QED BY ONLY <2>6, <3>1, IsWalk(W, X, B, F, N), WalkSteps
  <2>12. F[x] \in B /\ Rank(W, B, F[x], r)
    BY ONLY <2>9, <2>10, <2>11 DEF Rank
  <2> QED BY ONLY <2>3, <2>5, <2>12
<1> HIDE DEF S
<1>2. \A k \in 0..n : k \notin S
  BY ONLY <1>1
<1> QED BY ONLY <1>2 DEF S

\* A walk that stops at all has stopped after a step for each member of B.
LEMMA WalkStopsSoon ==
  ASSUME NEW W, NEW X, NEW B \in SUBSET X, NEW F, NEW N \in Nat, IsWalk(W, X, B, F, N),
         IsFiniteSet(B), Cardinality(B) <= N, NEW y \in B, W[N][y] \notin B
  PROVE  N # 0 /\ W[N - 1][y] \notin B
<1>1. Cardinality(B) \in Nat /\ Cardinality(B) # 0
  BY FS_CardinalityType, FS_EmptySet
<1>2. N # 0
  BY <1>1
<1> SUFFICES ASSUME W[N - 1][y] \in B PROVE FALSE
  BY <1>2
<1>3. Rank(W, B, y, N) /\ N \in 0..N
  BY DEF Rank
<1>4. \A k \in 0..N : \E x \in B : Rank(W, B, x, k)
  <2>1. \A k \in 0..N : \E x \in B : Rank(W, B, x, N - k)
    BY ONLY <1>3, y \in B, N \in Nat, B \in SUBSET X, IsWalk(W, X, B, F, N), RanksBelow
  <2> TAKE k \in 0..N
  <2>2. N - k \in 0..N /\ N - (N - k) = k
    OBVIOUS
  <2> QED BY ONLY <2>1, <2>2
<1>5. PICK g : g = [k \in 0..N |-> CHOOSE x \in B : Rank(W, B, x, k)]
  OBVIOUS
<1>6. \A k \in 0..N : g[k] \in B /\ Rank(W, B, g[k], k)
  <2> HIDE DEF Rank
  <2> QED BY ONLY <1>4, <1>5
<1>s. \A k \in 0..N : \A x \in X : \A m \in 0..N :
        (m <= k /\ W[m][x] \notin B) => W[k][x] = W[m][x]
  BY ONLY N \in Nat, B \in SUBSET X, IsWalk(W, X, B, F, N), WalkStops
<1>7. \A k, m \in 0..N : m < k => g[k] # g[m]
  <2> SUFFICES ASSUME NEW k \in 0..N, NEW m \in 0..N, m < k, g[k] = g[m] PROVE FALSE
    OBVIOUS
  <2>1. k # 0 /\ k - 1 \in 0..N /\ m <= k - 1
    OBVIOUS
  <2>2. g[m] \in X /\ W[m][g[m]] \notin B /\ W[k - 1][g[m]] \in B
    BY ONLY <1>6, <2>1, g[k] = g[m], k \in 0..N, m \in 0..N, B \in SUBSET X DEF Rank
  <2>3. W[k - 1][g[m]] = W[m][g[m]]
    BY ONLY <1>s, <2>1, <2>2, m \in 0..N
  <2> QED BY ONLY <2>2, <2>3
<1>8. g \in Injection(0..N, B)
  <2>1. g \in [0..N -> B]
    BY ONLY <1>5, <1>6
  <2>2. \A a, b \in 0..N : g[a] = g[b] => a = b
    <3> SUFFICES ASSUME NEW a \in 0..N, NEW b \in 0..N, g[a] = g[b], a # b PROVE FALSE
      OBVIOUS
    <3>1. a < b \/ b < a
      OBVIOUS
    <3> QED BY ONLY <1>7, <3>1, g[a] = g[b], a \in 0..N, b \in 0..N
  <2> QED BY ONLY <2>1, <2>2 DEF Injection, IsInjective
<1>9. Cardinality(0..N) <= Cardinality(B)
  BY ONLY <1>8, IsFiniteSet(B), FS_Injection
<1>10. Cardinality(0..N) = N + 1
  <2>1. 0 \in Int /\ N \in Int /\ ~(0 > N) /\ N - 0 + 1 = N + 1
    OBVIOUS
  <2> QED BY <2>1, FS_Interval
<1> QED BY ONLY <1>1, <1>9, <1>10, Cardinality(B) <= N, N \in Nat

\* So a walk and the walk that begins a step later stop at the same, or neither
\* stops.
LEMMA WalkShift ==
  ASSUME NEW W, NEW X, NEW B \in SUBSET X, NEW F, NEW N \in Nat, IsWalk(W, X, B, F, N),
         IsFiniteSet(B), Cardinality(B) <= N, NEW x \in B
  PROVE  /\ F[x] \notin B => W[N][x] = F[x]
         /\ F[x] \in B => \/ W[N][x] = W[N][F[x]]
                          \/ W[N][x] \in B /\ W[N][F[x]] \in B
<1>0. x \in X /\ N \in 0..N
  OBVIOUS
<1>1. W[N][x] = IF N = 0 \/ F[x] \notin B THEN F[x] ELSE W[N - 1][F[x]]
  BY ONLY <1>0, IsWalk(W, X, B, F, N), WalkSteps
<1>2. ASSUME F[x] \in B
      PROVE  W[N][x] = W[N][F[x]] \/ (W[N][x] \in B /\ W[N][F[x]] \in B)
  <2>1. N # 0
    <3>1. Cardinality(B) \in Nat /\ Cardinality(B) # 0
      BY FS_CardinalityType, FS_EmptySet
    <3> QED BY <3>1
  <2>2. W[N][x] = W[N - 1][F[x]]
    BY <1>1, <1>2, <2>1
  <2>3. N - 1 \in 0..N /\ N - 1 <= N
    BY <2>1
  <2>4. W[N - 1][F[x]] \notin B => W[N][F[x]] = W[N - 1][F[x]]
    <3>1. F[x] \in X
      BY <1>2
    <3>2. \A k \in 0..N : \A z \in X : \A m \in 0..N :
            (m <= k /\ W[m][z] \notin B) => W[k][z] = W[m][z]
      BY ONLY N \in Nat, B \in SUBSET X, IsWalk(W, X, B, F, N), WalkStops
    <3> QED BY ONLY <1>0, <2>3, <3>1, <3>2
  <2>5. W[N][F[x]] \notin B => W[N - 1][F[x]] \notin B
    BY ONLY <1>2, N \in Nat, B \in SUBSET X, IsWalk(W, X, B, F, N), IsFiniteSet(B),
            Cardinality(B) <= N, WalkStopsSoon
  <2> QED BY ONLY <2>2, <2>4, <2>5
<1> QED BY <1>1, <1>2

\* A walk that never leaves a part of B does not stop.
Closed(E, F) == \A x \in E : F[x] \in E

LEMMA WalkTrapped ==
  ASSUME NEW W, NEW X, NEW B \in SUBSET X, NEW F, NEW N \in Nat, IsWalk(W, X, B, F, N),
         NEW E \in SUBSET B, Closed(E, F), NEW y \in E
  PROVE  W[N][y] \in B
<1> DEFINE In(k) == \A x \in E : W[k][x] \in B
           S == {k \in 0..N : ~In(k)}
<1>1. S = {}
  <2> SUFFICES ASSUME S # {} PROVE FALSE
    OBVIOUS
  <2>1. S \in SUBSET Nat
    OBVIOUS
  <2>2. PICK k \in S : \A s \in S : k <= s
    <3> HIDE DEF S
    <3> QED BY <2>1, LeastExists
  <2>3. k \in 0..N /\ k \in Nat /\ ~In(k)
    OBVIOUS
  <2>4. PICK x \in E : W[k][x] \notin B
    BY <2>3
  <2>5. W[k][x] = IF k = 0 \/ F[x] \notin B THEN F[x] ELSE W[k - 1][F[x]]
    BY ONLY <2>3, IsWalk(W, X, B, F, N), x \in E, E \in SUBSET B, B \in SUBSET X, WalkSteps
  <2>6. F[x] \in E /\ F[x] \in B
    BY DEF Closed
  <2>7. k # 0
    BY ONLY <2>4, <2>5, <2>6
  <2>8. k - 1 \in 0..N /\ ~(k <= k - 1)
    BY ONLY <2>3, <2>7, N \in Nat
  <2>9. In(k - 1)
    <3> HIDE DEF In
    <3>1. k - 1 \notin S
      <4> HIDE DEF S
      <4> QED BY ONLY <2>2, <2>8
    <3> QED BY ONLY <2>8, <3>1 DEF S
  <2> QED BY ONLY <2>4, <2>5, <2>6, <2>7, <2>9
<1> HIDE DEF In
<1>2. \A k \in 0..N : In(k)
  BY ONLY <1>1
<1>3. N \in 0..N
  OBVIOUS
<1>4. In(N)
  BY ONLY <1>2, <1>3
<1> QED BY ONLY <1>4, y \in E DEF In

\* A walk that stops leads, step by step, to a last step out of B: what holds
\* of places whose next is out of B, and of those whose next it holds of,
\* holds of it.
Inherited(G, B, F) == \A x \in B : (F[x] \notin B \/ F[x] \in G) => x \in G

LEMMA WalkInduction ==
  ASSUME NEW W, NEW X, NEW B \in SUBSET X, NEW F, NEW N \in Nat, IsWalk(W, X, B, F, N),
         NEW G \in SUBSET B, Inherited(G, B, F),
         NEW y \in B, W[N][y] \notin B
  PROVE  y \in G
<1> DEFINE In(k) == \A x \in B : W[k][x] \notin B => x \in G
           S == {k \in 0..N : ~In(k)}
<1>1. S = {}
  <2> SUFFICES ASSUME S # {} PROVE FALSE
    OBVIOUS
  <2>1. S \in SUBSET Nat
    OBVIOUS
  <2>2. PICK k \in S : \A s \in S : k <= s
    <3> HIDE DEF S
    <3> QED BY <2>1, LeastExists
  <2>3. k \in 0..N /\ k \in Nat /\ ~In(k)
    OBVIOUS
  <2>4. PICK x \in B : W[k][x] \notin B /\ x \notin G
    BY <2>3
  <2>5. W[k][x] = IF k = 0 \/ F[x] \notin B THEN F[x] ELSE W[k - 1][F[x]]
    BY ONLY <2>3, IsWalk(W, X, B, F, N), x \in B, B \in SUBSET X, WalkSteps
  <2>6. F[x] \in B /\ F[x] \notin G
    BY <2>4 DEF Inherited
  <2>7. k # 0
    BY ONLY <2>4, <2>5, <2>6
  <2>8. k - 1 \in 0..N /\ ~(k <= k - 1)
    BY ONLY <2>3, <2>7, N \in Nat
  <2>9. In(k - 1)
    <3> HIDE DEF In
    <3>1. k - 1 \notin S
      <4> HIDE DEF S
      <4> QED BY ONLY <2>2, <2>8
    <3> QED BY ONLY <2>8, <3>1 DEF S
  <2> QED BY ONLY <2>4, <2>5, <2>6, <2>7, <2>9
<1> HIDE DEF In
<1>2. N \in 0..N
  OBVIOUS
<1>3. In(N)
  BY ONLY <1>1, <1>2
<1> QED BY <1>3 DEF In

-----------------------------------------------------------------------------
(* The two walks of FlowSemantics.                                         *)

SourceMap == [place \in SourcePlaces |-> Onward(place)]
CodeMap   == [i \in DOMAIN code |-> Fall(i)]
Betweens  == {i \in DOMAIN code : Between(i)}

\* The places of a function are finitely many.
LEMMA PlacesFinite ==
  ASSUME Len(tree) \in Nat
  PROVE  IsFiniteSet(SourcePlaces) /\ Cardinality(SourcePlaces) \in Nat
<1>1. IsFiniteSet({"start", "block", "end", "after"})
  <2>1. IsFiniteSet({"start"} \cup {"block"})
    BY FS_Singleton, FS_Union
  <2>2. IsFiniteSet({"end"} \cup {"after"})
    BY FS_Singleton, FS_Union
  <2>3. IsFiniteSet(({"start"} \cup {"block"}) \cup ({"end"} \cup {"after"}))
    BY <2>1, <2>2, FS_Union
  <2>4. {"start", "block", "end", "after"}
          = ({"start"} \cup {"block"}) \cup ({"end"} \cup {"after"})
    OBVIOUS
  <2> QED BY <2>3, <2>4
<1>2. IsFiniteSet(0..Len(tree)) /\ IsFiniteSet(0..(MaxElseIfs + 1))
  BY FS_Interval, BoundsAssumption
<1>a. PICK A : A = {"start", "block", "end", "after"}
  OBVIOUS
<1>b. PICK B : B = 0..Len(tree)
  OBVIOUS
<1>c. PICK C : C = 0..(MaxElseIfs + 1)
  OBVIOUS
<1>3. IsFiniteSet(A) /\ IsFiniteSet(B) /\ IsFiniteSet(C)
  BY <1>1, <1>2, <1>a, <1>b, <1>c
<1>4. SourcePlaces = A \X B \X C
  BY <1>a, <1>b, <1>c DEF SourcePlaces
<1>5. IsFiniteSet((A \X B) \X C)
  BY ONLY <1>3, FS_Product
<1>6. PICK T : T = {<<w[1][1], w[1][2], w[2]>> : w \in (A \X B) \X C}
  OBVIOUS
<1>7. IsFiniteSet(T)
  <2>1. PICK f : f = [w \in (A \X B) \X C |-> <<w[1][1], w[1][2], w[2]>>]
    OBVIOUS
  <2>2. f \in [(A \X B) \X C -> T]
    BY ONLY <1>6, <2>1
  <2>3. \A t \in T : \E w \in (A \X B) \X C : f[w] = t
    BY ONLY <1>6, <2>1
  <2>4. f \in Surjection((A \X B) \X C, T)
    BY ONLY <2>2, <2>3 DEF Surjection
  <2> QED BY ONLY <1>5, <2>4, FS_Surjection
<1>8. A \X B \X C \subseteq T
  <2> SUFFICES ASSUME NEW a \in A, NEW b \in B, NEW c \in C PROVE <<a, b, c>> \in T
    OBVIOUS
  <2>1. PICK w : w = <<<<a, b>>, c>>
    OBVIOUS
  <2>2. w \in (A \X B) \X C /\ w[1][1] = a /\ w[1][2] = b /\ w[2] = c
    BY <2>1
  <2> QED BY <1>6, <2>2
<1> QED BY <1>4, <1>7, <1>8, FS_Subset, FS_CardinalityType

\* Where control goes in the source is a walk.
LEMMA SourceIsWalk ==
  ASSUME Len(tree) \in Nat
  PROVE  IsWalk(SourceWithin, SourcePlaces, SourcePlaces, SourceMap, Cardinality(SourcePlaces))
<1>1. PICK X : X = SourcePlaces
  OBVIOUS
<1>2. PICK N : N = Cardinality(SourcePlaces)
  OBVIOUS
<1>f. PICK f : f = SourceMap
  OBVIOUS
<1>3. N \in Nat
  BY <1>2, PlacesFinite
<1> DEFINE Round3(V, k) == [place \in X |->
             LET p == Onward(place) IN IF k = 0 \/ p \notin X THEN p ELSE V[k - 1][p]]
           Solves(V) == V = [k \in 0..N |-> Round3(V, k)]
<1>4. \A x \in X : f[x] = Onward(x)
  BY <1>1, <1>f DEF SourceMap
<1>5. ASSUME NEW V PROVE IsWalk(V, X, X, f, N) <=> Solves(V)
  <2>1. ASSUME NEW k \in 0..N
        PROVE  (IF k = 0 THEN [x \in X |-> f[x]] ELSE WalkOn(V[k - 1], X, X, f)) = Round3(V, k)
    <3>1. CASE k = 0
      BY ONLY <1>4, <3>1
    <3>2. CASE k # 0
      BY ONLY <1>4, <3>2 DEF WalkOn
    <3> QED BY ONLY <3>1, <3>2
  <2>2. [k \in 0..N |-> IF k = 0 THEN [x \in X |-> f[x]] ELSE WalkOn(V[k - 1], X, X, f)]
          = [k \in 0..N |-> Round3(V, k)]
    <3> HIDE DEF Round3
    <3> QED BY ONLY <2>1
  <2> QED BY ONLY <2>2 DEF IsWalk
<1>6. \E V : Solves(V)
  <2>1. \E V : IsWalk(V, X, X, f, N)
    BY ONLY <1>3, WalkExists
  <2> HIDE DEF Solves
  <2> QED BY ONLY <1>5, <2>1
<1>7. SourceWithin = CHOOSE V : Solves(V)
  BY ONLY <1>1, <1>2 DEF SourceWithin
<1>8. Solves(SourceWithin)
  <2> HIDE DEF Solves
  <2> QED BY ONLY <1>6, <1>7
<1>9. IsWalk(SourceWithin, X, X, f, N)
  <2> HIDE DEF Solves
  <2> QED BY ONLY <1>5, <1>8
<1> QED BY ONLY <1>1, <1>2, <1>f, <1>9

\* Where the machine goes is one.
LEMMA CodeIsWalk ==
  ASSUME Len(code) \in Nat
  PROVE  IsWalk(CodeWithin, DOMAIN code, Betweens, CodeMap, Len(code))
<1>1. PICK X : X = DOMAIN code
  OBVIOUS
<1>2. PICK N : N = Len(code)
  OBVIOUS
<1>f. PICK f : f = CodeMap
  OBVIOUS
<1>b. PICK B : B = Betweens
  OBVIOUS
<1>3. N \in Nat
  BY <1>2
<1> DEFINE Round3(V, k) == [i \in X |->
             LET j == Fall(i) IN IF k = 0 \/ ~Between(j) THEN j ELSE V[k - 1][j]]
           Solves(V) == V = [k \in 0..N |-> Round3(V, k)]
<1>4. \A x \in X : f[x] = Fall(x)
  BY <1>1, <1>f DEF CodeMap
<1>c. \A j : j \in B <=> Between(j)
  BY <1>b DEF Betweens, Between
<1>5. ASSUME NEW V PROVE IsWalk(V, X, B, f, N) <=> Solves(V)
  <2>1. ASSUME NEW k \in 0..N
        PROVE  (IF k = 0 THEN [x \in X |-> f[x]] ELSE WalkOn(V[k - 1], X, B, f)) = Round3(V, k)
    <3>1. CASE k = 0
      BY ONLY <1>4, <3>1
    <3>2. CASE k # 0
      BY ONLY <1>4, <1>c, <3>2 DEF WalkOn
    <3> QED BY ONLY <3>1, <3>2
  <2>2. [k \in 0..N |-> IF k = 0 THEN [x \in X |-> f[x]] ELSE WalkOn(V[k - 1], X, B, f)]
          = [k \in 0..N |-> Round3(V, k)]
    <3> HIDE DEF Round3
    <3> QED BY ONLY <2>1
  <2> QED BY ONLY <2>2 DEF IsWalk
<1>6. \E V : Solves(V)
  <2>1. \E V : IsWalk(V, X, B, f, N)
    BY ONLY <1>3, WalkExists
  <2> HIDE DEF Solves
  <2> QED BY ONLY <1>5, <2>1
<1>7. CodeWithin = CHOOSE V : Solves(V)
  BY ONLY <1>1, <1>2 DEF CodeWithin
<1>8. Solves(CodeWithin)
  <2> HIDE DEF Solves
  <2> QED BY ONLY <1>6, <1>7
<1>9. IsWalk(CodeWithin, X, B, f, N)
  <2> HIDE DEF Solves
  <2> QED BY ONLY <1>5, <1>8
<1> QED BY ONLY <1>1, <1>2, <1>f, <1>b, <1>9

\* A step further, the source comes to the same point.
LEMMA SourceOnward ==
  ASSUME Len(tree) \in Nat, NEW p \in SourcePlaces
  PROVE  SourcePoint(p) = IF Onward(p) \in SourcePlaces THEN SourcePoint(Onward(p)) ELSE Onward(p)
<1>1. PICK X : X = SourcePlaces
  OBVIOUS
<1>2. PICK N : N = Cardinality(SourcePlaces)
  OBVIOUS
<1>f. PICK f : f = SourceMap
  OBVIOUS
<1>w. PICK W : W = SourceWithin
  OBVIOUS
<1>3. N \in Nat /\ IsFiniteSet(X) /\ Cardinality(X) <= N /\ p \in X
  BY <1>1, <1>2, PlacesFinite
<1>4. IsWalk(W, X, X, f, N)
  BY <1>1, <1>2, <1>f, <1>w, SourceIsWalk
<1>5. /\ f[p] \notin X => W[N][p] = f[p]
      /\ f[p] \in X => W[N][p] = W[N][f[p]] \/ (W[N][p] \in X /\ W[N][f[p]] \in X)
  BY ONLY <1>3, <1>4, WalkShift
<1>6. f[p] = Onward(p)
  BY <1>f DEF SourceMap
<1>7. \A q : SourcePoint(q) = IF W[N][q] \in X THEN Diverge ELSE W[N][q]
  BY <1>1, <1>2, <1>w DEF SourcePoint
<1> QED BY ONLY <1>1, <1>5, <1>6, <1>7

\* The first point the machine comes to.
Arrive(j) ==
  CASE j = 0             -> Lost
    [] j = Len(code) + 1 -> Finish
    [] Between(j)        -> Diverge
    [] j \in DOMAIN code /\ ~Between(j) -> Point(code[j].op, code[j].arg, code[j].sub)

LEMMA CodeArrives ==
  ASSUME code \in Seq(Instruction)
  PROVE  /\ \A i : Between(i) => CodePoint(i) = Arrive(CodeWithin[Len(code)][i])
         /\ \A i : ~Between(i) => CodePoint(i) = Arrive(i)
         /\ \A i : Between(i) => Arrive(i) = Diverge
<1>1. /\ \A i : Between(i) => CodePoint(i) = Arrive(CodeWithin[Len(code)][i])
      /\ \A i : ~Between(i) => CodePoint(i) = Arrive(i)
  BY DEF CodePoint, Arrive
<1>2. ASSUME NEW i, Between(i) PROVE Arrive(i) = Diverge
  <2>1. i # 0 /\ i # Len(code) + 1
    BY <1>2 DEF Between
  <2> QED BY ONLY <1>2, <2>1 DEF Arrive
<1> QED BY ONLY <1>1, <1>2

\* A step further, the machine comes to the same.
LEMMA CodeOnward ==
  ASSUME code \in Seq(Instruction), NEW i, Between(i)
  PROVE  CodePoint(i) = CodePoint(Fall(i))
<1>1. PICK X : X = DOMAIN code
  OBVIOUS
<1>2. PICK N : N = Len(code)
  OBVIOUS
<1>f. PICK f : f = CodeMap
  OBVIOUS
<1>w. PICK W : W = CodeWithin
  OBVIOUS
<1>b. PICK B : B = Betweens
  OBVIOUS
<1>3. /\ N \in Nat /\ X = 1..N /\ B \in SUBSET X /\ i \in B /\ i \in X
  BY <1>1, <1>2, <1>b DEF Betweens, Between
<1>4. IsFiniteSet(B) /\ Cardinality(B) <= N
  <2>1. IsFiniteSet(X) /\ Cardinality(X) = N
    <3>1. 1 \in Int /\ N \in Int /\ (IF 1 > N THEN 0 ELSE N - 1 + 1) = N
      BY <1>3
    <3> QED BY <1>3, <3>1, FS_Interval
  <2> QED BY <1>3, <2>1, FS_Subset
<1>5. IsWalk(W, X, B, f, N)
  BY <1>1, <1>2, <1>3, <1>f, <1>w, <1>b, CodeIsWalk
<1>6. /\ f[i] \notin B => W[N][i] = f[i]
      /\ f[i] \in B => W[N][i] = W[N][f[i]] \/ (W[N][i] \in B /\ W[N][f[i]] \in B)
  BY ONLY <1>3, <1>4, <1>5, WalkShift
<1>7. f[i] = Fall(i)
  BY <1>1, <1>3, <1>f DEF CodeMap
<1>8. \A j : j \in B <=> Between(j)
  BY <1>b DEF Betweens, Between
<1>9. /\ \A j : Between(j) => CodePoint(j) = Arrive(W[N][j])
      /\ \A j : ~Between(j) => CodePoint(j) = Arrive(j)
      /\ \A j : Between(j) => Arrive(j) = Diverge
  BY ONLY code \in Seq(Instruction), <1>2, <1>w, CodeArrives
<1> QED BY ONLY <1>6, <1>7, <1>8, <1>9, Between(i)

\* Code that leads to itself comes to no point.
LEMMA CodeTrapped ==
  ASSUME code \in Seq(Instruction), NEW E, \A i \in E : Between(i) /\ Fall(i) \in E
  PROVE  \A i \in E : CodePoint(i) = Diverge
<1>1. PICK X : X = DOMAIN code
  OBVIOUS
<1>2. PICK N : N = Len(code)
  OBVIOUS
<1>f. PICK f : f = CodeMap
  OBVIOUS
<1>w. PICK W : W = CodeWithin
  OBVIOUS
<1>b. PICK B : B = Betweens
  OBVIOUS
<1>3. N \in Nat /\ B \in SUBSET X
  BY <1>1, <1>2, <1>b DEF Betweens
<1>4. IsWalk(W, X, B, f, N)
  BY <1>1, <1>2, <1>3, <1>f, <1>w, <1>b, CodeIsWalk
<1>5. \A j : j \in B <=> Between(j)
  BY <1>b DEF Betweens, Between
<1>6. E \subseteq B /\ \A i \in E : f[i] \in E
  <2>1. \A i \in E : i \in X /\ f[i] = Fall(i)
    BY <1>1, <1>f DEF CodeMap, Between
  <2> QED BY ONLY <1>5, <2>1, \A i \in E : Between(i) /\ Fall(i) \in E
<1>7. \A i \in E : W[N][i] \in B
  <2>1. PICK e : e = E
    OBVIOUS
  <2>2. e \in SUBSET B
    BY ONLY <1>6, <2>1
  <2>3. Closed(e, f)
    BY ONLY <1>6, <2>1 DEF Closed
  <2>4. N \in Nat
    BY ONLY <1>3
  <2>5. B \in SUBSET X
    BY ONLY <1>3
  <2>6. \A x \in e : W[N][x] \in B
    BY ONLY <1>4, <2>2, <2>3, <2>4, <2>5, WalkTrapped
  <2> QED BY ONLY <2>1, <2>6
<1>8. /\ \A j : Between(j) => CodePoint(j) = Arrive(W[N][j])
      /\ \A j : Between(j) => Arrive(j) = Diverge
  BY ONLY code \in Seq(Instruction), <1>2, <1>w, CodeArrives
<1> QED BY ONLY <1>5, <1>6, <1>7, <1>8

\* At a point, the machine is there; after the code, it has finished.
LEMMA CodeAtPoint ==
  ASSUME code \in Seq(Instruction)
  PROVE  /\ CodePoint(Len(code) + 1) = Finish
         /\ \A i \in DOMAIN code : code[i].op \in PointOps =>
              CodePoint(i) = Point(code[i].op, code[i].arg, code[i].sub)
<1>1. Len(code) \in Nat /\ DOMAIN code = 1..Len(code)
  OBVIOUS
<1>2. ~Between(Len(code) + 1) /\ Len(code) + 1 # 0
  BY ONLY <1>1 DEF Between
<1>3. Arrive(Len(code) + 1) = Finish
  BY ONLY <1>2 DEF Arrive
<1>4. ASSUME NEW i \in DOMAIN code, code[i].op \in PointOps
      PROVE  ~Between(i) /\ Arrive(i) = Point(code[i].op, code[i].arg, code[i].sub)
  <2>1. i # 0 /\ i # Len(code) + 1 /\ ~Between(i)
    BY ONLY <1>1, <1>4, i \in DOMAIN code DEF Between
  <2> QED BY ONLY <2>1, i \in DOMAIN code DEF Arrive
<1> QED BY ONLY <1>2, <1>3, <1>4, code \in Seq(Instruction), CodeArrives

-----------------------------------------------------------------------------
(* Where the code of each part of a function is.  A part is named by what  *)
(* the walk does when it emits the code: it enters a statement, leaves a   *)
(* condition or an update, or enters or leaves a block.                    *)

Parts == {"enter", "cond", "update", "in", "out"} \X Nat \X Nat

\* The function has such a part.
IsPart(k) ==
  \/ k = <<"in", 0, 0>>
  \/ /\ k[2] \in DOMAIN tree
     /\ \/ k[1] = "enter" /\ k[3] = 0
        \/ k[1] = "cond" /\ tree[k[2]].kind = "if" /\ k[3] <= tree[k[2]].elseIfs
        \/ k[1] = "cond" /\ tree[k[2]].kind \in {"while", "until", "for"} /\ k[3] = 0
        \/ k[1] = "update" /\ tree[k[2]].kind = "for" /\ k[3] = 0
        \/ k[1] \in {"in", "out"} /\ tree[k[2]].kind = "if" /\ k[3] < Branches(tree[k[2]])
        \/ k[1] \in {"in", "out"} /\ tree[k[2]].kind \in Loops /\ k[3] = 0

\* The parts of one statement, in the order the walk comes to them.
Stage(k) ==
  CASE k[1] = "enter"  -> 0
    [] k[1] = "cond"   -> IF tree[k[2]].kind = "until" THEN 5 ELSE 4 * k[3] + 1
    [] k[1] = "update" -> 2
    [] k[1] = "in"     -> 4 * k[3] + 3
    [] k[1] = "out"    -> 4 * k[3] + 4

\* The part an open statement comes to next, its own blocks aside.
Ahead(frame) ==
  <<CASE frame.next = "cond" -> "cond" [] frame.next = "update" -> "update"
      [] frame.next = "block" -> "in" [] frame.next = "body" -> "out",
    frame.node, frame.block>>

Emitted(k) ==
  /\ k \in Parts /\ IsPart(k)
  /\ \A j \in DOMAIN open : open[j].node = k[2] => Stage(k) < Stage(Ahead(open[j]))

\* What is emitted next, unless it is one more statement.
Coming == IF open = <<>> THEN <<"out", 0, 0>> ELSE Ahead(Top)

\* In block b of n, the statements after m; and the part after m, or at the
\* block's start.
Later(n, b, m) == {c \in Children(n, b) : c > m}

NextPart(n, b, m) ==
  IF Later(n, b, m) = {} THEN <<"out", n, b>> ELSE <<"enter", Least(Later(n, b, m)), 0>>

Behind(n) == NextPart(tree[n].parent, tree[n].block, n)

\* The part whose code follows that of k.
Following(k) ==
  LET n == k[2]
      b == k[3]
  IN
  CASE k[1] = "enter" ->
         (CASE tree[n].kind \in Leaves                -> Behind(n)
            [] tree[n].kind \in {"if", "while", "for"} -> <<"cond", n, 0>>
            [] tree[n].kind \in {"until", "infinite"}  -> <<"in", n, 0>>)
    [] k[1] = "cond" ->
         (CASE tree[n].kind \in {"if", "while"} -> <<"in", n, b>>
            [] tree[n].kind = "for"             -> <<"update", n, 0>>
            [] tree[n].kind = "until"           -> Behind(n))
    [] k[1] = "update" -> <<"in", n, 0>>
    [] k[1] = "in"     -> NextPart(n, b, 0)
    [] k[1] = "out" ->
         (CASE tree[n].kind \in {"while", "infinite", "for"} -> Behind(n)
            [] tree[n].kind = "until" -> <<"cond", n, 0>>
            [] tree[n].kind = "if" ->
                 IF b = Branches(tree[n]) - 1 THEN Behind(n)
                 ELSE IF b + 1 <= tree[n].elseIfs THEN <<"cond", n, b + 1>>
                 ELSE <<"in", n, b + 1>>)

\* The code of each part is between two positions, lo and hi; lab are the
\* label records of statements, and brk the labels of breaks of loops.
LabelsIn(l, h) == \A i \in l..(h - 1) : code[i].op = "label"

EnterCode(n, l, h, lab, brk) ==
  /\ tree[n].kind \in {"simple", "valuecall", "return"} =>
       l < h /\ LabelsIn(l, h - 1) /\ code[h - 1] = Instr(tree[n].kind, n, 0)
  /\ tree[n].kind = "break" => h = l + 1 /\ code[l] = Goto(brk[InnermostLoop[n]])
  /\ tree[n].kind = "if"    => h = l
  /\ tree[n].kind \in {"while", "until", "infinite"} =>
       h = l + 1 /\ code[l] = Label(lab[n].start)
  /\ tree[n].kind = "for"   => h = l + 1 /\ code[l] = Instr("simple", n, 0)

CondCode(n, b, l, h, lab) ==
  /\ tree[n].kind \in {"if", "while", "until"} =>
       l + 1 < h /\ LabelsIn(l, h - 2) /\ code[h - 2] = Instr("eval", n, b)
  /\ tree[n].kind = "if" =>
       code[h - 1] = IfEq(IF b + 1 < Branches(tree[n]) THEN lab[n].conds[b + 2] ELSE lab[n].end)
  /\ tree[n].kind = "while" => code[h - 1] = IfEq(lab[n].end)
  /\ tree[n].kind = "until" => code[h - 1] = IfEq(lab[n].start)
  /\ tree[n].kind = "for" =>
       /\ l + 3 < h /\ LabelsIn(l, h - 3) /\ code[l] = Label(lab[n].cond)
       /\ code[h - 3] = Instr("eval", n, b)
       /\ code[h - 2] = IfEq(lab[n].end) /\ code[h - 1] = Goto(lab[n].start)

UpdateCode(n, l, h, lab) ==
  /\ l + 3 < h /\ LabelsIn(l, h - 3) /\ code[l] = Label(lab[n].update)
  /\ code[h - 3] = Instr("update", n, 0)
  /\ code[h - 2] = Pop /\ code[h - 1] = Goto(lab[n].cond)

InCode(n, b, l, h, lab) ==
  /\ n = 0 => l = 1 /\ h = 1
  /\ n # 0 /\ tree[n].kind = "if" /\ b = 0 => h = l + 1 /\ code[l] = Label(lab[n].conds[1])
  /\ n # 0 /\ tree[n].kind = "for"         => h = l + 1 /\ code[l] = Label(lab[n].start)
  /\ n # 0 /\ tree[n].kind # "for" /\ ~(tree[n].kind = "if" /\ b = 0) => h = l

OutCode(n, b, l, h, lab, brk) ==
  /\ tree[n].kind = "while" => h = l + 3 /\ code[l] = Goto(lab[n].start)
                                         /\ code[l + 1] = Label(lab[n].end)
  /\ tree[n].kind = "for"   => h = l + 3 /\ code[l] = Goto(lab[n].update)
                                         /\ code[l + 1] = Label(lab[n].end)
  /\ tree[n].kind = "infinite" => h = l + 2 /\ code[l] = Goto(lab[n].start)
  /\ tree[n].kind = "until" => h = l + 1
  /\ tree[n].kind \in Loops => code[h - 1] = Label(brk[n])
  /\ tree[n].kind = "if" =>
       /\ h = l + 2 /\ code[l] = Goto(lab[n].end)
       /\ code[l + 1] = Label(IF b + 1 < Branches(tree[n]) THEN lab[n].conds[b + 2]
                                                           ELSE lab[n].end)

HasCode(k, l, h, lab, brk) ==
  /\ k[1] = "enter"  => EnterCode(k[2], l, h, lab, brk)
  /\ k[1] = "cond"   => CondCode(k[2], k[3], l, h, lab)
  /\ k[1] = "update" => UpdateCode(k[2], l, h, lab)
  /\ k[1] = "in"     => InCode(k[2], k[3], l, h, lab)
  /\ k[1] = "out"    => OutCode(k[2], k[3], l, h, lab, brk)

\* The code is that of the parts emitted, one after the other.
Laid(lo, hi, lab, brk) ==
  /\ \A k \in Parts : Emitted(k) =>
       /\ lo[k] \in 1..hi[k] /\ hi[k] <= Len(code) + 1
       /\ HasCode(k, lo[k], hi[k], lab, brk)
       /\ \/ Emitted(Following(k)) /\ hi[k] = lo[Following(k)]
          \/ Following(k) = Coming /\ hi[k] = Len(code) + 1
  /\ \A i \in DOMAIN code : \E k \in Parts : Emitted(k) /\ lo[k] <= i /\ i < hi[k]

\* The labels open statements have kept; loops are those with a break label.
Kept(lab, brk, loops) ==
  /\ \A j \in DOMAIN open : lab[open[j].node] = open[j].labels
  /\ Len(loops) = Len(breakLabels)
  /\ \A k \in DOMAIN loops :
       loops[k] \in OpenLoops /\ brk[open[loops[k]].node] = breakLabels[k]
  /\ \A k, l \in DOMAIN loops : k < l => loops[k] < loops[l]
  /\ \A j \in OpenLoops : \E k \in DOMAIN loops : loops[k] = j

\* The open statements are a path of the tree, and the tree is inside it.
PathOK ==
  /\ \A i, j \in DOMAIN open : i < j => open[i].node < open[j].node /\ open[i].next = "body"
  /\ \A j \in DOMAIN open, c \in DOMAIN tree :
       c > open[j].node => tree[c].parent >= open[j].node
  /\ \A j \in DOMAIN open :
       /\ tree[open[j].node].parent = (IF j = 1 THEN 0 ELSE open[j - 1].node)
       /\ tree[open[j].node].block = (IF j = 1 THEN 0 ELSE open[j - 1].block)
       /\ (open[j].kind = "if" /\ open[j].next = "cond") =>
            open[j].block <= tree[open[j].node].elseIfs

\* Each statement is in a block that has been entered; a break is in a loop.
NodesOK ==
  \A n \in DOMAIN tree :
    /\ tree[n].elseIfs <= MaxElseIfs
    /\ Emitted(<<"in", tree[n].parent, tree[n].block>>)
    /\ tree[n].kind = "break" =>
         InnermostLoop[n] \in DOMAIN tree /\ tree[InnermostLoop[n]].kind \in Loops

\* What IInv says of the shape of the tree and the open statements.
Shape ==
  /\ tree \in Seq(NodeRecord) /\ Len(tree) \in Nat /\ DOMAIN tree = 1..Len(tree)
  /\ \A n \in DOMAIN tree :
       /\ tree[n].kind \in Kinds /\ tree[n].parent \in Nat /\ tree[n].block \in Nat
       /\ tree[n].elseIfs \in Nat /\ tree[n].hasElse \in BOOLEAN /\ tree[n].parent < n
  /\ open \in Seq(FrameRecord) /\ Len(open) \in Nat /\ DOMAIN open = 1..Len(open)
  /\ \A j \in DOMAIN open :
       /\ open[j].node \in DOMAIN tree /\ tree[open[j].node].kind = open[j].kind
       /\ open[j].block \in Nat /\ open[j].kind \in Loops \cup {"if"}
       /\ open[j].labels \in LabelRecord /\ FrameOK(open[j])
       /\ open[j].next \in {"cond", "update", "block", "body"}
  /\ code \in Seq(Instruction) /\ Len(code) \in Nat /\ DOMAIN code = 1..Len(code)
  /\ labelCounter \in Nat

LEMMA ShapeHolds == IInv => Shape
<1> SUFFICES ASSUME IInv PROVE Shape
  OBVIOUS
<1>1. tree \in Seq(NodeRecord) /\ Len(tree) \in Nat /\ DOMAIN tree = 1..Len(tree)
  BY DEF IInv, Types
<1>2. \A n \in DOMAIN tree : tree[n] \in NodeRecord /\ tree[n].parent < n
  BY <1>1 DEF IInv, TreeOK
<1>3. open \in Seq(FrameRecord) /\ Len(open) \in Nat /\ DOMAIN open = 1..Len(open)
  BY DEF IInv, Types
<1>4. \A j \in DOMAIN open : open[j] \in FrameRecord /\ FrameOK(open[j])
  BY <1>3 DEF IInv, TreeOK
<1>5. /\ code \in Seq(Instruction) /\ Len(code) \in Nat /\ DOMAIN code = 1..Len(code)
      /\ labelCounter \in Nat
  BY DEF IInv, Types
<1>6. \A n \in DOMAIN tree :
       /\ tree[n].kind \in Kinds /\ tree[n].parent \in Nat /\ tree[n].block \in Nat
       /\ tree[n].elseIfs \in Nat /\ tree[n].hasElse \in BOOLEAN /\ tree[n].parent < n
  BY <1>2 DEF NodeRecord
<1>7. \A j \in DOMAIN open :
       /\ open[j].node \in DOMAIN tree /\ tree[open[j].node].kind = open[j].kind
       /\ open[j].block \in Nat /\ open[j].kind \in Loops \cup {"if"}
       /\ open[j].labels \in LabelRecord /\ FrameOK(open[j])
       /\ open[j].next \in {"cond", "update", "block", "body"}
  BY <1>4 DEF FrameRecord, FrameOK
<1> QED BY <1>1, <1>3, <1>5, <1>6, <1>7 DEF Shape

\* The least of some numbers.
LEMMA LeastIs ==
  ASSUME NEW S \in SUBSET Int, NEW m \in S, \A x \in S : m <= x
  PROVE  Least(S) = m
<1>1. \A y \in S : (\A x \in S : y <= x) => y = m
  OBVIOUS
<1>2. Least(S) \in S /\ \A x \in S : Least(S) <= x
  BY DEF Least
<1> QED BY <1>1, <1>2

LEMMA LeastOf ==
  ASSUME NEW S \in SUBSET Nat, S # {}
  PROVE  Least(S) \in S /\ \A x \in S : Least(S) <= x
BY LeastExists DEF Least

\* A part and its three fields.
LEMMA PartFields ==
  ASSUME NEW k \in Parts
  PROVE  /\ k[1] \in {"enter", "cond", "update", "in", "out"} /\ k[2] \in Nat /\ k[3] \in Nat
         /\ k = <<k[1], k[2], k[3]>>
BY DEF Parts

-----------------------------------------------------------------------------
(* The innermost loop a statement is in.                                   *)

InnerOf(f, p) == IF p = 0 THEN 0 ELSE IF tree[p].kind \in Loops THEN p ELSE f[p]

InnerEquation ==
  /\ DOMAIN InnermostLoop = 1..Len(tree)
  /\ \A n \in 1..Len(tree) : InnermostLoop[n] = InnerOf(InnermostLoop, tree[n].parent)

LEMMA InnermostIs == Shape => InnerEquation
<1> SUFFICES ASSUME Shape PROVE InnerEquation
  OBVIOUS
<1>0. PICK N : N = Len(tree)
  OBVIOUS
<1>n. N \in Nat
  BY <1>0 DEF Shape
<1>a. N \in Nat /\ \A n \in 1..N : tree[n].parent \in Nat /\ tree[n].parent < n
  BY <1>0 DEF Shape
<1> DEFINE Solves(f, n) == f = [m \in 1..n |-> InnerOf(f, tree[m].parent)]
           S == {n \in 0..N : ~\E f : Solves(f, n)}
<1>1. S = {}
  <2> SUFFICES ASSUME S # {} PROVE FALSE
    OBVIOUS
  <2>1. S \in SUBSET Nat
    OBVIOUS
  <2>2. PICK n \in S : \A s \in S : n <= s
    <3> HIDE DEF S
    <3> QED BY <2>1, LeastExists
  <2>3. n \in 0..N /\ n \in Nat /\ ~\E f : Solves(f, n)
    OBVIOUS
  <2>4. CASE n = 0
    <3>1. Solves([m \in 1..0 |-> 0], 0)
      OBVIOUS
    <3> QED BY <2>3, <2>4, <3>1
  <2>5. CASE n # 0
    <3>a. n - 1 \in 0..N /\ n - 1 < n /\ n - 1 \in Nat /\ n \in 1..N
      BY ONLY <1>a, <2>3, <2>5
    <3>b. n - 1 \notin S
      <4> HIDE DEF S
      <4>1. ~(n <= n - 1)
        BY ONLY <2>3, <3>a
      <4> QED BY ONLY <2>2, <4>1
    <3>1. \E f : Solves(f, n - 1)
      <4> HIDE DEF Solves
      <4> QED BY ONLY <3>a, <3>b DEF S
    <3>2. PICK f : Solves(f, n - 1)
      BY <3>1
    <3>3. PICK g : g = [m \in 1..n |-> IF m = n THEN InnerOf(f, tree[n].parent) ELSE f[m]]
      OBVIOUS
    <3>4. \A m \in 1..n : InnerOf(g, tree[m].parent) = InnerOf(f, tree[m].parent)
      <4> TAKE m \in 1..n
      <4>1. tree[m].parent = 0 \/ (tree[m].parent \in 1..n /\ tree[m].parent # n)
        <5>1. m \in 1..N
          BY ONLY <1>n, <2>3, m \in 1..n
        <5>2. tree[m].parent \in Nat /\ tree[m].parent < m
          BY ONLY <1>a, <5>1
        <5> QED BY ONLY <2>3, <5>1, <5>2, m \in 1..n
      <4> QED BY ONLY <3>3, <4>1 DEF InnerOf
    <3>5. \A m \in 1..n : g[m] = InnerOf(f, tree[m].parent)
      <4> TAKE m \in 1..n
      <4>1. m # n => m \in 1..(n - 1)
        BY ONLY <2>3, m \in 1..n
      <4>2. m # n => f[m] = InnerOf(f, tree[m].parent)
        BY ONLY <3>2, <4>1
      <4> QED BY ONLY <3>3, <4>2, m \in 1..n
    <3>6. g = [m \in 1..n |-> g[m]]
      BY ONLY <3>3
    <3>7. Solves(g, n)
      BY ONLY <3>4, <3>5, <3>6
    <3> QED BY <2>3, <3>7
  <2> QED BY <2>4, <2>5
<1>2. N \in 0..N
  BY <1>a
<1>3. \E f : Solves(f, N)
  <2> HIDE DEF Solves
  <2> QED BY ONLY <1>1, <1>2
<1>4. InnermostLoop = CHOOSE f : Solves(f, N)
  BY ONLY <1>0 DEF InnermostLoop, InnerOf
<1>5. Solves(InnermostLoop, N)
  <2> HIDE DEF Solves
  <2> QED BY ONLY <1>3, <1>4
<1>6. PICK f : f = InnermostLoop
  OBVIOUS
<1>7. Solves(f, N)
  BY ONLY <1>5, <1>6
<1>8. DOMAIN f = 1..N /\ \A n \in 1..N : f[n] = InnerOf(f, tree[n].parent)
  BY ONLY <1>7
<1> QED BY ONLY <1>0, <1>6, <1>8 DEF InnerEquation

\* It is in a block of that loop.
LEMMA InnermostHasChild ==
  ASSUME Shape, NEW n \in DOMAIN tree, InnermostLoop[n] # 0
  PROVE  /\ InnermostLoop[n] \in DOMAIN tree /\ tree[InnermostLoop[n]].kind \in Loops
         /\ \E c \in DOMAIN tree : tree[c].parent = InnermostLoop[n]
<1>0. PICK f : f = InnermostLoop
  OBVIOUS
<1>1. /\ DOMAIN tree = 1..Len(tree) /\ Len(tree) \in Nat
      /\ \A m \in DOMAIN tree : tree[m].parent \in Nat /\ tree[m].parent < m
      /\ \A m \in DOMAIN tree : f[m] = InnerOf(f, tree[m].parent)
  BY <1>0, InnermostIs DEF Shape, InnerEquation
<1> DEFINE Good(m) == /\ f[m] \in DOMAIN tree /\ tree[f[m]].kind \in Loops
                      /\ \E c \in DOMAIN tree : tree[c].parent = f[m]
           S == {m \in DOMAIN tree : f[m] # 0 /\ ~Good(m)}
<1>2. S = {}
  <2> SUFFICES ASSUME S # {} PROVE FALSE
    OBVIOUS
  <2>1. S \in SUBSET Nat
    BY <1>1
  <2>2. PICK m \in S : \A s \in S : m <= s
    <3> HIDE DEF S
    <3> QED BY <2>1, LeastExists
  <2>3. m \in DOMAIN tree /\ f[m] # 0 /\ ~Good(m)
    OBVIOUS
  <2>4. PICK p : p = tree[m].parent
    OBVIOUS
  <2>5. f[m] = InnerOf(f, p) /\ p \in Nat /\ p < m
    BY ONLY <1>1, <2>3, <2>4
  <2>6. p # 0
    BY ONLY <2>3, <2>5 DEF InnerOf
  <2>7. p \in DOMAIN tree /\ ~(m <= p)
    BY ONLY <1>1, <2>3, <2>5, <2>6
  <2>8. CASE tree[p].kind \in Loops
    <3>1. f[m] = p
      BY ONLY <2>5, <2>6, <2>8 DEF InnerOf
    <3> QED BY ONLY <2>3, <2>4, <2>7, <2>8, <3>1
  <2>9. CASE tree[p].kind \notin Loops
    <3>1. f[m] = f[p]
      BY ONLY <2>5, <2>6, <2>9 DEF InnerOf
    <3>2. p \notin S
      <4> HIDE DEF S
      <4> QED BY ONLY <2>2, <2>7
    <3>3. Good(p)
      <4> HIDE DEF Good
      <4> QED BY ONLY <2>3, <2>7, <3>1, <3>2 DEF S
    <3> QED BY ONLY <2>3, <3>1, <3>3
  <2> QED BY ONLY <2>8, <2>9
<1>3. Good(n)
  <2> HIDE DEF Good
  <2> QED BY ONLY <1>0, <1>2, n \in DOMAIN tree, InnermostLoop[n] # 0
<1> QED BY ONLY <1>0, <1>3

\* One more statement does not change it.
TreeExtends ==
  /\ DOMAIN tree \subseteq DOMAIN tree'
  /\ \A n \in DOMAIN tree : tree'[n] = tree[n]

LEMMA InnermostKept ==
  ASSUME Shape, Shape', TreeExtends
  PROVE  \A n \in DOMAIN tree : (InnermostLoop')[n] = InnermostLoop[n]
<1>a. (Shape => InnerEquation)'
  BY InnermostIs, PTL
<1>0. PICK f : f = InnermostLoop
  OBVIOUS
<1>g. PICK g : g = InnermostLoop'
  OBVIOUS
<1>1. /\ DOMAIN tree = 1..Len(tree) /\ Len(tree) \in Nat
      /\ \A m \in DOMAIN tree : tree[m].parent \in Nat /\ tree[m].parent < m
      /\ \A m \in DOMAIN tree : f[m] = InnerOf(f, tree[m].parent)
  BY <1>0, InnermostIs DEF Shape, InnerEquation
<1>2. \A m \in DOMAIN tree' :
        g[m] = IF tree'[m].parent = 0 THEN 0
               ELSE IF tree'[tree'[m].parent].kind \in Loops THEN tree'[m].parent
               ELSE g[tree'[m].parent]
  BY <1>a, <1>g, Shape' DEF Shape, InnerEquation, InnerOf
<1>3. \A m \in DOMAIN tree : m \in DOMAIN tree' /\ tree'[m] = tree[m]
  BY DEF TreeExtends
<1> DEFINE S == {m \in DOMAIN tree : g[m] # f[m]}
<1>4. S = {}
  <2> SUFFICES ASSUME S # {} PROVE FALSE
    OBVIOUS
  <2>1. S \in SUBSET Nat
    BY <1>1
  <2>2. PICK m \in S : \A s \in S : m <= s
    <3> HIDE DEF S
    <3> QED BY <2>1, LeastExists
  <2>3. m \in DOMAIN tree /\ g[m] # f[m]
    OBVIOUS
  <2>4. PICK p : p = tree[m].parent
    OBVIOUS
  <2>5. f[m] = InnerOf(f, p) /\ p \in Nat /\ p < m
    BY ONLY <1>1, <2>3, <2>4
  <2>6. g[m] = IF p = 0 THEN 0 ELSE IF tree'[p].kind \in Loops THEN p ELSE g[p]
    BY ONLY <1>2, <1>3, <2>3, <2>4
  <2>7. p # 0
    BY ONLY <2>3, <2>5, <2>6 DEF InnerOf
  <2>8. p \in DOMAIN tree /\ ~(m <= p)
    BY ONLY <1>1, <2>3, <2>5, <2>7
  <2>9. tree'[p] = tree[p]
    BY ONLY <1>3, <2>8
  <2>10. g[p] = f[p]
    <3> HIDE DEF S
    <3>1. p \notin S
      BY ONLY <2>2, <2>8
    <3> QED BY ONLY <2>8, <3>1 DEF S
  <2> QED BY ONLY <2>3, <2>5, <2>6, <2>7, <2>9, <2>10 DEF InnerOf
<1> QED BY ONLY <1>0, <1>g, <1>4

-----------------------------------------------------------------------------
(* How a step adds a part: those emitted before stay, the one that was     *)
(* coming is there, and another is coming.                                 *)

Adds(kk) ==
  /\ kk \in Parts /\ ~Emitted(kk)
  /\ \A k \in Parts : Emitted(k)' <=> (Emitted(k) \/ k = kk)
  /\ \A k \in Parts : Emitted(k) =>
       Following(k)' = IF Following(k) = Coming THEN kk ELSE Following(k)
  /\ Following(kk)' = Coming'

\* The part a frame comes to, by what it does next.
LEMMA AheadIs ==
  ASSUME NEW f
  PROVE  /\ f.next = "cond"   => Ahead(f) = <<"cond", f.node, f.block>>
         /\ f.next = "update" => Ahead(f) = <<"update", f.node, f.block>>
         /\ f.next = "block"  => Ahead(f) = <<"in", f.node, f.block>>
         /\ f.next = "body"   => Ahead(f) = <<"out", f.node, f.block>>
BY DEF Ahead

\* What comes is not there yet.
LEMMA ComingIsNew == Shape => ~Emitted(Coming)
<1> SUFFICES ASSUME Shape, Emitted(Coming) PROVE FALSE
  OBVIOUS
<1>1. CASE open = <<>>
  <2>1. Coming = <<"out", 0, 0>>
    BY <1>1 DEF Coming
  <2>2. IsPart(<<"out", 0, 0>>)
    BY <2>1 DEF Emitted
  <2>3. 0 \notin DOMAIN tree
    BY DEF Shape
  <2> QED BY ONLY <2>2, <2>3 DEF IsPart
<1>2. CASE open # <<>>
  <2>1. Len(open) \in DOMAIN open /\ Top = open[Len(open)]
    BY <1>2 DEF Shape, Top
  <2>2. Coming = Ahead(Top) /\ Coming[2] = Top.node
    BY <1>2 DEF Coming, Ahead
  <2>3. Stage(Coming) < Stage(Coming)
    BY <2>1, <2>2 DEF Emitted
  <2>4. Stage(Coming) \in Nat
    <3>1. Coming \in Parts
      BY DEF Emitted
    <3> QED BY <3>1, PartFields DEF Stage
  <2> QED BY <2>3, <2>4
<1> QED BY <1>1, <1>2

\* The order of a function's statements depends on the tree alone.
LEMMA SameTree ==
  ASSUME tree' = tree
  PROVE  /\ \A k : Following(k)' = Following(k) /\ Stage(k)' = Stage(k)
         /\ \A k : IsPart(k)' <=> IsPart(k)
<1>1. ASSUME NEW n, NEW b PROVE Children(n, b)' = Children(n, b)
  BY DEF Children
<1>2. ASSUME NEW n, NEW b, NEW m PROVE Later(n, b, m)' = Later(n, b, m)
  BY <1>1 DEF Later
<1>3. ASSUME NEW n, NEW b, NEW m PROVE NextPart(n, b, m)' = NextPart(n, b, m)
  <2>1. PICK L : L = Later(n, b, m)
    OBVIOUS
  <2>2. Later(n, b, m)' = L
    BY <1>2, <2>1
  <2>3. Least(Later(n, b, m))' = Least(L)
    BY <2>2 DEF Least
  <2> QED BY ONLY <2>1, <2>2, <2>3 DEF NextPart
<1>4. ASSUME NEW n PROVE Behind(n)' = Behind(n)
  <2>1. PICK p : p = tree[n].parent
    OBVIOUS
  <2>2. PICK b : b = tree[n].block
    OBVIOUS
  <2>3. Behind(n) = NextPart(p, b, n) /\ Behind(n)' = NextPart(p, b, n)'
    BY <2>1, <2>2 DEF Behind
  <2> QED BY <1>3, <2>3
<1>5. ASSUME NEW k PROVE Following(k)' = Following(k) /\ Stage(k)' = Stage(k)
  BY <1>3, <1>4 DEF Following, Stage, Branches
<1>6. ASSUME NEW k PROVE IsPart(k)' <=> IsPart(k)
  BY DEF IsPart, Branches
<1> QED BY <1>5, <1>6

\* The innermost open statement is that of one frame.
LEMMA TopIsLast ==
  ASSUME Shape, PathOK, open # <<>>
  PROVE  /\ Len(open) \in DOMAIN open /\ Top = open[Len(open)]
         /\ \A j \in DOMAIN open : j # Len(open) => j < Len(open)
                                   /\ open[j].node < Top.node /\ open[j].node # Top.node
                                   /\ open[j].next = "body"
         /\ Top.node \in DOMAIN tree /\ Top.node \in Nat /\ Top.block \in Nat
<1>1. Len(open) \in DOMAIN open /\ Top = open[Len(open)]
  BY DEF Shape, Top
<1>2. \A j \in DOMAIN open : j # Len(open) => j < Len(open)
  BY DEF Shape
<1>3. \A j \in DOMAIN open : open[j].node \in Nat
  BY DEF Shape
<1>4. \A j \in DOMAIN open : j # Len(open) => open[j].node < Top.node /\ open[j].next = "body"
  BY <1>1, <1>2 DEF PathOK
<1>5. Top.node \in DOMAIN tree /\ Top.node \in Nat /\ Top.block \in Nat
  BY <1>1 DEF Shape
<1>6. \A j \in DOMAIN open : j # Len(open) => open[j].node # Top.node
  BY ONLY <1>1, <1>3, <1>4, <1>5
<1> QED BY <1>1, <1>2, <1>4, <1>5, <1>6

\* What is emitted of the innermost open statement.
LEMMA EmittedOfTop ==
  ASSUME Shape, PathOK, open # <<>>, NEW k \in Parts, k[2] = Top.node
  PROVE  Emitted(k) <=> IsPart(k) /\ Stage(k) < Stage(Ahead(Top))
BY TopIsLast DEF Emitted

\* A step moves on in the innermost open statement.
LEMMA AddsMove ==
  ASSUME Shape, PathOK, open # <<>>, tree' = tree, NEW f, SetTop(f), f.node = Top.node,
         NEW kk \in Parts, kk = Ahead(Top), IsPart(kk), Following(kk) = Ahead(f),
         \A k \in Parts : (IsPart(k) /\ k[2] = Top.node) =>
           (Stage(k) < Stage(Ahead(f)) <=> Stage(k) < Stage(kk) \/ k = kk)
  PROVE  Adds(kk)
<1>1. /\ Len(open) \in DOMAIN open /\ Top = open[Len(open)]
      /\ \A j \in DOMAIN open : j # Len(open) => open[j].node # Top.node
  BY TopIsLast
<1>2. /\ DOMAIN open' = DOMAIN open /\ open'[Len(open)] = f
      /\ \A j \in DOMAIN open : j # Len(open) => open'[j] = open[j]
      /\ Len(open') = Len(open)
  BY <1>1 DEF SetTop, Shape
<1>3. kk[2] = Top.node
  BY DEF Ahead
<1>4. ~Emitted(kk)
  BY ComingIsNew DEF Coming
<1>5. PICK n : n = Top.node
  OBVIOUS
<1>s. /\ \A k : Following(k)' = Following(k) /\ Stage(k)' = Stage(k)
      /\ \A k : IsPart(k)' <=> IsPart(k)
  BY SameTree
<1>6. ASSUME NEW k \in Parts PROVE Emitted(k)' <=> (Emitted(k) \/ k = kk)
  <2>1. Emitted(k)' <=> /\ IsPart(k)
                        /\ \A j \in DOMAIN open : open'[j].node = k[2] =>
                             Stage(k) < Stage(Ahead(open'[j]))
    <3>1. Emitted(k)' <=> /\ IsPart(k)'
                          /\ \A j \in DOMAIN open' : open'[j].node = k[2] =>
                               Stage(k)' < Stage(Ahead(open[j]))'
      BY DEF Emitted
    <3>2. ASSUME NEW j \in DOMAIN open
          PROVE  Stage(Ahead(open[j]))' = Stage(Ahead(open'[j]))
      <4>1. PICK a : a = Ahead(open'[j])
        OBVIOUS
      <4>2. Ahead(open[j])' = a
        BY <4>1 DEF Ahead
      <4>3. Stage(Ahead(open[j]))' = Stage(a)'
        BY <4>2 DEF Stage
      <4> QED BY <1>s, <4>1, <4>3
    <3> QED BY <1>2, <1>s, <3>1, <3>2
  <2>2. CASE k[2] = n
    <3>1. Emitted(k) <=> IsPart(k) /\ Stage(k) < Stage(kk)
      BY <1>5, <2>2, EmittedOfTop
    <3>2. \A j \in DOMAIN open : open'[j].node = k[2] <=> j = Len(open)
      BY <1>1, <1>2, <1>5, <2>2
    <3>3. Emitted(k)' <=> IsPart(k) /\ Stage(k) < Stage(Ahead(f))
      BY <1>1, <1>2, <2>1, <3>2
    <3>4. IsPart(k) => (Stage(k) < Stage(Ahead(f)) <=> Stage(k) < Stage(kk) \/ k = kk)
      BY <1>5, <2>2
    <3> QED BY ONLY <3>1, <3>3, <3>4, IsPart(kk)
  <2>3. CASE k[2] # n
    <3>1. k # kk
      BY <1>3, <1>5, <2>3
    <3>2. \A j \in DOMAIN open : open'[j].node = k[2] <=> open[j].node = k[2]
      BY <1>1, <1>2, <1>5, <2>3
    <3>3. \A j \in DOMAIN open : open[j].node = k[2] => open'[j] = open[j]
      BY <1>1, <1>2, <1>5, <2>3
    <3>4. Emitted(k)' <=> Emitted(k)
      BY <2>1, <3>2, <3>3 DEF Emitted
    <3> QED BY <3>1, <3>4
  <2> QED BY <2>2, <2>3
<1>7. Coming = kk
  BY DEF Coming
<1>8. Following(kk)' = Coming'
  <2>1. Coming' = Ahead(f)
    <3>1. open' # <<>> /\ Top' = f
      BY <1>1, <1>2 DEF Top, Shape
    <3>2. Coming' = Ahead(Top)'
      BY <3>1 DEF Coming
    <3>3. Ahead(Top)' = Ahead(f)
      BY <3>1 DEF Ahead
    <3> QED BY <3>2, <3>3
  <2> QED BY <1>s, <2>1
<1> QED BY <1>4, <1>6, <1>7, <1>8, <1>s DEF Adds

\* After the last part of the innermost open statement comes what follows it.
LEMMA BehindTop ==
  ASSUME Shape, PathOK, open # <<>>
  PROVE  Behind(Top.node) = IF Len(open) = 1 THEN <<"out", 0, 0>>
                            ELSE <<"out", open[Len(open) - 1].node, open[Len(open) - 1].block>>
<1>1. /\ Len(open) \in DOMAIN open /\ Top = open[Len(open)]
      /\ Top.node \in DOMAIN tree /\ Top.node \in Nat
  BY TopIsLast
<1>2. PICK n : n = Top.node
  OBVIOUS
<1>3. /\ tree[n].parent = (IF Len(open) = 1 THEN 0 ELSE open[Len(open) - 1].node)
      /\ tree[n].block = (IF Len(open) = 1 THEN 0 ELSE open[Len(open) - 1].block)
  BY <1>1, <1>2 DEF PathOK
<1>4. tree[n].parent < n /\ tree[n].parent \in Nat /\ n \in Nat
  BY <1>1, <1>2 DEF Shape
<1>5. \A c \in DOMAIN tree : c > n => tree[c].parent >= n
  BY <1>1, <1>2 DEF PathOK
<1>6. \A c \in DOMAIN tree : tree[c].parent \in Nat
  BY DEF Shape
<1>7. \A c \in DOMAIN tree : c > n => tree[c].parent # tree[n].parent
  BY ONLY <1>4, <1>5, <1>6
<1>8. Later(tree[n].parent, tree[n].block, n) = {}
  BY <1>7 DEF Later, Children, Shape
<1>9. Behind(n) = <<"out", tree[n].parent, tree[n].block>>
  BY <1>8 DEF Behind, NextPart
<1> QED BY <1>2, <1>3, <1>9

\* What is left of the open statements without the innermost.
LEMMA Popped ==
  ASSUME Shape, open # <<>>, PopTop
  PROVE  /\ DOMAIN open' = DOMAIN open \ {Len(open)}
         /\ \A j \in DOMAIN open' : open'[j] = open[j]
         /\ open' \in Seq(FrameRecord) /\ Len(open') = Len(open) - 1
<1>1. /\ Len(open) \in Nat /\ Len(open) >= 1 /\ DOMAIN open = 1..Len(open)
      /\ \A i \in 1..(Len(open) - 1) : open[i] \in FrameRecord
  BY TopFacts, ElementOfSeq DEF Shape
<1>2. /\ open' \in Seq(FrameRecord)
      /\ Len(open') = IF 1 <= Len(open) - 1 THEN Len(open) - 1 - 1 + 1 ELSE 0
      /\ \A i \in 1..(Len(open) - 1 - 1 + 1) : open'[i] = open[1 + i - 1]
  BY <1>1, SubSeqProperties DEF PopTop
<1>3. PICK N : N = Len(open)
  OBVIOUS
<1>4. PICK M : M = Len(open')
  OBVIOUS
<1>5. N \in Nat /\ N >= 1 /\ M = IF 1 <= N - 1 THEN N - 1 - 1 + 1 ELSE 0
  BY ONLY <1>1, <1>2, <1>3, <1>4
<1>6. M = N - 1
  BY ONLY <1>5
<1>7. DOMAIN open' = 1..(N - 1)
  BY ONLY <1>2, <1>4, <1>6, LenProperties
<1>8. ASSUME NEW i \in 1..(N - 1) PROVE open'[i] = open[i]
  <2>1. i \in 1..(N - 1 - 1 + 1) /\ 1 + i - 1 = i
    BY ONLY <1>5, i \in 1..(N - 1)
  <2> QED BY ONLY <1>2, <1>3, <2>1
<1>9. 1..(N - 1) = (1..N) \ {N}
  BY ONLY <1>5
<1> QED BY ONLY <1>1, <1>2, <1>3, <1>4, <1>6, <1>7, <1>8, <1>9

\* A step leaves the innermost open statement.
LEMMA AddsLeave ==
  ASSUME Shape, PathOK, open # <<>>, tree' = tree, PopTop,
         NEW kk \in Parts, kk = Ahead(Top), IsPart(kk), Following(kk) = Behind(Top.node),
         \A k \in Parts : (IsPart(k) /\ k[2] = Top.node) => Stage(k) < Stage(kk) \/ k = kk
  PROVE  Adds(kk)
<1>1. /\ Len(open) \in DOMAIN open /\ Top = open[Len(open)]
      /\ \A j \in DOMAIN open : j # Len(open) => j < Len(open) /\ open[j].node # Top.node
                                                /\ open[j].next = "body"
  BY TopIsLast
<1>2. /\ DOMAIN open' = DOMAIN open \ {Len(open)}
      /\ \A j \in DOMAIN open' : open'[j] = open[j]
      /\ open' \in Seq(FrameRecord) /\ Len(open') = Len(open) - 1
  BY Popped
<1>3. kk[2] = Top.node
  BY DEF Ahead
<1>4. ~Emitted(kk)
  BY ComingIsNew DEF Coming
<1>5. PICK n : n = Top.node
  OBVIOUS
<1>s. /\ \A k : Following(k)' = Following(k) /\ Stage(k)' = Stage(k)
      /\ \A k : IsPart(k)' <=> IsPart(k)
  BY SameTree
<1>6. ASSUME NEW k \in Parts PROVE Emitted(k)' <=> (Emitted(k) \/ k = kk)
  <2>1. Emitted(k)' <=> /\ IsPart(k)
                        /\ \A j \in DOMAIN open' : open[j].node = k[2] =>
                             Stage(k) < Stage(Ahead(open[j]))
    <3>1. Emitted(k)' <=> /\ IsPart(k)'
                          /\ \A j \in DOMAIN open' : open'[j].node = k[2] =>
                               Stage(k)' < Stage(Ahead(open[j]))'
      BY DEF Emitted
    <3>2. ASSUME NEW j \in DOMAIN open'
          PROVE  Stage(Ahead(open[j]))' = Stage(Ahead(open[j]))
      <4>1. PICK a : a = Ahead(open[j])
        OBVIOUS
      <4>2. Ahead(open[j])' = a
        BY <1>2, <4>1 DEF Ahead
      <4>3. Stage(Ahead(open[j]))' = Stage(a)'
        BY <4>2 DEF Stage
      <4> QED BY <1>s, <4>1, <4>3
    <3> QED BY <1>2, <1>s, <3>1, <3>2
  <2>2. CASE k[2] = n
    <3>1. Emitted(k) <=> IsPart(k) /\ Stage(k) < Stage(kk)
      BY <1>5, <2>2, EmittedOfTop
    <3>2. \A j \in DOMAIN open' : open[j].node # k[2]
      BY <1>1, <1>2, <1>5, <2>2
    <3>3. Emitted(k)' <=> IsPart(k)
      BY <2>1, <3>2
    <3>4. IsPart(k) => Stage(k) < Stage(kk) \/ k = kk
      BY <1>5, <2>2
    <3> QED BY ONLY <3>1, <3>3, <3>4, IsPart(kk)
  <2>3. CASE k[2] # n
    <3>1. k # kk
      BY <1>3, <1>5, <2>3
    <3>2. \A j \in DOMAIN open : open[j].node = k[2] => j \in DOMAIN open'
      BY <1>1, <1>2, <1>5, <2>3
    <3>3. DOMAIN open' \subseteq DOMAIN open
      BY <1>2
    <3>4. Emitted(k)' <=> Emitted(k)
      BY <2>1, <3>2, <3>3 DEF Emitted
    <3> QED BY <3>1, <3>4
  <2> QED BY <2>2, <2>3
<1>7. Coming = kk
  BY DEF Coming
<1>8. Following(kk)' = Coming'
  <2>1. CASE Len(open) = 1
    <3>1. open' = <<>>
      BY <1>2, <2>1, EmptySeq
    <3>2. Coming' = <<"out", 0, 0>>
      BY <3>1 DEF Coming
    <3> QED BY <1>s, <2>1, <3>2, BehindTop
  <2>2. CASE Len(open) # 1
    <3>1. /\ Len(open) - 1 \in DOMAIN open' /\ Len(open) - 1 \in DOMAIN open
          /\ Len(open) - 1 # Len(open) /\ open' # <<>>
      <4>1. PICK N : N = Len(open)
        OBVIOUS
      <4>2. N \in Nat /\ N \in 1..N /\ N # 1 /\ DOMAIN open = 1..N
        BY <1>1, <2>2, <4>1 DEF Shape
      <4>3. N - 1 \in 1..N /\ N - 1 # N
        BY ONLY <4>2
      <4>4. N - 1 \in DOMAIN open'
        BY ONLY <1>2, <4>1, <4>2, <4>3
      <4>5. open' # <<>>
        BY <4>4
      <4> QED BY ONLY <4>1, <4>2, <4>3, <4>4, <4>5
    <3>2. Top' = open[Len(open) - 1] /\ open[Len(open) - 1].next = "body"
      BY <1>1, <1>2, <3>1 DEF Top
    <3>3. Coming' = Ahead(Top)'
      BY <3>1 DEF Coming
    <3>4. PICK g : g = open[Len(open) - 1]
      OBVIOUS
    <3>5. Ahead(Top)' = Ahead(g)
      BY <3>2, <3>4 DEF Ahead
    <3>6. Ahead(g) = <<"out", g.node, g.block>>
      BY <3>2, <3>4, AheadIs
    <3> QED BY <1>s, <2>2, <3>3, <3>4, <3>5, <3>6, BehindTop
  <2> QED BY <2>1, <2>2
<1> QED BY <1>4, <1>6, <1>7, <1>8, <1>s DEF Adds

-----------------------------------------------------------------------------
(* A step that reveals one more statement.                                 *)

Grows(new) ==
  /\ new = Len(tree) + 1
  /\ open # <<>> => Top.next = "body"
  /\ Len(tree') = new /\ DOMAIN tree' = 1..new
  /\ TreeExtends
  /\ tree'[new].parent = Coming[2] /\ tree'[new].block = Coming[3]

LEMMA GrownDomain ==
  ASSUME Shape, NEW new, Grows(new)
  PROVE  TreeExtends /\ DOMAIN tree' = DOMAIN tree \cup {new}
<1>1. PICK N : N = Len(tree)
  OBVIOUS
<1>2. N \in Nat /\ DOMAIN tree = 1..N
  BY <1>1 DEF Shape
<1>3. new = N + 1 /\ DOMAIN tree' = 1..new /\ TreeExtends
  BY <1>1 DEF Grows
<1>4. 1..new = (1..N) \cup {new}
  BY ONLY <1>2, <1>3
<1> QED BY ONLY <1>2, <1>3, <1>4

LEMMA RevealGrows ==
  ASSUME Shape, NEW kind, NEW elseIfs, NEW hasElse, Reveal(kind, elseIfs, hasElse),
         NEW new, new = Len(tree) + 1
  PROVE  /\ Grows(new)
         /\ tree'[new].kind = kind /\ tree'[new].elseIfs = elseIfs
         /\ tree'[new].hasElse = hasElse
<1>1. PICK node : node = Node(kind, elseIfs, hasElse)
  OBVIOUS
<1>2. tree' = Append(tree, node) /\ (open # <<>> => Top.next = "body")
  BY <1>1 DEF Reveal, AtStatement
<1>3. /\ tree \in Seq(NodeRecord) /\ Len(tree) \in Nat /\ DOMAIN tree = 1..Len(tree)
  BY DEF Shape
<1>4. /\ Len(tree') = Len(tree) + 1 /\ DOMAIN tree' = 1..(Len(tree) + 1)
      /\ tree'[Len(tree) + 1] = node
      /\ \A m \in 1..Len(tree) : tree'[m] = tree[m]
  <2>1. tree \in Seq(NodeRecord \cup {node})
    BY <1>3
  <2> QED BY <1>2, <1>3, <2>1, AppendProperties
<1>5. DOMAIN tree \subseteq DOMAIN tree'
  BY <1>3, <1>4
<1>6. node.parent = Coming[2] /\ node.block = Coming[3]
  BY <1>1, <1>2, AheadIs DEF Node, Coming, Top
<1>7. node.kind = kind /\ node.elseIfs = elseIfs /\ node.hasElse = hasElse
  BY <1>1 DEF Node
<1> QED BY <1>2, <1>3, <1>4, <1>5, <1>6, <1>7 DEF Grows, TreeExtends

\* Where it goes: at the end of the block being walked.
LEMMA ComingInBlock ==
  ASSUME Shape, open # <<>> => Top.next = "body"
  PROVE  /\ Coming = <<"out", Coming[2], Coming[3]>> /\ Coming[2] \in Nat /\ Coming[3] \in Nat
         /\ Coming[2] <= Len(tree)
<1>1. CASE open = <<>>
  BY <1>1 DEF Coming, Shape
<1>2. CASE open # <<>>
  <2>1. /\ Len(open) \in DOMAIN open /\ Top = open[Len(open)]
        /\ Top.node \in DOMAIN tree /\ Top.block \in Nat /\ Top.node \in Nat
    BY <1>2 DEF Shape, Top
  <2>2. Coming = <<"out", Top.node, Top.block>>
    BY <1>2, AheadIs DEF Coming
  <2> QED BY <2>1, <2>2 DEF Shape
<1> QED BY <1>1, <1>2

LEMMA LaterGrows ==
  ASSUME Shape, NEW new, Grows(new), NEW p, NEW b, NEW m \in 0..Len(tree)
  PROVE  Later(p, b, m)' = IF p = Coming[2] /\ b = Coming[3]
                           THEN Later(p, b, m) \cup {new} ELSE Later(p, b, m)
<1>0. PICK P : P = Coming[2]
  OBVIOUS
<1>b. PICK B : B = Coming[3]
  OBVIOUS
<1>1. /\ Len(tree) \in Nat /\ new = Len(tree) + 1 /\ DOMAIN tree = 1..Len(tree)
  BY DEF Shape, Grows
<1>2. /\ Len(tree') = new /\ \A c \in 1..Len(tree) : tree'[c] = tree[c]
      /\ tree'[new].parent = P /\ tree'[new].block = B
  BY <1>0, <1>b, <1>1 DEF Grows, TreeExtends
<1>3. Later(p, b, m)' = {c \in 1..new : tree'[c].parent = p /\ tree'[c].block = b /\ c > m}
  BY <1>2 DEF Later, Children
<1>4. Later(p, b, m) = {c \in 1..Len(tree) : tree[c].parent = p /\ tree[c].block = b /\ c > m}
  BY DEF Later, Children
<1>5. 1..new = (1..Len(tree)) \cup {new} /\ new > m /\ new \notin 1..Len(tree)
  BY <1>1
<1>6. \A c : c \in Later(p, b, m)' <=>
              (c \in Later(p, b, m) \/ (c = new /\ p = P /\ b = B))
  BY ONLY <1>2, <1>3, <1>4, <1>5
<1> QED BY <1>0, <1>b, <1>6

LEMMA NextPartGrows ==
  ASSUME Shape, NEW new, Grows(new), NEW p, NEW b, NEW m \in 0..Len(tree)
  PROVE  NextPart(p, b, m)' = IF NextPart(p, b, m) = Coming THEN <<"enter", new, 0>>
                              ELSE NextPart(p, b, m)
<1>0. PICK P : P = Coming[2]
  OBVIOUS
<1>b. PICK B : B = Coming[3]
  OBVIOUS
<1>c. Coming = <<"out", P, B>>
  BY <1>0, <1>b, ComingInBlock DEF Grows
<1>1. PICK L : L = Later(p, b, m)
  OBVIOUS
<1>2. PICK L2 : L2 = Later(p, b, m)'
  OBVIOUS
<1>3. L2 = IF p = P /\ b = B THEN L \cup {new} ELSE L
  BY <1>0, <1>b, <1>1, <1>2, LaterGrows
<1>4. NextPart(p, b, m) = IF L = {} THEN <<"out", p, b>> ELSE <<"enter", Least(L), 0>>
  BY <1>1 DEF NextPart
<1>5. NextPart(p, b, m)' = IF L2 = {} THEN <<"out", p, b>> ELSE <<"enter", Least(L2), 0>>
  <2>1. Least(Later(p, b, m))' = Least(L2)
    BY <1>2 DEF Least
  <2> QED BY ONLY <1>2, <2>1 DEF NextPart
<1>6. L \in SUBSET Nat /\ new \in Nat /\ \A c \in L : c <= new
  BY <1>1 DEF Later, Children, Shape, Grows
<1>7. CASE p = P /\ b = B
  <2>1. L2 = L \cup {new}
    BY <1>3, <1>7
  <2>2. CASE L = {}
    <3>1. Least(L2) = new
      <4>1. L2 \in SUBSET Int /\ new \in L2 /\ \A x \in L2 : new <= x
        BY ONLY <1>6, <2>1, <2>2
      <4> QED BY ONLY <4>1, LeastIs
    <3>2. L2 # {}
      BY <2>1
    <3> QED BY ONLY <1>4, <1>5, <1>7, <1>c, <2>2, <3>1, <3>2
  <2>3. CASE L # {}
    <3>1. Least(L) \in L /\ \A x \in L : Least(L) <= x
      BY <1>6, <2>3, LeastOf
    <3>2. PICK l : l = Least(L)
      OBVIOUS
    <3>3. L2 \in SUBSET Int /\ l \in L2 /\ \A x \in L2 : l <= x
      <4>1. l \in L /\ \A x \in L : l <= x
        BY ONLY <3>1, <3>2
      <4>2. l <= new
        BY ONLY <1>6, <4>1
      <4>3. L2 \in SUBSET Int
        BY ONLY <1>6, <2>1
      <4> QED BY ONLY <2>1, <4>1, <4>2, <4>3
    <3>4. Least(L2) = l
      BY ONLY <3>3, LeastIs
    <3>5. L2 # {}
      BY <2>1
    <3> QED BY ONLY <1>4, <1>5, <1>c, <2>3, <3>2, <3>4, <3>5
  <2> QED BY ONLY <2>2, <2>3
<1>8. CASE ~(p = P /\ b = B)
  <2>1. L2 = L
    BY <1>3, <1>8
  <2>2. NextPart(p, b, m) # Coming
    BY ONLY <1>4, <1>8, <1>c
  <2> QED BY ONLY <1>4, <1>5, <2>1, <2>2
<1> QED BY ONLY <1>7, <1>8

\* What follows a statement, or the new one.
LEMMA BehindGrows ==
  ASSUME Shape, NEW new, Grows(new)
  PROVE  /\ \A m \in DOMAIN tree :
              Behind(m)' = IF Behind(m) = Coming THEN <<"enter", new, 0>> ELSE Behind(m)
         /\ Behind(new)' = Coming
<1>1. ASSUME NEW m \in DOMAIN tree
      PROVE Behind(m)' = IF Behind(m) = Coming THEN <<"enter", new, 0>> ELSE Behind(m)
  <2>1. PICK p : p = tree[m].parent
    OBVIOUS
  <2>2. PICK b : b = tree[m].block
    OBVIOUS
  <2>3. Behind(m) = NextPart(p, b, m)
    BY <2>1, <2>2 DEF Behind
  <2>4. Behind(m)' = NextPart(p, b, m)'
    BY <2>1, <2>2 DEF Behind, Grows, TreeExtends
  <2>5. m \in 0..Len(tree)
    BY DEF Shape
  <2> QED BY <2>3, <2>4, <2>5, NextPartGrows
<1>2. Behind(new)' = Coming
  <2>1. PICK P : P = Coming[2]
    OBVIOUS
  <2>2. PICK B : B = Coming[3]
    OBVIOUS
  <2>3. Coming = <<"out", P, B>>
    BY <2>1, <2>2, ComingInBlock DEF Grows
  <2>4. Later(P, B, new)' = {}
    BY DEF Later, Children, Shape, Grows
  <2>5. NextPart(P, B, new)' = <<"out", P, B>>
    BY <2>4 DEF NextPart
  <2>6. Behind(new)' = NextPart(P, B, new)'
    BY <2>1, <2>2 DEF Behind, Grows
  <2> QED BY <2>3, <2>5, <2>6
<1> QED BY <1>1, <1>2

\* The order of the parts, before and after.
LEMMA FollowingGrows ==
  ASSUME Shape, NEW new, Grows(new), NEW k \in Parts, IsPart(k)
  PROVE  /\ k[2] # new /\ IsPart(k)' /\ Stage(k)' = Stage(k)
         /\ Following(k)' = IF Following(k) = Coming THEN <<"enter", new, 0>> ELSE Following(k)
<1>1. PICK n : n = k[2]
  OBVIOUS
<1>2. PICK b : b = k[3]
  OBVIOUS
<1>c. Coming[1] = "out"
  BY ComingInBlock DEF Grows
<1>3. /\ new \in Nat /\ new # 0 /\ new \notin DOMAIN tree /\ 0 \notin DOMAIN tree
      /\ DOMAIN tree \subseteq DOMAIN tree' /\ \A m \in DOMAIN tree : tree'[m] = tree[m]
  BY DEF Shape, Grows, TreeExtends
<1>4. n \in DOMAIN tree \/ (k = <<"in", 0, 0>> /\ n = 0 /\ b = 0)
  BY <1>1, <1>2 DEF IsPart
<1>5. n # new
  BY ONLY <1>3, <1>4
<1>6. n \in DOMAIN tree => tree'[n] = tree[n] /\ n \in DOMAIN tree'
  BY ONLY <1>3
<1>k. /\ n \in DOMAIN tree => tree[n].kind \in Kinds
      /\ k[1] = "cond" => tree[n].kind \in {"if", "while", "until", "for"}
      /\ k[1] = "out" => tree[n].kind \in Loops \cup {"if"}
      /\ k[1] \in {"enter", "cond", "update", "in", "out"}
  BY <1>1, PartFields DEF Shape, IsPart
<1>7. IsPart(k)'
  BY ONLY <1>1, <1>2, <1>4, <1>6, IsPart(k) DEF IsPart, Branches
<1>8. Stage(k)' = Stage(k)
  BY ONLY <1>1, <1>2, <1>4, <1>6, <1>k DEF Stage
<1>9. n \in DOMAIN tree => Behind(n)' = IF Behind(n) = Coming THEN <<"enter", new, 0>> ELSE Behind(n)
  BY BehindGrows
<1>10. NextPart(n, b, 0)' = IF NextPart(n, b, 0) = Coming THEN <<"enter", new, 0>> ELSE NextPart(n, b, 0)
  <2>1. 0 \in 0..Len(tree)
    BY DEF Shape
  <2> QED BY ONLY <2>1, Shape, Grows(new), NextPartGrows
<1>11. Following(k)' = IF Following(k) = Coming THEN <<"enter", new, 0>> ELSE Following(k)
  <2>1. CASE n \in DOMAIN tree
    <3>1. PICK Be : Be = Behind(n)
      OBVIOUS
    <3>2. PICK Be2 : Be2 = Behind(n)'
      OBVIOUS
    <3>3. PICK Np : Np = NextPart(n, b, 0)
      OBVIOUS
    <3>4. PICK Np2 : Np2 = NextPart(n, b, 0)'
      OBVIOUS
    <3>5. CASE k[1] = "enter"
      BY ONLY <1>1, <1>6, <1>9, <1>c, <1>k, <2>1, <3>5 DEF Following, Kinds, Leaves, Loops
    <3>6. CASE k[1] = "cond"
      BY ONLY <1>1, <1>2, <1>6, <1>9, <1>c, <1>k, <2>1, <3>6 DEF Following
    <3>7. CASE k[1] = "update"
      BY ONLY <1>1, <1>6, <1>c, <2>1, <3>7 DEF Following
    <3>8. CASE k[1] = "in"
      BY ONLY <1>1, <1>2, <1>10, <3>8 DEF Following
    <3>9. CASE k[1] = "out"
      BY ONLY <1>1, <1>2, <1>6, <1>9, <1>c, <1>k, <2>1, <3>9 DEF Following, Branches, Loops
    <3> QED BY <3>5, <3>6, <3>7, <3>8, <3>9, PartFields
  <2>2. CASE k[1] = "in"
    BY ONLY <1>1, <1>2, <1>10, <2>2 DEF Following
  <2> QED BY <1>4, <2>1, <2>2
<1> QED BY <1>1, <1>5, <1>7, <1>8, <1>11

\* A leaf is added to the end of the block being walked.
LEMMA AddsLeaf ==
  ASSUME Shape, NEW new, Grows(new), tree'[new].kind \in Leaves, open' = open
  PROVE  Adds(<<"enter", new, 0>>)
<1>0. PICK kk : kk = <<"enter", new, 0>>
  OBVIOUS
<1>1. /\ new \in Nat /\ new \notin DOMAIN tree /\ new # 0 /\ new \in DOMAIN tree'
      /\ \A j \in DOMAIN open : open[j].node \in DOMAIN tree /\ open[j].node # new
      /\ DOMAIN tree' = DOMAIN tree \cup {new}
  BY DEF Shape, Grows
<1>2. kk \in Parts /\ kk[1] = "enter" /\ kk[2] = new /\ kk[3] = 0
  BY <1>0, <1>1 DEF Parts
<1>3. ~Emitted(kk)
  BY <1>1, <1>2 DEF Emitted, IsPart
<1>4. ASSUME NEW k \in Parts PROVE IsPart(k)' <=> (IsPart(k) \/ k = kk)
  <2>1. CASE k[2] = new
    <3>1. ~IsPart(k)
      BY <1>1, <2>1 DEF IsPart
    <3>2. IsPart(k)' <=> (k[1] = "enter" /\ k[3] = 0)
      BY <1>1, <2>1 DEF IsPart, Leaves, Loops
    <3> QED BY <1>0, <2>1, <3>1, <3>2, PartFields
  <2>2. CASE k[2] # new
    <3>1. IsPart(k) => IsPart(k)'
      BY FollowingGrows
    <3>2. IsPart(k)' => IsPart(k)
      BY <1>1, <2>2 DEF IsPart, Grows, TreeExtends, Branches
    <3> QED BY <1>2, <2>2, <3>1, <3>2
  <2> QED BY <2>1, <2>2
<1>5. ASSUME NEW k \in Parts PROVE Emitted(k)' <=> (Emitted(k) \/ k = kk)
  <2>1. Emitted(k)' <=> /\ IsPart(k)'
                        /\ \A j \in DOMAIN open : open[j].node = k[2] =>
                             Stage(k)' < Stage(Ahead(open[j]))'
    BY DEF Emitted
  <2>2. ASSUME NEW j \in DOMAIN open PROVE Stage(Ahead(open[j]))' = Stage(Ahead(open[j]))
    <3>1. PICK a : a = Ahead(open[j])
      OBVIOUS
    <3>2. Ahead(open[j])' = a
      BY <3>1 DEF Ahead
    <3>3. Stage(Ahead(open[j]))' = Stage(a)'
      BY <3>2 DEF Stage
    <3>4. a[2] \in DOMAIN tree
      BY <1>1, <3>1 DEF Ahead
    <3>5. Stage(a)' = Stage(a)
      BY <3>4 DEF Stage, Grows, TreeExtends
    <3> QED BY <3>1, <3>3, <3>5
  <2>3. CASE k = kk
    BY <1>1, <1>2, <1>4, <2>1, <2>3
  <2>4. CASE k # kk
    <3>1. IsPart(k) => Stage(k)' = Stage(k)
      BY FollowingGrows
    <3> QED BY <1>4, <2>1, <2>2, <2>4, <3>1 DEF Emitted
  <2> QED BY <2>3, <2>4
<1>6. ASSUME NEW k \in Parts, Emitted(k)
      PROVE Following(k)' = IF Following(k) = Coming THEN kk ELSE Following(k)
  BY <1>0, <1>6, FollowingGrows DEF Emitted
<1>7. Following(kk)' = Coming'
  <2>1. Following(kk)' = Behind(new)'
    BY <1>2 DEF Following, Leaves
  <2>2. Coming' = Coming
    BY DEF Coming, Ahead, Top
  <2> QED BY <2>1, <2>2, BehindGrows
<1> QED BY <1>0, <1>2, <1>3, <1>5, <1>6, <1>7 DEF Adds

\* A statement is opened at the end of the block being walked.
LEMMA AddsPush ==
  ASSUME Shape, NEW new, Grows(new), NEW f, f.node = new, f.block = 0,
         open' = Append(open, f), tree'[new].kind \in Loops \cup {"if"},
         f.next = IF tree'[new].kind \in {"if", "while", "for"} THEN "cond" ELSE "block"
  PROVE  Adds(<<"enter", new, 0>>)
<1>0. PICK kk : kk = <<"enter", new, 0>>
  OBVIOUS
<1>1. /\ new \in Nat /\ new \notin DOMAIN tree /\ new # 0 /\ new \in DOMAIN tree'
      /\ \A j \in DOMAIN open : open[j].node \in DOMAIN tree /\ open[j].node # new
      /\ DOMAIN tree' = DOMAIN tree \cup {new}
  BY DEF Shape, Grows
<1>2. kk \in Parts /\ kk[1] = "enter" /\ kk[2] = new /\ kk[3] = 0
  BY <1>0, <1>1 DEF Parts
<1>3. ~Emitted(kk)
  BY <1>1, <1>2 DEF Emitted, IsPart
<1>o. /\ DOMAIN open' = DOMAIN open \cup {Len(open) + 1} /\ Len(open) + 1 \notin DOMAIN open
      /\ open'[Len(open) + 1] = f /\ Len(open') = Len(open) + 1
      /\ \A j \in DOMAIN open : open'[j] = open[j]
  <2>1. open \in Seq(FrameRecord \cup {f}) /\ Len(open) \in Nat /\ DOMAIN open = 1..Len(open)
    BY DEF Shape
  <2>2. /\ open' \in Seq(FrameRecord \cup {f}) /\ Len(open') = Len(open) + 1
        /\ open'[Len(open) + 1] = f
        /\ \A j \in 1..Len(open) : open'[j] = open[j]
    BY <2>1, AppendProperties
  <2>3. DOMAIN open' = 1..(Len(open) + 1)
    BY <2>2, LenProperties
  <2> QED BY <2>1, <2>2, <2>3
<1>4. ASSUME NEW k \in Parts, k[2] # new PROVE IsPart(k)' <=> IsPart(k)
  <2>1. IsPart(k) => IsPart(k)'
    BY FollowingGrows
  <2>2. IsPart(k)' => IsPart(k)
    BY <1>1, <1>4 DEF IsPart, Grows, TreeExtends, Branches
  <2> QED BY <2>1, <2>2
<1>a. PICK g : g = Ahead(f)
  OBVIOUS
<1>g. g = IF tree'[new].kind \in {"if", "while", "for"} THEN <<"cond", new, 0>> ELSE <<"in", new, 0>>
  BY <1>a, AheadIs
<1>s. Stage(g)' = IF tree'[new].kind \in {"if", "while", "for"} THEN 1 ELSE 3
  BY <1>g DEF Stage, Loops
<1>5. ASSUME NEW k \in Parts PROVE Emitted(k)' <=> (Emitted(k) \/ k = kk)
  <2>1. Emitted(k)' <=> /\ IsPart(k)'
                        /\ \A j \in DOMAIN open' : open'[j].node = k[2] =>
                             Stage(k)' < Stage(Ahead(open[j]))'
    BY DEF Emitted
  <2>2. ASSUME NEW j \in DOMAIN open PROVE Stage(Ahead(open[j]))' = Stage(Ahead(open[j]))
    <3>1. PICK a : a = Ahead(open[j])
      OBVIOUS
    <3>2. Ahead(open[j])' = a
      BY <1>o, <3>1 DEF Ahead
    <3>3. Stage(Ahead(open[j]))' = Stage(a)'
      BY <3>2 DEF Stage
    <3>4. a[2] \in DOMAIN tree
      BY <1>1, <3>1 DEF Ahead
    <3>5. Stage(a)' = Stage(a)
      BY <3>4 DEF Stage, Grows, TreeExtends
    <3> QED BY <3>1, <3>3, <3>5
  <2>3. PICK N : N = Len(open) + 1
    OBVIOUS
  <2>4. Stage(Ahead(open[N]))' = Stage(g)'
    <3>1. Ahead(open[N])' = g
      BY <1>a, <1>o, <2>3 DEF Ahead
    <3> QED BY <3>1 DEF Stage
  <2>5. CASE k[2] = new
    <3>1. Emitted(k)' <=> IsPart(k)' /\ Stage(k)' < Stage(g)'
      BY <1>1, <1>o, <2>1, <2>3, <2>4, <2>5
    <3>2. ~Emitted(k)
      BY <1>1, <2>5 DEF Emitted, IsPart
    <3>3. IsPart(k)' /\ Stage(k)' < Stage(g)' <=> k[1] = "enter" /\ k[3] = 0
      <4>1. k[3] \in Nat /\ k[1] \in {"enter", "cond", "update", "in", "out"}
        BY PartFields
      <4>2. k[1] = "enter" /\ k[3] = 0 => IsPart(k)'
        BY <1>1, <2>5 DEF IsPart
      <4>3. k[1] = "enter" => Stage(k)' = 0
        BY DEF Stage
      <4>4. k[1] = "enter" /\ IsPart(k)' => k[3] = 0
        BY <1>1, <2>5 DEF IsPart
      <4>5. k[1] # "enter" /\ IsPart(k)' => ~(Stage(k)' < Stage(g)')
        <5> SUFFICES ASSUME k[1] # "enter", IsPart(k)' PROVE ~(Stage(k)' < Stage(g)')
          OBVIOUS
        <5>b. PICK b : b = k[3]
          OBVIOUS
        <5>n. b \in Nat
          BY <4>1, <5>b
        <5>t. Stage(g)' = 1 \/ (Stage(g)' = 3 /\ tree'[new].kind \notin {"if", "while", "for"})
          BY <1>s
        <5>1. CASE k[1] = "cond"
          <6>1. tree'[new].kind \in {"if", "while", "until", "for"}
            BY <1>1, <2>5, <5>1 DEF IsPart
          <6>2. Stage(k)' = IF tree'[new].kind = "until" THEN 5 ELSE 4 * b + 1
            BY <2>5, <5>b, <5>1 DEF Stage
          <6> QED BY ONLY <5>n, <5>t, <6>1, <6>2
        <5>2. CASE k[1] = "update"
          <6>1. tree'[new].kind = "for"
            BY <1>1, <2>5, <5>2 DEF IsPart
          <6>2. Stage(k)' = 2
            BY <5>2 DEF Stage
          <6> QED BY ONLY <5>t, <6>1, <6>2
        <5>3. CASE k[1] = "in"
          <6>1. Stage(k)' = 4 * b + 3
            BY <5>b, <5>3 DEF Stage
          <6> QED BY ONLY <5>n, <5>t, <6>1
        <5>4. CASE k[1] = "out"
          <6>1. Stage(k)' = 4 * b + 4
            BY <5>b, <5>4 DEF Stage
          <6> QED BY ONLY <5>n, <5>t, <6>1
        <5> QED BY <4>1, <5>1, <5>2, <5>3, <5>4
      <4> QED BY ONLY <1>s, <4>2, <4>3, <4>4, <4>5
    <3> QED BY <1>0, <2>5, <3>1, <3>2, <3>3, PartFields
  <2>6. CASE k[2] # new
    <3>1. IsPart(k) => Stage(k)' = Stage(k)
      BY FollowingGrows
    <3>2. Emitted(k)' <=> /\ IsPart(k)
                          /\ \A j \in DOMAIN open : open[j].node = k[2] =>
                               Stage(k)' < Stage(Ahead(open[j]))
      BY <1>4, <1>o, <2>1, <2>2, <2>6
    <3>3. Emitted(k)' <=> Emitted(k)
      BY <3>1, <3>2 DEF Emitted
    <3> QED BY <1>2, <2>6, <3>3
  <2> QED BY <2>5, <2>6
<1>6. ASSUME NEW k \in Parts, Emitted(k)
      PROVE Following(k)' = IF Following(k) = Coming THEN kk ELSE Following(k)
  BY <1>0, <1>6, FollowingGrows DEF Emitted
<1>7. Following(kk)' = Coming'
  <2>1. Following(kk)' = g
    BY <1>g, <1>2 DEF Following, Leaves, Loops
  <2>2. Coming' = g
    <3>1. open' # <<>>
      BY <1>o
    <3>2. Top' = f
      BY <1>o DEF Top
    <3>3. Coming' = Ahead(Top)'
      BY <3>1 DEF Coming
    <3>4. Ahead(Top)' = Ahead(f)
      BY <3>2 DEF Ahead
    <3> QED BY <1>a, <3>3, <3>4
  <2> QED BY <2>1, <2>2
<1> QED BY <1>0, <1>2, <1>3, <1>5, <1>6, <1>7 DEF Adds

-----------------------------------------------------------------------------
(* The code of a part stays what it is.                                    *)

CodeExtends ==
  /\ DOMAIN code \subseteq DOMAIN code'
  /\ \A i \in DOMAIN code : code'[i] = code[i]

\* A loop that has a statement in its block, or is left, has been entered.
LEMMA LoopEntered ==
  ASSUME Shape, NodesOK, NEW k \in Parts, Emitted(k)
  PROVE  /\ (k[1] = "out" /\ tree[k[2]].kind \in Loops) => Emitted(<<"in", k[2], 0>>)
         /\ (k[1] = "enter" /\ tree[k[2]].kind = "break") =>
              Emitted(<<"in", InnermostLoop[k[2]], 0>>)
<1>1. ASSUME k[1] = "out", tree[k[2]].kind \in Loops PROVE Emitted(<<"in", k[2], 0>>)
  <2>1. k[2] \in DOMAIN tree /\ k[3] = 0 /\ k[2] \in Nat
    BY <1>1, PartFields DEF Emitted, IsPart, Loops
  <2>2. PICK n : n = k[2]
    OBVIOUS
  <2>3. PICK e : e = <<"in", n, 0>>
    OBVIOUS
  <2>4. e \in Parts /\ e[1] = "in" /\ e[2] = n /\ e[3] = 0
    BY <2>1, <2>2, <2>3 DEF Parts
  <2>5. IsPart(e)
    BY <1>1, <2>1, <2>2, <2>4 DEF IsPart
  <2>6. Stage(e) = 3 /\ Stage(k) = 4
    BY <1>1, <2>1, <2>4 DEF Stage
  <2>7. \A j \in DOMAIN open : open[j].node = n => Stage(k) < Stage(Ahead(open[j]))
    BY <2>2 DEF Emitted
  <2>8. \A j \in DOMAIN open : open[j].node = n => Stage(Ahead(open[j])) \in Int
    <3> TAKE j \in DOMAIN open
    <3>1. PICK a : a = Ahead(open[j])
      OBVIOUS
    <3>2. a[1] \in {"cond", "update", "in", "out"} /\ a[3] \in Nat
      BY <3>1 DEF Ahead, Shape
    <3>3. Stage(a) \in Int
      BY <3>2 DEF Stage
    <3> QED BY <3>1, <3>3
  <2>9. \A j \in DOMAIN open : open[j].node = n => Stage(e) < Stage(Ahead(open[j]))
    BY ONLY <2>6, <2>7, <2>8
  <2> QED BY <2>2, <2>3, <2>4, <2>5, <2>9 DEF Emitted
<1>2. ASSUME k[1] = "enter", tree[k[2]].kind = "break"
      PROVE Emitted(<<"in", InnermostLoop[k[2]], 0>>)
  <2>1. k[2] \in DOMAIN tree
    BY <1>2 DEF Emitted, IsPart
  <2>2. PICK L : L = InnermostLoop[k[2]]
    OBVIOUS
  <2>3. L \in DOMAIN tree /\ tree[L].kind \in Loops
    BY <1>2, <2>1, <2>2 DEF NodesOK
  <2>4. PICK c \in DOMAIN tree : tree[c].parent = L
    <3>1. L # 0
      BY <2>3 DEF Shape
    <3> QED BY <2>1, <2>2, <3>1, InnermostHasChild
  <2>5. Emitted(<<"in", L, tree[c].block>>)
    BY <2>4 DEF NodesOK
  <2>6. tree[c].block = 0
    BY <2>3, <2>5 DEF Emitted, IsPart, Loops, Shape
  <2> QED BY <2>2, <2>5, <2>6
<1> QED BY <1>1, <1>2

LEMMA HasCodeKept ==
  ASSUME Shape, Shape', NodesOK, TreeExtends, CodeExtends,
         NEW lab, NEW lab2, NEW brk, NEW brk2,
         \A m \in DOMAIN tree : lab2[m] = lab[m],
         \A m : Emitted(<<"in", m, 0>>) => brk2[m] = brk[m],
         NEW k \in Parts, Emitted(k), NEW h \in Nat, NEW l \in 1..h, h <= Len(code) + 1,
         HasCode(k, l, h, lab, brk)
  PROVE  HasCode(k, l, h, lab2, brk2)'
<1>1. PICK n : n = k[2]
  OBVIOUS
<1>2. PICK b : b = k[3]
  OBVIOUS
<1>3. /\ k[1] \in {"enter", "cond", "update", "in", "out"} /\ IsPart(k) /\ b \in Nat
  BY <1>2, PartFields DEF Emitted
<1>4. n \in DOMAIN tree \/ (k[1] = "in" /\ n = 0 /\ b = 0)
  BY <1>1, <1>2, <1>3 DEF IsPart
<1>5. n \in DOMAIN tree => /\ n \in DOMAIN tree' /\ tree'[n] = tree[n] /\ lab2[n] = lab[n]
                           /\ n # 0 /\ tree[n].kind \in Kinds
  BY DEF TreeExtends, Shape
<1>6. Len(code) \in Nat /\ \A i \in 1..Len(code) : code'[i] = code[i]
  BY DEF CodeExtends, Shape
<1>7. \A i \in l..(h - 1) : code'[i] = code[i]
  <2>1. \A i \in l..(h - 1) : i \in 1..Len(code)
    BY ONLY <1>6, h \in Nat, l \in 1..h, h <= Len(code) + 1
  <2> QED BY ONLY <1>6, <2>1
<1>8. h \in Nat /\ l \in Nat /\ l <= h
  OBVIOUS
<1>9. CASE k[1] = "enter"
  <2>0. n \in DOMAIN tree
    BY <1>4, <1>9
  <2>1. EnterCode(n, l, h, lab, brk)
    BY <1>1, <1>9 DEF HasCode
  <2>2. tree[n].kind = "break" => brk2[(InnermostLoop')[n]] = brk[InnermostLoop[n]]
    <3> SUFFICES ASSUME tree[n].kind = "break" PROVE brk2[(InnermostLoop')[n]] = brk[InnermostLoop[n]]
      OBVIOUS
    <3>1. (InnermostLoop')[n] = InnermostLoop[n]
      BY <2>0, InnermostKept
    <3>2. Emitted(<<"in", InnermostLoop[n], 0>>)
      BY <1>1, <1>9, LoopEntered
    <3> QED BY <3>1, <3>2
  <2>3. CASE tree[n].kind \in {"simple", "valuecall", "return"}
    <3>1. l < h /\ LabelsIn(l, h - 1) /\ code[h - 1] = Instr(tree[n].kind, n, 0)
      BY <2>1, <2>3 DEF EnterCode
    <3>2. LabelsIn(l, h - 1)' /\ code'[h - 1] = code[h - 1]
      BY <1>7, <1>8, <3>1 DEF LabelsIn
    <3> QED BY <1>1, <1>5, <1>9, <2>0, <2>3, <3>1, <3>2 DEF HasCode, EnterCode, Instr
  <2>4. CASE tree[n].kind = "break"
    <3>1. h = l + 1 /\ code[l] = Goto(brk[InnermostLoop[n]])
      BY <2>1, <2>4 DEF EnterCode
    <3>2. code'[l] = code[l]
      BY <1>7, <1>8, <3>1
    <3> QED BY <1>1, <1>5, <1>9, <2>0, <2>2, <2>4, <3>1, <3>2 DEF HasCode, EnterCode, Goto
  <2>5. CASE tree[n].kind \in {"while", "until", "infinite", "for"}
    <3>1. h = l + 1
      BY <2>1, <2>5 DEF EnterCode
    <3>2. code'[l] = code[l]
      BY <1>7, <1>8, <3>1
    <3> QED BY <1>1, <1>5, <1>9, <2>0, <2>1, <2>5, <3>1, <3>2
            DEF HasCode, EnterCode, Label, Instr
  <2>6. CASE tree[n].kind = "if"
    BY <1>1, <1>5, <1>9, <2>0, <2>1, <2>6 DEF HasCode, EnterCode
  <2> QED BY <1>5, <2>0, <2>3, <2>4, <2>5, <2>6 DEF Kinds, Loops, Leaves
<1>10. CASE k[1] = "cond"
  <2>0. n \in DOMAIN tree /\ tree[n].kind \in {"if", "while", "until", "for"}
    BY <1>1, <1>3, <1>10 DEF IsPart
  <2>1. CondCode(n, b, l, h, lab)
    BY <1>1, <1>2, <1>10 DEF HasCode
  <2>2. CondCode(n, b, l, h, lab2)'
    <3>1. CASE tree[n].kind \in {"if", "while", "until"}
      <4>1. l + 1 < h /\ LabelsIn(l, h - 2) /\ code[h - 2] = Instr("eval", n, b)
        BY <2>1, <3>1 DEF CondCode
      <4>2. LabelsIn(l, h - 2)' /\ code'[h - 2] = code[h - 2] /\ code'[h - 1] = code[h - 1]
        BY <1>7, <1>8, <4>1 DEF LabelsIn
      <4> QED BY <1>5, <2>0, <2>1, <3>1, <4>1, <4>2 DEF CondCode, IfEq, Instr, Branches
    <3>2. CASE tree[n].kind = "for"
      <4>1. l + 3 < h /\ LabelsIn(l, h - 3)
        BY <2>1, <3>2 DEF CondCode
      <4>2. LabelsIn(l, h - 3)' /\ code'[h - 3] = code[h - 3] /\ code'[h - 2] = code[h - 2]
            /\ code'[h - 1] = code[h - 1] /\ code'[l] = code[l]
        BY <1>7, <1>8, <4>1 DEF LabelsIn
      <4> QED BY <1>5, <2>0, <2>1, <3>2, <4>1, <4>2 DEF CondCode, IfEq, Instr, Label, Goto
    <3> QED BY <2>0, <3>1, <3>2
  <2> QED BY <1>1, <1>2, <1>10, <2>2 DEF HasCode
<1>11. CASE k[1] = "update"
  <2>0. n \in DOMAIN tree
    BY <1>4, <1>11
  <2>1. UpdateCode(n, l, h, lab)
    BY <1>1, <1>11 DEF HasCode
  <2>2. UpdateCode(n, l, h, lab2)'
    <3>1. l + 3 < h /\ LabelsIn(l, h - 3)
      BY <2>1 DEF UpdateCode
    <3>2. LabelsIn(l, h - 3)' /\ code'[h - 3] = code[h - 3] /\ code'[h - 2] = code[h - 2]
          /\ code'[h - 1] = code[h - 1] /\ code'[l] = code[l]
      BY <1>7, <1>8, <3>1 DEF LabelsIn
    <3> QED BY <1>5, <2>0, <2>1, <3>1, <3>2 DEF UpdateCode, Instr, Label, Goto, Pop
  <2> QED BY <1>1, <1>11, <2>2 DEF HasCode
<1>12. CASE k[1] = "in"
  <2>1. InCode(n, b, l, h, lab)
    BY <1>1, <1>2, <1>12 DEF HasCode
  <2>2. InCode(n, b, l, h, lab2)'
    <3>1. CASE n = 0
      BY <2>1, <3>1 DEF InCode
    <3>2. CASE n # 0
      <4>1. n \in DOMAIN tree
        BY <1>4, <3>2
      <4>2. h = l + 1 => code'[l] = code[l]
        BY <1>7, <1>8
      <4> QED BY <1>5, <2>1, <3>2, <4>1, <4>2 DEF InCode, Label
    <3> QED BY <3>1, <3>2
  <2> QED BY <1>1, <1>2, <1>12, <2>2 DEF HasCode
<1>13. CASE k[1] = "out"
  <2>0. n \in DOMAIN tree /\ tree[n].kind \in Loops \cup {"if"}
    BY <1>1, <1>3, <1>13 DEF IsPart
  <2>1. OutCode(n, b, l, h, lab, brk)
    BY <1>1, <1>2, <1>13 DEF HasCode
  <2>2. tree[n].kind \in Loops => brk2[n] = brk[n]
    BY <1>1, <1>13, LoopEntered
  <2>3. OutCode(n, b, l, h, lab2, brk2)'
    <3>1. CASE tree[n].kind \in {"while", "for"}
      <4>1. h = l + 3
        BY <2>1, <3>1 DEF OutCode
      <4>2. code'[l] = code[l] /\ code'[l + 1] = code[l + 1] /\ code'[h - 1] = code[h - 1]
        BY <1>7, <1>8, <4>1
      <4> QED BY <1>5, <2>0, <2>1, <2>2, <3>1, <4>1, <4>2 DEF OutCode, Loops, Label, Goto
    <3>2. CASE tree[n].kind = "infinite"
      <4>1. h = l + 2
        BY <2>1, <3>2 DEF OutCode
      <4>2. code'[l] = code[l] /\ code'[h - 1] = code[h - 1]
        BY <1>7, <1>8, <4>1
      <4> QED BY <1>5, <2>0, <2>1, <2>2, <3>2, <4>1, <4>2 DEF OutCode, Loops, Label, Goto
    <3>3. CASE tree[n].kind = "until"
      <4>1. h = l + 1
        BY <2>1, <3>3 DEF OutCode
      <4>2. code'[h - 1] = code[h - 1]
        BY <1>7, <1>8, <4>1
      <4> QED BY <1>5, <2>0, <2>1, <2>2, <3>3, <4>1, <4>2 DEF OutCode, Loops, Label
    <3>4. CASE tree[n].kind = "if"
      <4>1. h = l + 2
        BY <2>1, <3>4 DEF OutCode
      <4>2. code'[l] = code[l] /\ code'[l + 1] = code[l + 1]
        BY <1>7, <1>8, <4>1
      <4> QED BY <1>5, <2>0, <2>1, <3>4, <4>1, <4>2 DEF OutCode, Loops, Label, Goto, Branches
    <3> QED BY <2>0, <3>1, <3>2, <3>3, <3>4 DEF Loops
  <2> QED BY <1>1, <1>2, <1>13, <2>3 DEF HasCode
<1> QED BY <1>3, <1>9, <1>10, <1>11, <1>12, <1>13

\* A step that adds a part, with its code, keeps the code laid out.
LEMMA LaidExtends ==
  ASSUME Shape, Shape', NodesOK, TreeExtends, NEW kk, Adds(kk),
         NEW lo \in [Parts -> Nat], NEW hi \in [Parts -> Nat],
         NEW lab, NEW lab2, NEW brk, NEW brk2,
         \A m \in DOMAIN tree : lab2[m] = lab[m],
         \A m : Emitted(<<"in", m, 0>>) => brk2[m] = brk[m],
         Laid(lo, hi, lab, brk),
         NEW piece \in Seq(Instruction), code' = code \o piece,
         NEW l, l = Len(code) + 1, NEW h, h = l + Len(piece),
         HasCode(kk, l, h, lab2, brk2)'
  PROVE  \E lo2, hi2 \in [Parts -> Nat] : Laid(lo2, hi2, lab2, brk2)'
<1>1. /\ code \in Seq(Instruction) /\ Len(code) \in Nat /\ DOMAIN code = 1..Len(code)
      /\ DOMAIN code' = 1..Len(code')
  BY DEF Shape
<1>2. /\ Len(piece) \in Nat /\ Len(code') = Len(code) + Len(piece)
      /\ \A i \in 1..Len(code) : code'[i] = code[i]
  BY <1>1, ConcatProperties, LenProperties
<1>3. CodeExtends
  BY <1>1, <1>2 DEF CodeExtends
<1>4. l \in Nat /\ h \in Nat /\ l \in 1..h /\ h = Len(code') + 1
  BY <1>1, <1>2
<1>5. /\ kk \in Parts /\ ~Emitted(kk)
      /\ \A k \in Parts : Emitted(k)' <=> (Emitted(k) \/ k = kk)
      /\ \A k \in Parts : Emitted(k) =>
           Following(k)' = IF Following(k) = Coming THEN kk ELSE Following(k)
      /\ Following(kk)' = Coming'
  BY DEF Adds
<1>6. PICK lo2 : lo2 = [lo EXCEPT ![kk] = l]
  OBVIOUS
<1>7. PICK hi2 : hi2 = [hi EXCEPT ![kk] = h]
  OBVIOUS
<1>8. /\ lo2 \in [Parts -> Nat] /\ hi2 \in [Parts -> Nat]
      /\ lo2[kk] = l /\ hi2[kk] = h
      /\ \A k \in Parts : k # kk => lo2[k] = lo[k] /\ hi2[k] = hi[k]
  BY <1>4, <1>5, <1>6, <1>7
<1>9. ~Emitted(Coming)
  BY ComingIsNew
<1>10. ASSUME NEW k \in Parts, Emitted(k)'
       PROVE  /\ lo2[k] \in 1..hi2[k] /\ hi2[k] <= Len(code') + 1
              /\ HasCode(k, lo2[k], hi2[k], lab2, brk2)'
              /\ \/ Emitted(Following(k))' /\ hi2[k] = lo2[Following(k)']
                 \/ Following(k)' = Coming' /\ hi2[k] = Len(code') + 1
  <2>1. CASE k = kk
    <3>1. HasCode(k, lo2[k], hi2[k], lab2, brk2)'
      BY <1>8, <2>1
    <3> QED BY <1>4, <1>5, <1>8, <2>1, <3>1
  <2>2. CASE k # kk
    <3>1. Emitted(k)
      BY <1>5, <1>10, <2>2
    <3>2. /\ lo[k] \in 1..hi[k] /\ hi[k] <= Len(code) + 1
          /\ HasCode(k, lo[k], hi[k], lab, brk)
          /\ \/ Emitted(Following(k)) /\ hi[k] = lo[Following(k)]
             \/ Following(k) = Coming /\ hi[k] = Len(code) + 1
      BY <3>1 DEF Laid
    <3>3. PICK a : a = lo[k]
      OBVIOUS
    <3>4. PICK b : b = hi[k]
      OBVIOUS
    <3>5. b \in Nat /\ a \in 1..b /\ b <= Len(code) + 1 /\ HasCode(k, a, b, lab, brk)
      BY <3>2, <3>3, <3>4
    <3>6. HasCode(k, a, b, lab2, brk2)'
      BY <1>3, <3>1, <3>5, HasCodeKept
    <3>7. lo2[k] = a /\ hi2[k] = b
      BY <1>8, <2>2, <3>3, <3>4
    <3>8. b <= Len(code') + 1
      BY <1>1, <1>2, <3>5
    <3>9. PICK F : F = Following(k)
      OBVIOUS
    <3>10. Following(k)' = IF F = Coming THEN kk ELSE F
      BY <1>5, <3>1, <3>9
    <3>11. CASE Emitted(F) /\ b = lo[F]
      <4>1. F \in Parts /\ F # kk /\ F # Coming
        BY <1>5, <1>9, <3>11 DEF Emitted
      <4>2. Following(k)' = F /\ lo2[F] = b
        BY <1>8, <3>10, <3>11, <4>1
      <4>3. Emitted(F)'
        BY <1>5, <3>11, <4>1
      <4>4. Emitted(Following(k))'
        BY <4>2, <4>3 DEF Emitted
      <4> QED BY <3>5, <3>6, <3>7, <3>8, <4>2, <4>4
    <3>12. CASE F = Coming /\ b = l
      <4>1. Following(k)' = kk /\ lo2[kk] = b
        BY <1>8, <3>10, <3>12
      <4>2. Emitted(kk)'
        BY <1>5
      <4>3. Emitted(Following(k))'
        BY <4>1, <4>2 DEF Emitted
      <4> QED BY <3>5, <3>6, <3>7, <3>8, <4>1, <4>3
    <3> QED BY <3>2, <3>4, <3>9, <3>11, <3>12
  <2> QED BY <2>1, <2>2
<1>11. ASSUME NEW i \in DOMAIN code'
       PROVE  \E k \in Parts : Emitted(k)' /\ lo2[k] <= i /\ i < hi2[k]
  <2>1. CASE i \in DOMAIN code
    <3>1. PICK k \in Parts : Emitted(k) /\ lo[k] <= i /\ i < hi[k]
      BY <2>1 DEF Laid
    <3> QED BY <1>5, <1>8, <3>1
  <2>2. CASE i \notin DOMAIN code
    <3>1. l <= i /\ i < h
      BY <1>1, <1>2, <1>4, <2>2
    <3> QED BY <1>5, <1>8, <3>1
  <2> QED BY <2>1, <2>2
<1>12. Laid(lo2, hi2, lab2, brk2)'
  BY <1>10, <1>11 DEF Laid
<1> QED BY <1>8, <1>12

-----------------------------------------------------------------------------
(* The open statements stay a path of the tree.                            *)

LEMMA PathLeaf ==
  ASSUME Shape, PathOK, NEW new, Grows(new), open' = open
  PROVE  PathOK'
<1>1. /\ new \in Nat /\ new \notin DOMAIN tree /\ DOMAIN tree' = DOMAIN tree \cup {new}
      /\ \A j \in DOMAIN open : open[j].node \in DOMAIN tree /\ open[j].node \in Nat
      /\ \A m \in DOMAIN tree : tree'[m] = tree[m]
  <2>1. DOMAIN tree' = DOMAIN tree \cup {new} /\ TreeExtends
    BY ONLY Shape, Grows(new), GrownDomain
  <2>2. new = Len(tree) + 1 /\ DOMAIN tree = 1..Len(tree) /\ Len(tree) \in Nat
    BY ONLY Shape, Grows(new) DEF Shape, Grows
  <2>3. new \in Nat /\ new \notin DOMAIN tree
    BY ONLY <2>2
  <2>4. \A j \in DOMAIN open : open[j].node \in DOMAIN tree
    BY ONLY Shape DEF Shape
  <2>5. \A j \in DOMAIN open : open[j].node \in Nat
    BY ONLY <2>2, <2>4
  <2> QED BY ONLY <2>1, <2>3, <2>4, <2>5 DEF TreeExtends
<1>2. \A j \in DOMAIN open : tree'[new].parent >= open[j].node
  <2> TAKE j \in DOMAIN open
  <2>1. open # <<>>
    OBVIOUS
  <2>2. Coming[2] = Top.node
    BY <2>1 DEF Coming, Ahead
  <2>3. open[j].node < Top.node \/ open[j].node = Top.node
    BY <2>1, TopIsLast
  <2> QED BY <1>1, <2>1, <2>2, <2>3, TopIsLast DEF Grows
<1>3. \A i, j \in DOMAIN open' : i < j => open'[i].node < open'[j].node /\ open'[i].next = "body"
  BY DEF PathOK
<1>4. \A j \in DOMAIN open', c \in DOMAIN tree' :
        c > open'[j].node => tree'[c].parent >= open'[j].node
  BY <1>1, <1>2 DEF PathOK
<1>5. \A j \in DOMAIN open' :
       /\ tree'[open'[j].node].parent = (IF j = 1 THEN 0 ELSE open'[j - 1].node)
       /\ tree'[open'[j].node].block = (IF j = 1 THEN 0 ELSE open'[j - 1].block)
       /\ (open'[j].kind = "if" /\ open'[j].next = "cond") =>
            open'[j].block <= tree'[open'[j].node].elseIfs
  BY <1>1 DEF PathOK
<1> QED BY <1>3, <1>4, <1>5 DEF PathOK

LEMMA PathPush ==
  ASSUME Shape, Shape', PathOK, NEW new, Grows(new), NEW f, f.node = new, f.block = 0,
         open' = Append(open, f)
  PROVE  PathOK'
<1>1. /\ new \in Nat /\ new \notin DOMAIN tree /\ DOMAIN tree' = DOMAIN tree \cup {new}
      /\ new = Len(tree) + 1 /\ DOMAIN tree = 1..Len(tree) /\ Len(tree) \in Nat
      /\ \A j \in DOMAIN open : open[j].node \in DOMAIN tree /\ open[j].node \in Nat
      /\ \A m \in DOMAIN tree : tree'[m] = tree[m]
  <2>1. DOMAIN tree' = DOMAIN tree \cup {new} /\ TreeExtends
    BY ONLY Shape, Grows(new), GrownDomain
  <2>2. new = Len(tree) + 1 /\ DOMAIN tree = 1..Len(tree) /\ Len(tree) \in Nat
    BY ONLY Shape, Grows(new) DEF Shape, Grows
  <2>3. new \in Nat /\ new \notin DOMAIN tree
    BY ONLY <2>2
  <2>4. \A j \in DOMAIN open : open[j].node \in DOMAIN tree
    BY ONLY Shape DEF Shape
  <2>5. \A j \in DOMAIN open : open[j].node \in Nat
    BY ONLY <2>2, <2>4
  <2> QED BY ONLY <2>1, <2>2, <2>3, <2>4, <2>5 DEF TreeExtends
<1>n. PICK N : N = Len(open) + 1
  OBVIOUS
<1>o. /\ DOMAIN open' = DOMAIN open \cup {N} /\ N \notin DOMAIN open
      /\ open'[N] = f /\ N \in Nat /\ DOMAIN open = 1..(N - 1)
      /\ \A j \in DOMAIN open : open'[j] = open[j]
  <2>1. open \in Seq(FrameRecord \cup {f}) /\ Len(open) \in Nat /\ DOMAIN open = 1..Len(open)
    BY DEF Shape
  <2>2. /\ open' \in Seq(FrameRecord \cup {f}) /\ Len(open') = Len(open) + 1
        /\ open'[Len(open) + 1] = f
        /\ \A j \in 1..Len(open) : open'[j] = open[j]
    BY <2>1, AppendProperties
  <2>3. DOMAIN open' = 1..(Len(open) + 1)
    BY <2>2, LenProperties
  <2> QED BY <1>n, <2>1, <2>2, <2>3
<1>p. /\ tree'[new].parent = (IF N = 1 THEN 0 ELSE open[N - 1].node)
      /\ tree'[new].block = (IF N = 1 THEN 0 ELSE open[N - 1].block)
  <2>1. CASE open = <<>>
    <3>1. N = 1
      BY <1>n, <2>1
    <3> QED BY <2>1, <3>1 DEF Grows, Coming
  <2>2. CASE open # <<>>
    <3>1. N # 1 /\ N - 1 = Len(open)
      <4>1. Len(open) \in DOMAIN open /\ Len(open) \in Nat
        BY <2>2, TopIsLast DEF Shape
      <4> QED BY <1>n, <1>o, <4>1
    <3>2. Coming[2] = Top.node /\ Coming[3] = Top.block
      BY <2>2 DEF Coming, Ahead
    <3> QED BY <3>1, <3>2 DEF Grows, Top
  <2> QED BY <2>1, <2>2
<1>2. \A j \in DOMAIN open : tree'[new].parent >= open[j].node /\ open[j].next = "body"
  <2> TAKE j \in DOMAIN open
  <2>1. open # <<>>
    OBVIOUS
  <2>2. Coming[2] = Top.node /\ Top.next = "body"
    BY <2>1 DEF Coming, Ahead, Grows
  <2>3. (open[j].node < Top.node /\ open[j].next = "body")
        \/ (open[j].node = Top.node /\ j = Len(open))
    BY <2>1, TopIsLast
  <2> QED BY <1>1, <2>1, <2>2, <2>3, TopIsLast DEF Grows
<1>3. \A i, j \in DOMAIN open' : i < j => open'[i].node < open'[j].node /\ open'[i].next = "body"
  <2> TAKE i, j \in DOMAIN open'
  <2>1. CASE j # N
    <3>1. i < j => i # N
      BY <1>o, <2>1
    <3> QED BY <1>o, <2>1, <3>1 DEF PathOK
  <2>2. CASE j = N
    <3>1. i < j => i \in DOMAIN open
      BY <1>o, <2>2
    <3>2. i \in DOMAIN open => open[i].node < new
      BY <1>1
    <3> QED BY <1>o, <1>2, <2>2, <3>1, <3>2
  <2> QED BY <2>1, <2>2
<1>4. \A j \in DOMAIN open', c \in DOMAIN tree' :
        c > open'[j].node => tree'[c].parent >= open'[j].node
  <2> TAKE j \in DOMAIN open', c \in DOMAIN tree'
  <2>1. CASE j = N
    BY <1>1, <1>o, <2>1
  <2>2. CASE j # N
    BY <1>1, <1>2, <1>o, <2>2 DEF PathOK
  <2> QED BY <2>1, <2>2
<1>5. \A j \in DOMAIN open' :
       /\ tree'[open'[j].node].parent = (IF j = 1 THEN 0 ELSE open'[j - 1].node)
       /\ tree'[open'[j].node].block = (IF j = 1 THEN 0 ELSE open'[j - 1].block)
       /\ (open'[j].kind = "if" /\ open'[j].next = "cond") =>
            open'[j].block <= tree'[open'[j].node].elseIfs
  <2> TAKE j \in DOMAIN open'
  <2>0. j # 1 => j - 1 \in DOMAIN open
    BY <1>o
  <2>1. CASE j = N
    <3>1. tree'[new].elseIfs \in Nat
      BY <1>1 DEF Shape
    <3> QED BY <1>o, <1>p, <2>0, <2>1, <3>1
  <2>2. CASE j # N
    <3>1. open'[j] = open[j] /\ j \in DOMAIN open /\ tree'[open[j].node] = tree[open[j].node]
      BY <1>1, <1>o, <2>2
    <3> QED BY <1>o, <2>0, <3>1 DEF PathOK
  <2> QED BY <2>1, <2>2
<1> QED BY <1>3, <1>4, <1>5 DEF PathOK

LEMMA PathMove ==
  ASSUME Shape, PathOK, open # <<>>, tree' = tree, NEW f, SetTop(f), f.node = Top.node,
         (f.kind = "if" /\ f.next = "cond") => f.block <= tree[f.node].elseIfs
  PROVE  PathOK'
<1>1. /\ Len(open) \in DOMAIN open /\ Top = open[Len(open)] /\ Len(open) \in Nat
      /\ DOMAIN open = 1..Len(open)
  BY TopIsLast DEF Shape
<1>2. /\ DOMAIN open' = DOMAIN open /\ open'[Len(open)] = f
      /\ \A j \in DOMAIN open : j # Len(open) => open'[j] = open[j]
  BY <1>1 DEF SetTop
<1>n. PICK N : N = Len(open)
  OBVIOUS
<1>o. /\ N \in Nat /\ DOMAIN open = 1..N /\ DOMAIN open' = 1..N /\ open'[N] = f
      /\ f.node = open[N].node /\ \A j \in 1..N : j # N => open'[j] = open[j]
  BY <1>1, <1>2, <1>n
<1>3. \A j \in 1..N : open'[j].node = open[j].node
  BY <1>o
<1>4. \A i, j \in 1..N : i < j => open'[i].node < open'[j].node /\ open'[i].next = "body"
  <2> TAKE i, j \in 1..N
  <2>1. i < j => i # N
    BY <1>o
  <2> QED BY <1>o, <1>3, <2>1 DEF PathOK
<1>5. \A j \in 1..N, c \in DOMAIN tree' : c > open'[j].node => tree'[c].parent >= open'[j].node
  BY <1>o, <1>3 DEF PathOK
<1>6. \A j \in 1..N :
       /\ tree'[open'[j].node].parent = (IF j = 1 THEN 0 ELSE open'[j - 1].node)
       /\ tree'[open'[j].node].block = (IF j = 1 THEN 0 ELSE open'[j - 1].block)
       /\ (open'[j].kind = "if" /\ open'[j].next = "cond") =>
            open'[j].block <= tree'[open'[j].node].elseIfs
  <2> TAKE j \in 1..N
  <2>1. j # 1 => j - 1 \in 1..N /\ j - 1 # N
    BY <1>o
  <2>2. /\ tree[open[j].node].parent = (IF j = 1 THEN 0 ELSE open[j - 1].node)
        /\ tree[open[j].node].block = (IF j = 1 THEN 0 ELSE open[j - 1].block)
        /\ (open[j].kind = "if" /\ open[j].next = "cond") =>
             open[j].block <= tree[open[j].node].elseIfs
    BY <1>o DEF PathOK
  <2>3. /\ tree'[open'[j].node].parent = (IF j = 1 THEN 0 ELSE open'[j - 1].node)
        /\ tree'[open'[j].node].block = (IF j = 1 THEN 0 ELSE open'[j - 1].block)
    BY <1>o, <1>3, <2>1, <2>2
  <2>4. CASE j = N
    BY <1>o, <2>3, <2>4
  <2>5. CASE j # N
    BY <1>o, <2>2, <2>3, <2>5
  <2> QED BY <2>4, <2>5
<1> QED BY <1>o, <1>4, <1>5, <1>6 DEF PathOK

LEMMA PathLeave ==
  ASSUME Shape, PathOK, open # <<>>, tree' = tree, PopTop
  PROVE  PathOK'
<1>1. /\ DOMAIN open' \subseteq DOMAIN open
      /\ \A j \in DOMAIN open' : open'[j] = open[j]
      /\ \A j \in DOMAIN open' : j # 1 => j - 1 \in DOMAIN open'
  <2>1. PICK N : N = Len(open)
    OBVIOUS
  <2>2. /\ N \in Nat /\ DOMAIN open = 1..N /\ DOMAIN open' = (1..N) \ {N}
        /\ \A j \in DOMAIN open' : open'[j] = open[j]
    BY <2>1, Popped DEF Shape
  <2>3. \A j \in (1..N) \ {N} : j # 1 => j - 1 \in (1..N) \ {N}
    BY ONLY <2>2
  <2> QED BY ONLY <2>2, <2>3
<1>2. \A i, j \in DOMAIN open' : i < j => open'[i].node < open'[j].node /\ open'[i].next = "body"
  BY <1>1 DEF PathOK
<1>3. \A j \in DOMAIN open', c \in DOMAIN tree' :
        c > open'[j].node => tree'[c].parent >= open'[j].node
  BY <1>1 DEF PathOK
<1>4. \A j \in DOMAIN open' :
       /\ tree'[open'[j].node].parent = (IF j = 1 THEN 0 ELSE open'[j - 1].node)
       /\ tree'[open'[j].node].block = (IF j = 1 THEN 0 ELSE open'[j - 1].block)
       /\ (open'[j].kind = "if" /\ open'[j].next = "cond") =>
            open'[j].block <= tree'[open'[j].node].elseIfs
  BY <1>1 DEF PathOK
<1> QED BY <1>2, <1>3, <1>4 DEF PathOK

-----------------------------------------------------------------------------
(* Each statement stays in a block that has been entered.                  *)

LEMMA NodesKept ==
  ASSUME Shape, Shape', NodesOK, TreeExtends, NEW kk, Adds(kk),
         \A n \in DOMAIN tree' \ DOMAIN tree :
           /\ tree'[n].elseIfs <= MaxElseIfs
           /\ Emitted(<<"in", tree'[n].parent, tree'[n].block>>)
           /\ tree'[n].kind = "break" =>
                /\ (InnermostLoop')[n] \in DOMAIN tree
                /\ tree[(InnermostLoop')[n]].kind \in Loops
  PROVE  NodesOK'
<1>1. ASSUME NEW n \in DOMAIN tree'
      PROVE  /\ tree'[n].elseIfs <= MaxElseIfs
             /\ Emitted(<<"in", tree[n].parent, tree[n].block>>)'
             /\ tree'[n].kind = "break" =>
                  /\ (InnermostLoop')[n] \in DOMAIN tree'
                  /\ tree'[(InnermostLoop')[n]].kind \in Loops
  <2>1. PICK e : e = <<"in", tree'[n].parent, tree'[n].block>>
    OBVIOUS
  <2>2. /\ tree'[n].elseIfs <= MaxElseIfs
        /\ Emitted(e)
        /\ tree'[n].kind = "break" =>
             /\ (InnermostLoop')[n] \in DOMAIN tree
             /\ tree[(InnermostLoop')[n]].kind \in Loops
    <3>1. CASE n \in DOMAIN tree
      <4>1. tree'[n] = tree[n] /\ (InnermostLoop')[n] = InnermostLoop[n]
        BY <3>1, InnermostKept DEF TreeExtends
      <4> QED BY <2>1, <3>1, <4>1 DEF NodesOK
    <3>2. CASE n \notin DOMAIN tree
      BY <2>1, <3>2
    <3> QED BY <3>1, <3>2
  <2>3. Emitted(e)'
    BY <2>2 DEF Adds, Emitted
  <2>4. Emitted(<<"in", tree[n].parent, tree[n].block>>)'
    BY <2>1, <2>3 DEF Emitted
  <2> QED BY <2>2, <2>4 DEF TreeExtends
<1> QED BY <1>1 DEF NodesOK

\* The block being walked has been entered.
LEMMA HomeEntered ==
  ASSUME Shape, PathOK, open # <<>> => Top.next = "body"
  PROVE  Emitted(<<"in", Coming[2], Coming[3]>>)
<1>1. PICK P : P = Coming[2]
  OBVIOUS
<1>2. PICK B : B = Coming[3]
  OBVIOUS
<1>3. PICK e : e = <<"in", P, B>>
  OBVIOUS
<1>4. e \in Parts /\ e[1] = "in" /\ e[2] = P /\ e[3] = B /\ Coming = <<"out", P, B>>
  BY <1>1, <1>2, <1>3, ComingInBlock DEF Parts
<1>5. CASE open = <<>>
  <2>1. P = 0 /\ B = 0
    BY <1>1, <1>2, <1>5 DEF Coming
  <2>2. DOMAIN open = {}
    BY <1>5
  <2> QED BY <1>1, <1>2, <1>3, <1>4, <2>1, <2>2 DEF Emitted, IsPart
<1>6. CASE open # <<>>
  <2>1. Coming = Ahead(Top) /\ Top.node = P /\ Top.block = B
    BY <1>1, <1>2, <1>6 DEF Coming, Ahead
  <2>2. IsPart(e)
    <3>1. /\ Top.node \in DOMAIN tree /\ FrameOK(Top) /\ tree[Top.node].kind = Top.kind
          /\ Top.kind \in Loops \cup {"if"}
      BY <1>6, TopIsLast DEF Shape
    <3>2. Top.kind = "if" => B < Branches(tree[P])
      BY <2>1, <3>1 DEF FrameOK
    <3>3. Top.kind # "if" => B = 0
      BY <2>1, <3>1 DEF FrameOK
    <3> QED BY <1>4, <2>1, <3>1, <3>2, <3>3 DEF IsPart, Loops
  <2>3. Stage(e) < Stage(Ahead(Top))
    <3>1. Stage(e) = 4 * B + 3
      BY <1>4 DEF Stage
    <3>2. Stage(Ahead(Top)) = 4 * B + 4
      BY <1>4, <2>1 DEF Stage
    <3>3. B \in Nat
      BY <1>2, ComingInBlock
    <3> QED BY ONLY <3>1, <3>2, <3>3
  <2> QED BY <1>1, <1>2, <1>3, <1>4, <1>6, <2>1, <2>2, <2>3, EmittedOfTop
<1> QED BY <1>5, <1>6

\* The innermost open loop is that of a new statement.
LEMMA InnermostOpen ==
  ASSUME Shape, PathOK, NEW J \in DOMAIN open, open[J].kind \in Loops,
         \A j \in DOMAIN open : j > J => open[j].kind \notin Loops
  PROVE  InnerOf(InnermostLoop, Top.node) = open[J].node
<1>0. PICK f : f = InnermostLoop
  OBVIOUS
<1>1. /\ \A m \in DOMAIN tree : f[m] = InnerOf(f, tree[m].parent)
      /\ \A j \in DOMAIN open : /\ open[j].node \in DOMAIN tree /\ open[j].node # 0
                                /\ tree[open[j].node].kind = open[j].kind
      /\ Len(open) \in Nat /\ DOMAIN open = 1..Len(open)
  BY <1>0, InnermostIs DEF Shape, InnerEquation
<1> DEFINE S == {j \in DOMAIN open : j >= J /\ InnerOf(f, open[j].node) # open[J].node}
<1>2. S = {}
  <2> SUFFICES ASSUME S # {} PROVE FALSE
    OBVIOUS
  <2>1. S \in SUBSET Nat
    BY <1>1
  <2>2. PICK j \in S : \A s \in S : j <= s
    <3> HIDE DEF S
    <3> QED BY <2>1, LeastExists
  <2>3. j \in DOMAIN open /\ j >= J /\ InnerOf(f, open[j].node) # open[J].node
    OBVIOUS
  <2>4. j # J
    BY <1>1, <2>3 DEF InnerOf
  <2>5. j > J /\ j - 1 >= J /\ j - 1 \in DOMAIN open /\ j # 1 /\ ~(j <= j - 1)
    BY ONLY <1>1, <2>3, <2>4, J \in DOMAIN open
  <2>6. open[j].kind \notin Loops
    BY <2>3, <2>5
  <2>7. InnerOf(f, open[j].node) = f[open[j].node]
    BY <1>1, <2>3, <2>6 DEF InnerOf
  <2>8. tree[open[j].node].parent = open[j - 1].node
    BY <2>3, <2>5 DEF PathOK
  <2>9. f[open[j].node] = InnerOf(f, open[j - 1].node)
    BY <1>1, <2>3, <2>8
  <2>10. j - 1 \notin S
    <3> HIDE DEF S
    <3> QED BY ONLY <2>2, <2>5
  <2>11. InnerOf(f, open[j - 1].node) = open[J].node
    <3>1. j - 1 \in S \/ InnerOf(f, open[j - 1].node) = open[J].node
      BY <2>5
    <3> QED BY <2>10, <3>1
  <2> QED BY <2>3, <2>7, <2>9, <2>11
<1>3. Len(open) \in DOMAIN open /\ Len(open) >= J
  BY <1>1
<1>4. InnerOf(f, open[Len(open)].node) = open[J].node
  <2>1. Len(open) \in S \/ InnerOf(f, open[Len(open)].node) = open[J].node
    BY <1>3
  <2> HIDE DEF S
  <2> QED BY ONLY <1>2, <2>1
<1> QED BY <1>0, <1>4 DEF Top

-----------------------------------------------------------------------------
(* The labels kept for the open statements.                                *)

\* The last break label is that of the innermost open loop.
LEMMA LastLoop ==
  ASSUME Shape, breakLabels \in Seq(Nat), breakLabels # <<>>,
         NEW lab, NEW brk, NEW loops \in Seq(Nat), Kept(lab, brk, loops),
         NEW L, L = Len(breakLabels)
  PROVE  /\ L \in Nat /\ L >= 1 /\ DOMAIN loops = 1..L /\ DOMAIN breakLabels = 1..L
         /\ loops[L] \in OpenLoops /\ brk[open[loops[L]].node] = breakLabels[L]
         /\ \A j \in OpenLoops : j <= loops[L]
         /\ \A k \in 1..(L - 1) : loops[k] # loops[L]
<1>1. /\ L \in Nat /\ L >= 1 /\ DOMAIN loops = 1..L /\ DOMAIN breakLabels = 1..L
  BY EmptySeq, LenProperties DEF Kept
<1>2. L \in DOMAIN loops
  BY <1>1
<1>3. loops[L] \in OpenLoops /\ brk[open[loops[L]].node] = breakLabels[L]
  BY <1>2 DEF Kept
<1>4. \A k \in 1..L : k < L => loops[k] < loops[L]
  BY <1>1, <1>2 DEF Kept
<1>5. \A k \in 1..L : loops[k] \in Nat
  BY <1>1
<1>6. ASSUME NEW j \in OpenLoops PROVE j <= loops[L]
  <2>1. PICK k \in DOMAIN loops : loops[k] = j
    BY DEF Kept
  <2>2. k < L \/ k = L
    BY <1>1, <2>1
  <2> QED BY <1>1, <1>4, <1>5, <2>1, <2>2
<1>7. ASSUME NEW k \in 1..(L - 1) PROVE loops[k] # loops[L]
  <2>1. k \in 1..L /\ k < L /\ L \in 1..L
    BY ONLY <1>1, k \in 1..(L - 1)
  <2>2. loops[k] \in Nat /\ loops[L] \in Nat /\ loops[k] < loops[L]
    BY ONLY <1>4, <1>5, <2>1
  <2> QED BY ONLY <2>2
<1> QED BY <1>1, <1>3, <1>6, <1>7

\* Steps that neither enter nor leave the block of a loop.
LEMMA KeptSame ==
  ASSUME Shape, NEW lab, NEW brk, NEW loops, Kept(lab, brk, loops),
         open' = open, breakLabels' = breakLabels
  PROVE  Kept(lab, brk, loops)'
BY DEF Kept, OpenLoops

LEMMA KeptPush ==
  ASSUME Shape, NEW lab, NEW brk, NEW loops, Kept(lab, brk, loops),
         NEW new, new = Len(tree) + 1, NEW f, f.node = new, f.next # "body",
         f.labels \in LabelRecord, open' = Append(open, f), breakLabels' = breakLabels,
         NEW lab2, lab2[new] = f.labels, \A m \in DOMAIN tree : lab2[m] = lab[m]
  PROVE  Kept(lab2, brk, loops)'
<1>0. new \in Nat /\ new \notin DOMAIN tree /\ DOMAIN tree \subseteq Nat
  BY DEF Shape
<1>n. PICK N : N = Len(open) + 1
  OBVIOUS
<1>o. /\ DOMAIN open' = DOMAIN open \cup {N} /\ N \notin DOMAIN open /\ open'[N] = f
      /\ \A j \in DOMAIN open : open'[j] = open[j]
  <2>1. open \in Seq(FrameRecord \cup {f}) /\ Len(open) \in Nat /\ DOMAIN open = 1..Len(open)
    BY DEF Shape
  <2>2. /\ open' \in Seq(FrameRecord \cup {f}) /\ Len(open') = Len(open) + 1
        /\ open'[Len(open) + 1] = f
        /\ \A j \in 1..Len(open) : open'[j] = open[j]
    BY <2>1, AppendProperties
  <2>3. DOMAIN open' = 1..(Len(open) + 1)
    BY <2>2, LenProperties
  <2> QED BY <1>n, <2>1, <2>2, <2>3
<1>4. OpenLoops' = OpenLoops
  BY <1>o DEF OpenLoops
<1>5. \A j \in DOMAIN open' : lab2[open'[j].node] = open'[j].labels
  <2> TAKE j \in DOMAIN open'
  <2>1. CASE j = N
    BY <1>o, <2>1
  <2>2. CASE j # N
    <3>1. j \in DOMAIN open /\ open'[j] = open[j] /\ open[j].node \in DOMAIN tree
      BY <1>o, <2>2 DEF Shape
    <3> QED BY <3>1 DEF Kept
  <2> QED BY <2>1, <2>2
<1>6. \A j \in OpenLoops : open'[j] = open[j]
  BY <1>o DEF OpenLoops
<1>7. Kept(lab2, brk, loops)'
  BY <1>4, <1>5, <1>6 DEF Kept
<1> QED BY <1>7

LEMMA KeptMove ==
  ASSUME Shape, NEW lab, NEW brk, NEW loops, Kept(lab, brk, loops), open # <<>>,
         NEW f, SetTop(f), f.node = Top.node, f.labels = Top.labels, f.kind = Top.kind,
         Top.kind \in Loops => Top.next # "body" /\ f.next # "body",
         breakLabels' = breakLabels
  PROVE  Kept(lab, brk, loops)'
<1>1. Len(open) \in DOMAIN open /\ Top = open[Len(open)]
  BY DEF Shape, Top
<1>2. /\ DOMAIN open' = DOMAIN open /\ open'[Len(open)] = f
      /\ \A j \in DOMAIN open : j # Len(open) => open'[j] = open[j]
  BY <1>1 DEF SetTop
<1>3. OpenLoops' = OpenLoops
  BY <1>1, <1>2 DEF OpenLoops
<1>4. \A j \in DOMAIN open' : open'[j].node = open[j].node /\ open'[j].labels = open[j].labels
  BY <1>1, <1>2
<1>5. \A j \in OpenLoops : open'[j].node = open[j].node
  BY <1>2, <1>4 DEF OpenLoops
<1> QED BY <1>2, <1>3, <1>4, <1>5 DEF Kept

LEMMA KeptLeave ==
  ASSUME Shape, NEW lab, NEW brk, NEW loops, Kept(lab, brk, loops), open # <<>>, PopTop,
         Top.kind \in Loops => Top.next # "body", breakLabels' = breakLabels
  PROVE  Kept(lab, brk, loops)'
<1>1. Len(open) \in DOMAIN open /\ Top = open[Len(open)]
  BY DEF Shape, Top
<1>2. /\ DOMAIN open' = DOMAIN open \ {Len(open)}
      /\ \A j \in DOMAIN open' : open'[j] = open[j]
  BY Popped
<1>3. OpenLoops' = OpenLoops
  BY <1>1, <1>2 DEF OpenLoops
<1>4. \A j \in OpenLoops : open'[j] = open[j]
  BY <1>2, <1>3 DEF OpenLoops
<1> QED BY <1>2, <1>3, <1>4 DEF Kept

\* The block of a loop is entered.
LEMMA KeptEnterLoop ==
  ASSUME Shape, PathOK, breakLabels \in Seq(Nat),
         NEW lab, NEW brk \in [Nat -> Nat], NEW loops \in Seq(Nat), Kept(lab, brk, loops),
         open # <<>>, Top.kind \in Loops, Top.next = "block",
         NEW f, SetTop(f), f.node = Top.node, f.labels = Top.labels, f.kind = Top.kind,
         f.next = "body", NEW l \in Nat, breakLabels' = Append(breakLabels, l)
  PROVE  \E brk2 \in [Nat -> Nat], loops2 \in Seq(Nat) :
           /\ Kept(lab, brk2, loops2)'
           /\ \A m \in Nat : m # Top.node => brk2[m] = brk[m]
<1>1. /\ Len(open) \in DOMAIN open /\ Top = open[Len(open)] /\ Len(open) \in Nat
      /\ \A j \in DOMAIN open : j # Len(open) => j < Len(open) /\ open[j].node # Top.node
      /\ Top.node \in Nat
  BY TopIsLast DEF Shape
<1>2. /\ DOMAIN open' = DOMAIN open /\ open'[Len(open)] = f
      /\ \A j \in DOMAIN open : j # Len(open) => open'[j] = open[j]
  BY <1>1 DEF SetTop
<1>n. PICK N : N = Len(open)
  OBVIOUS
<1>m. PICK n : n = Top.node
  OBVIOUS
<1>3. PICK brk2 : brk2 = [brk EXCEPT ![n] = l]
  OBVIOUS
<1>4. PICK loops2 : loops2 = Append(loops, N)
  OBVIOUS
<1>5. /\ brk2 \in [Nat -> Nat] /\ brk2[n] = l /\ \A m \in Nat : m # n => brk2[m] = brk[m]
  BY <1>1, <1>3, <1>m
<1>6. /\ loops2 \in Seq(Nat) /\ Len(loops2) = Len(loops) + 1
      /\ loops2[Len(loops) + 1] = N /\ \A k \in 1..Len(loops) : loops2[k] = loops[k]
      /\ Len(loops) \in Nat /\ DOMAIN loops = 1..Len(loops)
      /\ DOMAIN loops2 = 1..(Len(loops) + 1)
  BY <1>1, <1>n, <1>4, AppendProperties, LenProperties
<1>7. /\ Len(breakLabels') = Len(breakLabels) + 1 /\ breakLabels'[Len(breakLabels) + 1] = l
      /\ \A k \in 1..Len(breakLabels) : breakLabels'[k] = breakLabels[k]
  BY AppendProperties
<1>8. PICK K : K = Len(loops)
  OBVIOUS
<1>9. /\ K \in Nat /\ Len(breakLabels) = K /\ DOMAIN loops = 1..K
      /\ loops2[K + 1] = N /\ DOMAIN loops2 = 1..(K + 1)
      /\ breakLabels'[K + 1] = l
      /\ \A k \in 1..K : loops2[k] = loops[k] /\ breakLabels'[k] = breakLabels[k]
  BY <1>6, <1>7, <1>8 DEF Kept
<1>10. OpenLoops' = OpenLoops \cup {N} /\ N \notin OpenLoops
  BY <1>1, <1>2, <1>n DEF OpenLoops
<1>11. \A j \in DOMAIN open' : lab[open'[j].node] = open'[j].labels
  <2>1. \A j \in DOMAIN open : open'[j].node = open[j].node /\ open'[j].labels = open[j].labels
    BY <1>1, <1>2
  <2>2. DOMAIN open' = DOMAIN open
    BY <1>2
  <2>3. \A j \in DOMAIN open : lab[open[j].node] = open[j].labels
    BY DEF Kept
  <2> QED BY ONLY <2>1, <2>2, <2>3
<1>12. Len(loops2) = Len(breakLabels')
  BY <1>6, <1>7 DEF Kept
<1>13. ASSUME NEW k \in 1..K
       PROVE  /\ loops2[k] \in OpenLoops /\ loops2[k] < N
              /\ brk2[open'[loops2[k]].node] = breakLabels'[k]
  <2>1. loops[k] \in OpenLoops /\ brk[open[loops[k]].node] = breakLabels[k]
    BY <1>9 DEF Kept
  <2>2. loops[k] # N /\ loops[k] \in DOMAIN open
    BY <1>10, <2>1 DEF OpenLoops
  <2>3. open'[loops[k]] = open[loops[k]] /\ open[loops[k]].node # n /\ loops[k] < N
    BY <1>1, <1>2, <1>n, <1>m, <2>2
  <2>n. open[loops[k]].node \in Nat
    <3>1. \A j \in DOMAIN open : open[j].node \in Nat
      <4>1. DOMAIN tree \subseteq Nat
        BY ONLY Shape DEF Shape
      <4>2. \A j \in DOMAIN open : open[j].node \in DOMAIN tree
        BY ONLY Shape DEF Shape
      <4> QED BY ONLY <4>1, <4>2
    <3> QED BY <2>2, <3>1
  <2>4. loops2[k] = loops[k] /\ breakLabels'[k] = breakLabels[k]
    BY <1>9
  <2> QED BY <1>5, <2>1, <2>3, <2>n, <2>4
<1>c. \A k \in 1..(K + 1) : k \in 1..K \/ k = K + 1
  BY <1>9
<1>14. \A k \in DOMAIN loops2 :
         loops2[k] \in OpenLoops' /\ brk2[open'[loops2[k]].node] = breakLabels'[k]
  <2> TAKE k \in DOMAIN loops2
  <2>1. CASE k = K + 1
    <3>1. open'[N].node = n
      BY <1>2, <1>m, <1>n
    <3> QED BY ONLY <1>5, <1>9, <1>10, <2>1, <3>1
  <2>2. CASE k \in 1..K
    BY <1>10, <1>13, <2>2
  <2> QED BY <1>9, <1>c, <2>1, <2>2
<1>15. \A k, m \in DOMAIN loops2 : k < m => loops2[k] < loops2[m]
  <2> SUFFICES ASSUME NEW k \in 1..(K + 1), NEW m \in 1..(K + 1), k < m
               PROVE  loops2[k] < loops2[m]
    BY <1>9
  <2>1. k \in 1..K
    BY <1>9
  <2>2. CASE m = K + 1
    BY <1>9, <1>13, <2>1, <2>2
  <2>3. CASE m \in 1..K
    BY <1>9, <2>1, <2>3 DEF Kept
  <2> QED BY <1>c, <2>2, <2>3
<1>16. \A j \in OpenLoops' : \E k \in DOMAIN loops2 : loops2[k] = j
  <2> TAKE j \in OpenLoops'
  <2>1. CASE j = N
    <3>1. K + 1 \in DOMAIN loops2
      BY <1>9
    <3> QED BY <1>9, <2>1, <3>1
  <2>2. CASE j \in OpenLoops
    <3>1. PICK k \in DOMAIN loops : loops[k] = j
      BY <2>2 DEF Kept
    <3>2. k \in DOMAIN loops2 /\ loops2[k] = j
      BY <1>9, <3>1
    <3> QED BY <3>2
  <2> QED BY <1>10, <2>1, <2>2
<1>17. Kept(lab, brk2, loops2)'
  BY <1>11, <1>12, <1>14, <1>15, <1>16 DEF Kept
<1> QED BY <1>5, <1>6, <1>17, <1>m

\* The block of a loop is left.
LEMMA KeptExitLoop ==
  ASSUME Shape, breakLabels \in Seq(Nat), breakLabels # <<>>,
         NEW lab, NEW brk, NEW loops \in Seq(Nat), Kept(lab, brk, loops),
         open # <<>>, Top.kind \in Loops, Top.next = "body",
         breakLabels' = BreakLabelsPopped,
         \/ PopTop
         \/ \E f : /\ SetTop(f) /\ f.node = Top.node /\ f.labels = Top.labels
                   /\ f.next # "body"
  PROVE  /\ \E loops2 \in Seq(Nat) : Kept(lab, brk, loops2)'
         /\ brk[Top.node] = breakLabels[Len(breakLabels)]
<1>1. Len(open) \in DOMAIN open /\ Top = open[Len(open)] /\ Len(open) \in Nat
      /\ DOMAIN open = 1..Len(open)
  BY DEF Shape, Top
<1>n. PICK N : N = Len(open)
  OBVIOUS
<1>l. PICK L : L = Len(breakLabels)
  OBVIOUS
<1>2. /\ L \in Nat /\ L >= 1 /\ DOMAIN loops = 1..L /\ DOMAIN breakLabels = 1..L
      /\ loops[L] \in OpenLoops /\ brk[open[loops[L]].node] = breakLabels[L]
      /\ \A j \in OpenLoops : j <= loops[L]
      /\ \A k \in 1..(L - 1) : loops[k] # loops[L]
  BY <1>l, LastLoop
<1>3. loops[L] = N
  <2>1. N \in OpenLoops
    BY <1>1, <1>n DEF OpenLoops
  <2>2. loops[L] \in Nat /\ loops[L] <= N /\ N <= loops[L] /\ N \in Nat
    BY <1>1, <1>2, <1>n, <2>1 DEF OpenLoops
  <2> QED BY ONLY <2>2
<1>4. /\ \A j \in DOMAIN open' : j \in DOMAIN open /\ open'[j].node = open[j].node
                                 /\ open'[j].labels = open[j].labels
      /\ \A j \in OpenLoops : j # N => j \in DOMAIN open' /\ open'[j] = open[j]
      /\ OpenLoops' = OpenLoops \ {N}
  <2>1. CASE PopTop
    <3>1. /\ DOMAIN open' = DOMAIN open \ {Len(open)}
          /\ \A j \in DOMAIN open' : open'[j] = open[j]
      BY <2>1, Popped
    <3> QED BY <1>n, <3>1 DEF OpenLoops
  <2>2. CASE \E f : /\ SetTop(f) /\ f.node = Top.node /\ f.labels = Top.labels
                    /\ f.next # "body"
    <3>1. PICK f : /\ SetTop(f) /\ f.node = Top.node /\ f.labels = Top.labels
                   /\ f.next # "body"
      BY <2>2
    <3>2. /\ DOMAIN open' = DOMAIN open /\ open'[Len(open)] = f
          /\ \A j \in DOMAIN open : j # Len(open) => open'[j] = open[j]
      BY <1>1, <3>1 DEF SetTop
    <3> QED BY <1>1, <1>n, <3>1, <3>2 DEF OpenLoops
  <2> QED BY <2>1, <2>2
<1>5. PICK loops2 : loops2 = [k \in 1..(L - 1) |-> loops[k]]
  OBVIOUS
<1>6. /\ loops2 \in Seq(Nat) /\ Len(loops2) = L - 1 /\ DOMAIN loops2 = 1..(L - 1)
      /\ \A k \in 1..(L - 1) : loops2[k] = loops[k]
  <2>1. \A k \in 1..(L - 1) : loops[k] \in Nat
    BY <1>2
  <2>2. L - 1 \in Nat
    BY <1>2
  <2>3. PICK M : M = L - 1
    OBVIOUS
  <2>4. /\ loops2 \in Seq(Nat) /\ Len(loops2) = M /\ DOMAIN loops2 = 1..M
        /\ \A k \in 1..M : loops2[k] = loops[k]
    <3>1. M \in Nat
      BY <2>2, <2>3
    <3>2. loops2 = [k \in 1..M |-> loops[k]]
      BY <1>5, <2>3
    <3>3. \A k \in 1..M : loops[k] \in Nat
      BY <2>1, <2>3
    <3>4. loops2 \in [1..M -> Nat]
      BY ONLY <3>2, <3>3
    <3>5. loops2 \in Seq(Nat) /\ Len(loops2) = M
      BY ONLY <3>1, <3>4
    <3> QED BY ONLY <3>2, <3>5
  <2> QED BY <2>3, <2>4
<1>7. /\ Len(breakLabels') = L - 1
      /\ \A k \in 1..(L - 1) : breakLabels'[k] = breakLabels[k]
  <2>1. \A k \in 1..(L - 1) : breakLabels[k] \in Nat
    BY <1>2
  <2>2. /\ breakLabels' = [k \in 1..(L - 1) |-> breakLabels[k]]
    <3>1. breakLabels' = SubSeq(breakLabels, 1, L - 1)
      BY <1>l DEF BreakLabelsPopped
    <3> QED BY <1>2, <3>1
  <2>3. L - 1 \in Nat
    BY <1>2
  <2> QED BY ONLY <2>1, <2>2, <2>3
<1>8. \A k \in 1..(L - 1) : k \in 1..L /\ k < L
  BY ONLY <1>2
<1>9. \A j \in DOMAIN open' : lab[open'[j].node] = open'[j].labels
  BY <1>4 DEF Kept
<1>10. \A k \in DOMAIN loops2 :
         loops2[k] \in OpenLoops' /\ brk[open'[loops2[k]].node] = breakLabels'[k]
  <2> SUFFICES ASSUME NEW k \in 1..(L - 1)
               PROVE  loops[k] \in OpenLoops' /\ brk[open'[loops[k]].node] = breakLabels[k]
    BY <1>6, <1>7
  <2>1. loops[k] \in OpenLoops /\ brk[open[loops[k]].node] = breakLabels[k]
    BY <1>2, <1>8 DEF Kept
  <2>2. loops[k] # N
    BY <1>2, <1>3
  <2> QED BY <1>4, <2>1, <2>2
<1>11. \A k, m \in DOMAIN loops2 : k < m => loops2[k] < loops2[m]
  BY <1>2, <1>6, <1>8 DEF Kept
<1>12. \A j \in OpenLoops' : \E k \in DOMAIN loops2 : loops2[k] = j
  <2> TAKE j \in OpenLoops'
  <2>1. PICK k \in DOMAIN loops : loops[k] = j
    BY <1>4 DEF Kept
  <2>2. k # L
    BY <1>3, <1>4, <2>1
  <2>3. k \in 1..(L - 1)
    BY <1>2, <2>1, <2>2
  <2> QED BY <1>6, <2>1, <2>3
<1>13. Kept(lab, brk, loops2)'
  BY <1>6, <1>7, <1>9, <1>10, <1>11, <1>12 DEF Kept
<1> QED BY <1>1, <1>2, <1>3, <1>6, <1>13, <1>l, <1>n

-----------------------------------------------------------------------------
(* What a step appends to the code.                                        *)

LEMMA CodeTail ==
  ASSUME Shape, NEW piece \in Seq(Instruction), code' = code \o piece,
         NEW l, l = Len(code) + 1, NEW s, s = Len(piece)
  PROVE  /\ l \in Nat /\ l >= 1 /\ s \in Nat
         /\ \A i \in 1..s : code'[l + i - 1] = piece[i]
         /\ s >= 1 => code'[l] = piece[1]
         /\ s >= 2 => code'[l + 1] = piece[2]
         /\ s >= 3 => code'[l + 2] = piece[3]
<1>1. PICK c : c = Len(code)
  OBVIOUS
<1>2. c \in Nat /\ s \in Nat /\ code \in Seq(Instruction) /\ l = c + 1
  BY <1>1, LenProperties DEF Shape
<1>3. \A i \in 1..(c + s) : code'[i] = IF i <= c THEN code[i] ELSE piece[i - c]
  BY <1>1, <1>2, ConcatProperties
<1>4. ASSUME NEW i \in 1..s PROVE code'[l + i - 1] = piece[i]
  <2>1. l + i - 1 = c + i /\ c + i \in 1..(c + s) /\ ~(c + i <= c) /\ c + i - c = i
    BY ONLY <1>2, i \in 1..s
  <2>2. PICK j : j = c + i
    OBVIOUS
  <2>3. j \in 1..(c + s) /\ ~(j <= c) /\ j - c = i /\ l + i - 1 = j
    BY ONLY <1>2, <2>2, i \in 1..s
  <2>4. code'[j] = piece[i]
    BY ONLY <1>3, <2>3
  <2> QED BY ONLY <2>3, <2>4
<1>5. /\ s >= 1 => 1 \in 1..s /\ l + 1 - 1 = l
      /\ s >= 2 => 2 \in 1..s /\ l + 2 - 1 = l + 1
      /\ s >= 3 => 3 \in 1..s /\ l + 3 - 1 = l + 2
  BY ONLY <1>2
<1>6. s >= 1 => code'[l] = piece[1]
  <2> SUFFICES ASSUME s >= 1 PROVE code'[l] = piece[1]
    OBVIOUS
  <2>1. code'[l + 1 - 1] = piece[1]
    BY <1>4, <1>5
  <2> QED BY <1>5, <2>1
<1>7. s >= 2 => code'[l + 1] = piece[2]
  <2> SUFFICES ASSUME s >= 2 PROVE code'[l + 1] = piece[2]
    OBVIOUS
  <2>1. code'[l + 2 - 1] = piece[2]
    BY <1>4, <1>5
  <2> QED BY <1>5, <2>1
<1>8. s >= 3 => code'[l + 2] = piece[3]
  <2> SUFFICES ASSUME s >= 3 PROVE code'[l + 2] = piece[3]
    OBVIOUS
  <2>1. code'[l + 3 - 1] = piece[3]
    BY <1>4, <1>5
  <2> QED BY <1>5, <2>1
<1> QED BY <1>2, <1>4, <1>6, <1>7, <1>8

\* From l to h is the code of an expression, between two other pieces.
ExprAt(op, n, k, d, pre, p, post, q, l, h) ==
  /\ h \in Nat /\ l \in Nat /\ l >= 1 /\ p \in Nat /\ q \in Nat
  /\ h = l + p + d + 1 + q
  /\ \A i \in 1..p : code[l + i - 1] = pre[i]
  /\ \A i \in (l + p)..(h - q - 2) : code[i].op = "label"
  /\ code[h - q - 1] = Instr(op, n, k)
  /\ \A i \in 1..q : code[h - q - 1 + i] = post[i]

LEMMA ExprTail ==
  ASSUME Shape, NEW op \in {"simple", "eval", "update"}, NEW n \in Nat, NEW k \in Nat,
         NEW d \in Nat, NEW pre \in Seq(Instruction), NEW post \in Seq(Instruction),
         NEW piece, piece = pre \o ExprCode(op, n, k, d) \o post, code' = code \o piece,
         NEW l, l = Len(code) + 1, NEW p, p = Len(pre), NEW q, q = Len(post),
         NEW h, h = l + Len(piece)
  PROVE  piece \in Seq(Instruction) /\ ExprAt(op, n, k, d, pre, p, post, q, l, h)'
<1>0. PICK E : E = ExprCode(op, n, k, d)
  OBVIOUS
<1>1. E \in Seq(Instruction) /\ Len(E) = d + 1 /\ E[d + 1] = Instr(op, n, k)
      /\ \A i \in 1..d : E[i].op = "label"
  <2>1. PICK s : s = [j \in 1..d |-> Label(labelCounter + j - 1)]
    OBVIOUS
  <2>2. \A j \in 1..d : Label(labelCounter + j - 1) \in Instruction /\ s[j].op = "label"
    BY <2>1 DEF Label, Instruction, Shape
  <2>3. s \in Seq(Instruction) /\ Len(s) = d
    BY <2>1, <2>2
  <2>4. PICK a : a = Instr(op, n, k)
    OBVIOUS
  <2>5. a \in Instruction /\ <<a>> \in Seq(Instruction) /\ Len(<<a>>) = 1 /\ <<a>>[1] = a
    BY <2>4 DEF Instr, Instruction
  <2>6. E = s \o <<a>>
    BY <1>0, <2>1, <2>4 DEF ExprCode
  <2>7. /\ E \in Seq(Instruction) /\ Len(E) = d + 1
        /\ \A i \in 1..(d + 1) : E[i] = IF i <= d THEN s[i] ELSE <<a>>[i - d]
    BY <2>3, <2>5, <2>6, ConcatProperties
  <2>8. E[d + 1] = a
    <3>1. d + 1 \in 1..(d + 1) /\ ~(d + 1 <= d) /\ d + 1 - d = 1
      OBVIOUS
    <3> QED BY <2>5, <2>7, <3>1
  <2>9. \A i \in 1..d : E[i] = s[i]
    <3> TAKE i \in 1..d
    <3>1. i \in 1..(d + 1) /\ i <= d
      BY ONLY d \in Nat, i \in 1..d
    <3> QED BY ONLY <2>7, <3>1
  <2> QED BY <2>2, <2>4, <2>7, <2>8, <2>9
<1>2. p \in Nat /\ q \in Nat
  BY LenProperties
<1>3. PICK m : m = pre \o E
  OBVIOUS
<1>4. /\ m \in Seq(Instruction) /\ Len(m) = p + (d + 1)
      /\ \A i \in 1..(p + (d + 1)) : m[i] = IF i <= p THEN pre[i] ELSE E[i - p]
  <2>1. /\ m \in Seq(Instruction) /\ Len(m) = Len(pre) + Len(E)
        /\ \A i \in 1..(Len(pre) + Len(E)) : m[i] = IF i <= Len(pre) THEN pre[i] ELSE E[i - Len(pre)]
    BY <1>1, <1>3, ConcatProperties
  <2>2. Len(pre) = p /\ Len(E) = d + 1
    BY <1>1
  <2> QED BY ONLY <2>1, <2>2
<1>5. piece = m \o post
  BY <1>0, <1>3
<1>6. PICK M : M = p + (d + 1)
  OBVIOUS
<1>7. /\ piece \in Seq(Instruction) /\ Len(piece) = M + q
      /\ \A i \in 1..(M + q) : piece[i] = IF i <= M THEN m[i] ELSE post[i - M]
  <2>1. /\ piece \in Seq(Instruction) /\ Len(piece) = Len(m) + Len(post)
        /\ \A i \in 1..(Len(m) + Len(post)) :
             piece[i] = IF i <= Len(m) THEN m[i] ELSE post[i - Len(m)]
    <3>1. m \in Seq(Instruction)
      BY <1>4
    <3> QED BY ONLY <1>5, <3>1, ConcatProperties, post \in Seq(Instruction)
  <2>2. Len(m) = M /\ Len(post) = q
    BY <1>4, <1>6
  <2> QED BY ONLY <2>1, <2>2
<1>8. PICK S : S = M + q
  OBVIOUS
<1>9. l \in Nat /\ l >= 1 /\ \A i \in 1..S : code'[l + i - 1] = piece[i]
  <2>1. Len(piece) = S
    BY <1>7, <1>8
  <2> QED BY ONLY <1>7, <2>1, CodeTail, Shape, code' = code \o piece, l = Len(code) + 1
<1>10. h = l + S /\ h = l + p + d + 1 + q /\ h \in Nat /\ M = p + d + 1
  <2>1. h = l + S /\ l \in Nat
    BY <1>7, <1>8, <1>9
  <2> QED BY ONLY <1>2, <1>6, <1>8, <2>1, d \in Nat
<1>11. ASSUME NEW i \in 1..p PROVE code'[l + i - 1] = pre[i]
  <2>1. i \in 1..S /\ i \in 1..(M + q) /\ i <= M /\ i <= p /\ i \in 1..(p + (d + 1))
    BY ONLY <1>2, <1>6, <1>8, d \in Nat, i \in 1..p
  <2> QED BY ONLY <1>4, <1>7, <1>9, <2>1
<1>12. ASSUME NEW i \in (l + p)..(h - q - 2) PROVE code'[i].op = "label"
  <2>1. PICK j : j = i - l + 1
    OBVIOUS
  <2>2. j \in 1..S /\ l + j - 1 = i /\ j \in 1..(M + q) /\ j <= M /\ ~(j <= p)
        /\ j \in 1..(p + (d + 1)) /\ j - p \in 1..d
    BY ONLY <1>2, <1>6, <1>8, <1>9, <1>10, <2>1, d \in Nat, i \in (l + p)..(h - q - 2)
  <2>3. code'[i] = piece[j]
    BY ONLY <1>9, <2>2
  <2>4. piece[j] = E[j - p]
    BY ONLY <1>4, <1>7, <2>2
  <2> QED BY ONLY <1>1, <2>2, <2>3, <2>4
<1>13. code'[h - q - 1] = Instr(op, n, k)
  <2>1. /\ M \in 1..S /\ l + M - 1 = h - q - 1 /\ M \in 1..(M + q) /\ M <= M /\ ~(M <= p)
        /\ M \in 1..(p + (d + 1)) /\ M - p = d + 1
    BY ONLY <1>2, <1>6, <1>8, <1>9, <1>10, d \in Nat
  <2>2. code'[h - q - 1] = piece[M]
    BY ONLY <1>9, <2>1
  <2>3. piece[M] = E[d + 1]
    BY ONLY <1>4, <1>7, <2>1
  <2> QED BY ONLY <1>1, <2>2, <2>3
<1>14. ASSUME NEW i \in 1..q PROVE code'[h - q - 1 + i] = post[i]
  <2>1. PICK j : j = M + i
    OBVIOUS
  <2>2. j \in 1..S /\ l + j - 1 = h - q - 1 + i /\ j \in 1..(M + q) /\ ~(j <= M) /\ j - M = i
    BY ONLY <1>2, <1>6, <1>8, <1>9, <1>10, <2>1, d \in Nat, i \in 1..q
  <2>3. code'[h - q - 1 + i] = piece[j]
    BY ONLY <1>9, <2>2
  <2> QED BY ONLY <1>7, <2>2, <2>3
<1>15. ExprAt(op, n, k, d, pre, p, post, q, l, h)'
  BY ONLY <1>2, <1>9, <1>10, <1>11, <1>12, <1>13, <1>14 DEF ExprAt
<1> QED BY <1>7, <1>15

-----------------------------------------------------------------------------
(* The invariant, and the steps that keep it.                              *)

FollowInv ==
  /\ PathOK /\ NodesOK
  /\ \E lo, hi \in [Parts -> Nat], lab \in [Nat -> LabelRecord], brk \in [Nat -> Nat],
        loops \in Seq(Nat) :
       Laid(lo, hi, lab, brk) /\ Kept(lab, brk, loops)

LEMMA FollowStep ==
  ASSUME IInv, IInv', NodesOK, TreeExtends, NEW kk, Adds(kk),
         NEW lo \in [Parts -> Nat], NEW hi \in [Parts -> Nat],
         NEW lab, NEW lab2 \in [Nat -> LabelRecord], NEW brk, NEW brk2 \in [Nat -> Nat],
         \A m \in DOMAIN tree : lab2[m] = lab[m],
         \A m : Emitted(<<"in", m, 0>>) => brk2[m] = brk[m],
         Laid(lo, hi, lab, brk),
         NEW piece \in Seq(Instruction), code' = code \o piece,
         NEW l, l = Len(code) + 1, NEW h, h = l + Len(piece),
         HasCode(kk, l, h, lab2, brk2)',
         PathOK', NodesOK', NEW loops2 \in Seq(Nat), Kept(lab2, brk2, loops2)'
  PROVE  FollowInv'
<1>1. Shape /\ Shape'
  <2>1. (IInv => Shape)'
    BY ShapeHolds, PTL
  <2> QED BY <2>1, ShapeHolds
<1>2. PICK lo2, hi2 \in [Parts -> Nat] : Laid(lo2, hi2, lab2, brk2)'
  BY <1>1, LaidExtends
<1> QED BY <1>2 DEF FollowInv

LEMMA Shapes ==
  ASSUME IInv, IInv'
  PROVE  Shape /\ Shape' /\ breakLabels \in Seq(Nat)
<1>1. (IInv => Shape)'
  BY ShapeHolds, PTL
<1>2. breakLabels \in Seq(Nat)
  BY DEF IInv, Types
<1> QED BY <1>1, <1>2, ShapeHolds

\* A statement that opens nothing, and is no break.
LEMMA LeafFollows ==
  ASSUME IInv, IInv', FollowInv, NEW kind \in {"simple", "valuecall", "return"},
         Reveal(kind, 0, FALSE), open' = open, breakLabels' = breakLabels,
         NEW piece \in Seq(Instruction), code' = code \o piece,
         NEW new, new = Len(tree) + 1, NEW l, l = Len(code) + 1, NEW h, h = l + Len(piece),
         l < h, \A i \in l..(h - 2) : code'[i].op = "label", code'[h - 1] = Instr(kind, new, 0)
  PROVE  FollowInv'
<1>1. Shape /\ Shape'
  BY Shapes
<1>2. /\ Grows(new) /\ tree'[new].kind = kind /\ tree'[new].elseIfs = 0
  <2>1. Shape
    BY <1>1
  <2>2. PICK e, b : e = 0 /\ b = FALSE
    OBVIOUS
  <2>3. Reveal(kind, e, b)
    BY <2>2
  <2>4. Grows(new) /\ tree'[new].kind = kind /\ tree'[new].elseIfs = e
    BY ONLY <2>1, <2>3, RevealGrows, new = Len(tree) + 1
  <2> QED BY ONLY <2>2, <2>4
<1>3. TreeExtends /\ DOMAIN tree' = DOMAIN tree \cup {new}
  <2>1. Shape /\ Grows(new)
    BY <1>1, <1>2
  <2> QED BY ONLY <2>1, GrownDomain
<1>p. PICK lo, hi, lab, brk, loops :
        /\ lo \in [Parts -> Nat] /\ hi \in [Parts -> Nat] /\ lab \in [Nat -> LabelRecord]
        /\ brk \in [Nat -> Nat] /\ loops \in Seq(Nat)
        /\ Laid(lo, hi, lab, brk) /\ Kept(lab, brk, loops)
  BY DEF FollowInv
<1>4. Laid(lo, hi, lab, brk) /\ Kept(lab, brk, loops) /\ loops \in Seq(Nat)
  BY <1>p
<1>5. PathOK /\ NodesOK
  BY DEF FollowInv
<1>6. PICK kk : kk = <<"enter", new, 0>>
  OBVIOUS
<1>7. Adds(kk)
  BY <1>1, <1>2, <1>6, AddsLeaf DEF Leaves
<1>8. PathOK'
  BY <1>1, <1>2, <1>5, PathLeaf
<1>9. NodesOK'
  <2>1. Emitted(<<"in", Coming[2], Coming[3]>>)
    BY <1>1, <1>2, <1>5, HomeEntered DEF Grows
  <2>2. tree'[new].parent = Coming[2] /\ tree'[new].block = Coming[3]
    BY <1>2 DEF Grows
  <2>3. tree'[new].elseIfs <= MaxElseIfs /\ tree'[new].kind # "break"
    BY <1>2, BoundsAssumption
  <2>4. \A n \in DOMAIN tree' \ DOMAIN tree : n = new
    BY <1>3
  <2> QED BY <1>1, <1>3, <1>5, <1>7, <2>1, <2>2, <2>3, <2>4, NodesKept
<1>10. Kept(lab, brk, loops)'
  BY <1>1, <1>4, KeptSame
<1>11. HasCode(kk, l, h, lab, brk)'
  <2>1. LabelsIn(l, h - 1)'
    <3>1. h - 1 - 1 = h - 2
      BY <1>1, CodeTail
    <3> QED BY <3>1 DEF LabelsIn
  <2> QED BY <1>2, <1>6, <2>1 DEF HasCode, EnterCode, Instr
<1> QED BY <1>3, <1>p, <1>5, <1>7, <1>8, <1>9, <1>10, <1>11, FollowStep

LEMMA SimpleFollows == IInv /\ IInv' /\ FollowInv /\ SimpleStatement => FollowInv'
<1> SUFFICES ASSUME IInv, IInv', FollowInv, NEW d \in ExprLabels,
                    Reveal("simple", 0, FALSE),
                    Emit(ExprCode("simple", Len(tree) + 1, 0, d)),
                    UNCHANGED <<open, breakLabels>>
             PROVE  FollowInv'
  BY DEF SimpleStatement
<1>1. Shape
  BY Shapes
<1>2. PICK new : new = Len(tree) + 1
  OBVIOUS
<1>e. PICK e : e = <<>>
  OBVIOUS
<1>3. PICK piece : piece = e \o ExprCode("simple", new, 0, d) \o e
  OBVIOUS
<1>z. PICK z : z = Len(e)
  OBVIOUS
<1>t. z = 0
  BY <1>e, <1>z
<1>4. new \in Nat /\ d \in Nat /\ e \in Seq(Instruction)
  BY <1>1, <1>2, <1>e, BoundsAssumption DEF Shape
<1>5. piece = ExprCode("simple", new, 0, d)
  <2>1. ExprCode("simple", new, 0, d) \in Seq(Instruction)
    BY <1>1, <1>4, ExprPiece DEF Piece, Shape
  <2> QED BY <1>3, <1>e, <2>1, ConcatEmptySeq
<1>6. code' = code \o piece
  BY <1>2, <1>5 DEF Emit
<1>7. PICK l : l = Len(code) + 1
  OBVIOUS
<1>8. PICK h : h = l + Len(piece)
  OBVIOUS
<1>9. /\ piece \in Seq(Instruction) /\ h \in Nat /\ l \in Nat
      /\ h = l + z + d + 1 + z
      /\ \A i \in (l + z)..(h - z - 2) : code'[i].op = "label"
      /\ code'[h - z - 1] = Instr("simple", new, 0)
  <2>1. "simple" \in {"simple", "eval", "update"} /\ 0 \in Nat
    OBVIOUS
  <2>2. piece \in Seq(Instruction) /\ ExprAt("simple", new, 0, d, e, z, e, z, l, h)'
    BY ONLY <1>1, <1>3, <1>4, <1>6, <1>7, <1>8, <1>z, <2>1, ExprTail
  <2> QED BY ONLY <2>2 DEF ExprAt
<1>10. /\ l < h /\ l + z = l /\ h - z - 2 = h - 2 /\ h - z - 1 = h - 1
  BY ONLY <1>4, <1>9, <1>t
<1>11. /\ \A i \in l..(h - 2) : code'[i].op = "label"
       /\ code'[h - 1] = Instr("simple", new, 0)
  BY <1>9, <1>10
<1> QED BY <1>2, <1>6, <1>7, <1>8, <1>9, <1>10, <1>11, LeafFollows

\* A call or a return is one instruction.
LEMMA OneFollows ==
  ASSUME IInv, IInv', FollowInv, NEW kind \in {"valuecall", "return"},
         Reveal(kind, 0, FALSE), Emit(<<Instr(kind, Len(tree) + 1, 0)>>),
         UNCHANGED <<open, breakLabels>>
  PROVE  FollowInv'
<1>1. Shape
  BY Shapes
<1>2. PICK new : new = Len(tree) + 1
  OBVIOUS
<1>3. PICK a : a = Instr(kind, new, 0)
  OBVIOUS
<1>4. a \in Instruction
  BY <1>1, <1>2, <1>3 DEF Instr, Instruction, Shape
<1>5. PICK piece : piece = <<a>>
  OBVIOUS
<1>6. piece \in Seq(Instruction) /\ Len(piece) = 1 /\ piece[1] = a
  BY <1>4, <1>5
<1>7. code' = code \o piece
  BY <1>2, <1>3, <1>5 DEF Emit
<1>8. PICK l : l = Len(code) + 1
  OBVIOUS
<1>9. PICK h : h = l + Len(piece)
  OBVIOUS
<1>s. PICK s : s = Len(piece)
  OBVIOUS
<1>10. l \in Nat /\ code'[l] = a
  <2>1. l \in Nat /\ (s >= 1 => code'[l] = piece[1])
    BY ONLY <1>1, <1>6, <1>7, <1>8, <1>s, CodeTail
  <2> QED BY <1>6, <1>s, <2>1
<1>11. l < h /\ h - 1 = l /\ l..(h - 2) = {}
  BY ONLY <1>6, <1>9, <1>10
<1>12. /\ \A i \in l..(h - 2) : code'[i].op = "label"
       /\ code'[h - 1] = Instr(kind, new, 0)
  BY <1>3, <1>10, <1>11
<1> QED BY <1>2, <1>6, <1>7, <1>8, <1>9, <1>11, <1>12, LeafFollows

LEMMA ValueCallFollows == IInv /\ IInv' /\ FollowInv /\ ValueCallStatement => FollowInv'
BY OneFollows DEF ValueCallStatement

LEMMA ReturnFollows == IInv /\ IInv' /\ FollowInv /\ ExitReturn => FollowInv'
BY OneFollows DEF ExitReturn

\* A break goes to the label of the innermost loop.
LEMMA BreakFollows == IInv /\ IInv' /\ FollowInv /\ ExitBreak => FollowInv'
<1> SUFFICES ASSUME IInv, IInv', FollowInv, breakLabels # <<>>,
                    Reveal("break", 0, FALSE),
                    Emit(<<Goto(breakLabels[Len(breakLabels)])>>),
                    open' = open, breakLabels' = breakLabels
             PROVE  FollowInv'
  BY DEF ExitBreak
<1>1. Shape /\ Shape' /\ breakLabels \in Seq(Nat)
  BY Shapes
<1>n. PICK new : new = Len(tree) + 1
  OBVIOUS
<1>2. /\ Grows(new) /\ tree'[new].kind = "break" /\ tree'[new].elseIfs = 0
  BY <1>1, <1>n, RevealGrows
<1>3. TreeExtends /\ DOMAIN tree' = DOMAIN tree \cup {new}
  <2>1. Shape /\ Grows(new)
    BY <1>1, <1>2
  <2> QED BY ONLY <2>1, GrownDomain
<1>p. PICK lo, hi, lab, brk, loops :
        /\ lo \in [Parts -> Nat] /\ hi \in [Parts -> Nat] /\ lab \in [Nat -> LabelRecord]
        /\ brk \in [Nat -> Nat] /\ loops \in Seq(Nat)
        /\ Laid(lo, hi, lab, brk) /\ Kept(lab, brk, loops)
  BY DEF FollowInv
<1>4. Laid(lo, hi, lab, brk) /\ Kept(lab, brk, loops) /\ loops \in Seq(Nat)
  BY <1>p
<1>5. PathOK /\ NodesOK
  BY DEF FollowInv
<1>6. PICK kk : kk = <<"enter", new, 0>>
  OBVIOUS
<1>7. Adds(kk)
  BY <1>1, <1>2, <1>6, AddsLeaf DEF Leaves
<1>8. PathOK'
  BY <1>1, <1>2, <1>5, PathLeaf
<1>a. PICK L : L = Len(breakLabels)
  OBVIOUS
<1>b. PICK J : J = loops[L]
  OBVIOUS
<1>9. /\ L \in Nat /\ L >= 1 /\ DOMAIN breakLabels = 1..L
      /\ J \in OpenLoops /\ brk[open[J].node] = breakLabels[L]
      /\ \A j \in OpenLoops : j <= J
  <2>1. /\ L \in Nat /\ L >= 1 /\ DOMAIN breakLabels = 1..L
        /\ loops[L] \in OpenLoops /\ brk[open[loops[L]].node] = breakLabels[L]
        /\ \A j \in OpenLoops : j <= loops[L]
    BY ONLY <1>1, <1>4, <1>a, LastLoop, breakLabels # <<>>
  <2> QED BY ONLY <1>b, <2>1
<1>10. J \in DOMAIN open /\ open[J].kind \in Loops /\ open # <<>>
  BY <1>9 DEF OpenLoops
<1>11. \A j \in DOMAIN open : j > J => open[j].kind \notin Loops
  <2> SUFFICES ASSUME NEW j \in DOMAIN open, j > J, open[j].kind \in Loops PROVE FALSE
    OBVIOUS
  <2>1. open[j].next = "body"
    BY <1>1, <1>2, <1>5, <1>10, TopIsLast DEF Grows
  <2>2. j \in OpenLoops /\ j \in Nat /\ J \in Nat
    <3>1. DOMAIN open \subseteq Nat
      BY ONLY <1>1 DEF Shape
    <3> QED BY <1>10, <2>1, <3>1 DEF OpenLoops
  <2>3. j <= J
    BY <1>9, <2>2
  <2> QED BY ONLY <2>2, <2>3, j > J
<1>12. InnerOf(InnermostLoop, Top.node) = open[J].node
  BY <1>1, <1>5, <1>10, <1>11, InnermostOpen
<1>13. (InnermostLoop')[new] = open[J].node
  <2>1. PICK p : p = tree'[new].parent
    OBVIOUS
  <2>2. p = Top.node /\ p \in DOMAIN tree /\ p # 0
    <3>1. Coming[2] = Top.node
      BY <1>10 DEF Coming, Ahead
    <3>2. Top.node \in DOMAIN tree
      BY <1>1, <1>5, <1>10, TopIsLast
    <3>3. 0 \notin DOMAIN tree
      BY ONLY <1>1 DEF Shape
    <3> QED BY <1>2, <2>1, <3>1, <3>2, <3>3 DEF Grows
  <2>3. PICK g : g = InnermostLoop'
    OBVIOUS
  <2>4. PICK f : f = InnermostLoop
    OBVIOUS
  <2>5. (Shape => InnerEquation)'
    BY InnermostIs, PTL
  <2>6. g[new] = IF p = 0 THEN 0 ELSE IF tree'[p].kind \in Loops THEN p ELSE g[p]
    <3>1. new \in 1..Len(tree')
      BY <1>1, <1>3 DEF Shape
    <3> QED BY <1>1, <2>1, <2>3, <2>5, <3>1 DEF InnerEquation, InnerOf
  <2>7. g[p] = f[p] /\ tree'[p] = tree[p]
    BY <1>1, <1>3, <2>2, <2>3, <2>4, InnermostKept DEF TreeExtends
  <2>8. InnerOf(f, p) = open[J].node
    BY <1>12, <2>2, <2>4
  <2> QED BY ONLY <2>2, <2>3, <2>6, <2>7, <2>8 DEF InnerOf
<1>14. NodesOK'
  <2>1. Emitted(<<"in", Coming[2], Coming[3]>>)
    BY <1>1, <1>2, <1>5, HomeEntered DEF Grows
  <2>2. tree'[new].parent = Coming[2] /\ tree'[new].block = Coming[3]
    BY <1>2 DEF Grows
  <2>3. tree'[new].elseIfs <= MaxElseIfs
    BY <1>2, BoundsAssumption
  <2>4. \A n \in DOMAIN tree' \ DOMAIN tree : n = new
    BY <1>3
  <2>5. open[J].node \in DOMAIN tree /\ tree[open[J].node].kind \in Loops
    BY <1>1, <1>10 DEF Shape
  <2> QED BY <1>1, <1>3, <1>5, <1>7, <1>13, <2>1, <2>2, <2>3, <2>4, <2>5, NodesKept
<1>15. Kept(lab, brk, loops)'
  BY <1>1, <1>4, KeptSame
<1>16. PICK a : a = Goto(breakLabels[L])
  OBVIOUS
<1>17. a \in Instruction
  <2>1. breakLabels[L] \in Nat
    <3>1. L \in DOMAIN breakLabels
      BY ONLY <1>9
    <3> QED BY ONLY <1>1, <3>1
  <2> QED BY <1>16, <2>1 DEF Goto, Instruction
<1>18. PICK piece : piece = <<a>>
  OBVIOUS
<1>19. piece \in Seq(Instruction) /\ Len(piece) = 1 /\ piece[1] = a
  BY <1>17, <1>18
<1>20. code' = code \o piece
  BY <1>16, <1>18, <1>a DEF Emit
<1>21. PICK l : l = Len(code) + 1
  OBVIOUS
<1>22. PICK h : h = l + Len(piece)
  OBVIOUS
<1>s. PICK s : s = Len(piece)
  OBVIOUS
<1>23. l \in Nat /\ code'[l] = a /\ h = l + 1
  <2>1. l \in Nat /\ (s >= 1 => code'[l] = piece[1])
    BY ONLY <1>1, <1>19, <1>20, <1>21, <1>s, CodeTail
  <2> QED BY <1>19, <1>22, <1>s, <2>1
<1>24. HasCode(kk, l, h, lab, brk)'
  <2>1. code'[l] = Goto(brk[(InnermostLoop')[new]])
    BY <1>9, <1>13, <1>16, <1>23
  <2> QED BY <1>2, <1>6, <1>23, <2>1 DEF HasCode, EnterCode, Goto
<1> QED BY <1>3, <1>p, <1>5, <1>7, <1>8, <1>14, <1>15, <1>19, <1>20, <1>21, <1>22, <1>24, FollowStep

\* A statement that opens blocks.
LEMMA PushFollows ==
  ASSUME IInv, IInv', FollowInv, NEW kind \in Loops \cup {"if"}, NEW elseIfs \in 0..MaxElseIfs,
         NEW hasElse, Reveal(kind, elseIfs, hasElse), NEW labels, NEW next,
         next = IF kind \in {"if", "while", "for"} THEN "cond" ELSE "block",
         Push(kind, next, labels), breakLabels' = breakLabels,
         NEW piece \in Seq(Instruction), code' = code \o piece,
         NEW new, new = Len(tree) + 1, NEW l, l = Len(code) + 1, NEW h, h = l + Len(piece),
         kind = "if" => h = l,
         kind \in {"while", "until", "infinite"} => h = l + 1 /\ code'[l] = Label(labels.start),
         kind = "for" => h = l + 1 /\ code'[l] = Instr("simple", new, 0)
  PROVE  FollowInv'
<1>1. Shape /\ Shape'
  BY Shapes
<1>2. /\ Grows(new) /\ tree'[new].kind = kind /\ tree'[new].elseIfs = elseIfs
  BY ONLY <1>1, RevealGrows, Reveal(kind, elseIfs, hasElse), new = Len(tree) + 1
<1>3. TreeExtends /\ DOMAIN tree' = DOMAIN tree \cup {new}
  <2>1. TreeExtends /\ new = Len(tree) + 1 /\ DOMAIN tree' = 1..new
    BY <1>2 DEF Grows
  <2>2. Len(tree) \in Nat /\ DOMAIN tree = 1..Len(tree)
    BY ONLY <1>1 DEF Shape
  <2> QED BY ONLY <2>1, <2>2
<1>p. PICK lo, hi, lab, brk, loops :
        /\ lo \in [Parts -> Nat] /\ hi \in [Parts -> Nat] /\ lab \in [Nat -> LabelRecord]
        /\ brk \in [Nat -> Nat] /\ loops \in Seq(Nat)
        /\ Laid(lo, hi, lab, brk) /\ Kept(lab, brk, loops)
  BY DEF FollowInv
<1>5. PathOK /\ NodesOK
  BY DEF FollowInv
<1>6. PICK kk : kk = <<"enter", new, 0>>
  OBVIOUS
<1>f. PICK f : f = [node |-> new, kind |-> kind, next |-> next, block |-> 0, labels |-> labels]
  OBVIOUS
<1>g. /\ f.node = new /\ f.block = 0 /\ f.labels = labels /\ f.next = next /\ f.next # "body"
      /\ open' = Append(open, f)
  BY <1>f DEF Push
<1>l. labels \in LabelRecord
  <2>1. open \in Seq(FrameRecord) /\ open' \in Seq(FrameRecord)
    BY DEF IInv, Types
  <2>2. open \in Seq(FrameRecord \cup {f}) /\ Len(open) \in Nat
    BY <2>1
  <2>3. Len(open') = Len(open) + 1 /\ open'[Len(open) + 1] = f
    BY ONLY <1>g, <2>2, AppendProperties
  <2>4. Len(open) + 1 \in DOMAIN open'
    BY ONLY <2>1, <2>2, <2>3
  <2>5. f \in FrameRecord
    BY ONLY <2>1, <2>3, <2>4
  <2> QED BY <1>g, <2>5 DEF FrameRecord
<1>7. Adds(kk)
  BY <1>1, <1>2, <1>6, <1>g, AddsPush
<1>8. PathOK'
  BY ONLY <1>1, <1>2, <1>5, <1>g, PathPush
<1>9. NodesOK'
  <2>1. Emitted(<<"in", Coming[2], Coming[3]>>)
    BY <1>1, <1>2, <1>5, HomeEntered DEF Grows
  <2>2. tree'[new].parent = Coming[2] /\ tree'[new].block = Coming[3]
    BY <1>2 DEF Grows
  <2>3. tree'[new].elseIfs <= MaxElseIfs /\ tree'[new].kind # "break"
    BY <1>2, BoundsAssumption DEF Loops
  <2>4. \A n \in DOMAIN tree' \ DOMAIN tree : n = new
    BY <1>3
  <2> QED BY <1>1, <1>3, <1>5, <1>7, <2>1, <2>2, <2>3, <2>4, NodesKept
<1>u. PICK lab2 : lab2 = [lab EXCEPT ![new] = f.labels]
  OBVIOUS
<1>10. /\ lab2 \in [Nat -> LabelRecord] /\ lab2[new] = labels
       /\ \A m \in DOMAIN tree : lab2[m] = lab[m]
  <2>1. lab \in [Nat -> LabelRecord] /\ f.labels = labels
    BY <1>p, <1>g
  <2>2. new \in Nat /\ DOMAIN tree \subseteq Nat /\ new \notin DOMAIN tree
    <3>1. Len(tree) \in Nat /\ DOMAIN tree = 1..Len(tree) /\ new = Len(tree) + 1
      BY <1>1 DEF Shape
    <3> QED BY ONLY <3>1
  <2> QED BY ONLY <1>l, <1>u, <2>1, <2>2
<1>k. Kept(lab2, brk, loops)'
  <2>1. Kept(lab, brk, loops) /\ f.labels \in LabelRecord /\ lab2[new] = f.labels
    BY <1>p, <1>g, <1>l, <1>10
  <2>2. Shape /\ \A m \in DOMAIN tree : lab2[m] = lab[m]
    BY <1>1, <1>10
  <2>3. f.node = new /\ f.next # "body" /\ open' = Append(open, f)
    BY <1>g
  <2> QED BY ONLY <2>1, <2>2, <2>3, KeptPush, new = Len(tree) + 1, breakLabels' = breakLabels
<1>11. HasCode(kk, l, h, lab2, brk)'
  BY <1>2, <1>6, <1>10 DEF HasCode, EnterCode, Loops, Label, Instr
<1> QED BY <1>3, <1>p, <1>5, <1>7, <1>8, <1>9, <1>10, <1>k, <1>11, FollowStep

LEMMA IfFollows == IInv /\ IInv' /\ FollowInv /\ EnterIf => FollowInv'
<1> SUFFICES ASSUME IInv, IInv', FollowInv,
                    NEW elseIfs \in 0..MaxElseIfs, NEW hasElse \in BOOLEAN,
                    Reveal("if", elseIfs, hasElse),
                    NEW branches, Push("if", "cond", IfLabels(branches)),
                    breakLabels' = breakLabels, code' = code
             PROVE  FollowInv'
  BY DEF EnterIf
<1>1. Shape
  BY Shapes
<1>2. PICK new : new = Len(tree) + 1
  OBVIOUS
<1>3. PICK l : l = Len(code) + 1
  OBVIOUS
<1>4. PICK e : e = <<>>
  OBVIOUS
<1>5. e \in Seq(Instruction) /\ code' = code \o e /\ l = l + Len(e)
  <2>1. e \in Seq(Instruction) /\ Len(e) = 0
    BY <1>4
  <2>2. code \o <<>> = code
    BY <1>1, ConcatEmptySeq DEF Shape
  <2>3. l \in Nat
    BY <1>1, <1>3 DEF Shape
  <2> QED BY <1>4, <2>1, <2>2, <2>3
<1>6. PICK labels : labels = IfLabels(branches)
  OBVIOUS
<1>7. "if" \in Loops \cup {"if"}
  OBVIOUS
<1> QED BY <1>2, <1>3, <1>5, <1>6, <1>7, PushFollows

\* A loop whose enter handler places its first label.
LEMMA LoopFollows ==
  ASSUME IInv, IInv', FollowInv, NEW kind \in {"while", "until", "infinite"},
         Reveal(kind, 0, FALSE), NEW labels, labels.start \in Int,
         Push(kind, IF kind = "while" THEN "cond" ELSE "block", labels),
         Emit(<<Label(labels.start)>>), breakLabels' = breakLabels
  PROVE  FollowInv'
<1>1. Shape
  BY Shapes
<1>2. PICK new : new = Len(tree) + 1
  OBVIOUS
<1>3. PICK l : l = Len(code) + 1
  OBVIOUS
<1>4. PICK a : a = Label(labels.start)
  OBVIOUS
<1>5. PICK piece : piece = <<a>>
  OBVIOUS
<1>6. piece \in Seq(Instruction) /\ Len(piece) = 1 /\ piece[1] = a
  <2>1. a \in Instruction
    BY <1>4 DEF Label, Instruction
  <2> QED BY <1>5, <2>1
<1>7. code' = code \o piece
  BY <1>4, <1>5 DEF Emit
<1>8. PICK h : h = l + Len(piece)
  OBVIOUS
<1>s. PICK s : s = Len(piece)
  OBVIOUS
<1>9. h = l + 1 /\ code'[l] = Label(labels.start)
  <2>1. l \in Nat /\ (s >= 1 => code'[l] = piece[1])
    BY ONLY <1>1, <1>3, <1>6, <1>7, <1>s, CodeTail
  <2> QED BY <1>4, <1>6, <1>8, <1>s, <2>1
<1>10. PICK next : next = IF kind = "while" THEN "cond" ELSE "block"
  OBVIOUS
<1>11. /\ next = IF kind \in {"if", "while", "for"} THEN "cond" ELSE "block"
       /\ Push(kind, next, labels) /\ kind \in Loops \cup {"if"} /\ 0 \in 0..MaxElseIfs
  BY <1>10, BoundsAssumption DEF Loops
<1> QED BY <1>2, <1>3, <1>6, <1>7, <1>8, <1>9, <1>11, PushFollows

LEMMA WhileFollows == IInv /\ IInv' /\ FollowInv /\ EnterWhile => FollowInv'
<1>1. Shape => WhileLabels.start \in Int
  BY LabelRecords DEF Shape
<1>2. IInv /\ IInv' => Shape
  BY Shapes
<1> QED BY <1>1, <1>2, LoopFollows DEF EnterWhile

LEMMA UntilFollows == IInv /\ IInv' /\ FollowInv /\ EnterUntil => FollowInv'
<1>1. Shape => StartOnlyLabels.start \in Int
  BY LabelRecords DEF Shape
<1>2. IInv /\ IInv' => Shape
  BY Shapes
<1> QED BY <1>1, <1>2, LoopFollows DEF EnterUntil

LEMMA InfiniteFollows == IInv /\ IInv' /\ FollowInv /\ EnterInfinite => FollowInv'
<1>1. Shape => StartOnlyLabels.start \in Int
  BY LabelRecords DEF Shape
<1>2. IInv /\ IInv' => Shape
  BY Shapes
<1> QED BY <1>1, <1>2, LoopFollows DEF EnterInfinite

LEMMA ForFollows == IInv /\ IInv' /\ FollowInv /\ EnterFor => FollowInv'
<1> SUFFICES ASSUME IInv, IInv', FollowInv, Reveal("for", 0, FALSE),
                    NEW labels, Push("for", "cond", labels),
                    Emit(<<Instr("simple", Len(tree) + 1, 0)>>), breakLabels' = breakLabels
             PROVE  FollowInv'
  BY DEF EnterFor
<1>1. Shape
  BY Shapes
<1>2. PICK new : new = Len(tree) + 1
  OBVIOUS
<1>3. PICK l : l = Len(code) + 1
  OBVIOUS
<1>4. PICK a : a = Instr("simple", new, 0)
  OBVIOUS
<1>5. PICK piece : piece = <<a>>
  OBVIOUS
<1>6. piece \in Seq(Instruction) /\ Len(piece) = 1 /\ piece[1] = a
  <2>1. a \in Instruction
    BY <1>1, <1>2, <1>4 DEF Instr, Instruction, Shape
  <2> QED BY <1>5, <2>1
<1>7. code' = code \o piece
  BY <1>2, <1>4, <1>5 DEF Emit
<1>8. PICK h : h = l + Len(piece)
  OBVIOUS
<1>s. PICK s : s = Len(piece)
  OBVIOUS
<1>9. h = l + 1 /\ code'[l] = Instr("simple", new, 0)
  <2>1. l \in Nat /\ (s >= 1 => code'[l] = piece[1])
    BY ONLY <1>1, <1>3, <1>6, <1>7, <1>s, CodeTail
  <2> QED BY <1>4, <1>6, <1>8, <1>s, <2>1
<1>10. "for" \in Loops \cup {"if"} /\ 0 \in 0..MaxElseIfs
  BY BoundsAssumption DEF Loops
<1> QED BY <1>2, <1>3, <1>6, <1>7, <1>8, <1>9, <1>10, PushFollows

-----------------------------------------------------------------------------
(* The steps that emit a part of the innermost open statement.             *)

\* The code of a part, where the labels of its statement are these.
Fills(kk, l, h, labels) ==
  \A lab, brk : lab[kk[2]] = labels => HasCode(kk, l, h, lab, brk)

\* Such a step moves the statement on, but into no loop and out of none.
LEMMA MoveFollows ==
  ASSUME IInv, IInv', FollowInv, open # <<>>, tree' = tree, breakLabels' = breakLabels,
         NEW f, SetTop(f), f.node = Top.node, f.labels = Top.labels, f.kind = Top.kind,
         (f.kind = "if" /\ f.next = "cond") => f.block <= tree[f.node].elseIfs,
         Top.kind \in Loops => Top.next # "body" /\ f.next # "body",
         NEW kk, Adds(kk), kk[2] = Top.node,
         NEW piece \in Seq(Instruction), code' = code \o piece,
         NEW l, l = Len(code) + 1, NEW h, h = l + Len(piece),
         NEW labels, labels = Top.labels, Fills(kk, l, h, labels)'
  PROVE  FollowInv'
<1>1. Shape /\ Shape'
  BY Shapes
<1>2. TreeExtends /\ DOMAIN tree' = DOMAIN tree
  BY DEF TreeExtends
<1>p. PICK lo, hi, lab, brk, loops :
        /\ lo \in [Parts -> Nat] /\ hi \in [Parts -> Nat] /\ lab \in [Nat -> LabelRecord]
        /\ brk \in [Nat -> Nat] /\ loops \in Seq(Nat)
        /\ Laid(lo, hi, lab, brk) /\ Kept(lab, brk, loops)
  BY DEF FollowInv
<1>4. Kept(lab, brk, loops)
  BY <1>p
<1>5. PathOK /\ NodesOK
  BY DEF FollowInv
<1>6. PathOK'
  BY <1>1, <1>5, PathMove
<1>7. NodesOK'
  BY <1>1, <1>2, <1>5, NodesKept
<1>8. Kept(lab, brk, loops)'
  BY <1>1, <1>4, KeptMove
<1>9. HasCode(kk, l, h, lab, brk)'
  <2>1. lab[Top.node] = Top.labels
    BY <1>1, <1>4, <1>5, TopIsLast DEF Kept
  <2> QED BY <2>1 DEF Fills
<1> QED BY <1>2, <1>p, <1>5, <1>6, <1>7, <1>8, <1>9, FollowStep

\* Or it leaves the statement.
LEMMA LeaveFollows ==
  ASSUME IInv, IInv', FollowInv, open # <<>>, tree' = tree, breakLabels' = breakLabels,
         PopTop, Top.kind \in Loops => Top.next # "body",
         NEW kk, Adds(kk), kk[2] = Top.node,
         NEW piece \in Seq(Instruction), code' = code \o piece,
         NEW l, l = Len(code) + 1, NEW h, h = l + Len(piece),
         NEW labels, labels = Top.labels, Fills(kk, l, h, labels)'
  PROVE  FollowInv'
<1>1. Shape /\ Shape'
  BY Shapes
<1>2. TreeExtends /\ DOMAIN tree' = DOMAIN tree
  BY DEF TreeExtends
<1>p. PICK lo, hi, lab, brk, loops :
        /\ lo \in [Parts -> Nat] /\ hi \in [Parts -> Nat] /\ lab \in [Nat -> LabelRecord]
        /\ brk \in [Nat -> Nat] /\ loops \in Seq(Nat)
        /\ Laid(lo, hi, lab, brk) /\ Kept(lab, brk, loops)
  BY DEF FollowInv
<1>4. Kept(lab, brk, loops)
  BY <1>p
<1>5. PathOK /\ NodesOK
  BY DEF FollowInv
<1>6. PathOK'
  BY <1>1, <1>5, PathLeave
<1>7. NodesOK'
  BY <1>1, <1>2, <1>5, NodesKept
<1>8. Kept(lab, brk, loops)'
  BY <1>1, <1>4, KeptLeave
<1>9. HasCode(kk, l, h, lab, brk)'
  <2>1. lab[Top.node] = Top.labels
    BY <1>1, <1>4, <1>5, TopIsLast DEF Kept
  <2> QED BY <2>1 DEF Fills
<1> QED BY <1>2, <1>p, <1>5, <1>6, <1>7, <1>8, <1>9, FollowStep

\* The innermost open statement.
LEMMA TopShape ==
  ASSUME Shape, open # <<>>
  PROVE  /\ Top.node \in DOMAIN tree /\ tree[Top.node].kind = Top.kind
         /\ Top.node \in Nat /\ Top.node # 0 /\ Top.block \in Nat
         /\ Top.kind \in Loops \cup {"if"} /\ Top.labels \in LabelRecord /\ FrameOK(Top)
         /\ Top.next \in {"cond", "update", "block", "body"}
         /\ tree[Top.node].elseIfs \in Nat /\ tree[Top.node].hasElse \in BOOLEAN
         /\ Coming = Ahead(Top)
<1>1. Len(open) \in DOMAIN open /\ Top = open[Len(open)]
  BY DEF Shape, Top
<1>2. Top.node \in DOMAIN tree /\ tree[Top.node].kind = Top.kind
  BY <1>1 DEF Shape
<1>3. Top.node \in Nat /\ Top.node # 0
  BY <1>2 DEF Shape
<1>4. tree[Top.node].elseIfs \in Nat /\ tree[Top.node].hasElse \in BOOLEAN
  BY <1>2 DEF Shape
<1>5. Coming = Ahead(Top)
  BY DEF Coming
<1> QED BY <1>1, <1>2, <1>3, <1>4, <1>5 DEF Shape

\* The parts of a statement that opens blocks, and when they are emitted.
LEMMA StagesOf ==
  ASSUME Shape, NEW n \in DOMAIN tree, tree[n].kind \in Loops \cup {"if"},
         NEW k \in Parts, IsPart(k), k[2] = n
  PROVE  /\ tree[n].kind = "if" =>
              \E b \in Nat :
                \/ k = <<"enter", n, 0>> /\ Stage(k) = 0
                \/ k = <<"cond", n, b>> /\ b <= tree[n].elseIfs /\ Stage(k) = 4 * b + 1
                \/ k = <<"in", n, b>> /\ b < Branches(tree[n]) /\ Stage(k) = 4 * b + 3
                \/ k = <<"out", n, b>> /\ b < Branches(tree[n]) /\ Stage(k) = 4 * b + 4
         /\ tree[n].kind # "if" =>
              \/ k = <<"enter", n, 0>> /\ Stage(k) = 0
              \/ k = <<"cond", n, 0>> /\ tree[n].kind = "until" /\ Stage(k) = 5
              \/ k = <<"cond", n, 0>> /\ tree[n].kind \in {"while", "for"} /\ Stage(k) = 1
              \/ k = <<"update", n, 0>> /\ tree[n].kind = "for" /\ Stage(k) = 2
              \/ k = <<"in", n, 0>> /\ Stage(k) = 3
              \/ k = <<"out", n, 0>> /\ Stage(k) = 4
<1>1. PICK t, b : t = k[1] /\ b = k[3]
  OBVIOUS
<1>2. t \in {"enter", "cond", "update", "in", "out"} /\ b \in Nat /\ k = <<t, n, b>>
  BY <1>1, PartFields
<1>3. n # 0 /\ n \in Nat
  BY DEF Shape
<1>4. Stage(k) = CASE t = "enter"  -> 0
                   [] t = "cond"   -> IF tree[n].kind = "until" THEN 5 ELSE 4 * b + 1
                   [] t = "update" -> 2
                   [] t = "in"     -> 4 * b + 3
                   [] t = "out"    -> 4 * b + 4
  BY <1>1 DEF Stage
<1>5. \/ t = "enter" /\ b = 0
      \/ t = "cond" /\ tree[n].kind = "if" /\ b <= tree[n].elseIfs
      \/ t = "cond" /\ tree[n].kind \in {"while", "until", "for"} /\ b = 0
      \/ t = "update" /\ tree[n].kind = "for" /\ b = 0
      \/ t \in {"in", "out"} /\ tree[n].kind = "if" /\ b < Branches(tree[n])
      \/ t \in {"in", "out"} /\ tree[n].kind \in Loops /\ b = 0
  BY <1>1, <1>2, <1>3 DEF IsPart
<1>6. CASE tree[n].kind = "if"
  BY <1>2, <1>4, <1>5, <1>6 DEF Loops
<1>7. CASE tree[n].kind # "if"
  BY <1>2, <1>4, <1>5, <1>7 DEF Loops
<1> QED BY <1>6, <1>7

\* The code of a condition.
LEMMA ConditionCode ==
  ASSUME Shape, open # <<>>, tree' = tree, NEW d \in ExprLabels,
         Emit(BeforeCondition(Top) \o ExprCode("eval", Top.node, Top.block, d)
                \o AfterCondition(Top)),
         Top.next = "cond", NEW n, n = Top.node, NEW b, b = Top.block,
         NEW labels, labels = Top.labels, NEW l, l = Len(code) + 1
  PROVE  \E piece \in Seq(Instruction) : \E h :
           /\ code' = code \o piece /\ h = l + Len(piece)
           /\ Fills(<<"cond", n, b>>, l, h, labels)'
<1>1. /\ n \in DOMAIN tree /\ tree[n].kind = Top.kind /\ n \in Nat /\ b \in Nat /\ d \in Nat
      /\ Top.kind \in {"if", "while", "until", "for"} /\ FrameOK(Top)
      /\ labels.start \in Int /\ labels.end \in Int /\ labels.cond \in Int
      /\ labels.conds \in Seq(Int)
  <2>1. /\ n \in DOMAIN tree /\ tree[n].kind = Top.kind /\ n \in Nat /\ b \in Nat
        /\ Top.kind \in Loops \cup {"if"} /\ FrameOK(Top) /\ labels \in LabelRecord
    BY TopShape
  <2>2. Top.kind # "infinite"
    BY <2>1 DEF FrameOK
  <2>3. d \in Nat
    BY BoundsAssumption
  <2> QED BY <2>1, <2>2, <2>3 DEF Loops, LabelRecord
<1>k. PICK kind : kind = tree[n].kind
  OBVIOUS
<1>t. PICK target : target = IF b + 1 < Branches(tree[n]) THEN labels.conds[b + 2] ELSE labels.end
  OBVIOUS
<1>2. kind = "if" => IfJumpTarget(Top) = target /\ target \in Int
  <2>1. kind = "if" => Len(labels.conds) = Branches(tree[n])
    BY <1>1, <1>k DEF FrameOK
  <2>2. \A i \in Nat : i + 1 < Len(labels.conds) => labels.conds[i + 2] \in Int
    BY <1>1
  <2> QED BY <1>1, <1>t, <2>1, <2>2 DEF IfJumpTarget
<1>3. PICK pre : pre = BeforeCondition(Top)
  OBVIOUS
<1>4. PICK post : post = AfterCondition(Top)
  OBVIOUS
<1>5. /\ pre \in Seq(Instruction)
      /\ kind = "for" => Len(pre) = 1 /\ pre[1] = Label(labels.cond)
      /\ kind # "for" => Len(pre) = 0
  <2>1. Label(labels.cond) \in Instruction
    BY <1>1 DEF Label, Instruction
  <2> QED BY <1>1, <1>3, <1>k, <2>1 DEF BeforeCondition
<1>6. /\ post \in Seq(Instruction)
      /\ kind = "if"    => Len(post) = 1 /\ post[1] = IfEq(target)
      /\ kind = "while" => Len(post) = 1 /\ post[1] = IfEq(labels.end)
      /\ kind = "until" => Len(post) = 1 /\ post[1] = IfEq(labels.start)
      /\ kind = "for"   => Len(post) = 2 /\ post[1] = IfEq(labels.end)
                                         /\ post[2] = Goto(labels.start)
  <2>1. \A i \in Int : IfEq(i) \in Instruction /\ Goto(i) \in Instruction
    BY DEF IfEq, Goto, Instruction
  <2>2. kind = Top.kind
    BY <1>1, <1>k
  <2>3. CASE kind = "if"
    <3>1. post = <<IfEq(target)>> /\ IfEq(target) \in Instruction
      BY <1>2, <1>4, <2>1, <2>2, <2>3 DEF AfterCondition
    <3> QED BY <2>3, <3>1
  <2>4. CASE kind = "while"
    <3>1. post = <<IfEq(labels.end)>> /\ IfEq(labels.end) \in Instruction
      BY <1>1, <1>4, <2>1, <2>2, <2>4 DEF AfterCondition
    <3> QED BY <2>4, <3>1
  <2>5. CASE kind = "until"
    <3>1. post = <<IfEq(labels.start)>> /\ IfEq(labels.start) \in Instruction
      BY <1>1, <1>4, <2>1, <2>2, <2>5 DEF AfterCondition
    <3> QED BY <2>5, <3>1
  <2>6. CASE kind = "for"
    <3>1. post = <<IfEq(labels.end), Goto(labels.start)>> /\ IfEq(labels.end) \in Instruction
          /\ Goto(labels.start) \in Instruction
      BY <1>1, <1>4, <2>1, <2>2, <2>6 DEF AfterCondition
    <3> QED BY <2>6, <3>1
  <2> QED BY <1>1, <2>2, <2>3, <2>4, <2>5, <2>6
<1>7. PICK piece : piece = pre \o ExprCode("eval", n, b, d) \o post
  OBVIOUS
<1>8. code' = code \o piece
  BY <1>3, <1>4, <1>7 DEF Emit
<1>9. PICK h : h = l + Len(piece)
  OBVIOUS
<1>p. PICK p : p = Len(pre)
  OBVIOUS
<1>q. PICK q : q = Len(post)
  OBVIOUS
<1>10. piece \in Seq(Instruction) /\ ExprAt("eval", n, b, d, pre, p, post, q, l, h)'
  <2>1. "eval" \in {"simple", "eval", "update"}
    OBVIOUS
  <2>2. n \in Nat /\ b \in Nat /\ d \in Nat
    BY <1>1
  <2>3. pre \in Seq(Instruction) /\ post \in Seq(Instruction)
    BY <1>5, <1>6
  <2> QED BY ONLY Shape, l = Len(code) + 1, <1>7, <1>8, <1>9, <1>p, <1>q, <2>1, <2>2, <2>3, ExprTail
<1>11. /\ h \in Nat /\ l \in Nat /\ h = l + p + d + 1 + q
       /\ \A i \in 1..p : code'[l + i - 1] = pre[i]
       /\ \A i \in (l + p)..(h - q - 2) : code'[i].op = "label"
       /\ code'[h - q - 1] = Instr("eval", n, b)
       /\ \A i \in 1..q : code'[h - q - 1 + i] = post[i]
  BY ONLY <1>10 DEF ExprAt
<1>12. kind # "for" =>
         /\ l + 1 < h /\ \A i \in l..(h - 3) : code'[i].op = "label"
         /\ code'[h - 2] = Instr("eval", n, b) /\ code'[h - 1] = post[1]
  <2> SUFFICES ASSUME kind # "for" PROVE /\ l + 1 < h /\ \A i \in l..(h - 3) : code'[i].op = "label"
                                         /\ code'[h - 2] = Instr("eval", n, b) /\ code'[h - 1] = post[1]
    OBVIOUS
  <2>1. p = 0 /\ q = 1
    BY <1>1, <1>k, <1>5, <1>6, <1>p, <1>q
  <2>2. h - q - 1 = h - 2 /\ h - q - 1 + 1 = h - 1 /\ l + p = l /\ h - q - 2 = h - 3 /\ l + 1 < h
    BY ONLY <1>1, <1>11, <2>1
  <2> QED BY ONLY <1>11, <2>1, <2>2
<1>13. kind = "for" =>
         /\ l + 3 < h /\ \A i \in l..(h - 4) : code'[i].op = "label"
         /\ code'[l] = Label(labels.cond)
         /\ code'[h - 3] = Instr("eval", n, b) /\ code'[h - 2] = post[1] /\ code'[h - 1] = post[2]
  <2> SUFFICES ASSUME kind = "for" PROVE /\ l + 3 < h /\ \A i \in l..(h - 4) : code'[i].op = "label"
                                         /\ code'[l] = Label(labels.cond)
                                         /\ code'[h - 3] = Instr("eval", n, b)
                                         /\ code'[h - 2] = post[1] /\ code'[h - 1] = post[2]
    OBVIOUS
  <2>1. p = 1 /\ q = 2 /\ pre[1] = Label(labels.cond)
    BY <1>5, <1>6, <1>p, <1>q
  <2>2. /\ h - q - 1 = h - 3 /\ h - q - 1 + 1 = h - 2 /\ h - q - 1 + 2 = h - 1 /\ l + 1 - 1 = l
        /\ l + p = l + 1 /\ h - q - 2 = h - 4 /\ l + 3 < h
    BY ONLY <1>1, <1>11, <2>1
  <2>3. code'[l] = Label(labels.cond) /\ code'[l].op = "label"
    <3>1. code'[l] = Label(labels.cond)
      BY ONLY <1>11, <2>1, <2>2
    <3> QED BY <3>1 DEF Label
  <2>4. \A i \in l..(h - 4) : i = l \/ i \in (l + 1)..(h - 4)
    BY ONLY <1>11, <2>2
  <2> QED BY ONLY <1>11, <2>1, <2>2, <2>3, <2>4
<1>14. Fills(<<"cond", n, b>>, l, h, labels)'
  <2> SUFFICES ASSUME NEW lab, NEW brk, lab[n] = labels
               PROVE  CondCode(n, b, l, h, lab)'
    BY DEF Fills, HasCode
  <2>1. tree'[n].kind = kind /\ Branches(tree'[n]) = Branches(tree[n])
    BY <1>k
  <2>2. kind \in {"if", "while", "until"} => LabelsIn(l, h - 2)'
    <3>1. h - 2 - 1 = h - 3
      BY ONLY <1>11
    <3> QED BY ONLY <1>12, <3>1 DEF LabelsIn
  <2>3. kind = "for" => LabelsIn(l, h - 3)'
    <3>1. h - 3 - 1 = h - 4
      BY ONLY <1>11
    <3> QED BY ONLY <1>13, <3>1 DEF LabelsIn
  <2> QED BY <1>6, <1>12, <1>13, <1>t, <2>1, <2>2, <2>3 DEF CondCode
<1> QED BY <1>8, <1>9, <1>10, <1>14

\* What is coming when the innermost open statement comes to its condition,
\* its update, or a block.
LEMMA ComingPart ==
  ASSUME Shape, PathOK, open # <<>>, NEW n, n = Top.node, NEW b, b = Top.block
  PROVE  /\ \A t \in {"cond", "update", "in", "out"} :
              <<t, n, b>> \in Parts /\ (Ahead(Top) = <<t, n, b>> => IsPart(<<t, n, b>>))
         /\ Top.next = "cond"   => Ahead(Top) = <<"cond", n, b>>
         /\ Top.next = "update" => Ahead(Top) = <<"update", n, b>>
         /\ Top.next = "block"  => Ahead(Top) = <<"in", n, b>>
         /\ Top.next = "body"   => Ahead(Top) = <<"out", n, b>>
<1>1. /\ n \in DOMAIN tree /\ tree[n].kind = Top.kind /\ n \in Nat /\ b \in Nat
      /\ Top.kind \in Loops \cup {"if"} /\ FrameOK(Top)
      /\ Top.next \in {"cond", "update", "block", "body"}
  BY TopShape
<1>2. (Top.kind = "if" /\ Top.next = "cond") => b <= tree[n].elseIfs
  <2>1. Len(open) \in DOMAIN open /\ Top = open[Len(open)]
    BY TopIsLast
  <2> QED BY <2>1 DEF PathOK
<1>3. Top.kind = "if" => b < Branches(tree[n])
  BY <1>1 DEF FrameOK
<1>4. /\ Top.next = "cond"   => Ahead(Top) = <<"cond", n, b>>
      /\ Top.next = "update" => Ahead(Top) = <<"update", n, b>>
      /\ Top.next = "block"  => Ahead(Top) = <<"in", n, b>>
      /\ Top.next = "body"   => Ahead(Top) = <<"out", n, b>>
  BY AheadIs
<1>5. ASSUME NEW t \in {"cond", "update", "in", "out"}, Ahead(Top) = <<t, n, b>>
      PROVE  IsPart(<<t, n, b>>)
  <2>1. /\ t = "cond" <=> Top.next = "cond"
        /\ t = "update" <=> Top.next = "update"
    BY <1>1, <1>4, <1>5
  <2>2. CASE Top.kind = "if"
    <3>1. t # "update"
      BY <1>1, <2>1, <2>2 DEF FrameOK
    <3> QED BY <1>1, <1>2, <1>3, <2>1, <2>2, <3>1 DEF IsPart
  <2>3. CASE Top.kind \in Loops
    <3>1. b = 0
      BY <1>1, <2>3 DEF FrameOK, Loops
    <3>2. t = "cond" => Top.kind \in {"while", "until", "for"}
      BY <1>1, <2>1, <2>3 DEF FrameOK, Loops
    <3>3. t = "update" => Top.kind = "for"
      BY <1>1, <2>1, <2>3 DEF FrameOK, Loops
    <3> QED BY <1>1, <2>3, <3>1, <3>2, <3>3 DEF IsPart
  <2> QED BY <1>1, <2>2, <2>3
<1>6. \A t \in {"cond", "update", "in", "out"} : <<t, n, b>> \in Parts
  BY <1>1 DEF Parts
<1> QED BY <1>4, <1>5, <1>6

\* A condition or an update with something of the statement still to come.
LEMMA AddsCode ==
  ASSUME Shape, PathOK, open # <<>>, tree' = tree, Top.next \in {"cond", "update"},
         NEW n, n = Top.node, NEW b, b = Top.block,
         NEW kk, kk = Ahead(Top), NEW f, SetTop(f), f.node = n, f.block = b,
         Top.next = "cond" /\ Top.kind \in {"if", "while"} => f.next = "block",
         Top.next = "cond" /\ Top.kind = "for" => f.next = "update",
         Top.next = "update" => f.next = "block",
         Top.kind # "until"
  PROVE  Adds(kk) /\ kk[2] = n
<1>1. /\ n \in DOMAIN tree /\ tree[n].kind = Top.kind /\ n \in Nat /\ n # 0 /\ b \in Nat
      /\ Top.kind \in Loops \cup {"if"} /\ FrameOK(Top)
      /\ tree[n].elseIfs \in Nat /\ tree[n].hasElse \in BOOLEAN
  BY TopShape
<1>2. /\ kk \in Parts /\ IsPart(kk)
      /\ Top.next = "cond" => kk = <<"cond", n, b>>
      /\ Top.next = "update" => kk = <<"update", n, b>>
  BY ComingPart
<1>3. /\ Top.kind # "if" => b = 0
      /\ Top.kind = "if" => Top.next = "cond"
      /\ Top.kind = "while" => Top.next = "cond"
      /\ Top.kind \in {"if", "while", "for"}
  BY <1>1 DEF FrameOK, Loops
<1>4. Ahead(f) = IF f.next = "block" THEN <<"in", n, b>> ELSE <<"update", n, b>>
  BY <1>3, AheadIs
<1>5. Following(kk) = Ahead(f)
  <2>1. CASE Top.next = "cond"
    <3>1. kk = <<"cond", n, b>>
      BY <1>2, <2>1
    <3>2. Following(kk) = IF tree[n].kind \in {"if", "while"} THEN <<"in", n, b>>
                          ELSE <<"update", n, 0>>
      BY <1>1, <1>3, <3>1 DEF Following
    <3>3. CASE Top.kind \in {"if", "while"}
      BY <1>1, <1>4, <2>1, <3>2, <3>3
    <3>4. CASE Top.kind = "for"
      BY <1>1, <1>3, <1>4, <2>1, <3>2, <3>4
    <3> QED BY <1>3, <3>3, <3>4
  <2>2. CASE Top.next = "update"
    <3>1. kk = <<"update", n, b>> /\ b = 0 /\ f.next = "block"
      BY <1>1, <1>2, <1>3, <2>2 DEF FrameOK
    <3>2. Following(kk) = <<"in", n, 0>>
      BY <3>1 DEF Following
    <3> QED BY <1>4, <3>1, <3>2
  <2> QED BY <2>1, <2>2
<1>6. Stage(kk) = (IF Top.next = "cond" THEN 4 * b + 1 ELSE 2)
      /\ Stage(Ahead(f)) = (IF f.next = "block" THEN 4 * b + 3 ELSE 2)
  <2>1. ASSUME NEW k, k = <<"cond", n, b>> PROVE Top.kind # "until" => Stage(k) = 4 * b + 1
    BY <1>1, <2>1 DEF Stage
  <2>2. ASSUME NEW k, k = <<"update", n, b>> PROVE Stage(k) = 2
    BY <2>2 DEF Stage
  <2>3. ASSUME NEW k, k = <<"in", n, b>> PROVE Stage(k) = 4 * b + 3
    BY <2>3 DEF Stage
  <2>4. PICK a : a = Ahead(f)
    OBVIOUS
  <2>5. a = IF f.next = "block" THEN <<"in", n, b>> ELSE <<"update", n, b>>
    BY <1>4, <2>4
  <2>6. Stage(a) = (IF f.next = "block" THEN 4 * b + 3 ELSE 2)
    BY ONLY <2>2, <2>3, <2>5
  <2>7. Stage(kk) = (IF Top.next = "cond" THEN 4 * b + 1 ELSE 2)
    BY <1>2, <2>1, <2>2
  <2> QED BY <2>4, <2>6, <2>7
<1>7. ASSUME NEW k \in Parts, IsPart(k), k[2] = n
      PROVE  Stage(k) < Stage(Ahead(f)) <=> Stage(k) < Stage(kk) \/ k = kk
  <2>1. CASE Top.kind = "if"
    <3>1. PICK c \in Nat :
            \/ k = <<"enter", n, 0>> /\ Stage(k) = 0
            \/ k = <<"cond", n, c>> /\ c <= tree[n].elseIfs /\ Stage(k) = 4 * c + 1
            \/ k = <<"in", n, c>> /\ c < Branches(tree[n]) /\ Stage(k) = 4 * c + 3
            \/ k = <<"out", n, c>> /\ c < Branches(tree[n]) /\ Stage(k) = 4 * c + 4
      BY <1>1, <1>7, <2>1, StagesOf
    <3>2. Stage(kk) = 4 * b + 1 /\ Stage(Ahead(f)) = 4 * b + 3 /\ kk = <<"cond", n, b>>
      BY <1>2, <1>3, <1>6, <2>1
    <3>3. k = <<"cond", n, c>> => (k = kk <=> c = b)
      BY <3>2
    <3>4. k # <<"cond", n, c>> => k # kk
      BY <3>1, <3>2
    <3> QED BY ONLY <1>1, <3>1, <3>2, <3>3, <3>4
  <2>2. CASE Top.kind # "if"
    <3>1. \/ k = <<"enter", n, 0>> /\ Stage(k) = 0
          \/ k = <<"cond", n, 0>> /\ Stage(k) = 1
          \/ k = <<"update", n, 0>> /\ Stage(k) = 2 /\ Top.kind = "for"
          \/ k = <<"in", n, 0>> /\ Stage(k) = 3
          \/ k = <<"out", n, 0>> /\ Stage(k) = 4
      <4>1. tree[n].kind # "if" /\ tree[n].kind # "until" /\ tree[n].kind \in Loops \cup {"if"}
        BY <1>1, <2>2
      <4> QED BY <1>7, <4>1, <1>1, StagesOf
    <3>2. b = 0 /\ Top.kind \in {"while", "for"}
      BY <1>3, <2>2
    <3> QED BY <1>2, <1>3, <1>6, <3>1, <3>2
  <2> QED BY <2>1, <2>2
<1>8. kk[2] = n
  BY <1>2
<1> QED BY <1>2, <1>5, <1>7, <1>8, AddsMove

\* The condition of an if, an else-if, a while or a for.
LEMMA ConditionMoves ==
  ASSUME IInv, IInv', FollowInv, open # <<>>, Top.next = "cond", Top.kind # "until",
         NEW d \in ExprLabels,
         Emit(BeforeCondition(Top) \o ExprCode("eval", Top.node, Top.block, d)
                \o AfterCondition(Top)),
         NEW f, f = [Top EXCEPT !.next = IF Top.kind = "for" THEN "update" ELSE "block"],
         SetTop(f), UNCHANGED <<tree, breakLabels>>
  PROVE  FollowInv'
<1>1. Shape
  BY Shapes
<1>0. tree' = tree /\ breakLabels' = breakLabels
  OBVIOUS
<1>n. PICK n, b, labels, l :
        n = Top.node /\ b = Top.block /\ labels = Top.labels /\ l = Len(code) + 1
  OBVIOUS
<1>2. PICK piece, h :
        /\ piece \in Seq(Instruction) /\ code' = code \o piece /\ h = l + Len(piece)
        /\ Fills(<<"cond", n, b>>, l, h, labels)'
  BY <1>1, <1>n, ConditionCode
<1>3. PathOK
  BY DEF FollowInv
<1>4. Ahead(Top) = <<"cond", n, b>>
  BY <1>n, AheadIs
<1>5. /\ f.node = n /\ f.labels = labels /\ f.kind = Top.kind /\ f.block = b
      /\ f.next = IF Top.kind = "for" THEN "update" ELSE "block"
  <2>1. Top \in FrameRecord
    BY <1>1, TopOK
  <2> QED BY <1>n, <2>1 DEF FrameRecord
<1>6. PICK kk : kk = <<"cond", n, b>>
  OBVIOUS
<1>7. Adds(kk) /\ kk[2] = n
  <2>1. /\ Top.next \in {"cond", "update"} /\ kk = Ahead(Top)
        /\ (Top.next = "cond" /\ Top.kind \in {"if", "while"} => f.next = "block")
        /\ (Top.next = "cond" /\ Top.kind = "for" => f.next = "update")
        /\ (Top.next = "update" => f.next = "block")
    BY <1>4, <1>5, <1>6
  <2> QED BY ONLY <1>0, <1>1, <1>3, <1>5, <1>n, <2>1, AddsCode, open # <<>>, SetTop(f),
                  Top.kind # "until"
<1>8. Fills(kk, l, h, labels)'
  BY <1>2, <1>6
<1>9. /\ (f.kind = "if" /\ f.next = "cond") => f.block <= tree[f.node].elseIfs
      /\ Top.kind \in Loops => Top.next # "body" /\ f.next # "body"
  BY <1>5
<1> QED BY <1>0, <1>2, <1>n, <1>5, <1>7, <1>8, <1>9, MoveFollows

\* The condition of an until is the last of its code.
LEMMA ConditionLeaves ==
  ASSUME IInv, IInv', FollowInv, open # <<>>, Top.next = "cond", Top.kind = "until",
         NEW d \in ExprLabels,
         Emit(BeforeCondition(Top) \o ExprCode("eval", Top.node, Top.block, d)
                \o AfterCondition(Top)),
         PopTop, UNCHANGED <<tree, breakLabels>>
  PROVE  FollowInv'
<1>0. tree' = tree /\ breakLabels' = breakLabels
  OBVIOUS
<1>1. Shape
  BY Shapes
<1>n. PICK n, b, labels, l :
        n = Top.node /\ b = Top.block /\ labels = Top.labels /\ l = Len(code) + 1
  OBVIOUS
<1>2. PICK piece, h :
        /\ piece \in Seq(Instruction) /\ code' = code \o piece /\ h = l + Len(piece)
        /\ Fills(<<"cond", n, b>>, l, h, labels)'
  BY <1>1, <1>n, ConditionCode
<1>3. PathOK
  BY DEF FollowInv
<1>4. Ahead(Top) = <<"cond", n, b>>
  BY <1>n, AheadIs
<1>5. PICK kk : kk = <<"cond", n, b>>
  OBVIOUS
<1>6. n \in DOMAIN tree /\ tree[n].kind = "until" /\ b = 0 /\ n \in Nat
  <2>1. n \in DOMAIN tree /\ tree[n].kind = Top.kind /\ FrameOK(Top) /\ n \in Nat
    BY <1>1, <1>n, TopShape
  <2> QED BY <1>n, <2>1 DEF FrameOK
<1>7. kk \in Parts /\ IsPart(kk)
  BY <1>1, <1>3, <1>4, <1>5, <1>n, ComingPart
<1>8. Stage(kk) = 5 /\ Following(kk) = Behind(n)
  BY <1>5, <1>6 DEF Stage, Following
<1>9. ASSUME NEW k \in Parts, IsPart(k), k[2] = n PROVE Stage(k) < Stage(kk) \/ k = kk
  <2>1. tree[n].kind # "if" /\ tree[n].kind \in Loops \cup {"if"}
    BY <1>6 DEF Loops
  <2>2. \/ k = <<"enter", n, 0>> /\ Stage(k) = 0
        \/ k = <<"cond", n, 0>> /\ Stage(k) = 5
        \/ k = <<"in", n, 0>> /\ Stage(k) = 3
        \/ k = <<"out", n, 0>> /\ Stage(k) = 4
    BY <1>1, <1>6, <1>9, <2>1, StagesOf
  <2> QED BY <1>5, <1>6, <1>8, <2>2
<1>10. Adds(kk)
  <2>1. Following(kk) = Behind(Top.node) /\ kk = Ahead(Top)
    BY <1>4, <1>5, <1>8, <1>n
  <2>2. \A k \in Parts : (IsPart(k) /\ k[2] = Top.node) => Stage(k) < Stage(kk) \/ k = kk
    BY <1>9, <1>n
  <2> QED BY ONLY <1>0, <1>1, <1>3, <1>7, <2>1, <2>2, AddsLeave, open # <<>>, PopTop
<1>11. Fills(kk, l, h, labels)' /\ kk[2] = n
  BY <1>2, <1>5
<1> QED BY <1>0, <1>2, <1>n, <1>10, <1>11, LeaveFollows

LEMMA ConditionFollows == IInv /\ IInv' /\ FollowInv /\ Condition => FollowInv'
<1> SUFFICES ASSUME IInv, IInv', FollowInv, NEW d \in ExprLabels, AtChild("cond"),
                    Emit(BeforeCondition(Top) \o ExprCode("eval", Top.node, Top.block, d)
                           \o AfterCondition(Top)),
                    CASE Top.kind = "until" -> PopTop
                      [] Top.kind = "for"   -> SetTop([Top EXCEPT !.next = "update"])
                      [] OTHER              -> SetTop([Top EXCEPT !.next = "block"]),
                    UNCHANGED <<tree, breakLabels>>
             PROVE  FollowInv'
  BY DEF Condition
<1>1. open # <<>> /\ Top.next = "cond"
  BY DEF AtChild
<1>2. CASE Top.kind = "until"
  BY <1>1, <1>2, ConditionLeaves
<1>3. CASE Top.kind # "until"
  <2>1. PICK f : f = [Top EXCEPT !.next = IF Top.kind = "for" THEN "update" ELSE "block"]
    OBVIOUS
  <2>2. SetTop(f)
    BY <1>3, <2>1
  <2> QED BY <1>1, <1>3, <2>1, <2>2, ConditionMoves
<1> QED BY <1>2, <1>3

LEMMA ForUpdateFollows == IInv /\ IInv' /\ FollowInv /\ ForUpdate => FollowInv'
<1> SUFFICES ASSUME IInv, IInv', FollowInv, NEW d \in ExprLabels, AtChild("update"),
                    Emit(<<Label(Top.labels.update)>>
                           \o ExprCode("update", Top.node, 0, d) \o AfterUpdate(Top)),
                    NEW f, f = [Top EXCEPT !.next = "block"], SetTop(f),
                    tree' = tree, breakLabels' = breakLabels
             PROVE  FollowInv'
  BY DEF ForUpdate
<1>0. open # <<>> /\ Top.next = "update"
  BY DEF AtChild
<1>1. Shape /\ PathOK
  BY Shapes DEF FollowInv
<1>n. PICK n, b, labels, l :
        n = Top.node /\ b = Top.block /\ labels = Top.labels /\ l = Len(code) + 1
  OBVIOUS
<1>2. /\ n \in DOMAIN tree /\ tree[n].kind = "for" /\ n \in Nat /\ b = 0 /\ Top.kind = "for"
      /\ labels.update \in Int /\ labels.cond \in Int /\ d \in Nat
  <2>1. /\ n \in DOMAIN tree /\ tree[n].kind = Top.kind /\ n \in Nat
        /\ Top.kind \in Loops \cup {"if"} /\ FrameOK(Top) /\ labels \in LabelRecord
    BY <1>0, <1>1, <1>n, TopShape
  <2>2. Top.kind = "for"
    BY <1>0, <2>1 DEF FrameOK, Loops
  <2>3. b = 0
    BY <1>n, <2>1, <2>2 DEF FrameOK
  <2>4. d \in Nat
    BY BoundsAssumption
  <2> QED BY <2>1, <2>2, <2>3, <2>4 DEF LabelRecord
<1>3. PICK pre, post : pre = <<Label(labels.update)>> /\ post = AfterUpdate(Top)
  OBVIOUS
<1>4. pre \in Seq(Instruction) /\ Len(pre) = 1 /\ pre[1] = Label(labels.update)
  <2>1. Label(labels.update) \in Instruction
    BY <1>2 DEF Label, Instruction
  <2> QED BY <1>3, <2>1
<1>5. post \in Seq(Instruction) /\ Len(post) = 2 /\ post[1] = Pop /\ post[2] = Goto(labels.cond)
  <2>1. Pop \in Instruction /\ Goto(labels.cond) \in Instruction
    BY <1>2 DEF Pop, Goto, Instruction
  <2>2. post = <<Pop, Goto(labels.cond)>>
    BY <1>3, <1>n DEF AfterUpdate
  <2> QED BY <2>1, <2>2
<1>6. PICK piece, h : piece = pre \o ExprCode("update", n, 0, d) \o post /\ h = l + Len(piece)
  OBVIOUS
<1>7. code' = code \o piece
  BY <1>3, <1>6, <1>n DEF Emit
<1>p. PICK p, q : p = Len(pre) /\ q = Len(post)
  OBVIOUS
<1>8. piece \in Seq(Instruction) /\ ExprAt("update", n, 0, d, pre, p, post, q, l, h)'
  <2>1. "update" \in {"simple", "eval", "update"} /\ 0 \in Nat
    OBVIOUS
  <2>2. l = Len(code) + 1
    BY <1>n
  <2>3. n \in Nat /\ d \in Nat
    BY <1>2
  <2>4. pre \in Seq(Instruction) /\ post \in Seq(Instruction)
    BY <1>4, <1>5
  <2> QED BY ONLY <1>1, <1>6, <1>7, <1>p, <2>1, <2>2, <2>3, <2>4, ExprTail
<1>9. /\ h \in Nat /\ l \in Nat /\ h = l + p + d + 1 + q
      /\ \A i \in 1..p : code'[l + i - 1] = pre[i]
      /\ \A i \in (l + p)..(h - q - 2) : code'[i].op = "label"
      /\ code'[h - q - 1] = Instr("update", n, 0)
      /\ \A i \in 1..q : code'[h - q - 1 + i] = post[i]
  BY ONLY <1>8 DEF ExprAt
<1>10. p = 1 /\ q = 2
  BY <1>4, <1>5, <1>p
<1>11. /\ h - q - 1 = h - 3 /\ h - q - 1 + 1 = h - 2 /\ h - q - 1 + 2 = h - 1 /\ l + 1 - 1 = l
       /\ l + p = l + 1 /\ h - q - 2 = h - 4 /\ l + 3 < h /\ h - 3 - 1 = h - 4
  BY ONLY <1>2, <1>9, <1>10
<1>12. /\ code'[l] = Label(labels.update) /\ code'[h - 3] = Instr("update", n, 0)
       /\ code'[h - 2] = Pop /\ code'[h - 1] = Goto(labels.cond)
  BY ONLY <1>4, <1>5, <1>9, <1>10, <1>11
<1>13. LabelsIn(l, h - 3)'
  <2>1. code'[l].op = "label"
    BY <1>12 DEF Label
  <2>2. \A i \in l..(h - 4) : i = l \/ i \in (l + 1)..(h - 4)
    BY ONLY <1>9, <1>11
  <2> QED BY ONLY <1>9, <1>10, <1>11, <2>1, <2>2 DEF LabelsIn
<1>14. PICK kk : kk = <<"update", n, b>>
  OBVIOUS
<1>15. Fills(kk, l, h, labels)'
  <2> SUFFICES ASSUME NEW lab, NEW brk, lab[n] = labels
               PROVE  UpdateCode(n, l, h, lab)'
    BY <1>14 DEF Fills, HasCode
  <2> QED BY <1>11, <1>12, <1>13 DEF UpdateCode
<1>16. /\ f.node = n /\ f.labels = labels /\ f.kind = Top.kind /\ f.block = b
       /\ f.next = "block"
  <2>1. Top \in FrameRecord
    BY <1>0, TopOK
  <2> QED BY <1>n, <2>1 DEF FrameRecord
<1>17. kk = Ahead(Top)
  BY <1>0, <1>14, <1>n, AheadIs
<1>18. Adds(kk) /\ kk[2] = n
  <2>1. /\ Top.next \in {"cond", "update"} /\ Top.kind # "until"
        /\ (Top.next = "cond" /\ Top.kind \in {"if", "while"} => f.next = "block")
        /\ (Top.next = "cond" /\ Top.kind = "for" => f.next = "update")
        /\ (Top.next = "update" => f.next = "block")
    BY <1>0, <1>2, <1>16
  <2> QED BY ONLY <1>0, <1>1, <1>16, <1>17, <1>n, <2>1, AddsCode, tree' = tree, SetTop(f)
<1>19. /\ (f.kind = "if" /\ f.next = "cond") => f.block <= tree[f.node].elseIfs
       /\ Top.kind \in Loops => Top.next # "body" /\ f.next # "body"
  BY <1>0, <1>16
<1> QED BY <1>0, <1>6, <1>7, <1>8, <1>n, <1>15, <1>16, <1>18, <1>19, MoveFollows

\* No statement is in a block that has yet to be entered.
LEMMA BlockIsEmpty ==
  ASSUME Shape, NodesOK, open # <<>>, Top.next = "block", NEW n, n = Top.node, NEW b, b = Top.block
  PROVE  NextPart(n, b, 0) = <<"out", n, b>>
<1>1. Coming = <<"in", n, b>>
  BY TopShape, AheadIs
<1>2. ~Emitted(<<"in", n, b>>)
  BY <1>1, ComingIsNew
<1>3. \A c \in DOMAIN tree : ~(tree[c].parent = n /\ tree[c].block = b)
  BY <1>2 DEF NodesOK
<1>4. Later(n, b, 0) = {}
  BY <1>3 DEF Later, Children, Shape
<1> QED BY <1>4 DEF NextPart

LEMMA AddsEntry ==
  ASSUME Shape, PathOK, NodesOK, open # <<>>, tree' = tree, Top.next = "block",
         NEW n, n = Top.node, NEW b, b = Top.block, NEW kk, kk = <<"in", n, b>>,
         NEW f, SetTop(f), f.node = n, f.block = b, f.next = "body"
  PROVE  Adds(kk) /\ kk[2] = n
<1>1. /\ n \in DOMAIN tree /\ tree[n].kind = Top.kind /\ n \in Nat /\ n # 0 /\ b \in Nat
      /\ Top.kind \in Loops \cup {"if"} /\ FrameOK(Top)
  BY TopShape
<1>2. kk \in Parts /\ IsPart(kk) /\ kk = Ahead(Top)
  BY ComingPart
<1>3. PICK a : a = Ahead(f)
  OBVIOUS
<1>4. a = <<"out", n, b>>
  BY <1>3, AheadIs
<1>5. Following(kk) = a
  <2>1. NextPart(n, b, 0) = <<"out", n, b>>
    BY BlockIsEmpty
  <2> QED BY <1>4, <2>1 DEF Following
<1>6. Stage(kk) = 4 * b + 3 /\ Stage(a) = 4 * b + 4
  BY <1>4 DEF Stage
<1>7. ASSUME NEW k \in Parts, IsPart(k), k[2] = n
      PROVE  Stage(k) < Stage(a) <=> Stage(k) < Stage(kk) \/ k = kk
  <2>1. CASE Top.kind = "if"
    <3>1. PICK c \in Nat :
            \/ k = <<"enter", n, 0>> /\ Stage(k) = 0
            \/ k = <<"cond", n, c>> /\ c <= tree[n].elseIfs /\ Stage(k) = 4 * c + 1
            \/ k = <<"in", n, c>> /\ c < Branches(tree[n]) /\ Stage(k) = 4 * c + 3
            \/ k = <<"out", n, c>> /\ c < Branches(tree[n]) /\ Stage(k) = 4 * c + 4
      BY <1>1, <1>7, <2>1, StagesOf
    <3>2. k = <<"in", n, c>> => (k = kk <=> c = b)
      OBVIOUS
    <3>3. k # <<"in", n, c>> => k # kk
      BY <3>1
    <3> QED BY ONLY <1>1, <1>6, <3>1, <3>2, <3>3
  <2>2. CASE Top.kind # "if"
    <3>1. \/ k = <<"enter", n, 0>> /\ Stage(k) = 0
          \/ k = <<"cond", n, 0>> /\ Stage(k) = 5
          \/ k = <<"cond", n, 0>> /\ Stage(k) = 1
          \/ k = <<"update", n, 0>> /\ Stage(k) = 2
          \/ k = <<"in", n, 0>> /\ Stage(k) = 3
          \/ k = <<"out", n, 0>> /\ Stage(k) = 4
      <4>1. tree[n].kind # "if" /\ tree[n].kind \in Loops \cup {"if"}
        BY <1>1, <2>2
      <4> QED BY <1>7, <4>1, <1>1, StagesOf
    <3>2. b = 0
      BY <1>1, <2>2 DEF FrameOK
    <3> QED BY <1>6, <3>1, <3>2
  <2> QED BY <2>1, <2>2
<1>8. kk[2] = n
  OBVIOUS
<1>9. /\ kk \in Parts /\ kk = Ahead(Top) /\ IsPart(kk) /\ Following(kk) = Ahead(f)
      /\ f.node = Top.node
      /\ \A k \in Parts : (IsPart(k) /\ k[2] = Top.node) =>
           (Stage(k) < Stage(Ahead(f)) <=> Stage(k) < Stage(kk) \/ k = kk)
  BY <1>2, <1>3, <1>5, <1>7
<1>10. Adds(kk)
  BY ONLY <1>9, Shape, PathOK, open # <<>>, tree' = tree, SetTop(f), AddsMove
<1> QED BY <1>8, <1>10

\* The code at the start of a block.
LEMMA EntryCode ==
  ASSUME Shape, open # <<>>, tree' = tree, Emit(BlockEntry(Top)), Top.next = "block",
         NEW n, n = Top.node, NEW b, b = Top.block,
         NEW labels, labels = Top.labels, NEW l, l = Len(code) + 1
  PROVE  \E piece \in Seq(Instruction) : \E h :
           /\ code' = code \o piece /\ h = l + Len(piece)
           /\ Fills(<<"in", n, b>>, l, h, labels)'
<1>1. /\ n \in DOMAIN tree /\ tree[n].kind = Top.kind /\ n \in Nat /\ n # 0 /\ b \in Nat
      /\ Top.kind \in Loops \cup {"if"} /\ FrameOK(Top)
      /\ labels.start \in Int /\ labels.conds \in Seq(Int)
  <2>1. /\ n \in DOMAIN tree /\ tree[n].kind = Top.kind /\ n \in Nat /\ n # 0 /\ b \in Nat
        /\ Top.kind \in Loops \cup {"if"} /\ FrameOK(Top) /\ labels \in LabelRecord
    BY TopShape
  <2> QED BY <2>1 DEF LabelRecord
<1>k. PICK kind : kind = tree[n].kind
  OBVIOUS
<1>2. PICK piece : piece = BlockEntry(Top)
  OBVIOUS
<1>e. kind = "if" /\ b = 0 => labels.conds[1] \in Int
  <2>1. kind = "if" => 1 \in DOMAIN labels.conds
    BY <1>1, <1>k DEF FrameOK
  <2> QED BY <1>1, <2>1
<1>t. PICK target : target = IF kind = "for" THEN labels.start ELSE labels.conds[1]
  OBVIOUS
<1>a. PICK a : a = Label(target)
  OBVIOUS
<1>3. /\ piece \in Seq(Instruction)
      /\ (kind = "for" \/ (kind = "if" /\ b = 0)) => Len(piece) = 1 /\ piece[1] = a
      /\ ~(kind = "for" \/ (kind = "if" /\ b = 0)) => Len(piece) = 0
  <2>1. CASE kind = "for" \/ (kind = "if" /\ b = 0)
    <3>1. target \in Int
      BY <1>1, <1>e, <1>t, <2>1
    <3>2. a \in Instruction
      BY <1>a, <3>1 DEF Label, Instruction
    <3>3. piece = <<a>>
      BY <1>1, <1>2, <1>a, <1>k, <1>t, <2>1 DEF BlockEntry
    <3> QED BY ONLY <2>1, <3>2, <3>3
  <2>2. CASE ~(kind = "for" \/ (kind = "if" /\ b = 0))
    <3>1. piece = <<>>
      BY <1>1, <1>2, <1>k, <2>2 DEF BlockEntry
    <3> QED BY <2>2, <3>1
  <2> QED BY <2>1, <2>2
<1>4. code' = code \o piece
  BY <1>2 DEF Emit
<1>5. PICK h : h = l + Len(piece)
  OBVIOUS
<1>s. PICK s : s = Len(piece)
  OBVIOUS
<1>6. l \in Nat /\ (s >= 1 => code'[l] = piece[1])
  BY ONLY <1>3, <1>4, <1>s, Shape, l = Len(code) + 1, CodeTail
<1>7. /\ (kind = "for" \/ (kind = "if" /\ b = 0)) => h = l + 1 /\ code'[l] = a
      /\ ~(kind = "for" \/ (kind = "if" /\ b = 0)) => h = l
  BY <1>3, <1>5, <1>6, <1>s
<1>8. Fills(<<"in", n, b>>, l, h, labels)'
  <2> SUFFICES ASSUME NEW lab, NEW brk, lab[n] = labels
               PROVE  InCode(n, b, l, h, lab)'
    BY DEF Fills, HasCode
  <2>1. tree'[n].kind = kind
    BY <1>k
  <2> QED BY <1>1, <1>7, <1>a, <1>t, <2>1 DEF InCode
<1> QED BY <1>3, <1>4, <1>5, <1>8

LEMMA EnterBlockFollows == IInv /\ IInv' /\ FollowInv /\ EnterBlock => FollowInv'
<1> SUFFICES ASSUME IInv, IInv', FollowInv, AtChild("block"), Emit(BlockEntry(Top)),
                    NEW f, f = [Top EXCEPT !.next = "body"], SetTop(f),
                    OpenBreak(Top), tree' = tree
             PROVE  FollowInv'
  BY DEF EnterBlock
<1>0. open # <<>> /\ Top.next = "block"
  BY DEF AtChild
<1>1. Shape /\ Shape' /\ breakLabels \in Seq(Nat)
  BY Shapes
<1>5. PathOK /\ NodesOK
  BY DEF FollowInv
<1>n. PICK n, b, labels, l :
        n = Top.node /\ b = Top.block /\ labels = Top.labels /\ l = Len(code) + 1
  OBVIOUS
<1>2. PICK piece, h :
        /\ piece \in Seq(Instruction) /\ code' = code \o piece /\ h = l + Len(piece)
        /\ Fills(<<"in", n, b>>, l, h, labels)'
  BY <1>0, <1>1, <1>n, EntryCode
<1>3. PICK kk : kk = <<"in", n, b>>
  OBVIOUS
<1>4. Fills(kk, l, h, labels)'
  BY <1>2, <1>3
<1>6. /\ f.node = n /\ f.labels = labels /\ f.kind = Top.kind /\ f.block = b
      /\ f.next = "body"
  <2>1. Top \in FrameRecord
    BY <1>0, TopOK
  <2> QED BY <1>n, <2>1 DEF FrameRecord
<1>7. Adds(kk) /\ kk[2] = n
  <2>1. n = Top.node /\ b = Top.block
    BY <1>n
  <2> QED BY ONLY <1>0, <1>1, <1>3, <1>5, <1>6, <2>1, AddsEntry, tree' = tree, SetTop(f)
<1>8. CASE Top.kind \notin Loops
  <2>1. breakLabels' = breakLabels
    BY <1>8 DEF OpenBreak
  <2>2. /\ (f.kind = "if" /\ f.next = "cond") => f.block <= tree[f.node].elseIfs
        /\ Top.kind \in Loops => Top.next # "body" /\ f.next # "body"
    BY <1>6, <1>8
  <2> QED BY <1>0, <1>2, <1>4, <1>6, <1>7, <1>n, <2>1, <2>2, MoveFollows
<1>9. CASE Top.kind \in Loops
  <2>1. PICK c : c = labelCounter
    OBVIOUS
  <2>2. breakLabels' = Append(breakLabels, c) /\ c \in Nat
    BY <1>1, <1>9, <2>1 DEF OpenBreak, Shape
  <2>3. TreeExtends /\ DOMAIN tree' = DOMAIN tree
    BY DEF TreeExtends
  <2>4. PathOK'
    <3>1. f.node = Top.node /\ ((f.kind = "if" /\ f.next = "cond") => f.block <= tree[f.node].elseIfs)
      BY <1>6, <1>n
    <3> QED BY <1>0, <1>1, <1>5, <3>1, PathMove
  <2>5. NodesOK'
    BY <1>1, <1>5, <1>7, <2>3, NodesKept
  <2>p. PICK lo, hi, lab, brk, loops :
          /\ lo \in [Parts -> Nat] /\ hi \in [Parts -> Nat] /\ lab \in [Nat -> LabelRecord]
          /\ brk \in [Nat -> Nat] /\ loops \in Seq(Nat)
          /\ Laid(lo, hi, lab, brk) /\ Kept(lab, brk, loops)
    BY DEF FollowInv
  <2>6. Kept(lab, brk, loops) /\ brk \in [Nat -> Nat] /\ loops \in Seq(Nat)
    BY <2>p
  <2>f. f.node = Top.node /\ f.labels = Top.labels /\ f.kind = Top.kind /\ f.next = "body"
    BY <1>6, <1>n
  <2>q. PICK brk2, loops2 :
          /\ brk2 \in [Nat -> Nat] /\ loops2 \in Seq(Nat) /\ Kept(lab, brk2, loops2)'
          /\ \A m \in Nat : m # Top.node => brk2[m] = brk[m]
    <3>1. PathOK
      BY <1>5
    <3>2. \E brk2 \in [Nat -> Nat], loops2 \in Seq(Nat) :
            /\ Kept(lab, brk2, loops2)'
            /\ \A m \in Nat : m # Top.node => brk2[m] = brk[m]
      <4>1. Shape
        BY <1>1
      <4>2. open # <<>> /\ Top.next = "block" /\ breakLabels \in Seq(Nat)
        BY <1>0, <1>1
      <4>3. breakLabels' = Append(breakLabels, c)
        BY <2>2
      <4>4. c \in Nat
        BY <2>2
      <4>5. brk \in [Nat -> Nat]
        BY <2>6
      <4>6. loops \in Seq(Nat)
        BY <2>6
      <4>7. Kept(lab, brk, loops)
        BY <2>6
      <4> QED BY ONLY <1>9, <2>f, <3>1, <4>1, <4>2, <4>3, <4>4, <4>5, <4>6, <4>7, KeptEnterLoop,
                      SetTop(f)
    <3> QED BY ONLY <3>2
  <2>7. \A m : Emitted(<<"in", m, 0>>) => brk2[m] = brk[m]
    <3> SUFFICES ASSUME NEW m, Emitted(<<"in", m, 0>>) PROVE brk2[m] = brk[m]
      OBVIOUS
    <3>1. m \in Nat
      <4>1. PICK k : k = <<"in", m, 0>>
        OBVIOUS
      <4>2. k \in Parts /\ k[2] = m
        BY <4>1 DEF Emitted
      <4> QED BY <4>2, PartFields
    <3>2. b = 0
      <4>1. FrameOK(Top)
        BY <1>0, <1>1, TopShape
      <4> QED BY <1>9, <1>n, <4>1 DEF FrameOK, Loops
    <3>3. Coming = <<"in", n, 0>>
      <4>1. Ahead(Top) = <<"in", n, 0>>
        BY <1>0, <1>n, <3>2, AheadIs
      <4> QED BY <1>0, <4>1 DEF Coming
    <3>4. m # n
      BY <1>1, <3>3, ComingIsNew
    <3> QED BY ONLY <1>n, <2>q, <3>1, <3>4
  <2>8. HasCode(kk, l, h, lab, brk2)'
    <3>1. lab[Top.node] = Top.labels
      BY <1>0, <1>1, <1>5, <2>6, TopIsLast DEF Kept
    <3> QED BY <1>4, <1>7, <1>n, <3>1 DEF Fills
  <2>9. /\ \A m \in DOMAIN tree : lab[m] = lab[m]
        /\ l = Len(code) + 1
    BY <1>n
  <2> QED BY ONLY <1>2, <1>5, <1>7, <2>3, <2>4, <2>5, <2>7, <2>8, <2>9, <2>p, <2>q, IInv, IInv', FollowStep
<1> QED BY <1>8, <1>9

\* One instruction after another.
LEMMA OneAndOne ==
  ASSUME NEW a \in Instruction, NEW b \in Instruction, NEW s, s = <<a>> \o <<b>>
  PROVE  s \in Seq(Instruction) /\ Len(s) = 2 /\ s[1] = a /\ s[2] = b
<1>1. PICK u, v : u = <<a>> /\ v = <<b>>
  OBVIOUS
<1>2. /\ u \in Seq(Instruction) /\ Len(u) = 1 /\ u[1] = a
      /\ v \in Seq(Instruction) /\ Len(v) = 1 /\ v[1] = b
  BY <1>1
<1>3. s = u \o v
  BY <1>1
<1>4. /\ u \o v \in Seq(Instruction) /\ Len(u \o v) = Len(u) + Len(v)
      /\ \A i \in 1..(Len(u) + Len(v)) :
           (u \o v)[i] = IF i <= Len(u) THEN u[i] ELSE v[i - Len(u)]
  BY ONLY <1>2, ConcatProperties
<1>5. Len(u \o v) = 2 /\ (u \o v)[1] = a /\ (u \o v)[2] = b
  BY ONLY <1>2, <1>4
<1> QED BY <1>3, <1>4, <1>5

\* The code at the end of a block of an if.
LEMMA IfExitCode ==
  ASSUME Shape, open # <<>>, tree' = tree, Emit(IfBlockExit(Top)), Top.kind = "if",
         NEW n, n = Top.node, NEW b, b = Top.block,
         NEW labels, labels = Top.labels, NEW l, l = Len(code) + 1
  PROVE  \E piece \in Seq(Instruction) : \E h :
           /\ code' = code \o piece /\ h = l + Len(piece)
           /\ Fills(<<"out", n, b>>, l, h, labels)'
<1>1. /\ n \in DOMAIN tree /\ tree[n].kind = "if" /\ n \in Nat /\ n # 0 /\ b \in Nat
      /\ labels.end \in Int /\ labels.conds \in Seq(Int) /\ b < Branches(tree[n])
      /\ Len(labels.conds) = Branches(tree[n])
  <2>1. /\ n \in DOMAIN tree /\ tree[n].kind = Top.kind /\ n \in Nat /\ n # 0 /\ b \in Nat
        /\ FrameOK(Top) /\ labels \in LabelRecord
    BY TopShape
  <2> QED BY <2>1 DEF LabelRecord, FrameOK
<1>2. PICK B, conds : B = Branches(tree[n]) /\ conds = labels.conds
  OBVIOUS
<1>3. B \in Nat /\ Len(conds) = B /\ conds \in Seq(Int) /\ b < B
  BY <1>1, <1>2
<1>4. PICK target : target = IF b + 1 < B THEN conds[b + 2] ELSE labels.end
  OBVIOUS
<1>5. target \in Int
  <2>1. \A i \in Nat : i + 1 < Len(conds) => conds[i + 2] \in Int
    BY <1>3
  <2> QED BY <1>1, <1>3, <1>4, <2>1
<1>6. PICK a, c : a = Goto(labels.end) /\ c = Label(target)
  OBVIOUS
<1>7. a \in Instruction /\ c \in Instruction
  BY <1>1, <1>5, <1>6 DEF Goto, Label, Instruction
<1>8. PICK piece : piece = IfBlockExit(Top)
  OBVIOUS
<1>9. piece \in Seq(Instruction) /\ Len(piece) = 2 /\ piece[1] = a /\ piece[2] = c
  <2>1. IsLastBlock(Top) <=> b = B - 1
    BY <1>2 DEF IsLastBlock
  <2>e. PICK e : e = <<>>
    OBVIOUS
  <2>2. CASE b + 1 < B
    <3>1. piece = <<a>> \o <<c>> \o e
      <4>1. ~IsLastBlock(Top)
        BY <1>1, <1>3, <2>1, <2>2
      <4> QED BY <1>2, <1>3, <1>4, <1>6, <1>8, <2>2, <2>e, <4>1 DEF IfBlockExit
    <3>2. PICK s : s = <<a>> \o <<c>>
      OBVIOUS
    <3>3. s \in Seq(Instruction) /\ Len(s) = 2 /\ s[1] = a /\ s[2] = c
      BY ONLY <1>7, <3>2, OneAndOne
    <3>4. s \o <<>> = s
      BY ONLY <3>3, ConcatEmptySeq
    <3> QED BY <2>e, <3>1, <3>2, <3>3, <3>4
  <2>3. CASE ~(b + 1 < B)
    <3>1. piece = <<a>> \o e \o <<c>>
      <4>1. IsLastBlock(Top)
        BY <1>1, <1>3, <2>1, <2>3
      <4> QED BY <1>2, <1>3, <1>4, <1>6, <1>8, <2>3, <2>e, <4>1 DEF IfBlockExit
    <3>2. PICK s : s = <<a>> \o <<c>>
      OBVIOUS
    <3>3. s \in Seq(Instruction) /\ Len(s) = 2 /\ s[1] = a /\ s[2] = c
      BY ONLY <1>7, <3>2, OneAndOne
    <3>4. <<a>> \o <<>> = <<a>>
      <4>1. PICK u : u = <<a>>
        OBVIOUS
      <4>2. u \in Seq(Instruction)
        BY <1>7, <4>1
      <4>3. u \o <<>> = u
        BY ONLY <4>2, ConcatEmptySeq
      <4> QED BY <4>1, <4>3
    <3> QED BY <2>e, <3>1, <3>2, <3>3, <3>4
  <2> QED BY <2>2, <2>3
<1>10. code' = code \o piece
  BY <1>8 DEF Emit
<1>11. PICK h : h = l + Len(piece)
  OBVIOUS
<1>s. PICK s : s = Len(piece)
  OBVIOUS
<1>12. l \in Nat /\ (s >= 1 => code'[l] = piece[1]) /\ (s >= 2 => code'[l + 1] = piece[2])
  BY ONLY <1>9, <1>10, <1>s, Shape, l = Len(code) + 1, CodeTail
<1>13. h = l + 2 /\ code'[l] = a /\ code'[l + 1] = c
  BY <1>9, <1>11, <1>12, <1>s
<1>14. Fills(<<"out", n, b>>, l, h, labels)'
  <2> SUFFICES ASSUME NEW lab, NEW brk, lab[n] = labels
               PROVE  OutCode(n, b, l, h, lab, brk)'
    BY DEF Fills, HasCode
  <2>1. tree'[n].kind = "if" /\ Branches(tree'[n]) = B
    BY <1>1, <1>2
  <2> QED BY <1>2, <1>4, <1>6, <1>13, <2>1 DEF OutCode, Loops
<1> QED BY <1>9, <1>10, <1>11, <1>14

LEMMA ExitIfBlockFollows == IInv /\ IInv' /\ FollowInv /\ ExitIfBlock => FollowInv'
<1> SUFFICES ASSUME IInv, IInv', FollowInv, open # <<>>, Top.next = "body", Top.kind = "if",
                    Emit(IfBlockExit(Top)), tree' = tree, breakLabels' = breakLabels,
                    IF IsLastBlock(Top) THEN PopTop
                    ELSE SetTop([Top EXCEPT
                           !.block = Top.block + 1,
                           !.next = IF Top.block + 1 <= tree[Top.node].elseIfs
                                    THEN "cond" ELSE "block"])
             PROVE  FollowInv'
  BY DEF ExitIfBlock, AtChild
<1>1. Shape /\ PathOK
  BY Shapes DEF FollowInv
<1>n. PICK n, b, labels, l :
        n = Top.node /\ b = Top.block /\ labels = Top.labels /\ l = Len(code) + 1
  OBVIOUS
<1>2. PICK piece, h :
        /\ piece \in Seq(Instruction) /\ code' = code \o piece /\ h = l + Len(piece)
        /\ Fills(<<"out", n, b>>, l, h, labels)'
  BY <1>1, <1>n, IfExitCode
<1>3. PICK kk : kk = <<"out", n, b>>
  OBVIOUS
<1>4. Fills(kk, l, h, labels)' /\ kk[2] = n
  BY <1>2, <1>3
<1>5. /\ n \in DOMAIN tree /\ tree[n].kind = "if" /\ n \in Nat /\ n # 0 /\ b \in Nat
      /\ tree[n].elseIfs \in Nat /\ tree[n].hasElse \in BOOLEAN /\ b < Branches(tree[n])
  <2>1. /\ n \in DOMAIN tree /\ tree[n].kind = Top.kind /\ n \in Nat /\ n # 0 /\ b \in Nat
        /\ FrameOK(Top) /\ tree[n].elseIfs \in Nat /\ tree[n].hasElse \in BOOLEAN
    BY <1>1, <1>n, TopShape
  <2> QED BY <1>n, <2>1 DEF FrameOK
<1>6. PICK B, E : B = Branches(tree[n]) /\ E = tree[n].elseIfs
  OBVIOUS
<1>7. B \in Nat /\ E \in Nat /\ b < B /\ B >= E + 1 /\ B <= E + 2
  BY <1>5, <1>6 DEF Branches
<1>8. kk \in Parts /\ IsPart(kk) /\ kk = Ahead(Top)
  BY <1>1, <1>3, <1>n, ComingPart
<1>9. Stage(kk) = 4 * b + 4
  BY <1>3 DEF Stage
<1>10. ASSUME NEW k \in Parts, IsPart(k), k[2] = n
       PROVE  \E c \in Nat :
                /\ \/ k = <<"enter", n, 0>> /\ Stage(k) = 0
                   \/ k = <<"cond", n, c>> /\ c <= E /\ Stage(k) = 4 * c + 1
                   \/ k = <<"in", n, c>> /\ c < B /\ Stage(k) = 4 * c + 3
                   \/ k = <<"out", n, c>> /\ c < B /\ Stage(k) = 4 * c + 4
                /\ k = kk <=> k = <<"out", n, c>> /\ c = b
  <2>1. PICK c \in Nat :
          \/ k = <<"enter", n, 0>> /\ Stage(k) = 0
          \/ k = <<"cond", n, c>> /\ c <= E /\ Stage(k) = 4 * c + 1
          \/ k = <<"in", n, c>> /\ c < B /\ Stage(k) = 4 * c + 3
          \/ k = <<"out", n, c>> /\ c < B /\ Stage(k) = 4 * c + 4
    <3>1. tree[n].kind \in Loops \cup {"if"}
      BY <1>5
    <3> QED BY <1>1, <1>5, <1>6, <1>10, <3>1, StagesOf
  <2>2. k = kk <=> k = <<"out", n, c>> /\ c = b
    BY <1>3, <2>1
  <2> QED BY <2>1, <2>2
<1>11. CASE IsLastBlock(Top)
  <2>1. PopTop
    BY <1>11
  <2>2. b = B - 1
    BY <1>6, <1>11, <1>n DEF IsLastBlock
  <2>3. Following(kk) = Behind(n)
    BY <1>3, <1>5, <1>6, <2>2 DEF Following
  <2>4. ASSUME NEW k \in Parts, IsPart(k), k[2] = n PROVE Stage(k) < Stage(kk) \/ k = kk
    <3>1. PICK c \in Nat :
            /\ \/ k = <<"enter", n, 0>> /\ Stage(k) = 0
               \/ k = <<"cond", n, c>> /\ c <= E /\ Stage(k) = 4 * c + 1
               \/ k = <<"in", n, c>> /\ c < B /\ Stage(k) = 4 * c + 3
               \/ k = <<"out", n, c>> /\ c < B /\ Stage(k) = 4 * c + 4
            /\ k = kk <=> k = <<"out", n, c>> /\ c = b
      BY <1>10, <2>4
    <3> QED BY ONLY <1>5, <1>7, <1>9, <2>2, <3>1
  <2>5. Adds(kk)
    <3>1. Following(kk) = Behind(Top.node)
      BY <2>3, <1>n
    <3>2. \A k \in Parts : (IsPart(k) /\ k[2] = Top.node) => Stage(k) < Stage(kk) \/ k = kk
      BY <2>4, <1>n
    <3> QED BY ONLY <1>1, <1>8, <2>1, <3>1, <3>2, AddsLeave, open # <<>>, tree' = tree
  <2>6. Top.kind \in Loops => Top.next # "body"
    BY DEF Loops
  <2> QED BY <1>2, <1>4, <1>n, <2>1, <2>5, <2>6, LeaveFollows
<1>12. CASE ~IsLastBlock(Top)
  <2>t. PICK to : to = IF b + 1 <= E THEN "cond" ELSE "block"
    OBVIOUS
  <2>f. PICK f : f = [Top EXCEPT !.block = Top.block + 1, !.next = to]
    OBVIOUS
  <2>1. SetTop(f)
    BY <1>6, <1>12, <1>n, <2>t, <2>f
  <2>2. /\ f.node = n /\ f.labels = labels /\ f.kind = Top.kind /\ f.block = b + 1
        /\ f.next = to
    <3>1. Top \in FrameRecord
      BY TopOK
    <3> QED BY <1>n, <2>f, <3>1 DEF FrameRecord
  <2>3. b # B - 1
    BY <1>6, <1>12, <1>n DEF IsLastBlock
  <2>a. PICK a : a = Ahead(f)
    OBVIOUS
  <2>4. a = IF b + 1 <= E THEN <<"cond", n, b + 1>> ELSE <<"in", n, b + 1>>
    <3>1. (b + 1 <= E => f.next = "cond") /\ (~(b + 1 <= E) => f.next = "block")
      BY <2>2, <2>t
    <3> QED BY <2>2, <2>a, <3>1, AheadIs
  <2>5. Following(kk) = a
    BY <1>3, <1>5, <1>6, <2>3, <2>4 DEF Following
  <2>6. Stage(a) = IF b + 1 <= E THEN 4 * (b + 1) + 1 ELSE 4 * (b + 1) + 3
    <3>1. ASSUME NEW c, NEW k, k = <<"cond", n, c>> PROVE Stage(k) = 4 * c + 1
      BY <1>5, <3>1 DEF Stage
    <3>2. ASSUME NEW c, NEW k, k = <<"in", n, c>> PROVE Stage(k) = 4 * c + 3
      BY <3>2 DEF Stage
    <3> QED BY <2>4, <3>1, <3>2
  <2>7. ASSUME NEW k \in Parts, IsPart(k), k[2] = n
        PROVE  Stage(k) < Stage(a) <=> Stage(k) < Stage(kk) \/ k = kk
    <3>1. PICK c \in Nat :
            /\ \/ k = <<"enter", n, 0>> /\ Stage(k) = 0
               \/ k = <<"cond", n, c>> /\ c <= E /\ Stage(k) = 4 * c + 1
               \/ k = <<"in", n, c>> /\ c < B /\ Stage(k) = 4 * c + 3
               \/ k = <<"out", n, c>> /\ c < B /\ Stage(k) = 4 * c + 4
            /\ k = kk <=> k = <<"out", n, c>> /\ c = b
      BY <1>10, <2>7
    <3>2. k = <<"out", n, c>> => k # <<"enter", n, 0>> /\ k # <<"cond", n, c>> /\ k # <<"in", n, c>>
      OBVIOUS
    <3> QED BY ONLY <1>5, <1>7, <1>9, <2>6, <3>1, <3>2
  <2>8. Adds(kk)
    <3>1. Following(kk) = Ahead(f) /\ f.node = Top.node
      BY <2>5, <2>a, <2>2, <1>n
    <3>2. \A k \in Parts : (IsPart(k) /\ k[2] = Top.node) =>
            (Stage(k) < Stage(Ahead(f)) <=> Stage(k) < Stage(kk) \/ k = kk)
      BY <2>7, <2>a, <1>n
    <3> QED BY ONLY <1>1, <1>8, <2>1, <3>1, <3>2, AddsMove, open # <<>>, tree' = tree
  <2>9. /\ (f.kind = "if" /\ f.next = "cond") => f.block <= tree[f.node].elseIfs
        /\ Top.kind \in Loops => Top.next # "body" /\ f.next # "body"
    BY <1>6, <2>2, <2>t DEF Loops
  <2> QED BY <1>2, <1>4, <1>n, <2>1, <2>2, <2>8, <2>9, MoveFollows
<1> QED BY <1>11, <1>12

\* The code at the end of a loop's block: that of the loop, and the label its
\* breaks go to.
EndsLoop(kk, l, h, labels, break) ==
  \A lab, brk : (lab[kk[2]] = labels /\ brk[kk[2]] = break) => HasCode(kk, l, h, lab, brk)

LEMMA LoopExitCode ==
  ASSUME Shape, open # <<>>, tree' = tree, Top.kind \in Loops,
         NEW break \in Nat, Emit(LoopExit(Top) \o <<Label(break)>>),
         NEW n, n = Top.node, NEW b, b = Top.block,
         NEW labels, labels = Top.labels, NEW l, l = Len(code) + 1
  PROVE  \E piece \in Seq(Instruction) : \E h :
           /\ code' = code \o piece /\ h = l + Len(piece)
           /\ EndsLoop(<<"out", n, b>>, l, h, labels, break)'
<1>1. /\ n \in DOMAIN tree /\ tree[n].kind = Top.kind /\ n \in Nat /\ n # 0 /\ b = 0
      /\ labels.start \in Int /\ labels.end \in Int /\ labels.update \in Int
  <2>1. /\ n \in DOMAIN tree /\ tree[n].kind = Top.kind /\ n \in Nat /\ n # 0
        /\ FrameOK(Top) /\ labels \in LabelRecord
    BY TopShape
  <2> QED BY <2>1 DEF LabelRecord, FrameOK, Loops
<1>k. PICK kind : kind = tree[n].kind
  OBVIOUS
<1>2. kind \in {"while", "until", "for", "infinite"} /\ Top.kind = kind
  BY <1>1, <1>k DEF Loops
<1>3. PICK s, t, e :
        /\ s = Goto(IF kind = "for" THEN labels.update ELSE labels.start)
        /\ t = Label(labels.end) /\ e = Label(break)
  OBVIOUS
<1>4. s \in Instruction /\ t \in Instruction /\ e \in Instruction
  <2>1. \A i \in Int : Goto(i) \in Instruction /\ Label(i) \in Instruction
    BY DEF Goto, Label, Instruction
  <2>2. break \in Int /\ (IF kind = "for" THEN labels.update ELSE labels.start) \in Int
    BY <1>1
  <2> QED BY <1>1, <1>3, <2>1, <2>2
<1>5. PICK x : x = LoopExit(Top)
  OBVIOUS
<1>6. /\ x \in Seq(Instruction)
      /\ kind \in {"while", "for"} => Len(x) = 2 /\ x[1] = s /\ x[2] = t
      /\ kind = "infinite" => Len(x) = 1 /\ x[1] = s
      /\ kind = "until" => Len(x) = 0
  <2>1. CASE kind \in {"while", "for"}
    <3>1. x = <<s, t>>
      BY <1>2, <1>3, <1>5, <2>1 DEF LoopExit
    <3> QED BY <1>4, <2>1, <3>1
  <2>2. CASE kind = "infinite"
    <3>1. x = <<s>>
      BY <1>2, <1>3, <1>5, <2>2 DEF LoopExit
    <3> QED BY <1>4, <2>2, <3>1
  <2>3. CASE kind = "until"
    <3>1. x = <<>>
      BY <1>2, <1>5, <2>3 DEF LoopExit
    <3> QED BY <2>3, <3>1
  <2> QED BY <1>2, <2>1, <2>2, <2>3
<1>7. PICK y, piece : y = <<e>> /\ piece = x \o y
  OBVIOUS
<1>8. y \in Seq(Instruction) /\ Len(y) = 1 /\ y[1] = e
  BY <1>4, <1>7
<1>9. /\ piece \in Seq(Instruction) /\ Len(piece) = Len(x) + 1
      /\ \A i \in 1..(Len(x) + 1) : piece[i] = IF i <= Len(x) THEN x[i] ELSE y[i - Len(x)]
  <2>1. x \in Seq(Instruction) /\ Len(y) = 1 /\ y \in Seq(Instruction)
    BY <1>6, <1>8
  <2>2. /\ x \o y \in Seq(Instruction) /\ Len(x \o y) = Len(x) + Len(y)
        /\ \A i \in 1..(Len(x) + Len(y)) :
             (x \o y)[i] = IF i <= Len(x) THEN x[i] ELSE y[i - Len(x)]
    BY ONLY <2>1, ConcatProperties
  <2> QED BY <1>7, <2>1, <2>2
<1>10. /\ kind \in {"while", "for"} => Len(piece) = 3 /\ piece[1] = s /\ piece[2] = t /\ piece[3] = e
       /\ kind = "infinite" => Len(piece) = 2 /\ piece[1] = s /\ piece[2] = e
       /\ kind = "until" => Len(piece) = 1 /\ piece[1] = e
  BY ONLY <1>6, <1>8, <1>9
<1>11. code' = code \o piece
  BY <1>3, <1>5, <1>7 DEF Emit
<1>12. PICK h : h = l + Len(piece)
  OBVIOUS
<1>s. PICK z : z = Len(piece)
  OBVIOUS
<1>13. /\ l \in Nat /\ (z >= 1 => code'[l] = piece[1]) /\ (z >= 2 => code'[l + 1] = piece[2])
       /\ (z >= 3 => code'[l + 2] = piece[3])
  BY ONLY <1>9, <1>11, <1>s, Shape, l = Len(code) + 1, CodeTail
<1>14. /\ kind \in {"while", "for"} => h = l + 3 /\ h - 1 = l + 2
                            /\ code'[l] = s /\ code'[l + 1] = t /\ code'[l + 2] = e
       /\ kind = "infinite" => h = l + 2 /\ h - 1 = l + 1 /\ code'[l] = s /\ code'[l + 1] = e
       /\ kind = "until" => h = l + 1 /\ h - 1 = l /\ code'[l] = e
  BY <1>10, <1>12, <1>13, <1>s
<1>15. EndsLoop(<<"out", n, b>>, l, h, labels, break)'
  <2> SUFFICES ASSUME NEW lab, NEW brk, lab[n] = labels, brk[n] = break
               PROVE  OutCode(n, b, l, h, lab, brk)'
    BY DEF EndsLoop, HasCode
  <2>1. tree'[n].kind = kind
    BY <1>k
  <2> QED BY <1>2, <1>3, <1>14, <2>1 DEF OutCode, Loops
<1> QED BY <1>9, <1>11, <1>12, <1>15

LEMMA AddsExit ==
  ASSUME Shape, PathOK, open # <<>>, tree' = tree, Top.next = "body", Top.kind \in Loops,
         NEW n, n = Top.node, NEW b, b = Top.block, NEW kk, kk = <<"out", n, b>>,
         \/ Top.kind # "until" /\ PopTop
         \/ \E f : /\ Top.kind = "until" /\ SetTop(f) /\ f.node = n /\ f.block = b
                   /\ f.next = "cond"
  PROVE  Adds(kk) /\ kk[2] = n
<1>1. /\ n \in DOMAIN tree /\ tree[n].kind = Top.kind /\ n \in Nat /\ n # 0 /\ b = 0
      /\ Top.kind \in Loops
  <2>1. n \in DOMAIN tree /\ tree[n].kind = Top.kind /\ n \in Nat /\ n # 0 /\ FrameOK(Top)
    BY TopShape
  <2> QED BY <2>1 DEF FrameOK, Loops
<1>2. kk \in Parts /\ IsPart(kk) /\ kk = Ahead(Top)
  BY ComingPart
<1>3. Stage(kk) = 4
  BY <1>1 DEF Stage
<1>4. ASSUME NEW k \in Parts, IsPart(k), k[2] = n
      PROVE  \/ k = <<"enter", n, 0>> /\ Stage(k) = 0
             \/ k = <<"cond", n, 0>> /\ Top.kind = "until" /\ Stage(k) = 5
             \/ k = <<"cond", n, 0>> /\ Stage(k) = 1
             \/ k = <<"update", n, 0>> /\ Stage(k) = 2
             \/ k = <<"in", n, 0>> /\ Stage(k) = 3
             \/ k = <<"out", n, 0>> /\ Stage(k) = 4
  <2>1. tree[n].kind # "if" /\ tree[n].kind \in Loops \cup {"if"}
    BY <1>1 DEF Loops
  <2> QED BY <1>1, <1>4, <2>1, StagesOf
<1>5. kk[2] = n
  OBVIOUS
<1>6. CASE Top.kind # "until" /\ PopTop
  <2>1. Following(kk) = Behind(Top.node)
    BY <1>1, <1>6 DEF Following, Loops
  <2>2. \A k \in Parts : (IsPart(k) /\ k[2] = Top.node) => Stage(k) < Stage(kk) \/ k = kk
    BY <1>1, <1>3, <1>4, <1>6
  <2>3. PopTop
    BY <1>6
  <2>4. Adds(kk)
    BY ONLY <1>2, <2>1, <2>2, <2>3, Shape, PathOK, open # <<>>, tree' = tree, AddsLeave
  <2> QED BY <1>5, <2>4
<1>7. ASSUME NEW f, Top.kind = "until", SetTop(f), f.node = n, f.block = b, f.next = "cond"
      PROVE  Adds(kk)
  <2>a. PICK a : a = Ahead(f)
    OBVIOUS
  <2>1. a = <<"cond", n, 0>>
    BY <1>1, <1>7, <2>a, AheadIs
  <2>2. Following(kk) = a
    BY <1>1, <1>7, <2>1 DEF Following, Loops
  <2>3. Stage(a) = 5
    BY <1>1, <1>7, <2>1 DEF Stage
  <2>4. \A k \in Parts : (IsPart(k) /\ k[2] = n) =>
          (Stage(k) < Stage(a) <=> Stage(k) < Stage(kk) \/ k = kk)
    BY <1>1, <1>3, <1>4, <2>3
  <2>5. /\ Following(kk) = Ahead(f) /\ f.node = Top.node /\ SetTop(f)
        /\ \A k \in Parts : (IsPart(k) /\ k[2] = Top.node) =>
             (Stage(k) < Stage(Ahead(f)) <=> Stage(k) < Stage(kk) \/ k = kk)
    BY <1>7, <2>2, <2>4, <2>a
  <2> QED BY ONLY <1>2, <2>5, Shape, PathOK, open # <<>>, tree' = tree, AddsMove
<1> QED BY <1>5, <1>6, <1>7

LEMMA ExitLoopBlockFollows == IInv /\ IInv' /\ FollowInv /\ ExitLoopBlock => FollowInv'
<1> SUFFICES ASSUME IInv, IInv', FollowInv, ExitLoopBlock PROVE FollowInv'
  OBVIOUS
<1>0. open # <<>> /\ Top.next = "body" /\ Top.kind \in Loops /\ tree' = tree
  BY DEF ExitLoopBlock, AtChild
<1>1. Shape /\ Shape' /\ breakLabels \in Seq(Nat)
  BY Shapes
<1>5. PathOK /\ NodesOK
  BY DEF FollowInv
<1>p. PICK lo, hi, lab, brk, loops :
        /\ lo \in [Parts -> Nat] /\ hi \in [Parts -> Nat] /\ lab \in [Nat -> LabelRecord]
        /\ brk \in [Nat -> Nat] /\ loops \in Seq(Nat)
        /\ Laid(lo, hi, lab, brk) /\ Kept(lab, brk, loops)
  BY DEF FollowInv
<1>6. Kept(lab, brk, loops) /\ loops \in Seq(Nat) /\ brk \in [Nat -> Nat]
  BY <1>p
<1>t. Len(open) \in DOMAIN open /\ Top = open[Len(open)]
  BY <1>0, <1>1, <1>5, TopIsLast
<1>7. breakLabels # <<>>
  <2>1. Len(open) \in OpenLoops
    BY <1>0, <1>t DEF OpenLoops
  <2>2. \E k \in DOMAIN loops : loops[k] = Len(open)
    BY <1>6, <2>1 DEF Kept
  <2>3. Len(loops) = Len(breakLabels)
    BY <1>6 DEF Kept
  <2>4. DOMAIN loops = 1..Len(loops) /\ Len(loops) \in Nat
    BY <1>6
  <2>5. Len(breakLabels) # 0
    BY ONLY <2>2, <2>3, <2>4
  <2> QED BY ONLY <1>1, <2>5
<1>b. PICK break : break = breakLabels[Len(breakLabels)]
  OBVIOUS
<1>8. break \in Nat
  <2>1. Len(breakLabels) \in DOMAIN breakLabels
    BY ONLY <1>1, <1>7
  <2> QED BY ONLY <1>1, <1>b, <2>1
<1>9. /\ Emit(LoopExit(Top) \o <<Label(break)>>) /\ breakLabels' = BreakLabelsPopped
  BY <1>7, <1>b DEF ExitLoopBlock
<1>n. PICK n, b, labels, l :
        n = Top.node /\ b = Top.block /\ labels = Top.labels /\ l = Len(code) + 1
  OBVIOUS
<1>2. PICK piece, h :
        /\ piece \in Seq(Instruction) /\ code' = code \o piece /\ h = l + Len(piece)
        /\ EndsLoop(<<"out", n, b>>, l, h, labels, break)'
  BY <1>0, <1>1, <1>8, <1>9, <1>n, LoopExitCode
<1>3. PICK kk : kk = <<"out", n, b>>
  OBVIOUS
<1>f. PICK f : f = [Top EXCEPT !.next = "cond"]
  OBVIOUS
<1>10. /\ f.node = Top.node /\ f.labels = Top.labels /\ f.kind = Top.kind /\ f.block = Top.block
       /\ f.next = "cond"
  <2>1. Top \in FrameRecord
    BY <1>0, TopOK
  <2> QED BY <1>f, <2>1 DEF FrameRecord
<1>11. (Top.kind # "until" /\ PopTop) \/ (Top.kind = "until" /\ SetTop(f))
  <2>1. IF Top.kind = "until" THEN SetTop([Top EXCEPT !.next = "cond"]) ELSE PopTop
    BY ONLY ExitLoopBlock DEF ExitLoopBlock
  <2>2. CASE Top.kind = "until"
    BY <1>f, <2>1, <2>2
  <2>3. CASE Top.kind # "until"
    BY <2>1, <2>3
  <2> QED BY <2>2, <2>3
<1>12. Adds(kk) /\ kk[2] = n
  <2>1. \/ Top.kind # "until" /\ PopTop
        \/ \E g : /\ Top.kind = "until" /\ SetTop(g) /\ g.node = n /\ g.block = b
                  /\ g.next = "cond"
    BY ONLY <1>10, <1>11, <1>n
  <2>2. n = Top.node /\ b = Top.block
    BY <1>n
  <2> QED BY ONLY <1>0, <1>1, <1>3, <1>5, <2>1, <2>2, AddsExit
<1>13. (\E loops2 \in Seq(Nat) : Kept(lab, brk, loops2)') /\ brk[Top.node] = break
  <2>1. \/ PopTop
        \/ \E g : SetTop(g) /\ g.node = Top.node /\ g.labels = Top.labels /\ g.next # "body"
    BY <1>10, <1>11
  <2>2. /\ \E loops2 \in Seq(Nat) : Kept(lab, brk, loops2)'
        /\ brk[Top.node] = breakLabels[Len(breakLabels)]
    BY ONLY <1>0, <1>1, <1>6, <1>7, <1>9, <2>1, KeptExitLoop
  <2> QED BY <1>b, <2>2
<1>q. PICK loops2 : loops2 \in Seq(Nat) /\ Kept(lab, brk, loops2)'
  BY <1>13
<1>14. TreeExtends /\ DOMAIN tree' = DOMAIN tree
  BY <1>0 DEF TreeExtends
<1>15. PathOK'
  <2>1. CASE PopTop
    BY <1>0, <1>1, <1>5, <2>1, PathLeave
  <2>2. CASE Top.kind = "until" /\ SetTop(f)
    <3>1. (f.kind = "if" /\ f.next = "cond") => f.block <= tree[f.node].elseIfs
      BY <1>10, <2>2
    <3> QED BY <1>0, <1>1, <1>5, <1>10, <2>2, <3>1, PathMove
  <2> QED BY <1>11, <2>1, <2>2
<1>16. NodesOK'
  BY <1>1, <1>5, <1>12, <1>14, NodesKept
<1>17. HasCode(kk, l, h, lab, brk)'
  <2>1. lab[Top.node] = Top.labels
    BY <1>t, <1>6 DEF Kept
  <2>2. lab[kk[2]] = labels /\ brk[kk[2]] = break
    BY <1>12, <1>13, <1>n, <2>1
  <2> QED BY <1>2, <1>3, <2>2 DEF EndsLoop
<1>18. l = Len(code) + 1
  BY <1>n
<1> QED BY ONLY <1>2, <1>5, <1>12, <1>14, <1>15, <1>16, <1>17, <1>18, <1>p, <1>q, IInv, IInv', FollowStep

\* Before a function's first statement.
LEMMA FreshFollows ==
  (tree = <<>> /\ open = <<>> /\ breakLabels = <<>> /\ code = <<>>) => FollowInv
<1> SUFFICES ASSUME tree = <<>>, open = <<>>, breakLabels = <<>>, code = <<>>
             PROVE  FollowInv
  OBVIOUS
<1>1. DOMAIN tree = {} /\ DOMAIN open = {} /\ DOMAIN code = {} /\ DOMAIN breakLabels = {}
      /\ Len(code) = 0 /\ Len(tree) = 0
  OBVIOUS
<1>2. PathOK /\ NodesOK
  BY <1>1 DEF PathOK, NodesOK
<1>e. PICK root : root = <<"in", 0, 0>>
  OBVIOUS
<1>3. \A k \in Parts : Emitted(k) <=> k = root
  BY <1>1, <1>e DEF Emitted, IsPart
<1>4. Following(root) = Coming
  <2>1. Later(0, 0, 0) = {}
    BY <1>1 DEF Later, Children
  <2>2. NextPart(0, 0, 0) = <<"out", 0, 0>>
    BY <2>1 DEF NextPart
  <2> QED BY <1>e, <2>2 DEF Following, Coming
<1>5. PICK one : one = [k \in Parts |-> 1]
  OBVIOUS
<1>6. one \in [Parts -> Nat] /\ \A k \in Parts : one[k] = 1
  BY <1>5
<1>7. PICK lab : lab = [m \in Nat |-> NoLabels]
  OBVIOUS
<1>8. lab \in [Nat -> LabelRecord]
  <2>1. NoLabels \in LabelRecord
    <3>1. <<>> \in Seq(Int) /\ NoLabel \in Int
      BY DEF NoLabel
    <3> QED BY <3>1 DEF NoLabels, LabelRecord
  <2> QED BY <1>7, <2>1
<1>9. PICK brk : brk = [m \in Nat |-> 0]
  OBVIOUS
<1>10. brk \in [Nat -> Nat]
  BY <1>9
<1>11. HasCode(root, 1, 1, lab, brk)
  BY <1>e DEF HasCode, InCode
<1>12. Laid(one, one, lab, brk)
  <2>1. \A k \in Parts : Emitted(k) =>
          /\ one[k] \in 1..one[k] /\ one[k] <= Len(code) + 1
          /\ HasCode(k, one[k], one[k], lab, brk)
          /\ \/ Emitted(Following(k)) /\ one[k] = one[Following(k)]
             \/ Following(k) = Coming /\ one[k] = Len(code) + 1
    BY <1>1, <1>3, <1>4, <1>6, <1>11
  <2> QED BY <1>1, <2>1 DEF Laid
<1>13. PICK none : none = <<>>
  OBVIOUS
<1>14. none \in Seq(Nat) /\ Kept(lab, brk, none)
  <2>1. OpenLoops = {} /\ none \in Seq(Nat) /\ DOMAIN none = {} /\ Len(none) = Len(breakLabels)
    BY <1>1, <1>13 DEF OpenLoops
  <2> QED BY <1>1, <2>1 DEF Kept
<1> QED BY <1>2, <1>6, <1>8, <1>10, <1>12, <1>14 DEF FollowInv

\* A step that emits nothing.
LEMMA SameFollows ==
  ASSUME IInv, IInv', FollowInv, UNCHANGED <<tree, open, breakLabels, code>>
  PROVE  FollowInv'
<1>0. tree' = tree /\ open' = open /\ breakLabels' = breakLabels /\ code' = code
  OBVIOUS
<1>1. Shape /\ Shape'
  BY Shapes
<1>2. PathOK /\ NodesOK
  BY DEF FollowInv
<1>p. PICK lo, hi, lab, brk, loops :
        /\ lo \in [Parts -> Nat] /\ hi \in [Parts -> Nat] /\ lab \in [Nat -> LabelRecord]
        /\ brk \in [Nat -> Nat] /\ loops \in Seq(Nat)
        /\ Laid(lo, hi, lab, brk) /\ Kept(lab, brk, loops)
  BY DEF FollowInv
<1>3. TreeExtends /\ CodeExtends
  BY <1>0 DEF TreeExtends, CodeExtends
<1>4. /\ \A k : Following(k)' = Following(k) /\ Stage(k)' = Stage(k)
      /\ \A k : IsPart(k)' <=> IsPart(k)
  BY <1>0, SameTree
<1>5. Coming' = Coming
  BY <1>0 DEF Coming, Top
<1>6. \A k : Emitted(k)' <=> Emitted(k)
  <2> SUFFICES ASSUME NEW k PROVE Emitted(k)' <=> Emitted(k)
    OBVIOUS
  <2>1. \A j \in DOMAIN open : Stage(Ahead(open[j]))' = Stage(Ahead(open[j]))
    <3> SUFFICES ASSUME NEW j \in DOMAIN open
                 PROVE  Stage(Ahead(open[j]))' = Stage(Ahead(open[j]))
      OBVIOUS
    <3>1. PICK a : a = Ahead(open[j])
      OBVIOUS
    <3>2. Ahead(open[j])' = a
      BY <1>0, <3>1
    <3> QED BY <1>4, <3>1, <3>2
  <2> QED BY <1>0, <1>4, <2>1 DEF Emitted
<1>7. PathOK'
  BY <1>0, <1>2 DEF PathOK
<1>8. NodesOK'
  <2>1. \A n \in DOMAIN tree : (InnermostLoop')[n] = InnermostLoop[n]
    BY <1>1, <1>3, InnermostKept
  <2> QED BY <1>0, <1>2, <1>6, <2>1 DEF NodesOK
<1>9. Kept(lab, brk, loops)'
  BY <1>0, <1>1, <1>p, KeptSame
<1>l. Laid(lo, hi, lab, brk)
  BY <1>p
<1>10. ASSUME NEW k \in Parts, Emitted(k)
       PROVE  HasCode(k, lo[k], hi[k], lab, brk)'
  <2>0. PICK l, h : l = lo[k] /\ h = hi[k]
    OBVIOUS
  <2>1. l \in 1..h /\ h <= Len(code) + 1 /\ HasCode(k, l, h, lab, brk)
    BY <1>l, <1>10, <2>0 DEF Laid
  <2>2. h \in Nat
    BY <1>p, <2>0
  <2>3. HasCode(k, l, h, lab, brk)'
    BY ONLY <1>1, <1>2, <1>3, <1>10, <2>1, <2>2, k \in Parts, HasCodeKept
  <2> QED BY <2>0, <2>3
<1>11. Laid(lo, hi, lab, brk)'
  <2>1. \A k \in Parts : Emitted(k)' =>
          /\ lo[k] \in 1..hi[k] /\ hi[k] <= Len(code') + 1
          /\ HasCode(k, lo[k], hi[k], lab, brk)'
          /\ \/ Emitted(Following(k))' /\ hi[k] = lo[Following(k)']
             \/ Following(k)' = Coming' /\ hi[k] = Len(code') + 1
    <3> SUFFICES ASSUME NEW k \in Parts, Emitted(k)
                 PROVE  /\ lo[k] \in 1..hi[k] /\ hi[k] <= Len(code') + 1
                        /\ HasCode(k, lo[k], hi[k], lab, brk)'
                        /\ \/ Emitted(Following(k))' /\ hi[k] = lo[Following(k)']
                           \/ Following(k)' = Coming' /\ hi[k] = Len(code') + 1
      BY <1>6
    <3>1. /\ lo[k] \in 1..hi[k] /\ hi[k] <= Len(code) + 1
          /\ \/ Emitted(Following(k)) /\ hi[k] = lo[Following(k)]
             \/ Following(k) = Coming /\ hi[k] = Len(code) + 1
      BY <1>l DEF Laid
    <3>2. PICK g : g = Following(k)
      OBVIOUS
    <3>3. Following(k)' = g
      BY <1>4, <3>2
    <3>4. Emitted(Following(k))' <=> Emitted(g)
      BY <1>6, <3>3
    <3> QED BY <1>0, <1>5, <1>10, <3>1, <3>2, <3>3, <3>4
  <2>2. \A i \in DOMAIN code' : \E k \in Parts : Emitted(k)' /\ lo[k] <= i /\ i < hi[k]
    <3>1. \A i \in DOMAIN code : \E k \in Parts : Emitted(k) /\ lo[k] <= i /\ i < hi[k]
      BY <1>l DEF Laid
    <3> QED BY <1>0, <1>6, <3>1
  <2> QED BY <2>1, <2>2 DEF Laid
<1> QED BY <1>7, <1>8, <1>9, <1>11, <1>p DEF FollowInv

LEMMA FollowNext == IInv /\ IInv' /\ FollowInv /\ [Next]_vars => FollowInv'
<1> SUFFICES ASSUME IInv, IInv', FollowInv, [Next]_vars PROVE FollowInv'
  OBVIOUS
<1>1. CASE EnterFunction
  <2>1. tree' = <<>> /\ code' = <<>> /\ open' = open /\ breakLabels' = breakLabels
    BY <1>1 DEF EnterFunction
  <2>2. open = <<>>
    BY <1>1 DEF EnterFunction, IInv, TreeOK
  <2>3. breakLabels = <<>>
    BY <2>2, NothingOwed
  <2>4. ((tree = <<>> /\ open = <<>> /\ breakLabels = <<>> /\ code = <<>>) => FollowInv)'
    BY FreshFollows, PTL
  <2> QED BY <2>1, <2>2, <2>3, <2>4
<1>2. CASE ExitFunction \/ ExitProgram \/ ExitBreakThrows \/ UNCHANGED vars
  <2>1. UNCHANGED <<tree, open, breakLabels, code>>
    BY <1>2 DEF ExitFunction, ExitProgram, ExitBreakThrows, vars
  <2> QED BY <2>1, SameFollows
<1>3. CASE SimpleStatement \/ ValueCallStatement \/ ExitReturn \/ ExitBreak
  BY <1>3, SimpleFollows, ValueCallFollows, ReturnFollows, BreakFollows
<1>4. CASE EnterIf \/ EnterWhile \/ EnterInfinite \/ EnterUntil \/ EnterFor
  BY <1>4, IfFollows, WhileFollows, InfiniteFollows, UntilFollows, ForFollows
<1>5. CASE Condition \/ ForUpdate \/ EnterBlock \/ ExitLoopBlock \/ ExitIfBlock
  BY <1>5, ConditionFollows, ForUpdateFollows, EnterBlockFollows, ExitLoopBlockFollows,
     ExitIfBlockFollows
<1> QED BY <1>1, <1>2, <1>3, <1>4, <1>5 DEF Next

LEMMA Followed == Spec => [](IInv /\ FollowInv)
<1>1. Init => IInv /\ FollowInv
  BY InitIInv, FreshFollows DEF Init
<1>2. IInv /\ FollowInv /\ [Next]_vars => (IInv /\ FollowInv)'
  BY InductiveStep, FollowNext
<1> QED BY <1>1, <1>2, PTL DEF Spec

-----------------------------------------------------------------------------
(* A finished function: all its parts are there.                           *)

\* Where the code of a part begins; that of the function's end is after all
\* of it.
Pos(lo, k) == IF k = <<"out", 0, 0>> THEN Len(code) + 1 ELSE lo[k]

Finished(lo, hi, lab, brk) ==
  /\ \A k \in Parts : IsPart(k) =>
       /\ lo[k] \in Nat /\ hi[k] \in Nat /\ 1 <= lo[k] /\ lo[k] <= hi[k]
       /\ hi[k] <= Len(code) + 1
       /\ HasCode(k, lo[k], hi[k], lab, brk) /\ hi[k] = Pos(lo, Following(k))
  /\ \A i \in DOMAIN code : \E k \in Parts : IsPart(k) /\ lo[k] <= i /\ i < hi[k]

\* What the runs check of a function that breaks out of no until.
Nested ==
  \A n \in DOMAIN tree :
    /\ tree[n].elseIfs <= MaxElseIfs
    /\ IsPart(<<"in", tree[n].parent, tree[n].block>>)
    /\ tree[n].kind = "break" =>
         /\ InnermostLoop[n] \in DOMAIN tree
         /\ tree[InnermostLoop[n]].kind \in {"while", "for", "infinite"}

LEMMA FinishedHolds ==
  ASSUME IInv, FollowInv, FunctionDone, ~HasUntilBreak
  PROVE  /\ Shape /\ Nested /\ LabelsPlacedOnce
         /\ \E lo, hi, lab, brk : Finished(lo, hi, lab, brk)
<1>1. Shape /\ LabelsPlacedOnce
  BY ShapeHolds DEF IInv
<1>2. open = <<>>
  BY DEF FunctionDone, IInv, TreeOK
<1>p. PICK lo, hi, lab, brk, loops :
        /\ lo \in [Parts -> Nat] /\ hi \in [Parts -> Nat] /\ lab \in [Nat -> LabelRecord]
        /\ brk \in [Nat -> Nat] /\ loops \in Seq(Nat)
        /\ Laid(lo, hi, lab, brk) /\ Kept(lab, brk, loops)
  BY DEF FollowInv
<1>3. \A k : Emitted(k) <=> k \in Parts /\ IsPart(k)
  BY <1>2 DEF Emitted
<1>4. Coming = <<"out", 0, 0>>
  BY <1>2 DEF Coming
<1>5. ~IsPart(<<"out", 0, 0>>)
  <2>1. 0 \notin DOMAIN tree
    BY <1>1 DEF Shape
  <2> QED BY ONLY <2>1 DEF IsPart
<1>6. Finished(lo, hi, lab, brk)
  <2>1. ASSUME NEW k \in Parts, IsPart(k)
        PROVE  /\ lo[k] \in Nat /\ hi[k] \in Nat /\ 1 <= lo[k] /\ lo[k] <= hi[k]
               /\ hi[k] <= Len(code) + 1
               /\ HasCode(k, lo[k], hi[k], lab, brk) /\ hi[k] = Pos(lo, Following(k))
    <3>1. /\ lo[k] \in 1..hi[k] /\ hi[k] <= Len(code) + 1
          /\ HasCode(k, lo[k], hi[k], lab, brk)
          /\ \/ Emitted(Following(k)) /\ hi[k] = lo[Following(k)]
             \/ Following(k) = Coming /\ hi[k] = Len(code) + 1
      BY <1>p, <1>3, <2>1 DEF Laid
    <3>2. lo[k] \in Nat /\ hi[k] \in Nat
      BY <1>p
    <3>3. hi[k] = Pos(lo, Following(k))
      BY <1>3, <1>4, <1>5, <3>1 DEF Pos
    <3> QED BY <3>1, <3>2, <3>3
  <2>2. \A i \in DOMAIN code : \E k \in Parts : IsPart(k) /\ lo[k] <= i /\ i < hi[k]
    BY <1>p, <1>3 DEF Laid
  <2> QED BY <2>1, <2>2 DEF Finished
<1>7. Nested
  <2>1. NodesOK
    BY DEF FollowInv
  <2>2. ASSUME NEW n \in DOMAIN tree, tree[n].kind = "break"
        PROVE  /\ InnermostLoop[n] \in DOMAIN tree
               /\ tree[InnermostLoop[n]].kind \in {"while", "for", "infinite"}
    <3>1. /\ InnermostLoop[n] \in DOMAIN tree
          /\ tree[InnermostLoop[n]].kind \in Loops
      BY <2>1, <2>2 DEF NodesOK
    <3>2. n \in 1..Len(tree) /\ InnermostLoop[n] # 0
      BY <1>1, <3>1 DEF Shape
    <3>3. tree[InnermostLoop[n]].kind # "until"
      BY <2>2, <3>2 DEF HasUntilBreak
    <3> QED BY <3>1, <3>3 DEF Loops
  <2>3. ASSUME NEW n \in DOMAIN tree
        PROVE  tree[n].elseIfs <= MaxElseIfs /\ IsPart(<<"in", tree[n].parent, tree[n].block>>)
    <3>1. tree[n].elseIfs <= MaxElseIfs /\ Emitted(<<"in", tree[n].parent, tree[n].block>>)
      BY <2>1 DEF NodesOK
    <3> QED BY <1>3, <3>1
  <2> QED BY <2>2, <2>3 DEF Nested
<1> QED BY <1>1, <1>6, <1>7

LEMMA PartAt ==
  ASSUME NEW lo, NEW hi, NEW lab, NEW brk, Finished(lo, hi, lab, brk),
         NEW k \in Parts, IsPart(k)
  PROVE  /\ lo[k] \in Nat /\ hi[k] \in Nat /\ 1 <= lo[k] /\ lo[k] <= hi[k]
         /\ hi[k] <= Len(code) + 1
         /\ HasCode(k, lo[k], hi[k], lab, brk) /\ hi[k] = Pos(lo, Following(k))
BY DEF Finished

-----------------------------------------------------------------------------
(* How control goes through labels and gotos.                              *)

LEMMA TargetIs ==
  ASSUME Shape, LabelsPlacedOnce, NEW i \in DOMAIN code, NEW x, code[i] = Label(x)
  PROVE  Target(x) = i
<1>1. code[i].op = "label" /\ code[i].arg = x
  BY DEF Label
<1>2. PlacesOf(x) = {i}
  <2>1. ASSUME NEW j \in PlacesOf(x) PROVE j = i
    <3>1. j \in DOMAIN code /\ code[j].op = "label" /\ code[j].arg = x
      BY <2>1 DEF PlacesOf
    <3>2. i \in Places(code) /\ j \in Places(code)
      BY <1>1, <3>1 DEF Places
    <3> QED BY <1>1, <3>1, <3>2 DEF LabelsPlacedOnce
  <2>2. i \in PlacesOf(x)
    BY <1>1 DEF PlacesOf
  <2> QED BY <2>1, <2>2
<1>3. Least({i}) = i
  <2>1. {i} \in SUBSET Int /\ i \in {i} /\ \A y \in {i} : i <= y
    BY DEF Shape
  <2> QED BY ONLY <2>1, LeastIs
<1> QED BY <1>2, <1>3 DEF Target

\* A label leads to what is after it, a goto to its label.
LEMMA LabelFalls ==
  ASSUME NEW i \in DOMAIN code, code[i].op \in {"label", "pop"}
  PROVE  Between(i) /\ Fall(i) = i + 1
BY DEF Between, Fall, PointOps

LEMMA GotoFalls ==
  ASSUME NEW i \in DOMAIN code, NEW x, code[i] = Goto(x)
  PROVE  Between(i) /\ Fall(i) = Target(x)
<1>1. code[i].op = "goto" /\ code[i].arg = x
  BY DEF Goto
<1> QED BY <1>1 DEF Between, Fall, PointOps

LEMMA OverLabel ==
  ASSUME Shape, NEW i \in DOMAIN code, code[i].op \in {"label", "pop"}
  PROVE  CodePoint(i) = CodePoint(i + 1)
<1>1. Between(i) /\ Fall(i) = i + 1
  BY LabelFalls
<1>2. code \in Seq(Instruction)
  BY DEF Shape
<1> QED BY <1>1, <1>2, CodeOnward

LEMMA OverGoto ==
  ASSUME Shape, NEW i \in DOMAIN code, NEW x, code[i] = Goto(x)
  PROVE  CodePoint(i) = CodePoint(Target(x))
<1>1. Between(i) /\ Fall(i) = Target(x)
  BY GotoFalls
<1>2. code \in Seq(Instruction)
  BY DEF Shape
<1> QED BY <1>1, <1>2, CodeOnward

LEMMA OverLabels ==
  ASSUME Shape, NEW h \in Nat, h <= Len(code) + 1, NEW l \in Nat, 1 <= l, l <= h, LabelsIn(l, h)
  PROVE  CodePoint(l) = CodePoint(h)
<1> DEFINE S == {d \in Nat : d <= h - l /\ CodePoint(h - d) # CodePoint(h)}
<1>1. S = {}
  <2> SUFFICES ASSUME S # {} PROVE FALSE
    OBVIOUS
  <2>1. S \in SUBSET Nat
    OBVIOUS
  <2>2. PICK d \in S : \A s \in S : d <= s
    <3> HIDE DEF S
    <3> QED BY <2>1, LeastExists
  <2>3. d \in Nat /\ d <= h - l /\ CodePoint(h - d) # CodePoint(h)
    OBVIOUS
  <2>4. d # 0
    <3>1. d = 0 => h - d = h
      BY ONLY h \in Nat
    <3> QED BY <2>3, <3>1
  <2>5. d - 1 \in Nat /\ d - 1 <= h - l /\ ~(d <= d - 1)
    BY ONLY <2>3, <2>4, h \in Nat, l \in Nat
  <2>6. CodePoint(h - (d - 1)) = CodePoint(h)
    <3>1. d - 1 \notin S
      <4> HIDE DEF S
      <4> QED BY ONLY <2>2, <2>5
    <3> QED BY <2>5, <3>1
  <2>7. PICK i : i = h - d
    OBVIOUS
  <2>8. i \in l..(h - 1) /\ i + 1 = h - (d - 1) /\ i >= 1 /\ i <= Len(code)
    <3>1. Len(code) \in Nat
      BY DEF Shape
    <3> QED BY ONLY <2>3, <2>4, <2>7, <3>1, h \in Nat, l \in Nat, 1 <= l, h <= Len(code) + 1
  <2>9. i \in DOMAIN code
    BY <2>8 DEF Shape
  <2>10. code[i].op = "label"
    BY <2>8 DEF LabelsIn
  <2>11. CodePoint(i) = CodePoint(i + 1)
    BY <2>9, <2>10, OverLabel
  <2> QED BY ONLY <2>3, <2>6, <2>7, <2>8, <2>11
<1>2. PICK d : d = h - l
  OBVIOUS
<1>3. d \in Nat /\ d <= h - l /\ h - d = l
  BY ONLY <1>2, h \in Nat, l \in Nat, l <= h
<1>4. d \notin S
  <2> HIDE DEF S
  <2> QED BY <1>1
<1> QED BY <1>3, <1>4

\* Labels lead to the point after them.
LEMMA ToPoint ==
  ASSUME Shape, NEW h \in Nat, h <= Len(code), NEW l \in Nat, 1 <= l, l <= h, LabelsIn(l, h),
         NEW op \in PointOps, NEW n, NEW k, code[h] = Instr(op, n, k)
  PROVE  CodePoint(l) = Point(op, n, k)
<1>1. h \in DOMAIN code /\ h <= Len(code) + 1 /\ code \in Seq(Instruction)
  BY DEF Shape
<1>2. CodePoint(l) = CodePoint(h)
  BY <1>1, OverLabels
<1>3. code[h].op = op /\ code[h].arg = n /\ code[h].sub = k
  BY DEF Instr
<1>4. CodePoint(h) = Point(code[h].op, code[h].arg, code[h].sub)
  BY <1>1, <1>3, CodeAtPoint
<1> QED BY <1>2, <1>3, <1>4

-----------------------------------------------------------------------------
(* Each part of a finished function, and where its code leads.             *)

Final(lo, hi, lab, brk) ==
  Shape /\ Nested /\ LabelsPlacedOnce /\ Finished(lo, hi, lab, brk)

\* Some code from l to h, before that of part k.
Span(l, h, lo, k) ==
  /\ l \in Nat /\ h \in Nat /\ 1 <= l /\ l <= h /\ h <= Len(code) + 1
  /\ h = Pos(lo, k)

LEMMA EnterAt ==
  ASSUME NEW lo, NEW hi, NEW lab, NEW brk, Final(lo, hi, lab, brk), NEW n \in DOMAIN tree,
         NEW l, l = lo[<<"enter", n, 0>>], NEW h, h = hi[<<"enter", n, 0>>]
  PROVE  Span(l, h, lo, Following(<<"enter", n, 0>>)) /\ EnterCode(n, l, h, lab, brk)
<1>1. PICK k : k = <<"enter", n, 0>>
  OBVIOUS
<1>2. n \in Nat /\ Finished(lo, hi, lab, brk)
  BY DEF Final, Shape
<1>3. k \in Parts /\ IsPart(k)
  BY <1>1, <1>2 DEF Parts, IsPart
<1>4. /\ l \in Nat /\ h \in Nat /\ 1 <= l /\ l <= h /\ h <= Len(code) + 1
      /\ HasCode(k, l, h, lab, brk) /\ h = Pos(lo, Following(k))
  <2>1. l = lo[k] /\ h = hi[k]
    BY <1>1
  <2> QED BY ONLY <1>2, <1>3, <2>1, PartAt
<1>5. EnterCode(n, l, h, lab, brk)
  BY <1>1, <1>4 DEF HasCode
<1> QED BY <1>1, <1>4, <1>5 DEF Span

LEMMA CondAt ==
  ASSUME NEW lo, NEW hi, NEW lab, NEW brk, Final(lo, hi, lab, brk),
         NEW n \in DOMAIN tree, NEW b \in Nat,
         \/ tree[n].kind = "if" /\ b <= tree[n].elseIfs
         \/ tree[n].kind \in {"while", "until", "for"} /\ b = 0,
         NEW l, l = lo[<<"cond", n, b>>], NEW h, h = hi[<<"cond", n, b>>]
  PROVE  Span(l, h, lo, Following(<<"cond", n, b>>)) /\ CondCode(n, b, l, h, lab)
<1>1. PICK k : k = <<"cond", n, b>>
  OBVIOUS
<1>2. n \in Nat /\ Finished(lo, hi, lab, brk)
  BY DEF Final, Shape
<1>3. k \in Parts /\ IsPart(k)
  BY <1>1, <1>2 DEF Parts, IsPart
<1>4. /\ l \in Nat /\ h \in Nat /\ 1 <= l /\ l <= h /\ h <= Len(code) + 1
      /\ HasCode(k, l, h, lab, brk) /\ h = Pos(lo, Following(k))
  <2>1. l = lo[k] /\ h = hi[k]
    BY <1>1
  <2> QED BY ONLY <1>2, <1>3, <2>1, PartAt
<1>5. CondCode(n, b, l, h, lab)
  BY <1>1, <1>4 DEF HasCode
<1> QED BY <1>1, <1>4, <1>5 DEF Span

LEMMA UpdateAt ==
  ASSUME NEW lo, NEW hi, NEW lab, NEW brk, Final(lo, hi, lab, brk),
         NEW n \in DOMAIN tree, tree[n].kind = "for",
         NEW l, l = lo[<<"update", n, 0>>], NEW h, h = hi[<<"update", n, 0>>]
  PROVE  Span(l, h, lo, Following(<<"update", n, 0>>)) /\ UpdateCode(n, l, h, lab)
<1>1. PICK k : k = <<"update", n, 0>>
  OBVIOUS
<1>2. n \in Nat /\ Finished(lo, hi, lab, brk)
  BY DEF Final, Shape
<1>3. k \in Parts /\ IsPart(k)
  BY <1>1, <1>2 DEF Parts, IsPart
<1>4. /\ l \in Nat /\ h \in Nat /\ 1 <= l /\ l <= h /\ h <= Len(code) + 1
      /\ HasCode(k, l, h, lab, brk) /\ h = Pos(lo, Following(k))
  <2>1. l = lo[k] /\ h = hi[k]
    BY <1>1
  <2> QED BY ONLY <1>2, <1>3, <2>1, PartAt
<1>5. UpdateCode(n, l, h, lab)
  BY <1>1, <1>4 DEF HasCode
<1> QED BY <1>1, <1>4, <1>5 DEF Span

\* A block of the function, of an if or of a loop.
IsBlock(n, b) ==
  \/ n = 0 /\ b = 0
  \/ /\ n \in DOMAIN tree /\ b \in Nat
     /\ \/ tree[n].kind = "if" /\ b < Branches(tree[n])
        \/ tree[n].kind \in Loops /\ b = 0

LEMMA InAt ==
  ASSUME NEW lo, NEW hi, NEW lab, NEW brk, Final(lo, hi, lab, brk), NEW n, NEW b, IsBlock(n, b),
         NEW l, l = lo[<<"in", n, b>>], NEW h, h = hi[<<"in", n, b>>]
  PROVE  Span(l, h, lo, NextPart(n, b, 0)) /\ InCode(n, b, l, h, lab)
<1>1. PICK k : k = <<"in", n, b>>
  OBVIOUS
<1>2. n \in Nat /\ b \in Nat /\ Finished(lo, hi, lab, brk)
  BY DEF Final, Shape, IsBlock
<1>3. k \in Parts /\ IsPart(k)
  BY <1>1, <1>2 DEF Parts, IsPart, IsBlock
<1>4. /\ l \in Nat /\ h \in Nat /\ 1 <= l /\ l <= h /\ h <= Len(code) + 1
      /\ HasCode(k, l, h, lab, brk) /\ h = Pos(lo, Following(k))
  <2>1. l = lo[k] /\ h = hi[k]
    BY <1>1
  <2> QED BY ONLY <1>2, <1>3, <2>1, PartAt
<1>5. InCode(n, b, l, h, lab)
  BY <1>1, <1>4 DEF HasCode
<1>6. Following(k) = NextPart(n, b, 0)
  BY <1>1 DEF Following
<1> QED BY <1>4, <1>5, <1>6 DEF Span

LEMMA OutAt ==
  ASSUME NEW lo, NEW hi, NEW lab, NEW brk, Final(lo, hi, lab, brk), NEW n, NEW b, IsBlock(n, b),
         n # 0, NEW l, l = lo[<<"out", n, b>>], NEW h, h = hi[<<"out", n, b>>]
  PROVE  Span(l, h, lo, Following(<<"out", n, b>>)) /\ OutCode(n, b, l, h, lab, brk)
<1>1. PICK k : k = <<"out", n, b>>
  OBVIOUS
<1>2. n \in Nat /\ b \in Nat /\ Finished(lo, hi, lab, brk)
  BY DEF Final, Shape, IsBlock
<1>3. k \in Parts /\ IsPart(k)
  BY <1>1, <1>2 DEF Parts, IsPart, IsBlock
<1>4. /\ l \in Nat /\ h \in Nat /\ 1 <= l /\ l <= h /\ h <= Len(code) + 1
      /\ HasCode(k, l, h, lab, brk) /\ h = Pos(lo, Following(k))
  <2>1. l = lo[k] /\ h = hi[k]
    BY <1>1
  <2> QED BY ONLY <1>2, <1>3, <2>1, PartAt
<1>5. OutCode(n, b, l, h, lab, brk)
  BY <1>1, <1>4 DEF HasCode
<1> QED BY <1>1, <1>4, <1>5 DEF Span

\* Only the function's end is after all of the code.
LEMMA PosOfPart ==
  ASSUME NEW lo, NEW t, NEW n, NEW b, t # "out" \/ n # 0
  PROVE  Pos(lo, <<t, n, b>>) = lo[<<t, n, b>>]
BY DEF Pos

\* Where the code of a condition is, its value is what runs next.
LEMMA ToCondition ==
  ASSUME NEW lo, NEW hi, NEW lab, NEW brk, Final(lo, hi, lab, brk),
         NEW n \in DOMAIN tree, NEW b \in Nat,
         \/ tree[n].kind = "if" /\ b <= tree[n].elseIfs
         \/ tree[n].kind \in {"while", "until", "for"} /\ b = 0
  PROVE  CodePoint(lo[<<"cond", n, b>>]) = Point("eval", n, b)
<1>1. PICK l, h : l = lo[<<"cond", n, b>>] /\ h = hi[<<"cond", n, b>>]
  OBVIOUS
<1>2. Span(l, h, lo, Following(<<"cond", n, b>>)) /\ CondCode(n, b, l, h, lab)
  BY <1>1, CondAt
<1>3. PICK i : i = IF tree[n].kind = "for" THEN h - 3 ELSE h - 2
  OBVIOUS
<1>4. /\ LabelsIn(l, i) /\ code[i] = Instr("eval", n, b)
      /\ tree[n].kind = "for" => l + 3 < h
      /\ tree[n].kind # "for" => l + 1 < h
  BY <1>2, <1>3 DEF CondCode
<1>5. Shape /\ Len(code) \in Nat
  BY DEF Final, Shape
<1>6. i \in Nat /\ i <= Len(code) /\ l \in Nat /\ 1 <= l /\ l <= i
  <2>1. l \in Nat /\ h \in Nat /\ 1 <= l /\ l <= h /\ h <= Len(code) + 1
    BY <1>2 DEF Span
  <2> QED BY ONLY <1>3, <1>4, <1>5, <2>1
<1>7. "eval" \in PointOps
  BY DEF PointOps
<1>8. CodePoint(l) = Point("eval", n, b)
  BY ONLY <1>4, <1>5, <1>6, <1>7, ToPoint
<1> QED BY <1>1, <1>8

LEMMA ToUpdate ==
  ASSUME NEW lo, NEW hi, NEW lab, NEW brk, Final(lo, hi, lab, brk),
         NEW n \in DOMAIN tree, tree[n].kind = "for"
  PROVE  CodePoint(lo[<<"update", n, 0>>]) = Point("update", n, 0)
<1>1. PICK l, h : l = lo[<<"update", n, 0>>] /\ h = hi[<<"update", n, 0>>]
  OBVIOUS
<1>2. Span(l, h, lo, Following(<<"update", n, 0>>)) /\ UpdateCode(n, l, h, lab)
  BY <1>1, UpdateAt
<1>3. PICK i : i = h - 3
  OBVIOUS
<1>4. LabelsIn(l, i) /\ code[i] = Instr("update", n, 0) /\ l + 3 < h
  BY <1>2, <1>3 DEF UpdateCode
<1>5. Shape /\ Len(code) \in Nat
  BY DEF Final, Shape
<1>6. i \in Nat /\ i <= Len(code) /\ l \in Nat /\ 1 <= l /\ l <= i
  <2>1. l \in Nat /\ h \in Nat /\ 1 <= l /\ l <= h /\ h <= Len(code) + 1
    BY <1>2 DEF Span
  <2> QED BY ONLY <1>3, <1>4, <1>5, <2>1
<1>7. "update" \in PointOps
  BY DEF PointOps
<1>8. CodePoint(l) = Point("update", n, 0)
  BY ONLY <1>4, <1>5, <1>6, <1>7, ToPoint
<1> QED BY <1>1, <1>8

-----------------------------------------------------------------------------
(* Where the places of the source are in the code.  A place that leads     *)
(* elsewhere in the tree, the start of a statement or the end of a block,  *)
(* has a position; the other places are where one of these is.             *)

IsStop(p) ==
  \/ \E n \in DOMAIN tree : p = Start(n)
  \/ \E n, b : IsBlock(n, b) /\ p = EndBlock(n, b)

StopPos(lo, p) ==
  IF p[1] = "start" THEN lo[<<"enter", p[2], 0>>] ELSE Pos(lo, <<"out", p[2], p[3]>>)

\* One or two steps of the machine that come to no point.
Leads(i, j) == Between(i) /\ (Fall(i) = j \/ (Between(Fall(i)) /\ Fall(Fall(i)) = j))

LEMMA OnwardIs ==
  ASSUME NEW n, NEW b
  PROVE  /\ Onward(Start(n)) = FromStart(n)
         /\ Onward(StartBlock(n, b)) = NextIn(n, b, 0)
         /\ Onward(EndBlock(n, b)) = FromEnd(n)
         /\ Onward(After(n)) = NextIn(tree[n].parent, tree[n].block, n)
<1>1. ASSUME NEW p, p = <<"start", n, 0>> PROVE Onward(p) = FromStart(n)
  BY <1>1 DEF Onward
<1>2. ASSUME NEW p, p = <<"block", n, b>> PROVE Onward(p) = NextIn(n, b, 0)
  BY <1>2 DEF Onward
<1>3. ASSUME NEW p, p = <<"end", n, b>> PROVE Onward(p) = FromEnd(n)
  BY <1>3 DEF Onward
<1>4. ASSUME NEW p, p = <<"after", n, 0>>
      PROVE  Onward(p) = NextIn(tree[n].parent, tree[n].block, n)
  BY <1>4 DEF Onward
<1> QED BY <1>1, <1>2, <1>3, <1>4 DEF Start, StartBlock, EndBlock, After

LEMMA PlaceIs ==
  ASSUME NEW t, NEW n, NEW b
  PROVE  <<t, n, b>> \in SourcePlaces <=>
           /\ t \in {"start", "block", "end", "after"} /\ n \in 0..Len(tree)
           /\ b \in 0..(MaxElseIfs + 1)
BY DEF SourcePlaces

LEMMA NoPlace ==
  ASSUME NEW n, NEW b
  PROVE  /\ \A op \in PointOps : Point(op, n, b) \notin SourcePlaces
         /\ Finish \notin SourcePlaces
<1>1. \A op \in PointOps : <<op, n, b>> \notin SourcePlaces
  BY PlaceIs DEF PointOps
<1>2. <<"finish", 0, 0>> \notin SourcePlaces
  BY PlaceIs
<1> QED BY <1>1, <1>2 DEF Point, Finish

\* A block is one that an if or a loop has, or the function's.
LEMMA BlocksAre ==
  ASSUME Shape, Nested
  PROVE  /\ \A n, b : IsBlock(n, b) =>
              n \in 0..Len(tree) /\ n \in Nat /\ b \in Nat /\ b \in 0..(MaxElseIfs + 1)
         /\ \A n \in DOMAIN tree : IsBlock(tree[n].parent, tree[n].block)
         /\ \A n \in DOMAIN tree : n \in 0..Len(tree) /\ n \in Nat /\ n # 0
         /\ 0 \in 0..(MaxElseIfs + 1)
<1>0. MaxElseIfs \in Nat
  BY BoundsAssumption
<1>1. \A n \in DOMAIN tree : n \in 0..Len(tree) /\ n \in Nat /\ n # 0
  BY DEF Shape
<1>2. ASSUME NEW n, NEW b, IsBlock(n, b)
      PROVE  n \in 0..Len(tree) /\ n \in Nat /\ b \in Nat /\ b \in 0..(MaxElseIfs + 1)
  <2>1. CASE n = 0 /\ b = 0
    BY <1>0, <2>1 DEF Shape
  <2>2. CASE n \in DOMAIN tree /\ b \in Nat /\ tree[n].kind = "if" /\ b < Branches(tree[n])
    <3>1. tree[n].elseIfs \in Nat /\ tree[n].elseIfs <= MaxElseIfs
      BY <2>2 DEF Shape, Nested
    <3>2. b <= MaxElseIfs + 1
      BY <1>0, <2>2, <3>1 DEF Branches
    <3>3. b \in 0..(MaxElseIfs + 1)
      BY ONLY <1>0, <2>2, <3>2
    <3> QED BY <1>1, <2>2, <3>3
  <2>3. CASE n \in DOMAIN tree /\ tree[n].kind \in Loops /\ b = 0
    BY <1>0, <1>1, <2>3
  <2> QED BY <1>2, <2>1, <2>2, <2>3 DEF IsBlock
<1>3. ASSUME NEW n \in DOMAIN tree PROVE IsBlock(tree[n].parent, tree[n].block)
  <2>1. PICK p, b : p = tree[n].parent /\ b = tree[n].block
    OBVIOUS
  <2>2. IsPart(<<"in", p, b>>) /\ b \in Nat
    BY <2>1 DEF Nested, Shape
  <2>3. \/ p = 0 /\ b = 0
        \/ p \in DOMAIN tree /\ tree[p].kind = "if" /\ b < Branches(tree[p])
        \/ p \in DOMAIN tree /\ tree[p].kind \in Loops /\ b = 0
    BY <2>2 DEF IsPart
  <2> QED BY <2>1, <2>2, <2>3 DEF IsBlock
<1>4. 0 \in 0..(MaxElseIfs + 1)
  BY <1>0
<1> QED BY <1>1, <1>2, <1>3, <1>4

LEMMA StopsArePlaces ==
  ASSUME Shape, Nested, NEW p, IsStop(p)
  PROVE  p \in SourcePlaces
<1>1. ASSUME NEW n \in DOMAIN tree, p = Start(n) PROVE p \in SourcePlaces
  BY <1>1, BlocksAre, PlaceIs DEF Start
<1>2. ASSUME NEW n, NEW b, IsBlock(n, b), p = EndBlock(n, b) PROVE p \in SourcePlaces
  BY <1>2, BlocksAre, PlaceIs DEF EndBlock
<1> QED BY <1>1, <1>2 DEF IsStop

\* What comes next in a block is the start of a statement or the block's end.
LEMMA NextStop ==
  ASSUME Shape, Nested, NEW lo, NEW n, NEW b, IsBlock(n, b), NEW m,
         NEW q, q = NextIn(n, b, m)
  PROVE  IsStop(q) /\ StopPos(lo, q) = Pos(lo, NextPart(n, b, m))
<1>1. PICK S : S = Later(n, b, m)
  OBVIOUS
<1>2. q = IF S = {} THEN EndBlock(n, b) ELSE Start(Least(S))
  BY <1>1 DEF NextIn, Later
<1>3. NextPart(n, b, m) = IF S = {} THEN <<"out", n, b>> ELSE <<"enter", Least(S), 0>>
  BY <1>1 DEF NextPart
<1>4. CASE S = {}
  <2>1. q = <<"end", n, b>> /\ IsStop(q)
    BY <1>2, <1>4 DEF EndBlock, IsStop
  <2> QED BY <1>3, <1>4, <2>1 DEF StopPos
<1>5. CASE S # {}
  <2>1. S \in SUBSET Nat /\ S \subseteq DOMAIN tree
    BY <1>1 DEF Later, Children, Shape
  <2>2. PICK c : c = Least(S)
    OBVIOUS
  <2>3. c \in DOMAIN tree
    BY <1>5, <2>1, <2>2, LeastOf
  <2>4. q = <<"start", c, 0>> /\ IsStop(q)
    BY <1>2, <1>5, <2>2, <2>3 DEF Start, IsStop
  <2>5. Pos(lo, <<"enter", c, 0>>) = lo[<<"enter", c, 0>>]
    BY DEF Pos
  <2> QED BY <1>3, <1>5, <2>2, <2>4, <2>5 DEF StopPos
<1> QED BY <1>4, <1>5

LEMMA BlockPos ==
  ASSUME NEW lo, NEW hi, NEW lab, NEW brk, Final(lo, hi, lab, brk), NEW n, NEW b, IsBlock(n, b),
         NEW p, p = StartBlock(n, b)
  PROVE  /\ p \in SourcePlaces /\ IsStop(Onward(p))
         /\ StopPos(lo, Onward(p)) = hi[<<"in", n, b>>]
<1>1. Shape /\ Nested
  BY DEF Final
<1>2. p \in SourcePlaces
  BY <1>1, BlocksAre, PlaceIs DEF StartBlock
<1>3. PICK q : q = NextIn(n, b, 0)
  OBVIOUS
<1>4. Onward(p) = q
  BY <1>3, OnwardIs
<1>5. IsStop(q) /\ StopPos(lo, q) = Pos(lo, NextPart(n, b, 0))
  BY <1>1, <1>3, NextStop
<1>6. hi[<<"in", n, b>>] = Pos(lo, NextPart(n, b, 0))
  BY InAt DEF Span
<1> QED BY <1>2, <1>4, <1>5, <1>6

LEMMA AfterPos ==
  ASSUME NEW lo, NEW hi, NEW lab, NEW brk, Final(lo, hi, lab, brk), NEW n \in DOMAIN tree,
         NEW p, p = After(n)
  PROVE  /\ p \in SourcePlaces /\ IsStop(Onward(p))
         /\ StopPos(lo, Onward(p)) = Pos(lo, Behind(n))
<1>1. Shape /\ Nested
  BY DEF Final
<1>2. p \in SourcePlaces
  BY <1>1, BlocksAre, PlaceIs DEF After
<1>3. PICK q, m, b : q = NextIn(m, b, n) /\ m = tree[n].parent /\ b = tree[n].block
  OBVIOUS
<1>4. Onward(p) = q
  BY <1>3, OnwardIs
<1>5. IsBlock(m, b)
  BY <1>1, <1>3, BlocksAre
<1>6. IsStop(q) /\ StopPos(lo, q) = Pos(lo, NextPart(m, b, n))
  BY <1>1, <1>3, <1>5, NextStop
<1>7. Behind(n) = NextPart(m, b, n)
  BY <1>3 DEF Behind
<1> QED BY <1>2, <1>4, <1>6, <1>7

\* A stop's code comes to the point the source comes to, or to another stop.
Reaches(lo, p) ==
  \/ Onward(p) \notin SourcePlaces /\ CodePoint(StopPos(lo, p)) = Onward(p)
  \/ /\ Onward(p) \in SourcePlaces /\ IsStop(Onward(Onward(p)))
     /\ Leads(StopPos(lo, p), StopPos(lo, Onward(Onward(p))))

LEMMA SpanDomain ==
  ASSUME Shape, NEW l, NEW h, NEW lo, NEW k, Span(l, h, lo, k)
  PROVE  \A i : (i \in Int /\ l <= i /\ i < h) => i \in DOMAIN code
BY DEF Span, Shape

\* Where a statement starts.
LEMMA StartReaches ==
  ASSUME NEW lo, NEW hi, NEW lab, NEW brk, Final(lo, hi, lab, brk), NEW n \in DOMAIN tree,
         NEW p, p = Start(n)
  PROVE  Reaches(lo, p)
<1>1. Shape /\ Nested /\ LabelsPlacedOnce /\ tree[n].kind \in Kinds
  BY DEF Final, Shape
<1>2. PICK l, h, k : l = lo[<<"enter", n, 0>>] /\ h = hi[<<"enter", n, 0>>]
                     /\ k = <<"enter", n, 0>>
  OBVIOUS
<1>3. Span(l, h, lo, Following(k)) /\ EnterCode(n, l, h, lab, brk)
  BY <1>2, EnterAt
<1>4. StopPos(lo, p) = l /\ Onward(p) = FromStart(n)
  BY <1>2, OnwardIs DEF StopPos, Start
<1>5. /\ l \in Nat /\ h \in Nat /\ 1 <= l /\ l <= h /\ h <= Len(code) + 1
      /\ h = Pos(lo, Following(k)) /\ Len(code) \in Nat /\ DOMAIN code = 1..Len(code)
  BY <1>1, <1>3 DEF Span, Shape
<1>6. CASE tree[n].kind \in {"simple", "valuecall", "return"}
  <2>1. PICK kind : kind = tree[n].kind
    OBVIOUS
  <2>2. l < h /\ LabelsIn(l, h - 1) /\ code[h - 1] = Instr(kind, n, 0)
    BY <1>3, <1>6, <2>1 DEF EnterCode
  <2>3. kind \in PointOps /\ FromStart(n) = Point(kind, n, 0)
    BY <1>6, <2>1 DEF PointOps, FromStart
  <2>4. PICK i : i = h - 1
    OBVIOUS
  <2>5. i \in Nat /\ i <= Len(code) /\ l <= i
    BY ONLY <1>5, <2>2, <2>4
  <2>6. CodePoint(l) = Point(kind, n, 0)
    BY <1>1, <1>5, <2>2, <2>3, <2>4, <2>5, ToPoint
  <2> QED BY <1>4, <2>3, <2>6, NoPlace DEF Reaches
<1>7. CASE tree[n].kind = "for"
  <2>1. h = l + 1 /\ code[l] = Instr("simple", n, 0)
    BY <1>3, <1>7 DEF EnterCode
  <2>2. FromStart(n) = Point("simple", n, 0) /\ "simple" \in PointOps
    BY <1>7 DEF FromStart, PointOps
  <2>3. LabelsIn(l, l) /\ l <= Len(code) /\ l <= l
    BY ONLY <1>5, <2>1 DEF LabelsIn
  <2>4. CodePoint(l) = Point("simple", n, 0)
    BY ONLY <1>1, <1>5, <2>1, <2>2, <2>3, ToPoint
  <2> QED BY <1>4, <2>2, <2>4, NoPlace DEF Reaches
<1>8. CASE tree[n].kind \in {"if", "while"}
  <2>1. Following(k) = <<"cond", n, 0>>
    BY <1>2, <1>8 DEF Following
  <2>2. h = lo[<<"cond", n, 0>>]
    BY <1>5, <2>1 DEF Pos
  <2>3. CodePoint(h) = Point("eval", n, 0)
    <3>1. 0 \in Nat /\ tree[n].elseIfs \in Nat /\ 0 <= tree[n].elseIfs
      BY <1>1 DEF Shape
    <3> QED BY <1>8, <2>2, <3>1, ToCondition
  <2>4. CodePoint(l) = CodePoint(h)
    <3>1. CASE tree[n].kind = "if"
      BY <1>3, <3>1 DEF EnterCode
    <3>2. CASE tree[n].kind = "while"
      <4>1. h = l + 1 /\ code[l].op = "label"
        BY <1>3, <3>2 DEF EnterCode, Label
      <4>2. l \in DOMAIN code
        BY ONLY <1>5, <4>1
      <4> QED BY <1>1, <4>1, <4>2, OverLabel
    <3> QED BY <1>8, <3>1, <3>2
  <2>5. FromStart(n) = Point("eval", n, 0) /\ "eval" \in PointOps
    BY <1>8 DEF FromStart, PointOps
  <2> QED BY <1>4, <2>3, <2>4, <2>5, NoPlace DEF Reaches
<1>9. CASE tree[n].kind \in {"until", "infinite"}
  <2>1. h = l + 1 /\ code[l].op = "label"
    BY <1>3, <1>9 DEF EnterCode, Label
  <2>2. l \in DOMAIN code
    BY ONLY <1>5, <2>1
  <2>3. Between(l) /\ Fall(l) = h
    BY <2>1, <2>2, LabelFalls
  <2>4. PICK r : r = StartBlock(n, 0)
    OBVIOUS
  <2>5. Onward(p) = r
    BY <1>4, <1>9, <2>4 DEF FromStart
  <2>6. IsBlock(n, 0)
    BY <1>9 DEF IsBlock, Loops
  <2>7. r \in SourcePlaces /\ IsStop(Onward(r)) /\ StopPos(lo, Onward(r)) = hi[<<"in", n, 0>>]
    BY <2>4, <2>6, BlockPos
  <2>8. Following(k) = <<"in", n, 0>>
    BY <1>2, <1>9 DEF Following
  <2>9. h = lo[<<"in", n, 0>>]
    BY <1>5, <2>8 DEF Pos
  <2>10. hi[<<"in", n, 0>>] = lo[<<"in", n, 0>>]
    <3>1. InCode(n, 0, lo[<<"in", n, 0>>], hi[<<"in", n, 0>>], lab)
      BY <2>6, InAt
    <3>2. n # 0
      BY <1>1 DEF Shape
    <3> QED BY <1>9, <3>1, <3>2 DEF InCode
  <2> QED BY <1>4, <2>3, <2>5, <2>7, <2>9, <2>10 DEF Reaches, Leads
<1>10. CASE tree[n].kind = "break"
  <2>1. PICK L : L = InnermostLoop[n]
    OBVIOUS
  <2>2. L \in DOMAIN tree /\ tree[L].kind \in {"while", "for", "infinite"}
    BY <1>1, <1>10, <2>1 DEF Nested
  <2>3. h = l + 1 /\ code[l] = Goto(brk[L])
    BY <1>3, <1>10, <2>1 DEF EnterCode
  <2>4. l \in DOMAIN code
    BY ONLY <1>5, <2>3
  <2>5. Between(l) /\ Fall(l) = Target(brk[L])
    BY <2>3, <2>4, GotoFalls
  <2>6. PICK u, v : u = lo[<<"out", L, 0>>] /\ v = hi[<<"out", L, 0>>]
    OBVIOUS
  <2>7. IsBlock(L, 0) /\ L # 0
    BY <1>1, <2>2 DEF IsBlock, Loops, Shape
  <2>8. Span(u, v, lo, Following(<<"out", L, 0>>)) /\ OutCode(L, 0, u, v, lab, brk)
    BY <2>6, <2>7, OutAt
  <2>9. u < v /\ code[v - 1] = Label(brk[L])
    <3>1. u \in Nat
      BY <2>8 DEF Span
    <3> QED BY <2>2, <2>8, <3>1 DEF OutCode, Loops
  <2>10. PICK i : i = v - 1
    OBVIOUS
  <2>11. i \in DOMAIN code /\ i + 1 = v
    <3>1. u \in Nat /\ v \in Nat /\ 1 <= u /\ v <= Len(code) + 1
      BY <2>8 DEF Span
    <3> QED BY ONLY <1>5, <2>9, <2>10, <3>1
  <2>12. Target(brk[L]) = i /\ code[i].op = "label"
    BY <1>1, <2>9, <2>10, <2>11, TargetIs DEF Label
  <2>13. Between(i) /\ Fall(i) = v
    BY <2>11, <2>12, LabelFalls
  <2>14. PICK r : r = After(L)
    OBVIOUS
  <2>15. Onward(p) = r
    BY <1>4, <1>10, <2>1, <2>14 DEF FromStart
  <2>16. r \in SourcePlaces /\ IsStop(Onward(r)) /\ StopPos(lo, Onward(r)) = Pos(lo, Behind(L))
    BY <2>2, <2>14, AfterPos
  <2>17. v = Pos(lo, Behind(L))
    <3>1. Following(<<"out", L, 0>>) = Behind(L)
      BY <2>2 DEF Following
    <3> QED BY <2>8, <3>1 DEF Span
  <2> QED BY <1>4, <2>5, <2>12, <2>13, <2>15, <2>16, <2>17 DEF Reaches, Leads
<1> QED BY <1>1, <1>6, <1>7, <1>8, <1>9, <1>10 DEF Kinds, Loops, Leaves

\* Where a goto leads, through the label it names.
LEMMA GotoLabel ==
  ASSUME Shape, LabelsPlacedOnce, NEW i \in DOMAIN code, NEW t \in DOMAIN code, NEW x,
         code[i] = Goto(x), code[t] = Label(x)
  PROVE  /\ Between(i) /\ Fall(i) = t /\ Between(t) /\ Fall(t) = t + 1
         /\ Leads(i, t + 1) /\ CodePoint(i) = CodePoint(t + 1)
<1>1. Target(x) = t
  BY TargetIs
<1>2. Between(i) /\ Fall(i) = t
  BY <1>1, GotoFalls
<1>3. code[t].op = "label"
  BY DEF Label
<1>4. Between(t) /\ Fall(t) = t + 1
  BY <1>3, LabelFalls
<1>5. CodePoint(i) = CodePoint(Target(x))
  BY OverGoto
<1>6. CodePoint(t) = CodePoint(t + 1)
  BY <1>3, OverLabel
<1> QED BY <1>1, <1>2, <1>4, <1>5, <1>6 DEF Leads

\* The label at the start of a loop that is no for, and that of a for.
LEMMA LoopStart ==
  ASSUME NEW lo, NEW hi, NEW lab, NEW brk, Final(lo, hi, lab, brk), NEW n \in DOMAIN tree,
         tree[n].kind \in {"while", "until", "infinite"}
  PROVE  \E t \in DOMAIN code :
           /\ code[t] = Label(lab[n].start) /\ t = lo[<<"enter", n, 0>>]
           /\ tree[n].kind = "while" => t + 1 = lo[<<"cond", n, 0>>]
           /\ tree[n].kind # "while" => t + 1 = hi[<<"in", n, 0>>]
<1>1. Shape /\ n # 0
  BY DEF Final, Shape
<1>2. PICK l, h, k : l = lo[<<"enter", n, 0>>] /\ h = hi[<<"enter", n, 0>>]
                     /\ k = <<"enter", n, 0>>
  OBVIOUS
<1>3. Span(l, h, lo, Following(k)) /\ EnterCode(n, l, h, lab, brk)
  BY <1>2, EnterAt
<1>4. h = l + 1 /\ code[l] = Label(lab[n].start)
  BY <1>3 DEF EnterCode
<1>5. l \in DOMAIN code
  BY <1>1, <1>3, <1>4, SpanDomain DEF Span
<1>6. h = Pos(lo, Following(k))
  BY <1>3 DEF Span
<1>7. tree[n].kind = "while" => h = lo[<<"cond", n, 0>>]
  BY <1>2, <1>6 DEF Following, Pos
<1>8. tree[n].kind # "while" => h = lo[<<"in", n, 0>>]
  BY <1>2, <1>6 DEF Following, Pos
<1>9. tree[n].kind # "while" => hi[<<"in", n, 0>>] = lo[<<"in", n, 0>>]
  <2>1. IsBlock(n, 0)
    BY DEF IsBlock, Loops
  <2>2. InCode(n, 0, lo[<<"in", n, 0>>], hi[<<"in", n, 0>>], lab)
    BY <2>1, InAt
  <2> QED BY <1>1, <2>2 DEF InCode
<1> QED BY <1>2, <1>4, <1>5, <1>7, <1>8, <1>9

\* The end label of an if is after its last block.
LEMMA IfEnd ==
  ASSUME NEW lo, NEW hi, NEW lab, NEW brk, Final(lo, hi, lab, brk), NEW n \in DOMAIN tree,
         tree[n].kind = "if"
  PROVE  \E t \in DOMAIN code :
           code[t] = Label(lab[n].end) /\ t + 1 = Pos(lo, Behind(n))
<1>1. Shape /\ n # 0 /\ tree[n].elseIfs \in Nat /\ tree[n].hasElse \in BOOLEAN
  BY DEF Final, Shape
<1>2. PICK c : c = Branches(tree[n]) - 1
  OBVIOUS
<1>3. Branches(tree[n]) \in Nat /\ c \in Nat /\ c < Branches(tree[n])
      /\ ~(c + 1 < Branches(tree[n]))
  BY <1>1, <1>2 DEF Branches
<1>4. IsBlock(n, c)
  BY <1>3 DEF IsBlock
<1>5. PICK l, h, k : l = lo[<<"out", n, c>>] /\ h = hi[<<"out", n, c>>] /\ k = <<"out", n, c>>
  OBVIOUS
<1>6. Span(l, h, lo, Following(k)) /\ OutCode(n, c, l, h, lab, brk)
  BY <1>1, <1>4, <1>5, OutAt
<1>7. h = l + 2 /\ code[l + 1] = Label(lab[n].end)
  BY <1>3, <1>6 DEF OutCode
<1>8. PICK t : t = l + 1
  OBVIOUS
<1>9. l \in Nat /\ h \in Nat /\ 1 <= l /\ h = Pos(lo, Following(k))
  BY <1>6 DEF Span
<1>10. t \in Int /\ l <= t /\ t < h /\ t + 1 = h
  BY ONLY <1>7, <1>8, <1>9
<1>11. t \in DOMAIN code
  BY <1>1, <1>6, <1>10, SpanDomain
<1>12. Following(k) = Behind(n)
  BY <1>2, <1>5 DEF Following
<1> QED BY <1>7, <1>8, <1>9, <1>10, <1>11, <1>12

\* Where a block ends.
LEMMA EndReaches ==
  ASSUME NEW lo, NEW hi, NEW lab, NEW brk, Final(lo, hi, lab, brk), NEW n, NEW b, IsBlock(n, b),
         NEW p, p = EndBlock(n, b)
  PROVE  Reaches(lo, p)
<1>1. Shape /\ Nested /\ LabelsPlacedOnce /\ Len(code) \in Nat /\ DOMAIN code = 1..Len(code)
  BY DEF Final, Shape
<1>2. Onward(p) = FromEnd(n)
  BY OnwardIs
<1>3. StopPos(lo, p) = Pos(lo, <<"out", n, b>>)
  BY DEF StopPos, EndBlock
<1>4. CASE n = 0
  <2>1. b = 0
    BY <1>1, <1>4 DEF IsBlock, Shape
  <2>2. StopPos(lo, p) = Len(code) + 1
    BY <1>3, <1>4, <2>1 DEF Pos
  <2>3. CodePoint(Len(code) + 1) = Finish
    <3>1. code \in Seq(Instruction)
      BY <1>1 DEF Shape
    <3> QED BY <1>1, <3>1, CodeAtPoint
  <2>4. Onward(p) = Finish
    BY <1>2, <1>4 DEF FromEnd
  <2> QED BY <2>2, <2>3, <2>4, NoPlace DEF Reaches
<1>5. CASE n # 0
  <2>1. n \in DOMAIN tree /\ tree[n].kind \in Loops \cup {"if"}
    BY <1>5 DEF IsBlock
  <2>2. PICK l, h, k : l = lo[<<"out", n, b>>] /\ h = hi[<<"out", n, b>>]
                       /\ k = <<"out", n, b>>
    OBVIOUS
  <2>3. Span(l, h, lo, Following(k)) /\ OutCode(n, b, l, h, lab, brk)
    BY <1>5, <2>2, OutAt
  <2>4. StopPos(lo, p) = l
    BY <1>3, <1>5, <2>2, PosOfPart
  <2>5. l \in Nat /\ h \in Nat /\ 1 <= l /\ h = Pos(lo, Following(k))
    BY <2>3 DEF Span
  <2>6. h \in {l + 1, l + 2, l + 3}
    BY <2>1, <2>3 DEF OutCode, Loops
  <2>7. l \in DOMAIN code
    <3>1. l \in Int /\ l <= l /\ l < h
      BY ONLY <2>5, <2>6
    <3> QED BY <1>1, <2>3, <3>1, SpanDomain
  <2>8. CASE tree[n].kind = "while"
    <3>1. code[l] = Goto(lab[n].start)
      BY <2>3, <2>8 DEF OutCode
    <3>k. tree[n].kind \in {"while", "until", "infinite"}
      BY <2>8
    <3>a. PICK t \in DOMAIN code :
           /\ code[t] = Label(lab[n].start) /\ t = lo[<<"enter", n, 0>>]
           /\ tree[n].kind = "while" => t + 1 = lo[<<"cond", n, 0>>]
           /\ tree[n].kind # "while" => t + 1 = hi[<<"in", n, 0>>]
      BY ONLY Final(lo, hi, lab, brk), <2>1, <3>k, LoopStart
    <3>2. code[t] = Label(lab[n].start) /\ t + 1 = lo[<<"cond", n, 0>>]
      BY <2>8, <3>a
    <3>3. CodePoint(l) = CodePoint(t + 1)
      BY <1>1, <2>7, <3>1, <3>2, GotoLabel
    <3>4. CodePoint(lo[<<"cond", n, 0>>]) = Point("eval", n, 0)
      BY <2>1, <2>8, ToCondition
    <3>5. Onward(p) = Point("eval", n, 0) /\ "eval" \in PointOps
      BY <1>2, <1>5, <2>8 DEF FromEnd, PointOps
    <3> QED BY <2>4, <3>2, <3>3, <3>4, <3>5, NoPlace DEF Reaches
  <2>9. CASE tree[n].kind = "for"
    <3>1. code[l] = Goto(lab[n].update)
      BY <2>3, <2>9 DEF OutCode
    <3>2. PICK t, v : t = lo[<<"update", n, 0>>] /\ v = hi[<<"update", n, 0>>]
      OBVIOUS
    <3>3. Span(t, v, lo, Following(<<"update", n, 0>>)) /\ UpdateCode(n, t, v, lab)
      BY <2>1, <2>9, <3>2, UpdateAt
    <3>4. t \in DOMAIN code /\ code[t] = Label(lab[n].update)
      <4>1. t + 3 < v /\ code[t] = Label(lab[n].update)
        BY <3>3 DEF UpdateCode
      <4>2. t \in Nat
        BY <3>3 DEF Span
      <4>3. t \in Int /\ t <= t /\ t < v
        <5>1. v \in Nat
          BY <3>3 DEF Span
        <5> QED BY ONLY <4>1, <4>2, <5>1
      <4> QED BY <1>1, <3>3, <4>1, <4>3, SpanDomain
    <3>5. CodePoint(l) = CodePoint(t)
      <4>1. Target(lab[n].update) = t
        BY <1>1, <3>4, TargetIs
      <4> QED BY <1>1, <2>7, <3>1, <4>1, OverGoto
    <3>6. CodePoint(t) = Point("update", n, 0)
      BY <2>1, <2>9, <3>2, ToUpdate
    <3>7. Onward(p) = Point("update", n, 0) /\ "update" \in PointOps
      BY <1>2, <1>5, <2>9 DEF FromEnd, PointOps
    <3> QED BY <2>4, <3>5, <3>6, <3>7, NoPlace DEF Reaches
  <2>10. CASE tree[n].kind = "until"
    <3>1. h = l + 1 /\ code[h - 1] = Label(brk[n])
      BY <2>3, <2>10 DEF OutCode, Loops
    <3>2. h - 1 = l
      BY ONLY <2>5, <3>1
    <3>3. code[l].op = "label"
      BY <3>1, <3>2 DEF Label
    <3>4. CodePoint(l) = CodePoint(h)
      BY <1>1, <2>7, <3>1, <3>3, OverLabel
    <3>5. Following(k) = <<"cond", n, 0>>
      BY <2>2, <2>10 DEF Following
    <3>6. h = lo[<<"cond", n, 0>>]
      BY <2>5, <3>5 DEF Pos
    <3>7. CodePoint(lo[<<"cond", n, 0>>]) = Point("eval", n, 0)
      BY <2>1, <2>10, ToCondition
    <3>8. Onward(p) = Point("eval", n, 0) /\ "eval" \in PointOps
      BY <1>2, <1>5, <2>10 DEF FromEnd, PointOps
    <3> QED BY <2>4, <3>4, <3>6, <3>7, <3>8, NoPlace DEF Reaches
  <2>11. CASE tree[n].kind = "infinite"
    <3>1. code[l] = Goto(lab[n].start)
      BY <2>3, <2>11 DEF OutCode
    <3>k. tree[n].kind \in {"while", "until", "infinite"}
      BY <2>11
    <3>a. PICK t \in DOMAIN code :
           /\ code[t] = Label(lab[n].start) /\ t = lo[<<"enter", n, 0>>]
           /\ tree[n].kind = "while" => t + 1 = lo[<<"cond", n, 0>>]
           /\ tree[n].kind # "while" => t + 1 = hi[<<"in", n, 0>>]
      BY ONLY Final(lo, hi, lab, brk), <2>1, <3>k, LoopStart
    <3>2. code[t] = Label(lab[n].start) /\ t + 1 = hi[<<"in", n, 0>>]
      BY <2>11, <3>a
    <3>3. Leads(l, t + 1)
      BY <1>1, <2>7, <3>1, <3>2, GotoLabel
    <3>4. PICK r : r = StartBlock(n, 0)
      OBVIOUS
    <3>5. Onward(p) = r
      BY <1>2, <1>5, <2>11, <3>4 DEF FromEnd
    <3>6. IsBlock(n, 0)
      BY <2>1, <2>11 DEF IsBlock, Loops
    <3>7. r \in SourcePlaces /\ IsStop(Onward(r)) /\ StopPos(lo, Onward(r)) = hi[<<"in", n, 0>>]
      BY <3>4, <3>6, BlockPos
    <3> QED BY <2>4, <3>2, <3>3, <3>5, <3>7 DEF Reaches
  <2>12. CASE tree[n].kind = "if"
    <3>1. code[l] = Goto(lab[n].end)
      BY <2>3, <2>12 DEF OutCode
    <3>2. PICK t \in DOMAIN code : code[t] = Label(lab[n].end) /\ t + 1 = Pos(lo, Behind(n))
      BY <2>1, <2>12, IfEnd
    <3>3. Leads(l, t + 1)
      BY <1>1, <2>7, <3>1, <3>2, GotoLabel
    <3>4. PICK r : r = After(n)
      OBVIOUS
    <3>5. Onward(p) = r
      BY <1>2, <1>5, <2>12, <3>4 DEF FromEnd
    <3>6. r \in SourcePlaces /\ IsStop(Onward(r)) /\ StopPos(lo, Onward(r)) = Pos(lo, Behind(n))
      BY <2>1, <3>4, AfterPos
    <3> QED BY <2>4, <3>2, <3>3, <3>5, <3>6 DEF Reaches
  <2> QED BY <2>1, <2>8, <2>9, <2>10, <2>11, <2>12 DEF Loops
<1> QED BY <1>4, <1>5

-----------------------------------------------------------------------------
(* From a place of the source and from its position in the code, control   *)
(* comes to the same point, or to none.                                    *)

LEMMA LeadsSame ==
  ASSUME code \in Seq(Instruction), NEW i, NEW j, Leads(i, j)
  PROVE  CodePoint(i) = CodePoint(j)
<1>1. Between(i) /\ CodePoint(i) = CodePoint(Fall(i))
  BY CodeOnward DEF Leads
<1>2. CASE Fall(i) = j
  BY <1>1, <1>2
<1>3. CASE Between(Fall(i)) /\ Fall(Fall(i)) = j
  <2>1. CodePoint(Fall(i)) = CodePoint(Fall(Fall(i)))
    BY <1>3, CodeOnward
  <2> QED BY <1>1, <1>3, <2>1
<1> QED BY <1>2, <1>3 DEF Leads

LEMMA StopReaches ==
  ASSUME NEW lo, NEW hi, NEW lab, NEW brk, Final(lo, hi, lab, brk), NEW p, IsStop(p)
  PROVE  Reaches(lo, p)
<1>1. ASSUME NEW n \in DOMAIN tree, p = Start(n) PROVE Reaches(lo, p)
  BY ONLY Final(lo, hi, lab, brk), <1>1, StartReaches
<1>2. ASSUME NEW n, NEW b, IsBlock(n, b), p = EndBlock(n, b) PROVE Reaches(lo, p)
  BY ONLY Final(lo, hi, lab, brk), <1>2, EndReaches
<1> QED BY <1>1, <1>2 DEF IsStop

Agrees(lo, q) == IsStop(q) => CodePoint(StopPos(lo, q)) = SourcePoint(q)

AgreeingPlaces(lo) == {x \in SourcePlaces : Agrees(lo, x) /\ Agrees(lo, Onward(x))}

LEMMA AgreementInherited ==
  ASSUME NEW lo, NEW hi, NEW lab, NEW brk, Final(lo, hi, lab, brk)
  PROVE  Inherited(AgreeingPlaces(lo), SourcePlaces, SourceMap)
<1> SUFFICES ASSUME NEW x \in SourcePlaces,
                    Onward(x) \notin SourcePlaces \/ Onward(x) \in AgreeingPlaces(lo)
             PROVE  Agrees(lo, x) /\ Agrees(lo, Onward(x))
  BY DEF Inherited, AgreeingPlaces, SourceMap
<1>1. Shape /\ Nested /\ code \in Seq(Instruction) /\ Len(tree) \in Nat
  BY DEF Final, Shape
<1>2. SourcePoint(x)
        = IF Onward(x) \in SourcePlaces THEN SourcePoint(Onward(x)) ELSE Onward(x)
  BY <1>1, SourceOnward
<1>3. CASE Onward(x) \notin SourcePlaces
  <2>1. Agrees(lo, Onward(x))
    BY <1>1, <1>3, StopsArePlaces DEF Agrees
  <2>2. ASSUME IsStop(x) PROVE CodePoint(StopPos(lo, x)) = SourcePoint(x)
    <3>1. Reaches(lo, x)
      BY <2>2, StopReaches
    <3> QED BY <1>2, <1>3, <3>1 DEF Reaches
  <2> QED BY <2>1, <2>2 DEF Agrees
<1>4. CASE Onward(x) \in SourcePlaces
  <2>1. PICK y, s : y = Onward(x) /\ s = Onward(y)
    OBVIOUS
  <2>2. y \in SourcePlaces /\ Agrees(lo, y) /\ Agrees(lo, s)
    BY <1>4, <2>1 DEF AgreeingPlaces
  <2>3. ASSUME IsStop(x) PROVE CodePoint(StopPos(lo, x)) = SourcePoint(x)
    <3>1. Reaches(lo, x)
      BY <2>3, StopReaches
    <3>2. IsStop(s) /\ Leads(StopPos(lo, x), StopPos(lo, s))
      BY <1>4, <2>1, <3>1 DEF Reaches
    <3>3. CodePoint(StopPos(lo, x)) = CodePoint(StopPos(lo, s))
      BY <1>1, <3>2, LeadsSame
    <3>4. CodePoint(StopPos(lo, s)) = SourcePoint(s)
      BY <2>2, <3>2 DEF Agrees
    <3>5. s \in SourcePlaces
      BY <1>1, <3>2, StopsArePlaces
    <3>6. SourcePoint(y) = SourcePoint(s)
      BY <1>1, <2>1, <2>2, <3>5, SourceOnward
    <3> QED BY <1>2, <1>4, <2>1, <3>3, <3>4, <3>6
  <2> QED BY <2>1, <2>2, <2>3 DEF Agrees
<1> QED BY <1>3, <1>4

\* Control that comes to no point from a place.
Stuck(p) == p \in SourcePlaces /\ SourceWithin[Cardinality(SourcePlaces)][p] \in SourcePlaces

LEMMA StuckOnward ==
  ASSUME Len(tree) \in Nat, NEW p, Stuck(p)
  PROVE  Stuck(Onward(p))
<1>1. PICK X : X = SourcePlaces
  OBVIOUS
<1>2. PICK N : N = Cardinality(SourcePlaces)
  OBVIOUS
<1>f. PICK f : f = SourceMap
  OBVIOUS
<1>w. PICK W : W = SourceWithin
  OBVIOUS
<1>3. /\ N \in Nat /\ IsFiniteSet(X) /\ Cardinality(X) <= N /\ p \in X
      /\ W[N][p] \in X
  BY <1>1, <1>2, <1>w, PlacesFinite DEF Stuck
<1>4. IsWalk(W, X, X, f, N)
  BY <1>1, <1>2, <1>f, <1>w, SourceIsWalk
<1>5. /\ f[p] \notin X => W[N][p] = f[p]
      /\ f[p] \in X => W[N][p] = W[N][f[p]] \/ (W[N][p] \in X /\ W[N][f[p]] \in X)
  BY ONLY <1>3, <1>4, WalkShift
<1>6. f[p] = Onward(p)
  BY <1>f DEF SourceMap, Stuck
<1>7. f[p] \in X /\ W[N][f[p]] \in X
  BY ONLY <1>3, <1>5
<1> QED BY <1>1, <1>2, <1>w, <1>6, <1>7 DEF Stuck

\* The code of stops that lead to no point leads to none.
StuckStops == {q \in SourcePlaces : Stuck(q) /\ IsStop(q)}

StuckCode(lo) ==
  {StopPos(lo, q) : q \in StuckStops}
    \cup {i \in DOMAIN code : Between(i) /\ \E q \in StuckStops : Fall(i) = StopPos(lo, q)}

LEMMA StuckCodeStays ==
  ASSUME NEW lo, NEW hi, NEW lab, NEW brk, Final(lo, hi, lab, brk)
  PROVE  \A i \in StuckCode(lo) : Between(i) /\ Fall(i) \in StuckCode(lo)
<1>1. Len(tree) \in Nat /\ Shape /\ Nested
  BY DEF Final, Shape
<1>2. ASSUME NEW q \in StuckStops, NEW i, i = StopPos(lo, q)
      PROVE  Between(i) /\ Fall(i) \in StuckCode(lo)
  <2>1. Stuck(q) /\ IsStop(q)
    BY DEF StuckStops
  <2>2. PICK y, s : y = Onward(q) /\ s = Onward(y)
    OBVIOUS
  <2>3. Stuck(y)
    BY <1>1, <2>1, <2>2, StuckOnward
  <2>4. Stuck(s)
    BY <1>1, <2>2, <2>3, StuckOnward
  <2>5. Reaches(lo, q)
    BY <2>1, StopReaches
  <2>6. IsStop(s) /\ Leads(i, StopPos(lo, s))
    BY <1>2, <2>2, <2>3, <2>5 DEF Reaches, Stuck
  <2>7. s \in StuckStops
    BY <2>4, <2>6 DEF StuckStops, Stuck
  <2>8. StopPos(lo, s) \in StuckCode(lo)
    BY <2>7 DEF StuckCode
  <2>9. Between(i)
    BY <2>6 DEF Leads
  <2>10. CASE Fall(i) = StopPos(lo, s)
    BY <2>8, <2>9, <2>10
  <2>11. CASE Between(Fall(i)) /\ Fall(Fall(i)) = StopPos(lo, s)
    <3>1. Fall(i) \in DOMAIN code
      BY <2>11 DEF Between
    <3>2. PICK j : j = Fall(i)
      OBVIOUS
    <3>3. j \in StuckCode(lo)
      BY <2>7, <2>11, <3>1, <3>2 DEF StuckCode
    <3> QED BY <2>9, <3>2, <3>3
  <2> QED BY <2>6, <2>10, <2>11 DEF Leads
<1>3. ASSUME NEW i \in DOMAIN code, Between(i), NEW q \in StuckStops, Fall(i) = StopPos(lo, q)
      PROVE  Between(i) /\ Fall(i) \in StuckCode(lo)
  BY <1>3 DEF StuckCode
<1> QED BY <1>2, <1>3 DEF StuckCode

LEMMA StopsAgree ==
  ASSUME NEW lo, NEW hi, NEW lab, NEW brk, Final(lo, hi, lab, brk), NEW p, IsStop(p)
  PROVE  CodePoint(StopPos(lo, p)) = SourcePoint(p)
<1>1. /\ Len(tree) \in Nat /\ Shape /\ Nested /\ code \in Seq(Instruction)
      /\ p \in SourcePlaces
  BY StopsArePlaces DEF Final, Shape
<1>2. CASE Stuck(p)
  <2>1. StopPos(lo, p) \in StuckCode(lo)
    BY <1>1, <1>2 DEF StuckCode, StuckStops
  <2>2. PICK E : E = StuckCode(lo)
    OBVIOUS
  <2>3. \A i \in E : Between(i) /\ Fall(i) \in E
    BY <2>2, StuckCodeStays
  <2>4. \A i \in E : CodePoint(i) = Diverge
    BY ONLY <1>1, <2>3, CodeTrapped
  <2>5. SourcePoint(p) = Diverge
    BY <1>2 DEF Stuck, SourcePoint
  <2> QED BY <2>1, <2>2, <2>4, <2>5
<1>3. CASE ~Stuck(p)
  <2>1. PICK X : X = SourcePlaces
    OBVIOUS
  <2>2. PICK N : N = Cardinality(SourcePlaces)
    OBVIOUS
  <2>f. PICK f : f = SourceMap
    OBVIOUS
  <2>w. PICK W : W = SourceWithin
    OBVIOUS
  <2>g. PICK G : G = AgreeingPlaces(lo)
    OBVIOUS
  <2>3. N \in Nat /\ p \in X /\ W[N][p] \notin X
    BY <1>1, <1>3, <2>1, <2>2, <2>w, PlacesFinite DEF Stuck
  <2>4. IsWalk(W, X, X, f, N)
    BY <1>1, <2>1, <2>2, <2>f, <2>w, SourceIsWalk
  <2>5. G \in SUBSET X
    BY <2>1, <2>g DEF AgreeingPlaces
  <2>6. Inherited(G, X, f)
    BY <2>1, <2>f, <2>g, AgreementInherited
  <2>7. p \in G
    <3>1. N \in Nat
      BY ONLY <2>3
    <3>2. p \in X
      BY ONLY <2>3
    <3>3. W[N][p] \notin X
      BY ONLY <2>3
    <3>4. X \in SUBSET X
      OBVIOUS
    <3> QED BY ONLY <2>4, <2>5, <2>6, <3>1, <3>2, <3>3, <3>4, WalkInduction
  <2> QED BY <2>7, <2>g DEF AgreeingPlaces, Agrees
<1> QED BY <1>2, <1>3

\* The places of a statement's blocks and the one after it.
LEMMA BlockAgrees ==
  ASSUME NEW lo, NEW hi, NEW lab, NEW brk, Final(lo, hi, lab, brk), NEW n, NEW b, IsBlock(n, b)
  PROVE  SourcePoint(StartBlock(n, b)) = CodePoint(hi[<<"in", n, b>>])
<1>1. PICK p : p = StartBlock(n, b)
  OBVIOUS
<1>2. /\ Len(tree) \in Nat /\ Shape /\ Nested
  BY DEF Final, Shape
<1>3. PICK q : q = Onward(p)
  OBVIOUS
<1>4. p \in SourcePlaces /\ IsStop(q) /\ StopPos(lo, q) = hi[<<"in", n, b>>]
  BY <1>1, <1>3, BlockPos
<1>5. q \in SourcePlaces
  BY <1>2, <1>4, StopsArePlaces
<1>6. SourcePoint(p) = SourcePoint(q)
  BY <1>2, <1>3, <1>4, <1>5, SourceOnward
<1>7. CodePoint(StopPos(lo, q)) = SourcePoint(q)
  BY <1>4, StopsAgree
<1> QED BY <1>1, <1>4, <1>6, <1>7

LEMMA AfterAgrees ==
  ASSUME NEW lo, NEW hi, NEW lab, NEW brk, Final(lo, hi, lab, brk), NEW n \in DOMAIN tree
  PROVE  SourcePoint(After(n)) = CodePoint(Pos(lo, Behind(n)))
<1>1. PICK p : p = After(n)
  OBVIOUS
<1>2. /\ Len(tree) \in Nat /\ Shape /\ Nested
  BY DEF Final, Shape
<1>3. PICK q : q = Onward(p)
  OBVIOUS
<1>4. p \in SourcePlaces /\ IsStop(q) /\ StopPos(lo, q) = Pos(lo, Behind(n))
  BY <1>1, <1>3, AfterPos
<1>5. q \in SourcePlaces
  BY <1>2, <1>4, StopsArePlaces
<1>6. SourcePoint(p) = SourcePoint(q)
  BY <1>2, <1>3, <1>4, <1>5, SourceOnward
<1>7. CodePoint(StopPos(lo, q)) = SourcePoint(q)
  BY <1>4, StopsAgree
<1> QED BY <1>1, <1>4, <1>6, <1>7

-----------------------------------------------------------------------------
(* What runs after each point of the code.                                 *)

PointFollows(i) ==
  \A outcome \in BOOLEAN :
    CodeNext(i, outcome) = SourceNext(code[i].op, code[i].arg, code[i].sub, outcome)

\* A condition's code tests its value.
LEMMA EvalNext ==
  ASSUME Shape, NEW i \in DOMAIN code, NEW n, NEW b, NEW x, i + 1 \in DOMAIN code,
         code[i] = Instr("eval", n, b), code[i + 1] = IfEq(x)
  PROVE  /\ CodeNext(i, TRUE) = CodePoint(i + 2)
         /\ CodeNext(i, FALSE) = CodePoint(Target(x))
<1>1. code[i].op = "eval" /\ code[i + 1].op = "ifeq" /\ code[i + 1].arg = x
  BY DEF Instr, IfEq
<1>2. i < Len(code)
  BY DEF Shape
<1> QED BY ONLY <1>1, <1>2 DEF CodeNext

LEMMA PlainNext ==
  ASSUME NEW i, code[i].op \in {"simple", "valuecall", "update"}, NEW outcome
  PROVE  CodeNext(i, outcome) = CodePoint(i + 1)
BY DEF CodeNext

LEMMA TwoOutcomes ==
  ASSUME NEW i, NEW n, NEW b, code[i] = Instr("eval", n, b),
         CodeNext(i, TRUE) = SourceNext("eval", n, b, TRUE),
         CodeNext(i, FALSE) = SourceNext("eval", n, b, FALSE)
  PROVE  PointFollows(i)
<1>1. code[i].op = "eval" /\ code[i].arg = n /\ code[i].sub = b
  BY DEF Instr
<1>2. CodeNext(i, TRUE) = SourceNext(code[i].op, code[i].arg, code[i].sub, TRUE)
  BY <1>1
<1>3. CodeNext(i, FALSE) = SourceNext(code[i].op, code[i].arg, code[i].sub, FALSE)
  BY <1>1
<1>4. \A outcome \in BOOLEAN : outcome = TRUE \/ outcome = FALSE
  OBVIOUS
<1> QED BY ONLY <1>2, <1>3, <1>4 DEF PointFollows

\* The code of a block comes after its label.
LEMMA IntoBlock ==
  ASSUME NEW lo, NEW hi, NEW lab, NEW brk, Final(lo, hi, lab, brk), NEW n \in DOMAIN tree,
         NEW b, IsBlock(n, b)
  PROVE  CodePoint(lo[<<"in", n, b>>]) = SourcePoint(StartBlock(n, b))
<1>1. PICK l, h : l = lo[<<"in", n, b>>] /\ h = hi[<<"in", n, b>>]
  OBVIOUS
<1>2. Shape /\ n # 0 /\ tree[n].kind \in Kinds
  BY DEF Final, Shape
<1>3. Span(l, h, lo, NextPart(n, b, 0)) /\ InCode(n, b, l, h, lab)
  BY <1>1, InAt
<1>4. h = l \/ (h = l + 1 /\ code[l].op = "label")
  BY <1>2, <1>3 DEF InCode, Label
<1>5. CodePoint(l) = CodePoint(h)
  <2>1. CASE h = l
    BY <2>1
  <2>2. CASE h = l + 1 /\ code[l].op = "label"
    <3>1. l \in DOMAIN code
      BY <1>2, <1>3, <2>2, SpanDomain DEF Span
    <3> QED BY <1>2, <2>2, <3>1, OverLabel
  <2> QED BY <1>4, <2>1, <2>2
<1>6. SourcePoint(StartBlock(n, b)) = CodePoint(hi[<<"in", n, b>>])
  BY BlockAgrees
<1> QED BY <1>1, <1>5, <1>6

\* A loop's end label leads past the label of its breaks.
LEMMA LoopEnd ==
  ASSUME NEW lo, NEW hi, NEW lab, NEW brk, Final(lo, hi, lab, brk), NEW n \in DOMAIN tree,
         tree[n].kind \in {"while", "for"}
  PROVE  CodePoint(Target(lab[n].end)) = SourcePoint(After(n))
<1>1. Shape /\ LabelsPlacedOnce /\ n # 0 /\ IsBlock(n, 0)
  BY DEF Final, Shape, IsBlock, Loops
<1>2. PICK l, h, k : l = lo[<<"out", n, 0>>] /\ h = hi[<<"out", n, 0>>] /\ k = <<"out", n, 0>>
  OBVIOUS
<1>3. Span(l, h, lo, Following(k)) /\ OutCode(n, 0, l, h, lab, brk)
  BY <1>1, <1>2, OutAt
<1>4. h = l + 3 /\ code[l + 1] = Label(lab[n].end) /\ code[h - 1] = Label(brk[n])
  BY <1>3 DEF OutCode, Loops
<1>5. l \in Nat /\ h \in Nat /\ h = Pos(lo, Following(k))
  BY <1>3 DEF Span
<1>6. PICK i, j : i = l + 1 /\ j = l + 2
  OBVIOUS
<1>7. i \in Int /\ l <= i /\ i < h /\ j \in Int /\ l <= j /\ j < h
      /\ i + 1 = j /\ j + 1 = h /\ h - 1 = j
  BY ONLY <1>4, <1>5, <1>6
<1>8. i \in DOMAIN code /\ j \in DOMAIN code
  BY <1>1, <1>3, <1>7, SpanDomain
<1>9. code[i].op = "label" /\ code[j].op = "label"
  BY <1>4, <1>6, <1>7 DEF Label
<1>10. Target(lab[n].end) = i
  BY <1>1, <1>4, <1>6, <1>8, TargetIs
<1>11. CodePoint(i) = CodePoint(i + 1)
  BY ONLY <1>1, <1>8, <1>9, OverLabel
<1>12. CodePoint(j) = CodePoint(j + 1)
  BY ONLY <1>1, <1>8, <1>9, OverLabel
<1>13. Following(k) = Behind(n)
  BY <1>2 DEF Following
<1>14. SourcePoint(After(n)) = CodePoint(Pos(lo, Behind(n)))
  BY AfterAgrees
<1> QED BY <1>5, <1>7, <1>10, <1>11, <1>12, <1>13, <1>14

\* The points where statements begin.
LEMMA EnterPoints ==
  ASSUME NEW lo, NEW hi, NEW lab, NEW brk, Final(lo, hi, lab, brk), NEW n \in DOMAIN tree,
         NEW i \in DOMAIN code, code[i].op \in PointOps,
         lo[<<"enter", n, 0>>] <= i, i < hi[<<"enter", n, 0>>]
  PROVE  PointFollows(i)
<1>1. Shape /\ tree[n].kind \in Kinds /\ i \in Nat
  BY DEF Final, Shape
<1>2. PICK l, h, k : l = lo[<<"enter", n, 0>>] /\ h = hi[<<"enter", n, 0>>]
                     /\ k = <<"enter", n, 0>>
  OBVIOUS
<1>3. Span(l, h, lo, Following(k)) /\ EnterCode(n, l, h, lab, brk)
  BY <1>2, EnterAt
<1>4. l \in Nat /\ h \in Nat /\ h = Pos(lo, Following(k)) /\ l <= i /\ i < h
  BY <1>2, <1>3 DEF Span
<1>5. CASE tree[n].kind \in {"simple", "valuecall", "return"}
  <2>1. l < h /\ LabelsIn(l, h - 1) /\ code[h - 1] = Instr(tree[n].kind, n, 0)
    BY <1>3, <1>5 DEF EnterCode
  <2>2. code[i].op # "label"
    BY DEF PointOps
  <2>3. ~(i \in l..((h - 1) - 1))
    BY <2>1, <2>2 DEF LabelsIn
  <2>4. i = h - 1 /\ i + 1 = h
    BY ONLY <1>1, <1>4, <2>3
  <2>5. code[i].op = tree[n].kind /\ code[i].arg = n
    BY <2>1, <2>4 DEF Instr
  <2>6. CASE tree[n].kind = "return"
    BY <2>5, <2>6 DEF PointFollows, CodeNext, SourceNext
  <2>7. CASE tree[n].kind \in {"simple", "valuecall"}
    <3>1. Following(k) = Behind(n)
      BY <1>2, <2>7 DEF Following, Leaves
    <3>2. SourcePoint(After(n)) = CodePoint(h)
      BY <1>4, <3>1, AfterAgrees
    <3>3. \A outcome : CodeNext(i, outcome) = CodePoint(h)
      BY <2>4, <2>5, <2>7, PlainNext
    <3>4. \A outcome : SourceNext(code[i].op, code[i].arg, code[i].sub, outcome)
                         = SourcePoint(After(n))
      BY <2>5, <2>7 DEF SourceNext
    <3> QED BY <3>2, <3>3, <3>4 DEF PointFollows
  <2> QED BY <1>5, <2>6, <2>7
<1>6. CASE tree[n].kind = "for"
  <2>1. h = l + 1 /\ code[l] = Instr("simple", n, 0)
    BY <1>3, <1>6 DEF EnterCode
  <2>2. i = l /\ i + 1 = h
    BY ONLY <1>1, <1>4, <2>1
  <2>3. code[i].op = "simple" /\ code[i].arg = n
    BY <2>1, <2>2 DEF Instr
  <2>4. h = lo[<<"cond", n, 0>>]
    <3>1. Following(k) = <<"cond", n, 0>>
      BY <1>2, <1>6 DEF Following
    <3> QED BY <1>4, <3>1 DEF Pos
  <2>5. CodePoint(h) = Point("eval", n, 0)
    BY <1>6, <2>4, ToCondition
  <2>6. \A outcome : CodeNext(i, outcome) = CodePoint(h)
    BY <2>2, <2>3, PlainNext
  <2>7. \A outcome : SourceNext(code[i].op, code[i].arg, code[i].sub, outcome)
                       = Point("eval", n, 0)
    BY <1>6, <2>3 DEF SourceNext
  <2> QED BY <2>5, <2>6, <2>7 DEF PointFollows
<1>7. CASE tree[n].kind = "if"
  <2>1. h = l
    BY <1>3, <1>7 DEF EnterCode
  <2> QED BY ONLY <1>1, <1>4, <2>1
<1>8. CASE tree[n].kind \in {"break", "while", "until", "infinite"}
  <2>1. h = l + 1 /\ code[l].op \in {"label", "goto"}
    BY <1>3, <1>8 DEF EnterCode, Label, Goto
  <2>2. i = l
    BY ONLY <1>1, <1>4, <2>1
  <2> QED BY <2>1, <2>2 DEF PointOps
<1> QED BY <1>1, <1>5, <1>6, <1>7, <1>8 DEF Kinds, Loops, Leaves

\* The point of an update.
LEMMA UpdatePoints ==
  ASSUME NEW lo, NEW hi, NEW lab, NEW brk, Final(lo, hi, lab, brk), NEW n \in DOMAIN tree,
         tree[n].kind = "for", NEW i \in DOMAIN code, code[i].op \in PointOps,
         lo[<<"update", n, 0>>] <= i, i < hi[<<"update", n, 0>>]
  PROVE  PointFollows(i)
<1>1. Shape /\ LabelsPlacedOnce /\ i \in Nat
  BY DEF Final, Shape
<1>2. PICK l, h, k : l = lo[<<"update", n, 0>>] /\ h = hi[<<"update", n, 0>>]
                     /\ k = <<"update", n, 0>>
  OBVIOUS
<1>3. Span(l, h, lo, Following(k)) /\ UpdateCode(n, l, h, lab)
  BY <1>2, UpdateAt
<1>4. l \in Nat /\ h \in Nat /\ l <= i /\ i < h
  BY <1>2, <1>3 DEF Span
<1>5. /\ l + 3 < h /\ LabelsIn(l, h - 3) /\ code[h - 3] = Instr("update", n, 0)
      /\ code[h - 2] = Pop /\ code[h - 1] = Goto(lab[n].cond)
  BY <1>3 DEF UpdateCode
<1>6. code[i].op \notin {"label", "pop", "goto"}
  BY DEF PointOps
<1>7. ~(i \in l..((h - 3) - 1)) /\ i # h - 2 /\ i # h - 1
  <2>1. code[h - 2].op = "pop" /\ code[h - 1].op = "goto"
    BY <1>5 DEF Pop, Goto
  <2> QED BY <1>5, <1>6, <2>1 DEF LabelsIn
<1>8. PICK j, m : j = h - 2 /\ m = h - 1
  OBVIOUS
<1>9. /\ i = h - 3 /\ i + 1 = j /\ j + 1 = m /\ j \in Int /\ m \in Int
      /\ l <= j /\ j < h /\ l <= m /\ m < h
  BY ONLY <1>1, <1>4, <1>5, <1>7, <1>8
<1>10. j \in DOMAIN code /\ m \in DOMAIN code
  BY <1>1, <1>3, <1>9, SpanDomain
<1>11. CodePoint(j) = CodePoint(m)
  <2>1. code[j].op = "pop"
    BY <1>5, <1>8 DEF Pop
  <2> QED BY <1>1, <1>9, <1>10, <2>1, OverLabel
<1>12. PICK t, v : t = lo[<<"cond", n, 0>>] /\ v = hi[<<"cond", n, 0>>]
  OBVIOUS
<1>13. Span(t, v, lo, Following(<<"cond", n, 0>>)) /\ CondCode(n, 0, t, v, lab)
  BY <1>12, CondAt
<1>14. t + 3 < v /\ code[t] = Label(lab[n].cond)
  BY <1>13 DEF CondCode
<1>15. t \in DOMAIN code
  <2>1. t \in Nat /\ v \in Nat
    BY <1>13 DEF Span
  <2>2. t \in Int /\ t <= t /\ t < v
    BY ONLY <1>14, <2>1
  <2> QED BY <1>1, <1>13, <2>2, SpanDomain
<1>16. CodePoint(m) = CodePoint(t)
  <2>1. Target(lab[n].cond) = t
    BY <1>1, <1>14, <1>15, TargetIs
  <2>2. code[m] = Goto(lab[n].cond)
    BY <1>5, <1>8
  <2> QED BY <1>1, <1>10, <2>1, <2>2, OverGoto
<1>17. CodePoint(t) = Point("eval", n, 0)
  BY <1>12, ToCondition
<1>18. code[i].op = "update" /\ code[i].arg = n
  BY <1>5, <1>9 DEF Instr
<1>19. \A outcome : CodeNext(i, outcome) = CodePoint(j)
  BY <1>9, <1>18, PlainNext
<1>20. \A outcome : SourceNext(code[i].op, code[i].arg, code[i].sub, outcome)
                      = Point("eval", n, 0)
  BY <1>18 DEF SourceNext
<1> QED BY <1>11, <1>16, <1>17, <1>19, <1>20 DEF PointFollows

\* A condition's test, and the label it names.
CondLabel(n, b, lab) ==
  CASE tree[n].kind = "if" ->
         IF b + 1 < Branches(tree[n]) THEN lab[n].conds[b + 2] ELSE lab[n].end
    [] tree[n].kind \in {"while", "for"} -> lab[n].end
    [] tree[n].kind = "until" -> lab[n].start

LEMMA CondPoint ==
  ASSUME NEW lo, NEW hi, NEW lab, NEW brk, Final(lo, hi, lab, brk),
         NEW n \in DOMAIN tree, NEW b \in Nat,
         \/ tree[n].kind = "if" /\ b <= tree[n].elseIfs
         \/ tree[n].kind \in {"while", "until", "for"} /\ b = 0,
         NEW i \in DOMAIN code, code[i].op \in PointOps,
         NEW l, l = lo[<<"cond", n, b>>], NEW h, h = hi[<<"cond", n, b>>], l <= i, i < h
  PROVE  /\ code[i] = Instr("eval", n, b)
         /\ i + 1 \in DOMAIN code /\ code[i + 1] = IfEq(CondLabel(n, b, lab))
         /\ h = Pos(lo, Following(<<"cond", n, b>>))
         /\ tree[n].kind # "for" => i + 2 = h
         /\ tree[n].kind = "for" => i + 2 \in DOMAIN code /\ code[i + 2] = Goto(lab[n].start)
<1>1. Shape /\ i \in Nat
  BY DEF Final, Shape
<1>3. Span(l, h, lo, Following(<<"cond", n, b>>)) /\ CondCode(n, b, l, h, lab)
  BY CondAt
<1>4. l \in Nat /\ h \in Nat /\ l <= i /\ i < h
  BY <1>3 DEF Span
<1>5. code[i].op \notin {"label", "ifeq", "goto"}
  BY DEF PointOps
<1>h. h = Pos(lo, Following(<<"cond", n, b>>))
  BY <1>3 DEF Span
<1>6. CASE tree[n].kind \in {"if", "while", "until"}
  <2>1. /\ l + 1 < h /\ LabelsIn(l, h - 2) /\ code[h - 2] = Instr("eval", n, b)
        /\ code[h - 1] = IfEq(CondLabel(n, b, lab))
    BY <1>3, <1>6 DEF CondCode, CondLabel
  <2>2. ~(i \in l..((h - 2) - 1)) /\ i # h - 1
    <3>1. code[h - 1].op = "ifeq"
      BY <2>1 DEF IfEq
    <3> QED BY <1>5, <2>1, <3>1 DEF LabelsIn
  <2>3. PICK j : j = h - 1
    OBVIOUS
  <2>4. /\ i = h - 2 /\ i + 1 = j /\ i + 2 = h /\ j \in Int /\ l <= j /\ j < h
    BY ONLY <1>1, <1>4, <2>1, <2>2, <2>3
  <2>5. j \in DOMAIN code
    BY <1>1, <1>3, <2>4, SpanDomain
  <2> QED BY <1>6, <1>h, <2>1, <2>3, <2>4, <2>5
<1>7. CASE tree[n].kind = "for"
  <2>1. /\ l + 3 < h /\ LabelsIn(l, h - 3) /\ code[h - 3] = Instr("eval", n, b)
        /\ code[h - 2] = IfEq(CondLabel(n, b, lab)) /\ code[h - 1] = Goto(lab[n].start)
    BY <1>3, <1>7 DEF CondCode, CondLabel
  <2>2. ~(i \in l..((h - 3) - 1)) /\ i # h - 1 /\ i # h - 2
    <3>1. code[h - 2].op = "ifeq" /\ code[h - 1].op = "goto"
      BY <2>1 DEF IfEq, Goto
    <3> QED BY <1>5, <2>1, <3>1 DEF LabelsIn
  <2>3. PICK j, m : j = h - 2 /\ m = h - 1
    OBVIOUS
  <2>4. /\ i = h - 3 /\ i + 1 = j /\ i + 2 = m /\ j \in Int /\ l <= j /\ j < h
        /\ m \in Int /\ l <= m /\ m < h
    BY ONLY <1>1, <1>4, <2>1, <2>2, <2>3
  <2>5. j \in DOMAIN code /\ m \in DOMAIN code
    BY <1>1, <1>3, <2>4, SpanDomain
  <2> QED BY <1>7, <1>h, <2>1, <2>3, <2>4, <2>5
<1> QED BY <1>6, <1>7

\* The conditions of loops.
LEMMA LoopPoints ==
  ASSUME NEW lo, NEW hi, NEW lab, NEW brk, Final(lo, hi, lab, brk), NEW n \in DOMAIN tree,
         tree[n].kind \in {"while", "until", "for"},
         NEW i \in DOMAIN code, code[i].op \in PointOps,
         lo[<<"cond", n, 0>>] <= i, i < hi[<<"cond", n, 0>>]
  PROVE  PointFollows(i)
<1>1. Shape /\ LabelsPlacedOnce /\ n # 0 /\ IsBlock(n, 0)
  BY DEF Final, Shape, IsBlock, Loops
<1>2. PICK l, h, k : l = lo[<<"cond", n, 0>>] /\ h = hi[<<"cond", n, 0>>] /\ k = <<"cond", n, 0>>
  OBVIOUS
<1>3. /\ code[i] = Instr("eval", n, 0)
      /\ i + 1 \in DOMAIN code /\ code[i + 1] = IfEq(CondLabel(n, 0, lab))
      /\ h = Pos(lo, Following(k))
      /\ tree[n].kind # "for" => i + 2 = h
      /\ tree[n].kind = "for" => i + 2 \in DOMAIN code /\ code[i + 2] = Goto(lab[n].start)
  <2>1. 0 \in Nat /\ l <= i /\ i < h
    BY <1>2
  <2> QED BY <1>2, <2>1, CondPoint
<1>4. /\ CodeNext(i, TRUE) = CodePoint(i + 2)
      /\ CodeNext(i, FALSE) = CodePoint(Target(CondLabel(n, 0, lab)))
  BY <1>1, <1>3, EvalNext
<1>5. CodePoint(lo[<<"in", n, 0>>]) = SourcePoint(StartBlock(n, 0))
  BY <1>1, IntoBlock
<1>6. CASE tree[n].kind = "while"
  <2>1. h = lo[<<"in", n, 0>>]
    BY <1>2, <1>3, <1>6 DEF Following, Pos
  <2>2. CodeNext(i, TRUE) = SourcePoint(StartBlock(n, 0))
    BY <1>3, <1>4, <1>5, <1>6, <2>1
  <2>3. CodeNext(i, FALSE) = SourcePoint(After(n))
    BY <1>4, <1>6, LoopEnd DEF CondLabel
  <2>4. /\ SourceNext("eval", n, 0, TRUE) = SourcePoint(StartBlock(n, 0))
        /\ SourceNext("eval", n, 0, FALSE) = SourcePoint(After(n))
    BY <1>6 DEF SourceNext
  <2> QED BY <1>3, <2>2, <2>3, <2>4, TwoOutcomes
<1>7. CASE tree[n].kind = "for"
  <2>1. PICK t, v : t = lo[<<"in", n, 0>>] /\ v = hi[<<"in", n, 0>>]
    OBVIOUS
  <2>2. Span(t, v, lo, NextPart(n, 0, 0)) /\ InCode(n, 0, t, v, lab)
    BY <1>1, <2>1, InAt
  <2>3. v = t + 1 /\ code[t] = Label(lab[n].start)
    BY <1>1, <1>7, <2>2 DEF InCode
  <2>4. t \in DOMAIN code
    BY <1>1, <2>2, <2>3, SpanDomain DEF Span
  <2>5. CodePoint(i + 2) = CodePoint(t)
    <3>1. Target(lab[n].start) = t
      BY <1>1, <2>3, <2>4, TargetIs
    <3>2. PICK j : j = i + 2
      OBVIOUS
    <3>3. j \in DOMAIN code /\ code[j] = Goto(lab[n].start)
      BY <1>3, <1>7, <3>2
    <3> QED BY <1>1, <3>1, <3>2, <3>3, OverGoto
  <2>6. CodeNext(i, TRUE) = SourcePoint(StartBlock(n, 0))
    BY <1>4, <1>5, <2>1, <2>5
  <2>7. CodeNext(i, FALSE) = SourcePoint(After(n))
    BY <1>4, <1>7, LoopEnd DEF CondLabel
  <2>8. /\ SourceNext("eval", n, 0, TRUE) = SourcePoint(StartBlock(n, 0))
        /\ SourceNext("eval", n, 0, FALSE) = SourcePoint(After(n))
    BY <1>7 DEF SourceNext
  <2> QED BY <1>3, <2>6, <2>7, <2>8, TwoOutcomes
<1>8. CASE tree[n].kind = "until"
  <2>1. Following(k) = Behind(n)
    BY <1>2, <1>8 DEF Following
  <2>2. CodeNext(i, TRUE) = SourcePoint(After(n))
    BY <1>3, <1>4, <1>8, <2>1, AfterAgrees
  <2>k. tree[n].kind \in {"while", "until", "infinite"}
    BY <1>8
  <2>3. PICK t \in DOMAIN code :
           /\ code[t] = Label(lab[n].start) /\ t = lo[<<"enter", n, 0>>]
           /\ tree[n].kind = "while" => t + 1 = lo[<<"cond", n, 0>>]
           /\ tree[n].kind # "while" => t + 1 = hi[<<"in", n, 0>>]
    BY ONLY Final(lo, hi, lab, brk), n \in DOMAIN tree, <2>k, LoopStart
  <2>4. code[t].op = "label" /\ t + 1 = hi[<<"in", n, 0>>]
    BY <1>8, <2>3 DEF Label
  <2>5. Target(lab[n].start) = t
    BY <1>1, <2>3, TargetIs
  <2>6. CodePoint(t) = CodePoint(t + 1)
    BY <1>1, <2>4, OverLabel
  <2>7. SourcePoint(StartBlock(n, 0)) = CodePoint(hi[<<"in", n, 0>>])
    BY <1>1, BlockAgrees
  <2>8. CodeNext(i, FALSE) = SourcePoint(StartBlock(n, 0))
    BY <1>4, <1>8, <2>4, <2>5, <2>6, <2>7 DEF CondLabel
  <2>9. /\ SourceNext("eval", n, 0, TRUE) = SourcePoint(After(n))
        /\ SourceNext("eval", n, 0, FALSE) = SourcePoint(StartBlock(n, 0))
    BY <1>8 DEF SourceNext
  <2> QED BY <1>3, <2>2, <2>8, <2>9, TwoOutcomes
<1> QED BY <1>6, <1>7, <1>8

\* Where a false condition of an if leads.
LEMMA IfElse ==
  ASSUME NEW lo, NEW hi, NEW lab, NEW brk, Final(lo, hi, lab, brk), NEW n \in DOMAIN tree,
         tree[n].kind = "if", NEW b \in Nat, b <= tree[n].elseIfs
  PROVE  CodePoint(Target(CondLabel(n, b, lab))) = SourceNext("eval", n, b, FALSE)
<1>1. /\ Shape /\ LabelsPlacedOnce /\ n # 0
      /\ tree[n].elseIfs \in Nat /\ tree[n].hasElse \in BOOLEAN
  BY DEF Final, Shape
<1>2. SourceNext("eval", n, b, FALSE)
        = IF b < tree[n].elseIfs THEN Point("eval", n, b + 1)
          ELSE SourcePoint(IF tree[n].hasElse THEN StartBlock(n, b + 1) ELSE After(n))
  BY DEF SourceNext
<1>3. CASE b + 1 < Branches(tree[n])
  <2>1. PICK l, h, k : l = lo[<<"out", n, b>>] /\ h = hi[<<"out", n, b>>] /\ k = <<"out", n, b>>
    OBVIOUS
  <2>b. IsBlock(n, b)
    <3>1. b < Branches(tree[n])
      BY <1>1, <1>3 DEF Branches
    <3> QED BY <3>1 DEF IsBlock
  <2>2. Span(l, h, lo, Following(k)) /\ OutCode(n, b, l, h, lab, brk)
    BY <1>1, <2>1, <2>b, OutAt
  <2>3. h = l + 2 /\ code[l + 1] = Label(lab[n].conds[b + 2])
    BY <1>3, <2>2 DEF OutCode
  <2>4. l \in Nat /\ h \in Nat /\ h = Pos(lo, Following(k))
    BY <2>2 DEF Span
  <2>5. PICK t : t = l + 1
    OBVIOUS
  <2>6. t \in Int /\ l <= t /\ t < h /\ t + 1 = h
    BY ONLY <2>3, <2>4, <2>5
  <2>7. t \in DOMAIN code
    BY <1>1, <2>2, <2>6, SpanDomain
  <2>8. code[t] = Label(lab[n].conds[b + 2]) /\ code[t].op = "label"
    BY <2>3, <2>5 DEF Label
  <2>9. Target(CondLabel(n, b, lab)) = t
    <3>1. CondLabel(n, b, lab) = lab[n].conds[b + 2]
      BY <1>3 DEF CondLabel
    <3> QED BY <1>1, <2>7, <2>8, <3>1, TargetIs
  <2>10. CodePoint(t) = CodePoint(h)
    BY <1>1, <2>6, <2>7, <2>8, OverLabel
  <2>11. b # Branches(tree[n]) - 1
    BY <1>1, <1>3 DEF Branches
  <2>12. CASE b < tree[n].elseIfs
    <3>1. b + 1 \in Nat /\ b + 1 <= tree[n].elseIfs
      BY ONLY <1>1, <2>12, b \in Nat
    <3>2. Following(k) = <<"cond", n, b + 1>>
      BY <2>1, <2>11, <3>1 DEF Following
    <3>3. PICK c : c = b + 1
      OBVIOUS
    <3>4. h = lo[<<"cond", n, c>>]
      BY <2>4, <3>2, <3>3 DEF Pos
    <3>5. CodePoint(h) = Point("eval", n, c)
      BY <3>1, <3>3, <3>4, ToCondition
    <3> QED BY <1>2, <2>9, <2>10, <2>12, <3>3, <3>5
  <2>13. CASE ~(b < tree[n].elseIfs)
    <3>1. b = tree[n].elseIfs /\ ~(b + 1 <= tree[n].elseIfs)
      BY <1>1, <2>13
    <3>2. tree[n].hasElse /\ b + 1 < Branches(tree[n])
      BY <1>1, <1>3, <3>1 DEF Branches
    <3>3. PICK c : c = b + 1
      OBVIOUS
    <3>4. Following(k) = <<"in", n, c>>
      BY <2>1, <2>11, <3>1, <3>3 DEF Following
    <3>5. h = lo[<<"in", n, c>>]
      BY <2>4, <3>4 DEF Pos
    <3>6. IsBlock(n, c)
      BY <3>2, <3>3 DEF IsBlock
    <3>7. CodePoint(h) = SourcePoint(StartBlock(n, c))
      BY <3>5, <3>6, IntoBlock
    <3> QED BY <1>2, <2>9, <2>10, <2>13, <3>2, <3>3, <3>7
  <2> QED BY <2>12, <2>13
<1>4. CASE ~(b + 1 < Branches(tree[n]))
  <2>1. ~(b < tree[n].elseIfs) /\ ~tree[n].hasElse
    BY <1>1, <1>4 DEF Branches
  <2>2. SourceNext("eval", n, b, FALSE) = SourcePoint(After(n))
    BY <1>2, <2>1
  <2>3. PICK t \in DOMAIN code : code[t] = Label(lab[n].end) /\ t + 1 = Pos(lo, Behind(n))
    BY IfEnd
  <2>4. CondLabel(n, b, lab) = lab[n].end
    BY <1>4 DEF CondLabel
  <2>5. Target(CondLabel(n, b, lab)) = t
    BY <1>1, <2>3, <2>4, TargetIs
  <2>6. CodePoint(t) = CodePoint(t + 1)
    <3>1. code[t].op = "label"
      BY <2>3 DEF Label
    <3> QED BY <1>1, <3>1, OverLabel
  <2>7. SourcePoint(After(n)) = CodePoint(Pos(lo, Behind(n)))
    BY AfterAgrees
  <2> QED BY <2>2, <2>3, <2>5, <2>6, <2>7
<1> QED BY <1>3, <1>4

\* The conditions of ifs.
LEMMA IfPoints ==
  ASSUME NEW lo, NEW hi, NEW lab, NEW brk, Final(lo, hi, lab, brk), NEW n \in DOMAIN tree,
         tree[n].kind = "if", NEW b \in Nat, b <= tree[n].elseIfs,
         NEW i \in DOMAIN code, code[i].op \in PointOps,
         lo[<<"cond", n, b>>] <= i, i < hi[<<"cond", n, b>>]
  PROVE  PointFollows(i)
<1>1. Shape /\ n # 0 /\ tree[n].elseIfs \in Nat /\ tree[n].hasElse \in BOOLEAN
  BY DEF Final, Shape
<1>b. IsBlock(n, b)
  <2>1. b < Branches(tree[n])
    BY <1>1 DEF Branches
  <2> QED BY <2>1 DEF IsBlock
<1>2. PICK l, h, k : l = lo[<<"cond", n, b>>] /\ h = hi[<<"cond", n, b>>] /\ k = <<"cond", n, b>>
  OBVIOUS
<1>3. /\ code[i] = Instr("eval", n, b)
      /\ i + 1 \in DOMAIN code /\ code[i + 1] = IfEq(CondLabel(n, b, lab))
      /\ h = Pos(lo, Following(k))
      /\ tree[n].kind # "for" => i + 2 = h
      /\ tree[n].kind = "for" => i + 2 \in DOMAIN code /\ code[i + 2] = Goto(lab[n].start)
  <2>1. l <= i /\ i < h
    BY <1>2
  <2> QED BY <1>2, <2>1, CondPoint
<1>4. /\ CodeNext(i, TRUE) = CodePoint(i + 2)
      /\ CodeNext(i, FALSE) = CodePoint(Target(CondLabel(n, b, lab)))
  BY <1>1, <1>3, EvalNext
<1>5. CodePoint(lo[<<"in", n, b>>]) = SourcePoint(StartBlock(n, b))
  BY <1>b, IntoBlock
<1>6. h = lo[<<"in", n, b>>]
  BY <1>2, <1>3 DEF Following, Pos
<1>7. SourceNext("eval", n, b, TRUE) = SourcePoint(StartBlock(n, b))
  BY DEF SourceNext
<1>8. CodeNext(i, TRUE) = SourceNext("eval", n, b, TRUE)
  BY <1>3, <1>4, <1>5, <1>6, <1>7
<1>9. CodeNext(i, FALSE) = SourceNext("eval", n, b, FALSE)
  BY <1>4, IfElse
<1> QED BY <1>3, <1>8, <1>9, TwoOutcomes

\* No point is where a block begins or ends.
LEMMA NoPointAtBlock ==
  ASSUME NEW lo, NEW hi, NEW lab, NEW brk, Final(lo, hi, lab, brk), NEW n, NEW b, IsBlock(n, b),
         NEW i \in DOMAIN code, code[i].op \in PointOps
  PROVE  /\ ~(lo[<<"in", n, b>>] <= i /\ i < hi[<<"in", n, b>>])
         /\ n # 0 => ~(lo[<<"out", n, b>>] <= i /\ i < hi[<<"out", n, b>>])
<1>1. Shape /\ i \in Nat /\ code[i].op \notin {"label", "goto"}
  BY DEF Final, Shape, PointOps
<1>2. ASSUME NEW l, NEW h, l = lo[<<"in", n, b>>], h = hi[<<"in", n, b>>], l <= i, i < h
      PROVE  FALSE
  <2>1. Span(l, h, lo, NextPart(n, b, 0)) /\ InCode(n, b, l, h, lab)
    BY <1>2, InAt
  <2>2. l \in Nat /\ h \in Nat
    BY <2>1 DEF Span
  <2>3. h = l \/ (h = l + 1 /\ code[l].op = "label")
    BY <2>1 DEF InCode, Label
  <2>4. i = l /\ h = l + 1
    BY ONLY <1>1, <1>2, <2>2, <2>3
  <2> QED BY ONLY <1>1, <2>2, <2>3, <2>4
<1>3. ASSUME n # 0, NEW l, NEW h, l = lo[<<"out", n, b>>], h = hi[<<"out", n, b>>],
             l <= i, i < h
      PROVE  FALSE
  <2>1. Span(l, h, lo, Following(<<"out", n, b>>)) /\ OutCode(n, b, l, h, lab, brk)
    BY <1>3, OutAt
  <2>2. l \in Nat /\ h \in Nat
    BY <2>1 DEF Span
  <2>3. tree[n].kind \in {"while", "for", "infinite", "until", "if"}
    BY <1>3 DEF IsBlock, Loops
  <2>4. \/ /\ h = l + 3 /\ code[l].op = "goto" /\ code[l + 1].op = "label"
           /\ code[h - 1].op = "label"
        \/ h = l + 2 /\ code[l].op = "goto" /\ code[h - 1].op = "label"
        \/ h = l + 2 /\ code[l].op = "goto" /\ code[l + 1].op = "label"
        \/ h = l + 1 /\ code[h - 1].op = "label"
    BY <2>1, <2>3 DEF OutCode, Loops, Label, Goto
  <2>5. i = l \/ i = l + 1 \/ i = h - 1
    BY ONLY <1>1, <1>3, <2>2, <2>4
  <2>6. /\ h = l + 2 => h - 1 = l + 1
        /\ h = l + 1 => h - 1 = l /\ i = l
    BY ONLY <1>1, <1>3, <2>2
  <2> QED BY ONLY <1>1, <2>4, <2>5, <2>6
<1> QED BY <1>2, <1>3

LEMMA PointsFollow ==
  ASSUME NEW lo, NEW hi, NEW lab, NEW brk, Final(lo, hi, lab, brk),
         NEW i \in DOMAIN code, code[i].op \in PointOps
  PROVE  PointFollows(i)
<1>1. PICK k \in Parts : IsPart(k) /\ lo[k] <= i /\ i < hi[k]
  BY DEF Final, Finished
<1>2. PICK t, n, b : t = k[1] /\ n = k[2] /\ b = k[3]
  OBVIOUS
<1>3. k = <<t, n, b>> /\ n \in Nat /\ b \in Nat
  BY <1>2, PartFields
<1>4. lo[<<t, n, b>>] <= i /\ i < hi[<<t, n, b>>]
  BY <1>1, <1>3
<1>5. 0 \notin DOMAIN tree
  BY DEF Final, Shape
<1>6. \/ t = "in" /\ n = 0 /\ b = 0
      \/ n \in DOMAIN tree /\ t = "enter" /\ b = 0
      \/ n \in DOMAIN tree /\ t = "cond" /\ tree[n].kind = "if" /\ b <= tree[n].elseIfs
      \/ n \in DOMAIN tree /\ t = "cond" /\ tree[n].kind \in {"while", "until", "for"} /\ b = 0
      \/ n \in DOMAIN tree /\ t = "update" /\ tree[n].kind = "for" /\ b = 0
      \/ n \in DOMAIN tree /\ t \in {"in", "out"} /\ tree[n].kind = "if" /\ b < Branches(tree[n])
      \/ n \in DOMAIN tree /\ t \in {"in", "out"} /\ tree[n].kind \in Loops /\ b = 0
  BY <1>1, <1>2 DEF IsPart
<1>7. CASE t = "in" /\ n = 0 /\ b = 0
  <2>1. IsBlock(n, b)
    BY <1>7 DEF IsBlock
  <2> QED BY <1>4, <1>7, <2>1, NoPointAtBlock
<1>8. CASE n \in DOMAIN tree /\ t = "enter" /\ b = 0
  BY <1>4, <1>8, EnterPoints
<1>9. CASE n \in DOMAIN tree /\ t = "cond" /\ tree[n].kind = "if" /\ b <= tree[n].elseIfs
  BY <1>3, <1>4, <1>9, IfPoints
<1>10. CASE n \in DOMAIN tree /\ t = "cond" /\ tree[n].kind \in {"while", "until", "for"} /\ b = 0
  BY <1>4, <1>10, LoopPoints
<1>11. CASE n \in DOMAIN tree /\ t = "update" /\ tree[n].kind = "for" /\ b = 0
  BY <1>4, <1>11, UpdatePoints
<1>12. CASE n \in DOMAIN tree /\ t \in {"in", "out"} /\ tree[n].kind = "if"
            /\ b < Branches(tree[n])
  <2>1. IsBlock(n, b) /\ n # 0
    BY <1>3, <1>5, <1>12 DEF IsBlock
  <2> QED BY <1>4, <1>12, <2>1, NoPointAtBlock
<1>13. CASE n \in DOMAIN tree /\ t \in {"in", "out"} /\ tree[n].kind \in Loops /\ b = 0
  <2>1. IsBlock(n, b) /\ n # 0
    BY <1>3, <1>5, <1>13 DEF IsBlock
  <2> QED BY <1>4, <1>13, <2>1, NoPointAtBlock
<1> QED BY <1>6, <1>7, <1>8, <1>9, <1>10, <1>11, <1>12, <1>13

\* The control flow of the code of a finished function is that of its source.
LEMMA FollowInvFollows == IInv /\ FollowInv => CodeFollowsSource
<1> SUFFICES ASSUME IInv, FollowInv, FunctionDone, ~HasUntilBreak
             PROVE  /\ CodePoint(1) = SourcePoint(StartBlock(0, 0))
                    /\ \A i \in DOMAIN code : code[i].op \in PointOps => PointFollows(i)
  BY DEF CodeFollowsSource, PointFollows
<1>1. /\ Shape /\ Nested /\ LabelsPlacedOnce
      /\ \E lo, hi, lab, brk : Finished(lo, hi, lab, brk)
  BY FinishedHolds
<1>2. PICK lo, hi, lab, brk : Finished(lo, hi, lab, brk)
  BY <1>1
<1>3. Final(lo, hi, lab, brk)
  BY <1>1, <1>2 DEF Final
<1>4. CodePoint(1) = SourcePoint(StartBlock(0, 0))
  <2>1. IsBlock(0, 0)
    BY DEF IsBlock
  <2>2. InCode(0, 0, lo[<<"in", 0, 0>>], hi[<<"in", 0, 0>>], lab)
    BY <1>3, <2>1, InAt
  <2>3. hi[<<"in", 0, 0>>] = 1
    BY <2>2 DEF InCode
  <2> QED BY <1>3, <2>1, <2>3, BlockAgrees
<1> QED BY <1>3, <1>4, PointsFollow

\* From a function's entry, and from every condition, update and statement under
\* either outcome, the gotos and labels the generator emits lead to the point that
\* the source's structure leads to, whatever the nesting: an if with any
\* else-ifs, loops and their breaks, empty blocks, endless loops.
THEOREM ControlFlowAgrees == Spec => []CodeFollowsSource
<1>1. Spec => [](IInv /\ FollowInv)
  BY Followed
<1>2. IInv /\ FollowInv => CodeFollowsSource
  BY FollowInvFollows
<1> QED BY <1>1, <1>2, PTL

=============================================================================
