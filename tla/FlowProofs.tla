----------------------------- MODULE FlowProofs -----------------------------
(***************************************************************************)
(* Theorems of FlowGen, for programs of any size and nesting and           *)
(* expressions with any number of labels: the shape of the listener's      *)
(* state, the break stack, that no label is placed twice, and that every   *)
(* jump of a finished function has its target.                             *)
(***************************************************************************)
EXTENDS FlowLabels, FiniteSetTheorems, SequenceTheorems, TLAPS

-----------------------------------------------------------------------------
(* The invariant.  A label goes from the handler that generates it to the  *)
(* one that places it in a frame of open, or on breakLabels.  The frames   *)
(* and the stack owe the labels yet to be placed; no label is owed twice,  *)
(* or owed and placed; and a jump goes to a label that is one or the other.*)

Instruction ==
  [op : {"label", "goto", "ifeq", "pop", "simple", "valuecall", "return", "eval", "update"},
   arg : Int, sub : Nat]

LabelRecord ==
  [start : Int, end : Int, cond : Int, update : Int, conds : Seq(Int)]

FrameRecord ==
  [node : Nat, kind : Loops \cup {"if"}, next : {"cond", "update", "block", "body"},
   block : Nat, labels : LabelRecord]

NodeRecord ==
  [kind : Kinds, elseIfs : Nat, hasElse : BOOLEAN, parent : Nat, block : Nat]

\* An if frame keeps one label for each branch, and which one it is in.
\* A loop's labels are the numbers that follow one another.
FrameOK(frame) ==
  /\ frame.node \in DOMAIN tree /\ tree[frame.node].kind = frame.kind
  /\ frame.kind = "if" =>
       /\ frame.next # "update"
       /\ Len(frame.labels.conds) = Branches(tree[frame.node])
       /\ frame.block < Len(frame.labels.conds)
       /\ \A i \in DOMAIN frame.labels.conds :
            frame.labels.conds[i] = frame.labels.end + i
  /\ frame.kind # "if" => frame.block = 0
  /\ frame.kind = "while" =>
       /\ frame.next # "update"
       /\ frame.labels.end = frame.labels.start + 1
  /\ frame.kind = "infinite" => frame.next \in {"block", "body"}
  /\ frame.kind = "until" => frame.next # "update"
  /\ frame.kind = "for" =>
       /\ frame.labels.end = frame.labels.start + 1
       /\ frame.labels.cond = frame.labels.start + 2
       /\ frame.labels.update = frame.labels.start + 3

\* The labels a frame has for others to jump to.
Targets(frame) ==
  CASE frame.kind = "if"    -> {frame.labels.end} \cup {frame.labels.conds[i] :
                                                         i \in DOMAIN frame.labels.conds}
    [] frame.kind = "while" -> {frame.labels.start, frame.labels.end}
    [] frame.kind = "for"   -> {frame.labels.start, frame.labels.end,
                                frame.labels.cond, frame.labels.update}
    [] OTHER                -> {frame.labels.start}

\* Those it has yet to place.
UnplacedConds(frame) ==
  {i \in DOMAIN frame.labels.conds :
     i > frame.block + 1 \/ (frame.block = 0 /\ frame.next # "body")}

Owed(frame) ==
  CASE frame.kind = "if" ->
         {frame.labels.end} \cup {frame.labels.conds[i] : i \in UnplacedConds(frame)}
    [] frame.kind = "while" -> {frame.labels.end}
    [] frame.kind = "for" ->
         {frame.labels.end}
           \cup (IF frame.next = "cond" THEN {frame.labels.cond} ELSE {})
           \cup (IF frame.next \in {"cond", "update"} THEN {frame.labels.update} ELSE {})
           \cup (IF frame.next # "body" THEN {frame.labels.start} ELSE {})
    [] OTHER -> {}

OpenOwed == UNION {Owed(open[i]) : i \in DOMAIN open}
Breaks   == {breakLabels[k] : k \in DOMAIN breakLabels}
Live     == OpenOwed \cup Breaks

\* Where some instructions jump to.
Jumps(instructions) ==
  {instructions[i].arg : i \in {i \in DOMAIN instructions :
                                  instructions[i].op \in {"goto", "ifeq"}}}

Types ==
  /\ phase \in Phases
  /\ used.count \in Nat /\ used.kinds \subseteq Kinds \cup {"elseif"}
  /\ tree \in Seq(NodeRecord)
  /\ open \in Seq(FrameRecord)
  /\ labelCounter \in Nat
  /\ breakLabels \in Seq(Nat)
  /\ code \in Seq(Instruction)

TreeOK ==
  /\ \A n \in DOMAIN tree : tree[n].parent < n
  /\ \A i \in DOMAIN open : FrameOK(open[i])
  /\ \A i \in DOMAIN open \ {1} : tree[open[i].node].parent = open[i - 1].node
  /\ phase = "outside" => open = <<>>

FramesDisjoint ==
  \A i, j \in DOMAIN open : i # j => Owed(open[i]) \cap Owed(open[j]) = {}

BreaksDistinct ==
  \A k, l \in DOMAIN breakLabels : breakLabels[k] = breakLabels[l] => k = l

OwedOnce == FramesDisjoint /\ BreaksDistinct /\ OpenOwed \cap Breaks = {}

OwedNotPlaced ==
  /\ Placed(code) \cup Live \subseteq 0..(labelCounter - 1)
  /\ Placed(code) \cap Live = {}

TargetsExist ==
  /\ \A i \in DOMAIN open : Targets(open[i]) \subseteq Placed(code) \cup Live
  /\ Jumps(code) \subseteq Placed(code) \cup Live

IInv ==
  /\ Types /\ TreeOK /\ BreakStackMatchesLoops
  /\ OwedOnce /\ OwedNotPlaced /\ LabelsPlacedOnce /\ TargetsExist

-----------------------------------------------------------------------------
(* Pieces of code: the labels they place, each once, and the labels they   *)
(* jump to.                                                                *)

Distinct(instructions) ==
  \A i, j \in Places(instructions) : instructions[i].arg = instructions[j].arg => i = j

Piece(instructions, placed, jumps) ==
  /\ instructions \in Seq(Instruction)
  /\ Placed(instructions) = placed /\ Jumps(instructions) = jumps
  /\ Distinct(instructions)

\* No code places nothing and jumps nowhere.
LEMMA NoCode == Piece(<<>>, {}, {})
BY DEF Piece, Placed, Places, Jumps, Distinct

\* One instruction.
LEMMA OneInstruction ==
  ASSUME NEW a \in Instruction
  PROVE  Piece(<<a>>, IF a.op = "label" THEN {a.arg} ELSE {},
               IF a.op \in {"goto", "ifeq"} THEN {a.arg} ELSE {})
<1>1. <<a>> \in Seq(Instruction) /\ DOMAIN <<a>> = {1} /\ <<a>>[1] = a
  OBVIOUS
<1>2. Places(<<a>>) = IF a.op = "label" THEN {1} ELSE {}
  BY <1>1 DEF Places
<1>3. Placed(<<a>>) = IF a.op = "label" THEN {a.arg} ELSE {}
  BY <1>1, <1>2 DEF Placed
<1>4. Jumps(<<a>>) = IF a.op \in {"goto", "ifeq"} THEN {a.arg} ELSE {}
  BY <1>1 DEF Jumps
<1>5. Distinct(<<a>>)
  BY <1>2 DEF Distinct
<1> QED BY <1>1, <1>3, <1>4, <1>5 DEF Piece

\* Two pieces that place different labels, one after the other.
LEMMA TwoPieces ==
  ASSUME NEW s, NEW t, NEW P, NEW Q, NEW J, NEW K,
         Piece(s, P, J), Piece(t, Q, K), P \cap Q = {}
  PROVE  Piece(s \o t, P \cup Q, J \cup K)
<1>1. s \in Seq(Instruction) /\ t \in Seq(Instruction)
  BY DEF Piece
<1>2. /\ s \o t \in Seq(Instruction) /\ Len(s) \in Nat /\ Len(t) \in Nat
      /\ DOMAIN s = 1..Len(s) /\ DOMAIN t = 1..Len(t)
      /\ DOMAIN (s \o t) = 1..(Len(s) + Len(t))
      /\ \A i \in 1..Len(s) : (s \o t)[i] = s[i]
      /\ \A i \in 1..Len(t) :
           Len(s) + i \in DOMAIN (s \o t) /\ (s \o t)[Len(s) + i] = t[i]
  BY <1>1, ConcatProperties
<1>3. \A i \in DOMAIN (s \o t) :
        i \in DOMAIN s \/ \E j \in DOMAIN t : i = Len(s) + j
  <2> TAKE i \in DOMAIN (s \o t)
  <2>1. i <= Len(s) \/ i - Len(s) \in 1..Len(t)
    BY <1>2
  <2> QED BY <1>2, <2>1
<1>4. Placed(s \o t) = P \cup Q
  <2>1. Placed(s \o t) \subseteq P \cup Q
    BY <1>2, <1>3 DEF Piece, Placed, Places
  <2>2. P \subseteq Placed(s \o t)
    BY <1>2 DEF Piece, Placed, Places
  <2>3. Q \subseteq Placed(s \o t)
    <3>1. \A i \in Places(t) : Len(s) + i \in Places(s \o t)
      BY <1>2 DEF Places
    <3>2. ASSUME NEW i \in Places(t) PROVE t[i].arg \in Placed(s \o t)
      <4>1. (s \o t)[Len(s) + i] = t[i]
        BY <1>2 DEF Places
      <4> QED BY <3>1, <4>1 DEF Placed
    <3> QED BY <3>2 DEF Piece, Placed
  <2> QED BY <2>1, <2>2, <2>3
<1>5. Jumps(s \o t) = J \cup K
  <2>1. Jumps(s \o t) \subseteq J \cup K
    BY <1>2, <1>3 DEF Piece, Jumps
  <2>2. J \subseteq Jumps(s \o t)
    BY <1>2 DEF Piece, Jumps
  <2>3. K \subseteq Jumps(s \o t)
    <3> SUFFICES ASSUME NEW i \in DOMAIN t, t[i].op \in {"goto", "ifeq"}
                 PROVE  t[i].arg \in Jumps(s \o t)
      BY DEF Piece, Jumps
    <3>1. Len(s) + i \in DOMAIN (s \o t) /\ (s \o t)[Len(s) + i] = t[i]
      BY <1>2
    <3> QED BY <3>1 DEF Jumps
  <2> QED BY <2>1, <2>2, <2>3
<1>6. Distinct(s \o t)
  <2> SUFFICES ASSUME NEW i \in Places(s \o t), NEW j \in Places(s \o t),
                      (s \o t)[i].arg = (s \o t)[j].arg
               PROVE  i = j
    BY DEF Distinct
  <2>1. i \in DOMAIN (s \o t) /\ j \in DOMAIN (s \o t)
    BY DEF Places
  <2>2. CASE i \in DOMAIN s /\ j \in DOMAIN s
    BY <1>2, <2>2 DEF Piece, Distinct, Places
  <2>3. CASE \E k, l \in DOMAIN t : i = Len(s) + k /\ j = Len(s) + l
    BY <1>2, <2>3 DEF Piece, Distinct, Places
  <2>4. CASE i \in DOMAIN s /\ \E k \in DOMAIN t : j = Len(s) + k
    <3>1. PICK k \in DOMAIN t : j = Len(s) + k
      BY <2>4
    <3>2. t[k].op = "label" /\ t[k].arg = s[i].arg /\ s[i].op = "label"
      BY <1>2, <2>4, <3>1 DEF Places
    <3> QED BY <2>4, <3>2 DEF Piece, Placed, Places
  <2>5. CASE j \in DOMAIN s /\ \E k \in DOMAIN t : i = Len(s) + k
    <3>1. PICK k \in DOMAIN t : i = Len(s) + k
      BY <2>5
    <3>2. t[k].op = "label" /\ t[k].arg = s[j].arg /\ s[j].op = "label"
      BY <1>2, <2>5, <3>1 DEF Places
    <3> QED BY <2>5, <3>2 DEF Piece, Placed, Places
  <2> QED BY <1>3, <2>1, <2>2, <2>3, <2>4, <2>5
<1> QED BY <1>2, <1>4, <1>5, <1>6 DEF Piece

\* The instruction Label(l).
LEMMA LabelPiece ==
  ASSUME NEW l \in Int
  PROVE  Piece(<<Label(l)>>, {l}, {})
<1>1. /\ Label(l) \in Instruction /\ Label(l).op = "label" /\ Label(l).arg = l
  BY DEF Label, Instruction
<1>2. /\ (IF Label(l).op = "label" THEN {Label(l).arg} ELSE {}) = {l}
      /\ (IF Label(l).op \in {"goto", "ifeq"} THEN {Label(l).arg} ELSE {}) = {}
  BY <1>1
<1> QED BY <1>1, <1>2, OneInstruction

\* The instruction Goto(l).
LEMMA GotoPiece ==
  ASSUME NEW l \in Int
  PROVE  Piece(<<Goto(l)>>, {}, {l})
<1>1. /\ Goto(l) \in Instruction /\ Goto(l).op = "goto" /\ Goto(l).arg = l
  BY DEF Goto, Instruction
<1>2. /\ (IF Goto(l).op = "label" THEN {Goto(l).arg} ELSE {}) = {}
      /\ (IF Goto(l).op \in {"goto", "ifeq"} THEN {Goto(l).arg} ELSE {}) = {l}
  BY <1>1
<1> QED BY <1>1, <1>2, OneInstruction

\* The instruction IfEq(l).
LEMMA IfEqPiece ==
  ASSUME NEW l \in Int
  PROVE  Piece(<<IfEq(l)>>, {}, {l})
<1>1. /\ IfEq(l) \in Instruction /\ IfEq(l).op = "ifeq" /\ IfEq(l).arg = l
  BY DEF IfEq, Instruction
<1>2. /\ (IF IfEq(l).op = "label" THEN {IfEq(l).arg} ELSE {}) = {}
      /\ (IF IfEq(l).op \in {"goto", "ifeq"} THEN {IfEq(l).arg} ELSE {}) = {l}
  BY <1>1
<1> QED BY <1>1, <1>2, OneInstruction

\* Any other instruction.
LEMMA PlainPiece ==
  ASSUME NEW a \in Instruction, a.op \notin {"label", "goto", "ifeq"}
  PROVE  Piece(<<a>>, {}, {})
BY OneInstruction

\* Two instructions.
LEMMA PairPiece ==
  ASSUME NEW a, NEW b, NEW P, NEW Q, NEW J, NEW K,
         Piece(<<a>>, P, J), Piece(<<b>>, Q, K), P \cap Q = {}
  PROVE  Piece(<<a, b>>, P \cup Q, J \cup K)
<1>1. a \in Instruction /\ b \in Instruction
  <2>1. <<a>>[1] = a /\ <<b>>[1] = b /\ Len(<<a>>) = 1 /\ Len(<<b>>) = 1
    OBVIOUS
  <2>2. <<a>> \in Seq(Instruction) /\ <<b>> \in Seq(Instruction)
    BY DEF Piece
  <2> QED BY <2>1, <2>2, ElementOfSeq
<1>2. <<a, b>> = <<a>> \o <<b>>
  <2>1. <<a>> \in Seq(Instruction) /\ <<b>> \in Seq(Instruction)
        /\ <<a, b>> \in Seq(Instruction)
        /\ Len(<<a>>) = 1 /\ Len(<<b>>) = 1 /\ Len(<<a, b>>) = 2
        /\ <<a>>[1] = a /\ <<b>>[1] = b /\ <<a, b>>[1] = a /\ <<a, b>>[2] = b
    BY <1>1
  <2>2. /\ <<a>> \o <<b>> \in Seq(Instruction) /\ Len(<<a>> \o <<b>>) = 2
        /\ (<<a>> \o <<b>>)[1] = a /\ (<<a>> \o <<b>>)[2] = b
    BY <2>1, ConcatProperties
  <2>3. \A i \in 1..2 : <<a, b>>[i] = (<<a>> \o <<b>>)[i]
    BY <2>1, <2>2
  <2> QED BY <2>1, <2>2, <2>3, SeqEqual
<1>3. Piece(<<a>> \o <<b>>, P \cup Q, J \cup K)
  BY TwoPieces
<1> QED BY <1>2, <1>3

\* The code of an expression places the labels it generates.
LEMMA ExprPiece ==
  ASSUME NEW op \in {"simple", "eval", "update"}, NEW n \in Nat, NEW k \in Nat,
         NEW d \in Nat, labelCounter \in Nat
  PROVE  Piece(ExprCode(op, n, k, d), labelCounter..(labelCounter + d - 1), {})
<1> DEFINE s == [j \in 1..d |-> Label(labelCounter + j - 1)]
<1>1. \A j \in 1..d : Label(labelCounter + j - 1) \in Instruction
  BY DEF Label, Instruction
<1>2. s \in Seq(Instruction) /\ DOMAIN s = 1..d
  BY <1>1
<1>3. Places(s) = 1..d
  BY <1>2 DEF Places, Label
<1>4. Placed(s) = labelCounter..(labelCounter + d - 1)
  <2>1. \A j \in 1..d : s[j].arg = labelCounter + j - 1
    BY DEF Label
  <2> HIDE DEF s
  <2>2. ASSUME NEW l \in labelCounter..(labelCounter + d - 1)
        PROVE  \E j \in 1..d : s[j].arg = l
    <3>1. l - labelCounter + 1 \in 1..d
      OBVIOUS
    <3>2. s[l - labelCounter + 1].arg = labelCounter + (l - labelCounter + 1) - 1
      BY <2>1, <3>1
    <3> QED BY <3>1, <3>2
  <2>3. \A j \in 1..d : s[j].arg \in labelCounter..(labelCounter + d - 1)
    BY <2>1
  <2> QED BY <1>3, <2>2, <2>3 DEF Placed
<1>5. Jumps(s) = {}
  BY <1>2 DEF Jumps, Label
<1>6. Distinct(s)
  BY <1>2, <1>3 DEF Distinct, Label
<1>7. Piece(s, labelCounter..(labelCounter + d - 1), {})
  BY <1>2, <1>4, <1>5, <1>6 DEF Piece
<1>8. Piece(<<Instr(op, n, k)>>, {}, {})
  BY PlainPiece DEF Instr, Instruction
<1> HIDE DEF s
<1>9. Piece(s \o <<Instr(op, n, k)>>, labelCounter..(labelCounter + d - 1), {})
  BY <1>7, <1>8, TwoPieces
<1> QED BY <1>9 DEF s, ExprCode

-----------------------------------------------------------------------------
(* What the three ways to change open do to what is owed, and to the open  *)
(* loops; and the same for breakLabels.                                    *)

\* The innermost open statement is a frame, and what it owes is owed.
LEMMA TopFacts ==
  ASSUME open \in Seq(FrameRecord), open # <<>>
  PROVE  /\ Len(open) \in Nat /\ Len(open) >= 1 /\ DOMAIN open = 1..Len(open)
         /\ Len(open) \in DOMAIN open /\ Top \in FrameRecord
         /\ Owed(Top) \subseteq OpenOwed
<1>1. /\ Len(open) \in Nat /\ Len(open) >= 1 /\ DOMAIN open = 1..Len(open)
      /\ Len(open) \in DOMAIN open /\ Top \in FrameRecord
  BY EmptySeq, LenProperties, ElementOfSeq DEF Top
<1> QED BY <1>1 DEF OpenOwed, Top

\* Push: a new frame owes labels that no other frame owes.
LEMMA PushFrame ==
  ASSUME open \in Seq(FrameRecord), FramesDisjoint, NEW f \in FrameRecord,
         open' = Append(open, f), f.next # "body", Owed(f) \cap OpenOwed = {}
  PROVE  /\ open' \in Seq(FrameRecord) /\ Len(open') = Len(open) + 1
         /\ DOMAIN open' = 1..(Len(open) + 1)
         /\ \A i \in DOMAIN open : open'[i] = open[i]
         /\ open'[Len(open) + 1] = f
         /\ FramesDisjoint' /\ OpenOwed' = OpenOwed \cup Owed(f)
         /\ OpenLoops' = OpenLoops
<1>1. /\ open' \in Seq(FrameRecord) /\ Len(open) \in Nat /\ Len(open') = Len(open) + 1
      /\ DOMAIN open = 1..Len(open) /\ DOMAIN open' = 1..(Len(open) + 1)
      /\ \A i \in DOMAIN open : open'[i] = open[i]
      /\ open'[Len(open) + 1] = f
  BY AppendProperties
<1>2. DOMAIN open' = DOMAIN open \cup {Len(open) + 1}
  BY <1>1
<1>3. OpenOwed' = OpenOwed \cup Owed(f)
  BY <1>1, <1>2 DEF OpenOwed
<1>4. \A i \in DOMAIN open : Owed(open'[i]) \subseteq OpenOwed
  BY <1>1 DEF OpenOwed
<1>5. FramesDisjoint'
  BY <1>1, <1>2, <1>4 DEF FramesDisjoint
<1>6. OpenLoops' = OpenLoops
  BY <1>1, <1>2 DEF OpenLoops
<1> QED BY <1>1, <1>3, <1>5, <1>6

\* SetTop: the innermost frame owes less than before, or the same.
LEMMA ReplaceTop ==
  ASSUME open \in Seq(FrameRecord), open # <<>>, FramesDisjoint,
         NEW f \in FrameRecord, SetTop(f), Owed(f) \subseteq Owed(Top)
  PROVE  /\ open' \in Seq(FrameRecord) /\ Len(open') = Len(open)
         /\ DOMAIN open' = DOMAIN open
         /\ \A i \in DOMAIN open : i # Len(open) => open'[i] = open[i]
         /\ open'[Len(open)] = f
         /\ FramesDisjoint' /\ OpenOwed' = (OpenOwed \ Owed(Top)) \cup Owed(f)
         /\ OpenLoops' = (OpenLoops \ {Len(open)})
                           \cup {i \in {Len(open)} : f.kind \in Loops /\ f.next = "body"}
<1>1. /\ open' \in Seq(FrameRecord) /\ Len(open') = Len(open)
      /\ DOMAIN open' = DOMAIN open /\ Len(open) \in DOMAIN open
      /\ \A i \in DOMAIN open : i # Len(open) => open'[i] = open[i]
      /\ open'[Len(open)] = f
  BY ExceptSeq, TopFacts DEF SetTop
<1>2. \A i \in DOMAIN open : Owed(open'[i]) \subseteq Owed(open[i])
  BY <1>1 DEF Top
<1>3. FramesDisjoint'
  BY <1>1, <1>2 DEF FramesDisjoint
<1>4. \A i \in DOMAIN open : i # Len(open) => Owed(open[i]) \cap Owed(Top) = {}
  BY <1>1 DEF FramesDisjoint, Top
<1>5. OpenOwed' = (OpenOwed \ Owed(Top)) \cup Owed(f)
  <2>1. OpenOwed' \subseteq (OpenOwed \ Owed(Top)) \cup Owed(f)
    BY <1>1, <1>4 DEF OpenOwed
  <2>2. Owed(f) \subseteq OpenOwed'
    BY <1>1 DEF OpenOwed
  <2>3. OpenOwed \ Owed(Top) \subseteq OpenOwed'
    BY <1>1 DEF OpenOwed, Top
  <2> QED BY <2>1, <2>2, <2>3
<1>6. OpenLoops' = (OpenLoops \ {Len(open)})
                     \cup {i \in {Len(open)} : f.kind \in Loops /\ f.next = "body"}
  BY <1>1 DEF OpenLoops
<1> QED BY <1>1, <1>3, <1>5, <1>6

\* PopTop: what the innermost frame owed is owed no more.
LEMMA DropTop ==
  ASSUME open \in Seq(FrameRecord), open # <<>>, FramesDisjoint, PopTop
  PROVE  /\ open' \in Seq(FrameRecord) /\ DOMAIN open' = DOMAIN open \ {Len(open)}
         /\ \A i \in DOMAIN open' : open'[i] = open[i]
         /\ FramesDisjoint' /\ OpenOwed' = OpenOwed \ Owed(Top)
         /\ OpenLoops' = OpenLoops \ {Len(open)}
<1>1. /\ Len(open) \in Nat /\ Len(open) >= 1 /\ DOMAIN open = 1..Len(open)
      /\ \A i \in 1..(Len(open) - 1) : open[i] \in FrameRecord
  BY TopFacts, ElementOfSeq
<1>2. /\ open' \in Seq(FrameRecord) /\ Len(open') = Len(open) - 1
      /\ \A i \in 1..(Len(open) - 1) : open'[i] = open[i]
  <2>1. /\ open' \in Seq(FrameRecord)
        /\ Len(open') = IF 1 <= Len(open) - 1 THEN Len(open) - 1 - 1 + 1 ELSE 0
        /\ \A i \in 1..(Len(open) - 1 - 1 + 1) : open'[i] = open[1 + i - 1]
    BY <1>1, SubSeqProperties DEF PopTop
  <2>2. Len(open') = Len(open) - 1
    <3>1. CASE Len(open) = 1
      BY <2>1, <3>1
    <3>2. CASE Len(open) > 1
      <4>1. 1 <= Len(open) - 1
        BY <1>1, <3>2
      <4>2. Len(open') = Len(open) - 1 - 1 + 1
        BY <2>1, <4>1
      <4> QED BY <1>1, <4>2
    <3>3. Len(open) = 1 \/ Len(open) > 1
      BY <1>1
    <3> QED BY <3>1, <3>2, <3>3
  <2>3. ASSUME NEW i \in 1..(Len(open) - 1) PROVE open'[i] = open[i]
    <3>1. i \in 1..(Len(open) - 1 - 1 + 1) /\ 1 + i - 1 = i
      BY <1>1
    <3> QED BY <2>1, <3>1
  <2> QED BY <2>1, <2>2, <2>3
<1>3. DOMAIN open' = DOMAIN open \ {Len(open)} /\ DOMAIN open' = 1..(Len(open) - 1)
  <2>1. DOMAIN open' = 1..(Len(open) - 1)
    BY <1>2, LenProperties
  <2> QED BY <1>1, <2>1
<1>4. \A i \in DOMAIN open' : Owed(open[i]) \cap Owed(Top) = {}
  BY <1>1, <1>3 DEF FramesDisjoint, Top
<1>5. OpenOwed' = OpenOwed \ Owed(Top)
  <2>1. OpenOwed' \subseteq OpenOwed \ Owed(Top)
    BY <1>2, <1>3, <1>4 DEF OpenOwed
  <2>2. OpenOwed \ Owed(Top) \subseteq OpenOwed'
    BY <1>2, <1>3 DEF OpenOwed, Top
  <2> QED BY <2>1, <2>2
<1>6. FramesDisjoint'
  BY <1>2, <1>3 DEF FramesDisjoint
<1>7. OpenLoops' = OpenLoops \ {Len(open)}
  BY <1>2, <1>3 DEF OpenLoops
<1> QED BY <1>2, <1>3, <1>5, <1>6, <1>7

\* A loop's block pushes a label that is not on breakLabels.
LEMMA PushBreak ==
  ASSUME breakLabels \in Seq(Nat), BreaksDistinct, NEW l \in Nat, l \notin Breaks,
         breakLabels' = Append(breakLabels, l)
  PROVE  /\ breakLabels' \in Seq(Nat) /\ Len(breakLabels') = Len(breakLabels) + 1
         /\ BreaksDistinct' /\ Breaks' = Breaks \cup {l}
<1>1. /\ breakLabels' \in Seq(Nat) /\ Len(breakLabels) \in Nat
      /\ Len(breakLabels') = Len(breakLabels) + 1
      /\ DOMAIN breakLabels = 1..Len(breakLabels)
      /\ DOMAIN breakLabels' = 1..(Len(breakLabels) + 1)
      /\ \A k \in DOMAIN breakLabels : breakLabels'[k] = breakLabels[k]
      /\ breakLabels'[Len(breakLabels) + 1] = l
  BY AppendProperties
<1>2. DOMAIN breakLabels' = DOMAIN breakLabels \cup {Len(breakLabels) + 1}
  BY <1>1
<1>3. Breaks' = Breaks \cup {l}
  BY <1>1, <1>2 DEF Breaks
<1>4. BreaksDistinct'
  BY <1>1, <1>2 DEF BreaksDistinct, Breaks
<1> QED BY <1>1, <1>3, <1>4

\* Its end pops one, and no other break label has that number.
LEMMA PopBreak ==
  ASSUME breakLabels \in Seq(Nat), breakLabels # <<>>, BreaksDistinct,
         breakLabels' = BreakLabelsPopped
  PROVE  /\ breakLabels' \in Seq(Nat) /\ Len(breakLabels') = Len(breakLabels) - 1
         /\ breakLabels[Len(breakLabels)] \in Breaks
         /\ breakLabels[Len(breakLabels)] \in Nat
         /\ BreaksDistinct' /\ Breaks' = Breaks \ {breakLabels[Len(breakLabels)]}
<1>1. /\ Len(breakLabels) \in Nat /\ Len(breakLabels) >= 1
      /\ DOMAIN breakLabels = 1..Len(breakLabels)
      /\ \A i \in 1..Len(breakLabels) : breakLabels[i] \in Nat
  BY EmptySeq, LenProperties, ElementOfSeq
<1>2. /\ breakLabels' \in Seq(Nat) /\ Len(breakLabels') = Len(breakLabels) - 1
      /\ \A i \in 1..(Len(breakLabels) - 1) : breakLabels'[i] = breakLabels[i]
  <2>1. /\ breakLabels' \in Seq(Nat)
        /\ Len(breakLabels') = IF 1 <= Len(breakLabels) - 1
                               THEN Len(breakLabels) - 1 - 1 + 1 ELSE 0
        /\ \A i \in 1..(Len(breakLabels) - 1 - 1 + 1) :
             breakLabels'[i] = breakLabels[1 + i - 1]
    BY <1>1, SubSeqProperties DEF BreakLabelsPopped
  <2>2. Len(breakLabels') = Len(breakLabels) - 1
    <3>1. CASE Len(breakLabels) = 1
      BY <2>1, <3>1
    <3>2. CASE Len(breakLabels) > 1
      <4>1. 1 <= Len(breakLabels) - 1
        BY <1>1, <3>2
      <4>2. Len(breakLabels') = Len(breakLabels) - 1 - 1 + 1
        BY <2>1, <4>1
      <4> QED BY <1>1, <4>2
    <3>3. Len(breakLabels) = 1 \/ Len(breakLabels) > 1
      BY <1>1
    <3> QED BY <3>1, <3>2, <3>3
  <2>3. ASSUME NEW i \in 1..(Len(breakLabels) - 1) PROVE breakLabels'[i] = breakLabels[i]
    <3>1. i \in 1..(Len(breakLabels) - 1 - 1 + 1) /\ 1 + i - 1 = i
      BY <1>1
    <3> QED BY <2>1, <3>1
  <2> QED BY <2>1, <2>2, <2>3
<1>3. DOMAIN breakLabels' = DOMAIN breakLabels \ {Len(breakLabels)}
      /\ DOMAIN breakLabels' = 1..(Len(breakLabels) - 1)
  <2>1. DOMAIN breakLabels' = 1..(Len(breakLabels) - 1)
    BY <1>2, LenProperties
  <2> QED BY <1>1, <2>1
<1>4. BreaksDistinct'
  BY <1>2, <1>3 DEF BreaksDistinct
<1>5. Breaks' = Breaks \ {breakLabels[Len(breakLabels)]}
  <2>1. \A k \in DOMAIN breakLabels :
          k # Len(breakLabels) => breakLabels[k] # breakLabels[Len(breakLabels)]
    BY <1>1 DEF BreaksDistinct
  <2>2. \A k \in DOMAIN breakLabels' : breakLabels'[k] = breakLabels[k]
    BY <1>2, <1>3
  <2> QED BY <1>1, <1>3, <2>1, <2>2 DEF Breaks
<1>6. breakLabels[Len(breakLabels)] \in Breaks /\ breakLabels[Len(breakLabels)] \in Nat
  BY <1>1 DEF Breaks
<1> QED BY <1>2, <1>4, <1>5, <1>6

\* The open loops are finitely many, so they can be counted.
LEMMA OpenLoopsFinite ==
  ASSUME open \in Seq(FrameRecord)
  PROVE  IsFiniteSet(OpenLoops) /\ Cardinality(OpenLoops) \in Nat
<1>1. Len(open) \in Nat /\ DOMAIN open = 1..Len(open) /\ IsFiniteSet(1..Len(open))
  BY FS_Interval
<1>2. OpenLoops \in SUBSET (1..Len(open))
  BY <1>1 DEF OpenLoops
<1> QED BY <1>1, <1>2, FS_Subset, FS_CardinalityType

-----------------------------------------------------------------------------
(* What a step does to the labels: it appends a piece of code, places what *)
(* is no longer owed, and owes what it generates and does not place.       *)

Fresh(n) == labelCounter..(labelCounter + n - 1)

\* New code, and the labels that are owed after it, keep the three conjuncts
\* about labels: P is what the code places, n how many numbers are generated.
LEMMA LabelStep ==
  ASSUME IInv, NEW new, NEW P, NEW J, Piece(new, P, J), Emit(new),
         NEW n \in Nat, labelCounter' = labelCounter + n,
         P \subseteq Live \cup Fresh(n), Live' \cup P = Live \cup Fresh(n),
         Live' \cap P = {},
         J \subseteq Placed(code) \cup Live \cup Fresh(n),
         \A i \in DOMAIN open' :
           Targets(open'[i]) \subseteq Placed(code) \cup Live \cup Fresh(n)
  PROVE  /\ code' \in Seq(Instruction) /\ labelCounter' \in Nat
         /\ OwedNotPlaced' /\ LabelsPlacedOnce' /\ TargetsExist'
<1>1. Piece(code, Placed(code), Jumps(code))
  BY DEF IInv, Types, LabelsPlacedOnce, Piece, Distinct
<1>2. labelCounter \in Nat /\ labelCounter' \in Nat
  BY DEF IInv, Types
<1>3. Placed(code) \cup Live \subseteq 0..(labelCounter - 1) /\ Placed(code) \cap Live = {}
  BY DEF IInv, OwedNotPlaced
<1>4. Placed(code) \cap P = {} /\ Placed(code) \cap Fresh(n) = {}
  BY <1>2, <1>3 DEF Fresh
<1>5. Piece(code', Placed(code) \cup P, Jumps(code) \cup J)
  BY <1>1, <1>4, TwoPieces DEF Emit
<1>6. /\ code' \in Seq(Instruction) /\ Placed(code)' = Placed(code) \cup P
      /\ Jumps(code)' = Jumps(code) \cup J /\ LabelsPlacedOnce'
  BY <1>5 DEF Piece, Placed, Places, Jumps, Distinct, LabelsPlacedOnce
<1>7. OwedNotPlaced'
  <2>1. Live \cup Fresh(n) \subseteq 0..(labelCounter' - 1)
    BY <1>2, <1>3 DEF Fresh
  <2>2. Placed(code) \subseteq 0..(labelCounter' - 1)
    BY <1>2, <1>3
  <2>3. Placed(code)' \cap Live' = {}
    BY <1>3, <1>4, <1>6
  <2> QED BY <1>6, <2>1, <2>2, <2>3 DEF OwedNotPlaced
<1>8. Placed(code)' \cup Live' = Placed(code) \cup Live \cup Fresh(n)
  BY <1>6
<1>9. TargetsExist'
  <2>1. Jumps(code) \subseteq Placed(code) \cup Live
    BY DEF IInv, TargetsExist
  <2> QED BY <1>6, <1>8, <2>1 DEF TargetsExist
<1> QED BY <1>2, <1>6, <1>7, <1>9

\* What a revealed statement does to the tree.
LEMMA RevealStep ==
  ASSUME IInv, NEW kind \in Kinds, NEW elseIfs \in Nat, NEW hasElse \in BOOLEAN,
         Reveal(kind, elseIfs, hasElse)
  PROVE  /\ phase = "inside" /\ phase' = phase
         /\ used'.count \in Nat /\ used'.kinds \subseteq Kinds \cup {"elseif"}
         /\ tree' \in Seq(NodeRecord) /\ Len(tree) \in Nat
         /\ DOMAIN tree = 1..Len(tree) /\ DOMAIN tree' = 1..(Len(tree) + 1)
         /\ \A n \in DOMAIN tree : tree'[n] = tree[n]
         /\ tree'[Len(tree) + 1] = Node(kind, elseIfs, hasElse)
         /\ \A n \in DOMAIN tree' : tree'[n].parent < n
         /\ open # <<>> => tree'[Len(tree) + 1].parent = Top.node
<1>1. phase = "inside" /\ phase' = phase /\ tree' = Append(tree, Node(kind, elseIfs, hasElse))
  BY DEF Reveal, AtStatement
<1>2. used'.count \in Nat /\ used'.kinds \subseteq Kinds \cup {"elseif"}
  BY DEF Reveal, IInv, Types
<1>3. tree \in Seq(NodeRecord) /\ open \in Seq(FrameRecord)
  BY DEF IInv, Types
<1>4. Len(tree) \in Nat /\ DOMAIN tree = 1..Len(tree)
  BY <1>3
<1>5. Node(kind, elseIfs, hasElse).parent \in 0..Len(tree)
  <2>1. CASE open = <<>>
    BY <1>4, <2>1 DEF Node
  <2>2. CASE open # <<>>
    <3>1. Len(open) \in DOMAIN open
      BY <1>3, <2>2, TopFacts
    <3>2. FrameOK(open[Len(open)])
      BY <3>1 DEF IInv, TreeOK
    <3>3. open[Len(open)].node \in 1..Len(tree)
      BY <1>4, <3>2 DEF FrameOK
    <3> QED BY <1>4, <2>2, <3>3 DEF Node
  <2> QED BY <2>1, <2>2
<1>6. Node(kind, elseIfs, hasElse) \in NodeRecord
  <2>1. CASE open = <<>>
    BY <2>1 DEF Node, NodeRecord
  <2>2. CASE open # <<>>
    <3>1. open[Len(open)].block \in Nat /\ open[Len(open)].node \in Nat
      BY <1>3, <2>2, TopFacts DEF Top, FrameRecord
    <3> QED BY <2>2, <3>1 DEF Node, NodeRecord
  <2> QED BY <2>1, <2>2
<1>7. /\ tree' \in Seq(NodeRecord) /\ DOMAIN tree' = 1..(Len(tree) + 1)
      /\ \A n \in DOMAIN tree : tree'[n] = tree[n]
      /\ tree'[Len(tree) + 1] = Node(kind, elseIfs, hasElse)
  BY <1>1, <1>3, <1>4, <1>6, AppendProperties
<1>8. \A n \in DOMAIN tree' : tree'[n].parent < n
  <2>1. \A n \in DOMAIN tree : tree[n].parent < n
    BY DEF IInv, TreeOK
  <2>2. tree'[Len(tree) + 1].parent < Len(tree) + 1
    BY <1>4, <1>5, <1>7
  <2>3. \A n \in DOMAIN tree' : n \in DOMAIN tree \/ n = Len(tree) + 1
    BY <1>4, <1>7
  <2> QED BY <1>7, <2>1, <2>2, <2>3
<1>9. open # <<>> => tree'[Len(tree) + 1].parent = Top.node
  BY <1>7 DEF Node, Top
<1> QED BY <1>1, <1>2, <1>4, <1>7, <1>8, <1>9

\* The frames that were open are as they were, in a larger tree.
LEMMA RevealKeepsFrames ==
  ASSUME IInv, DOMAIN tree \subseteq DOMAIN tree',
         \A n \in DOMAIN tree : tree'[n] = tree[n], NEW i \in DOMAIN open
  PROVE  /\ open[i].node \in DOMAIN tree
         /\ open'[i] = open[i] => FrameOK(open[i])'
<1>1. FrameOK(open[i])
  BY DEF IInv, TreeOK
<1>2. open[i].node \in DOMAIN tree /\ tree'[open[i].node] = tree[open[i].node]
  BY <1>1 DEF FrameOK
<1> QED BY <1>1, <1>2 DEF FrameOK, Branches

\* A statement that opens nothing.
LEMMA LeafStep ==
  ASSUME IInv, NEW kind \in Leaves, Reveal(kind, 0, FALSE), UNCHANGED <<open, breakLabels>>,
         NEW n \in Nat, labelCounter' = labelCounter + n,
         NEW new, NEW J, Piece(new, Fresh(n), J), Emit(new), J \subseteq Live
  PROVE  IInv'
<1>1. /\ phase = "inside" /\ phase' = phase
      /\ used'.count \in Nat /\ used'.kinds \subseteq Kinds \cup {"elseif"}
      /\ tree' \in Seq(NodeRecord) /\ DOMAIN tree \subseteq DOMAIN tree'
      /\ \A m \in DOMAIN tree : tree'[m] = tree[m]
      /\ \A m \in DOMAIN tree' : tree'[m].parent < m
  <2>1. kind \in Kinds /\ 0 \in Nat /\ FALSE \in BOOLEAN
    BY DEF Kinds
  <2>2. /\ phase = "inside" /\ phase' = phase
        /\ used'.count \in Nat /\ used'.kinds \subseteq Kinds \cup {"elseif"}
        /\ tree' \in Seq(NodeRecord) /\ Len(tree) \in Nat
        /\ DOMAIN tree = 1..Len(tree) /\ DOMAIN tree' = 1..(Len(tree) + 1)
        /\ \A m \in DOMAIN tree : tree'[m] = tree[m]
        /\ \A m \in DOMAIN tree' : tree'[m].parent < m
    BY <2>1, RevealStep
  <2> QED BY <2>2
<1>2. TreeOK'
  <2>1. \A i \in DOMAIN open' : FrameOK(open[i])'
    BY <1>1, RevealKeepsFrames
  <2>2. \A i \in DOMAIN open' \ {1} : tree'[open'[i].node].parent = open'[i - 1].node
    BY <1>1, RevealKeepsFrames DEF IInv, TreeOK
  <2> QED BY <1>1, <2>1, <2>2 DEF TreeOK
<1>3. BreakStackMatchesLoops' /\ OwedOnce' /\ Live' = Live
  <2>1. BreakStackMatchesLoops'
    BY DEF IInv, BreakStackMatchesLoops, OpenLoops
  <2>2. OpenOwed' = OpenOwed /\ Breaks' = Breaks
    BY DEF OpenOwed, Breaks
  <2>3. FramesDisjoint' /\ BreaksDistinct'
    BY DEF IInv, OwedOnce, FramesDisjoint, BreaksDistinct
  <2> QED BY <2>1, <2>2, <2>3 DEF IInv, OwedOnce, Live
<1>4. Live \cap Fresh(n) = {}
  BY DEF IInv, Types, OwedNotPlaced, Fresh
<1>5. \A i \in DOMAIN open' :
        Targets(open'[i]) \subseteq Placed(code) \cup Live \cup Fresh(n)
  BY DEF IInv, TargetsExist
<1>6. /\ code' \in Seq(Instruction) /\ labelCounter' \in Nat
      /\ OwedNotPlaced' /\ LabelsPlacedOnce' /\ TargetsExist'
  BY <1>3, <1>4, <1>5, LabelStep
<1>7. Types'
  BY <1>1, <1>6 DEF IInv, Types
<1> QED BY <1>2, <1>3, <1>6, <1>7 DEF IInv

\* A statement that opens a frame f, and places some of the labels it makes.
LEMMA PushStep ==
  ASSUME IInv, NEW kind \in Loops \cup {"if"}, NEW elseIfs \in Nat, NEW hasElse \in BOOLEAN,
         Reveal(kind, elseIfs, hasElse), UNCHANGED breakLabels,
         NEW f \in FrameRecord, open' = Append(open, f), f.next # "body",
         f.node = Len(tree) + 1,
         /\ Len(tree) + 1 \in DOMAIN tree'
         /\ tree'[Len(tree) + 1].kind = kind
         /\ Branches(tree'[Len(tree) + 1]) = 1 + elseIfs + (IF hasElse THEN 1 ELSE 0)
         => FrameOK(f)',
         NEW n \in Nat, labelCounter' = labelCounter + n,
         NEW new, NEW P, Piece(new, P, {}), Emit(new),
         P \cup Owed(f) = Fresh(n), P \cap Owed(f) = {}, Targets(f) \subseteq Fresh(n)
  PROVE  IInv'
<1>1. /\ phase = "inside" /\ phase' = phase
      /\ used'.count \in Nat /\ used'.kinds \subseteq Kinds \cup {"elseif"}
      /\ tree' \in Seq(NodeRecord) /\ Len(tree) \in Nat
      /\ DOMAIN tree = 1..Len(tree) /\ DOMAIN tree' = 1..(Len(tree) + 1)
      /\ \A m \in DOMAIN tree : tree'[m] = tree[m]
      /\ tree'[Len(tree) + 1] = Node(kind, elseIfs, hasElse)
      /\ \A m \in DOMAIN tree' : tree'[m].parent < m
      /\ open # <<>> => tree'[Len(tree) + 1].parent = Top.node
  <2>1. kind \in Kinds
    BY DEF Kinds
  <2> QED BY <2>1, RevealStep
<1>2. open \in Seq(FrameRecord) /\ FramesDisjoint /\ BreaksDistinct
      /\ OpenOwed \cap Breaks = {} /\ Live \cap Fresh(n) = {}
  BY DEF IInv, Types, OwedOnce, OwedNotPlaced, Fresh
<1>3. Owed(f) \cap OpenOwed = {}
  BY <1>2 DEF Live
<1>4. /\ open' \in Seq(FrameRecord) /\ Len(open') = Len(open) + 1
      /\ DOMAIN open' = 1..(Len(open) + 1)
      /\ \A i \in DOMAIN open : open'[i] = open[i]
      /\ open'[Len(open) + 1] = f
      /\ FramesDisjoint' /\ OpenOwed' = OpenOwed \cup Owed(f)
      /\ OpenLoops' = OpenLoops
  BY <1>2, <1>3, PushFrame
<1>5. Len(open) \in Nat /\ DOMAIN open = 1..Len(open)
  BY <1>2
<1>6. \A i \in DOMAIN open' : i \in DOMAIN open \/ i = Len(open) + 1
  BY <1>4, <1>5
<1>7. TreeOK'
  <2>1. DOMAIN tree \subseteq DOMAIN tree'
    BY <1>1
  <2>2. FrameOK(f)'
    BY <1>1 DEF Node, Branches
  <2>3. ASSUME NEW i \in DOMAIN open' PROVE FrameOK(open[i])'
    <3>1. CASE i \in DOMAIN open
      BY <1>1, <1>4, <2>1, <3>1, RevealKeepsFrames
    <3>2. CASE i = Len(open) + 1
      BY <1>4, <2>2, <3>2
    <3> QED BY <1>6, <3>1, <3>2
  <2>4. ASSUME NEW i \in DOMAIN open' \ {1}
        PROVE  tree'[open'[i].node].parent = open'[i - 1].node
    <3>1. CASE i \in DOMAIN open
      <4>1. i - 1 \in DOMAIN open
        BY <1>5, <3>1
      <4>2. tree[open[i].node].parent = open[i - 1].node
        BY <3>1 DEF IInv, TreeOK
      <4>3. open[i].node \in DOMAIN tree
        BY <1>1, <2>1, <3>1, RevealKeepsFrames
      <4> QED BY <1>1, <1>4, <3>1, <4>1, <4>2, <4>3
    <3>2. CASE i = Len(open) + 1
      <4>1. open # <<>> /\ Len(open) \in DOMAIN open /\ i - 1 = Len(open)
        BY <1>2, <1>5, <3>2
      <4>2. tree'[f.node].parent = Top.node
        BY <1>1, <4>1
      <4> QED BY <1>4, <3>2, <4>1, <4>2 DEF Top
    <3> QED BY <1>6, <3>1, <3>2
  <2>5. phase' # "outside"
    BY <1>1
  <2> QED BY <1>1, <2>3, <2>4, <2>5 DEF TreeOK
<1>8. BreakStackMatchesLoops'
  BY <1>4 DEF IInv, BreakStackMatchesLoops
<1>9. BreaksDistinct' /\ Breaks' = Breaks /\ Breaks \cap Owed(f) = {}
  BY <1>2 DEF BreaksDistinct, Breaks, Live
<1>10. OwedOnce'
  BY <1>2, <1>4, <1>9 DEF OwedOnce
<1>11. Live' = Live \cup Owed(f)
  BY <1>4, <1>9 DEF Live
<1>12. \A i \in DOMAIN open' :
         Targets(open'[i]) \subseteq Placed(code) \cup Live \cup Fresh(n)
  BY <1>4, <1>6 DEF IInv, TargetsExist
<1>13. /\ code' \in Seq(Instruction) /\ labelCounter' \in Nat
       /\ OwedNotPlaced' /\ LabelsPlacedOnce' /\ TargetsExist'
  <2>1. P \subseteq Live \cup Fresh(n) /\ Live' \cup P = Live \cup Fresh(n) /\ Live' \cap P = {}
    BY <1>2, <1>11
  <2> QED BY <1>12, <2>1, LabelStep
<1>14. Types'
  BY <1>1, <1>4, <1>13 DEF IInv, Types
<1> QED BY <1>7, <1>8, <1>10, <1>13, <1>14 DEF IInv

\* The loops a frame keeps open: itself, or none.
OpenLoop(frame) == IF frame.kind \in Loops /\ frame.next = "body" THEN 1 ELSE 0

\* The walker comes to a child of the innermost open statement, or leaves one:
\* breakLabels may gain a label that is generated, or lose its last.
LEMMA KeepTop ==
  ASSUME IInv, phase = "inside", open # <<>>, UNCHANGED <<phase, tree, used>>,
         NEW f \in FrameRecord, SetTop(f), f.node = Top.node, FrameOK(f),
         Owed(f) \subseteq Owed(Top), Targets(f) = Targets(Top),
         NEW n \in Nat, labelCounter' = labelCounter + n,
         breakLabels' \in Seq(Nat), BreaksDistinct',
         Breaks' \subseteq Breaks \cup Fresh(n),
         Len(breakLabels') = Len(breakLabels) - OpenLoop(Top) + OpenLoop(f),
         NEW new, NEW P, NEW J, Piece(new, P, J), Emit(new),
         P = (Owed(Top) \ Owed(f)) \cup (Breaks \ Breaks') \cup (Fresh(n) \ Breaks'),
         J \subseteq Placed(code) \cup Live \cup Fresh(n)
  PROVE  IInv'
<1>1. /\ open \in Seq(FrameRecord) /\ FramesDisjoint
      /\ OpenOwed \cap Breaks = {} /\ Live \cap Fresh(n) = {}
      /\ Len(breakLabels) \in Nat
  BY DEF IInv, Types, OwedOnce, OwedNotPlaced, Fresh
<1>2. /\ open' \in Seq(FrameRecord) /\ Len(open') = Len(open)
      /\ DOMAIN open' = DOMAIN open
      /\ \A i \in DOMAIN open : i # Len(open) => open'[i] = open[i]
      /\ open'[Len(open)] = f
      /\ FramesDisjoint' /\ OpenOwed' = (OpenOwed \ Owed(Top)) \cup Owed(f)
      /\ OpenLoops' = (OpenLoops \ {Len(open)})
                        \cup {i \in {Len(open)} : f.kind \in Loops /\ f.next = "body"}
  BY <1>1, ReplaceTop
<1>3. /\ Len(open) \in DOMAIN open /\ open[Len(open)] = Top /\ Owed(Top) \subseteq OpenOwed
  BY <1>1, TopFacts DEF Top
<1>4. TreeOK'
  <2>1. \A i \in DOMAIN open' : FrameOK(open[i])'
    <3>1. TAKE i \in DOMAIN open'
    <3>2. CASE i = Len(open)
      BY <1>2, <3>2 DEF FrameOK, Branches
    <3>3. CASE i # Len(open)
      <4>1. open'[i] = open[i] /\ FrameOK(open[i])
        BY <1>2, <3>3 DEF IInv, TreeOK
      <4> QED BY <4>1 DEF FrameOK, Branches
    <3> QED BY <3>2, <3>3
  <2>2. \A i \in DOMAIN open' : open'[i].node = open[i].node
    BY <1>2, <1>3
  <2>3. \A i \in DOMAIN open' \ {1} : i - 1 \in DOMAIN open'
    BY <1>1, <1>2
  <2> QED BY <1>2, <2>1, <2>2, <2>3 DEF IInv, TreeOK
<1>5. BreakStackMatchesLoops'
  <2>1. IsFiniteSet(OpenLoops) /\ Cardinality(OpenLoops) \in Nat
    BY <1>1, OpenLoopsFinite
  <2>2. IsFiniteSet(OpenLoops \ {Len(open)})
        /\ Cardinality(OpenLoops \ {Len(open)}) = Cardinality(OpenLoops) - OpenLoop(Top)
    <3>1. Len(open) \in OpenLoops <=> OpenLoop(Top) = 1
      BY <1>3 DEF OpenLoops, OpenLoop
    <3>2. OpenLoop(Top) \in {0, 1}
      BY DEF OpenLoop
    <3>3. CASE Len(open) \in OpenLoops
      BY <2>1, <3>1, <3>3, FS_RemoveElement
    <3>4. CASE Len(open) \notin OpenLoops
      <4>1. OpenLoop(Top) = 0
        BY <3>1, <3>2, <3>4
      <4>2. OpenLoops \ {Len(open)} = OpenLoops
        BY <3>4
      <4>3. Cardinality(OpenLoops) = Cardinality(OpenLoops) - OpenLoop(Top)
        BY <2>1, <4>1
      <4> QED BY <2>1, <4>2, <4>3
    <3> QED BY <3>3, <3>4
  <2>3. Cardinality(OpenLoops') = Cardinality(OpenLoops \ {Len(open)}) + OpenLoop(f)
    <3>1. CASE f.kind \in Loops /\ f.next = "body"
      <4>1. OpenLoops' = (OpenLoops \ {Len(open)}) \cup {Len(open)} /\ OpenLoop(f) = 1
        BY <1>2, <3>1 DEF OpenLoop
      <4> QED BY <2>2, <4>1, FS_AddElement
    <3>2. CASE ~(f.kind \in Loops /\ f.next = "body")
      <4>1. OpenLoops' = OpenLoops \ {Len(open)} /\ OpenLoop(f) = 0
        BY <1>2, <3>2 DEF OpenLoop
      <4>2. Cardinality(OpenLoops \ {Len(open)}) \in Nat
        BY <2>2, FS_CardinalityType
      <4> QED BY <4>1, <4>2
    <3> QED BY <3>1, <3>2
  <2>4. Len(breakLabels) = Cardinality(OpenLoops)
    BY DEF IInv, BreakStackMatchesLoops
  <2> QED BY <2>2, <2>3, <2>4 DEF BreakStackMatchesLoops
<1>6. OwedOnce'
  BY <1>1, <1>2, <1>3 DEF OwedOnce, Live
<1>7. P \subseteq Live \cup Fresh(n) /\ Live' \cup P = Live \cup Fresh(n) /\ Live' \cap P = {}
  BY <1>1, <1>2, <1>3 DEF Live
<1>8. \A i \in DOMAIN open' :
        Targets(open'[i]) \subseteq Placed(code) \cup Live \cup Fresh(n)
  BY <1>2, <1>3 DEF IInv, TargetsExist
<1>9. /\ code' \in Seq(Instruction) /\ labelCounter' \in Nat
      /\ OwedNotPlaced' /\ LabelsPlacedOnce' /\ TargetsExist'
  BY <1>7, <1>8, LabelStep
<1>10. Types'
  BY <1>2, <1>9 DEF IInv, Types
<1> QED BY <1>4, <1>5, <1>6, <1>9, <1>10 DEF IInv

\* The walker leaves the innermost open statement, which places all it owes.
LEMMA LeaveTop ==
  ASSUME IInv, phase = "inside", open # <<>>, UNCHANGED <<phase, tree, used>>, PopTop,
         NEW n \in Nat, labelCounter' = labelCounter + n,
         breakLabels' \in Seq(Nat), BreaksDistinct', Breaks' \subseteq Breaks,
         Len(breakLabels') = Len(breakLabels) - OpenLoop(Top),
         NEW new, NEW P, NEW J, Piece(new, P, J), Emit(new),
         P = Owed(Top) \cup (Breaks \ Breaks') \cup Fresh(n),
         J \subseteq Placed(code) \cup Live \cup Fresh(n)
  PROVE  IInv'
<1>1. /\ open \in Seq(FrameRecord) /\ FramesDisjoint
      /\ OpenOwed \cap Breaks = {} /\ Live \cap Fresh(n) = {}
  BY DEF IInv, Types, OwedOnce, OwedNotPlaced, Fresh
<1>2. /\ open' \in Seq(FrameRecord) /\ DOMAIN open' = DOMAIN open \ {Len(open)}
      /\ \A i \in DOMAIN open' : open'[i] = open[i]
      /\ FramesDisjoint' /\ OpenOwed' = OpenOwed \ Owed(Top)
      /\ OpenLoops' = OpenLoops \ {Len(open)}
  BY <1>1, DropTop
<1>3. /\ DOMAIN open = 1..Len(open) /\ Len(open) \in Nat /\ Len(open) \in DOMAIN open
      /\ open[Len(open)] = Top /\ Owed(Top) \subseteq OpenOwed
  BY <1>1, TopFacts DEF Top
<1>4. TreeOK'
  <2>1. \A i \in DOMAIN open' : FrameOK(open[i])'
    <3>1. TAKE i \in DOMAIN open'
    <3>2. open'[i] = open[i] /\ FrameOK(open[i])
      BY <1>2 DEF IInv, TreeOK
    <3> QED BY <3>2 DEF FrameOK, Branches
  <2>2. \A i \in DOMAIN open' \ {1} : i \in DOMAIN open \ {1} /\ i - 1 \in DOMAIN open'
    BY <1>2, <1>3
  <2> QED BY <1>2, <2>1, <2>2 DEF IInv, TreeOK
<1>5. BreakStackMatchesLoops'
  <2>1. IsFiniteSet(OpenLoops) /\ Cardinality(OpenLoops) \in Nat
    BY <1>1, OpenLoopsFinite
  <2>2. Len(open) \in OpenLoops <=> OpenLoop(Top) = 1
    BY <1>3 DEF OpenLoops, OpenLoop
  <2>3. OpenLoop(Top) \in {0, 1}
    BY DEF OpenLoop
  <2>4. Cardinality(OpenLoops \ {Len(open)}) = Cardinality(OpenLoops) - OpenLoop(Top)
    <3>1. CASE Len(open) \in OpenLoops
      BY <2>1, <2>2, <3>1, FS_RemoveElement
    <3>2. CASE Len(open) \notin OpenLoops
      <4>1. OpenLoop(Top) = 0
        BY <2>2, <2>3, <3>2
      <4>2. OpenLoops \ {Len(open)} = OpenLoops
        BY <3>2
      <4>3. Cardinality(OpenLoops) = Cardinality(OpenLoops) - OpenLoop(Top)
        BY <2>1, <4>1
      <4> QED BY <4>2, <4>3
    <3> QED BY <3>1, <3>2
  <2> QED BY <1>2, <2>4 DEF IInv, BreakStackMatchesLoops
<1>6. OwedOnce'
  BY <1>1, <1>2 DEF OwedOnce
<1>7. P \subseteq Live \cup Fresh(n) /\ Live' \cup P = Live \cup Fresh(n) /\ Live' \cap P = {}
  BY <1>1, <1>2, <1>3 DEF Live
<1>8. \A i \in DOMAIN open' :
        Targets(open'[i]) \subseteq Placed(code) \cup Live \cup Fresh(n)
  BY <1>2 DEF IInv, TargetsExist
<1>9. /\ code' \in Seq(Instruction) /\ labelCounter' \in Nat
      /\ OwedNotPlaced' /\ LabelsPlacedOnce' /\ TargetsExist'
  BY <1>7, <1>8, LabelStep
<1>10. Types'
  BY <1>2, <1>9 DEF IInv, Types
<1> QED BY <1>4, <1>5, <1>6, <1>9, <1>10 DEF IInv

-----------------------------------------------------------------------------
(* The initial state, the end of a function, and the statements' actions.  *)

\* Initially nothing is owed.
LEMMA InitIInv == Init => IInv
<1> SUFFICES ASSUME Init PROVE IInv
  OBVIOUS
<1>1. Types /\ TreeOK
  BY DEF Init, Types, TreeOK, Phases
<1>2. BreakStackMatchesLoops
  <2>1. OpenLoops = {}
    BY DEF Init, OpenLoops
  <2> QED BY <2>1, FS_EmptySet DEF Init, BreakStackMatchesLoops
<1>3. OpenOwed = {} /\ Breaks = {} /\ Placed(code) = {} /\ Jumps(code) = {}
  BY DEF Init, OpenOwed, Breaks, Placed, Places, Jumps
<1>4. OwedOnce
  BY <1>3 DEF Init, OwedOnce, FramesDisjoint, BreaksDistinct
<1>5. OwedNotPlaced /\ LabelsPlacedOnce /\ TargetsExist
  BY <1>3 DEF Init, OwedNotPlaced, Live, LabelsPlacedOnce, Places, TargetsExist
<1> QED BY <1>1, <1>2, <1>4, <1>5 DEF IInv

\* Between two functions nothing is owed.
LEMMA NothingOwed ==
  ASSUME IInv, open = <<>>
  PROVE  breakLabels = <<>> /\ Live = {}
<1>1. OpenLoops = {} /\ OpenOwed = {}
  BY DEF OpenLoops, OpenOwed
<1>2. Len(breakLabels) = 0 /\ breakLabels \in Seq(Nat)
  BY <1>1, FS_EmptySet DEF IInv, BreakStackMatchesLoops, Types
<1>3. breakLabels = <<>>
  BY <1>2
<1> QED BY <1>1, <1>3 DEF Live, Breaks

\* A step that changes the phase, if it changes anything.
LEMMA PhaseStep ==
  ASSUME IInv, phase' \in Phases, phase' = "outside" => open = <<>>,
         UNCHANGED <<tree, used, open, labelCounter, breakLabels, code>>
  PROVE  IInv'
<1>1. Types' /\ TreeOK'
  BY DEF IInv, Types, TreeOK, FrameOK, Branches
<1>2. OpenLoops' = OpenLoops /\ OpenOwed' = OpenOwed /\ Breaks' = Breaks
      /\ Placed(code)' = Placed(code) /\ Jumps(code)' = Jumps(code)
  BY DEF OpenLoops, OpenOwed, Breaks
<1>3. BreakStackMatchesLoops'
  BY <1>2 DEF IInv, BreakStackMatchesLoops
<1>4. OwedOnce'
  BY <1>2 DEF IInv, OwedOnce, FramesDisjoint, BreaksDistinct
<1>5. OwedNotPlaced' /\ LabelsPlacedOnce' /\ TargetsExist'
  BY <1>2 DEF IInv, OwedNotPlaced, Live, LabelsPlacedOnce, TargetsExist
<1> QED BY <1>1, <1>3, <1>4, <1>5 DEF IInv

\* A function begins with empty code, when nothing is owed.
LEMMA EnterFunctionKeeps == IInv /\ EnterFunction => IInv'
<1> SUFFICES ASSUME IInv, EnterFunction PROVE IInv'
  OBVIOUS
<1>1. open = <<>> /\ open' = <<>>
  BY DEF EnterFunction, IInv, TreeOK
<1>2. breakLabels' = <<>> /\ labelCounter' = labelCounter
  BY <1>1, NothingOwed DEF EnterFunction
<1>3. Types' /\ TreeOK'
  BY <1>1, <1>2 DEF EnterFunction, IInv, Types, TreeOK, Phases
<1>4. OpenLoops' = {} /\ OpenOwed' = {} /\ Breaks' = {}
      /\ Placed(code)' = {} /\ Jumps(code)' = {}
  BY <1>1, <1>2 DEF EnterFunction, OpenLoops, OpenOwed, Breaks, Placed, Places, Jumps
<1>5. BreakStackMatchesLoops'
  BY <1>2, <1>4, FS_EmptySet DEF BreakStackMatchesLoops
<1>6. OwedOnce'
  BY <1>1, <1>2, <1>4 DEF OwedOnce, FramesDisjoint, BreaksDistinct
<1>7. OwedNotPlaced' /\ LabelsPlacedOnce' /\ TargetsExist'
  BY <1>1, <1>4 DEF EnterFunction, OwedNotPlaced, Live, LabelsPlacedOnce, Places,
                    TargetsExist
<1> QED BY <1>3, <1>5, <1>6, <1>7 DEF IInv

\* A simple statement places the labels its expressions generate.
LEMMA SimpleStatementKeeps == IInv /\ SimpleStatement => IInv'
<1> SUFFICES ASSUME IInv, NEW d \in ExprLabels,
                    Reveal("simple", 0, FALSE),
                    Emit(ExprCode("simple", Len(tree) + 1, 0, d)),
                    labelCounter' = labelCounter + d,
                    UNCHANGED <<open, breakLabels>>
             PROVE  IInv'
  BY DEF SimpleStatement
<1> DEFINE new == ExprCode("simple", Len(tree) + 1, 0, d)
           J == {}
<1>1. d \in Nat /\ labelCounter \in Nat /\ Len(tree) + 1 \in Nat
  BY BoundsAssumption DEF IInv, Types
<1>2. Piece(new, Fresh(d), J) /\ Emit(new) /\ J \subseteq Live
  BY <1>1, ExprPiece DEF Fresh
<1>3. "simple" \in Leaves
  BY DEF Leaves
<1> HIDE DEF new, J
<1>4. ASSUME NEW kind \in Leaves, Reveal(kind, 0, FALSE) PROVE IInv'
  BY <1>1, <1>2, <1>4, LeafStep
<1> QED BY <1>3, <1>4, Zenon

\* Statements of one instruction, which generate no label.
LEMMA OneInstructionStatement ==
  ASSUME IInv, NEW kind \in Leaves, Reveal(kind, 0, FALSE),
         UNCHANGED <<open, labelCounter, breakLabels>>,
         NEW a, NEW J, Emit(<<a>>), Piece(<<a>>, {}, J), J \subseteq Live
  PROVE  IInv'
<1>1. labelCounter \in Nat /\ labelCounter' = labelCounter + 0 /\ 0 \in Nat
  BY DEF IInv, Types
<1>2. Fresh(0) = {}
  BY <1>1 DEF Fresh
<1>3. Piece(<<a>>, Fresh(0), J)
  BY <1>2
<1> QED BY <1>1, <1>3, LeafStep

\* A call statement has no labels.
LEMMA ValueCallStatementKeeps == IInv /\ ValueCallStatement => IInv'
<1> SUFFICES ASSUME IInv, ValueCallStatement PROVE IInv'
  OBVIOUS
<1> DEFINE a == Instr("valuecall", Len(tree) + 1, 0)
           J == {}
<1>1. Len(tree) + 1 \in Nat
  BY DEF IInv, Types
<1>2. Piece(<<a>>, {}, J) /\ J \subseteq Live
  BY <1>1, PlainPiece DEF Instr, Instruction
<1>3. "valuecall" \in Leaves
  BY DEF Leaves
<1>4. Reveal("valuecall", 0, FALSE) /\ Emit(<<a>>)
  BY DEF ValueCallStatement
<1>5. UNCHANGED <<open, labelCounter, breakLabels>>
  BY DEF ValueCallStatement
<1> HIDE DEF a, J
<1>6. ASSUME NEW kind \in Leaves, Reveal(kind, 0, FALSE) PROVE IInv'
  BY <1>2, <1>4, <1>5, <1>6, OneInstructionStatement
<1> QED BY <1>3, <1>4, <1>6, Zenon

\* The same for a return.
LEMMA ExitReturnKeeps == IInv /\ ExitReturn => IInv'
<1> SUFFICES ASSUME IInv, ExitReturn PROVE IInv'
  OBVIOUS
<1> DEFINE a == Instr("return", Len(tree) + 1, 0)
           J == {}
<1>1. Len(tree) + 1 \in Nat
  BY DEF IInv, Types
<1>2. Piece(<<a>>, {}, J) /\ J \subseteq Live
  BY <1>1, PlainPiece DEF Instr, Instruction
<1>3. "return" \in Leaves
  BY DEF Leaves
<1>4. Reveal("return", 0, FALSE) /\ Emit(<<a>>)
  BY DEF ExitReturn
<1>5. UNCHANGED <<open, labelCounter, breakLabels>>
  BY DEF ExitReturn
<1> HIDE DEF a, J
<1>6. ASSUME NEW kind \in Leaves, Reveal(kind, 0, FALSE) PROVE IInv'
  BY <1>2, <1>4, <1>5, <1>6, OneInstructionStatement
<1> QED BY <1>3, <1>4, <1>6, Zenon

\* A break jumps to a label that is on breakLabels.
LEMMA ExitBreakKeeps == IInv /\ ExitBreak => IInv'
<1> SUFFICES ASSUME IInv, ExitBreak PROVE IInv'
  OBVIOUS
<1> DEFINE a == Goto(breakLabels[Len(breakLabels)])
           J == {breakLabels[Len(breakLabels)]}
<1>1. breakLabels[Len(breakLabels)] \in Nat /\ breakLabels[Len(breakLabels)] \in Breaks
  <2>1. Len(breakLabels) \in DOMAIN breakLabels
    BY EmptySeq, LenProperties DEF ExitBreak, IInv, Types
  <2> QED BY <2>1, ElementOfSeq DEF Breaks, IInv, Types
<1>2. Piece(<<a>>, {}, J) /\ J \subseteq Live
  BY <1>1, GotoPiece DEF Live
<1>3. "break" \in Leaves
  BY DEF Leaves
<1>4. Reveal("break", 0, FALSE) /\ Emit(<<a>>)
  BY DEF ExitBreak
<1>5. UNCHANGED <<open, labelCounter, breakLabels>>
  BY DEF ExitBreak
<1> HIDE DEF a, J
<1>6. ASSUME NEW kind \in Leaves, Reveal(kind, 0, FALSE) PROVE IInv'
  BY <1>2, <1>4, <1>5, <1>6, OneInstructionStatement
<1> QED BY <1>3, <1>4, <1>6, Zenon

\* The label records the enter handlers make.
LEMMA LabelRecords ==
  ASSUME labelCounter \in Nat
  PROVE  /\ StartOnlyLabels \in LabelRecord /\ StartOnlyLabels.start = labelCounter
         /\ WhileLabels \in LabelRecord /\ WhileLabels.start = labelCounter
         /\ WhileLabels.end = labelCounter + 1
         /\ ForLabels \in LabelRecord /\ ForLabels.start = labelCounter
         /\ ForLabels.end = labelCounter + 1
         /\ ForLabels.cond = labelCounter + 2
         /\ ForLabels.update = labelCounter + 3
         /\ \A b \in Nat : /\ IfLabels(b) \in LabelRecord
                          /\ IfLabels(b).end = labelCounter
                          /\ IfLabels(b).conds = [i \in 1..b |-> labelCounter + i]
<1>1. NoLabels \in LabelRecord
  <2>1. <<>> \in Seq(Int) /\ NoLabel \in Int
    BY DEF NoLabel
  <2> QED BY <2>1 DEF NoLabels, LabelRecord
<1>2. StartOnlyLabels \in LabelRecord /\ WhileLabels \in LabelRecord /\ ForLabels \in LabelRecord
  <2>1. /\ labelCounter \in Int /\ labelCounter + 1 \in Int
        /\ labelCounter + 2 \in Int /\ labelCounter + 3 \in Int
    OBVIOUS
  <2>2. \A a, b, c, d \in Int, r \in LabelRecord :
          /\ [r EXCEPT !.start = a] \in LabelRecord
          /\ [r EXCEPT !.start = a, !.end = b] \in LabelRecord
          /\ [r EXCEPT !.start = a, !.end = b, !.cond = c, !.update = d] \in LabelRecord
    BY ZenonT(60) DEF LabelRecord
  <2> QED BY <1>1, <2>1, <2>2 DEF StartOnlyLabels, WhileLabels, ForLabels
<1>3. StartOnlyLabels.start = labelCounter
  BY DEF StartOnlyLabels, NoLabels
<1>4. WhileLabels.start = labelCounter /\ WhileLabels.end = labelCounter + 1
  BY DEF WhileLabels, NoLabels
<1>5. /\ ForLabels.start = labelCounter /\ ForLabels.end = labelCounter + 1
      /\ ForLabels.cond = labelCounter + 2 /\ ForLabels.update = labelCounter + 3
  BY DEF ForLabels, NoLabels
<1>6. ASSUME NEW b \in Nat
      PROVE  /\ IfLabels(b) \in LabelRecord /\ IfLabels(b).end = labelCounter
             /\ IfLabels(b).conds = [i \in 1..b |-> labelCounter + i]
  <2>1. [i \in 1..b |-> labelCounter + i] \in Seq(Int)
    OBVIOUS
  <2>2. IfLabels(b) \in LabelRecord
    <3>1. \A a \in Int, c \in Seq(Int), r \in LabelRecord :
            [r EXCEPT !.end = a, !.conds = c] \in LabelRecord
      BY DEF LabelRecord
    <3>2. labelCounter \in Int
      OBVIOUS
    <3> QED BY <1>1, <2>1, <3>1, <3>2 DEF IfLabels
  <2>3. IfLabels(b).end = labelCounter
    BY DEF IfLabels, NoLabels
  <2>4. IfLabels(b).conds = [i \in 1..b |-> labelCounter + i]
    BY DEF IfLabels, NoLabels
  <2> QED BY <2>2, <2>3, <2>4
<1> QED BY <1>2, <1>3, <1>4, <1>5, <1>6

\* The two loops that begin with their block.
LEMMA BlockLoopKeeps ==
  ASSUME IInv, NEW kind \in {"infinite", "until"}, Reveal(kind, 0, FALSE),
         Push(kind, "block", StartOnlyLabels), labelCounter' = labelCounter + 1,
         Emit(<<Label(StartOnlyLabels.start)>>), UNCHANGED breakLabels
  PROVE  IInv'
<1>1. labelCounter \in Nat /\ Len(tree) + 1 \in Nat
  BY DEF IInv, Types
<1>2. PICK f : f = [node |-> Len(tree) + 1, kind |-> kind, next |-> "block",
                    block |-> 0, labels |-> StartOnlyLabels]
  OBVIOUS
<1>3. /\ f.node = Len(tree) + 1 /\ f.kind = kind /\ f.next = "block" /\ f.block = 0
      /\ f.labels = StartOnlyLabels
  BY <1>2
<1>4. StartOnlyLabels \in LabelRecord /\ StartOnlyLabels.start = labelCounter
  BY <1>1, LabelRecords
<1>5. f \in FrameRecord
  BY <1>1, <1>2, <1>4 DEF FrameRecord, Loops
<1>6. open' = Append(open, f) /\ f.next # "body"
  BY <1>2, <1>3 DEF Push
<1>7. Owed(f) = {} /\ Targets(f) = {labelCounter}
  BY <1>3, <1>4 DEF Owed, Targets
<1>8. Fresh(1) = {labelCounter}
  BY <1>1 DEF Fresh
<1>9. Piece(<<Label(StartOnlyLabels.start)>>, {labelCounter}, {})
  BY <1>1, <1>4, LabelPiece
<1>10. /\ Len(tree) + 1 \in DOMAIN tree' /\ tree'[Len(tree) + 1].kind = kind
       => FrameOK(f)'
  BY <1>3 DEF FrameOK
<1>11. kind \in Loops \cup {"if"} /\ 0 \in Nat /\ 1 \in Nat /\ FALSE \in BOOLEAN
  BY DEF Loops
<1> QED BY <1>3, <1>5, <1>6, <1>7, <1>8, <1>9, <1>10, <1>11, PushStep, ZenonT(60)

\* An infinite loop is one of them.
LEMMA EnterInfiniteKeeps == IInv /\ EnterInfinite => IInv'
<1> SUFFICES ASSUME IInv, EnterInfinite PROVE IInv'
  OBVIOUS
<1>1. ASSUME NEW kind, kind = "infinite", Reveal(kind, 0, FALSE),
             Push(kind, "block", StartOnlyLabels)
      PROVE  IInv'
  BY <1>1, BlockLoopKeeps DEF EnterInfinite
<1> QED BY <1>1, Zenon DEF EnterInfinite

\* An until loop is the other.
LEMMA EnterUntilKeeps == IInv /\ EnterUntil => IInv'
<1> SUFFICES ASSUME IInv, EnterUntil PROVE IInv'
  OBVIOUS
<1>1. ASSUME NEW kind, kind = "until", Reveal(kind, 0, FALSE),
             Push(kind, "block", StartOnlyLabels)
      PROVE  IInv'
  BY <1>1, BlockLoopKeeps DEF EnterUntil
<1> QED BY <1>1, Zenon DEF EnterUntil

\* A while places its start label and owes its end.
LEMMA EnterWhileKeeps == IInv /\ EnterWhile => IInv'
<1> SUFFICES ASSUME IInv, EnterWhile PROVE IInv'
  OBVIOUS
<1>1. labelCounter \in Nat /\ Len(tree) + 1 \in Nat
  BY DEF IInv, Types
<1>2. PICK f : f = [node |-> Len(tree) + 1, kind |-> "while", next |-> "cond",
                    block |-> 0, labels |-> WhileLabels]
  OBVIOUS
<1>3. /\ f.node = Len(tree) + 1 /\ f.kind = "while" /\ f.next = "cond" /\ f.block = 0
      /\ f.labels = WhileLabels
  BY <1>2
<1>4. /\ WhileLabels \in LabelRecord /\ WhileLabels.start = labelCounter
      /\ WhileLabels.end = labelCounter + 1
  BY <1>1, LabelRecords
<1>5. f \in FrameRecord
  BY <1>1, <1>2, <1>4 DEF FrameRecord, Loops
<1>6. open' = Append(open, f) /\ f.next # "body"
  BY <1>2, <1>3 DEF EnterWhile, Push
<1>7. Owed(f) = {labelCounter + 1} /\ Targets(f) = {labelCounter, labelCounter + 1}
  BY <1>3, <1>4 DEF Owed, Targets
<1>8. Fresh(2) = {labelCounter, labelCounter + 1}
  BY <1>1 DEF Fresh
<1>9. Piece(<<Label(WhileLabels.start)>>, {labelCounter}, {})
  BY <1>1, <1>4, LabelPiece
<1>10. ASSUME NEW kind, kind = "while"
       PROVE  /\ Len(tree) + 1 \in DOMAIN tree' /\ tree'[Len(tree) + 1].kind = kind
              => FrameOK(f)'
  BY <1>3, <1>4, <1>10 DEF FrameOK
<1>11. "while" \in Loops
  BY DEF Loops
<1>12. /\ labelCounter' = labelCounter + 2 /\ UNCHANGED breakLabels
       /\ Emit(<<Label(WhileLabels.start)>>)
  BY DEF EnterWhile
<1>13. {labelCounter} \cap {labelCounter + 1} = {}
  BY <1>1
<1>14. ASSUME NEW kind, kind = "while", Reveal(kind, 0, FALSE) PROVE IInv'
  <2>1. kind \in Loops \cup {"if"} /\ 0 \in Nat /\ 2 \in Nat /\ FALSE \in BOOLEAN
    BY <1>11, <1>14
  <2> QED BY <1>3, <1>5, <1>6, <1>7, <1>8, <1>9, <1>10, <1>12, <1>13, <1>14, <2>1, PushStep, ZenonT(60)
<1> QED BY <1>14, Zenon DEF EnterWhile

\* A for owes all four of its labels.
LEMMA EnterForKeeps == IInv /\ EnterFor => IInv'
<1> SUFFICES ASSUME IInv, EnterFor PROVE IInv'
  OBVIOUS
<1>1. labelCounter \in Nat /\ Len(tree) + 1 \in Nat
  BY DEF IInv, Types
<1>2. PICK f : f = [node |-> Len(tree) + 1, kind |-> "for", next |-> "cond",
                    block |-> 0, labels |-> ForLabels]
  OBVIOUS
<1>3. /\ f.node = Len(tree) + 1 /\ f.kind = "for" /\ f.next = "cond" /\ f.block = 0
      /\ f.labels = ForLabels
  BY <1>2
<1>4. /\ ForLabels \in LabelRecord /\ ForLabels.start = labelCounter
      /\ ForLabels.end = labelCounter + 1 /\ ForLabels.cond = labelCounter + 2
      /\ ForLabels.update = labelCounter + 3
  BY <1>1, LabelRecords
<1>5. f \in FrameRecord
  BY <1>1, <1>2, <1>4 DEF FrameRecord, Loops
<1>6. open' = Append(open, f) /\ f.next # "body"
  BY <1>2, <1>3 DEF EnterFor, Push
<1>7. /\ Owed(f) = {labelCounter, labelCounter + 1, labelCounter + 2, labelCounter + 3}
      /\ Targets(f) = Owed(f)
  BY <1>3, <1>4 DEF Owed, Targets
<1>8. Fresh(4) = Owed(f)
  BY <1>1, <1>7 DEF Fresh
<1> DEFINE new == <<Instr("simple", Len(tree) + 1, 0)>>
           P == {}
<1>9. Piece(new, P, {}) /\ Emit(new)
  BY <1>1, PlainPiece DEF Instr, Instruction, EnterFor
<1>10. ASSUME NEW kind, kind = "for"
       PROVE  /\ Len(tree) + 1 \in DOMAIN tree' /\ tree'[Len(tree) + 1].kind = kind
              => FrameOK(f)'
  BY <1>3, <1>4, <1>10 DEF FrameOK
<1>11. "for" \in Loops
  BY DEF Loops
<1>12. labelCounter' = labelCounter + 4 /\ UNCHANGED breakLabels
  BY DEF EnterFor
<1>13. P \cup Owed(f) = Fresh(4) /\ P \cap Owed(f) = {} /\ Targets(f) \subseteq Fresh(4)
  BY <1>7, <1>8
<1> HIDE DEF new, P
<1>14. ASSUME NEW kind, kind = "for", Reveal(kind, 0, FALSE) PROVE IInv'
  <2>1. kind \in Loops \cup {"if"} /\ 0 \in Nat /\ 4 \in Nat /\ FALSE \in BOOLEAN
    BY <1>11, <1>14
  <2> QED BY <1>3, <1>5, <1>6, <1>9, <1>10, <1>12, <1>13, <1>14, <2>1, PushStep
<1> QED BY <1>14, Zenon DEF EnterFor

\* An if owes its end, and a label for each of its branches.
LEMMA EnterIfKeeps == IInv /\ EnterIf => IInv'
<1> SUFFICES ASSUME IInv, NEW elseIfs \in 0..MaxElseIfs, NEW hasElse \in BOOLEAN,
                    NEW branches,
                    branches = 1 + elseIfs + (IF hasElse THEN 1 ELSE 0),
                    Reveal("if", elseIfs, hasElse),
                    Push("if", "cond", IfLabels(branches)),
                    labelCounter' = labelCounter + 1 + branches,
                    UNCHANGED <<breakLabels, code>>
             PROVE  IInv'
  BY Zenon DEF EnterIf
<1>1. /\ labelCounter \in Nat /\ Len(tree) + 1 \in Nat /\ elseIfs \in Nat
      /\ branches \in Nat /\ branches >= 1 /\ code \in Seq(Instruction)
  BY BoundsAssumption DEF IInv, Types
<1>2. PICK f : f = [node |-> Len(tree) + 1, kind |-> "if", next |-> "cond",
                    block |-> 0, labels |-> IfLabels(branches)]
  OBVIOUS
<1>3. /\ f.node = Len(tree) + 1 /\ f.kind = "if" /\ f.next = "cond" /\ f.block = 0
      /\ f.labels = IfLabels(branches)
  BY <1>2
<1>4. /\ f.labels \in LabelRecord /\ f.labels.end = labelCounter
      /\ f.labels.conds = [i \in 1..branches |-> labelCounter + i]
  BY <1>1, <1>3, LabelRecords
<1>5. f \in FrameRecord
  BY <1>1, <1>2, <1>4 DEF FrameRecord
<1>6. open' = Append(open, f) /\ f.next # "body"
  BY <1>2, <1>3 DEF Push
<1>7. /\ DOMAIN f.labels.conds = 1..branches /\ Len(f.labels.conds) = branches
      /\ \A i \in 1..branches : f.labels.conds[i] = labelCounter + i
  BY <1>1, <1>4
<1>8. Owed(f) = {labelCounter} \cup {labelCounter + i : i \in 1..branches}
      /\ Targets(f) = Owed(f)
  <2>1. UnplacedConds(f) = 1..branches
    <3>1. f.block = 0 /\ f.next # "body" /\ DOMAIN f.labels.conds = 1..branches
      BY <1>3, <1>7
    <3>2. UnplacedConds(f) = DOMAIN f.labels.conds
      BY <3>1 DEF UnplacedConds
    <3> QED BY <3>1, <3>2
  <2>2. {f.labels.conds[i] : i \in 1..branches} = {labelCounter + i : i \in 1..branches}
    BY <1>7
  <2>3. Owed(f) = {f.labels.end} \cup {f.labels.conds[i] : i \in UnplacedConds(f)}
    BY <1>3 DEF Owed
  <2>4. Targets(f) = {f.labels.end} \cup {f.labels.conds[i] : i \in DOMAIN f.labels.conds}
    BY <1>3 DEF Targets
  <2> QED BY <1>4, <1>7, <2>1, <2>2, <2>3, <2>4
<1>9. Fresh(1 + branches) = Owed(f)
  <2>1. \A l \in Fresh(1 + branches) : l = labelCounter \/ l - labelCounter \in 1..branches
    BY <1>1 DEF Fresh
  <2>2. \A l \in Fresh(1 + branches) : l = labelCounter + (l - labelCounter)
    BY <1>1 DEF Fresh
  <2>3. \A i \in 1..branches : labelCounter + i \in Fresh(1 + branches)
    BY <1>1 DEF Fresh
  <2>4. labelCounter \in Fresh(1 + branches)
    BY <1>1 DEF Fresh
  <2> QED BY <1>8, <2>1, <2>2, <2>3, <2>4
<1> DEFINE new == <<>>
           P == {}
<1>10. Piece(new, P, {}) /\ Emit(new)
  BY <1>1, NoCode, ConcatEmptySeq DEF Emit
<1>11. ASSUME NEW kind, kind = "if"
       PROVE  /\ Len(tree) + 1 \in DOMAIN tree' /\ tree'[Len(tree) + 1].kind = kind
              /\ Branches(tree'[Len(tree) + 1]) = 1 + elseIfs + (IF hasElse THEN 1 ELSE 0)
              => FrameOK(f)'
  BY <1>1, <1>3, <1>4, <1>7, <1>11 DEF FrameOK
<1>12. P \cup Owed(f) = Fresh(1 + branches) /\ P \cap Owed(f) = {}
       /\ Targets(f) \subseteq Fresh(1 + branches)
  BY <1>8, <1>9
<1>13. /\ labelCounter' = labelCounter + (1 + branches) /\ UNCHANGED breakLabels
       /\ 1 + branches \in Nat
  BY <1>1
<1> HIDE DEF new, P
<1>14. ASSUME NEW kind, kind = "if", Reveal(kind, elseIfs, hasElse) PROVE IInv'
  <2>1. kind \in Loops \cup {"if"}
    BY <1>14
  <2> QED BY <1>1, <1>3, <1>5, <1>6, <1>10, <1>11, <1>12, <1>13, <1>14, <2>1, PushStep
<1> QED BY <1>14, Zenon

-----------------------------------------------------------------------------
(* The steps at the innermost open statement.                              *)

\* What the invariant says of the innermost open statement.
LEMMA TopOK ==
  ASSUME IInv, open # <<>>
  PROVE  /\ Top \in FrameRecord /\ FrameOK(Top) /\ Owed(Top) \subseteq Live
         /\ Targets(Top) \subseteq Placed(code) \cup Live
         /\ Top.node \in Nat /\ Top.block \in Nat /\ Top.labels \in LabelRecord
         /\ labelCounter \in Nat
         /\ \A n \in Nat : Fresh(n) \cap Live = {}
         /\ Owed(Top) \cap Breaks = {}
<1>1. open \in Seq(FrameRecord) /\ labelCounter \in Nat
  BY DEF IInv, Types
<1>2. /\ Len(open) \in DOMAIN open /\ Top = open[Len(open)] /\ Top \in FrameRecord
      /\ Owed(Top) \subseteq OpenOwed
  BY <1>1, TopFacts DEF Top
<1>3. FrameOK(Top)
  BY <1>2 DEF IInv, TreeOK
<1>4. Targets(Top) \subseteq Placed(code) \cup Live
  BY <1>2 DEF IInv, TargetsExist
<1>5. Top.node \in Nat /\ Top.block \in Nat /\ Top.labels \in LabelRecord
  BY <1>2 DEF FrameRecord
<1>6. \A n \in Nat : Fresh(n) \cap Live = {}
  BY <1>1 DEF IInv, OwedNotPlaced, Fresh
<1>7. Owed(Top) \subseteq Live /\ Owed(Top) \cap Breaks = {}
  BY <1>2 DEF IInv, OwedOnce, Live
<1> QED BY <1>1, <1>2, <1>3, <1>4, <1>5, <1>6, <1>7

\* Three pieces, one after the other.
LEMMA ThreePieces ==
  ASSUME NEW r, NEW s, NEW t, NEW O, NEW P, NEW Q, NEW I, NEW J, NEW K,
         Piece(r, O, I), Piece(s, P, J), Piece(t, Q, K),
         O \cap P = {}, O \cap Q = {}, P \cap Q = {}
  PROVE  Piece(r \o s \o t, O \cup P \cup Q, I \cup J \cup K)
<1>1. Piece(r \o s, O \cup P, I \cup J)
  BY TwoPieces
<1>2. (O \cup P) \cap Q = {}
  OBVIOUS
<1> QED BY <1>1, <1>2, TwoPieces

\* The innermost statement goes on to its child next.
LEMMA Advance ==
  ASSUME NEW frame \in FrameRecord, NEW next \in {"cond", "update", "block", "body"},
         NEW f, f = [frame EXCEPT !.next = next]
  PROVE  /\ f \in FrameRecord /\ f.next = next /\ f.node = frame.node
         /\ f.kind = frame.kind /\ f.block = frame.block /\ f.labels = frame.labels
         /\ Targets(f) = Targets(frame)
<1>1. /\ f \in FrameRecord /\ f.next = next /\ f.node = frame.node
      /\ f.kind = frame.kind /\ f.block = frame.block /\ f.labels = frame.labels
  BY DEF FrameRecord
<1> QED BY <1>1 DEF Targets

\* A step of the innermost statement that leaves breakLabels alone.
LEMMA MoveTop ==
  ASSUME IInv, phase = "inside", open # <<>>,
         UNCHANGED <<phase, tree, used, breakLabels>>,
         NEW f \in FrameRecord, SetTop(f), f.node = Top.node, FrameOK(f),
         Owed(f) \subseteq Owed(Top), Targets(f) = Targets(Top), OpenLoop(f) = OpenLoop(Top),
         NEW n \in Nat, labelCounter' = labelCounter + n,
         NEW new, NEW P, NEW J, Piece(new, P, J), Emit(new),
         P = (Owed(Top) \ Owed(f)) \cup Fresh(n),
         J \subseteq Placed(code) \cup Live \cup Fresh(n)
  PROVE  IInv'
<1>1. Fresh(n) \cap Live = {}
  BY TopOK
<1>2. /\ Breaks' = Breaks /\ BreaksDistinct' /\ breakLabels' \in Seq(Nat)
      /\ Len(breakLabels) \in Nat
  BY DEF IInv, Types, OwedOnce, BreaksDistinct, Breaks
<1>3. P = (Owed(Top) \ Owed(f)) \cup (Breaks \ Breaks') \cup (Fresh(n) \ Breaks')
  BY <1>1, <1>2 DEF Live
<1>4. Breaks' \subseteq Breaks \cup Fresh(n)
  BY <1>2
<1>5. Len(breakLabels') = Len(breakLabels) - OpenLoop(Top) + OpenLoop(f)
  BY <1>2 DEF OpenLoop
<1> QED BY <1>2, <1>3, <1>4, <1>5, KeepTop

\* A condition jumps to labels of its statement; that of a for places its own
\* label, and that of an until closes the loop.
LEMMA ConditionKeeps == IInv /\ Condition => IInv'
<1> SUFFICES ASSUME IInv, NEW d \in ExprLabels, AtChild("cond"),
                    Emit(BeforeCondition(Top) \o ExprCode("eval", Top.node, Top.block, d)
                           \o AfterCondition(Top)),
                    labelCounter' = labelCounter + d,
                    CASE Top.kind = "until" -> PopTop
                      [] Top.kind = "for"   -> SetTop([Top EXCEPT !.next = "update"])
                      [] OTHER              -> SetTop([Top EXCEPT !.next = "block"]),
                    UNCHANGED <<phase, tree, used, breakLabels>>
             PROVE  IInv'
  BY Zenon DEF Condition
<1> DEFINE expr == ExprCode("eval", Top.node, Top.block, d)
           new == BeforeCondition(Top) \o expr \o AfterCondition(Top)
           none == {}
<1>1. phase = "inside" /\ open # <<>> /\ Top.next = "cond" /\ d \in Nat
  BY BoundsAssumption DEF AtChild
<1>2. /\ Top \in FrameRecord /\ FrameOK(Top) /\ Owed(Top) \subseteq Live
      /\ Targets(Top) \subseteq Placed(code) \cup Live
      /\ Top.node \in Nat /\ Top.block \in Nat /\ Top.labels \in LabelRecord
      /\ labelCounter \in Nat /\ Fresh(d) \cap Live = {} /\ Owed(Top) \cap Breaks = {}
  BY <1>1, TopOK
<1>3. Piece(expr, Fresh(d), none)
  BY <1>1, <1>2, ExprPiece DEF Fresh
<1>4. Emit(new)
  OBVIOUS
<1>5. Piece(<<>>, none, none)
  BY NoCode
<1>6. none = {}
  OBVIOUS
<1>7. Top.kind \in {"if", "while", "until", "for"}
  BY <1>1, <1>2 DEF FrameRecord, Loops, FrameOK
<1>8. OpenLoop(Top) = 0
  BY <1>1 DEF OpenLoop
<1> HIDE DEF expr, none
<1>9. CASE Top.kind \in {"if", "while"}
  <2>1. PICK f : f = [Top EXCEPT !.next = "block"]
    OBVIOUS
  <2>2. SetTop(f)
    BY <1>9, <2>1
  <2>3. /\ f \in FrameRecord /\ f.next = "block" /\ f.node = Top.node
        /\ f.kind = Top.kind /\ f.block = Top.block /\ f.labels = Top.labels
        /\ Targets(f) = Targets(Top)
    BY <1>2, <2>1, Advance
  <2>4. FrameOK(f) /\ OpenLoop(f) = OpenLoop(Top)
    BY <1>2, <1>8, <1>9, <2>3 DEF FrameOK, OpenLoop
  <2>5. Owed(f) = Owed(Top)
    <3>1. UnplacedConds(f) = UnplacedConds(Top)
      BY <1>1, <2>3 DEF UnplacedConds
    <3> QED BY <1>9, <2>3, <3>1 DEF Owed
  <2>6. PICK l \in Targets(Top) : l \in Int /\ AfterCondition(Top) = <<IfEq(l)>>
    <3>1. CASE Top.kind = "while"
      <4>1. Top.labels.end \in Targets(Top) /\ Top.labels.end \in Int
        BY <1>2, <3>1 DEF Targets, LabelRecord
      <4>2. AfterCondition(Top) = <<IfEq(Top.labels.end)>>
        BY <3>1 DEF AfterCondition
      <4> QED BY <4>1, <4>2
    <3>2. CASE Top.kind = "if"
      <4>1. AfterCondition(Top) = <<IfEq(IfJumpTarget(Top))>>
        BY <3>2 DEF AfterCondition
      <4>2. Top.labels.end \in Targets(Top) /\ Top.labels.end \in Int
            /\ Top.labels.conds \in Seq(Int)
        BY <1>2, <3>2 DEF Targets, LabelRecord
      <4>3. \A i \in DOMAIN Top.labels.conds :
              Top.labels.conds[i] \in Targets(Top) /\ Top.labels.conds[i] \in Int
        BY <3>2, <4>2 DEF Targets
      <4>4. Top.block + 1 < Len(Top.labels.conds) => Top.block + 2 \in DOMAIN Top.labels.conds
        BY <1>2, <4>2
      <4>5. IfJumpTarget(Top) \in Targets(Top) /\ IfJumpTarget(Top) \in Int
        BY <4>2, <4>3, <4>4 DEF IfJumpTarget
      <4> QED BY <4>1, <4>5
    <3> QED BY <1>9, <3>1, <3>2
  <2>7. Piece(BeforeCondition(Top), none, none)
    BY <1>5, <1>9 DEF BeforeCondition
  <2>8. Piece(AfterCondition(Top), none, {l})
    BY <1>6, <2>6, IfEqPiece
  <2>9. Piece(new, Fresh(d), {l})
    <3>1. Piece(new, none \cup Fresh(d) \cup none, none \cup none \cup {l})
      BY <1>3, <1>6, <2>7, <2>8, ThreePieces
    <3>2. none \cup Fresh(d) \cup none = Fresh(d) /\ none \cup none \cup {l} = {l}
      BY <1>6
    <3> QED BY <3>1, <3>2
  <2>10. /\ Fresh(d) = (Owed(Top) \ Owed(f)) \cup Fresh(d) /\ Owed(f) \subseteq Owed(Top)
         /\ {l} \subseteq Placed(code) \cup Live \cup Fresh(d)
    BY <1>2, <2>5, <2>6
  <2> HIDE DEF new
  <2> QED BY <1>1, <1>4, <2>2, <2>3, <2>4, <2>9, <2>10, MoveTop
<1>10. CASE Top.kind = "for"
  <2>1. PICK f : f = [Top EXCEPT !.next = "update"]
    OBVIOUS
  <2>2. SetTop(f)
    BY <1>10, <2>1
  <2>3. /\ f \in FrameRecord /\ f.next = "update" /\ f.node = Top.node
        /\ f.kind = Top.kind /\ f.block = Top.block /\ f.labels = Top.labels
        /\ Targets(f) = Targets(Top)
    BY <1>2, <2>1, Advance
  <2>4. FrameOK(f) /\ OpenLoop(f) = OpenLoop(Top)
    BY <1>2, <1>8, <1>10, <2>3 DEF FrameOK, OpenLoop
  <2>5. PICK a, b, c, e : /\ a = Top.labels.start /\ b = Top.labels.end
                          /\ c = Top.labels.cond /\ e = Top.labels.update
    OBVIOUS
  <2>6. a \in Int /\ b = a + 1 /\ c = a + 2 /\ e = a + 3
    BY <1>2, <1>10, <2>5 DEF LabelRecord, FrameOK
  <2>7. /\ Owed(Top) = {a, b, c, e} /\ Owed(f) = {a, b, e} /\ Targets(Top) = {a, b, c, e}
    BY <1>1, <1>10, <2>3, <2>5 DEF Owed, Targets
  <2>8. BeforeCondition(Top) = <<Label(c)>> /\ AfterCondition(Top) = <<IfEq(b), Goto(a)>>
    BY <1>10, <2>5 DEF BeforeCondition, AfterCondition
  <2>9. Piece(BeforeCondition(Top), {c}, none)
    BY <1>6, <2>6, <2>8, LabelPiece
  <2>10. Piece(AfterCondition(Top), none, {a, b})
    <3>1. Piece(<<IfEq(b)>>, none, {b}) /\ Piece(<<Goto(a)>>, none, {a})
      BY <1>6, <2>6, IfEqPiece, GotoPiece
    <3>2. Piece(<<IfEq(b), Goto(a)>>, none \cup none, {b} \cup {a})
      BY <1>6, <3>1, PairPiece
    <3>3. none \cup none = none /\ {b} \cup {a} = {a, b}
      OBVIOUS
    <3> QED BY <2>8, <3>2, <3>3
  <2>11. {c} \cap Fresh(d) = {}
    BY <1>2, <2>7
  <2>12. Piece(new, {c} \cup Fresh(d), {a, b})
    <3>1. Piece(new, {c} \cup Fresh(d) \cup none, none \cup none \cup {a, b})
      BY <1>3, <1>6, <2>9, <2>10, <2>11, ThreePieces
    <3>2. {c} \cup Fresh(d) \cup none = {c} \cup Fresh(d)
          /\ none \cup none \cup {a, b} = {a, b}
      BY <1>6
    <3> QED BY <3>1, <3>2
  <2>13. /\ {c} \cup Fresh(d) = (Owed(Top) \ Owed(f)) \cup Fresh(d)
         /\ Owed(f) \subseteq Owed(Top)
         /\ {a, b} \subseteq Placed(code) \cup Live \cup Fresh(d)
    <3>1. Owed(Top) \ Owed(f) = {c}
      BY <2>6, <2>7
    <3> QED BY <1>2, <2>7, <3>1
  <2> HIDE DEF new
  <2> QED BY <1>1, <1>4, <2>2, <2>3, <2>4, <2>12, <2>13, MoveTop
<1>11. CASE Top.kind = "until"
  <2>1. PopTop
    BY <1>11
  <2>2. PICK l : l = Top.labels.start
    OBVIOUS
  <2>3. l \in Int /\ l \in Targets(Top) /\ Owed(Top) = {}
    BY <1>2, <1>11, <2>2 DEF LabelRecord, Targets, Owed
  <2>4. Piece(BeforeCondition(Top), none, none)
    BY <1>5, <1>11 DEF BeforeCondition
  <2>5. Piece(AfterCondition(Top), none, {l})
    <3>1. AfterCondition(Top) = <<IfEq(l)>>
      BY <1>11, <2>2 DEF AfterCondition
    <3> QED BY <1>6, <2>3, <3>1, IfEqPiece
  <2>6. Piece(new, Fresh(d), {l})
    <3>1. Piece(new, none \cup Fresh(d) \cup none, none \cup none \cup {l})
      BY <1>3, <1>6, <2>4, <2>5, ThreePieces
    <3>2. none \cup Fresh(d) \cup none = Fresh(d) /\ none \cup none \cup {l} = {l}
      BY <1>6
    <3> QED BY <3>1, <3>2
  <2>7. /\ Breaks' = Breaks /\ BreaksDistinct' /\ breakLabels' \in Seq(Nat)
        /\ Len(breakLabels) \in Nat
    BY DEF IInv, Types, OwedOnce, BreaksDistinct, Breaks
  <2>8. /\ Fresh(d) = Owed(Top) \cup (Breaks \ Breaks') \cup Fresh(d)
        /\ Breaks' \subseteq Breaks
        /\ {l} \subseteq Placed(code) \cup Live \cup Fresh(d)
        /\ Len(breakLabels') = Len(breakLabels) - OpenLoop(Top)
    BY <1>2, <1>8, <2>3, <2>7
  <2> HIDE DEF new
  <2> QED BY <1>1, <1>4, <2>1, <2>6, <2>7, <2>8, LeaveTop
<1> QED BY <1>7, <1>9, <1>10, <1>11

\* The update of a for places its own label and jumps back to the condition.
LEMMA ForUpdateKeeps == IInv /\ ForUpdate => IInv'
<1> SUFFICES ASSUME IInv, NEW d \in ExprLabels, AtChild("update"),
                    Emit(<<Label(Top.labels.update)>>
                           \o ExprCode("update", Top.node, 0, d) \o AfterUpdate(Top)),
                    labelCounter' = labelCounter + d,
                    SetTop([Top EXCEPT !.next = "block"]),
                    UNCHANGED <<phase, tree, used, breakLabels>>
             PROVE  IInv'
  BY Zenon DEF ForUpdate
<1> DEFINE expr == ExprCode("update", Top.node, 0, d)
           new == <<Label(Top.labels.update)>> \o expr \o AfterUpdate(Top)
           none == {}
<1>1. phase = "inside" /\ open # <<>> /\ Top.next = "update" /\ d \in Nat
  BY BoundsAssumption DEF AtChild
<1>2. /\ Top \in FrameRecord /\ FrameOK(Top) /\ Owed(Top) \subseteq Live
      /\ Targets(Top) \subseteq Placed(code) \cup Live
      /\ Top.node \in Nat /\ Top.labels \in LabelRecord
      /\ labelCounter \in Nat /\ Fresh(d) \cap Live = {}
  BY <1>1, TopOK
<1>3. Piece(expr, Fresh(d), none)
  BY <1>1, <1>2, ExprPiece DEF Fresh
<1>4. Emit(new) /\ none = {}
  OBVIOUS
<1>5. Top.kind = "for"
  BY <1>1, <1>2 DEF FrameRecord, Loops, FrameOK
<1> HIDE DEF expr, none
<1>6. PICK f : f = [Top EXCEPT !.next = "block"]
  OBVIOUS
<1>7. SetTop(f)
  BY <1>6
<1>8. /\ f \in FrameRecord /\ f.next = "block" /\ f.node = Top.node
      /\ f.kind = Top.kind /\ f.block = Top.block /\ f.labels = Top.labels
      /\ Targets(f) = Targets(Top)
  BY <1>2, <1>6, Advance
<1>9. FrameOK(f) /\ OpenLoop(f) = OpenLoop(Top)
  BY <1>1, <1>2, <1>5, <1>8 DEF FrameOK, OpenLoop
<1>10. PICK a, b, c, e : /\ a = Top.labels.start /\ b = Top.labels.end
                         /\ c = Top.labels.cond /\ e = Top.labels.update
  OBVIOUS
<1>11. a \in Int /\ b = a + 1 /\ c = a + 2 /\ e = a + 3
  BY <1>2, <1>5, <1>10 DEF LabelRecord, FrameOK
<1>12. /\ Owed(Top) = {a, b, e} /\ Owed(f) = {a, b} /\ Targets(Top) = {a, b, c, e}
  BY <1>1, <1>5, <1>8, <1>10 DEF Owed, Targets
<1>13. Piece(<<Label(Top.labels.update)>>, {e}, none)
  BY <1>4, <1>10, <1>11, LabelPiece
<1>14. Piece(AfterUpdate(Top), none, {c})
  <2>1. Piece(<<Pop>>, none, none)
    BY <1>4, PlainPiece DEF Pop, Instruction
  <2>2. Piece(<<Goto(c)>>, none, {c})
    BY <1>4, <1>11, GotoPiece
  <2>3. Piece(<<Pop, Goto(c)>>, none \cup none, none \cup {c})
    BY <1>4, <2>1, <2>2, PairPiece
  <2>4. none \cup none = none /\ none \cup {c} = {c}
    BY <1>4
  <2> QED BY <1>10, <2>3, <2>4 DEF AfterUpdate
<1>15. {e} \cap Fresh(d) = {}
  BY <1>2, <1>12
<1>16. Piece(new, {e} \cup Fresh(d), {c})
  <2>1. Piece(new, {e} \cup Fresh(d) \cup none, none \cup none \cup {c})
    BY <1>3, <1>4, <1>13, <1>14, <1>15, ThreePieces
  <2>2. {e} \cup Fresh(d) \cup none = {e} \cup Fresh(d) /\ none \cup none \cup {c} = {c}
    BY <1>4
  <2> QED BY <2>1, <2>2
<1>17. /\ {e} \cup Fresh(d) = (Owed(Top) \ Owed(f)) \cup Fresh(d)
       /\ Owed(f) \subseteq Owed(Top)
       /\ {c} \subseteq Placed(code) \cup Live \cup Fresh(d)
  <2>1. Owed(Top) \ Owed(f) = {e}
    BY <1>11, <1>12
  <2> QED BY <1>2, <1>12, <2>1
<1> HIDE DEF new
<1> QED BY <1>1, <1>4, <1>7, <1>8, <1>9, <1>16, <1>17, MoveTop

\* A block of a loop pushes a break label; the first of an if, and that of a
\* for, place a label.
LEMMA EnterBlockKeeps == IInv /\ EnterBlock => IInv'
<1> SUFFICES ASSUME IInv, AtChild("block"), Emit(BlockEntry(Top)),
                    SetTop([Top EXCEPT !.next = "body"]), OpenBreak(Top),
                    UNCHANGED <<phase, tree, used>>
             PROVE  IInv'
  BY DEF EnterBlock
<1>1. phase = "inside" /\ open # <<>> /\ Top.next = "block"
  BY DEF AtChild
<1>2. /\ Top \in FrameRecord /\ FrameOK(Top) /\ Owed(Top) \subseteq Live
      /\ Targets(Top) \subseteq Placed(code) \cup Live
      /\ Top.block \in Nat /\ Top.labels \in LabelRecord
      /\ labelCounter \in Nat /\ Fresh(1) \cap Live = {}
  BY <1>1, TopOK
<1>3. PICK f : f = [Top EXCEPT !.next = "body"]
  OBVIOUS
<1>4. SetTop(f)
  BY <1>3
<1>5. /\ f \in FrameRecord /\ f.next = "body" /\ f.node = Top.node
      /\ f.kind = Top.kind /\ f.block = Top.block /\ f.labels = Top.labels
      /\ Targets(f) = Targets(Top)
  BY <1>2, <1>3, Advance
<1>6. FrameOK(f)
  BY <1>1, <1>2, <1>5 DEF FrameOK
<1> DEFINE new == BlockEntry(Top)
           none == {}
<1>7. Emit(new) /\ none = {} /\ none \subseteq Placed(code) \cup Live
  OBVIOUS
<1> HIDE DEF new, none
<1>8. CASE Top.kind = "if"
  <2>1. Fresh(0) = {} /\ 0 \in Nat /\ labelCounter' = labelCounter + 0
    BY <1>2, <1>8 DEF Fresh, OpenBreak, Loops
  <2>2. UNCHANGED breakLabels /\ OpenLoop(f) = OpenLoop(Top)
    BY <1>5, <1>8 DEF OpenBreak, OpenLoop, Loops
  <2>3. PICK conds, e : conds = Top.labels.conds /\ e = Top.labels.end
    OBVIOUS
  <2>4. /\ conds \in Seq(Int) /\ e \in Int /\ Top.block < Len(conds)
        /\ Len(conds) \in Nat /\ DOMAIN conds = 1..Len(conds)
        /\ \A i \in DOMAIN conds : conds[i] = e + i
    BY <1>2, <1>8, <2>3 DEF LabelRecord, FrameOK
  <2>5. /\ Owed(Top) = {e} \cup {conds[i] : i \in UnplacedConds(Top)}
        /\ Owed(f) = {e} \cup {conds[i] : i \in UnplacedConds(f)}
    BY <1>5, <1>8, <2>3 DEF Owed
  <2>6. UnplacedConds(f) = {i \in DOMAIN conds : i > Top.block + 1}
    BY <1>5, <2>3 DEF UnplacedConds
  <2>7. CASE Top.block = 0
    <3>1. UnplacedConds(Top) = DOMAIN conds
      BY <1>1, <2>3, <2>7 DEF UnplacedConds
    <3>2. 1 \in DOMAIN conds /\ conds[1] \in Int
      BY <2>4, <2>7
    <3>3. DOMAIN conds = UnplacedConds(f) \cup {1} /\ 1 \notin UnplacedConds(f)
      BY <2>4, <2>6, <2>7, <3>2
    <3>4. conds[1] \notin Owed(f)
      BY <2>4, <2>5, <2>6, <3>2, <3>3
    <3>5. Owed(Top) \ Owed(f) = {conds[1]} /\ Owed(f) \subseteq Owed(Top)
      BY <2>5, <3>1, <3>3, <3>4
    <3>6. Piece(new, {conds[1]}, none)
      BY <1>7, <1>8, <2>3, <2>7, <3>2, LabelPiece DEF new, BlockEntry
    <3>7. {conds[1]} = (Owed(Top) \ Owed(f)) \cup Fresh(0)
          /\ none \subseteq Placed(code) \cup Live \cup Fresh(0)
      BY <1>7, <2>1, <3>5
    <3> QED BY <1>1, <1>4, <1>5, <1>6, <1>7, <2>1, <2>2, <3>5, <3>6, <3>7, MoveTop
  <2>8. CASE Top.block # 0
    <3>1. UnplacedConds(Top) = UnplacedConds(f)
      BY <2>3, <2>6, <2>8 DEF UnplacedConds
    <3>2. Piece(new, none, none)
      BY <1>7, <1>8, <2>8, NoCode DEF new, BlockEntry
    <3>3. /\ none = (Owed(Top) \ Owed(f)) \cup Fresh(0) /\ Owed(f) \subseteq Owed(Top)
          /\ none \subseteq Placed(code) \cup Live \cup Fresh(0)
      BY <1>7, <2>1, <2>5, <3>1
    <3> QED BY <1>1, <1>4, <1>5, <1>6, <1>7, <2>1, <2>2, <3>2, <3>3, MoveTop
  <2> QED BY <2>7, <2>8
<1>9. CASE Top.kind \in Loops
  <2>1. labelCounter' = labelCounter + 1 /\ breakLabels' = Append(breakLabels, labelCounter)
    BY <1>9 DEF OpenBreak
  <2>2. Fresh(1) = {labelCounter} /\ 1 \in Nat
    BY <1>2 DEF Fresh
  <2>3. breakLabels \in Seq(Nat) /\ BreaksDistinct /\ labelCounter \notin Breaks
    BY <1>2, <2>2 DEF IInv, Types, OwedOnce, Live
  <2>4. /\ breakLabels' \in Seq(Nat) /\ Len(breakLabels') = Len(breakLabels) + 1
        /\ BreaksDistinct' /\ Breaks' = Breaks \cup {labelCounter}
    BY <1>2, <2>1, <2>3, PushBreak
  <2>5. OpenLoop(Top) = 0 /\ OpenLoop(f) = 1
    BY <1>1, <1>5, <1>9 DEF OpenLoop
  <2>6. Len(breakLabels') = Len(breakLabels) - OpenLoop(Top) + OpenLoop(f)
    BY <2>3, <2>4, <2>5
  <2>7. PICK P : Piece(new, P, none) /\ P = Owed(Top) \ Owed(f) /\ Owed(f) \subseteq Owed(Top)
    <3>1. CASE Top.kind = "for"
      <4>1. PICK a, b : a = Top.labels.start /\ b = Top.labels.end
        OBVIOUS
      <4>2. a \in Int /\ b = a + 1
        BY <1>2, <3>1, <4>1 DEF LabelRecord, FrameOK
      <4>3. Owed(Top) = {a, b} /\ Owed(f) = {b}
        BY <1>1, <1>5, <3>1, <4>1 DEF Owed
      <4>4. Owed(Top) \ Owed(f) = {a} /\ Owed(f) \subseteq Owed(Top)
        BY <4>2, <4>3
      <4>5. Piece(new, {a}, none)
        BY <1>7, <3>1, <4>1, <4>2, LabelPiece DEF new, BlockEntry
      <4> QED BY <4>4, <4>5
    <3>2. CASE Top.kind # "for"
      <4>1. Owed(f) = Owed(Top)
        BY <1>5, <1>9, <3>2 DEF Owed, Loops
      <4>2. Piece(new, none, none)
        BY <1>7, <1>9, <3>2, NoCode DEF new, BlockEntry, Loops
      <4> QED BY <1>7, <4>1, <4>2
    <3> QED BY <3>1, <3>2
  <2>8. /\ P = (Owed(Top) \ Owed(f)) \cup (Breaks \ Breaks') \cup (Fresh(1) \ Breaks')
        /\ Breaks' \subseteq Breaks \cup Fresh(1)
        /\ none \subseteq Placed(code) \cup Live \cup Fresh(1)
    BY <1>7, <2>2, <2>4, <2>7
  <2> QED BY <1>1, <1>4, <1>5, <1>6, <1>7, <2>1, <2>2, <2>4, <2>6, <2>7, <2>8, KeepTop
<1> QED BY <1>2, <1>8, <1>9 DEF FrameRecord

\* The end of a loop's block places what the loop owes, and the break label.
LEMMA ExitLoopBlockKeeps == IInv /\ ExitLoopBlock => IInv'
<1> SUFFICES ASSUME IInv, ExitLoopBlock PROVE IInv'
  OBVIOUS
<1>1. /\ phase = "inside" /\ open # <<>> /\ Top.next = "body" /\ Top.kind \in Loops
      /\ UNCHANGED <<phase, tree, used>> /\ labelCounter' = labelCounter
  BY DEF ExitLoopBlock, AtChild
<1>2. /\ Top \in FrameRecord /\ FrameOK(Top) /\ Owed(Top) \subseteq Live
      /\ Targets(Top) \subseteq Placed(code) \cup Live
      /\ Top.labels \in LabelRecord /\ labelCounter \in Nat /\ Owed(Top) \cap Breaks = {}
  BY <1>1, TopOK
<1>3. breakLabels \in Seq(Nat) /\ BreaksDistinct /\ open \in Seq(FrameRecord)
  BY DEF IInv, Types, OwedOnce
\* The loop is one of the open ones, so its break label is there.
<1>4. breakLabels # <<>>
  <2>1. Len(open) \in OpenLoops
    BY <1>1, <1>3, TopFacts DEF OpenLoops, Top
  <2>2. IsFiniteSet(OpenLoops) /\ Cardinality(OpenLoops) # 0
    BY <1>3, <2>1, OpenLoopsFinite, FS_EmptySet
  <2> QED BY <2>2 DEF IInv, BreakStackMatchesLoops
<1>5. PICK l : l = breakLabels[Len(breakLabels)]
  OBVIOUS
<1>6. Emit(LoopExit(Top) \o <<Label(l)>>) /\ breakLabels' = BreakLabelsPopped
  BY <1>4, <1>5 DEF ExitLoopBlock
<1>7. /\ breakLabels' \in Seq(Nat) /\ Len(breakLabels') = Len(breakLabels) - 1
      /\ l \in Breaks /\ l \in Nat /\ BreaksDistinct' /\ Breaks' = Breaks \ {l}
      /\ Len(breakLabels) \in Nat
  BY <1>3, <1>4, <1>5, <1>6, PopBreak
<1>8. Breaks \ Breaks' = {l}
  BY <1>7
<1>9. OpenLoop(Top) = 1
  BY <1>1 DEF OpenLoop
<1>10. Fresh(0) = {} /\ 0 \in Nat /\ labelCounter' = labelCounter + 0
  BY <1>1, <1>2 DEF Fresh
<1> DEFINE none == {}
<1>11. none = {}
  OBVIOUS
<1> HIDE DEF none
\* The loop's own exit code places what the loop still owes.
<1>12. PICK J : Piece(LoopExit(Top), Owed(Top), J) /\ J \subseteq Targets(Top)
  <2>1. PICK a, b, c, e : /\ a = Top.labels.start /\ b = Top.labels.end
                          /\ c = Top.labels.cond /\ e = Top.labels.update
    OBVIOUS
  <2>2. a \in Int /\ b \in Int /\ e \in Int
    BY <1>2, <2>1 DEF LabelRecord
  <2>3. Piece(<<Goto(a)>>, none, {a}) /\ Piece(<<Goto(e)>>, none, {e})
        /\ Piece(<<Label(b)>>, {b}, none)
    BY <1>11, <2>2, GotoPiece, LabelPiece
  <2>4. none \cup {b} = {b} /\ {a} \cup none = {a} /\ {e} \cup none = {e}
        /\ none \cap {b} = {}
    BY <1>11
  <2>5. CASE Top.kind = "while"
    <3>1. Owed(Top) = {b} /\ Targets(Top) = {a, b}
      BY <2>1, <2>5 DEF Owed, Targets
    <3>2. Piece(<<Goto(a), Label(b)>>, none \cup {b}, {a} \cup none)
      BY <2>3, <2>4, PairPiece
    <3>3. LoopExit(Top) = <<Goto(a), Label(b)>>
      BY <2>1, <2>5 DEF LoopExit
    <3> QED BY <2>4, <3>1, <3>2, <3>3
  <2>6. CASE Top.kind = "for"
    <3>1. Owed(Top) = {b} /\ Targets(Top) = {a, b, c, e}
      BY <1>1, <2>1, <2>6 DEF Owed, Targets
    <3>2. Piece(<<Goto(e), Label(b)>>, none \cup {b}, {e} \cup none)
      BY <2>3, <2>4, PairPiece
    <3>3. LoopExit(Top) = <<Goto(e), Label(b)>>
      BY <2>1, <2>6 DEF LoopExit
    <3> QED BY <2>4, <3>1, <3>2, <3>3
  <2>7. CASE Top.kind = "infinite"
    <3>1. Owed(Top) = none /\ Targets(Top) = {a}
      BY <1>11, <2>1, <2>7 DEF Owed, Targets
    <3>2. LoopExit(Top) = <<Goto(a)>>
      BY <2>1, <2>7 DEF LoopExit
    <3> QED BY <2>3, <3>1, <3>2
  <2>8. CASE Top.kind = "until"
    <3>1. Owed(Top) = {}
      BY <2>8 DEF Owed
    <3>2. LoopExit(Top) = <<>>
      BY <2>8 DEF LoopExit
    <3> QED BY <3>1, <3>2, NoCode
  <2> QED BY <1>1, <2>5, <2>6, <2>7, <2>8 DEF Loops
<1>13. Piece(LoopExit(Top) \o <<Label(l)>>, Owed(Top) \cup {l}, J)
  <2>1. Piece(<<Label(l)>>, {l}, none) /\ Owed(Top) \cap {l} = {}
    BY <1>2, <1>7, <1>11, LabelPiece
  <2>2. Piece(LoopExit(Top) \o <<Label(l)>>, Owed(Top) \cup {l}, J \cup none)
    BY <1>12, <2>1, TwoPieces
  <2>3. J \cup none = J
    BY <1>11
  <2> QED BY <2>2, <2>3
<1>14. J \subseteq Placed(code) \cup Live \cup Fresh(0)
  BY <1>2, <1>12
<1>15. CASE Top.kind = "until"
  <2>1. PICK f : f = [Top EXCEPT !.next = "cond"]
    OBVIOUS
  <2>2. SetTop(f)
    BY <1>15, <2>1 DEF ExitLoopBlock
  <2>3. /\ f \in FrameRecord /\ f.next = "cond" /\ f.node = Top.node
        /\ f.kind = Top.kind /\ f.block = Top.block /\ f.labels = Top.labels
        /\ Targets(f) = Targets(Top)
    BY <1>2, <2>1, Advance
  <2>4. FrameOK(f) /\ OpenLoop(f) = 0 /\ Owed(Top) = {} /\ Owed(f) = {}
    BY <1>2, <1>15, <2>3 DEF FrameOK, OpenLoop, Owed
  <2>5. /\ Owed(Top) \cup {l}
             = (Owed(Top) \ Owed(f)) \cup (Breaks \ Breaks') \cup (Fresh(0) \ Breaks')
        /\ Owed(f) \subseteq Owed(Top) /\ Breaks' \subseteq Breaks \cup Fresh(0)
    BY <1>7, <1>8, <1>10, <2>4
  <2>6. Len(breakLabels') = Len(breakLabels) - OpenLoop(Top) + OpenLoop(f)
    BY <1>7, <1>9, <2>4
  <2> QED BY <1>1, <1>6, <1>7, <1>10, <1>13, <1>14, <2>2, <2>3, <2>4, <2>5, <2>6, KeepTop
<1>16. CASE Top.kind # "until"
  <2>1. PopTop
    BY <1>16 DEF ExitLoopBlock
  <2>2. /\ Owed(Top) \cup {l} = Owed(Top) \cup (Breaks \ Breaks') \cup Fresh(0)
        /\ Breaks' \subseteq Breaks
    BY <1>7, <1>8, <1>10
  <2>3. Len(breakLabels') = Len(breakLabels) - OpenLoop(Top)
    BY <1>7, <1>9
  <2> QED BY <1>1, <1>6, <1>7, <1>10, <1>13, <1>14, <2>1, <2>2, <2>3, LeaveTop
<1> QED BY <1>15, <1>16

\* The end of an if's block places the next block's label, or the end's.
LEMMA ExitIfBlockKeeps == IInv /\ ExitIfBlock => IInv'
<1> SUFFICES ASSUME IInv, ExitIfBlock PROVE IInv'
  OBVIOUS
<1>1. /\ phase = "inside" /\ open # <<>> /\ Top.next = "body" /\ Top.kind = "if"
      /\ UNCHANGED <<phase, tree, used, breakLabels>> /\ labelCounter' = labelCounter
      /\ Emit(IfBlockExit(Top))
  BY DEF ExitIfBlock, AtChild
<1>2. /\ Top \in FrameRecord /\ FrameOK(Top) /\ Owed(Top) \subseteq Live
      /\ Targets(Top) \subseteq Placed(code) \cup Live
      /\ Top.node \in Nat /\ Top.block \in Nat /\ Top.labels \in LabelRecord
      /\ labelCounter \in Nat
  BY <1>1, TopOK
<1>3. PICK conds, e, k : conds = Top.labels.conds /\ e = Top.labels.end /\ k = Top.block
  OBVIOUS
<1>4. /\ conds \in Seq(Int) /\ e \in Int /\ k \in Nat /\ k < Len(conds)
      /\ Len(conds) \in Nat /\ DOMAIN conds = 1..Len(conds)
      /\ Len(conds) = Branches(tree[Top.node])
      /\ \A i \in DOMAIN conds : conds[i] = e + i
  BY <1>1, <1>2, <1>3 DEF LabelRecord, FrameOK
<1>5. IsLastBlock(Top) <=> k + 1 = Len(conds)
  BY <1>3, <1>4 DEF IsLastBlock
<1>6. UnplacedConds(Top) = {i \in DOMAIN conds : i > k + 1}
  BY <1>1, <1>3 DEF UnplacedConds
<1>7. Owed(Top) = {e} \cup {conds[i] : i \in UnplacedConds(Top)} /\ e \in Targets(Top)
  BY <1>1, <1>3 DEF Owed, Targets
<1>8. Fresh(0) = {} /\ 0 \in Nat /\ labelCounter' = labelCounter + 0
  BY <1>1, <1>2 DEF Fresh
<1>9. OpenLoop(Top) = 0
  BY <1>1 DEF OpenLoop, Loops
<1> DEFINE none == {}
           empty == <<>>
           toEnd == <<Goto(e)>>
           end == <<Label(e)>>
           new == IfBlockExit(Top)
<1>10. none = {} /\ Emit(new)
  BY <1>1
<1>11. Piece(empty, none, none) /\ empty = <<>>
  BY NoCode
<1> HIDE DEF none
<1>12. Piece(toEnd, none, {e}) /\ Piece(end, {e}, none)
  BY <1>4, <1>10, GotoPiece, LabelPiece
<1> HIDE DEF empty, toEnd, end
<1>13. {e} \subseteq Placed(code) \cup Live \cup Fresh(0)
  BY <1>2, <1>7
<1>14. CASE k + 1 = Len(conds)
  <2>1. PopTop
    BY <1>5, <1>14 DEF ExitIfBlock
  <2>2. Owed(Top) = {e}
    <3>1. UnplacedConds(Top) = {}
      BY <1>4, <1>6, <1>14
    <3> QED BY <1>7, <3>1
  <2>3. new = toEnd \o empty \o end
    BY <1>3, <1>4, <1>5, <1>11, <1>14 DEF IfBlockExit, toEnd, end
  <2>4. Piece(new, {e}, {e})
    <3>1. Piece(toEnd \o empty \o end, none \cup none \cup {e},
                {e} \cup none \cup none)
      <4>1. none \cap none = {} /\ none \cap {e} = {}
        BY <1>10
      <4> QED BY <1>11, <1>12, <4>1, ThreePieces
    <3>2. none \cup none \cup {e} = {e} /\ {e} \cup none \cup none = {e}
      BY <1>10
    <3> QED BY <2>3, <3>1, <3>2
  <2> HIDE DEF new
  <2>5. /\ Breaks' = Breaks /\ BreaksDistinct' /\ breakLabels' \in Seq(Nat)
        /\ Len(breakLabels) \in Nat
    BY <1>1 DEF IInv, Types, OwedOnce, BreaksDistinct, Breaks
  <2>6. /\ {e} = Owed(Top) \cup (Breaks \ Breaks') \cup Fresh(0) /\ Breaks' \subseteq Breaks
        /\ Len(breakLabels') = Len(breakLabels) - OpenLoop(Top)
    BY <1>1, <1>8, <1>9, <2>2, <2>5
  <2> QED BY <1>1, <1>8, <1>10, <1>13, <2>1, <2>4, <2>5, <2>6, LeaveTop
<1>15. CASE k + 1 # Len(conds)
  <2>1. k + 1 < Len(conds) /\ k + 2 \in DOMAIN conds /\ conds[k + 2] = e + (k + 2)
    BY <1>4, <1>15
  <2>2. PICK to \in {"cond", "block"} :
          SetTop([Top EXCEPT !.block = Top.block + 1, !.next = to])
    BY <1>5, <1>15 DEF ExitIfBlock
  <2>3. PICK f : f = [Top EXCEPT !.block = Top.block + 1, !.next = to]
    OBVIOUS
  <2>4. /\ f \in FrameRecord /\ f.next = to /\ f.node = Top.node /\ f.kind = Top.kind
        /\ f.block = k + 1 /\ f.labels = Top.labels /\ f.next \notin {"body", "update"}
    <3>1. Top.block + 1 \in Nat
      BY <1>2
    <3> QED BY <1>2, <1>3, <2>3, <3>1 DEF FrameRecord
  <2>5. SetTop(f)
    BY <2>2, <2>3
  <2>6. FrameOK(f) /\ OpenLoop(f) = OpenLoop(Top) /\ Targets(f) = Targets(Top)
    <3>1. FrameOK(f)
      BY <1>1, <1>2, <1>3, <2>1, <2>4 DEF FrameOK
    <3>2. OpenLoop(f) = OpenLoop(Top) /\ Targets(f) = Targets(Top)
      BY <1>1, <2>4 DEF OpenLoop, Targets, Loops
    <3> QED BY <3>1, <3>2
  <2>7. UnplacedConds(f) = {i \in DOMAIN conds : i > k + 2}
    BY <1>3, <1>4, <2>4, SMTT(30) DEF UnplacedConds
  <2>8. Owed(f) = {e} \cup {conds[i] : i \in UnplacedConds(f)}
    BY <1>1, <1>3, <2>4 DEF Owed
  <2>9. UnplacedConds(Top) = UnplacedConds(f) \cup {k + 2} /\ k + 2 \notin UnplacedConds(f)
    BY <1>4, <1>6, <2>1, <2>7
  <2>10. conds[k + 2] \notin Owed(f)
    BY <1>4, <2>1, <2>7, <2>8, <2>9
  <2>11. Owed(Top) \ Owed(f) = {conds[k + 2]} /\ Owed(f) \subseteq Owed(Top)
    BY <1>7, <2>8, <2>9, <2>10
  <2> DEFINE next == <<Label(conds[k + 2])>>
  <2>12. new = toEnd \o next \o empty
    BY <1>3, <1>5, <1>11, <1>15, <2>1 DEF IfBlockExit, toEnd
  <2>13. Piece(new, {conds[k + 2]}, {e})
    <3>1. Piece(next, {conds[k + 2]}, none)
      BY <1>4, <1>10, <2>1, LabelPiece
    <3> HIDE DEF next
    <3>2. Piece(toEnd \o next \o empty,
                none \cup {conds[k + 2]} \cup none, {e} \cup none \cup none)
      <4>1. none \cap {conds[k + 2]} = {} /\ none \cap none = {}
            /\ {conds[k + 2]} \cap none = {}
        BY <1>10
      <4> QED BY <1>11, <1>12, <3>1, <4>1, ThreePieces
    <3>3. /\ none \cup {conds[k + 2]} \cup none = {conds[k + 2]}
          /\ {e} \cup none \cup none = {e}
      BY <1>10
    <3> QED BY <2>12, <3>2, <3>3
  <2>14. {conds[k + 2]} = (Owed(Top) \ Owed(f)) \cup Fresh(0)
    BY <1>8, <2>11
  <2> HIDE DEF new
  <2> QED BY <1>1, <1>8, <1>10, <1>13, <2>4, <2>5, <2>6, <2>11, <2>13, <2>14, MoveTop
<1> QED BY <1>14, <1>15

\* Every step keeps the invariant.
LEMMA InductiveStep == IInv /\ [Next]_vars => IInv'
<1> SUFFICES ASSUME IInv, [Next]_vars PROVE IInv'
  OBVIOUS
<1>1. CASE ExitFunction
  <2>1. phase' \in Phases /\ open = <<>>
    BY <1>1 DEF ExitFunction, Phases
  <2> QED BY <1>1, <2>1, PhaseStep DEF ExitFunction
<1>2. CASE ExitProgram
  <2>1. phase' \in Phases /\ phase' # "outside"
    BY <1>2 DEF ExitProgram, Phases
  <2> QED BY <1>2, <2>1, PhaseStep DEF ExitProgram
<1>3. CASE ExitBreakThrows
  <2>1. phase' \in Phases /\ phase' # "outside"
    BY <1>3 DEF ExitBreakThrows, Phases
  <2> QED BY <1>3, <2>1, PhaseStep DEF ExitBreakThrows
<1>4. CASE UNCHANGED vars
  <2>1. /\ phase' \in Phases /\ (phase' = "outside" => open = <<>>)
        /\ UNCHANGED <<tree, used, open, labelCounter, breakLabels, code>>
    BY <1>4 DEF vars, IInv, Types, TreeOK
  <2> QED BY <2>1, PhaseStep
<1> QED BY <1>1, <1>2, <1>3, <1>4, EnterFunctionKeeps, SimpleStatementKeeps,
           ValueCallStatementKeeps, ExitReturnKeeps, ExitBreakKeeps, EnterIfKeeps,
           EnterWhileKeeps, EnterInfiniteKeeps, EnterUntilKeeps, EnterForKeeps,
           ConditionKeeps, ForUpdateKeeps, EnterBlockKeeps, ExitLoopBlockKeeps,
           ExitIfBlockKeeps DEF Next

-----------------------------------------------------------------------------
\* The invariant holds for every program: whatever the statements, however
\* they are nested, and however many labels the expressions take, a label of
\* an enter handler is owed by one frame of the walk, or on breakLabels, until
\* one exit handler places it.
THEOREM Invariant == Spec => []IInv
<1> QED BY InitIInv, InductiveStep, PTL DEF Spec

\* The listener's state keeps its shape for every program: the break labels are
\* numbers generateLabel has returned, and the open statements a chain of the
\* tree that is empty between two functions.
THEOREM TypeCorrect == Spec => []TypeOK
<1>1. ASSUME IInv PROVE TypeOK
  <2>1. \A k \in DOMAIN breakLabels : breakLabels[k] \in 0..(labelCounter - 1)
    BY <1>1 DEF IInv, OwedNotPlaced, Live, Breaks
  <2>2. \A n \in DOMAIN tree : tree[n].kind \in Kinds
    <3>1. \A n \in DOMAIN tree : tree[n] \in NodeRecord
      BY <1>1 DEF IInv, Types
    <3> QED BY <3>1 DEF NodeRecord
  <2>3. \A i \in DOMAIN open : open[i].node \in DOMAIN tree
    BY <1>1 DEF IInv, TreeOK, FrameOK
  <2> QED BY <1>1, <2>1, <2>2, <2>3 DEF TypeOK, IInv, Types, TreeOK
<1> QED BY <1>1, Invariant, PTL

\* No function's code places a label twice, for every program: JASM would
\* reject the class.
THEOREM LabelsOnce == Spec => []LabelsPlacedOnce
<1>1. IInv => LabelsPlacedOnce
  BY DEF IInv
<1> QED BY <1>1, Invariant, PTL

\* Every goto and ifeq of a finished function has its target in that function,
\* for every program: when the last statement is closed nothing is owed, and a
\* jump only goes to a label that is placed or owed.
THEOREM JumpsHaveTargets == Spec => []NoDanglingJump
<1>1. ASSUME IInv PROVE NoDanglingJump
  <2> SUFFICES ASSUME FunctionDone PROVE Jumps(code) \subseteq Placed(code)
    BY DEF NoDanglingJump, Jumps
  <2>1. Live = {}
    BY <1>1, NothingOwed DEF FunctionDone, IInv, TreeOK
  <2> QED BY <1>1, <2>1 DEF IInv, TargetsExist
<1> QED BY <1>1, Invariant, PTL

\* breakLabels has one label for each open loop block, for every program: a
\* break goes to the innermost loop, and no label leaks out of a loop.
THEOREM BreakStack == Spec => []BreakStackMatchesLoops
<1>1. IInv => BreakStackMatchesLoops
  BY DEF IInv
<1> QED BY <1>1, Invariant, PTL

=============================================================================
