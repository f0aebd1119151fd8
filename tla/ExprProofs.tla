----------------------------- MODULE ExprProofs -----------------------------
(***************************************************************************)
(* Theorems of ExprGen, for expressions of any size and nesting: the shape *)
(* of the walk's state, that no label is placed twice, and which           *)
(* expressions have a jump without a target.                               *)
(***************************************************************************)
EXTENDS ExprJumps, SequenceTheorems, TLAPS

-----------------------------------------------------------------------------
(* Pieces of code: the labels they place, each once, and the labels they   *)
(* jump to.                                                                *)

OtherOps == {"label", "iconst", "load", "isub", "iadd", "ixor", "ineg", "equals", "dup", "istore"}

Instruction == [op : JumpOps \cup OtherOps, arg : Nat]

Distinct(instructions) ==
  \A i, j \in Places(instructions) : instructions[i].arg = instructions[j].arg => i = j

Piece(instructions, placed, jumps) ==
  /\ instructions \in Seq(Instruction)
  /\ Placed(instructions) = placed /\ Targets(instructions) = jumps
  /\ Distinct(instructions)

\* Every instruction of ExprGen is one.
LEMMA Instructions ==
  ASSUME NEW op \in JumpOps \cup OtherOps, NEW arg \in Nat
  PROVE  Instr(op, arg) \in Instruction /\ Instr(op, arg).op = op /\ Instr(op, arg).arg = arg
BY DEF Instr, Instruction

\* No code places nothing and jumps nowhere.
LEMMA NoCode == Piece(<<>>, {}, {})
BY DEF Piece, Placed, Places, Targets, Distinct

\* One instruction.
LEMMA OneInstruction ==
  ASSUME NEW op \in JumpOps \cup OtherOps, NEW arg \in Nat
  PROVE  Piece(<<Instr(op, arg)>>, IF op = "label" THEN {arg} ELSE {},
               IF op \in JumpOps THEN {arg} ELSE {})
<1> DEFINE a == Instr(op, arg)
<1>1. a \in Instruction /\ a.op = op /\ a.arg = arg
  BY Instructions
<1> HIDE DEF a
<1>2. <<a>> \in Seq(Instruction) /\ DOMAIN <<a>> = {1} /\ <<a>>[1] = a
  BY <1>1
<1>3. Places(<<a>>) = IF op = "label" THEN {1} ELSE {}
  BY <1>1, <1>2 DEF Places
<1>4. Placed(<<a>>) = IF op = "label" THEN {arg} ELSE {}
  BY <1>1, <1>2, <1>3 DEF Placed
<1>5. Targets(<<a>>) = IF op \in JumpOps THEN {arg} ELSE {}
  BY <1>1, <1>2 DEF Targets
<1>6. Distinct(<<a>>)
  BY <1>3 DEF Distinct
<1> QED BY <1>2, <1>4, <1>5, <1>6 DEF Piece, a

\* Two pieces that place different labels, one after the other.
LEMMA TwoPieces ==
  ASSUME NEW s, NEW t, NEW P, NEW Q, NEW J, NEW K,
         Piece(s, P, J), Piece(t, Q, K), P \cap Q = {}
  PROVE  Piece(s \o t, P \cup Q, J \cup K)
<1>1. s \in Seq(Instruction) /\ t \in Seq(Instruction)
  BY DEF Piece
<1>2. /\ s \o t \in Seq(Instruction) /\ Len(s) \in Nat /\ Len(t) \in Nat
      /\ DOMAIN s = 1..Len(s) /\ DOMAIN t = 1..Len(t)
      /\ DOMAIN (s \o t) = 1..(Len(s) + Len(t))
      /\ \A i \in 1..Len(s) : (s \o t)[i] = s[i]
      /\ \A i \in 1..Len(t) :
           Len(s) + i \in DOMAIN (s \o t) /\ (s \o t)[Len(s) + i] = t[i]
  BY <1>1, ConcatProperties
<1>3. \A i \in DOMAIN (s \o t) :
        i \in DOMAIN s \/ \E j \in DOMAIN t : i = Len(s) + j
  <2> TAKE i \in DOMAIN (s \o t)
  <2>1. i <= Len(s) \/ i - Len(s) \in 1..Len(t)
    BY <1>2
  <2> QED BY <1>2, <2>1
<1>4. Placed(s \o t) = P \cup Q
  <2>1. Placed(s \o t) \subseteq P \cup Q
    BY <1>2, <1>3 DEF Piece, Placed, Places
  <2>2. P \subseteq Placed(s \o t)
    BY <1>2 DEF Piece, Placed, Places
  <2>3. Q \subseteq Placed(s \o t)
    <3>1. \A i \in Places(t) : Len(s) + i \in Places(s \o t)
      BY <1>2 DEF Places
    <3>2. ASSUME NEW i \in Places(t) PROVE t[i].arg \in Placed(s \o t)
      <4>1. (s \o t)[Len(s) + i] = t[i]
        BY <1>2 DEF Places
      <4> QED BY <3>1, <4>1 DEF Placed
    <3> QED BY <3>2 DEF Piece, Placed
  <2> QED BY <2>1, <2>2, <2>3
<1>5. Targets(s \o t) = J \cup K
  <2>1. Targets(s \o t) \subseteq J \cup K
    BY <1>2, <1>3 DEF Piece, Targets
  <2>2. J \subseteq Targets(s \o t)
    BY <1>2 DEF Piece, Targets
  <2>3. K \subseteq Targets(s \o t)
    <3> SUFFICES ASSUME NEW i \in DOMAIN t, t[i].op \in JumpOps
                 PROVE  t[i].arg \in Targets(s \o t)
      BY DEF Piece, Targets
    <3>1. Len(s) + i \in DOMAIN (s \o t) /\ (s \o t)[Len(s) + i] = t[i]
      BY <1>2
    <3> QED BY <3>1 DEF Targets
  <2> QED BY <2>1, <2>2, <2>3
<1>6. Distinct(s \o t)
  <2> SUFFICES ASSUME NEW i \in Places(s \o t), NEW j \in Places(s \o t),
                      (s \o t)[i].arg = (s \o t)[j].arg
               PROVE  i = j
    BY DEF Distinct
  <2>1. i \in DOMAIN (s \o t) /\ j \in DOMAIN (s \o t)
    BY DEF Places
  <2>2. CASE i \in DOMAIN s /\ j \in DOMAIN s
    BY <1>2, <2>2 DEF Piece, Distinct, Places
  <2>3. CASE \E k, l \in DOMAIN t : i = Len(s) + k /\ j = Len(s) + l
    BY <1>2, <2>3 DEF Piece, Distinct, Places
  <2>4. CASE i \in DOMAIN s /\ \E k \in DOMAIN t : j = Len(s) + k
    <3>1. PICK k \in DOMAIN t : j = Len(s) + k
      BY <2>4
    <3>2. t[k].op = "label" /\ t[k].arg = s[i].arg /\ s[i].op = "label"
      BY <1>2, <2>4, <3>1 DEF Places
    <3> QED BY <2>4, <3>2 DEF Piece, Placed, Places
  <2>5. CASE j \in DOMAIN s /\ \E k \in DOMAIN t : i = Len(s) + k
    <3>1. PICK k \in DOMAIN t : i = Len(s) + k
      BY <2>5
    <3>2. t[k].op = "label" /\ t[k].arg = s[j].arg /\ s[j].op = "label"
      BY <1>2, <2>5, <3>1 DEF Places
    <3> QED BY <2>5, <3>2 DEF Piece, Placed, Places
  <2> QED BY <1>3, <2>1, <2>2, <2>3, <2>4, <2>5
<1> QED BY <1>2, <1>4, <1>5, <1>6 DEF Piece

\* An instruction in front of a piece that does not place its label.
LEMMA Before ==
  ASSUME NEW op \in JumpOps \cup OtherOps, NEW arg \in Nat, NEW t, NEW Q, NEW K,
         Piece(t, Q, K), op = "label" => arg \notin Q
  PROVE  Piece(<<Instr(op, arg)>> \o t, IF op = "label" THEN {arg} \cup Q ELSE Q,
               IF op \in JumpOps THEN {arg} \cup K ELSE K)
<1> DEFINE P == IF op = "label" THEN {arg} ELSE {}
           J == IF op \in JumpOps THEN {arg} ELSE {}
<1>1. Piece(<<Instr(op, arg)>>, P, J)
  BY OneInstruction
<1>2. P \cap Q = {}
  OBVIOUS
<1>3. /\ P \cup Q = IF op = "label" THEN {arg} \cup Q ELSE Q
      /\ J \cup K = IF op \in JumpOps THEN {arg} \cup K ELSE K
  OBVIOUS
<1> HIDE DEF P, J
<1>4. Piece(<<Instr(op, arg)>> \o t, P \cup Q, J \cup K)
  BY <1>1, <1>2, TwoPieces
<1> QED BY <1>3, <1>4

-----------------------------------------------------------------------------
(* The labels.  An operator of Parents owes the labels its operands or its *)
(* own exit handler are to place.  `lost` are the operands, as pairs of a  *)
(* node and an index, whose handlers returned before the parent's jumps,   *)
(* and `stranded` says that some operator strands a jump.                  *)

Kinds == Unary \cup Binary \cup {"if"}

Frame == [node : Nat, kind : Kinds, walked : Nat, fall : Nat, exit : Nat, processed : BOOLEAN]

\* The labels an open frame still has to place.
Owed(f) ==
  CASE f.kind \in {"and", "or"} ->
         IF f.walked <= 1 THEN {f.fall, f.exit} ELSE IF f.processed THEN {f.exit} ELSE {}
    [] f.kind = "if" ->
         (IF f.walked <= 1 THEN {f.fall} ELSE {}) \cup (IF f.walked <= 2 THEN {f.exit} ELSE {})
    [] OTHER -> {}

OwedBy(frames) == UNION {Owed(frames[i]) : i \in DOMAIN frames}

\* A frame's labels are two that generateLabel has returned.
FrameOK(f, counter) ==
  /\ f.kind \in Parents => f.fall # f.exit /\ f.fall < counter /\ f.exit < counter
  /\ f.processed => f.kind \in {"and", "or"} /\ f.walked = 2

FramesDisjoint(frames) ==
  \A i, j \in DOMAIN frames : i # j => Owed(frames[i]) \cap Owed(frames[j]) = {}

\* The jumps that operands of a frame have placed so far.
JumpsOK(f, instructions, lost) ==
  f.kind \in Parents =>
    /\ f.walked = 0 => f.fall \notin Targets(instructions)
    /\ f.walked = 1 => (f.fall \in Targets(instructions) <=> <<f.node, 0>> \notin lost)
    /\ f.walked <= 1 => f.exit \notin Targets(instructions)
    /\ f.kind = "if" /\ f.walked = 2 =>
         (f.exit \in Targets(instructions) <=> <<f.node, 1>> \notin lost)

\* Nothing is placed twice, what is owed is not placed yet, and unless an
\* operator has stranded a jump, every target is placed or owed.
LabelsOK(frames, instructions, counter, lost, stranded) ==
  /\ frames \in Seq(Frame) /\ instructions \in Seq(Instruction) /\ counter \in Nat
  /\ \A i \in DOMAIN frames : FrameOK(frames[i], counter)
  /\ FramesDisjoint(frames)
  /\ Placed(instructions) \cup Targets(instructions) \subseteq 0..(counter - 1)
  /\ Placed(instructions) \cap OwedBy(frames) = {}
  /\ Distinct(instructions)
  /\ \A i \in DOMAIN frames : JumpsOK(frames[i], instructions, lost)
  /\ Targets(instructions) \subseteq Placed(instructions) \cup OwedBy(frames) <=> ~stranded

\* The innermost frame is replaced by one that owes no more.
LEMMA ReplaceLast ==
  ASSUME NEW fs \in Seq(Frame), fs # <<>>, FramesDisjoint(fs), NEW f \in Frame,
         Owed(f) \subseteq Owed(fs[Len(fs)])
  PROVE  LET gs == [fs EXCEPT ![Len(fs)] = f] IN
         /\ gs \in Seq(Frame) /\ Len(gs) = Len(fs) /\ DOMAIN gs = DOMAIN fs
         /\ Len(fs) \in DOMAIN fs /\ gs[Len(fs)] = f
         /\ \A i \in DOMAIN fs : i # Len(fs) => gs[i] = fs[i]
         /\ FramesDisjoint(gs)
         /\ OwedBy(gs) = (OwedBy(fs) \ Owed(fs[Len(fs)])) \cup Owed(f)
<1> DEFINE gs == [fs EXCEPT ![Len(fs)] = f]
<1>1. /\ gs \in Seq(Frame) /\ Len(gs) = Len(fs) /\ DOMAIN gs = DOMAIN fs
      /\ Len(fs) \in DOMAIN fs /\ gs[Len(fs)] = f
      /\ \A i \in DOMAIN fs : i # Len(fs) => gs[i] = fs[i]
  OBVIOUS
<1> HIDE DEF gs
<1>2. \A i \in DOMAIN fs : Owed(gs[i]) \subseteq Owed(fs[i])
  BY <1>1
<1>3. FramesDisjoint(gs)
  BY <1>1, <1>2 DEF FramesDisjoint
<1>4. \A i \in DOMAIN fs : i # Len(fs) => Owed(fs[i]) \cap Owed(fs[Len(fs)]) = {}
  BY <1>1 DEF FramesDisjoint
<1>5. OwedBy(gs) = (OwedBy(fs) \ Owed(fs[Len(fs)])) \cup Owed(f)
  <2>1. OwedBy(gs) \subseteq (OwedBy(fs) \ Owed(fs[Len(fs)])) \cup Owed(f)
    BY <1>1, <1>4 DEF OwedBy
  <2>2. Owed(f) \subseteq OwedBy(gs)
    BY <1>1 DEF OwedBy
  <2>3. OwedBy(fs) \ Owed(fs[Len(fs)]) \subseteq OwedBy(gs)
    BY <1>1 DEF OwedBy
  <2> QED BY <2>1, <2>2, <2>3
<1> QED BY <1>1, <1>3, <1>5 DEF gs

\* The innermost frame is left.
LEMMA DropLast ==
  ASSUME NEW fs \in Seq(Frame), fs # <<>>, FramesDisjoint(fs)
  PROVE  LET gs == SubSeq(fs, 1, Len(fs) - 1) IN
         /\ gs \in Seq(Frame) /\ DOMAIN gs = 1..(Len(fs) - 1) /\ Len(gs) = Len(fs) - 1
         /\ DOMAIN gs \subseteq DOMAIN fs /\ \A i \in DOMAIN gs : gs[i] = fs[i]
         /\ Len(fs) \in DOMAIN fs
         /\ FramesDisjoint(gs)
         /\ OwedBy(gs) = OwedBy(fs) \ Owed(fs[Len(fs)])
<1> DEFINE gs == SubSeq(fs, 1, Len(fs) - 1)
<1>1. /\ gs \in Seq(Frame) /\ DOMAIN gs = 1..(Len(fs) - 1) /\ Len(gs) = Len(fs) - 1
      /\ Len(fs) \in Nat /\ Len(fs) >= 1 /\ DOMAIN fs = 1..Len(fs)
      /\ \A i \in DOMAIN gs : gs[i] = fs[i]
  <2>1. Len(fs) \in Nat /\ Len(fs) >= 1 /\ DOMAIN fs = 1..Len(fs)
    OBVIOUS
  <2>2. gs \in Seq(Frame) /\ Len(gs) = Len(fs) - 1
    BY <2>1
  <2>3. DOMAIN gs = 1..(Len(fs) - 1)
    BY <2>2
  <2>4. \A i \in 1..(Len(fs) - 1) : gs[i] = fs[i]
    BY <2>1
  <2> QED BY <2>1, <2>2, <2>3, <2>4
<1> HIDE DEF gs
<1>2. DOMAIN fs = DOMAIN gs \cup {Len(fs)} /\ Len(fs) \notin DOMAIN gs
  BY <1>1
<1>3. FramesDisjoint(gs)
  BY <1>1, <1>2 DEF FramesDisjoint
<1>4. \A i \in DOMAIN gs : Owed(fs[i]) \cap Owed(fs[Len(fs)]) = {}
  BY <1>2 DEF FramesDisjoint
<1>5. OwedBy(gs) = OwedBy(fs) \ Owed(fs[Len(fs)])
  <2>1. OwedBy(gs) \subseteq OwedBy(fs) \ Owed(fs[Len(fs)])
    BY <1>1, <1>2, <1>4 DEF OwedBy
  <2>2. OwedBy(fs) \ Owed(fs[Len(fs)]) \subseteq OwedBy(gs)
    BY <1>1, <1>2 DEF OwedBy
  <2> QED BY <2>1, <2>2
<1> QED BY <1>1, <1>2, <1>3, <1>5 DEF gs

\* A frame is opened, and owes what no other does.
LEMMA PushLast ==
  ASSUME NEW fs \in Seq(Frame), FramesDisjoint(fs), NEW f \in Frame,
         Owed(f) \cap OwedBy(fs) = {}
  PROVE  LET gs == Append(fs, f) IN
         /\ gs \in Seq(Frame) /\ DOMAIN gs = DOMAIN fs \cup {Len(fs) + 1}
         /\ Len(gs) = Len(fs) + 1 /\ Len(fs) + 1 \notin DOMAIN fs
         /\ gs[Len(fs) + 1] = f /\ \A i \in DOMAIN fs : gs[i] = fs[i]
         /\ FramesDisjoint(gs)
         /\ OwedBy(gs) = OwedBy(fs) \cup Owed(f)
<1> DEFINE gs == Append(fs, f)
<1>1. /\ gs \in Seq(Frame) /\ DOMAIN gs = DOMAIN fs \cup {Len(fs) + 1}
      /\ Len(gs) = Len(fs) + 1 /\ Len(fs) + 1 \notin DOMAIN fs
      /\ gs[Len(fs) + 1] = f /\ \A i \in DOMAIN fs : gs[i] = fs[i]
  OBVIOUS
<1> HIDE DEF gs
<1>2. \A i \in DOMAIN fs : Owed(fs[i]) \subseteq OwedBy(fs)
  BY DEF OwedBy
<1>3. FramesDisjoint(gs)
  BY <1>1, <1>2 DEF FramesDisjoint
<1>4. OwedBy(gs) = OwedBy(fs) \cup Owed(f)
  BY <1>1 DEF OwedBy
<1> QED BY <1>1, <1>3, <1>4 DEF gs

\* The labels that an operand's handler places for its parent, and the jumps.
ParentPlaces(f, i) ==
  IF f.kind \in Parents /\ i = 1 THEN {f.fall}
  ELSE IF f.kind = "if" /\ i = 2 THEN {f.exit} ELSE {}

ParentTargets(f, i) ==
  CASE f.kind \in Parents /\ i = 0 -> {f.fall}
    [] f.kind \in {"and", "or"} /\ i = 1 -> {f.fall, f.exit}
    [] f.kind = "if" /\ i = 1 -> {f.exit}
    [] OTHER -> {}

\* They are the code that ParentJumps generates.
LEMMA ParentPiece ==
  ASSUME NEW f \in Frame, NEW i \in Nat
  PROVE  Piece(ParentJumps(f, i), ParentPlaces(f, i), ParentTargets(f, i))
<1>1. f.fall \in Nat /\ f.exit \in Nat /\ f.kind \in Kinds
  BY DEF Frame
<1>2. CASE f.kind \in Parents /\ i = 0
  <2>1. ParentJumps(f, i) = <<Instr(IF f.kind = "or" THEN "ifne" ELSE "ifeq", f.fall)>>
    BY <1>2 DEF ParentJumps, Parents
  <2>2. ParentPlaces(f, i) = {} /\ ParentTargets(f, i) = {f.fall}
    BY <1>2 DEF ParentPlaces, ParentTargets, Parents
  <2> QED BY <1>1, <2>1, <2>2, OneInstruction DEF JumpOps
<1>3. CASE f.kind = "if" /\ i = 1
  <2>1. ParentJumps(f, i) = <<Instr("goto", f.exit), Instr("label", f.fall)>>
    BY <1>3 DEF ParentJumps, Label
  <2>2. ParentPlaces(f, i) = {f.fall} /\ ParentTargets(f, i) = {f.exit}
    BY <1>3 DEF ParentPlaces, ParentTargets, Parents
  <2> QED BY <1>1, <2>1, <2>2, Instructions
          DEF Piece, Placed, Places, Targets, Distinct, JumpOps, OtherOps
<1>4. CASE f.kind = "if" /\ i = 2
  <2>1. ParentJumps(f, i) = <<Instr("label", f.exit)>>
    BY <1>4 DEF ParentJumps, Label
  <2>2. ParentPlaces(f, i) = {f.exit} /\ ParentTargets(f, i) = {}
    BY <1>4 DEF ParentPlaces, ParentTargets, Parents
  <2>3. "label" \in JumpOps \cup OtherOps /\ "label" \notin JumpOps
    BY DEF JumpOps, OtherOps
  <2> QED BY <1>1, <2>1, <2>2, <2>3, OneInstruction
<1>5. CASE f.kind \in {"and", "or"} /\ i = 1
  <2>1. PICK op, v, w :
          /\ op = (IF f.kind = "or" THEN "ifne" ELSE "ifeq")
          /\ v = (IF f.kind = "or" THEN 0 ELSE 1) /\ w = (IF f.kind = "or" THEN 1 ELSE 0)
          /\ ParentJumps(f, i) = <<Instr(op, f.fall), Instr("iconst", v),
                                   Instr("goto", f.exit), Instr("label", f.fall),
                                   Instr("iconst", w)>>
    BY <1>5 DEF ParentJumps, Label, Push
  <2>2. ParentPlaces(f, i) = {f.fall} /\ ParentTargets(f, i) = {f.fall, f.exit}
    BY <1>5 DEF ParentPlaces, ParentTargets, Parents
  <2>3. PICK a, b, c, d, e : /\ a = Instr(op, f.fall) /\ b = Instr("iconst", v)
                             /\ c = Instr("goto", f.exit) /\ d = Instr("label", f.fall)
                             /\ e = Instr("iconst", w)
    OBVIOUS
  <2>4. /\ a \in Instruction /\ b \in Instruction /\ c \in Instruction
        /\ d \in Instruction /\ e \in Instruction
        /\ a.op \in JumpOps /\ a.arg = f.fall /\ b.op \notin JumpOps /\ c.op \in JumpOps
        /\ c.arg = f.exit /\ d.op = "label" /\ d.arg = f.fall /\ e.op \notin JumpOps
        /\ a.op # "label" /\ b.op # "label" /\ c.op # "label" /\ e.op # "label"
        /\ d.op \notin JumpOps
    BY <1>1, <2>1, <2>3, Instructions, SMTT(30) DEF JumpOps, OtherOps
  <2>5. Piece(<<a, b, c, d, e>>, {f.fall}, {f.fall, f.exit})
    <3>1. <<a, b, c, d, e>> \in Seq(Instruction) /\ DOMAIN <<a, b, c, d, e>> = 1..5
      BY <2>4
    <3>2. Places(<<a, b, c, d, e>>) = {4}
      BY <2>4, <3>1 DEF Places
    <3>3. Placed(<<a, b, c, d, e>>) = {f.fall}
      BY <2>4, <3>2 DEF Placed
    <3>4. Targets(<<a, b, c, d, e>>) = {f.fall, f.exit}
      BY <2>4, <3>1 DEF Targets
    <3> QED BY <3>1, <3>2, <3>3, <3>4 DEF Piece, Distinct
  <2> QED BY <2>1, <2>2, <2>3, <2>5
<1>6. CASE /\ ~(f.kind \in Parents /\ i \in {0, 1}) /\ ~(f.kind = "if" /\ i = 2)
  <2>1. ParentJumps(f, i) = <<>>
    BY <1>6 DEF ParentJumps, Parents
  <2>2. ParentPlaces(f, i) = {} /\ ParentTargets(f, i) = {}
    BY <1>6 DEF ParentPlaces, ParentTargets, Parents
  <2> QED BY <2>1, <2>2, NoCode
<1> QED BY <1>2, <1>3, <1>4, <1>5, <1>6 DEF Parents

\* The labels an operator places when all its operands are in place, and
\* the jumps; the new ones are labelCounter and the next.
OwnPlaces(f, t) ==
  CASE f.kind \in {"eq", "lt"} /\ ~IsStringComparison(f.kind, t) ->
         {labelCounter, labelCounter + 1}
    [] f.kind = "plus" -> {labelCounter}
    [] f.kind \in {"and", "or"} /\ f.processed -> {f.exit}
    [] OTHER -> {}

OwnTargets(f, t) == OwnPlaces(f, t) \ Owed(f)

\* They are the code that Combine generates.
LEMMA OwnPiece ==
  ASSUME NEW f \in Frame, NEW t, ~Throws(f, t), labelCounter \in Nat,
         f.kind \in {"and", "or"} => f.walked = 2
  PROVE  Piece(Combine(f, t), OwnPlaces(f, t), OwnTargets(f, t))
<1>1. f.exit \in Nat /\ f.kind \in Kinds /\ labelCounter + 1 \in Nat
  BY DEF Frame
<1>2. CASE f.kind \in {"eq", "lt"} /\ IsStringComparison(f.kind, t)
  <2>1. Combine(f, t) = <<Instr("equals", 0)>>
    BY <1>2 DEF Combine
  <2>2. OwnPlaces(f, t) = {} /\ OwnTargets(f, t) = {}
    BY <1>2 DEF OwnPlaces, OwnTargets
  <2>3. "equals" \in JumpOps \cup OtherOps /\ "equals" \notin JumpOps
    BY DEF JumpOps, OtherOps
  <2> QED BY <2>1, <2>2, <2>3, OneInstruction
<1>3. CASE f.kind \in {"eq", "lt"} /\ ~IsStringComparison(f.kind, t)
  <2>1. PICK op : op = ComparisonOp(f.kind, t[1])
    OBVIOUS
  <2>2. op \in {"if_icmpeq", "if_icmplt", "if_acmpeq"}
    <3>1. op # "throw"
      BY <1>3, <2>1 DEF Throws
    <3> QED BY <2>1, <3>1 DEF ComparisonOp
  <2>3. PICK a, b, c, d, e, g :
          /\ a = Instr(op, labelCounter) /\ b = Instr("iconst", 0)
          /\ c = Instr("goto", labelCounter + 1) /\ d = Instr("label", labelCounter)
          /\ e = Instr("iconst", 1) /\ g = Instr("label", labelCounter + 1)
    OBVIOUS
  <2>4. Combine(f, t) = <<a>> \o <<b, c, d, e, g>>
    BY <1>3, <2>1, <2>3 DEF Combine, Materialise, Label, Push
  <2>5. /\ b \in Instruction /\ c \in Instruction
        /\ d \in Instruction /\ e \in Instruction /\ g \in Instruction
        /\ b.op \notin JumpOps /\ c.op \in JumpOps /\ c.arg = labelCounter + 1
        /\ d.op = "label" /\ d.arg = labelCounter /\ e.op \notin JumpOps
        /\ g.op = "label" /\ g.arg = labelCounter + 1
        /\ b.op # "label" /\ c.op # "label" /\ e.op # "label"
        /\ d.op \notin JumpOps /\ g.op \notin JumpOps
    BY <1>1, <2>3, Instructions DEF JumpOps, OtherOps
  <2>6. Piece(<<b, c, d, e, g>>, {labelCounter, labelCounter + 1}, {labelCounter + 1})
    <3>1. <<b, c, d, e, g>> \in Seq(Instruction) /\ DOMAIN <<b, c, d, e, g>> = 1..5
      BY <2>5
    <3>2. Places(<<b, c, d, e, g>>) = {3, 5}
      BY <2>5, <3>1 DEF Places
    <3>3. Placed(<<b, c, d, e, g>>) = {labelCounter, labelCounter + 1}
      BY <2>5, <3>2 DEF Placed
    <3>4. Targets(<<b, c, d, e, g>>) = {labelCounter + 1}
      BY <2>5, <3>1 DEF Targets
    <3>5. Distinct(<<b, c, d, e, g>>)
      BY <2>5, <3>2 DEF Distinct
    <3> QED BY <3>1, <3>3, <3>4, <3>5 DEF Piece
  <2>7. op \in JumpOps /\ op # "label"
    BY <2>2 DEF JumpOps
  <2>8. Piece(<<a>> \o <<b, c, d, e, g>>, {labelCounter, labelCounter + 1},
              {labelCounter} \cup {labelCounter + 1})
    BY <2>3, <2>6, <2>7, Before
  <2>9. OwnPlaces(f, t) = {labelCounter, labelCounter + 1} /\ OwnTargets(f, t) = OwnPlaces(f, t)
    BY <1>3 DEF OwnPlaces, OwnTargets, Owed
  <2> QED BY <2>4, <2>8, <2>9
<1>4. CASE f.kind = "plus"
  <2>1. PICK a, b, c, d : /\ a = Instr("dup", 0) /\ b = Instr("ifge", labelCounter)
                          /\ c = Instr("ineg", 0) /\ d = Instr("label", labelCounter)
    OBVIOUS
  <2>2. Combine(f, t) = <<a, b, c, d>>
    BY <1>4, <2>1 DEF Combine, Label
  <2>3. /\ a \in Instruction /\ b \in Instruction /\ c \in Instruction /\ d \in Instruction
        /\ a.op \notin JumpOps /\ b.op \in JumpOps /\ b.arg = labelCounter
        /\ c.op \notin JumpOps /\ d.op = "label" /\ d.arg = labelCounter
        /\ a.op # "label" /\ b.op # "label" /\ c.op # "label" /\ d.op \notin JumpOps
    BY <2>1, Instructions DEF JumpOps, OtherOps
  <2>4. Piece(<<a, b, c, d>>, {labelCounter}, {labelCounter})
    <3>1. <<a, b, c, d>> \in Seq(Instruction) /\ DOMAIN <<a, b, c, d>> = 1..4
      BY <2>3
    <3>2. Places(<<a, b, c, d>>) = {4}
      BY <2>3, <3>1 DEF Places
    <3>3. Placed(<<a, b, c, d>>) = {labelCounter}
      BY <2>3, <3>2 DEF Placed
    <3>4. Targets(<<a, b, c, d>>) = {labelCounter}
      BY <2>3, <3>1 DEF Targets
    <3> QED BY <3>1, <3>2, <3>3, <3>4 DEF Piece, Distinct
  <2>5. OwnPlaces(f, t) = {labelCounter} /\ OwnTargets(f, t) = OwnPlaces(f, t)
    BY <1>4 DEF OwnPlaces, OwnTargets, Owed
  <2> QED BY <2>2, <2>4, <2>5
<1>5. CASE f.kind \in {"and", "or"} /\ f.processed
  <2>1. Combine(f, t) = <<Instr("label", f.exit)>>
    BY <1>5 DEF Combine, Label
  <2>2. OwnPlaces(f, t) = {f.exit} /\ OwnTargets(f, t) = {}
    BY <1>5 DEF OwnPlaces, OwnTargets, Owed
  <2>3. "label" \in JumpOps \cup OtherOps /\ "label" \notin JumpOps
    BY DEF JumpOps, OtherOps
  <2> QED BY <1>1, <2>1, <2>2, <2>3, OneInstruction
<1>6. CASE f.kind \in {"paren", "if"} \/ (f.kind \in {"and", "or"} /\ ~f.processed)
  <2>1. Combine(f, t) = <<>>
    BY <1>6 DEF Combine
  <2>2. OwnPlaces(f, t) = {} /\ OwnTargets(f, t) = {}
    BY <1>6 DEF OwnPlaces, OwnTargets
  <2> QED BY <2>1, <2>2, NoCode
<1>7. CASE f.kind \in {"sub", "not", "increment"}
  <2>1. OwnPlaces(f, t) = {} /\ OwnTargets(f, t) = {}
    BY <1>7 DEF OwnPlaces, OwnTargets
  <2>2. Piece(Combine(f, t), {}, {})
    <3>1. CASE f.kind = "sub"
      <4>1. Combine(f, t) = <<Instr("isub", 0)>>
        BY <3>1 DEF Combine
      <4>2. "isub" \in JumpOps \cup OtherOps /\ "isub" \notin JumpOps
        BY DEF JumpOps, OtherOps
      <4> QED BY <4>1, <4>2, OneInstruction
    <3>2. CASE f.kind = "not"
      <4>1. Combine(f, t) = <<>> \/ Combine(f, t) = <<Instr("iconst", 1), Instr("ixor", 0)>>
        BY <3>2 DEF Combine, Push
      <4>2. Piece(<<Instr("iconst", 1), Instr("ixor", 0)>>, {}, {})
        BY Instructions DEF Piece, Placed, Places, Targets, Distinct, JumpOps, OtherOps
      <4> QED BY <4>1, <4>2, NoCode
    <3>3. CASE f.kind = "increment"
      <4>1. PICK a, b, c, d : /\ a = Instr("iconst", 1) /\ b = Instr("iadd", 0)
                              /\ c = Instr("dup", 0) /\ d = Instr("istore", 0)
        OBVIOUS
      <4>2. Combine(f, t) = <<a, b, c, d>>
        BY <3>3, <4>1 DEF Combine, Push
      <4>3. \A x \in {a, b, c, d} : x \in Instruction /\ x.op \notin JumpOps /\ x.op # "label"
        BY <4>1, Instructions DEF JumpOps, OtherOps
      <4>4. <<a, b, c, d>> \in Seq(Instruction) /\ DOMAIN <<a, b, c, d>> = 1..4
        BY <4>3
      <4>5. Places(<<a, b, c, d>>) = {} /\ Targets(<<a, b, c, d>>) = {}
        BY <4>3, <4>4 DEF Places, Targets
      <4> QED BY <4>2, <4>4, <4>5 DEF Piece, Placed, Distinct
    <3> QED BY <1>7, <3>1, <3>2, <3>3
  <2> QED BY <2>1, <2>2
<1> QED BY <1>1, <1>2, <1>3, <1>4, <1>5, <1>6, <1>7 DEF Kinds, Unary, Binary

-----------------------------------------------------------------------------
(* The labels through one step.                                            *)

\* Both pairs of a frame that JumpsOK asks about are lost, or not, alike.
Alike(f, lost, lostNow) ==
  \A k \in {0, 1} : k < f.walked => (<<f.node, k>> \in lost <=> <<f.node, k>> \in lostNow)

\* What a frame owes is reserved.
LEMMA OwedReserved ==
  ASSUME NEW fs \in Seq(Frame), NEW n \in Nat, \A i \in DOMAIN fs : FrameOK(fs[i], n)
  PROVE  OwedBy(fs) \subseteq 0..(n - 1)
<1> SUFFICES ASSUME NEW i \in DOMAIN fs, NEW l \in Owed(fs[i]) PROVE l \in 0..(n - 1)
  BY DEF OwedBy
<1>1. fs[i] \in Frame
  OBVIOUS
<1>2. fs[i].kind \in Parents /\ l \in {fs[i].fall, fs[i].exit}
  BY DEF Owed, Parents
<1>3. fs[i].fall \in Nat /\ fs[i].exit \in Nat
  BY <1>1 DEF Frame
<1>4. fs[i].fall < n /\ fs[i].exit < n
  BY <1>2 DEF FrameOK
<1> QED BY <1>2, <1>3, <1>4

\* Jumps to labels a frame does not owe are nothing to it.
LEMMA JumpsElsewhere ==
  ASSUME NEW f \in Frame, NEW s, NEW t, NEW lost, NEW lostNow, NEW J,
         JumpsOK(f, s, lost), Alike(f, lost, lostNow),
         Targets(t) = Targets(s) \cup J, Owed(f) \cap J = {}
  PROVE  JumpsOK(f, t, lostNow)
<1> SUFFICES ASSUME f.kind \in Parents PROVE JumpsOK(f, t, lostNow)
  BY DEF JumpsOK
<1>1. f.walked \in Nat
  BY DEF Frame
<1>2. f.walked <= 1 => f.fall \in Owed(f) /\ f.exit \in Owed(f)
  BY <1>1 DEF Owed, Parents
<1>3. f.kind = "if" /\ f.walked = 2 => f.exit \in Owed(f)
  BY <1>1 DEF Owed
<1>4. f.walked <= 1 => /\ f.fall \in Targets(t) <=> f.fall \in Targets(s)
                       /\ f.exit \in Targets(t) <=> f.exit \in Targets(s)
  BY <1>2
<1>5. f.kind = "if" /\ f.walked = 2 => (f.exit \in Targets(t) <=> f.exit \in Targets(s))
  BY <1>3
<1>6. f.walked = 1 => (<<f.node, 0>> \in lost <=> <<f.node, 0>> \in lostNow)
  BY DEF Alike
<1>7. f.walked = 2 => (<<f.node, 1>> \in lost <=> <<f.node, 1>> \in lostNow)
  BY DEF Alike
<1> QED BY <1>1, <1>4, <1>5, <1>6, <1>7 DEF JumpsOK

\* An operator is entered and reserves its labels.
LEMMA EnterLabels ==
  ASSUME NEW fs, NEW c, NEW n, NEW lost, NEW str, NEW f \in Frame,
         LabelsOK(fs, c, n, lost, str),
         f.walked = 0, f.processed = FALSE,
         f.kind \in Parents => {f.fall, f.exit} = {n, n + 1}
  PROVE  LabelsOK(Append(fs, f), c, n + ReservedLabels(f.kind), lost, str)
<1> DEFINE gs == Append(fs, f)
           m  == n + ReservedLabels(f.kind)
<1>1. /\ fs \in Seq(Frame) /\ c \in Seq(Instruction) /\ n \in Nat
      /\ \A i \in DOMAIN fs : FrameOK(fs[i], n)
      /\ FramesDisjoint(fs)
      /\ Placed(c) \cup Targets(c) \subseteq 0..(n - 1)
      /\ Placed(c) \cap OwedBy(fs) = {}
      /\ Distinct(c)
      /\ \A i \in DOMAIN fs : JumpsOK(fs[i], c, lost)
      /\ Targets(c) \subseteq Placed(c) \cup OwedBy(fs) <=> ~str
  BY DEF LabelsOK
<1>2. f.walked \in Nat /\ f.kind \in Kinds /\ f.fall \in Nat /\ f.exit \in Nat
  BY DEF Frame
<1>3. /\ f.kind \in Parents => m = n + 2 /\ f.fall # f.exit /\ f.fall < m /\ f.exit < m
      /\ f.kind \notin Parents => m = n
      /\ m \in Nat /\ m >= n
  <2>1. f.kind \in Parents => m = n + 2
    BY DEF ReservedLabels, Parents
  <2>2. f.kind \notin Parents => m = n
    BY <1>1 DEF ReservedLabels, Parents
  <2>3. f.kind \in Parents => f.fall \in {n, n + 1} /\ f.exit \in {n, n + 1} /\ f.fall # f.exit
    <3>1. ASSUME {f.fall, f.exit} = {n, n + 1} PROVE f.fall # f.exit
      <4>1. n \in {f.fall, f.exit} /\ n + 1 \in {f.fall, f.exit}
        BY <3>1
      <4> QED BY <1>1, <4>1
    <3> QED BY <3>1
  <2> HIDE DEF m
  <2> QED BY <1>1, <2>1, <2>2, <2>3
<1>4. Owed(f) = IF f.kind \in Parents THEN {n, n + 1} ELSE {}
  BY <1>2 DEF Owed, Parents
<1> HIDE DEF m
<1>5. OwedBy(fs) \subseteq 0..(n - 1)
  BY <1>1, OwedReserved
<1>6. Owed(f) \cap (0..(n - 1)) = {}
  BY <1>1, <1>4
<1>7. /\ gs \in Seq(Frame) /\ DOMAIN gs = DOMAIN fs \cup {Len(fs) + 1}
      /\ gs[Len(fs) + 1] = f /\ \A i \in DOMAIN fs : gs[i] = fs[i]
      /\ FramesDisjoint(gs)
      /\ OwedBy(gs) = OwedBy(fs) \cup Owed(f)
  BY <1>1, <1>5, <1>6, PushLast
<1> HIDE DEF gs
<1>8. \A i \in DOMAIN gs : FrameOK(gs[i], m)
  <2>1. FrameOK(f, m)
    BY <1>3 DEF FrameOK
  <2>2. ASSUME NEW i \in DOMAIN fs PROVE FrameOK(fs[i], m)
    <3>1. fs[i] \in Frame /\ FrameOK(fs[i], n)
      BY <1>1
    <3>2. fs[i].fall \in Nat /\ fs[i].exit \in Nat
      BY <3>1 DEF Frame
    <3> QED BY <1>1, <1>3, <3>1, <3>2 DEF FrameOK
  <2> QED BY <1>7, <2>1, <2>2
<1>9. Placed(c) \cup Targets(c) \subseteq 0..(m - 1)
  BY <1>1, <1>3
<1>10. Placed(c) \cap OwedBy(gs) = {}
  BY <1>1, <1>6, <1>7
<1>11. \A i \in DOMAIN gs : JumpsOK(gs[i], c, lost)
  <2>1. f.kind \in Parents => f.fall \notin Targets(c) /\ f.exit \notin Targets(c)
    BY <1>1, <1>4, <1>6
  <2>2. JumpsOK(f, c, lost)
    BY <2>1 DEF JumpsOK
  <2> QED BY <1>1, <1>7, <2>2
<1>12. Targets(c) \subseteq Placed(c) \cup OwedBy(gs) <=> ~str
  BY <1>1, <1>6, <1>7
<1>13. LabelsOK(gs, c, m, lost, str)
  BY <1>1, <1>3, <1>7, <1>8, <1>9, <1>10, <1>11, <1>12 DEF LabelsOK
<1> QED BY <1>13 DEF gs, m

\* An operand is loaded.
LEMMA LeafLabels ==
  ASSUME NEW fs, NEW c, NEW n, NEW lost, NEW str, NEW k \in Nat,
         LabelsOK(fs, c, n, lost, str)
  PROVE  LabelsOK(fs, c \o <<Instr("load", k)>>, n, lost, str)
<1> DEFINE d == c \o <<Instr("load", k)>>
<1>1. "load" \in JumpOps \cup OtherOps /\ "load" \notin JumpOps
  BY DEF JumpOps, OtherOps
<1>2. Piece(<<Instr("load", k)>>, {}, {})
  BY <1>1, OneInstruction
<1>3. Piece(c, Placed(c), Targets(c))
  BY DEF LabelsOK, Piece
<1>4. Piece(d, Placed(c) \cup {}, Targets(c) \cup {})
  BY <1>2, <1>3, TwoPieces
<1>5. d \in Seq(Instruction) /\ Placed(d) = Placed(c) /\ Targets(d) = Targets(c) /\ Distinct(d)
  BY <1>4 DEF Piece
<1> HIDE DEF d
<1>6. ASSUME NEW i \in DOMAIN fs PROVE JumpsOK(fs[i], d, lost)
  BY <1>5 DEF JumpsOK, LabelsOK
<1>7. LabelsOK(fs, d, n, lost, str)
  BY <1>5, <1>6 DEF LabelsOK
<1> QED BY <1>7 DEF d

\* An operator is left: its exit handler places what it still owed.
LEMMA OwnLabels ==
  ASSUME NEW fs, NEW c, NEW lost, NEW str, NEW t,
         LabelsOK(fs, c, labelCounter, lost, str), fs # <<>>,
         fs[Len(fs)].walked = Arity(fs[Len(fs)].kind), ~Throws(fs[Len(fs)], t)
  PROVE  LabelsOK(SubSeq(fs, 1, Len(fs) - 1), c \o Combine(fs[Len(fs)], t),
                  labelCounter + NewLabels(fs[Len(fs)].kind), lost, str)
<1> DEFINE gs == SubSeq(fs, 1, Len(fs) - 1)
<1>f. PICK f : f = fs[Len(fs)]
  OBVIOUS
<1>n. PICK n, m, d : n = labelCounter /\ m = n + NewLabels(f.kind) /\ d = c \o Combine(f, t)
  OBVIOUS
<1>p. PICK P, J, R : P = OwnPlaces(f, t) /\ J = OwnTargets(f, t) /\ R = Owed(f)
  OBVIOUS
<1>1. /\ fs \in Seq(Frame) /\ c \in Seq(Instruction) /\ n \in Nat
      /\ \A i \in DOMAIN fs : FrameOK(fs[i], n)
      /\ FramesDisjoint(fs)
      /\ Placed(c) \cup Targets(c) \subseteq 0..(n - 1)
      /\ Placed(c) \cap OwedBy(fs) = {}
      /\ Distinct(c)
      /\ \A i \in DOMAIN fs : JumpsOK(fs[i], c, lost)
      /\ Targets(c) \subseteq Placed(c) \cup OwedBy(fs) <=> ~str
  BY <1>n DEF LabelsOK
<1>2. f \in Frame /\ f.walked \in Nat /\ f.kind \in Kinds /\ f.exit \in Nat
  <2>1. f \in Frame
    BY <1>1, <1>f
  <2> QED BY <2>1 DEF Frame
<1>3. /\ gs \in Seq(Frame) /\ DOMAIN gs \subseteq DOMAIN fs
      /\ \A i \in DOMAIN gs : gs[i] = fs[i]
      /\ DOMAIN gs = 1..(Len(fs) - 1) /\ Len(fs) \in DOMAIN fs
      /\ FramesDisjoint(gs)
      /\ OwedBy(gs) = OwedBy(fs) \ R
  BY <1>1, <1>f, <1>p, DropLast
<1> HIDE DEF gs
<1>4. R = IF f.kind \in {"and", "or"} /\ f.processed THEN {f.exit} ELSE {}
  <2>1. f.walked = Arity(f.kind)
    BY <1>f
  <2>2. f.kind \in {"and", "or"} => f.walked = 2
    BY <2>1 DEF Arity, Unary, Binary
  <2>3. f.kind = "if" => f.walked = 3
    BY <2>1 DEF Arity, Unary, Binary
  <2>4. CASE f.kind \in {"and", "or"}
    <3>1. f.processed => R = {f.exit}
      BY <1>p, <2>2, <2>4 DEF Owed
    <3>2. ~f.processed => R = {}
      BY <1>p, <2>2, <2>4 DEF Owed
    <3> QED BY <2>4, <3>1, <3>2
  <2>5. CASE f.kind = "if"
    BY <1>p, <2>3, <2>5 DEF Owed
  <2>6. CASE f.kind \notin {"and", "or", "if"}
    BY <1>p, <2>6 DEF Owed
  <2> QED BY <2>4, <2>5, <2>6
<1>5. m \in Nat /\ m >= n /\ R \subseteq P /\ P \subseteq R \cup (n..(m - 1)) /\ J = P \ R
  <2>1. NewLabels(f.kind) \in {0, 1, 2}
    BY DEF NewLabels
  <2>2. f.kind \in {"eq", "lt"} => m = n + 2
    BY <1>n DEF NewLabels
  <2>3. f.kind = "plus" => m = n + 1
    BY <1>n DEF NewLabels
  <2>4. m \in Nat /\ m >= n
    BY <1>1, <1>n, <2>1
  <2>5. R \subseteq P
    BY <1>4, <1>p DEF OwnPlaces
  <2>6. P \subseteq R \cup (n..(m - 1))
    <3>1. P \subseteq R \/ (f.kind \in {"eq", "lt"} /\ P = {n, n + 1})
            \/ (f.kind = "plus" /\ P = {n})
      BY <1>4, <1>p, <1>n DEF OwnPlaces
    <3> QED BY <1>1, <2>2, <2>3, <3>1
  <2>7. J = P \ R
    BY <1>p DEF OwnTargets
  <2> QED BY <2>4, <2>5, <2>6, <2>7
<1>6. Piece(Combine(f, t), P, J)
  <2>1. f.kind \in {"and", "or"} => f.walked = 2
    BY <1>f DEF Arity, Unary, Binary
  <2>2. ~Throws(f, t)
    BY <1>f
  <2> QED BY <1>1, <1>2, <1>n, <1>p, <2>1, <2>2, OwnPiece
<1>7. R \subseteq OwedBy(fs)
  BY <1>3, <1>f, <1>p DEF OwedBy
<1>8. OwedBy(fs) \subseteq 0..(n - 1)
  BY <1>1, OwedReserved
<1>9. (n..(m - 1)) \cap (0..(n - 1)) = {}
  BY <1>1
<1>10. Piece(d, Placed(c) \cup P, Targets(c) \cup J)
  <2>1. Placed(c) \cap P = {}
    BY <1>1, <1>5, <1>7, <1>9
  <2>2. Piece(c, Placed(c), Targets(c))
    BY <1>1 DEF Piece
  <2> QED BY <1>6, <1>n, <2>1, <2>2, TwoPieces
<1>11. d \in Seq(Instruction) /\ Placed(d) = Placed(c) \cup P /\ Targets(d) = Targets(c) \cup J
         /\ Distinct(d)
  BY <1>10 DEF Piece
<1>12. \A i \in DOMAIN gs : FrameOK(gs[i], m)
  <2> SUFFICES ASSUME NEW i \in DOMAIN gs PROVE FrameOK(fs[i], m)
    BY <1>3
  <2>1. fs[i] \in Frame /\ FrameOK(fs[i], n)
    BY <1>1, <1>3
  <2>2. fs[i].fall \in Nat /\ fs[i].exit \in Nat
    BY <2>1 DEF Frame
  <2> QED BY <1>1, <1>5, <2>1, <2>2 DEF FrameOK
<1>13. Placed(d) \cup Targets(d) \subseteq 0..(m - 1)
  <2>1. 0..(n - 1) \subseteq 0..(m - 1) /\ n..(m - 1) \subseteq 0..(m - 1)
    BY <1>1, <1>5
  <2> QED BY <1>1, <1>5, <1>7, <1>8, <1>11, <2>1
<1>14. Placed(d) \cap OwedBy(gs) = {}
  BY <1>1, <1>3, <1>5, <1>8, <1>9, <1>11
<1>15. \A i \in DOMAIN gs : JumpsOK(gs[i], d, lost)
  <2> SUFFICES ASSUME NEW i \in DOMAIN gs PROVE JumpsOK(fs[i], d, lost)
    BY <1>3
  <2>1. fs[i] \in Frame /\ JumpsOK(fs[i], c, lost) /\ Owed(fs[i]) \subseteq OwedBy(fs)
    BY <1>1, <1>3 DEF OwedBy
  <2>2. Owed(fs[i]) \cap J = {}
    BY <1>5, <1>8, <1>9, <2>1
  <2>3. Alike(fs[i], lost, lost)
    BY DEF Alike
  <2> QED BY <1>11, <2>1, <2>2, <2>3, JumpsElsewhere
<1>16. Targets(d) \subseteq Placed(d) \cup OwedBy(gs) <=> ~str
  <2>1. Placed(c) \cup P \cup OwedBy(gs) = Placed(c) \cup OwedBy(fs) \cup P
    BY <1>3, <1>5
  <2>2. Targets(c) \cap P \subseteq R
    BY <1>1, <1>5, <1>9
  <2> QED BY <1>1, <1>5, <1>7, <1>11, <2>1, <2>2
<1>17. LabelsOK(gs, d, m, lost, str)
  BY <1>1, <1>3, <1>5, <1>11, <1>12, <1>13, <1>14, <1>15, <1>16 DEF LabelsOK
<1> QED BY <1>17, <1>f, <1>n DEF gs

\* What AfterOperand changes of a frame.
LEMMA AfterOperandIs ==
  ASSUME NEW f \in Frame, NEW early \in BOOLEAN, NEW g, g = AfterOperand(f, early)
  PROVE  /\ g \in Frame /\ g.node = f.node /\ g.kind = f.kind /\ g.walked = f.walked + 1
         /\ g.fall = f.fall /\ g.exit = f.exit
         /\ g.processed <=> f.processed \/ (f.kind \in {"and", "or"} /\ f.walked = 1 /\ ~early)
<1>1. f.walked \in Nat /\ f.processed \in BOOLEAN
  BY DEF Frame
<1>2. PICK b \in BOOLEAN :
        b <=> f.processed \/ (f.kind \in {"and", "or"} /\ f.walked = 1 /\ ~early)
  OBVIOUS
<1>3. b = (f.processed \/ (f.kind \in {"and", "or"} /\ f.walked = 1 /\ ~early))
  BY <1>1, <1>2
<1>4. g = [f EXCEPT !.walked = f.walked + 1, !.processed = b]
  BY <1>3 DEF AfterOperand
<1>5. /\ g = [[f EXCEPT !.walked = f.walked + 1] EXCEPT !.processed = b]
      /\ [f EXCEPT !.walked = f.walked + 1] \in Frame /\ f.walked + 1 \in Nat
  BY <1>1, <1>4 DEF Frame
<1>6. g \in Frame /\ g.node = f.node /\ g.kind = f.kind /\ g.walked = f.walked + 1
  BY <1>5 DEF Frame
<1>7. g.fall = f.fall /\ g.exit = f.exit
  BY <1>5 DEF Frame
<1>8. g.processed <=> b
  BY <1>5 DEF Frame
<1> QED BY <1>2, <1>6, <1>7, <1>8

\* The handler of an operand of the innermost frame f has run: the frame,
\* the code, and what is lost and stranded, before and after.
OperandPlaced(fs, gs, c, d, lost, lostNow, str, strNow, f, early) ==
  /\ fs # <<>> /\ f = fs[Len(fs)] /\ f.walked < Arity(f.kind)
  /\ gs = [fs EXCEPT ![Len(fs)] = AfterOperand(f, early)]
  /\ d = c \o (IF early THEN <<>> ELSE ParentJumps(f, f.walked))
  /\ \A i \in DOMAIN fs : Alike(fs[i], lost, lostNow)
  /\ <<f.node, f.walked>> \in lostNow <=> early
  /\ strNow <=> \/ str
                \/ /\ early /\ f.kind \in Parents /\ f.walked >= 1
                   /\ <<f.node, f.walked - 1>> \notin lostNow

\* The exit handler of an operand places its parent's jumps, or returned
\* before it did; then the next operand's label, jumped to, is stranded.
LEMMA ParentLabels ==
  ASSUME NEW fs, NEW c, NEW n, NEW lost, NEW lostNow, NEW str, NEW strNow,
         NEW early \in BOOLEAN, NEW f, NEW gs, NEW d,
         LabelsOK(fs, c, n, lost, str),
         OperandPlaced(fs, gs, c, d, lost, lostNow, str, strNow, f, early)
  PROVE  LabelsOK(gs, d, n, lostNow, strNow)
<1>0. /\ fs # <<>> /\ f = fs[Len(fs)] /\ f.walked < Arity(f.kind)
      /\ gs = [fs EXCEPT ![Len(fs)] = AfterOperand(f, early)]
      /\ d = c \o (IF early THEN <<>> ELSE ParentJumps(f, f.walked))
      /\ \A i \in DOMAIN fs : Alike(fs[i], lost, lostNow)
      /\ <<f.node, f.walked>> \in lostNow <=> early
      /\ strNow <=> \/ str
                    \/ /\ early /\ f.kind \in Parents /\ f.walked >= 1
                       /\ <<f.node, f.walked - 1>> \notin lostNow
  BY DEF OperandPlaced
<1>f. PICK k, top : k = f.walked /\ top = Len(fs)
  OBVIOUS
<1>g. PICK g : g = AfterOperand(f, early) /\ gs = [fs EXCEPT ![top] = g]
  BY <1>0, <1>f
<1>p. PICK P, J, R : /\ P = (IF early THEN {} ELSE ParentPlaces(f, k))
                     /\ J = (IF early THEN {} ELSE ParentTargets(f, k))
                     /\ R = Owed(f) \ Owed(g)
  OBVIOUS
<1>1. /\ fs \in Seq(Frame) /\ c \in Seq(Instruction) /\ n \in Nat
      /\ \A i \in DOMAIN fs : FrameOK(fs[i], n)
      /\ FramesDisjoint(fs)
      /\ Placed(c) \cup Targets(c) \subseteq 0..(n - 1)
      /\ Placed(c) \cap OwedBy(fs) = {}
      /\ Distinct(c)
      /\ \A i \in DOMAIN fs : JumpsOK(fs[i], c, lost)
      /\ Targets(c) \subseteq Placed(c) \cup OwedBy(fs) <=> ~str
  BY DEF LabelsOK
<1>2. top \in DOMAIN fs /\ f = fs[top] /\ f \in Frame /\ FrameOK(f, n) /\ JumpsOK(f, c, lost)
  <2>1. top \in DOMAIN fs /\ f = fs[top]
    BY <1>0, <1>1, <1>f
  <2> QED BY <1>1, <2>1
<1>3. /\ k \in Nat /\ f.kind \in Kinds /\ f.exit \in Nat /\ f.fall \in Nat
      /\ f.walked = k /\ f.processed \in BOOLEAN /\ f.node \in Nat
  BY <1>2, <1>f DEF Frame
<1>4. /\ g \in Frame /\ g.node = f.node /\ g.kind = f.kind /\ g.walked = k + 1
      /\ g.fall = f.fall /\ g.exit = f.exit
      /\ g.processed <=> f.processed \/ (f.kind \in {"and", "or"} /\ k = 1 /\ ~early)
  BY <1>2, <1>3, <1>f, <1>g, AfterOperandIs
<1>5. /\ f.kind \in {"and", "or"} => k \in {0, 1} /\ ~f.processed
      /\ f.kind = "if" => k \in {0, 1, 2}
  <2>1. k < Arity(f.kind)
    BY <1>0, <1>f
  <2>2. f.processed => k = 2 /\ f.kind \in {"and", "or"}
    BY <1>2, <1>3 DEF FrameOK
  <2>3. f.kind \in {"and", "or"} => k < 2
    BY <2>1 DEF Arity, Unary, Binary
  <2>4. f.kind = "if" => k < 3
    BY <2>1 DEF Arity, Unary, Binary
  <2> QED BY <1>3, <2>2, <2>3, <2>4
<1>6. Owed(g) \subseteq Owed(f)
  <2>1. CASE f.kind \in {"and", "or"}
    BY <1>3, <1>4, <1>5, <2>1 DEF Owed
  <2>2. CASE f.kind = "if"
    BY <1>3, <1>4, <1>5, <2>2 DEF Owed
  <2>3. CASE f.kind \notin {"and", "or", "if"}
    BY <1>4, <2>3 DEF Owed
  <2> QED BY <2>1, <2>2, <2>3
<1>7. /\ R # {} => f.kind \in Parents
      /\ f.kind \in Parents /\ k = 0 => R = {}
      /\ f.kind \in {"and", "or"} /\ k = 1 => R = (IF early THEN {f.fall, f.exit} ELSE {f.fall})
      /\ f.kind = "if" /\ k = 1 => R = {f.fall}
      /\ f.kind = "if" /\ k = 2 => R = {f.exit}
  <2>0. f.kind \in Parents => f.fall # f.exit
    BY <1>2 DEF FrameOK
  <2>1. R # {} => f.kind \in Parents
    BY <1>p DEF Owed, Parents
  <2>2. f.kind \in Parents /\ k = 0 => R = {}
    BY <1>3, <1>4, <1>p DEF Owed, Parents
  <2>3. f.kind \in {"and", "or"} /\ k = 1 => R = (IF early THEN {f.fall, f.exit} ELSE {f.fall})
    BY <1>3, <1>4, <1>5, <1>p, <2>0 DEF Owed, Parents
  <2>4. f.kind = "if" /\ k = 1 => R = {f.fall}
    BY <1>3, <1>4, <1>p, <2>0 DEF Owed, Parents
  <2>5. f.kind = "if" /\ k = 2 => R = {f.exit}
    BY <1>3, <1>4, <1>p DEF Owed
  <2> QED BY <2>1, <2>2, <2>3, <2>4, <2>5
<1>8. (~early => P = R) /\ P \subseteq R /\ J \subseteq Owed(f)
  <2>1. CASE early
    BY <1>p, <2>1
  <2>2. CASE ~early /\ f.kind \in {"and", "or"}
    <3>1. Owed(f) = IF k <= 1 THEN {f.fall, f.exit} ELSE {}
      BY <1>3, <1>5, <2>2 DEF Owed
    <3>2. P = IF k = 1 THEN {f.fall} ELSE {}
      BY <1>p, <2>2 DEF ParentPlaces, Parents
    <3>3. J = IF k = 0 THEN {f.fall} ELSE IF k = 1 THEN {f.fall, f.exit} ELSE {}
      BY <1>p, <2>2 DEF ParentTargets, Parents
    <3> QED BY <1>5, <1>7, <2>2, <3>1, <3>2, <3>3 DEF Parents
  <2>3. CASE ~early /\ f.kind = "if"
    <3>1. Owed(f) = (IF k <= 1 THEN {f.fall} ELSE {}) \cup (IF k <= 2 THEN {f.exit} ELSE {})
      BY <1>3, <2>3 DEF Owed
    <3>2. P = IF k = 1 THEN {f.fall} ELSE IF k = 2 THEN {f.exit} ELSE {}
      BY <1>p, <2>3 DEF ParentPlaces, Parents
    <3>3. J = IF k = 0 THEN {f.fall} ELSE IF k = 1 THEN {f.exit} ELSE {}
      BY <1>p, <2>3 DEF ParentTargets, Parents
    <3> QED BY <1>5, <1>7, <2>3, <3>1, <3>2, <3>3 DEF Parents
  <2>4. CASE ~early /\ f.kind \notin Parents
    BY <1>7, <1>p, <2>4 DEF ParentPlaces, ParentTargets, Parents
  <2> QED BY <2>1, <2>2, <2>3, <2>4 DEF Parents
<1>9. Piece(c, Placed(c), Targets(c))
  BY <1>1 DEF Piece
<1>10. R \subseteq Owed(f) /\ Owed(f) \subseteq OwedBy(fs) /\ OwedBy(fs) \subseteq 0..(n - 1)
  <2>1. Owed(f) \subseteq OwedBy(fs)
    BY <1>2 DEF OwedBy
  <2> QED BY <1>1, <1>p, <2>1, OwedReserved
<1>11. /\ d \in Seq(Instruction) /\ Placed(d) = Placed(c) \cup P /\ Targets(d) = Targets(c) \cup J
       /\ Distinct(d)
  <2>1. Piece(IF early THEN <<>> ELSE ParentJumps(f, k), P, J)
    BY <1>2, <1>3, <1>p, NoCode, ParentPiece
  <2>2. Placed(c) \cap P = {}
    BY <1>1, <1>8, <1>10
  <2>3. Piece(d, Placed(c) \cup P, Targets(c) \cup J)
    BY <1>0, <1>9, <1>f, <2>1, <2>2, TwoPieces
  <2> QED BY <2>3 DEF Piece
<1>12. /\ gs \in Seq(Frame) /\ DOMAIN gs = DOMAIN fs /\ gs[top] = g
       /\ \A i \in DOMAIN fs : i # top => gs[i] = fs[i]
       /\ FramesDisjoint(gs)
       /\ OwedBy(gs) = (OwedBy(fs) \ Owed(f)) \cup Owed(g)
  <2>1. fs \in Seq(Frame) /\ fs # <<>> /\ FramesDisjoint(fs) /\ g \in Frame
          /\ Owed(g) \subseteq Owed(fs[Len(fs)])
    BY <1>0, <1>1, <1>4, <1>6, <1>f
  <2>2. gs = [fs EXCEPT ![Len(fs)] = g]
    BY <1>f, <1>g
  <2>3. /\ gs \in Seq(Frame) /\ DOMAIN gs = DOMAIN fs /\ gs[Len(fs)] = g
        /\ \A i \in DOMAIN fs : i # Len(fs) => gs[i] = fs[i]
        /\ FramesDisjoint(gs)
        /\ OwedBy(gs) = (OwedBy(fs) \ Owed(fs[Len(fs)])) \cup Owed(g)
    <3> DEFINE hs == [fs EXCEPT ![Len(fs)] = g]
    <3>1. /\ hs \in Seq(Frame) /\ DOMAIN hs = DOMAIN fs /\ hs[Len(fs)] = g
          /\ \A i \in DOMAIN fs : i # Len(fs) => hs[i] = fs[i]
          /\ FramesDisjoint(hs)
          /\ OwedBy(hs) = (OwedBy(fs) \ Owed(fs[Len(fs)])) \cup Owed(g)
      BY <2>1, ReplaceLast
    <3>2. gs = hs
      BY <2>2
    <3> HIDE DEF hs
    <3> QED BY <3>1, <3>2
  <2> QED BY <1>0, <1>f, <2>3
<1>13. OwedBy(gs) = OwedBy(fs) \ R
  BY <1>6, <1>10, <1>12, <1>p
<1>14. \A i \in DOMAIN gs : FrameOK(gs[i], n)
  <2>1. FrameOK(g, n)
    BY <1>2, <1>3, <1>4, <1>5 DEF FrameOK
  <2> QED BY <1>1, <1>12, <2>1
<1>15. Placed(d) \cup Targets(d) \subseteq 0..(n - 1)
  BY <1>1, <1>8, <1>10, <1>11
<1>16. Placed(d) \cap OwedBy(gs) = {}
  BY <1>1, <1>8, <1>11, <1>13
<1>17. \A i \in DOMAIN gs : JumpsOK(gs[i], d, lostNow)
  <2>1. JumpsOK(g, d, lostNow)
    <3> SUFFICES ASSUME f.kind \in Parents PROVE JumpsOK(g, d, lostNow)
      BY <1>4 DEF JumpsOK
    <3>0. <<f.node, k>> \in lostNow <=> early
      BY <1>0, <1>f
    <3>1. ASSUME k = 0
          PROVE  /\ f.fall \in Targets(d) <=> <<f.node, 0>> \notin lostNow
                 /\ f.exit \notin Targets(d)
      <4>1. f.fall \notin Targets(c) /\ f.exit \notin Targets(c) /\ f.fall # f.exit
        BY <1>2, <1>3, <3>1 DEF JumpsOK, FrameOK
      <4>2. J = IF early THEN {} ELSE {f.fall}
        BY <1>p, <3>1 DEF ParentTargets
      <4> QED BY <1>11, <3>0, <3>1, <4>1, <4>2
    <3>2. ASSUME k = 1, f.kind = "if"
          PROVE  f.exit \in Targets(d) <=> <<f.node, 1>> \notin lostNow
      <4>1. f.exit \notin Targets(c)
        BY <1>2, <1>3, <3>2 DEF JumpsOK, Parents
      <4>2. J = IF early THEN {} ELSE {f.exit}
        BY <1>p, <3>2 DEF ParentTargets
      <4> QED BY <1>11, <3>0, <3>2, <4>1, <4>2
    <3> QED BY <1>3, <1>4, <3>1, <3>2 DEF JumpsOK
  <2>2. ASSUME NEW i \in DOMAIN fs, i # top PROVE JumpsOK(fs[i], d, lostNow)
    <3>1. fs[i] \in Frame /\ JumpsOK(fs[i], c, lost) /\ Alike(fs[i], lost, lostNow)
      BY <1>0, <1>1
    <3>2. Owed(fs[i]) \cap J = {}
      BY <1>1, <1>2, <1>8, <2>2 DEF FramesDisjoint
    <3> QED BY <1>11, <3>1, <3>2, JumpsElsewhere
  <2> QED BY <1>12, <2>1, <2>2
<1>18. Targets(d) \subseteq Placed(d) \cup OwedBy(gs)
         <=> ~(str \/ (early /\ f.kind \in Parents /\ k >= 1 /\ <<f.node, k - 1>> \notin lostNow))
  <2>1. CASE ~early
    <3>1. Placed(d) \cup OwedBy(gs) = Placed(c) \cup OwedBy(fs)
      BY <1>8, <1>10, <1>11, <1>13, <2>1
    <3> QED BY <1>1, <1>8, <1>10, <1>11, <2>1, <3>1
  <2>2. CASE early
    <3>1. P = {} /\ J = {}
      BY <1>p, <2>2
    <3>2. Targets(c) \cap R = {}
             <=> ~(f.kind \in Parents /\ k >= 1 /\ <<f.node, k - 1>> \notin lostNow)
      <4>0. Alike(f, lost, lostNow)
        BY <1>0, <1>2
      <4>1. CASE f.kind \notin Parents \/ k = 0
        BY <1>3, <1>7, <4>1
      <4>2. CASE f.kind \in Parents /\ k = 1
        <5>1. f.exit \notin Targets(c) /\ (f.fall \in Targets(c) <=> <<f.node, 0>> \notin lost)
          BY <1>2, <1>3, <4>2 DEF JumpsOK
        <5>2. <<f.node, 0>> \in lost <=> <<f.node, 0>> \in lostNow
          BY <1>3, <4>0, <4>2 DEF Alike
        <5>3. R \in {{f.fall}, {f.fall, f.exit}}
          BY <1>7, <2>2, <4>2 DEF Parents
        <5> QED BY <4>2, <5>1, <5>2, <5>3
      <4>3. CASE f.kind = "if" /\ k = 2
        <5>1. f.exit \in Targets(c) <=> <<f.node, 1>> \notin lost
          BY <1>2, <1>3, <4>3 DEF JumpsOK, Parents
        <5>2. <<f.node, 1>> \in lost <=> <<f.node, 1>> \in lostNow
          BY <1>3, <4>0, <4>3 DEF Alike
        <5> QED BY <1>7, <4>3, <5>1, <5>2 DEF Parents
      <4> QED BY <1>5, <4>1, <4>2, <4>3 DEF Parents
    <3>3. R \cap Placed(c) = {}
      BY <1>1, <1>10
    <3> QED BY <1>1, <1>11, <1>13, <2>2, <3>1, <3>2, <3>3
  <2> QED BY <2>1, <2>2
<1>19. Targets(d) \subseteq Placed(d) \cup OwedBy(gs) <=> ~strNow
  BY <1>0, <1>18, <1>f
<1> QED BY <1>1, <1>11, <1>12, <1>14, <1>15, <1>16, <1>17, <1>19 DEF LabelsOK


-----------------------------------------------------------------------------
(* The walk.  The open operators are a path from the root; the operands of *)
(* an operator are revealed in order, and each is exited before the next.  *)

NodeRecord == [kind : Kinds \cup {"leaf"}, operand : Operands \cup {NoOperand},
               parent : Nat, index : Nat]

IsOperand(c, n, i) == tree[c].parent = n /\ tree[c].index = i

\* What `types` holds of a node: its type once it has been exited.
NoType    == ""
TypeSlots == Types \cup {NoType}

\* Node c has been exited; operand i of n has been revealed, and exited.
Exited(c) == c \in Nodes /\ types[c] # NoType
Settled(n, i) == \E c \in Nodes : Exited(c) /\ IsOperand(c, n, i)

Shapes ==
  /\ phase \in {"walking", "done", "rejected", "aborted"}
  /\ tree \in Seq(NodeRecord)
  /\ types \in Seq(TypeSlots) /\ Len(types) = Len(tree)
  /\ open \in Seq(Frame)
  /\ phase = "done" => open = <<>>

\* An open operator, below the one that encloses it.
FrameInTree(i) ==
  /\ open[i].node \in Nodes /\ types[open[i].node] = NoType
  /\ tree[open[i].node].kind = open[i].kind
  /\ open[i].walked <= Arity(open[i].kind)
  /\ i = 1 => tree[open[i].node].parent = 0
  /\ i > 1 => /\ IsOperand(open[i].node, open[i - 1].node, open[i - 1].walked)
              /\ open[i - 1].walked < Arity(open[i - 1].kind)

OpenPath ==
  /\ \A i \in DOMAIN open : FrameInTree(i)
  /\ \A i, j \in DOMAIN open : open[i].node = open[j].node => i = j
  /\ \A n \in Nodes : types[n] = NoType => \E i \in DOMAIN open : open[i].node = n

\* An operator is revealed before its operands, and no two nodes are the
\* same operand.
OneOperandEach ==
  /\ \A c \in Nodes : tree[c].parent < c
  /\ \A c, d \in Nodes :
       tree[c].parent = tree[d].parent /\ tree[c].index = tree[d].index /\ tree[c].parent # 0
         => c = d

\* The operands of an open operator: those that have been walked, and the
\* one that is open.
OpenOperands ==
  \A j \in DOMAIN open :
    /\ \A i \in 0..(open[j].walked - 1) : Settled(open[j].node, i)
    /\ \A c \in Nodes :
         tree[c].parent = open[j].node =>
           \/ tree[c].index < open[j].walked
           \/ j + 1 \in DOMAIN open /\ c = open[j + 1].node

\* An operator that has been exited has all its operands.
ExitedOperands ==
  \A n \in Nodes :
    Exited(n) /\ tree[n].kind # "leaf" =>
      \A i \in 0..(Arity(tree[n].kind) - 1) : Settled(n, i)

Walk == Shapes /\ OpenPath /\ OneOperandEach /\ OpenOperands /\ ExitedOperands

\* The exit handler of operand i of n returned before n's jumps.
EarlyAt(n, i) == ReturnedEarly(Operand(n, i))

Lost == {p \in Nat \X Nat : EarlyAt(p[1], p[2])}

\* Two operands in their places strand a jump.
Stranded ==
  \E n \in Nodes : \E i \in 0..(Arity(tree[n].kind) - 2) :
    /\ tree[n].kind \in Parents /\ Settled(n, i) /\ Settled(n, i + 1)
    /\ ~EarlyAt(n, i) /\ EarlyAt(n, i + 1)

ExprInv == Walk /\ LabelsOK(open, code, labelCounter, Lost, Stranded)

\* The operand that Operand chooses is the one there is.
LEMMA OperandIs ==
  ASSUME OneOperandEach, NEW n \in Nat \ {0}, NEW i, NEW c \in Nodes, IsOperand(c, n, i)
  PROVE  Operand(n, i) = c
BY DEF Operand, OneOperandEach, IsOperand, Nodes

\* The same, of the next state.
LEMMA OperandIsNext ==
  ASSUME OneOperandEach', NEW n \in Nat \ {0}, NEW i, NEW c \in Nodes', IsOperand(c, n, i)'
  PROVE  Operand(n, i)' = c
BY DEF Operand, OneOperandEach, IsOperand, Nodes

\* An open operator is a frame, and a node that has not been exited.
LEMMA OpenFrame ==
  ASSUME Walk, NEW j \in DOMAIN open
  PROVE  /\ open[j] \in Frame /\ open[j].node \in Nodes /\ open[j].node \in Nat \ {0}
         /\ open[j].walked \in Nat /\ open[j].kind \in Kinds
         /\ FrameInTree(j) /\ ~Exited(open[j].node)
<1>1. open \in Seq(Frame) /\ tree \in Seq(NodeRecord)
  BY DEF Walk, Shapes
<1>2. open[j] \in Frame
  BY <1>1
<1>3. open[j].walked \in Nat /\ open[j].kind \in Kinds
  BY <1>2 DEF Frame
<1>4. FrameInTree(j)
  BY DEF Walk, OpenPath
<1>5. open[j].node \in Nodes /\ ~Exited(open[j].node)
  BY <1>4 DEF FrameInTree, Exited
<1>6. Len(tree) \in Nat
  BY <1>1
<1>7. open[j].node \in Nat \ {0}
  BY <1>5, <1>6 DEF Nodes
<1> QED BY <1>2, <1>3, <1>4, <1>5, <1>7

\* The same, of the next state.
LEMMA OpenFrameNext ==
  ASSUME Walk', NEW j \in DOMAIN open'
  PROVE  /\ open'[j] \in Frame /\ open'[j].node \in Nodes' /\ open'[j].node \in Nat \ {0}
         /\ open'[j].walked \in Nat /\ open'[j].kind \in Kinds
         /\ FrameInTree(j)' /\ ~Exited(open[j].node)'
<1>1. open' \in Seq(Frame) /\ tree' \in Seq(NodeRecord)
  BY DEF Walk, Shapes
<1>2. open'[j] \in Frame
  BY <1>1
<1>3. open'[j].walked \in Nat /\ open'[j].kind \in Kinds
  BY <1>2 DEF Frame
<1>4. FrameInTree(j)'
  BY DEF Walk, OpenPath
<1>5. open'[j].node \in Nodes' /\ ~Exited(open[j].node)'
  BY <1>4 DEF FrameInTree, Exited
<1>6. Len(tree') \in Nat
  BY <1>1
<1>7. open'[j].node \in Nat \ {0}
  BY <1>5, <1>6 DEF Nodes
<1> QED BY <1>2, <1>3, <1>4, <1>5, <1>7

\* The operands of an open operator that have been walked are the settled ones.
LEMMA SettledOpen ==
  ASSUME Walk, NEW j \in DOMAIN open, NEW k \in Nat
  PROVE  Settled(open[j].node, k) <=> k < open[j].walked
<1>1. PICK n, w : n = open[j].node /\ w = open[j].walked
  OBVIOUS
<1>2. w \in Nat
  BY <1>1, OpenFrame
<1>3. ASSUME k < w PROVE Settled(n, k)
  <2>1. k \in 0..(w - 1)
    BY <1>2, <1>3
  <2> QED BY <1>1, <2>1 DEF Walk, OpenOperands
<1>4. ASSUME NEW c \in Nodes, Exited(c), IsOperand(c, n, k) PROVE k < w
  <2>1. ~(j + 1 \in DOMAIN open /\ c = open[j + 1].node)
    BY <1>4, OpenFrame
  <2>2. tree[c].parent = open[j].node /\ tree[c].index = k
    BY <1>1, <1>4 DEF IsOperand
  <2>3. tree[c].index < open[j].walked
    BY <2>1, <2>2 DEF Walk, OpenOperands
  <2> QED BY <1>1, <2>2, <2>3
<1>5. Settled(n, k) => k < w
  BY <1>4 DEF Settled
<1> QED BY <1>1, <1>3, <1>5

\* The same, of the next state.
LEMMA SettledOpenNext ==
  ASSUME Walk', NEW j \in DOMAIN open', NEW k \in Nat, NEW n, n = open'[j].node
  PROVE  Settled(n, k)' <=> k < open'[j].walked
<1>1. PICK w : w = open'[j].walked
  OBVIOUS
<1>2. w \in Nat
  BY <1>1, OpenFrameNext
<1>3. ASSUME k < w PROVE Settled(n, k)'
  <2>1. k \in 0..(w - 1)
    BY <1>2, <1>3
  <2> QED BY <1>1, <2>1 DEF Walk, OpenOperands
<1>4. ASSUME NEW c \in Nodes', Exited(c)', IsOperand(c, n, k)' PROVE k < w
  <2>1. ~(j + 1 \in DOMAIN open' /\ c = open'[j + 1].node)
    BY <1>4, OpenFrameNext
  <2>2. tree'[c].parent = open'[j].node /\ tree'[c].index = k
    BY <1>1, <1>4 DEF IsOperand
  <2>3. tree'[c].index < open'[j].walked
    BY <2>1, <2>2 DEF Walk, OpenOperands
  <2> QED BY <1>1, <2>2, <2>3
<1>5. Settled(n, k)' => k < w
  BY <1>4 DEF Settled
<1> QED BY <1>1, <1>3, <1>5

\* A step reveals at most one node, keeps what has been exited, and exits
\* at most node x.
Grows(x) ==
  /\ Nodes \subseteq Nodes' /\ Nodes' \subseteq Nodes \cup {Len(tree) + 1}
  /\ \A c \in Nodes : tree'[c] = tree[c] /\ (Exited(c) => types'[c] = types[c])
  /\ \A c \in Nodes' : Exited(c)' => Exited(c) \/ c = x

\* What has been exited stays so.
LEMMA ExitedKept ==
  ASSUME NEW x, Grows(x), NEW c, Exited(c)
  PROVE  Exited(c)' /\ tree'[c] = tree[c] /\ types'[c] = types[c]
BY DEF Grows, Exited

\* A settled operand stays the operand it is.
LEMMA SettledKept ==
  ASSUME Walk, Walk', NEW x, Grows(x), NEW n \in Nat \ {0}, NEW i, Settled(n, i)
  PROVE  /\ Settled(n, i)'
         /\ Operand(n, i)' = Operand(n, i)
         /\ Exited(Operand(n, i)) /\ IsOperand(Operand(n, i), n, i)
<1>1. PICK c \in Nodes : Exited(c) /\ IsOperand(c, n, i)
  BY DEF Settled
<1>2. Exited(c)' /\ tree'[c] = tree[c] /\ c \in Nodes'
  BY <1>1, ExitedKept DEF Exited
<1>3. IsOperand(c, n, i)'
  BY <1>1, <1>2 DEF IsOperand
<1>4. Operand(n, i) = c
  BY <1>1, OperandIs DEF Walk
<1>5. Operand(n, i)' = c
  BY <1>2, <1>3, OperandIsNext DEF Walk
<1>6. Settled(n, i)'
  BY <1>2, <1>3 DEF Settled
<1> QED BY <1>1, <1>4, <1>5, <1>6

\* The handler of an exited node has returned early, or not, for good.
LEMMA EarlyKept ==
  ASSUME Walk, Walk', NEW x, Grows(x), NEW c \in Nodes, Exited(c)
  PROVE  ReturnedEarly(c)' <=> ReturnedEarly(c)
<1>1. Exited(c)' /\ tree'[c] = tree[c] /\ types'[c] = types[c]
  BY ExitedKept
<1>2. CASE tree[c].kind \notin {"eq", "lt"}
  BY <1>1, <1>2 DEF ReturnedEarly
<1>3. CASE tree[c].kind \in {"eq", "lt"}
  <2>1. c \in Nat \ {0}
    <3>1. tree \in Seq(NodeRecord)
      BY DEF Walk, Shapes
    <3>2. Len(tree) \in Nat
      BY <3>1
    <3> QED BY <3>2 DEF Nodes
  <2>2. Arity(tree[c].kind) = 2 /\ tree[c].kind # "leaf"
    BY <1>3 DEF Arity, Unary, Binary
  <2>3. Settled(c, 0) /\ Settled(c, 1)
    BY <2>2 DEF Walk, ExitedOperands
  <2>4. PICK a, b : a = Operand(c, 0) /\ b = Operand(c, 1)
    OBVIOUS
  <2>5. Operand(c, 0)' = a /\ Exited(a)
    BY <2>1, <2>3, <2>4, SettledKept
  <2>6. Operand(c, 1)' = b /\ Exited(b)
    BY <2>1, <2>3, <2>4, SettledKept
  <2>7. types'[a] = types[a] /\ types'[b] = types[b]
    BY <2>5, <2>6, ExitedKept
  <2> QED BY <1>1, <2>4, <2>5, <2>6, <2>7 DEF ReturnedEarly
<1> QED BY <1>2, <1>3

\* Nor does what became of a settled operand change.
LEMMA EarlyAtKept ==
  ASSUME Walk, Walk', NEW x, Grows(x), NEW n \in Nat \ {0}, NEW i, Settled(n, i)
  PROVE  Settled(n, i)' /\ (EarlyAt(n, i)' <=> EarlyAt(n, i))
<1>1. PICK c : c = Operand(n, i)
  OBVIOUS
<1>2. Settled(n, i)' /\ Operand(n, i)' = c /\ Exited(c)
  BY <1>1, SettledKept
<1>3. ReturnedEarly(c)' <=> ReturnedEarly(c)
  BY <1>2, EarlyKept DEF Exited
<1> QED BY <1>1, <1>2, <1>3 DEF EarlyAt

\* An operand that has just settled is node x.
LEMMA SettledNew ==
  ASSUME NEW x, Grows(x), NEW n, NEW i, Settled(n, i)', ~Settled(n, i)
  PROVE  x \in Nodes' /\ IsOperand(x, n, i)'
<1>1. PICK c \in Nodes' : Exited(c)' /\ IsOperand(c, n, i)'
  BY DEF Settled
<1>2. CASE Exited(c)
  BY <1>1, <1>2 DEF Grows, Exited, IsOperand, Settled
<1>3. CASE c = x
  BY <1>1, <1>3
<1> QED BY <1>1, <1>2, <1>3 DEF Grows

\* The pairs that JumpsOK asks about are settled.
LEMMA AlikeKept ==
  ASSUME Walk, Walk', NEW x, Grows(x), NEW j \in DOMAIN open
  PROVE  Alike(open[j], Lost, Lost')
<1>2. open[j].node \in Nat \ {0}
  BY OpenFrame
<1> SUFFICES ASSUME NEW k \in {0, 1}, k < open[j].walked
             PROVE  <<open[j].node, k>> \in Lost <=> <<open[j].node, k>> \in Lost'
  BY DEF Alike
<1>3. k \in Nat
  OBVIOUS
<1>4. Settled(open[j].node, k)
  BY <1>3, SettledOpen
<1>5. PICK n : n = open[j].node
  OBVIOUS
<1>6. EarlyAt(n, k)' <=> EarlyAt(n, k)
  BY <1>2, <1>4, <1>5, EarlyAtKept
<1>7. <<n, k>> \in Lost <=> EarlyAt(n, k)
  BY <1>2, <1>3, <1>5 DEF Lost
<1>8. <<n, k>> \in Lost' <=> EarlyAt(n, k)'
  BY <1>2, <1>3, <1>5 DEF Lost
<1> QED BY <1>5, <1>6, <1>7, <1>8

\* A node that has just been revealed has no operand yet.
LEMMA NewNodeBare ==
  ASSUME Walk, Walk', NEW x, Grows(x), NEW n \in Nodes' \ Nodes, NEW i
  PROVE  ~Settled(n, i)'
<1>1. tree \in Seq(NodeRecord) /\ tree' \in Seq(NodeRecord)
  BY DEF Walk, Shapes
<1>2. Len(tree) \in Nat /\ Len(tree') \in Nat
  BY <1>1
<1>3. n = Len(tree) + 1 /\ Nodes' \subseteq 1..(Len(tree) + 1)
  BY <1>2 DEF Grows, Nodes
<1> SUFFICES ASSUME NEW c \in Nodes', IsOperand(c, n, i)' PROVE FALSE
  BY DEF Settled
<1>4. n < c
  BY DEF Walk, OneOperandEach, IsOperand
<1> QED BY <1>2, <1>3, <1>4

\* Nodes are counted from one.
LEMMA NodeNumbers == ASSUME Walk, NEW n \in Nodes PROVE n \in Nat \ {0}
<1>1. tree \in Seq(NodeRecord)
  BY DEF Walk, Shapes
<1>2. Len(tree) \in Nat
  BY <1>1
<1> QED BY <1>2 DEF Nodes

\* Unless an operand settles, no jump is stranded.
LEMMA StrandedKept ==
  ASSUME Walk, Walk', NEW x, Grows(x), x \in Nodes' => tree'[x].parent = 0
  PROVE  Stranded' <=> Stranded
<1>1. ASSUME NEW n \in Nodes, NEW i, Settled(n, i) \/ Settled(n, i)'
      PROVE  Settled(n, i) /\ Settled(n, i)' /\ (EarlyAt(n, i)' <=> EarlyAt(n, i))
  <2>1. n \in Nat \ {0}
    BY NodeNumbers
  <2>2. Settled(n, i)
    <3> SUFFICES ASSUME Settled(n, i)', ~Settled(n, i) PROVE FALSE
      BY <1>1
    <3>1. x \in Nodes' /\ IsOperand(x, n, i)'
      BY SettledNew
    <3> QED BY <2>1, <3>1 DEF IsOperand
  <2> QED BY <2>1, <2>2, EarlyAtKept
<1>2. \A n \in Nodes : tree'[n] = tree[n]
  BY DEF Grows
<1>3. ASSUME NEW n \in Nodes, NEW i \in 0..(Arity(tree[n].kind) - 2),
             tree[n].kind \in Parents, Settled(n, i), Settled(n, i + 1),
             ~EarlyAt(n, i), EarlyAt(n, i + 1)
      PROVE  Stranded'
  <2>1. Settled(n, i)' /\ ~EarlyAt(n, i)'
    BY <1>1, <1>3
  <2>2. Settled(n, i + 1)' /\ EarlyAt(n, i + 1)'
    BY <1>1, <1>3
  <2>3. n \in Nodes' /\ tree'[n] = tree[n]
    BY DEF Grows
  <2> QED BY <1>3, <2>1, <2>2, <2>3 DEF Stranded
<1>4. ASSUME NEW n \in Nodes', NEW i \in 0..(Arity(tree'[n].kind) - 2),
             tree'[n].kind \in Parents, Settled(n, i)', Settled(n, i + 1)',
             ~EarlyAt(n, i)', EarlyAt(n, i + 1)'
      PROVE  Stranded
  <2>1. n \in Nodes
    BY <1>4, NewNodeBare
  <2>2. Settled(n, i) /\ ~EarlyAt(n, i)
    BY <1>1, <1>4, <2>1
  <2>3. Settled(n, i + 1) /\ EarlyAt(n, i + 1)
    BY <1>1, <1>4, <2>1
  <2>4. tree'[n] = tree[n]
    BY <1>2, <2>1
  <2> QED BY <1>4, <2>1, <2>2, <2>3, <2>4 DEF Stranded
<1>5. Stranded => Stranded'
  BY <1>3 DEF Stranded
<1>6. Stranded' => Stranded
  BY <1>4 DEF Stranded
<1> QED BY <1>5, <1>6

\* An operand of the open operator open[j] settles: it strands the jump of
\* the operand before it if its own handler returned early and that one's
\* did not.
LEMMA StrandedStep ==
  ASSUME Walk, Walk', NEW x, Grows(x), NEW j \in DOMAIN open, j \in DOMAIN open',
         NEW p, NEW w, p = open[j].node, w = open[j].walked,
         open'[j].node = p, open'[j].walked = w + 1,
         w < Arity(open[j].kind), x \in Nodes', IsOperand(x, p, w)'
  PROVE  /\ <<p, w>> \in Lost' <=> ReturnedEarly(x)'
         /\ Stranded' <=> \/ Stranded
                          \/ /\ ReturnedEarly(x)' /\ open[j].kind \in Parents /\ w >= 1
                             /\ <<p, w - 1>> \notin Lost'
<1>1. /\ p \in Nat \ {0} /\ p \in Nodes /\ w \in Nat /\ open[j].kind \in Kinds
      /\ tree[p].kind = open[j].kind
  BY OpenFrame DEF FrameInTree
<1>2. \A i \in Nat : Settled(p, i) <=> i < w
  BY SettledOpen
<1>3. \A i \in Nat : Settled(p, i)' <=> i < w + 1
  BY SettledOpenNext
<1>4. Operand(p, w)' = x
  BY <1>1, OperandIsNext DEF Walk
<1>5. EarlyAt(p, w)' <=> ReturnedEarly(x)'
  BY <1>4 DEF EarlyAt
<1>6. \A i \in Nat : <<p, i>> \in Lost' <=> EarlyAt(p, i)'
  BY <1>1 DEF Lost
<1>7. ASSUME NEW n \in Nodes, NEW i, Settled(n, i)
      PROVE  Settled(n, i)' /\ (EarlyAt(n, i)' <=> EarlyAt(n, i))
  BY <1>7, NodeNumbers, EarlyAtKept
<1>8. \A n \in Nodes : tree'[n] = tree[n] /\ n \in Nodes'
  BY DEF Grows
<1>9. Stranded => Stranded'
  <2> SUFFICES ASSUME NEW n \in Nodes, NEW i \in 0..(Arity(tree[n].kind) - 2),
                      tree[n].kind \in Parents, Settled(n, i), Settled(n, i + 1),
                      ~EarlyAt(n, i), EarlyAt(n, i + 1)
               PROVE  Stranded'
    BY DEF Stranded
  <2>1. Settled(n, i)' /\ ~EarlyAt(n, i)'
    BY <1>7
  <2>2. Settled(n, i + 1)' /\ EarlyAt(n, i + 1)'
    BY <1>7
  <2> QED BY <1>8, <2>1, <2>2 DEF Stranded
<1>10. ASSUME EarlyAt(p, w)', open[j].kind \in Parents, w >= 1, ~EarlyAt(p, w - 1)'
       PROVE  Stranded'
  <2>1. PICK i : i = w - 1
    OBVIOUS
  <2>2. Arity(open[j].kind) \in Nat
    BY DEF Arity
  <2>3. i \in 0..(Arity(tree[p].kind) - 2) /\ i \in Nat /\ i + 1 = w
    BY <1>1, <1>10, <2>1, <2>2
  <2>4. Settled(p, i)' /\ Settled(p, i + 1)' /\ ~EarlyAt(p, i)' /\ EarlyAt(p, i + 1)'
    BY <1>1, <1>3, <1>10, <2>1, <2>3
  <2>5. tree'[p].kind \in Parents /\ i \in 0..(Arity(tree'[p].kind) - 2) /\ p \in Nodes'
    BY <1>1, <1>8, <1>10, <2>3
  <2> QED BY <2>4, <2>5 DEF Stranded
<1>11. ASSUME NEW n \in Nodes', NEW i \in 0..(Arity(tree'[n].kind) - 2),
              tree'[n].kind \in Parents, Settled(n, i)', Settled(n, i + 1)',
              ~EarlyAt(n, i)', EarlyAt(n, i + 1)'
       PROVE  Stranded \/ (n = p /\ i + 1 = w)
  <2>1. n \in Nodes
    BY <1>11, NewNodeBare
  <2>2. tree'[n] = tree[n] /\ i \in Nat
    <3>1. Arity(tree'[n].kind) \in {1, 2, 3}
      BY DEF Arity
    <3> QED BY <1>8, <2>1, <3>1
  <2>3. CASE Settled(n, i) /\ Settled(n, i + 1)
    <3>1. ~EarlyAt(n, i)
      BY <1>7, <1>11, <2>1, <2>3
    <3>2. EarlyAt(n, i + 1)
      BY <1>7, <1>11, <2>1, <2>3
    <3> QED BY <1>11, <2>1, <2>2, <2>3, <3>1, <3>2 DEF Stranded
  <2>4. CASE ~Settled(n, i + 1)
    <3>1. IsOperand(x, n, i + 1)'
      BY <1>11, <2>4, SettledNew
    <3> QED BY <3>1 DEF IsOperand
  <2>5. CASE ~Settled(n, i)
    <3>1. IsOperand(x, n, i)'
      BY <1>11, <2>5, SettledNew
    <3>2. n = p /\ i = w
      BY <3>1 DEF IsOperand
    <3> QED BY <1>1, <1>3, <1>11, <3>2
  <2> QED BY <2>3, <2>4, <2>5
<1>12. Stranded' => \/ Stranded
                    \/ /\ EarlyAt(p, w)' /\ open[j].kind \in Parents /\ w >= 1
                       /\ ~EarlyAt(p, w - 1)'
  <2> SUFFICES ASSUME NEW n \in Nodes', NEW i \in 0..(Arity(tree'[n].kind) - 2),
                      tree'[n].kind \in Parents, Settled(n, i)', Settled(n, i + 1)',
                      ~EarlyAt(n, i)', EarlyAt(n, i + 1)', ~Stranded
               PROVE  /\ EarlyAt(p, w)' /\ open[j].kind \in Parents /\ w >= 1
                      /\ ~EarlyAt(p, w - 1)'
    BY DEF Stranded
  <2>1. n = p /\ i + 1 = w
    BY <1>11
  <2>2. Arity(tree'[n].kind) \in {1, 2, 3}
    BY DEF Arity
  <2>3. i \in Nat /\ i = w - 1 /\ w >= 1
    BY <1>1, <2>1, <2>2
  <2>4. open[j].kind \in Parents
    BY <1>1, <1>8, <2>1
  <2> QED BY <2>1, <2>3, <2>4
<1>13. w >= 1 => (<<p, w - 1>> \in Lost' <=> EarlyAt(p, w - 1)')
  <2> SUFFICES ASSUME w >= 1 PROVE <<p, w - 1>> \in Lost' <=> EarlyAt(p, w - 1)'
    OBVIOUS
  <2>1. w - 1 \in Nat
    BY <1>1
  <2> QED BY <1>6, <2>1
<1> QED BY <1>1, <1>5, <1>6, <1>9, <1>10, <1>12, <1>13

-----------------------------------------------------------------------------
(* The walk through each action.                                           *)

\* The sequences of a walk, and what they are indexed by.
LEMMA WalkShapes ==
  ASSUME Walk
  PROVE  /\ tree \in Seq(NodeRecord) /\ types \in Seq(TypeSlots) /\ open \in Seq(Frame)
         /\ Len(tree) \in Nat /\ Len(types) = Len(tree) /\ Len(open) \in Nat
         /\ Nodes = 1..Len(tree) /\ DOMAIN tree = Nodes /\ DOMAIN types = Nodes
         /\ DOMAIN open = 1..Len(open) /\ Len(tree) + 1 \notin Nodes
<1>1. tree \in Seq(NodeRecord) /\ types \in Seq(TypeSlots) /\ open \in Seq(Frame)
        /\ Len(types) = Len(tree)
  BY DEF Walk, Shapes
<1>2. /\ Len(tree) \in Nat /\ Len(open) \in Nat
      /\ DOMAIN tree = 1..Len(tree) /\ DOMAIN types = 1..Len(tree) /\ DOMAIN open = 1..Len(open)
  BY <1>1
<1> QED BY <1>1, <1>2 DEF Nodes

\* The innermost operator, while there is one.
LEMMA TopFrame ==
  ASSUME Walk, open # <<>>
  PROVE  Len(open) \in DOMAIN open /\ Top = open[Len(open)] /\ Parent = Top.node
BY WalkShapes DEF Top, Parent

\* A node is revealed, as the next operand of the innermost operator.
LEMMA Revealed ==
  ASSUME Walk, NEW r \in NodeRecord, NEW ty \in TypeSlots,
         open = <<>> => tree = <<>> /\ r.parent = 0,
         open # <<>> => r.parent = Top.node /\ r.index = Top.walked,
         tree' = Append(tree, r), types' = Append(types, ty)
  PROVE  /\ tree' \in Seq(NodeRecord) /\ types' \in Seq(TypeSlots)
         /\ Len(types') = Len(tree')
         /\ Nodes' = Nodes \cup {Len(tree) + 1}
         /\ \A c \in Nodes : tree'[c] = tree[c] /\ types'[c] = types[c]
         /\ tree'[Len(tree) + 1] = r /\ types'[Len(tree) + 1] = ty
         /\ OneOperandEach'
         /\ r.parent < Len(tree) + 1
         /\ Grows(Len(tree) + 1)
<1>1. /\ tree \in Seq(NodeRecord) /\ types \in Seq(TypeSlots)
      /\ Len(tree) \in Nat /\ Len(types) = Len(tree) /\ Nodes = 1..Len(tree)
  BY WalkShapes
<1>2. PICK x : x = Len(tree) + 1
  OBVIOUS
<1>3. /\ tree' \in Seq(NodeRecord) /\ Len(tree') = x
      /\ \A c \in 1..Len(tree) : tree'[c] = tree[c]
      /\ tree'[x] = r
  BY <1>1, <1>2
<1>4. /\ types' \in Seq(TypeSlots) /\ Len(types') = x
      /\ \A c \in 1..Len(tree) : types'[c] = types[c]
      /\ types'[x] = ty
  BY <1>1, <1>2
<1>5. Nodes' = Nodes \cup {x} /\ x \notin Nodes
  BY <1>1, <1>2, <1>3 DEF Nodes
<1>6. r.parent < x
  <2>1. CASE open = <<>>
    BY <1>1, <1>2, <2>1
  <2>2. CASE open # <<>>
    <3>1. Top.node \in Nodes
      BY <2>2, TopFrame, OpenFrame
    <3> QED BY <1>1, <1>2, <2>2, <3>1
  <2> QED BY <2>1, <2>2
<1>7. OneOperandEach'
  <2>1. ASSUME NEW c \in Nodes' PROVE tree'[c].parent < c
    BY <1>1, <1>3, <1>5, <1>6 DEF Walk, OneOperandEach
  <2>2. ASSUME NEW c \in Nodes, tree[c].parent = r.parent, tree[c].index = r.index,
               r.parent # 0
        PROVE  FALSE
    <3>1. open # <<>>
      BY <2>2
    <3>2. PICK j : j = Len(open) /\ j \in DOMAIN open /\ Top = open[j] /\ j + 1 \notin DOMAIN open
      BY <3>1, TopFrame, WalkShapes
    <3>3. open[j].walked \in Nat
      BY <3>2, OpenFrame
    <3>4. tree[c].index < open[j].walked
      BY <2>2, <3>1, <3>2 DEF Walk, OpenOperands
    <3> QED BY <2>2, <3>1, <3>2, <3>3, <3>4
  <2>3. ASSUME NEW c \in Nodes', NEW d \in Nodes',
               tree'[c].parent = tree'[d].parent, tree'[c].index = tree'[d].index,
               tree'[c].parent # 0
        PROVE  c = d
    <3>1. CASE c \in Nodes /\ d \in Nodes
      BY <1>1, <1>3, <2>3, <3>1 DEF Walk, OneOperandEach
    <3>2. CASE c \in Nodes /\ d = x
      BY <1>1, <1>3, <2>2, <2>3, <3>2
    <3>3. CASE c = x /\ d \in Nodes
      BY <1>1, <1>3, <2>2, <2>3, <3>3
    <3> QED BY <1>5, <3>1, <3>2, <3>3
  <2> QED BY <2>1, <2>3 DEF OneOperandEach
<1>8. Grows(x)
  BY <1>1, <1>2, <1>3, <1>4, <1>5 DEF Grows, Exited
<1> QED BY <1>1, <1>2, <1>3, <1>4, <1>5, <1>6, <1>7, <1>8

\* Operands stay settled.
LEMMA StaySettled ==
  ASSUME NEW x, Grows(x), NEW n, NEW i, Settled(n, i)
  PROVE  Settled(n, i)'
<1>1. PICK c \in Nodes : Exited(c) /\ IsOperand(c, n, i)
  BY DEF Settled
<1>2. Exited(c)' /\ tree'[c] = tree[c] /\ c \in Nodes'
  BY <1>1, ExitedKept DEF Exited
<1> QED BY <1>1, <1>2 DEF Settled, IsOperand

\* An operator that was exited before still has its operands.
LEMMA ExitedOperandsKept ==
  ASSUME Walk, NEW x, Grows(x),
         \A i \in 0..(Arity(tree'[x].kind) - 1) : tree'[x].kind # "leaf" => Settled(x, i)'
  PROVE  ExitedOperands'
<1> SUFFICES ASSUME NEW n \in Nodes', Exited(n)', tree'[n].kind # "leaf",
                    NEW i \in 0..(Arity(tree'[n].kind) - 1)
             PROVE  Settled(n, i)'
  BY DEF ExitedOperands
<1>1. CASE n = x
  BY <1>1
<1>2. CASE Exited(n)
  <2>1. n \in Nodes /\ tree'[n] = tree[n]
    BY <1>2 DEF Exited, Grows
  <2>2. Settled(n, i)
    BY <1>2, <2>1 DEF Walk, ExitedOperands
  <2> QED BY <2>2, StaySettled
<1> QED BY <1>1, <1>2 DEF Grows

\* "" is no type.
LEMMA NoTypeIsNone == NoType \notin Types \cup {"error"}
BY Zenon DEF NoType, Types

\* The nodes that the actions reveal.
LEMMA NewNode ==
  ASSUME Walk, NEW kind \in Kinds \cup {"leaf"}, NEW operand \in Operands \cup {NoOperand},
         NEW r, r = Node(kind, operand)
  PROVE  /\ r \in NodeRecord /\ r.kind = kind /\ r.operand = operand
         /\ open = <<>> => r.parent = 0
         /\ open # <<>> => r.parent = Top.node /\ r.index = Top.walked
<1>1. PICK p, i : p = Parent /\ i = IF open = <<>> THEN 0 ELSE Top.walked
  OBVIOUS
<1>2. p \in Nat /\ i \in Nat
  <2>1. CASE open = <<>>
    BY <1>1, <2>1 DEF Parent
  <2>2. CASE open # <<>>
    BY <1>1, <2>2, TopFrame, OpenFrame
  <2> QED BY <2>1, <2>2
<1>3. r = [kind |-> kind, operand |-> operand, parent |-> p, index |-> i]
  BY <1>1 DEF Node
<1>4. r \in NodeRecord /\ r.kind = kind /\ r.operand = operand /\ r.parent = p /\ r.index = i
  BY <1>2, <1>3 DEF NodeRecord
<1> QED BY <1>1, <1>4 DEF Parent

\* An operator is entered.
LEMMA EnterWalk ==
  ASSUME Walk, labelCounter \in Nat, NEW kind \in Operators,
         EnterOperator(kind)
  PROVE  /\ Walk' /\ Grows(0) /\ kind \in Kinds
         /\ \E f \in Frame :
              /\ open' = Append(open, f) /\ f.kind = kind
              /\ f.walked = 0 /\ f.processed = FALSE
              /\ f.kind \in Parents => {f.fall, f.exit} = {labelCounter, labelCounter + 1}
<1>1. PICK r, x, f, m :
        /\ r = Node(kind, NoOperand) /\ x = Len(tree) + 1 /\ m = Len(open)
        /\ f = [node |-> Len(tree) + 1, kind |-> kind, walked |-> 0,
                fall |-> IF kind = "if" THEN labelCounter + 1 ELSE labelCounter,
                exit |-> IF kind = "if" THEN labelCounter ELSE labelCounter + 1,
                processed |-> FALSE]
        /\ tree' = Append(tree, r) /\ types' = Append(types, NoType)
        /\ open' = Append(open, f)
  BY DEF EnterOperator, NoType
<1>2. kind \in Kinds
  BY ConstantsAssumption DEF Operators, Kinds
<1>3. /\ r \in NodeRecord /\ r.kind = kind
      /\ open = <<>> => r.parent = 0
      /\ open # <<>> => r.parent = Top.node /\ r.index = Top.walked
  BY <1>1, <1>2, NewNode
<1>4. open = <<>> => tree = <<>>
  BY DEF EnterOperator, Walking
<1>5. NoType \in TypeSlots
  BY DEF TypeSlots
<1>6. /\ tree' \in Seq(NodeRecord) /\ types' \in Seq(TypeSlots) /\ Len(types') = Len(tree')
      /\ Nodes' = Nodes \cup {x}
      /\ \A c \in Nodes : tree'[c] = tree[c] /\ types'[c] = types[c]
      /\ tree'[x] = r /\ types'[x] = NoType
      /\ OneOperandEach' /\ r.parent < x /\ Grows(x)
  BY <1>1, <1>3, <1>4, <1>5, Revealed
<1>7. x \in Nat /\ x \notin Nodes /\ Nodes = 1..Len(tree) /\ m \in Nat /\ DOMAIN open = 1..m
  BY <1>1, WalkShapes
<1>8. /\ f \in Frame /\ f.node = x /\ f.kind = kind /\ f.walked = 0 /\ f.processed = FALSE
      /\ f.kind \in Parents => {f.fall, f.exit} = {labelCounter, labelCounter + 1}
  <2>1. PICK a, b : /\ a = (IF kind = "if" THEN labelCounter + 1 ELSE labelCounter)
                    /\ b = (IF kind = "if" THEN labelCounter ELSE labelCounter + 1)
    OBVIOUS
  <2>2. a \in Nat /\ b \in Nat
    BY <2>1
  <2>3. f = [node |-> x, kind |-> kind, walked |-> 0, fall |-> a, exit |-> b,
             processed |-> FALSE]
    BY <1>1, <2>1
  <2>4. f \in Frame /\ f.node = x /\ f.kind = kind /\ f.walked = 0 /\ f.processed = FALSE
          /\ f.fall = a /\ f.exit = b
    BY <1>2, <1>7, <2>2, <2>3 DEF Frame
  <2>5. {a, b} = {labelCounter, labelCounter + 1}
    BY <2>1
  <2> QED BY <2>4, <2>5
<1>9. /\ open' \in Seq(Frame) /\ DOMAIN open' = 1..(m + 1)
      /\ \A i \in 1..m : open'[i] = open[i]
      /\ open'[m + 1] = f
  <2>1. open \in Seq(Frame) /\ Len(open) = m
    BY <1>1, WalkShapes
  <2> QED BY <1>1, <1>8, <2>1
<1>10. \A n, i : Settled(n, i)' <=> Settled(n, i)
  <2>1. ASSUME NEW n, NEW i, NEW c \in Nodes', Exited(c)', IsOperand(c, n, i)'
        PROVE  Settled(n, i)
    <3>1. c # x
      BY <1>6, <2>1 DEF Exited
    <3> QED BY <1>6, <2>1, <3>1 DEF Exited, IsOperand, Settled
  <2>2. \A n, i : Settled(n, i)' => Settled(n, i)
    BY <2>1 DEF Settled
  <2> QED BY <1>6, <2>2, StaySettled
<1>11. open # <<>> => m \in 1..m /\ Top = open[m]
  BY <1>1, <1>7, TopFrame
<1>12. Shapes'
  <2>1. phase' = "walking"
    BY DEF EnterOperator, Walking
  <2> QED BY <1>6, <1>9, <2>1 DEF Shapes
<1>13. OpenPath'
  <2>1. ASSUME NEW i \in 1..m PROVE FrameInTree(i)'
    <3>1. FrameInTree(i) /\ open[i].node \in Nodes
      BY <1>7, OpenFrame
    <3>2. i > 1 => i - 1 \in 1..m
      BY <1>7
    <3> QED BY <1>6, <1>7, <1>9, <3>1, <3>2 DEF FrameInTree, IsOperand
  <2>2. FrameInTree(m + 1)'
    <3>1. CASE m = 0
      <4>1. open = <<>>
        BY <1>1, <3>1, WalkShapes
      <4>2. Arity(kind) \in {1, 2, 3}
        BY DEF Arity
      <4> QED BY <1>3, <1>6, <1>8, <1>9, <3>1, <4>1, <4>2 DEF FrameInTree
    <3>2. CASE m >= 1
      <4>1. open # <<>> /\ m \in 1..m
        BY <1>1, <1>7, <3>2
      <4>2. open'[m] = open[m] /\ Top = open[m] /\ m + 1 > 1 /\ (m + 1) - 1 = m /\ m + 1 # 1
        BY <1>7, <1>9, <1>11, <4>1
      <4>3. Top.walked < Arity(Top.kind)
        BY <4>1 DEF EnterOperator
      <4>4. Arity(kind) \in {1, 2, 3}
        BY DEF Arity
      <4>5. IsOperand(x, open[m].node, open[m].walked)'
        BY <1>3, <1>6, <1>9, <4>1, <4>2 DEF IsOperand
      <4> QED BY <1>3, <1>6, <1>8, <1>9, <4>2, <4>3, <4>4, <4>5 DEF FrameInTree, IsOperand
    <3> QED BY <1>7, <3>1, <3>2
  <2>3. ASSUME NEW i \in 1..(m + 1), NEW j \in 1..(m + 1), open'[i].node = open'[j].node
        PROVE  i = j
    <3>1. \A k \in 1..m : open[k].node \in Nodes
      BY <1>7, OpenFrame
    <3>2. CASE i \in 1..m /\ j \in 1..m
      BY <1>7, <1>9, <2>3, <3>2 DEF Walk, OpenPath
    <3>3. CASE i = m + 1 /\ j \in 1..m
      BY <1>7, <1>8, <1>9, <2>3, <3>1, <3>3
    <3>4. CASE i \in 1..m /\ j = m + 1
      BY <1>7, <1>8, <1>9, <2>3, <3>1, <3>4
    <3> QED BY <1>7, <3>2, <3>3, <3>4
  <2>4. ASSUME NEW n \in Nodes', types'[n] = NoType PROVE \E i \in 1..(m + 1) : open'[i].node = n
    <3>1. CASE n = x
      BY <1>7, <1>8, <1>9, <3>1
    <3>2. CASE n \in Nodes
      <4>1. PICK i \in 1..m : open[i].node = n
        BY <1>6, <1>7, <2>4, <3>2 DEF Walk, OpenPath
      <4> QED BY <1>7, <1>9, <4>1
    <3> QED BY <1>6, <3>1, <3>2
  <2>5. \A i \in 1..(m + 1) : i \in 1..m \/ i = m + 1
    BY <1>7
  <2> QED BY <1>9, <2>1, <2>2, <2>3, <2>4, <2>5 DEF OpenPath
<1>14. OpenOperands'
  <2>1. ASSUME NEW j \in 1..m, NEW i \in 0..(open[j].walked - 1) PROVE Settled(open[j].node, i)
    BY <1>7, <2>1 DEF Walk, OpenOperands
  <2>2. ASSUME NEW j \in 1..m, NEW c \in Nodes', tree'[c].parent = open[j].node
        PROVE  \/ tree'[c].index < open[j].walked
               \/ j + 1 \in 1..(m + 1) /\ c = open'[j + 1].node
    <3>1. CASE c \in Nodes
      <4>1. \/ tree[c].index < open[j].walked
            \/ j + 1 \in DOMAIN open /\ c = open[j + 1].node
        BY <1>6, <1>7, <2>2, <3>1 DEF Walk, OpenOperands
      <4> QED BY <1>6, <1>7, <1>9, <3>1, <4>1
    <3>2. CASE c = x
      <4>1. open # <<>>
        BY <1>1, <1>7
      <4>2. open[m].node = open[j].node
        BY <1>3, <1>6, <1>11, <2>2, <3>2, <4>1
      <4>3. j = m
        BY <1>7, <1>11, <4>1, <4>2 DEF Walk, OpenPath
      <4> QED BY <1>7, <1>8, <1>9, <3>2, <4>3
    <3> QED BY <1>6, <3>1, <3>2
  <2>3. ASSUME NEW c \in Nodes' PROVE tree'[c].parent # x
    <3>1. CASE c = x
      BY <1>6, <1>7, <3>1
    <3>2. CASE c \in Nodes
      BY <1>1, <1>6, <1>7, <3>2, WalkShapes DEF Walk, OneOperandEach
    <3> QED BY <1>6, <3>1, <3>2
  <2>4. ASSUME NEW j \in 1..(m + 1)
        PROVE  /\ \A i \in 0..(open'[j].walked - 1) : Settled(open[j].node, i)'
               /\ \A c \in Nodes' :
                    tree'[c].parent = open'[j].node =>
                      \/ tree'[c].index < open'[j].walked
                      \/ j + 1 \in DOMAIN open' /\ c = open'[j + 1].node
    <3>1. CASE j \in 1..m
      <4>1. PICK g, n : g = open[j] /\ n = g.node
        OBVIOUS
      <4>2. open'[j] = g
        BY <1>9, <3>1, <4>1
      <4>3. \A i \in 0..(g.walked - 1) : Settled(n, i)'
        BY <1>10, <2>1, <3>1, <4>1
      <4>4. \A i \in 0..(g.walked - 1) : Settled(open[j].node, i)'
        BY <4>1, <4>2, <4>3
      <4> QED BY <1>9, <2>2, <3>1, <4>1, <4>2, <4>4
    <3>2. CASE j = m + 1
      <4>1. open'[j].walked = 0 /\ open'[j].node = x
        BY <1>8, <1>9, <3>2
      <4>2. 0..(0 - 1) = {}
        OBVIOUS
      <4> QED BY <2>3, <4>1, <4>2
    <3> QED BY <1>7, <3>1, <3>2
  <2> QED BY <1>9, <2>4 DEF OpenOperands
<1>15. ExitedOperands'
  <2>1. ASSUME NEW n \in Nodes', Exited(n)', tree'[n].kind # "leaf",
               NEW i \in 0..(Arity(tree'[n].kind) - 1)
        PROVE  Settled(n, i)'
    <3>1. n \in Nodes /\ Exited(n) /\ tree'[n] = tree[n]
      BY <1>6, <2>1 DEF Exited
    <3> QED BY <1>10, <2>1, <3>1 DEF Walk, ExitedOperands
  <2> QED BY <2>1 DEF ExitedOperands
<1>16. Grows(0)
  BY <1>1, <1>6 DEF Grows, Exited
<1> QED BY <1>1, <1>2, <1>6, <1>8, <1>12, <1>13, <1>14, <1>15, <1>16 DEF Walk

\* A leaf is exited as soon as it is revealed, as the next operand of the
\* innermost operator, if there is one.
LEMMA LeafWalk ==
  ASSUME Walk, NEW operand \in Operands, Leaf(operand)
  PROVE  /\ Walk' /\ Grows(Len(tree) + 1)
         /\ Len(tree) + 1 \in Nodes' /\ tree'[Len(tree) + 1].kind = "leaf"
         /\ types'[Len(tree) + 1] = operand.type
         /\ open = <<>> => tree'[Len(tree) + 1].parent = 0
         /\ open # <<>> => /\ tree'[Len(tree) + 1].parent = Top.node
                           /\ tree'[Len(tree) + 1].index = Top.walked
<1>1. PICK r, x, m, type :
        /\ r = Node("leaf", operand) /\ x = Len(tree) + 1 /\ m = Len(open)
        /\ type = operand.type
        /\ tree' = Append(tree, r) /\ types' = Append(types, type)
  BY DEF Leaf
<1>2. type \in Types /\ type # NoType
  <2>1. type \in Types
    BY <1>1, ConstantsAssumption DEF Operands
  <2> QED BY <2>1, NoTypeIsNone
<1>3. /\ r \in NodeRecord /\ r.kind = "leaf"
      /\ open = <<>> => r.parent = 0
      /\ open # <<>> => r.parent = Top.node /\ r.index = Top.walked
  <2>1. PICK k \in Kinds \cup {"leaf"} : k = "leaf"
    OBVIOUS
  <2>2. r = Node(k, operand) /\ operand \in Operands \cup {NoOperand}
    BY <1>1, <2>1
  <2>3. /\ r \in NodeRecord /\ r.kind = k
        /\ open = <<>> => r.parent = 0
        /\ open # <<>> => r.parent = Top.node /\ r.index = Top.walked
    BY <2>2, NewNode
  <2> QED BY <2>1, <2>3
<1>4. open = <<>> => tree = <<>>
  BY DEF Leaf, Walking
<1>5. type \in TypeSlots
  BY <1>2 DEF TypeSlots
<1>6. /\ tree' \in Seq(NodeRecord) /\ types' \in Seq(TypeSlots) /\ Len(types') = Len(tree')
      /\ Nodes' = Nodes \cup {x}
      /\ \A c \in Nodes : tree'[c] = tree[c] /\ types'[c] = types[c]
      /\ tree'[x] = r /\ types'[x] = type
      /\ OneOperandEach' /\ r.parent < x /\ Grows(x)
  BY <1>1, <1>3, <1>4, <1>5, Revealed
<1>7. x \in Nat /\ x \notin Nodes /\ Nodes = 1..Len(tree) /\ m \in Nat /\ DOMAIN open = 1..m
  BY <1>1, WalkShapes
<1>8. ExitedOperands'
  BY <1>3, <1>6, ExitedOperandsKept
<1>9. /\ x \in Nodes' /\ tree'[x].kind = "leaf" /\ types'[x] = type
      /\ open = <<>> => tree'[x].parent = 0
      /\ open # <<>> => tree'[x].parent = Top.node /\ tree'[x].index = Top.walked
  BY <1>3, <1>6
<1>10. CASE open = <<>>
  <2>1. open' = <<>> /\ phase' = "done"
    BY <1>10 DEF Leaf
  <2>2. open' \in Seq(Frame) /\ DOMAIN open' = {}
    BY <2>1
  <2>3. Shapes'
    BY <1>6, <2>1, <2>2 DEF Shapes
  <2>4. ASSUME NEW n \in Nodes PROVE FALSE
    <3>1. tree = <<>>
      BY <1>4, <1>10
    <3>2. Len(tree) = 0
      BY <3>1
    <3> QED BY <1>7, <2>4, <3>2
  <2>5. \A n \in Nodes' : types'[n] # NoType
    BY <1>2, <1>6, <2>4
  <2>6. OpenPath' /\ OpenOperands'
    BY <2>2, <2>5 DEF OpenPath, OpenOperands
  <2> QED BY <1>1, <1>6, <1>8, <1>9, <2>3, <2>6 DEF Walk
<1>11. CASE open # <<>>
  <2>1. m \in 1..m /\ Top = open[m]
    BY <1>1, <1>7, <1>11, TopFrame
  <2>2. PICK top, p, w : top = open[m] /\ p = top.node /\ w = top.walked
    OBVIOUS
  <2>3. /\ top \in Frame /\ p \in Nodes /\ p \in Nat \ {0} /\ w \in Nat /\ top.kind \in Kinds
        /\ FrameInTree(m) /\ w < Arity(top.kind)
    <3>1. w < Arity(top.kind)
      BY <1>11, <2>1, <2>2 DEF Leaf
    <3> QED BY <1>7, <2>1, <2>2, <3>1, OpenFrame
  <2>4. PICK g : /\ open' = [open EXCEPT ![m] = g]
                 /\ g = AfterOperand(top, ReturnsEarly("leaf", type, <<>>))
    BY <1>1, <1>11, <2>1, <2>2 DEF Leaf
  <2>5. g \in Frame /\ g.node = p /\ g.kind = top.kind /\ g.walked = w + 1
    <3>1. ReturnsEarly("leaf", type, <<>>) \in BOOLEAN
      BY DEF ReturnsEarly
    <3> QED BY <2>2, <2>3, <2>4, <3>1, AfterOperandIs
  <2>6. /\ open' \in Seq(Frame) /\ DOMAIN open' = 1..m
        /\ \A i \in 1..m : i # m => open'[i] = open[i]
        /\ open'[m] = g
    <3>1. open \in Seq(Frame)
      BY WalkShapes
    <3> QED BY <1>7, <2>1, <2>4, <2>5, <3>1
  <2>7. Shapes'
    <3>1. phase' = "walking"
      BY <1>11 DEF Leaf, Walking
    <3> QED BY <1>6, <2>6, <3>1 DEF Shapes
  <2>8. \A i \in 1..m : open'[i].node = open[i].node /\ open'[i].kind = open[i].kind
    BY <2>2, <2>5, <2>6
  <2>9. OpenPath'
    <3>1. ASSUME NEW i \in 1..m PROVE FrameInTree(i)'
      <4>1. FrameInTree(i) /\ open[i].node \in Nodes
        BY <1>7, OpenFrame
      <4>2. i > 1 => i - 1 \in 1..m /\ i - 1 # m
        BY <1>7
      <4>3. open'[i].walked <= Arity(open'[i].kind)
        <5>1. CASE i = m
          <6>1. Arity(top.kind) \in {1, 2, 3}
            BY DEF Arity
          <6> QED BY <2>3, <2>5, <2>6, <5>1, <6>1
        <5>2. CASE i # m
          BY <2>6, <4>1, <5>2 DEF FrameInTree
        <5> QED BY <5>1, <5>2
      <4>4. i > 1 => open'[i - 1] = open[i - 1]
        BY <2>6, <4>2
      <4> QED BY <1>6, <2>8, <4>1, <4>3, <4>4 DEF FrameInTree, IsOperand
    <3>2. ASSUME NEW i \in 1..m, NEW j \in 1..m, open'[i].node = open'[j].node
          PROVE  i = j
      BY <1>7, <2>8, <3>2 DEF Walk, OpenPath
    <3>3. ASSUME NEW n \in Nodes', types'[n] = NoType
          PROVE  \E i \in 1..m : open'[i].node = n
      <4>1. n \in Nodes /\ types[n] = NoType
        BY <1>2, <1>6, <3>3
      <4>2. PICK i \in 1..m : open[i].node = n
        BY <1>7, <4>1 DEF Walk, OpenPath
      <4> QED BY <2>8, <4>2
    <3> QED BY <2>6, <3>1, <3>2, <3>3 DEF OpenPath
  <2>10. OpenOperands'
    <3>1. ASSUME NEW j \in 1..m, NEW i \in 0..(open'[j].walked - 1)
          PROVE  Settled(open[j].node, i)'
      <4>1. PICK n : n = open'[j].node /\ n = open[j].node
        BY <2>8
      <4>2. CASE j = m /\ i = w
        <5>1. Exited(x)' /\ IsOperand(x, n, i)'
          <6>1. tree'[x].parent = n /\ tree'[x].index = i
            BY <1>9, <1>11, <2>1, <2>2, <4>1, <4>2
          <6> QED BY <1>2, <1>9, <6>1 DEF Exited, IsOperand
        <5>2. Settled(n, i)'
          BY <1>9, <5>1 DEF Settled
        <5> QED BY <4>1, <5>2
      <4>3. CASE j = m /\ i # w
        <5>1. i \in 0..(open[j].walked - 1)
          BY <2>2, <2>3, <2>5, <2>6, <4>3
        <5>2. Settled(n, i)
          BY <1>7, <4>1, <5>1 DEF Walk, OpenOperands
        <5>3. Settled(n, i)'
          BY <1>6, <5>2, StaySettled
        <5> QED BY <4>1, <5>3
      <4>4. CASE j # m
        <5>1. Settled(n, i)
          BY <1>7, <2>6, <4>1, <4>4 DEF Walk, OpenOperands
        <5>2. Settled(n, i)'
          BY <1>6, <5>1, StaySettled
        <5> QED BY <4>1, <5>2
      <4> QED BY <4>2, <4>3, <4>4
    <3>2. ASSUME NEW j \in 1..m, NEW c \in Nodes', tree'[c].parent = open'[j].node
          PROVE  \/ tree'[c].index < open'[j].walked
                 \/ j + 1 \in DOMAIN open' /\ c = open'[j + 1].node
      <4>1. CASE c \in Nodes
        <5>1. \/ tree[c].index < open[j].walked
              \/ j + 1 \in DOMAIN open /\ c = open[j + 1].node
          <6>1. tree[c].parent = open[j].node /\ j \in DOMAIN open
            BY <1>6, <1>7, <2>8, <3>2, <4>1
          <6> QED BY <4>1, <6>1 DEF Walk, OpenOperands
        <5>2. tree'[c].index = tree[c].index /\ tree[c].index \in Nat
          <6>1. tree[c] \in NodeRecord
            BY <4>1, WalkShapes
          <6> QED BY <1>6, <4>1, <6>1 DEF NodeRecord
        <5>3. open[j].walked \in Nat /\ open'[j].walked >= open[j].walked
          <6>1. open[j].walked \in Nat
            BY <1>7, OpenFrame
          <6> QED BY <2>2, <2>5, <2>6, <6>1
        <5>4. CASE tree[c].index < open[j].walked
          <6>1. open'[j].walked \in Nat
            BY <2>3, <2>5, <2>6, <5>3
          <6> QED BY <5>2, <5>3, <5>4, <6>1
        <5>5. CASE j + 1 \in DOMAIN open /\ c = open[j + 1].node
          BY <1>7, <2>6, <2>8, <5>5
        <5> QED BY <5>1, <5>4, <5>5
      <4>2. CASE c = x
        <5>1. open[m].node = open[j].node
          BY <1>3, <1>6, <1>11, <2>1, <2>8, <3>2, <4>2
        <5>2. j = m
          BY <1>7, <2>1, <5>1 DEF Walk, OpenPath
        <5>3. tree'[x].index = w
          BY <1>3, <1>6, <1>11, <2>1, <2>2
        <5> QED BY <2>3, <2>5, <2>6, <4>2, <5>2, <5>3
      <4> QED BY <1>6, <4>1, <4>2
    <3> QED BY <2>6, <3>1, <3>2 DEF OpenOperands
  <2> QED BY <1>1, <1>6, <1>8, <1>9, <2>7, <2>9, <2>10 DEF Walk
<1> QED BY <1>10, <1>11

\* What the type checker makes of operands that have types.
LEMMA CheckedIn ==
  ASSUME NEW kind \in Kinds, NEW t, \A i \in 1..Arity(kind) : t[i] \in Types
  PROVE  CheckedType(kind, t) \in Types \cup {"error"}
<1>1. CASE kind \in {"and", "or", "eq", "lt", "not", "plus", "increment", "sub"}
  BY <1>1 DEF CheckedType, Types, Arity, Unary, Binary
<1>2. CASE kind = "paren"
  <2>1. 1 \in 1..Arity(kind)
    BY <1>2 DEF Arity, Unary
  <2> QED BY <1>2, <2>1 DEF CheckedType
<1>3. CASE kind = "if"
  <2>1. 2 \in 1..Arity(kind) /\ 3 \in 1..Arity(kind)
    BY <1>3 DEF Arity, Unary, Binary
  <2>2. BranchType(t[2], t[3]) \in Types \cup {"error"}
    BY <2>1 DEF BranchType
  <2> QED BY <1>3, <2>2 DEF CheckedType
<1> QED BY <1>1, <1>2, <1>3 DEF Kinds, Unary, Binary

\* The operands of an operator that is about to be left have types.
LEMMA OperandTypes ==
  ASSUME Walk, open # <<>>, Top.walked = Arity(Top.kind), NEW i \in 0..(Arity(Top.kind) - 1)
  PROVE  Settled(Top.node, i) /\ types[Operand(Top.node, i)] \in Types
<1>1. PICK n, m : n = Top.node /\ m = Len(open) /\ m \in DOMAIN open /\ Top = open[m]
  BY TopFrame
<1>2. n \in Nat \ {0}
  BY <1>1, OpenFrame
<1>3. Settled(n, i)
  BY <1>1 DEF Walk, OpenOperands
<1>4. PICK c \in Nodes : Exited(c) /\ IsOperand(c, n, i)
  BY <1>3 DEF Settled
<1>5. Operand(n, i) = c
  BY <1>2, <1>4, OperandIs DEF Walk
<1>6. types[c] \in TypeSlots
  BY WalkShapes
<1> QED BY <1>1, <1>3, <1>4, <1>5, <1>6 DEF Exited, TypeSlots

\* The code generator's test, and the one of ExprJumps.
LEMMA SameTest ==
  ASSUME NEW kind, NEW type, NEW t
  PROVE  ReturnsEarly(kind, type, t) <=>
           \/ type \in Pointers
           \/ /\ kind \in {"eq", "lt"}
              /\ "string" \in {t[1], t[2]} /\ {t[1], t[2]} \cap Pointers = {}
<1>1. PICK a, b : a = t[1] /\ b = t[2]
  OBVIOUS
<1>2. IsStringComparison(kind, t) <=>
        /\ kind \in {"eq", "lt"}
        /\ a \notin Pointers /\ b \notin Pointers /\ (a = "string" \/ b = "string")
  BY <1>1 DEF IsStringComparison
<1>3. a \notin Pointers /\ b \notin Pointers <=> {a, b} \cap Pointers = {}
  OBVIOUS
<1>4. a = "string" \/ b = "string" <=> "string" \in {a, b}
  OBVIOUS
<1> QED BY <1>1, <1>2, <1>3, <1>4 DEF ReturnsEarly

\* An operator is left, and is the next operand of the one around it.
LEMMA ExitWalk ==
  ASSUME Walk, ExitOperator, phase' \notin {"rejected", "aborted"}
  PROVE  \E top, m, t, early :
           /\ top = Top /\ m = Len(open) - 1 /\ early \in BOOLEAN
           /\ Walk' /\ Grows(top.node) /\ top.node \in Nodes' /\ top.kind \in Kinds
           /\ m = 0 => open' = <<>> /\ tree'[top.node].parent = 0
           /\ m > 0 => /\ open' = [SubSeq(open, 1, m) EXCEPT ![m] = AfterOperand(open[m], early)]
                       /\ m \in DOMAIN open /\ m \in DOMAIN open'
                       /\ tree'[top.node].parent = open[m].node
                       /\ tree'[top.node].index = open[m].walked
                       /\ open'[m].node = open[m].node
                       /\ open'[m].walked = open[m].walked + 1
                       /\ open[m].walked < Arity(open[m].kind)
           /\ ReturnedEarly(top.node)' <=> early
           /\ ~Throws(top, t)
           /\ code' = code \o Combine(top, t)
                        \o (IF m = 0 \/ early THEN <<>>
                            ELSE ParentJumps(open[m], open[m].walked))
           /\ labelCounter' = labelCounter + NewLabels(top.kind)
<1>0. PICK top, m, t, early :
        /\ top = Top /\ m = Len(open) - 1
        /\ t = [i \in 1..Arity(top.kind) |-> types[Operand(top.node, i - 1)]]
        /\ early = ReturnsEarly(top.kind, CheckedType(top.kind, t), t)
  OBVIOUS
<1>b. early \in BOOLEAN
  BY <1>0 DEF ReturnsEarly
<1> WITNESS top, m, t, early
<1>1. PICK x, type, rest : /\ x = top.node /\ type = CheckedType(top.kind, t)
                           /\ rest = SubSeq(open, 1, m)
  OBVIOUS
<1>2. /\ open # <<>> /\ top.walked = Arity(top.kind)
      /\ phase = "walking"
      /\ type # "error" /\ ~Throws(top, t)
      /\ types' = [types EXCEPT ![x] = type]
      /\ code' = code \o Combine(top, t)
                   \o (IF rest = <<>> \/ early THEN <<>>
                       ELSE ParentJumps(rest[Len(rest)], rest[Len(rest)].walked))
      /\ labelCounter' = labelCounter + NewLabels(top.kind)
      /\ IF rest = <<>> THEN phase' = "done" /\ open' = rest
         ELSE /\ open' = [rest EXCEPT ![Len(rest)] = AfterOperand(rest[Len(rest)], early)]
              /\ phase' = phase
      /\ tree' = tree
  BY <1>0, <1>1 DEF ExitOperator
<1>3. /\ m \in Nat /\ DOMAIN open = 1..(m + 1) /\ open \in Seq(Frame) /\ Len(open) = m + 1
      /\ top = open[m + 1] /\ m + 1 \in 1..(m + 1)
  <2>1. Len(open) \in DOMAIN open /\ top = open[Len(open)] /\ Len(open) \in Nat
          /\ DOMAIN open = 1..Len(open) /\ open \in Seq(Frame)
    BY <1>0, <1>2, TopFrame, WalkShapes
  <2> QED BY <1>0, <2>1
<1>4. /\ x \in Nodes /\ x \in Nat \ {0} /\ ~Exited(x) /\ FrameInTree(m + 1) /\ top.kind \in Kinds
      /\ tree[x].kind = top.kind
  <2>1. FrameInTree(m + 1) /\ open[m + 1].node \in Nodes /\ ~Exited(open[m + 1].node)
          /\ open[m + 1].node \in Nat \ {0} /\ open[m + 1].kind \in Kinds
    BY <1>3, OpenFrame
  <2> QED BY <1>1, <1>3, <2>1 DEF FrameInTree
<1>5. Arity(top.kind) \in {1, 2, 3}
  BY DEF Arity
<1>6. \A i \in 0..(Arity(top.kind) - 1) :
        Settled(x, i) /\ types[Operand(x, i)] \in Types /\ t[i + 1] = types[Operand(x, i)]
  <2> SUFFICES ASSUME NEW i \in 0..(Arity(top.kind) - 1)
               PROVE  Settled(x, i) /\ types[Operand(x, i)] \in Types
                        /\ t[i + 1] = types[Operand(x, i)]
    OBVIOUS
  <2>1. Settled(x, i) /\ types[Operand(x, i)] \in Types
    BY <1>0, <1>1, <1>2, OperandTypes
  <2>2. i + 1 \in 1..Arity(top.kind) /\ (i + 1) - 1 = i
    BY <1>5
  <2>3. t[i + 1] = types[Operand(x, (i + 1) - 1)]
    BY <1>0, <1>1, <2>2
  <2> QED BY <2>1, <2>2, <2>3
<1>7. type \in Types /\ type # NoType
  <2>1. ASSUME NEW i \in 1..Arity(top.kind) PROVE t[i] \in Types
    <3>1. i - 1 \in 0..(Arity(top.kind) - 1) /\ (i - 1) + 1 = i
      BY <1>5
    <3> QED BY <1>6, <3>1
  <2>2. type \in Types \cup {"error"}
    BY <1>1, <1>4, <2>1, CheckedIn
  <2> QED BY <1>2, <2>2, NoTypeIsNone
<1>8. /\ types' \in Seq(TypeSlots) /\ Len(types') = Len(tree') /\ Nodes' = Nodes
      /\ types'[x] = type /\ \A c \in Nodes : c # x => types'[c] = types[c]
  <2>1. types \in Seq(TypeSlots) /\ DOMAIN types = Nodes /\ Len(types) = Len(tree)
    BY WalkShapes
  <2>2. type \in TypeSlots
    BY <1>7 DEF TypeSlots
  <2>0. types' = [types EXCEPT ![x] = type]
    BY <1>2
  <2>3. types' \in Seq(TypeSlots) /\ Len(types') = Len(types)
    BY <1>4, <2>0, <2>1, <2>2
  <2>4. types'[x] = type /\ \A c \in Nodes : c # x => types'[c] = types[c]
    BY <1>2, <1>4, <2>1
  <2> QED BY <1>2, <2>1, <2>3, <2>4 DEF Nodes
<1>9. Grows(x)
  BY <1>2, <1>4, <1>8 DEF Grows, Exited
<1>10. ExitedOperands'
  <2>1. \A i \in 0..(Arity(tree'[x].kind) - 1) : Settled(x, i)'
    BY <1>2, <1>4, <1>6, <1>9, StaySettled
  <2> QED BY <1>9, <2>1, ExitedOperandsKept
<1>11. OneOperandEach'
  BY <1>2 DEF Walk, OneOperandEach, Nodes
<1>12. rest \in Seq(Frame) /\ Len(rest) = m /\ DOMAIN rest = 1..m /\ \A i \in 1..m : rest[i] = open[i]
  <2>1. m <= Len(open) /\ m \in Nat
    BY <1>3
  <2>2. rest \in Seq(Frame) /\ Len(rest) = m
    BY <1>1, <1>3, <2>1
  <2>3. DOMAIN rest = 1..m
    BY <2>2
  <2>4. \A i \in 1..m : rest[i] = open[i]
    BY <1>1, <1>3, <2>1
  <2> QED BY <2>2, <2>3, <2>4
<1>13. rest = <<>> <=> m = 0
  BY <1>3, <1>12
<1>14. ReturnedEarly(x)' <=> early
  <2>1. early <=> \/ type \in Pointers
                  \/ /\ top.kind \in {"eq", "lt"}
                     /\ "string" \in {t[1], t[2]} /\ {t[1], t[2]} \cap Pointers = {}
    BY <1>0, <1>1, SameTest
  <2>2. ReturnedEarly(x)' <=>
          \/ type \in Pointers
          \/ /\ top.kind \in {"eq", "lt"}
             /\ "string" \in {types'[Operand(x, 0)'], types'[Operand(x, 1)']}
             /\ {types'[Operand(x, 0)'], types'[Operand(x, 1)']} \cap Pointers = {}
    BY <1>2, <1>4, <1>8 DEF ReturnedEarly
  <2>3. CASE top.kind \notin {"eq", "lt"}
    BY <2>1, <2>2, <2>3
  <2>4. CASE top.kind \in {"eq", "lt"}
    <3>1. Arity(top.kind) = 2
      BY <2>4 DEF Arity, Unary, Binary
    <3>2. PICK a, b : a = Operand(x, 0) /\ b = Operand(x, 1)
      OBVIOUS
    <3>3. t[1] = types[a] /\ t[2] = types[b] /\ Settled(x, 0) /\ Settled(x, 1)
      BY <1>6, <3>1, <3>2
    <3>4. /\ a \in Nodes /\ b \in Nodes /\ a # x /\ b # x
          /\ Operand(x, 0)' = a /\ Operand(x, 1)' = b
      <4>1. ASSUME NEW i \in {0, 1}, NEW c, c = Operand(x, i), Settled(x, i)
            PROVE  c \in Nodes /\ c # x /\ Operand(x, i)' = c
        <5>1. PICK d \in Nodes : Exited(d) /\ IsOperand(d, x, i)
          BY <4>1 DEF Settled
        <5>2. c = d
          BY <1>4, <4>1, <5>1, OperandIs DEF Walk
        <5>3. IsOperand(d, x, i)'
          BY <1>2, <5>1 DEF IsOperand
        <5>4. Operand(x, i)' = d
          BY <1>4, <1>8, <1>11, <5>1, <5>3, OperandIsNext
        <5> QED BY <1>4, <5>1, <5>2, <5>4
      <4> QED BY <3>2, <3>3, <4>1
    <3>5. types'[a] = types[a] /\ types'[b] = types[b]
      BY <1>8, <3>4
    <3> QED BY <2>1, <2>2, <2>4, <3>3, <3>4, <3>5
  <2> QED BY <2>3, <2>4
<1>15. CASE m = 0
  <2>1. open' = <<>> /\ phase' = "done"
    BY <1>2, <1>12, <1>13, <1>15
  <2>2. open' \in Seq(Frame) /\ DOMAIN open' = {}
    BY <2>1
  <2>3. Shapes'
    BY <1>2, <1>8, <2>1, <2>2 DEF Shapes, Walk
  <2>4. \A n \in Nodes' : types'[n] # NoType
    <3> SUFFICES ASSUME NEW n \in Nodes, types'[n] = NoType PROVE FALSE
      BY <1>8
    <3>1. n # x /\ types[n] = NoType
      BY <1>7, <1>8
    <3>2. PICK i \in 1..(m + 1) : open[i].node = n
      BY <1>3, <3>1 DEF Walk, OpenPath
    <3> QED BY <1>1, <1>3, <1>15, <3>1, <3>2
  <2>5. OpenPath' /\ OpenOperands'
    BY <2>2, <2>4 DEF OpenPath, OpenOperands
  <2>6. tree'[x].parent = 0
    BY <1>1, <1>2, <1>3, <1>4, <1>15 DEF FrameInTree
  <2>7. Walk'
    BY <1>10, <1>11, <2>3, <2>5 DEF Walk
  <2>8. m = 0 => open' = <<>> /\ tree'[x].parent = 0
    BY <2>1, <2>6
  <2>9. code' = code \o Combine(top, t) \o (IF m = 0 \/ early THEN <<>>
                                            ELSE ParentJumps(open[m], open[m].walked))
    BY <1>2, <1>13, <1>15
  <2>10. ~(m > 0)
    BY <1>3, <1>15
  <2> QED BY <1>0, <1>1, <1>2, <1>4, <1>8, <1>9, <1>14, <1>b, <2>7, <2>8, <2>9, <2>10
<1>16. CASE m > 0
  <2>1. m \in 1..m /\ m \in 1..(m + 1) /\ (m + 1) - 1 = m /\ m + 1 > 1 /\ m + 1 # 1
    BY <1>3, <1>16
  <2>2. PICK f, p, w, g : f = open[m] /\ p = f.node /\ w = f.walked /\ g = AfterOperand(f, early)
    OBVIOUS
  <2>3. f \in Frame /\ p \in Nodes /\ w \in Nat /\ f.kind \in Kinds /\ FrameInTree(m)
    BY <1>3, <2>1, <2>2, OpenFrame
  <2>4. tree[x].parent = p /\ tree[x].index = w /\ w < Arity(f.kind)
    BY <1>1, <1>3, <1>4, <2>1, <2>2 DEF FrameInTree, IsOperand
  <2>5. open' = [rest EXCEPT ![m] = g] /\ phase' = phase /\ rest[Len(rest)] = f
    BY <1>2, <1>12, <1>13, <1>16, <2>1, <2>2
  <2>6. g \in Frame /\ g.node = p /\ g.kind = f.kind /\ g.walked = w + 1
    <3>1. early \in BOOLEAN
      BY <1>0 DEF ReturnsEarly
    <3> QED BY <2>2, <2>3, <3>1, AfterOperandIs
  <2>7. /\ open' \in Seq(Frame) /\ DOMAIN open' = 1..m
        /\ \A i \in 1..m : i # m => open'[i] = open[i]
        /\ open'[m] = g
    BY <1>12, <2>1, <2>5, <2>6
  <2>8. Shapes'
    <3>1. tree' \in Seq(NodeRecord)
      BY <1>2, WalkShapes
    <3>2. phase' = "walking"
      BY <1>2, <2>5
    <3> QED BY <1>8, <2>7, <3>1, <3>2 DEF Shapes
  <2>9. \A i \in 1..m : /\ open'[i].node = open[i].node /\ open'[i].kind = open[i].kind
                        /\ i \in 1..(m + 1)
    BY <1>3, <2>2, <2>6, <2>7
  <2>10. \A i \in 1..m : open[i].node # x
    <3> SUFFICES ASSUME NEW i \in 1..m, open[i].node = open[m + 1].node PROVE FALSE
      BY <1>1, <1>3
    <3>1. i \in DOMAIN open /\ m + 1 \in DOMAIN open
      BY <1>3
    <3>2. i = m + 1
      BY <3>1 DEF Walk, OpenPath
    <3> QED BY <1>3, <3>2
  <2>11. OpenPath'
    <3>1. ASSUME NEW i \in 1..m PROVE FrameInTree(i)'
      <4>1. FrameInTree(i) /\ open[i].node \in Nodes
        BY <1>3, <2>9, OpenFrame
      <4>2. i > 1 => i - 1 \in 1..m /\ i - 1 # m
        BY <1>3
      <4>3. open'[i].walked <= Arity(open'[i].kind)
        <5>1. CASE i = m
          <6>1. Arity(f.kind) \in {1, 2, 3}
            BY DEF Arity
          <6> QED BY <2>3, <2>4, <2>6, <2>7, <5>1, <6>1
        <5>2. CASE i # m
          BY <2>7, <4>1, <5>2 DEF FrameInTree
        <5> QED BY <5>1, <5>2
      <4>4. i > 1 => open'[i - 1] = open[i - 1]
        BY <2>7, <4>2
      <4>5. types'[open[i].node] = types[open[i].node]
        BY <1>8, <2>10, <4>1
      <4> QED BY <1>2, <1>8, <2>9, <4>1, <4>3, <4>4, <4>5 DEF FrameInTree, IsOperand
    <3>2. ASSUME NEW i \in 1..m, NEW j \in 1..m, open'[i].node = open'[j].node
          PROVE  i = j
      BY <1>3, <2>9, <3>2 DEF Walk, OpenPath
    <3>3. ASSUME NEW n \in Nodes', types'[n] = NoType
          PROVE  \E i \in 1..m : open'[i].node = n
      <4>1. n \in Nodes /\ types[n] = NoType /\ n # x
        BY <1>7, <1>8, <3>3
      <4>2. PICK i \in 1..(m + 1) : open[i].node = n
        BY <1>3, <4>1 DEF Walk, OpenPath
      <4>3. i # m + 1
        BY <1>1, <1>3, <4>1, <4>2
      <4>4. i \in 1..m
        BY <1>3, <4>3
      <4> QED BY <2>9, <4>2, <4>4
    <3> QED BY <2>7, <3>1, <3>2, <3>3 DEF OpenPath
  <2>12. OpenOperands'
    <3>1. ASSUME NEW j \in 1..m, NEW i \in 0..(open'[j].walked - 1)
          PROVE  Settled(open[j].node, i)'
      <4>1. PICK n : n = open'[j].node /\ n = open[j].node
        BY <2>9
      <4>2. CASE j = m /\ i = w
        <5>1. tree'[x].parent = n /\ tree'[x].index = i
          BY <1>2, <2>2, <2>4, <4>1, <4>2
        <5>2. Exited(x)' /\ IsOperand(x, n, i)'
          BY <1>4, <1>7, <1>8, <5>1 DEF Exited, IsOperand
        <5>3. Settled(n, i)'
          BY <1>4, <1>8, <5>2 DEF Settled
        <5> QED BY <4>1, <5>3
      <4>3. CASE j = m /\ i # w
        <5>1. i \in 0..(open[j].walked - 1)
          BY <2>2, <2>3, <2>6, <2>7, <4>3
        <5>2. Settled(n, i)
          BY <1>3, <2>9, <4>1, <5>1 DEF Walk, OpenOperands
        <5>3. Settled(n, i)'
          BY <1>9, <5>2, StaySettled
        <5> QED BY <4>1, <5>3
      <4>4. CASE j # m
        <5>1. Settled(n, i)
          BY <1>3, <2>7, <2>9, <4>1, <4>4 DEF Walk, OpenOperands
        <5>2. Settled(n, i)'
          BY <1>9, <5>1, StaySettled
        <5> QED BY <4>1, <5>2
      <4> QED BY <4>2, <4>3, <4>4
    <3>2. ASSUME NEW j \in 1..m, NEW c \in Nodes', tree'[c].parent = open'[j].node
          PROVE  \/ tree'[c].index < open'[j].walked
                 \/ j + 1 \in DOMAIN open' /\ c = open'[j + 1].node
      <4>0. c \in Nodes /\ tree'[c] = tree[c] /\ tree[c].parent = open[j].node /\ j \in DOMAIN open
        BY <1>2, <1>3, <1>8, <2>9, <3>2
      <4>1. \/ tree[c].index < open[j].walked
            \/ j + 1 \in DOMAIN open /\ c = open[j + 1].node
        BY <4>0 DEF Walk, OpenOperands
      <4>2. tree[c].index \in Nat
        <5>1. tree[c] \in NodeRecord
          BY <4>0, WalkShapes
        <5> QED BY <5>1 DEF NodeRecord
      <4>3. open[j].walked \in Nat /\ open'[j].walked \in Nat /\ open'[j].walked >= open[j].walked
        <5>1. open[j].walked \in Nat
          BY <4>0, OpenFrame
        <5> QED BY <2>2, <2>3, <2>6, <2>7, <5>1
      <4>4. CASE tree[c].index < open[j].walked
        BY <4>0, <4>2, <4>3, <4>4
      <4>5. CASE c = open[j + 1].node /\ j # m
        <5>1. j + 1 \in 1..m
          BY <1>3, <4>5
        <5> QED BY <2>7, <2>9, <4>5, <5>1
      <4>6. CASE c = open[j + 1].node /\ j = m
        <5>1. c = x
          BY <1>1, <1>3, <4>6
        <5>2. tree[c].index = w /\ open'[j].walked = w + 1
          BY <2>4, <2>6, <2>7, <4>6, <5>1
        <5> QED BY <2>3, <4>0, <5>2
      <4> QED BY <4>1, <4>4, <4>5, <4>6
    <3> QED BY <2>7, <3>1, <3>2 DEF OpenOperands
  <2>13. Walk'
    BY <1>10, <1>11, <2>8, <2>11, <2>12 DEF Walk
  <2>14. /\ open' = [SubSeq(open, 1, m) EXCEPT ![m] = AfterOperand(open[m], early)]
         /\ m \in DOMAIN open /\ m \in DOMAIN open'
         /\ tree'[x].parent = open[m].node /\ tree'[x].index = open[m].walked
         /\ open'[m].node = open[m].node /\ open'[m].walked = open[m].walked + 1
         /\ open[m].walked < Arity(open[m].kind)
    BY <1>1, <1>2, <1>3, <2>1, <2>2, <2>4, <2>5, <2>6, <2>7
  <2>15. code' = code \o Combine(top, t) \o (IF m = 0 \/ early THEN <<>>
                                             ELSE ParentJumps(open[m], open[m].walked))
    BY <1>2, <1>13, <2>2, <2>5
  <2>16. ~(m = 0)
    BY <1>16
  <2> QED BY <1>0, <1>1, <1>2, <1>4, <1>8, <1>9, <1>14, <1>b, <2>13, <2>14, <2>15, <2>16
<1>17. m = 0 \/ m > 0
  BY <1>3
<1> QED BY <1>15, <1>16, <1>17

-----------------------------------------------------------------------------
(* The labels and the walk together.                                       *)

\* The labels are as they were where nothing they are about has changed.
LEMMA LabelsReread ==
  ASSUME NEW fs, NEW c, NEW n, NEW lost, NEW lostNow, NEW str, NEW strNow,
         LabelsOK(fs, c, n, lost, str), strNow <=> str,
         \A i \in DOMAIN fs : Alike(fs[i], lost, lostNow)
  PROVE  LabelsOK(fs, c, n, lostNow, strNow)
<1>1. fs \in Seq(Frame)
  BY DEF LabelsOK
<1>2. ASSUME NEW i \in DOMAIN fs PROVE JumpsOK(fs[i], c, lostNow)
  <2>1. fs[i] \in Frame /\ JumpsOK(fs[i], c, lost) /\ Alike(fs[i], lost, lostNow)
    BY <1>1 DEF LabelsOK
  <2>2. Targets(c) = Targets(c) \cup {} /\ Owed(fs[i]) \cap {} = {}
    OBVIOUS
  <2> QED BY <2>1, <2>2, JumpsElsewhere
<1> QED BY <1>2 DEF LabelsOK

\* Nothing but the phase changes.
LEMMA HaltKeeps ==
  ASSUME ExprInv, UNCHANGED <<tree, types, open, labelCounter, code>>,
         phase' = phase \/ (phase' \in {"rejected", "aborted"})
  PROVE  ExprInv'
<1>1. Walk'
  BY DEF ExprInv, Walk, Shapes, OpenPath, FrameInTree, OneOperandEach, OpenOperands,
         ExitedOperands, Settled, Exited, IsOperand, Nodes
<1>2. Lost' = Lost
  BY DEF Lost, EarlyAt, ReturnedEarly, Operand
<1>3. Stranded' <=> Stranded
  BY DEF Stranded, Settled, Exited, IsOperand, Nodes, EarlyAt, ReturnedEarly, Operand
<1>4. LabelsOK(open, code, labelCounter, Lost', Stranded')
  BY <1>2, <1>3, LabelsReread DEF ExprInv, Alike
<1> QED BY <1>1, <1>4 DEF ExprInv

\* Before the first node.
LEMMA InitKeeps == ASSUME Init PROVE ExprInv
<1>1. /\ tree = <<>> /\ types = <<>> /\ open = <<>> /\ code = <<>> /\ labelCounter = 0
      /\ phase = "walking"
  BY DEF Init
<1>2. Nodes = {} /\ DOMAIN open = {}
  BY <1>1 DEF Nodes
<1>3. Walk
  <2>1. Shapes
    BY <1>1 DEF Shapes
  <2> QED BY <1>2, <2>1 DEF Walk, OpenPath, OneOperandEach, OpenOperands, ExitedOperands
<1>4. ~Stranded
  BY <1>2 DEF Stranded
<1>5. Piece(code, {}, {})
  BY <1>1, NoCode
<1>6. open \in Seq(Frame) /\ OwedBy(open) = {}
  BY <1>1, <1>2 DEF OwedBy
<1>7. LabelsOK(open, code, labelCounter, Lost, Stranded)
  BY <1>1, <1>2, <1>4, <1>5, <1>6 DEF LabelsOK, Piece, FramesDisjoint
<1> QED BY <1>3, <1>7 DEF ExprInv

\* An operator is entered.
LEMMA EnterKeeps ==
  ASSUME ExprInv, NEW kind \in Operators, EnterOperator(kind)
  PROVE  ExprInv'
<1>1. Walk /\ labelCounter \in Nat /\ LabelsOK(open, code, labelCounter, Lost, Stranded)
  BY DEF ExprInv, LabelsOK
<1>2. Walk' /\ Grows(0)
  BY <1>1, EnterWalk
<1>3. PICK f \in Frame :
        /\ open' = Append(open, f) /\ f.kind = kind /\ f.walked = 0 /\ f.processed = FALSE
        /\ f.kind \in Parents => {f.fall, f.exit} = {labelCounter, labelCounter + 1}
  BY <1>1, EnterWalk
<1>4. Stranded' <=> Stranded
  <2>1. 0 \notin Nodes'
    BY DEF Nodes
  <2> QED BY <1>1, <1>2, <2>1, StrandedKept
<1>5. \A j \in DOMAIN open : Alike(open[j], Lost, Lost')
  BY <1>1, <1>2, AlikeKept
<1>6. LabelsOK(open, code, labelCounter, Lost', Stranded')
  BY <1>1, <1>4, <1>5, LabelsReread
<1>7. LabelsOK(Append(open, f), code, labelCounter + ReservedLabels(f.kind), Lost', Stranded')
  BY <1>3, <1>6, EnterLabels
<1>8. code' = code /\ labelCounter' = labelCounter + ReservedLabels(f.kind)
  BY <1>3 DEF EnterOperator
<1> QED BY <1>2, <1>3, <1>7, <1>8 DEF ExprInv

\* A leaf is walked.
LEMMA LeafKeeps ==
  ASSUME ExprInv, NEW operand \in Operands, Leaf(operand)
  PROVE  ExprInv'
<1>1. Walk /\ LabelsOK(open, code, labelCounter, Lost, Stranded)
  BY DEF ExprInv
<1>2. PICK x, early, d :
        /\ x = Len(tree) + 1 /\ early = ReturnsEarly("leaf", operand.type, <<>>)
        /\ d = code \o <<Instr("load", x)>>
  OBVIOUS
<1>3. /\ Walk' /\ Grows(x) /\ x \in Nodes' /\ tree'[x].kind = "leaf"
      /\ types'[x] = operand.type
      /\ open = <<>> => tree'[x].parent = 0
      /\ open # <<>> => tree'[x].parent = Top.node /\ tree'[x].index = Top.walked
  BY <1>1, <1>2, LeafWalk
<1>4. /\ labelCounter' = labelCounter
      /\ code' = d \o (IF open = <<>> \/ early THEN <<>> ELSE ParentJumps(Top, Top.walked))
      /\ open = <<>> => open' = open
      /\ open # <<>> => /\ open' = [open EXCEPT ![Len(open)] = AfterOperand(Top, early)]
                        /\ Top.walked < Arity(Top.kind)
  BY <1>2 DEF Leaf
<1>5. ReturnedEarly(x)' <=> early
  <2>1. early <=> operand.type \in Pointers
    BY <1>2 DEF ReturnsEarly, IsStringComparison
  <2> QED BY <1>3, <2>1 DEF ReturnedEarly
<1>6. x \in Nat
  BY <1>1, <1>2, WalkShapes
<1>7. LabelsOK(open, d, labelCounter, Lost, Stranded)
  BY <1>1, <1>2, <1>6, LeafLabels
<1>8. \A j \in DOMAIN open : Alike(open[j], Lost, Lost')
  BY <1>1, <1>3, AlikeKept
<1>9. CASE open = <<>>
  <2>1. Stranded' <=> Stranded
    BY <1>1, <1>3, <1>9, StrandedKept
  <2>2. LabelsOK(open, d, labelCounter, Lost', Stranded')
    BY <1>7, <1>8, <2>1, LabelsReread
  <2>3. code' = d
    <3>1. d \in Seq(Instruction)
      BY <2>2 DEF LabelsOK
    <3> QED BY <1>4, <1>9, <3>1
  <2> QED BY <1>3, <1>4, <1>9, <2>2, <2>3 DEF ExprInv
<1>10. CASE open # <<>>
  <2>1. PICK m, f, p, w : m = Len(open) /\ f = open[m] /\ p = f.node /\ w = f.walked
    OBVIOUS
  <2>2. m \in DOMAIN open /\ Top = f
    BY <1>1, <1>10, <2>1, TopFrame
  <2>3. m \in DOMAIN open' /\ open'[m].node = p /\ open'[m].walked = w + 1
    <3>1. DOMAIN open' = DOMAIN open /\ open'[m] = AfterOperand(f, early)
      BY <1>4, <1>10, <2>1, <2>2
    <3>2. f \in Frame
      BY <1>1, <2>1, <2>2, OpenFrame
    <3>3. early \in BOOLEAN
      BY <1>2 DEF ReturnsEarly
    <3> QED BY <2>1, <2>2, <3>1, <3>2, <3>3, AfterOperandIs
  <2>4. IsOperand(x, p, w)' /\ w < Arity(open[m].kind)
    BY <1>3, <1>4, <1>10, <2>1, <2>2 DEF IsOperand
  <2>5. /\ <<p, w>> \in Lost' <=> ReturnedEarly(x)'
        /\ Stranded' <=> \/ Stranded
                         \/ /\ ReturnedEarly(x)' /\ open[m].kind \in Parents /\ w >= 1
                            /\ <<p, w - 1>> \notin Lost'
    BY <1>1, <1>3, <2>1, <2>2, <2>3, <2>4, StrandedStep
  <2>6. Stranded' <=> \/ Stranded
                      \/ early /\ f.kind \in Parents /\ w >= 1 /\ <<p, w - 1>> \notin Lost'
    BY <1>5, <2>1, <2>5
  <2>7. early \in BOOLEAN /\ (<<p, w>> \in Lost' <=> early)
    BY <1>2, <1>5, <2>5 DEF ReturnsEarly
  <2>8. /\ open' = [open EXCEPT ![Len(open)] = AfterOperand(f, early)]
        /\ code' = d \o (IF early THEN <<>> ELSE ParentJumps(f, f.walked))
        /\ f = open[Len(open)] /\ f.walked < Arity(f.kind) /\ p = f.node /\ w = f.walked
    BY <1>4, <1>10, <2>1, <2>2, <2>4
  <2>9. /\ <<f.node, f.walked>> \in Lost' <=> early
        /\ Stranded' <=> \/ Stranded
                         \/ /\ early /\ f.kind \in Parents /\ f.walked >= 1
                            /\ <<f.node, f.walked - 1>> \notin Lost'
    BY <2>6, <2>7, <2>8
  <2>10. OperandPlaced(open, open', d, code', Lost, Lost', Stranded, Stranded', f, early)
    BY <1>8, <1>10, <2>8, <2>9 DEF OperandPlaced
  <2>11. LabelsOK(open', code', labelCounter, Lost', Stranded')
    BY <1>7, <2>7, <2>10, ParentLabels
  <2> QED BY <1>3, <1>4, <2>11 DEF ExprInv
<1> QED BY <1>9, <1>10

\* An operator is left.
LEMMA ExitKeeps ==
  ASSUME ExprInv, ExitOperator
  PROVE  ExprInv'
<1>1. Walk /\ LabelsOK(open, code, labelCounter, Lost, Stranded)
  BY DEF ExprInv
<1>2. CASE phase' \in {"rejected", "aborted"}
  <2>1. phase = "walking"
    BY DEF ExitOperator
  <2>2. UNCHANGED <<tree, types, open, labelCounter, code>>
    BY <1>2, <2>1 DEF ExitOperator
  <2> QED BY <1>2, <2>2, HaltKeeps
<1>3. CASE phase' \notin {"rejected", "aborted"}
  <2>1. PICK top, m, t, early :
          /\ top = Top /\ m = Len(open) - 1 /\ early \in BOOLEAN
          /\ Walk' /\ Grows(top.node) /\ top.node \in Nodes' /\ top.kind \in Kinds
          /\ m = 0 => open' = <<>> /\ tree'[top.node].parent = 0
          /\ m > 0 => /\ open' = [SubSeq(open, 1, m) EXCEPT ![m] = AfterOperand(open[m], early)]
                      /\ m \in DOMAIN open /\ m \in DOMAIN open'
                      /\ tree'[top.node].parent = open[m].node
                      /\ tree'[top.node].index = open[m].walked
                      /\ open'[m].node = open[m].node
                      /\ open'[m].walked = open[m].walked + 1
                      /\ open[m].walked < Arity(open[m].kind)
          /\ ReturnedEarly(top.node)' <=> early
          /\ ~Throws(top, t)
          /\ code' = code \o Combine(top, t)
                       \o (IF m = 0 \/ early THEN <<>>
                           ELSE ParentJumps(open[m], open[m].walked))
          /\ labelCounter' = labelCounter + NewLabels(top.kind)
    BY <1>1, <1>3, ExitWalk
  <2>3. PICK x, rest, d : /\ x = top.node /\ rest = SubSeq(open, 1, m)
                          /\ d = code \o Combine(top, t)
    OBVIOUS
  <2>4. /\ Walk' /\ Grows(x) /\ x \in Nodes'
        /\ m = 0 => open' = <<>> /\ tree'[x].parent = 0
        /\ m > 0 => /\ open' = [rest EXCEPT ![m] = AfterOperand(open[m], early)]
                    /\ m \in DOMAIN open /\ m \in DOMAIN open'
                    /\ tree'[x].parent = open[m].node
                    /\ tree'[x].index = open[m].walked
                    /\ open'[m].node = open[m].node
                    /\ open'[m].walked = open[m].walked + 1
                    /\ open[m].walked < Arity(open[m].kind)
        /\ ReturnedEarly(x)' <=> early
        /\ ~Throws(top, t)
        /\ code' = d \o (IF m = 0 \/ early THEN <<>> ELSE ParentJumps(open[m], open[m].walked))
        /\ labelCounter' = labelCounter + NewLabels(top.kind)
    BY <2>1, <2>3
  <2>5. /\ open # <<>> /\ top.walked = Arity(top.kind) /\ top = open[Len(open)]
        /\ open \in Seq(Frame) /\ Len(open) = m + 1 /\ m \in Nat /\ m <= Len(open)
        /\ DOMAIN open = 1..(m + 1)
    <3>1. open # <<>> /\ top.walked = Arity(top.kind)
      BY <2>1 DEF ExitOperator
    <3>2. /\ Len(open) \in DOMAIN open /\ top = open[Len(open)] /\ open \in Seq(Frame)
          /\ Len(open) \in Nat /\ DOMAIN open = 1..Len(open)
      BY <1>1, <2>1, <3>1, TopFrame, WalkShapes
    <3> QED BY <2>1, <3>1, <3>2
  <2>6. LabelsOK(rest, d, labelCounter', Lost, Stranded)
    <3>1. LabelsOK(SubSeq(open, 1, Len(open) - 1), code \o Combine(open[Len(open)], t),
                   labelCounter + NewLabels(open[Len(open)].kind), Lost, Stranded)
      BY <1>1, <2>4, <2>5, OwnLabels
    <3> QED BY <2>1, <2>3, <2>4, <2>5, <3>1
  <2>7. /\ rest \in Seq(Frame) /\ Len(rest) = m /\ DOMAIN rest = 1..m
        /\ \A i \in 1..m : rest[i] = open[i]
    <3>1. rest \in Seq(Frame) /\ Len(rest) = m
      BY <2>3, <2>5
    <3>2. DOMAIN rest = 1..m
      BY <3>1
    <3>3. \A i \in 1..m : rest[i] = open[i]
      BY <2>3, <2>5
    <3> QED BY <3>1, <3>2, <3>3
  <2>8. \A i \in DOMAIN rest : Alike(rest[i], Lost, Lost')
    <3> SUFFICES ASSUME NEW i \in 1..m PROVE Alike(open[i], Lost, Lost')
      BY <2>7
    <3>1. i \in DOMAIN open
      BY <2>5
    <3> QED BY <1>1, <2>4, <3>1, AlikeKept
  <2>9. CASE m = 0
    <3>1. Stranded' <=> Stranded
      BY <1>1, <2>4, <2>9, StrandedKept
    <3>2. LabelsOK(rest, d, labelCounter', Lost', Stranded')
      BY <2>6, <2>8, <3>1, LabelsReread
    <3>3. code' = d
      <4>1. d \in Seq(Instruction)
        BY <3>2 DEF LabelsOK
      <4> QED BY <2>4, <2>9, <4>1
    <3>4. open' = rest
      <4>1. rest = <<>>
        BY <2>7, <2>9
      <4> QED BY <2>4, <2>9, <4>1
    <3> QED BY <2>4, <3>2, <3>3, <3>4 DEF ExprInv
  <2>10. CASE m > 0
    <3>1. PICK f, p, w : f = open[m] /\ p = f.node /\ w = f.walked
      OBVIOUS
    <3>2. rest # <<>> /\ rest[Len(rest)] = f /\ ~(m = 0)
      BY <2>5, <2>7, <2>10, <3>1
    <3>3. /\ m \in DOMAIN open /\ m \in DOMAIN open' /\ p = open[m].node /\ w = open[m].walked
          /\ open'[m].node = p /\ open'[m].walked = w + 1 /\ w < Arity(open[m].kind)
          /\ tree'[x].parent = p /\ tree'[x].index = w
      BY <2>4, <2>10, <3>1
    <3>4. IsOperand(x, p, w)'
      BY <3>3 DEF IsOperand
    <3>5. /\ <<p, w>> \in Lost' <=> ReturnedEarly(x)'
          /\ Stranded' <=> \/ Stranded
                           \/ /\ ReturnedEarly(x)' /\ open[m].kind \in Parents /\ w >= 1
                              /\ <<p, w - 1>> \notin Lost'
      BY <1>1, <2>4, <3>3, <3>4, StrandedStep
    <3>6. early \in BOOLEAN
      BY <2>1
    <3>7. /\ open' = [rest EXCEPT ![Len(rest)] = AfterOperand(f, early)]
          /\ code' = d \o (IF early THEN <<>> ELSE ParentJumps(f, f.walked))
          /\ f = rest[Len(rest)] /\ f.walked < Arity(f.kind) /\ p = f.node /\ w = f.walked
          /\ <<p, w>> \in Lost' <=> early
      BY <2>4, <2>7, <2>10, <3>1, <3>2, <3>3, <3>5
    <3>8. Stranded' <=> \/ Stranded
                        \/ early /\ f.kind \in Parents /\ w >= 1 /\ <<p, w - 1>> \notin Lost'
      BY <2>4, <3>1, <3>5
    <3>9. /\ <<f.node, f.walked>> \in Lost' <=> early
          /\ Stranded' <=> \/ Stranded
                           \/ /\ early /\ f.kind \in Parents /\ f.walked >= 1
                              /\ <<f.node, f.walked - 1>> \notin Lost'
      BY <3>7, <3>8
    <3>10. OperandPlaced(rest, open', d, code', Lost, Lost', Stranded, Stranded', f, early)
      BY <2>8, <3>2, <3>7, <3>9 DEF OperandPlaced
    <3>11. LabelsOK(open', code', labelCounter', Lost', Stranded')
      BY <2>6, <3>6, <3>10, ParentLabels
    <3> QED BY <2>4, <3>11 DEF ExprInv
  <2> QED BY <2>5, <2>9, <2>10
<1> QED BY <1>2, <1>3

-----------------------------------------------------------------------------
\* Every state of an expression's code generation satisfies the invariant:
\* the walk has its shape, and the labels placed, jumped to and owed are in
\* order.
THEOREM ExprInvHolds == Spec => []ExprInv
<1>1. Init => ExprInv
  BY InitKeeps
<1>2. ExprInv /\ [Next]_vars => ExprInv'
  <2> SUFFICES ASSUME ExprInv, [Next]_vars PROVE ExprInv'
    OBVIOUS
  <2>1. ASSUME NEW kind \in Operators, EnterOperator(kind) PROVE ExprInv'
    BY <2>1, EnterKeeps
  <2>2. ASSUME NEW operand \in Operands, Leaf(operand) PROVE ExprInv'
    BY <2>2, LeafKeeps
  <2>3. CASE ExitOperator
    BY <2>3, ExitKeeps
  <2>4. CASE UNCHANGED vars
    BY <2>4, HaltKeeps DEF vars
  <2> QED BY <2>1, <2>2, <2>3, <2>4 DEF Next
<1> QED BY <1>1, <1>2, PTL DEF Spec

\* The walk's state keeps its shape, whatever the expression.
THEOREM TypeCorrect == Spec => []TypeOK
<1>1. ExprInv => TypeOK
  <2> SUFFICES ASSUME ExprInv PROVE TypeOK
    OBVIOUS
  <2>1. Walk /\ LabelsOK(open, code, labelCounter, Lost, Stranded)
    BY DEF ExprInv
  <2>2. /\ phase \in {"walking", "done", "rejected", "aborted"}
        /\ Len(types) = Len(tree) /\ (phase = "done" => open = <<>>)
    BY <2>1 DEF Walk, Shapes
  <2>3. labelCounter \in Nat
    BY <2>1 DEF LabelsOK
  <2>4. ASSUME NEW i \in DOMAIN open
        PROVE  /\ tree[open[i].node].kind = open[i].kind
               /\ open[i].walked \in 0..Arity(open[i].kind)
               /\ open[i].kind \in Parents =>
                    open[i].fall < labelCounter /\ open[i].exit < labelCounter
    <3>1. FrameInTree(i) /\ open[i].walked \in Nat
      BY <2>1, OpenFrame
    <3>2. FrameOK(open[i], labelCounter)
      BY <2>1 DEF LabelsOK
    <3>3. Arity(open[i].kind) \in {1, 2, 3}
      BY DEF Arity
    <3>4. /\ tree[open[i].node].kind = open[i].kind
          /\ open[i].walked <= Arity(open[i].kind)
      BY <3>1 DEF FrameInTree
    <3> QED BY <3>1, <3>2, <3>3, <3>4 DEF FrameOK
  <2> QED BY <2>2, <2>3, <2>4 DEF TypeOK
<1> QED BY <1>1, ExprInvHolds, PTL

\* No label is placed twice in the code of an expression.
THEOREM LabelsOnce == Spec => []LabelsPlacedOnce
<1>1. ExprInv => LabelsPlacedOnce
  BY DEF ExprInv, LabelsOK, Distinct, LabelsPlacedOnce
<1> QED BY <1>1, ExprInvHolds, PTL

\* The jumps of an expression have their labels in its code if and only if
\* no operator strands one.
THEOREM JumpTargets == Spec => []JumpsHaveTargets
<1>1. ExprInv => JumpsHaveTargets
  <2> SUFFICES ASSUME ExprInv, phase = "done"
               PROVE  Targets(code) \subseteq Placed(code) <=> \A n \in Nodes : ~Strands(n)
    BY DEF JumpsHaveTargets
  <2>1. Walk /\ LabelsOK(open, code, labelCounter, Lost, Stranded)
    BY DEF ExprInv
  <2>2. open = <<>> /\ DOMAIN open = {}
    <3>1. open = <<>>
      BY <2>1 DEF Walk, Shapes
    <3> QED BY <3>1
  <2>3. OwedBy(open) = {}
    BY <2>2 DEF OwedBy
  <2>4. Targets(code) \subseteq Placed(code) <=> ~Stranded
    BY <2>1, <2>3 DEF LabelsOK
  <2>5. \A n \in Nodes : Exited(n)
    BY <2>1, <2>2 DEF Walk, OpenPath, Exited
  <2>6. ASSUME NEW n \in Nodes, tree[n].kind \in Parents,
               NEW i \in 0..(Arity(tree[n].kind) - 2)
        PROVE  Settled(n, i) /\ Settled(n, i + 1)
    <3>1. Arity(tree[n].kind) \in {1, 2, 3}
      BY DEF Arity
    <3>2. i \in 0..(Arity(tree[n].kind) - 1) /\ i + 1 \in 0..(Arity(tree[n].kind) - 1)
      BY <3>1
    <3>3. tree[n].kind # "leaf"
      BY <2>6 DEF Parents
    <3> QED BY <2>1, <2>5, <3>2, <3>3 DEF Walk, ExitedOperands
  <2>7. Stranded <=> \E n \in Nodes : Strands(n)
    BY <2>6 DEF Stranded, Strands, EarlyAt
  <2> QED BY <2>4, <2>7
<1> QED BY <1>1, ExprInvHolds, PTL

=============================================================================
