---------------------------- MODULE FlowSemantics ----------------------------
(***************************************************************************)
(* What the code FlowGen emits must do, and the properties that say so.    *)
(*                                                                         *)
(* The reference is structured control flow read off the tree: which       *)
(* "point" of the program (a condition, an update, a plain statement) runs *)
(* next.  It is compared with what a machine reaches by following the      *)
(* gotos and labels of the emitted code, and with the operand-stack        *)
(* heights a JVM verifier would compute.                                   *)
(***************************************************************************)
EXTENDS FlowLabels

PointOps == {"simple", "valuecall", "return", "eval", "update"}

Point(op, n, k) == <<op, n, k>>
Finish  == <<"finish", 0, 0>>    \* control falls off the function's end
Diverge == <<"diverge", 0, 0>>   \* a loop that runs no point at all
Lost    == <<"lost", 0, 0>>      \* a jump to a label that is nowhere

-----------------------------------------------------------------------------
(* The reference: structured control flow of the source program.           *)

Children(n, b) ==
  {c \in 1..Len(tree) : tree[c].parent = n /\ tree[c].block = b}

Least(S) == CHOOSE x \in S : \A y \in S : x <= y

InnermostLoop[n \in 1..Len(tree)] ==
  LET p == tree[n].parent IN
  IF p = 0 THEN 0 ELSE IF tree[p].kind \in Loops THEN p ELSE InnermostLoop[p]

\* Places of the program between its points: the start of a statement, that
\* of a block, its end, and what follows a statement.
Start(n)         == <<"start", n, 0>>
StartBlock(n, b) == <<"block", n, b>>
EndBlock(n, b)   == <<"end", n, b>>
After(n)         == <<"after", n, 0>>

SourcePlaces ==
  {"start", "block", "end", "after"} \X (0..Len(tree)) \X (0..(MaxElseIfs + 1))

\* In block b of n, what comes after statement m, or at the block's start.
NextIn(n, b, m) ==
  LET later == {c \in Children(n, b) : c > m} IN
  IF later = {} THEN EndBlock(n, b) ELSE Start(Least(later))

FromStart(n) ==
  CASE tree[n].kind \in {"simple", "valuecall", "return"} -> Point(tree[n].kind, n, 0)
    [] tree[n].kind = "for"                   -> Point("simple", n, 0)
    [] tree[n].kind \in {"if", "while"}       -> Point("eval", n, 0)
    [] tree[n].kind \in {"until", "infinite"} -> StartBlock(n, 0)
    [] tree[n].kind = "break"                 -> After(InnermostLoop[n])

FromEnd(n) ==
  IF n = 0 THEN Finish ELSE
  CASE tree[n].kind = "if"                -> After(n)
    [] tree[n].kind \in {"while", "until"} -> Point("eval", n, 0)
    [] tree[n].kind = "for"               -> Point("update", n, 0)
    [] tree[n].kind = "infinite"          -> StartBlock(n, 0)

\* Where control goes from a place: to another, or to a point.
Onward(place) ==
  LET n == place[2] IN
  CASE place[1] = "start" -> FromStart(n)
    [] place[1] = "block" -> NextIn(n, place[3], 0)
    [] place[1] = "end"   -> FromEnd(n)
    [] place[1] = "after" -> NextIn(tree[n].parent, tree[n].block, n)

\* Where control goes in k steps more, unless it comes to a point before.
SourceWithin[k \in 0..Cardinality(SourcePlaces)] ==
  [place \in SourcePlaces |->
     LET p == Onward(place) IN
     IF k = 0 \/ p \notin SourcePlaces THEN p ELSE SourceWithin[k - 1][p]]

\* The first point after a place.  Control that does not come to one in as
\* many steps as there are places never does.
SourcePoint(place) ==
  LET p == SourceWithin[Cardinality(SourcePlaces)][place] IN
  IF p \in SourcePlaces THEN Diverge ELSE p

\* The point that follows <<op, n, k>> when its value is `outcome`.
SourceNext(op, n, k, outcome) ==
  CASE op = "update" -> Point("eval", n, 0)
    [] op = "simple" /\ tree[n].kind = "for" -> Point("eval", n, 0)
    [] op \in {"simple", "valuecall"} /\ tree[n].kind # "for" -> SourcePoint(After(n))
    [] op = "return" -> Finish
    [] op = "eval" /\ tree[n].kind \in {"while", "for"} ->
         SourcePoint(IF outcome THEN StartBlock(n, 0) ELSE After(n))
    [] op = "eval" /\ tree[n].kind = "until" ->
         SourcePoint(IF outcome THEN After(n) ELSE StartBlock(n, 0))
    [] op = "eval" /\ tree[n].kind = "if" ->
         IF outcome THEN SourcePoint(StartBlock(n, k))
         ELSE IF k < tree[n].elseIfs THEN Point("eval", n, k + 1)
         ELSE SourcePoint(IF tree[n].hasElse THEN StartBlock(n, k + 1) ELSE After(n))

-----------------------------------------------------------------------------
(* The emitted code: what a machine runs.                                  *)

PlacesOf(l) == {i \in DOMAIN code : code[i].op = "label" /\ code[i].arg = l}

Target(l) == IF PlacesOf(l) = {} THEN 0 ELSE Least(PlacesOf(l))

\* Instruction i is no point.
Between(i) == i \in DOMAIN code /\ code[i].op \notin PointOps

\* Where the machine goes from one, if it takes no branch.
Fall(i) == IF code[i].op = "goto" THEN Target(code[i].arg) ELSE i + 1

\* Where it is k steps later, unless it comes to a point before.
CodeWithin[k \in 0..Len(code)] ==
  [i \in DOMAIN code |->
     LET j == Fall(i) IN IF k = 0 \/ ~Between(j) THEN j ELSE CodeWithin[k - 1][j]]

\* The first point at or after instruction i.
CodePoint(i) ==
  LET j == IF Between(i) THEN CodeWithin[Len(code)][i] ELSE i IN
  CASE j = 0             -> Lost
    [] j = Len(code) + 1 -> Finish
    [] Between(j)        -> Diverge
    [] j \in DOMAIN code /\ ~Between(j) -> Point(code[j].op, code[j].arg, code[j].sub)

\* What runs after the point at instruction i.  A condition's value is
\* consumed by the ifeq right after it.
CodeNext(i, outcome) ==
  CASE code[i].op = "return" -> Finish
    [] code[i].op = "eval" ->
         IF i < Len(code) /\ code[i + 1].op = "ifeq"
         THEN CodePoint(IF outcome THEN i + 2 ELSE Target(code[i + 1].arg))
         ELSE Lost
    [] code[i].op \notin {"return", "eval"} -> CodePoint(i + 1)

-----------------------------------------------------------------------------
(* Operand-stack heights, as the JVM verifier computes them.               *)

Pushes(op) == CASE op \in {"eval", "update", "valuecall"} -> 1
                [] op \in {"ifeq", "pop"}                 -> -1
                [] OTHER                                  -> 0

\* The instructions control may reach from instruction i.
Flow(i) ==
  (IF code[i].op \in {"goto", "return"} THEN {} ELSE {i + 1})
    \cup (IF code[i].op \in {"goto", "ifeq"} THEN PlacesOf(code[i].arg) ELSE {})

\* The pairs <<instruction, height before it>> one step leads to.
Beyond(pairs) ==
  UNION {{<<j, p[2] + Pushes(code[p[1]].op)>> : j \in Flow(p[1])} :
           p \in {q \in pairs : q[1] <= Len(code)}}

\* All the pairs that k steps lead to, and those that fewer do not.
Found[k \in 0..(Len(code) + 2)] ==
  IF k = 0 THEN [all |-> {<<1, 0>>}, new |-> {<<1, 0>>}]
  ELSE LET before == Found[k - 1]
           step   == Beyond(before.new)
       IN  [all |-> before.all \cup step, new |-> step \ before.all]

\* If heights disagree or one is negative, such a pair is found after a step
\* for every instruction.
Heights == Found[Len(code) + 2].all

-----------------------------------------------------------------------------
HasUntilBreak ==
  \E n \in 1..Len(tree) :
    /\ tree[n].kind = "break"
    /\ InnermostLoop[n] # 0
    /\ tree[InnermostLoop[n]].kind = "until"

HasValueCall == \E n \in 1..Len(tree) : tree[n].kind = "valuecall"

-----------------------------------------------------------------------------
\* Control flow of the emitted code is the structured control flow of the
\* source: from the function's entry, and from every condition, update and
\* statement under either outcome, the machine reaches the point the source
\* reaches.  Functions that break out of an until loop are left out: the
\* label of such a break stands before the code of the loop's condition.
CodeFollowsSource ==
  (FunctionDone /\ ~HasUntilBreak) =>
    /\ CodePoint(1) = SourcePoint(StartBlock(0, 0))
    /\ \A i \in DOMAIN code : code[i].op \in PointOps =>
         \A outcome \in BOOLEAN :
           CodeNext(i, outcome)
             = SourceNext(code[i].op, code[i].arg, code[i].sub, outcome)

\* Operand-stack heights a JVM verifier accepts: every instruction is reached
\* with one height, never a negative one.
OneHeightEach(reached) ==
  /\ Cardinality({p[1] : p \in reached}) = Cardinality(reached)
  /\ \A p \in reached : p[2] >= 0

\* In a function without a call statement that returns a value, heights agree
\* wherever paths meet, and each statement starts on an empty operand stack:
\* conditions and for-updates consume exactly what their expressions push.
StackHeightsAgree ==
  (FunctionDone /\ ~HasValueCall) =>
    LET reached == Heights IN
    /\ OneHeightEach(reached)
    /\ \A p \in reached :
         (p[1] > Len(code) \/ code[p[1]].op \in {"simple", "return", "label"})
           => p[2] = 0

\* A call statement may discard its value anywhere, a loop included.
CallStatementsBalance == FunctionDone => OneHeightEach(Heights)

=============================================================================
