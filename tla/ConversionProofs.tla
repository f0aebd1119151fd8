-------------------------- MODULE ConversionProofs --------------------------
(***************************************************************************)
(* Theorems of ConversionGen, for expressions of any size and nesting: the *)
(* two passes agree on the nodes, which expressions the generator does not *)
(* survive, and that any other computes its value.                         *)
(***************************************************************************)
EXTENDS ConversionSemantics, FiniteSetTheorems, SequenceTheorems, WellFoundedInduction, TLAPS

-----------------------------------------------------------------------------
(* The tree, as the type checker builds it.                                *)

Kinds == Binary \cup {"leaf", "cast"}

NodeSet == [kind : Kinds, type : Types, args : Seq(Nat)]

\* Node m has the operand n.
Child(tr, m, n) == \E i \in DOMAIN tr[m].args : tr[m].args[i] = n

\* The type checker let the node pass: an operator is of the type checked.
NodeOK(tr, ty, n) ==
  LET node == tr[n] IN
  /\ ty[n] \in Types
  /\ node.kind = "leaf" => Len(node.args) = 0
  /\ node.kind = "cast" => Len(node.args) = 1 /\ node.type \in Casts /\ ty[n] = node.type
  /\ node.kind \in Binary =>
       /\ Len(node.args) = 2 /\ node.args[1] # node.args[2]
       /\ ty[n] = CheckedType(node.kind, ty[node.args[1]], ty[node.args[2]])
  /\ \A i \in DOMAIN node.args : node.args[i] \in 1..(n - 1)

\* A node waits for its parent, or has one, and one alone.
Holders(tr, pe) ==
  /\ \A i \in DOMAIN pe : pe[i] \in 1..Len(tr)
  /\ \A i, j \in DOMAIN pe : pe[i] = pe[j] => i = j
  /\ \A n \in 1..Len(tr) :
       (\E i \in DOMAIN pe : pe[i] = n) <=> ~(\E m \in 1..Len(tr) : Child(tr, m, n))
  /\ \A m \in 1..Len(tr) : \A n : Child(tr, m, n) => n \in 1..Len(tr)
  /\ \A l, m \in 1..Len(tr) : \A n : Child(tr, l, n) /\ Child(tr, m, n) => l = m

\* The nodes waiting after each node: its operands, the last ones before it,
\* give way to the node.
Stacks(tr, P) ==
  /\ DOMAIN P = 0..Len(tr) /\ P[0] = <<>>
  /\ \A k \in 0..Len(tr) : P[k] \in Seq(Nat) /\ \A i \in DOMAIN P[k] : P[k][i] \in 1..k
  /\ \A k \in 1..Len(tr) :
       /\ Len(tr[k].args) <= Len(P[k - 1])
       /\ \A i \in DOMAIN tr[k].args :
            tr[k].args[i] = P[k - 1][Len(P[k - 1]) - Len(tr[k].args) + i]
       /\ P[k] = Append(SubSeq(P[k - 1], 1, Len(P[k - 1]) - Len(tr[k].args)), k)

TreeOK(tr, ty, pe) ==
  /\ tr \in Seq(NodeSet) /\ ty \in Seq(Types) /\ Len(ty) = Len(tr) /\ pe \in Seq(Nat)
  /\ \A n \in 1..Len(tr) : NodeOK(tr, ty, n)
  /\ Holders(tr, pe)
  /\ \E P : Stacks(tr, P) /\ P[Len(tr)] = pe

\* Node m has its operand n marked.
MarksOperand(tr, ty, m, n) ==
  LET a == tr[m].args[1]
      b == tr[m].args[2]
  IN
  \/ /\ tr[m].kind = "add" /\ Concatenates(ty[a], ty[b])
     /\ n \in {a, b} /\ ty[n] # "string"
  \/ tr[m].kind = "if" /\ Compatible(ty[a], ty[b]) = "mark" /\ n = b
  \/ /\ tr[m].kind = "if" /\ Compatible(ty[a], ty[b]) = "no"
     /\ Compatible(ty[b], ty[a]) = "mark" /\ n = a

MarksOK(tr, ty, mk) ==
  /\ mk \subseteq {Base(n) : n \in 1..Len(tr)} \cup {Argument, Holder}
  /\ \A n \in 1..Len(tr) :
       Base(n) \in mk <=> \E m \in 1..Len(tr) : MarksOperand(tr, ty, m, n)

-----------------------------------------------------------------------------
(* The walk's invariant, and the generator's.                              *)

Ops == {"load", "concat", "iadd", "isub", "fadd", "fsub", "select", "mislaid", "throw", "nothing",
        "identityHashCode", "i2f", "f2i", "Integer.toString", "Float.toString",
        "Boolean.toString", "struct.$toString", "bare.$toString", "Object.toString",
        "Integer.parseInt", "Float.parseFloat", "Boolean.parseBoolean", "getstatic out"}

Instructions == [op : Ops \cup Calls \cup Statements, node : Nat]

Shapes ==
  /\ phase \in Phases
  /\ next \in 1..(Len(tree) + 1)
  /\ code \in Seq(Instructions)
  /\ phase = "checking" => next = 1 /\ Argument \notin marks /\ Holder \notin marks
  /\ phase \in {"generating", "done", "aborted"} => use \in Uses /\ Len(pending) = 1
  /\ phase = "done" => next = Len(tree) + 1

\* The statement's or call's check of the value.
UseChecked ==
  phase \in {"generating", "done", "aborted"} =>
    LET fits == Compatible(types[Last(pending)], use.type) IN
    /\ fits # "no"
    /\ Argument \in marks <=> fits = "mark" /\ use.kind \in Calls
    /\ Holder \in marks <=> fits = "mark" /\ use.kind \in Statements

\* The generator got as far as the first node whose handler throws.
Survived ==
  /\ phase \in {"generating", "done"} => \A n \in 1..(next - 1) : ~Throws(NodeCode(n))
  /\ phase = "aborted" => \E n \in Nodes : Throws(NodeCode(n))

\* A value as it is, and as a string; and what is on the stack of it once its
\* node has been generated.
Plainly(n)  == <<Sort(types[n]), Meaning[n]>>
Stringly(n) == <<"string", AsString(types[n], Meaning[n])>>
Entry(n)    == IF Base(n) \in marks THEN Stringly(n) ELSE Plainly(n)

Out    == <<"out", <<"out">> >>
Bottom == IF use.kind = "print" THEN <<Out>> ELSE <<>>

Entries(nodes) == [i \in DOMAIN nodes |-> Entry(nodes[i])]

Start == [stack |-> <<>>, received |-> <<"nothing">>]

\* The states of the machine as it runs the instructions.
Traces(T, instrs) ==
  /\ DOMAIN T = 0..Len(instrs) /\ T[0] = Start
  /\ \A i \in 1..Len(instrs) : T[i] = Step(T[i - 1], instrs[i])

Fine == \A n \in Nodes : ~MixedArithmetic(n) /\ ~LooseBool(n) /\ ~LosesJumps(n) /\ ~Unprintable(n)

\* The machine has come from its start to the state s by the code c.
Reached(c, s) == \E T : Traces(T, c) /\ T[Len(c)] = s

\* The machine, with nothing received yet.
Held(s) == [stack |-> s, received |-> <<"nothing">>]

\* The values of the nodes that wait are on the stack, and nothing else is.
Stacked(nodes)   == Bottom \o Entries(nodes)
InStep(c, nodes) == Reached(c, Held(Stacked(nodes)))

\* The use has received the value of the node, and nothing is left.
Ended(c, n) == Reached(c, [stack |-> <<>>, received |-> Received(n)])

Computed ==
  /\ phase = "generating" /\ Fine =>
       \E P, c, q : /\ Stacks(tree, P) /\ P[Len(tree)] = pending
                    /\ c = code /\ q = P[next - 1] /\ InStep(c, q)
  /\ phase = "done" /\ Fine /\ ~NullAs /\ Holder \notin marks =>
       \E c, r : c = code /\ r = Last(pending) /\ Ended(c, r)

ConversionInv ==
  /\ TreeOK(tree, types, pending) /\ MarksOK(tree, types, marks)
  /\ Shapes /\ UseChecked /\ Survived /\ Computed

-----------------------------------------------------------------------------
(* The tree grows by a node over the last operands that wait.              *)

\* A sequence with one more element.
LEMMA Appended ==
  ASSUME NEW S, NEW s \in Seq(S), NEW x \in S
  PROVE  /\ Append(s, x) \in Seq(S)
         /\ Len(s) \in Nat /\ Len(Append(s, x)) = Len(s) + 1
         /\ DOMAIN s = 1..Len(s) /\ DOMAIN Append(s, x) = 1..(Len(s) + 1)
         /\ Append(s, x)[Len(s) + 1] = x
         /\ \A i \in 1..Len(s) : Append(s, x)[i] = s[i] /\ s[i] \in S
OBVIOUS

\* A sequence whose last elements give way to another.
LEMMA Replaced ==
  ASSUME NEW S, NEW s \in Seq(S), NEW x \in S, NEW r \in 0..Len(s),
         NEW t, t = Append(SubSeq(s, 1, r), x)
  PROVE  /\ t \in Seq(S) /\ Len(s) \in Nat
         /\ Len(t) = r + 1 /\ DOMAIN t = 1..(r + 1) /\ DOMAIN s = 1..Len(s)
         /\ t[r + 1] = x
         /\ \A i \in 1..r : t[i] = s[i] /\ i \in 1..Len(s)
<1>u. PICK u : u = SubSeq(s, 1, r)
  OBVIOUS
<1>1. Len(s) \in Nat /\ DOMAIN s = 1..Len(s)
  OBVIOUS
<1>2. u \in Seq(S) /\ Len(u) = r /\ \A i \in 1..r : u[i] = s[i]
  BY <1>1, <1>u
<1>3. /\ Append(u, x) \in Seq(S) /\ Len(Append(u, x)) = r + 1
      /\ DOMAIN Append(u, x) = 1..(r + 1) /\ Append(u, x)[r + 1] = x
      /\ \A i \in 1..r : Append(u, x)[i] = u[i]
  BY <1>2, Appended
<1>4. t = Append(u, x)
  BY <1>u
<1> QED BY <1>1, <1>2, <1>3, <1>4

\* A node over the last k of the nodes waiting.
Over(pe, node, k) ==
  /\ k \in 0..Len(pe) /\ Len(node.args) = k
  /\ \A i \in 1..k : node.args[i] = pe[Len(pe) - k + i]

\* The node takes its operands from those that wait, and waits itself.
LEMMA HoldersKept ==
  ASSUME NEW tr \in Seq(NodeSet), NEW pe \in Seq(Nat), Holders(tr, pe),
         NEW node \in NodeSet, NEW k, Over(pe, node, k)
  PROVE  Holders(Append(tr, node), Append(SubSeq(pe, 1, Len(pe) - k), Len(tr) + 1))
<1>t. PICK tr2 : tr2 = Append(tr, node)
  OBVIOUS
<1>n. PICK N : N = Len(tr)
  OBVIOUS
<1>r. PICK r : r = Len(pe) - k
  OBVIOUS
<1>p. PICK pe2 : pe2 = Append(SubSeq(pe, 1, r), N + 1)
  OBVIOUS
<1>0. /\ k \in 0..Len(pe) /\ Len(node.args) = k /\ node.args \in Seq(Nat)
      /\ \A i \in 1..k : node.args[i] = pe[r + i]
      /\ DOMAIN node.args = 1..k
  BY <1>r DEF Over, NodeSet
<1>1. /\ N \in Nat /\ tr2[N + 1] = node /\ Len(tr2) = N + 1
      /\ \A i \in 1..N : tr2[i] = tr[i]
  BY <1>t, <1>n, Appended
<1>2. /\ Len(pe) \in Nat /\ r \in 0..Len(pe) /\ DOMAIN pe = 1..Len(pe) /\ DOMAIN pe2 = 1..(r + 1)
      /\ pe2[r + 1] = N + 1 /\ \A i \in 1..r : pe2[i] = pe[i] /\ i \in 1..Len(pe)
  <2>1. N + 1 \in Nat
    BY <1>1
  <2>2. pe \in Seq(Nat) /\ r \in 0..Len(pe)
    BY <1>0, <1>r
  <2> QED BY ONLY <1>p, <2>1, <2>2, Replaced
<1>3. /\ \A i \in DOMAIN pe : pe[i] \in 1..N
      /\ \A i, j \in DOMAIN pe : pe[i] = pe[j] => i = j
      /\ \A n \in 1..N :
           (\E i \in DOMAIN pe : pe[i] = n) <=> ~(\E m \in 1..N : Child(tr, m, n))
      /\ \A l, m \in 1..N : \A n : Child(tr, l, n) /\ Child(tr, m, n) => l = m
      /\ \A m \in 1..N : \A n : Child(tr, m, n) => n \in 1..N
  BY <1>n DEF Holders
<1>4. \A m \in 1..N : \A n : Child(tr2, m, n) <=> Child(tr, m, n)
  BY <1>1 DEF Child
<1>5. \A n : Child(tr2, N + 1, n) <=> \E i \in 1..k : pe[r + i] = n
  <2> TAKE n
  <2>1. tr2[N + 1].args = node.args
    BY <1>1
  <2>2. Child(tr2, N + 1, n) <=> \E i \in DOMAIN node.args : node.args[i] = n
    BY ONLY <2>1, Zenon DEF Child
  <2>3. DOMAIN node.args = 1..k /\ \A i \in 1..k : node.args[i] = pe[r + i]
    BY <1>0, Zenon
  <2> QED BY ONLY <2>2, <2>3, Zenon
<1>6. \A i \in 1..k : r + i \in 1..Len(pe) /\ ~(r + i \in 1..r)
  BY <1>0, <1>2, <1>r, SMTT(30)
<1>7. \A i \in 1..Len(pe) : i \in 1..r \/ \E j \in 1..k : i = r + j
  <2> TAKE i \in 1..Len(pe)
  <2>1. i \in 1..r \/ (i - r \in 1..k /\ i = r + (i - r))
    BY <1>0, <1>2, <1>r
  <2> QED BY <2>1
<1>b. \A h \in 1..N : h # N + 1
  BY <1>1
<1>c. \A m \in 1..N : \A n : Child(tr, m, n) => n \in 1..N
  BY <1>3
<1>8. \A i \in DOMAIN pe2 : pe2[i] \in 1..(N + 1)
  BY <1>1, <1>2, <1>3, SMTT(30)
<1>9. \A i, j \in DOMAIN pe2 : pe2[i] = pe2[j] => i = j
  <2> SUFFICES ASSUME NEW i \in 1..(r + 1), NEW j \in 1..(r + 1), pe2[i] = pe2[j]
               PROVE  i = j
    BY <1>2
  <2>1. (i \in 1..r \/ i = r + 1) /\ (j \in 1..r \/ j = r + 1)
    BY <1>2
  <2>2. \A h \in 1..r : pe2[h] \in 1..N /\ pe2[h] # N + 1
    BY <1>1, <1>2, <1>3, <1>b
  <2> QED BY <1>2, <1>3, <2>1, <2>2
<1>10. \A n \in 1..(N + 1) :
         (\E i \in DOMAIN pe2 : pe2[i] = n) <=> ~(\E m \in 1..(N + 1) : Child(tr2, m, n))
  <2> TAKE n \in 1..(N + 1)
  <2>1. (\E m \in 1..(N + 1) : Child(tr2, m, n))
          <=> (\E m \in 1..N : Child(tr, m, n)) \/ \E i \in 1..k : pe[r + i] = n
    <3>1. \A m \in 1..(N + 1) : m \in 1..N \/ m = N + 1
      BY <1>1
    <3>2. N + 1 \in 1..(N + 1) /\ \A m \in 1..N : m \in 1..(N + 1)
      BY <1>1
    <3> QED BY <1>4, <1>5, <3>1, <3>2
  <2>2. (\E i \in DOMAIN pe2 : pe2[i] = n) <=> (\E i \in 1..r : pe[i] = n) \/ n = N + 1
    <3>1. \A i \in 1..(r + 1) : i \in 1..r \/ i = r + 1
      BY <1>2
    <3>2. r + 1 \in 1..(r + 1) /\ \A i \in 1..r : i \in 1..(r + 1)
      BY <1>2
    <3> QED BY <1>2, <3>1, <3>2
  <2>3. CASE n = N + 1
    <3>1. \A m \in 1..N : ~Child(tr, m, N + 1)
      <4> SUFFICES ASSUME NEW m \in 1..N, Child(tr2, m, N + 1) PROVE FALSE
        BY <1>4
      <4>1. Child(tr, m, N + 1)
        BY <1>4
      <4>2. N + 1 \in 1..N
        BY <4>1, <1>c
      <4> QED BY <4>2, <1>b
    <3>2. \A i \in 1..k : pe[r + i] # N + 1
      BY <1>2, <1>3, <1>6, <1>b
    <3> QED BY <2>1, <2>2, <2>3, <3>1, <3>2
  <2>4. CASE n \in 1..N
    <3>1. n # N + 1
      BY <1>1, <2>4
    <3>2. (\E i \in 1..Len(pe) : pe[i] = n)
            <=> (\E i \in 1..r : pe[i] = n) \/ \E i \in 1..k : pe[r + i] = n
      BY <1>2, <1>6, <1>7
    <3>3. ~((\E i \in 1..r : pe[i] = n) /\ \E i \in 1..k : pe[r + i] = n)
      <4> SUFFICES ASSUME NEW i \in 1..r, NEW j \in 1..k, pe[i] = pe[r + j] PROVE FALSE
        OBVIOUS
      <4>1. i \in DOMAIN pe /\ r + j \in DOMAIN pe /\ i # r + j
        BY <1>2, <1>6
      <4> QED BY <1>3, <4>1
    <3> QED BY <1>2, <1>3, <2>1, <2>2, <2>4, <3>1, <3>2, <3>3
  <2> QED BY <1>1, <2>3, <2>4
<1>11. \A l, m \in 1..(N + 1) : \A n : Child(tr2, l, n) /\ Child(tr2, m, n) => l = m
  <2> SUFFICES ASSUME NEW l \in 1..(N + 1), NEW m \in 1..(N + 1), NEW n,
                      Child(tr2, l, n), Child(tr2, m, n)
               PROVE  l = m
    OBVIOUS
  <2>1. (l \in 1..N \/ l = N + 1) /\ (m \in 1..N \/ m = N + 1)
    BY <1>1
  <2>2. ASSUME NEW h \in 1..N, Child(tr2, h, n), Child(tr2, N + 1, n) PROVE FALSE
    <3>1. PICK i \in 1..k : pe[r + i] = n
      BY <1>5, <2>2
    <3>2. r + i \in DOMAIN pe /\ n \in 1..N
      BY <1>2, <1>3, <1>6, <3>1
    <3>3. Child(tr, h, n)
      BY <1>4, <2>2
    <3> QED BY <1>3, <3>1, <3>2, <3>3
  <2> QED BY <1>3, <1>4, <2>1, <2>2
<1>13. \A m \in 1..(N + 1) : \A n : Child(tr2, m, n) => n \in 1..(N + 1)
  <2> SUFFICES ASSUME NEW m \in 1..(N + 1), NEW n, Child(tr2, m, n) PROVE n \in 1..(N + 1)
    OBVIOUS
  <2>1. m \in 1..N \/ m = N + 1
    BY <1>1
  <2>2. CASE m \in 1..N
    BY <1>1, <1>3, <1>4, <2>2
  <2>3. CASE m = N + 1
    <3>1. PICK i \in 1..k : pe[r + i] = n
      BY <1>5, <2>3
    <3>2. n \in 1..N
      BY <1>2, <1>3, <1>6, <3>1
    <3> QED BY <1>1, <3>2
  <2> QED BY <2>1, <2>2, <2>3
<1>12. Holders(tr2, pe2)
  BY <1>1, <1>8, <1>9, <1>10, <1>11, <1>13 DEF Holders
<1> QED BY <1>12, <1>t, <1>n, <1>r, <1>p

\* What waited after each node is not disturbed by one more.
LEMMA StacksKept ==
  ASSUME NEW tr \in Seq(NodeSet), NEW pe \in Seq(Nat), NEW P, Stacks(tr, P), P[Len(tr)] = pe,
         NEW node \in NodeSet, NEW k, Over(pe, node, k)
  PROVE  \E Q : /\ Stacks(Append(tr, node), Q)
                /\ Q[Len(tr) + 1] = Append(SubSeq(pe, 1, Len(pe) - k), Len(tr) + 1)
<1>t. PICK tr2 : tr2 = Append(tr, node)
  OBVIOUS
<1>n. PICK N : N = Len(tr)
  OBVIOUS
<1>p. PICK pe2 : pe2 = Append(SubSeq(pe, 1, Len(pe) - k), N + 1)
  OBVIOUS
<1>q. PICK Q : Q = [i \in 0..(N + 1) |-> IF i = N + 1 THEN pe2 ELSE P[i]]
  OBVIOUS
<1>0. /\ k \in 0..Len(pe) /\ Len(node.args) = k /\ node.args \in Seq(Nat)
      /\ \A i \in 1..k : node.args[i] = pe[Len(pe) - k + i]
      /\ DOMAIN node.args = 1..k
  <2>1. node.args \in Seq(Nat)
    BY DEF NodeSet
  <2>2. k \in 0..Len(pe) /\ Len(node.args) = k /\ \A i \in 1..k : node.args[i] = pe[Len(pe) - k + i]
    BY DEF Over
  <2>3. DOMAIN node.args = 1..k
    BY <2>1, <2>2
  <2> QED BY <2>1, <2>2, <2>3
<1>1. /\ N \in Nat /\ tr2[N + 1] = node /\ Len(tr2) = N + 1
      /\ \A i \in 1..N : tr2[i] = tr[i]
  BY <1>t, <1>n, Appended
<1>2. /\ P[0] = <<>> /\ DOMAIN P = 0..N
      /\ \A i \in 0..N : P[i] \in Seq(Nat) /\ \A j \in DOMAIN P[i] : P[i][j] \in 1..i
      /\ \A i \in 1..N :
           /\ Len(tr[i].args) <= Len(P[i - 1])
           /\ \A j \in DOMAIN tr[i].args :
                tr[i].args[j] = P[i - 1][Len(P[i - 1]) - Len(tr[i].args) + j]
           /\ P[i] = Append(SubSeq(P[i - 1], 1, Len(P[i - 1]) - Len(tr[i].args)), i)
  BY <1>n DEF Stacks
<1>3. /\ DOMAIN Q = 0..(N + 1) /\ Q[N + 1] = pe2 /\ \A i \in 0..N : Q[i] = P[i]
  BY <1>1, <1>q
<1>4. pe2 \in Seq(Nat) /\ \A i \in DOMAIN pe2 : pe2[i] \in 1..(N + 1)
  <2> PICK q : q = Len(pe) - k
    OBVIOUS
  <2>1. N + 1 \in Nat /\ q \in 0..Len(pe) /\ pe \in Seq(Nat) /\ pe2 = Append(SubSeq(pe, 1, q), N + 1)
    BY <1>0, <1>1, <1>p
  <2>2. /\ pe2 \in Seq(Nat) /\ DOMAIN pe2 = 1..(q + 1) /\ pe2[q + 1] = N + 1 /\ q \in 0..Len(pe)
        /\ DOMAIN pe = 1..Len(pe) /\ \A i \in 1..q : pe2[i] = pe[i] /\ i \in 1..Len(pe)
    BY ONLY <2>1, Replaced
  <2>3. \A i \in DOMAIN pe : pe[i] \in 1..N
    <3>1. N \in 0..N /\ P[N] = pe
      BY <1>1, <1>n
    <3> QED BY ONLY <1>2, <3>1
  <2>4. \A i \in 1..(q + 1) : i \in 1..q \/ i = q + 1
    BY <2>2
  <2>5. N + 1 \in 1..(N + 1) /\ \A i \in 1..N : i \in 1..(N + 1)
    BY <1>1
  <2> QED BY ONLY <2>2, <2>3, <2>4, <2>5
<1>5. \A i \in 0..(N + 1) : Q[i] \in Seq(Nat) /\ \A j \in DOMAIN Q[i] : Q[i][j] \in 1..i
  <2> TAKE i \in 0..(N + 1)
  <2>1. i \in 0..N \/ i = N + 1
    BY <1>1
  <2> QED BY <1>2, <1>3, <1>4, <2>1
<1>6. ASSUME NEW i \in 1..(N + 1)
      PROVE  /\ Len(tr2[i].args) <= Len(Q[i - 1])
             /\ \A j \in DOMAIN tr2[i].args :
                  tr2[i].args[j] = Q[i - 1][Len(Q[i - 1]) - Len(tr2[i].args) + j]
             /\ Q[i] = Append(SubSeq(Q[i - 1], 1, Len(Q[i - 1]) - Len(tr2[i].args)), i)
  <2>1. CASE i \in 1..N
    <3>1. Q[i] = P[i] /\ Q[i - 1] = P[i - 1] /\ tr2[i] = tr[i]
      BY <1>1, <1>3, <2>1
    <3> QED BY <1>2, <2>1, <3>1
  <2>2. CASE i = N + 1
    <3>1. Q[i - 1] = pe /\ tr2[i] = node /\ Q[i] = pe2
      BY <1>1, <1>3, <1>n, <2>2
    <3>2. k <= Len(pe)
      BY <1>0
    <3>3. \A j \in DOMAIN node.args : node.args[j] = pe[Len(pe) - k + j]
      BY <1>0
    <3>4. Len(Q[i - 1]) - Len(tr2[i].args) = Len(pe) - k
      BY ONLY <1>0, <3>1
    <3>5. \A j \in DOMAIN tr2[i].args : tr2[i].args[j] = Q[i - 1][Len(Q[i - 1]) - Len(tr2[i].args) + j]
      BY ONLY <3>1, <3>3, <3>4
    <3>6. Q[i] = Append(SubSeq(Q[i - 1], 1, Len(Q[i - 1]) - Len(tr2[i].args)), i)
      BY ONLY <1>p, <2>2, <3>1, <3>4
    <3>7. Len(tr2[i].args) <= Len(Q[i - 1])
      BY ONLY <1>0, <3>1, <3>2
    <3> QED BY ONLY <3>5, <3>6, <3>7
  <2>3. i \in 1..N \/ i = N + 1
    BY <1>1
  <2> QED BY ONLY <2>1, <2>2, <2>3
<1>7. Stacks(tr2, Q)
  <2>1. Q[0] = <<>>
    BY <1>1, <1>2, <1>3
  <2> QED BY <1>1, <1>3, <1>5, <1>6, <2>1 DEF Stacks
<1> QED BY <1>3, <1>7, <1>t, <1>n, <1>p


\* The operands of a node are nodes before it.
LEMMA Operated ==
  ASSUME NEW tr \in Seq(NodeSet), NEW ty \in Seq(Types), Len(ty) = Len(tr),
         NEW n \in 1..Len(tr), NodeOK(tr, ty, n)
  PROVE  /\ tr[n] \in NodeSet /\ tr[n].args \in Seq(Nat) /\ ty[n] \in Types
         /\ tr[n].kind = "leaf" => tr[n].args = <<>> /\ DOMAIN tr[n].args = {}
         /\ tr[n].kind = "cast" => /\ DOMAIN tr[n].args = {1} /\ Len(tr[n].args) = 1
                                   /\ tr[n].args[1] \in 1..(n - 1)
                                   /\ tr[n].args[1] \in 1..Len(tr)
         /\ tr[n].kind \in Binary =>
              /\ DOMAIN tr[n].args = {1, 2} /\ Len(tr[n].args) = 2
              /\ tr[n].args[1] \in 1..(n - 1) /\ tr[n].args[2] \in 1..(n - 1)
              /\ tr[n].args[1] \in 1..Len(tr) /\ tr[n].args[2] \in 1..Len(tr)
<1>1. tr[n] \in NodeSet /\ tr[n].args \in Seq(Nat) /\ ty[n] \in Types
  <2>1. n \in 1..Len(ty)
    OBVIOUS
  <2>2. tr[n] \in NodeSet
    OBVIOUS
  <2>3. ty[n] \in Types
    BY <2>1
  <2> QED BY <2>2, <2>3 DEF NodeSet
<1>2. DOMAIN tr[n].args = 1..Len(tr[n].args)
  BY <1>1
<1>3. \A h \in 1..(n - 1) : h \in 1..Len(tr)
  OBVIOUS
<1>4. \A i \in DOMAIN tr[n].args : tr[n].args[i] \in 1..(n - 1)
  BY DEF NodeOK
<1>5. CASE tr[n].kind = "leaf"
  <2>1. Len(tr[n].args) = 0
    BY <1>5 DEF NodeOK
  <2>2. tr[n].args = <<>> /\ DOMAIN tr[n].args = {}
    BY <1>1, <1>2, <2>1
  <2> QED BY <1>1, <1>5, <2>2 DEF Binary
<1>6. CASE tr[n].kind = "cast"
  <2>1. Len(tr[n].args) = 1
    BY <1>6 DEF NodeOK
  <2>2. DOMAIN tr[n].args = {1}
    BY <1>2, <2>1
  <2> QED BY <1>1, <1>3, <1>4, <1>6, <2>1, <2>2 DEF Binary
<1>7. CASE tr[n].kind \in Binary
  <2>1. Len(tr[n].args) = 2
    BY <1>7 DEF NodeOK
  <2>2. DOMAIN tr[n].args = {1, 2}
    BY <1>2, <2>1
  <2> QED BY <1>1, <1>3, <1>4, <1>7, <2>1, <2>2 DEF Binary
<1> QED BY <1>1, <1>5, <1>6, <1>7

\* A node that the type checker let pass it lets pass in a larger tree.
LEMMA NodeKept ==
  ASSUME NEW tr \in Seq(NodeSet), NEW ty \in Seq(Types), Len(ty) = Len(tr),
         NEW n \in 1..Len(tr), NodeOK(tr, ty, n), NEW tr2, NEW ty2,
         \A m \in 1..Len(tr) : tr2[m] = tr[m] /\ ty2[m] = ty[m]
  PROVE  NodeOK(tr2, ty2, n)
<1>1. tr2[n] = tr[n] /\ ty2[n] = ty[n]
  OBVIOUS
<1>2. tr[n].kind \in Binary =>
        ty2[tr[n].args[1]] = ty[tr[n].args[1]] /\ ty2[tr[n].args[2]] = ty[tr[n].args[2]]
  BY Operated
<1> QED BY <1>1, <1>2 DEF NodeOK

\* So do the marks its check made stay.
LEMMA MarkingKept ==
  ASSUME NEW tr \in Seq(NodeSet), NEW ty \in Seq(Types), Len(ty) = Len(tr),
         NEW m \in 1..Len(tr), NodeOK(tr, ty, m), NEW tr2, NEW ty2,
         \A h \in 1..Len(tr) : tr2[h] = tr[h] /\ ty2[h] = ty[h]
  PROVE  \A n : MarksOperand(tr2, ty2, m, n) <=> MarksOperand(tr, ty, m, n)
<1>1. tr2[m] = tr[m]
  OBVIOUS
<1>2. tr[m].kind \in Binary =>
        ty2[tr[m].args[1]] = ty[tr[m].args[1]] /\ ty2[tr[m].args[2]] = ty[tr[m].args[2]]
  BY Operated
<1>3. CASE tr[m].kind \in Binary
  BY <1>1, <1>2, <1>3 DEF MarksOperand
<1>4. CASE tr[m].kind \notin Binary
  BY <1>1, <1>4 DEF MarksOperand, Binary
<1> QED BY <1>3, <1>4

\* A node on the operands that wait, of the type checked, joins the tree.
Joins(tr, ty, pe, node, type, k) ==
  /\ node \in NodeSet /\ type \in Types /\ Over(pe, node, k)
  /\ node.kind = "leaf" => k = 0
  /\ node.kind = "cast" => k = 1 /\ node.type \in Casts /\ type = node.type
  /\ node.kind \in Binary =>
       k = 2 /\ type = CheckedType(node.kind, ty[node.args[1]], ty[node.args[2]])

\* The tree is what the type checker let pass, with that node as well.
LEMMA TreeGrows ==
  ASSUME NEW tr, NEW ty, NEW pe, TreeOK(tr, ty, pe),
         NEW node, NEW type, NEW k, Joins(tr, ty, pe, node, type, k)
  PROVE  TreeOK(Append(tr, node), Append(ty, type),
                Append(SubSeq(pe, 1, Len(pe) - k), Len(tr) + 1))
<1>t. PICK tr2 : tr2 = Append(tr, node)
  OBVIOUS
<1>y. PICK ty2 : ty2 = Append(ty, type)
  OBVIOUS
<1>p. PICK pe2 : pe2 = Append(SubSeq(pe, 1, Len(pe) - k), Len(tr) + 1)
  OBVIOUS
<1>1. /\ tr \in Seq(NodeSet) /\ ty \in Seq(Types) /\ Len(ty) = Len(tr) /\ pe \in Seq(Nat)
      /\ node \in NodeSet /\ type \in Types /\ Over(pe, node, k)
  BY DEF TreeOK, Joins
<1>2. /\ tr2 \in Seq(NodeSet) /\ Len(tr) \in Nat /\ Len(tr2) = Len(tr) + 1
      /\ tr2[Len(tr) + 1] = node /\ \A m \in 1..Len(tr) : tr2[m] = tr[m]
  BY <1>1, <1>t, Appended
<1>3. /\ ty2 \in Seq(Types) /\ Len(ty2) = Len(tr) + 1
      /\ ty2[Len(tr) + 1] = type /\ \A m \in 1..Len(tr) : ty2[m] = ty[m]
  BY <1>1, <1>y, Appended
<1>4. Holders(tr2, pe2)
  BY <1>1, <1>t, <1>p, HoldersKept DEF TreeOK
<1>5. \E P : Stacks(tr2, P) /\ P[Len(tr2)] = pe2
  <2>1. PICK P : Stacks(tr, P) /\ P[Len(tr)] = pe
    BY DEF TreeOK
  <2>2. \E Q : Stacks(tr2, Q) /\ Q[Len(tr) + 1] = pe2
    <3>1. \E Q : /\ Stacks(Append(tr, node), Q)
                 /\ Q[Len(tr) + 1] = Append(SubSeq(pe, 1, Len(pe) - k), Len(tr) + 1)
      BY ONLY <1>1, <2>1, StacksKept
    <3> QED BY ONLY <1>t, <1>p, <3>1
  <2> QED BY ONLY <1>2, <2>2
<1>6. pe2 \in Seq(Nat)
  <2>1. k \in 0..Len(pe) /\ Len(tr) + 1 \in Nat
    BY <1>1, <1>2 DEF Over
  <2>2. Len(pe) - k \in 0..Len(pe)
    BY <1>1, <2>1
  <2> QED BY ONLY <1>1, <1>p, <2>1, <2>2, Replaced, SMTT(30)
<1>7. \A n \in 1..Len(tr) : NodeOK(tr2, ty2, n)
  BY <1>1, <1>2, <1>3, NodeKept DEF TreeOK
<1>8. NodeOK(tr2, ty2, Len(tr) + 1)
  <2>1. /\ k \in 0..Len(pe) /\ Len(node.args) = k /\ node.args \in Seq(Nat) /\ node.kind \in Kinds
        /\ \A i \in 1..k : node.args[i] = pe[Len(pe) - k + i]
    BY <1>1 DEF Over, NodeSet
  <2>2. /\ \A i \in DOMAIN pe : pe[i] \in 1..Len(tr)
        /\ \A i, j \in DOMAIN pe : pe[i] = pe[j] => i = j
    BY DEF TreeOK, Holders
  <2>3. DOMAIN node.args = 1..k /\ DOMAIN pe = 1..Len(pe)
    BY <1>1, <2>1
  <2>4. \A i \in 1..k : Len(pe) - k + i \in DOMAIN pe
    BY <1>1, <2>1, <2>3
  <2>5. \A i \in 1..k : node.args[i] \in 1..Len(tr)
    BY <2>1, <2>2, <2>4
  <2>6. k = 2 => node.args[1] # node.args[2]
    <3> SUFFICES ASSUME k = 2, node.args[1] = node.args[2] PROVE FALSE
      OBVIOUS
    <3>1. 1 \in 1..k /\ 2 \in 1..k
      OBVIOUS
    <3>2. Len(pe) - k + 1 = Len(pe) - k + 2
      BY <2>1, <2>2, <2>4, <3>1
    <3> QED BY <1>1, <2>1, <3>2
  <2>7. \A i \in DOMAIN node.args : node.args[i] \in 1..((Len(tr) + 1) - 1)
    BY <1>2, <2>3, <2>5
  <2>8. node.kind \in Binary =>
          ty2[node.args[1]] = ty[node.args[1]] /\ ty2[node.args[2]] = ty[node.args[2]]
    <3> SUFFICES ASSUME node.kind \in Binary
                 PROVE  ty2[node.args[1]] = ty[node.args[1]] /\ ty2[node.args[2]] = ty[node.args[2]]
      OBVIOUS
    <3>1. k = 2
      BY DEF Joins
    <3>2. 1 \in 1..k /\ 2 \in 1..k
      BY <3>1
    <3> QED BY <1>3, <2>5, <3>2
  <2>9. /\ node.kind = "leaf" => Len(node.args) = 0
        /\ node.kind = "cast" => Len(node.args) = 1 /\ node.type \in Casts /\ type = node.type
        /\ node.kind \in Binary =>
             k = 2 /\ type = CheckedType(node.kind, ty[node.args[1]], ty[node.args[2]])
    BY <2>1 DEF Joins
  <2> QED BY <1>1, <1>2, <1>3, <2>1, <2>6, <2>7, <2>8, <2>9 DEF NodeOK
<1>9. \A n \in 1..(Len(tr) + 1) : NodeOK(tr2, ty2, n)
  <2>1. \A n \in 1..(Len(tr) + 1) : n \in 1..Len(tr) \/ n = Len(tr) + 1
    BY <1>2
  <2> QED BY <1>7, <1>8, <2>1
<1>10. TreeOK(tr2, ty2, pe2)
  BY <1>2, <1>3, <1>4, <1>5, <1>6, <1>9 DEF TreeOK
<1> QED BY <1>10, <1>t, <1>y, <1>p

\* The contexts are distinct.
LEMMA Contexts ==
  /\ \A m, n : Base(m) = Base(n) => m = n
  /\ \A n : Base(n) # Argument /\ Base(n) # Holder
  /\ Argument # Holder
BY DEF Base, Argument, Holder

\* The marks are those of the nodes' checks, and of this node's.
LEMMA MarksGrow ==
  ASSUME NEW tr, NEW ty, NEW pe, TreeOK(tr, ty, pe),
         NEW node, NEW type, NEW k, Joins(tr, ty, pe, node, type, k),
         NEW mk, MarksOK(tr, ty, mk), NEW new,
         new \subseteq {Base(n) : n \in 1..Len(tr)},
         \A n \in 1..Len(tr) :
           Base(n) \in new <=>
             MarksOperand(Append(tr, node), Append(ty, type), Len(tr) + 1, n)
  PROVE  MarksOK(Append(tr, node), Append(ty, type), mk \cup new)
<1>t. PICK tr2 : tr2 = Append(tr, node)
  OBVIOUS
<1>y. PICK ty2 : ty2 = Append(ty, type)
  OBVIOUS
<1>1. /\ tr \in Seq(NodeSet) /\ ty \in Seq(Types) /\ Len(ty) = Len(tr)
      /\ node \in NodeSet /\ type \in Types
  BY DEF TreeOK, Joins
<1>2. /\ Len(tr) \in Nat /\ Len(tr2) = Len(tr) + 1
      /\ tr2[Len(tr) + 1] = node /\ \A m \in 1..Len(tr) : tr2[m] = tr[m]
  BY <1>1, <1>t, Appended
<1>3. /\ ty2[Len(tr) + 1] = type /\ \A m \in 1..Len(tr) : ty2[m] = ty[m]
  BY <1>1, <1>y, Appended
<1>4. \A n : \A m \in 1..Len(tr) : MarksOperand(tr2, ty2, m, n) <=> MarksOperand(tr, ty, m, n)
  BY <1>1, <1>2, <1>3, MarkingKept DEF TreeOK
<1>5. \A m \in 1..(Len(tr) + 1) : m \in 1..Len(tr) \/ m = Len(tr) + 1
  BY <1>2
<1>6. Len(tr) + 1 \in 1..(Len(tr) + 1) /\ \A m \in 1..Len(tr) : m \in 1..(Len(tr) + 1)
  BY <1>2
<1>7. mk \cup new \subseteq {Base(n) : n \in 1..(Len(tr) + 1)} \cup {Argument, Holder}
  BY <1>6 DEF MarksOK
<1>8. \A n \in 1..(Len(tr) + 1) : MarksOperand(tr2, ty2, Len(tr) + 1, n) => n \in 1..Len(tr)
  <2>1. NodeOK(tr2, ty2, Len(tr) + 1) /\ tr2 \in Seq(NodeSet) /\ ty2 \in Seq(Types)
        /\ Len(ty2) = Len(tr2) /\ Len(tr) + 1 \in 1..Len(tr2)
    BY <1>2, <1>6, <1>t, <1>y, TreeGrows, SMTT(30) DEF TreeOK
  <2>2. tr2[Len(tr) + 1].kind \in Binary =>
          tr2[Len(tr) + 1].args[1] \in 1..((Len(tr) + 1) - 1)
          /\ tr2[Len(tr) + 1].args[2] \in 1..((Len(tr) + 1) - 1)
    BY ONLY <2>1, Operated
  <2>3. (Len(tr) + 1) - 1 = Len(tr)
    BY <1>2
  <2> QED BY ONLY <2>2, <2>3 DEF MarksOperand, Binary
<1>9. \A n \in 1..(Len(tr) + 1) :
        Base(n) \in mk \cup new
          <=> \E m \in 1..(Len(tr) + 1) : MarksOperand(tr2, ty2, m, n)
  <2> TAKE n \in 1..(Len(tr) + 1)
  <2>1. (\E m \in 1..(Len(tr) + 1) : MarksOperand(tr2, ty2, m, n))
          <=> (\E m \in 1..Len(tr) : MarksOperand(tr, ty, m, n))
              \/ MarksOperand(tr2, ty2, Len(tr) + 1, n)
    BY ONLY <1>4, <1>5, <1>6
  <2>2. CASE n \in 1..Len(tr)
    <3>1. Base(n) \in mk <=> \E m \in 1..Len(tr) : MarksOperand(tr, ty, m, n)
      BY <2>2 DEF MarksOK
    <3>2. Base(n) \in new <=> MarksOperand(tr2, ty2, Len(tr) + 1, n)
      BY <1>t, <1>y, <2>2
    <3> QED BY ONLY <2>1, <3>1, <3>2
  <2>3. CASE n \notin 1..Len(tr)
    <3>1. Base(n) \notin mk \cup new
      BY <2>3, Contexts DEF MarksOK
    <3>2. ~ \E m \in 1..Len(tr) : MarksOperand(tr, ty, m, n)
      <4> SUFFICES ASSUME NEW m \in 1..Len(tr), MarksOperand(tr, ty, m, n) PROVE FALSE
        OBVIOUS
      <4>1. NodeOK(tr, ty, m)
        BY DEF TreeOK
      <4>2. tr[m].kind \in Binary => tr[m].args[1] \in 1..Len(tr) /\ tr[m].args[2] \in 1..Len(tr)
        BY ONLY <1>1, <4>1, Operated
      <4>3. n \in 1..Len(tr)
        BY <4>2 DEF MarksOperand, Binary
      <4> QED BY <2>3, <4>3
    <3>3. ~MarksOperand(tr2, ty2, Len(tr) + 1, n)
      BY <1>8, <2>3
    <3> QED BY ONLY <2>1, <3>1, <3>2, <3>3
  <2> QED BY <2>2, <2>3
<1>10. MarksOK(tr2, ty2, mk \cup new)
  BY <1>2, <1>7, <1>9 DEF MarksOK
<1> QED BY <1>10, <1>t, <1>y

-----------------------------------------------------------------------------
(* The steps of the type checker.                                          *)

\* Where nothing is generated yet, nothing is said of what is.
LEMMA StillChecking ==
  ASSUME phase' \in {"checking", "rejected"}
  PROVE  UseChecked' /\ Survived' /\ Computed'
<1>1. phase' \notin {"generating", "done", "aborted"}
  OBVIOUS
<1>2. UseChecked'
  BY ONLY <1>1 DEF UseChecked
<1>3. Survived'
  BY ONLY <1>1 DEF Survived
<1>4. Computed'
  BY ONLY <1>1 DEF Computed
<1> QED BY <1>2, <1>3, <1>4

\* Before the first node, nothing is marked and nothing waits.
LEMMA InitHolds ==
  ASSUME Init PROVE ConversionInv
<1>1. /\ phase = "checking" /\ tree = <<>> /\ types = <<>> /\ pending = <<>> /\ marks = {}
      /\ next = 1 /\ code = <<>>
  BY DEF Init
<1>2. Len(tree) = 0 /\ 1..Len(tree) = {} /\ DOMAIN pending = {}
  BY <1>1
<1>3. Holders(tree, pending)
  BY ONLY <1>2 DEF Holders
<1>4. \E P : Stacks(tree, P) /\ P[Len(tree)] = pending
  <2> PICK P : P = [k \in 0..0 |-> <<>>]
    OBVIOUS
  <2>1. DOMAIN P = 0..Len(tree) /\ P[0] = <<>>
    BY <1>2
  <2>2. \A k \in 0..Len(tree) : P[k] = <<>>
    BY <1>2
  <2>3. <<>> \in Seq(Nat) /\ DOMAIN <<>> = {}
    OBVIOUS
  <2>4. Stacks(tree, P)
    BY ONLY <1>2, <2>1, <2>2, <2>3 DEF Stacks
  <2> QED BY <1>1, <1>2, <2>1, <2>4
<1>5. TreeOK(tree, types, pending)
  <2>1. tree \in Seq(NodeSet) /\ types \in Seq(Types) /\ pending \in Seq(Nat) /\ Len(types) = Len(tree)
    BY <1>1
  <2> QED BY <1>2, <1>3, <1>4, <2>1 DEF TreeOK
<1>6. MarksOK(tree, types, marks)
  BY <1>1, <1>2 DEF MarksOK
<1>7. Shapes
  <2>1. code \in Seq(Instructions)
    BY <1>1
  <2> QED BY <1>1, <1>2, <2>1 DEF Shapes, Phases
<1>8. UseChecked /\ Survived /\ Computed
  BY <1>1 DEF UseChecked, Survived, Computed
<1> QED BY <1>5, <1>6, <1>7, <1>8 DEF ConversionInv

\* What the exit of a node leaves, of which marks are right.
LEMMA ExitHolds ==
  ASSUME ConversionInv, NEW node, NEW type, NEW k, NEW new,
         phase = "checking", phase' = phase, marks' = marks \cup new,
         Joins(tree, types, pending, node, type, k), Exit(node, type, k),
         new \subseteq {Base(n) : n \in 1..Len(tree)},
         \A n \in 1..Len(tree) :
           Base(n) \in new <=>
             MarksOperand(Append(tree, node), Append(types, type), Len(tree) + 1, n)
  PROVE  ConversionInv'
<1>1. /\ tree' = Append(tree, node) /\ types' = Append(types, type)
      /\ pending' = Append(SubSeq(pending, 1, Len(pending) - k), Len(tree) + 1)
      /\ use' = use /\ next' = next /\ code' = code
  BY DEF Exit
<1>2. TreeOK(tree, types, pending) /\ MarksOK(tree, types, marks) /\ Shapes
  BY DEF ConversionInv
<1>3. TreeOK(tree, types, pending)'
  BY ONLY <1>1, <1>2, Joins(tree, types, pending, node, type, k), TreeGrows
<1>4. MarksOK(tree, types, marks)'
  <2>1. MarksOK(Append(tree, node), Append(types, type), marks \cup new)
    BY <1>2, MarksGrow
  <2> QED BY <1>1, <2>1
<1>5. Shapes'
  <2>1. Argument \notin marks' /\ Holder \notin marks'
    BY <1>2, Contexts DEF Shapes
  <2>2. next' \in 1..(Len(tree') + 1)
    <3>1. Len(tree) \in Nat /\ Len(tree') = Len(tree) + 1
      BY <1>1, <1>2 DEF TreeOK, Joins
    <3> QED BY <1>1, <1>2, <3>1 DEF Shapes
  <2> QED BY <1>1, <1>2, <2>1, <2>2 DEF Shapes
<1>6. UseChecked' /\ Survived' /\ Computed'
  BY StillChecking
<1> QED BY <1>3, <1>4, <1>5, <1>6 DEF ConversionInv

\* A program that is rejected never comes to the generator.
LEMMA RejectHolds ==
  ASSUME ConversionInv, phase = "checking", Reject PROVE ConversionInv'
<1>1. /\ phase' = "rejected" /\ tree' = tree /\ types' = types /\ pending' = pending
      /\ marks' = marks /\ use' = use /\ next' = next /\ code' = code
  BY DEF Reject
<1>2. TreeOK(tree, types, pending) /\ MarksOK(tree, types, marks) /\ Shapes
  BY DEF ConversionInv
<1>3. TreeOK(tree, types, pending)' /\ MarksOK(tree, types, marks)'
  BY <1>1, <1>2
<1>4. Shapes'
  BY <1>1, <1>2 DEF Shapes, Phases
<1>5. UseChecked' /\ Survived' /\ Computed'
  BY <1>1, StillChecking
<1> QED BY <1>3, <1>4, <1>5 DEF ConversionInv

\* A leaf waits for its parent, and marks nothing.
LEMMA LeafHolds ==
  ASSUME ConversionInv, NEW type \in Leaves, CheckLeaf(type) PROVE ConversionInv'
<1> DEFINE node == [kind |-> "leaf", type |-> type, args |-> <<>>]
<1>1. TreeOK(tree, types, pending)
  BY DEF ConversionInv
<1>2. type \in Types
  BY ConstantsAssumption
<1>3. node \in NodeSet
  <2>1. <<>> \in Seq(Nat) /\ "leaf" \in Kinds
    BY DEF Kinds
  <2> QED BY <1>2, <2>1 DEF NodeSet
<1>4. Over(pending, node, 0)
  <2>1. 0 \in 0..Len(pending)
    BY <1>1 DEF TreeOK
  <2>2. node.args = <<>>
    OBVIOUS
  <2>3. Len(node.args) = 0
    BY <2>2
  <2> QED BY ONLY <2>1, <2>3 DEF Over
<1>5. node.kind = "leaf"
  OBVIOUS
<1>6. Joins(tree, types, pending, node, type, 0)
  <2>1. node.kind # "cast" /\ node.kind \notin Binary
    BY <1>5 DEF Binary
  <2> HIDE DEF node
  <2> QED BY <1>2, <1>3, <1>4, <1>5, <2>1 DEF Joins
<1>7. \A n : ~MarksOperand(Append(tree, node), Append(types, type), Len(tree) + 1, n)
  <2>1. Append(tree, node)[Len(tree) + 1] = node
    <3> HIDE DEF node
    <3> QED BY <1>1, <1>3, Appended DEF TreeOK
  <2> HIDE DEF node
  <2> QED BY <1>5, <2>1 DEF MarksOperand
<1>8. /\ phase = "checking" /\ phase' = phase /\ marks' = marks \cup {}
      /\ Exit(node, type, 0)
  BY DEF CheckLeaf
<1>9. {} \subseteq {Base(n) : n \in 1..Len(tree)}
  OBVIOUS
<1> HIDE DEF node
<1>10. \A n \in 1..Len(tree) :
         Base(n) \in {} <=>
           MarksOperand(Append(tree, node), Append(types, type), Len(tree) + 1, n)
  BY ONLY <1>7
<1> QED BY ONLY ConversionInv, <1>6, <1>8, <1>9, <1>10, ExitHolds

\* A cast takes the node that waits, and marks nothing.
LEMMA CastHolds ==
  ASSUME ConversionInv, NEW target \in Casts, CheckCast(target) PROVE ConversionInv'
<1> DEFINE node == [kind |-> "cast", type |-> target, args |-> <<Last(pending)>>]
<1>1. TreeOK(tree, types, pending)
  BY DEF ConversionInv
<1>2. target \in Types
  BY DEF Casts, Types
<1>0. pending \in Seq(Nat) /\ Len(pending) \in Nat /\ Len(pending) >= 1
      /\ Last(pending) = pending[Len(pending)]
  <2>1. pending \in Seq(Nat) /\ pending # <<>>
    BY <1>1 DEF TreeOK, CheckCast
  <2>2. Len(pending) \in Nat /\ Len(pending) # 0
    BY <2>1
  <2> QED BY <2>1, <2>2 DEF Last
<1>3. node \in NodeSet
  <2>1. pending[Len(pending)] \in Nat
    BY <1>0
  <2>2. <<Last(pending)>> \in Seq(Nat) /\ "cast" \in Kinds
    BY <1>0, <2>1 DEF Kinds
  <2> QED BY <1>2, <2>2 DEF NodeSet
<1>5. node.kind = "cast" /\ node.type = target /\ node.args = <<Last(pending)>>
  OBVIOUS
<1>4. Over(pending, node, 1)
  <2>1. 1 \in 0..Len(pending)
    BY <1>0
  <2>3. Len(node.args) = 1 /\ node.args[1] = Last(pending)
    BY <1>5
  <2>4. Len(pending) - 1 + 1 = Len(pending) /\ \A i \in 1..1 : i = 1
    BY <1>0
  <2> HIDE DEF node
  <2> QED BY ONLY <1>0, <2>1, <2>3, <2>4 DEF Over
<1>6. Joins(tree, types, pending, node, target, 1)
  <2>1. node.kind # "leaf" /\ node.kind \notin Binary
    BY <1>5 DEF Binary
  <2> HIDE DEF node
  <2> QED BY <1>2, <1>3, <1>4, <1>5, <2>1 DEF Joins
<1>7. \A n : ~MarksOperand(Append(tree, node), Append(types, target), Len(tree) + 1, n)
  <2>1. Append(tree, node)[Len(tree) + 1] = node
    <3> HIDE DEF node
    <3> QED BY <1>1, <1>3, Appended DEF TreeOK
  <2> HIDE DEF node
  <2> QED BY <1>5, <2>1 DEF MarksOperand
<1>8. /\ phase = "checking" /\ phase' = phase /\ marks' = marks \cup {}
      /\ Exit(node, target, 1)
  BY DEF CheckCast
<1>9. {} \subseteq {Base(n) : n \in 1..Len(tree)}
  OBVIOUS
<1> HIDE DEF node
<1>10. \A n \in 1..Len(tree) :
         Base(n) \in {} <=>
           MarksOperand(Append(tree, node), Append(types, target), Len(tree) + 1, n)
  BY ONLY <1>7
<1> QED BY ONLY ConversionInv, <1>6, <1>8, <1>9, <1>10, ExitHolds

\* An operator's marks are those said of its node.
LEMMA OperandsMarked ==
  ASSUME NEW kind \in Binary, NEW a \in Nodes, NEW b \in Nodes,
         NEW tr2, NEW ty2, NEW m, tr2[m].kind = kind, tr2[m].args[1] = a, tr2[m].args[2] = b,
         \A n \in Nodes : ty2[n] = types[n]
  PROVE  /\ OperandMarks(kind, a, b) \subseteq {Base(n) : n \in Nodes}
         /\ \A n \in Nodes : Base(n) \in OperandMarks(kind, a, b) <=> MarksOperand(tr2, ty2, m, n)
<1>0. ty2[a] = types[a] /\ ty2[b] = types[b]
  OBVIOUS
<1>1. CASE kind = "add" /\ Concatenates(types[a], types[b])
  <2>1. OperandMarks(kind, a, b) = {Base(n) : n \in {h \in {a, b} : types[h] # "string"}}
    BY <1>1 DEF OperandMarks
  <2>2. \A n \in Nodes : MarksOperand(tr2, ty2, m, n) <=> n \in {a, b} /\ types[n] # "string"
    BY <1>0, <1>1 DEF MarksOperand
  <2>3. \A n : Base(n) \in OperandMarks(kind, a, b) <=> n \in {a, b} /\ types[n] # "string"
    BY <2>1, Contexts
  <2> QED BY <2>1, <2>2, <2>3
<1>2. CASE kind = "if" /\ Compatible(types[a], types[b]) = "mark"
  <2>1. OperandMarks(kind, a, b) = {Base(b)}
    BY <1>2 DEF OperandMarks
  <2>2. \A n \in Nodes : MarksOperand(tr2, ty2, m, n) <=> n = b
    BY <1>0, <1>2 DEF MarksOperand
  <2> QED BY <2>1, <2>2, Contexts
<1>3. CASE kind = "if" /\ Compatible(types[a], types[b]) = "no" /\ Compatible(types[b], types[a]) = "mark"
  <2>1. OperandMarks(kind, a, b) = {Base(a)}
    BY <1>3 DEF OperandMarks
  <2>2. \A n \in Nodes : MarksOperand(tr2, ty2, m, n) <=> n = a
    BY <1>0, <1>3 DEF MarksOperand
  <2> QED BY <2>1, <2>2, Contexts
<1>4. CASE /\ ~(kind = "add" /\ Concatenates(types[a], types[b]))
           /\ ~(kind = "if" /\ Compatible(types[a], types[b]) = "mark")
           /\ ~(kind = "if" /\ Compatible(types[a], types[b]) = "no"
                  /\ Compatible(types[b], types[a]) = "mark")
  <2>1. OperandMarks(kind, a, b) = {}
    BY <1>4 DEF OperandMarks
  <2>2. \A n \in Nodes : ~MarksOperand(tr2, ty2, m, n)
    BY <1>0, <1>4 DEF MarksOperand
  <2> QED BY <2>1, <2>2
<1> QED BY <1>1, <1>2, <1>3, <1>4

\* The type an operator's check finds is a type.
LEMMA CheckedTypes ==
  ASSUME NEW kind \in Binary, NEW l \in Types, NEW r \in Types,
         CheckedType(kind, l, r) # "error"
  PROVE  CheckedType(kind, l, r) \in Types
<1>1. "string" \in Types
  BY DEF Types
<1> QED BY <1>1 DEF CheckedType, Binary

\* An operator takes the two nodes that wait, and marks those its check asks
\* for as strings.
LEMMA OperatorHolds ==
  ASSUME ConversionInv, NEW kind \in Binary, CheckOperator(kind) PROVE ConversionInv'
<1>1. TreeOK(tree, types, pending)
  BY DEF ConversionInv
<1>0. pending \in Seq(Nat) /\ Len(pending) \in Nat /\ Len(pending) >= 2 /\ phase = "checking"
      /\ DOMAIN pending = 1..Len(pending)
  BY <1>1 DEF TreeOK, CheckOperator
<1>a. PICK a : a = pending[Len(pending) - 1]
  OBVIOUS
<1>b. PICK b : b = pending[Len(pending)]
  OBVIOUS
<1>t. PICK t : t = CheckedType(kind, types[a], types[b])
  OBVIOUS
<1>n. PICK node : node = [kind |-> kind, type |-> t, args |-> <<a, b>>]
  OBVIOUS
<1>2. a \in Nodes /\ b \in Nodes /\ a \in Nat /\ b \in Nat /\ types[a] \in Types /\ types[b] \in Types
  <2>1. Len(pending) - 1 \in DOMAIN pending /\ Len(pending) \in DOMAIN pending
    BY <1>0
  <2>2. a \in Nodes /\ b \in Nodes
    BY <1>1, <1>a, <1>b, <2>1 DEF TreeOK, Holders, Nodes
  <2>3. types \in Seq(Types) /\ Nodes = 1..Len(types)
    BY <1>1 DEF TreeOK, Nodes
  <2>4. \A n \in Nodes : n \in Nat /\ types[n] \in Types
    BY <2>3
  <2> QED BY <2>2, <2>4
<1>3. IF t = "error" THEN Reject
      ELSE /\ Exit([kind |-> kind, type |-> t, args |-> <<a, b>>], t, 2)
           /\ marks' = marks \cup OperandMarks(kind, a, b)
           /\ UNCHANGED phase
  BY <1>a, <1>b, <1>t DEF CheckOperator
<1>4. CASE t = "error"
  BY <1>0, <1>3, <1>4, RejectHolds
<1>5. CASE t # "error"
  <2>1. Exit(node, t, 2) /\ marks' = marks \cup OperandMarks(kind, a, b) /\ phase' = phase
    BY <1>3, <1>5, <1>n
  <2>2. t \in Types
    BY <1>2, <1>5, <1>t, CheckedTypes
  <2>3. <<a, b>> \in Seq(Nat) /\ kind \in Kinds /\ kind # "leaf" /\ kind # "cast"
    BY <1>2 DEF Kinds, Binary
  <2>4. node \in NodeSet
    BY <1>n, <2>2, <2>3 DEF NodeSet
  <2>5. node.kind = kind /\ node.args[1] = a /\ node.args[2] = b /\ Len(node.args) = 2
    BY <1>n
  <2>6. Over(pending, node, 2)
    <3>1. 2 \in 0..Len(pending) /\ \A i \in 1..2 : i = 1 \/ i = 2
      BY <1>0
    <3>2. Len(pending) - 2 + 1 = Len(pending) - 1 /\ Len(pending) - 2 + 2 = Len(pending)
      BY <1>0
    <3> QED BY ONLY <1>a, <1>b, <2>5, <3>1, <3>2 DEF Over
  <2>7. Joins(tree, types, pending, node, t, 2)
    BY ONLY <1>t, <2>2, <2>3, <2>4, <2>5, <2>6 DEF Joins
  <2>t. PICK tr2 : tr2 = Append(tree, node)
    OBVIOUS
  <2>y. PICK ty2 : ty2 = Append(types, t)
    OBVIOUS
  <2>8. tr2[Len(tree) + 1] = node /\ \A n \in Nodes : ty2[n] = types[n]
    <3>1. tree \in Seq(NodeSet) /\ types \in Seq(Types) /\ Len(types) = Len(tree)
      BY <1>1 DEF TreeOK
    <3> QED BY <2>t, <2>y, <2>2, <2>4, <3>1, Appended DEF Nodes
  <2>9. /\ OperandMarks(kind, a, b) \subseteq {Base(n) : n \in Nodes}
        /\ \A n \in Nodes :
             Base(n) \in OperandMarks(kind, a, b) <=> MarksOperand(tr2, ty2, Len(tree) + 1, n)
    <3>1. /\ tr2[Len(tree) + 1].kind = kind /\ tr2[Len(tree) + 1].args[1] = a
          /\ tr2[Len(tree) + 1].args[2] = b
      BY <2>5, <2>8
    <3>m. PICK m : m = Len(tree) + 1
      OBVIOUS
    <3>2. /\ tr2[m].kind = kind /\ tr2[m].args[1] = a /\ tr2[m].args[2] = b
          /\ \A n \in Nodes : ty2[n] = types[n]
      BY ONLY <2>8, <3>1, <3>m
    <3>3. kind \in Binary /\ a \in Nodes /\ b \in Nodes
      BY <1>2
    <3>4. /\ OperandMarks(kind, a, b) \subseteq {Base(n) : n \in Nodes}
          /\ \A n \in Nodes : Base(n) \in OperandMarks(kind, a, b) <=> MarksOperand(tr2, ty2, m, n)
      BY ONLY <3>2, <3>3, OperandsMarked
    <3> QED BY ONLY <3>4, <3>m
  <2>10. PICK new : new = OperandMarks(kind, a, b)
    OBVIOUS
  <2>11. /\ new \subseteq {Base(n) : n \in 1..Len(tree)}
         /\ \A n \in 1..Len(tree) :
              Base(n) \in new <=>
                MarksOperand(Append(tree, node), Append(types, t), Len(tree) + 1, n)
    BY ONLY <2>t, <2>y, <2>9, <2>10 DEF Nodes
  <2> QED BY ONLY ConversionInv, <1>0, <2>1, <2>7, <2>10, <2>11, ExitHolds
<1> QED BY <1>4, <1>5

-----------------------------------------------------------------------------
(* What the nodes mean: the recursive definition defines.                  *)

\* A set of numbers that is not empty has a least.
LEMMA LeastExists ==
  ASSUME NEW S \in SUBSET Nat, S # {}
  PROVE  \E m \in S : \A s \in S : m <= s
<1> DEFINE R == OpToRel(<, Nat)
<1>1. IsWellFoundedOn(R, Nat)
  BY NatLessThanWellFounded
<1>2. \A i, j \in Nat : i < j => <<i, j>> \in R
  BY DEF OpToRel
<1>3. \E m \in S : \A s \in S : ~(<<s, m>> \in R)
  <2> HIDE DEF R
  <2> QED BY <1>1, WFMin
<1> HIDE DEF R
<1>4. PICK m \in S : \A s \in S : ~(<<s, m>> \in R)
  BY <1>3
<1>5. \A s \in S : ~(s < m)
  BY <1>2, <1>4
<1> QED BY <1>5

\* A node's meaning depends on those of its operands alone.
LEMMA MeaningLocal ==
  ASSUME TreeOK(tree, types, pending), NEW n \in Nodes, NEW f, NEW g,
         \A m \in 1..(n - 1) : f[m] = g[m]
  PROVE  NodeMeaning(f, n) = NodeMeaning(g, n)
<1>1. /\ tree[n].kind = "cast" => tree[n].args[1] \in 1..(n - 1)
      /\ tree[n].kind \in Binary => tree[n].args[1] \in 1..(n - 1) /\ tree[n].args[2] \in 1..(n - 1)
  <2>1. tree \in Seq(NodeSet) /\ types \in Seq(Types) /\ Len(types) = Len(tree)
        /\ n \in 1..Len(tree) /\ NodeOK(tree, types, n)
    BY DEF TreeOK, Nodes
  <2> QED BY ONLY <2>1, Operated
<1>2. /\ tree[n].kind = "cast" => f[tree[n].args[1]] = g[tree[n].args[1]]
      /\ tree[n].kind \in Binary => f[tree[n].args[1]] = g[tree[n].args[1]]
                                    /\ f[tree[n].args[2]] = g[tree[n].args[2]]
  BY <1>1
<1>3. tree[n].kind \in Kinds
  <2>1. tree \in Seq(NodeSet) /\ n \in 1..Len(tree)
    BY DEF TreeOK, Nodes
  <2>2. tree[n] \in NodeSet
    BY ONLY <2>1
  <2> QED BY <2>2 DEF NodeSet
<1>4. CASE tree[n].kind = "leaf"
  BY <1>4 DEF NodeMeaning, Binary
<1>5. CASE tree[n].kind = "cast"
  BY <1>2, <1>5 DEF NodeMeaning, Binary
<1>6. CASE tree[n].kind \in Binary
  BY <1>2, <1>6 DEF NodeMeaning, Binary
<1> QED BY <1>3, <1>4, <1>5, <1>6 DEF Kinds

\* Meaning is what its definition says.
LEMMA MeaningUnfolds ==
  ASSUME TreeOK(tree, types, pending)
  PROVE  \A n \in Nodes : Meaning[n] = NodeMeaning(Meaning, n)
<1>0. Len(tree) \in Nat /\ Nodes = 1..Len(tree)
  BY DEF TreeOK, Nodes
<1> DEFINE Upto(k) == \E g : \A n \in 1..k : g[n] = NodeMeaning(g, n)
           S == {k \in 0..Len(tree) : ~Upto(k)}
<1>1. S = {}
  <2> SUFFICES ASSUME S # {} PROVE FALSE
    OBVIOUS
  <2>1. S \in SUBSET Nat
    BY <1>0
  <2>2. PICK k \in S : \A s \in S : k <= s
    <3> HIDE DEF S
    <3> QED BY ONLY S # {}, <2>1, LeastExists
  <2>3. k \in 0..Len(tree) /\ ~Upto(k)
    OBVIOUS
  <2>4. k # 0
    <3>1. 1..0 = {}
      OBVIOUS
    <3>2. Upto(0)
      BY ONLY <3>1
    <3> QED BY <2>3, <3>2
  <2>5. k - 1 \in 0..Len(tree) /\ k - 1 \notin S
    <3>1. k - 1 \in 0..Len(tree) /\ ~(k <= k - 1)
      BY ONLY <1>0, <2>3, <2>4
    <3> QED BY ONLY <2>2, <3>1
  <2>6. Upto(k - 1)
    BY <2>5
  <2>7. PICK f : \A n \in 1..(k - 1) : f[n] = NodeMeaning(f, n)
    BY <2>6
  <2>g. PICK g : g = [n \in 1..k |-> IF n = k THEN NodeMeaning(f, k) ELSE f[n]]
    OBVIOUS
  <2>8. g[k] = NodeMeaning(f, k) /\ \A n \in 1..(k - 1) : g[n] = f[n]
    BY <1>0, <2>3, <2>4, <2>g
  <2>9. \A n \in 1..k : NodeMeaning(g, n) = NodeMeaning(f, n)
    <3> TAKE n \in 1..k
    <3>1. n \in Nodes
      BY <1>0, <2>3
    <3>2. \A m \in 1..(n - 1) : m \in 1..(k - 1)
      BY <1>0, <2>3
    <3>3. \A m \in 1..(n - 1) : g[m] = f[m]
      BY <2>8, <3>2
    <3> QED BY ONLY TreeOK(tree, types, pending), <3>1, <3>3, MeaningLocal
  <2>10. \A n \in 1..k : n = k \/ n \in 1..(k - 1)
    BY <1>0, <2>3
  <2>11. \A n \in 1..k : g[n] = NodeMeaning(g, n)
    BY ONLY <2>7, <2>8, <2>9, <2>10
  <2> QED BY <2>3, <2>11
<1>2. Upto(Len(tree))
  BY <1>0, <1>1
<1>3. PICK f : \A n \in Nodes : f[n] = NodeMeaning(f, n)
  BY <1>0, <1>2
<1> HIDE DEF Upto, S
<1>g. PICK g : g = [n \in Nodes |-> f[n]]
  OBVIOUS
<1>4. \A n \in Nodes : NodeMeaning(g, n) = NodeMeaning(f, n)
  <2> TAKE n \in Nodes
  <2>1. \A m \in 1..(n - 1) : g[m] = f[m]
    <3>1. \A m \in 1..(n - 1) : m \in Nodes
      BY <1>0
    <3> QED BY <1>g, <3>1
  <2> QED BY ONLY TreeOK(tree, types, pending), n \in Nodes, <2>1, MeaningLocal
<1>5. g = [n \in Nodes |-> NodeMeaning(g, n)]
  BY ONLY <1>3, <1>4, <1>g
<1>6. Meaning = [n \in Nodes |-> NodeMeaning(Meaning, n)]
  BY ONLY <1>5 DEF Meaning
<1> QED BY ONLY <1>6

\* The machine's states are those of any trace of its code.
LEMMA RunIsTraced ==
  ASSUME Shapes, NEW T, Traces(T, code)
  PROVE  Run[Len(code)] = T[Len(code)]
<1>0. Len(code) \in Nat
  BY DEF Shapes
<1>g. PICK g : g = [i \in 0..Len(code) |-> T[i]]
  OBVIOUS
<1>1. \A i \in 0..Len(code) : T[i] = IF i = 0 THEN Start ELSE Step(T[i - 1], code[i])
  <2> TAKE i \in 0..Len(code)
  <2>1. i = 0 \/ i \in 1..Len(code)
    BY <1>0
  <2>2. i \in 1..Len(code) => i # 0
    BY <1>0
  <2> QED BY <2>1, <2>2 DEF Traces
<1>2. g = [i \in 0..Len(code) |-> IF i = 0 THEN Start ELSE Step(g[i - 1], code[i])]
  <2>1. \A i \in 0..Len(code) : i # 0 => i - 1 \in 0..Len(code)
    BY <1>0
  <2>2. \A i \in 0..Len(code) : i # 0 => g[i - 1] = T[i - 1]
    BY <1>g, <2>1
  <2> QED BY ONLY <1>1, <1>g, <2>2
<1>3. Run = [i \in 0..Len(code) |-> IF i = 0 THEN Start ELSE Step(Run[i - 1], code[i])]
  BY ONLY <1>2 DEF Run, Start
<1> DEFINE S == {i \in 0..Len(code) : Run[i] # g[i]}
<1>4. S = {}
  <2> SUFFICES ASSUME S # {} PROVE FALSE
    OBVIOUS
  <2>1. S \in SUBSET Nat
    BY <1>0
  <2>2. PICK k \in S : \A s \in S : k <= s
    <3> HIDE DEF S
    <3> QED BY ONLY S # {}, <2>1, LeastExists
  <2>3. k \in 0..Len(code) /\ Run[k] # g[k]
    OBVIOUS
  <2>4. k # 0
    <3>1. 0 \in 0..Len(code)
      BY <1>0
    <3>2. Run[0] = Start /\ g[0] = Start
      BY ONLY <1>2, <1>3, <3>1
    <3> QED BY <2>3, <3>2
  <2>5. Run[k - 1] = g[k - 1]
    <3>1. k - 1 \in 0..Len(code) /\ ~(k <= k - 1)
      BY ONLY <1>0, <2>3, <2>4
    <3> QED BY <2>2, <3>1
  <2>6. Run[k] = Step(Run[k - 1], code[k]) /\ g[k] = Step(g[k - 1], code[k])
    BY ONLY <1>2, <1>3, <2>3, <2>4
  <2> QED BY ONLY <2>3, <2>5, <2>6
<1>5. Len(code) \in 0..Len(code)
  BY <1>0
<1> HIDE DEF S
<1>6. Run[Len(code)] = g[Len(code)]
  <2>1. \A i \in 0..Len(code) : Run[i] = g[i]
    BY ONLY <1>4 DEF S
  <2> QED BY ONLY <1>5, <2>1
<1> QED BY ONLY <1>5, <1>6, <1>g

-----------------------------------------------------------------------------
(* Which handlers throw.                                                   *)

\* What the type checker knows of the operator at node n.
LEMMA Operators ==
  ASSUME TreeOK(tree, types, pending), NEW n \in Nodes
  PROVE  /\ tree[n].kind \in Kinds /\ types[n] \in Types
         /\ \A m : Child(tree, n, m) <=> m \in Operands(n)
         /\ tree[n].kind = "leaf" => Operands(n) = {}
         /\ tree[n].kind = "cast" =>
              /\ tree[n].type \in Casts /\ types[n] = tree[n].type
              /\ Operands(n) = {tree[n].args[1]}
              /\ tree[n].args[1] \in Nodes /\ types[tree[n].args[1]] \in Types
         /\ tree[n].kind \in Binary =>
              /\ Operands(n) = {tree[n].args[1], tree[n].args[2]}
              /\ tree[n].args[1] \in Nodes /\ types[tree[n].args[1]] \in Types
              /\ tree[n].args[2] \in Nodes /\ types[tree[n].args[2]] \in Types
              /\ tree[n].args[1] # tree[n].args[2]
              /\ types[n] = CheckedType(tree[n].kind, types[tree[n].args[1]],
                                        types[tree[n].args[2]])
<1>1. tree \in Seq(NodeSet) /\ types \in Seq(Types) /\ Len(types) = Len(tree)
      /\ n \in 1..Len(tree) /\ NodeOK(tree, types, n)
  BY DEF TreeOK, Nodes
<1>2. \A m \in Nodes : types[m] \in Types
  <2>1. Nodes = 1..Len(types)
    BY <1>1 DEF Nodes
  <2> QED BY ONLY <1>1, <2>1
<1>3. tree[n] \in NodeSet
  BY ONLY <1>1
<1>4. tree[n].kind \in Kinds /\ types[n] \in Types
  BY <1>2, <1>3 DEF NodeSet
<1>5. \A m : Child(tree, n, m) <=> m \in Operands(n)
  BY DEF Child, Operands
<1>6. /\ tree[n].kind = "leaf" => DOMAIN tree[n].args = {}
      /\ tree[n].kind = "cast" => /\ DOMAIN tree[n].args = {1}
                                  /\ tree[n].args[1] \in 1..Len(tree)
      /\ tree[n].kind \in Binary =>
           /\ DOMAIN tree[n].args = {1, 2}
           /\ tree[n].args[1] \in 1..Len(tree) /\ tree[n].args[2] \in 1..Len(tree)
  BY ONLY <1>1, Operated
<1>7. /\ tree[n].kind = "leaf" => Operands(n) = {}
      /\ tree[n].kind = "cast" => Operands(n) = {tree[n].args[1]}
      /\ tree[n].kind \in Binary => Operands(n) = {tree[n].args[1], tree[n].args[2]}
  BY ONLY <1>6 DEF Operands
<1>8. /\ tree[n].kind = "cast" => tree[n].type \in Casts /\ types[n] = tree[n].type
      /\ tree[n].kind \in Binary =>
           /\ tree[n].args[1] # tree[n].args[2]
           /\ types[n] = CheckedType(tree[n].kind, types[tree[n].args[1]], types[tree[n].args[2]])
  BY ONLY <1>1 DEF NodeOK
<1>9. /\ tree[n].kind = "cast" => tree[n].args[1] \in Nodes
      /\ tree[n].kind \in Binary => tree[n].args[1] \in Nodes /\ tree[n].args[2] \in Nodes
  BY ONLY <1>6 DEF Nodes
<1>10. /\ tree[n].kind = "cast" => types[tree[n].args[1]] \in Types
       /\ tree[n].kind \in Binary =>
            types[tree[n].args[1]] \in Types /\ types[tree[n].args[2]] \in Types
  BY ONLY <1>2, <1>9
<1> QED BY ONLY <1>4, <1>5, <1>7, <1>8, <1>9, <1>10

\* The types an operator can be of.
LEMMA OperatorTypes ==
  ASSUME NEW l \in Types, NEW r \in Types
  PROVE  /\ CheckedType("add", l, r) \in Types =>
              \/ CheckedType("add", l, r) = "string" /\ Concatenates(l, r)
              \/ /\ CheckedType("add", l, r) = l /\ l \in Numeric /\ r \in Numeric
                 /\ ~Concatenates(l, r)
         /\ CheckedType("sub", l, r) \in Types =>
              CheckedType("sub", l, r) = l /\ l \in Numeric /\ r \in Numeric
         /\ CheckedType("if", l, r) \in Types =>
              \/ CheckedType("if", l, r) = r /\ Compatible(l, r) # "no"
              \/ /\ CheckedType("if", l, r) = l /\ Compatible(l, r) = "no"
                 /\ Compatible(r, l) # "no"
<1>1. "error" \notin Types
  BY DEF Types, Numeric, Structs, Pointers
<1>2. CheckedType("add", l, r) =
        CASE Concatenates(l, r) -> "string"
          [] l \in Numeric /\ r \in Numeric /\ ~Concatenates(l, r) -> l
          [] OTHER -> "error"
  BY DEF CheckedType
<1>3. CheckedType("sub", l, r) = CASE l \in Numeric /\ r \in Numeric -> l [] OTHER -> "error"
  BY DEF CheckedType
<1>4. CheckedType("if", l, r) =
        CASE Compatible(l, r) # "no" -> r
          [] Compatible(l, r) = "no" /\ Compatible(r, l) # "no" -> l
          [] OTHER -> "error"
  BY DEF CheckedType
<1> QED BY ONLY <1>1, <1>2, <1>3, <1>4

\* What Compatible finds.
LEMMA Compatibles ==
  ASSUME NEW s \in Types, NEW t \in Types
  PROVE  /\ Compatible(s, t) \in {"yes", "mark", "no"}
         /\ Compatible(s, t) = "mark" <=> s # t /\ t = "string" /\ Convertible(s)
         /\ Compatible(s, t) = "yes" <=>
              s = t \/ (s = "nullptr" /\ t \in {"pointer"} \cup Structs)
<1>1. CASE s = t
  <2>1. Compatible(s, t) = "yes"
    BY ONLY <1>1 DEF Compatible
  <2> QED BY <1>1, <2>1
<1>2. CASE s # t /\ t = "string" /\ Convertible(s)
  BY <1>2 DEF Compatible, Structs
<1>3. CASE s # t /\ ~(t = "string" /\ Convertible(s)) /\ s = "nullptr" /\ t \in {"pointer"} \cup Structs
  BY <1>3 DEF Compatible
<1>4. CASE /\ s # t /\ ~(t = "string" /\ Convertible(s))
           /\ ~(s = "nullptr" /\ t \in {"pointer"} \cup Structs)
  BY <1>4 DEF Compatible
<1> QED BY <1>1, <1>2, <1>3, <1>4

\* Which conversions there are not.
LEMMA Conversions ==
  ASSUME NEW t \in Types
  PROVE  /\ ConversionOp(t) = "throw" <=> t \in {"string", "void", "array"}
         /\ ConversionOp(t) \in Ops
BY DEF ConversionOp, Types, Numeric, Structs, Pointers, Ops

\* The operations there are.
LEMMA OperationsOf ==
  ASSUME TreeOK(tree, types, pending), NEW n \in Nodes
  PROVE  /\ Operation(n) \in Ops
         /\ Operation(n) = "throw" <=> types[n] = "void" \/ Uncastable(n)
<1>1. CASE types[n] = "void"
  <2>1. tree[n].kind # "cast"
    BY <1>1, Operators DEF Casts, Numeric
  <2>2. Operation(n) = "throw"
    BY <1>1, <2>1 DEF Operation
  <2> QED BY <1>1, <2>2 DEF Ops
<1>2. CASE types[n] # "void" /\ tree[n].kind = "leaf"
  BY <1>2 DEF Operation, Ops, Uncastable
<1>3. CASE types[n] # "void" /\ tree[n].kind = "cast"
  <2>1. Operation(n) = CastOp(types[tree[n].args[1]], tree[n].type)
    BY <1>3 DEF Operation
  <2>2. types[tree[n].args[1]] \in Types
    BY <1>3, Operators
  <2>3. \A s \in Types : \A t : CastOp(s, t) \in Ops
    <3> SUFFICES ASSUME NEW s \in Types, NEW t PROVE CastOp(s, t) \in Ops
      OBVIOUS
    <3>1. CASE s \in Structs /\ t = "string"
      BY <3>1, Conversions DEF CastOp, Structs
    <3>2. CASE ~(s \in Structs /\ t = "string")
      BY <3>2 DEF CastOp, Ops
    <3> QED BY <3>1, <3>2
  <2> QED BY <1>3, <2>1, <2>2, <2>3 DEF Uncastable
<1>4. CASE types[n] # "void" /\ tree[n].kind \in Binary
  <2> DEFINE l == types[tree[n].args[1]]
             r == types[tree[n].args[2]]
  <2>1. l \in Types /\ r \in Types /\ types[n] = CheckedType(tree[n].kind, l, r) /\ types[n] \in Types
    BY <1>4, Operators
  <2> HIDE DEF l, r
  <2>2. tree[n].kind = "add" => types[n] = "string" \/ types[n] \in Numeric
    BY ONLY <2>1, OperatorTypes
  <2>3. tree[n].kind = "sub" => types[n] \in Numeric
    BY ONLY <2>1, OperatorTypes
  <2>4. ~Uncastable(n)
    BY <1>4 DEF Uncastable, Binary
  <2>5. CASE tree[n].kind = "add"
    BY <1>4, <2>2, <2>4, <2>5 DEF Operation, Ops, Numeric
  <2>6. CASE tree[n].kind = "sub"
    BY <1>4, <2>3, <2>4, <2>6 DEF Operation, Ops, Numeric
  <2>7. CASE tree[n].kind = "if"
    BY <1>4, <2>4, <2>7 DEF Operation, Ops
  <2> QED BY <1>4, <2>5, <2>6, <2>7 DEF Binary
<1>5. tree[n].kind \in Kinds
  BY Operators
<1> QED BY <1>1, <1>2, <1>3, <1>4, <1>5 DEF Kinds

\* The instructions of a node.
LEMMA NodeCodes ==
  ASSUME TreeOK(tree, types, pending), NEW n \in Nodes
  PROVE  /\ NodeCode(n) \in Seq(Instructions)
         /\ Base(n) \in marks =>
              /\ Len(NodeCode(n)) = 2
              /\ NodeCode(n)[1] = Instr(Operation(n), n)
              /\ NodeCode(n)[2] = Instr(ConversionOp(types[n]), n)
         /\ Base(n) \notin marks =>
              Len(NodeCode(n)) = 1 /\ NodeCode(n)[1] = Instr(Operation(n), n)
<1>1. Operation(n) \in Ops /\ ConversionOp(types[n]) \in Ops /\ n \in Nat
  <2>1. types[n] \in Types
    BY Operators
  <2>2. n \in Nat
    BY DEF TreeOK, Nodes
  <2> QED BY <2>1, <2>2, OperationsOf, Conversions
<1>2. Instr(Operation(n), n) \in Instructions /\ Instr(ConversionOp(types[n]), n) \in Instructions
  BY <1>1 DEF Instr, Instructions
<1>3. CASE Base(n) \in marks
  <2>1. NodeCode(n) = <<Instr(Operation(n), n)>> \o <<Instr(ConversionOp(types[n]), n)>>
    BY <1>3 DEF NodeCode, Conversion
  <2>2. \A x, y \in Instructions :
          /\ <<x>> \o <<y>> \in Seq(Instructions) /\ Len(<<x>> \o <<y>>) = 2
          /\ (<<x>> \o <<y>>)[1] = x /\ (<<x>> \o <<y>>)[2] = y
    OBVIOUS
  <2> QED BY <1>2, <1>3, <2>1, <2>2
<1>4. CASE Base(n) \notin marks
  <2>1. NodeCode(n) = <<Instr(Operation(n), n)>> \o <<>>
    BY <1>4 DEF NodeCode, Conversion
  <2>2. \A x \in Instructions :
          /\ <<x>> \o <<>> \in Seq(Instructions) /\ Len(<<x>> \o <<>>) = 1
          /\ (<<x>> \o <<>>)[1] = x
    OBVIOUS
  <2> QED BY <1>2, <1>4, <2>1, <2>2
<1> QED BY <1>3, <1>4

\* A node's handlers throw where its operation or its conversion does.
LEMMA ThrowsWhere ==
  ASSUME TreeOK(tree, types, pending), NEW n \in Nodes
  PROVE  Throws(NodeCode(n)) <=>
           \/ Operation(n) = "throw"
           \/ Base(n) \in marks /\ ConversionOp(types[n]) = "throw"
<1>1. DOMAIN NodeCode(n) = 1..Len(NodeCode(n))
  BY NodeCodes
<1>2. \A x, y : Instr(x, y).op = x
  BY DEF Instr
<1>3. CASE Base(n) \in marks
  <2>1. DOMAIN NodeCode(n) = {1, 2}
    <3>1. Len(NodeCode(n)) = 2
      BY <1>3, NodeCodes
    <3> QED BY ONLY <1>1, <3>1
  <2>2. NodeCode(n)[1].op = Operation(n) /\ NodeCode(n)[2].op = ConversionOp(types[n])
    BY <1>2, <1>3, NodeCodes
  <2> QED BY ONLY <1>3, <2>1, <2>2 DEF Throws
<1>4. CASE Base(n) \notin marks
  <2>1. DOMAIN NodeCode(n) = {1}
    <3>1. Len(NodeCode(n)) = 1
      BY <1>4, NodeCodes
    <3> QED BY ONLY <1>1, <3>1
  <2>2. NodeCode(n)[1].op = Operation(n)
    BY <1>2, <1>4, NodeCodes
  <2> QED BY ONLY <1>4, <2>1, <2>2 DEF Throws
<1> QED BY <1>3, <1>4

\* Of an operand that is marked.
LEMMA Marked ==
  ASSUME TreeOK(tree, types, pending), MarksOK(tree, types, marks),
         NEW n \in Nodes, Base(n) \in marks
  PROVE  \E m \in Nodes :
           /\ n \in Operands(m) /\ tree[m].kind \in {"add", "if"}
           /\ tree[m].kind = "add" =>
                types[n] \notin {"string", "array"} /\ types[m] = "string"
           /\ tree[m].kind = "if" => types[n] = "string" /\ StringBesideOther(m)
<1>1. PICK m \in Nodes : MarksOperand(tree, types, m, n)
  BY DEF MarksOK, Nodes
<1> DEFINE a == tree[m].args[1]
           b == tree[m].args[2]
<1>2. tree[m].kind \in {"add", "if"} /\ n \in {a, b}
  BY <1>1 DEF MarksOperand
<1>3. /\ Operands(m) = {a, b} /\ types[a] \in Types /\ types[b] \in Types /\ types[m] \in Types
      /\ types[m] = CheckedType(tree[m].kind, types[a], types[b])
  BY <1>2, Operators DEF Binary
<1> HIDE DEF a, b
<1>4. CASE tree[m].kind = "add"
  <2>1. Concatenates(types[a], types[b]) /\ types[n] # "string"
    BY <1>1, <1>4 DEF MarksOperand, a, b
  <2>2. types[a] # "array" /\ types[b] # "array"
    BY <2>1 DEF Concatenates, Convertible, HasToString, Structs
  <2>3. types[m] = "string"
    BY <1>3, <1>4, <2>1 DEF CheckedType
  <2> QED BY <1>2, <1>3, <1>4, <2>1, <2>2, <2>3
<1>5. CASE tree[m].kind = "if"
  <2>1. \/ Compatible(types[a], types[b]) = "mark" /\ n = b
        \/ /\ Compatible(types[a], types[b]) = "no"
           /\ Compatible(types[b], types[a]) = "mark" /\ n = a
    BY <1>1, <1>5 DEF MarksOperand, a, b
  <2>2. /\ types[m] = types[b] /\ Compatible(types[a], types[b]) # "no"
        \/ /\ types[m] = types[a] /\ Compatible(types[a], types[b]) = "no"
    BY <1>3, <1>5, OperatorTypes
  <2>3. types[n] = "string" /\ types[m] = "string" /\ \E h \in {a, b} : types[h] # "string"
    BY ONLY <1>3, <2>1, <2>2, Compatibles
  <2> QED BY <1>2, <1>3, <1>5, <2>3 DEF StringBesideOther
<1> QED BY <1>2, <1>4, <1>5

\* A string beside another type in the branches of an if is marked.
LEMMA BesideMarked ==
  ASSUME TreeOK(tree, types, pending), MarksOK(tree, types, marks),
         NEW m \in Nodes, StringBesideOther(m)
  PROVE  \E n \in Operands(m) : n \in Nodes /\ types[n] = "string" /\ Base(n) \in marks
<1> DEFINE a == tree[m].args[1]
           b == tree[m].args[2]
<1>1. tree[m].kind = "if" /\ types[m] = "string" /\ \E h \in Operands(m) : types[h] # "string"
  BY DEF StringBesideOther
<1>2. /\ Operands(m) = {a, b} /\ types[a] \in Types /\ types[b] \in Types /\ types[m] \in Types
      /\ types[m] = CheckedType("if", types[a], types[b]) /\ a \in Nodes /\ b \in Nodes
  BY <1>1, Operators DEF Binary
<1>3. \A n : MarksOperand(tree, types, m, n) <=>
         \/ Compatible(types[a], types[b]) = "mark" /\ n = b
         \/ /\ Compatible(types[a], types[b]) = "no"
            /\ Compatible(types[b], types[a]) = "mark" /\ n = a
  BY <1>1 DEF MarksOperand
<1>4. \A n \in Nodes : MarksOperand(tree, types, m, n) => Base(n) \in marks
  BY DEF MarksOK, Nodes
<1> HIDE DEF a, b
<1>5. \/ types[b] = "string" /\ Compatible(types[a], types[b]) # "no"
      \/ /\ types[a] = "string" /\ Compatible(types[a], types[b]) = "no"
         /\ Compatible(types[b], types[a]) # "no"
  BY ONLY <1>1, <1>2, OperatorTypes
<1>6. types[a] # "string" \/ types[b] # "string"
  BY ONLY <1>1, <1>2
<1>7. "string" \notin {"pointer"} \cup Structs
  BY DEF Structs
<1>8. CASE types[b] = "string" /\ Compatible(types[a], types[b]) # "no"
  <2>1. CASE types[a] = "string"
    BY <1>6, <1>8, <2>1
  <2>2. CASE types[a] # "string"
    <3>1. Compatible(types[a], types[b]) = "mark"
      BY ONLY <1>2, <1>7, <1>8, <2>2, Compatibles
    <3> QED BY <1>2, <1>3, <1>4, <1>8, <3>1
  <2> QED BY <2>1, <2>2
<1>9. CASE /\ types[a] = "string" /\ Compatible(types[a], types[b]) = "no"
           /\ Compatible(types[b], types[a]) # "no"
  <2>1. types[b] # "string"
    BY <1>6, <1>9
  <2>2. Compatible(types[b], types[a]) = "mark"
    BY ONLY <1>2, <1>7, <1>9, <2>1, Compatibles
  <2> QED BY <1>2, <1>3, <1>4, <1>9, <2>2
<1> QED BY <1>5, <1>8, <1>9

\* The expressions the generator does not survive.
LEMMA AbortsWhere ==
  ASSUME TreeOK(tree, types, pending), MarksOK(tree, types, marks)
  PROVE  (\E n \in Nodes : Throws(NodeCode(n))) <=>
           \E n \in Nodes : types[n] = "void" \/ Uncastable(n) \/ StringBesideOther(n)
<1>1. ASSUME NEW n \in Nodes, Throws(NodeCode(n))
      PROVE  \E m \in Nodes : types[m] = "void" \/ Uncastable(m) \/ StringBesideOther(m)
  <2>1. CASE Operation(n) = "throw"
    BY <2>1, OperationsOf
  <2>2. CASE Base(n) \in marks /\ ConversionOp(types[n]) = "throw"
    <3>1. types[n] \in Types
      BY Operators
    <3>2. types[n] \in {"string", "void", "array"}
      BY <2>2, <3>1, Conversions
    <3>3. PICK m \in Nodes :
           /\ n \in Operands(m) /\ tree[m].kind \in {"add", "if"}
           /\ tree[m].kind = "add" =>
                types[n] \notin {"string", "array"} /\ types[m] = "string"
           /\ tree[m].kind = "if" => types[n] = "string" /\ StringBesideOther(m)
      BY <2>2, Marked
    <3>4. types[n] = "void" \/ StringBesideOther(m)
      BY ONLY <3>2, <3>3
    <3> QED BY <3>4
  <2> QED BY <1>1, <2>1, <2>2, ThrowsWhere
<1>2. ASSUME NEW n \in Nodes, types[n] = "void" \/ Uncastable(n)
      PROVE  Throws(NodeCode(n))
  BY <1>2, OperationsOf, ThrowsWhere
<1>3. ASSUME NEW m \in Nodes, StringBesideOther(m)
      PROVE  \E n \in Nodes : Throws(NodeCode(n))
  <2>1. PICK n \in Operands(m) : n \in Nodes /\ types[n] = "string" /\ Base(n) \in marks
    BY <1>3, BesideMarked
  <2>2. "string" \in Types
    BY DEF Types
  <2>3. ConversionOp(types[n]) = "throw"
    BY <2>1, <2>2, Conversions
  <2> QED BY <2>1, <2>3, ThrowsWhere
<1> QED BY <1>1, <1>2, <1>3

-----------------------------------------------------------------------------
(* The machine.                                                            *)

\* What the instructions that leave the use alone pop and push.
Does(i, pops, x, y, pushed) ==
  Pops(i) = pops /\ Pushes(i, x, y) = pushed

\* What each instruction pops and pushes.
LEMMA Table ==
  \A i, x, y :
    /\ i.op = "load" => Does(i, <<>>, x, y,
            << <<Sort(types[i.node]), <<"leaf", i.node>> >> >>)
    /\ i.op = "nothing" => Does(i, <<>>, x, y,
            <<>>)
    /\ i.op = "getstatic out" => Does(i, <<>>, x, y,
            <<Out>>)
    /\ i.op = "concat" => Does(i, <<"string", "string">>, x, y,
            << <<"string", <<"add", x, y>> >> >>)
    /\ i.op = "iadd" => Does(i, <<"I", "I">>, x, y,
            << <<"I", <<"add", x, y>> >> >>)
    /\ i.op = "isub" => Does(i, <<"I", "I">>, x, y,
            << <<"I", <<"sub", x, y>> >> >>)
    /\ i.op = "fadd" => Does(i, <<"F", "F">>, x, y,
            << <<"F", <<"add", x, y>> >> >>)
    /\ i.op = "fsub" => Does(i, <<"F", "F">>, x, y,
            << <<"F", <<"sub", x, y>> >> >>)
    /\ i.op = "select" => Does(i, <<Sort(types[i.node]), Sort(types[i.node])>>, x, y,
            << <<Sort(types[i.node]), <<"if", x, y>> >> >>)
    /\ i.op = "i2f" => Does(i, <<"I">>, x, y,
            << <<"F", <<"i2f", y>> >> >>)
    /\ i.op = "f2i" => Does(i, <<"F">>, x, y,
            << <<"I", <<"f2i", y>> >> >>)
    /\ i.op = "identityHashCode" => Does(i, <<Sort(types[tree[i.node].args[1]])>>, x, y,
            << <<"I", <<"identityHashCode", y>> >> >>)
    /\ i.op = "Integer.parseInt" => Does(i, <<"string">>, x, y,
            << <<"I", <<"parse", "int", y>> >> >>)
    /\ i.op = "Float.parseFloat" => Does(i, <<"string">>, x, y,
            << <<"F", <<"parse", "float", y>> >> >>)
    /\ i.op = "Boolean.parseBoolean" => Does(i, <<"string">>, x, y,
            << <<"I", <<"parse", "bool", y>> >> >>)
    /\ i.op = "Integer.toString" => Does(i, <<"I">>, x, y,
            << <<"string", AsString(Printed(i), y)>> >>)
    /\ i.op = "Float.toString" => Does(i, <<"F">>, x, y,
            << <<"string", AsString(Printed(i), y)>> >>)
    /\ i.op = "Boolean.toString" => Does(i, <<"I">>, x, y,
            << <<"string", AsString(Printed(i), y)>> >>)
    /\ i.op = "struct.$toString" => Does(i, <<"struct">>, x, y,
            << <<"string", AsString(Printed(i), y)>> >>)
    /\ i.op = "Object.toString" => Does(i, <<Sort(types[i.node])>>, x, y,
            << <<"string", AsString(Printed(i), y)>> >>)
<1> TAKE i, x, y
<1>1. i.op = "load" => Does(i, <<>>, x, y,
            << <<Sort(types[i.node]), <<"leaf", i.node>> >> >>)
  BY DEF Does, Pops, Pushes
<1>2. i.op = "nothing" => Does(i, <<>>, x, y,
            <<>>)
  BY DEF Does, Pops, Pushes
<1>3. i.op = "getstatic out" => Does(i, <<>>, x, y,
            <<Out>>)
  BY DEF Does, Pops, Pushes, Out
<1>4. i.op = "concat" => Does(i, <<"string", "string">>, x, y,
            << <<"string", <<"add", x, y>> >> >>)
  BY DEF Does, Pops, Pushes
<1>5. i.op = "iadd" => Does(i, <<"I", "I">>, x, y,
            << <<"I", <<"add", x, y>> >> >>)
  BY DEF Does, Pops, Pushes
<1>6. i.op = "isub" => Does(i, <<"I", "I">>, x, y,
            << <<"I", <<"sub", x, y>> >> >>)
  BY DEF Does, Pops, Pushes
<1>7. i.op = "fadd" => Does(i, <<"F", "F">>, x, y,
            << <<"F", <<"add", x, y>> >> >>)
  BY DEF Does, Pops, Pushes
<1>8. i.op = "fsub" => Does(i, <<"F", "F">>, x, y,
            << <<"F", <<"sub", x, y>> >> >>)
  BY DEF Does, Pops, Pushes
<1>9. i.op = "select" => Does(i, <<Sort(types[i.node]), Sort(types[i.node])>>, x, y,
            << <<Sort(types[i.node]), <<"if", x, y>> >> >>)
  BY DEF Does, Pops, Pushes
<1>10. i.op = "i2f" => Does(i, <<"I">>, x, y,
            << <<"F", <<"i2f", y>> >> >>)
  BY DEF Does, Pops, Pushes
<1>11. i.op = "f2i" => Does(i, <<"F">>, x, y,
            << <<"I", <<"f2i", y>> >> >>)
  BY DEF Does, Pops, Pushes
<1>12. i.op = "identityHashCode" => Does(i, <<Sort(types[tree[i.node].args[1]])>>, x, y,
            << <<"I", <<"identityHashCode", y>> >> >>)
  BY DEF Does, Pops, Pushes
<1>13. i.op = "Integer.parseInt" => Does(i, <<"string">>, x, y,
            << <<"I", <<"parse", "int", y>> >> >>)
  BY DEF Does, Pops, Pushes
<1>14. i.op = "Float.parseFloat" => Does(i, <<"string">>, x, y,
            << <<"F", <<"parse", "float", y>> >> >>)
  BY DEF Does, Pops, Pushes
<1>15. i.op = "Boolean.parseBoolean" => Does(i, <<"string">>, x, y,
            << <<"I", <<"parse", "bool", y>> >> >>)
  BY DEF Does, Pops, Pushes
<1>16. i.op = "Integer.toString" => Does(i, <<"I">>, x, y,
            << <<"string", AsString(Printed(i), y)>> >>)
  BY DEF Does, Pops, Pushes
<1>17. i.op = "Float.toString" => Does(i, <<"F">>, x, y,
            << <<"string", AsString(Printed(i), y)>> >>)
  BY DEF Does, Pops, Pushes
<1>18. i.op = "Boolean.toString" => Does(i, <<"I">>, x, y,
            << <<"string", AsString(Printed(i), y)>> >>)
  BY DEF Does, Pops, Pushes
<1>19. i.op = "struct.$toString" => Does(i, <<"struct">>, x, y,
            << <<"string", AsString(Printed(i), y)>> >>)
  BY DEF Does, Pops, Pushes
<1>20. i.op = "Object.toString" => Does(i, <<Sort(types[i.node])>>, x, y,
            << <<"string", AsString(Printed(i), y)>> >>)
  BY DEF Does, Pops, Pushes
<1> QED BY ONLY <1>1, <1>2, <1>3, <1>4, <1>5, <1>6, <1>7, <1>8, <1>9, <1>10, <1>11, <1>12, <1>13, <1>14, <1>15, <1>16, <1>17, <1>18, <1>19, <1>20

\* An instruction of an expression, which is never a fault of its own.
Plain(i) == i.op \notin {"mislaid", "bare.$toString"} /\ i.op # use.kind

\* Sequences of none, one and two.
LEMMA SmallSequences ==
  /\ \A S : <<>> \in Seq(S)
  /\ Len(<<>>) = 0 /\ 1..0 = {} /\ DOMAIN <<>> = {}
  /\ <<>> \o <<>> = <<>>
  /\ \A x : Append(<<>>, x) = <<x>>
  /\ \A x : <<x>> \o <<>> = <<x>>
  /\ \A x, y : Append(<<x>>, y) = <<x, y>>
<1>1. \A S : <<>> \in Seq(S)
  OBVIOUS
<1>2. Len(<<>>) = 0 /\ 1..0 = {} /\ DOMAIN <<>> = {}
  OBVIOUS
<1>3. <<>> \o <<>> = <<>>
  OBVIOUS
<1>4. \A x : Append(<<>>, x) = <<x>>
  OBVIOUS
<1>5. \A x : <<x>> \o <<>> = <<x>>
  <2> TAKE x
  <2>1. <<x>> \in Seq({x})
    OBVIOUS
  <2>2. \A s \in Seq({x}) : s \o <<>> = s
    OBVIOUS
  <2> QED BY ONLY <2>1, <2>2
<1>6. \A x, y : Append(<<x>>, y) = <<x, y>>
  <2> TAKE x, y
  <2>s. PICK s : s = <<x>>
    OBVIOUS
  <2>1. s \in Seq({x, y}) /\ Len(s) = 1 /\ s[1] = x
    BY <2>s
  <2>t. PICK t : t = Append(s, y)
    OBVIOUS
  <2>2. t \in Seq({x, y}) /\ Len(t) = 2 /\ t[1] = x /\ t[2] = y
    <3>1. y \in {x, y} /\ 1 \in 1..Len(s) /\ Len(s) + 1 = 2
      BY ONLY <2>1
    <3>2. /\ t \in Seq({x, y}) /\ Len(t) = Len(s) + 1 /\ t[Len(s) + 1] = y
          /\ \A i \in 1..Len(s) : t[i] = s[i]
      BY ONLY <2>1, <2>t, <3>1, Appended
    <3> QED BY ONLY <2>1, <3>1, <3>2
  <2>3. t = <<x, y>>
    BY ONLY <2>2
  <2> QED BY ONLY <2>s, <2>t, <2>3
<1> QED BY ONLY <1>1, <1>2, <1>3, <1>4, <1>5, <1>6

\* What is put on top.
LEMMA PutOnTop ==
  ASSUME NEW S, NEW s \in Seq(S), NEW v
  PROVE  /\ s \o <<v>> = Append(s, v) /\ s \o <<>> = s
         /\ SubSeq(s, 1, Len(s)) = s /\ Len(s) \in Nat
<1> DEFINE S2 == S \cup {v}
<1>1. s \in Seq(S2) /\ v \in S2
  OBVIOUS
<1>2. s \o <<v>> = Append(s, v)
  <2> HIDE DEF S2
  <2> QED BY <1>1, AppendIsConcat
<1>3. s \o <<>> = s /\ SubSeq(s, 1, Len(s)) = s /\ Len(s) \in Nat
  OBVIOUS
<1> QED BY <1>2, <1>3

\* The element on top of a stack, and the stack under it.
LEMMA OnTop ==
  ASSUME NEW S, NEW s \in Seq(S), NEW e \in S
  PROVE  /\ Append(s, e) \in Seq(S) /\ Len(Append(s, e)) = Len(s) + 1 /\ Len(s) \in Nat
         /\ SubSeq(Append(s, e), 1, Len(s)) = s /\ Append(s, e)[Len(s) + 1] = e
         /\ Last(Append(s, e)) = e
<1>1. /\ Append(s, e) \in Seq(S) /\ Len(Append(s, e)) = Len(s) + 1 /\ Len(s) \in Nat
      /\ Append(s, e)[Len(s) + 1] = e
  BY Appended
<1>2. SubSeq(Append(s, e), 1, Len(s)) = s
  OBVIOUS
<1>3. Last(Append(s, e)) = e
  BY ONLY <1>1 DEF Last
<1> QED BY <1>1, <1>2, <1>3

\* The machine with nothing received is not the one at fault.
LEMMA HeldFaultless ==
  \A s : Held(s) # Fault /\ Held(s).stack = s /\ Held(s).received = <<"nothing">>
<1> TAKE s
<1>1. Held(s).stack = s /\ Held(s).received = <<"nothing">>
  BY DEF Held
<1>2. Fault.received = <<"fault">>
  BY DEF Fault
<1>3. <<"nothing">> # <<"fault">>
  OBVIOUS
<1> QED BY <1>1, <1>2, <1>3

\* An instruction that pops nothing and pushes one value.
LEMMA PushesOne ==
  ASSUME NEW S, NEW s \in Seq(S), NEW i, NEW v, Plain(i), Pops(i) = <<>>,
         Pushes(i, 0, 0) = <<v>>
  PROVE  Step(Held(s), i) = Held(Append(s, v))
<1>m. PICK m : m = Held(s)
  OBVIOUS
<1>1. m # Fault /\ m.stack = s /\ m.received = <<"nothing">> /\ Len(s) \in Nat
  BY <1>m, HeldFaultless, PutOnTop
<1>2. Len(Pops(i)) = 0
  OBVIOUS
<1>3. SubSeq(m.stack, 1, Len(m.stack) - Len(Pops(i))) = s /\ Len(m.stack) - Len(Pops(i)) = Len(s)
  <2>1. Len(m.stack) - Len(Pops(i)) = Len(s)
    BY <1>1, <1>2
  <2> QED BY <1>1, <2>1, PutOnTop
<1>4. Step(m, i) = [stack |-> s \o <<v>>, received |-> <<"nothing">>]
  <2>1. ~(\/ m = Fault \/ Len(m.stack) - Len(Pops(i)) < 0
          \/ \E j \in 1..Len(Pops(i)) :
               m.stack[Len(m.stack) - Len(Pops(i)) + j][1] # Pops(i)[j]
          \/ i.op \in {"mislaid", "bare.$toString"})
    BY <1>1, <1>2, <1>3 DEF Plain
  <2>2. Step(m, i) = [stack |-> SubSeq(m.stack, 1, Len(m.stack) - Len(Pops(i)))
                                  \o Pushes(i, 0, 0),
                      received |-> m.received]
    BY ONLY Plain(i), <1>2, <2>1 DEF Step, Plain
  <2> QED BY ONLY Pushes(i, 0, 0) = <<v>>, <1>1, <1>3, <2>2
<1> QED BY <1>4, <1>m, PutOnTop DEF Held

\* An instruction that leaves the stack as it is.
LEMMA DoesNothing ==
  ASSUME NEW S, NEW s \in Seq(S), NEW i, Plain(i), Pops(i) = <<>>, Pushes(i, 0, 0) = <<>>
  PROVE  Step(Held(s), i) = Held(s)
<1>m. PICK m : m = Held(s)
  OBVIOUS
<1>1. m # Fault /\ m.stack = s /\ m.received = <<"nothing">> /\ Len(s) \in Nat
  BY <1>m, HeldFaultless, PutOnTop
<1>2. Len(Pops(i)) = 0
  OBVIOUS
<1>3. SubSeq(m.stack, 1, Len(m.stack) - Len(Pops(i))) = s /\ Len(m.stack) - Len(Pops(i)) = Len(s)
  <2>1. Len(m.stack) - Len(Pops(i)) = Len(s)
    BY <1>1, <1>2
  <2> QED BY <1>1, <2>1, PutOnTop
<1>4. Step(m, i) = [stack |-> s \o <<>>, received |-> <<"nothing">>]
  <2>1. ~(\/ m = Fault \/ Len(m.stack) - Len(Pops(i)) < 0
          \/ \E j \in 1..Len(Pops(i)) :
               m.stack[Len(m.stack) - Len(Pops(i)) + j][1] # Pops(i)[j]
          \/ i.op \in {"mislaid", "bare.$toString"})
    BY <1>1, <1>2, <1>3 DEF Plain
  <2>2. Step(m, i) = [stack |-> SubSeq(m.stack, 1, Len(m.stack) - Len(Pops(i)))
                                  \o Pushes(i, 0, 0),
                      received |-> m.received]
    BY ONLY Plain(i), <1>2, <2>1 DEF Step, Plain
  <2> QED BY ONLY Pushes(i, 0, 0) = <<>>, <1>1, <1>3, <2>2
<1> QED BY <1>4, <1>m, PutOnTop DEF Held

\* An instruction that puts a value in the place of the top one.
LEMMA ReplacesOne ==
  ASSUME NEW S, NEW s \in Seq(S), NEW e \in S, NEW i, NEW v, Plain(i), NEW p,
         Pops(i) = <<p>>, e[1] = p, Pushes(i, 0, e[2]) = <<v>>
  PROVE  Step(Held(Append(s, e)), i) = Held(Append(s, v))
<1>m. PICK m : m = Held(Append(s, e))
  OBVIOUS
<1>s. PICK st : st = Append(s, e)
  OBVIOUS
<1>1. /\ m # Fault /\ m.stack = st /\ m.received = <<"nothing">>
      /\ Len(st) = Len(s) + 1 /\ Len(s) \in Nat /\ SubSeq(st, 1, Len(s)) = s
      /\ st[Len(s) + 1] = e /\ Last(st) = e
  BY <1>m, <1>s, HeldFaultless, OnTop, ZenonT(60)
<1>2. Len(Pops(i)) = 1 /\ Pops(i)[1] = p
  OBVIOUS
<1>3. Len(m.stack) - Len(Pops(i)) = Len(s)
  BY ONLY <1>1, <1>2
<1>4. Step(m, i) = [stack |-> s \o <<v>>, received |-> <<"nothing">>]
  <2>1. ~(\/ m = Fault \/ Len(m.stack) - Len(Pops(i)) < 0
          \/ \E j \in 1..Len(Pops(i)) :
               m.stack[Len(m.stack) - Len(Pops(i)) + j][1] # Pops(i)[j]
          \/ i.op \in {"mislaid", "bare.$toString"})
    <3>1. \A j \in 1..Len(Pops(i)) : j = 1
      BY ONLY <1>2
    <3>2. \A j \in 1..Len(Pops(i)) :
            m.stack[Len(m.stack) - Len(Pops(i)) + j][1] = Pops(i)[j]
      BY ONLY e[1] = p, <1>1, <1>2, <1>3, <3>1
    <3>3. ~(Len(m.stack) - Len(Pops(i)) < 0)
      BY ONLY <1>1, <1>3
    <3> QED BY <1>1, <3>2, <3>3 DEF Plain
  <2>2. Step(m, i) = [stack |-> SubSeq(m.stack, 1, Len(m.stack) - Len(Pops(i)))
                                  \o Pushes(i, 0, Last(m.stack)[2]),
                      received |-> m.received]
    BY ONLY Plain(i), <1>2, <2>1 DEF Step, Plain
  <2> QED BY ONLY Pushes(i, 0, e[2]) = <<v>>, <1>1, <1>3, <2>2
<1> QED BY <1>4, <1>m, PutOnTop DEF Held

\* An instruction that puts a value in the place of the top two.
LEMMA ReplacesTwo ==
  ASSUME NEW S, NEW s \in Seq(S), NEW d \in S, NEW e \in S, NEW i, NEW v, Plain(i), NEW p, NEW q,
         Pops(i) = <<p, q>>, d[1] = p, e[1] = q, Pushes(i, d[2], e[2]) = <<v>>
  PROVE  Step(Held(Append(Append(s, d), e)), i) = Held(Append(s, v))
<1>u. PICK u : u = Append(s, d)
  OBVIOUS
<1>s. PICK st : st = Append(u, e)
  OBVIOUS
<1>m. PICK m : m = Held(st)
  OBVIOUS
<1>0. /\ u \in Seq(S) /\ Len(u) = Len(s) + 1 /\ Len(s) \in Nat /\ SubSeq(u, 1, Len(s)) = s
      /\ u[Len(s) + 1] = d
  BY <1>u, OnTop
<1>1. /\ m # Fault /\ m.stack = st /\ m.received = <<"nothing">>
      /\ Len(st) = Len(s) + 2 /\ Last(st) = e /\ st[Len(s) + 2] = e
  <2>1. /\ Len(st) = Len(u) + 1 /\ Last(st) = e /\ st[Len(u) + 1] = e
    BY <1>0, <1>s, OnTop
  <2>2. Len(u) + 1 = Len(s) + 2
    BY <1>0
  <2> QED BY <1>m, <2>1, <2>2, HeldFaultless
<1>a. SubSeq(st, 1, Len(s)) = s /\ st[Len(s) + 1] = d
  <2>1. st[Len(s) + 1] = u[Len(s) + 1]
    BY <1>0, <1>s
  <2>2. SubSeq(st, 1, Len(s)) = SubSeq(u, 1, Len(s))
    BY <1>0, <1>s
  <2> QED BY ONLY <1>0, <2>1, <2>2
<1>2. Len(Pops(i)) = 2 /\ Pops(i)[1] = p /\ Pops(i)[2] = q
  OBVIOUS
<1>3. Len(m.stack) - Len(Pops(i)) = Len(s) /\ Len(m.stack) - 1 = Len(s) + 1
  BY ONLY <1>0, <1>1, <1>2
<1>4. Step(m, i) = [stack |-> s \o <<v>>, received |-> <<"nothing">>]
  <2>1. ~(\/ m = Fault \/ Len(m.stack) - Len(Pops(i)) < 0
          \/ \E j \in 1..Len(Pops(i)) :
               m.stack[Len(m.stack) - Len(Pops(i)) + j][1] # Pops(i)[j]
          \/ i.op \in {"mislaid", "bare.$toString"})
    <3>1. \A j \in 1..Len(Pops(i)) : j = 1 \/ j = 2
      BY ONLY <1>2
    <3>2. \A j \in 1..Len(Pops(i)) :
            m.stack[Len(m.stack) - Len(Pops(i)) + j][1] = Pops(i)[j]
      BY ONLY d[1] = p, e[1] = q, <1>0, <1>1, <1>a, <1>2, <1>3, <3>1
    <3>3. ~(Len(m.stack) - Len(Pops(i)) < 0)
      BY ONLY <1>0, <1>3
    <3> QED BY <1>1, <3>2, <3>3 DEF Plain
  <2>2. Step(m, i) = [stack |-> SubSeq(m.stack, 1, Len(m.stack) - Len(Pops(i)))
                                  \o Pushes(i, m.stack[Len(m.stack) - 1][2], Last(m.stack)[2]),
                      received |-> m.received]
    BY ONLY Plain(i), <1>2, <2>1 DEF Step, Plain
  <2> QED BY ONLY Pushes(i, d[2], e[2]) = <<v>>, <1>1, <1>a, <1>3, <2>2
<1> QED BY <1>4, <1>m, <1>s, <1>u, PutOnTop DEF Held

-----------------------------------------------------------------------------
(* A node's instructions take the values of its operands to its own.       *)

Values == {Out} \cup {Plainly(n) : n \in Nodes} \cup {Stringly(n) : n \in Nodes}

\* The instructions of an expression leave the use's alone.
LEMMA PlainInstructions ==
  ASSUME use.kind \in Calls \cup Statements
  PROVE  \A op \in Ops : \A n :
           /\ Instr(op, n).op = op /\ Instr(op, n).node = n
           /\ op \notin {"mislaid", "bare.$toString"} => Plain(Instr(op, n))
<1>1. \A op, n : Instr(op, n).op = op /\ Instr(op, n).node = n
  BY DEF Instr
<1>2. \A op \in Ops : op # use.kind
  BY DEF Ops, Calls, Statements
<1> QED BY ONLY <1>1, <1>2 DEF Plain

\* The conversion of a value, by what its type says.
LEMMA Converted ==
  ASSUME use.kind \in Calls \cup Statements, NEW n \in Nodes, NEW s \in Seq(Values),
         types[n] \in {"int", "float", "bool", "struct", "pointer"}
  PROVE  Step(Held(Append(s, Plainly(n))), Instr(ConversionOp(types[n]), n))
           = Held(Append(s, Stringly(n)))
<1>i. PICK i : i = Instr(ConversionOp(types[n]), n)
  OBVIOUS
<1>e. Plainly(n) \in Values /\ Plainly(n)[1] = Sort(types[n]) /\ Plainly(n)[2] = Meaning[n]
  BY DEF Values, Plainly
<1>0. /\ types[n] = "int" => ConversionOp(types[n]) = "Integer.toString"
      /\ types[n] = "float" => ConversionOp(types[n]) = "Float.toString"
      /\ types[n] = "bool" => ConversionOp(types[n]) = "Boolean.toString"
      /\ types[n] = "struct" => ConversionOp(types[n]) = "struct.$toString"
      /\ types[n] = "pointer" => ConversionOp(types[n]) = "Object.toString"
  BY DEF ConversionOp, Pointers
<1>1. ConversionOp(types[n]) \in Ops /\ ConversionOp(types[n]) \notin {"mislaid", "bare.$toString"}
  BY <1>0 DEF Ops
<1>2. Plain(i) /\ i.op = ConversionOp(types[n]) /\ i.node = n
  BY <1>i, <1>1, PlainInstructions
<1>3. Printed(i) = types[n]
  <2>1. CASE types[n] = "int"
    BY <1>0, <1>2, <2>1 DEF Printed
  <2>2. CASE types[n] # "int"
    <3>1. i.op # "Integer.toString"
      BY <1>0, <1>2, <2>2
    <3>2. types[n] # "string"
      OBVIOUS
    <3> QED BY ONLY <1>2, <3>1, <3>2 DEF Printed
  <2> QED BY <2>1, <2>2
<1>4. /\ Pops(i) = <<Sort(types[n])>>
      /\ Pushes(i, 0, Meaning[n]) = << <<"string", AsString(Printed(i), Meaning[n])>> >>
  <2>1. Sort("int") = "I" /\ Sort("bool") = "I" /\ Sort("float") = "F" /\ Sort("struct") = "struct"
    BY DEF Sort
  <2>2. CASE types[n] = "int"
    <3>1. i.op = "Integer.toString"
      BY <1>0, <1>2, <2>2
    <3>2. Does(i, <<"I">>, 0, Meaning[n], << <<"string", AsString(Printed(i), Meaning[n])>> >>)
      BY ONLY <3>1, Table
    <3> QED BY ONLY <1>2, <2>1, <2>2, <3>2 DEF Does
  <2>3. CASE types[n] = "float"
    <3>1. i.op = "Float.toString"
      BY <1>0, <1>2, <2>3
    <3>2. Does(i, <<"F">>, 0, Meaning[n], << <<"string", AsString(Printed(i), Meaning[n])>> >>)
      BY ONLY <3>1, Table
    <3> QED BY ONLY <1>2, <2>1, <2>3, <3>2 DEF Does
  <2>4. CASE types[n] = "bool"
    <3>1. i.op = "Boolean.toString"
      BY <1>0, <1>2, <2>4
    <3>2. Does(i, <<"I">>, 0, Meaning[n], << <<"string", AsString(Printed(i), Meaning[n])>> >>)
      BY ONLY <3>1, Table
    <3> QED BY ONLY <1>2, <2>1, <2>4, <3>2 DEF Does
  <2>5. CASE types[n] = "struct"
    <3>1. i.op = "struct.$toString"
      BY <1>0, <1>2, <2>5
    <3>2. Does(i, <<"struct">>, 0, Meaning[n], << <<"string", AsString(Printed(i), Meaning[n])>> >>)
      BY ONLY <3>1, Table
    <3> QED BY ONLY <1>2, <2>1, <2>5, <3>2 DEF Does
  <2>6. CASE types[n] = "pointer"
    <3>1. i.op = "Object.toString"
      BY <1>0, <1>2, <2>6
    <3>2. Does(i, <<Sort(types[i.node])>>, 0, Meaning[n], << <<"string", AsString(Printed(i), Meaning[n])>> >>)
      BY ONLY <3>1, Table
    <3> QED BY ONLY <1>2, <2>1, <2>6, <3>2 DEF Does
  <2> QED BY <2>2, <2>3, <2>4, <2>5, <2>6
<1>5. Pushes(i, 0, Plainly(n)[2]) = <<Stringly(n)>>
  BY <1>e, <1>3, <1>4 DEF Stringly
<1>6. Step(Held(Append(s, Plainly(n))), i) = Held(Append(s, Stringly(n)))
  BY ONLY s \in Seq(Values), <1>e, <1>2, <1>4, <1>5, ReplacesOne
<1> QED BY <1>6, <1>i

\* What the casts do that the properties speak of.
LEMMA CastsOf ==
  ASSUME NEW f \in Types, NEW t \in Casts, CastOp(f, t) # "throw",
         ~(f = "bare" /\ t = "string"), ~(t = "bool" /\ f \notin {"bool", "string"}), NEW x
  PROVE  \/ /\ CastOp(f, t) = "identityHashCode" /\ t = "int"
            /\ CastTerm(f, t, x) = <<"identityHashCode", x>>
         \/ /\ CastOp(f, t) = "struct.$toString" /\ f = "struct" /\ t = "string"
            /\ CastTerm(f, t, x) = AsString(f, x)
         \/ /\ CastOp(f, t) = "i2f" /\ f \in {"int", "bool"} /\ t = "float"
            /\ CastTerm(f, t, x) = <<"i2f", x>>
         \/ /\ CastOp(f, t) = "Integer.toString" /\ f \in {"int", "bool"} /\ t = "string"
            /\ CastTerm(f, t, x) = AsString("int", x)
         \/ /\ CastOp(f, t) = "nothing" /\ Sort(f) = Sort(t)
            /\ CastTerm(f, t, x) = x
         \/ /\ CastOp(f, t) = "f2i" /\ f = "float" /\ t = "int"
            /\ CastTerm(f, t, x) = <<"f2i", x>>
         \/ /\ CastOp(f, t) = "Float.toString" /\ f = "float" /\ t = "string"
            /\ CastTerm(f, t, x) = AsString(f, x)
         \/ /\ CastOp(f, t) = "Integer.parseInt" /\ f = "string" /\ t = "int"
            /\ CastTerm(f, t, x) = <<"parse", "int", x>>
         \/ /\ CastOp(f, t) = "Float.parseFloat" /\ f = "string" /\ t = "float"
            /\ CastTerm(f, t, x) = <<"parse", "float", x>>
         \/ /\ CastOp(f, t) = "Boolean.parseBoolean" /\ f = "string" /\ t = "bool"
            /\ CastTerm(f, t, x) = <<"parse", "bool", x>>
<1>1. t \in {"int", "float", "bool", "string"}
  BY DEF Casts, Numeric
<1>2. CASE f = "int"
  BY <1>1, <1>2 DEF CastOp, CastTerm, Sort, Structs, Pointers
<1>3. CASE f = "bool"
  BY <1>1, <1>3 DEF CastOp, CastTerm, Sort, Structs, Pointers
<1>4. CASE f = "float"
  BY <1>1, <1>4 DEF CastOp, CastTerm, Sort, Structs, Pointers
<1>5. CASE f = "string"
  BY <1>1, <1>5 DEF CastOp, CastTerm, Sort, Structs, Pointers
<1>6. CASE f \in Pointers
  BY <1>1, <1>6 DEF CastOp, CastTerm, Structs, Pointers
<1>7. CASE f = "struct"
  BY <1>1, <1>7 DEF CastOp, CastTerm, Structs, Pointers, ConversionOp
<1>8. CASE f \in {"bare", "void", "array"}
  BY <1>1, <1>8 DEF CastOp, Structs, Pointers
<1> QED BY <1>2, <1>3, <1>4, <1>5, <1>6, <1>7, <1>8 DEF Types, Numeric, Structs

\* What a step of the generator relies on.
Sound ==
  /\ TreeOK(tree, types, pending) /\ MarksOK(tree, types, marks) /\ Fine
  /\ use.kind \in Calls \cup Statements

\* A node's parent is the one.
LEMMA OneParent ==
  ASSUME TreeOK(tree, types, pending), NEW m \in Nodes, NEW n \in Nodes, NEW h,
         h \in Operands(m), h \in Operands(n)
  PROVE  m = n
<1>1. Child(tree, m, h) /\ Child(tree, n, h)
  BY Operators
<1> QED BY <1>1 DEF TreeOK, Holders, Nodes

\* An operand is marked where its parent's check marks it.
LEMMA OperandMark ==
  ASSUME TreeOK(tree, types, pending), MarksOK(tree, types, marks),
         NEW n \in Nodes, NEW h \in Nodes, h \in Operands(n)
  PROVE  Base(h) \in marks <=> MarksOperand(tree, types, n, h)
<1>1. Base(h) \in marks <=> \E m \in Nodes : MarksOperand(tree, types, m, h)
  BY DEF MarksOK, Nodes
<1>2. ASSUME NEW m \in Nodes, MarksOperand(tree, types, m, h) PROVE m = n
  <2>1. tree[m].kind \in Binary /\ h \in {tree[m].args[1], tree[m].args[2]}
    BY <1>2 DEF MarksOperand, Binary
  <2>2. h \in Operands(m)
    BY <2>1, Operators
  <2> QED BY <2>2, OneParent
<1> QED BY <1>1, <1>2

\* A leaf's instruction loads its value.
LEMMA LeafRuns ==
  ASSUME Sound, NEW n \in Nodes, tree[n].kind = "leaf", Operation(n) # "throw",
         NEW s \in Seq(Values)
  PROVE  Step(Held(s), Instr(Operation(n), n)) = Held(Append(s, Plainly(n)))
<1>i. PICK i : i = Instr(Operation(n), n)
  OBVIOUS
<1>1. Operation(n) = "load"
  <2>1. types[n] # "void"
    BY OperationsOf DEF Sound
  <2> QED BY <2>1 DEF Operation
<1>2. Plain(i) /\ i.op = "load" /\ i.node = n
  <2>1. "load" \in Ops
    BY DEF Ops
  <2> QED BY <1>i, <1>1, <2>1, PlainInstructions DEF Sound
<1>3. Does(i, <<>>, 0, 0, << <<Sort(types[i.node]), <<"leaf", i.node>> >> >>)
  BY ONLY <1>2, Table
<1>4. Meaning[n] = <<"leaf", n>>
  BY MeaningUnfolds DEF Sound, NodeMeaning, Binary
<1>5. Pops(i) = <<>> /\ Pushes(i, 0, 0) = <<Plainly(n)>>
  BY ONLY <1>2, <1>3, <1>4 DEF Does, Plainly
<1>6. Step(Held(s), i) = Held(Append(s, Plainly(n)))
  BY ONLY s \in Seq(Values), <1>2, <1>5, PushesOne
<1> QED BY <1>6, <1>i

\* A cast's instruction makes of the operand's value the one the cast means.
LEMMA CastRuns ==
  ASSUME Sound, NEW n \in Nodes, tree[n].kind = "cast", Operation(n) # "throw",
         NEW s \in Seq(Values)
  PROVE  Step(Held(Append(s, Entry(tree[n].args[1]))), Instr(Operation(n), n))
           = Held(Append(s, Plainly(n)))
<1>i. PICK i : i = Instr(Operation(n), n)
  OBVIOUS
<1>a. PICK a : a = tree[n].args[1]
  OBVIOUS
<1>f. PICK f : f = types[a]
  OBVIOUS
<1>t. PICK t : t = types[n]
  OBVIOUS
<1>x. PICK x : x = Meaning[a]
  OBVIOUS
<1>1. /\ a \in Nodes /\ f \in Types /\ t \in Casts /\ t = tree[n].type /\ Operands(n) = {a}
      /\ t # "void"
  <2>1. \A c \in Casts : c # "void"
    BY DEF Casts, Numeric
  <2> QED BY <1>a, <1>f, <1>t, <2>1, Operators DEF Sound
<1>2. Entry(a) = <<Sort(f), x>> /\ Entry(a) \in Values
  <2>1. ~MarksOperand(tree, types, n, a)
    BY DEF MarksOperand
  <2>2. Base(a) \notin marks
    BY <1>1, <2>1, OperandMark DEF Sound
  <2> QED BY <1>1, <1>f, <1>x, <2>2 DEF Entry, Plainly, Values
<1>3. Operation(n) = CastOp(f, t) /\ Operation(n) \in Ops
  BY <1>1, <1>a, <1>f, <1>t, OperationsOf DEF Operation, Sound
<1>4. Meaning[n] = CastTerm(f, t, x)
  <2>1. Meaning[n] = NodeMeaning(Meaning, n)
    BY MeaningUnfolds DEF Sound
  <2>2. NodeMeaning(Meaning, n) = CastTerm(types[tree[n].args[1]], tree[n].type, Meaning[tree[n].args[1]])
    BY DEF NodeMeaning, Binary
  <2> QED BY ONLY <1>1, <1>a, <1>f, <1>x, <2>1, <2>2
<1>5. ~(f = "bare" /\ t = "string")
  <2>1. ~Unprintable(a)
    BY <1>1 DEF Sound, Fine
  <2> QED BY <1>1, <1>f, <2>1 DEF Unprintable
<1>6. ~(t = "bool" /\ f \notin {"bool", "string"})
  <2>1. ~LooseBool(n)
    BY DEF Sound, Fine
  <2> QED BY <1>a, <1>f, <1>t, <2>1 DEF LooseBool
<1>7. i.op = CastOp(f, t) /\ i.node = n
  BY <1>i, <1>3 DEF Instr
<1>8. CastOp(f, t) # "throw"
  BY <1>3
<1>p. Plain(i)
  <2>1. CastOp(f, t) \notin {"mislaid", "bare.$toString"}
    BY ONLY <1>1, <1>5, <1>6, <1>8, CastsOf
  <2> QED BY <1>i, <1>3, <2>1, PlainInstructions DEF Sound
<1>9. Plainly(n) = <<Sort(t), CastTerm(f, t, x)>>
  BY <1>t, <1>4 DEF Plainly
<1>10. \/ /\ CastOp(f, t) = "nothing" /\ Sort(f) = Sort(t) /\ CastTerm(f, t, x) = x
       \/ \E p : Pops(i) = <<p>> /\ p = Sort(f) /\ Pushes(i, 0, x) = <<Plainly(n)>>
  <2>s. /\ Sort("int") = "I" /\ Sort("bool") = "I" /\ Sort("float") = "F"
        /\ Sort("struct") = "struct" /\ Sort("string") = "string"
    BY DEF Sort
  <2>p. Printed(i) = IF i.op = "Integer.toString" THEN "int" ELSE IF t = "string" THEN f ELSE t
    BY <1>7, <1>a, <1>f, <1>t DEF Printed
  <2>1. CASE /\ CastOp(f, t) = "identityHashCode" /\ t = "int"
            /\ CastTerm(f, t, x) = <<"identityHashCode", x>>
    <3>1. i.op = "identityHashCode"
      BY <1>7, <2>1
    <3>2. Does(i, <<Sort(types[tree[i.node].args[1]])>>, 0, x,
               << <<"I", <<"identityHashCode", x>> >> >>)
      BY ONLY <3>1, Table
    <3>3. Pushes(i, 0, x) = <<Plainly(n)>>
      BY ONLY <1>9, <2>s, <2>p, <2>1, <3>1, <3>2 DEF Does
    <3>4. Pops(i) = <<Sort(f)>>
      BY ONLY <1>7, <1>a, <1>f, <2>s, <2>1, <3>2 DEF Does
    <3> QED BY ONLY <3>3, <3>4
  <2>2. CASE /\ CastOp(f, t) = "struct.$toString" /\ f = "struct" /\ t = "string"
            /\ CastTerm(f, t, x) = AsString(f, x)
    <3>1. i.op = "struct.$toString"
      BY <1>7, <2>2
    <3>2. Does(i, <<"struct">>, 0, x,
               << <<"string", AsString(Printed(i), x)>> >>)
      BY ONLY <3>1, Table
    <3>3. Pushes(i, 0, x) = <<Plainly(n)>>
      BY ONLY <1>9, <2>s, <2>p, <2>2, <3>1, <3>2 DEF Does
    <3>4. Pops(i) = <<Sort(f)>>
      BY ONLY <1>7, <1>a, <1>f, <2>s, <2>2, <3>2 DEF Does
    <3> QED BY ONLY <3>3, <3>4
  <2>3. CASE /\ CastOp(f, t) = "i2f" /\ f \in {"int", "bool"} /\ t = "float"
            /\ CastTerm(f, t, x) = <<"i2f", x>>
    <3>1. i.op = "i2f"
      BY <1>7, <2>3
    <3>2. Does(i, <<"I">>, 0, x,
               << <<"F", <<"i2f", x>> >> >>)
      BY ONLY <3>1, Table
    <3>3. Pushes(i, 0, x) = <<Plainly(n)>>
      BY ONLY <1>9, <2>s, <2>p, <2>3, <3>1, <3>2 DEF Does
    <3>4. Pops(i) = <<Sort(f)>>
      BY ONLY <1>7, <1>a, <1>f, <2>s, <2>3, <3>2 DEF Does
    <3> QED BY ONLY <3>3, <3>4
  <2>4. CASE /\ CastOp(f, t) = "Integer.toString" /\ f \in {"int", "bool"} /\ t = "string"
            /\ CastTerm(f, t, x) = AsString("int", x)
    <3>1. i.op = "Integer.toString"
      BY <1>7, <2>4
    <3>2. Does(i, <<"I">>, 0, x,
               << <<"string", AsString(Printed(i), x)>> >>)
      BY ONLY <3>1, Table
    <3>3. Pushes(i, 0, x) = <<Plainly(n)>>
      BY ONLY <1>9, <2>s, <2>p, <2>4, <3>1, <3>2 DEF Does
    <3>4. Pops(i) = <<Sort(f)>>
      BY ONLY <1>7, <1>a, <1>f, <2>s, <2>4, <3>2 DEF Does
    <3> QED BY ONLY <3>3, <3>4
  <2>5. CASE /\ CastOp(f, t) = "f2i" /\ f = "float" /\ t = "int"
            /\ CastTerm(f, t, x) = <<"f2i", x>>
    <3>1. i.op = "f2i"
      BY <1>7, <2>5
    <3>2. Does(i, <<"F">>, 0, x,
               << <<"I", <<"f2i", x>> >> >>)
      BY ONLY <3>1, Table
    <3>3. Pushes(i, 0, x) = <<Plainly(n)>>
      BY ONLY <1>9, <2>s, <2>p, <2>5, <3>1, <3>2 DEF Does
    <3>4. Pops(i) = <<Sort(f)>>
      BY ONLY <1>7, <1>a, <1>f, <2>s, <2>5, <3>2 DEF Does
    <3> QED BY ONLY <3>3, <3>4
  <2>6. CASE /\ CastOp(f, t) = "Float.toString" /\ f = "float" /\ t = "string"
            /\ CastTerm(f, t, x) = AsString(f, x)
    <3>1. i.op = "Float.toString"
      BY <1>7, <2>6
    <3>2. Does(i, <<"F">>, 0, x,
               << <<"string", AsString(Printed(i), x)>> >>)
      BY ONLY <3>1, Table
    <3>3. Pushes(i, 0, x) = <<Plainly(n)>>
      BY ONLY <1>9, <2>s, <2>p, <2>6, <3>1, <3>2 DEF Does
    <3>4. Pops(i) = <<Sort(f)>>
      BY ONLY <1>7, <1>a, <1>f, <2>s, <2>6, <3>2 DEF Does
    <3> QED BY ONLY <3>3, <3>4
  <2>7. CASE /\ CastOp(f, t) = "Integer.parseInt" /\ f = "string" /\ t = "int"
            /\ CastTerm(f, t, x) = <<"parse", "int", x>>
    <3>1. i.op = "Integer.parseInt"
      BY <1>7, <2>7
    <3>2. Does(i, <<"string">>, 0, x,
               << <<"I", <<"parse", "int", x>> >> >>)
      BY ONLY <3>1, Table
    <3>3. Pushes(i, 0, x) = <<Plainly(n)>>
      BY ONLY <1>9, <2>s, <2>p, <2>7, <3>1, <3>2 DEF Does
    <3>4. Pops(i) = <<Sort(f)>>
      BY ONLY <1>7, <1>a, <1>f, <2>s, <2>7, <3>2 DEF Does
    <3> QED BY ONLY <3>3, <3>4
  <2>8. CASE /\ CastOp(f, t) = "Float.parseFloat" /\ f = "string" /\ t = "float"
            /\ CastTerm(f, t, x) = <<"parse", "float", x>>
    <3>1. i.op = "Float.parseFloat"
      BY <1>7, <2>8
    <3>2. Does(i, <<"string">>, 0, x,
               << <<"F", <<"parse", "float", x>> >> >>)
      BY ONLY <3>1, Table
    <3>3. Pushes(i, 0, x) = <<Plainly(n)>>
      BY ONLY <1>9, <2>s, <2>p, <2>8, <3>1, <3>2 DEF Does
    <3>4. Pops(i) = <<Sort(f)>>
      BY ONLY <1>7, <1>a, <1>f, <2>s, <2>8, <3>2 DEF Does
    <3> QED BY ONLY <3>3, <3>4
  <2>9. CASE /\ CastOp(f, t) = "Boolean.parseBoolean" /\ f = "string" /\ t = "bool"
            /\ CastTerm(f, t, x) = <<"parse", "bool", x>>
    <3>1. i.op = "Boolean.parseBoolean"
      BY <1>7, <2>9
    <3>2. Does(i, <<"string">>, 0, x,
               << <<"I", <<"parse", "bool", x>> >> >>)
      BY ONLY <3>1, Table
    <3>3. Pushes(i, 0, x) = <<Plainly(n)>>
      BY ONLY <1>9, <2>s, <2>p, <2>9, <3>1, <3>2 DEF Does
    <3>4. Pops(i) = <<Sort(f)>>
      BY ONLY <1>7, <1>a, <1>f, <2>s, <2>9, <3>2 DEF Does
    <3> QED BY ONLY <3>3, <3>4
  <2> QED BY ONLY <1>1, <1>5, <1>6, <1>8, <2>1, <2>2, <2>3, <2>4, <2>5, <2>6, <2>7, <2>8, <2>9, CastsOf
<1>11. CASE CastOp(f, t) = "nothing" /\ Sort(f) = Sort(t) /\ CastTerm(f, t, x) = x
  <2>1. Entry(a) = Plainly(n)
    BY <1>2, <1>9, <1>11
  <2>2. i.op = "nothing"
    BY <1>7, <1>11
  <2>3. Does(i, <<>>, 0, 0, <<>>)
    BY ONLY <2>2, Table
  <2>4. Pops(i) = <<>> /\ Pushes(i, 0, 0) = <<>>
    BY ONLY <2>3 DEF Does
  <2>5. Append(s, Plainly(n)) \in Seq(Values)
    BY <1>2, <2>1
  <2>6. Step(Held(Append(s, Plainly(n))), i) = Held(Append(s, Plainly(n)))
    BY ONLY <1>p, <2>4, <2>5, DoesNothing
  <2> QED BY <1>a, <1>i, <2>1, <2>6
<1>12. CASE \E p : Pops(i) = <<p>> /\ p = Sort(f) /\ Pushes(i, 0, x) = <<Plainly(n)>>
  <2>1. PICK p : Pops(i) = <<p>> /\ p = Sort(f) /\ Pushes(i, 0, x) = <<Plainly(n)>>
    BY <1>12
  <2>2. Entry(a)[1] = p /\ Entry(a)[2] = x
    BY <1>2, <2>1
  <2>3. Pushes(i, 0, Entry(a)[2]) = <<Plainly(n)>>
    BY <2>1, <2>2
  <2>4. Step(Held(Append(s, Entry(a))), i) = Held(Append(s, Plainly(n)))
    BY ONLY s \in Seq(Values), <1>2, <1>p, <2>1, <2>2, <2>3, ReplacesOne
  <2> QED BY <1>a, <1>i, <2>4
<1> QED BY <1>10, <1>11, <1>12

\* Two operands that are on the stack as the operator wants them.
LEMMA OperatorRuns ==
  ASSUME use.kind \in Calls \cup Statements, NEW n \in Nodes, NEW s \in Seq(Values),
         NEW d \in Values, NEW e \in Values, NEW op \in Ops \ {"mislaid", "bare.$toString"},
         NEW p, NEW x, NEW y, d = <<p, x>>, e = <<p, y>>,
         Does(Instr(op, n), <<p, p>>, x, y, <<Plainly(n)>>)
  PROVE  Step(Held(Append(Append(s, d), e)), Instr(op, n)) = Held(Append(s, Plainly(n)))
<1>i. PICK i : i = Instr(op, n)
  OBVIOUS
<1>1. Plain(i)
  BY <1>i, PlainInstructions
<1>2. Pops(i) = <<p, p>> /\ Pushes(i, x, y) = <<Plainly(n)>>
  BY <1>i DEF Does
<1>3. d[1] = p /\ e[1] = p /\ d[2] = x /\ e[2] = y
  OBVIOUS
<1>4. Pushes(i, d[2], e[2]) = <<Plainly(n)>>
  BY <1>2, <1>3
<1>5. Pops(i) = <<p, p>> /\ d[1] = p /\ e[1] = p /\ d \in Values /\ e \in Values
  BY <1>2, <1>3
<1>6. Step(Held(Append(Append(s, d), e)), i) = Held(Append(s, Plainly(n)))
  BY ONLY s \in Seq(Values), <1>1, <1>4, <1>5, ReplacesTwo
<1> QED BY <1>6, <1>i

\* The entry of a node whose context is not marked.
LEMMA Enter ==
  \A n \in Nodes : /\ Entry(n) \in Values
                   /\ Base(n) \in marks => Entry(n) = Stringly(n)
                   /\ Base(n) \notin marks => Entry(n) = Plainly(n)
BY DEF Entry, Values

\* A concatenation finds two strings, each made of its operand once.
LEMMA ConcatRuns ==
  ASSUME Sound, NEW n \in Nodes, tree[n].kind = "add", types[n] = "string",
         NEW s \in Seq(Values)
  PROVE  Step(Held(Append(Append(s, Entry(tree[n].args[1])), Entry(tree[n].args[2]))),
              Instr(Operation(n), n))
           = Held(Append(s, Plainly(n)))
<1>a. PICK a : a = tree[n].args[1]
  OBVIOUS
<1>b. PICK b : b = tree[n].args[2]
  OBVIOUS
<1>1. /\ a \in Nodes /\ b \in Nodes /\ types[a] \in Types /\ types[b] \in Types /\ Operands(n) = {a, b}
      /\ types[n] = CheckedType("add", types[a], types[b])
  BY <1>a, <1>b, Operators DEF Sound, Binary
<1>2. Concatenates(types[a], types[b])
  <2>1. "string" \in Types /\ "string" \notin Numeric
    BY DEF Types, Numeric
  <2> QED BY <1>1, <2>1, OperatorTypes
<1>3. \A h \in {a, b} : Entry(h) = <<"string", AsString(types[h], Meaning[h])>>
  <2> TAKE h \in {a, b}
  <2>1. Base(h) \in marks <=> types[h] # "string"
    <3>1. h \in Nodes /\ h \in Operands(n)
      BY <1>1
    <3>2. Base(h) \in marks <=> MarksOperand(tree, types, n, h)
      BY <3>1, OperandMark DEF Sound
    <3>3. MarksOperand(tree, types, n, h) <=> types[h] # "string"
      BY <1>2, <1>a, <1>b DEF MarksOperand
    <3> QED BY <3>2, <3>3
  <2>2. CASE types[h] # "string"
    BY <1>1, <2>1, <2>2, Enter DEF Stringly
  <2>3. CASE types[h] = "string"
    <3>1. Entry(h) = <<Sort(types[h]), Meaning[h]>>
      BY <1>1, <2>1, <2>3, Enter DEF Plainly
    <3>2. Sort(types[h]) = "string" /\ AsString(types[h], Meaning[h]) = Meaning[h]
      BY <2>3 DEF Sort, AsString
    <3> QED BY <3>1, <3>2
  <2> QED BY <2>2, <2>3
<1>4. Operation(n) = "concat"
  BY DEF Operation
<1>5. Meaning[n] = <<"add", AsString(types[a], Meaning[a]), AsString(types[b], Meaning[b])>>
  <2>1. Meaning[n] = NodeMeaning(Meaning, n)
    BY MeaningUnfolds DEF Sound
  <2>2. NodeMeaning(Meaning, n)
          = <<"add", AsString(types[tree[n].args[1]], Meaning[tree[n].args[1]]),
                     AsString(types[tree[n].args[2]], Meaning[tree[n].args[2]])>>
    BY DEF NodeMeaning, Binary
  <2> QED BY ONLY <1>a, <1>b, <2>1, <2>2
<1>x. PICK x : x = AsString(types[a], Meaning[a])
  OBVIOUS
<1>y. PICK y : y = AsString(types[b], Meaning[b])
  OBVIOUS
<1>6. Plainly(n) = <<"string", <<"add", x, y>> >>
  <2>1. Sort(types[n]) = "string"
    BY DEF Sort
  <2> QED BY ONLY <1>5, <1>x, <1>y, <2>1 DEF Plainly
<1>7. Does(Instr("concat", n), <<"string", "string">>, x, y, <<Plainly(n)>>)
  <2>1. Instr("concat", n).op = "concat"
    BY DEF Instr
  <2>2. Does(Instr("concat", n), <<"string", "string">>, x, y, << <<"string", <<"add", x, y>> >> >>)
    BY ONLY <2>1, Table
  <2> QED BY ONLY <1>6, <2>2
<1>8. Entry(a) = <<"string", x>> /\ Entry(b) = <<"string", y>> /\ Entry(a) \in Values /\ Entry(b) \in Values
  BY <1>1, <1>3, <1>x, <1>y, Enter
<1>9. "concat" \in Ops \ {"mislaid", "bare.$toString"} /\ use.kind \in Calls \cup Statements
  BY DEF Ops, Sound
<1>10. Step(Held(Append(Append(s, Entry(a)), Entry(b))), Instr("concat", n)) = Held(Append(s, Plainly(n)))
  BY ONLY n \in Nodes, s \in Seq(Values), <1>7, <1>8, <1>9, OperatorRuns, SMTT(30)
<1> QED BY ONLY <1>4, <1>10, <1>a, <1>b

\* Arithmetic finds two numbers of its own sort, as they are.
LEMMA ArithmeticRuns ==
  ASSUME Sound, NEW n \in Nodes, tree[n].kind \in {"add", "sub"}, types[n] # "string",
         NEW s \in Seq(Values)
  PROVE  Step(Held(Append(Append(s, Entry(tree[n].args[1])), Entry(tree[n].args[2]))),
              Instr(Operation(n), n))
           = Held(Append(s, Plainly(n)))
<1>a. PICK a : a = tree[n].args[1]
  OBVIOUS
<1>b. PICK b : b = tree[n].args[2]
  OBVIOUS
<1>1. /\ a \in Nodes /\ b \in Nodes /\ types[a] \in Types /\ types[b] \in Types /\ Operands(n) = {a, b}
      /\ types[n] = CheckedType(tree[n].kind, types[a], types[b]) /\ types[n] \in Types
  BY <1>a, <1>b, Operators DEF Sound, Binary
<1>2. types[n] \in Numeric /\ (tree[n].kind = "add" => ~Concatenates(types[a], types[b]))
  <2>1. CASE tree[n].kind = "add"
    BY <1>1, <2>1, OperatorTypes
  <2>2. CASE tree[n].kind = "sub"
    BY <1>1, <2>2, OperatorTypes
  <2> QED BY <2>1, <2>2
<1>3. types[n] \in {"int", "float"}
  <2>1. ~LooseBool(n)
    BY DEF Sound, Fine
  <2> QED BY <1>2, <2>1 DEF LooseBool, Numeric
<1>4. Sort(types[a]) = Sort(types[n]) /\ Sort(types[b]) = Sort(types[n])
  <2>1. ~MixedArithmetic(n)
    BY DEF Sound, Fine
  <2> QED BY <1>1, <2>1 DEF MixedArithmetic
<1>5. \A h \in {a, b} : Entry(h) = <<Sort(types[n]), Meaning[h]>>
  <2> TAKE h \in {a, b}
  <2>1. h \in Nodes /\ h \in Operands(n)
    BY <1>1
  <2>2. ~MarksOperand(tree, types, n, h)
    BY <1>2, <1>a, <1>b DEF MarksOperand
  <2>3. Base(h) \notin marks
    BY <2>1, <2>2, OperandMark DEF Sound
  <2>4. Entry(h) = <<Sort(types[h]), Meaning[h]>>
    BY <2>1, <2>3, Enter DEF Plainly
  <2> QED BY <1>4, <2>4
<1>x. PICK x : x = Meaning[a]
  OBVIOUS
<1>y. PICK y : y = Meaning[b]
  OBVIOUS
<1>6. Meaning[n] = <<tree[n].kind, x, y>>
  <2>1. Meaning[n] = NodeMeaning(Meaning, n)
    BY MeaningUnfolds DEF Sound
  <2>2. NodeMeaning(Meaning, n)
          = <<tree[n].kind, Meaning[tree[n].args[1]], Meaning[tree[n].args[2]]>>
    BY DEF NodeMeaning, Binary
  <2> QED BY ONLY <1>a, <1>b, <1>x, <1>y, <2>1, <2>2
<1>7. Plainly(n) = <<Sort(types[n]), <<tree[n].kind, x, y>> >>
  BY ONLY <1>6 DEF Plainly
<1>8. /\ Operation(n) = CASE tree[n].kind = "add" /\ types[n] = "int" -> "iadd"
                          [] tree[n].kind = "sub" /\ types[n] = "int" -> "isub"
                          [] tree[n].kind = "add" /\ types[n] = "float" -> "fadd"
                          [] tree[n].kind = "sub" /\ types[n] = "float" -> "fsub"
  <2>1. CASE types[n] = "int"
    BY <2>1 DEF Operation
  <2>2. CASE types[n] = "float"
    BY <2>2 DEF Operation
  <2> QED BY <1>3, <2>1, <2>2
<1>9. Operation(n) \in Ops \ {"mislaid", "bare.$toString"} /\ use.kind \in Calls \cup Statements
  BY <1>3, <1>8 DEF Ops, Sound
<1>10. Does(Instr(Operation(n), n), <<Sort(types[n]), Sort(types[n])>>, x, y, <<Plainly(n)>>)
  <2>i. PICK i : i = Instr(Operation(n), n)
    OBVIOUS
  <2>1. i.op = Operation(n)
    BY <2>i DEF Instr
  <2>s. Sort("int") = "I" /\ Sort("float") = "F"
    BY DEF Sort
  <2>2. CASE tree[n].kind = "add" /\ types[n] = "int"
    <3>1. i.op = "iadd"
      BY <1>8, <2>1, <2>2
    <3>2. Does(i, <<"I", "I">>, x, y, << <<"I", <<"add", x, y>> >> >>)
      BY ONLY <3>1, Table
    <3> QED BY ONLY <1>7, <2>2, <2>i, <2>s, <3>2
  <2>3. CASE tree[n].kind = "sub" /\ types[n] = "int"
    <3>1. i.op = "isub"
      BY <1>8, <2>1, <2>3
    <3>2. Does(i, <<"I", "I">>, x, y, << <<"I", <<"sub", x, y>> >> >>)
      BY ONLY <3>1, Table
    <3> QED BY ONLY <1>7, <2>3, <2>i, <2>s, <3>2
  <2>4. CASE tree[n].kind = "add" /\ types[n] = "float"
    <3>1. i.op = "fadd"
      BY <1>8, <2>1, <2>4
    <3>2. Does(i, <<"F", "F">>, x, y, << <<"F", <<"add", x, y>> >> >>)
      BY ONLY <3>1, Table
    <3> QED BY ONLY <1>7, <2>4, <2>i, <2>s, <3>2
  <2>5. CASE tree[n].kind = "sub" /\ types[n] = "float"
    <3>1. i.op = "fsub"
      BY <1>8, <2>1, <2>5
    <3>2. Does(i, <<"F", "F">>, x, y, << <<"F", <<"sub", x, y>> >> >>)
      BY ONLY <3>1, Table
    <3> QED BY ONLY <1>7, <2>5, <2>i, <2>s, <3>2
  <2> QED BY <1>3, <2>2, <2>3, <2>4, <2>5
<1>p. PICK p : p = Sort(types[n])
  OBVIOUS
<1>11. /\ Entry(a) = <<p, x>> /\ Entry(b) = <<p, y>> /\ Entry(a) \in Values /\ Entry(b) \in Values
       /\ Does(Instr(Operation(n), n), <<p, p>>, x, y, <<Plainly(n)>>)
  BY <1>1, <1>5, <1>10, <1>p, <1>x, <1>y, Enter
<1>o. PICK op \in Ops \ {"mislaid", "bare.$toString"} : op = Operation(n)
  BY <1>9
<1>12. Does(Instr(op, n), <<p, p>>, x, y, <<Plainly(n)>>)
  BY <1>11, <1>o
<1>13. Step(Held(Append(Append(s, Entry(a)), Entry(b))), Instr(op, n)) = Held(Append(s, Plainly(n)))
  BY ONLY n \in Nodes, s \in Seq(Values), <1>9, <1>11, <1>12, op \in Ops \ {"mislaid", "bare.$toString"},
          OperatorRuns
<1> QED BY ONLY <1>13, <1>a, <1>b, <1>o

\* An if expression finds two values of its own sort.
LEMMA IfRuns ==
  ASSUME Sound, NEW n \in Nodes, tree[n].kind = "if", \A m \in 1..n : ~Throws(NodeCode(m)),
         NEW s \in Seq(Values)
  PROVE  Step(Held(Append(Append(s, Entry(tree[n].args[1])), Entry(tree[n].args[2]))),
              Instr(Operation(n), n))
           = Held(Append(s, Plainly(n)))
<1>a. PICK a : a = tree[n].args[1]
  OBVIOUS
<1>b. PICK b : b = tree[n].args[2]
  OBVIOUS
<1>1. /\ a \in Nodes /\ b \in Nodes /\ types[a] \in Types /\ types[b] \in Types /\ Operands(n) = {a, b}
      /\ types[n] = CheckedType("if", types[a], types[b]) /\ types[n] \in Types
  BY <1>a, <1>b, Operators DEF Sound, Binary
<1>0. n \in 1..n /\ a \in 1..n /\ b \in 1..n
  <2>1. tree \in Seq(NodeSet) /\ types \in Seq(Types) /\ Len(types) = Len(tree)
        /\ n \in 1..Len(tree) /\ NodeOK(tree, types, n) /\ tree[n].kind \in Binary
    BY DEF Sound, TreeOK, Nodes, Binary
  <2>2. a \in 1..(n - 1) /\ b \in 1..(n - 1)
    BY ONLY <1>a, <1>b, <2>1, Operated
  <2>3. n \in Nat /\ n >= 1
    BY <2>1
  <2> QED BY ONLY <2>2, <2>3
<1>2. types[n] # "void"
  BY <1>0, OperationsOf, ThrowsWhere DEF Sound
<1>3. \A h \in {a, b} : Base(h) \notin marks
  <2> SUFFICES ASSUME NEW h \in {a, b}, Base(h) \in marks PROVE FALSE
    OBVIOUS
  <2>1. h \in Nodes /\ h \in Operands(n)
    BY <1>1
  <2>2. PICK m \in Nodes :
           /\ h \in Operands(m) /\ tree[m].kind \in {"add", "if"}
           /\ tree[m].kind = "add" =>
                types[h] \notin {"string", "array"} /\ types[m] = "string"
           /\ tree[m].kind = "if" => types[h] = "string" /\ StringBesideOther(m)
    BY <2>1, Marked DEF Sound
  <2>3. m = n
    BY <2>1, <2>2, OneParent DEF Sound
  <2>4. types[h] = "string"
    BY <2>2, <2>3
  <2>5. Throws(NodeCode(h))
    <3>1. ConversionOp(types[h]) = "throw"
      BY <2>4 DEF ConversionOp, Pointers
    <3> QED BY <2>1, <3>1, ThrowsWhere DEF Sound
  <2> QED BY <1>0, <2>5
<1>4. \A h \in {a, b} : ~MarksOperand(tree, types, n, h)
  BY <1>1, <1>3, OperandMark DEF Sound
<1>5. PlacesJumps(types[a]) /\ PlacesJumps(types[b])
  <2>1. ~LosesJumps(n)
    BY DEF Sound, Fine
  <2> QED BY <1>1, <2>1 DEF LosesJumps
<1>6. types[a] = types[n] /\ types[b] = types[n]
  <2>1. Compatible(types[a], types[b]) # "mark"
    BY <1>4, <1>a, <1>b DEF MarksOperand
  <2>2. ~(Compatible(types[a], types[b]) = "no" /\ Compatible(types[b], types[a]) = "mark")
    BY <1>4, <1>a, <1>b DEF MarksOperand
  <2>3. types[a] # "nullptr" /\ types[b] # "nullptr"
    BY <1>5 DEF PlacesJumps, Numeric
  <2>4. types[a] = types[b]
    <3>1. \/ Compatible(types[a], types[b]) # "no"
          \/ Compatible(types[a], types[b]) = "no" /\ Compatible(types[b], types[a]) # "no"
      BY ONLY <1>1, OperatorTypes
    <3> QED BY ONLY <1>1, <2>1, <2>2, <2>3, <3>1, Compatibles
  <2>5. types[n] = types[a] \/ types[n] = types[b]
    BY ONLY <1>1, OperatorTypes
  <2> QED BY <2>4, <2>5
<1>x. PICK x : x = Meaning[a]
  OBVIOUS
<1>y. PICK y : y = Meaning[b]
  OBVIOUS
<1>p. PICK p : p = Sort(types[n])
  OBVIOUS
<1>7. Entry(a) = <<p, x>> /\ Entry(b) = <<p, y>> /\ Entry(a) \in Values /\ Entry(b) \in Values
  BY <1>1, <1>3, <1>6, <1>x, <1>y, <1>p, Enter DEF Plainly
<1>8. Operation(n) = "select"
  BY <1>2, <1>5, <1>a, <1>b DEF Operation
<1>9. Plainly(n) = <<p, <<"if", x, y>> >>
  <2>1. Meaning[n] = NodeMeaning(Meaning, n)
    BY MeaningUnfolds DEF Sound
  <2>2. CASE types[n] = "string"
    <3>1. NodeMeaning(Meaning, n)
            = <<"if", AsString(types[tree[n].args[1]], Meaning[tree[n].args[1]]),
                      AsString(types[tree[n].args[2]], Meaning[tree[n].args[2]])>>
      BY <2>2 DEF NodeMeaning, Binary
    <3>2. AsString(types[a], x) = x /\ AsString(types[b], y) = y
      BY <1>6, <2>2 DEF AsString
    <3> QED BY ONLY <1>a, <1>b, <1>x, <1>y, <1>p, <2>1, <3>1, <3>2 DEF Plainly
  <2>3. CASE types[n] # "string"
    <3>1. NodeMeaning(Meaning, n)
            = <<"if", Meaning[tree[n].args[1]], Meaning[tree[n].args[2]]>>
      BY <2>3 DEF NodeMeaning, Binary
    <3> QED BY ONLY <1>a, <1>b, <1>x, <1>y, <1>p, <2>1, <3>1 DEF Plainly
  <2> QED BY <2>2, <2>3
<1>10. Does(Instr("select", n), <<p, p>>, x, y, <<Plainly(n)>>)
  <2>i. PICK i : i = Instr("select", n)
    OBVIOUS
  <2>1. i.op = "select" /\ i.node = n
    BY <2>i DEF Instr
  <2>2. Does(i, <<Sort(types[i.node]), Sort(types[i.node])>>, x, y,
             << <<Sort(types[i.node]), <<"if", x, y>> >> >>)
    BY ONLY <2>1, Table
  <2> QED BY ONLY <1>9, <1>p, <2>1, <2>2, <2>i
<1>11. "select" \in Ops \ {"mislaid", "bare.$toString"} /\ use.kind \in Calls \cup Statements
  BY DEF Ops, Sound
<1>12. Step(Held(Append(Append(s, Entry(a)), Entry(b))), Instr("select", n)) = Held(Append(s, Plainly(n)))
  BY ONLY n \in Nodes, s \in Seq(Values), <1>7, <1>10, <1>11, OperatorRuns
<1> QED BY ONLY <1>8, <1>12, <1>a, <1>b

-----------------------------------------------------------------------------
(* The values on the stack are those of the nodes that wait.               *)

\* One more node waits, one more value is on the stack.
LEMMA StackedGrows ==
  ASSUME NEW s \in Seq(Nodes), NEW n \in Nodes
  PROVE  /\ Stacked(s) \in Seq(Values)
         /\ Stacked(Append(s, n)) = Append(Stacked(s), Entry(n))
<1>b. PICK u : u = Bottom
  OBVIOUS
<1>e. PICK e : e = Entries(s)
  OBVIOUS
<1>f. PICK f : f = Entries(Append(s, n))
  OBVIOUS
<1>v. PICK v : v = Entry(n)
  OBVIOUS
<1>1. u \in Seq(Values)
  <2>1. Out \in Values
    BY DEF Values
  <2>2. <<Out>> \in Seq(Values) /\ <<>> \in Seq(Values)
    BY <2>1
  <2> QED BY <1>b, <2>2 DEF Bottom
<1>2. Len(s) \in Nat /\ DOMAIN s = 1..Len(s) /\ \A i \in 1..Len(s) : s[i] \in Nodes
  OBVIOUS
<1>3. e = [i \in 1..Len(s) |-> Entry(s[i])]
  BY <1>2, <1>e DEF Entries
<1>4. e \in Seq(Values) /\ Len(e) = Len(s)
  <2>1. \A i \in 1..Len(s) : Entry(s[i]) \in Values
    BY <1>2, Enter
  <2> QED BY ONLY <1>2, <1>3, <2>1
<1>t. PICK t : t = Append(s, n)
  OBVIOUS
<1>5. /\ DOMAIN t = 1..(Len(s) + 1) /\ t[Len(s) + 1] = n
      /\ \A i \in 1..Len(s) : t[i] = s[i]
  BY <1>t, Appended
<1>6. f = [i \in 1..(Len(s) + 1) |-> Entry(t[i])]
  BY <1>5, <1>f, <1>t DEF Entries
<1>7. v \in Values
  BY <1>v, Enter
<1>8. f = Append(e, v)
  <2>1. Entry(t[Len(s) + 1]) = v /\ \A i \in 1..Len(s) : Entry(t[i]) = e[i]
    BY <1>3, <1>5, <1>v
  <2>2. /\ Append(e, v) \in Seq(Values) /\ Len(Append(e, v)) = Len(s) + 1
        /\ Append(e, v)[Len(s) + 1] = v /\ \A i \in 1..Len(s) : Append(e, v)[i] = e[i]
    BY ONLY <1>4, <1>7, Appended
  <2>3. \A i \in 1..(Len(s) + 1) : Append(e, v)[i] = Entry(t[i])
    <3>1. \A i \in 1..(Len(s) + 1) : i \in 1..Len(s) \/ i = Len(s) + 1
      BY <1>2
    <3> QED BY ONLY <2>1, <2>2, <3>1
  <2>4. Append(e, v) = [i \in 1..(Len(s) + 1) |-> Append(e, v)[i]]
    <3>1. \A g \in Seq(Values) : g = [i \in 1..Len(g) |-> g[i]]
      OBVIOUS
    <3> QED BY ONLY <2>2, <3>1
  <2> QED BY ONLY <1>6, <2>3, <2>4
<1>9. u \o e \in Seq(Values) /\ u \o Append(e, v) = Append(u \o e, v)
  BY ONLY <1>1, <1>4, <1>7
<1> QED BY ONLY <1>8, <1>9, <1>b, <1>e, <1>f, <1>v DEF Stacked

\* A sequence, by its last element, or its last two.
LEMMA Endings ==
  ASSUME NEW S, NEW s \in Seq(S)
  PROVE  /\ Len(s) >= 1 => s = Append(SubSeq(s, 1, Len(s) - 1), s[Len(s)])
         /\ Len(s) >= 2 => s = Append(Append(SubSeq(s, 1, Len(s) - 2), s[Len(s) - 1]), s[Len(s)])
         /\ \A r \in 0..Len(s) : SubSeq(s, 1, r) \in Seq(S)
<1>1. Len(s) >= 1 => s = Append(SubSeq(s, 1, Len(s) - 1), s[Len(s)])
  OBVIOUS
<1>2. Len(s) >= 2 => s = Append(Append(SubSeq(s, 1, Len(s) - 2), s[Len(s) - 1]), s[Len(s)])
  OBVIOUS
<1>3. \A r \in 0..Len(s) : SubSeq(s, 1, r) \in Seq(S)
  OBVIOUS
<1> QED BY <1>1, <1>2, <1>3

\* The nodes that wait after each node are nodes.
LEMMA WaitingNodes ==
  ASSUME TreeOK(tree, types, pending), NEW P, Stacks(tree, P), NEW k \in 0..Len(tree)
  PROVE  P[k] \in Seq(Nodes)
<1>1. Len(tree) \in Nat
  BY DEF TreeOK
<1>2. P[k] \in Seq(Nat) /\ \A i \in DOMAIN P[k] : P[k][i] \in 1..k
  BY DEF Stacks
<1>3. \A i \in DOMAIN P[k] : P[k][i] \in Nodes
  BY <1>1, <1>2 DEF Nodes
<1>4. \A s \in Seq(Nat) : (\A i \in DOMAIN s : s[i] \in Nodes) => s \in Seq(Nodes)
  OBVIOUS
<1> QED BY <1>2, <1>3, <1>4

\* A node's operation, and its conversion where it is marked, take the
\* operands' entries off the stack and leave the node's.
LEMMA NodeRuns ==
  ASSUME Sound, NEW n \in Nodes, \A m \in 1..n : ~Throws(NodeCode(m)),
         NEW P, Stacks(tree, P), NEW m1,
         m1 = Step(Held(Stacked(P[n - 1])), Instr(Operation(n), n))
  PROVE  /\ Base(n) \notin marks => m1 = Held(Stacked(P[n]))
         /\ Base(n) \in marks =>
              Step(m1, Instr(ConversionOp(types[n]), n)) = Held(Stacked(P[n]))
<1>q. PICK q : q = P[n - 1]
  OBVIOUS
<1>k. PICK k : k = Len(tree[n].args)
  OBVIOUS
<1>u. PICK u : u = SubSeq(q, 1, Len(q) - k)
  OBVIOUS
<1>s. PICK s : s = Stacked(u)
  OBVIOUS
<1>0. /\ tree \in Seq(NodeSet) /\ types \in Seq(Types) /\ Len(types) = Len(tree)
      /\ n \in 1..Len(tree) /\ NodeOK(tree, types, n)
  BY DEF Sound, TreeOK, Nodes
<1>1. /\ tree[n].args \in Seq(Nat)
      /\ tree[n].kind = "leaf" => k = 0 /\ tree[n].args = <<>>
      /\ tree[n].kind = "cast" => k = 1
      /\ tree[n].kind \in Binary => k = 2
  BY ONLY <1>0, <1>k, Operated DEF NodeOK
<1>2. q \in Seq(Nodes) /\ Len(q) \in Nat /\ k \in Nat
  <2>1. n - 1 \in 0..Len(tree)
    BY <1>0
  <2>2. q \in Seq(Nodes)
    BY <1>q, <2>1, WaitingNodes DEF Sound
  <2> QED BY <1>1, <1>k, <2>2
<1>3. /\ k <= Len(q) /\ \A i \in DOMAIN tree[n].args : tree[n].args[i] = q[Len(q) - k + i]
      /\ P[n] = Append(u, n)
  BY ONLY Stacks(tree, P), <1>0, <1>q, <1>k, <1>u DEF Stacks
<1>4. u \in Seq(Nodes)
  <2>1. Len(q) - k \in 0..Len(q)
    BY <1>2, <1>3
  <2> QED BY ONLY <1>2, <1>u, <2>1, Endings
<1>5. s \in Seq(Values) /\ Stacked(P[n]) = Append(s, Entry(n))
  BY <1>3, <1>4, <1>s, StackedGrows
<1>6. Operation(n) # "throw" /\ (Base(n) \in marks => ConversionOp(types[n]) # "throw")
  <2>1. n \in 1..n
    BY <1>0
  <2> QED BY <2>1, ThrowsWhere DEF Sound
<1>7. m1 = Held(Append(s, Plainly(n)))
  <2>1. CASE tree[n].kind = "leaf"
    <3>1. u = q
      BY ONLY <1>1, <1>2, <1>u, <2>1, PutOnTop
    <3>2. Step(Held(s), Instr(Operation(n), n)) = Held(Append(s, Plainly(n)))
      BY <1>5, <1>6, <2>1, LeafRuns
    <3> QED BY <1>q, <1>s, <3>1, <3>2
  <2>2. CASE tree[n].kind = "cast"
    <3>1. DOMAIN tree[n].args = {1} /\ tree[n].args[1] \in Nodes
      BY ONLY <1>0, <2>2, Operated DEF Nodes
    <3>2. tree[n].args[1] = q[Len(q)]
      <4>1. Len(q) - k + 1 = Len(q)
        BY ONLY <1>1, <1>2, <2>2
      <4> QED BY ONLY <1>3, <3>1, <4>1
    <3>3. q = Append(u, tree[n].args[1])
      BY ONLY <1>1, <1>2, <1>3, <1>u, <2>2, <3>2, Endings
    <3>4. Stacked(q) = Append(s, Entry(tree[n].args[1]))
      BY <1>4, <1>s, <3>1, <3>3, StackedGrows
    <3>5. Step(Held(Append(s, Entry(tree[n].args[1]))), Instr(Operation(n), n))
            = Held(Append(s, Plainly(n)))
      BY <1>5, <1>6, <2>2, CastRuns
    <3> QED BY <1>q, <3>4, <3>5
  <2>3. CASE tree[n].kind \in Binary
    <3>a. PICK a : a = tree[n].args[1]
      OBVIOUS
    <3>b. PICK b : b = tree[n].args[2]
      OBVIOUS
    <3>1. DOMAIN tree[n].args = {1, 2} /\ a \in Nodes /\ b \in Nodes
      BY ONLY <1>0, <2>3, <3>a, <3>b, Operated DEF Nodes
    <3>2. a = q[Len(q) - 1] /\ b = q[Len(q)] /\ Len(q) >= 2 /\ Len(q) - k = Len(q) - 2
      <4>1. Len(q) - k + 1 = Len(q) - 1 /\ Len(q) - k + 2 = Len(q) /\ Len(q) >= 2
        BY ONLY <1>1, <1>2, <1>3, <2>3
      <4>2. Len(q) - k = Len(q) - 2
        BY ONLY <1>1, <2>3
      <4> QED BY ONLY <1>3, <3>1, <3>a, <3>b, <4>1, <4>2
    <3>3. q = Append(Append(u, a), b)
      BY ONLY <1>2, <1>u, <3>2, Endings
    <3>4. Stacked(q) = Append(Append(s, Entry(a)), Entry(b))
      <4>1. Append(u, a) \in Seq(Nodes)
        BY <1>4, <3>1
      <4>2. Stacked(Append(u, a)) = Append(s, Entry(a))
        BY <1>4, <1>s, <3>1, StackedGrows
      <4>3. Stacked(Append(Append(u, a), b)) = Append(Stacked(Append(u, a)), Entry(b))
        BY <3>1, <4>1, StackedGrows
      <4> QED BY ONLY <3>3, <4>2, <4>3
    <3>5. Step(Held(Append(Append(s, Entry(a)), Entry(b))), Instr(Operation(n), n))
            = Held(Append(s, Plainly(n)))
      <4>1. CASE tree[n].kind = "add" /\ types[n] = "string"
        BY <1>5, <3>a, <3>b, <4>1, ConcatRuns
      <4>2. CASE tree[n].kind \in {"add", "sub"} /\ types[n] # "string"
        BY <1>5, <3>a, <3>b, <4>2, ArithmeticRuns
      <4>3. CASE tree[n].kind = "if"
        BY <1>5, <3>a, <3>b, <4>3, IfRuns
      <4>4. tree[n].kind = "sub" => types[n] # "string"
        <5> SUFFICES ASSUME tree[n].kind = "sub" PROVE types[n] # "string"
          OBVIOUS
        <5>1. /\ types[a] \in Types /\ types[b] \in Types /\ types[n] \in Types
              /\ types[n] = CheckedType("sub", types[a], types[b])
          BY <2>3, <3>a, <3>b, Operators DEF Sound
        <5>2. types[n] \in Numeric
          BY ONLY <5>1, OperatorTypes
        <5> QED BY <5>2 DEF Numeric
      <4> QED BY <2>3, <4>1, <4>2, <4>3, <4>4 DEF Binary
    <3> QED BY <1>q, <3>4, <3>5
  <2>4. tree[n].kind \in Kinds
    BY Operators DEF Sound
  <2> QED BY <2>1, <2>2, <2>3, <2>4 DEF Kinds
<1>8. CASE Base(n) \notin marks
  BY <1>5, <1>7, <1>8, Enter
<1>9. CASE Base(n) \in marks
  <2>1. types[n] \in Types /\ types[n] \notin {"string", "void", "array"}
    <3>1. types[n] \in Types
      BY Operators DEF Sound
    <3> QED BY <1>6, <1>9, <3>1, Conversions
  <2>2. types[n] \notin {"nullptr", "bare"}
    <3>1. ~Unprintable(n)
      BY DEF Sound, Fine
    <3> QED BY <1>9, <3>1 DEF Unprintable
  <2>3. types[n] \in {"int", "float", "bool", "struct", "pointer"}
    BY ONLY <2>1, <2>2 DEF Types, Numeric, Structs, Pointers
  <2>4. Step(Held(Append(s, Plainly(n))), Instr(ConversionOp(types[n]), n))
          = Held(Append(s, Stringly(n)))
    BY <1>5, <2>3, Converted DEF Sound
  <2> QED BY <1>5, <1>7, <1>9, <2>4, Enter
<1> QED BY <1>8, <1>9

-----------------------------------------------------------------------------
(* The steps of the generator.                                             *)

\* A trace goes on with one more instruction.
LEMMA ReachesOn ==
  ASSUME NEW c \in Seq(Instructions), NEW i \in Instructions, NEW s, Reached(c, s)
  PROVE  Reached(Append(c, i), Step(s, i)) /\ Append(c, i) \in Seq(Instructions)
<1>T. PICK T : Traces(T, c) /\ T[Len(c)] = s
  BY DEF Reached
<1>d. PICK d : d = Append(c, i)
  OBVIOUS
<1>t. PICK T2 : T2 = [k \in 0..(Len(c) + 1) |-> IF k = Len(c) + 1 THEN Step(s, i) ELSE T[k]]
  OBVIOUS
<1>1. /\ Len(c) \in Nat /\ Len(d) = Len(c) + 1 /\ d[Len(c) + 1] = i /\ d \in Seq(Instructions)
      /\ \A k \in 1..Len(c) : d[k] = c[k]
  BY <1>d, Appended
<1>2. /\ DOMAIN T2 = 0..(Len(c) + 1) /\ T2[Len(c) + 1] = Step(s, i)
      /\ \A k \in 0..Len(c) : T2[k] = T[k]
  BY <1>1, <1>t
<1>3. DOMAIN T = 0..Len(c) /\ T[0] = Start /\ \A k \in 1..Len(c) : T[k] = Step(T[k - 1], c[k])
      /\ T[Len(c)] = s
  BY <1>T DEF Traces
<1>4. T2[0] = Start
  BY <1>1, <1>2, <1>3
<1>5. \A k \in 1..(Len(c) + 1) : T2[k] = Step(T2[k - 1], d[k])
  <2> TAKE k \in 1..(Len(c) + 1)
  <2>1. CASE k \in 1..Len(c)
    <3>1. k - 1 \in 0..Len(c) /\ k \in 0..Len(c)
      BY <1>1, <2>1
    <3> QED BY ONLY <1>1, <1>2, <1>3, <2>1, <3>1
  <2>2. CASE k = Len(c) + 1
    <3>1. k - 1 = Len(c) /\ Len(c) \in 0..Len(c)
      BY <1>1, <2>2
    <3> QED BY ONLY <1>1, <1>2, <2>2, <3>1
  <2>3. k \in 1..Len(c) \/ k = Len(c) + 1
    BY <1>1
  <2> QED BY <2>1, <2>2, <2>3
<1>6. Traces(T2, d)
  BY <1>1, <1>2, <1>4, <1>5 DEF Traces
<1> QED BY <1>1, <1>2, <1>6, <1>d DEF Reached

\* One or two instructions more.
LEMMA OneOrTwo ==
  ASSUME NEW S, NEW c \in Seq(S), NEW w \in Seq(S)
  PROVE  /\ Len(w) = 1 => w[1] \in S /\ c \o w = Append(c, w[1])
         /\ Len(w) = 2 => /\ w[1] \in S /\ w[2] \in S
                          /\ c \o w = Append(Append(c, w[1]), w[2])
<1>1. Len(w) \in Nat /\ DOMAIN w = 1..Len(w) /\ \A k \in 1..Len(w) : w[k] \in S
  OBVIOUS
<1>x. PICK x : x = w[1]
  OBVIOUS
<1>y. PICK y : y = w[2]
  OBVIOUS
<1>2. CASE Len(w) = 1
  <2>1. x \in S
    BY <1>1, <1>2, <1>x
  <2>2. w = <<x>>
    BY <1>1, <1>2, <1>x
  <2>3. c \o <<x>> = Append(c, x)
    BY <2>1, AppendIsConcat
  <2>4. c \o w = Append(c, x)
    BY ONLY <2>2, <2>3
  <2> QED BY ONLY <1>2, <1>x, <2>1, <2>4
<1>3. CASE Len(w) = 2
  <2>1. x \in S /\ y \in S
    BY <1>1, <1>3, <1>x, <1>y
  <2>2. w = Append(<<x>>, y)
    BY <1>1, <1>3, <1>x, <1>y
  <2>3. c \o Append(<<x>>, y) = Append(c \o <<x>>, y)
    <3>1. \A e \in Seq(S) : \A v \in S : c \o Append(e, v) = Append(c \o e, v)
      OBVIOUS
    <3>2. <<x>> \in Seq(S)
      BY <2>1
    <3> QED BY ONLY <2>1, <3>1, <3>2
  <2>4. c \o <<x>> = Append(c, x)
    BY <2>1, AppendIsConcat
  <2>5. c \o w = Append(Append(c, x), y)
    BY ONLY <2>2, <2>3, <2>4
  <2> QED BY ONLY <1>3, <1>x, <1>y, <2>1, <2>5
<1> QED BY <1>2, <1>3

\* Appending the code of a node.
LEMMA NodeReached ==
  ASSUME Sound, NEW n \in Nodes, \A m \in 1..n : ~Throws(NodeCode(m)),
         NEW P, Stacks(tree, P), NEW c \in Seq(Instructions),
         Reached(c, Held(Stacked(P[n - 1])))
  PROVE  Reached(c \o NodeCode(n), Held(Stacked(P[n])))
<1>i. PICK i : i = Instr(Operation(n), n)
  OBVIOUS
<1>j. PICK j : j = Instr(ConversionOp(types[n]), n)
  OBVIOUS
<1>m. PICK m1 : m1 = Step(Held(Stacked(P[n - 1])), i)
  OBVIOUS
<1>2. /\ Base(n) \notin marks => m1 = Held(Stacked(P[n]))
      /\ Base(n) \in marks => Step(m1, j) = Held(Stacked(P[n]))
  BY <1>i, <1>j, <1>m, NodeRuns
<1>3. /\ NodeCode(n) \in Seq(Instructions)
      /\ Base(n) \in marks => Len(NodeCode(n)) = 2 /\ NodeCode(n)[1] = i /\ NodeCode(n)[2] = j
      /\ Base(n) \notin marks => Len(NodeCode(n)) = 1 /\ NodeCode(n)[1] = i
  BY <1>i, <1>j, NodeCodes DEF Sound
<1>c. PICK w : w = NodeCode(n)
  OBVIOUS
<1>o. /\ i \in Instructions
      /\ Base(n) \notin marks => c \o w = Append(c, i)
      /\ Base(n) \in marks => j \in Instructions /\ c \o w = Append(Append(c, i), j)
  BY ONLY c \in Seq(Instructions), <1>3, <1>c, OneOrTwo
<1>4. i \in Instructions
  BY <1>o
<1>5. Reached(Append(c, i), m1) /\ Append(c, i) \in Seq(Instructions)
  BY <1>4, <1>m, ReachesOn
<1>6. CASE Base(n) \notin marks
  <2>1. c \o NodeCode(n) = Append(c, i)
    BY <1>c, <1>o, <1>6
  <2> QED BY <1>2, <1>5, <1>6, <2>1
<1>7. CASE Base(n) \in marks
  <2>1. j \in Instructions
    BY <1>o, <1>7
  <2>2. Reached(Append(Append(c, i), j), Step(m1, j))
    BY <1>5, <2>1, ReachesOn
  <2>3. c \o NodeCode(n) = Append(Append(c, i), j)
    BY <1>c, <1>o, <1>7
  <2> QED BY <1>2, <1>7, <2>2, <2>3
<1> QED BY <1>6, <1>7

\* The expression's own node has no parent, and is not marked by one.
LEMMA RootWaits ==
  ASSUME TreeOK(tree, types, pending), MarksOK(tree, types, marks), Len(pending) = 1
  PROVE  /\ Last(pending) \in Nodes /\ pending = <<Last(pending)>>
         /\ Base(Last(pending)) \notin marks
<1>r. PICK r : r = Last(pending)
  OBVIOUS
<1>1. pending \in Seq(Nat) /\ r = pending[1] /\ DOMAIN pending = {1}
  <2>1. pending \in Seq(Nat) /\ DOMAIN pending = 1..1
    BY DEF TreeOK
  <2> QED BY <1>r, <2>1 DEF Last
<1>2. pending = <<r>>
  BY ONLY <1>1, Len(pending) = 1
<1>3. r \in Nodes /\ ~ \E m \in Nodes : Child(tree, m, r)
  <2>1. Holders(tree, pending)
    BY DEF TreeOK
  <2>2. r \in 1..Len(tree)
    BY ONLY <1>1, <2>1 DEF Holders
  <2>3. \E i \in DOMAIN pending : pending[i] = r
    BY ONLY <1>1
  <2> QED BY ONLY <2>1, <2>2, <2>3 DEF Holders, Nodes
<1>4. Base(r) \notin marks
  <2> SUFFICES ASSUME Base(r) \in marks PROVE FALSE
    OBVIOUS
  <2>1. PICK m \in Nodes : r \in Operands(m)
    BY <1>3, Marked
  <2> QED BY <1>3, <2>1, Operators
<1> QED BY ONLY <1>2, <1>3, <1>4, <1>r

\* The use's check let the value pass.
LEMMA UseFits ==
  ASSUME Shapes, UseChecked, phase \in {"generating", "done", "aborted"},
         TreeOK(tree, types, pending), MarksOK(tree, types, marks),
         Operation(Last(pending)) # "throw"
  PROVE  /\ use \in Uses /\ use.kind \in Calls \cup Statements /\ use.type \in Types
         /\ use.kind = "print" => use.type = "string"
         /\ types[Last(pending)] \in Types /\ types[Last(pending)] # "void"
         /\ Argument \in marks => /\ use.kind \in Calls /\ use.type = "string"
                                  /\ types[Last(pending)] \notin {"string", "array", "void"}
         /\ (Argument \notin marks /\ Holder \notin marks /\ ~NullAs) => types[Last(pending)] = use.type
<1>r. PICK r : r = Last(pending)
  OBVIOUS
<1>1. use \in Uses /\ r \in Nodes
  BY <1>r, RootWaits DEF Shapes
<1>2. use.kind \in Calls \cup Statements /\ use.type \in Types /\ (use.kind = "print" => use.type = "string")
  BY <1>1, ConstantsAssumption
<1>3. types[r] \in Types /\ types[r] # "void"
  BY <1>1, <1>r, Operators, OperationsOf
<1>f. PICK fits : fits = Compatible(types[r], use.type)
  OBVIOUS
<1>4. /\ fits # "no"
      /\ Argument \in marks <=> fits = "mark" /\ use.kind \in Calls
      /\ Holder \in marks <=> fits = "mark" /\ use.kind \in Statements
  BY <1>r, <1>f DEF UseChecked
<1>5. /\ fits \in {"yes", "mark", "no"}
      /\ fits = "mark" <=> types[r] # use.type /\ use.type = "string" /\ Convertible(types[r])
      /\ fits = "yes" <=>
           types[r] = use.type \/ (types[r] = "nullptr" /\ use.type \in {"pointer"} \cup Structs)
  BY <1>2, <1>3, <1>f, Compatibles
<1>6. Argument \in marks => /\ use.kind \in Calls /\ use.type = "string"
                            /\ types[r] \notin {"string", "array", "void"}
  BY ONLY <1>3, <1>4, <1>5 DEF Convertible
<1>7. (Argument \notin marks /\ Holder \notin marks /\ ~NullAs) => types[r] = use.type
  <2> SUFFICES ASSUME Argument \notin marks, Holder \notin marks, ~NullAs PROVE types[r] = use.type
    OBVIOUS
  <2>1. fits = "yes"
    BY <1>2, <1>4, <1>5
  <2>2. "nullptr" \notin {"pointer"} \cup Structs
    BY DEF Structs
  <2>3. ~(types[r] = "nullptr" /\ use.type # "nullptr")
    BY <1>r DEF NullAs
  <2> QED BY ONLY <1>5, <2>1, <2>2, <2>3
<1> QED BY ONLY <1>1, <1>2, <1>3, <1>6, <1>7, <1>r

\* The instructions of the use.
LEMMA UseCodes ==
  ASSUME use.kind \in Calls \cup Statements, NEW r \in Nodes, types[r] \in Types, r \in Nat
  PROVE  /\ UseCode(r) \in Seq(Instructions)
         /\ Argument \in marks =>
              /\ Len(UseCode(r)) = 2 /\ UseCode(r)[1] = Instr(ConversionOp(types[r]), r)
              /\ UseCode(r)[2] = Instr(use.kind, r)
         /\ Argument \notin marks => Len(UseCode(r)) = 1 /\ UseCode(r)[1] = Instr(use.kind, r)
<1>1. Instr(use.kind, r) \in Instructions /\ Instr(ConversionOp(types[r]), r) \in Instructions
  BY Conversions DEF Instr, Instructions
<1>2. CASE Argument \in marks
  <2>1. UseCode(r) = <<Instr(ConversionOp(types[r]), r)>> \o <<Instr(use.kind, r)>>
    BY <1>2 DEF UseCode, Conversion
  <2>2. \A x, y \in Instructions :
          /\ <<x>> \o <<y>> \in Seq(Instructions) /\ Len(<<x>> \o <<y>>) = 2
          /\ (<<x>> \o <<y>>)[1] = x /\ (<<x>> \o <<y>>)[2] = y
    OBVIOUS
  <2> QED BY <1>1, <1>2, <2>1, <2>2
<1>3. CASE Argument \notin marks
  <2>1. UseCode(r) = <<>> \o <<Instr(use.kind, r)>>
    BY <1>3 DEF UseCode, Conversion
  <2>2. \A x \in Instructions :
          /\ <<>> \o <<x>> \in Seq(Instructions) /\ Len(<<>> \o <<x>>) = 1
          /\ (<<>> \o <<x>>)[1] = x
    OBVIOUS
  <2> QED BY <1>1, <1>3, <2>1, <2>2
<1> QED BY <1>2, <1>3

\* The handlers of the use never throw.
LEMMA UseSurvives ==
  ASSUME Shapes, UseChecked, phase = "generating",
         TreeOK(tree, types, pending), MarksOK(tree, types, marks),
         Operation(Last(pending)) # "throw"
  PROVE  ~Throws(UseCode(Last(pending)))
<1>r. PICK r : r = Last(pending)
  OBVIOUS
<1>1. /\ use.kind \in Calls \cup Statements /\ types[r] \in Types
      /\ Argument \in marks => types[r] \notin {"string", "array", "void"}
  BY <1>r, UseFits
<1>2. r \in Nodes /\ r \in Nat
  <2>1. r \in Nodes
    BY <1>r, RootWaits DEF Shapes
  <2> QED BY <2>1 DEF Nodes, TreeOK
<1>3. Instr(use.kind, r).op # "throw"
  BY <1>1 DEF Instr, Calls, Statements
<1>u. PICK u : u = UseCode(r)
  OBVIOUS
<1>4. /\ u \in Seq(Instructions)
      /\ Argument \in marks => /\ Len(u) = 2 /\ u[1] = Instr(ConversionOp(types[r]), r)
                               /\ u[2] = Instr(use.kind, r)
      /\ Argument \notin marks => Len(u) = 1 /\ u[1] = Instr(use.kind, r)
  BY <1>1, <1>2, <1>u, UseCodes
<1>5. CASE Argument \in marks
  <2>1. ConversionOp(types[r]) # "throw"
    BY <1>1, <1>5, Conversions
  <2>2. Instr(ConversionOp(types[r]), r).op # "throw"
    BY <2>1 DEF Instr
  <2>3. DOMAIN u = {1, 2}
    BY ONLY <1>4, <1>5
  <2> QED BY ONLY <1>3, <1>4, <1>5, <1>r, <1>u, <2>2, <2>3 DEF Throws
<1>6. CASE Argument \notin marks
  <2>1. DOMAIN u = {1}
    BY ONLY <1>4, <1>6
  <2> QED BY ONLY <1>3, <1>4, <1>6, <1>r, <1>u, <2>1 DEF Throws
<1> QED BY <1>5, <1>6

\* The use receives the value on top, and leaves the stack empty.
LEMMA UseRuns ==
  ASSUME use.kind \in Calls \cup Statements, use.kind = "print" => use.type = "string",
         NEW e, e[1] = Sort(use.type), NEW r
  PROVE  Step(Held(Append(Bottom, e)), Instr(use.kind, r)) = [stack |-> <<>>, received |-> e[2]]
<1>i. PICK i : i = Instr(use.kind, r)
  OBVIOUS
<1>s. PICK st : st = Append(Bottom, e)
  OBVIOUS
<1>m. PICK m : m = Held(st)
  OBVIOUS
<1>1. i.op = use.kind /\ i.op \notin {"mislaid", "bare.$toString"}
  BY <1>i DEF Instr, Calls, Statements
<1>2. \A x, y : Pushes(i, x, y) = <<>>
  BY <1>1 DEF Pushes, Calls, Statements
<1>3. m # Fault /\ m.stack = st /\ m.received = <<"nothing">>
  BY <1>m, HeldFaultless
<1>4. CASE use.kind = "print"
  <2>1. Pops(i) = <<"out", "string">>
    BY <1>1, <1>4 DEF Pops
  <2>2. st = <<Out, e>>
    <3>2. Bottom = <<Out>>
      BY <1>4 DEF Bottom
    <3> QED BY ONLY <1>s, <3>2, SmallSequences
  <2>3. Sort("string") = "string"
    BY DEF Sort
  <2>4. e[1] = "string"
    BY <1>4, <2>3
  <2>5. /\ Len(Pops(i)) = 2 /\ Pops(i)[1] = "out" /\ Pops(i)[2] = "string"
        /\ Len(st) = 2 /\ st[1] = Out /\ st[2] = e
    BY ONLY <2>1, <2>2
  <2>6. Last(st) = e /\ SubSeq(st, 1, 0) = <<>> /\ Len(st) - Len(Pops(i)) = 0
    BY ONLY <2>2, <2>5 DEF Last
  <2>7. ~(\/ m = Fault \/ Len(m.stack) - Len(Pops(i)) < 0
          \/ \E j \in 1..Len(Pops(i)) :
               m.stack[Len(m.stack) - Len(Pops(i)) + j][1] # Pops(i)[j]
          \/ i.op \in {"mislaid", "bare.$toString"})
    <3>1. \A j \in 1..Len(Pops(i)) : j = 1 \/ j = 2
      BY ONLY <2>5
    <3>2. Out[1] = "out"
      BY DEF Out
    <3>3. \A j \in 1..Len(Pops(i)) :
            m.stack[Len(m.stack) - Len(Pops(i)) + j][1] = Pops(i)[j]
      BY ONLY <1>3, <2>4, <2>5, <2>6, <3>1, <3>2
    <3> QED BY ONLY <1>1, <1>3, <2>6, <3>3
  <2>8. Step(m, i) = [stack |-> SubSeq(m.stack, 1, Len(m.stack) - Len(Pops(i)))
                                  \o Pushes(i, m.stack[Len(m.stack) - 1][2], Last(m.stack)[2]),
                      received |-> Last(m.stack)[2]]
    BY ONLY <1>1, <2>5, <2>7 DEF Step
  <2>9. <<>> \o <<>> = <<>>
    OBVIOUS
  <2> QED BY ONLY <1>2, <1>3, <1>i, <1>m, <1>s, <2>6, <2>8, <2>9
<1>5. CASE use.kind # "print"
  <2>1. Pops(i) = <<Sort(use.type)>>
    BY <1>1, <1>5 DEF Pops, Calls, Statements
  <2>2. st = <<e>>
    BY <1>5, <1>s DEF Bottom
  <2>5. /\ Len(Pops(i)) = 1 /\ Pops(i)[1] = Sort(use.type)
        /\ Len(st) = 1 /\ st[1] = e
    BY ONLY <2>1, <2>2
  <2>6. Last(st) = e /\ SubSeq(st, 1, 0) = <<>> /\ Len(st) - Len(Pops(i)) = 0
    BY ONLY <2>2, <2>5 DEF Last
  <2>7. ~(\/ m = Fault \/ Len(m.stack) - Len(Pops(i)) < 0
          \/ \E j \in 1..Len(Pops(i)) :
               m.stack[Len(m.stack) - Len(Pops(i)) + j][1] # Pops(i)[j]
          \/ i.op \in {"mislaid", "bare.$toString"})
    <3>1. \A j \in 1..Len(Pops(i)) : j = 1
      BY ONLY <2>5
    <3>3. \A j \in 1..Len(Pops(i)) :
            m.stack[Len(m.stack) - Len(Pops(i)) + j][1] = Pops(i)[j]
      BY ONLY e[1] = Sort(use.type), <1>3, <2>5, <2>6, <3>1
    <3> QED BY ONLY <1>1, <1>3, <2>6, <3>3
  <2>8. Step(m, i) = [stack |-> SubSeq(m.stack, 1, Len(m.stack) - Len(Pops(i)))
                                  \o Pushes(i, 0, Last(m.stack)[2]),
                      received |-> Last(m.stack)[2]]
    BY ONLY <1>1, <2>5, <2>7 DEF Step
  <2>9. <<>> \o <<>> = <<>>
    OBVIOUS
  <2> QED BY ONLY <1>2, <1>3, <1>i, <1>m, <1>s, <2>6, <2>8, <2>9
<1> QED BY <1>4, <1>5

\* Appending the code of the use.
LEMMA UseReached ==
  ASSUME Sound, Shapes, UseChecked, phase = "generating", ~NullAs, Holder \notin marks,
         Operation(Last(pending)) # "throw", NEW c \in Seq(Instructions),
         Reached(c, Held(Stacked(pending)))
  PROVE  Reached(c \o UseCode(Last(pending)),
                 [stack |-> <<>>, received |-> Received(Last(pending))])
<1>r. PICK r : r = Last(pending)
  OBVIOUS
<1>0. TreeOK(tree, types, pending) /\ MarksOK(tree, types, marks) /\ Fine
  BY DEF Sound
<1>1. r \in Nodes /\ r \in Nat /\ pending = <<r>> /\ Base(r) \notin marks
  <2>1. r \in Nodes /\ pending = <<r>> /\ Base(r) \notin marks
    BY ONLY <1>0, <1>r, Shapes, phase = "generating", RootWaits DEF Shapes
  <2> QED BY <1>0, <2>1 DEF Nodes, TreeOK
<1>2. /\ use \in Uses /\ use.kind \in Calls \cup Statements /\ use.type \in Types
      /\ use.kind = "print" => use.type = "string"
      /\ types[r] \in Types /\ types[r] # "void"
      /\ Argument \in marks => /\ use.kind \in Calls /\ use.type = "string"
                               /\ types[r] \notin {"string", "array", "void"}
      /\ (Argument \notin marks /\ Holder \notin marks /\ ~NullAs) => types[r] = use.type
  <2>1. phase \in {"generating", "done", "aborted"}
    OBVIOUS
  <2> QED BY ONLY <1>0, <1>r, <2>1, Shapes, UseChecked, Operation(Last(pending)) # "throw", UseFits
<1>3. Stacked(pending) = Append(Bottom, Plainly(r)) /\ Bottom \in Seq(Values)
  <2>1. <<>> \in Seq(Nodes) /\ Append(<<>>, r) = <<r>>
    BY <1>1
  <2>2. Stacked(<<>>) \in Seq(Values) /\ Stacked(<<r>>) = Append(Stacked(<<>>), Entry(r))
    BY ONLY <1>1, <2>1, StackedGrows
  <2>3. Entries(<<>>) = <<>>
    BY DEF Entries
  <2>4. Bottom \in Seq(Values)
    <3>1. Out \in Values
      BY DEF Values
    <3>2. <<Out>> \in Seq(Values) /\ <<>> \in Seq(Values)
      BY <3>1
    <3> QED BY ONLY <3>2 DEF Bottom
  <2>5. Stacked(<<>>) = Bottom
    <3>1. \A s \in Seq(Values) : s \o <<>> = s
      OBVIOUS
    <3> QED BY ONLY <2>3, <2>4, <3>1 DEF Stacked
  <2> QED BY ONLY <1>1, <2>2, <2>4, <2>5, Enter
<1>i. PICK i : i = Instr(use.kind, r)
  OBVIOUS
<1>j. PICK j : j = Instr(ConversionOp(types[r]), r)
  OBVIOUS
<1>u. PICK u : u = UseCode(r)
  OBVIOUS
<1>4. /\ u \in Seq(Instructions)
      /\ Argument \in marks => Len(u) = 2 /\ u[1] = j /\ u[2] = i
      /\ Argument \notin marks => Len(u) = 1 /\ u[1] = i
  BY ONLY <1>1, <1>2, <1>i, <1>j, <1>u, UseCodes
<1>5. /\ Argument \in marks =>
           j \in Instructions /\ i \in Instructions /\ c \o u = Append(Append(c, j), i)
      /\ Argument \notin marks => i \in Instructions /\ c \o u = Append(c, i)
  BY ONLY c \in Seq(Instructions), <1>4, OneOrTwo
<1>6. Reached(c, Held(Append(Bottom, Plainly(r))))
  BY <1>3
<1>7. CASE Argument \in marks
  <2>1. types[r] \in {"int", "float", "bool", "struct", "pointer"}
    <3>1. ~Unprintable(r)
      BY <1>0, <1>1 DEF Fine
    <3>2. types[r] \notin {"nullptr", "bare"}
      BY <1>r, <1>7, <3>1 DEF Unprintable
    <3> QED BY ONLY <1>2, <1>7, <3>2 DEF Types, Numeric, Structs, Pointers
  <2>2. Step(Held(Append(Bottom, Plainly(r))), j) = Held(Append(Bottom, Stringly(r)))
    BY ONLY <1>1, <1>2, <1>3, <1>j, <2>1, Converted
  <2>3. Reached(Append(c, j), Held(Append(Bottom, Stringly(r)))) /\ Append(c, j) \in Seq(Instructions)
    BY <1>5, <1>6, <1>7, <2>2, ReachesOn
  <2>4. Stringly(r)[1] = Sort(use.type) /\ Stringly(r)[2] = Received(r)
    <3>1. Sort("string") = "string"
      BY DEF Sort
    <3> QED BY <1>2, <1>7, <3>1 DEF Stringly, Received
  <2>5. Step(Held(Append(Bottom, Stringly(r))), i) = [stack |-> <<>>, received |-> Received(r)]
    BY <1>2, <1>i, <2>4, UseRuns
  <2>6. Reached(Append(Append(c, j), i), [stack |-> <<>>, received |-> Received(r)])
    BY <1>5, <1>7, <2>3, <2>5, ReachesOn
  <2> QED BY <1>5, <1>7, <1>r, <1>u, <2>6
<1>8. CASE Argument \notin marks
  <2>1. types[r] = use.type
    BY <1>2, <1>8
  <2>4. Plainly(r)[1] = Sort(use.type) /\ Plainly(r)[2] = Received(r)
    <3>1. Plainly(r)[1] = Sort(use.type) /\ Plainly(r)[2] = Meaning[r]
      BY <2>1 DEF Plainly
    <3>2. Received(r) = Meaning[r]
      BY <2>1 DEF Received, AsString
    <3> QED BY <3>1, <3>2
  <2>5. Step(Held(Append(Bottom, Plainly(r))), i) = [stack |-> <<>>, received |-> Received(r)]
    BY <1>2, <1>i, <2>4, UseRuns
  <2>6. Reached(Append(c, i), [stack |-> <<>>, received |-> Received(r)])
    BY <1>5, <1>6, <1>8, <2>5, ReachesOn
  <2> QED BY <1>5, <1>8, <1>r, <1>u, <2>6
<1> QED BY <1>7, <1>8

\* Before the expression's code, what is to be under its value.
Opening == IF use.kind = "print" THEN <<Instr("getstatic out", 0)>> ELSE <<>>

\* With it the generator begins, before the first node.
LEMMA OpeningReached ==
  ASSUME use.kind \in Calls \cup Statements, NEW P, Stacks(tree, P)
  PROVE  Opening \in Seq(Instructions) /\ Reached(Opening, Held(Stacked(P[0])))
<1>1. Stacked(P[0]) = Bottom
  <2>1. P[0] = <<>>
    BY DEF Stacks
  <2>2. Entries(<<>>) = <<>>
    BY DEF Entries
  <2>3. Bottom \o <<>> = Bottom
    BY SmallSequences DEF Bottom
  <2> QED BY ONLY <2>1, <2>2, <2>3 DEF Stacked
<1>2. Reached(<<>>, Held(<<>>))
  <2>e. PICK T : T = [k \in 0..0 |-> Start]
    OBVIOUS
  <2>1. DOMAIN T = 0..0 /\ T[0] = Start
    BY ONLY <2>e
  <2>2. Traces(T, <<>>) /\ T[Len(<<>>)] = Held(<<>>)
    BY ONLY <2>1, SmallSequences DEF Traces, Start, Held
  <2> QED BY ONLY <2>2 DEF Reached
<1>3. CASE use.kind = "print"
  <2>i. PICK i : i = Instr("getstatic out", 0)
    OBVIOUS
  <2>1. i.op = "getstatic out" /\ i \in Instructions
    BY <2>i DEF Instr, Instructions, Ops
  <2>2. Plain(i)
    BY <1>3, <2>1 DEF Plain
  <2>3. Does(i, <<>>, 0, 0, <<Out>>)
    BY ONLY <2>1, Table
  <2>4. <<>> \in Seq(Values) /\ <<>> \in Seq(Instructions)
    BY ONLY SmallSequences
  <2>5. Step(Held(<<>>), i) = Held(Append(<<>>, Out))
    BY ONLY <2>2, <2>3, <2>4, PushesOne DEF Does
  <2>e. PICK e : e = <<>>
    OBVIOUS
  <2>6. Reached(e, Held(<<>>)) /\ e \in Seq(Instructions)
    BY ONLY <1>2, <2>4, <2>e
  <2>7. Reached(Append(e, i), Step(Held(<<>>), i)) /\ Append(e, i) \in Seq(Instructions)
    BY ONLY <2>1, <2>6, ReachesOn
  <2>8. Opening = Append(e, i) /\ Bottom = Append(<<>>, Out)
    <3>1. Opening = <<i>>
      BY ONLY <1>3, <2>i DEF Opening
    <3>2. Bottom = <<Out>>
      BY ONLY <1>3 DEF Bottom
    <3> QED BY ONLY <2>e, <3>1, <3>2, SmallSequences
  <2> QED BY ONLY <1>1, <2>5, <2>7, <2>8
<1>4. CASE use.kind # "print"
  <2>1. Opening = <<>>
    BY ONLY <1>4 DEF Opening
  <2>2. Bottom = <<>>
    BY ONLY <1>4 DEF Bottom
  <2> QED BY ONLY <1>1, <1>2, <2>1, <2>2, SmallSequences
<1> QED BY <1>3, <1>4

\* What does not change when the tree, the types, the use and the marks do not.
LEMMA StepStays ==
  ASSUME tree' = tree, types' = types, use' = use, NEW m, NEW i
  PROVE  Step(m, i)' = Step(m, i)
<1>1. Pops(i)' = Pops(i)
  BY DEF Pops
<1>2. Printed(i)' = Printed(i)
  BY DEF Printed
<1>3. \A x, y : Pushes(i, x, y)' = Pushes(i, x, y)
  BY <1>2 DEF Pushes
<1> QED BY <1>1, <1>3 DEF Step

\* Nor does what a code comes to,
LEMMA ReachedStays ==
  ASSUME tree' = tree, types' = types, use' = use, NEW c, NEW s
  PROVE  Reached(c, s)' <=> Reached(c, s)
<1>1. \A m, i : Step(m, i)' = Step(m, i)
  BY StepStays
<1>2. \A T : Traces(T, c)' <=> Traces(T, c)
  BY <1>1 DEF Traces
<1> QED BY <1>2 DEF Reached

\* what the nodes mean,
LEMMA MeaningStays ==
  ASSUME tree' = tree, types' = types
  PROVE  Meaning' = Meaning
BY DEF Meaning, Nodes, NodeMeaning

\* whether the stack holds the values of given nodes,
LEMMA InStepStays ==
  ASSUME tree' = tree, types' = types, use' = use, marks' = marks, NEW c, NEW q
  PROVE  InStep(c, q)' <=> InStep(c, q)
<1>1. Meaning' = Meaning
  BY MeaningStays
<1>2. \A n : Entry(n)' = Entry(n)
  BY <1>1 DEF Entry, Plainly, Stringly
<1>3. Entries(q)' = Entries(q) /\ Bottom' = Bottom
  BY <1>2 DEF Entries, Bottom
<1>s. PICK s : s = Held(Stacked(q))
  OBVIOUS
<1>4. s = Held(Stacked(q))'
  BY <1>3, <1>s DEF Stacked
<1>5. Reached(c, s)' <=> Reached(c, s)
  BY ReachedStays
<1> QED BY <1>4, <1>5, <1>s DEF InStep

\* whether the use has received the value of a given one,
LEMMA EndedStays ==
  ASSUME tree' = tree, types' = types, use' = use, NEW c, NEW r
  PROVE  Ended(c, r)' <=> Ended(c, r)
<1>1. Meaning' = Meaning
  BY MeaningStays
<1>2. Received(r)' = Received(r)
  BY <1>1 DEF Received
<1>s. PICK s : s = [stack |-> <<>>, received |-> Received(r)]
  OBVIOUS
<1>4. s = [stack |-> <<>>, received |-> Received(r)]'
  BY <1>2, <1>s
<1>5. Reached(c, s)' <=> Reached(c, s)
  BY ReachedStays
<1> QED BY <1>4, <1>5, <1>s DEF Ended

\* which expressions the properties leave out,
LEMMA FineStays ==
  ASSUME tree' = tree, types' = types, pending' = pending, marks' = marks
  PROVE  Fine' <=> Fine
<1>1. Nodes' = Nodes /\ \A n : Operands(n)' = Operands(n)
  BY DEF Nodes, Operands
<1>2. \A n : MixedArithmetic(n)' <=> MixedArithmetic(n)
  BY <1>1 DEF MixedArithmetic
<1>3. \A n : LooseBool(n)' <=> LooseBool(n)
  BY DEF LooseBool
<1>4. \A n : LosesJumps(n)' <=> LosesJumps(n)
  BY <1>1 DEF LosesJumps
<1>5. \A n : Unprintable(n)' <=> Unprintable(n)
  BY <1>1 DEF Unprintable
<1> QED BY <1>1, <1>2, <1>3, <1>4, <1>5 DEF Fine

\* and the code of a node.
LEMMA NodeCodeStays ==
  ASSUME tree' = tree, types' = types, marks' = marks
  PROVE  \A n : NodeCode(n)' = NodeCode(n)
<1>1. \A n : Operation(n)' = Operation(n)
  BY DEF Operation
<1>2. \A n : Conversion(Base(n), types[n], n)' = Conversion(Base(n), types[n], n)
  BY DEF Conversion
<1> QED BY <1>1, <1>2 DEF NodeCode

\* The same of the state in which the generator begins.
Opens ==
  use.kind \in Calls \cup Statements =>
    \A P, c, q : Stacks(tree, P) /\ c = Opening /\ q = P[0] =>
      c \in Seq(Instructions) /\ InStep(c, q)

\* It is so in every state.
LEMMA OpensHolds == Opens
<1> SUFFICES ASSUME use.kind \in Calls \cup Statements,
                    NEW P, NEW c, NEW q, Stacks(tree, P), c = Opening, q = P[0]
             PROVE  c \in Seq(Instructions) /\ InStep(c, q)
  BY DEF Opens
<1>1. Opening \in Seq(Instructions) /\ Reached(Opening, Held(Stacked(P[0])))
  BY OpeningReached
<1> QED BY <1>1 DEF InStep

\* No statement has a mark before its check.
LEMMA UseMarks ==
  ASSUME NEW mk, NEW kind \in Calls \cup Statements, Argument \notin mk, Holder \notin mk
  PROVE  /\ Argument \in mk \cup {UseContext(kind)} <=> kind \in Calls
         /\ Holder \in mk \cup {UseContext(kind)} <=> kind \in Statements
         /\ UseContext(kind) \in {Argument, Holder}
<1>1. kind \in Calls <=> kind \notin Statements
  BY DEF Calls, Statements
<1> QED BY <1>1, Contexts DEF UseContext

\* The check of the whole expression.
LEMMA UseStepHolds ==
  ASSUME ConversionInv, NEW what \in Uses, CheckUse(what) PROVE ConversionInv'
<1>f. PICK fits : fits = Compatible(types[Last(pending)], what.type)
  OBVIOUS
<1>i. TreeOK(tree, types, pending) /\ MarksOK(tree, types, marks) /\ Shapes
  BY DEF ConversionInv
<1>1. CASE fits = "no"
  <2>1. phase = "checking" /\ Reject
    BY <1>1, <1>f DEF CheckUse
  <2> QED BY <2>1, RejectHolds
<1>2. CASE fits # "no"
  <2>1. /\ phase = "checking" /\ Len(pending) = 1 /\ phase' = "generating" /\ use' = what
        /\ marks' = IF fits = "mark" THEN marks \cup {UseContext(what.kind)} ELSE marks
        /\ code' = IF what.kind = "print" THEN <<Instr("getstatic out", 0)>> ELSE <<>>
        /\ tree' = tree /\ types' = types /\ pending' = pending /\ next' = next
    BY <1>2, <1>f DEF CheckUse
  <2>2. next = 1 /\ Argument \notin marks /\ Holder \notin marks
    BY <1>i, <2>1 DEF Shapes
  <2>3. what.kind \in Calls \cup Statements
    BY ConstantsAssumption
  <2>4. UseContext(what.kind) \in {Argument, Holder}
    BY <2>2, <2>3, UseMarks
  <2>5. TreeOK(tree, types, pending)'
    BY <1>i, <2>1
  <2>6. MarksOK(tree, types, marks)'
    <3>1. marks' \subseteq {Base(n) : n \in 1..Len(tree)} \cup {Argument, Holder}
      <4>1. marks \subseteq {Base(n) : n \in 1..Len(tree)} \cup {Argument, Holder}
        BY <1>i DEF MarksOK
      <4> QED BY <2>1, <2>4, <4>1
    <3>2. \A n : Base(n) \in marks' <=> Base(n) \in marks
      BY <2>1, <2>4, Contexts
    <3>3. MarksOK(tree, types, marks')
      BY <1>i, <3>1, <3>2 DEF MarksOK
    <3> QED BY <2>1, <3>3
  <2>7. /\ code' \in Seq(Instructions)
        /\ \A P : Stacks(tree, P) => \A c, q : c = code' /\ q = P[0] => InStep(c, q)'
    <3>1. Opens'
      BY OpensHolds, PTL
    <3>2. code' = Opening'
      BY <2>1 DEF Opening
    <3>3. \A P, c, q : Stacks(tree, P)' /\ c = code' /\ q = P[0] =>
            c \in Seq(Instructions) /\ InStep(c, q)'
      BY <2>1, <2>3, <3>1, <3>2 DEF Opens
    <3>4. \A P : Stacks(tree, P)' <=> Stacks(tree, P)
      BY <2>1
    <3>5. PICK Pa : Stacks(tree, Pa)
      BY <1>i DEF TreeOK
    <3>6. code' \in Seq(Instructions)
      BY ONLY <3>3, <3>4, <3>5
    <3>7. \A P : Stacks(tree, P) => \A c, q : c = code' /\ q = P[0] => InStep(c, q)'
      BY ONLY <3>3, <3>4
    <3> QED BY <3>6, <3>7
  <2>8. Shapes'
    BY <1>i, <2>1, <2>2, <2>7 DEF Shapes, Phases
  <2>9. UseChecked'
    <3>1. fits \in {"yes", "mark", "no"} /\ (fits = "mark" <=> fits \notin {"yes", "no"})
      BY <1>f DEF Compatible
    <3>2. Compatible(types[Last(pending)], use.type)' = fits
      BY <1>f, <2>1
    <3>3. /\ Argument \in marks' <=> fits = "mark" /\ what.kind \in Calls
          /\ Holder \in marks' <=> fits = "mark" /\ what.kind \in Statements
      BY <2>1, <2>2, <2>3, UseMarks
    <3> QED BY <1>2, <2>1, <3>2, <3>3 DEF UseChecked
  <2>10. Survived'
    <3>1. next' - 1 = 0 /\ phase' = "generating" /\ 1..0 = {}
      <4>1. next' = 1
        BY ONLY <2>1, <2>2
      <4>2. 1 - 1 = 0 /\ 1..0 = {}
        OBVIOUS
      <4> QED BY ONLY <2>1, <4>1, <4>2
    <3> QED BY <3>1 DEF Survived
  <2>11. Computed'
    <3>1. PICK P : Stacks(tree, P) /\ P[Len(tree)] = pending
      BY <1>i DEF TreeOK
    <3>c. PICK c : c = code'
      OBVIOUS
    <3>q. PICK q : q = P[0]
      OBVIOUS
    <3>2. InStep(c, q)'
      BY <2>7, <3>1, <3>c, <3>q
    <3>3. next' - 1 = 0 /\ phase' = "generating"
      <4>1. next' = 1
        BY ONLY <2>1, <2>2
      <4>2. 1 - 1 = 0
        OBVIOUS
      <4> QED BY ONLY <2>1, <4>1, <4>2
    <3>4. Stacks(tree, P)' /\ (P[Len(tree)] = pending)'
      BY <2>1, <3>1
    <3>5. (\E Q, d, r : Stacks(tree, Q) /\ Q[Len(tree)] = pending
                        /\ d = code /\ r = Q[next - 1] /\ InStep(d, r))'
      BY <3>2, <3>3, <3>4, <3>c, <3>q
    <3> QED BY <3>3, <3>5 DEF Computed
  <2> QED BY <2>5, <2>6, <2>8, <2>9, <2>10, <2>11 DEF ConversionInv
<1> QED BY <1>1, <1>2

\* A node's code goes in place, or throws.
LEMMA NodeStepHolds ==
  ASSUME ConversionInv, GenerateNode PROVE ConversionInv'
<1>i. TreeOK(tree, types, pending) /\ MarksOK(tree, types, marks) /\ Shapes /\ UseChecked
      /\ Survived /\ Computed
  BY DEF ConversionInv
<1>n. PICK n : n = next
  OBVIOUS
<1>1. /\ phase = "generating" /\ next <= Len(tree) /\ Emit(NodeCode(next), "generating")
      /\ next' = next + 1 /\ tree' = tree /\ types' = types /\ pending' = pending
      /\ marks' = marks /\ use' = use
  BY DEF GenerateNode
<1>0. Len(tree) \in Nat /\ Nodes = 1..Len(tree)
  BY <1>i DEF TreeOK, Nodes
<1>2. next \in Nodes /\ next \in 1..Len(tree) /\ next' \in 1..(Len(tree) + 1) /\ next' - 1 = next
  <2>1. next \in 1..(Len(tree) + 1)
    BY <1>i DEF Shapes
  <2> QED BY <1>0, <1>1, <2>1
<1>3. \A m : NodeCode(m)' = NodeCode(m)
  BY <1>1, NodeCodeStays
<1>4. \A m : Throws(NodeCode(m))' <=> Throws(NodeCode(m))
  BY <1>3 DEF Throws
<1>5. /\ TreeOK(tree, types, pending)' /\ MarksOK(tree, types, marks)' /\ Nodes' = Nodes
  BY <1>i, <1>1 DEF Nodes
<1>6. phase' \in {"generating", "aborted"} => UseChecked'
  BY <1>i, <1>1 DEF UseChecked
<1>7. CASE Throws(NodeCode(next))
  <2>1. phase' = "aborted" /\ code' = code
    BY <1>1, <1>7 DEF Emit
  <2>2. Shapes'
    BY <1>i, <1>1, <1>2, <2>1 DEF Shapes, Phases
  <2>3. Survived'
    <3>1. Throws(NodeCode(n))' /\ n \in Nodes'
      BY <1>2, <1>4, <1>5, <1>7, <1>n
    <3>2. (\E m \in Nodes : Throws(NodeCode(m)))'
      BY <3>1
    <3> QED BY <2>1, <3>2 DEF Survived
  <2>4. Computed'
    BY <2>1 DEF Computed
  <2> QED BY <1>5, <1>6, <2>1, <2>2, <2>3, <2>4 DEF ConversionInv
<1>8. CASE ~Throws(NodeCode(next))
  <2>1. phase' = "generating" /\ code' = code \o NodeCode(next)
    BY <1>1, <1>8 DEF Emit
  <2>2. code \in Seq(Instructions) /\ NodeCode(n) \in Seq(Instructions)
    BY <1>i, <1>2, <1>n, NodeCodes DEF Shapes
  <2>3. Shapes'
    <3>1. code' \in Seq(Instructions)
      BY <1>n, <2>1, <2>2
    <3> QED BY <1>i, <1>1, <1>2, <2>1, <3>1 DEF Shapes, Phases
  <2>4. \A m \in 1..n : ~Throws(NodeCode(m))
    <3>1. \A m \in 1..(next - 1) : ~Throws(NodeCode(m))
      BY <1>i, <1>1 DEF Survived
    <3>2. \A m \in 1..n : m \in 1..(next - 1) \/ m = next
      BY <1>0, <1>2, <1>n
    <3> QED BY <1>8, <3>1, <3>2
  <2>5. Survived'
    <3>1. (\A m \in 1..(next - 1) : ~Throws(NodeCode(m)))'
      BY <1>2, <1>4, <1>n, <2>4
    <3> QED BY <2>1, <3>1 DEF Survived
  <2>6. Computed'
    <3> SUFFICES ASSUME Fine'
                 PROVE  (\E P, c, q : Stacks(tree, P) /\ P[Len(tree)] = pending
                                      /\ c = code /\ q = P[next - 1] /\ InStep(c, q))'
      BY <2>1 DEF Computed
    <3>1. Fine
      BY <1>1, FineStays
    <3>2. PICK P, c, q : /\ Stacks(tree, P) /\ P[Len(tree)] = pending
                         /\ c = code /\ q = P[next - 1] /\ InStep(c, q)
      BY <1>i, <1>1, <3>1 DEF Computed
    <3>3. Sound
      <4>1. use \in Uses
        BY <1>i, <1>1 DEF Shapes
      <4>2. use.kind \in Calls \cup Statements
        BY <4>1, ConstantsAssumption
      <4> QED BY <1>i, <3>1, <4>2 DEF Sound
    <3>4. Reached(c, Held(Stacked(P[n - 1]))) /\ c \in Seq(Instructions)
      BY <1>n, <2>2, <3>2 DEF InStep
    <3>5. Reached(c \o NodeCode(n), Held(Stacked(P[n])))
      BY <1>2, <1>n, <2>4, <3>2, <3>3, <3>4, NodeReached
    <3>d. PICK d : d = c \o NodeCode(n)
      OBVIOUS
    <3>r. PICK r : r = P[n]
      OBVIOUS
    <3>6. InStep(d, r)
      BY <3>5, <3>d, <3>r DEF InStep
    <3>7. InStep(d, r)'
      BY <1>1, <3>6, InStepStays
    <3>8. d = code' /\ r = P[next' - 1]
      BY <1>2, <1>n, <2>1, <3>2, <3>d, <3>r
    <3>9. Stacks(tree, P)' /\ (P[Len(tree)] = pending)'
      BY <1>1, <3>2
    <3> QED BY <3>7, <3>8, <3>9
  <2> QED BY <1>5, <1>6, <2>1, <2>3, <2>5, <2>6 DEF ConversionInv
<1> QED BY <1>7, <1>8

\* The code of the statement goes in place.
LEMMA UseEndHolds ==
  ASSUME ConversionInv, GenerateUse PROVE ConversionInv'
<1>i. TreeOK(tree, types, pending) /\ MarksOK(tree, types, marks) /\ Shapes /\ UseChecked
      /\ Survived /\ Computed
  BY DEF ConversionInv
<1>r. PICK r : r = Last(pending)
  OBVIOUS
<1>1. /\ phase = "generating" /\ next = Len(tree) + 1 /\ Emit(UseCode(Last(pending)), "done")
      /\ next' = next /\ tree' = tree /\ types' = types /\ pending' = pending
      /\ marks' = marks /\ use' = use
  BY DEF GenerateUse
<1>0. Len(tree) \in Nat /\ Nodes = 1..Len(tree) /\ next - 1 = Len(tree)
  BY <1>i, <1>1 DEF TreeOK, Nodes
<1>2. Len(pending) = 1 /\ use \in Uses /\ code \in Seq(Instructions)
  BY <1>i, <1>1 DEF Shapes
<1>3. r \in Nodes /\ pending = <<r>>
  BY <1>i, <1>2, <1>r, RootWaits
<1>4. \A m \in Nodes : ~Throws(NodeCode(m))
  BY <1>i, <1>0, <1>1 DEF Survived
<1>5. Operation(r) # "throw"
  BY <1>i, <1>3, <1>4, ThrowsWhere
<1>6. ~Throws(UseCode(r))
  BY <1>i, <1>1, <1>5, <1>r, UseSurvives
<1>7. phase' = "done" /\ code' = code \o UseCode(r)
  BY <1>1, <1>6, <1>r DEF Emit
<1>8. UseCode(r) \in Seq(Instructions)
  <2>1. /\ use.kind \in Calls \cup Statements /\ types[r] \in Types
    BY <1>i, <1>1, <1>5, <1>r, UseFits
  <2>2. r \in Nat
    BY <1>0, <1>3
  <2> QED BY ONLY <1>3, <2>1, <2>2, UseCodes
<1>9. TreeOK(tree, types, pending)' /\ MarksOK(tree, types, marks)'
  BY <1>i, <1>1
<1>10. Shapes'
  <2>1. code' \in Seq(Instructions)
    BY <1>2, <1>7, <1>8
  <2>2. next \in 1..(Len(tree) + 1)
    BY <1>i DEF Shapes
  <2> QED BY <1>1, <1>2, <1>7, <2>1, <2>2 DEF Shapes, Phases
<1>11. UseChecked'
  BY <1>i, <1>1, <1>7 DEF UseChecked
<1>12. Survived'
  <2>1. \A m : Throws(NodeCode(m))' <=> Throws(NodeCode(m))
    BY <1>1, NodeCodeStays DEF Throws
  <2>2. (\A m \in 1..(next - 1) : ~Throws(NodeCode(m)))'
    BY <1>0, <1>1, <1>4, <2>1
  <2> QED BY <1>7, <2>2 DEF Survived
<1>13. Computed'
  <2> SUFFICES ASSUME Fine', ~NullAs', Holder \notin marks'
               PROVE  (\E c, q : c = code /\ q = Last(pending) /\ Ended(c, q))'
    BY <1>7 DEF Computed
  <2>1. Fine /\ ~NullAs /\ Holder \notin marks
    <3>1. Fine
      BY <1>1, FineStays
    <3>2. ~NullAs
      BY <1>1 DEF NullAs
    <3>3. Holder \notin marks
      BY <1>1 DEF Holder
    <3> QED BY <3>1, <3>2, <3>3
  <2>2. PICK P, c, q : /\ Stacks(tree, P) /\ P[Len(tree)] = pending
                       /\ c = code /\ q = P[next - 1] /\ InStep(c, q)
    BY <1>i, <1>1, <2>1 DEF Computed
  <2>3. Sound
    <3>1. use.kind \in Calls \cup Statements
      BY <1>2, ConstantsAssumption
    <3> QED BY <1>i, <2>1, <3>1 DEF Sound
  <2>4. q = pending /\ c \in Seq(Instructions)
    BY <1>0, <1>2, <2>2
  <2>5. Reached(c, Held(Stacked(pending)))
    BY <2>2, <2>4 DEF InStep
  <2>6. Reached(c \o UseCode(Last(pending)),
                [stack |-> <<>>, received |-> Received(Last(pending))])
    BY <1>i, <1>1, <1>5, <1>r, <2>1, <2>3, <2>4, <2>5, UseReached
  <2>d. PICK d : d = c \o UseCode(Last(pending))
    OBVIOUS
  <2>7. Ended(d, r)
    BY <1>r, <2>6, <2>d DEF Ended
  <2>8. Ended(d, r)'
    BY <1>1, <2>7, EndedStays
  <2>9. d = code' /\ r = Last(pending)'
    BY <1>1, <1>7, <1>r, <2>2, <2>d
  <2> QED BY <2>8, <2>9
<1> QED BY <1>9, <1>10, <1>11, <1>12, <1>13 DEF ConversionInv

\* Every step keeps the invariant.
LEMMA StepHolds ==
  ASSUME ConversionInv, [Next]_vars PROVE ConversionInv'
<1>1. ASSUME NEW type \in Leaves, CheckLeaf(type) PROVE ConversionInv'
  BY <1>1, LeafHolds
<1>2. ASSUME NEW kind \in Binary, CheckOperator(kind) PROVE ConversionInv'
  BY <1>2, OperatorHolds
<1>3. ASSUME NEW target \in Casts, CheckCast(target) PROVE ConversionInv'
  BY <1>3, CastHolds
<1>4. ASSUME NEW what \in Uses, CheckUse(what) PROVE ConversionInv'
  BY <1>4, UseStepHolds
<1>5. CASE GenerateNode
  BY <1>5, NodeStepHolds
<1>6. CASE GenerateUse
  BY <1>6, UseEndHolds
<1>7. CASE UNCHANGED vars
  <2>1. /\ phase' = phase /\ tree' = tree /\ types' = types /\ pending' = pending
        /\ marks' = marks /\ use' = use /\ next' = next /\ code' = code
    BY <1>7 DEF vars
  <2>2. TreeOK(tree, types, pending)' /\ MarksOK(tree, types, marks)'
    BY <2>1 DEF ConversionInv
  <2>3. Shapes'
    BY <2>1 DEF ConversionInv, Shapes
  <2>4. UseChecked'
    BY <2>1 DEF ConversionInv, UseChecked
  <2>5. Survived'
    <3>1. \A m : Throws(NodeCode(m))' <=> Throws(NodeCode(m))
      BY <2>1, NodeCodeStays DEF Throws
    <3>2. Survived
      BY DEF ConversionInv
    <3> QED BY <2>1, <3>1, <3>2 DEF Survived, Nodes
  <2>6. Computed'
    <3>1. Computed
      BY DEF ConversionInv
    <3>2. /\ Fine' <=> Fine
          /\ NullAs' <=> NullAs
      BY <2>1, FineStays DEF NullAs
    <3>3. /\ \A c, q : InStep(c, q)' <=> InStep(c, q)
          /\ \A c, r : Ended(c, r)' <=> Ended(c, r)
      BY <2>1, InStepStays, EndedStays
    <3>4. ASSUME phase' = "generating", Fine'
          PROVE  (\E P, c, q : Stacks(tree, P) /\ P[Len(tree)] = pending
                               /\ c = code /\ q = P[next - 1] /\ InStep(c, q))'
      <4>1. PICK P, c, q : /\ Stacks(tree, P) /\ P[Len(tree)] = pending
                           /\ c = code /\ q = P[next - 1] /\ InStep(c, q)
        BY <2>1, <3>1, <3>2, <3>4 DEF Computed
      <4>2. Stacks(tree, P)' /\ (P[Len(tree)] = pending)'
        BY <2>1, <4>1
      <4>3. c = code' /\ q = P[next' - 1] /\ InStep(c, q)'
        BY <2>1, <3>3, <4>1
      <4> QED BY <4>2, <4>3
    <3>5. ASSUME phase' = "done", Fine', ~NullAs', Holder \notin marks'
          PROVE  (\E c, r : c = code /\ r = Last(pending) /\ Ended(c, r))'
      <4>1. Holder \notin marks
        BY <2>1, <3>5 DEF Holder
      <4>2. PICK c, r : c = code /\ r = Last(pending) /\ Ended(c, r)
        BY <2>1, <3>1, <3>2, <3>5, <4>1 DEF Computed
      <4>3. c = code' /\ r = Last(pending)' /\ Ended(c, r)'
        BY <2>1, <3>3, <4>2
      <4> QED BY <4>3
    <3> QED BY <3>4, <3>5 DEF Computed, Holder
  <2> QED BY <2>2, <2>3, <2>4, <2>5, <2>6 DEF ConversionInv
<1> QED BY <1>1, <1>2, <1>3, <1>4, <1>5, <1>6, <1>7 DEF Next

\* The walks keep their state in step: each marked context is an operand the
\* check of its parent asked for as a string; the generator has come to the
\* first node whose handler throws, or has left on the stack the values of
\* the nodes that still wait for their parents.
THEOREM ConversionInvHolds == Spec => []ConversionInv
<1>1. Init => ConversionInv
  BY InitHolds
<1>2. ConversionInv /\ [Next]_vars => ConversionInv'
  BY StepHolds
<1> QED BY <1>1, <1>2, PTL DEF Spec

-----------------------------------------------------------------------------
(* What the runs check.                                                    *)

\* A node is an operand of one other, or waits in one place.
LEMMA CountedOnce ==
  ASSUME TreeOK(tree, types, pending), NEW n \in Nodes
  PROVE  Cardinality({m \in Nodes : n \in Operands(m)})
           + Cardinality({i \in DOMAIN pending : pending[i] = n}) = 1
<1>p. PICK Pa : Pa = {m \in Nodes : n \in Operands(m)}
  OBVIOUS
<1>w. PICK Wa : Wa = {i \in DOMAIN pending : pending[i] = n}
  OBVIOUS
<1>1. /\ \A i, j \in DOMAIN pending : pending[i] = pending[j] => i = j
      /\ (\E i \in DOMAIN pending : pending[i] = n) <=> ~(\E m \in Nodes : Child(tree, m, n))
  BY DEF TreeOK, Holders, Nodes
<1>2. \A m \in Nodes : Child(tree, m, n) <=> n \in Operands(m)
  BY Operators
<1>3. \A l, m \in Pa : l = m
  BY <1>p, OneParent
<1>4. \A i, j \in Wa : i = j
  BY <1>w, <1>1
<1>5. (Wa # {}) <=> (Pa = {})
  BY <1>p, <1>w, <1>1, <1>2
<1>6. Cardinality({}) = 0 /\ \A x : Cardinality({x}) = 1
  BY FS_EmptySet, FS_Singleton
<1>7. CASE Pa = {}
  <2>1. PICK x : x \in Wa
    BY <1>5, <1>7
  <2>2. Wa = {x}
    BY <1>4, <2>1
  <2>3. Cardinality(Pa) = 0 /\ Cardinality(Wa) = 1
    BY <1>6, <1>7, <2>2
  <2> QED BY <1>p, <1>w, <2>3
<1>8. CASE Pa # {}
  <2>1. PICK x : x \in Pa
    BY <1>8
  <2>2. Pa = {x} /\ Wa = {}
    BY <1>3, <1>5, <1>8, <2>1
  <2>3. Cardinality(Pa) = 1 /\ Cardinality(Wa) = 0
    BY <1>6, <2>2
  <2> QED BY <1>p, <1>w, <2>3
<1> QED BY <1>7, <1>8

\* Every node has a type, and waits for its parent or has one, and one alone;
\* a context is marked only where there is a node, an argument or a statement.
THEOREM TypeCorrect == Spec => []TypeOK
<1>1. ASSUME ConversionInv PROVE TypeOK
  <2>1. TreeOK(tree, types, pending) /\ MarksOK(tree, types, marks) /\ Shapes
    BY <1>1 DEF ConversionInv
  <2>2. Len(types) = Len(tree) /\ \A n \in Nodes : types[n] \in Types
    BY <2>1, Operators DEF TreeOK
  <2>3. \A n \in Nodes : Cardinality({m \in Nodes : n \in Operands(m)})
                           + Cardinality({i \in DOMAIN pending : pending[i] = n}) = 1
    BY <2>1, CountedOnce
  <2>4. marks \subseteq {Base(n) : n \in Nodes} \cup {Argument, Holder}
    BY <2>1 DEF MarksOK, Nodes
  <2>5. /\ phase \in Phases /\ next \in 1..(Len(tree) + 1)
        /\ phase = "done" => next = Len(tree) + 1 /\ Len(pending) = 1
    BY <2>1 DEF Shapes
  <2> QED BY <2>2, <2>3, <2>4, <2>5 DEF TypeOK
<1> QED BY <1>1, ConversionInvHolds, PTL

\* The accepted programs that end the generator are those with an operand of
\* type void, a cast of what cannot be cast, or a string beside another type
\* in the branches of an if expression: those, and no others.
THEOREM AbortsNamed == Spec => []AbortsAreNamed
<1>1. ASSUME ConversionInv PROVE AbortsAreNamed
  <2>1. /\ TreeOK(tree, types, pending) /\ MarksOK(tree, types, marks) /\ Shapes /\ Survived
    BY <1>1 DEF ConversionInv
  <2>2. (\E n \in Nodes : Throws(NodeCode(n))) <=>
          \E n \in Nodes : types[n] = "void" \/ Uncastable(n) \/ StringBesideOther(n)
    BY <2>1, AbortsWhere
  <2>3. phase = "aborted" => \E n \in Nodes : Throws(NodeCode(n))
    BY <2>1 DEF Survived
  <2>4. phase = "done" => \A n \in Nodes : ~Throws(NodeCode(n))
    <3>1. phase = "done" => next - 1 = Len(tree)
      BY <2>1 DEF Shapes, TreeOK
    <3> QED BY <2>1, <3>1 DEF Survived, Nodes
  <2> QED BY <2>2, <2>3, <2>4 DEF AbortsAreNamed
<1> QED BY <1>1, ConversionInvHolds, PTL

\* The call or statement receives the value of its expression, and leaves
\* nothing on the stack, however deep +, -, casts and if are nested: each
\* operand is converted to a string where one is expected, and nowhere else.
THEOREM ValuesConverted == Spec => []ValueIsConverted
<1>1. ASSUME ConversionInv PROVE ValueIsConverted
  <2> SUFFICES ASSUME WellFormed, ~NullAs, Holder \notin marks
               PROVE  ReceivesItsValue
    BY DEF ValueIsConverted
  <2>1. Shapes /\ Computed
    BY <1>1 DEF ConversionInv
  <2>2. phase = "done" /\ Fine
    BY DEF WellFormed, Fine
  <2>3. PICK c, r : c = code /\ r = Last(pending) /\ Ended(c, r)
    BY <2>1, <2>2 DEF Computed
  <2>4. PICK T : Traces(T, c) /\ T[Len(c)] = [stack |-> <<>>, received |-> Received(r)]
    BY <2>3 DEF Ended, Reached
  <2>5. Run[Len(code)] = T[Len(code)]
    BY <2>1, <2>3, <2>4, RunIsTraced
  <2>6. T[Len(code)] = [stack |-> <<>>, received |-> Received(Last(pending))]
    BY <2>3, <2>4
  <2>7. Outcome = Run[Len(code)]
    BY DEF Outcome
  <2>8. Outcome = [stack |-> <<>>, received |-> Received(Last(pending))]
    BY ONLY <2>5, <2>6, <2>7
  <2> QED BY ONLY <2>8 DEF ReceivesItsValue
<1> QED BY <1>1, ConversionInvHolds, PTL

=============================================================================
