---------------------------- MODULE AccessProofs ----------------------------
(***************************************************************************)
(* Theorems of AccessGen, for statements of any length and nesting: what   *)
(* lastFieldType is when the generator comes to a field, and which         *)
(* statements it does not survive.                                         *)
(***************************************************************************)
EXTENDS AccessSemantics, SequenceTheorems, WellFoundedInduction, TLAPS

-----------------------------------------------------------------------------
(* Events and frames.                                                      *)

AllNames == {None, "twice", "get"} \cup Names \cup UNION {DOMAIN w.locals : w \in Contexts}

Kinds == {"literal", "variable", "postfixVariable", "prefix", "postfix", "identifier", "paren",
          "enterCall", "enterIndex", "exitCall", "exitIndex"}

EventSet ==
  [kind : Kinds, name : AllNames, base : Types \cup {None}, type : Types \cup {None},
   field : BOOLEAN, last : BOOLEAN, arrow : BOOLEAN, target : BOOLEAN, node : Nat]

FrameSet ==
  [kind : {"statement", "access", "paren", "prefix", "postfix", "call", "index"},
   name : AllNames, base : Types \cup {None}, field : BOOLEAN, node : Nat]

\* The enter of a call or an index; the exit of a field; the first field of an
\* access; and the type that lastFieldType is to have after a field.
Enter(e)    == e.kind \in {"enterCall", "enterIndex"}
FieldOut(e) == e.field /\ ~Enter(e)
Begins(e)   == e.field /\ e.base = None /\ e.kind \in {"identifier", "enterIndex", "paren"}
After(e)    == IF e.last THEN None ELSE IF e.arrow THEN Pointed(e.type) ELSE e.type

\* The field exited most recently before event k leaves the type t.
Reach(es, k, t) ==
  \/ t = None /\ \A m \in 1..(k - 1) : ~FieldOut(es[m])
  \/ \E m \in 1..(k - 1) :
       /\ FieldOut(es[m]) /\ t = After(es[m])
       /\ \A n \in (m + 1)..(k - 1) : ~FieldOut(es[n])

\* The node i has been exited by event k.
ExitedBy(es, i, k) == \E x \in 1..k : es[x].node = i

\* Just before event k, the call or index of a field that j entered is open.
Before(es, j, k) ==
  Enter(es[j]) /\ es[j].field /\ es[j].base # None /\ ~ExitedBy(es, j, k - 1)

\* The type left before event k, other than by the access it is a field of: that
\* of the innermost access around, until an access in there has ended.
Around(es, k, after) ==
  \/ Reach(es, k, None) /\ \A j \in 1..(k - 1) : ~Before(es, j, k)
  \/ \E j \in 1..(k - 1) :
       /\ Before(es, j, k) /\ \A i \in 1..(k - 1) : Before(es, i, k) => i <= j
       /\ \/ Reach(es, k, es[j].base) /\ \A m \in j..(k - 1) : ~FieldOut(es[m])
          \/ after /\ Reach(es, k, None) /\ \E m \in j..(k - 1) : es[m].last

-----------------------------------------------------------------------------
(* The invariant.                                                          *)

\* What the type checker let pass as an event e, and which event a node is.
EventOK(es, k) ==
  LET e == es[k] IN
  /\ e.node # 0 <=> e.kind \in {"exitCall", "exitIndex"}
  /\ e.node # 0 =>
       /\ e.node \in 1..(k - 1) /\ ~ExitedBy(es, e.node, k - 1)
       /\ es[e.node].kind = IF e.kind = "exitCall" THEN "enterCall" ELSE "enterIndex"
       /\ es[e.node].name = e.name /\ es[e.node].field = e.field /\ es[e.node].base = e.base
       /\ \A j \in 1..(k - 1) : Enter(es[j]) /\ ~ExitedBy(es, j, k - 1) => j <= e.node
  /\ ~e.field => e.base = None
  /\ ~FieldOut(e) => ~e.last /\ ~e.arrow
  /\ e.last => e.base # None /\ ~e.arrow
  /\ FieldOut(e) => /\ e.kind \in {"identifier", "paren", "exitCall", "exitIndex"}
                    /\ e.type # None /\ e.base \in Structs \cup Arrays \cup {None}
  /\ e.kind \in {"identifier", "paren"} => e.field
  /\ e.kind = "identifier" /\ e.base # None => e.type = FieldType(e.base, e.name)
  /\ e.kind = "paren" => e.base = None
  /\ e.kind = "enterIndex" /\ e.base # None =>
       e.base \in Structs /\ e.name \in DOMAIN Fields[e.base]
  /\ e.kind \in {"enterCall", "exitCall"} => e.name \in Functions
  /\ e.kind = "exitCall" /\ e.field => e.base \in Structs

Where(es, k) ==
  IF es[k].field /\ es[k].base # None /\ es[k].node = 0
  THEN Reach(es, k, es[k].base)
  ELSE Around(es, k, es[k].kind \in {"exitCall", "exitIndex", "paren", "prefix", "postfix"})

\* Every access has a first field, inside of all that is around it.
Begun(es, k) ==
  FieldOut(es[k]) =>
    \E i \in 1..k : /\ Begins(es[i])
                    /\ \A j \in 1..(k - 1) : Enter(es[j]) /\ ~ExitedBy(es, j, k) => j < i

Bracket(f) == f.kind \in {"call", "index"}
Reached(f) == f.kind = "access" /\ f.base # None

FrameOK(es, fs, d) ==
  LET f == fs[d] IN
  /\ f.kind = "statement" <=> d = 1
  /\ ~Bracket(f) => ~f.field /\ f.node = 0
  /\ d > 1 => /\ fs[d - 1].kind = "access" <=> f.kind = "paren" \/ f.field
              /\ f.kind = "paren" => fs[d - 1].base = None
              /\ Bracket(f) => es[f.node].base = IF f.field THEN fs[d - 1].base ELSE None
  /\ Bracket(f) =>
       /\ f.node \in DOMAIN es /\ es[f.node].name = f.name /\ es[f.node].field = f.field
       /\ es[f.node].kind = IF f.kind = "call" THEN "enterCall" ELSE "enterIndex"
       /\ f.kind = "call" => f.base = es[f.node].base
       /\ ~ExitedBy(es, f.node, Len(es))

NodesInOrder(fs) ==
  \A c, d \in DOMAIN fs : c < d /\ Bracket(fs[c]) /\ Bracket(fs[d]) => fs[c].node < fs[d].node

EntersAccounted(es, fs) ==
  \A i \in DOMAIN es : Enter(es[i]) =>
    ExitedBy(es, i, Len(es)) \/ \E d \in DOMAIN fs : Bracket(fs[d]) /\ fs[d].node = i

AccessesBegun(es, fs) ==
  \A d \in DOMAIN fs : Reached(fs[d]) =>
    \E i \in DOMAIN es : Begins(es[i]) /\ \A c \in 1..(d - 1) : Bracket(fs[c]) => fs[c].node < i

\* The innermost access around the innermost frame.
InnerAccess(fs, c) ==
  c \in 1..(Len(fs) - 1) /\ Reached(fs[c]) /\ \A d \in (c + 1)..(Len(fs) - 1) : ~Reached(fs[d])

\* After event s there have only been enters, if an operand is to come, and
\* otherwise no access that has not ended.
Since(es, v, s) ==
  IF v = None THEN \A m \in (s + 1)..Len(es) : Enter(es[m])
  ELSE \A m \in (s + 1)..Len(es) :
         FieldOut(es[m]) /\ (\A n \in (m + 1)..Len(es) : ~FieldOut(es[n])) => es[m].last

Current(es, fs, v) ==
  IF Reached(fs[Len(fs)]) THEN Reach(es, Len(es) + 1, fs[Len(fs)].base)
  ELSE /\ (\A d \in 1..(Len(fs) - 1) : ~Reached(fs[d])) => Since(es, v, 0)
       /\ \A c \in DOMAIN fs : InnerAccess(fs, c) => Since(es, v, fs[c + 1].node)

Walk(es, fs, v) ==
  /\ es \in Seq(EventSet) /\ fs \in Seq(FrameSet) /\ fs # <<>>
  /\ fs[Len(fs)].kind = "access" => v = None
  /\ \A k \in DOMAIN es : EventOK(es, k) /\ Where(es, k) /\ Begun(es, k)
  /\ \A d \in DOMAIN fs : FrameOK(es, fs, d)
  /\ NodesInOrder(fs) /\ EntersAccounted(es, fs) /\ AccessesBegun(es, fs)
  /\ Current(es, fs, v)

\* The generator.  Event k is one whose code cannot be generated.
Refused(k) ==
  /\ First(k)
  /\ \E j \in Indices :
       Innermost(j, k) /\ (IF events[k].kind = "paren"
                           THEN \A m \in j..k : ~events[m].last
                           ELSE events[k].name \notin DOMAIN Fields[events[j].base])

LateCall(k) ==
  /\ events[k].kind = "exitCall" /\ events[k].name = "get" /\ ~where.method
  /\ \E i \in Indices : First(i) /\ InsideOf(events[k].node, i)

Doomed(k) ==
  \/ events[k].arrow
  \/ events[k].kind = "prefix" /\ events[k].name = None
  \/ MemberOfArray(k) /\ ~(events[k].target /\ events[k].last)
  \/ Refused(k)
  \/ LateCall(k)

NothingMisread == \A i \in Indices : ~Misread(i)

Shapes ==
  /\ phase \in Phases /\ where \in Contexts /\ use \in Uses
  /\ value \in Types \cup {None} /\ lastFieldType \in Types \cup {None}
  /\ next \in 1..(Len(events) + 1)
  /\ value # None => events # <<>>
  /\ phase = "checking" => next = 1 /\ lastFieldType = None
  /\ phase \in {"generating", "done", "aborted"} => IsRoot /\ value # None
  /\ phase = "done" => next = Len(events) + 1
  /\ phase = "aborted" => next > 1

CallsFound ==
  \A k \in Indices :
    events[k].kind = "exitCall" /\ ~events[k].field => FunctionHere(events[k].name) # None

\* A type is left by an access that has not ended.
Pending ==
  phase \in {"generating", "done"} /\ lastFieldType # None =>
    \E m \in 1..(next - 1) : /\ FieldOut(events[m]) /\ ~events[m].last
                             /\ \A n \in (m + 1)..(next - 1) : ~FieldOut(events[n])

Generated ==
  /\ phase \in {"generating", "done"} /\ NothingMisread =>
       Reach(events, next, lastFieldType) /\ \A k \in 1..(next - 1) : ~Doomed(k)
  /\ phase = "aborted" /\ NothingMisread => Doomed(next - 1)

AccessInv == Shapes /\ Walk(events, open, value) /\ CallsFound /\ Pending /\ Generated

-----------------------------------------------------------------------------
(* Types, greatest elements, and sequences.                                *)

\* The types of members are types, and None is not one.
LEMMA TypesOfMembers ==
  /\ None \notin Types /\ Structs \subseteq Types /\ Arrays \subseteq Types
  /\ DOMAIN Fields = Structs
  /\ \A struct \in Structs : \A name \in DOMAIN Fields[struct] : Fields[struct][name] \in Types
  /\ \A base, name : FieldType(base, name) \in Types \cup {None}
  /\ \A array : Element(array) \in Types
  /\ \A owner : Returned(owner) \in Types
  /\ \A pointer : Pointed(pointer) = "S"
<1>1. /\ None \notin Types /\ Structs \subseteq Types /\ Arrays \subseteq Types
      /\ \A array : Element(array) \in Types
      /\ \A owner : Returned(owner) \in Types
      /\ \A pointer : Pointed(pointer) = "S"
  BY DEF None, Types, Structs, Arrays, Element, Returned, Pointed
<1>2. DOMAIN Fields = Structs
  BY DEF Fields, Structs
<1>3. \A struct \in Structs : \A name \in DOMAIN Fields[struct] : Fields[struct][name] \in Types
  <2>1. /\ Fields["S"] = [n |-> "int", t |-> "T", ts |-> "T[]"]
        /\ Fields["T"] = [n |-> "int", s |-> "S", ns |-> "int[]"]
    BY DEF Fields
  <2>2. \A name \in DOMAIN Fields["S"] : Fields["S"][name] \in Types
    BY <2>1 DEF Types, Structs, Arrays
  <2>3. \A name \in DOMAIN Fields["T"] : Fields["T"][name] \in Types
    BY <2>1 DEF Types, Structs, Arrays
  <2> QED BY <2>2, <2>3 DEF Structs
<1>4. \A base, name : FieldType(base, name) \in Types \cup {None}
  BY <1>1, <1>3 DEF FieldType
<1> QED BY <1>1, <1>2, <1>3, <1>4

\* A set of numbers up to n that is not empty has a greatest.
LEMMA GreatestExists ==
  ASSUME NEW n \in Nat, NEW S \in SUBSET (1..n), S # {}
  PROVE  \E m \in S : \A s \in S : s <= m
<1> DEFINE R == OpToRel(<, Nat)
           T == {n - s : s \in S}
<1>1. IsWellFoundedOn(R, Nat)
  BY NatLessThanWellFounded
<1>2. \A i, j \in Nat : i < j => <<i, j>> \in R
  BY DEF OpToRel
<1>3. T \in SUBSET Nat /\ T # {}
  <2>1. \A s \in S : n - s \in Nat
    OBVIOUS
  <2> QED BY <2>1
<1>4. \E x \in T : \A y \in T : ~ (<<y, x>> \in R)
  <2> HIDE DEF R, T
  <2> QED BY <1>1, <1>3, WFMin
<1> HIDE DEF R
<1>5. PICK x \in T : \A y \in T : ~ (<<y, x>> \in R)
  BY <1>4
<1>6. PICK m \in S : x = n - m
  BY <1>5
<1>7. \A s \in S : ~(n - s < n - m)
  BY <1>2, <1>3, <1>5, <1>6
<1>8. \A s \in S : s \in Int /\ m \in Int
  OBVIOUS
<1> QED BY <1>7, <1>8

\* A sequence with one more element, and with one less.
LEMMA Appended ==
  ASSUME NEW S, NEW s \in Seq(S), NEW x \in S
  PROVE  /\ Append(s, x) \in Seq(S) /\ Append(s, x) # <<>>
         /\ Len(s) \in Nat /\ Len(Append(s, x)) = Len(s) + 1
         /\ DOMAIN s = 1..Len(s) /\ DOMAIN Append(s, x) = 1..(Len(s) + 1)
         /\ Append(s, x)[Len(s) + 1] = x
         /\ \A i \in 1..Len(s) : Append(s, x)[i] = s[i] /\ s[i] \in S
OBVIOUS

\* The sequence without its last element.
LEMMA Shortened ==
  ASSUME NEW S, NEW s \in Seq(S), Len(s) > 1
  PROVE  /\ Front(s) \in Seq(S) /\ Front(s) # <<>>
         /\ Len(s) \in Nat /\ Len(Front(s)) = Len(s) - 1
         /\ DOMAIN s = 1..Len(s) /\ DOMAIN Front(s) = 1..(Len(s) - 1)
         /\ \A i \in 1..(Len(s) - 1) : Front(s)[i] = s[i]
         /\ \A i \in 1..Len(s) : s[i] \in S
<1>1. Len(s) \in Nat /\ DOMAIN s = 1..Len(s) /\ \A i \in 1..Len(s) : s[i] \in S
  OBVIOUS
<1>2. Front(s) = SubSeq(s, 1, Len(s) - 1)
  BY DEF Front
<1>3. Front(s) \in Seq(S) /\ Len(Front(s)) = Len(s) - 1
  BY <1>1, <1>2
<1>4. DOMAIN Front(s) = 1..(Len(s) - 1)
  BY <1>3
<1>5. \A i \in 1..(Len(s) - 1) : Front(s)[i] = s[i]
  BY <1>1, <1>2
<1> QED BY <1>1, <1>3, <1>4, <1>5

-----------------------------------------------------------------------------
(* One more event changes nothing about those before.                      *)

\* What is said of an event k, and of the types before it, depends on the
\* events up to it alone.
LEMMA PrefixKept ==
  ASSUME NEW es \in Seq(EventSet), NEW e \in EventSet
  PROVE  LET es2 == Append(es, e) IN
         /\ \A k \in 1..(Len(es) + 1) : \A t : Reach(es2, k, t) <=> Reach(es, k, t)
         /\ \A k \in 0..Len(es) : \A i : ExitedBy(es2, i, k) <=> ExitedBy(es, i, k)
         /\ \A i : ExitedBy(es2, i, Len(es) + 1) <=> ExitedBy(es, i, Len(es)) \/ e.node = i
         /\ \A k \in 1..(Len(es) + 1) : \A j \in 1..(k - 1) : Before(es2, j, k) <=> Before(es, j, k)
         /\ \A k \in 1..(Len(es) + 1) : \A after : Around(es2, k, after) <=> Around(es, k, after)
<1> DEFINE es2 == Append(es, e)
<1>1. /\ Len(es) \in Nat /\ es2[Len(es) + 1] = e
      /\ \A i \in 1..Len(es) : es2[i] = es[i]
  BY Appended
<1> HIDE DEF es2
<1>2. \A k \in 1..(Len(es) + 1) : \A t : Reach(es2, k, t) <=> Reach(es, k, t)
  <2> TAKE k \in 1..(Len(es) + 1)
  <2> TAKE t
  <2>1. \A m \in 1..(k - 1) : es2[m] = es[m]
    BY <1>1
  <2>2. \A m \in 1..(k - 1) : \A n \in (m + 1)..(k - 1) : n \in 1..(k - 1)
    OBVIOUS
  <2> QED BY <2>1, <2>2 DEF Reach
<1>3. \A k \in 0..Len(es) : \A i : ExitedBy(es2, i, k) <=> ExitedBy(es, i, k)
  BY <1>1 DEF ExitedBy
<1>4. \A i : ExitedBy(es2, i, Len(es) + 1) <=> ExitedBy(es, i, Len(es)) \/ e.node = i
  <2>1. \A x \in 1..(Len(es) + 1) : x \in 1..Len(es) \/ x = Len(es) + 1
    BY <1>1
  <2>2. Len(es) + 1 \in 1..(Len(es) + 1) /\ \A x \in 1..Len(es) : x \in 1..(Len(es) + 1)
    BY <1>1
  <2> QED BY <1>1, <2>1, <2>2 DEF ExitedBy
<1>5. \A k \in 1..(Len(es) + 1) : \A j \in 1..(k - 1) : Before(es2, j, k) <=> Before(es, j, k)
  <2> TAKE k \in 1..(Len(es) + 1)
  <2> TAKE j \in 1..(k - 1)
  <2>1. es2[j] = es[j] /\ k - 1 \in 0..Len(es)
    BY <1>1
  <2> QED BY <1>3, <2>1 DEF Before
<1>6. \A k \in 1..(Len(es) + 1) : \A after : Around(es2, k, after) <=> Around(es, k, after)
  <2> TAKE k \in 1..(Len(es) + 1)
  <2> TAKE after
  <2>1. \A j \in 1..(k - 1) : es2[j] = es[j] /\ \A m \in j..(k - 1) : es2[m] = es[m]
    BY <1>1
  <2>2. \A j \in 1..(k - 1) : Before(es2, j, k) <=> Before(es, j, k)
    BY <1>5
  <2>3. \A t : Reach(es2, k, t) <=> Reach(es, k, t)
    BY <1>2
  <2> QED BY <2>1, <2>2, <2>3 DEF Around
<1> QED BY <1>2, <1>3, <1>4, <1>5, <1>6 DEF es2

\* So an event stays what it was, and the new one is as it is to be.
LEMMA EventsKept ==
  ASSUME NEW es \in Seq(EventSet), NEW e \in EventSet,
         \A k \in DOMAIN es : EventOK(es, k) /\ Where(es, k) /\ Begun(es, k)
  PROVE  LET es2 == Append(es, e) IN
         \A k \in DOMAIN es : EventOK(es2, k) /\ Where(es2, k) /\ Begun(es2, k)
<1> DEFINE es2 == Append(es, e)
<1>1. /\ Len(es) \in Nat /\ DOMAIN es = 1..Len(es)
      /\ \A i \in 1..Len(es) : es2[i] = es[i] /\ es[i] \in EventSet
  BY Appended
<1>2. /\ \A k \in 1..(Len(es) + 1) : \A t : Reach(es2, k, t) <=> Reach(es, k, t)
      /\ \A k \in 0..Len(es) : \A i : ExitedBy(es2, i, k) <=> ExitedBy(es, i, k)
      /\ \A k \in 1..(Len(es) + 1) : \A after : Around(es2, k, after) <=> Around(es, k, after)
  BY PrefixKept
<1> HIDE DEF es2
<1> SUFFICES ASSUME NEW k \in DOMAIN es
             PROVE  EventOK(es2, k) /\ Where(es2, k) /\ Begun(es2, k)
  BY DEF es2
<1>3. k \in 1..Len(es) /\ k \in 1..(Len(es) + 1) /\ k - 1 \in 0..Len(es) /\ k \in 0..Len(es)
  BY <1>1
<1>4. es2[k] = es[k] /\ \A j \in 1..k : es2[j] = es[j]
  BY <1>1
<1>5. EventOK(es2, k)
  <2>1. EventOK(es, k)
    OBVIOUS
  <2>2. \A i : ExitedBy(es2, i, k - 1) <=> ExitedBy(es, i, k - 1)
    BY <1>2, <1>3
  <2>3. \A j \in 1..(k - 1) : es2[j] = es[j]
    BY <1>3, <1>4
  <2> QED BY <1>4, <2>1, <2>2, <2>3 DEF EventOK
<1>6. Where(es2, k)
  <2>1. Where(es, k)
    OBVIOUS
  <2> QED BY <1>2, <1>3, <1>4, <2>1 DEF Where
<1>7. Begun(es2, k)
  <2>1. Begun(es, k)
    OBVIOUS
  <2>2. \A i : ExitedBy(es2, i, k) <=> ExitedBy(es, i, k)
    BY <1>2, <1>3
  <2>3. \A j \in 1..(k - 1) : es2[j] = es[j]
    BY <1>3, <1>4
  <2> QED BY <1>4, <2>1, <2>2, <2>3 DEF Begun
<1> QED BY <1>5, <1>6, <1>7
-----------------------------------------------------------------------------
(* The type left before the event to come.                                 *)

\* A field exited before event k, if any, is followed by a last one.
LEMMA LatestField ==
  ASSUME NEW es \in Seq(EventSet), NEW k \in 1..(Len(es) + 1)
  PROVE  \/ \A m \in 1..(k - 1) : ~FieldOut(es[m])
         \/ \E m \in 1..(k - 1) : /\ FieldOut(es[m])
                                  /\ \A n \in (m + 1)..(k - 1) : ~FieldOut(es[n])
<1> DEFINE S == {m \in 1..(k - 1) : FieldOut(es[m])}
<1>1. CASE S = {}
  BY <1>1
<1>2. CASE S # {}
  <2>1. Len(es) \in Nat /\ k - 1 \in Nat /\ S \in SUBSET (1..(k - 1))
    BY Appended
  <2> HIDE DEF S
  <2>2. PICK m \in S : \A s \in S : s <= m
    BY <1>2, <2>1, GreatestExists
  <2>3. m \in 1..(k - 1) /\ FieldOut(es[m])
    BY DEF S
  <2>4. ASSUME NEW n \in (m + 1)..(k - 1), FieldOut(es[n])
        PROVE  FALSE
    <3>1. n \in S /\ n > m
      BY <2>1, <2>3, <2>4 DEF S
    <3> QED BY <2>1, <2>2, <2>3, <3>1
  <2> QED BY <2>3, <2>4
<1> QED BY <1>1, <1>2

\* Only one type is left.
LEMMA ReachUnique ==
  ASSUME NEW es \in Seq(EventSet), NEW k \in 1..(Len(es) + 1), NEW t, NEW u,
         Reach(es, k, t), Reach(es, k, u)
  PROVE  t = u
<1>1. Len(es) \in Nat /\ k \in Int
  BY Appended
<1>2. CASE \A m \in 1..(k - 1) : ~FieldOut(es[m])
  BY <1>2 DEF Reach
<1>3. CASE \E m \in 1..(k - 1) : FieldOut(es[m])
  <2>1. PICK m \in 1..(k - 1) : /\ FieldOut(es[m]) /\ t = After(es[m])
                                /\ \A n \in (m + 1)..(k - 1) : ~FieldOut(es[n])
    BY <1>3 DEF Reach
  <2>2. PICK l \in 1..(k - 1) : /\ FieldOut(es[l]) /\ u = After(es[l])
                                /\ \A n \in (l + 1)..(k - 1) : ~FieldOut(es[n])
    BY <1>3 DEF Reach
  <2>3. l = m
    <3>1. ~(l \in (m + 1)..(k - 1)) /\ ~(m \in (l + 1)..(k - 1))
      BY <2>1, <2>2
    <3> QED BY <1>1, <3>1
  <2> QED BY <2>1, <2>2, <2>3
<1> QED BY <1>2, <1>3

\* An access that has reached a type has a call or an index in it, if it is
\* not the innermost frame.
LEMMA FieldAbove ==
  ASSUME NEW es, NEW fs \in Seq(FrameSet), \A d \in DOMAIN fs : FrameOK(es, fs, d),
         NEW c \in 1..(Len(fs) - 1), Reached(fs[c])
  PROVE  /\ c + 1 \in DOMAIN fs /\ Bracket(fs[c + 1]) /\ fs[c + 1].field
         /\ fs[c + 1].node \in DOMAIN es /\ Enter(es[fs[c + 1].node])
         /\ es[fs[c + 1].node].field /\ es[fs[c + 1].node].base = fs[c].base
         /\ ~ExitedBy(es, fs[c + 1].node, Len(es))
<1>1. Len(fs) \in Nat /\ c + 1 \in DOMAIN fs /\ c + 1 > 1 /\ (c + 1) - 1 = c
  OBVIOUS
<1>2. FrameOK(es, fs, c + 1)
  BY <1>1
<1>3. fs[c].kind = "access" /\ fs[c].base # None
  BY DEF Reached
<1>4. /\ fs[c].kind = "access" <=> fs[c + 1].kind = "paren" \/ fs[c + 1].field
      /\ fs[c + 1].kind = "paren" => fs[c].base = None
      /\ Bracket(fs[c + 1]) => es[fs[c + 1].node].base = IF fs[c + 1].field THEN fs[c].base ELSE None
  BY <1>1, <1>2 DEF FrameOK
<1>5. fs[c + 1].field
  BY <1>3, <1>4
<1>6. Bracket(fs[c + 1])
  BY <1>2, <1>5 DEF FrameOK
<1>7. /\ fs[c + 1].node \in DOMAIN es /\ es[fs[c + 1].node].field = fs[c + 1].field
      /\ es[fs[c + 1].node].kind = IF fs[c + 1].kind = "call" THEN "enterCall" ELSE "enterIndex"
      /\ ~ExitedBy(es, fs[c + 1].node, Len(es))
  BY <1>2, <1>6 DEF FrameOK
<1> QED BY <1>1, <1>4, <1>5, <1>6, <1>7 DEF Enter

\* The fields that an event to come is inside of are those the type checker
\* is in.
LEMMA BeforeIsFrame ==
  ASSUME NEW es, NEW fs, NEW v, Walk(es, fs, v), NEW j \in 1..Len(es)
  PROVE  Before(es, j, Len(es) + 1) <=>
           \E c \in 1..(Len(fs) - 1) : Reached(fs[c]) /\ fs[c + 1].node = j
<1>1. /\ es \in Seq(EventSet) /\ fs \in Seq(FrameSet)
      /\ \A d \in DOMAIN fs : FrameOK(es, fs, d)
      /\ EntersAccounted(es, fs)
  BY DEF Walk
<1>2. Len(es) \in Nat /\ DOMAIN es = 1..Len(es) /\ Len(fs) \in Nat /\ DOMAIN fs = 1..Len(fs)
  BY <1>1
<1>3. (Len(es) + 1) - 1 = Len(es)
  BY <1>2
<1>4. ASSUME Before(es, j, Len(es) + 1)
      PROVE  \E c \in 1..(Len(fs) - 1) : Reached(fs[c]) /\ fs[c + 1].node = j
  <2>1. Enter(es[j]) /\ es[j].field /\ es[j].base # None /\ ~ExitedBy(es, j, Len(es))
    BY <1>3, <1>4 DEF Before
  <2>2. PICK d \in DOMAIN fs : Bracket(fs[d]) /\ fs[d].node = j
    BY <1>1, <1>2, <2>1 DEF EntersAccounted
  <2>3. FrameOK(es, fs, d)
    BY <1>1
  <2>4. d # 1 /\ fs[d].field
    BY <2>1, <2>2, <2>3 DEF FrameOK, Bracket
  <2>5. d > 1 /\ d - 1 \in 1..(Len(fs) - 1) /\ (d - 1) + 1 = d
    BY <1>2, <2>4
  <2>6. fs[d - 1].kind = "access" /\ es[j].base = fs[d - 1].base
    BY <2>2, <2>3, <2>4, <2>5 DEF FrameOK
  <2>7. Reached(fs[d - 1])
    BY <2>1, <2>6 DEF Reached
  <2> QED BY <2>2, <2>5, <2>7
<1>5. ASSUME NEW c \in 1..(Len(fs) - 1), Reached(fs[c]), fs[c + 1].node = j
      PROVE  Before(es, j, Len(es) + 1)
  <2>1. /\ Enter(es[j]) /\ es[j].field /\ es[j].base = fs[c].base
        /\ ~ExitedBy(es, j, Len(es))
    BY <1>1, <1>5, FieldAbove
  <2>2. es[j].base # None
    BY <1>5, <2>1 DEF Reached
  <2> QED BY <1>3, <2>1, <2>2 DEF Before
<1> QED BY <1>4, <1>5

\* There is an innermost access around the innermost frame, if there is one.
LEMMA InnerExists ==
  ASSUME NEW fs \in Seq(FrameSet), fs # <<>>
  PROVE  (\A d \in 1..(Len(fs) - 1) : ~Reached(fs[d])) \/ \E c \in DOMAIN fs : InnerAccess(fs, c)
<1> DEFINE S == {d \in 1..(Len(fs) - 1) : Reached(fs[d])}
<1>1. Len(fs) \in Nat /\ Len(fs) - 1 \in Nat /\ DOMAIN fs = 1..Len(fs)
  OBVIOUS
<1>2. CASE S = {}
  BY <1>2
<1>3. CASE S # {}
  <2>1. S \in SUBSET (1..(Len(fs) - 1))
    OBVIOUS
  <2> HIDE DEF S
  <2>2. PICK c \in S : \A s \in S : s <= c
    BY <1>1, <1>3, <2>1, GreatestExists
  <2>3. c \in 1..(Len(fs) - 1) /\ Reached(fs[c])
    BY DEF S
  <2>4. ASSUME NEW n \in (c + 1)..(Len(fs) - 1), Reached(fs[n])
        PROVE  FALSE
    <3>1. n \in S /\ n > c
      BY <1>1, <2>3, <2>4 DEF S
    <3> QED BY <1>1, <2>2, <2>3, <3>1
  <2>5. c \in DOMAIN fs
    BY <1>1, <2>3
  <2> QED BY <2>3, <2>4, <2>5 DEF InnerAccess
<1> QED BY <1>2, <1>3

\* Between the fields of an access, the type left is that of the access around
\* the event to come, unless one in there has ended.
LEMMA Located ==
  ASSUME NEW es, NEW fs, NEW v, Walk(es, fs, v), ~Reached(fs[Len(fs)])
  PROVE  Around(es, Len(es) + 1, v # None)
<1> DEFINE n == Len(es) + 1
<1>1. /\ es \in Seq(EventSet) /\ fs \in Seq(FrameSet) /\ fs # <<>>
      /\ \A k \in DOMAIN es : EventOK(es, k) /\ Where(es, k)
      /\ \A d \in DOMAIN fs : FrameOK(es, fs, d)
      /\ NodesInOrder(fs)
      /\ (\A d \in 1..(Len(fs) - 1) : ~Reached(fs[d])) => Since(es, v, 0)
      /\ \A c \in DOMAIN fs : InnerAccess(fs, c) => Since(es, v, fs[c + 1].node)
  BY DEF Walk, Current
<1>2. /\ Len(es) \in Nat /\ DOMAIN es = 1..Len(es) /\ Len(fs) \in Nat /\ DOMAIN fs = 1..Len(fs)
      /\ n \in 1..(Len(es) + 1) /\ n - 1 = Len(es)
  BY <1>1
<1> HIDE DEF n
<1>3. CASE \A d \in 1..(Len(fs) - 1) : ~Reached(fs[d])
  <2>1. Since(es, v, 0)
    BY <1>1, <1>3
  <2>2. \A j \in 1..(n - 1) : ~Before(es, j, n)
    BY <1>2, <1>3, BeforeIsFrame DEF n
  <2>3. Reach(es, n, None)
    <3>1. CASE \A m \in 1..(n - 1) : ~FieldOut(es[m])
      BY <3>1 DEF Reach
    <3>2. CASE \E m \in 1..(n - 1) : /\ FieldOut(es[m])
                                     /\ \A l \in (m + 1)..(n - 1) : ~FieldOut(es[l])
      <4>1. PICK m \in 1..(n - 1) : /\ FieldOut(es[m])
                                    /\ \A l \in (m + 1)..(n - 1) : ~FieldOut(es[l])
        BY <3>2
      <4>2. m \in (0 + 1)..Len(es)
        BY <1>2
      <4>3. ~Enter(es[m])
        BY <4>1 DEF FieldOut
      <4>4. es[m].last
        BY <1>2, <2>1, <4>1, <4>2, <4>3 DEF Since
      <4>5. After(es[m]) = None
        BY <4>4 DEF After
      <4> QED BY <4>1, <4>5 DEF Reach
    <3> QED BY <1>1, <1>2, <3>1, <3>2, LatestField
  <2> QED BY <2>2, <2>3 DEF Around, n
<1>4. CASE \E c \in DOMAIN fs : InnerAccess(fs, c)
  <2>1. PICK c \in DOMAIN fs : InnerAccess(fs, c)
    BY <1>4
  <2>2. /\ c \in 1..(Len(fs) - 1) /\ Reached(fs[c])
        /\ \A d \in (c + 1)..(Len(fs) - 1) : ~Reached(fs[d])
    BY <2>1 DEF InnerAccess
  <2>3. PICK j : j = fs[c + 1].node
    OBVIOUS
  <2>4. /\ c + 1 \in DOMAIN fs /\ Bracket(fs[c + 1])
        /\ j \in DOMAIN es /\ Enter(es[j]) /\ es[j].field /\ es[j].base = fs[c].base
    BY <1>1, <2>2, <2>3, FieldAbove
  <2>5. j \in 1..(n - 1) /\ es[j].base # None
    BY <1>2, <2>2, <2>4 DEF Reached
  <2>6. Before(es, j, n)
    BY <1>2, <2>2, <2>3, <2>5, BeforeIsFrame DEF n
  <2>7. ASSUME NEW i \in 1..(n - 1), Before(es, i, n)
        PROVE  i <= j
    <3>1. PICK d \in 1..(Len(fs) - 1) : Reached(fs[d]) /\ fs[d + 1].node = i
      BY <1>2, <2>7, BeforeIsFrame DEF n
    <3>2. d <= c
      BY <1>2, <2>2, <3>1
    <3>3. d + 1 \in DOMAIN fs /\ Bracket(fs[d + 1])
      BY <1>1, <3>1, FieldAbove
    <3>4. d = c \/ d + 1 < c + 1
      BY <1>2, <2>2, <3>2
    <3> QED BY <1>1, <1>2, <2>3, <2>4, <2>5, <3>1, <3>3, <3>4 DEF NodesInOrder
  <2>8. Reach(es, j, es[j].base)
    <3>1. EventOK(es, j) /\ Where(es, j)
      BY <1>1, <2>4
    <3>2. es[j].node = 0
      BY <2>4, <3>1 DEF EventOK, Enter
    <3> QED BY <2>4, <2>5, <3>1, <3>2 DEF Where
  <2>9. PICK l \in 1..(j - 1) : /\ FieldOut(es[l]) /\ es[j].base = After(es[l])
                                /\ \A x \in (l + 1)..(j - 1) : ~FieldOut(es[x])
    BY <2>5, <2>8 DEF Reach
  <2>10. Since(es, v, j)
    BY <1>1, <2>1, <2>3
  <2>11. PICK m \in 1..(n - 1) : /\ FieldOut(es[m])
                                 /\ \A x \in (m + 1)..(n - 1) : ~FieldOut(es[x])
    <3>1. l \in 1..(n - 1) /\ FieldOut(es[l])
      BY <1>2, <2>5, <2>9
    <3> QED BY <1>1, <1>2, <3>1, LatestField
  <2>12. ~Enter(es[m]) /\ m # j
    BY <2>4, <2>11 DEF FieldOut
  <2>13. CASE m < j
    <3>1. m = l
      <4>1. ~(l \in (m + 1)..(n - 1)) /\ ~(m \in (l + 1)..(j - 1))
        BY <2>9, <2>11
      <4> QED BY <1>2, <2>5, <2>13, <4>1
    <3>2. Reach(es, n, es[j].base)
      BY <2>9, <2>11, <3>1 DEF Reach
    <3>3. \A x \in j..(n - 1) : ~FieldOut(es[x])
      <4> TAKE x \in j..(n - 1)
      <4>1. x \in DOMAIN es /\ x \in (m + 1)..(n - 1)
        BY <1>2, <2>5, <2>13
      <4> QED BY <2>11, <4>1
    <3> QED BY <2>5, <2>6, <2>7, <3>2, <3>3 DEF Around, n
  <2>14. CASE m > j
    <3>1. m \in (j + 1)..Len(es)
      BY <1>2, <2>5, <2>14
    <3>2. v # None
      BY <2>10, <2>12, <3>1 DEF Since
    <3>3. es[m].last
      BY <1>2, <2>10, <2>11, <3>1, <3>2 DEF Since
    <3>4. Reach(es, n, None)
      BY <2>11, <3>3 DEF Reach, After
    <3>5. m \in j..(n - 1)
      BY <1>2, <2>5, <2>14
    <3> QED BY <2>5, <2>6, <2>7, <3>2, <3>3, <3>4, <3>5 DEF Around, n
  <2> QED BY <1>2, <2>5, <2>12, <2>13, <2>14
<1> QED BY <1>1, <1>3, <1>4, InnerExists

-----------------------------------------------------------------------------
(* What a new event is.                                                    *)

AfterOperand == {"exitCall", "exitIndex", "paren", "prefix", "postfix"}

\* The new event's place among the accesses.
LEMMA WhereNew ==
  ASSUME NEW es, NEW fs, NEW v, Walk(es, fs, v), NEW e \in EventSet,
         e.kind \in AfterOperand <=> v # None,
         (e.field /\ e.base # None /\ e.node = 0)
           => Reached(fs[Len(fs)]) /\ fs[Len(fs)].base = e.base,
         ~(e.field /\ e.base # None /\ e.node = 0) => ~Reached(fs[Len(fs)])
  PROVE  Where(Append(es, e), Len(es) + 1)
<1> DEFINE es2 == Append(es, e)
           n == Len(es) + 1
<1>1. es \in Seq(EventSet) /\ Current(es, fs, v)
  BY DEF Walk
<1>2. es2[n] = e /\ n \in 1..(Len(es) + 1)
  BY <1>1
<1>3. /\ \A t : Reach(es2, n, t) <=> Reach(es, n, t)
      /\ \A after : Around(es2, n, after) <=> Around(es, n, after)
  BY <1>1, <1>2, PrefixKept
<1> HIDE DEF es2
<1>4. CASE e.field /\ e.base # None /\ e.node = 0
  <2>1. Reach(es, n, e.base)
    BY <1>1, <1>4 DEF Current
  <2> QED BY <1>2, <1>3, <1>4, <2>1 DEF Where, es2
<1>5. CASE ~(e.field /\ e.base # None /\ e.node = 0)
  <2>1. Around(es, n, v # None)
    BY <1>5, Located
  <2>2. (e.kind \in AfterOperand) = (v # None)
    BY DEF AfterOperand
  <2>3. Around(es2, n, e.kind \in AfterOperand)
    BY <1>3, <2>1, <2>2
  <2> QED BY <1>2, <1>5, <2>3 DEF Where, AfterOperand, es2
<1> QED BY <1>4, <1>5

\* The node of an exit is that of the innermost frame: nothing entered later
\* is open.
LEMMA InnermostNode ==
  ASSUME NEW es, NEW fs, NEW v, Walk(es, fs, v), Bracket(fs[Len(fs)])
  PROVE  LET f == fs[Len(fs)] IN
         /\ f.node \in 1..Len(es) /\ ~ExitedBy(es, f.node, Len(es))
         /\ es[f.node].kind = IF f.kind = "call" THEN "enterCall" ELSE "enterIndex"
         /\ es[f.node].name = f.name /\ es[f.node].field = f.field
         /\ Len(fs) > 1 /\ es[f.node].base = IF f.field THEN fs[Len(fs) - 1].base ELSE None
         /\ f.field <=> fs[Len(fs) - 1].kind = "access"
         /\ \A j \in 1..Len(es) : Enter(es[j]) /\ ~ExitedBy(es, j, Len(es)) => j <= f.node
         /\ \A d \in 1..(Len(fs) - 1) : Bracket(fs[d]) => fs[d].node < f.node
<1>1. /\ es \in Seq(EventSet) /\ fs \in Seq(FrameSet) /\ fs # <<>>
      /\ \A d \in DOMAIN fs : FrameOK(es, fs, d)
      /\ NodesInOrder(fs) /\ EntersAccounted(es, fs)
  BY DEF Walk
<1>2. /\ Len(fs) \in Nat /\ Len(fs) \in DOMAIN fs /\ DOMAIN fs = 1..Len(fs)
      /\ Len(es) \in Nat /\ DOMAIN es = 1..Len(es)
  BY <1>1
<1> DEFINE f == fs[Len(fs)]
<1>3. FrameOK(es, fs, Len(fs))
  BY <1>1, <1>2
<1>4. /\ f.node \in 1..Len(es) /\ ~ExitedBy(es, f.node, Len(es))
      /\ es[f.node].kind = IF f.kind = "call" THEN "enterCall" ELSE "enterIndex"
      /\ es[f.node].name = f.name /\ es[f.node].field = f.field
  BY <1>2, <1>3 DEF FrameOK
<1>5. Len(fs) > 1
  BY <1>2, <1>3 DEF FrameOK, Bracket
<1>6. /\ es[f.node].base = IF f.field THEN fs[Len(fs) - 1].base ELSE None
      /\ f.field <=> fs[Len(fs) - 1].kind = "access"
  BY <1>3, <1>5 DEF FrameOK, Bracket
<1>7. \A d \in 1..(Len(fs) - 1) : Bracket(fs[d]) => fs[d].node < f.node
  BY <1>1, <1>2 DEF NodesInOrder
<1>8. ASSUME NEW j \in 1..Len(es), Enter(es[j]), ~ExitedBy(es, j, Len(es))
      PROVE  j <= f.node
  <2>1. PICK d \in DOMAIN fs : Bracket(fs[d]) /\ fs[d].node = j
    BY <1>1, <1>2, <1>8 DEF EntersAccounted
  <2>2. d = Len(fs) \/ d \in 1..(Len(fs) - 1)
    BY <1>2
  <2> QED BY <1>2, <1>4, <1>7, <2>1, <2>2
<1> QED BY <1>4, <1>5, <1>6, <1>7, <1>8

-----------------------------------------------------------------------------
(* How the open frames change.                                             *)

\* A frame with nothing exited in it stays what it is.
LEMMA FrameKept ==
  ASSUME NEW es \in Seq(EventSet), NEW e \in EventSet, NEW fs, NEW fs2, NEW d \in Nat,
         FrameOK(es, fs, d), fs2[d] = fs[d], d > 1 => fs2[d - 1] = fs[d - 1],
         Bracket(fs[d]) => e.node # fs[d].node
  PROVE  FrameOK(Append(es, e), fs2, d)
<1> DEFINE es2 == Append(es, e)
<1>1. /\ Len(es) \in Nat /\ Len(es2) = Len(es) + 1 /\ DOMAIN es = 1..Len(es)
      /\ DOMAIN es2 = 1..(Len(es) + 1) /\ \A i \in 1..Len(es) : es2[i] = es[i]
  BY Appended
<1>2. \A i : ExitedBy(es2, i, Len(es) + 1) <=> ExitedBy(es, i, Len(es)) \/ e.node = i
  BY PrefixKept
<1> HIDE DEF es2
<1>3. Bracket(fs[d]) =>
        /\ fs[d].node \in DOMAIN es /\ fs[d].node \in DOMAIN es2
        /\ es2[fs[d].node] = es[fs[d].node] /\ ~ExitedBy(es2, fs[d].node, Len(es2))
  BY <1>1, <1>2 DEF FrameOK
<1> QED BY <1>3 DEF FrameOK, es2

\* An event that enters nothing, after which only the frames up to K are open.
\* The last of them may be an access that has reached another type.
Shrinks(es, e, fs, fs2, K) ==
  /\ e \in EventSet /\ ~Enter(e)
  /\ fs2 \in Seq(FrameSet) /\ Len(fs2) = K /\ K \in 1..Len(fs)
  /\ \A d \in 1..(K - 1) : fs2[d] = fs[d]
  /\ \/ fs2[K] = fs[K]
     \/ /\ fs[K].kind = "access" /\ fs2[K].kind = "access"
        /\ fs2[K].field = fs[K].field /\ fs2[K].node = fs[K].node
        /\ \E i \in 1..(Len(es) + 1) :
             /\ Begins(Append(es, e)[i])
             /\ \A c \in 1..(K - 1) : Bracket(fs[c]) => fs[c].node < i
  /\ \A d \in (K + 1)..Len(fs) : Bracket(fs[d]) => fs[d].node = e.node
  /\ \A d \in 1..K : Bracket(fs[d]) => fs[d].node # e.node

\* So what is said of the frames that stay open still holds.
LEMMA FramesShrink ==
  ASSUME NEW es, NEW fs, NEW v, Walk(es, fs, v), NEW e, NEW fs2, NEW K,
         Shrinks(es, e, fs, fs2, K)
  PROVE  LET es2 == Append(es, e) IN
         /\ fs2 # <<>> /\ DOMAIN fs2 = 1..K
         /\ \A d \in DOMAIN fs2 : FrameOK(es2, fs2, d)
         /\ NodesInOrder(fs2) /\ EntersAccounted(es2, fs2) /\ AccessesBegun(es2, fs2)
<1> DEFINE es2 == Append(es, e)
<1>1. /\ es \in Seq(EventSet) /\ fs \in Seq(FrameSet) /\ fs # <<>>
      /\ \A d \in DOMAIN fs : FrameOK(es, fs, d)
      /\ NodesInOrder(fs) /\ EntersAccounted(es, fs) /\ AccessesBegun(es, fs)
  BY DEF Walk
<1>2. /\ e \in EventSet /\ ~Enter(e)
      /\ fs2 \in Seq(FrameSet) /\ Len(fs2) = K /\ K \in 1..Len(fs)
      /\ \A d \in 1..(K - 1) : fs2[d] = fs[d]
      /\ \A d \in (K + 1)..Len(fs) : Bracket(fs[d]) => fs[d].node = e.node
      /\ \A d \in 1..K : Bracket(fs[d]) => fs[d].node # e.node
  BY DEF Shrinks
<1>3. \/ fs2[K] = fs[K]
      \/ /\ fs[K].kind = "access" /\ fs2[K].kind = "access"
         /\ fs2[K].field = fs[K].field /\ fs2[K].node = fs[K].node
         /\ \E i \in 1..(Len(es) + 1) :
              /\ Begins(es2[i])
              /\ \A c \in 1..(K - 1) : Bracket(fs[c]) => fs[c].node < i
  BY DEF Shrinks
<1>4. /\ Len(es) \in Nat /\ es2 \in Seq(EventSet) /\ Len(es2) = Len(es) + 1
      /\ DOMAIN es = 1..Len(es) /\ DOMAIN es2 = 1..(Len(es) + 1)
      /\ es2[Len(es) + 1] = e /\ \A i \in 1..Len(es) : es2[i] = es[i]
  BY <1>1, <1>2, Appended
<1>5. \A i : ExitedBy(es2, i, Len(es) + 1) <=> ExitedBy(es, i, Len(es)) \/ e.node = i
  BY <1>1, <1>2, PrefixKept
<1>6. /\ K \in Nat /\ K >= 1 /\ Len(fs) \in Nat /\ DOMAIN fs = 1..Len(fs)
      /\ DOMAIN fs2 = 1..K /\ fs2 # <<>> /\ \A d \in 1..K : d \in DOMAIN fs
  BY <1>1, <1>2
<1>7. \A d \in 1..K : /\ Bracket(fs2[d]) <=> Bracket(fs[d])
                      /\ fs2[d].node = fs[d].node
                      /\ Reached(fs2[d]) /\ fs2[d] # fs[d] => d = K
  <2> TAKE d \in 1..K
  <2>1. d \in 1..(K - 1) \/ d = K
    BY <1>6
  <2> QED BY <1>2, <1>3, <2>1 DEF Bracket
<1>8. \A d \in DOMAIN fs2 : FrameOK(es2, fs2, d)
  <2> SUFFICES ASSUME NEW d \in 1..K PROVE FrameOK(es2, fs2, d)
    BY <1>6
  <2>1. FrameOK(es, fs, d) /\ d \in Nat /\ (d > 1 => fs2[d - 1] = fs[d - 1])
    <3>1. d > 1 => d - 1 \in 1..(K - 1)
      BY <1>6
    <3> QED BY <1>1, <1>2, <1>6, <3>1
  <2>2. CASE fs2[d] = fs[d]
    <3>1. Bracket(fs[d]) => e.node # fs[d].node
      BY <1>2
    <3> QED BY <1>1, <1>2, <2>1, <2>2, <3>1, FrameKept
  <2>3. CASE fs2[d] # fs[d]
    <3>1. d = K
      BY <1>2, <1>6, <2>3
    <3>2. /\ fs[d].kind = "access" /\ fs2[d].kind = "access"
          /\ fs2[d].field = fs[d].field /\ fs2[d].node = fs[d].node
      BY <1>3, <2>3, <3>1
    <3> QED BY <2>1, <3>2 DEF FrameOK, Bracket
  <2> QED BY <2>2, <2>3
<1>9. NodesInOrder(fs2)
  BY <1>1, <1>6, <1>7 DEF NodesInOrder
<1>10. EntersAccounted(es2, fs2)
  <2> SUFFICES ASSUME NEW i \in 1..(Len(es) + 1), Enter(es2[i])
               PROVE  \/ ExitedBy(es2, i, Len(es2))
                      \/ \E d \in DOMAIN fs2 : Bracket(fs2[d]) /\ fs2[d].node = i
    BY <1>4 DEF EntersAccounted
  <2>1. i # Len(es) + 1
    BY <1>2, <1>4
  <2>2. i \in DOMAIN es /\ Enter(es[i])
    BY <1>4, <2>1
  <2>3. CASE ExitedBy(es, i, Len(es))
    BY <1>4, <1>5, <2>3
  <2>4. CASE \E d \in DOMAIN fs : Bracket(fs[d]) /\ fs[d].node = i
    <3>1. PICK d \in DOMAIN fs : Bracket(fs[d]) /\ fs[d].node = i
      BY <2>4
    <3>2. d \in 1..K \/ d \in (K + 1)..Len(fs)
      BY <1>6
    <3>3. CASE d \in 1..K
      BY <1>6, <1>7, <3>1, <3>3
    <3>4. CASE d \in (K + 1)..Len(fs)
      BY <1>2, <1>4, <1>5, <3>1, <3>4
    <3> QED BY <3>2, <3>3, <3>4
  <2> QED BY <1>1, <2>2, <2>3, <2>4 DEF EntersAccounted
<1>11. AccessesBegun(es2, fs2)
  <2> SUFFICES ASSUME NEW d \in 1..K, Reached(fs2[d])
               PROVE  \E i \in DOMAIN es2 :
                        /\ Begins(es2[i])
                        /\ \A c \in 1..(d - 1) : Bracket(fs2[c]) => fs2[c].node < i
    BY <1>6 DEF AccessesBegun
  <2>1. \A c \in 1..(d - 1) : c \in 1..(K - 1) /\ fs2[c] = fs[c]
    BY <1>2, <1>6
  <2>2. CASE fs2[d] = fs[d]
    <3>1. PICK i \in DOMAIN es : /\ Begins(es[i])
                                 /\ \A c \in 1..(d - 1) : Bracket(fs[c]) => fs[c].node < i
      BY <1>1, <1>6, <2>2 DEF AccessesBegun
    <3>2. i \in DOMAIN es2 /\ es2[i] = es[i]
      BY <1>4
    <3> QED BY <2>1, <3>1, <3>2
  <2>3. CASE fs2[d] # fs[d]
    <3>1. d = K
      BY <1>7, <2>3
    <3> QED BY <1>3, <1>4, <2>1, <2>3, <3>1
  <2> QED BY <2>2, <2>3
<1> QED BY <1>6, <1>8, <1>9, <1>10, <1>11

-----------------------------------------------------------------------------
(* The type checker's steps.                                               *)

\* An event and a frame more, or frames less: the parts that are left of Walk
\* once an event is what it is to be.
LEMMA WalkShrinks ==
  ASSUME NEW es, NEW fs, NEW v, Walk(es, fs, v), NEW e, NEW fs2, NEW K,
         Shrinks(es, e, fs, fs2, K), NEW v2,
         EventOK(Append(es, e), Len(es) + 1), Where(Append(es, e), Len(es) + 1),
         Begun(Append(es, e), Len(es) + 1),
         fs2[Len(fs2)].kind = "access" => v2 = None,
         Current(Append(es, e), fs2, v2)
  PROVE  Walk(Append(es, e), fs2, v2)
<1> DEFINE es2 == Append(es, e)
<1>1. es \in Seq(EventSet) /\ \A k \in DOMAIN es : EventOK(es, k) /\ Where(es, k) /\ Begun(es, k)
  BY DEF Walk
<1>2. e \in EventSet /\ fs2 \in Seq(FrameSet)
  BY DEF Shrinks
<1>3. /\ es2 \in Seq(EventSet) /\ DOMAIN es = 1..Len(es) /\ DOMAIN es2 = 1..(Len(es) + 1)
      /\ Len(es) \in Nat
  BY <1>1, <1>2, Appended
<1>4. \A k \in DOMAIN es : EventOK(es2, k) /\ Where(es2, k) /\ Begun(es2, k)
  BY <1>1, <1>2, EventsKept
<1>5. /\ fs2 # <<>> /\ \A d \in DOMAIN fs2 : FrameOK(es2, fs2, d)
      /\ NodesInOrder(fs2) /\ EntersAccounted(es2, fs2) /\ AccessesBegun(es2, fs2)
  BY FramesShrink
<1> HIDE DEF es2
<1>6. \A k \in DOMAIN es2 : EventOK(es2, k) /\ Where(es2, k) /\ Begun(es2, k)
  <2> TAKE k \in DOMAIN es2
  <2>1. k \in DOMAIN es \/ k = Len(es) + 1
    BY <1>3
  <2> QED BY <1>4, <2>1 DEF es2
<1> QED BY <1>2, <1>3, <1>5, <1>6 DEF Walk, es2

\* There is a frame above the innermost access, with a node.
LEMMA InnerNode ==
  ASSUME NEW fs \in Seq(FrameSet), NEW c \in DOMAIN fs, InnerAccess(fs, c)
  PROVE  c + 1 \in DOMAIN fs /\ fs[c + 1].node \in Nat
<1>1. c + 1 \in DOMAIN fs
  BY DEF InnerAccess
<1>2. fs[c + 1] \in FrameSet
  BY <1>1
<1> QED BY <1>1, <1>2 DEF FrameSet

\* Literals and variables.
LEMMA OperandRecorded ==
  ASSUME NEW es, NEW fs, Walk(es, fs, None), fs[Len(fs)].kind # "access",
         NEW e \in EventSet, e.kind \in {"literal", "variable", "postfixVariable"},
         ~e.field, e.base = None, e.node = 0, ~e.last, ~e.arrow, NEW v2, v2 # None
  PROVE  Walk(Append(es, e), fs, v2)
<1> DEFINE es2 == Append(es, e)
           n == Len(es) + 1
<1>1. /\ es \in Seq(EventSet) /\ fs \in Seq(FrameSet) /\ fs # <<>> /\ Current(es, fs, None)
      /\ \A d \in DOMAIN fs : FrameOK(es, fs, d)
  BY DEF Walk
<1>2. /\ Len(es) \in Nat /\ Len(es2) = n /\ es2[n] = e /\ \A i \in 1..Len(es) : es2[i] = es[i]
      /\ Len(fs) \in Nat /\ Len(fs) >= 1 /\ DOMAIN fs = 1..Len(fs)
  BY <1>1
<1>3. ~FieldOut(e) /\ ~Enter(e) /\ ~Reached(fs[Len(fs)])
  BY DEF FieldOut, Enter, Reached
<1>4. Shrinks(es, e, fs, fs, Len(fs))
  <2>1. \A d \in DOMAIN fs : Bracket(fs[d]) => fs[d].node # e.node
    <3> TAKE d \in DOMAIN fs
    <3>1. FrameOK(es, fs, d) /\ 0 \notin DOMAIN es
      BY <1>1
    <3> QED BY <3>1 DEF FrameOK
  <2>2. (Len(fs) + 1)..Len(fs) = {}
    BY <1>2
  <2> QED BY <1>1, <1>2, <1>3, <2>1, <2>2 DEF Shrinks
<1>5. Where(es2, n)
  BY <1>3, WhereNew DEF AfterOperand
<1> HIDE DEF es2
<1>6. EventOK(es2, n) /\ Begun(es2, n)
  BY <1>2, <1>3 DEF EventOK, Begun
<1>7. Current(es2, fs, v2)
  <2>1. ASSUME NEW s \in Nat, Since(es, None, s)
        PROVE  Since(es2, v2, s)
    <3> SUFFICES ASSUME NEW m \in (s + 1)..n, FieldOut(es2[m])
                 PROVE  FALSE
      BY <1>2 DEF Since
    <3>1. m # n
      BY <1>2, <1>3
    <3>2. m \in (s + 1)..Len(es) /\ m \in 1..Len(es)
      BY <1>2, <3>1
    <3>3. Enter(es[m])
      BY <2>1, <3>2 DEF Since
    <3> QED BY <1>2, <3>2, <3>3 DEF FieldOut
  <2>2. \A c \in DOMAIN fs : InnerAccess(fs, c) => fs[c + 1].node \in Nat
    BY <1>1, InnerNode
  <2> QED BY <1>1, <1>3, <2>1, <2>2 DEF Current
<1> QED BY <1>4, <1>5, <1>6, <1>7, WalkShrinks DEF es2

\* Calls and indices that are no fields, and increments.
LEMMA OperandExited ==
  ASSUME NEW es, NEW fs, NEW v, Walk(es, fs, v), v # None, Len(fs) > 1,
         NEW e \in EventSet, ~e.field, e.base = None, ~e.last, ~e.arrow,
         \/ /\ e.kind \in {"prefix", "postfix"} /\ fs[Len(fs)].kind \in {"prefix", "postfix"}
            /\ e.node = 0
         \/ /\ fs[Len(fs)].kind = IF e.kind = "exitCall" THEN "call" ELSE "index"
            /\ e.kind \in {"exitCall", "exitIndex"} /\ ~fs[Len(fs)].field
            /\ e.name = fs[Len(fs)].name /\ e.node = fs[Len(fs)].node
            /\ e.kind = "exitCall" => e.name \in Functions,
         NEW fs2 \in Seq(FrameSet), Len(fs2) = Len(fs) - 1,
         \A d \in 1..(Len(fs) - 1) : fs2[d] = fs[d],
         NEW v2, v2 # None
  PROVE  Walk(Append(es, e), fs2, v2)
<1> DEFINE es2 == Append(es, e)
           n == Len(es) + 1
           K == Len(fs) - 1
<1>1. /\ es \in Seq(EventSet) /\ fs \in Seq(FrameSet) /\ fs # <<>> /\ Current(es, fs, v)
      /\ \A d \in DOMAIN fs : FrameOK(es, fs, d)
  BY DEF Walk
<1>2. /\ Len(es) \in Nat /\ Len(es2) = n /\ es2[n] = e /\ \A i \in 1..Len(es) : es2[i] = es[i]
      /\ Len(fs) \in Nat /\ DOMAIN fs = 1..Len(fs) /\ K \in 1..Len(fs) /\ K >= 1 /\ K + 1 = Len(fs)
      /\ DOMAIN fs2 = 1..K
  BY <1>1
<1>3. ~FieldOut(e) /\ ~Enter(e) /\ ~Reached(fs[Len(fs)])
  BY DEF FieldOut, Enter, Reached
<1>4. fs[K].kind # "access"
  <2>1. FrameOK(es, fs, Len(fs)) /\ Len(fs) > 1
    BY <1>1, <1>2
  <2>2. ~fs[Len(fs)].field /\ fs[Len(fs)].kind # "paren"
    BY <2>1 DEF FrameOK, Bracket
  <2> QED BY <2>1, <2>2 DEF FrameOK
<1>5. \A d \in DOMAIN fs : Bracket(fs[d]) => fs[d].node \in DOMAIN es
  BY <1>1 DEF FrameOK
<1>6. e.node # 0 => Bracket(fs[Len(fs)]) /\ e.node = fs[Len(fs)].node
  BY DEF Bracket
<1>7. Bracket(fs[Len(fs)]) => e.node = fs[Len(fs)].node /\ e.kind \in {"exitCall", "exitIndex"}
  BY DEF Bracket
<1>8. Shrinks(es, e, fs, fs2, K)
  <2>1. \A d \in 1..K : Bracket(fs[d]) => fs[d].node # e.node
    <3> SUFFICES ASSUME NEW d \in 1..K, Bracket(fs[d]), fs[d].node = e.node
                 PROVE  FALSE
      OBVIOUS
    <3>1. e.node # 0
      BY <1>2, <1>5
    <3>2. fs[d].node < fs[Len(fs)].node
      BY <1>6, <3>1, InnermostNode
    <3>3. fs[d].node \in Int
      BY <1>2, <1>5
    <3> QED BY <1>6, <3>1, <3>2, <3>3
  <2>2. \A d \in (K + 1)..Len(fs) : d = Len(fs)
    BY <1>2
  <2> QED BY <1>2, <1>3, <1>7, <2>1, <2>2 DEF Shrinks
<1>9. Where(es2, n)
  BY <1>3, WhereNew DEF AfterOperand
<1> HIDE DEF es2, K
<1>10. EventOK(es2, n)
  <2>1. n - 1 = Len(es) /\ \A i : ExitedBy(es2, i, Len(es)) <=> ExitedBy(es, i, Len(es))
    BY <1>1, <1>2, PrefixKept DEF es2
  <2>2. CASE e.kind \in {"prefix", "postfix"}
    <3>1. e.node = 0
      BY <2>2
    <3> QED BY <1>2, <1>3, <2>2, <3>1 DEF EventOK
  <2>3. CASE e.kind \in {"exitCall", "exitIndex"}
    <3>1. /\ Bracket(fs[Len(fs)]) /\ ~fs[Len(fs)].field /\ e.name = fs[Len(fs)].name
          /\ e.node = fs[Len(fs)].node
          /\ fs[Len(fs)].kind = IF e.kind = "exitCall" THEN "call" ELSE "index"
          /\ e.kind = "exitCall" => e.name \in Functions
      BY <2>3 DEF Bracket
    <3>2. /\ e.node \in 1..Len(es) /\ ~ExitedBy(es, e.node, Len(es))
          /\ es[e.node].kind = IF e.kind = "exitCall" THEN "enterCall" ELSE "enterIndex"
          /\ es[e.node].name = e.name /\ es[e.node].field = e.field
          /\ es[e.node].base = e.base
      <4>1. e.field = FALSE
        BY DEF EventSet
      <4>2. fs[Len(fs)].field = FALSE
        <5>1. fs[Len(fs)] \in FrameSet
          BY <1>1, <1>2
        <5> QED BY <3>1, <5>1 DEF FrameSet
      <4>3. PICK f : f = fs[Len(fs)]
        OBVIOUS
      <4>4. /\ f.node \in 1..Len(es) /\ ~ExitedBy(es, f.node, Len(es))
            /\ es[f.node].kind = IF f.kind = "call" THEN "enterCall" ELSE "enterIndex"
            /\ es[f.node].name = f.name /\ es[f.node].field = f.field
            /\ es[f.node].base = IF f.field THEN fs[Len(fs) - 1].base ELSE None
        BY <3>1, <4>3, InnermostNode
      <4>5. f.kind = "call" <=> e.kind = "exitCall"
        BY <2>3, <3>1, <4>3
      <4>6. es[f.node].base = e.base
        BY <4>2, <4>3, <4>4
      <4> QED BY <3>1, <4>1, <4>2, <4>3, <4>4, <4>5, <4>6
    <3>3. \A j \in 1..Len(es) : Enter(es[j]) /\ ~ExitedBy(es, j, Len(es)) => j <= e.node
      BY <3>1, InnermostNode
    <3>4. e.node # 0 /\ \A i \in 1..Len(es) : es2[i] = es[i]
      BY <1>2, <3>2
    <3> QED BY <1>2, <1>3, <2>1, <2>3, <3>1, <3>2, <3>3, <3>4 DEF EventOK
  <2> QED BY <2>2, <2>3
<1>11. Begun(es2, n)
  BY <1>2, <1>3 DEF Begun
<1>12. Current(es2, fs2, v2)
  <2>1. ASSUME NEW s \in Nat, Since(es, v, s)
        PROVE  Since(es2, v2, s)
    <3> SUFFICES ASSUME NEW m \in (s + 1)..n, FieldOut(es2[m]),
                        \A l \in (m + 1)..n : ~FieldOut(es2[l])
                 PROVE  es2[m].last
      BY <1>2 DEF Since
    <3>1. m # n
      BY <1>2, <1>3
    <3>2. m \in (s + 1)..Len(es) /\ m \in 1..Len(es)
      BY <1>2, <3>1
    <3>3. \A l \in (m + 1)..Len(es) : l \in (m + 1)..n /\ es2[l] = es[l]
      BY <1>2, <3>2
    <3> QED BY <1>2, <2>1, <3>2, <3>3 DEF Since
  <2>2. fs2[K] = fs[K] /\ Len(fs2) = K
    BY <1>2 DEF K
  <2>3. ~Reached(fs2[Len(fs2)])
    BY <1>4, <2>2 DEF Reached
  <2>4. (\A d \in 1..(K - 1) : ~Reached(fs2[d])) => \A d \in 1..(Len(fs) - 1) : ~Reached(fs[d])
    <3>1. \A d \in 1..(Len(fs) - 1) : d = K \/ (d \in 1..(K - 1) /\ fs2[d] = fs[d])
      BY <1>2 DEF K
    <3> QED BY <1>4, <3>1 DEF Reached
  <2>5. \A c \in DOMAIN fs2 : InnerAccess(fs2, c) =>
          /\ c \in DOMAIN fs /\ InnerAccess(fs, c) /\ fs2[c + 1] = fs[c + 1]
    <3> SUFFICES ASSUME NEW c \in DOMAIN fs2, InnerAccess(fs2, c)
                 PROVE  c \in DOMAIN fs /\ InnerAccess(fs, c) /\ fs2[c + 1] = fs[c + 1]
      OBVIOUS
    <3>1. c \in 1..(K - 1) /\ Reached(fs2[c]) /\ \A d \in (c + 1)..(K - 1) : ~Reached(fs2[d])
      BY <2>2 DEF InnerAccess
    <3>2. /\ c \in 1..(Len(fs) - 1) /\ c \in DOMAIN fs /\ fs2[c] = fs[c]
          /\ c + 1 \in 1..(Len(fs) - 1) /\ fs2[c + 1] = fs[c + 1]
      BY <1>2, <3>1 DEF K
    <3>3. \A d \in (c + 1)..(Len(fs) - 1) : d = K \/ (d \in (c + 1)..(K - 1) /\ fs2[d] = fs[d])
      BY <1>2, <3>1 DEF K
    <3>4. \A d \in (c + 1)..(Len(fs) - 1) : ~Reached(fs[d])
      BY <1>4, <3>1, <3>3 DEF Reached
    <3> QED BY <3>1, <3>2, <3>4 DEF InnerAccess
  <2>6. \A c \in DOMAIN fs : InnerAccess(fs, c) => fs[c + 1].node \in Nat
    BY <1>1, InnerNode
  <2> QED BY <1>1, <1>3, <2>1, <2>2, <2>3, <2>4, <2>5, <2>6 DEF Current
<1>13. fs2[Len(fs2)].kind # "access"
  <2>1. Len(fs2) = K /\ fs2[K] = fs[K]
    BY <1>2 DEF K
  <2> QED BY <1>4, <2>1
<1> QED BY <1>8, <1>9, <1>10, <1>11, <1>12, <1>13, WalkShrinks DEF es2

\* A field is exited: a name, or what the innermost frame K + 1 was.
FieldEvent(es, fs, v, e, K) ==
  /\ e \in EventSet /\ e.field /\ K \in 2..Len(fs) /\ fs[K].kind = "access"
  /\ e.base = fs[K].base /\ e.type # None
  /\ e.last => e.base # None /\ ~e.arrow
  /\ \/ /\ e.kind = "identifier" /\ K = Len(fs) /\ v = None /\ e.node = 0
        /\ e.base # None => e.type = FieldType(e.base, e.name)
     \/ /\ e.kind = "paren" /\ K = Len(fs) - 1 /\ v # None /\ e.node = 0
        /\ fs[Len(fs)].kind = "paren"
     \/ /\ e.kind \in {"exitCall", "exitIndex"} /\ K = Len(fs) - 1 /\ v # None
        /\ fs[Len(fs)].kind = IF e.kind = "exitCall" THEN "call" ELSE "index"
        /\ e.name = fs[Len(fs)].name /\ e.node = fs[Len(fs)].node
        /\ e.kind = "exitCall" => e.base \in Structs /\ e.name \in Functions

\* Such an event is what it is to be, and its access has a first field.
LEMMA FieldEventOK ==
  ASSUME NEW es, NEW fs, NEW v, Walk(es, fs, v), NEW e, NEW K, FieldEvent(es, fs, v, e, K)
  PROVE  LET es2 == Append(es, e)
             n   == Len(es) + 1
         IN
         /\ EventOK(es2, n) /\ Where(es2, n) /\ Begun(es2, n)
         /\ \E i \in 1..n : /\ Begins(es2[i])
                            /\ \A c \in 1..(K - 1) : Bracket(fs[c]) => fs[c].node < i
         /\ FieldOut(e) /\ ~Enter(e)
         /\ \A d \in (K + 1)..Len(fs) : Bracket(fs[d]) => fs[d].node = e.node
         /\ \A d \in 1..K : Bracket(fs[d]) => fs[d].node # e.node
         /\ fs[K - 1].kind # "access"
<1> DEFINE es2 == Append(es, e)
           n == Len(es) + 1
           f == fs[Len(fs)]
<1>1. /\ es \in Seq(EventSet) /\ fs \in Seq(FrameSet) /\ fs # <<>>
      /\ \A k \in DOMAIN es : EventOK(es, k)
      /\ \A d \in DOMAIN fs : FrameOK(es, fs, d)
      /\ EntersAccounted(es, fs) /\ AccessesBegun(es, fs)
  BY DEF Walk
<1>2. /\ e \in EventSet /\ e.field /\ K \in 2..Len(fs) /\ fs[K].kind = "access"
      /\ e.base = fs[K].base /\ e.type # None
      /\ e.last => e.base # None /\ ~e.arrow
  BY DEF FieldEvent
<1>3. /\ Len(es) \in Nat /\ DOMAIN es = 1..Len(es) /\ Len(es2) = n /\ es2[n] = e /\ n - 1 = Len(es)
      /\ \A i \in 1..Len(es) : es2[i] = es[i]
      /\ Len(fs) \in Nat /\ DOMAIN fs = 1..Len(fs) /\ K \in DOMAIN fs /\ Len(fs) \in DOMAIN fs
      /\ K \in Nat /\ K > 1 /\ n \in 1..n
  BY <1>1, <1>2
<1> HIDE DEF es2
<1>4. /\ \A i : ExitedBy(es2, i, Len(es)) <=> ExitedBy(es, i, Len(es))
      /\ \A i : ExitedBy(es2, i, n) <=> ExitedBy(es, i, Len(es)) \/ e.node = i
  BY <1>1, <1>2, <1>3, PrefixKept DEF es2
<1>5. \/ e.kind = "identifier" /\ K = Len(fs) /\ v = None /\ e.node = 0
      \/ e.kind = "paren" /\ K = Len(fs) - 1 /\ v # None /\ e.node = 0 /\ f.kind = "paren"
      \/ /\ e.kind \in {"exitCall", "exitIndex"} /\ K = Len(fs) - 1 /\ v # None
         /\ Bracket(f) /\ e.node = f.node /\ e.name = f.name
         /\ f.kind = IF e.kind = "exitCall" THEN "call" ELSE "index"
  BY DEF FieldEvent, Bracket
<1>6. FieldOut(e) /\ ~Enter(e)
  BY <1>2, <1>5 DEF FieldOut, Enter
<1>7. fs[K - 1].kind # "access"
  <2>1. FrameOK(es, fs, K) /\ K > 1
    BY <1>1, <1>3
  <2>2. ~fs[K].field /\ fs[K].kind # "paren"
    BY <1>2, <2>1 DEF FrameOK, Bracket
  <2> QED BY <2>1, <2>2 DEF FrameOK
<1>8. \A d \in DOMAIN fs : Bracket(fs[d]) => fs[d].node \in DOMAIN es
  BY <1>1 DEF FrameOK
<1>9. \A d \in (K + 1)..Len(fs) : Bracket(fs[d]) => fs[d].node = e.node
  <2> TAKE d \in (K + 1)..Len(fs)
  <2>1. K = Len(fs) \/ K = Len(fs) - 1
    BY <1>5
  <2>2. d = Len(fs) /\ K # Len(fs)
    <3>1. Len(fs) \in Nat /\ K \in Nat /\ d \in Nat /\ K + 1 <= d /\ d <= Len(fs)
      BY <1>3
    <3> QED BY <2>1, <3>1
  <2> QED BY <1>5, <2>2 DEF Bracket
<1>10. \A d \in 1..K : Bracket(fs[d]) => fs[d].node # e.node
  <2> SUFFICES ASSUME NEW d \in 1..K, Bracket(fs[d]), fs[d].node = e.node
               PROVE  FALSE
    OBVIOUS
  <2>1. d \in DOMAIN fs /\ e.node # 0
    BY <1>3, <1>8
  <2>2. Bracket(f) /\ e.node = f.node /\ K = Len(fs) - 1
    BY <1>5, <2>1
  <2>3. d \in 1..(Len(fs) - 1)
    BY <2>2
  <2>4. fs[d].node < f.node
    BY <2>2, <2>3, InnermostNode
  <2>5. fs[d].node \in Int
    BY <1>3, <1>8, <2>1
  <2> QED BY <2>2, <2>4, <2>5
<1>11. e.kind \in {"exitCall", "exitIndex"} =>
         /\ e.node \in 1..Len(es) /\ ~ExitedBy(es, e.node, Len(es)) /\ e.node # 0
         /\ es[e.node].kind = IF e.kind = "exitCall" THEN "enterCall" ELSE "enterIndex"
         /\ es[e.node].name = e.name /\ es[e.node].field = e.field
         /\ es[e.node].base = e.base
         /\ \A j \in 1..Len(es) : Enter(es[j]) /\ ~ExitedBy(es, j, Len(es)) => j <= e.node
         /\ \A d \in 1..(Len(fs) - 1) : Bracket(fs[d]) => fs[d].node < e.node
  <2> SUFFICES ASSUME e.kind \in {"exitCall", "exitIndex"}
               PROVE  /\ e.node \in 1..Len(es) /\ ~ExitedBy(es, e.node, Len(es)) /\ e.node # 0
                      /\ es[e.node].kind = IF e.kind = "exitCall" THEN "enterCall" ELSE "enterIndex"
                      /\ es[e.node].name = e.name /\ es[e.node].field = e.field
                      /\ es[e.node].base = e.base
                      /\ \A j \in 1..Len(es) :
                           Enter(es[j]) /\ ~ExitedBy(es, j, Len(es)) => j <= e.node
                      /\ \A d \in 1..(Len(fs) - 1) : Bracket(fs[d]) => fs[d].node < e.node
    OBVIOUS
  <2>1. PICK g : g = f
    OBVIOUS
  <2>2. /\ Bracket(g) /\ K = Len(fs) - 1 /\ e.node = g.node /\ e.name = g.name
        /\ g.kind = "call" <=> e.kind = "exitCall"
    BY <1>5, <2>1
  <2>3. /\ g.node \in 1..Len(es) /\ ~ExitedBy(es, g.node, Len(es))
        /\ es[g.node].kind = IF g.kind = "call" THEN "enterCall" ELSE "enterIndex"
        /\ es[g.node].name = g.name /\ es[g.node].field = g.field
        /\ es[g.node].base = IF g.field THEN fs[Len(fs) - 1].base ELSE None
        /\ g.field <=> fs[Len(fs) - 1].kind = "access"
        /\ \A j \in 1..Len(es) : Enter(es[j]) /\ ~ExitedBy(es, j, Len(es)) => j <= g.node
        /\ \A d \in 1..(Len(fs) - 1) : Bracket(fs[d]) => fs[d].node < g.node
    BY <2>1, <2>2, InnermostNode, SMTT(30)
  <2>4. g.field = TRUE /\ e.field = TRUE
    <3>1. g \in FrameSet
      BY <1>1, <1>3, <2>1
    <3>2. g.field
      BY <1>2, <2>2, <2>3
    <3> QED BY <1>2, <3>1, <3>2 DEF FrameSet, EventSet
  <2>5. es[e.node].base = e.base
    BY <1>2, <2>2, <2>3, <2>4
  <2>6. e.node # 0
    BY <2>2, <2>3
  <2> QED BY <2>2, <2>3, <2>4, <2>5, <2>6
<1>12. e.kind = "exitIndex" => e.base \in Structs \cup {None}
  <2> SUFFICES ASSUME e.kind = "exitIndex", e.base # None
               PROVE  e.base \in Structs
    OBVIOUS
  <2>1. EventOK(es, e.node) /\ es[e.node].kind = "enterIndex" /\ es[e.node].base = e.base
    BY <1>1, <1>3, <1>11
  <2> QED BY <2>1 DEF EventOK
<1>13. EventOK(es2, n)
  <2>1. e.kind = "identifier" /\ e.base # None => e.type = FieldType(e.base, e.name)
    BY DEF FieldEvent
  <2>2. e.kind = "identifier" => e.base \in Structs \cup Arrays \cup {None}
    BY <1>2, <2>1 DEF FieldType
  <2>3. e.kind = "paren" => e.base = None
    <3> SUFFICES ASSUME e.kind = "paren"
                 PROVE  fs[K].base = None
      BY <1>2
    <3>1. FrameOK(es, fs, Len(fs)) /\ Len(fs) > 1 /\ K = Len(fs) - 1 /\ f.kind = "paren"
      BY <1>1, <1>3, <1>5
    <3> QED BY <3>1 DEF FrameOK
  <2>4. e.kind = "exitCall" => e.base \in Structs /\ e.name \in Functions
    BY DEF FieldEvent
  <2>5. e.base \in Structs \cup Arrays \cup {None}
    BY <1>5, <1>12, <2>2, <2>3, <2>4
  <2>6. e.node # 0 <=> e.kind \in {"exitCall", "exitIndex"}
    BY <1>5, <1>11
  <2>7. e.node # 0 =>
          /\ e.node \in 1..(n - 1) /\ ~ExitedBy(es2, e.node, n - 1)
          /\ es2[e.node].kind = IF e.kind = "exitCall" THEN "enterCall" ELSE "enterIndex"
          /\ es2[e.node].name = e.name /\ es2[e.node].field = e.field
          /\ es2[e.node].base = e.base
          /\ \A j \in 1..(n - 1) : Enter(es2[j]) /\ ~ExitedBy(es2, j, n - 1) => j <= e.node
    BY <1>3, <1>4, <1>11, <2>6
  <2>8. e.kind \in {"identifier", "paren", "exitCall", "exitIndex"}
    BY <1>5
  <2> QED BY <1>2, <1>3, <1>6, <2>1, <2>3, <2>4, <2>5, <2>6, <2>7, <2>8 DEF EventOK
<1>14. Where(es2, n)
  <2>1. e.kind \in AfterOperand <=> v # None
    BY <1>5 DEF AfterOperand
  <2>2. e.base # None /\ e.node = 0 => Reached(f) /\ f.base = e.base
    <3> SUFFICES ASSUME e.base # None, e.node = 0
                 PROVE  Reached(f) /\ f.base = e.base
      OBVIOUS
    <3>1. e.kind # "paren"
      BY <1>3, <1>13 DEF EventOK
    <3>2. K = Len(fs)
      BY <1>5, <1>11, <3>1
    <3> QED BY <1>2, <3>2 DEF Reached
  <2>3. ~(e.base # None /\ e.node = 0) => ~Reached(f)
    BY <1>2, <1>5 DEF Reached, Bracket
  <2> QED BY <1>2, <2>1, <2>2, <2>3, WhereNew DEF es2
<1>15. PICK i \in 1..n : /\ Begins(es2[i])
                         /\ \A c \in 1..(K - 1) : Bracket(fs[c]) => fs[c].node < i
  <2>1. CASE e.base # None
    <3>1. Reached(fs[K])
      BY <1>2, <2>1 DEF Reached
    <3>2. PICK i \in DOMAIN es : /\ Begins(es[i])
                                 /\ \A c \in 1..(K - 1) : Bracket(fs[c]) => fs[c].node < i
      BY <1>1, <1>3, <3>1 DEF AccessesBegun
    <3>3. i \in 1..n /\ es2[i] = es[i]
      BY <1>3
    <3> QED BY <3>2, <3>3
  <2>2. CASE e.base = None /\ e.kind \in {"identifier", "paren"}
    <3>1. Begins(es2[n])
      BY <1>2, <1>3, <2>2 DEF Begins
    <3>2. \A c \in 1..(K - 1) : Bracket(fs[c]) => fs[c].node < n
      <4> TAKE c \in 1..(K - 1)
      <4>1. c \in DOMAIN fs
        BY <1>3
      <4>2. Bracket(fs[c]) => fs[c].node \in 1..Len(es)
        BY <1>3, <1>8, <4>1
      <4> QED BY <1>3, <4>2
    <3> QED BY <1>3, <3>1, <3>2
  <2>3. CASE e.base = None /\ e.kind \in {"exitCall", "exitIndex"}
    <3>1. e.kind = "exitIndex"
      <4>1. e.kind = "exitCall" => e.base \in Structs
        BY DEF FieldEvent
      <4> QED BY <2>3, <4>1 DEF Structs, None
    <3>2. e.node \in 1..n /\ es2[e.node] = es[e.node]
      BY <1>3, <1>11, <2>3
    <3>3. Begins(es2[e.node])
      BY <1>2, <1>11, <2>3, <3>1, <3>2 DEF Begins
    <3>4. \A c \in 1..(K - 1) : Bracket(fs[c]) => fs[c].node < e.node
      <4> TAKE c \in 1..(K - 1)
      <4>1. c \in 1..(Len(fs) - 1)
        BY <1>3, <1>5
      <4> QED BY <1>11, <2>3, <4>1
    <3> QED BY <3>2, <3>3, <3>4
  <2> QED BY <1>5, <2>1, <2>2, <2>3
<1>16. Begun(es2, n)
  <2>1. ASSUME NEW j \in 1..(n - 1), Enter(es2[j]), ~ExitedBy(es2, j, n)
        PROVE  j < i
    <3>1. j \in DOMAIN es /\ Enter(es[j]) /\ ~ExitedBy(es, j, Len(es)) /\ e.node # j
      BY <1>3, <1>4, <2>1
    <3>2. PICK d \in DOMAIN fs : Bracket(fs[d]) /\ fs[d].node = j
      BY <1>1, <3>1 DEF EntersAccounted
    <3>3. d # K
      BY <1>2, <3>2 DEF Bracket
    <3>4. ~(d \in (K + 1)..Len(fs))
      BY <1>9, <3>1, <3>2
    <3>5. d \in 1..(K - 1)
      BY <1>3, <3>3, <3>4
    <3> QED BY <1>15, <3>2, <3>5
  <2> QED BY <1>15, <2>1 DEF Begun
<1> QED BY <1>6, <1>7, <1>9, <1>10, <1>13, <1>14, <1>15, <1>16 DEF es2

\* The last field of an access.
LEMMA AccessLeft ==
  ASSUME NEW es, NEW fs, NEW v, Walk(es, fs, v), NEW e, NEW K, FieldEvent(es, fs, v, e, K),
         e.last, NEW fs2 \in Seq(FrameSet), Len(fs2) = K - 1,
         \A d \in 1..(K - 1) : fs2[d] = fs[d], NEW v2, v2 # None
  PROVE  Walk(Append(es, e), fs2, v2)
<1> DEFINE es2 == Append(es, e)
           n == Len(es) + 1
<1>1. es \in Seq(EventSet) /\ fs \in Seq(FrameSet)
  BY DEF Walk
<1>2. e \in EventSet /\ K \in 2..Len(fs) /\ fs[K].kind = "access"
  BY DEF FieldEvent
<1>3. /\ Len(es) \in Nat /\ Len(es2) = n /\ es2[n] = e
      /\ Len(fs) \in Nat /\ K - 1 \in 1..Len(fs) /\ K - 1 \in Nat /\ (K - 1) + 1 = K
      /\ K - 1 \in 1..(K - 1) /\ \A d \in 1..((K - 1) - 1) : d \in 1..(K - 1)
  BY <1>1, <1>2
<1>4. /\ EventOK(es2, n) /\ Where(es2, n) /\ Begun(es2, n)
      /\ FieldOut(e) /\ ~Enter(e)
      /\ \A d \in (K + 1)..Len(fs) : Bracket(fs[d]) => fs[d].node = e.node
      /\ \A d \in 1..K : Bracket(fs[d]) => fs[d].node # e.node
      /\ fs[K - 1].kind # "access"
  BY FieldEventOK
<1> HIDE DEF es2
<1>5. Shrinks(es, e, fs, fs2, K - 1)
  <2>1. \A d \in ((K - 1) + 1)..Len(fs) : d = K \/ d \in (K + 1)..Len(fs)
    BY <1>2, <1>3
  <2>2. ~Bracket(fs[K])
    BY <1>2 DEF Bracket
  <2>3. \A d \in 1..(K - 1) : d \in 1..K
    BY <1>2
  <2> QED BY <1>2, <1>3, <1>4, <2>1, <2>2, <2>3 DEF Shrinks
<1>6. fs2[Len(fs2)].kind # "access"
  BY <1>3, <1>4
<1>7. \A s \in Nat : Since(es2, v2, s)
  <2> SUFFICES ASSUME NEW s \in Nat, NEW m \in (s + 1)..n, FieldOut(es2[m]),
                      \A l \in (m + 1)..n : ~FieldOut(es2[l])
               PROVE  es2[m].last
    BY <1>3 DEF Since
  <2>1. m = n
    <3>1. ~(n \in (m + 1)..n)
      BY <1>3, <1>4
    <3> QED BY <1>3, <3>1
  <2> QED BY <1>3, <2>1
<1>8. Current(es2, fs2, v2)
  <2>1. \A c \in DOMAIN fs2 : InnerAccess(fs2, c) => fs2[c + 1].node \in Nat
    BY InnerNode
  <2> QED BY <1>6, <1>7, <2>1 DEF Current, Reached
<1> QED BY <1>4, <1>5, <1>6, <1>8, WalkShrinks DEF es2

\* Another field of an access, which goes on.
LEMMA AccessGoesOn ==
  ASSUME NEW es, NEW fs, NEW v, Walk(es, fs, v), NEW e, NEW K, FieldEvent(es, fs, v, e, K),
         ~e.last, NEW fs2 \in Seq(FrameSet), Len(fs2) = K,
         \A d \in 1..(K - 1) : fs2[d] = fs[d],
         fs2[K].kind = "access", fs2[K].field = fs[K].field, fs2[K].node = fs[K].node,
         fs2[K].base = After(e)
  PROVE  Walk(Append(es, e), fs2, None)
<1> DEFINE es2 == Append(es, e)
           n == Len(es) + 1
<1>1. es \in Seq(EventSet) /\ fs \in Seq(FrameSet)
  BY DEF Walk
<1>2. e \in EventSet /\ K \in 2..Len(fs) /\ fs[K].kind = "access" /\ e.type # None
  BY DEF FieldEvent
<1>3. Len(es) \in Nat /\ Len(es2) = n /\ es2[n] = e /\ K \in 1..Len(fs)
  BY <1>1, <1>2
<1>4. /\ EventOK(es2, n) /\ Where(es2, n) /\ Begun(es2, n)
      /\ FieldOut(e) /\ ~Enter(e)
      /\ \A d \in (K + 1)..Len(fs) : Bracket(fs[d]) => fs[d].node = e.node
      /\ \A d \in 1..K : Bracket(fs[d]) => fs[d].node # e.node
  BY FieldEventOK
<1>5. \E i \in 1..n : /\ Begins(es2[i])
                     /\ \A c \in 1..(K - 1) : Bracket(fs[c]) => fs[c].node < i
  BY FieldEventOK
<1> HIDE DEF es2
<1>9. Shrinks(es, e, fs, fs2, K)
  BY <1>2, <1>3, <1>4, <1>5 DEF Shrinks, es2
<1>6. Reached(fs2[Len(fs2)])
  BY <1>2 DEF Reached, After, Pointed, None
<1>7. Reach(es2, n + 1, fs2[Len(fs2)].base)
  <2>1. n \in 1..((n + 1) - 1) /\ (n + 1)..((n + 1) - 1) = {}
    BY <1>3
  <2> QED BY <1>3, <1>4, <2>1 DEF Reach
<1>8. Current(es2, fs2, None)
  BY <1>3, <1>6, <1>7 DEF Current
<1> QED BY <1>4, <1>8, <1>9, WalkShrinks DEF es2

\* The innermost access is the same if a frame is put on one that is none.
LEMMA InnerKept ==
  ASSUME NEW fs \in Seq(FrameSet), fs # <<>>, NEW f \in FrameSet, ~Reached(fs[Len(fs)])
  PROVE  LET fs2 == Append(fs, f) IN
         /\ (\A d \in 1..(Len(fs2) - 1) : ~Reached(fs2[d])) =>
              \A d \in 1..(Len(fs) - 1) : ~Reached(fs[d])
         /\ \A c \in DOMAIN fs2 : InnerAccess(fs2, c) =>
              c \in DOMAIN fs /\ InnerAccess(fs, c) /\ fs2[c + 1].node = fs[c + 1].node
<1> DEFINE fs2 == Append(fs, f)
<1>1. /\ Len(fs) \in Nat /\ Len(fs) >= 1 /\ DOMAIN fs = 1..Len(fs) /\ Len(fs2) - 1 = Len(fs)
      /\ DOMAIN fs2 = 1..(Len(fs) + 1) /\ \A d \in 1..Len(fs) : fs2[d] = fs[d]
  OBVIOUS
<1> HIDE DEF fs2
<1>2. ASSUME NEW c \in DOMAIN fs2, InnerAccess(fs2, c)
      PROVE  c \in DOMAIN fs /\ InnerAccess(fs, c) /\ fs2[c + 1].node = fs[c + 1].node
  <2>1. /\ c \in 1..Len(fs) /\ Reached(fs2[c])
        /\ \A d \in (c + 1)..Len(fs) : ~Reached(fs2[d])
    BY <1>1, <1>2 DEF InnerAccess
  <2>2. Reached(fs[c]) /\ c # Len(fs)
    BY <1>1, <2>1
  <2>3. c \in 1..(Len(fs) - 1) /\ c + 1 \in 1..Len(fs)
    BY <1>1, <2>1, <2>2
  <2>4. \A d \in (c + 1)..(Len(fs) - 1) : ~Reached(fs[d])
    <3> TAKE d \in (c + 1)..(Len(fs) - 1)
    <3>1. d \in (c + 1)..Len(fs) /\ d \in 1..Len(fs)
      BY <1>1, <2>1
    <3> QED BY <1>1, <2>1, <3>1
  <2> QED BY <1>1, <2>1, <2>2, <2>3, <2>4 DEF InnerAccess
<1>3. ASSUME \A d \in 1..(Len(fs2) - 1) : ~Reached(fs2[d])
      PROVE  \A d \in 1..(Len(fs) - 1) : ~Reached(fs[d])
  BY <1>1, <1>3
<1> QED BY <1>2, <1>3 DEF fs2

\* An access, parentheses or an increment begin.
LEMMA FrameOpened ==
  ASSUME NEW es, NEW fs, Walk(es, fs, None), NEW f \in FrameSet,
         f.kind \in {"access", "paren", "prefix", "postfix"},
         ~f.field, f.node = 0, f.base = None,
         f.kind = "paren" <=> fs[Len(fs)].kind = "access",
         f.kind = "paren" => fs[Len(fs)].base = None
  PROVE  Walk(es, Append(fs, f), None)
<1> DEFINE fs2 == Append(fs, f)
<1>1. /\ es \in Seq(EventSet) /\ fs \in Seq(FrameSet) /\ fs # <<>> /\ Current(es, fs, None)
      /\ \A k \in DOMAIN es : EventOK(es, k) /\ Where(es, k) /\ Begun(es, k)
      /\ \A d \in DOMAIN fs : FrameOK(es, fs, d)
      /\ NodesInOrder(fs) /\ EntersAccounted(es, fs) /\ AccessesBegun(es, fs)
  BY DEF Walk
<1>2. /\ fs2 \in Seq(FrameSet) /\ fs2 # <<>> /\ Len(fs) \in Nat /\ Len(fs) >= 1
      /\ Len(fs2) = Len(fs) + 1 /\ DOMAIN fs = 1..Len(fs) /\ DOMAIN fs2 = 1..(Len(fs) + 1)
      /\ fs2[Len(fs) + 1] = f /\ \A d \in 1..Len(fs) : fs2[d] = fs[d]
  BY <1>1
<1>3. ~Reached(fs[Len(fs)]) /\ ~Reached(f) /\ ~Bracket(f)
  BY DEF Reached, Bracket
<1>4. /\ (\A d \in 1..(Len(fs2) - 1) : ~Reached(fs2[d])) =>
           \A d \in 1..(Len(fs) - 1) : ~Reached(fs[d])
      /\ \A c \in DOMAIN fs2 : InnerAccess(fs2, c) =>
           c \in DOMAIN fs /\ InnerAccess(fs, c) /\ fs2[c + 1].node = fs[c + 1].node
  <2>1. (\A d \in 1..(Len(fs2) - 1) : ~Reached(fs2[d])) =>
           \A d \in 1..(Len(fs) - 1) : ~Reached(fs[d])
    BY <1>1, <1>3, InnerKept
  <2>2. \A c \in DOMAIN fs2 : InnerAccess(fs2, c) =>
           c \in DOMAIN fs /\ InnerAccess(fs, c) /\ fs2[c + 1].node = fs[c + 1].node
    BY <1>1, <1>3, InnerKept
  <2> QED BY <2>1, <2>2
<1> HIDE DEF fs2
<1>5. \A d \in DOMAIN fs2 : FrameOK(es, fs2, d)
  <2> SUFFICES ASSUME NEW d \in DOMAIN fs2 PROVE FrameOK(es, fs2, d)
    OBVIOUS
  <2>1. CASE d \in 1..Len(fs)
    <3>1. FrameOK(es, fs, d) /\ fs2[d] = fs[d] /\ (d > 1 => fs2[d - 1] = fs[d - 1])
      BY <1>1, <1>2, <2>1
    <3> QED BY <3>1 DEF FrameOK
  <2>2. CASE d = Len(fs) + 1
    <3>1. d > 1 /\ d # 1 /\ fs2[d] = f /\ fs2[d - 1] = fs[Len(fs)]
      BY <1>2, <2>2
    <3> QED BY <1>3, <3>1 DEF FrameOK
  <2> QED BY <1>2, <2>1, <2>2
<1>6. NodesInOrder(fs2)
  <2> SUFFICES ASSUME NEW c \in DOMAIN fs2, NEW d \in DOMAIN fs2, c < d,
                      Bracket(fs2[c]), Bracket(fs2[d])
               PROVE  fs2[c].node < fs2[d].node
    BY DEF NodesInOrder
  <2>1. c \in 1..Len(fs) /\ d \in 1..Len(fs)
    BY <1>2, <1>3
  <2> QED BY <1>1, <1>2, <2>1 DEF NodesInOrder
<1>7. EntersAccounted(es, fs2)
  BY <1>1, <1>2 DEF EntersAccounted
<1>8. AccessesBegun(es, fs2)
  <2> SUFFICES ASSUME NEW d \in DOMAIN fs2, Reached(fs2[d])
               PROVE  \E i \in DOMAIN es :
                        /\ Begins(es[i])
                        /\ \A c \in 1..(d - 1) : Bracket(fs2[c]) => fs2[c].node < i
    BY DEF AccessesBegun
  <2>1. d \in DOMAIN fs /\ fs2[d] = fs[d] /\ \A c \in 1..(d - 1) : fs2[c] = fs[c]
    BY <1>2, <1>3
  <2> QED BY <1>1, <2>1 DEF AccessesBegun
<1>9. Current(es, fs2, None)
  BY <1>1, <1>2, <1>3, <1>4 DEF Current
<1> QED BY <1>1, <1>2, <1>5, <1>6, <1>7, <1>8, <1>9 DEF Walk, fs2

\* A call or an index is entered.
LEMMA Entered ==
  ASSUME NEW es, NEW fs, Walk(es, fs, None), NEW e \in EventSet, NEW f \in FrameSet,
         e.kind \in {"enterCall", "enterIndex"}, e.node = 0, ~e.last, ~e.arrow,
         e.field <=> fs[Len(fs)].kind = "access",
         e.base = IF e.field THEN fs[Len(fs)].base ELSE None,
         e.kind = "enterIndex" /\ e.base # None =>
           e.base \in Structs /\ e.name \in DOMAIN Fields[e.base],
         e.kind = "enterCall" => e.name \in Functions /\ f.base = e.base,
         f.kind = IF e.kind = "enterCall" THEN "call" ELSE "index",
         f.name = e.name, f.field = e.field, f.node = Len(es) + 1
  PROVE  Walk(Append(es, e), Append(fs, f), None)
<1> DEFINE es2 == Append(es, e)
           fs2 == Append(fs, f)
           n == Len(es) + 1
<1>1. /\ es \in Seq(EventSet) /\ fs \in Seq(FrameSet) /\ fs # <<>> /\ Current(es, fs, None)
      /\ \A k \in DOMAIN es : EventOK(es, k) /\ Where(es, k) /\ Begun(es, k)
      /\ \A d \in DOMAIN fs : FrameOK(es, fs, d)
      /\ NodesInOrder(fs) /\ EntersAccounted(es, fs) /\ AccessesBegun(es, fs)
  BY DEF Walk
<1>2. /\ fs2 \in Seq(FrameSet) /\ fs2 # <<>> /\ Len(fs) \in Nat /\ Len(fs) >= 1
      /\ Len(fs2) = Len(fs) + 1 /\ DOMAIN fs = 1..Len(fs) /\ DOMAIN fs2 = 1..(Len(fs) + 1)
      /\ fs2[Len(fs) + 1] = f /\ \A d \in 1..Len(fs) : fs2[d] = fs[d]
  BY <1>1
<1>3. /\ es2 \in Seq(EventSet) /\ Len(es) \in Nat /\ Len(es2) = n /\ es2[n] = e
      /\ DOMAIN es = 1..Len(es) /\ DOMAIN es2 = 1..(Len(es) + 1)
      /\ \A i \in 1..Len(es) : es2[i] = es[i]
  BY <1>1
<1>4. /\ \A i : ExitedBy(es2, i, Len(es)) <=> ExitedBy(es, i, Len(es))
      /\ \A i : ExitedBy(es2, i, n) <=> ExitedBy(es, i, Len(es)) \/ e.node = i
  BY <1>1, <1>3, PrefixKept
<1>5. Enter(e) /\ ~FieldOut(e) /\ Bracket(f) /\ ~Reached(f)
  BY DEF Enter, FieldOut, Bracket, Reached
<1>6. /\ e.field /\ e.base # None => Reached(fs[Len(fs)]) /\ fs[Len(fs)].base = e.base
      /\ ~(e.field /\ e.base # None) => ~Reached(fs[Len(fs)])
  BY DEF Reached
<1>7. Where(es2, n)
  BY <1>6, WhereNew DEF AfterOperand
<1>8. ~Reached(fs[Len(fs)]) =>
        /\ (\A d \in 1..(Len(fs2) - 1) : ~Reached(fs2[d])) =>
             \A d \in 1..(Len(fs) - 1) : ~Reached(fs[d])
        /\ \A c \in DOMAIN fs2 : InnerAccess(fs2, c) =>
             c \in DOMAIN fs /\ InnerAccess(fs, c) /\ fs2[c + 1].node = fs[c + 1].node
  <2> SUFFICES ASSUME ~Reached(fs[Len(fs)])
               PROVE  /\ (\A d \in 1..(Len(fs2) - 1) : ~Reached(fs2[d])) =>
                           \A d \in 1..(Len(fs) - 1) : ~Reached(fs[d])
                      /\ \A c \in DOMAIN fs2 : InnerAccess(fs2, c) =>
                           /\ c \in DOMAIN fs /\ InnerAccess(fs, c)
                           /\ fs2[c + 1].node = fs[c + 1].node
    OBVIOUS
  <2>1. (\A d \in 1..(Len(fs2) - 1) : ~Reached(fs2[d])) =>
           \A d \in 1..(Len(fs) - 1) : ~Reached(fs[d])
    BY <1>1, InnerKept
  <2>2. \A c \in DOMAIN fs2 : InnerAccess(fs2, c) =>
           c \in DOMAIN fs /\ InnerAccess(fs, c) /\ fs2[c + 1].node = fs[c + 1].node
    BY <1>1, InnerKept
  <2> QED BY <2>1, <2>2
<1>9. \A k \in DOMAIN es : EventOK(es2, k) /\ Where(es2, k) /\ Begun(es2, k)
  BY <1>1, EventsKept
<1> HIDE DEF es2, fs2
<1>10. EventOK(es2, n)
  <2>1. ~e.field => e.base = None
    OBVIOUS
  <2> QED BY <1>3, <1>5, <2>1 DEF EventOK
<1>11. Begun(es2, n)
  BY <1>3, <1>5 DEF Begun
<1>12. \A k \in DOMAIN es2 : EventOK(es2, k) /\ Where(es2, k) /\ Begun(es2, k)
  <2> TAKE k \in DOMAIN es2
  <2>1. k \in DOMAIN es \/ k = n
    BY <1>3
  <2> QED BY <1>7, <1>9, <1>10, <1>11, <2>1
<1>13. \A i \in DOMAIN es : es[i].node # n
  <2> TAKE i \in DOMAIN es
  <2>1. EventOK(es, i) /\ i < n
    BY <1>1, <1>3
  <2>2. es[i].node = 0 \/ es[i].node \in 1..(i - 1)
    BY <2>1 DEF EventOK
  <2> QED BY <1>3, <2>1, <2>2
<1>14. ~ExitedBy(es2, n, n)
  <2>1. ~ExitedBy(es, n, Len(es))
    BY <1>3, <1>13 DEF ExitedBy
  <2> QED BY <1>3, <1>4, <2>1
<1>15. \A d \in DOMAIN fs : Bracket(fs[d]) => fs[d].node \in DOMAIN es
  BY <1>1 DEF FrameOK
<1>16. \A d \in DOMAIN fs2 : FrameOK(es2, fs2, d)
  <2> SUFFICES ASSUME NEW d \in DOMAIN fs2 PROVE FrameOK(es2, fs2, d)
    OBVIOUS
  <2>1. CASE d \in 1..Len(fs)
    <3>1. FrameOK(es, fs, d) /\ fs2[d] = fs[d] /\ (d > 1 => fs2[d - 1] = fs[d - 1]) /\ d \in Nat
      BY <1>1, <1>2, <2>1
    <3>2. Bracket(fs[d]) => e.node # fs[d].node
      BY <1>2, <1>3, <1>15, <2>1
    <3> QED BY <1>1, <3>1, <3>2, FrameKept DEF es2
  <2>2. CASE d = Len(fs) + 1
    <3>1. d > 1 /\ d # 1 /\ fs2[d] = f /\ fs2[d - 1] = fs[Len(fs)]
      BY <1>2, <2>2
    <3>2. /\ n \in DOMAIN es2 /\ es2[f.node] = e /\ f.node = n /\ Len(es2) = n
      BY <1>3
    <3>3. f.kind # "statement" /\ f.kind # "paren" /\ (f.kind = "call" <=> e.kind = "enterCall")
      OBVIOUS
    <3>4. e.kind = IF f.kind = "call" THEN "enterCall" ELSE "enterIndex"
      BY <3>3
    <3>5. f.field = (fs[Len(fs)].kind = "access")
      BY DEF EventSet
    <3>6. e.base = IF f.field THEN fs[Len(fs)].base ELSE None
      OBVIOUS
    <3> QED BY <1>5, <1>14, <3>1, <3>2, <3>3, <3>4, <3>5, <3>6 DEF FrameOK
  <2> QED BY <1>2, <2>1, <2>2
<1>17. NodesInOrder(fs2)
  <2> SUFFICES ASSUME NEW c \in DOMAIN fs2, NEW d \in DOMAIN fs2, c < d,
                      Bracket(fs2[c]), Bracket(fs2[d])
               PROVE  fs2[c].node < fs2[d].node
    BY DEF NodesInOrder
  <2>1. c \in 1..Len(fs) /\ (d \in 1..Len(fs) \/ d = Len(fs) + 1)
    BY <1>2
  <2>2. CASE d \in 1..Len(fs)
    BY <1>1, <1>2, <2>1, <2>2 DEF NodesInOrder
  <2>3. CASE d = Len(fs) + 1
    <3>1. fs2[c].node \in 1..Len(es) /\ fs2[d].node = n
      BY <1>2, <1>3, <1>15, <2>1, <2>3
    <3> QED BY <1>3, <3>1
  <2> QED BY <2>1, <2>2, <2>3
<1>18. EntersAccounted(es2, fs2)
  <2> SUFFICES ASSUME NEW i \in 1..n, Enter(es2[i])
               PROVE  \/ ExitedBy(es2, i, n)
                      \/ \E d \in DOMAIN fs2 : Bracket(fs2[d]) /\ fs2[d].node = i
    BY <1>3 DEF EntersAccounted
  <2>1. CASE i = n
    BY <1>2, <1>5, <2>1
  <2>2. CASE i # n
    <3>1. i \in DOMAIN es /\ Enter(es[i])
      BY <1>3, <2>2
    <3>2. CASE ExitedBy(es, i, Len(es))
      BY <1>4, <3>2
    <3>3. CASE \E d \in DOMAIN fs : Bracket(fs[d]) /\ fs[d].node = i
      BY <1>2, <3>3
    <3> QED BY <1>1, <3>1, <3>2, <3>3 DEF EntersAccounted
  <2> QED BY <2>1, <2>2
<1>19. AccessesBegun(es2, fs2)
  <2> SUFFICES ASSUME NEW d \in DOMAIN fs2, Reached(fs2[d])
               PROVE  \E i \in DOMAIN es2 :
                        /\ Begins(es2[i])
                        /\ \A c \in 1..(d - 1) : Bracket(fs2[c]) => fs2[c].node < i
    BY DEF AccessesBegun
  <2>1. d \in DOMAIN fs /\ fs2[d] = fs[d] /\ \A c \in 1..(d - 1) : fs2[c] = fs[c]
    BY <1>2, <1>5
  <2>2. PICK i \in DOMAIN es : /\ Begins(es[i])
                               /\ \A c \in 1..(d - 1) : Bracket(fs[c]) => fs[c].node < i
    BY <1>1, <2>1 DEF AccessesBegun
  <2>3. i \in DOMAIN es2 /\ es2[i] = es[i]
    BY <1>3
  <2> QED BY <2>1, <2>2, <2>3
<1>20. Current(es2, fs2, None)
  <2>1. ~Reached(fs2[Len(fs2)])
    BY <1>2, <1>5
  <2>2. CASE Reached(fs[Len(fs)])
    <3>1. ~(\A d \in 1..(Len(fs2) - 1) : ~Reached(fs2[d]))
      BY <1>2, <2>2
    <3>2. ASSUME NEW c \in DOMAIN fs2, InnerAccess(fs2, c)
          PROVE  Since(es2, None, fs2[c + 1].node)
      <4>1. c = Len(fs)
        <5>1. c \in 1..Len(fs) /\ \A d \in (c + 1)..Len(fs) : ~Reached(fs2[d])
          BY <1>2, <3>2 DEF InnerAccess
        <5> QED BY <1>2, <2>2, <5>1
      <4>2. fs2[c + 1].node = n
        BY <1>2, <4>1
      <4>3. (n + 1)..Len(es2) = {}
        BY <1>3
      <4> QED BY <4>2, <4>3 DEF Since
    <3> QED BY <2>1, <3>1, <3>2 DEF Current
  <2>3. CASE ~Reached(fs[Len(fs)])
    <3>1. ASSUME NEW s \in Nat, Since(es, None, s)
          PROVE  Since(es2, None, s)
      <4> SUFFICES ASSUME NEW m \in (s + 1)..n PROVE Enter(es2[m])
        BY <1>3 DEF Since
      <4>1. m = n \/ (m \in (s + 1)..Len(es) /\ es2[m] = es[m])
        BY <1>3
      <4> QED BY <1>3, <1>5, <3>1, <4>1 DEF Since
    <3>2. \A c \in DOMAIN fs : InnerAccess(fs, c) => fs[c + 1].node \in Nat
      BY <1>1, InnerNode
    <3> QED BY <1>1, <1>8, <2>1, <2>3, <3>1, <3>2 DEF Current
  <2> QED BY <2>2, <2>3
<1>21. fs2[Len(fs2)].kind # "access"
  BY <1>2, <1>5 DEF Bracket
<1> QED BY <1>2, <1>3, <1>12, <1>16, <1>17, <1>18, <1>19, <1>20, <1>21 DEF Walk, es2, fs2

-----------------------------------------------------------------------------
(* The type checker keeps the invariant.                                   *)

\* Names, and the types of the variables in scope.
LEMMA NamesInScope ==
  ASSUME Shapes
  PROVE  /\ \A name \in Names \cup DOMAIN where.locals : name \in AllNames
         /\ \A name : VariableType(name) \in Types \cup {None}
         /\ \A name \in Variables : name \in AllNames /\ VariableType(name) # None
         /\ Functions \subseteq AllNames /\ None \in AllNames
<1>1. where \in Contexts
  BY DEF Shapes
<1>2. \A name \in Names \cup DOMAIN where.locals : name \in AllNames
  BY <1>1 DEF AllNames
<1>3. \A name \in DOMAIN where.locals : where.locals[name] \in Types
  BY <1>1, ConstantsAssumption
<1>4. \A name : VariableType(name) \in Types \cup {None}
  <2>1. \A name \in DOMAIN Fields["S"] : Fields["S"][name] \in Types
    BY TypesOfMembers DEF Structs
  <2> QED BY <1>3, <2>1 DEF VariableType, IsLocal, IsMember
<1> QED BY <1>2, <1>4 DEF Variables, AllNames, Functions

\* An event as the type checker records it.
LEMMA EventTyped ==
  ASSUME NEW kind \in Kinds, NEW name \in AllNames, NEW base \in Types \cup {None},
         NEW type \in Types \cup {None}
  PROVE  /\ Event(kind, name, base, type) \in EventSet
         /\ Event(kind, name, base, type).kind = kind /\ Event(kind, name, base, type).name = name
         /\ Event(kind, name, base, type).base = base /\ Event(kind, name, base, type).type = type
         /\ Event(kind, name, base, type).field = FALSE
         /\ Event(kind, name, base, type).last = FALSE
         /\ Event(kind, name, base, type).arrow = FALSE
         /\ Event(kind, name, base, type).target = FALSE
         /\ Event(kind, name, base, type).node = 0
BY DEF Event, EventSet

\* An event is recorded.
LEMMA StepRecorded ==
  ASSUME AccessInv, phase = "checking", phase' = "checking", UNCHANGED Unchecked,
         NEW e \in EventSet, events' = Append(events, e),
         e.kind = "exitCall" /\ ~e.field => FunctionHere(e.name) # None,
         value' \in Types \cup {None}, Walk(events', open', value')
  PROVE  AccessInv'
<1>1. Shapes /\ CallsFound /\ events \in Seq(EventSet)
  BY DEF AccessInv, Walk
<1>2. /\ where' = where /\ use' = use /\ next' = next /\ lastFieldType' = lastFieldType
  BY DEF Unchecked
<1>3. /\ Len(events) \in Nat /\ Len(events') = Len(events) + 1
      /\ DOMAIN events' = 1..(Len(events) + 1) /\ DOMAIN events = 1..Len(events)
      /\ events'[Len(events) + 1] = e /\ \A k \in 1..Len(events) : events'[k] = events[k]
  BY <1>1
<1>4. Shapes'
  BY <1>1, <1>2, <1>3 DEF Shapes, Phases
<1>5. CallsFound'
  <2>2. \A k \in 1..(Len(events) + 1) : k = Len(events) + 1 \/ k \in 1..Len(events)
    BY <1>3
  <2>1. \A name : FunctionHere(name) # None <=> name = "twice" \/ (name = "get" /\ where.method)
    BY DEF FunctionHere, None
  <2>3. ASSUME NEW k \in 1..(Len(events) + 1), events'[k].kind = "exitCall", ~events'[k].field
        PROVE  events'[k].name = "twice" \/ (events'[k].name = "get" /\ where'.method)
    <3>1. CASE k = Len(events) + 1
      BY <1>2, <1>3, <2>1, <2>3, <3>1
    <3>2. CASE k \in 1..Len(events)
      <4>1. events'[k] = events[k] /\ k \in DOMAIN events
        BY <1>3, <3>2
      <4>2. FunctionHere(events[k].name) # None
        BY <1>1, <2>3, <4>1 DEF CallsFound, Indices
      <4> QED BY <1>2, <2>1, <4>1, <4>2
    <3> QED BY <2>2, <3>1, <3>2
  <2> QED BY <1>3, <2>3 DEF CallsFound, Indices, FunctionHere, None
<1>6. Pending' /\ Generated'
  BY DEF Pending, Generated
<1> QED BY <1>4, <1>5, <1>6 DEF AccessInv

\* A context is opened, or nothing is changed.
LEMMA StepOpened ==
  ASSUME AccessInv, phase = "checking", phase' \in {"checking", "rejected"}, UNCHANGED Unchecked,
         UNCHANGED <<events, value>>, Walk(events, open', value)
  PROVE  AccessInv'
<1>1. Shapes /\ CallsFound
  BY DEF AccessInv
<1>2. /\ where' = where /\ use' = use /\ next' = next /\ lastFieldType' = lastFieldType
      /\ events' = events /\ value' = value
  BY DEF Unchecked
<1>3. Shapes'
  BY <1>1, <1>2 DEF Shapes, Phases
<1>4. CallsFound'
  BY <1>1, <1>2 DEF CallsFound, Indices, FunctionHere
<1>5. Pending' /\ Generated'
  BY DEF Pending, Generated
<1> QED BY <1>2, <1>3, <1>4, <1>5 DEF AccessInv

\* A statement that is rejected stays as it is.
LEMMA StepRejected ==
  ASSUME AccessInv, phase = "checking", Reject
  PROVE  AccessInv'
<1>1. phase' = "rejected" /\ UNCHANGED <<events, open, value>> /\ UNCHANGED Unchecked
  BY DEF Reject
<1>2. Walk(events, open', value)
  BY <1>1 DEF AccessInv
<1> QED BY <1>1, <1>2, StepOpened

\* An operand that is one event.
LEMMA OperandStep ==
  ASSUME AccessInv, NEW name \in AllNames, NEW kind \in {"literal", "variable", "postfixVariable"},
         NEW type \in Types,
         phase = "checking", value = None, ~InAccess, Record(Event(kind, name, None, type)),
         value' = type, UNCHANGED <<phase, open>>, UNCHANGED Unchecked
  PROVE  AccessInv'
<1> PICK e : e = Event(kind, name, None, type)
  OBVIOUS
<1>1. /\ e \in EventSet /\ e.kind = kind /\ e.base = None /\ e.node = 0
      /\ e.field = FALSE /\ e.last = FALSE /\ e.arrow = FALSE
  <2>1. kind \in Kinds /\ None \in Types \cup {None} /\ type \in Types \cup {None}
    BY DEF Kinds
  <2>2. Event(kind, name, None, type) \in EventSet
    BY <2>1, EventTyped
  <2> QED BY <2>2 DEF Event
<1>2. Walk(events, open, None) /\ open \in Seq(FrameSet) /\ open # <<>>
  BY DEF AccessInv, Walk
<1>3. open[Len(open)].kind # "access"
  BY DEF InAccess, Top, Last
<1>4. type # None
  BY TypesOfMembers
<1>5. Walk(Append(events, e), open, type)
  BY <1>1, <1>2, <1>3, <1>4, OperandRecorded
<1>6. events' = Append(events, e) /\ open' = open /\ phase' = "checking"
  BY DEF Record
<1> QED BY <1>1, <1>5, <1>6, StepRecorded

\* exitField, with or without the exit of the access.
LEMMA FieldDoneStep ==
  ASSUME AccessInv, phase = "checking", NEW event \in EventSet, NEW frames, NEW last \in BOOLEAN,
         NEW arrow \in BOOLEAN, NEW K,
         K = Len(frames), K \in 2..Len(open), frames \in Seq(FrameSet),
         \A d \in 1..K : frames[d] = open[d],
         open[K].kind = "access",
         \/ /\ event.kind = "identifier" /\ K = Len(open) /\ value = None /\ event.node = 0
            /\ open[K].base # None => event.type = FieldType(open[K].base, event.name)
         \/ /\ event.kind = "paren" /\ K = Len(open) - 1 /\ value # None /\ event.node = 0
            /\ open[Len(open)].kind = "paren"
         \/ /\ event.kind \in {"exitCall", "exitIndex"} /\ K = Len(open) - 1 /\ value # None
            /\ open[Len(open)].kind = IF event.kind = "exitCall" THEN "call" ELSE "index"
            /\ event.name = open[Len(open)].name /\ event.node = open[Len(open)].node
            /\ event.kind = "exitCall" => open[K].base \in Structs /\ event.name \in Functions,
         FieldDone(event, frames, last, arrow)
  PROVE  AccessInv'
<1>1. /\ Walk(events, open, value) /\ open \in Seq(FrameSet) /\ events \in Seq(EventSet)
      /\ Shapes
  BY DEF AccessInv, Walk
<1>2. /\ Len(open) \in Nat /\ DOMAIN frames = 1..K /\ K \in 1..K /\ K \in Nat /\ K > 1
      /\ frames # <<>> /\ frames[K] = open[K] /\ frames[K] \in FrameSet
  BY <1>1
<1>3. CASE event.type = None \/ (arrow /\ event.type # "S*")
  <2>1. Reject
    BY <1>3 DEF FieldDone
  <2> QED BY <2>1, StepRejected
<1>4. CASE ~(event.type = None \/ (arrow /\ event.type # "S*"))
  <2> PICK t : t = IsTarget(frames)
    OBVIOUS
  <2>0. t \in BOOLEAN
    BY DEF IsTarget
  <2> PICK e : e = [event EXCEPT !.field = TRUE, !.last = last, !.arrow = arrow,
                                 !.base = frames[K].base, !.target = t]
    OBVIOUS
  <2> PICK type : type = IF arrow THEN Pointed(event.type) ELSE event.type
    OBVIOUS
  <2>1. Last(frames) = frames[K]
    BY DEF Last
  <2>2. /\ last => frames[K].base # None /\ ~arrow
        /\ events' = Append(events, e)
        /\ open' = IF last THEN Front(frames) ELSE [frames EXCEPT ![K].base = type]
        /\ value' = IF last THEN type ELSE None
        /\ phase' = "checking" /\ UNCHANGED Unchecked
    BY <1>4, <2>1 DEF FieldDone, Record
  <2>3. /\ e \in EventSet /\ e.field = TRUE /\ e.last = last /\ e.arrow = arrow
        /\ e.base = open[K].base /\ e.kind = event.kind /\ e.name = event.name
        /\ e.type = event.type /\ e.node = event.node
    <3>1. frames[K].base \in Types \cup {None}
      BY <1>2 DEF FrameSet
    <3> QED BY <1>2, <2>0, <3>1, ZenonT(60) DEF EventSet
  <2>4. FieldEvent(events, open, value, e, K)
    <3>1. e.last => e.base # None /\ ~e.arrow
      BY <1>2, <2>2, <2>3
    <3> QED BY <1>4, <2>3, <3>1 DEF FieldEvent
  <2>5. type \in Types /\ (~last => After(e) = type)
    <3>1. event.type \in Types
      BY <1>4 DEF EventSet
    <3>2. Pointed(event.type) \in Types
      BY TypesOfMembers DEF Structs
    <3>3. ~last => After(e) = IF arrow THEN Pointed(event.type) ELSE event.type
      BY <2>3 DEF After
    <3> QED BY <3>1, <3>2, <3>3
  <2>6. Walk(Append(events, e), open', value')
    <3>1. CASE last
      <4> PICK fs2 : fs2 = Front(frames)
        OBVIOUS
      <4>1. open' = fs2 /\ value' = type /\ type # None
        BY <2>2, <2>5, <3>1, TypesOfMembers
      <4>2. /\ fs2 \in Seq(FrameSet) /\ Len(fs2) = K - 1
            /\ \A d \in 1..(K - 1) : fs2[d] = frames[d]
        BY <1>2, Shortened
      <4>3. \A d \in 1..(K - 1) : fs2[d] = open[d]
        BY <1>2, <4>2
      <4>4. e.last
        BY <2>3, <3>1
      <4>5. Walk(Append(events, e), fs2, type)
        <5>1. /\ Walk(events, open, value) /\ FieldEvent(events, open, value, e, K) /\ e.last
              /\ fs2 \in Seq(FrameSet) /\ Len(fs2) = K - 1
              /\ (\A d \in 1..(K - 1) : fs2[d] = open[d]) /\ type # None
          BY <1>1, <2>4, <4>1, <4>2, <4>3, <4>4
        <5> QED BY ONLY <5>1, AccessLeft
      <4> QED BY <4>1, <4>5
    <3>2. CASE ~last
      <4> PICK fs2 : fs2 = [frames EXCEPT ![K].base = type]
        OBVIOUS
      <4>1. open' = fs2 /\ value' = None
        BY <2>2, <3>2
      <4>2. /\ fs2 \in Seq(FrameSet) /\ Len(fs2) = K
            /\ \A d \in 1..(K - 1) : fs2[d] = frames[d]
            /\ fs2[K] = [frames[K] EXCEPT !.base = type]
        <5>1. [frames[K] EXCEPT !.base = type] \in FrameSet
          BY <1>2, <2>5 DEF FrameSet
        <5>2. fs2 = [frames EXCEPT ![K] = [frames[K] EXCEPT !.base = type]]
          BY <1>2
        <5> QED BY <1>2, <5>1, <5>2
      <4>3. /\ fs2[K].kind = "access" /\ fs2[K].field = open[K].field
            /\ fs2[K].node = open[K].node /\ fs2[K].base = After(e)
        BY <1>2, <2>5, <3>2, <4>2 DEF FrameSet
      <4>4. \A d \in 1..(K - 1) : fs2[d] = open[d]
        BY <1>2, <4>2
      <4>5. ~e.last
        BY <2>3, <3>2
      <4>6. Walk(Append(events, e), fs2, None)
        <5>1. /\ Walk(events, open, value) /\ FieldEvent(events, open, value, e, K) /\ ~e.last
              /\ fs2 \in Seq(FrameSet) /\ Len(fs2) = K
              /\ \A d \in 1..(K - 1) : fs2[d] = open[d]
              /\ fs2[K].kind = "access" /\ fs2[K].field = open[K].field
              /\ fs2[K].node = open[K].node /\ fs2[K].base = After(e)
          BY <1>1, <2>4, <4>2, <4>3, <4>4, <4>5
        <5> QED BY ONLY <5>1, AccessGoesOn
      <4> QED BY <4>1, <4>6
    <3> QED BY <3>1, <3>2
  <2>7. value' \in Types \cup {None}
    BY <2>2, <2>5
  <2> QED BY <2>2, <2>3, <2>6, <2>7, StepRecorded
<1> QED BY <1>3, <1>4

\* The operands that are one event.
LEMMA LiteralStep ==
  ASSUME AccessInv, CheckLiteral
  PROVE  AccessInv'
<1>1. "int" \in Types /\ None \in AllNames
  BY DEF Types, AllNames
<1> QED BY <1>1, OperandStep DEF CheckLiteral, OperandMayBegin

\* A variable is the operand of the innermost frame.
LEMMA VariableStep ==
  ASSUME AccessInv, NEW name \in Variables, CheckVariable(name) \/ CheckPostfixVariable(name)
  PROVE  AccessInv'
<1>1. name \in AllNames /\ VariableType(name) \in Types
  BY NamesInScope DEF AccessInv
<1> PICK type : type = VariableType(name)
  OBVIOUS
<1>2. type \in Types /\ "int" \in Types
  BY <1>1 DEF Types
<1>3. CASE CheckVariable(name)
  <2>1. /\ phase = "checking" /\ value = None /\ ~InAccess
        /\ Record(Event("variable", name, None, type)) /\ value' = type
        /\ UNCHANGED <<phase, open>> /\ UNCHANGED Unchecked
    BY <1>3 DEF CheckVariable, OperandMayBegin
  <2> QED BY <1>1, <1>2, <2>1, OperandStep
<1>4. CASE CheckPostfixVariable(name)
  <2>1. phase = "checking" /\ value = None /\ ~InAccess
    BY <1>4 DEF CheckPostfixVariable, OperandMayBegin
  <2>2. CASE VariableType(name) = "int"
    <3>1. /\ Record(Event("postfixVariable", name, None, "int")) /\ value' = "int"
          /\ UNCHANGED <<phase, open>> /\ UNCHANGED Unchecked
      BY <1>4, <2>2 DEF CheckPostfixVariable
    <3> QED BY <1>1, <1>2, <2>1, <3>1, OperandStep
  <2>3. CASE VariableType(name) # "int"
    <3>1. Reject
      BY <1>4, <2>3 DEF CheckPostfixVariable
    <3> QED BY <2>1, <3>1, StepRejected
  <2> QED BY <2>2, <2>3
<1> QED BY <1>3, <1>4

\* The innermost frame.
LEMMA TopFrame ==
  ASSUME AccessInv
  PROVE  /\ Walk(events, open, value) /\ open \in Seq(FrameSet) /\ open # <<>>
         /\ events \in Seq(EventSet) /\ Len(events) \in Nat
         /\ Len(open) \in Nat /\ Len(open) >= 1 /\ Len(open) \in DOMAIN open
         /\ Top = open[Len(open)] /\ Top \in FrameSet /\ (InAccess <=> Top.kind = "access")
         /\ FrameOK(events, open, Len(open)) /\ (Top.kind # "statement" => Len(open) > 1)
         /\ Shapes
<1>1. /\ Walk(events, open, value) /\ open \in Seq(FrameSet) /\ open # <<>>
      /\ events \in Seq(EventSet) /\ Len(events) \in Nat
      /\ Len(open) \in Nat /\ Len(open) >= 1 /\ Len(open) \in DOMAIN open
      /\ Shapes
  BY DEF AccessInv, Walk
<1>2. FrameOK(events, open, Len(open))
  BY <1>1 DEF Walk
<1>3. Top = open[Len(open)] /\ (InAccess <=> Top.kind = "access") /\ Top \in FrameSet
  BY <1>1 DEF Top, Last, InAccess
<1>4. Top.kind # "statement" => Len(open) > 1
  <2>1. open[Len(open)].kind = "statement" <=> Len(open) = 1
    BY <1>2 DEF FrameOK
  <2>2. Len(open) = 1 \/ Len(open) > 1
    <3>1. \A n \in Nat : n >= 1 => n = 1 \/ n > 1
      OBVIOUS
    <3>2. Len(open) \in Nat /\ Len(open) >= 1
      BY <1>1
    <3> QED BY ONLY <3>1, <3>2
  <2> QED BY <1>3, <2>1, <2>2
<1> QED BY <1>1, <1>2, <1>3, <1>4

\* enterField_access, parentheses, and the operators.
LEMMA OpenStep ==
  ASSUME AccessInv, NEW kind \in {"access", "paren", "prefix", "postfix"}, Open(kind)
  PROVE  AccessInv'
<1> PICK f : f = Frame(kind, None, None, FALSE, 0)
  OBVIOUS
<1>1. /\ f \in FrameSet /\ f.kind = kind /\ f.field = FALSE /\ f.node = 0 /\ f.base = None
  BY DEF Frame, FrameSet, AllNames
<1>2. Walk(events, open, value) /\ Top = open[Len(open)] /\ (InAccess <=> Top.kind = "access")
  BY TopFrame
<1>3. /\ phase = "checking" /\ value = None
      /\ kind = "paren" <=> open[Len(open)].kind = "access"
      /\ kind = "paren" => open[Len(open)].base = None
      /\ open' = Append(open, f) /\ phase' = phase
      /\ UNCHANGED <<events, value>> /\ UNCHANGED Unchecked
  BY <1>2 DEF Open, FieldMayBegin, OperandMayBegin
<1>4. Walk(events, Append(open, f), None)
  BY <1>1, <1>2, <1>3, FrameOpened
<1> QED BY <1>3, <1>4, StepOpened

\* enterFunction_call
LEMMA EnterCallStep ==
  ASSUME AccessInv, NEW name \in Functions, EnterCall(name)
  PROVE  AccessInv'
<1> PICK base : base = IF InAccess THEN Top.base ELSE None
  OBVIOUS
<1> PICK field : field = InAccess
  OBVIOUS
<1> PICK e : e = [Event("enterCall", name, base, None) EXCEPT !.field = field]
  OBVIOUS
<1> PICK f : f = Frame("call", name, base, field, Len(events) + 1)
  OBVIOUS
<1>1. /\ Walk(events, open, value) /\ Top = open[Len(open)] /\ Top \in FrameSet
      /\ (InAccess <=> Top.kind = "access") /\ Len(events) \in Nat /\ Shapes
  BY TopFrame
<1>2. field \in BOOLEAN /\ base \in Types \cup {None} /\ name \in AllNames
  BY <1>1 DEF InAccess, FrameSet, AllNames, Functions
<1>3. /\ e \in EventSet /\ e.kind = "enterCall" /\ e.name = name /\ e.base = base
      /\ e.field = field /\ e.last = FALSE /\ e.arrow = FALSE /\ e.node = 0
  BY <1>2 DEF Event, EventSet, Kinds
<1>4. /\ f \in FrameSet /\ f.kind = "call" /\ f.name = name /\ f.base = base
      /\ f.field = field /\ f.node = Len(events) + 1
  BY <1>1, <1>2 DEF Frame, FrameSet
<1>5. /\ phase = "checking" /\ value = None /\ events' = Append(events, e)
      /\ open' = Append(open, f) /\ phase' = phase /\ value' = None /\ UNCHANGED Unchecked
  BY DEF EnterCall, FieldMayBegin, OperandMayBegin, Record
<1>6. /\ e.field <=> open[Len(open)].kind = "access"
      /\ e.base = IF e.field THEN open[Len(open)].base ELSE None
  BY <1>1, <1>3
<1>7. Walk(Append(events, e), Append(open, f), None)
  <2>1. /\ Walk(events, open, None) /\ e \in EventSet /\ f \in FrameSet
        /\ e.kind \in {"enterCall", "enterIndex"} /\ e.node = 0 /\ ~e.last /\ ~e.arrow
        /\ (e.kind = "enterIndex" /\ e.base # None =>
              e.base \in Structs /\ e.name \in DOMAIN Fields[e.base])
        /\ (e.kind = "enterCall" => e.name \in Functions /\ f.base = e.base)
        /\ f.kind = IF e.kind = "enterCall" THEN "call" ELSE "index"
        /\ f.name = e.name /\ f.field = e.field /\ f.node = Len(events) + 1
    BY <1>1, <1>3, <1>4, <1>5
  <2> QED BY ONLY <1>6, <2>1, Entered
<1> QED BY <1>3, <1>5, <1>7, StepRecorded

\* exitIndexable
LEMMA EnterIndexStep ==
  ASSUME AccessInv, NEW name \in Names \cup DOMAIN where.locals, EnterIndex(name)
  PROVE  AccessInv'
<1> PICK base : base = IF InAccess THEN Top.base ELSE None
  OBVIOUS
<1> PICK field : field = InAccess
  OBVIOUS
<1> PICK type : type = IndexedType(name)
  OBVIOUS
<1> PICK e : e = [Event("enterIndex", name, base, type) EXCEPT !.field = field]
  OBVIOUS
<1> PICK f : f = Frame("index", name, type, field, Len(events) + 1)
  OBVIOUS
<1>1. /\ Walk(events, open, value) /\ Top = open[Len(open)] /\ Top \in FrameSet
      /\ (InAccess <=> Top.kind = "access") /\ Len(events) \in Nat /\ Shapes
  BY TopFrame
<1>2. name \in AllNames
  BY <1>1, NamesInScope
<1>3. /\ phase = "checking" /\ value = None /\ events' = Append(events, e) /\ type \in Arrays
      /\ open' = Append(open, f) /\ phase' = phase /\ value' = None /\ UNCHANGED Unchecked
  BY DEF EnterIndex, FieldMayBegin, OperandMayBegin, Record
<1>4. field \in BOOLEAN /\ base \in Types \cup {None} /\ type \in Types \cup {None}
  BY <1>1, <1>3, TypesOfMembers DEF InAccess, FrameSet
<1>5. /\ e \in EventSet /\ e.kind = "enterIndex" /\ e.name = name /\ e.base = base
      /\ e.field = field /\ e.last = FALSE /\ e.arrow = FALSE /\ e.node = 0
  BY <1>2, <1>4 DEF Event, EventSet, Kinds
<1>6. /\ f \in FrameSet /\ f.kind = "index" /\ f.name = name
      /\ f.field = field /\ f.node = Len(events) + 1
  BY <1>1, <1>2, <1>4 DEF Frame, FrameSet
<1>7. /\ e.field <=> open[Len(open)].kind = "access"
      /\ e.base = IF e.field THEN open[Len(open)].base ELSE None
  BY <1>1, <1>5
<1>8. base # None => base \in Structs /\ name \in DOMAIN Fields[base]
  <2> SUFFICES ASSUME base # None PROVE base \in Structs /\ name \in DOMAIN Fields[base]
    OBVIOUS
  <2>1. FieldType(base, name) \in Arrays
    BY <1>3 DEF IndexedType
  <2>2. \A array : Element(array) \notin Arrays
    BY DEF Element, Arrays
  <2> QED BY <2>1, <2>2 DEF FieldType, Arrays, None
<1>9. Walk(Append(events, e), Append(open, f), None)
  BY <1>1, <1>3, <1>5, <1>6, <1>7, <1>8, Entered, ZenonT(60)
<1> QED BY <1>3, <1>5, <1>9, StepRecorded

\* exitField of a name, and of parentheses.
LEMMA IdentifierStep ==
  ASSUME AccessInv, NEW name \in Names \cup DOMAIN where.locals, NEW last \in BOOLEAN,
         NEW arrow \in BOOLEAN, CheckIdentifier(name, last, arrow)
  PROVE  AccessInv'
<1> PICK type : type = IF Top.base = None THEN VariableType(name) ELSE FieldType(Top.base, name)
  OBVIOUS
<1> PICK event : event = Event("identifier", name, None, type)
  OBVIOUS
<1> PICK frames : frames = open
  OBVIOUS
<1>1. /\ open \in Seq(FrameSet) /\ Len(open) \in Nat /\ Top = open[Len(open)]
      /\ (InAccess <=> Top.kind = "access") /\ (Top.kind # "statement" => Len(open) > 1) /\ Shapes
  BY TopFrame
<1>2. name \in AllNames /\ type \in Types \cup {None}
  BY <1>1, NamesInScope, TypesOfMembers
<1>3. /\ event \in EventSet /\ event.kind = "identifier" /\ event.name = name
      /\ event.type = type /\ event.node = 0
  <2>1. "identifier" \in Kinds /\ None \in Types \cup {None}
    BY DEF Kinds
  <2>2. event \in EventSet
    BY <1>2, <2>1, EventTyped
  <2> QED BY <2>2 DEF Event
<1>4. phase = "checking" /\ value = None /\ InAccess /\ FieldDone(event, frames, last, arrow)
  BY DEF CheckIdentifier, FieldMayBegin
<1>5. /\ Len(frames) \in 2..Len(open) /\ frames \in Seq(FrameSet)
      /\ \A d \in 1..Len(frames) : frames[d] = open[d]
      /\ open[Len(frames)].kind = "access"
      /\ event.kind = "identifier" /\ Len(frames) = Len(open) /\ value = None /\ event.node = 0
      /\ open[Len(frames)].base # None => event.type = FieldType(open[Len(frames)].base, event.name)
  BY <1>1, <1>3, <1>4
<1> QED BY <1>3, <1>4, <1>5, FieldDoneStep

\* Closing a parenthesis that an access begins with.
LEMMA ParenStep ==
  ASSUME AccessInv, NEW arrow \in BOOLEAN, CheckParen(arrow)
  PROVE  AccessInv'
<1> PICK event : event = Event("paren", None, None, value)
  OBVIOUS
<1> PICK frames : frames = Front(open)
  OBVIOUS
<1> PICK last \in BOOLEAN : last = FALSE
  OBVIOUS
<1>1. /\ open \in Seq(FrameSet) /\ Len(open) \in Nat /\ Top = open[Len(open)]
      /\ FrameOK(events, open, Len(open))
      /\ (Top.kind # "statement" => Len(open) > 1) /\ Shapes
  BY TopFrame
<1>2. phase = "checking" /\ value # None /\ Top.kind = "paren" /\ FieldDone(event, frames, last, arrow)
  BY DEF CheckParen, OperandOf
<1>3. event \in EventSet /\ event.kind = "paren" /\ event.node = 0
  <2>1. "paren" \in Kinds /\ None \in Types \cup {None} /\ value \in Types \cup {None} /\ None \in AllNames
    BY <1>1 DEF Kinds, Shapes, AllNames
  <2>2. event \in EventSet
    BY <2>1, EventTyped
  <2> QED BY <2>2 DEF Event
<1>4. Len(open) > 1 /\ Len(open) - 1 \in Nat
  BY <1>1, <1>2
<1>5. /\ Len(frames) = Len(open) - 1 /\ frames \in Seq(FrameSet)
      /\ \A d \in 1..(Len(open) - 1) : frames[d] = open[d]
  BY <1>1, <1>4, Shortened
<1>6. open[Len(open) - 1].kind = "access" /\ Len(open) - 1 # 1
  <2>1. open[Len(open) - 1].kind = "access"
    BY <1>1, <1>2, <1>4 DEF FrameOK
  <2>2. FrameOK(events, open, Len(open) - 1)
    <3>1. Len(open) - 1 \in DOMAIN open
      BY <1>1, <1>4
    <3> QED BY <3>1 DEF AccessInv, Walk
  <2> QED BY <2>1, <2>2 DEF FrameOK
<1>7. /\ Len(frames) \in 2..Len(open) /\ open[Len(frames)].kind = "access"
      /\ \A d \in 1..Len(frames) : frames[d] = open[d]
      /\ open[Len(open)].kind = "paren"
  BY <1>1, <1>2, <1>4, <1>5, <1>6
<1> QED BY <1>2, <1>3, <1>5, <1>7, FieldDoneStep

\* What is left of the frames when a call or an index is exited as a field.
LEMMA BracketTop ==
  ASSUME AccessInv, Bracket(Top)
  PROVE  /\ Len(open) - 1 \in Nat /\ Len(open) > 1
         /\ Front(open) \in Seq(FrameSet) /\ Len(Front(open)) = Len(open) - 1
         /\ \A d \in 1..(Len(open) - 1) : Front(open)[d] = open[d]
         /\ Top.name \in AllNames /\ Top.node \in Nat /\ Top.field \in BOOLEAN
         /\ Top.field => /\ Len(open) - 1 \in 2..Len(open)
                         /\ open[Len(open) - 1].kind = "access"
                         /\ Top.kind = "call" => Top.base = open[Len(open) - 1].base
         /\ Top.kind = "call" => Top.name \in Functions
<1>1. /\ Walk(events, open, value) /\ open \in Seq(FrameSet) /\ Len(open) \in Nat
      /\ Top = open[Len(open)] /\ Top \in FrameSet
      /\ FrameOK(events, open, Len(open)) /\ (Top.kind # "statement" => Len(open) > 1)
  BY TopFrame
<1>2. Len(open) > 1 /\ Len(open) - 1 \in Nat
  BY <1>1 DEF Bracket
<1>3. /\ Front(open) \in Seq(FrameSet) /\ Len(Front(open)) = Len(open) - 1
      /\ \A d \in 1..(Len(open) - 1) : Front(open)[d] = open[d]
  BY <1>1, <1>2, Shortened
<1>4. Top.name \in AllNames /\ Top.node \in Nat /\ Top.field \in BOOLEAN
  BY <1>1 DEF FrameSet
<1> PICK f : f = open[Len(open)]
  OBVIOUS
<1>5. /\ f.node \in 1..Len(events) /\ events[f.node].name = f.name
      /\ events[f.node].kind = IF f.kind = "call" THEN "enterCall" ELSE "enterIndex"
      /\ events[f.node].base = IF f.field THEN open[Len(open) - 1].base ELSE None
      /\ f.field <=> open[Len(open) - 1].kind = "access"
  BY <1>1, InnermostNode
<1>6. Top.kind = "call" => Top.name \in Functions
  <2>1. EventOK(events, f.node)
    BY <1>1, <1>5 DEF Walk
  <2> QED BY <1>1, <1>5, <2>1 DEF EventOK
<1>7. ASSUME Top.field
      PROVE  /\ Len(open) - 1 \in 2..Len(open)
             /\ open[Len(open) - 1].kind = "access"
             /\ Top.kind = "call" => Top.base = open[Len(open) - 1].base
  <2>1. open[Len(open) - 1].kind = "access"
    BY <1>1, <1>5, <1>7
  <2>2. Len(open) - 1 # 1
    <3>1. Len(open) - 1 \in DOMAIN open
      BY <1>1, <1>2
    <3>2. FrameOK(events, open, Len(open) - 1)
      BY <1>1, <3>1 DEF Walk
    <3> QED BY <2>1, <3>2 DEF FrameOK
  <2>3. f.kind = "call" => f.base = events[f.node].base
    <3>1. Bracket(open[Len(open)]) /\ FrameOK(events, open, Len(open))
      BY <1>1
    <3>2. open[Len(open)].kind = "call" =>
            open[Len(open)].base = events[open[Len(open)].node].base
      BY ONLY <3>1 DEF FrameOK
    <3> QED BY <3>2
  <2>4. Top = f /\ (Top.kind = "call" => Top.base = open[Len(open) - 1].base)
    BY <1>1, <1>5, <1>7, <2>3
  <2>5. Len(open) - 1 \in 2..Len(open)
    <3>1. Len(open) \in Nat /\ Len(open) > 1
      BY <1>1, <1>2
    <3>2. \A n \in Nat : n > 1 /\ n - 1 # 1 => n - 1 \in 2..n
      OBVIOUS
    <3> QED BY ONLY <2>2, <3>1, <3>2
  <2> QED BY <2>1, <2>4, <2>5
<1> QED BY <1>2, <1>3, <1>4, <1>6, <1>7

\* exitFunction_call
LEMMA CallStep ==
  ASSUME AccessInv, NEW last \in BOOLEAN, NEW arrow \in BOOLEAN, CheckCall(last, arrow)
  PROVE  AccessInv'
<1> PICK owner : owner = CASE Top.field /\ Top.base \in Structs -> FunctionOf(Top.base, Top.name)
                           [] Top.field /\ Top.base \notin Structs -> None
                           [] OTHER -> FunctionHere(Top.name)
  OBVIOUS
<1> PICK event : event = [Event("exitCall", Top.name, None, Returned(owner)) EXCEPT !.node = Top.node]
  OBVIOUS
<1> PICK f : f = open[Len(open)]
  OBVIOUS
<1> PICK frames : frames = Front(open)
  OBVIOUS
<1>1. /\ Walk(events, open, value) /\ Top = f /\ events \in Seq(EventSet)
  BY TopFrame
<1>2. phase = "checking" /\ value # None /\ f.kind = "call"
  BY <1>1 DEF CheckCall, OperandOf
<1>3. /\ Len(open) - 1 \in Nat /\ Len(open) > 1
      /\ frames \in Seq(FrameSet) /\ Len(frames) = Len(open) - 1
      /\ \A d \in 1..(Len(open) - 1) : frames[d] = open[d]
      /\ f.name \in AllNames /\ f.node \in Nat /\ f.field \in BOOLEAN /\ f.name \in Functions
      /\ f.field => /\ Len(open) - 1 \in 2..Len(open)
                    /\ open[Len(open) - 1].kind = "access"
                    /\ f.base = open[Len(open) - 1].base
  BY <1>1, <1>2, BracketTop DEF Bracket
<1>4. /\ event \in EventSet /\ event.kind = "exitCall" /\ event.name = f.name
      /\ event.node = f.node /\ event.field = FALSE /\ event.base = None
      /\ event.last = FALSE /\ event.arrow = FALSE /\ event.type \in Types
  <2>1. "exitCall" \in Kinds /\ None \in Types \cup {None} /\ Returned(owner) \in Types
    BY TypesOfMembers DEF Kinds
  <2> QED BY <1>1, <1>3, <2>1 DEF Event, EventSet
<1>5. CASE owner = None \/ value # "int"
  <2>1. Reject
    BY <1>5 DEF CheckCall
  <2> QED BY <1>2, <2>1, StepRejected
<1>6. CASE ~(owner = None \/ value # "int") /\ f.field
  <2>1. FieldDone(event, frames, last, arrow)
    BY <1>1, <1>6 DEF CheckCall
  <2>2. f.base \in Structs
    BY <1>1, <1>6
  <2> PICK K : K = Len(open) - 1
    OBVIOUS
  <2>3. /\ K = Len(frames) /\ K \in 2..Len(open) /\ frames \in Seq(FrameSet)
        /\ \A d \in 1..K : frames[d] = open[d]
        /\ open[K].kind = "access"
    BY <1>3, <1>6
  <2>4. /\ event.kind \in {"exitCall", "exitIndex"} /\ K = Len(open) - 1 /\ value # None
        /\ open[Len(open)].kind = IF event.kind = "exitCall" THEN "call" ELSE "index"
        /\ event.name = open[Len(open)].name /\ event.node = open[Len(open)].node
        /\ event.kind = "exitCall" => open[K].base \in Structs /\ event.name \in Functions
    <3>1. open[K].base \in Structs /\ event.name \in Functions
      BY <1>3, <1>4, <1>6, <2>2
    <3> QED BY <1>2, <1>4, <3>1
  <2>5. phase = "checking" /\ event \in EventSet
    BY <1>2, <1>4
  <2> QED BY ONLY AccessInv, <2>1, <2>3, <2>4, <2>5, FieldDoneStep
<1>7. CASE ~(owner = None \/ value # "int") /\ ~f.field
  <2>1. OperandDone(event) /\ owner = FunctionHere(f.name)
    BY <1>1, <1>7 DEF CheckCall
  <2>2. /\ events' = Append(events, event) /\ open' = frames /\ value' = event.type
        /\ phase' = "checking" /\ UNCHANGED Unchecked
    BY <1>2, <2>1 DEF OperandDone, Record
  <2>3. event.type # None
    BY <1>4, TypesOfMembers
  <2>4. Walk(Append(events, event), frames, event.type)
    <3>1. /\ Walk(events, open, value) /\ value # None /\ Len(open) > 1 /\ event \in EventSet
          /\ ~event.field /\ event.base = None /\ ~event.last /\ ~event.arrow
          /\ open[Len(open)].kind = IF event.kind = "exitCall" THEN "call" ELSE "index"
          /\ event.kind \in {"exitCall", "exitIndex"} /\ ~open[Len(open)].field
          /\ event.name = open[Len(open)].name /\ event.node = open[Len(open)].node
          /\ event.kind = "exitCall" => event.name \in Functions
      BY <1>1, <1>2, <1>3, <1>4, <1>7
    <3>2. /\ frames \in Seq(FrameSet) /\ Len(frames) = Len(open) - 1
          /\ \A d \in 1..(Len(open) - 1) : frames[d] = open[d]
      BY <1>3
    <3> QED BY ONLY <2>3, <3>1, <3>2, OperandExited
  <2>5. FunctionHere(event.name) # None
    BY <1>4, <1>7, <2>1
  <2> QED BY <1>2, <1>4, <2>2, <2>4, <2>5, StepRecorded
<1> QED BY <1>3, <1>5, <1>6, <1>7

\* exitIndex_expression
LEMMA IndexStep ==
  ASSUME AccessInv, NEW last \in BOOLEAN, NEW arrow \in BOOLEAN, CheckIndex(last, arrow)
  PROVE  AccessInv'
<1> PICK target : target = IsLeftSide(open)
  OBVIOUS
<1> PICK event : event = [Event("exitIndex", Top.name, None, Element(Top.base)) EXCEPT
                            !.target = target, !.node = Top.node]
  OBVIOUS
<1> PICK f : f = open[Len(open)]
  OBVIOUS
<1> PICK frames : frames = Front(open)
  OBVIOUS
<1>1. /\ Walk(events, open, value) /\ Top = f /\ events \in Seq(EventSet)
  BY TopFrame
<1>2. phase = "checking" /\ value # None /\ f.kind = "index"
  BY <1>1 DEF CheckIndex, OperandOf
<1>3. /\ Len(open) - 1 \in Nat /\ Len(open) > 1
      /\ frames \in Seq(FrameSet) /\ Len(frames) = Len(open) - 1
      /\ \A d \in 1..(Len(open) - 1) : frames[d] = open[d]
      /\ f.name \in AllNames /\ f.node \in Nat /\ f.field \in BOOLEAN
      /\ f.field => /\ Len(open) - 1 \in 2..Len(open)
                    /\ open[Len(open) - 1].kind = "access"
  BY <1>1, <1>2, BracketTop DEF Bracket
<1>4. /\ event \in EventSet /\ event.kind = "exitIndex" /\ event.name = f.name
      /\ event.node = f.node /\ event.field = FALSE /\ event.base = None
      /\ event.last = FALSE /\ event.arrow = FALSE /\ event.type \in Types
  <2>1. "exitIndex" \in Kinds /\ None \in Types \cup {None} /\ Element(Top.base) \in Types
    BY TypesOfMembers DEF Kinds
  <2>2. target \in BOOLEAN
    BY DEF IsLeftSide
  <2> QED BY <1>1, <1>3, <2>1, <2>2 DEF Event, EventSet
<1>5. CASE value # "int"
  <2>1. Reject
    BY <1>5 DEF CheckIndex
  <2> QED BY <1>2, <2>1, StepRejected
<1>6. CASE value = "int" /\ f.field
  <2>1. FieldDone(event, frames, last, arrow)
    BY <1>1, <1>6 DEF CheckIndex
  <2> PICK K : K = Len(open) - 1
    OBVIOUS
  <2>2. /\ K = Len(frames) /\ K \in 2..Len(open) /\ frames \in Seq(FrameSet)
        /\ \A d \in 1..K : frames[d] = open[d]
        /\ open[K].kind = "access"
    BY <1>3, <1>6
  <2>3. /\ event.kind \in {"exitCall", "exitIndex"} /\ K = Len(open) - 1 /\ value # None
        /\ open[Len(open)].kind = IF event.kind = "exitCall" THEN "call" ELSE "index"
        /\ event.name = open[Len(open)].name /\ event.node = open[Len(open)].node
        /\ event.kind = "exitCall" => open[K].base \in Structs /\ event.name \in Functions
    BY <1>2, <1>3, <1>4, <1>6
  <2> QED BY <1>2, <1>4, <2>1, <2>2, <2>3, FieldDoneStep, ZenonT(60)
<1>7. CASE value = "int" /\ ~f.field
  <2>1. OperandDone(event)
    BY <1>1, <1>7 DEF CheckIndex
  <2>2. /\ events' = Append(events, event) /\ open' = frames /\ value' = event.type
        /\ phase' = "checking" /\ UNCHANGED Unchecked
    BY <1>2, <2>1 DEF OperandDone, Record
  <2>3. event.type # None
    BY <1>4, TypesOfMembers
  <2>4. Walk(Append(events, event), frames, event.type)
    <3>1. /\ Walk(events, open, value) /\ value # None /\ Len(open) > 1 /\ event \in EventSet
          /\ ~event.field /\ event.base = None /\ ~event.last /\ ~event.arrow
          /\ open[Len(open)].kind = IF event.kind = "exitCall" THEN "call" ELSE "index"
          /\ event.kind \in {"exitCall", "exitIndex"} /\ ~open[Len(open)].field
          /\ event.name = open[Len(open)].name /\ event.node = open[Len(open)].node
          /\ event.kind = "exitCall" => event.name \in Functions
      BY <1>1, <1>2, <1>3, <1>4, <1>7
    <3>2. /\ frames \in Seq(FrameSet) /\ Len(frames) = Len(open) - 1
          /\ \A d \in 1..(Len(open) - 1) : frames[d] = open[d]
      BY <1>3
    <3> QED BY ONLY <2>3, <3>1, <3>2, OperandExited
  <2> QED BY <1>2, <1>4, <2>2, <2>4, StepRecorded
<1> QED BY <1>3, <1>5, <1>6, <1>7

\* exitUnary_expression and exitPostfix_expression
LEMMA IncrementStep ==
  ASSUME AccessInv, NEW kind \in {"prefix", "postfix"}, CheckIncrement(kind)
  PROVE  AccessInv'
<1> PICK name : name = IF Last(events).kind = "variable" THEN Last(events).name ELSE None
  OBVIOUS
<1> PICK event : event = Event(kind, name, None, "int")
  OBVIOUS
<1> PICK f : f = open[Len(open)]
  OBVIOUS
<1> PICK frames : frames = Front(open)
  OBVIOUS
<1>1. /\ Walk(events, open, value) /\ Top = f /\ events \in Seq(EventSet) /\ open \in Seq(FrameSet)
      /\ Len(open) \in Nat /\ (Top.kind # "statement" => Len(open) > 1) /\ Len(events) \in Nat
  BY TopFrame
<1>2. phase = "checking" /\ value # None /\ f.kind = kind /\ Len(open) > 1
  BY <1>1 DEF CheckIncrement, OperandOf
<1>3. /\ frames \in Seq(FrameSet) /\ Len(frames) = Len(open) - 1
      /\ \A d \in 1..(Len(open) - 1) : frames[d] = open[d]
  BY <1>1, <1>2, Shortened
<1>4. CASE value # "int"
  <2>1. Reject
    BY <1>4 DEF CheckIncrement
  <2> QED BY <1>2, <2>1, StepRejected
<1>5. CASE value = "int"
  <2>1. OperandDone(event)
    BY <1>5 DEF CheckIncrement
  <2>2. events # <<>>
    BY <1>2 DEF AccessInv, Shapes
  <2>3. name \in AllNames
    <3>1. events[Len(events)] \in EventSet /\ Last(events) = events[Len(events)]
      BY <1>1, <2>2 DEF Last
    <3>2. events[Len(events)].name \in AllNames
      BY <3>1 DEF EventSet
    <3>3. None \in AllNames
      BY DEF AllNames
    <3> QED BY <3>1, <3>2, <3>3
  <2>4. /\ event \in EventSet /\ event.kind = kind /\ event.base = None
        /\ event.node = 0 /\ event.field = FALSE
        /\ event.last = FALSE /\ event.arrow = FALSE /\ event.type = "int"
    <3>1. kind \in Kinds /\ None \in Types \cup {None} /\ "int" \in Types
      BY DEF Kinds, Types
    <3> QED BY <2>3, <3>1 DEF Event, EventSet
  <2>5. /\ events' = Append(events, event) /\ open' = frames /\ value' = "int"
        /\ phase' = "checking" /\ UNCHANGED Unchecked
    BY <1>2, <2>1, <2>4 DEF OperandDone, Record
  <2>6. Walk(Append(events, event), frames, "int")
    <3>1. /\ Walk(events, open, value) /\ value # None /\ Len(open) > 1 /\ event \in EventSet
          /\ ~event.field /\ event.base = None /\ ~event.last /\ ~event.arrow
          /\ event.kind \in {"prefix", "postfix"} /\ open[Len(open)].kind \in {"prefix", "postfix"}
          /\ event.node = 0 /\ "int" # None
      BY <1>1, <1>2, <2>4 DEF None
    <3> QED BY ONLY <1>3, <3>1, OperandExited
  <2>7. "int" \in Types
    BY DEF Types
  <2> QED BY <1>2, <2>4, <2>5, <2>6, <2>7, StepRecorded
<1> QED BY <1>4, <1>5

-----------------------------------------------------------------------------
(* Which events the generator does not survive, by lastFieldType.          *)

InstrSet ==
  [op : {"load", "getfield", "putfield", "throw", "const", "invoke", "iaload", "aaload",
         "increment", "dup", "dup_x1", "store"},
   owner : Types \cup {None, "Main"}, name : AllNames \cup {"this"}]

\* Code of two parts throws where one of them does.
LEMMA ThrowsConcat ==
  ASSUME NEW s \in Seq(InstrSet), NEW t \in Seq(InstrSet)
  PROVE  s \o t \in Seq(InstrSet) /\ (Throws(s \o t) <=> Throws(s) \/ Throws(t))
<1>1. /\ Len(s) \in Nat /\ Len(t) \in Nat /\ s \o t \in Seq(InstrSet)
      /\ DOMAIN s = 1..Len(s) /\ DOMAIN t = 1..Len(t) /\ DOMAIN (s \o t) = 1..(Len(s) + Len(t))
      /\ \A i \in 1..Len(s) : (s \o t)[i] = s[i]
      /\ \A i \in 1..Len(t) : (s \o t)[Len(s) + i] = t[i]
  OBVIOUS
<1> PICK u : u = s \o t
  OBVIOUS
<1>2. ASSUME Throws(s) PROVE Throws(u)
  <2>1. PICK i \in 1..Len(s) : s[i].op = "throw"
    BY <1>1, <1>2 DEF Throws
  <2>2. i \in DOMAIN u /\ u[i].op = "throw"
    BY <1>1, <2>1
  <2> QED BY <2>2 DEF Throws
<1>3. ASSUME Throws(t) PROVE Throws(u)
  <2>1. PICK i \in 1..Len(t) : t[i].op = "throw"
    BY <1>1, <1>3 DEF Throws
  <2>2. Len(s) + i \in DOMAIN u /\ u[Len(s) + i].op = "throw"
    BY <1>1, <2>1
  <2> QED BY <2>2 DEF Throws
<1>4. ASSUME Throws(u) PROVE Throws(s) \/ Throws(t)
  <2>1. PICK i \in 1..(Len(s) + Len(t)) : u[i].op = "throw"
    BY <1>1, <1>4 DEF Throws
  <2>2. CASE i \in 1..Len(s)
    BY <1>1, <2>1, <2>2 DEF Throws
  <2>3. CASE i \notin 1..Len(s)
    <3>1. i - Len(s) \in 1..Len(t) /\ Len(s) + (i - Len(s)) = i
      BY <1>1, <2>1, <2>3
    <3>2. t[i - Len(s)].op = "throw"
      BY <1>1, <2>1, <3>1
    <3> QED BY <1>1, <3>1, <3>2 DEF Throws
  <2> QED BY <2>2, <2>3
<1> QED BY <1>1, <1>2, <1>3, <1>4

\* Short pieces of code.
LEMMA ThrowsShort ==
  /\ <<>> \in Seq(InstrSet) /\ ~Throws(<<>>)
  /\ Throw \in Seq(InstrSet) /\ Throws(Throw)
  /\ \A a \in InstrSet : a.op # "throw" => <<a>> \in Seq(InstrSet) /\ ~Throws(<<a>>)
  /\ \A a, b \in InstrSet : a.op # "throw" /\ b.op # "throw" =>
       <<a, b>> \in Seq(InstrSet) /\ ~Throws(<<a, b>>)
  /\ \A a, b, c \in InstrSet : a.op # "throw" /\ b.op # "throw" /\ c.op # "throw" =>
       <<a, b, c>> \in Seq(InstrSet) /\ ~Throws(<<a, b, c>>)
<1>1. <<>> \in Seq(InstrSet) /\ ~Throws(<<>>)
  BY DEF Throws
<1>2. Throw \in Seq(InstrSet) /\ Throws(Throw)
  <2> PICK a : a = Instr("throw", None, None)
    OBVIOUS
  <2>1. a \in InstrSet /\ a.op = "throw" /\ Throw = <<a>>
    BY DEF Instr, InstrSet, AllNames, Throw
  <2>2. 1 \in DOMAIN <<a>> /\ <<a>>[1] = a
    OBVIOUS
  <2> QED BY <2>1, <2>2 DEF Throws
<1>3. ASSUME NEW a \in InstrSet, a.op # "throw"
      PROVE  <<a>> \in Seq(InstrSet) /\ ~Throws(<<a>>)
  BY <1>3 DEF Throws
<1>4. ASSUME NEW a \in InstrSet, NEW b \in InstrSet, a.op # "throw", b.op # "throw"
      PROVE  <<a, b>> \in Seq(InstrSet) /\ ~Throws(<<a, b>>)
  BY <1>4 DEF Throws
<1>5. ASSUME NEW a \in InstrSet, NEW b \in InstrSet, NEW c \in InstrSet,
             a.op # "throw", b.op # "throw", c.op # "throw"
      PROVE  <<a, b, c>> \in Seq(InstrSet) /\ ~Throws(<<a, b, c>>)
  BY <1>5 DEF Throws
<1> QED BY <1>1, <1>2, <1>3, <1>4, <1>5

\* The instructions are of that set.
LEMMA InstrTyped ==
  /\ \A name \in AllNames :
       /\ Instr("load", None, name) \in InstrSet /\ Instr("load", None, name).op # "throw"
       /\ Instr("store", None, name) \in InstrSet /\ Instr("store", None, name).op # "throw"
       /\ \A owner \in Structs :
            /\ GetField(owner, name) \in InstrSet /\ GetField(owner, name).op # "throw"
            /\ PutField(owner, name) \in InstrSet /\ PutField(owner, name).op # "throw"
       /\ \A owner \in Structs \cup {"Main"} :
            Instr("invoke", owner, name) \in InstrSet /\ Instr("invoke", owner, name).op # "throw"
  /\ This \in InstrSet /\ This.op # "throw"
  /\ \A op \in {"const", "increment", "dup", "dup_x1", "iaload", "aaload"} :
       Instr(op, None, None) \in InstrSet /\ Instr(op, None, None).op # "throw"
  /\ \A type : ArrayLoad(type) \in InstrSet /\ ArrayLoad(type).op # "throw"
<1>1. None \in AllNames /\ Structs \subseteq Types
  BY TypesOfMembers DEF AllNames
<1>2. \A op \in {"const", "increment", "dup", "dup_x1", "iaload", "aaload"} :
       Instr(op, None, None) \in InstrSet /\ Instr(op, None, None).op # "throw"
  BY <1>1 DEF Instr, InstrSet
<1>3. \A type : ArrayLoad(type) \in InstrSet /\ ArrayLoad(type).op # "throw"
  BY <1>2 DEF ArrayLoad
<1>4. This \in InstrSet /\ This.op # "throw"
  BY DEF This, Instr, InstrSet
<1>5. ASSUME NEW name \in AllNames
      PROVE  /\ Instr("load", None, name) \in InstrSet /\ Instr("load", None, name).op # "throw"
             /\ Instr("store", None, name) \in InstrSet /\ Instr("store", None, name).op # "throw"
  BY DEF Instr, InstrSet
<1>6. ASSUME NEW name \in AllNames, NEW owner \in Structs
      PROVE  /\ GetField(owner, name) \in InstrSet /\ GetField(owner, name).op # "throw"
             /\ PutField(owner, name) \in InstrSet /\ PutField(owner, name).op # "throw"
  BY <1>1 DEF Instr, InstrSet, GetField, PutField
<1>7. ASSUME NEW name \in AllNames, NEW owner \in Structs \cup {"Main"}
      PROVE  Instr("invoke", owner, name) \in InstrSet /\ Instr("invoke", owner, name).op # "throw"
  BY <1>1 DEF Instr, InstrSet
<1> QED BY <1>2, <1>3, <1>4, <1>5, <1>6, <1>7

\* A variable can be loaded, a member if the struct reached has it.
LEMMA LoadsThrow ==
  ASSUME NEW name \in AllNames, NEW e \in EventSet
  PROVE  /\ LoadVariable(name) \in Seq(InstrSet) /\ ~Throws(LoadVariable(name))
         /\ Member(name) \in Seq(InstrSet)
         /\ Throws(Member(name)) <=>
              ~(lastFieldType \in Structs /\ name \in DOMAIN Fields[lastFieldType])
         /\ Dereference(e) \in Seq(InstrSet) /\ (Throws(Dereference(e)) <=> e.arrow)
<1>1. "S" \in Structs
  BY DEF Structs
<1>2. LoadVariable(name) \in Seq(InstrSet) /\ ~Throws(LoadVariable(name))
  <2>1. CASE IsMember(name)
    <3>1. LoadVariable(name) = <<This, GetField("S", name)>>
      BY <2>1 DEF LoadVariable
    <3> QED BY <1>1, <3>1, InstrTyped, ThrowsShort
  <2>2. CASE ~IsMember(name)
    <3>1. LoadVariable(name) = <<Instr("load", None, name)>>
      BY <2>2 DEF LoadVariable
    <3> QED BY <3>1, InstrTyped, ThrowsShort
  <2> QED BY <2>1, <2>2
<1>3. /\ Member(name) \in Seq(InstrSet)
      /\ Throws(Member(name)) <=>
           ~(lastFieldType \in Structs /\ name \in DOMAIN Fields[lastFieldType])
  BY InstrTyped, ThrowsShort DEF Member
<1>4. Dereference(e) \in Seq(InstrSet) /\ (Throws(Dereference(e)) <=> e.arrow)
  BY ThrowsShort DEF Dereference
<1> QED BY <1>2, <1>3, <1>4

\* Of the increments only ++ with no variable to increment throws.
LEMMA IncrementsThrow ==
  ASSUME NEW name \in AllNames
  PROVE  /\ ~Throws(PostfixCode(name))
         /\ Throws(PrefixCode(name)) <=> name = None
<1>1. "S" \in Structs
  BY DEF Structs
<1>2. StoreIncremented(name) \in Seq(InstrSet) /\ ~Throws(StoreIncremented(name))
  BY <1>1, InstrTyped, ThrowsShort DEF StoreIncremented, Increment
<1>3. ~Throws(PostfixCode(name))
  <2> PICK s : s = IF IsMember(name) THEN <<This>> ELSE <<>>
    OBVIOUS
  <2> PICK t : t = LoadVariable(name)
    OBVIOUS
  <2> PICK u : u = StoreIncremented(name)
    OBVIOUS
  <2>1. s \in Seq(InstrSet) /\ ~Throws(s)
    BY InstrTyped, ThrowsShort
  <2>2. t \in Seq(InstrSet) /\ ~Throws(t)
    <3>1. Event("literal", None, None, None) \in EventSet
      BY DEF Event, EventSet, Kinds, AllNames
    <3> QED BY <3>1, LoadsThrow
  <2>3. s \o t \in Seq(InstrSet) /\ ~Throws(s \o t)
    BY <2>1, <2>2, ThrowsConcat
  <2>4. ~Throws((s \o t) \o u)
    BY <1>2, <2>3, ThrowsConcat
  <2> QED BY <2>4 DEF PostfixCode
<1>4. Throws(PrefixCode(name)) <=> name = None
  <2>1. CASE name = None
    <3>1. ~IsMember(name)
      BY <2>1 DEF IsMember, Fields, None
    <3>2. PrefixCode(name) = Throw
      BY <2>1, <3>1 DEF PrefixCode
    <3> QED BY <2>1, <3>2, ThrowsShort
  <2>2. CASE name # None /\ IsMember(name)
    BY <1>1, <2>2, InstrTyped, ThrowsShort DEF PrefixCode, Increment
  <2>3. CASE name # None /\ ~IsMember(name)
    BY <2>3, InstrTyped, ThrowsShort DEF PrefixCode, Increment
  <2> QED BY <2>1, <2>2, <2>3
<1> QED BY <1>3, <1>4

\* exitField
LEMMA FieldThrows ==
  ASSUME NEW e \in EventSet, e.kind \in {"identifier", "paren", "exitCall", "exitIndex"}
  PROVE  /\ FieldCode(e) \in Seq(InstrSet)
         /\ lastFieldType = None => (Throws(FieldCode(e)) <=> e.arrow)
         /\ lastFieldType # None /\ e.target /\ e.last => ~Throws(FieldCode(e))
         /\ lastFieldType # None /\ ~(e.target /\ e.last) =>
              (Throws(FieldCode(e)) <=>
                 \/ e.arrow \/ lastFieldType \notin Structs \/ e.kind = "paren"
                 \/ e.kind = "identifier" /\ e.name \notin DOMAIN Fields[lastFieldType])
<1>1. e.name \in AllNames /\ e.target \in BOOLEAN /\ e.last \in BOOLEAN
  BY DEF EventSet
<1> PICK d : d = Dereference(e)
  OBVIOUS
<1>2. d \in Seq(InstrSet) /\ (Throws(d) <=> e.arrow)
  BY <1>1, LoadsThrow
<1>3. CASE lastFieldType = None
  <2> PICK s : s = IF e.kind = "identifier" THEN LoadVariable(e.name) ELSE <<>>
    OBVIOUS
  <2>1. s \in Seq(InstrSet) /\ ~Throws(s)
    BY <1>1, LoadsThrow, ThrowsShort
  <2>2. FieldCode(e) = s \o d
    BY <1>3 DEF FieldCode
  <2>3. FieldCode(e) \in Seq(InstrSet) /\ (Throws(FieldCode(e)) <=> e.arrow)
    <3>1. s \o d \in Seq(InstrSet) /\ (Throws(s \o d) <=> Throws(s) \/ Throws(d))
      BY <1>2, <2>1, ThrowsConcat
    <3> QED BY <1>2, <2>1, <2>2, <3>1
  <2> QED BY <1>3, <2>3
<1>4. CASE lastFieldType # None /\ e.target /\ e.last
  <2>1. FieldCode(e) = <<>>
    BY <1>4 DEF FieldCode
  <2> QED BY <1>4, <2>1, ThrowsShort
<1>5. CASE lastFieldType # None /\ ~(e.target /\ e.last)
  <2> PICK s : s = CASE lastFieldType \notin Structs \/ e.kind = "paren" -> Throw
                     [] lastFieldType \in Structs /\ e.kind = "identifier" -> Member(e.name)
                     [] lastFieldType \in Structs /\ e.kind = "exitIndex" /\ ~e.last ->
                          <<ArrayLoad(lastFieldType)>>
                     [] OTHER -> <<>>
    OBVIOUS
  <2>1. FieldCode(e) = s \o d
    BY <1>5 DEF FieldCode
  <2>2. /\ s \in Seq(InstrSet)
        /\ Throws(s) <=> \/ lastFieldType \notin Structs \/ e.kind = "paren"
                         \/ e.kind = "identifier" /\ e.name \notin DOMAIN Fields[lastFieldType]
    <3>1. CASE lastFieldType \notin Structs \/ e.kind = "paren"
      <4>1. s = Throw
        BY <3>1
      <4> QED BY <3>1, <4>1, ThrowsShort
    <3>2. CASE lastFieldType \in Structs /\ e.kind = "identifier"
      <4>1. s = Member(e.name)
        BY <3>2
      <4> QED BY <1>1, <3>2, <4>1, LoadsThrow
    <3>3. CASE lastFieldType \in Structs /\ e.kind \notin {"identifier", "paren"}
      <4>1. s = <<ArrayLoad(lastFieldType)>> \/ s = <<>>
        BY <3>3
      <4> QED BY <3>3, <4>1, InstrTyped, ThrowsShort
    <3> QED BY <3>1, <3>2, <3>3
  <2>3. s \o d \in Seq(InstrSet) /\ (Throws(s \o d) <=> Throws(s) \/ Throws(d))
    BY <1>2, <2>2, ThrowsConcat
  <2>4. /\ FieldCode(e) \in Seq(InstrSet)
        /\ Throws(FieldCode(e)) <=>
             \/ e.arrow \/ lastFieldType \notin Structs \/ e.kind = "paren"
             \/ e.kind = "identifier" /\ e.name \notin DOMAIN Fields[lastFieldType]
    BY <1>2, <2>1, <2>2, <2>3
  <2> QED BY <1>5, <2>4
<1> QED BY <1>3, <1>4, <1>5

\* The code of an event.
LEMMA EventThrows ==
  ASSUME NEW e \in EventSet, lastFieldType \in Types \cup {None},
         e.kind \in {"enterCall", "exitCall"} => e.name \in Functions,
         e.kind \in {"identifier", "paren"} => e.field
  PROVE  /\ e.kind \in {"literal", "variable", "postfixVariable", "postfix"} =>
              ~Throws(EventCode(e))
         /\ e.kind = "prefix" => (Throws(EventCode(e)) <=> e.name = None)
         /\ e.kind = "enterCall" => (Throws(EventCode(e)) <=> Called(e.name) = None)
         /\ e.kind = "enterIndex" =>
              (Throws(EventCode(e)) <=>
                 /\ e.field /\ lastFieldType # None
                 /\ ~(lastFieldType \in Structs /\ e.name \in DOMAIN Fields[lastFieldType]))
         /\ e.kind = "exitCall" =>
              (Throws(EventCode(e)) <=>
                 Called(e.name) = None \/ (e.field /\ Throws(FieldCode(e))))
         /\ e.kind \in {"identifier", "paren", "exitIndex"} =>
              (Throws(EventCode(e)) <=> e.field /\ Throws(FieldCode(e)))
<1>1. e.name \in AllNames /\ e.kind \in Kinds /\ e.field \in BOOLEAN
  BY DEF EventSet
<1> PICK field : field = IF e.field THEN FieldCode(e) ELSE <<>>
  OBVIOUS
<1>2. e.kind \in {"identifier", "paren", "exitCall", "exitIndex"} =>
        field \in Seq(InstrSet) /\ (Throws(field) <=> e.field /\ Throws(FieldCode(e)))
  BY <1>1, FieldThrows, ThrowsShort
<1>3. CASE e.kind \in {"literal", "variable", "postfixVariable", "postfix"}
  <2>1. CASE e.kind = "literal"
    <3>1. EventCode(e) = <<Instr("const", None, None)>>
      BY <2>1 DEF EventCode
    <3> QED BY <2>1, <3>1, InstrTyped, ThrowsShort
  <2>2. CASE e.kind = "variable"
    <3>1. EventCode(e) = LoadVariable(e.name)
      BY <2>2 DEF EventCode
    <3> QED BY <1>1, <2>2, <3>1, LoadsThrow
  <2>3. CASE e.kind = "postfixVariable"
    <3>1. EventCode(e) = PostfixCode(e.name)
      BY <2>3 DEF EventCode
    <3> QED BY <1>1, <2>3, <3>1, IncrementsThrow
  <2>4. CASE e.kind = "postfix"
    <3>1. EventCode(e) = <<>>
      BY <2>4 DEF EventCode
    <3> QED BY <2>4, <3>1, ThrowsShort
  <2> QED BY <1>3, <2>1, <2>2, <2>3, <2>4
<1>4. CASE e.kind = "prefix"
  <2>1. EventCode(e) = PrefixCode(e.name)
    BY <1>4 DEF EventCode
  <2> QED BY <1>1, <1>4, <2>1, IncrementsThrow
<1>5. CASE e.kind = "enterCall"
  <2>1. EventCode(e) = EnterCallCode(e)
    BY <1>5 DEF EventCode
  <2>2. Throws(EnterCallCode(e)) <=> Called(e.name) = None
    <3>1. CASE Called(e.name) = None
      <4>1. EnterCallCode(e) = Throw
        BY <3>1 DEF EnterCallCode, Structs, None
      <4> QED BY <3>1, <4>1, ThrowsShort
    <3>2. CASE Called(e.name) # None
      <4>1. EnterCallCode(e) = <<This>> \/ EnterCallCode(e) = <<>>
        BY <3>2 DEF EnterCallCode
      <4> QED BY <3>2, <4>1, InstrTyped, ThrowsShort
    <3> QED BY <3>1, <3>2
  <2> QED BY <1>5, <2>1, <2>2
<1>6. CASE e.kind = "enterIndex"
  <2> PICK s : s = IF e.field /\ lastFieldType # None THEN Member(e.name) ELSE <<>>
    OBVIOUS
  <2> PICK t : t = IF VariableType(e.name) \in Structs \cup {None} THEN <<>> ELSE LoadVariable(e.name)
    OBVIOUS
  <2>1. EventCode(e) = s \o t
    BY <1>6 DEF EventCode, EnterIndexCode
  <2>2. t \in Seq(InstrSet) /\ ~Throws(t)
    BY <1>1, LoadsThrow, ThrowsShort
  <2>3. /\ s \in Seq(InstrSet)
        /\ Throws(s) <=>
             /\ e.field /\ lastFieldType # None
             /\ ~(lastFieldType \in Structs /\ e.name \in DOMAIN Fields[lastFieldType])
    <3>1. CASE e.field /\ lastFieldType # None
      <4>1. s = Member(e.name)
        BY <3>1
      <4> QED BY <1>1, <3>1, <4>1, LoadsThrow
    <3>2. CASE ~(e.field /\ lastFieldType # None)
      <4>1. s = <<>>
        BY <3>2
      <4> QED BY <3>2, <4>1, ThrowsShort
    <3> QED BY <3>1, <3>2
  <2>4. Throws(EventCode(e)) <=> Throws(s)
    <3>1. Throws(s \o t) <=> Throws(s) \/ Throws(t)
      BY <2>2, <2>3, ThrowsConcat
    <3> QED BY <2>1, <2>2, <3>1
  <2> QED BY <1>6, <2>3, <2>4
<1>7. CASE e.kind = "exitCall"
  <2> PICK s : s = ExitCallCode(e)
    OBVIOUS
  <2>1. EventCode(e) = s \o field
    BY <1>7 DEF EventCode
  <2>2. s \in Seq(InstrSet) /\ (Throws(s) <=> Called(e.name) = None)
    <3>1. CASE Called(e.name) = None
      <4>1. s = Throw
        BY <3>1 DEF ExitCallCode
      <4> QED BY <3>1, <4>1, ThrowsShort
    <3>2. CASE Called(e.name) # None
      <4>1. s = <<Instr("invoke", Called(e.name), e.name)>>
        BY <3>2 DEF ExitCallCode
      <4>2. Called(e.name) \in Structs \cup {"Main"}
        BY <3>2 DEF Called, FunctionHere, FunctionOf, Structs
      <4> QED BY <1>1, <3>2, <4>1, <4>2, InstrTyped, ThrowsShort
    <3> QED BY <3>1, <3>2
  <2>3. Throws(EventCode(e)) <=> Throws(s) \/ Throws(field)
    <3>1. Throws(s \o field) <=> Throws(s) \/ Throws(field)
      BY <1>2, <1>7, <2>2, ThrowsConcat
    <3> QED BY <2>1, <3>1
  <2> QED BY <1>2, <1>7, <2>2, <2>3
<1>8. CASE e.kind = "exitIndex"
  <2> PICK s : s = IndexLoad(e)
    OBVIOUS
  <2>1. EventCode(e) = s \o field
    BY <1>8 DEF EventCode
  <2>2. s \in Seq(InstrSet) /\ ~Throws(s)
    BY InstrTyped, ThrowsShort DEF IndexLoad
  <2>3. Throws(EventCode(e)) <=> Throws(s) \/ Throws(field)
    <3>1. Throws(s \o field) <=> Throws(s) \/ Throws(field)
      BY <1>2, <1>8, <2>2, ThrowsConcat
    <3> QED BY <2>1, <3>1
  <2> QED BY <1>2, <1>8, <2>2, <2>3
<1>9. CASE e.kind \in {"identifier", "paren"}
  <2>1. EventCode(e) = FieldCode(e)
    BY <1>9 DEF EventCode
  <2> QED BY <1>9, <2>1
<1> QED BY <1>1, <1>3, <1>4, <1>5, <1>6, <1>7, <1>8, <1>9 DEF Kinds

-----------------------------------------------------------------------------
(* The statement, when it is complete.                                     *)

\* What the type checker let pass: every call and index entered is exited, and
\* a call that is a field is applied to a struct.
Exits(es, i, x) ==
  /\ i < x /\ es[x].node = i
  /\ es[x].kind = IF es[i].kind = "enterCall" THEN "exitCall" ELSE "exitIndex"
  /\ es[x].name = es[i].name /\ es[x].field = es[i].field /\ es[x].base = es[i].base

Settled(es) ==
  /\ es \in Seq(EventSet)
  /\ \A k \in DOMAIN es : EventOK(es, k) /\ Where(es, k) /\ Begun(es, k)
  /\ \A i \in DOMAIN es : Enter(es[i]) => \E x \in DOMAIN es : Exits(es, i, x)

\* A walk that is back in the statement has left every call and index it entered.
LEMMA Complete ==
  ASSUME NEW es, NEW fs, NEW v, Walk(es, fs, v), Len(fs) = 1
  PROVE  Settled(es)
<1>1. /\ es \in Seq(EventSet) /\ fs \in Seq(FrameSet)
      /\ \A k \in DOMAIN es : EventOK(es, k) /\ Where(es, k) /\ Begun(es, k)
      /\ \A d \in DOMAIN fs : FrameOK(es, fs, d)
      /\ EntersAccounted(es, fs)
  BY DEF Walk
<1>2. Len(es) \in Nat /\ DOMAIN es = 1..Len(es) /\ DOMAIN fs = 1..1
  BY <1>1
<1>3. \A d \in DOMAIN fs : ~Bracket(fs[d])
  <2> TAKE d \in DOMAIN fs
  <2>1. d = 1 /\ FrameOK(es, fs, d)
    BY <1>1, <1>2
  <2> QED BY <2>1 DEF FrameOK, Bracket
<1>4. ASSUME NEW i \in DOMAIN es, Enter(es[i])
      PROVE  \E x \in DOMAIN es : Exits(es, i, x)
  <2>1. ExitedBy(es, i, Len(es))
    BY <1>1, <1>3, <1>4 DEF EntersAccounted
  <2>2. PICK x \in DOMAIN es : es[x].node = i
    BY <1>2, <2>1 DEF ExitedBy
  <2>3. EventOK(es, x) /\ i # 0
    BY <1>1, <1>2
  <2>4. /\ es[x].kind \in {"exitCall", "exitIndex"} /\ es[x].node \in 1..(x - 1)
        /\ es[i].kind = IF es[x].kind = "exitCall" THEN "enterCall" ELSE "enterIndex"
        /\ es[x].name = es[i].name /\ es[x].field = es[i].field
        /\ es[x].base = es[i].base
    BY <2>2, <2>3 DEF EventOK
  <2>5. i < x
    BY <1>2, <2>2, <2>4
  <2>6. es[x].kind = IF es[i].kind = "enterCall" THEN "exitCall" ELSE "exitIndex"
    BY <2>4
  <2>7. Exits(es, i, x)
    BY <2>2, <2>4, <2>5, <2>6 DEF Exits
  <2> QED BY <2>7
<1> QED BY <1>1, <1>4 DEF Settled

\* The parts of a settled statement.
LEMMA SettledIs ==
  ASSUME NEW es, Settled(es)
  PROVE  /\ es \in Seq(EventSet) /\ Len(es) \in Nat /\ DOMAIN es = 1..Len(es)
         /\ \A k \in DOMAIN es : EventOK(es, k) /\ Where(es, k) /\ Begun(es, k)
<1>1. es \in Seq(EventSet) /\ \A k \in DOMAIN es : EventOK(es, k) /\ Where(es, k) /\ Begun(es, k)
  BY DEF Settled
<1>2. Len(es) \in Nat /\ DOMAIN es = 1..Len(es)
  BY <1>1
<1> QED BY <1>1, <1>2

\* So whatever has an operand within it is applied to a struct.
LEMMA BaseIsStruct ==
  ASSUME NEW es, Settled(es), NEW j \in DOMAIN es, Enter(es[j]), es[j].field,
         es[j].base # None \/ es[j].kind = "enterCall"
  PROVE  es[j].base \in Structs
<1>1. EventOK(es, j)
  BY SettledIs
<1>2. CASE es[j].kind = "enterCall"
  <2>1. PICK x \in DOMAIN es : Exits(es, j, x)
    BY DEF Settled
  <2>2. es[x].kind = "exitCall" /\ es[x].field = es[j].field /\ es[x].base = es[j].base
    BY <1>2, <2>1 DEF Exits
  <2>3. EventOK(es, x)
    BY SettledIs
  <2> QED BY <2>2, <2>3 DEF EventOK
<1>3. CASE es[j].kind = "enterIndex"
  BY <1>1, <1>3 DEF EventOK
<1> QED BY <1>2, <1>3 DEF Enter

\* The call or index around event k whose struct lastFieldType may hold.
InnermostBefore(es, j, k) ==
  /\ j \in 1..(k - 1) /\ Before(es, j, k)
  /\ \A i \in 1..(k - 1) : Before(es, i, k) => i <= j

\* What lastFieldType is when the generator comes to event k.
LEMMA Standing ==
  ASSUME NEW es, Settled(es), NEW k \in DOMAIN es, NEW t, Reach(es, k, t)
  PROVE  /\ es[k].field /\ es[k].base # None /\ es[k].node = 0 => t = es[k].base
         /\ ~(es[k].field /\ es[k].base # None /\ es[k].node = 0) =>
              \/ t = None /\ \A j \in 1..(k - 1) : ~Before(es, j, k)
              \/ \E j \in 1..(k - 1) :
                   /\ InnermostBefore(es, j, k) /\ es[j].base \in Structs
                   /\ \/ t = es[j].base /\ \A m \in j..(k - 1) : ~FieldOut(es[m])
                      \/ /\ es[k].kind \in {"exitCall", "exitIndex", "paren", "prefix", "postfix"}
                         /\ t = None /\ \E m \in j..(k - 1) : es[m].last
<1>1. es \in Seq(EventSet) /\ Where(es, k) /\ k \in 1..(Len(es) + 1) /\ Len(es) \in Nat
  <2>1. es \in Seq(EventSet) /\ Where(es, k)
    BY SettledIs
  <2>2. Len(es) \in Nat /\ k \in 1..Len(es)
    BY SettledIs
  <2> QED BY <2>1, <2>2
<1>2. \A u : Reach(es, k, u) => t = u
  BY <1>1, ReachUnique
<1>3. CASE es[k].field /\ es[k].base # None /\ es[k].node = 0
  BY <1>1, <1>2, <1>3 DEF Where
<1>4. CASE ~(es[k].field /\ es[k].base # None /\ es[k].node = 0)
  <2> PICK after : after = (es[k].kind \in {"exitCall", "exitIndex", "paren", "prefix", "postfix"})
    OBVIOUS
  <2>1. Around(es, k, after)
    BY <1>1, <1>4 DEF Where
  <2>2. CASE Reach(es, k, None) /\ \A j \in 1..(k - 1) : ~Before(es, j, k)
    BY <1>2, <1>4, <2>2
  <2>3. CASE \E j \in 1..(k - 1) :
               /\ Before(es, j, k) /\ \A i \in 1..(k - 1) : Before(es, i, k) => i <= j
               /\ \/ Reach(es, k, es[j].base) /\ \A m \in j..(k - 1) : ~FieldOut(es[m])
                  \/ after /\ Reach(es, k, None) /\ \E m \in j..(k - 1) : es[m].last
    <3>1. PICK j \in 1..(k - 1) :
               /\ Before(es, j, k) /\ \A i \in 1..(k - 1) : Before(es, i, k) => i <= j
               /\ \/ Reach(es, k, es[j].base) /\ \A m \in j..(k - 1) : ~FieldOut(es[m])
                  \/ after /\ Reach(es, k, None) /\ \E m \in j..(k - 1) : es[m].last
      BY <2>3
    <3>2. InnermostBefore(es, j, k)
      BY <3>1 DEF InnermostBefore
    <3>3. es[j].base \in Structs
      <4>1. j \in DOMAIN es /\ Enter(es[j]) /\ es[j].field /\ es[j].base # None
        BY <1>1, <3>1 DEF Before
      <4> QED BY <4>1, BaseIsStruct
    <3>4. \/ t = es[j].base /\ \A m \in j..(k - 1) : ~FieldOut(es[m])
          \/ after /\ t = None /\ \E m \in j..(k - 1) : es[m].last
      BY <1>2, <3>1
    <3> QED BY <1>4, <3>2, <3>3, <3>4
  <2> QED BY <2>1, <2>2, <2>3 DEF Around
<1> QED BY <1>3, <1>4

\* At the exit of a call or an index that is a field, the innermost is itself.
LEMMA StandingAtExit ==
  ASSUME NEW es, Settled(es), NEW k \in DOMAIN es, NEW t, Reach(es, k, t),
         es[k].field, es[k].base # None, es[k].node # 0
  PROVE  LET i == es[k].node IN
         /\ i \in 1..(k - 1) /\ Before(es, i, k)
         /\ \/ t = es[k].base /\ \A m \in i..(k - 1) : ~FieldOut(es[m])
            \/ t = None /\ \E m \in i..(k - 1) : es[m].last
<1> PICK i : i = es[k].node
  OBVIOUS
<1>1. /\ EventOK(es, k) /\ Len(es) \in Nat /\ DOMAIN es = 1..Len(es)
  BY SettledIs
<1>2. /\ i \in 1..(k - 1) /\ ~ExitedBy(es, i, k - 1) /\ es[i].field = es[k].field
      /\ es[i].base = es[k].base
      /\ es[i].kind \in {"enterCall", "enterIndex"}
      /\ \A j \in 1..(k - 1) : Enter(es[j]) /\ ~ExitedBy(es, j, k - 1) => j <= i
  BY <1>1 DEF EventOK
<1>3. Before(es, i, k) /\ \A j \in 1..(k - 1) : Before(es, j, k) => j <= i
  BY <1>2 DEF Before, Enter
<1>4. \A j \in 1..(k - 1) : InnermostBefore(es, j, k) => j = i
  <2> SUFFICES ASSUME NEW j \in 1..(k - 1), InnermostBefore(es, j, k) PROVE j = i
    OBVIOUS
  <2>1. i <= j /\ j <= i
    BY <1>2, <1>3 DEF InnermostBefore
  <2> QED BY <1>1, <1>2, <2>1
<1>5. \E j \in 1..(k - 1) :
        /\ InnermostBefore(es, j, k)
        /\ \/ t = es[j].base /\ \A m \in j..(k - 1) : ~FieldOut(es[m])
           \/ t = None /\ \E m \in j..(k - 1) : es[m].last
  BY <1>2, <1>3, Standing
<1> QED BY <1>2, <1>3, <1>4, <1>5

\* An access that has ended within a call or an index began there.
LEMMA EndedBegan ==
  ASSUME NEW es, Settled(es), NEW k \in DOMAIN es, NEW i \in 1..(k - 1), Before(es, i, k),
         NEW m \in i..(k - 1), es[m].last
  PROVE  \E b \in (i + 1)..m : Begins(es[b]) /\ ~ExitedBy(es, i, b)
<1>1. /\ es \in Seq(EventSet) /\ Len(es) \in Nat /\ DOMAIN es = 1..Len(es) /\ m \in DOMAIN es
      /\ k \in 1..Len(es)
  <2>1. es \in Seq(EventSet) /\ Len(es) \in Nat /\ DOMAIN es = 1..Len(es)
    BY SettledIs
  <2> QED BY ONLY <2>1, k \in DOMAIN es, i \in 1..(k - 1), m \in i..(k - 1)
<1>2. EventOK(es, m) /\ Begun(es, m)
  BY <1>1, SettledIs
<1>3. FieldOut(es[m])
  BY <1>2 DEF EventOK
<1>4. PICK b \in 1..m : /\ Begins(es[b])
                        /\ \A j \in 1..(m - 1) : Enter(es[j]) /\ ~ExitedBy(es, j, m) => j < b
  <2>1. \E b \in 1..m : /\ Begins(es[b])
                       /\ \A j \in 1..(m - 1) : Enter(es[j]) /\ ~ExitedBy(es, j, m) => j < b
    BY <1>2, <1>3 DEF Begun
  <2> QED BY ONLY <2>1
<1>5. i # m
  BY <1>3 DEF Before, FieldOut
<1>6. i \in 1..(m - 1) /\ \A x \in 1..m : x \in 1..(k - 1)
  BY <1>1, <1>5
<1>7. ~ExitedBy(es, i, m) /\ ~ExitedBy(es, i, b)
  BY <1>1, <1>6 DEF Before, ExitedBy
<1>8. i < b
  BY <1>4, <1>6, <1>7 DEF Before
<1>9. b \in (i + 1)..m
  BY <1>1, <1>8
<1> QED BY <1>4, <1>7, <1>9

\* An access that begins within a call or an index that is exited has left a
\* field there.
LEMMA BegunLeft ==
  ASSUME NEW es, Settled(es), NEW k \in DOMAIN es, es[k].node # 0,
         NEW b \in DOMAIN es, Begins(es[b]), es[k].node < b, ~ExitedBy(es, es[k].node, b)
  PROVE  \E m \in es[k].node..(k - 1) : FieldOut(es[m])
<1> PICK i : i = es[k].node
  OBVIOUS
<1>1. /\ es \in Seq(EventSet) /\ EventOK(es, k) /\ EventOK(es, b)
      /\ Len(es) \in Nat /\ DOMAIN es = 1..Len(es)
  BY SettledIs
<1>2. /\ i \in 1..(k - 1) /\ es[k].kind \in {"exitCall", "exitIndex"}
      /\ \A j \in 1..(k - 1) : Enter(es[j]) /\ ~ExitedBy(es, j, k - 1) => j <= i
  BY <1>1 DEF EventOK
<1>3. b < k
  <2>1. ~(k \in 1..b)
    BY DEF ExitedBy
  <2> QED BY <1>1, <2>1
<1>4. b \in i..(k - 1) /\ b \in 1..(k - 1)
  BY <1>1, <1>2, <1>3
<1>5. CASE FieldOut(es[b])
  BY <1>4, <1>5
<1>6. CASE ~FieldOut(es[b])
  <2>1. Enter(es[b]) /\ es[b].field
    BY <1>6 DEF Begins, FieldOut
  <2>2. ExitedBy(es, b, k - 1)
    <3>1. ~(b <= i)
      BY <1>1, <1>2
    <3> QED BY <1>2, <1>4, <2>1, <3>1
  <2>3. PICK x \in 1..(k - 1) : es[x].node = b
    BY <2>2 DEF ExitedBy
  <2>4. x \in DOMAIN es
    BY <1>1
  <2>5. EventOK(es, x) /\ b # 0
    BY <1>1, <2>4, SettledIs
  <2>6. es[x].kind \in {"exitCall", "exitIndex"} /\ b \in 1..(x - 1) /\ es[x].field = es[b].field
    BY <2>3, <2>5 DEF EventOK
  <2>7. FieldOut(es[x]) /\ x \in i..(k - 1)
    BY <1>1, <1>2, <1>4, <2>1, <2>3, <2>6 DEF FieldOut, Enter
  <2> QED BY <2>7
<1> QED BY <1>5, <1>6

-----------------------------------------------------------------------------
(* The generator does not survive exactly the doomed events.               *)

\* Inside of an open call or index, as the properties and as the invariant put it.
LEMMA InsideIsBefore ==
  ASSUME Settled(events), NEW k \in Indices, events[k].node = 0, NEW j \in Indices
  PROVE  /\ InsideOf(j, k) <=> j \in 1..(k - 1) /\ Before(events, j, k)
         /\ Innermost(j, k) <=> InnermostBefore(events, j, k)
<1>1. Len(events) \in Nat /\ Indices = 1..Len(events) /\ k \in 1..Len(events)
  BY SettledIs DEF Indices
<1>2. \A i \in Indices : Exited(i, k) <=> ExitedBy(events, i, k - 1)
  <2> TAKE i \in Indices
  <2>1. i # 0 /\ \A x \in 1..k : x = k \/ x \in 1..(k - 1)
    BY <1>1
  <2>2. \A x \in 1..(k - 1) : x \in 1..k
    BY <1>1
  <2> QED BY <2>1, <2>2 DEF Exited, ExitedBy
<1>3. \A i \in Indices : InsideOf(i, k) <=> i \in 1..(k - 1) /\ Before(events, i, k)
  <2> TAKE i \in Indices
  <2>1. i < k <=> i \in 1..(k - 1)
    BY <1>1
  <2> QED BY <1>2, <2>1 DEF InsideOf, Before, IsEnter, Enter, Field
<1>4. \A i \in 1..(k - 1) : i \in Indices
  BY <1>1
<1> QED BY <1>3, <1>4 DEF Innermost, InnermostBefore

\* What the names of AccessSemantics say of an event.
LEMMA EventIs ==
  ASSUME Settled(events), NEW k \in Indices
  PROVE  /\ events[k] \in EventSet /\ events[k].name \in AllNames /\ events[k].kind \in Kinds
         /\ events[k].field \in BOOLEAN /\ events[k].last \in BOOLEAN
         /\ events[k].arrow \in BOOLEAN /\ events[k].target \in BOOLEAN
         /\ events[k].type \in Types \cup {None}
         /\ EventOK(events, k) /\ k \in DOMAIN events /\ k \in 1..Len(events) /\ Len(events) \in Nat
         /\ First(k) <=> Begins(events[k])
         /\ MemberOfArray(k) <=> events[k].field /\ events[k].base \in Arrays
         /\ None \notin Structs /\ None \notin Arrays /\ \A s \in Structs : s \notin Arrays
         /\ ~FieldOut(events[k]) => ~events[k].arrow /\ ~events[k].last
         /\ events[k].last => events[k].base # None /\ ~events[k].arrow
<1>1. events[k] \in EventSet /\ k \in DOMAIN events /\ k \in 1..Len(events) /\ Len(events) \in Nat
  <2>1. events \in Seq(EventSet) /\ k \in DOMAIN events
    BY SettledIs DEF Indices
  <2> QED BY <2>1
<1>2. EventOK(events, k)
  BY <1>1, SettledIs
<1>3. First(k) <=> Begins(events[k])
  BY DEF First, Begins, Field
<1>4. MemberOfArray(k) <=> events[k].field /\ events[k].base \in Arrays
  BY DEF MemberOfArray, Field
<1>5. None \notin Structs /\ None \notin Arrays /\ \A s \in Structs : s \notin Arrays
  BY DEF None, Structs, Arrays
<1>6. ~FieldOut(events[k]) => ~events[k].arrow /\ ~events[k].last
  BY <1>2 DEF EventOK
<1>7. events[k].last => events[k].base # None /\ ~events[k].arrow
  BY <1>2 DEF EventOK
<1>8. /\ events[k].name \in AllNames /\ events[k].kind \in Kinds
      /\ events[k].field \in BOOLEAN /\ events[k].last \in BOOLEAN
      /\ events[k].arrow \in BOOLEAN /\ events[k].target \in BOOLEAN
      /\ events[k].type \in Types \cup {None}
  BY <1>1 DEF EventSet
<1> QED BY <1>1, <1>2, <1>3, <1>4, <1>5, <1>6, <1>7, <1>8

\* Operands and increments.
LEMMA DoomedOperand ==
  ASSUME Settled(events), NEW k \in Indices,
         events[k].kind \in {"literal", "variable", "postfixVariable", "prefix", "postfix"}
  PROVE  Doomed(k) <=> events[k].kind = "prefix" /\ events[k].name = None
<1>1. /\ EventOK(events, k) /\ (First(k) <=> Begins(events[k]))
      /\ MemberOfArray(k) <=> events[k].field /\ events[k].base \in Arrays
      /\ ~FieldOut(events[k]) => ~events[k].arrow
  BY EventIs
<1>2. ~FieldOut(events[k]) /\ ~Enter(events[k])
  BY <1>1 DEF EventOK, Enter
<1>3. ~events[k].field
  BY <1>2 DEF FieldOut
<1> QED BY <1>1, <1>2, <1>3 DEF Doomed, Refused, LateCall, Begins

\* What the access around leaves, at an event that is no further field.
LEMMA LeftAround ==
  ASSUME Settled(events), NEW k \in Indices, Reach(events, k, lastFieldType),
         ~(events[k].field /\ events[k].base # None /\ events[k].node = 0)
  PROVE  /\ lastFieldType \in Structs \cup {None}
         /\ \/ lastFieldType = None /\ \A j \in 1..(k - 1) : ~Before(events, j, k)
            \/ \E j \in Indices :
                 /\ InnermostBefore(events, j, k) /\ events[j].base \in Structs
                 /\ \/ /\ lastFieldType = events[j].base
                       /\ \A m \in j..(k - 1) : ~FieldOut(events[m])
                    \/ /\ events[k].kind \in {"exitCall", "exitIndex", "paren", "prefix", "postfix"}
                       /\ lastFieldType = None /\ \E m \in j..(k - 1) : events[m].last
<1>1. k \in DOMAIN events /\ Len(events) \in Nat /\ Indices = 1..Len(events)
  BY SettledIs DEF Indices
<1>2. \A j \in 1..(k - 1) : j \in Indices
  BY <1>1
<1>3. \/ lastFieldType = None /\ \A j \in 1..(k - 1) : ~Before(events, j, k)
      \/ \E j \in 1..(k - 1) :
           /\ InnermostBefore(events, j, k) /\ events[j].base \in Structs
           /\ \/ /\ lastFieldType = events[j].base
                 /\ \A m \in j..(k - 1) : ~FieldOut(events[m])
              \/ /\ events[k].kind \in {"exitCall", "exitIndex", "paren", "prefix", "postfix"}
                 /\ lastFieldType = None /\ \E m \in j..(k - 1) : events[m].last
  BY <1>1, Standing
<1> QED BY <1>2, <1>3

\* What a call finds, in no struct and in one.
LEMMA CalledIs ==
  ASSUME NEW name
  PROVE  /\ lastFieldType = None => Called(name) = FunctionHere(name)
         /\ lastFieldType \in Structs => Called(name) # None
<1>1. None \notin Structs /\ "Main" # None
  BY DEF None, Structs
<1>2. lastFieldType = None => Called(name) = FunctionHere(name)
  BY <1>1 DEF Called
<1>3. lastFieldType \in Structs => Called(name) = FunctionOf(lastFieldType, name)
  BY <1>1 DEF Called
<1>4. lastFieldType \in Structs => FunctionOf(lastFieldType, name) # None
  BY <1>1 DEF FunctionOf
<1> QED BY <1>2, <1>3, <1>4

\* enterFunction_call
LEMMA DoomedEnterCall ==
  ASSUME Settled(events), CallsFound, NEW k \in Indices, Reach(events, k, lastFieldType),
         events[k].kind = "enterCall"
  PROVE  ~Doomed(k) /\ Called(events[k].name) # None
<1>1. /\ EventOK(events, k) /\ (First(k) <=> Begins(events[k]))
      /\ MemberOfArray(k) <=> events[k].field /\ events[k].base \in Arrays
      /\ ~FieldOut(events[k]) => ~events[k].arrow
      /\ None \notin Structs /\ (\A s \in Structs : s \notin Arrays) /\ k \in DOMAIN events
  BY EventIs
<1>2. Enter(events[k]) /\ ~FieldOut(events[k]) /\ events[k].node = 0 /\ events[k].name \in Functions
  BY <1>1 DEF EventOK, Enter, FieldOut
<1>3. events[k].field => events[k].base \in Structs
  BY <1>1, <1>2, BaseIsStruct
<1>4. ~Doomed(k)
  BY <1>1, <1>2, <1>3 DEF Doomed, Refused, LateCall, Begins
<1>5. CASE lastFieldType \in Structs
  BY <1>1, <1>4, <1>5, CalledIs
<1>6. CASE lastFieldType \notin Structs
  <2>1. ~events[k].field /\ lastFieldType = None
    <3>1. events[k].field => lastFieldType = events[k].base
      BY <1>1, <1>2, <1>3, Standing
    <3>2. ~events[k].field
      BY <1>3, <1>6, <3>1
    <3> QED BY <1>6, <3>2, LeftAround
  <2>2. PICK x \in Indices : Exits(events, k, x)
    BY <1>2 DEF Settled, Indices
  <2>3. /\ events[x].kind = "exitCall" /\ ~events[x].field /\ events[x].name = events[k].name
    BY <2>1, <2>2 DEF Exits
  <2>4. FunctionHere(events[k].name) # None
    BY <2>3 DEF CallsFound
  <2> QED BY <1>4, <2>1, <2>4, CalledIs
<1> QED BY <1>4, <1>5, <1>6

\* Whether an access that begins at k is refused by the struct around it.
LEMMA DoomedEnterIndex ==
  ASSUME Settled(events), NEW k \in Indices, Reach(events, k, lastFieldType),
         events[k].kind = "enterIndex"
  PROVE  Doomed(k) <=>
           /\ events[k].field /\ lastFieldType # None
           /\ ~(lastFieldType \in Structs /\ events[k].name \in DOMAIN Fields[lastFieldType])
<1>1. /\ EventOK(events, k) /\ (First(k) <=> Begins(events[k]))
      /\ MemberOfArray(k) <=> events[k].field /\ events[k].base \in Arrays
      /\ ~FieldOut(events[k]) => ~events[k].arrow
      /\ None \notin Structs /\ (\A s \in Structs : s \notin Arrays) /\ None \notin Arrays
      /\ k \in DOMAIN events
  BY EventIs
<1>2. ~FieldOut(events[k]) /\ events[k].node = 0
  BY <1>1 DEF EventOK, Enter, FieldOut
<1>3. events[k].base # None => events[k].base \in Structs /\ events[k].name \in DOMAIN Fields[events[k].base]
  BY <1>1 DEF EventOK
<1>4. Doomed(k) <=> Refused(k)
  BY <1>1, <1>2, <1>3 DEF Doomed, LateCall
<1>5. CASE ~events[k].field
  BY <1>1, <1>4, <1>5 DEF Refused, Begins
<1>6. CASE events[k].field /\ events[k].base # None
  <2>1. lastFieldType = events[k].base
    BY <1>1, <1>2, <1>6, Standing
  <2> QED BY <1>1, <1>3, <1>4, <1>6, <2>1 DEF Refused, Begins
<1>7. CASE events[k].field /\ events[k].base = None
  <2>1. Begins(events[k]) /\ First(k)
    BY <1>1, <1>7 DEF Begins
  <2>2. CASE lastFieldType = None /\ \A j \in 1..(k - 1) : ~Before(events, j, k)
    <3>1. \A j \in Indices : ~Innermost(j, k)
      BY <1>2, <2>2, InsideIsBefore DEF Innermost
    <3> QED BY <1>4, <2>2, <3>1 DEF Refused
  <2>3. CASE \E j \in Indices :
               /\ InnermostBefore(events, j, k) /\ events[j].base \in Structs
               /\ lastFieldType = events[j].base
    <3>1. PICK j \in Indices : /\ InnermostBefore(events, j, k) /\ events[j].base \in Structs
                               /\ lastFieldType = events[j].base
      BY <2>3
    <3>2. \A i \in Indices : Innermost(i, k) <=> i = j
      <4>1. \A i \in Indices : Innermost(i, k) <=> InnermostBefore(events, i, k)
        BY <1>2, InsideIsBefore
      <4>2. \A i \in Indices : InnermostBefore(events, i, k) => i = j
        <5>1. k \in Int /\ j \in 1..(k - 1) /\ Before(events, j, k)
          BY <3>1, EventIs DEF InnermostBefore
        <5>2. \A i \in 1..(k - 1) : InnermostBefore(events, i, k) => i <= j /\ j <= i
          BY <3>1, <5>1 DEF InnermostBefore
        <5> QED BY <5>1, <5>2 DEF InnermostBefore
      <4> QED BY <3>1, <4>1, <4>2
    <3> QED BY <1>1, <1>4, <1>7, <2>1, <3>1, <3>2 DEF Refused
  <2> QED BY <1>7, <2>2, <2>3, LeftAround
<1> QED BY <1>1, <1>5, <1>6, <1>7, EventIs

\* An access that is refused begins in another, and finds its struct.
LEMMA RefusedWhere ==
  ASSUME Settled(events), NEW k \in Indices, Reach(events, k, lastFieldType),
         Begins(events[k]), events[k].kind \in {"identifier", "paren"}
  PROVE  /\ lastFieldType \in Structs \cup {None}
         /\ Refused(k) <=>
              /\ lastFieldType \in Structs
              /\ \/ events[k].kind = "paren"
                 \/ events[k].name \notin DOMAIN Fields[lastFieldType]
<1>1. /\ EventOK(events, k) /\ (First(k) <=> Begins(events[k]))
      /\ k \in 1..Len(events) /\ Len(events) \in Nat /\ k \in DOMAIN events
      /\ events[k].last => events[k].base # None
      /\ None \notin Structs
  BY EventIs
<1>2. events[k].node = 0 /\ events[k].base = None /\ ~events[k].last
  BY <1>1 DEF EventOK, Begins
<1>3. \A i \in Indices : Innermost(i, k) <=> InnermostBefore(events, i, k)
  BY <1>2, InsideIsBefore
<1>4. CASE lastFieldType = None /\ \A j \in 1..(k - 1) : ~Before(events, j, k)
  <2>1. \A j \in Indices : ~Innermost(j, k)
    BY <1>3, <1>4 DEF InnermostBefore
  <2> QED BY <1>1, <1>4, <2>1 DEF Refused
<1>5. CASE \E j \in Indices :
             /\ InnermostBefore(events, j, k) /\ events[j].base \in Structs
             /\ \/ /\ lastFieldType = events[j].base
                   /\ \A m \in j..(k - 1) : ~FieldOut(events[m])
                \/ /\ events[k].kind \in {"exitCall", "exitIndex", "paren", "prefix", "postfix"}
                   /\ lastFieldType = None /\ \E m \in j..(k - 1) : events[m].last
  <2>1. PICK j \in Indices :
             /\ InnermostBefore(events, j, k) /\ events[j].base \in Structs
             /\ \/ /\ lastFieldType = events[j].base
                   /\ \A m \in j..(k - 1) : ~FieldOut(events[m])
                \/ /\ events[k].kind \in {"exitCall", "exitIndex", "paren", "prefix", "postfix"}
                   /\ lastFieldType = None /\ \E m \in j..(k - 1) : events[m].last
    BY <1>5
  <2>2. j \in 1..(k - 1) /\ Before(events, j, k)
    BY <2>1 DEF InnermostBefore
  <2>3. \A i \in Indices : Innermost(i, k) <=> i = j
    <3>1. \A i \in 1..(k - 1) : InnermostBefore(events, i, k) => i <= j /\ j <= i
      BY <2>1, <2>2 DEF InnermostBefore
    <3>2. \A i \in Indices : InnermostBefore(events, i, k) => i = j
      BY <1>1, <2>2, <3>1 DEF InnermostBefore
    <3> QED BY <1>3, <2>1, <3>2
  <2>4. CASE events[k].kind = "identifier"
    <3>1. lastFieldType = events[j].base
      BY <2>1, <2>4
    <3> QED BY <1>1, <2>1, <2>3, <2>4, <3>1 DEF Refused
  <2>5. CASE events[k].kind = "paren"
    <3>1. Refused(k) <=> \A m \in j..k : ~events[m].last
      BY <1>1, <2>3, <2>5 DEF Refused
    <3>2. (\A m \in j..k : ~events[m].last) <=> \A m \in j..(k - 1) : ~events[m].last
      <4>1. \A m \in j..k : m = k \/ m \in j..(k - 1)
        BY <1>1, <2>2
      <4>2. \A m \in j..(k - 1) : m \in j..k
        BY <1>1, <2>2
      <4> QED BY <1>2, <4>1, <4>2
    <3>3. CASE lastFieldType = events[j].base /\ \A m \in j..(k - 1) : ~FieldOut(events[m])
      <4>1. \A m \in j..(k - 1) : m \in Indices
        BY <1>1, <2>2, SettledIs DEF Indices
      <4>2. \A m \in j..(k - 1) : ~events[m].last
        BY <3>3, <4>1, EventIs
      <4> QED BY <2>1, <2>5, <3>1, <3>2, <3>3, <4>2
    <3>4. CASE lastFieldType = None /\ \E m \in j..(k - 1) : events[m].last
      BY <1>1, <3>1, <3>2, <3>4
    <3> QED BY <2>1, <3>3, <3>4
  <2> QED BY <2>4, <2>5
<1>6. ~(events[k].field /\ events[k].base # None /\ events[k].node = 0)
  BY <1>2
<1> QED BY <1>4, <1>5, <1>6, LeftAround

\* A name, or parentheses, as a field.
LEMMA DoomedName ==
  ASSUME Settled(events), NEW k \in Indices, Reach(events, k, lastFieldType),
         events[k].kind \in {"identifier", "paren"}
  PROVE  Doomed(k) <=> Throws(FieldCode(events[k]))
<1>1. /\ EventOK(events, k) /\ (First(k) <=> Begins(events[k])) /\ events[k] \in EventSet
      /\ MemberOfArray(k) <=> events[k].field /\ events[k].base \in Arrays
      /\ events[k].last => events[k].base # None /\ ~events[k].arrow
      /\ None \notin Structs /\ None \notin Arrays /\ (\A s \in Structs : s \notin Arrays)
      /\ k \in DOMAIN events
  BY EventIs
<1>2. events[k].field /\ events[k].node = 0 /\ FieldOut(events[k])
  BY <1>1 DEF EventOK, FieldOut, Enter
<1>3. Doomed(k) <=>
        \/ events[k].arrow
        \/ events[k].base \in Arrays /\ ~(events[k].target /\ events[k].last)
        \/ Refused(k)
  BY <1>1, <1>2 DEF Doomed, LateCall
<1>4. /\ lastFieldType = None => (Throws(FieldCode(events[k])) <=> events[k].arrow)
      /\ lastFieldType # None /\ events[k].target /\ events[k].last => ~Throws(FieldCode(events[k]))
      /\ lastFieldType # None /\ ~(events[k].target /\ events[k].last) =>
           (Throws(FieldCode(events[k])) <=>
              \/ events[k].arrow \/ lastFieldType \notin Structs \/ events[k].kind = "paren"
              \/ events[k].kind = "identifier" /\ events[k].name \notin DOMAIN Fields[lastFieldType])
  BY <1>1, FieldThrows
<1>5. CASE events[k].base = None
  <2>1. Begins(events[k])
    BY <1>2, <1>5 DEF Begins
  <2>2. /\ lastFieldType \in Structs \cup {None}
        /\ Refused(k) <=>
              /\ lastFieldType \in Structs
              /\ \/ events[k].kind = "paren"
                 \/ events[k].name \notin DOMAIN Fields[lastFieldType]
    BY <2>1, RefusedWhere
  <2>3. ~events[k].last
    BY <1>1, <1>5
  <2> QED BY <1>1, <1>3, <1>4, <1>5, <2>2, <2>3
<1>6. CASE events[k].base # None
  <2>1. lastFieldType = events[k].base /\ ~Refused(k)
    BY <1>1, <1>2, <1>6, Standing DEF Refused, Begins
  <2>2. events[k].kind = "identifier" /\ events[k].base \in Structs \cup Arrays
    BY <1>1, <1>2, <1>6 DEF EventOK
  <2>3. events[k].base \in Structs => events[k].name \in DOMAIN Fields[events[k].base]
    <3>1. FieldType(events[k].base, events[k].name) # None
      BY <1>1, <1>2, <1>6, <2>2 DEF EventOK
    <3> QED BY <1>1, <3>1 DEF FieldType
  <2> QED BY <1>1, <1>3, <1>4, <1>6, <2>1, <2>2, <2>3
<1> QED BY <1>5, <1>6

\* The exit of an index, as an operand or as a field.
LEMMA DoomedExitIndex ==
  ASSUME Settled(events), NEW k \in Indices, Reach(events, k, lastFieldType),
         events[k].kind = "exitIndex"
  PROVE  Doomed(k) <=> events[k].field /\ Throws(FieldCode(events[k]))
<1>1. /\ EventOK(events, k) /\ (First(k) <=> Begins(events[k])) /\ events[k] \in EventSet
      /\ MemberOfArray(k) <=> events[k].field /\ events[k].base \in Arrays
      /\ ~FieldOut(events[k]) => ~events[k].arrow
      /\ events[k].last => events[k].base # None /\ ~events[k].arrow
      /\ None \notin Structs /\ None \notin Arrays /\ (\A s \in Structs : s \notin Arrays)
      /\ k \in DOMAIN events /\ k \in 1..Len(events) /\ Len(events) \in Nat
  BY EventIs
<1>2. events[k].base \in Structs \cup {None}
  <2> PICK i : i = events[k].node
    OBVIOUS
  <2>1. i \in 1..(k - 1) /\ events[i].kind = "enterIndex" /\ events[i].base = events[k].base
    BY <1>1 DEF EventOK
  <2>2. i \in Indices
    BY <1>1, <2>1, SettledIs DEF Indices
  <2>3. EventOK(events, i)
    BY <2>2, EventIs
  <2> QED BY <2>1, <2>3 DEF EventOK
<1>3. Doomed(k) <=> events[k].arrow
  <2>1. ~MemberOfArray(k) /\ ~First(k)
    BY <1>1, <1>2 DEF Begins
  <2> QED BY <2>1 DEF Doomed, Refused, LateCall
<1>4. CASE ~events[k].field
  <2>1. ~FieldOut(events[k])
    BY <1>4 DEF FieldOut
  <2> QED BY <1>1, <1>3, <1>4, <2>1
<1>5. CASE events[k].field
  <2>1. lastFieldType \in Structs \cup {None}
    <3>1. events[k].node # 0
      BY <1>1 DEF EventOK
    <3> QED BY <3>1, LeftAround
  <2>2. /\ lastFieldType = None => (Throws(FieldCode(events[k])) <=> events[k].arrow)
        /\ lastFieldType # None /\ events[k].target /\ events[k].last => ~Throws(FieldCode(events[k]))
        /\ lastFieldType # None /\ ~(events[k].target /\ events[k].last) =>
             (Throws(FieldCode(events[k])) <=>
                \/ events[k].arrow \/ lastFieldType \notin Structs \/ events[k].kind = "paren"
                \/ events[k].kind = "identifier" /\ events[k].name \notin DOMAIN Fields[lastFieldType])
    BY <1>1, FieldThrows
  <2>3. Throws(FieldCode(events[k])) <=> events[k].arrow
    BY <1>1, <2>1, <2>2
  <2> QED BY <1>3, <1>5, <2>3
<1> QED BY <1>4, <1>5, EventIs

\* The exit of a call: of a function, or of a method of the struct reached.
LEMMA DoomedExitCall ==
  ASSUME Settled(events), CallsFound, where.method \in BOOLEAN, NEW k \in Indices,
         Reach(events, k, lastFieldType), events[k].kind = "exitCall"
  PROVE  Doomed(k) <=>
           \/ Called(events[k].name) = None
           \/ events[k].field /\ Throws(FieldCode(events[k]))
<1>1. /\ EventOK(events, k) /\ (First(k) <=> Begins(events[k])) /\ events[k] \in EventSet
      /\ MemberOfArray(k) <=> events[k].field /\ events[k].base \in Arrays
      /\ ~FieldOut(events[k]) => ~events[k].arrow
      /\ events[k].last => events[k].base # None /\ ~events[k].arrow
      /\ None \notin Structs /\ None \notin Arrays /\ (\A s \in Structs : s \notin Arrays)
      /\ k \in DOMAIN events /\ k \in 1..Len(events) /\ Len(events) \in Nat
  BY EventIs
<1> PICK i : i = events[k].node
  OBVIOUS
<1>2. /\ events[k].node # 0 /\ events[k].name \in Functions
      /\ events[k].field => events[k].base \in Structs
      /\ i \in 1..(k - 1) /\ events[i].kind = "enterCall" /\ events[i].name = events[k].name
      /\ events[i].field = events[k].field /\ events[i].base = events[k].base
  BY <1>1 DEF EventOK
<1>3. i \in Indices
  BY <1>1, <1>2, SettledIs DEF Indices
<1>4. Doomed(k) <=> events[k].arrow \/ LateCall(k)
  <2>1. ~MemberOfArray(k) /\ ~First(k)
    BY <1>1, <1>2 DEF Begins
  <2> QED BY <2>1 DEF Doomed, Refused
<1>5. FunctionHere(events[k].name) = None <=> events[k].name = "get" /\ ~where.method
  BY <1>2 DEF FunctionHere, Functions, None
<1>6. CASE ~events[k].field
  <2>1. FunctionHere(events[k].name) # None
    BY <1>6 DEF CallsFound
  <2>2. Called(events[k].name) # None
    BY <1>2, <2>1, CalledIs, LeftAround
  <2>3. ~LateCall(k)
    BY <1>5, <2>1 DEF LateCall
  <2>4. ~FieldOut(events[k])
    BY <1>6 DEF FieldOut
  <2> QED BY <1>1, <1>4, <1>6, <2>2, <2>3, <2>4
<1>7. CASE events[k].field
  <2>1. /\ lastFieldType = None => (Throws(FieldCode(events[k])) <=> events[k].arrow)
        /\ lastFieldType # None /\ events[k].target /\ events[k].last => ~Throws(FieldCode(events[k]))
        /\ lastFieldType # None /\ ~(events[k].target /\ events[k].last) =>
             (Throws(FieldCode(events[k])) <=>
                \/ events[k].arrow \/ lastFieldType \notin Structs \/ events[k].kind = "paren"
                \/ events[k].kind = "identifier" /\ events[k].name \notin DOMAIN Fields[lastFieldType])
    BY <1>1, FieldThrows
  <2>2. Before(events, i, k)
    BY <1>1, <1>2, <1>7, StandingAtExit
  <2>3. \A b \in Indices : First(b) <=> Begins(events[b])
    BY EventIs
  <2>4. CASE lastFieldType = events[k].base /\ \A m \in i..(k - 1) : ~FieldOut(events[m])
    <3>1. Called(events[k].name) # None
      BY <1>2, <1>7, <2>4, CalledIs
    <3>2. ~LateCall(k)
      <4> SUFFICES ASSUME NEW b \in Indices, First(b), InsideOf(i, b) PROVE FALSE
        BY DEF LateCall
      <4>1. Begins(events[b]) /\ i < b /\ ~ExitedBy(events, i, b) /\ b \in DOMAIN events
        BY <2>3 DEF InsideOf, Exited, ExitedBy, Indices
      <4>2. \E m \in i..(k - 1) : FieldOut(events[m])
        BY <1>1, <1>2, <4>1, BegunLeft
      <4> QED BY <2>4, <4>2
    <3> QED BY <1>1, <1>2, <1>4, <1>7, <2>1, <2>4, <3>1, <3>2
  <2>5. CASE lastFieldType = None /\ \E m \in i..(k - 1) : events[m].last
    <3>1. PICK m \in i..(k - 1) : events[m].last
      BY <2>5
    <3>2. PICK b \in (i + 1)..m : Begins(events[b]) /\ ~ExitedBy(events, i, b)
      BY <1>1, <1>2, <2>2, <3>1, EndedBegan
    <3>3. b \in Indices /\ i < b
      BY <1>1, <1>2, <3>1, <3>2, SettledIs DEF Indices
    <3>4. First(b) /\ InsideOf(i, b)
      BY <1>1, <1>2, <1>7, <2>3, <3>2, <3>3 DEF InsideOf, Exited, ExitedBy, IsEnter, Field
    <3>5. LateCall(k) <=> events[k].name = "get" /\ ~where.method
      BY <3>3, <3>4 DEF LateCall
    <3>6. Called(events[k].name) = None <=> LateCall(k)
      BY <1>5, <2>5, <3>5, CalledIs
    <3> QED BY <1>4, <1>7, <2>1, <2>5, <3>6
  <2>6. \/ lastFieldType = events[k].base /\ \A m \in i..(k - 1) : ~FieldOut(events[m])
        \/ lastFieldType = None /\ \E m \in i..(k - 1) : events[m].last
    BY <1>1, <1>2, <1>7, StandingAtExit
  <2> QED BY <2>4, <2>5, <2>6
<1> QED BY <1>6, <1>7, EventIs

\* Together: an event's code throws if and only if the event is doomed.
LEMMA DoomedThrows ==
  ASSUME Settled(events), CallsFound, where.method \in BOOLEAN, NEW k \in Indices,
         lastFieldType \in Types \cup {None}, Reach(events, k, lastFieldType)
  PROVE  Throws(EventCode(events[k])) <=> Doomed(k)
<1>1. events[k] \in EventSet /\ EventOK(events, k) /\ events[k].kind \in Kinds
  BY EventIs
<1>2. /\ events[k].kind \in {"enterCall", "exitCall"} => events[k].name \in Functions
      /\ events[k].kind \in {"identifier", "paren"} => events[k].field
  BY <1>1 DEF EventOK
<1> PICK e : e = events[k]
  OBVIOUS
<1>3. /\ e.kind \in {"literal", "variable", "postfixVariable", "postfix"} =>
           ~Throws(EventCode(e))
      /\ e.kind = "prefix" => (Throws(EventCode(e)) <=> e.name = None)
      /\ e.kind = "enterCall" => (Throws(EventCode(e)) <=> Called(e.name) = None)
      /\ e.kind = "enterIndex" =>
           (Throws(EventCode(e)) <=>
              /\ e.field /\ lastFieldType # None
              /\ ~(lastFieldType \in Structs /\ e.name \in DOMAIN Fields[lastFieldType]))
      /\ e.kind = "exitCall" =>
           (Throws(EventCode(e)) <=>
              Called(e.name) = None \/ (e.field /\ Throws(FieldCode(e))))
      /\ e.kind \in {"identifier", "paren", "exitIndex"} =>
           (Throws(EventCode(e)) <=> e.field /\ Throws(FieldCode(e)))
  BY <1>1, <1>2, EventThrows
<1>4. CASE e.kind \in {"literal", "variable", "postfixVariable", "prefix", "postfix"}
  <2>1. Doomed(k) <=> e.kind = "prefix" /\ e.name = None
    BY <1>4, DoomedOperand
  <2> QED BY <1>3, <1>4, <2>1
<1>5. CASE e.kind = "enterCall"
  <2>1. ~Doomed(k) /\ Called(e.name) # None
    BY <1>5, DoomedEnterCall
  <2> QED BY <1>3, <1>5, <2>1
<1>6. CASE e.kind = "enterIndex"
  <2>1. Doomed(k) <=>
          /\ e.field /\ lastFieldType # None
          /\ ~(lastFieldType \in Structs /\ e.name \in DOMAIN Fields[lastFieldType])
    BY <1>6, DoomedEnterIndex
  <2> QED BY <1>3, <1>6, <2>1
<1>7. CASE e.kind = "exitCall"
  <2>1. Doomed(k) <=> Called(e.name) = None \/ (e.field /\ Throws(FieldCode(e)))
    BY <1>7, DoomedExitCall
  <2> QED BY <1>3, <1>7, <2>1
<1>8. CASE e.kind = "exitIndex"
  <2>1. Doomed(k) <=> e.field /\ Throws(FieldCode(e))
    BY <1>8, DoomedExitIndex
  <2> QED BY <1>3, <1>8, <2>1
<1>9. CASE e.kind \in {"identifier", "paren"}
  <2>1. Doomed(k) <=> Throws(FieldCode(e))
    BY <1>9, DoomedName
  <2> QED BY <1>2, <1>3, <1>9, <2>1
<1> QED BY <1>1, <1>4, <1>5, <1>6, <1>7, <1>8, <1>9 DEF Kinds

\* After an event that is not doomed, of a statement in which nothing is
\* misread, lastFieldType is what is to be left.
LEMMA LeavesAfter ==
  ASSUME Settled(events), NEW k \in Indices, Reach(events, k, lastFieldType),
         ~Doomed(k), ~Misread(k), FieldOut(events[k])
  PROVE  FieldTypeAfter(events[k]) = After(events[k])
<1>1. /\ EventOK(events, k) /\ (First(k) <=> Begins(events[k])) /\ events[k] \in EventSet
      /\ MemberOfArray(k) <=> events[k].field /\ events[k].base \in Arrays
      /\ events[k].last => events[k].base # None /\ ~events[k].arrow
      /\ None \notin Structs /\ None \notin Arrays /\ (\A s \in Structs : s \notin Arrays)
      /\ k \in DOMAIN events /\ k \in 1..Len(events) /\ Len(events) \in Nat
  BY EventIs
<1>2. ~events[k].arrow
  BY DEF Doomed
<1>3. CASE events[k].last
  BY <1>3 DEF FieldTypeAfter, After
<1>4. CASE ~events[k].last /\ events[k].kind = "identifier" /\ lastFieldType \in Structs
  <2>1. FieldTypeAfter(events[k]) =
          IF events[k].name \in DOMAIN Fields[lastFieldType]
          THEN Fields[lastFieldType][events[k].name] ELSE None
    BY <1>4 DEF FieldTypeAfter
  <2>2. After(events[k]) = events[k].type
    BY <1>2, <1>4 DEF After
  <2>3. events[k].field /\ events[k].node = 0
    BY <1>1, <1>4 DEF EventOK
  <2>4. CASE events[k].base # None
    <3>1. lastFieldType = events[k].base /\ events[k].type = FieldType(events[k].base, events[k].name)
      BY <1>1, <1>4, <2>3, <2>4, Standing DEF EventOK
    <3>2. events[k].type # None
      BY <1>1 DEF EventOK
    <3>3. FieldType(lastFieldType, events[k].name) =
            IF events[k].name \in DOMAIN Fields[lastFieldType]
            THEN Fields[lastFieldType][events[k].name] ELSE None
      BY <1>1, <1>4 DEF FieldType
    <3> QED BY <2>1, <2>2, <3>1, <3>3
  <2>5. CASE events[k].base = None
    <3>1. Begins(events[k])
      BY <1>4, <2>3, <2>5 DEF Begins
    <3>2. events[k].name \in DOMAIN Fields[lastFieldType]
      <4>1. ~Refused(k)
        BY DEF Doomed
      <4> QED BY <1>4, <3>1, <4>1, RefusedWhere
    <3>3. PICK j \in Indices : InnermostBefore(events, j, k) /\ lastFieldType = events[j].base
      BY <1>1, <1>4, <2>5, LeftAround
    <3>4. Innermost(j, k)
      BY <2>3, <3>3, InsideIsBefore
    <3>5. Fields[lastFieldType][events[k].name] = events[k].type
      BY <1>1, <1>4, <3>1, <3>2, <3>3, <3>4 DEF Misread
    <3> QED BY <2>1, <2>2, <3>2, <3>5
  <2> QED BY <2>4, <2>5
<1>5. CASE ~events[k].last /\ ~(events[k].kind = "identifier" /\ lastFieldType \in Structs)
  <2>1. FieldTypeAfter(events[k]) = events[k].type
    BY <1>5 DEF FieldTypeAfter
  <2> QED BY <1>2, <1>5, <2>1 DEF After
<1> QED BY <1>3, <1>4, <1>5

-----------------------------------------------------------------------------
(* The generator keeps the invariant.                                      *)

\* The field exited at k leaves its type; any other event, the type before.
LEMMA ReachNext ==
  ASSUME NEW es \in Seq(EventSet), NEW k \in DOMAIN es, NEW t
  PROVE  /\ FieldOut(es[k]) => Reach(es, k + 1, After(es[k]))
         /\ ~FieldOut(es[k]) /\ Reach(es, k, t) => Reach(es, k + 1, t)
<1>1. k \in Nat /\ k >= 1 /\ (k + 1) - 1 = k
  OBVIOUS
<1>2. ASSUME FieldOut(es[k]) PROVE Reach(es, k + 1, After(es[k]))
  <2>1. k \in 1..k /\ (k + 1)..k = {}
    BY <1>1
  <2> QED BY <1>1, <1>2, <2>1 DEF Reach
<1>3. ASSUME ~FieldOut(es[k]), Reach(es, k, t) PROVE Reach(es, k + 1, t)
  <2>1. \A m \in 1..k : m = k \/ m \in 1..(k - 1)
    BY <1>1
  <2>2. \A m \in 1..(k - 1) : m \in 1..k /\ \A n \in (m + 1)..k : n = k \/ n \in (m + 1)..(k - 1)
    BY <1>1
  <2>3. CASE t = None /\ \A m \in 1..(k - 1) : ~FieldOut(es[m])
    BY <1>1, <1>3, <2>1, <2>3 DEF Reach
  <2>4. CASE \E m \in 1..(k - 1) : /\ FieldOut(es[m]) /\ t = After(es[m])
                                   /\ \A n \in (m + 1)..(k - 1) : ~FieldOut(es[n])
    <3>1. PICK m \in 1..(k - 1) : /\ FieldOut(es[m]) /\ t = After(es[m])
                                  /\ \A n \in (m + 1)..(k - 1) : ~FieldOut(es[n])
      BY <2>4
    <3>2. m \in 1..k /\ \A n \in (m + 1)..k : ~FieldOut(es[n])
      BY <1>3, <2>2, <3>1
    <3> QED BY <1>1, <3>1, <3>2 DEF Reach
  <2> QED BY <1>3, <2>3, <2>4 DEF Reach
<1> QED BY <1>2, <1>3

\* What is said of the statement depends on its events and its context alone.
LEMMA StatementKept ==
  ASSUME UNCHANGED <<events, where>>
  PROVE  /\ \A k : (Doomed(k))' <=> Doomed(k)
         /\ NothingMisread' <=> NothingMisread
         /\ CallsFound' <=> CallsFound
         /\ \A k, t : Reach(events, k, t)' <=> Reach(events, k, t)
<1>1. events' = events /\ where' = where
  OBVIOUS
<1>2. \A i, j : (InsideOf(i, j))' <=> InsideOf(i, j)
  BY <1>1 DEF InsideOf, IsEnter, Field, Exited
<1>3. \A i : (First(i))' <=> First(i)
  BY <1>1 DEF First, Field
<1>4. \A i, j : (Innermost(i, j))' <=> Innermost(i, j)
  BY <1>1, <1>2 DEF Innermost, Indices
<1>5. \A k : (Refused(k))' <=> Refused(k)
  BY <1>1, <1>3, <1>4 DEF Refused, Indices
<1>6. \A k : (LateCall(k))' <=> LateCall(k)
  <2> TAKE k
  <2> PICK n : n = events[k].node
    OBVIOUS
  <2>1. \A i : (InsideOf(n, i))' <=> InsideOf(n, i)
    BY <1>2
  <2> QED BY <1>1, <1>3, <2>1 DEF LateCall, Indices, InsideOf, IsEnter, Field, Exited
<1>7. \A k : (Doomed(k))' <=> Doomed(k)
  BY <1>1, <1>5, <1>6 DEF Doomed, MemberOfArray, Field
<1>8. NothingMisread' <=> NothingMisread
  BY <1>1, <1>3, <1>4 DEF NothingMisread, Misread, Indices
<1>9. CallsFound' <=> CallsFound
  BY <1>1 DEF CallsFound, Indices, FunctionHere
<1> QED BY <1>1, <1>7, <1>8, <1>9

\* The checked statement is generated from its first event on.
LEMMA GenerateStarts ==
  ASSUME AccessInv, CheckStatement
  PROVE  AccessInv'
<1>1. Shapes /\ Walk(events, open, value) /\ CallsFound
  BY DEF AccessInv
<1>2. /\ phase = "checking" /\ value # None /\ IsRoot /\ phase' = "generating"
      /\ events' = events /\ open' = open /\ value' = value
      /\ where' = where /\ use' = use /\ next' = next /\ lastFieldType' = lastFieldType
  BY DEF CheckStatement, Unchecked
<1>3. next = 1 /\ lastFieldType = None
  BY <1>1, <1>2 DEF Shapes
<1>4. Shapes'
  BY <1>1, <1>2 DEF Shapes, Phases, IsRoot
<1>5. CallsFound'
  BY <1>1, <1>2, StatementKept
<1>6. Walk(events, open, value)'
  BY <1>1, <1>2
<1>7. Pending'
  BY <1>2, <1>3 DEF Pending
<1>8. Generated'
  <2>1. 1..(1 - 1) = {}
    OBVIOUS
  <2>2. Reach(events', 1, None)
    BY <2>1 DEF Reach
  <2> QED BY <1>2, <1>3, <2>1, <2>2 DEF Generated
<1> QED BY <1>4, <1>5, <1>6, <1>7, <1>8 DEF AccessInv

\* What FieldTypeAfter is.
LEMMA LeavesType ==
  ASSUME NEW e \in EventSet
  PROVE  FieldTypeAfter(e) \in Types \cup {None} /\ (e.last => FieldTypeAfter(e) = None)
<1>1. e.type \in Types \cup {None}
  BY DEF EventSet
<1> QED BY <1>1, TypesOfMembers DEF FieldTypeAfter

\* One event more has been generated, or the generator has stopped at it.
LEMMA GenerateStep ==
  ASSUME AccessInv, GenerateEvent
  PROVE  AccessInv'
<1>1. Shapes /\ Walk(events, open, value) /\ CallsFound /\ Pending /\ Generated
  BY DEF AccessInv
<1> PICK k : k = next
  OBVIOUS
<1> PICK e : e = events[k]
  OBVIOUS
<1>2. /\ phase = "generating" /\ next <= Len(events) /\ next' = k + 1
      /\ events' = events /\ open' = open /\ value' = value /\ where' = where /\ use' = use
      /\ IF Throws(EventCode(e))
         THEN phase' = "aborted" /\ lastFieldType' = lastFieldType
         ELSE /\ phase' = phase
              /\ lastFieldType' = IF e.field /\ e.kind \notin {"enterCall", "enterIndex"}
                                  THEN FieldTypeAfter(e) ELSE lastFieldType
  BY DEF GenerateEvent
<1>3. Settled(events)
  <2>1. Len(open) = 1
    BY <1>1, <1>2 DEF Shapes, IsRoot
  <2> QED BY <1>1, <2>1, Complete
<1>4. events \in Seq(EventSet) /\ Len(events) \in Nat /\ DOMAIN events = 1..Len(events)
  BY <1>3, SettledIs
<1>5. /\ k \in Nat /\ k >= 1 /\ k \in DOMAIN events /\ k \in Indices /\ (k + 1) - 1 = k
      /\ k + 1 \in 1..(Len(events) + 1) /\ k + 1 > 1 /\ e \in EventSet
  <2>1. k \in 1..(Len(events) + 1)
    BY <1>1 DEF Shapes
  <2> QED BY <1>2, <1>4, <2>1 DEF Indices
<1>6. /\ \A i : (Doomed(i))' <=> Doomed(i)
      /\ NothingMisread' <=> NothingMisread
      /\ CallsFound'
  BY <1>1, <1>2, StatementKept
<1>7. /\ lastFieldType \in Types \cup {None} /\ where.method \in BOOLEAN /\ value # None
      /\ lastFieldType' \in Types \cup {None}
  <2>1. where \in Contexts /\ lastFieldType \in Types \cup {None} /\ value # None
    BY <1>1, <1>2 DEF Shapes
  <2>2. lastFieldType' \in Types \cup {None}
    BY <1>2, <1>5, <2>1, LeavesType
  <2> QED BY <2>1, <2>2, ConstantsAssumption
<1>8. /\ NothingMisread => Reach(events, k, lastFieldType) /\ \A i \in 1..(k - 1) : ~Doomed(i)
      /\ NothingMisread => (Throws(EventCode(e)) <=> Doomed(k))
  <2>1. NothingMisread => Reach(events, k, lastFieldType) /\ \A i \in 1..(k - 1) : ~Doomed(i)
    BY <1>1, <1>2 DEF Generated
  <2>2. NothingMisread => (Throws(EventCode(e)) <=> Doomed(k))
    BY <1>1, <1>3, <1>5, <1>7, <2>1, DoomedThrows
  <2> QED BY <2>1, <2>2
<1>9. Shapes'
  <2>1. phase' \in {"generating", "aborted"}
    BY <1>2
  <2> QED BY <1>1, <1>2, <1>4, <1>5, <1>7, <2>1 DEF Shapes, Phases, IsRoot
<1>10. Walk(events, open, value)'
  BY <1>1, <1>2
<1>11. Pending'
  <2>1. CASE Throws(EventCode(e))
    BY <1>2, <2>1 DEF Pending
  <2>2. CASE ~Throws(EventCode(e)) /\ FieldOut(e)
    <3>1. lastFieldType' = FieldTypeAfter(e)
      BY <1>2, <2>2 DEF FieldOut, Enter
    <3>2. lastFieldType' # None => ~e.last
      BY <1>5, <3>1, LeavesType
    <3>3. k \in 1..k /\ (k + 1)..k = {}
      BY <1>5
    <3> QED BY <1>2, <1>5, <2>2, <3>2, <3>3 DEF Pending
  <2>3. CASE ~Throws(EventCode(e)) /\ ~FieldOut(e)
    <3>1. lastFieldType' = lastFieldType
      BY <1>2, <2>3 DEF FieldOut, Enter
    <3>2. lastFieldType # None =>
            \E m \in 1..(k - 1) : /\ FieldOut(events[m]) /\ ~events[m].last
                                  /\ \A n \in (m + 1)..(k - 1) : ~FieldOut(events[n])
      BY <1>1, <1>2 DEF Pending
    <3>3. \A m \in 1..(k - 1) : m \in 1..k /\ \A n \in (m + 1)..k : n = k \/ n \in (m + 1)..(k - 1)
      BY <1>5
    <3>4. lastFieldType # None =>
            \E m \in 1..k : /\ FieldOut(events[m]) /\ ~events[m].last
                            /\ \A n \in (m + 1)..k : ~FieldOut(events[n])
      BY <2>3, <3>2, <3>3
    <3> QED BY <1>2, <1>5, <3>1, <3>4 DEF Pending
  <2> QED BY <2>1, <2>2, <2>3
<1>12. Generated'
  <2>1. CASE Throws(EventCode(e))
    <3>1. phase' = "aborted" /\ next' - 1 = k
      BY <1>2, <1>5, <2>1
    <3>2. NothingMisread' => Doomed(k)'
      BY <1>6, <1>8, <2>1
    <3> QED BY <3>1, <3>2 DEF Generated
  <2>2. CASE ~Throws(EventCode(e))
    <3>1. phase' = "generating" /\ next' - 1 = k /\ next' = k + 1
      BY <1>2, <1>5, <2>2
    <3>2. ASSUME NothingMisread
          PROVE  Reach(events, k + 1, lastFieldType') /\ \A i \in 1..k : ~Doomed(i)
      <4>1. ~Doomed(k) /\ \A i \in 1..k : i = k \/ i \in 1..(k - 1)
        BY <1>5, <1>8, <2>2, <3>2
      <4>2. CASE FieldOut(e)
        <5>1. lastFieldType' = FieldTypeAfter(e)
          BY <1>2, <2>2, <4>2 DEF FieldOut, Enter
        <5>2. ~Misread(k)
          BY <1>5, <3>2 DEF NothingMisread
        <5>3. FieldTypeAfter(e) = After(e)
          BY <1>3, <1>5, <1>8, <3>2, <4>1, <4>2, <5>2, LeavesAfter
        <5>4. Reach(events, k + 1, After(e))
          BY <1>4, <1>5, <4>2, ReachNext
        <5> QED BY <1>8, <3>2, <4>1, <5>1, <5>3, <5>4
      <4>3. CASE ~FieldOut(e)
        <5>1. lastFieldType' = lastFieldType
          BY <1>2, <2>2, <4>3 DEF FieldOut, Enter
        <5>2. Reach(events, k + 1, lastFieldType)
          BY <1>4, <1>5, <1>8, <3>2, <4>3, ReachNext
        <5> QED BY <1>8, <3>2, <4>1, <5>1, <5>2
      <4> QED BY <4>2, <4>3
    <3>3. NothingMisread' =>
            Reach(events', k + 1, lastFieldType') /\ \A i \in 1..k : ~(Doomed(i))'
      BY <1>2, <1>6, <3>2
    <3> QED BY <3>1, <3>3 DEF Generated
  <2> QED BY <2>1, <2>2
<1> QED BY <1>6, <1>9, <1>10, <1>11, <1>12 DEF AccessInv

\* The end of the pass, and steps that change nothing.
LEMMA GenerateEnds ==
  ASSUME AccessInv, GenerateStatement \/ UNCHANGED vars
  PROVE  AccessInv'
<1>1. Shapes /\ Walk(events, open, value) /\ CallsFound /\ Pending /\ Generated
  BY DEF AccessInv
<1>2. /\ events' = events /\ open' = open /\ value' = value /\ where' = where /\ use' = use
      /\ next' = next /\ lastFieldType' = lastFieldType
      /\ \/ phase' = phase
         \/ phase = "generating" /\ phase' = "done" /\ next = Len(events) + 1
  BY DEF GenerateStatement, vars
<1>3. /\ \A i : (Doomed(i))' <=> Doomed(i)
      /\ NothingMisread' <=> NothingMisread
      /\ CallsFound'
  BY <1>1, <1>2, StatementKept
<1>4. Shapes'
  BY <1>1, <1>2 DEF Shapes, Phases, IsRoot
<1>5. Walk(events, open, value)'
  BY <1>1, <1>2
<1>6. Pending'
  BY <1>1, <1>2 DEF Pending
<1>7. Generated'
  <2> PICK n : n = next
    OBVIOUS
  <2>1. next' = n
    BY <1>2
  <2>2. phase' \in {"generating", "done"} /\ NothingMisread' =>
          Reach(events, n, lastFieldType) /\ \A i \in 1..(n - 1) : ~Doomed(i)
    BY <1>1, <1>2, <1>3 DEF Generated
  <2>3. phase' = "aborted" /\ NothingMisread' => Doomed(n - 1)
    BY <1>1, <1>2, <1>3 DEF Generated
  <2>4. phase' \in {"generating", "done"} /\ NothingMisread' =>
          Reach(events', n, lastFieldType') /\ \A i \in 1..(n - 1) : ~(Doomed(i))'
    BY <1>2, <1>3, <2>2
  <2>5. phase' = "aborted" /\ NothingMisread' => Doomed(n - 1)'
    BY <1>3, <2>3
  <2> QED BY <2>1, <2>4, <2>5 DEF Generated
<1> QED BY <1>3, <1>4, <1>5, <1>6, <1>7 DEF AccessInv

-----------------------------------------------------------------------------
(* Theorems.                                                               *)

\* At first only the statement is open, and nothing has been checked.
LEMMA InitHolds ==
  ASSUME Init
  PROVE  AccessInv
<1> PICK f : f = Frame("statement", None, None, FALSE, 0)
  OBVIOUS
<1>1. /\ phase = "checking" /\ where \in Contexts /\ use \in Uses /\ events = <<>> /\ open = <<f>>
      /\ value = None /\ next = 1 /\ lastFieldType = None
  BY DEF Init
<1>2. /\ f \in FrameSet /\ f.kind = "statement" /\ f.field = FALSE /\ f.node = 0 /\ ~Bracket(f)
      /\ ~Reached(f)
  BY DEF Frame, FrameSet, AllNames, Bracket, Reached
<1>3. /\ <<>> \in Seq(EventSet) /\ Len(<<>>) = 0 /\ DOMAIN <<>> = {}
      /\ <<f>> \in Seq(FrameSet) /\ Len(<<f>>) = 1 /\ DOMAIN <<f>> = {1} /\ <<f>>[1] = f /\ <<f>> # <<>>
  <2>1. <<>> \in Seq(EventSet) /\ Len(<<>>) = 0
    OBVIOUS
  <2>2. DOMAIN <<>> = {}
    <3>1. \A s \in Seq(EventSet) : DOMAIN s = 1..Len(s)
      OBVIOUS
    <3> QED BY <2>1, <3>1
  <2>3. <<f>> \in Seq(FrameSet) /\ Len(<<f>>) = 1 /\ <<f>>[1] = f
    <3>1. f \in FrameSet
      BY <1>2
    <3>2. \A S : \A x \in S : <<x>> \in Seq(S)
      OBVIOUS
    <3>3. \A x : Len(<<x>>) = 1
      OBVIOUS
    <3>4. \A x : <<x>>[1] = x
      OBVIOUS
    <3> QED BY <3>1, <3>2, <3>3, <3>4
  <2>4. DOMAIN <<f>> = {1}
    <3>1. \A s \in Seq(FrameSet) : DOMAIN s = 1..Len(s)
      OBVIOUS
    <3> QED BY <2>3, <3>1
  <2>5. <<f>> # <<>>
    BY <2>1, <2>3
  <2> QED BY <2>1, <2>2, <2>3, <2>4, <2>5
<1> PICK es : es = <<>>
  OBVIOUS
<1> PICK fs : fs = <<f>>
  OBVIOUS
<1>4. /\ es \in Seq(EventSet) /\ Len(es) = 0 /\ DOMAIN es = {} /\ fs \in Seq(FrameSet)
      /\ Len(fs) = 1 /\ DOMAIN fs = {1} /\ fs[1] = f /\ fs # <<>>
  BY <1>3
<1>5. \A d \in DOMAIN fs : FrameOK(es, fs, d)
  <2> TAKE d \in DOMAIN fs
  <2>1. DOMAIN fs = {1} /\ fs[1] = f
    BY <1>4
  <2>2. d = 1
    BY ONLY <2>1, d \in DOMAIN fs
  <2>3. ~(d > 1)
    BY ONLY <2>2
  <2>4. fs[d] = f
    BY ONLY <2>1, <2>2
  <2> QED BY <1>2, <2>2, <2>3, <2>4 DEF FrameOK
<1>6. NodesInOrder(fs) /\ EntersAccounted(es, fs) /\ AccessesBegun(es, fs)
  BY <1>2, <1>4 DEF NodesInOrder, EntersAccounted, AccessesBegun
<1>7. Current(es, fs, None)
  <2>1. Since(es, None, 0)
    BY <1>4 DEF Since
  <2>2. \A c \in DOMAIN fs : ~InnerAccess(fs, c)
    BY <1>4 DEF InnerAccess
  <2> QED BY <1>2, <1>4, <2>1, <2>2 DEF Current
<1>8. Walk(es, fs, None)
  BY <1>2, <1>4, <1>5, <1>6, <1>7 DEF Walk
<1>9. Walk(events, open, value)
  BY <1>1, <1>8
<1>10. Shapes
  BY <1>1 DEF Shapes, Phases
<1>11. CallsFound /\ Pending /\ Generated
  BY <1>1 DEF CallsFound, Indices, Pending, Generated
<1> QED BY <1>9, <1>10, <1>11 DEF AccessInv

\* The invariant, of statements of any length: whatever the type checker lets
\* pass, lastFieldType is the type that the field exited last is to leave, and
\* the generator stops at the first doomed event.
THEOREM AccessInvHolds == Spec => []AccessInv
<1>1. Init => AccessInv
  BY InitHolds
<1>2. AccessInv /\ [Next]_vars => AccessInv'
  <2> SUFFICES ASSUME AccessInv, [Next]_vars PROVE AccessInv'
    OBVIOUS
  <2>1. CASE CheckLiteral
    BY <2>1, LiteralStep
  <2>2. CASE \E name \in Variables : CheckVariable(name) \/ CheckPostfixVariable(name)
    BY <2>2, VariableStep
  <2>3. CASE \E kind \in {"access", "paren", "prefix", "postfix"} : Open(kind)
    BY <2>3, OpenStep
  <2>4. CASE \E name \in Functions : EnterCall(name)
    BY <2>4, EnterCallStep
  <2>5. CASE \E name \in Names \cup DOMAIN where.locals : EnterIndex(name)
    BY <2>5, EnterIndexStep
  <2>6. CASE \E name \in Names \cup DOMAIN where.locals, last, arrow \in BOOLEAN :
               CheckIdentifier(name, last, arrow)
    BY <2>6, IdentifierStep
  <2>7. CASE \E last, arrow \in BOOLEAN : CheckCall(last, arrow) \/ CheckIndex(last, arrow)
    BY <2>7, CallStep, IndexStep
  <2>8. CASE \E arrow \in BOOLEAN : CheckParen(arrow)
    BY <2>8, ParenStep
  <2>9. CASE \E kind \in {"prefix", "postfix"} : CheckIncrement(kind)
    BY <2>9, IncrementStep
  <2>10. CASE CheckStatement
    BY <2>10, GenerateStarts
  <2>11. CASE GenerateEvent
    BY <2>11, GenerateStep
  <2>12. CASE GenerateStatement \/ UNCHANGED vars
    BY <2>12, GenerateEnds
  <2> QED BY <2>1, <2>2, <2>3, <2>4, <2>5, <2>6, <2>7, <2>8, <2>9, <2>10, <2>11, <2>12 DEF Next
<1> QED BY <1>1, <1>2, PTL DEF Spec

\* The walk of the type checker is well bracketed, however deep it nests: every
\* call and index entered is open, or has been exited once.
THEOREM TypeCorrect == Spec => []TypeOK
<1>1. AccessInv => TypeOK
  <2> SUFFICES ASSUME AccessInv PROVE TypeOK
    OBVIOUS
  <2>1. /\ Shapes /\ events \in Seq(EventSet) /\ open \in Seq(FrameSet) /\ open # <<>>
        /\ \A k \in DOMAIN events : EventOK(events, k)
        /\ \A d \in DOMAIN open : FrameOK(events, open, d)
        /\ EntersAccounted(events, open)
    BY DEF AccessInv, Walk
  <2>2. /\ Len(events) \in Nat /\ DOMAIN events = 1..Len(events) /\ 1 \in DOMAIN open
    BY <2>1
  <2>3. Head(open).kind = "statement"
    <3>1. FrameOK(events, open, 1) /\ Head(open) = open[1]
      BY <2>1, <2>2
    <3> QED BY <3>1 DEF FrameOK
  <2>4. ASSUME NEW i \in Indices, IsEnter(i)
        PROVE  \/ ~Exited(i, Len(events)) /\ \E d \in DOMAIN open : open[d].node = i
               \/ /\ \E x \in Indices : /\ events[x].node = i
                                        /\ \A y \in Indices \ {x} : events[y].node # i
                  /\ \A d \in DOMAIN open : open[d].node # i
    <3>1. /\ i \in DOMAIN events /\ i # 0 /\ Enter(events[i])
          /\ (Exited(i, Len(events)) <=> ExitedBy(events, i, Len(events)))
      BY <2>2, <2>4 DEF Indices, IsEnter, Enter, Exited, ExitedBy
    <3>2. CASE ~ExitedBy(events, i, Len(events))
      BY <2>1, <3>1, <3>2 DEF EntersAccounted
    <3>3. CASE ExitedBy(events, i, Len(events))
      <4>1. PICK x \in 1..Len(events) : events[x].node = i
        BY <3>3 DEF ExitedBy
      <4>2. \A a, b \in 1..Len(events) : events[a].node = i /\ events[b].node = i => ~(a < b)
        <5> SUFFICES ASSUME NEW a \in 1..Len(events), NEW b \in 1..Len(events),
                            events[a].node = i, events[b].node = i, a < b
                     PROVE  FALSE
          OBVIOUS
        <5>1. ~ExitedBy(events, i, b - 1)
          BY <2>1, <2>2, <3>1, SMTT(30) DEF EventOK
        <5>2. a \in 1..(b - 1)
          BY <2>2
        <5> QED BY <5>1, <5>2 DEF ExitedBy
      <4>3. \A y \in Indices \ {x} : events[y].node # i
        <5>1. \A y \in 1..Len(events) : y < x \/ x < y \/ x = y
          BY <2>2
        <5> QED BY <2>2, <4>1, <4>2, <5>1 DEF Indices
      <4>4. \A d \in DOMAIN open : open[d].node # i
        <5> TAKE d \in DOMAIN open
        <5>1. FrameOK(events, open, d)
          BY <2>1
        <5>2. CASE Bracket(open[d])
          BY <3>3, <5>1, <5>2 DEF FrameOK
        <5>3. CASE ~Bracket(open[d])
          BY <3>1, <5>1, <5>3 DEF FrameOK
        <5> QED BY <5>2, <5>3
      <4> QED BY <2>2, <4>1, <4>3, <4>4 DEF Indices
    <3> QED BY <3>2, <3>3
  <2> QED BY <2>1, <2>3, <2>4 DEF TypeOK, Shapes
<1> QED BY <1>1, AccessInvHolds, PTL

\* An access that is plain begins in no other.
LEMMA PlainBegins ==
  ASSUME Settled(events), Plain
  PROVE  /\ NothingMisread
         /\ \A i \in Indices, j \in Indices : ~(InsideOf(i, j) /\ Begins(events[j]))
<1>1. \A i \in Indices, j \in Indices : ~(InsideOf(i, j) /\ First(j))
  BY DEF Plain, NestedInAccess, Inside
<1>2. \A j \in Indices : First(j) <=> Begins(events[j])
  BY EventIs
<1>3. NothingMisread
  BY <1>1 DEF NothingMisread, Misread, Innermost
<1> QED BY <1>1, <1>2, <1>3

\* At each field of a plain statement the generator's one lastFieldType is what
\* the type checker's stack had on top, whatever was nested before; and after
\* any statement that is compiled nothing is left in it for the next.
THEOREM FieldTypeFollows == Spec => []LastFieldTypeFollows
<1>1. AccessInv => LastFieldTypeFollows
  <2> SUFFICES ASSUME AccessInv, phase \in {"generating", "done"}
               PROVE  IF next > Len(events) THEN lastFieldType = None
                      ELSE Field(next) /\ Plain => lastFieldType = events[next].base
    BY DEF LastFieldTypeFollows
  <2>1. /\ Shapes /\ Walk(events, open, value) /\ Pending /\ Generated
    BY DEF AccessInv
  <2>2. Len(open) = 1 /\ value # None /\ next \in 1..(Len(events) + 1)
    BY <2>1 DEF Shapes, IsRoot
  <2>3. Settled(events)
    BY <2>1, <2>2, Complete
  <2>4. events \in Seq(EventSet) /\ Len(events) \in Nat /\ Indices = 1..Len(events)
    BY <2>3, SettledIs DEF Indices
  <2>5. CASE next > Len(events)
    <3> SUFFICES ASSUME lastFieldType # None PROVE FALSE
      BY <2>5
    <3>1. next - 1 = Len(events)
      BY <2>2, <2>4, <2>5
    <3>2. PICK m \in 1..Len(events) : /\ FieldOut(events[m]) /\ ~events[m].last
                                      /\ \A n \in (m + 1)..Len(events) : ~FieldOut(events[n])
      BY <2>1, <3>1 DEF Pending
    <3>3. Since(events, value, 0)
      <4>1. ~Reached(open[Len(open)])
        <5>1. open \in Seq(FrameSet) /\ FrameOK(events, open, 1)
          <6>1. open \in Seq(FrameSet)
            BY <2>1 DEF Walk
          <6>2. 1 \in DOMAIN open
            BY <2>2, <6>1
          <6> QED BY <2>1, <6>1, <6>2 DEF Walk
        <5>2. open[1].kind = "statement"
          BY <5>1 DEF FrameOK
        <5> QED BY <2>2, <5>2 DEF Reached
      <4>2. \A d \in 1..(Len(open) - 1) : ~Reached(open[d])
        BY <2>2
      <4> QED BY <2>1, <4>1, <4>2 DEF Walk, Current
    <3>4. m \in (0 + 1)..Len(events)
      BY <3>2
    <3> QED BY <2>2, <3>2, <3>3, <3>4 DEF Since
  <2>6. CASE ~(next > Len(events))
    <3> SUFFICES ASSUME Field(next), Plain PROVE lastFieldType = events[next].base
      BY <2>6
    <3> PICK k : k = next
      OBVIOUS
    <3>1. k \in Indices /\ k \in DOMAIN events /\ events[k].field /\ k \in Nat
      BY <2>2, <2>4, <2>6 DEF Field
    <3>2. NothingMisread /\ \A i \in Indices, j \in Indices : ~(InsideOf(i, j) /\ Begins(events[j]))
      BY <2>3, PlainBegins
    <3>3. Reach(events, k, lastFieldType)
      BY <2>1, <3>2 DEF Generated
    <3>4. EventOK(events, k)
      BY <2>3, <3>1, EventIs
    <3>5. CASE events[k].base # None /\ events[k].node = 0
      BY <2>3, <3>1, <3>3, <3>5, Standing
    <3>6. CASE events[k].base # None /\ events[k].node # 0
      <4> PICK i : i = events[k].node
        OBVIOUS
      <4>1. /\ i \in 1..(k - 1) /\ Before(events, i, k)
            /\ \/ lastFieldType = events[k].base
               \/ \E m \in i..(k - 1) : events[m].last
        BY <2>3, <3>1, <3>3, <3>6, StandingAtExit
      <4>2. ASSUME NEW m \in i..(k - 1), events[m].last PROVE FALSE
        <5>1. PICK b \in (i + 1)..m : Begins(events[b]) /\ ~ExitedBy(events, i, b)
          BY <2>3, <3>1, <4>1, <4>2, EndedBegan
        <5>2. i \in Indices /\ b \in Indices /\ i < b
          BY <2>4, <3>1, <4>1
        <5>3. InsideOf(i, b)
          BY <4>1, <5>1, <5>2 DEF InsideOf, Exited, ExitedBy, IsEnter, Enter, Field, Before
        <5> QED BY <3>2, <5>1, <5>2, <5>3
      <4> QED BY <4>1, <4>2
    <3>7. CASE events[k].base = None
      <4>1. CASE \A j \in 1..(k - 1) : ~Before(events, j, k)
        BY <2>3, <3>1, <3>3, <3>7, <4>1, Standing DEF InnermostBefore
      <4>2. CASE \E j \in 1..(k - 1) : Before(events, j, k)
        <5>1. PICK j \in 1..(k - 1) : Before(events, j, k)
          BY <4>2
        <5>2. j \in Indices
          BY <2>4, <3>1
        <5>3. CASE events[k].kind \in {"identifier", "enterIndex", "paren"}
          <6>1. Begins(events[k])
            BY <3>1, <3>7, <5>3 DEF Begins
          <6>2. events[k].node = 0
            BY <3>4, <5>3 DEF EventOK
          <6>3. InsideOf(j, k)
            BY <2>3, <3>1, <5>1, <5>2, <6>2, InsideIsBefore
          <6> QED BY <3>1, <3>2, <5>2, <6>1, <6>3
        <5>4. CASE events[k].kind = "exitIndex"
          <6> PICK i : i = events[k].node
            OBVIOUS
          <6>1. /\ i \in 1..(k - 1) /\ events[i].kind = "enterIndex" /\ events[i].field
                /\ events[i].base = None
                /\ \A a \in 1..(k - 1) : Enter(events[a]) /\ ~ExitedBy(events, a, k - 1) => a <= i
            BY <3>1, <3>4, <3>7, <5>4 DEF EventOK
          <6>2. Begins(events[i]) /\ i \in Indices
            BY <2>4, <3>1, <6>1 DEF Begins
          <6>3. j <= i /\ j # i
            BY <5>1, <6>1 DEF Before
          <6>4. ~ExitedBy(events, j, i)
            <7>1. \A x \in 1..i : x \in 1..(k - 1)
              BY <3>1, <6>1
            <7> QED BY <5>1, <7>1 DEF Before, ExitedBy
          <6>5. InsideOf(j, i)
            <7>1. j < i
              BY <3>1, <6>1, <6>3
            <7> QED BY <5>1, <6>4, <7>1 DEF InsideOf, Exited, ExitedBy, IsEnter, Enter, Field, Before
          <6> QED BY <3>2, <5>2, <6>2, <6>5
        <5>5. CASE events[k].kind = "enterCall"
          <6>1. events[k].base \in Structs
            BY <2>3, <3>1, <5>5, BaseIsStruct DEF Enter
          <6> QED BY <3>7, <6>1 DEF Structs, None
        <5>6. CASE events[k].kind \in {"exitCall", "literal", "variable", "postfixVariable",
                                       "prefix", "postfix"}
          <6>1. FieldOut(events[k])
            BY <3>1, <5>6 DEF FieldOut, Enter
          <6>2. events[k].kind = "exitCall"
            BY <3>4, <5>6, <6>1 DEF EventOK
          <6>3. events[k].base \in Structs
            BY <3>1, <3>4, <6>2 DEF EventOK
          <6> QED BY <3>7, <6>3 DEF Structs, None
        <5>7. events[k].kind \in Kinds
          BY <2>3, <3>1, EventIs
        <5> QED BY <5>3, <5>4, <5>5, <5>6, <5>7 DEF Kinds
      <4> QED BY <4>1, <4>2
    <3> QED BY <3>5, <3>6, <3>7
  <2> QED BY <2>5, <2>6
<1> QED BY <1>1, AccessInvHolds, PTL

\* The statements that pass the type checker and end the generator by an
\* exception, or a null pointer, are exactly those with an event that is named:
\* none is lost on a nesting that only a longer statement reaches.
THEOREM AbortsNamed == Spec => []AbortsAreNamed
<1>1. AccessInv => AbortsAreNamed
  <2> DEFINE Named(i) == \/ events[i].arrow
                         \/ events[i].kind = "prefix" /\ events[i].name = None
                         \/ MemberOfArray(i) /\ ~(events[i].target /\ events[i].last)
                         \/ CannotBegin(i)
  <2> SUFFICES ASSUME AccessInv, phase \in {"aborted", "done"}, NothingMisread
               PROVE  phase = "aborted" <=> \E i \in Indices : Named(i)
    BY DEF AbortsAreNamed, NothingMisread
  <2>1. /\ Shapes /\ Walk(events, open, value) /\ Generated
    BY DEF AccessInv
  <2>2. /\ Len(open) = 1 /\ next \in 1..(Len(events) + 1)
        /\ phase = "done" => next = Len(events) + 1
        /\ phase = "aborted" => next > 1
    BY <2>1 DEF Shapes, IsRoot
  <2>3. Settled(events)
    BY <2>1, <2>2, Complete
  <2>4. events \in Seq(EventSet) /\ Len(events) \in Nat /\ Indices = 1..Len(events)
    BY <2>3, SettledIs DEF Indices
  <2>5. phase = "aborted" <=> \E k \in Indices : Doomed(k)
    <3>1. CASE phase = "aborted"
      <4>1. Doomed(next - 1)
        BY <2>1, <3>1 DEF Generated
      <4>2. next - 1 \in Indices
        BY <2>2, <2>4, <3>1
      <4> QED BY <3>1, <4>1, <4>2
    <3>2. CASE phase = "done"
      <4>1. \A k \in 1..(next - 1) : ~Doomed(k)
        BY <2>1, <3>2 DEF Generated
      <4>2. next - 1 = Len(events)
        BY <2>2, <2>4, <3>2
      <4> QED BY <2>4, <3>2, <4>1, <4>2
    <3> QED BY <3>1, <3>2
  <2>6. ASSUME NEW k \in Indices, Doomed(k)
        PROVE  \E i \in Indices : Named(i)
    <3>1. CASE Refused(k)
      BY <3>1 DEF Refused, CannotBegin
    <3>2. CASE LateCall(k)
      <4>1. PICK i \in Indices : First(i) /\ InsideOf(events[k].node, i)
        BY <3>2 DEF LateCall
      <4> PICK j : j = events[k].node
        OBVIOUS
      <4>2. EventOK(events, k) /\ events[k].kind = "exitCall" /\ events[k].name = "get" /\ ~where.method
        BY <2>3, <3>2, EventIs DEF LateCall
      <4>3. /\ j \in 1..(k - 1) /\ events[j].kind = "enterCall" /\ events[j].name = "get"
        BY <4>2 DEF EventOK
      <4>4. j \in Indices
        BY <2>4, <4>3
      <4>5. CannotBegin(i)
        BY <4>1, <4>2, <4>3, <4>4 DEF CannotBegin
      <4> QED BY <4>5
    <3> QED BY <2>6, <3>1, <3>2 DEF Doomed
  <2>7. ASSUME NEW i \in Indices, Named(i)
        PROVE  \E k \in Indices : Doomed(k)
    <3>1. CASE CannotBegin(i)
      <4>1. PICK j \in Indices :
              \/ Innermost(j, i) /\ (IF events[i].kind = "paren"
                                     THEN \A m \in j..i : ~events[m].last
                                     ELSE events[i].name \notin DOMAIN Fields[events[j].base])
              \/ InsideOf(j, i) /\ events[j].kind = "enterCall" /\ events[j].name = "get" /\ ~where.method
        BY <3>1 DEF CannotBegin
      <4>2. First(i)
        BY <3>1 DEF CannotBegin
      <4>3. CASE Innermost(j, i) /\ (IF events[i].kind = "paren"
                                     THEN \A m \in j..i : ~events[m].last
                                     ELSE events[i].name \notin DOMAIN Fields[events[j].base])
        <5>1. Refused(i)
          BY <4>2, <4>3 DEF Refused
        <5> QED BY <5>1 DEF Doomed
      <4>4. CASE InsideOf(j, i) /\ events[j].kind = "enterCall" /\ events[j].name = "get" /\ ~where.method
        <5>1. PICK x \in Indices : Exits(events, j, x)
          BY <2>3, <4>4 DEF Settled, Enter, Indices
        <5>2. events[x].kind = "exitCall" /\ events[x].name = "get" /\ events[x].node = j
          BY <4>4, <5>1 DEF Exits
        <5>3. LateCall(x)
          BY <4>2, <4>4, <5>2 DEF LateCall
        <5> QED BY <5>3 DEF Doomed
      <4> QED BY <4>1, <4>3, <4>4
    <3> QED BY <2>7, <3>1 DEF Doomed
  <2> HIDE DEF Named
  <2> QED BY <2>5, <2>6, <2>7
<1> QED BY <1>1, AccessInvHolds, PTL

=============================================================================
