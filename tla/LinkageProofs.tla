---------------------------- MODULE LinkageProofs ----------------------------
(***************************************************************************)
(* Proofs about Linkage.                                                   *)
(***************************************************************************)
EXTENDS LinkageProps, FiniteSetTheorems, SequenceTheorems, WellFoundedInduction, TLAPS

-----------------------------------------------------------------------------
(* Arrangements of a finite set of indices.                                 *)

\* Every nonempty set of naturals has a least element.
LEMMA LeastExists ==
  ASSUME NEW S \in SUBSET Nat, S # {}
  PROVE  \E m \in S : \A s \in S : m <= s
<1> DEFINE R == OpToRel(<, Nat)
<1>1. IsWellFoundedOn(R, Nat)
  BY NatLessThanWellFounded
<1>2. \A i, j \in Nat : i < j => <<i, j>> \in R
  BY DEF OpToRel
<1>3. \E x \in S : \A y \in S : ~ (<<y, x>> \in R)
  <2> HIDE DEF R
  <2> QED BY <1>1, WFMin
<1> HIDE DEF R
<1>4. PICK x \in S : \A y \in S : ~ (<<y, x>> \in R)
  BY <1>3
<1>5. \A y \in S : ~ (y < x)
  BY <1>2, <1>4
<1> QED BY <1>5

Increasing(ks) == \A m, n \in DOMAIN ks : m < n => ks[m] < ks[n]

\* Adding a smaller index in front of an arrangement in order keeps it one.
LEMMA SortedByLeast ==
  ASSUME NEW S \in SUBSET Nat, IsFiniteSet(S), NEW x \in S, \A s \in S : x <= s,
         NEW g \in SetToSeqs(S \ {x}), Increasing(g)
  PROVE  \E f \in SetToSeqs(S) : Increasing(f)
<1> DEFINE c == Cardinality(S)
           f == [n \in 1..c |-> IF n = 1 THEN x ELSE g[n - 1]]
<1>1. c \in Nat /\ c >= 1 /\ Cardinality(S \ {x}) = c - 1
  <2>1. c \in Nat /\ Cardinality(S \ {x}) = c - 1
    BY FS_RemoveElement, FS_CardinalityType
  <2>2. c # 0
    BY FS_EmptySet
  <2> QED BY <2>1, <2>2
<1>2. /\ g \in [1..(c - 1) -> S \ {x}]
      /\ \A i, j \in 1..(c - 1) : i # j => g[i] # g[j]
  BY <1>1 DEF SetToSeqs
<1>3. f \in [1..c -> S]
  BY <1>1, <1>2
<1>4. \A i, j \in 1..c : i # j => f[i] # f[j]
  BY <1>1, <1>2
<1>5. \A i, j \in 1..(c - 1) : i < j => g[i] < g[j]
  BY <1>2 DEF Increasing
<1>6. \A i, j \in 1..c : i < j => f[i] < f[j]
  <2> SUFFICES ASSUME NEW i \in 1..c, NEW j \in 1..c, i < j
               PROVE  f[i] < f[j]
    OBVIOUS
  <2>1. j - 1 \in 1..(c - 1) /\ f[j] = g[j - 1]
    BY <1>1
  <2>2. CASE i = 1
    <3>1. g[j - 1] \in S /\ g[j - 1] # x /\ x <= g[j - 1]
      BY <1>2, <2>1
    <3>2. f[i] = x
      BY <2>2
    <3>3. x \in Nat /\ g[j - 1] \in Nat
      BY <3>1
    <3>4. x < g[j - 1]
      BY <3>1, <3>3
    <3> QED BY <2>1, <3>2, <3>4
  <2>3. CASE i # 1
    <3>1. i - 1 \in 1..(c - 1) /\ f[i] = g[i - 1] /\ i - 1 < j - 1
      BY <1>1, <2>3
    <3> QED BY <1>5, <2>1, <3>1
  <2> QED BY <2>2, <2>3
<1> HIDE DEF f
<1>7. f \in SetToSeqs(S)
  BY <1>3, <1>4 DEF SetToSeqs
<1>8. Increasing(f)
  BY <1>3, <1>6 DEF Increasing
<1> QED BY <1>7, <1>8

\* InOrder is an arrangement, and in increasing order.
LEMMA InOrderIsSorted ==
  ASSUME NEW S \in SUBSET Nat, IsFiniteSet(S)
  PROVE  InOrder(S) \in SetToSeqs(S) /\ Increasing(InOrder(S))
<1> DEFINE Unsorted(A) == A \in SUBSET Nat /\ IsFiniteSet(A)
                            /\ ~ \E f \in SetToSeqs(A) : Increasing(f)
           Sizes == {n \in Nat : \E A \in SUBSET Nat : Unsorted(A) /\ Cardinality(A) = n}
<1>1. Sizes = {}
  <2> SUFFICES ASSUME Sizes # {} PROVE FALSE
    OBVIOUS
  <2>1. PICK n \in Sizes : \A m \in Sizes : n <= m
    BY LeastExists
  <2>2. PICK A \in SUBSET Nat : Unsorted(A) /\ Cardinality(A) = n
    BY <2>1
  <2>3. A # {}
    <3> SUFFICES ASSUME A = {} PROVE FALSE
      OBVIOUS
    <3>1. Cardinality(A) = 0
      BY FS_EmptySet
    <3>2. <<>> \in [1..Cardinality(A) -> A]
      BY <3>1
    <3>3. <<>> \in SetToSeqs(A)
      BY <3>1, <3>2 DEF SetToSeqs
    <3>4. Increasing(<<>>)
      BY DEF Increasing
    <3> QED BY <2>2, <3>3, <3>4
  <2>4. PICK x \in A : \A s \in A : x <= s
    BY <2>3, LeastExists
  <2>5. IsFiniteSet(A \ {x}) /\ Cardinality(A \ {x}) = n - 1 /\ n \in Nat
    BY <2>1, <2>2, <2>4, FS_RemoveElement
  <2>6. n - 1 \in Nat
    BY <2>5, FS_CardinalityType
  <2>7. n - 1 \notin Sizes
    BY <2>1, <2>5
  <2>8. ~ Unsorted(A \ {x})
    BY <2>5, <2>6, <2>7
  <2>9. PICK g \in SetToSeqs(A \ {x}) : Increasing(g)
    BY <2>5, <2>8
  <2> QED BY <2>2, <2>4, <2>9, SortedByLeast
<1>2. \E f \in SetToSeqs(S) : Increasing(f)
  BY <1>1, FS_CardinalityType
<1> QED BY <1>2 DEF InOrder, Increasing

\* An arrangement of a set is a bijection.
LEMMA ArrangementIsOnto ==
  ASSUME NEW S, IsFiniteSet(S), NEW f \in SetToSeqs(S)
  PROVE  /\ Cardinality(S) \in Nat
         /\ f \in [1..Cardinality(S) -> S]
         /\ \A i, j \in 1..Cardinality(S) : f[i] = f[j] => i = j
         /\ \A s \in S : \E n \in 1..Cardinality(S) : f[n] = s
<1> DEFINE c == Cardinality(S)
<1>1. c \in Nat
  BY FS_CardinalityType
<1>2. f \in [1..c -> S] /\ \A i, j \in 1..c : f[i] = f[j] => i = j
  BY DEF SetToSeqs
<1>3. f \in Injection(1..c, S)
  BY <1>2 DEF Injection, IsInjective
<1>4. Cardinality(1..c) = c
  BY <1>1, FS_Interval
<1>5. f \in Surjection(1..c, S)
  BY <1>3, <1>4, FS_Injection
<1> QED BY <1>1, <1>2, <1>5 DEF Surjection

\* Two arrangements of a set in the order of a key have the same keys.
LEMMA SameKeys ==
  ASSUME NEW S, IsFiniteSet(S), NEW f \in SetToSeqs(S), NEW g \in SetToSeqs(S),
         NEW key \in [S -> Nat],
         \A m, n \in DOMAIN f : m < n => key[f[m]] <= key[f[n]],
         \A m, n \in DOMAIN g : m < n => key[g[m]] <= key[g[n]],
         NEW p \in 1..Cardinality(S)
  PROVE  key[f[p]] >= key[g[p]]
<1> DEFINE c == Cardinality(S)
<1>1. /\ c \in Nat
      /\ f \in [1..c -> S] /\ g \in [1..c -> S]
      /\ \A i, j \in 1..c : f[i] = f[j] => i = j
      /\ \A s \in S : \E n \in 1..c : g[n] = s
  BY ArrangementIsOnto
<1> SUFFICES ASSUME key[f[p]] < key[g[p]] PROVE FALSE
  BY <1>1
<1> DEFINE h == [n \in 1..p |-> CHOOSE m \in 1..c : g[m] = f[n]]
<1>2. \A n \in 1..p : h[n] \in 1..c /\ g[h[n]] = f[n]
  <2> TAKE n \in 1..p
  <2>1. \E m \in 1..c : g[m] = f[n]
    BY <1>1, SMTT(30)
  <2> QED BY <2>1
<1> HIDE DEF h
<1>3. \A n \in 1..p : h[n] < p
  <2> SUFFICES ASSUME NEW n \in 1..p, h[n] >= p PROVE FALSE
    BY <1>1, <1>2
  <2>1. key[f[n]] <= key[f[p]]
    BY <1>1
  <2>2. key[g[p]] <= key[g[h[n]]]
    BY <1>1, <1>2
  <2>3. g[h[n]] = f[n]
    BY <1>2
  <2>4. key[f[n]] \in Nat /\ key[f[p]] \in Nat /\ key[g[p]] \in Nat
    <3>1. n \in 1..c /\ p \in 1..c
      BY <1>1
    <3>2. f[n] \in S /\ f[p] \in S /\ g[p] \in S
      BY <1>1, <3>1
    <3> QED BY <3>2
  <2> QED BY <2>1, <2>2, <2>3, <2>4
<1>4. h \in [1..p -> 1..(p - 1)]
  <2>1. h = [n \in 1..p |-> h[n]]
    BY DEF h
  <2>2. \A n \in 1..p : h[n] \in 1..(p - 1)
    BY <1>1, <1>2, <1>3
  <2> QED BY <2>1, <2>2
<1>5. \A i, j \in 1..p : h[i] = h[j] => i = j
  BY <1>1, <1>2
<1>6. Cardinality(1..(p - 1)) < Cardinality(1..p) /\ IsFiniteSet(1..p) /\ IsFiniteSet(1..(p - 1))
  <2>1. p \in Int /\ p - 1 \in Int /\ 1 \in Int /\ p >= 1
    BY <1>1
  <2>2. Cardinality(1..p) = p /\ IsFiniteSet(1..p)
    BY <2>1, FS_Interval
  <2>3. Cardinality(1..(p - 1)) = p - 1 /\ IsFiniteSet(1..(p - 1))
    <3> DEFINE q == p - 1
    <3>1. q \in Int /\ 1 \in Int /\ q - 1 + 1 = q /\ (1 > q => q = 0)
      BY <2>1
    <3> HIDE DEF q
    <3>2. Cardinality(1..q) = q /\ IsFiniteSet(1..q)
      BY <3>1, FS_Interval
    <3> QED BY <3>2 DEF q
  <2> QED BY <2>1, <2>2, <2>3
<1>7. \E i, j \in 1..p : i # j /\ h[i] = h[j]
  BY <1>4, <1>6, FS_PigeonHole
<1> QED BY <1>5, <1>7

\* An arrangement of 1..m in order is the identity.
LEMMA InOrderOfInterval ==
  ASSUME NEW m \in Nat, NEW p \in 1..m
  PROVE  InOrder(1..m)[p] = p
<1> DEFINE S == 1..m
           f == InOrder(S)
           id == [n \in 1..m |-> n]
           key == [n \in S |-> n]
<1>1. IsFiniteSet(S) /\ Cardinality(S) = m
  BY FS_Interval
<1>2. f \in SetToSeqs(S) /\ Increasing(f)
  BY <1>1, InOrderIsSorted
<1>3. id \in SetToSeqs(S)
  BY <1>1 DEF SetToSeqs
<1>4. key \in [S -> Nat]
  OBVIOUS
<1>5. f \in [1..m -> S] /\ DOMAIN f = 1..m
  BY <1>1, <1>2, ArrangementIsOnto
<1> HIDE DEF f
<1>6. \A i, j \in DOMAIN f : i < j => key[f[i]] <= key[f[j]]
  BY <1>2, <1>5 DEF Increasing
<1>7. \A i, j \in DOMAIN id : i < j => key[id[i]] <= key[id[j]]
  OBVIOUS
<1>8. p \in 1..Cardinality(S)
  BY <1>1
<1> HIDE DEF key, id, S
<1>9. key[f[p]] >= key[id[p]]
  BY <1>1, <1>2, <1>3, <1>4, <1>6, <1>7, <1>8, SameKeys
<1>10. key[id[p]] >= key[f[p]]
  BY <1>1, <1>2, <1>3, <1>4, <1>6, <1>7, <1>8, SameKeys
<1>11. key[f[p]] = f[p] /\ key[id[p]] = p /\ f[p] \in Nat
  BY <1>5 DEF key, id, S
<1> QED BY <1>9, <1>10, <1>11 DEF f, S

-----------------------------------------------------------------------------
(* Definitions, and the fields of a struct.                                 *)

FieldSet == [type : Types, private : BOOLEAN, beside : BOOLEAN, computed : BOOLEAN]

\* The words of names, and of the names they are mangled to.
Words == STRING \cup Types \cup {""}

DefinitionSet ==
  [kind : {"fn", "struct", "global"}, name : Seq(Words), params : Seq(Types),
   hides : Seq(Words), call : [name : Seq(Words), args : Seq(Types)],
   fields : Seq(FieldSet)]

\* A name is not empty, only functions hide and call, and the parameters of a
\* struct are the types of its public fields in order.
WellMade(d) ==
  /\ d.name # NoName
  /\ d.call # NoCall => d.call.name # NoName
  /\ d.kind # "fn" => d.hides = NoName /\ d.call = NoCall
  /\ d.kind = "struct" =>
       LET public == InOrder(PublicIndices(d.fields)) IN
       d.params = [n \in DOMAIN public |-> d.fields[public[n]].type]

ProgramInv ==
  /\ program \in Seq(DefinitionSet)
  /\ \A i \in DOMAIN program : WellMade(program[i])

\* The public fields are finitely many indices of the fields.
LEMMA PublicFieldsAreIndices ==
  ASSUME ProgramInv, NEW i \in DOMAIN program
  PROVE  /\ PublicFields(i) \in SUBSET Nat /\ IsFiniteSet(PublicFields(i))
         /\ program[i].fields \in Seq(FieldSet)
         /\ PublicFields(i) \subseteq 1..Len(program[i].fields)
         /\ PublicFields(i) \subseteq DOMAIN program[i].fields
<1>1. program[i].fields \in Seq(FieldSet)
  <2>1. program[i] \in DefinitionSet
    BY DEF ProgramInv
  <2> QED BY <2>1 DEF DefinitionSet
<1>2. PublicFields(i) \subseteq 1..Len(program[i].fields) /\ Len(program[i].fields) \in Nat
        /\ DOMAIN program[i].fields = 1..Len(program[i].fields)
  BY <1>1 DEF PublicFields, PublicIndices
<1>3. IsFiniteSet(1..Len(program[i].fields))
  BY <1>2, FS_Interval
<1>4. IsFiniteSet(PublicFields(i))
  BY <1>2, <1>3, FS_Subset
<1> QED BY <1>1, <1>2, <1>4

\* A field stands on a line that is not above the lines of those before it.
LEMMA LinesGrow ==
  ASSUME NEW i, NEW j \in Nat, NEW k \in Nat, j <= k
  PROVE  Line(i, j) \in Nat /\ Line(i, k) \in Nat /\ Line(i, j) <= Line(i, k)
<1> DEFINE A(m) == {n \in 1..m : ~program[i].fields[n].beside}
<1>1. IsFiniteSet(1..k)
  BY FS_Interval
<1>2. A(k) \subseteq 1..k /\ A(j) \subseteq A(k)
  OBVIOUS
<1>3. IsFiniteSet(A(k))
  BY <1>1, <1>2, FS_Subset
<1>4. IsFiniteSet(A(j)) /\ Cardinality(A(j)) <= Cardinality(A(k))
  BY <1>2, <1>3, FS_Subset
<1> QED BY <1>3, <1>4, FS_CardinalityType DEF Line

\* Declared order is one of the orders by line.
LEMMA InOrderIsByLine ==
  ASSUME ProgramInv, NEW i \in DOMAIN program
  PROVE  InOrder(PublicFields(i)) \in ByLine(i)
<1> DEFINE S == PublicFields(i)
           f == InOrder(S)
<1>1. S \in SUBSET Nat /\ IsFiniteSet(S)
  BY PublicFieldsAreIndices
<1>2. f \in SetToSeqs(S) /\ Increasing(f)
  BY <1>1, InOrderIsSorted
<1>3. f \in [1..Cardinality(S) -> S]
  BY <1>1, <1>2, ArrangementIsOnto
<1> HIDE DEF f, S
<1>4. ASSUME NEW m \in DOMAIN f, NEW n \in DOMAIN f, m < n
      PROVE  Line(i, f[m]) <= Line(i, f[n])
  <2>1. f[m] \in Nat /\ f[n] \in Nat
    BY <1>1, <1>3, <1>4
  <2>2. f[m] < f[n]
    BY <1>2, <1>4 DEF Increasing
  <2>3. f[m] <= f[n]
    BY <2>1, <2>2
  <2> QED BY <2>1, <2>3, LinesGrow
<1> QED BY <1>2, <1>4 DEF ByLine, f, S

\* Whatever order the fields come in, their types come in the declared order
\* if no line has fields of different types.
LEMMA UncrowdedTypes ==
  ASSUME ProgramInv, NEW i \in Structs, NEW ks \in ByLine(i), ~Crowded(i)
  PROVE  FieldTypes(i, ks) = program[i].params
<1> DEFINE S == PublicFields(i)
           f == InOrder(S)
           c == Cardinality(S)
           key == [k \in S |-> Line(i, k)]
<1>1. i \in DOMAIN program /\ program[i].kind = "struct"
  BY DEF Structs, OfKind
<1>2. S \in SUBSET Nat /\ IsFiniteSet(S)
  BY <1>1, PublicFieldsAreIndices
<1>3. f \in ByLine(i)
  BY <1>1, InOrderIsByLine
<1>4. f \in SetToSeqs(S) /\ ks \in SetToSeqs(S)
  BY <1>3 DEF ByLine
<1>5. c \in Nat /\ f \in [1..c -> S] /\ ks \in [1..c -> S]
  BY <1>2, <1>4, ArrangementIsOnto
<1>6. key \in [S -> Nat]
  BY <1>2, LinesGrow
<1> HIDE DEF f, S, c
<1>7. /\ \A m, n \in DOMAIN f : m < n => key[f[m]] <= key[f[n]]
      /\ \A m, n \in DOMAIN ks : m < n => key[ks[m]] <= key[ks[n]]
  BY <1>3, <1>5 DEF ByLine
<1>8. \A p \in 1..c : Line(i, f[p]) = Line(i, ks[p])
  <2> TAKE p \in 1..c
  <2>1. p \in 1..Cardinality(S)
    BY DEF c
  <2>2. key[f[p]] = Line(i, f[p]) /\ key[ks[p]] = Line(i, ks[p])
    BY <1>5
  <2>3. key[f[p]] \in Nat /\ key[ks[p]] \in Nat
    BY <1>5, <1>6
  <2> HIDE DEF key
  <2>4. key[f[p]] >= key[ks[p]]
    BY <1>2, <1>4, <1>6, <1>7, <2>1, SameKeys
  <2>5. key[ks[p]] >= key[f[p]]
    BY <1>2, <1>4, <1>6, <1>7, <2>1, SameKeys
  <2> QED BY <2>2, <2>3, <2>4, <2>5
<1>9. \A p \in 1..c : program[i].fields[f[p]].type = program[i].fields[ks[p]].type
  BY <1>5, <1>8 DEF Crowded, S
<1>10. program[i].params = [n \in DOMAIN f |-> program[i].fields[f[n]].type]
  BY <1>1 DEF ProgramInv, WellMade, f, S, PublicFields
<1> QED BY <1>5, <1>9, <1>10 DEF FieldTypes

\* Of a struct whose private fields come last, the public ones are the first.
LEMMA PublicFirst ==
  ASSUME ProgramInv, NEW i \in Structs, ~PrivateFirst(i)
  PROVE  \E m \in Nat : PublicFields(i) = 1..m
<1> DEFINE S == PublicFields(i)
           n == Len(program[i].fields)
           T == (1..(n + 1)) \ S
<1>1. i \in DOMAIN program
  BY DEF Structs, OfKind
<1>2. S \subseteq 1..n /\ n \in Nat
  BY <1>1, PublicFieldsAreIndices
<1> HIDE DEF n
<1>3. \A k \in S : \A j \in 1..(k - 1) : j \in S
  BY DEF PrivateFirst
<1> HIDE DEF S
<1>4. T \in SUBSET Nat /\ n + 1 \in T
  BY <1>2
<1>5. PICK t \in T : \A s \in T : t <= s
  BY <1>4, LeastExists
<1>6. S = 1..(t - 1) /\ t - 1 \in Nat
  <2>1. t \in 1..(n + 1) /\ t \notin S
    OBVIOUS
  <2>2. \A k \in 1..(t - 1) : k \in S
    BY <1>2, <1>5, <2>1
  <2>3. \A k \in S : k < t
    BY <1>2, <1>3, <2>1
  <2>4. \A k : k \in S => k \in 1..(t - 1)
    BY <1>2, <2>1, <2>3
  <2>5. t - 1 \in Nat
    BY <1>2, <2>1
  <2> QED BY <2>2, <2>4, <2>5
<1> QED BY <1>6 DEF S

\* And its constructor stores each argument where it belongs.
LEMMA StoresAreRight ==
  ASSUME ProgramInv, NEW i \in Structs, ~PrivateFirst(i)
  PROVE  Stores(i) = RightStores(i)
<1>1. PICK m \in Nat : PublicFields(i) = 1..m
  BY PublicFirst
<1> DEFINE f == InOrder(1..m)
<1>2. IsFiniteSet(1..m) /\ Cardinality(1..m) = m
  BY FS_Interval
<1>3. f \in [1..m -> 1..m]
  <2>1. 1..m \in SUBSET Nat
    OBVIOUS
  <2>2. f \in SetToSeqs(1..m)
    BY <1>2, <2>1, InOrderIsSorted
  <2> QED BY <1>2, <2>2, ArrangementIsOnto
<1>4. \A p \in 1..m : f[p] = p
  BY InOrderOfInterval
<1> HIDE DEF f
<1>5. DOMAIN f = 1..m
  BY <1>3
<1>6. [n \in DOMAIN f |-> <<"put", f[n], f[n]>>] = [n \in DOMAIN f |-> <<"put", f[n], n>>]
  BY <1>4, <1>5
<1> QED BY <1>1, <1>6 DEF Stores, RightStores, f

-----------------------------------------------------------------------------
(* Mangled names.                                                           *)

\* A word makes a sequence of one.
LEMMA OneElement ==
  ASSUME NEW S, NEW x \in S
  PROVE  <<x>> \in Seq(S) /\ Len(<<x>>) = 1
OBVIOUS

\* A mangled name is longer than the name by the types and one more word.
LEMMA MangledShape ==
  ASSUME NEW name \in Seq(Words), NEW params \in Seq(Types)
  PROVE  /\ Mangled(name, params) \in Seq(Words)
         /\ Len(Mangled(name, params)) = Len(name) + Len(params) + 1
         /\ Mangled(name, params) # name
         /\ name # NoName => \A w : Mangled(name, params) # Word(w)
<1>1. params \in Seq(Words)
  <2>1. Types \subseteq Words
    BY DEF Words
  <2> QED BY <2>1, SeqMonotonic
<1>2. <<"">> \in Seq(Words) /\ Len(<<"">>) = 1
  <2>1. "" \in Words
    BY DEF Words
  <2> QED BY <2>1, OneElement
<1>3. name \o params \in Seq(Words) /\ Len(name \o params) = Len(name) + Len(params)
  BY <1>1
<1>4. /\ Mangled(name, params) \in Seq(Words)
      /\ Len(Mangled(name, params)) = Len(name) + Len(params) + 1
  <2> DEFINE n == name \o params
             e == <<"">>
  <2>1. n \in Seq(Words) /\ e \in Seq(Words) /\ Mangled(name, params) = n \o e
    BY <1>2, <1>3 DEF Mangled
  <2> HIDE DEF n, e
  <2>2. Mangled(name, params) \in Seq(Words) /\ Len(Mangled(name, params)) = Len(n) + Len(e)
    BY <2>1
  <2> QED BY <1>2, <1>3, <2>2 DEF n, e
<1>5. Len(name) \in Nat /\ Len(params) \in Nat
  OBVIOUS
<1>6. Mangled(name, params) # name
  BY <1>4, <1>5
<1>7. ASSUME name # NoName, NEW w
      PROVE  Mangled(name, params) # Word(w)
  <2>1. Len(name) # 0
    BY <1>7, EmptySeq DEF NoName
  <2>2. Len(Word(w)) = 1
    BY DEF Word
  <2> QED BY <1>4, <1>5, <2>1, <2>2
<1> QED BY <1>4, <1>6, <1>7

\* Of one name, functions of different types have different mangled names.
LEMMA MangledApart ==
  ASSUME NEW name \in Seq(Words), NEW p \in Seq(Types), NEW q \in Seq(Types),
         Mangled(name, p) = Mangled(name, q)
  PROVE  p = q
<1>1. Len(p) = Len(q)
  <2>1. Len(name) \in Nat /\ Len(p) \in Nat /\ Len(q) \in Nat
    OBVIOUS
  <2> QED BY <2>1, MangledShape
<1>2. ASSUME NEW k \in 1..Len(p)
      PROVE  p[k] = q[k]
  <2> DEFINE n == Len(name) + k
  <2>1. p \in Seq(Words) /\ q \in Seq(Words)
    <3>1. Types \subseteq Words
      BY DEF Words
    <3> QED BY <3>1, SeqMonotonic
  <2>2. Len(name) \in Nat /\ Len(p) \in Nat /\ k \in Nat
    OBVIOUS
  <2>3. (name \o p)[n] = p[k] /\ (name \o q)[n] = q[k]
    BY <1>1, <2>1, <2>2
  <2>4. /\ name \o p \in Seq(Words) /\ Len(name \o p) = Len(name) + Len(p)
        /\ name \o q \in Seq(Words) /\ Len(name \o q) = Len(name) + Len(q)
    BY <2>1
  <2>5. n \in 1..Len(name \o p) /\ n \in 1..Len(name \o q)
    BY <1>1, <2>2, <2>4
  <2> HIDE DEF n
  <2>6. Mangled(name, p)[n] = (name \o p)[n] /\ Mangled(name, q)[n] = (name \o q)[n]
    <3> DEFINE np == name \o p
               nq == name \o q
               e == <<"">>
    <3>1. e \in Seq(Words)
      <4>1. "" \in Words
        BY DEF Words
      <4> QED BY <4>1, OneElement
    <3>2. np \in Seq(Words) /\ nq \in Seq(Words) /\ n \in 1..Len(np) /\ n \in 1..Len(nq)
      BY <2>4, <2>5
    <3>3. Mangled(name, p) = np \o e /\ Mangled(name, q) = nq \o e
      BY DEF Mangled
    <3> HIDE DEF np, nq, e
    <3>4. (np \o e)[n] = np[n] /\ (nq \o e)[n] = nq[n]
      BY <3>1, <3>2
    <3> QED BY <3>3, <3>4 DEF np, nq
  <2> QED BY <2>3, <2>6
<1> QED BY <1>1, <1>2, SeqEqual

-----------------------------------------------------------------------------
(* The inductive invariant.                                                 *)

\* What is left to visit belongs to the pass.
TodoInv ==
  /\ phase \in Phases
  /\ todo \subseteq DOMAIN program
  /\ phase = "collecting" => todo = {}
  /\ phase = "constructors" => todo \subseteq Structs
  /\ phase = "checking" => todo \subseteq Callers
  /\ phase = "generating" => todo \subseteq Functions \cup Structs
  /\ phase \in {"writing", "done"} => todo = {}

\* The structs that have a constructor are those visited so far.
ParametersInv ==
  /\ DOMAIN parameters \subseteq Structs
  /\ \A i \in DOMAIN parameters : parameters[i] \in ByLine(i)
  /\ phase = "collecting" => DOMAIN parameters = {}
  /\ phase = "constructors" => DOMAIN parameters = Structs \ todo
  /\ phase \in {"checking", "generating", "writing", "done"} =>
       DOMAIN parameters = Structs

Globals == OfKind("global")

ConstructorName(i, ks) == Mangled(program[i].name, FieldTypes(i, ks))

\* What a name of the program scope may stand for.
StandsFor(n, s) ==
  \/ \E i \in Functions : s = <<"fn", i>> /\ n = Mangling(i)
  \/ \E i \in Structs : s = <<"struct", i>> /\ n = program[i].name
  \/ \E i \in Globals : s = <<"global", i>> /\ n = program[i].name
  \/ \E i \in DOMAIN parameters :
       s = <<"ctor", i>> /\ \E ks \in ByLine(i) : n = ConstructorName(i, ks)

SymbolsInv == \A n \in DOMAIN symbols : StandsFor(n, symbols[n])

Stored(n, s) == n \in DOMAIN symbols /\ symbols[n] = s

\* An overload of a name is a function or a constructor of that name, stored
\* under its mangled name too.
IsOverload(n, s) ==
  \/ \E i \in Functions :
       s = <<"fn", i>> /\ n = program[i].name /\ Stored(Mangling(i), s)
  \/ \E i \in DOMAIN parameters :
       /\ s = <<"ctor", i>> /\ n = program[i].name
       /\ \E ks \in ByLine(i) : Stored(ConstructorName(i, ks), s)

\* Overloads come in the order of the text, constructors after functions.
Precedes(s, t) == t[1] = "ctor" \/ (s[1] = "fn" /\ t[1] = "fn" /\ s[2] < t[2])

Arranged(list) ==
  /\ list \in Seq({"fn", "ctor"} \X Nat)
  /\ \A k, m \in DOMAIN list : k < m => Precedes(list[k], list[m])

OverloadsInv ==
  \A n \in DOMAIN overloads :
    /\ Arranged(overloads[n]) /\ overloads[n] # <<>>
    /\ \A k \in DOMAIN overloads[n] : IsOverload(n, overloads[n][k])

Overloaded(n, s) ==
  n \in DOMAIN overloads /\ \E k \in DOMAIN overloads[n] : overloads[n][k] = s

\* Everything collected can be found.
RegisteredInv ==
  phase \notin {"rejected", "aborted"} =>
    /\ \A i \in Functions : Overloaded(program[i].name, <<"fn", i>>)
    /\ \A i \in Structs : Stored(program[i].name, <<"struct", i>>)
    /\ \A i \in Globals : Stored(program[i].name, <<"global", i>>)
    /\ \A i \in DOMAIN parameters : Overloaded(program[i].name, <<"ctor", i>>)

NamesInv ==
  /\ TodoInv /\ ProgramInv /\ ParametersInv
  /\ SymbolsInv /\ OverloadsInv /\ RegisteredInv

\* A checked call was resolved to a function of its name, and checked with
\* that function's parameters or, of a constructor, in the order of its lines.
ResolvedTo(i) ==
  LET s == resolved[i].symbol
      candidates == Candidates(program[i].call.name)
  IN
  /\ \E k \in DOMAIN candidates : s = candidates[k]
  /\ s[1] = "ctor" => \E ks \in ByLine(s[2]) : resolved[i].params = FieldTypes(s[2], ks)
  /\ s[1] # "ctor" => resolved[i].params = ParamsOf(s)

ResolvedInv ==
  phase \in {"checking", "generating", "writing", "done"} =>
    /\ DOMAIN resolved = DOMAIN program
    /\ \A i \in Callers : (phase = "checking" => i \notin todo) => ResolvedTo(i)

\* The symbol that function i finds for its own name, which its body goes to.
Current(i) == ResolveIn(i, program[i].name)

Generating == phase \in {"generating", "writing", "done"}

\* What has been generated was found.
FoundInv ==
  Generating =>
    /\ \A i \in Functions \ todo :
         /\ IsFunction(Current(i))
         /\ Calls(program[i]) => IsFunction(CalledFunction(i))
    /\ \A i \in Structs \ todo : ~Computed(i) /\ parameters[i] = InOrder(PublicFields(i))

\* Each method is that of one function, and each function has one.
MethodsInv ==
  Generating =>
    /\ methods \in Seq(Symbols)
    /\ \E order \in [DOMAIN methods -> Functions \ todo] :
         /\ \A k, m \in DOMAIN methods : order[k] = order[m] => k = m
         /\ \A i \in Functions \ todo : \E k \in DOMAIN methods : order[k] = i
         /\ \A k \in DOMAIN methods : methods[k] = Current(order[k])

Instructions ==
  ({"body"} \X Nat) \cup ({"put"} \X Nat \X Nat)
    \cup {<<"call", CalledFunction(i)>> : i \in Callers \ todo}

Occurs(instr, instrs) == \E k \in DOMAIN instrs : instrs[k] = instr

\* A body is in the code of the symbol found, and alone there unless the
\* symbol is another's as well.
CodeInv ==
  Generating =>
    /\ \A s \in DOMAIN code : code[s] \in Seq(Instructions)
    /\ \A i \in Functions \ todo :
         /\ Current(i) \in DOMAIN code
         /\ Occurs(<<"body", i>>, code[Current(i)])
         /\ Calls(program[i]) => Occurs(<<"call", CalledFunction(i)>>, code[Current(i)])
         /\ Current(i)[1] # "ctor"
              /\ (\A j \in Functions \ todo : Current(j) = Current(i) => j = i)
              => code[Current(i)] = Body(i)
    /\ \A i \in Structs \ todo :
         /\ <<"ctor", i>> \in DOMAIN code
         /\ (\A j \in Functions \ todo : Current(j) # <<"ctor", i>>)
              => code[<<"ctor", i>>] = Stores(i)
    /\ \A s \in DOMAIN code :
         \/ \E i \in Functions \ todo : s = Current(i)
         \/ \E i \in Structs \ todo : s = <<"ctor", i>>

MethodsHaveCode ==
  \A k \in DOMAIN methods : IsFunction(methods[k]) /\ methods[k] \in DOMAIN code

NothingGenerated ==
  phase \in {"collecting", "constructors", "checking", "rejected"} =>
    methods = <<>> /\ code = <<>>

GenerationInv ==
  FoundInv /\ MethodsInv /\ CodeInv /\ MethodsHaveCode /\ NothingGenerated

-----------------------------------------------------------------------------
(* The names: every step keeps NamesInv.                                    *)

\* Nothing is named at first.
LEMMA InitNames == Init => NamesInv
<1> SUFFICES ASSUME Init PROVE NamesInv
  OBVIOUS
<1>1. DOMAIN program = {} /\ DOMAIN symbols = {} /\ DOMAIN overloads = {} /\ DOMAIN parameters = {}
  BY DEF Init
<1>2. TodoInv
  BY DEF Init, TodoInv, Phases
<1>3. ProgramInv
  BY <1>1 DEF Init, ProgramInv
<1>4. ParametersInv
  BY <1>1 DEF Init, ParametersInv
<1>5. SymbolsInv /\ OverloadsInv
  BY <1>1 DEF SymbolsInv, OverloadsInv
<1>6. RegisteredInv
  BY <1>1 DEF RegisteredInv, Functions, Structs, Globals, OfKind
<1> QED BY <1>2, <1>3, <1>4, <1>5, <1>6 DEF NamesInv

\* What may be collected next is well made.
LEMMA DefinitionsAreWellMade ==
  ASSUME NEW d \in Definitions
  PROVE  d \in DefinitionSet /\ WellMade(d)
<1> DEFINE
      calls(family) == family.calls \cup {NoCall}
      called(family) == (IF Cardinality(Callers) < family.callers
                         THEN family.calls ELSE {}) \cup {NoCall}
      hidden(family) ==
        IF Cardinality({i \in DOMAIN program : Hides(program[i])}) < family.hiders
        THEN family.names ELSE {}
      plain(family) == {Fn(n, p, NoName, c) : n \in family.names, p \in family.params,
                                             c \in called(family)}
      hiding(family) == {Fn(n, p, h, c) : n \in family.names,
                                         p \in family.params \ {<<>>},
                                         h \in hidden(family), c \in called(family)}
      structs(family) ==
        IF Cardinality(OfKind("struct")) < family.structs
        THEN {Struct(n, fs) : n \in family.names, fs \in family.fields} ELSE {}
      globals(family) == {Global(n) : n \in family.names}
<1>1. PICK family \in Families :
        d \in plain(family) \cup hiding(family) \cup structs(family) \cup globals(family)
  BY DEF Definitions
<1>2. \/ \E n \in family.names, p \in family.params, h \in family.names \cup {NoName},
             c \in calls(family) : d = Fn(n, p, h, c)
      \/ \E n \in family.names, fs \in family.fields : d = Struct(n, fs)
      \/ \E n \in family.names : d = Global(n)
  <2>1. CASE d \in plain(family)
    BY <2>1
  <2>2. CASE d \in hiding(family)
    <3>1. PICK n \in family.names, p \in family.params, h \in hidden(family), c \in called(family) :
            d = Fn(n, p, h, c)
      BY <2>2
    <3>2. h \in family.names \cup {NoName} /\ c \in calls(family)
      OBVIOUS
    <3> QED BY <3>1, <3>2
  <2>3. CASE d \in structs(family)
    BY <2>3
  <2>4. CASE d \in globals(family)
    BY <2>4
  <2> QED BY <1>1, <2>1, <2>2, <2>3, <2>4
<1>3. /\ \A n \in family.names : n \in Seq(Words) /\ n # NoName
      /\ \A p \in family.params : p \in Seq(Types)
      /\ \A c \in family.calls : c \in [name : Seq(Words), args : Seq(Types)] /\ c.name # NoName
      /\ \A fs \in family.fields : fs \in Seq(FieldSet)
  <2>1. Seq(STRING) \subseteq Seq(Words)
    <3>1. STRING \subseteq Words
      BY DEF Words
    <3> QED BY <3>1, SeqMonotonic
  <2> QED BY <2>1, FamiliesAssumption DEF FieldSet
<1>4. NoName \in Seq(Words) /\ <<>> \in Seq(Types) /\ <<>> \in Seq(FieldSet)
  BY DEF NoName
<1>5. NoCall \in [name : Seq(Words), args : Seq(Types)]
  BY <1>4 DEF NoCall
<1>6. CASE \E n \in family.names, p \in family.params, h \in family.names \cup {NoName},
             c \in calls(family) : d = Fn(n, p, h, c)
  <2>1. PICK n \in family.names, p \in family.params, h \in family.names \cup {NoName},
             c \in calls(family) : d = Fn(n, p, h, c)
    BY <1>6
  <2>2. h \in Seq(Words) /\ c \in [name : Seq(Words), args : Seq(Types)]
          /\ (c # NoCall => c.name # NoName)
    BY <1>3, <1>4, <1>5
  <2> QED BY <1>3, <1>4, <2>1, <2>2 DEF Fn, DefinitionSet, WellMade
<1>7. CASE \E n \in family.names, fs \in family.fields : d = Struct(n, fs)
  <2>1. PICK n \in family.names, fs \in family.fields : d = Struct(n, fs)
    BY <1>7
  <2> DEFINE S == PublicIndices(fs)
             public == InOrder(S)
             types == [m \in DOMAIN public |-> fs[public[m]].type]
  <2>2. fs \in Seq(FieldSet)
    BY <1>3
  <2>3. S \subseteq 1..Len(fs) /\ Len(fs) \in Nat
    BY <2>2 DEF PublicIndices
  <2>4. S \in SUBSET Nat /\ IsFiniteSet(S)
    <3>1. IsFiniteSet(1..Len(fs))
      BY <2>3, FS_Interval
    <3> HIDE DEF S
    <3>2. S \in SUBSET (1..Len(fs))
      BY <2>3
    <3>3. IsFiniteSet(S)
      BY <3>1, <3>2, FS_Subset
    <3> QED BY <2>3, <3>3
  <2>5. Cardinality(S) \in Nat /\ public \in [1..Cardinality(S) -> S]
    BY <2>4, InOrderIsSorted, ArrangementIsOnto
  <2> HIDE DEF public, S
  <2>6. types \in [1..Cardinality(S) -> Types]
    <3>1. \A k \in 1..Len(fs) : fs[k] \in FieldSet
      BY <2>2
    <3>2. \A k \in S : fs[k].type \in Types
      BY <2>3, <3>1 DEF FieldSet
    <3> QED BY <2>5, <3>2
  <2>7. types \in Seq(Types)
    BY <2>5, <2>6, IsASeq
  <2>8. d = [kind |-> "struct", name |-> n, params |-> types, hides |-> NoName,
             call |-> NoCall, fields |-> fs]
    BY <2>1 DEF Struct, public, S
  <2>9. d \in DefinitionSet
    BY <1>3, <1>4, <1>5, <2>2, <2>7, <2>8 DEF DefinitionSet
  <2> QED BY <1>3, <2>8, <2>9 DEF WellMade, public, S
<1>8. CASE \E n \in family.names : d = Global(n)
  BY <1>3, <1>4, <1>5, <1>8 DEF Global, DefinitionSet, WellMade
<1> QED BY <1>2, <1>6, <1>7, <1>8

\* A step that changes neither the program nor what is stored, and gives no
\* struct a constructor, keeps what the names mean.
LEMMA NamesFrame ==
  ASSUME NamesInv, phase \in {"rejected", "aborted"} => phase' \in {"rejected", "aborted"},
         program' = program, symbols' = symbols, overloads' = overloads,
         DOMAIN parameters' = DOMAIN parameters
  PROVE  ProgramInv' /\ SymbolsInv' /\ OverloadsInv' /\ RegisteredInv'
<1>1. /\ \A i : ByLine(i)' = ByLine(i) /\ Mangling(i)' = Mangling(i)
      /\ \A i, ks : ConstructorName(i, ks)' = ConstructorName(i, ks)
      /\ Functions' = Functions /\ Structs' = Structs /\ Globals' = Globals
  BY DEF ByLine, PublicFields, Line, Mangling, ConstructorName, FieldTypes, Functions,
         Structs, Globals, OfKind
<1>2. \A n, s : StandsFor(n, s)' <=> StandsFor(n, s)
  BY <1>1 DEF StandsFor
<1>3. \A n, s : /\ Stored(n, s)' <=> Stored(n, s)
                /\ Overloaded(n, s)' <=> Overloaded(n, s)
  BY DEF Stored, Overloaded
<1>4. \A n, s : IsOverload(n, s)' <=> IsOverload(n, s)
  BY <1>1, <1>3 DEF IsOverload
<1>5. ProgramInv'
  BY DEF NamesInv, ProgramInv
<1>6. SymbolsInv'
  BY <1>2 DEF NamesInv, SymbolsInv
<1>7. OverloadsInv'
  BY <1>4 DEF NamesInv, OverloadsInv
<1>8. RegisteredInv'
  BY <1>1, <1>3 DEF NamesInv, RegisteredInv
<1> QED BY <1>5, <1>6, <1>7, <1>8

\* Of the program with one more definition, the others are what they were.
LEMMA Growth ==
  ASSUME ProgramInv, NEW d \in DefinitionSet, WellMade(d), program' = Append(program, d)
  PROVE  LET i == Len(program) + 1 IN
         /\ i \in Nat /\ i \notin DOMAIN program /\ \A j \in DOMAIN program : j \in Nat /\ j < i
         /\ DOMAIN program' = DOMAIN program \cup {i}
         /\ program'[i] = d /\ \A j \in DOMAIN program : program'[j] = program[j]
         /\ \A kind : OfKind(kind)' = OfKind(kind) \cup (IF d.kind = kind THEN {i} ELSE {})
         /\ \A j \in DOMAIN program : Mangling(j)' = Mangling(j) /\ ByLine(j)' = ByLine(j)
         /\ \A ks : \A j \in DOMAIN program : ConstructorName(j, ks)' = ConstructorName(j, ks)
         /\ ProgramInv'
<1> DEFINE i == Len(program) + 1
<1>1. program \in Seq(DefinitionSet) /\ Len(program) \in Nat /\ DOMAIN program = 1..Len(program)
  BY DEF ProgramInv
<1>2. /\ i \in Nat /\ i \notin DOMAIN program /\ \A j \in DOMAIN program : j \in Nat /\ j < i
      /\ DOMAIN program' = DOMAIN program \cup {i}
      /\ program'[i] = d /\ \A j \in DOMAIN program : program'[j] = program[j]
      /\ program' \in Seq(DefinitionSet)
  BY <1>1, AppendProperties
<1> HIDE DEF i
<1>3. \A kind : OfKind(kind)' = OfKind(kind) \cup (IF d.kind = kind THEN {i} ELSE {})
  BY <1>2 DEF OfKind
<1>4. \A j \in DOMAIN program : Mangling(j)' = Mangling(j) /\ ByLine(j)' = ByLine(j)
  BY <1>2 DEF Mangling, ByLine, PublicFields, Line
<1>5. \A ks : \A j \in DOMAIN program : ConstructorName(j, ks)' = ConstructorName(j, ks)
  BY <1>2 DEF ConstructorName, FieldTypes
<1>6. ProgramInv'
  BY <1>2 DEF ProgramInv
<1> QED BY <1>2, <1>3, <1>4, <1>5, <1>6 DEF i

\* Collecting a definition keeps the meaning of what was collected before.
LEMMA CollectKeepsMeaning ==
  ASSUME NamesInv, NEW d \in Definitions, Collect(d)
  PROVE  /\ \A n, s : StandsFor(n, s) => StandsFor(n, s)'
         /\ \A n, s : Stored(n, s) => Stored(n, s)'
         /\ \A n, s : IsOverload(n, s) => IsOverload(n, s)'
<1>1. d \in DefinitionSet /\ WellMade(d)
  BY DefinitionsAreWellMade
<1>2. program' = Append(program, d) /\ parameters' = parameters /\ DOMAIN parameters = {}
  BY DEF Collect, NamesInv, ParametersInv
<1>3. ProgramInv
  BY DEF NamesInv
<1>4. \A j \in DOMAIN program : Mangling(j)' = Mangling(j) /\ program'[j] = program[j]
  BY <1>1, <1>2, <1>3, Growth
<1>5. \A kind : OfKind(kind) \subseteq OfKind(kind)' /\ OfKind(kind) \subseteq DOMAIN program
  <2>1. \A kind : OfKind(kind) \subseteq OfKind(kind)'
    BY <1>1, <1>2, <1>3, Growth
  <2> QED BY <2>1 DEF OfKind
<1>6. \A n, s : StandsFor(n, s) => StandsFor(n, s)'
  BY <1>2, <1>4, <1>5 DEF StandsFor, Functions, Structs, Globals
<1>7. \A n, s : Stored(n, s) => Stored(n, s)'
  <2>1. CASE symbols' = symbols
    BY <2>1 DEF Stored
  <2>2. CASE \E name, value : name \notin DOMAIN symbols /\ symbols' = Put(symbols, name, value)
    <3>1. PICK name, value : name \notin DOMAIN symbols /\ symbols' = Put(symbols, name, value)
      BY <2>2
    <3>2. /\ DOMAIN symbols' = DOMAIN symbols \cup {name}
          /\ \A n \in DOMAIN symbols : n # name => symbols'[n] = symbols[n]
      BY <3>1 DEF Put
    <3> QED BY <3>1, <3>2 DEF Stored
  <2>3. symbols' = symbols
          \/ \E name, value : name \notin DOMAIN symbols /\ symbols' = Put(symbols, name, value)
    BY DEF Collect, AddFunction, AddOther
  <2> QED BY <2>1, <2>2, <2>3
<1>8. \A n, s : IsOverload(n, s) => IsOverload(n, s)'
  BY <1>2, <1>4, <1>5, <1>7 DEF IsOverload, Functions
<1> QED BY <1>6, <1>7, <1>8

\* What is appended to a list of overloads.
LEMMA AppendOverload ==
  ASSUME NEW s \in {"fn", "ctor"} \X Nat, NEW list, Arranged(list),
         \A k \in DOMAIN list : Precedes(list[k], s)
  PROVE  LET more == Append(list, s) IN
         /\ Arranged(more) /\ more # <<>>
         /\ DOMAIN more = DOMAIN list \cup {Len(list) + 1}
         /\ \A k \in DOMAIN list : more[k] = list[k]
         /\ more[Len(list) + 1] = s
<1> DEFINE more == Append(list, s)
<1>1. /\ list \in Seq({"fn", "ctor"} \X Nat)
      /\ \A k, m \in DOMAIN list : k < m => Precedes(list[k], list[m])
  BY DEF Arranged
<1>2. /\ more \in Seq({"fn", "ctor"} \X Nat) /\ more # <<>>
      /\ Len(list) \in Nat /\ DOMAIN list = 1..Len(list)
      /\ DOMAIN more = 1..(Len(list) + 1)
      /\ \A k \in DOMAIN list : more[k] = list[k]
      /\ more[Len(list) + 1] = s
  BY <1>1, AppendProperties
<1> HIDE DEF more
<1>3. DOMAIN more = DOMAIN list \cup {Len(list) + 1}
  BY <1>2
<1>4. ASSUME NEW k \in DOMAIN more, NEW m \in DOMAIN more, k < m
      PROVE  Precedes(more[k], more[m])
  <2>1. k \in DOMAIN list
    BY <1>2, <1>4
  <2>2. CASE m \in DOMAIN list
    BY <1>1, <1>2, <1>4, <2>1, <2>2
  <2>3. CASE m = Len(list) + 1
    BY <1>2, <2>1, <2>3
  <2> QED BY <1>3, <2>2, <2>3
<1> QED BY <1>1, <1>2, <1>3, <1>4 DEF Arranged, more

\* Symbol collection adds one definition to what is stored.
LEMMA CollectNames ==
  ASSUME NamesInv, NEW d \in Definitions, Collect(d)
  PROVE  NamesInv'
<1>0. PICK i : i = Len(program) + 1
  OBVIOUS
<1>1. d \in DefinitionSet /\ WellMade(d)
  BY DefinitionsAreWellMade
<1>2. /\ phase = "collecting" /\ todo = {} /\ todo' = todo
      /\ program' = Append(program, d) /\ parameters' = parameters /\ DOMAIN parameters = {}
      /\ ProgramInv
  BY DEF Collect, NamesInv, ParametersInv, TodoInv
<1>3. /\ i \in Nat /\ i \notin DOMAIN program /\ \A j \in DOMAIN program : j \in Nat /\ j < i
      /\ DOMAIN program' = DOMAIN program \cup {i}
      /\ program'[i] = d /\ \A j \in DOMAIN program : program'[j] = program[j]
      /\ \A kind : OfKind(kind)' = OfKind(kind) \cup (IF d.kind = kind THEN {i} ELSE {})
      /\ ProgramInv'
  BY <1>0, <1>1, <1>2, Growth
<1>4. /\ \A n, s : StandsFor(n, s) => StandsFor(n, s)'
      /\ \A n, s : Stored(n, s) => Stored(n, s)'
      /\ \A n, s : IsOverload(n, s) => IsOverload(n, s)'
  BY CollectKeepsMeaning
<1>5. phase' \in {"collecting", "rejected", "aborted"}
  BY <1>2 DEF Collect, AddFunction, AddOther, AfterRedeclaration
<1>6. TodoInv' /\ ParametersInv'
  <2>1. TodoInv'
    BY <1>2, <1>5 DEF TodoInv, Phases
  <2>2. ParametersInv'
    BY <1>2, <1>5 DEF ParametersInv
  <2> QED BY <2>1, <2>2
<1>7. Mangling(i)' = Mangled(d.name, d.params)
  BY <1>3 DEF Mangling
<1>8. \A kind : \A j \in OfKind(kind) : j \in DOMAIN program
  BY DEF OfKind
<1>9. CASE symbols' = symbols /\ overloads' = overloads /\ phase' \in {"rejected", "aborted"}
  <2>1. SymbolsInv'
    BY <1>4, <1>9 DEF NamesInv, SymbolsInv
  <2>2. OverloadsInv'
    BY <1>4, <1>9 DEF NamesInv, OverloadsInv
  <2>3. RegisteredInv'
    BY <1>9 DEF RegisteredInv
  <2> QED BY <1>3, <1>6, <2>1, <2>2, <2>3 DEF NamesInv
<1>10. CASE d.kind = "fn" /\ phase' = phase /\ Mangled(d.name, d.params) \notin DOMAIN symbols
  <2>0. PICK s, m, list, more :
          /\ s = <<"fn", i>> /\ m = Mangled(d.name, d.params)
          /\ list = Lookup(overloads, d.name, <<>>) /\ more = Append(list, s)
    OBVIOUS
  <2>1. symbols' = Put(symbols, m, s) /\ overloads' = Put(overloads, d.name, more)
    BY <1>0, <1>10, <2>0 DEF Collect, AddFunction
  <2>2. /\ DOMAIN symbols' = DOMAIN symbols \cup {m} /\ symbols'[m] = s
        /\ \A n \in DOMAIN symbols : n # m => symbols'[n] = symbols[n]
        /\ DOMAIN overloads' = DOMAIN overloads \cup {d.name} /\ overloads'[d.name] = more
        /\ \A n \in DOMAIN overloads : n # d.name => overloads'[n] = overloads[n]
    BY <2>1 DEF Put
  <2>3. i \in Functions'
    BY <1>3, <1>10 DEF Functions
  <2>4. SymbolsInv'
    <3>1. StandsFor(m, s)'
      BY <1>7, <2>0, <2>3 DEF StandsFor
    <3> QED BY <1>4, <2>2, <3>1 DEF NamesInv, SymbolsInv
  <2>5. IsOverload(d.name, s)'
    BY <1>3, <1>7, <2>0, <2>2, <2>3 DEF IsOverload, Stored
  <2>6. \A k \in DOMAIN list : IsOverload(d.name, list[k])
    <3>1. CASE d.name \in DOMAIN overloads
      BY <2>0, <3>1 DEF Lookup, NamesInv, OverloadsInv
    <3>2. CASE d.name \notin DOMAIN overloads
      BY <2>0, <3>2 DEF Lookup
    <3> QED BY <3>1, <3>2
  <2>7. \A k \in DOMAIN list : Precedes(list[k], s)
    BY <1>2, <1>3, <1>8, <2>0, <2>6 DEF IsOverload, Precedes, Functions
  <2>8. s \in {"fn", "ctor"} \X Nat
    BY <1>3, <2>0
  <2>9. Arranged(list)
    <3>1. CASE d.name \in DOMAIN overloads
      BY <2>0, <3>1 DEF Lookup, NamesInv, OverloadsInv
    <3>2. CASE d.name \notin DOMAIN overloads
      BY <2>0, <3>2 DEF Lookup, Arranged
    <3> QED BY <3>1, <3>2
  <2>10. /\ Arranged(more) /\ more # <<>>
         /\ DOMAIN more = DOMAIN list \cup {Len(list) + 1}
         /\ \A k \in DOMAIN list : more[k] = list[k]
         /\ more[Len(list) + 1] = s
    <3>1. more = Append(list, s)
      BY <2>0
    <3> QED BY <2>7, <2>8, <2>9, <3>1, AppendOverload
  <2>14. OverloadsInv'
    <3> SUFFICES ASSUME NEW n \in DOMAIN overloads'
                 PROVE  /\ Arranged(overloads'[n]) /\ overloads'[n] # <<>>
                        /\ \A k \in DOMAIN overloads[n]' : IsOverload(n, overloads[n][k])'
      BY DEF OverloadsInv
    <3>1. CASE n = d.name
      <4>1. \A k \in DOMAIN more : IsOverload(n, more[k])'
        BY <1>4, <2>5, <2>6, <2>10, <3>1
      <4> QED BY <2>2, <2>10, <3>1, <4>1
    <3>2. CASE n # d.name
      BY <1>4, <2>2, <3>2 DEF NamesInv, OverloadsInv
    <3> QED BY <3>1, <3>2
  <2>11. \A n, t : Overloaded(n, t) => Overloaded(n, t)'
    <3> SUFFICES ASSUME NEW n, NEW t, Overloaded(n, t) PROVE Overloaded(n, t)'
      OBVIOUS
    <3>1. CASE n = d.name
      <4>1. PICK k \in DOMAIN list : list[k] = t
        BY <2>0, <3>1 DEF Overloaded, Lookup
      <4> QED BY <2>2, <2>10, <3>1, <4>1 DEF Overloaded
    <3>2. CASE n # d.name
      BY <2>2, <3>2 DEF Overloaded
    <3> QED BY <3>1, <3>2
  <2>12. Overloaded(d.name, s)'
    BY <2>2, <2>10 DEF Overloaded
  <2>13. RegisteredInv'
    BY <1>2, <1>3, <1>4, <1>8, <1>10, <2>0, <2>11, <2>12
       DEF NamesInv, RegisteredInv, Functions, Structs, Globals
  <2> QED BY <1>3, <1>6, <2>4, <2>13, <2>14 DEF NamesInv
<1>11. CASE d.kind # "fn" /\ phase' = phase /\ d.name \notin DOMAIN symbols
  <2>0. PICK s : s = <<d.kind, i>>
    OBVIOUS
  <2>1. symbols' = Put(symbols, d.name, s) /\ overloads' = overloads
    BY <1>0, <1>11, <2>0 DEF Collect, AddOther
  <2>2. /\ DOMAIN symbols' = DOMAIN symbols \cup {d.name} /\ symbols'[d.name] = s
        /\ \A n \in DOMAIN symbols : n # d.name => symbols'[n] = symbols[n]
    BY <2>1 DEF Put
  <2>3. d.kind \in {"struct", "global"}
    BY <1>1, <1>11 DEF DefinitionSet
  <2>4. SymbolsInv'
    <3>1. StandsFor(d.name, s)'
      BY <1>3, <2>0, <2>3 DEF StandsFor, Structs, Globals
    <3> QED BY <1>4, <2>2, <3>1 DEF NamesInv, SymbolsInv
  <2>5. OverloadsInv'
    BY <1>4, <2>1 DEF NamesInv, OverloadsInv
  <2>6. \A n, t : Overloaded(n, t) => Overloaded(n, t)'
    BY <2>1 DEF Overloaded
  <2>7. Stored(d.name, s)'
    BY <2>2 DEF Stored
  <2>8. RegisteredInv'
    BY <1>2, <1>3, <1>4, <1>8, <1>11, <2>0, <2>6, <2>7
       DEF NamesInv, RegisteredInv, Functions, Structs, Globals
  <2> QED BY <1>3, <1>6, <2>4, <2>5, <2>8 DEF NamesInv
<1> QED BY <1>9, <1>10, <1>11 DEF Collect, AddFunction, AddOther, AfterRedeclaration

\* The next to visit is one of those left, the first in the text.
LEMMA NextIsFirst ==
  ASSUME NamesInv, todo # {}
  PROVE  /\ NextTodo \in todo /\ NextTodo \in DOMAIN program /\ NextTodo \in Nat
         /\ \A j \in todo : NextTodo <= j
<1>1. DOMAIN program \in SUBSET Nat
  BY DEF NamesInv, ProgramInv
<1>2. todo \in SUBSET DOMAIN program
  BY DEF NamesInv, TodoInv
<1>3. \E i \in todo : \A j \in todo : i <= j
  BY <1>1, <1>2, LeastExists
<1> QED BY <1>1, <1>2, <1>3 DEF NextTodo

\* Making a constructor keeps what the names mean.
LEMMA ConstructorNames ==
  ASSUME NamesInv, CreateConstructor
  PROVE  NamesInv'
<1>0. PICK i : i = NextTodo
  OBVIOUS
<1>1. /\ phase = "constructors" /\ todo # {} /\ todo' = todo \ {i} /\ program' = program
  BY <1>0 DEF CreateConstructor
<1>2. i \in todo /\ i \in Structs /\ i \in DOMAIN program /\ i \in Nat
  BY <1>0, <1>1, NextIsFirst DEF NamesInv, TodoInv
<1>3. PICK ks \in ByLine(i) :
        /\ parameters' = Put(parameters, i, ks)
        /\ AddFunction(<<"ctor", i>>, program[i].name, FieldTypes(i, ks))
  BY <1>0 DEF CreateConstructor
<1>4. /\ \A j : ByLine(j)' = ByLine(j) /\ Mangling(j)' = Mangling(j)
      /\ \A j, order : ConstructorName(j, order)' = ConstructorName(j, order)
      /\ Functions' = Functions /\ Structs' = Structs /\ Globals' = Globals
  BY <1>1 DEF ByLine, PublicFields, Line, Mangling, ConstructorName, FieldTypes, Functions,
              Structs, Globals, OfKind
<1>5. /\ DOMAIN parameters' = DOMAIN parameters \cup {i} /\ parameters'[i] = ks
      /\ \A j \in DOMAIN parameters : j # i => parameters'[j] = parameters[j]
  BY <1>3 DEF Put
<1>6. phase' \in {"constructors", "rejected"}
  BY <1>1, <1>3 DEF AddFunction
<1>7. ProgramInv'
  BY <1>1 DEF NamesInv, ProgramInv
<1>8. TodoInv'
  BY <1>1, <1>4, <1>6 DEF NamesInv, TodoInv, Phases
<1>9. ParametersInv'
  <2>1. DOMAIN parameters \subseteq Structs /\ DOMAIN parameters = Structs \ todo
    BY <1>1 DEF NamesInv, ParametersInv
  <2>2. \A j \in DOMAIN parameters' : parameters'[j] \in ByLine(j)'
    BY <1>3, <1>4, <1>5 DEF NamesInv, ParametersInv
  <2>3. DOMAIN parameters' \subseteq Structs' /\ DOMAIN parameters' = Structs' \ todo'
    BY <1>1, <1>2, <1>4, <1>5, <2>1
  <2> QED BY <1>6, <2>2, <2>3 DEF ParametersInv
<1>10. \A n, s : StandsFor(n, s) => StandsFor(n, s)'
  BY <1>1, <1>4, <1>5 DEF StandsFor
<1>11. CASE symbols' = symbols /\ overloads' = overloads /\ phase' = "rejected"
  <2>1. SymbolsInv'
    BY <1>10, <1>11 DEF NamesInv, SymbolsInv
  <2>2. \A n, s : IsOverload(n, s) => IsOverload(n, s)'
    BY <1>1, <1>4, <1>5, <1>11 DEF IsOverload, Stored
  <2>3. OverloadsInv'
    BY <1>11, <2>2 DEF NamesInv, OverloadsInv
  <2>4. RegisteredInv'
    BY <1>11 DEF RegisteredInv
  <2> QED BY <1>7, <1>8, <1>9, <2>1, <2>3, <2>4 DEF NamesInv
<1>12. CASE phase' = phase /\ ConstructorName(i, ks) \notin DOMAIN symbols
  <2>0. PICK name, s, m, list, more :
          /\ name = program[i].name /\ s = <<"ctor", i>> /\ m = ConstructorName(i, ks)
          /\ list = Lookup(overloads, name, <<>>) /\ more = Append(list, s)
    OBVIOUS
  <2>1. symbols' = Put(symbols, m, s) /\ overloads' = Put(overloads, name, more)
    BY <1>3, <1>12, <2>0 DEF AddFunction, ConstructorName
  <2>2. /\ DOMAIN symbols' = DOMAIN symbols \cup {m} /\ symbols'[m] = s
        /\ \A n \in DOMAIN symbols : n # m => symbols'[n] = symbols[n]
        /\ DOMAIN overloads' = DOMAIN overloads \cup {name} /\ overloads'[name] = more
        /\ \A n \in DOMAIN overloads : n # name => overloads'[n] = overloads[n]
    BY <2>1 DEF Put
  <2>3. \A n, t : Stored(n, t) => Stored(n, t)'
    BY <1>12, <2>0, <2>2 DEF Stored
  <2>4. SymbolsInv'
    <3>1. StandsFor(m, s)'
      BY <1>3, <1>4, <1>5, <2>0 DEF StandsFor
    <3> QED BY <1>10, <2>2, <3>1 DEF NamesInv, SymbolsInv
  <2>5. \A n, t : IsOverload(n, t) => IsOverload(n, t)'
    BY <1>1, <1>4, <1>5, <2>3 DEF IsOverload
  <2>6. IsOverload(name, s)'
    <3>1. Stored(m, s)' /\ ks \in ByLine(i)' /\ m = ConstructorName(i, ks)'
            /\ i \in DOMAIN parameters' /\ name = program'[i].name
      BY <1>1, <1>3, <1>4, <1>5, <2>0, <2>2 DEF Stored
    <3> QED BY <2>0, <3>1 DEF IsOverload
  <2>7. s \in {"fn", "ctor"} \X Nat /\ s[1] = "ctor"
    BY <1>2, <2>0
  <2>8. Arranged(list) /\ \A k \in DOMAIN list : IsOverload(name, list[k])
    <3>1. CASE name \in DOMAIN overloads
      BY <2>0, <3>1 DEF Lookup, NamesInv, OverloadsInv
    <3>2. CASE name \notin DOMAIN overloads
      BY <2>0, <3>2 DEF Lookup, Arranged
    <3> QED BY <3>1, <3>2
  <2>9. \A k \in DOMAIN list : Precedes(list[k], s)
    BY <2>7 DEF Precedes
  <2>10. /\ Arranged(more) /\ more # <<>>
         /\ DOMAIN more = DOMAIN list \cup {Len(list) + 1}
         /\ \A k \in DOMAIN list : more[k] = list[k]
         /\ more[Len(list) + 1] = s
    <3>1. more = Append(list, s)
      BY <2>0
    <3> QED BY <2>7, <2>8, <2>9, <3>1, AppendOverload
  <2>11. OverloadsInv'
    <3> SUFFICES ASSUME NEW n \in DOMAIN overloads'
                 PROVE  /\ Arranged(overloads'[n]) /\ overloads'[n] # <<>>
                        /\ \A k \in DOMAIN overloads[n]' : IsOverload(n, overloads[n][k])'
      BY DEF OverloadsInv
    <3>1. CASE n = name
      <4>1. \A k \in DOMAIN more : IsOverload(n, more[k])'
        BY <2>5, <2>6, <2>8, <2>10, <3>1
      <4> QED BY <2>2, <2>10, <3>1, <4>1
    <3>2. CASE n # name
      BY <2>2, <2>5, <3>2 DEF NamesInv, OverloadsInv
    <3> QED BY <3>1, <3>2
  <2>12. \A n, t : Overloaded(n, t) => Overloaded(n, t)'
    <3> SUFFICES ASSUME NEW n, NEW t, Overloaded(n, t) PROVE Overloaded(n, t)'
      OBVIOUS
    <3>1. CASE n = name
      <4>1. PICK k \in DOMAIN list : list[k] = t
        BY <2>0, <3>1 DEF Overloaded, Lookup
      <4> QED BY <2>2, <2>10, <3>1, <4>1 DEF Overloaded
    <3>2. CASE n # name
      BY <2>2, <3>2 DEF Overloaded
    <3> QED BY <3>1, <3>2
  <2>13. Overloaded(name, s)'
    BY <2>2, <2>10 DEF Overloaded
  <2>14. RegisteredInv'
    BY <1>1, <1>4, <1>5, <2>0, <2>3, <2>12, <2>13 DEF NamesInv, RegisteredInv
  <2> QED BY <1>7, <1>8, <1>9, <2>4, <2>11, <2>14 DEF NamesInv
<1> QED BY <1>3, <1>11, <1>12 DEF AddFunction, ConstructorName

\* The other steps leave the names alone.
LEMMA QuietNames ==
  ASSUME NamesInv,
         \/ EndCollection \/ EndConstructors \/ CheckCall \/ EndChecking
         \/ GenerateFunction \/ GenerateStruct \/ EndGenerating \/ Write
         \/ UNCHANGED vars
  PROVE  NamesInv'
<1>1. TodoInv /\ ProgramInv /\ ParametersInv
  BY DEF NamesInv
<1>2. /\ program' = program /\ symbols' = symbols /\ overloads' = overloads
      /\ phase \in {"rejected", "aborted"} => phase' \in {"rejected", "aborted"}
  <2>1. CASE UNCHANGED vars
    BY <2>1 DEF vars
  <2>2. CASE EndCollection \/ EndConstructors \/ CheckCall \/ EndChecking
    BY <2>2 DEF EndCollection, EndConstructors, CheckCall, EndChecking
  <2>3. CASE GenerateFunction \/ GenerateStruct \/ EndGenerating \/ Write
    BY <2>3 DEF GenerateFunction, GenerateStruct, EndGenerating, Write
  <2> QED BY <2>1, <2>2, <2>3
<1>3. /\ Functions' = Functions /\ Structs' = Structs /\ Callers' = Callers
      /\ \A j : ByLine(j)' = ByLine(j)
      /\ Functions \subseteq DOMAIN program /\ Structs \subseteq DOMAIN program
      /\ Callers \subseteq DOMAIN program
  BY <1>2 DEF Functions, Structs, Callers, OfKind, ByLine, PublicFields, Line
<1>4. ASSUME TodoInv', ParametersInv', DOMAIN parameters' = DOMAIN parameters
      PROVE  NamesInv'
  <2>1. ProgramInv' /\ SymbolsInv' /\ OverloadsInv' /\ RegisteredInv'
    BY <1>2, <1>4, NamesFrame
  <2> QED BY <1>4, <2>1 DEF NamesInv
<1>5. CASE UNCHANGED vars
  <2>1. phase' = phase /\ todo' = todo /\ parameters' = parameters
    BY <1>5 DEF vars
  <2>2. TodoInv'
    BY <1>1, <1>2, <1>3, <2>1 DEF TodoInv
  <2>3. ParametersInv'
    BY <1>1, <1>3, <2>1 DEF ParametersInv
  <2> QED BY <1>4, <2>1, <2>2, <2>3
<1>6. CASE EndCollection
  <2>1. phase = "collecting" /\ phase' = "constructors" /\ todo' = Structs
          /\ parameters' = parameters
    BY <1>6 DEF EndCollection, Structs
  <2>2. TodoInv'
    BY <1>2, <1>3, <2>1 DEF TodoInv, Phases
  <2>3. ParametersInv'
    BY <1>1, <1>3, <2>1 DEF ParametersInv
  <2> QED BY <1>4, <2>1, <2>2, <2>3
<1>7. CASE EndConstructors
  <2>1. phase = "constructors" /\ todo = {} /\ phase' = "checking" /\ todo' = Callers
          /\ parameters' = parameters
    BY <1>7 DEF EndConstructors
  <2>2. TodoInv'
    BY <1>2, <1>3, <2>1 DEF TodoInv, Phases
  <2>3. ParametersInv'
    BY <1>1, <1>3, <2>1 DEF ParametersInv
  <2> QED BY <1>4, <2>1, <2>2, <2>3
<1>8. CASE CheckCall
  <2>1. phase = "checking" /\ phase' \in {"checking", "rejected"}
          /\ todo' \subseteq todo /\ parameters' = parameters
    BY <1>8 DEF CheckCall
  <2>2. TodoInv'
    BY <1>1, <1>2, <1>3, <2>1 DEF TodoInv, Phases
  <2>3. ParametersInv'
    BY <1>1, <1>3, <2>1 DEF ParametersInv
  <2> QED BY <1>4, <2>1, <2>2, <2>3
<1>9. CASE EndChecking
  <2>1. phase = "checking" /\ phase' = "generating" /\ todo' = Functions \cup Structs
          /\ parameters' = parameters
    BY <1>9 DEF EndChecking, Functions, Structs
  <2>2. TodoInv'
    BY <1>2, <1>3, <2>1 DEF TodoInv, Phases
  <2>3. ParametersInv'
    BY <1>1, <1>3, <2>1 DEF ParametersInv
  <2> QED BY <1>4, <2>1, <2>2, <2>3
<1>10. CASE GenerateFunction
  <2>1. phase = "generating" /\ phase' \in {"generating", "aborted"}
          /\ todo' \subseteq todo /\ parameters' = parameters
    BY <1>10 DEF GenerateFunction
  <2>2. TodoInv'
    BY <1>1, <1>2, <1>3, <2>1 DEF TodoInv, Phases
  <2>3. ParametersInv'
    BY <1>1, <1>3, <2>1 DEF ParametersInv
  <2> QED BY <1>4, <2>1, <2>2, <2>3
<1>11. CASE GenerateStruct
  <2>1. phase = "generating" /\ phase' \in {"generating", "aborted"} /\ todo' \subseteq todo
          /\ todo # {} /\ program[NextTodo].kind = "struct"
    BY <1>11 DEF GenerateStruct
  <2>2. parameters' = parameters
          \/ parameters' = [parameters EXCEPT ![NextTodo] = InOrder(PublicFields(NextTodo))]
    BY <1>11 DEF GenerateStruct
  <2>3. NextTodo \in DOMAIN program
    BY <2>1, NextIsFirst
  <2>4. InOrder(PublicFields(NextTodo)) \in ByLine(NextTodo)
    BY <1>1, <2>3, InOrderIsByLine
  <2>5. DOMAIN parameters' = DOMAIN parameters
    BY <2>2
  <2>6. \A j \in DOMAIN parameters : parameters'[j] \in ByLine(j)
    <3>1. \A j \in DOMAIN parameters : parameters[j] \in ByLine(j)
      BY <1>1 DEF ParametersInv
    <3> QED BY <2>2, <2>4, <3>1
  <2>7. TodoInv'
    BY <1>1, <1>2, <1>3, <2>1 DEF TodoInv, Phases
  <2>8. ParametersInv'
    BY <1>1, <1>3, <2>1, <2>5, <2>6 DEF ParametersInv
  <2> QED BY <1>4, <2>5, <2>7, <2>8
<1>12. CASE EndGenerating
  <2>1. phase = "generating" /\ phase' = "writing" /\ todo = {} /\ todo' = todo
          /\ parameters' = parameters
    BY <1>12 DEF EndGenerating
  <2>2. TodoInv'
    BY <1>1, <1>2, <1>3, <2>1 DEF TodoInv, Phases
  <2>3. ParametersInv'
    BY <1>1, <1>3, <2>1 DEF ParametersInv
  <2> QED BY <1>4, <2>1, <2>2, <2>3
<1>13. CASE Write
  <2>1. phase = "writing" /\ phase' \in {"done", "aborted"} /\ todo' = todo
          /\ parameters' = parameters
    BY <1>13 DEF Write
  <2>2. TodoInv'
    BY <1>1, <1>2, <1>3, <2>1 DEF TodoInv, Phases
  <2>3. ParametersInv'
    BY <1>1, <1>3, <2>1 DEF ParametersInv
  <2> QED BY <1>4, <2>1, <2>2, <2>3
<1> QED BY <1>5, <1>6, <1>7, <1>8, <1>9, <1>10, <1>11, <1>12, <1>13

\* What the names of the program scope mean, in every reachable state.
LEMMA NamesStep == NamesInv /\ [Next]_vars => NamesInv'
<1> SUFFICES ASSUME NamesInv, [Next]_vars PROVE NamesInv'
  OBVIOUS
<1>1. CASE \E d \in Definitions : Collect(d)
  BY <1>1, CollectNames
<1>2. CASE CreateConstructor
  BY <1>2, ConstructorNames
<1>3. CASE \/ EndCollection \/ EndConstructors \/ CheckCall \/ EndChecking
           \/ GenerateFunction \/ GenerateStruct \/ EndGenerating \/ Write
           \/ UNCHANGED vars
  BY <1>3, QuietNames
<1> QED BY <1>1, <1>2, <1>3 DEF Next

-----------------------------------------------------------------------------
(* Resolving calls.                                                         *)

\* What a call of a name may be resolved to.
Candidate(name, s) ==
  \/ name \in DOMAIN overloads /\ IsOverload(name, s)
  \/ /\ name \notin DOMAIN overloads
     /\ \E b \in Builtins : name = Word(b) /\ s = <<"builtin", b>>

\* The candidates for a call are the overloads of its name, or else the
\* built-in function.
LEMMA CandidatesAreFunctions ==
  ASSUME NamesInv, NEW name
  PROVE  /\ DOMAIN Candidates(name) \in SUBSET Nat
         /\ \A k \in DOMAIN Candidates(name) : Candidate(name, Candidates(name)[k])
         /\ \A s : Overloaded(name, s) => \E k \in DOMAIN Candidates(name) : Candidates(name)[k] = s
         /\ \A b \in Builtins : name = Word(b) /\ name \notin DOMAIN overloads =>
              \E k \in DOMAIN Candidates(name) : Candidates(name)[k] = <<"builtin", b>>
<1>1. CASE name \in DOMAIN overloads
  <2>1. Candidates(name) = overloads[name]
    BY <1>1 DEF Candidates, Lookup
  <2>2. overloads[name] \in Seq({"fn", "ctor"} \X Nat)
          /\ \A k \in DOMAIN overloads[name] : IsOverload(name, overloads[name][k])
    BY <1>1 DEF NamesInv, OverloadsInv, Arranged
  <2>3. DOMAIN overloads[name] \in SUBSET Nat
    BY <2>2
  <2> QED BY <1>1, <2>1, <2>2, <2>3 DEF Candidate, Overloaded
<1>2. CASE name \notin DOMAIN overloads /\ \E b \in Builtins : name = Word(b)
  <2>1. PICK b \in Builtins : name = Word(b)
    BY <1>2
  <2>2. name[1] = b
    BY <2>1 DEF Word
  <2>3. Candidates(name) = << <<"builtin", b>> >>
    BY <1>2, <2>2 DEF Candidates, Lookup
  <2>4. DOMAIN Candidates(name) = 1..1 /\ Candidates(name)[1] = <<"builtin", b>>
    BY <2>3
  <2>5. \A c \in Builtins : name = Word(c) => c = b
    BY <2>1 DEF Word
  <2>6. \A k \in 1..1 : k = 1
    OBVIOUS
  <2> QED BY <1>2, <2>1, <2>4, <2>5, <2>6 DEF Candidate, Overloaded
<1>3. CASE name \notin DOMAIN overloads /\ ~ \E b \in Builtins : name = Word(b)
  <2>1. Candidates(name) = <<>>
    BY <1>3 DEF Candidates, Lookup
  <2>2. DOMAIN Candidates(name) = {}
    BY <2>1
  <2> QED BY <1>3, <2>2 DEF Overloaded
<1> QED BY <1>1, <1>2, <1>3

\* Of the candidates that take as many arguments, the one resolved to has
\* these types if any has.
LEMMA ResolveCallFits ==
  ASSUME NamesInv, NEW name, NEW args
  PROVE  LET candidates == Candidates(name)
             s == ResolveCall(name, args)
         IN
         /\ s # NoSymbol =>
              /\ Candidate(name, s)
              /\ \E k \in DOMAIN candidates : s = candidates[k]
              /\ Len(ParamsOf(s)) = Len(args)
              /\ (\E k \in DOMAIN candidates : ParamsOf(candidates[k]) = args)
                   => ParamsOf(s) = args
         /\ s = NoSymbol =>
              \A k \in DOMAIN candidates : Len(ParamsOf(candidates[k])) # Len(args)
<1> DEFINE candidates == Candidates(name)
           fits  == {k \in DOMAIN candidates : Len(ParamsOf(candidates[k])) = Len(args)}
           exact == {k \in fits : ParamsOf(candidates[k]) = args}
           First(ks) == candidates[CHOOSE k \in ks : \A j \in ks : k <= j]
           s == ResolveCall(name, args)
<1>1. s = IF exact # {} THEN First(exact) ELSE IF fits # {} THEN First(fits) ELSE NoSymbol
  BY DEF ResolveCall
<1>2. DOMAIN candidates \in SUBSET Nat
        /\ \A k \in DOMAIN candidates : Candidate(name, candidates[k])
  BY CandidatesAreFunctions
<1>3. \A k \in DOMAIN candidates : candidates[k] # NoSymbol
  <2>1. \A k \in DOMAIN candidates : candidates[k][1] # "none"
    BY <1>2 DEF Candidate, IsOverload
  <2>2. NoSymbol[1] = "none"
    BY DEF NoSymbol
  <2> QED BY <2>1, <2>2
<1>4. ASSUME NEW ks \in SUBSET DOMAIN candidates, ks # {}
      PROVE  \E k \in ks : First(ks) = candidates[k]
  <2>1. \E k \in ks : \A j \in ks : k <= j
    BY <1>2, <1>4, LeastExists
  <2> QED BY <2>1
<1>5. CASE exact # {}
  <2>1. PICK k \in exact : First(exact) = candidates[k]
    BY <1>4, <1>5
  <2>2. k \in DOMAIN candidates /\ Len(ParamsOf(candidates[k])) = Len(args)
          /\ ParamsOf(candidates[k]) = args
    OBVIOUS
  <2>3. s = candidates[k]
    BY <1>1, <1>5, <2>1
  <2> HIDE DEF candidates, s, First, fits, exact
  <2> QED BY <1>2, <1>3, <2>2, <2>3 DEF candidates, s
<1>6. CASE exact = {} /\ fits # {}
  <2>1. PICK k \in fits : First(fits) = candidates[k]
    BY <1>4, <1>6
  <2>2. k \in DOMAIN candidates /\ Len(ParamsOf(candidates[k])) = Len(args)
    OBVIOUS
  <2>3. s = candidates[k]
    BY <1>1, <1>6, <2>1
  <2>4. ~ \E j \in DOMAIN candidates : ParamsOf(candidates[j]) = args
    BY <1>6
  <2> HIDE DEF candidates, s, First, fits, exact
  <2> QED BY <1>2, <1>3, <2>2, <2>3, <2>4 DEF candidates, s
<1>7. CASE fits = {}
  <2>1. s = NoSymbol
    BY <1>1, <1>7
  <2>2. \A k \in DOMAIN candidates : Len(ParamsOf(candidates[k])) # Len(args)
    BY <1>7
  <2> HIDE DEF candidates, s, First, fits, exact
  <2> QED BY <2>1, <2>2 DEF candidates, s
<1> QED BY <1>5, <1>6, <1>7

\* What is not a constructor takes the parameters it was written with.
LEMMA ParamsStay ==
  ASSUME program' = program, NEW s, s[1] # "ctor" \/ parameters' = parameters
  PROVE  ParamsOf(s)' = ParamsOf(s)
BY DEF ParamsOf, FieldTypes

\* Nothing is resolved at first.
LEMMA InitResolved == Init => ResolvedInv
BY DEF Init, ResolvedInv

\* A call that is checked is resolved to a candidate.
LEMMA CheckCallResolved ==
  ASSUME NamesInv, ResolvedInv, CheckCall
  PROVE  ResolvedInv'
<1>0. PICK i, call, s :
        i = NextTodo /\ call = program[i].call /\ s = ResolveCall(call.name, call.args)
  OBVIOUS
<1>1. /\ phase = "checking" /\ todo # {} /\ phase' \in {"checking", "rejected"}
      /\ todo' = todo \ {i} /\ program' = program /\ overloads' = overloads
      /\ parameters' = parameters
      /\ phase' = "checking" =>
           /\ s # NoSymbol
           /\ resolved' = [resolved EXCEPT ![i] = [symbol |-> s, params |-> ParamsOf(s)]]
  BY <1>0 DEF CheckCall
<1>2. i \in DOMAIN program
  BY <1>0, <1>1, NextIsFirst
<1> SUFFICES ASSUME phase' = "checking" PROVE ResolvedInv'
  BY <1>1 DEF ResolvedInv
<1>3. DOMAIN resolved' = DOMAIN program'
  BY <1>1 DEF ResolvedInv
<1>4. \A n : Candidates(n)' = Candidates(n)
  BY <1>1 DEF Candidates, Lookup
<1>5. /\ Callers' = Callers /\ \A j : ByLine(j)' = ByLine(j)
      /\ \A j, ks : FieldTypes(j, ks)' = FieldTypes(j, ks)
      /\ \A t : ParamsOf(t)' = ParamsOf(t)
  BY <1>1, ParamsStay DEF Callers, ByLine, PublicFields, Line, FieldTypes
<1>6. ASSUME NEW j \in Callers, j \notin todo, j # i
      PROVE  ResolvedTo(j)'
  <2>1. ResolvedTo(j) /\ resolved'[j] = resolved[j]
    <3>1. ResolvedTo(j) /\ j \in DOMAIN resolved
      BY <1>1, <1>6 DEF ResolvedInv, Callers
    <3> QED BY <1>1, <1>6, <3>1
  <2> QED BY <1>1, <1>4, <1>5, <2>1 DEF ResolvedTo
<1>7. ResolvedTo(i)'
  <2>1. resolved'[i] = [symbol |-> s, params |-> ParamsOf(s)]
    BY <1>1, <1>2 DEF ResolvedInv
  <2>2. Candidate(call.name, s) /\ \E k \in DOMAIN Candidates(call.name) : s = Candidates(call.name)[k]
    BY <1>0, <1>1, ResolveCallFits
  <2>3. ASSUME s[1] = "ctor"
        PROVE  \E ks \in ByLine(s[2]) : ParamsOf(s) = FieldTypes(s[2], ks)
    <3>1. s[2] \in DOMAIN parameters
      BY <2>2, <2>3 DEF Candidate, IsOverload
    <3>2. parameters[s[2]] \in ByLine(s[2])
      BY <3>1 DEF NamesInv, ParametersInv
    <3> QED BY <2>3, <3>2 DEF ParamsOf
  <2> QED BY <1>0, <1>1, <1>4, <1>5, <2>1, <2>2, <2>3 DEF ResolvedTo
<1> QED BY <1>1, <1>3, <1>5, <1>6, <1>7 DEF ResolvedInv

\* No other step unresolves a call.
LEMMA ResolvedStep == NamesInv /\ ResolvedInv /\ [Next]_vars => ResolvedInv'
<1> SUFFICES ASSUME NamesInv, ResolvedInv, [Next]_vars PROVE ResolvedInv'
  OBVIOUS
<1>1. CASE (\E d \in Definitions : Collect(d)) \/ CreateConstructor \/ EndCollection
  <2>1. phase' \in {"collecting", "constructors", "rejected", "aborted"}
    BY <1>1 DEF Collect, CreateConstructor, EndCollection, AddFunction, AddOther,
                AfterRedeclaration
  <2> QED BY <2>1 DEF ResolvedInv
<1>2. CASE EndConstructors
  <2>1. phase' = "checking" /\ todo' = Callers /\ program' = program
          /\ DOMAIN resolved' = DOMAIN program
    BY <1>2 DEF EndConstructors
  <2>2. Callers' = Callers
    BY <2>1 DEF Callers
  <2> QED BY <2>1, <2>2 DEF ResolvedInv
<1>3. CASE CheckCall
  BY <1>3, CheckCallResolved
<1>4. CASE \/ EndChecking \/ GenerateFunction \/ GenerateStruct \/ EndGenerating \/ Write
           \/ UNCHANGED vars
  <2>1. /\ program' = program /\ overloads' = overloads /\ resolved' = resolved
        /\ \/ phase' = phase /\ todo' = todo
           \/ phase = "checking" /\ todo = {} /\ phase' # "checking"
           \/ phase \in {"generating", "writing"} /\ phase' # "checking"
    <3>1. CASE EndChecking
      BY <3>1 DEF EndChecking
    <3>2. CASE GenerateFunction
      BY <3>2 DEF GenerateFunction
    <3>3. CASE GenerateStruct
      BY <3>3 DEF GenerateStruct
    <3>4. CASE EndGenerating \/ Write
      BY <3>4 DEF EndGenerating, Write
    <3>5. CASE UNCHANGED vars
      BY <3>5 DEF vars
    <3> QED BY <1>4, <3>1, <3>2, <3>3, <3>4, <3>5
  <2>2. \A n : Candidates(n)' = Candidates(n)
    BY <2>1 DEF Candidates, Lookup
  <2>3. /\ Callers' = Callers /\ \A j : ByLine(j)' = ByLine(j)
        /\ \A j, ks : FieldTypes(j, ks)' = FieldTypes(j, ks)
        /\ \A t : t[1] # "ctor" => ParamsOf(t)' = ParamsOf(t)
    BY <2>1, ParamsStay DEF Callers, ByLine, PublicFields, Line, FieldTypes
  <2>4. \A j \in Callers : ResolvedTo(j) => ResolvedTo(j)'
    BY <2>1, <2>2, <2>3 DEF ResolvedTo
  <2> QED BY <2>1, <2>3, <2>4 DEF ResolvedInv
<1> QED BY <1>1, <1>2, <1>3, <1>4 DEF Next

-----------------------------------------------------------------------------
(* Generating.                                                              *)

\* What a bare name is looked up to.
LEMMA ResolveMeans ==
  ASSUME NamesInv, NEW n
  PROVE  \/ /\ n \in DOMAIN symbols /\ Resolve(n) = symbols[n] /\ StandsFor(n, Resolve(n))
         \/ /\ n \notin DOMAIN symbols /\ n \in DOMAIN overloads
            /\ Resolve(n) = overloads[n][1] /\ 1 \in DOMAIN overloads[n]
            /\ IsOverload(n, Resolve(n))
         \/ /\ n \notin DOMAIN symbols /\ n \notin DOMAIN overloads
            /\ \E b \in Builtins : n = Word(b) /\ Resolve(n) = <<"builtin", b>>
         \/ /\ n \notin DOMAIN symbols /\ n \notin DOMAIN overloads
            /\ Resolve(n) = NoSymbol
<1>1. CASE n \in DOMAIN symbols
  BY <1>1 DEF Resolve, NamesInv, SymbolsInv
<1>2. CASE n \notin DOMAIN symbols /\ n \in DOMAIN overloads
  <2>1. /\ overloads[n] \in Seq({"fn", "ctor"} \X Nat) /\ overloads[n] # <<>>
        /\ \A k \in DOMAIN overloads[n] : IsOverload(n, overloads[n][k])
    BY <1>2 DEF NamesInv, OverloadsInv, Arranged
  <2>2. 1 \in DOMAIN overloads[n]
    BY <2>1
  <2> QED BY <1>2, <2>1, <2>2 DEF Resolve
<1>3. CASE n \notin DOMAIN symbols /\ n \notin DOMAIN overloads /\ \E b \in Builtins : n = Word(b)
  <2>1. PICK b \in Builtins : n = Word(b)
    BY <1>3
  <2>2. n[1] = b
    BY <2>1 DEF Word
  <2> QED BY <1>3, <2>1, <2>2 DEF Resolve
<1>4. CASE n \notin DOMAIN symbols /\ n \notin DOMAIN overloads /\ ~ \E b \in Builtins : n = Word(b)
  BY <1>4 DEF Resolve
<1> QED BY <1>1, <1>2, <1>3, <1>4

\* The symbols of definitions and of built-in functions are symbols.
LEMMA MadeSymbols ==
  /\ \A kind \in {"fn", "struct", "ctor", "global"}, i \in DOMAIN program : <<kind, i>> \in Symbols
  /\ \A b \in Builtins : <<"builtin", b>> \in Symbols
<1>1. ASSUME NEW kind \in {"fn", "struct", "ctor", "global"}, NEW i \in DOMAIN program
      PROVE  <<kind, i>> \in Symbols
  <2>1. <<kind, i>> \in {"fn", "struct", "ctor", "global"} \X DOMAIN program
    OBVIOUS
  <2> QED BY <2>1 DEF Symbols
<1>2. ASSUME NEW b \in Builtins
      PROVE  <<"builtin", b>> \in Symbols
  <2>1. <<"builtin", b>> \in {"builtin"} \X Builtins
    OBVIOUS
  <2> QED BY <2>1 DEF Symbols
<1> QED BY <1>1, <1>2

\* A function that a bare name is looked up to is one of the program's, and
\* nothing hides it.
LEMMA FoundFunction ==
  ASSUME NamesInv, NEW i, NEW n, IsFunction(ResolveIn(i, n))
  PROVE  ResolveIn(i, n) = Resolve(n) /\ Resolve(n) \in Symbols
<1>1. ResolveIn(i, n) = Resolve(n)
  BY DEF ResolveIn, IsFunction
<1>2. DOMAIN parameters \subseteq DOMAIN program
  BY DEF NamesInv, ParametersInv, Structs, OfKind
<1>3. Resolve(n) # NoSymbol
  BY <1>1 DEF IsFunction, NoSymbol
<1>4. CASE StandsFor(n, Resolve(n)) \/ IsOverload(n, Resolve(n))
  BY <1>1, <1>2, <1>4, MadeSymbols DEF StandsFor, IsOverload, Functions, Structs, Globals, OfKind
<1>5. CASE \E b \in Builtins : n = Word(b) /\ Resolve(n) = <<"builtin", b>>
  BY <1>1, <1>5, MadeSymbols
<1> QED BY <1>1, <1>3, <1>4, <1>5, ResolveMeans

\* The structs of the name function i calls.
NamedSo(i) == {j \in Structs : program[j].name = program[i].call.name}

AnyOf(S) == CHOOSE x \in S : TRUE

\* Constructors first.
LEMMA CalledIs ==
  /\ \A i : CalledFunction(i) = IF NamedSo(i) # {} THEN <<"ctor", AnyOf(NamedSo(i))>>
                                ELSE ResolveIn(i, program[i].call.name)
  /\ \A i : CalledFunction(i)' = IF NamedSo(i)' # {} THEN <<"ctor", AnyOf(NamedSo(i)')>>
                                 ELSE ResolveIn(i, program[i].call.name)'
BY DEF CalledFunction, NamedSo, Structs, AnyOf

\* Once the names are collected, they are looked up to the same.
LEMMA LookupsStay ==
  ASSUME program' = program, symbols' = symbols, overloads' = overloads
  PROVE  /\ \A n : Resolve(n)' = Resolve(n)
         /\ \A i, n : ResolveIn(i, n)' = ResolveIn(i, n)
         /\ \A i : /\ Current(i)' = Current(i) /\ CalledFunction(i)' = CalledFunction(i)
                   /\ Body(i)' = Body(i) /\ Stores(i)' = Stores(i)
                   /\ PublicFields(i)' = PublicFields(i) /\ (Computed(i)' <=> Computed(i))
         /\ Functions' = Functions /\ Structs' = Structs /\ Callers' = Callers
         /\ Symbols' = Symbols
<1>1. \A n : Resolve(n)' = Resolve(n)
  BY DEF Resolve
<1>2. \A i, n : ResolveIn(i, n)' = ResolveIn(i, n)
  BY <1>1 DEF ResolveIn
<1>3. \A i : Current(i)' = Current(i)
  BY <1>2 DEF Current
<1>4. \A kind : OfKind(kind)' = OfKind(kind)
  BY DEF OfKind
<1>5. \A i : CalledFunction(i)' = CalledFunction(i)
  <2> SUFFICES ASSUME NEW i PROVE CalledFunction(i)' = CalledFunction(i)
    OBVIOUS
  <2>1. NamedSo(i)' = NamedSo(i)
    BY <1>4 DEF NamedSo, Structs
  <2> QED BY <1>2, <2>1, CalledIs
<1>6. \A i : Body(i)' = Body(i)
  BY <1>5 DEF Body
<1>7. \A i : PublicFields(i)' = PublicFields(i)
  BY DEF PublicFields
<1>8. \A i : Stores(i)' = Stores(i)
  BY <1>7 DEF Stores
<1>9. \A i : Computed(i)' <=> Computed(i)
  BY DEF Computed
<1>10. Functions' = Functions /\ Structs' = Structs /\ Callers' = Callers /\ Symbols' = Symbols
  BY <1>4 DEF Functions, Structs, Callers, Symbols
<1> QED BY <1>1, <1>2, <1>3, <1>5, <1>6, <1>7, <1>8, <1>9, <1>10

\* What occurs in code still does when code is appended to it.
LEMMA OccursInLonger ==
  ASSUME NEW S, NEW a \in Seq(S), NEW b \in Seq(S), NEW x
  PROVE  /\ a \o b \in Seq(S)
         /\ Occurs(x, a) => Occurs(x, a \o b)
         /\ Occurs(x, b) => Occurs(x, a \o b)
<1>1. a \o b \in Seq(S) /\ DOMAIN (a \o b) = 1..(Len(a) + Len(b))
  OBVIOUS
<1>2. ASSUME NEW k \in DOMAIN a
      PROVE  k \in DOMAIN (a \o b) /\ (a \o b)[k] = a[k]
  OBVIOUS
<1>3. ASSUME NEW k \in DOMAIN b
      PROVE  k + Len(a) \in DOMAIN (a \o b) /\ (a \o b)[k + Len(a)] = b[k]
  OBVIOUS
<1> QED BY <1>1, <1>2, <1>3 DEF Occurs

\* A body is a mark and at most one call.
LEMMA BodyShape ==
  ASSUME NEW i
  PROVE  /\ Occurs(<<"body", i>>, Body(i))
         /\ Calls(program[i]) => Occurs(<<"call", CalledFunction(i)>>, Body(i))
         /\ \A k \in DOMAIN Body(i) :
              \/ Body(i)[k] = <<"body", i>>
              \/ Calls(program[i]) /\ Body(i)[k] = <<"call", CalledFunction(i)>>
         /\ \A S : <<"body", i>> \in S
                  /\ (Calls(program[i]) => <<"call", CalledFunction(i)>> \in S) => Body(i) \in Seq(S)
<1> DEFINE x == <<"body", i>>
           y == <<"call", CalledFunction(i)>>
<1>1. CASE Calls(program[i])
  <2>1. Body(i) = <<x>> \o <<y>>
    BY <1>1 DEF Body
  <2> HIDE DEF x, y
  <2>2. ASSUME NEW S, x \in S, y \in S
        PROVE  /\ Body(i) \in Seq(S) /\ Len(Body(i)) = 2
               /\ Body(i)[1] = x /\ Body(i)[2] = y
    <3> DEFINE a == <<x>>
               b == <<y>>
    <3>1. a \in Seq(S) /\ Len(a) = 1 /\ a[1] = x /\ b \in Seq(S) /\ Len(b) = 1 /\ b[1] = y
      BY <2>2, OneElement
    <3> HIDE DEF a, b
    <3>2. Body(i) = a \o b
      BY <2>1 DEF a, b
    <3>3. /\ a \o b \in Seq(S) /\ Len(a \o b) = Len(a) + Len(b)
          /\ \A k \in 1..(Len(a) + Len(b)) : (a \o b)[k] = IF k <= Len(a) THEN a[k] ELSE b[k - Len(a)]
      BY <3>1, ConcatProperties
    <3>4. Len(a \o b) = 2 /\ (a \o b)[1] = a[1] /\ (a \o b)[2] = b[1]
      BY <3>1, <3>3
    <3> QED BY <3>1, <3>2, <3>3, <3>4
  <2>3. DOMAIN Body(i) = 1..2 /\ Body(i)[1] = x /\ Body(i)[2] = y
    <3>1. x \in {x, y} /\ y \in {x, y}
      OBVIOUS
    <3>2. Body(i) \in Seq({x, y}) /\ Len(Body(i)) = 2 /\ Body(i)[1] = x /\ Body(i)[2] = y
      BY <2>2, <3>1
    <3> QED BY <3>2
  <2>4. \A k \in 1..2 : k = 1 \/ k = 2
    OBVIOUS
  <2> QED BY <1>1, <2>2, <2>3, <2>4 DEF Occurs, x, y
<1>2. CASE ~Calls(program[i])
  <2>1. Body(i) = <<x>> \o <<>>
    BY <1>2 DEF Body
  <2> HIDE DEF x, y
  <2>2. Body(i) = <<x>>
    BY <2>1
  <2>3. DOMAIN Body(i) = 1..1 /\ Body(i)[1] = x
    BY <2>2
  <2>4. \A k \in 1..1 : k = 1
    OBVIOUS
  <2>5. ASSUME NEW S, x \in S PROVE Body(i) \in Seq(S)
    BY <2>2, <2>5
  <2> QED BY <1>2, <2>3, <2>4, <2>5 DEF Occurs, x, y
<1> QED BY <1>1, <1>2

\* Storing is an instruction, for each public field.
LEMMA StoresAreInstructions ==
  ASSUME ProgramInv, NEW i \in DOMAIN program
  PROVE  Stores(i) \in Seq({"put"} \X Nat \X Nat)
<1> DEFINE S == PublicFields(i)
           f == InOrder(S)
<1>1. S \in SUBSET Nat /\ IsFiniteSet(S)
  BY PublicFieldsAreIndices
<1>2. f \in [1..Cardinality(S) -> S] /\ Cardinality(S) \in Nat
  BY <1>1, InOrderIsSorted, ArrangementIsOnto
<1> HIDE DEF f, S
<1>3. Stores(i) = [n \in 1..Cardinality(S) |-> <<"put", f[n], f[n]>>]
  BY <1>2 DEF Stores, f, S
<1>4. \A n \in 1..Cardinality(S) : <<"put", f[n], f[n]>> \in {"put"} \X Nat \X Nat
  BY <1>1, <1>2
<1>5. Stores(i) \in [1..Cardinality(S) -> {"put"} \X Nat \X Nat]
  BY <1>3, <1>4
<1> QED BY <1>2, <1>5, IsASeq

\* Nothing is generated at first.
LEMMA InitGeneration == Init => GenerationInv
<1> SUFFICES ASSUME Init PROVE GenerationInv
  OBVIOUS
<1>1. phase = "collecting" /\ methods = <<>> /\ code = <<>> /\ DOMAIN methods = {}
  BY DEF Init
<1> QED BY <1>1 DEF GenerationInv, FoundInv, MethodsInv, CodeInv, MethodsHaveCode,
                    NothingGenerated, Generating

\* Before the generator starts there is nothing.
LEMMA NothingBefore ==
  ASSUME GenerationInv, methods' = methods, code' = code,
         phase \in {"collecting", "constructors", "checking"},
         phase' \in {"collecting", "constructors", "checking", "rejected", "aborted"}
  PROVE  GenerationInv'
<1>1. methods' = <<>> /\ code' = <<>>
  BY DEF GenerationInv, NothingGenerated
<1>2. DOMAIN methods' = {}
  BY <1>1
<1> QED BY <1>1, <1>2 DEF GenerationInv, FoundInv, MethodsInv, CodeInv, MethodsHaveCode,
                          NothingGenerated, Generating

\* Code generation starts with nothing.
LEMMA GenerationStarts ==
  ASSUME GenerationInv, EndChecking
  PROVE  GenerationInv'
<1>1. /\ phase' = "generating" /\ todo' = Functions \cup Structs /\ program' = program
      /\ methods' = <<>> /\ code' = <<>>
  BY DEF EndChecking, GenerationInv, NothingGenerated, Functions, Structs
<1>2. Functions' = Functions /\ Structs' = Structs
  BY <1>1 DEF Functions, Structs, OfKind
<1>3. Functions' \ todo' = {} /\ Structs' \ todo' = {}
  BY <1>1, <1>2
<1>4. DOMAIN methods' = {} /\ DOMAIN code' = {}
  BY <1>1
<1>5. FoundInv'
  BY <1>3 DEF FoundInv
<1>6. MethodsInv'
  <2>1. methods' \in Seq(Symbols')
    BY <1>1
  <2>2. <<>> \in [DOMAIN methods' -> Functions' \ todo']
    BY <1>4
  <2> QED BY <1>3, <1>4, <2>1, <2>2 DEF MethodsInv
<1>7. CodeInv'
  BY <1>3, <1>4 DEF CodeInv
<1>8. MethodsHaveCode' /\ NothingGenerated'
  BY <1>1, <1>4 DEF MethodsHaveCode, NothingGenerated
<1> QED BY <1>5, <1>6, <1>7, <1>8 DEF GenerationInv

\* A step that generates nothing.
LEMMA NothingMore ==
  ASSUME GenerationInv, Generating \/ phase' = phase,
         phase' \notin {"collecting", "constructors", "checking", "rejected"} \/ phase' = phase,
         program' = program, symbols' = symbols, overloads' = overloads,
         parameters' = parameters, methods' = methods, code' = code,
         Generating' => todo' = todo
  PROVE  GenerationInv'
<1>1. Generating' => Generating
  BY DEF Generating
<1>2. /\ \A i : /\ Current(i)' = Current(i) /\ CalledFunction(i)' = CalledFunction(i)
                /\ Body(i)' = Body(i) /\ Stores(i)' = Stores(i)
                /\ PublicFields(i)' = PublicFields(i) /\ (Computed(i)' <=> Computed(i))
      /\ Functions' = Functions /\ Structs' = Structs /\ Callers' = Callers
      /\ Symbols' = Symbols
  BY LookupsStay
<1>3. Generating' => Instructions' = Instructions
  BY <1>2 DEF Instructions
<1>4. FoundInv'
  BY <1>1, <1>2 DEF GenerationInv, FoundInv
<1>5. MethodsInv'
  BY <1>1, <1>2 DEF GenerationInv, MethodsInv
<1>6. CodeInv'
  BY <1>1, <1>2, <1>3 DEF GenerationInv, CodeInv
<1>7. MethodsHaveCode' /\ NothingGenerated'
  BY DEF GenerationInv, MethodsHaveCode, NothingGenerated, Generating
<1> QED BY <1>4, <1>5, <1>6, <1>7 DEF GenerationInv

\* Code appended to a symbol: what was there before stays.
LEMMA CodeGrows ==
  ASSUME NEW S, \A s \in DOMAIN code : code[s] \in Seq(S),
         NEW c, NEW more \in Seq(S), NEW before,
         before = Lookup(code, c, <<>>), code' = Put(code, c, before \o more)
  PROVE  /\ DOMAIN code' = DOMAIN code \cup {c}
         /\ \A s \in DOMAIN code' : code'[s] \in Seq(S)
         /\ \A s \in DOMAIN code : s # c => code'[s] = code[s]
         /\ \A x : \A s \in DOMAIN code : Occurs(x, code[s]) => Occurs(x, code'[s])
         /\ \A x : Occurs(x, more) => Occurs(x, code'[c])
         /\ c \notin DOMAIN code => code'[c] = more
<1>1. /\ DOMAIN code' = DOMAIN code \cup {c} /\ code'[c] = before \o more
      /\ \A s \in DOMAIN code : s # c => code'[s] = code[s]
  BY DEF Put
<1>2. before \in Seq(S) /\ (c \in DOMAIN code => before = code[c])
        /\ (c \notin DOMAIN code => before = <<>>)
  BY DEF Lookup
<1>3. /\ before \o more \in Seq(S)
      /\ \A x : Occurs(x, before) => Occurs(x, before \o more)
      /\ \A x : Occurs(x, more) => Occurs(x, before \o more)
  BY <1>2, OccursInLonger
<1>4. c \notin DOMAIN code => before \o more = more
  BY <1>2, ConcatEmptySeq
<1> QED BY <1>1, <1>2, <1>3, <1>4

\* Generating a function: its body goes to the symbol found.
LEMMA FunctionGenerated ==
  ASSUME NamesInv, GenerationInv, GenerateFunction
  PROVE  GenerationInv'
<1>0. PICK i, c, before : i = NextTodo /\ c = Current(i) /\ before = Lookup(code, c, <<>>)
  OBVIOUS
<1>1. /\ phase = "generating" /\ todo # {} /\ program[i].kind = "fn" /\ todo' = todo \ {i}
      /\ program' = program /\ symbols' = symbols /\ overloads' = overloads
      /\ parameters' = parameters
  BY <1>0 DEF GenerateFunction
<1>2. i \in todo /\ i \in DOMAIN program /\ i \in Nat
  BY <1>0, <1>1, NextIsFirst
<1>3. i \in Functions /\ i \notin Structs
  BY <1>1, <1>2 DEF Functions, Structs, OfKind
<1>4. CASE phase' = "aborted" /\ UNCHANGED <<methods, code>>
  BY <1>1, <1>4 DEF GenerationInv, FoundInv, MethodsInv, CodeInv, MethodsHaveCode,
                    NothingGenerated, Generating
<1>5. CASE ~ (phase' = "aborted" /\ UNCHANGED <<methods, code>>)
  <2>1. /\ IsFunction(c) /\ (Calls(program[i]) => IsFunction(CalledFunction(i)))
        /\ methods' = Append(methods, c) /\ code' = Put(code, c, before \o Body(i))
        /\ phase' = "generating"
    BY <1>0, <1>1, <1>5 DEF GenerateFunction, Current
  <2>2. /\ \A j : /\ Current(j)' = Current(j) /\ CalledFunction(j)' = CalledFunction(j)
                  /\ Body(j)' = Body(j) /\ Stores(j)' = Stores(j)
                  /\ PublicFields(j)' = PublicFields(j) /\ (Computed(j)' <=> Computed(j))
        /\ Functions' = Functions /\ Structs' = Structs /\ Callers' = Callers
        /\ Symbols' = Symbols
    BY <1>1, LookupsStay
  <2>3. /\ Functions \ todo' = (Functions \ todo) \cup {i} /\ Structs \ todo' = Structs \ todo
        /\ i \notin Functions \ todo
    BY <1>1, <1>2, <1>3
  <2>4. Generating /\ FoundInv /\ MethodsInv /\ CodeInv /\ MethodsHaveCode
    BY <1>1 DEF GenerationInv, Generating
  <2>5. Instructions \subseteq Instructions' /\ <<"body", i>> \in Instructions'
          /\ (Calls(program[i]) => <<"call", CalledFunction(i)>> \in Instructions')
    <3>1. Callers \ todo \subseteq Callers' \ todo'
      BY <1>1, <2>2
    <3>2. Calls(program[i]) => i \in Callers' \ todo'
      BY <1>1, <1>2, <2>2 DEF Callers
    <3>3. <<"body", i>> \in {"body"} \X Nat
      BY <1>2
    <3> QED BY <2>2, <3>1, <3>2, <3>3 DEF Instructions
  <2>6. Body(i) \in Seq(Instructions')
    BY <2>5, BodyShape
  <2>7. \A s \in DOMAIN code : code[s] \in Seq(Instructions')
    <3>1. Seq(Instructions) \subseteq Seq(Instructions')
      BY <2>5, SeqMonotonic
    <3> QED BY <2>4, <3>1 DEF CodeInv
  <2>8. /\ DOMAIN code' = DOMAIN code \cup {c}
        /\ \A s \in DOMAIN code' : code'[s] \in Seq(Instructions')
        /\ \A s \in DOMAIN code : s # c => code'[s] = code[s]
        /\ \A x : \A s \in DOMAIN code : Occurs(x, code[s]) => Occurs(x, code'[s])
        /\ \A x : Occurs(x, Body(i)) => Occurs(x, code'[c])
        /\ c \notin DOMAIN code => code'[c] = Body(i)
    <3>1. PICK S, more : S = Instructions' /\ more = Body(i)
      OBVIOUS
    <3>2. /\ \A s \in DOMAIN code : code[s] \in Seq(S)
          /\ more \in Seq(S) /\ code' = Put(code, c, before \o more)
          /\ before = Lookup(code, c, <<>>)
      BY <1>0, <2>1, <2>6, <2>7, <3>1
    <3>3. /\ DOMAIN code' = DOMAIN code \cup {c}
          /\ \A s \in DOMAIN code' : code'[s] \in Seq(S)
          /\ \A s \in DOMAIN code : s # c => code'[s] = code[s]
          /\ \A x : \A s \in DOMAIN code : Occurs(x, code[s]) => Occurs(x, code'[s])
          /\ \A x : Occurs(x, more) => Occurs(x, code'[c])
          /\ c \notin DOMAIN code => code'[c] = more
      BY <3>2, CodeGrows
    <3> QED BY <3>1, <3>3
  <2>9. FoundInv'
    <3>1. \A j \in Functions \ todo' :
            IsFunction(Current(j)) /\ (Calls(program[j]) => IsFunction(CalledFunction(j)))
      BY <1>0, <2>1, <2>3, <2>4 DEF FoundInv
    <3> QED BY <1>1, <2>2, <2>3, <2>4, <3>1 DEF FoundInv
  <2>10. MethodsInv'
    <3>1. PICK order \in [DOMAIN methods -> Functions \ todo] :
            /\ \A k, m \in DOMAIN methods : order[k] = order[m] => k = m
            /\ \A j \in Functions \ todo : \E k \in DOMAIN methods : order[k] = j
            /\ \A k \in DOMAIN methods : methods[k] = Current(order[k])
      BY <2>4 DEF MethodsInv
    <3>2. c \in Symbols
      BY <1>0, <2>1, FoundFunction DEF Current
    <3>3. /\ methods' \in Seq(Symbols) /\ DOMAIN methods' = 1..(Len(methods) + 1)
          /\ DOMAIN methods = 1..Len(methods) /\ Len(methods) \in Nat
          /\ \A k \in DOMAIN methods : methods'[k] = methods[k]
          /\ methods'[Len(methods) + 1] = c
      BY <2>1, <2>4, <3>2, AppendProperties DEF MethodsInv
    <3>4. PICK last : last = Len(methods) + 1
      OBVIOUS
    <3>5. DOMAIN methods' = DOMAIN methods \cup {last} /\ last \notin DOMAIN methods
            /\ methods'[last] = c
      BY <3>3, <3>4
    <3>6. PICK longer : longer = [k \in DOMAIN methods' |-> IF k = last THEN i ELSE order[k]]
      OBVIOUS
    <3>7. longer[last] = i /\ \A k \in DOMAIN methods : longer[k] = order[k]
      BY <3>5, <3>6
    <3>8. longer \in [DOMAIN methods' -> Functions' \ todo']
      BY <2>2, <2>3, <3>1, <3>5, <3>6
    <3>9. \A k, m \in DOMAIN methods' : longer[k] = longer[m] => k = m
      BY <2>3, <3>1, <3>5, <3>7
    <3>10. \A j \in Functions' \ todo' : \E k \in DOMAIN methods' : longer[k] = j
      BY <2>2, <2>3, <3>1, <3>5, <3>7
    <3>11. \A k \in DOMAIN methods' : methods'[k] = Current(longer[k])
      BY <1>0, <3>1, <3>3, <3>5, <3>7
    <3>12. \A k \in DOMAIN methods' : methods'[k] = Current(longer[k])'
      BY <2>2, <3>11
    <3>13. methods' \in Seq(Symbols')
      BY <2>2, <3>3
    <3> QED BY <3>8, <3>9, <3>10, <3>12, <3>13 DEF MethodsInv
  <2>11. CodeInv'
    <3>1. ASSUME NEW j \in Functions \ todo'
          PROVE  /\ Current(j) \in DOMAIN code'
                 /\ Occurs(<<"body", j>>, code'[Current(j)])
                 /\ Calls(program[j]) => Occurs(<<"call", CalledFunction(j)>>, code'[Current(j)])
                 /\ Current(j)[1] # "ctor"
                      /\ (\A k \in Functions \ todo' : Current(k) = Current(j) => k = j)
                      => code'[Current(j)] = Body(j)
      <4>1. CASE j = i
        <5>1. Occurs(<<"body", i>>, Body(i))
                /\ (Calls(program[i]) => Occurs(<<"call", CalledFunction(i)>>, Body(i)))
          BY BodyShape
        <5>2. ASSUME c[1] # "ctor", \A k \in Functions \ todo' : Current(k) = c => k = i
              PROVE  c \notin DOMAIN code
          <6>1. \A k \in Functions \ todo : Current(k) # c
            BY <2>3, <5>2
          <6>2. \A k : c # <<"ctor", k>>
            BY <5>2
          <6> QED BY <2>4, <6>1, <6>2 DEF CodeInv
        <5> QED BY <1>0, <2>8, <4>1, <5>1, <5>2
      <4>2. CASE j # i
        <5>1. j \in Functions \ todo
          BY <2>3, <4>2
        <5>2. /\ Current(j) \in DOMAIN code
              /\ Occurs(<<"body", j>>, code[Current(j)])
              /\ Calls(program[j]) => Occurs(<<"call", CalledFunction(j)>>, code[Current(j)])
              /\ Current(j)[1] # "ctor"
                   /\ (\A k \in Functions \ todo : Current(k) = Current(j) => k = j)
                   => code[Current(j)] = Body(j)
          BY <2>4, <5>1 DEF CodeInv
        <5>3. ASSUME \A k \in Functions \ todo' : Current(k) = Current(j) => k = j
              PROVE  code'[Current(j)] = code[Current(j)]
          BY <1>0, <2>3, <2>8, <4>2, <5>2, <5>3
        <5> QED BY <2>3, <2>8, <5>2, <5>3
      <4> QED BY <4>1, <4>2
    <3>2. ASSUME NEW j \in Structs \ todo'
          PROVE  /\ <<"ctor", j>> \in DOMAIN code'
                 /\ (\A k \in Functions \ todo' : Current(k) # <<"ctor", j>>)
                      => code'[<<"ctor", j>>] = Stores(j)
      BY <1>0, <2>3, <2>4, <2>8 DEF CodeInv
    <3>3. \A s \in DOMAIN code' :
            \/ \E j \in Functions \ todo' : s = Current(j)
            \/ \E j \in Structs \ todo' : s = <<"ctor", j>>
      BY <1>0, <2>3, <2>4, <2>8 DEF CodeInv
    <3> QED BY <1>1, <2>2, <2>8, <3>1, <3>2, <3>3 DEF CodeInv
  <2>12. MethodsHaveCode' /\ NothingGenerated'
    <3>1. DOMAIN methods' = DOMAIN methods \cup {Len(methods) + 1}
            /\ methods'[Len(methods) + 1] = c
            /\ \A k \in DOMAIN methods : methods'[k] = methods[k]
      <4>1. c \in Symbols
        BY <1>0, <2>1, FoundFunction DEF Current
      <4>2. methods \in Seq(Symbols)
        BY <2>4 DEF MethodsInv
      <4> QED BY <2>1, <4>1, <4>2, AppendProperties
    <3> QED BY <2>1, <2>4, <2>8, <3>1 DEF MethodsHaveCode, NothingGenerated
  <2> QED BY <2>9, <2>10, <2>11, <2>12 DEF GenerationInv
<1> QED BY <1>4, <1>5

\* Generating a struct: the stores go to its constructor.
LEMMA StructGenerated ==
  ASSUME NamesInv, GenerationInv, GenerateStruct
  PROVE  GenerationInv'
<1>0. PICK i, c, before : i = NextTodo /\ c = <<"ctor", i>> /\ before = Lookup(code, c, <<>>)
  OBVIOUS
<1>1. /\ phase = "generating" /\ todo # {} /\ program[i].kind = "struct" /\ todo' = todo \ {i}
      /\ program' = program /\ symbols' = symbols /\ overloads' = overloads
      /\ methods' = methods
  BY <1>0 DEF GenerateStruct
<1>2. i \in todo /\ i \in DOMAIN program /\ i \in Nat
  BY <1>0, <1>1, NextIsFirst
<1>3. i \in Structs /\ i \notin Functions /\ i \notin Callers
  <2>1. i \in Structs /\ i \notin Functions
    BY <1>1, <1>2 DEF Functions, Structs, OfKind
  <2>2. program[i].call = NoCall
    BY <1>1, <1>2 DEF NamesInv, ProgramInv, WellMade
  <2> QED BY <2>1, <2>2 DEF Callers, Calls
<1>4. CASE Computed(i)
  <2>1. phase' = "aborted" /\ code' = code
    BY <1>0, <1>4 DEF GenerateStruct, Computed
  <2> QED BY <1>1, <2>1 DEF GenerationInv, FoundInv, MethodsInv, CodeInv, MethodsHaveCode,
                            NothingGenerated, Generating
<1>5. CASE ~Computed(i)
  <2>1. /\ parameters' = [parameters EXCEPT ![i] = InOrder(PublicFields(i))]
        /\ code' = Put(code, c, before \o Stores(i)) /\ phase' = "generating"
    BY <1>0, <1>1, <1>5 DEF GenerateStruct, Computed
  <2>2. /\ \A j : /\ Current(j)' = Current(j) /\ CalledFunction(j)' = CalledFunction(j)
                  /\ Body(j)' = Body(j) /\ Stores(j)' = Stores(j)
                  /\ PublicFields(j)' = PublicFields(j) /\ (Computed(j)' <=> Computed(j))
        /\ Functions' = Functions /\ Structs' = Structs /\ Callers' = Callers
        /\ Symbols' = Symbols
    BY <1>1, LookupsStay
  <2>3. /\ Structs \ todo' = (Structs \ todo) \cup {i} /\ Functions \ todo' = Functions \ todo
        /\ i \notin Structs \ todo /\ Callers \ todo' = Callers \ todo
    BY <1>1, <1>2, <1>3
  <2>4. Generating /\ FoundInv /\ MethodsInv /\ CodeInv /\ MethodsHaveCode
    BY <1>1 DEF GenerationInv, Generating
  <2>5. Instructions' = Instructions
    BY <2>2, <2>3 DEF Instructions
  <2>6. Stores(i) \in Seq(Instructions)
    <3>1. Stores(i) \in Seq({"put"} \X Nat \X Nat)
      BY <1>2, StoresAreInstructions DEF NamesInv
    <3>2. {"put"} \X Nat \X Nat \subseteq Instructions
      BY DEF Instructions
    <3> QED BY <3>1, <3>2, SeqMonotonic
  <2>7. /\ DOMAIN code' = DOMAIN code \cup {c}
        /\ \A s \in DOMAIN code' : code'[s] \in Seq(Instructions)
        /\ \A s \in DOMAIN code : s # c => code'[s] = code[s]
        /\ \A x : \A s \in DOMAIN code : Occurs(x, code[s]) => Occurs(x, code'[s])
        /\ c \notin DOMAIN code => code'[c] = Stores(i)
    <3>1. PICK S, more : S = Instructions /\ more = Stores(i)
      OBVIOUS
    <3>2. /\ \A s \in DOMAIN code : code[s] \in Seq(S)
          /\ more \in Seq(S) /\ code' = Put(code, c, before \o more)
          /\ before = Lookup(code, c, <<>>)
      BY <1>0, <2>1, <2>4, <2>6, <3>1 DEF CodeInv
    <3>3. /\ DOMAIN code' = DOMAIN code \cup {c}
          /\ \A s \in DOMAIN code' : code'[s] \in Seq(S)
          /\ \A s \in DOMAIN code : s # c => code'[s] = code[s]
          /\ \A x : \A s \in DOMAIN code : Occurs(x, code[s]) => Occurs(x, code'[s])
          /\ c \notin DOMAIN code => code'[c] = more
      BY <3>2, CodeGrows
    <3> QED BY <3>1, <3>3
  <2>8. FoundInv'
    <3>1. DOMAIN parameters = Structs
      BY <1>1 DEF NamesInv, ParametersInv
    <3>2. \A j \in Structs \ todo' : ~Computed(j) /\ parameters'[j] = InOrder(PublicFields(j))
      BY <1>5, <2>1, <2>3, <2>4, <3>1 DEF FoundInv
    <3>3. \A j \in Functions \ todo' :
            IsFunction(Current(j)) /\ (Calls(program[j]) => IsFunction(CalledFunction(j)))
      BY <2>3, <2>4 DEF FoundInv
    <3>4. \A j : InOrder(PublicFields(j))' = InOrder(PublicFields(j))
      BY <2>2
    <3> QED BY <1>1, <2>2, <3>2, <3>3, <3>4 DEF FoundInv
  <2>9. MethodsInv'
    BY <1>1, <2>2, <2>3, <2>4 DEF MethodsInv
  <2>10. CodeInv'
    <3>1. ASSUME NEW j \in Functions \ todo'
          PROVE  /\ Current(j) \in DOMAIN code'
                 /\ Occurs(<<"body", j>>, code'[Current(j)])
                 /\ Calls(program[j]) => Occurs(<<"call", CalledFunction(j)>>, code'[Current(j)])
                 /\ Current(j)[1] # "ctor"
                      /\ (\A k \in Functions \ todo' : Current(k) = Current(j) => k = j)
                      => code'[Current(j)] = Body(j)
      <4>1. /\ Current(j) \in DOMAIN code
            /\ Occurs(<<"body", j>>, code[Current(j)])
            /\ Calls(program[j]) => Occurs(<<"call", CalledFunction(j)>>, code[Current(j)])
            /\ Current(j)[1] # "ctor"
                 /\ (\A k \in Functions \ todo : Current(k) = Current(j) => k = j)
                 => code[Current(j)] = Body(j)
        BY <2>3, <2>4 DEF CodeInv
      <4>2. Current(j)[1] # "ctor" => code'[Current(j)] = code[Current(j)]
        BY <1>0, <2>7, <4>1
      <4> QED BY <2>3, <2>7, <4>1, <4>2
    <3>2. ASSUME NEW j \in Structs \ todo'
          PROVE  /\ <<"ctor", j>> \in DOMAIN code'
                 /\ (\A k \in Functions \ todo' : Current(k) # <<"ctor", j>>)
                      => code'[<<"ctor", j>>] = Stores(j)
      <4>1. CASE j = i
        <5>1. ASSUME \A k \in Functions \ todo' : Current(k) # c
              PROVE  c \notin DOMAIN code
          BY <1>0, <2>3, <2>4, <5>1 DEF CodeInv
        <5> QED BY <1>0, <2>7, <4>1, <5>1
      <4>2. CASE j # i
        <5>1. j \in Structs \ todo
          BY <2>3, <4>2
        <5>2. /\ <<"ctor", j>> \in DOMAIN code
              /\ (\A k \in Functions \ todo : Current(k) # <<"ctor", j>>)
                   => code[<<"ctor", j>>] = Stores(j)
          BY <2>4, <5>1 DEF CodeInv
        <5>3. <<"ctor", j>> # c
          BY <1>0, <4>2
        <5> QED BY <2>3, <2>7, <5>2, <5>3
      <4> QED BY <4>1, <4>2
    <3>3. \A s \in DOMAIN code' :
            \/ \E j \in Functions \ todo' : s = Current(j)
            \/ \E j \in Structs \ todo' : s = <<"ctor", j>>
      BY <1>0, <2>3, <2>4, <2>7 DEF CodeInv
    <3> QED BY <1>1, <2>2, <2>5, <2>7, <3>1, <3>2, <3>3 DEF CodeInv
  <2>11. MethodsHaveCode' /\ NothingGenerated'
    BY <1>1, <2>1, <2>4, <2>7 DEF MethodsHaveCode, NothingGenerated
  <2> QED BY <2>8, <2>9, <2>10, <2>11 DEF GenerationInv
<1> QED BY <1>4, <1>5

\* What the generator has made, in every step.
LEMMA GenerationStep == NamesInv /\ GenerationInv /\ [Next]_vars => GenerationInv'
<1> SUFFICES ASSUME NamesInv, GenerationInv, [Next]_vars PROVE GenerationInv'
  OBVIOUS
<1>1. CASE \/ \E d \in Definitions : Collect(d)
           \/ EndCollection \/ CreateConstructor \/ EndConstructors \/ CheckCall
  <2>1. /\ methods' = methods /\ code' = code
        /\ phase \in {"collecting", "constructors", "checking"}
        /\ phase' \in {"collecting", "constructors", "checking", "rejected", "aborted"}
    <3>1. CASE \E d \in Definitions : Collect(d)
      BY <3>1 DEF Collect, AddFunction, AddOther, AfterRedeclaration
    <3>2. CASE EndCollection \/ EndConstructors
      BY <3>2 DEF EndCollection, EndConstructors
    <3>3. CASE CreateConstructor
      BY <3>3 DEF CreateConstructor, AddFunction
    <3>4. CASE CheckCall
      BY <3>4 DEF CheckCall
    <3> QED BY <1>1, <3>1, <3>2, <3>3, <3>4
  <2> QED BY <2>1, NothingBefore
<1>2. CASE EndChecking
  BY <1>2, GenerationStarts
<1>3. CASE GenerateFunction
  BY <1>3, FunctionGenerated
<1>4. CASE GenerateStruct
  BY <1>4, StructGenerated
<1>5. CASE EndGenerating \/ Write \/ UNCHANGED vars
  <2>1. /\ program' = program /\ symbols' = symbols /\ overloads' = overloads
        /\ parameters' = parameters /\ methods' = methods /\ code' = code /\ todo' = todo
        /\ Generating \/ phase' = phase
        /\ phase' \notin {"collecting", "constructors", "checking", "rejected"} \/ phase' = phase
    <3>1. CASE EndGenerating
      BY <3>1 DEF EndGenerating, Generating
    <3>2. CASE Write
      BY <3>2 DEF Write, Generating
    <3>3. CASE UNCHANGED vars
      BY <3>3 DEF vars
    <3> QED BY <1>5, <3>1, <3>2, <3>3
  <2> QED BY <2>1, NothingMore
<1> QED BY <1>1, <1>2, <1>3, <1>4, <1>5 DEF Next

\* The inductive invariant.
LinkageInv == NamesInv /\ ResolvedInv /\ GenerationInv

\* The inductive invariant: names, resolved calls and generated code.
THEOREM LinkageInvHolds == Spec => []LinkageInv
<1>1. Init => LinkageInv
  BY InitNames, InitResolved, InitGeneration DEF LinkageInv
<1>2. LinkageInv /\ [Next]_vars => LinkageInv'
  BY NamesStep, ResolvedStep, GenerationStep DEF LinkageInv
<1> QED BY <1>1, <1>2, PTL DEF Spec

-----------------------------------------------------------------------------
(* The properties.                                                          *)

\* What a function or a constructor is, by its symbol.
LEMMA OverloadMeans ==
  ASSUME NamesInv, NEW n, NEW s, IsOverload(n, s)
  PROVE  /\ IsFunction(s) /\ NameOf(s) = n
         /\ s[1] = "fn" => /\ s = <<"fn", s[2]>> /\ s[2] \in Functions
                           /\ program[s[2]].name = n /\ ParamsOf(s) = program[s[2]].params
                           /\ Stored(Mangling(s[2]), s)
         /\ s[1] # "fn" => /\ s = <<"ctor", s[2]>> /\ s[2] \in DOMAIN parameters
                           /\ s[2] \in Structs /\ program[s[2]].name = n
                           /\ \E ks \in ByLine(s[2]) : Stored(ConstructorName(s[2], ks), s)
<1>1. CASE \E i \in Functions :
             s = <<"fn", i>> /\ n = program[i].name /\ Stored(Mangling(i), s)
  <2>1. PICK i \in Functions : s = <<"fn", i>> /\ n = program[i].name /\ Stored(Mangling(i), s)
    BY <1>1
  <2>2. s[1] = "fn" /\ s[2] = i
    BY <2>1
  <2> QED BY <2>1, <2>2 DEF IsFunction, NameOf, ParamsOf
<1>2. CASE \E i \in DOMAIN parameters :
             /\ s = <<"ctor", i>> /\ n = program[i].name
             /\ \E ks \in ByLine(i) : Stored(ConstructorName(i, ks), s)
  <2>1. PICK i \in DOMAIN parameters :
          /\ s = <<"ctor", i>> /\ n = program[i].name
          /\ \E ks \in ByLine(i) : Stored(ConstructorName(i, ks), s)
    BY <1>2
  <2>2. s[1] = "ctor" /\ s[2] = i /\ i \in Structs
    BY <2>1 DEF NamesInv, ParametersInv
  <2> QED BY <2>1, <2>2 DEF IsFunction, NameOf
<1> QED BY <1>1, <1>2 DEF IsOverload

\* Every function in an overload list is the one its mangled name stands for,
\* and every method is a function that has code.
THEOREM TypeCorrect == Spec => []TypeOK
<1>1. LinkageInv => TypeOK
  <2> SUFFICES ASSUME LinkageInv PROVE TypeOK
    OBVIOUS
  <2>1. NamesInv /\ MethodsHaveCode
    BY DEF LinkageInv, GenerationInv
  <2>2. phase \in Phases /\ todo \subseteq DOMAIN program
    BY <2>1 DEF NamesInv, TodoInv
  <2>3. ASSUME NEW n \in DOMAIN symbols
        PROVE  symbols[n] \in Symbols
    <3>1. StandsFor(n, symbols[n]) /\ DOMAIN parameters \subseteq DOMAIN program
      BY <2>1 DEF NamesInv, SymbolsInv, ParametersInv, Structs, OfKind
    <3> QED BY <3>1, MadeSymbols DEF StandsFor, Functions, Structs, Globals, OfKind
  <2>4. ASSUME NEW n \in DOMAIN overloads, NEW k \in DOMAIN overloads[n]
        PROVE  /\ IsFunction(overloads[n][k]) /\ NameOf(overloads[n][k]) = n
               /\ overloads[n][k][1] = "fn" =>
                    symbols[Mangled(n, ParamsOf(overloads[n][k]))] = overloads[n][k]
    <3>1. IsOverload(n, overloads[n][k])
      BY <2>1, <2>4 DEF NamesInv, OverloadsInv
    <3> QED BY <2>1, <3>1, OverloadMeans DEF Stored, Mangling
  <2> QED BY <2>1, <2>2, <2>3, <2>4 DEF TypeOK, MethodsHaveCode
<1> QED BY <1>1, LinkageInvHolds, PTL

\* A name that is looked up to a function of the program is its name, or its
\* mangled name; only one function is stored under a mangled name.
LEMMA FoundNames ==
  ASSUME NamesInv, NEW n, NEW i
  PROVE  /\ Resolve(n) = <<"fn", i>> =>
              i \in Functions /\ n \in {program[i].name, Mangling(i)}
         /\ Resolve(n) = <<"ctor", i>> =>
              /\ i \in Structs
              /\ n = program[i].name \/ \E ks \in ByLine(i) : n = ConstructorName(i, ks)
<1>1. DOMAIN parameters \subseteq Structs
  BY DEF NamesInv, ParametersInv
<1>2. CASE StandsFor(n, Resolve(n))
  BY <1>1, <1>2 DEF StandsFor
<1>3. CASE IsOverload(n, Resolve(n))
  BY <1>1, <1>3 DEF IsOverload
<1>4. CASE \E b \in Builtins : n = Word(b) /\ Resolve(n) = <<"builtin", b>>
  BY <1>4
<1>5. CASE Resolve(n) = NoSymbol
  BY <1>5 DEF NoSymbol
<1> QED BY <1>2, <1>3, <1>4, <1>5, ResolveMeans

\* While nothing is rejected, what is collected is stored.
LEMMA EverythingStored ==
  ASSUME NamesInv, phase \notin {"rejected", "aborted"}
  PROVE  /\ \A i \in Functions : /\ program[i].name \in DOMAIN overloads
                                 /\ Overloaded(program[i].name, <<"fn", i>>)
                                 /\ Stored(Mangling(i), <<"fn", i>>)
         /\ \A i \in Structs : Stored(program[i].name, <<"struct", i>>)
         /\ \A i \in Globals : Stored(program[i].name, <<"global", i>>)
         /\ \A i \in DOMAIN parameters :
              /\ program[i].name \in DOMAIN overloads
              /\ Overloaded(program[i].name, <<"ctor", i>>)
              /\ \E ks \in ByLine(i) : Stored(ConstructorName(i, ks), <<"ctor", i>>)
<1>1. /\ \A i \in Functions : Overloaded(program[i].name, <<"fn", i>>)
      /\ \A i \in Structs : Stored(program[i].name, <<"struct", i>>)
      /\ \A i \in Globals : Stored(program[i].name, <<"global", i>>)
      /\ \A i \in DOMAIN parameters : Overloaded(program[i].name, <<"ctor", i>>)
  BY DEF NamesInv, RegisteredInv
<1>2. \A n, s : Overloaded(n, s) => n \in DOMAIN overloads /\ IsOverload(n, s)
  BY DEF Overloaded, NamesInv, OverloadsInv
<1>3. \A n, i : IsOverload(n, <<"fn", i>>) => Stored(Mangling(i), <<"fn", i>>)
  BY DEF IsOverload
<1>4. \A n, i : IsOverload(n, <<"ctor", i>>) =>
        \E ks \in ByLine(i) : Stored(ConstructorName(i, ks), <<"ctor", i>>)
  BY DEF IsOverload
<1> QED BY <1>1, <1>2, <1>3, <1>4

\* The mangled name of a definition is no name of one word, nor its own name.
LEMMA ManglingShape ==
  ASSUME NamesInv, NEW i \in DOMAIN program
  PROVE  /\ program[i].name \in Seq(Words) /\ program[i].params \in Seq(Types)
         /\ Mangling(i) # program[i].name /\ \A w : Mangling(i) # Word(w)
<1>1. program[i] \in DefinitionSet /\ program[i].name # NoName
  <2>1. program[i] \in DefinitionSet /\ WellMade(program[i])
    BY DEF NamesInv, ProgramInv
  <2> QED BY <2>1 DEF WellMade
<1>2. program[i].name \in Seq(Words) /\ program[i].params \in Seq(Types)
  BY <1>1 DEF DefinitionSet
<1> QED BY <1>1, <1>2, MangledShape DEF Mangling

\* And so is that of a constructor, which is the struct's if no line is crowded.
LEMMA ConstructorShape ==
  ASSUME NamesInv, NEW i \in Structs, NEW ks \in ByLine(i)
  PROVE  /\ FieldTypes(i, ks) \in Seq(Types)
         /\ \A w : ConstructorName(i, ks) # Word(w)
         /\ ConstructorName(i, ks) # program[i].name
         /\ Crowded(i) => Unsure(ConstructorName(i, ks))
         /\ ~Crowded(i) => FieldTypes(i, ks) = program[i].params
                            /\ ConstructorName(i, ks) = Mangling(i)
<1>1. i \in DOMAIN program /\ ProgramInv
  BY DEF Structs, OfKind, NamesInv
<1>2. program[i].name \in Seq(Words) /\ program[i].name # NoName
  BY <1>1, ManglingShape DEF ProgramInv, WellMade
<1>3. FieldTypes(i, ks) \in Seq(Types)
  <2> DEFINE S == PublicFields(i)
  <2>1. /\ S \in SUBSET Nat /\ IsFiniteSet(S) /\ program[i].fields \in Seq(FieldSet)
        /\ S \subseteq DOMAIN program[i].fields
    BY <1>1, PublicFieldsAreIndices
  <2>2. ks \in [1..Cardinality(S) -> S] /\ Cardinality(S) \in Nat
    BY <2>1, ArrangementIsOnto DEF ByLine
  <2> HIDE DEF S
  <2>3. \A k \in S : program[i].fields[k] \in FieldSet
    BY <2>1
  <2>4. \A n \in 1..Cardinality(S) : program[i].fields[ks[n]].type \in Types
    BY <2>2, <2>3 DEF FieldSet
  <2>5. FieldTypes(i, ks) \in [1..Cardinality(S) -> Types]
    BY <2>2, <2>4 DEF FieldTypes
  <2> QED BY <2>2, <2>5, IsASeq
<1>4. ConstructorName(i, ks) # program[i].name /\ \A w : ConstructorName(i, ks) # Word(w)
  BY <1>2, <1>3, MangledShape DEF ConstructorName
<1>5. ~Crowded(i) => FieldTypes(i, ks) = program[i].params
  BY <1>1, UncrowdedTypes
<1> QED BY <1>3, <1>4, <1>5 DEF ConstructorName, Unsure, Mangling

\* A struct's parameters are the types of one of the orders its fields come in.
LEMMA OwnOrder ==
  ASSUME NamesInv, NEW i \in Structs
  PROVE  \E ks \in ByLine(i) : ConstructorName(i, ks) = Mangling(i)
<1>1. i \in DOMAIN program /\ program[i].kind = "struct" /\ ProgramInv
  BY DEF Structs, OfKind, NamesInv
<1>2. InOrder(PublicFields(i)) \in ByLine(i)
  BY <1>1, InOrderIsByLine
<1>3. FieldTypes(i, InOrder(PublicFields(i))) = program[i].params
  BY <1>1 DEF ProgramInv, WellMade, FieldTypes, PublicFields
<1> QED BY <1>2, <1>3 DEF ConstructorName, Mangling

\* When all is generated: what the symbol a function's name is looked up to
\* says about that function.
Finished == LinkageInv /\ phase \in {"writing", "done"}

\* What LinkageInv says when every definition has been visited.
LEMMA FinishedMeans ==
  ASSUME Finished
  PROVE  /\ NamesInv /\ phase \notin {"rejected", "aborted"} /\ todo = {}
         /\ \A i \in Functions : /\ IsFunction(Current(i))
                                 /\ Current(i) = Resolve(program[i].name)
                                 /\ Calls(program[i]) => IsFunction(CalledFunction(i))
         /\ \A i \in Functions :
              /\ Current(i) \in DOMAIN code
              /\ Occurs(<<"body", i>>, code[Current(i)])
              /\ Calls(program[i]) => Occurs(<<"call", CalledFunction(i)>>, code[Current(i)])
              /\ Current(i)[1] # "ctor" /\ (\A j \in Functions : Current(j) = Current(i) => j = i)
                   => code[Current(i)] = Body(i)
         /\ \E order \in [DOMAIN methods -> Functions] :
              /\ \A k, m \in DOMAIN methods : order[k] = order[m] => k = m
              /\ \A i \in Functions : \E k \in DOMAIN methods : order[k] = i
              /\ \A k \in DOMAIN methods : methods[k] = Current(order[k])
<1>1. NamesInv /\ FoundInv /\ MethodsInv /\ CodeInv /\ Generating
  BY DEF Finished, LinkageInv, GenerationInv, Generating
<1>2. todo = {} /\ phase \notin {"rejected", "aborted"}
  BY <1>1 DEF Finished, NamesInv, TodoInv
<1>3. Functions \ todo = Functions
  BY <1>2
<1>4. \A i \in Functions : IsFunction(Current(i)) /\ (Calls(program[i]) => IsFunction(CalledFunction(i)))
  BY <1>1, <1>3 DEF FoundInv
<1>5. \A i \in Functions : Current(i) = Resolve(program[i].name)
  BY <1>1, <1>4, FoundFunction DEF Current
<1>6. \A i \in Functions :
        /\ Current(i) \in DOMAIN code
        /\ Occurs(<<"body", i>>, code[Current(i)])
        /\ Calls(program[i]) => Occurs(<<"call", CalledFunction(i)>>, code[Current(i)])
        /\ Current(i)[1] # "ctor" /\ (\A j \in Functions : Current(j) = Current(i) => j = i)
             => code[Current(i)] = Body(i)
  BY <1>1, <1>3 DEF CodeInv
<1>7. \E order \in [DOMAIN methods -> Functions] :
        /\ \A k, m \in DOMAIN methods : order[k] = order[m] => k = m
        /\ \A i \in Functions : \E k \in DOMAIN methods : order[k] = i
        /\ \A k \in DOMAIN methods : methods[k] = Current(order[k])
  BY <1>1, <1>3 DEF MethodsInv
<1> QED BY <1>1, <1>2, <1>4, <1>5, <1>6, <1>7

\* The written names of the functions of a finished program tell them apart.
LEMMA WrittenApart ==
  ASSUME Finished, NEW i \in Functions, NEW j \in Functions, ~SameName(i, j) \/ i = j,
         WrittenName(<<"fn", i>>) = WrittenName(<<"fn", j>>)
  PROVE  i = j
<1>1. /\ \A k : <<"fn", k>>[1] = "fn" /\ <<"fn", k>>[2] = k
      /\ NamesInv /\ i \in DOMAIN program /\ j \in DOMAIN program
  BY FinishedMeans DEF Functions, OfKind
<1>2. \A k : WrittenName(<<"fn", k>>) = IF program[k].name = Word("main") THEN Word("main")
                                       ELSE Mangling(k)
  BY <1>1 DEF WrittenName, NameOf, ParamsOf, Mangling
<1>3. \A w : Mangling(i) # Word(w) /\ Mangling(j) # Word(w)
  BY <1>1, ManglingShape
<1>4. CASE program[i].name = Word("main") \/ program[j].name = Word("main")
  BY <1>2, <1>3, <1>4 DEF SameName
<1>5. CASE program[i].name # Word("main") /\ program[j].name # Word("main")
  <2>1. Mangling(i) = Mangling(j)
    BY <1>2, <1>5
  <2>2. Stored(Mangling(i), <<"fn", i>>) /\ Stored(Mangling(j), <<"fn", j>>)
    BY FinishedMeans, EverythingStored
  <2> QED BY <2>1, <2>2 DEF Stored
<1> QED BY <1>4, <1>5

\* A function that no other is entangled with is looked up to itself, and is
\* the only one that is.
LEMMA PlainName ==
  ASSUME Finished, NEW i \in Functions, ~Unsure(program[i].name),
         \A j \in (Functions \cup Structs) \ {i} : ~Entangled(i, j)
  PROVE  /\ Current(i) = <<"fn", i>>
         /\ \A j \in Functions : Current(j) = <<"fn", i>> => j = i
<1> DEFINE n == program[i].name
<1>1. NamesInv /\ phase \notin {"rejected", "aborted"} /\ IsFunction(Current(i)) /\ Current(i) = Resolve(n)
  BY FinishedMeans
<1>2. i \in DOMAIN program /\ program[i].kind = "fn"
  BY DEF Functions, OfKind
<1>3. n \in DOMAIN overloads
  BY <1>1, EverythingStored
<1>4. DOMAIN parameters \subseteq Structs /\ i \notin Structs
  BY <1>1, <1>2 DEF NamesInv, ParametersInv, Structs, OfKind
<1>5. Resolve(n) = <<"fn", i>>
  <2>1. CASE n \in DOMAIN symbols /\ StandsFor(n, Resolve(n))
    <3>1. CASE \E j \in Functions : n = Mangling(j)
      <4>1. PICK j \in Functions : n = Mangling(j)
        BY <3>1
      <4>2. CASE j = i
        BY <1>1, <1>2, <4>1, <4>2, ManglingShape
      <4>3. CASE j # i
        BY <4>1, <4>3 DEF Entangled
      <4> QED BY <4>2, <4>3
    <3>2. CASE \E j \in DOMAIN parameters : \E ks \in ByLine(j) : n = ConstructorName(j, ks)
      <4>1. PICK j \in Structs : \E ks \in ByLine(j) : n = ConstructorName(j, ks)
        BY <1>4, <3>2
      <4>2. PICK ks \in ByLine(j) : n = ConstructorName(j, ks)
        BY <4>1
      <4>3. ~Crowded(j) /\ n = Mangling(j)
        BY <1>1, <4>2, ConstructorShape
      <4> QED BY <1>4, <4>3 DEF Entangled
    <3>3. CASE \/ \E j \in Structs : Resolve(n) = <<"struct", j>>
               \/ \E j \in Globals : Resolve(n) = <<"global", j>>
      BY <1>1, <3>3 DEF IsFunction
    <3> QED BY <2>1, <3>1, <3>2, <3>3 DEF StandsFor
  <2>2. CASE IsOverload(n, Resolve(n))
    <3>1. CASE \E j \in Functions : Resolve(n) = <<"fn", j>> /\ n = program[j].name
      BY <3>1 DEF Entangled, SameName
    <3>2. CASE \E j \in DOMAIN parameters : n = program[j].name
      BY <1>4, <3>2 DEF Entangled, SameName
    <3> QED BY <2>2, <3>1, <3>2 DEF IsOverload
  <2> QED BY <1>1, <1>3, <2>1, <2>2, ResolveMeans
<1>6. ASSUME NEW j \in Functions, Current(j) = <<"fn", i>>
      PROVE  j = i
  <2>1. Resolve(program[j].name) = <<"fn", i>>
    BY <1>6, FinishedMeans
  <2>2. program[j].name \in {program[i].name, Mangling(i)}
    BY <1>1, <2>1, FoundNames
  <2> QED BY <2>2 DEF Entangled, SameName
<1> QED BY <1>1, <1>5, <1>6

\* So it has one method with its body.
LEMMA PlainHasItsMethod ==
  ASSUME Finished, NEW i \in Functions, ~Unsure(program[i].name),
         \A j \in (Functions \cup Structs) \ {i} : ~Entangled(i, j)
  PROVE  HasItsMethod(i)
<1>1. NamesInv /\ phase \notin {"rejected", "aborted"}
  BY FinishedMeans
<1>2. Current(i) = <<"fn", i>> /\ \A j \in Functions : Current(j) = <<"fn", i>> => j = i
  BY PlainName
<1>3. code[<<"fn", i>>] = Body(i)
  <2>1. <<"fn", i>>[1] # "ctor"
    OBVIOUS
  <2> QED BY <1>2, <2>1, FinishedMeans
<1>4. PICK order \in [DOMAIN methods -> Functions] :
        /\ \A k, m \in DOMAIN methods : order[k] = order[m] => k = m
        /\ \A j \in Functions : \E k \in DOMAIN methods : order[k] = j
        /\ \A k \in DOMAIN methods : methods[k] = Current(order[k])
  BY FinishedMeans
<1>5. PICK k \in DOMAIN methods : order[k] = i
  BY <1>4
<1>6. methods[k] = <<"fn", i>>
  BY <1>2, <1>4, <1>5
<1>7. ASSUME NEW m \in DOMAIN methods, WrittenName(methods[m]) = WrittenName(<<"fn", i>>)
      PROVE  m = k
  <2>1. order[m] \in Functions /\ methods[m] = Current(order[m])
    BY <1>4
  <2> DEFINE n == program[order[m]].name
  <2>2. methods[m] = Resolve(n) /\ IsFunction(methods[m]) /\ n \in DOMAIN overloads
    <3>1. IsFunction(Current(order[m])) /\ Current(order[m]) = Resolve(program[order[m]].name)
      BY <2>1, FinishedMeans
    <3>2. program[order[m]].name \in DOMAIN overloads
      BY <1>1, <2>1, EverythingStored
    <3> QED BY <2>1, <3>1, <3>2
  <2>3. methods[m][1] = "ctor" => WrittenName(methods[m]) = Word("<init>")
    BY DEF WrittenName
  <2>4. WrittenName(<<"fn", i>>) # Word("<init>")
    <3>1. <<"fn", i>>[1] = "fn" /\ <<"fn", i>>[2] = i /\ i \in DOMAIN program
      BY DEF Functions, OfKind
    <3>2. WrittenName(<<"fn", i>>) \in {Word("main"), Mangling(i)}
      BY <3>1 DEF WrittenName, NameOf, ParamsOf, Mangling
    <3>3. Word("main") # Word("<init>")
      BY DEF Word
    <3> QED BY <1>1, <3>1, <3>2, <3>3, ManglingShape
  <2>5. \E j \in Functions : methods[m] = <<"fn", j>>
    <3>1. methods[m][1] # "ctor"
      BY <1>7, <2>3, <2>4
    <3>2. StandsFor(n, Resolve(n)) \/ IsOverload(n, Resolve(n))
      BY <1>1, <2>2, ResolveMeans DEF IsFunction, NoSymbol
    <3> QED BY <2>2, <3>1, <3>2 DEF StandsFor, IsOverload, IsFunction
  <2>6. PICK j \in Functions : methods[m] = <<"fn", j>>
    BY <2>5
  <2>7. j = i
    BY <1>7, <2>6, WrittenApart DEF Entangled
  <2> QED BY <1>2, <1>4, <1>5, <2>1, <2>6, <2>7
<1>8. {m \in DOMAIN methods : WrittenName(methods[m]) = WrittenName(<<"fn", i>>)} = {k}
  BY <1>6, <1>7
<1>9. Cardinality({k}) = 1
  BY FS_Singleton
<1>10. Written(WrittenName(<<"fn", i>>)) = {Body(i)}
  <2>1. Written(WrittenName(<<"fn", i>>)) = {code[methods[m]] : m \in {k}}
    BY <1>8 DEF Written
  <2> QED BY <1>3, <1>6, <2>1
<1> QED BY <1>8, <1>9, <1>10 DEF HasItsMethod

\* A function that has its method is the only one with its symbol, and the
\* only one whose symbol is written under its name.
LEMMA MethodIsItsOwn ==
  ASSUME Finished, NEW i \in Functions, HasItsMethod(i)
  PROVE  /\ WrittenName(Current(i)) = WrittenName(<<"fn", i>>)
         /\ \A j \in Functions :
              WrittenName(Current(j)) = WrittenName(<<"fn", i>>) => j = i
<1>1. PICK order \in [DOMAIN methods -> Functions] :
        /\ \A k, m \in DOMAIN methods : order[k] = order[m] => k = m
        /\ \A j \in Functions : \E k \in DOMAIN methods : order[k] = j
        /\ \A k \in DOMAIN methods : methods[k] = Current(order[k])
  BY FinishedMeans
<1> DEFINE named == {k \in DOMAIN methods : WrittenName(methods[k]) = WrittenName(<<"fn", i>>)}
<1>2. Cardinality(named) = 1 /\ Written(WrittenName(<<"fn", i>>)) = {Body(i)}
  BY DEF HasItsMethod
<1>3. \A k \in named : order[k] = i
  <2> SUFFICES ASSUME NEW k \in named PROVE order[k] = i
    OBVIOUS
  <2>1. code[methods[k]] = Body(i)
    BY <1>2 DEF Written
  <2>2. order[k] \in Functions /\ methods[k] = Current(order[k])
    BY <1>1
  <2>3. Occurs(<<"body", order[k]>>, Body(i))
    <3>1. Occurs(<<"body", order[k]>>, code[Current(order[k])])
      BY <2>2, FinishedMeans
    <3> QED BY <2>1, <2>2, <3>1
  <2>4. \A m \in DOMAIN Body(i) : \/ Body(i)[m] = <<"body", i>>
                                  \/ Body(i)[m] = <<"call", CalledFunction(i)>>
    BY BodyShape
  <2> QED BY <2>3, <2>4 DEF Occurs
<1>4. \E k : k \in named
  <2>1. named # {}
    BY <1>2, FS_EmptySet
  <2> QED BY <2>1
<1>5. WrittenName(Current(i)) = WrittenName(<<"fn", i>>)
  BY <1>1, <1>3, <1>4
<1>6. ASSUME NEW j \in Functions, WrittenName(Current(j)) = WrittenName(<<"fn", i>>)
      PROVE  j = i
  <2>1. PICK k \in DOMAIN methods : order[k] = j
    BY <1>1
  <2>2. k \in named
    BY <1>1, <1>6, <2>1
  <2> QED BY <1>3, <2>1, <2>2
<1> QED BY <1>5, <1>6

\* A function that another is entangled with does not have its method.
LEMMA EntangledLosesIt ==
  ASSUME Finished, NEW i \in Functions, ~Unsure(program[i].name),
         NEW j \in (Functions \cup Structs) \ {i}, Entangled(i, j)
  PROVE  ~HasItsMethod(i)
<1> SUFFICES ASSUME HasItsMethod(i) PROVE FALSE
  OBVIOUS
<1>1. NamesInv /\ phase \notin {"rejected", "aborted"} /\ i \in DOMAIN program /\ j \in DOMAIN program /\ i # j
  BY FinishedMeans DEF Functions, Structs, OfKind
<1>2. /\ WrittenName(Current(i)) = WrittenName(<<"fn", i>>)
      /\ \A k \in Functions : WrittenName(Current(k)) = WrittenName(<<"fn", i>>) => k = i
  BY MethodIsItsOwn
<1>3. IsFunction(Current(i)) /\ Current(i) = Resolve(program[i].name)
        /\ Stored(Mangling(i), <<"fn", i>>)
  BY <1>1, FinishedMeans, EverythingStored
<1>4. \A n, s : Stored(n, s) => Resolve(n) = s
  BY DEF Stored, Resolve
<1>5. CASE j \in Functions
  <2>1. Current(j) = Resolve(program[j].name) /\ Stored(Mangling(j), <<"fn", j>>)
    BY <1>1, <1>5, FinishedMeans, EverythingStored
  <2>2. CASE SameName(i, j)
    BY <1>1, <1>2, <1>3, <1>5, <2>1, <2>2 DEF SameName
  <2>3. CASE program[j].name = Mangling(i)
    BY <1>1, <1>2, <1>3, <1>4, <1>5, <2>1, <2>3
  <2>4. CASE program[i].name = Mangling(j) /\ ~SameName(i, j)
    <3>1. Current(i) = <<"fn", j>>
      BY <1>3, <1>4, <2>1, <2>4
    <3> QED BY <1>1, <1>2, <1>5, <2>4, <3>1, WrittenApart
  <2> QED BY <2>2, <2>3, <2>4 DEF Entangled
<1>6. CASE j \in Structs
  <2>1. Stored(program[j].name, <<"struct", j>>) /\ j \in DOMAIN parameters
    <3>1. DOMAIN parameters = Structs
      BY DEF Finished, LinkageInv, NamesInv, ParametersInv
    <3> QED BY <1>1, <1>6, <3>1, EverythingStored
  <2>2. CASE SameName(i, j)
    <3>1. Current(i) = <<"struct", j>>
      BY <1>3, <1>4, <2>1, <2>2 DEF SameName
    <3> QED BY <1>3, <3>1 DEF IsFunction
  <2>3. CASE program[j].name = Mangling(i)
    BY <1>3, <2>1, <2>3 DEF Stored
  <2>4. CASE program[i].name = Mangling(j)
    <3>1. PICK ks \in ByLine(j) : Stored(ConstructorName(j, ks), <<"ctor", j>>)
      BY <1>1, <2>1, EverythingStored
    <3>2. ~Crowded(j)
      <4>1. PICK os \in ByLine(j) : ConstructorName(j, os) = Mangling(j)
        BY <1>1, <1>6, OwnOrder
      <4> QED BY <1>1, <1>6, <2>4, <4>1, ConstructorShape
    <3>3. Current(i) = <<"ctor", j>>
      BY <1>1, <1>3, <1>4, <1>6, <2>4, <3>1, <3>2, ConstructorShape
    <3>4. WrittenName(Current(i)) = Word("<init>")
      <4>1. Current(i)[1] = "ctor"
        BY <3>3
      <4> QED BY <4>1 DEF WrittenName
    <3>5. WrittenName(<<"fn", i>>) # Word("<init>")
      <4>1. <<"fn", i>>[1] = "fn" /\ <<"fn", i>>[2] = i
        OBVIOUS
      <4>2. WrittenName(<<"fn", i>>) \in {Word("main"), Mangling(i)}
        BY <4>1 DEF WrittenName, NameOf, ParamsOf, Mangling
      <4>3. Word("main") # Word("<init>")
        BY DEF Word
      <4> QED BY <1>1, <4>2, <4>3, ManglingShape
    <3> QED BY <1>2, <3>4, <3>5
  <2> QED BY <2>2, <2>3, <2>4 DEF Entangled
<1> QED BY <1>5, <1>6

\* A function gets one method, with its body and nothing else, if and only if
\* no other function has its name, or its mangled name for a name.
THEOREM DefinitionsKept == Spec => []DefinitionsKeepTheirBodies
<1>1. LinkageInv => DefinitionsKeepTheirBodies
  BY PlainHasItsMethod, EntangledLosesIt DEF DefinitionsKeepTheirBodies, Finished
<1> QED BY <1>1, LinkageInvHolds, PTL

\* Of the structs of a finished program, and of its calls.
LEMMA FinishedStructs ==
  ASSUME Finished, NEW i \in Structs
  PROVE  /\ i \in DOMAIN parameters /\ parameters[i] \in ByLine(i)
         /\ <<"ctor", i>> \in DOMAIN code
         /\ (\A j \in Functions : Current(j) # <<"ctor", i>>) => code[<<"ctor", i>>] = Stores(i)
<1>1. NamesInv /\ CodeInv /\ Generating /\ todo = {}
  BY FinishedMeans DEF Finished, LinkageInv, GenerationInv, Generating
<1>2. DOMAIN parameters = Structs /\ parameters[i] \in ByLine(i)
  BY <1>1 DEF Finished, NamesInv, ParametersInv
<1>3. i \in Structs \ todo /\ Functions \ todo = Functions
  BY <1>1
<1> QED BY <1>1, <1>2, <1>3 DEF CodeInv

\* A call in a generated program was resolved, and its function is found.
LEMMA FinishedCalls ==
  ASSUME Finished, NEW i \in Callers
  PROVE  /\ i \in Functions /\ ResolvedTo(i) /\ IsFunction(CalledFunction(i))
         /\ Candidate(program[i].call.name, resolved[i].symbol)
<1>1. NamesInv /\ ResolvedInv
  BY DEF Finished, LinkageInv
<1>2. i \in DOMAIN program /\ Calls(program[i])
  BY DEF Callers
<1>3. program[i].kind = "fn"
  <2>1. WellMade(program[i])
    BY <1>1, <1>2 DEF NamesInv, ProgramInv
  <2> QED BY <1>2, <2>1 DEF WellMade, Calls
<1>4. i \in Functions
  BY <1>2, <1>3 DEF Functions, OfKind
<1>5. ResolvedTo(i)
  BY <1>1 DEF Finished, ResolvedInv
<1>6. Candidate(program[i].call.name, resolved[i].symbol)
  BY <1>1, <1>5, CandidatesAreFunctions DEF ResolvedTo
<1> QED BY <1>2, <1>4, <1>5, <1>6, FinishedMeans

\* A call of a constructor: one struct has the name, and no function.
LEMMA ConstructorReached ==
  ASSUME Finished, NEW i \in Callers, NamedSo(i) # {},
         ~AmbiguousCall(i), ~UnorderedCall(i)
  PROVE  Runs(i) = ToRun(i)
<1> DEFINE n == program[i].call.name
<1>1. NamesInv /\ phase \notin {"rejected", "aborted"}
  BY FinishedMeans
<1>2. PICK j \in NamedSo(i) : CalledFunction(i) = <<"ctor", j>>
  BY CalledIs DEF AnyOf
<1>3. j \in Structs /\ program[j].name = n /\ ~PrivateFirst(j) /\ ~Crowded(j)
  BY <1>2 DEF NamedSo, UnorderedCall
<1>4. \A k \in Functions : j # k /\ ~Entangled(j, k)
  <2>1. \A k \in Functions : j # k
    BY <1>3 DEF Functions, Structs, OfKind
  <2> QED BY <1>3, <2>1 DEF AmbiguousCall
<1>5. j \in DOMAIN parameters /\ parameters[j] \in ByLine(j) /\ <<"ctor", j>> \in DOMAIN code
  BY <1>3, FinishedStructs
<1>6. n \in DOMAIN overloads
  BY <1>1, <1>3, <1>5, EverythingStored
<1>7. resolved[i].symbol = <<"ctor", j>>
  <2> DEFINE s == resolved[i].symbol
  <2>1. IsOverload(n, s)
    BY <1>6, FinishedCalls DEF Candidate
  <2>2. s[1] # "fn"
    <3>1. s[1] = "fn" => s[2] \in Functions /\ program[s[2]].name = n
      BY <1>1, <2>1, OverloadMeans
    <3> QED BY <1>3, <1>4, <3>1 DEF Entangled, SameName
  <2>3. s = <<"ctor", s[2]>> /\ s[2] \in Structs /\ program[s[2]].name = n
    BY <1>1, <2>1, <2>2, OverloadMeans
  <2>4. Stored(n, <<"struct", s[2]>>) /\ Stored(n, <<"struct", j>>)
    BY <1>1, <1>3, <2>3, EverythingStored
  <2>5. s[2] = j
    BY <2>4 DEF Stored
  <2> QED BY <2>3, <2>5
<1>8. <<"ctor", j>>[1] = "ctor" /\ <<"ctor", j>>[2] = j
  OBVIOUS
<1>9. ParamsOf(<<"ctor", j>>) = program[j].params
  BY <1>1, <1>3, <1>5, <1>8, ConstructorShape DEF ParamsOf
<1>10. resolved[i].params = program[j].params
  <2>1. \E ks \in ByLine(j) : resolved[i].params = FieldTypes(j, ks)
    BY <1>7, <1>8, FinishedCalls DEF ResolvedTo
  <2> QED BY <1>1, <1>3, <2>1, ConstructorShape
<1>11. WrittenCall(<<"ctor", j>>) = <<"ctor", j>>
  BY <1>8 DEF WrittenCall
<1>12. code[<<"ctor", j>>] = RightStores(j)
  <2>1. ASSUME NEW k \in Functions
        PROVE  Current(k) # <<"ctor", j>>
    <3> SUFFICES ASSUME Current(k) = <<"ctor", j>> PROVE FALSE
      OBVIOUS
    <3>1. Resolve(program[k].name) = <<"ctor", j>>
      BY FinishedMeans
    <3>2. program[k].name = program[j].name
            \/ \E ks \in ByLine(j) : program[k].name = ConstructorName(j, ks)
      BY <1>1, <3>1, FoundNames
    <3>3. program[k].name \in {program[j].name, Mangling(j)}
      BY <1>1, <1>3, <3>2, ConstructorShape
    <3> QED BY <1>4, <3>3 DEF Entangled, SameName
  <2>2. code[<<"ctor", j>>] = Stores(j)
    BY <1>3, <2>1, FinishedStructs
  <2> QED BY <1>1, <1>3, <2>2, StoresAreRight DEF NamesInv
<1>13. Runs(i) = <<"code", {RightStores(j)}>>
  BY <1>2, <1>5, <1>8, <1>9, <1>10, <1>11, <1>12 DEF Runs, Lookup
<1>14. ToRun(i) = <<"code", {RightStores(j)}>>
  BY <1>7, <1>8 DEF ToRun
<1> QED BY <1>13, <1>14

\* A call of a name that no struct has: what it is looked up to is what it was
\* resolved to.
LEMMA CalledAsResolved ==
  ASSUME Finished, NEW i \in Callers, NamedSo(i) = {},
         ~AmbiguousCall(i), ~UnorderedCall(i)
  PROVE  LET n == program[i].call.name
             s == resolved[i].symbol
         IN
         /\ CalledFunction(i) = s /\ resolved[i].params = ParamsOf(s)
         /\ \/ \E j \in Functions : s = <<"fn", j>> /\ program[j].name = n
            \/ /\ \A j \in Functions : program[j].name # n
               /\ \E b \in Builtins : n = Word(b) /\ s = <<"builtin", b>>
<1> DEFINE n == program[i].call.name
           s == resolved[i].symbol
<1>1. NamesInv /\ phase \notin {"rejected", "aborted"}
  BY FinishedMeans
<1>2. IsFunction(CalledFunction(i)) /\ ResolvedTo(i) /\ Candidate(n, s)
  BY FinishedCalls
<1>3. CalledFunction(i) = Resolve(n)
  <2>1. CalledFunction(i) = ResolveIn(i, n)
    BY CalledIs
  <2> QED BY <1>1, <1>2, <2>1, FoundFunction
<1>4. \A j \in Structs : program[j].name # n
  BY DEF NamedSo
<1>5. \A j \in Functions \cup Structs, k \in Functions :
        j # k /\ program[k].name = n => ~Entangled(j, k)
  BY DEF AmbiguousCall
<1>6. IsOverload(n, s) => \E k \in Functions : s = <<"fn", k>> /\ program[k].name = n
  BY <1>1, <1>4, OverloadMeans
<1>7. ASSUME NEW j \in Functions \cup Structs, n = Mangling(j)
      PROVE  FALSE
  <2>1. j \in DOMAIN program
    BY DEF Functions, Structs, OfKind
  <2>2. Mangling(j) # program[j].name /\ \A w : n # Word(w)
    BY <1>1, <1>7, <2>1, ManglingShape
  <2>3. PICK k \in Functions : program[k].name = n
    BY <1>2, <1>6, <2>2 DEF Candidate
  <2>4. j # k
    BY <1>7, <2>2, <2>3
  <2> QED BY <1>5, <1>7, <2>3, <2>4 DEF Entangled
<1>8. n \notin DOMAIN symbols
  <2> SUFFICES ASSUME n \in DOMAIN symbols PROVE FALSE
    OBVIOUS
  <2>1. StandsFor(n, Resolve(n)) /\ IsFunction(Resolve(n))
    BY <1>1, <1>2, <1>3, ResolveMeans
  <2>2. CASE \E j \in Functions : n = Mangling(j)
    BY <1>7, <2>2
  <2>3. CASE \E j \in DOMAIN parameters : \E ks \in ByLine(j) : n = ConstructorName(j, ks)
    <3>1. PICK j \in Structs : \E ks \in ByLine(j) : n = ConstructorName(j, ks)
      BY <1>1, <2>3 DEF NamesInv, ParametersInv
    <3>2. ~Crowded(j)
      BY <1>1, <3>1, ConstructorShape DEF UnorderedCall
    <3>3. n = Mangling(j)
      BY <1>1, <3>1, <3>2, ConstructorShape
    <3> QED BY <1>7, <3>3
  <2> QED BY <2>1, <2>2, <2>3 DEF StandsFor, IsFunction
<1>9. CASE n \in DOMAIN overloads
  <2>1. IsOverload(n, Resolve(n)) /\ IsOverload(n, s)
    BY <1>1, <1>2, <1>8, <1>9, ResolveMeans DEF Candidate
  <2>2. PICK k \in Functions : s = <<"fn", k>> /\ program[k].name = n
    BY <1>6, <2>1
  <2>3. PICK m \in Functions : Resolve(n) = <<"fn", m>> /\ program[m].name = n
    BY <1>1, <1>4, <2>1, OverloadMeans
  <2>4. m = k
    BY <1>5, <2>2, <2>3 DEF Entangled, SameName
  <2>5. s[1] # "ctor"
    BY <2>2
  <2> QED BY <1>2, <1>3, <2>2, <2>3, <2>4, <2>5 DEF ResolvedTo
<1>10. CASE n \notin DOMAIN overloads
  <2>1. PICK b \in Builtins : n = Word(b) /\ s = <<"builtin", b>>
    BY <1>2, <1>10 DEF Candidate
  <2>2. PICK c \in Builtins : n = Word(c) /\ Resolve(n) = <<"builtin", c>>
    <3>1. Resolve(n) # NoSymbol
      BY <1>2, <1>3 DEF IsFunction, NoSymbol
    <3> QED BY <1>1, <1>8, <1>10, <3>1, ResolveMeans
  <2>3. b = c
    BY <2>1, <2>2 DEF Word
  <2>4. s[1] # "ctor"
    BY <2>1
  <2>5. \A j \in Functions : program[j].name # n
    BY <1>1, <1>10, EverythingStored
  <2> QED BY <1>2, <1>3, <2>1, <2>2, <2>3, <2>4, <2>5 DEF ResolvedTo
<1> QED BY <1>9, <1>10

\* And it runs, when the writer has no code of its own for the name.
LEMMA FunctionReached ==
  ASSUME Finished, NEW i \in Callers, NamedSo(i) = {},
         ~AmbiguousCall(i), ~UnorderedCall(i), ~HijackedCall(i)
  PROVE  Runs(i) = ToRun(i)
<1> DEFINE n == program[i].call.name
           s == resolved[i].symbol
<1>1. CalledFunction(i) = s /\ resolved[i].params = ParamsOf(s)
  BY CalledAsResolved
<1>2. CASE \E j \in Functions : s = <<"fn", j>> /\ program[j].name = n
  <2>1. PICK j \in Functions : s = <<"fn", j>> /\ program[j].name = n
    BY <1>2
  <2>2. s[1] = "fn" /\ s[2] = j
    BY <2>1
  <2>3. ~Special(n) /\ NameOf(s) = n
    BY <2>1, <2>2 DEF HijackedCall, NameOf
  <2>4. /\ n # Word("main") /\ n # Word("println") /\ n # Word("readline")
    BY <2>3 DEF Special
  <2>5. Mangled(NameOf(s), ParamsOf(s)) = Mangling(j)
    BY <2>1, <2>2 DEF NameOf, ParamsOf, Mangling
  <2>6. WrittenName(s) = Mangling(j)
    BY <2>2, <2>3, <2>4, <2>5 DEF WrittenName
  <2>7. WrittenCall(s) = <<"static", Mangling(j)>>
    BY <2>2, <2>3, <2>4, <2>5 DEF WrittenCall
  <2>8. Runs(i) = <<"code", Written(Mangling(j))>>
    <3>1. <<"static", Mangling(j)>>[1] = "static" /\ <<"static", Mangling(j)>>[2] = Mangling(j)
      OBVIOUS
    <3> QED BY <1>1, <2>7, <3>1 DEF Runs
  <2>9. ~Unsure(program[j].name)
    BY <2>1 DEF UnorderedCall
  <2>10. \A k \in (Functions \cup Structs) \ {j} : ~Entangled(j, k)
    <3>1. \A k \in (Functions \cup Structs) \ {j} : ~Entangled(k, j)
      BY <2>1 DEF AmbiguousCall
    <3> QED BY <3>1 DEF Entangled, SameName
  <2>11. Written(Mangling(j)) = {Body(j)}
    BY <2>1, <2>6, <2>9, <2>10, PlainHasItsMethod DEF HasItsMethod
  <2>12. ToRun(i) = <<"code", {Body(j)}>>
    BY <2>2 DEF ToRun
  <2> QED BY <2>8, <2>11, <2>12
<1>3. CASE /\ \A j \in Functions : program[j].name # n
           /\ \E b \in Builtins : n = Word(b) /\ s = <<"builtin", b>>
  <2>1. PICK b \in Builtins : n = Word(b) /\ s = <<"builtin", b>>
    BY <1>3
  <2>2. s[1] = "builtin" /\ s[2] = b /\ NameOf(s) = n /\ ParamsOf(s) = BuiltinParams(b)
    BY <2>1 DEF NameOf, ParamsOf
  <2>3. n # Word("sqrt")
    <3>1. \A j \in Functions \cup Structs : program[j].name # n
      BY <1>3 DEF NamedSo
    <3> QED BY <3>1 DEF HijackedCall
  <2>4. ToRun(i) = s
    BY <2>2 DEF ToRun
  <2>5. CASE b = "println"
    <3>1. BuiltinParams(b) = <<"string">>
      BY <2>5 DEF BuiltinParams
    <3>2. <<"string">> # <<>> /\ <<"string">>[1] = "string"
      OBVIOUS
    <3>3. WrittenCall(s) = <<"builtin", "println">>
      <4>1. n = Word("println") /\ n # Word("readline")
        BY <2>1, <2>5 DEF Word
      <4>2. ParamsOf(s) # <<>> /\ ParamsOf(s)[1] = "string"
        BY <2>2, <3>1, <3>2
      <4> QED BY <2>2, <4>1, <4>2 DEF WrittenCall
    <3>4. <<"builtin", "println">>[1] = "builtin"
      OBVIOUS
    <3> QED BY <1>1, <2>1, <2>4, <2>5, <3>3, <3>4 DEF Runs
  <2>6. CASE b = "readline"
    <3>1. n # Word("println")
      BY <2>1, <2>6 DEF Word
    <3>2. WrittenCall(s) = <<"builtin", "readline">>
      BY <2>1, <2>2, <2>6, <3>1 DEF WrittenCall
    <3>3. <<"builtin", "readline">>[1] = "builtin"
      OBVIOUS
    <3> QED BY <1>1, <2>1, <2>4, <2>6, <3>2, <3>3 DEF Runs
  <2> QED BY <2>1, <2>3, <2>5, <2>6 DEF Builtins
<1> QED BY <1>2, <1>3, CalledAsResolved

\* A call runs the function the type checker resolved it to, if bare names
\* tell that function apart and the writer has no code of its own for it.
THEOREM CallsReach == Spec => []CallsReachTheirFunction
<1>1. LinkageInv => CallsReachTheirFunction
  BY ConstructorReached, FunctionReached DEF CallsReachTheirFunction, Finished
<1> QED BY <1>1, LinkageInvHolds, PTL

\* The first overload of a name is the first function of that name in the text.
LEMMA FirstOverload ==
  ASSUME NamesInv, NEW n, NEW j, NEW k, n \in DOMAIN overloads,
         overloads[n][1] = <<"fn", k>>, Overloaded(n, <<"fn", j>>)
  PROVE  j \in Nat /\ k \in Nat /\ k <= j
<1>1. Arranged(overloads[n]) /\ overloads[n] \in Seq({"fn", "ctor"} \X Nat)
  BY DEF NamesInv, OverloadsInv, Arranged
<1>2. PICK p \in DOMAIN overloads[n] : overloads[n][p] = <<"fn", j>>
  BY DEF Overloaded
<1>3. DOMAIN overloads[n] = 1..Len(overloads[n]) /\ Len(overloads[n]) \in Nat
  BY <1>1
<1>4. p \in Nat /\ 1 <= p /\ 1 \in DOMAIN overloads[n]
  BY <1>2, <1>3
<1>5. <<"fn", j>> \in {"fn", "ctor"} \X Nat /\ <<"fn", k>> \in {"fn", "ctor"} \X Nat
  BY <1>1, <1>2, <1>4
<1>6. j \in Nat /\ k \in Nat
  BY <1>5
<1>7. CASE p = 1
  BY <1>2, <1>6, <1>7
<1>8. CASE 1 < p
  <2>1. Precedes(<<"fn", k>>, <<"fn", j>>)
    BY <1>1, <1>2, <1>4, <1>8 DEF Arranged
  <2> QED BY <1>6, <2>1 DEF Precedes
<1> QED BY <1>4, <1>6, <1>7, <1>8

\* What a name is looked up to, if not to a function.
LEMMA FoundOther ==
  ASSUME NamesInv, phase \notin {"rejected", "aborted"}, NEW n, ~IsFunction(Resolve(n)), Resolve(n) # NoSymbol
  PROVE  \/ \E j \in Structs : n = program[j].name
         \/ \E j \in Globals : n = program[j].name
<1>1. StandsFor(n, Resolve(n))
  <2>1. ~IsOverload(n, Resolve(n))
    BY OverloadMeans
  <2>2. \A b : IsFunction(<<"builtin", b>>)
    BY DEF IsFunction
  <2> QED BY <2>1, <2>2, ResolveMeans
<1>2. \A j : IsFunction(<<"fn", j>>) /\ IsFunction(<<"ctor", j>>)
  BY DEF IsFunction
<1> QED BY <1>1, <1>2 DEF StandsFor

\* Definitions are functions, structs or global variables.
LEMMA KindsOfDefinitions ==
  ASSUME NamesInv
  PROVE  \A i \in DOMAIN program : \/ i \in Functions /\ program[i].kind = "fn"
                                   \/ i \in Structs /\ program[i].kind = "struct"
                                   \/ i \in Globals /\ program[i].kind = "global"
<1>1. \A i \in DOMAIN program : program[i] \in DefinitionSet
  BY DEF NamesInv, ProgramInv
<1>2. \A i \in DOMAIN program : program[i].kind \in {"fn", "struct", "global"}
  BY <1>1 DEF DefinitionSet
<1> QED BY <1>2 DEF Functions, Structs, Globals, OfKind

\* A function whose definition or call the generator does not find is hidden.
LEMMA NotFoundIsHidden ==
  ASSUME LinkageInv, phase = "generating", NEW i \in Functions,
         ~IsFunction(Current(i)) \/ (Calls(program[i]) /\ ~IsFunction(CalledFunction(i)))
  PROVE  Hidden(i)
<1>1. NamesInv /\ ResolvedInv
  BY DEF LinkageInv
<1>2. i \in DOMAIN program /\ \A j \in Structs \cup Globals : j \in DOMAIN program
        /\ program[j].kind # "fn"
  BY DEF Functions, Structs, Globals, OfKind
<1>3. CASE ~IsFunction(Current(i))
  <2>1. CASE program[i].hides = program[i].name
    BY <2>1 DEF Hidden
  <2>2. CASE program[i].hides # program[i].name
    <3>1. Current(i) = Resolve(program[i].name)
      BY <2>2 DEF Current, ResolveIn
    <3>2. program[i].name \in DOMAIN overloads
      BY <1>1, EverythingStored
    <3>3. Resolve(program[i].name) # NoSymbol
      <4>1. CASE StandsFor(program[i].name, Resolve(program[i].name))
        BY <4>1 DEF StandsFor, NoSymbol
      <4>2. CASE IsOverload(program[i].name, Resolve(program[i].name))
        BY <4>2 DEF IsOverload, NoSymbol
      <4> QED BY <1>1, <3>2, <4>1, <4>2, ResolveMeans
    <3>4. \E j \in Structs \cup Globals : program[i].name = program[j].name
      BY <1>1, <1>3, <3>1, <3>3, FoundOther
    <3> QED BY <1>2, <3>4 DEF Hidden, SameName
  <2> QED BY <2>1, <2>2
<1>4. CASE Calls(program[i]) /\ ~IsFunction(CalledFunction(i))
  <2> DEFINE n == program[i].call.name
  <2>1. NamedSo(i) = {} /\ ~IsFunction(ResolveIn(i, n))
    BY <1>4, CalledIs DEF IsFunction
  <2>2. \A j \in Structs : program[j].name # n
    BY <2>1 DEF NamedSo
  <2>3. CASE program[i].hides = n
    BY <1>4, <2>2, <2>3 DEF Hidden
  <2>4. CASE program[i].hides # n
    <3>1. ResolveIn(i, n) = Resolve(n)
      BY <2>4 DEF ResolveIn
    <3>2. i \in Callers
      BY <1>2, <1>4 DEF Callers
    <3>3. Candidate(n, resolved[i].symbol)
      <4>1. ResolvedTo(i)
        BY <1>1, <3>2 DEF ResolvedInv
      <4> QED BY <1>1, <4>1, CandidatesAreFunctions DEF ResolvedTo
    <3>4. Resolve(n) # NoSymbol
      <4>1. CASE StandsFor(n, Resolve(n))
        BY <4>1 DEF StandsFor, NoSymbol
      <4>2. CASE IsOverload(n, Resolve(n))
        BY <4>2 DEF IsOverload, NoSymbol
      <4>3. CASE n \notin DOMAIN symbols /\ n \notin DOMAIN overloads
        <5>1. PICK b \in Builtins : n = Word(b)
          BY <3>3, <4>3 DEF Candidate
        <5>2. Resolve(n) = <<"builtin", n[1]>>
          BY <4>3, <5>1 DEF Resolve
        <5> QED BY <5>2 DEF NoSymbol
      <4> QED BY <1>1, <4>1, <4>2, <4>3, ResolveMeans
    <3>5. \E j \in Globals : n = program[j].name
      BY <1>1, <2>1, <2>2, <3>1, <3>4, FoundOther
    <3> QED BY <1>4, <2>2, <3>5 DEF Hidden, Globals
  <2> QED BY <2>3, <2>4
<1> QED BY <1>3, <1>4

\* A finished program has nothing hidden, and no computed default value.
LEMMA FinishedIsPlain ==
  ASSUME Finished
  PROVE  (\A i \in Functions : ~Hidden(i)) /\ (\A i \in Structs : ~Computed(i))
<1>1. NamesInv /\ phase \notin {"rejected", "aborted"} /\ todo = {} /\ FoundInv /\ Generating
  BY FinishedMeans DEF Finished, LinkageInv, GenerationInv, Generating
<1>2. \A n, s : Stored(n, s) => Resolve(n) = s
  BY DEF Stored, Resolve
<1>3. \A j \in DOMAIN program : program[j].kind # "fn" => ~IsFunction(Resolve(program[j].name))
  <2>1. /\ \A j \in Structs : Resolve(program[j].name) = <<"struct", j>>
        /\ \A j \in Globals : Resolve(program[j].name) = <<"global", j>>
    BY <1>1, <1>2, EverythingStored
  <2>2. \A j : ~IsFunction(<<"struct", j>>) /\ ~IsFunction(<<"global", j>>)
    BY DEF IsFunction
  <2> QED BY <1>1, <2>1, <2>2, KindsOfDefinitions
<1>4. ASSUME NEW i \in Functions, Hidden(i)
      PROVE  FALSE
  <2>1. IsFunction(Current(i)) /\ Current(i) = Resolve(program[i].name)
    BY FinishedMeans
  <2>2. CASE program[i].hides = program[i].name
    BY <2>1, <2>2 DEF Current, ResolveIn, IsFunction
  <2>3. CASE \E j \in DOMAIN program : program[j].kind # "fn" /\ SameName(i, j)
    BY <1>3, <2>1, <2>3 DEF SameName
  <2>4. CASE /\ Calls(program[i])
             /\ \/ program[i].hides = program[i].call.name
                \/ \E j \in OfKind("global") : program[j].name = program[i].call.name
             /\ \A j \in Structs : program[j].name # program[i].call.name
    <3>1. IsFunction(CalledFunction(i))
      BY <2>4, FinishedMeans
    <3>2. CalledFunction(i) = ResolveIn(i, program[i].call.name)
      BY <2>4, CalledIs DEF NamedSo
    <3>3. program[i].hides # program[i].call.name /\ IsFunction(Resolve(program[i].call.name))
      BY <3>1, <3>2 DEF ResolveIn, IsFunction
    <3> QED BY <1>3, <2>4, <3>3 DEF OfKind
  <2> QED BY <1>4, <2>2, <2>3, <2>4 DEF Hidden
<1>5. \A i \in Structs : ~Computed(i)
  BY <1>1 DEF FoundInv
<1> QED BY <1>4, <1>5

\* A written call is a call of the function that some definition's call is
\* looked up to.
LEMMA WrittenCallsAreFound ==
  ASSUME Finished, NEW s \in WrittenCalls
  PROVE  \E i \in Callers : s = CalledFunction(i)
<1>1. CodeInv /\ Generating
  BY DEF Finished, LinkageInv, GenerationInv, Generating
<1>2. PICK t \in DOMAIN code : \E k \in DOMAIN code[t] : code[t][k] = <<"call", s>>
  BY DEF WrittenCalls
<1>3. code[t] \in Seq(Instructions)
  BY <1>1 DEF CodeInv
<1>4. <<"call", s>> \in Instructions
  BY <1>2, <1>3
<1>5. \A x \in {"body"} \X Nat : x[1] = "body"
  OBVIOUS
<1>6. \A x \in {"put"} \X Nat \X Nat : x[1] = "put"
  OBVIOUS
<1>7. <<"call", s>>[1] = "call" /\ <<"call", s>>[2] = s
  OBVIOUS
<1>8. <<"call", s>> \in {<<"call", CalledFunction(i)>> : i \in Callers \ todo}
  BY <1>4, <1>5, <1>6, <1>7 DEF Instructions
<1>9. PICK i \in Callers \ todo : <<"call", s>> = <<"call", CalledFunction(i)>>
  BY <1>8
<1> QED BY <1>7, <1>9

\* What the call of a caller is looked up to is written.
LEMMA FoundCallsAreWritten ==
  ASSUME Finished, NEW i \in Callers
  PROVE  /\ CalledFunction(i) \in WrittenCalls
         /\ NamedSo(i) = {} => CalledFunction(i) = Resolve(program[i].call.name)
<1>1. NamesInv /\ i \in Functions /\ IsFunction(CalledFunction(i)) /\ Calls(program[i])
  BY FinishedMeans, FinishedCalls DEF Callers
<1>2. NamedSo(i) = {} => /\ CalledFunction(i) = Resolve(program[i].call.name)
                         /\ CalledFunction(i) \in Symbols
  <2> SUFFICES ASSUME NamedSo(i) = {}
               PROVE  /\ CalledFunction(i) = Resolve(program[i].call.name)
                      /\ CalledFunction(i) \in Symbols
    OBVIOUS
  <2>1. CalledFunction(i) = ResolveIn(i, program[i].call.name)
    BY CalledIs
  <2> QED BY <1>1, <2>1, FoundFunction
<1>3. NamedSo(i) # {} => CalledFunction(i) \in Symbols
  <2> SUFFICES ASSUME NamedSo(i) # {} PROVE CalledFunction(i) \in Symbols
    OBVIOUS
  <2>1. PICK j \in NamedSo(i) : CalledFunction(i) = <<"ctor", j>>
    BY CalledIs DEF AnyOf
  <2>2. j \in DOMAIN program
    BY <2>1 DEF NamedSo, Structs, OfKind
  <2> QED BY <2>1, <2>2, MadeSymbols
<1>4. Current(i) \in DOMAIN code /\ Occurs(<<"call", CalledFunction(i)>>, code[Current(i)])
  BY <1>1, FinishedMeans
<1>5. CalledFunction(i) \in Symbols
  BY <1>2, <1>3
<1> QED BY <1>2, <1>4, <1>5 DEF WrittenCalls, Occurs

\* The writer meets a println without parameters only when the program has one
\* that is called.
LEMMA WriterAborts ==
  ASSUME Finished, NEW s \in WrittenCalls,
         s[1] # "ctor", NameOf(s) = Word("println"), ParamsOf(s) = <<>>
  PROVE  PrintsNothing
<1>1. NamesInv /\ phase \notin {"rejected", "aborted"}
  BY FinishedMeans
<1>2. PICK i \in Callers : s = CalledFunction(i)
  BY WrittenCallsAreFound
<1> DEFINE n == program[i].call.name
<1>3. NamedSo(i) = {}
  <2>1. NamedSo(i) # {} => s = <<"ctor", AnyOf(NamedSo(i))>>
    BY <1>2, CalledIs
  <2> QED BY <2>1
<1>4. s = Resolve(n) /\ IsFunction(s)
  BY <1>2, <1>3, FoundCallsAreWritten, FinishedCalls
<1>5. \A b \in Builtins : s # <<"builtin", b>>
  <2> SUFFICES ASSUME NEW b \in Builtins, s = <<"builtin", b>> PROVE FALSE
    OBVIOUS
  <2>1. NameOf(s) = Word(b) /\ ParamsOf(s) = BuiltinParams(b)
    BY DEF NameOf, ParamsOf
  <2>2. b = "println"
    BY <2>1 DEF Word
  <2>3. ParamsOf(s) = <<"string">>
    BY <2>1, <2>2 DEF BuiltinParams
  <2>4. <<"string">> # <<>>
    OBVIOUS
  <2> QED BY <2>3, <2>4
<1>6. s # NoSymbol
  BY <1>4 DEF IsFunction, NoSymbol
<1>7. CASE n \in DOMAIN symbols /\ StandsFor(n, s)
  <2>1. PICK j \in Functions : s = <<"fn", j>> /\ n = Mangling(j)
    BY <1>4, <1>7 DEF StandsFor, IsFunction
  <2>2. program[j].name = Word("println") /\ program[j].params = <<>>
    BY <2>1 DEF NameOf, ParamsOf
  <2> QED BY <2>1, <2>2 DEF PrintsNothing
<1>8. CASE n \in DOMAIN overloads /\ s = overloads[n][1] /\ IsOverload(n, s)
  <2>1. s[1] = "fn"
    BY <1>1, <1>8, OverloadMeans
  <2>2. PICK j \in Functions : s = <<"fn", j>> /\ program[j].name = n
    BY <1>1, <1>8, <2>1, OverloadMeans
  <2>3. n = Word("println") /\ program[j].params = <<>>
    BY <2>2 DEF NameOf, ParamsOf
  <2>4. ASSUME NEW k \in Functions, program[k].name = Word("println")
        PROVE  j <= k
    <3>1. Overloaded(n, <<"fn", k>>)
      BY <1>1, <2>3, <2>4, EverythingStored
    <3> QED BY <1>1, <1>8, <2>2, <3>1, FirstOverload
  <2> QED BY <2>2, <2>3, <2>4 DEF PrintsNothing
<1> QED BY <1>1, <1>4, <1>5, <1>6, <1>7, <1>8, ResolveMeans

\* And if it has one, the writer meets it.
LEMMA PrintsNothingIsMet ==
  ASSUME Finished, PrintsNothing
  PROVE  \E s \in WrittenCalls :
           s[1] # "ctor" /\ NameOf(s) = Word("println") /\ ParamsOf(s) = <<>>
<1>1. NamesInv /\ phase \notin {"rejected", "aborted"}
  BY FinishedMeans
<1>2. PICK i \in Callers, j \in Functions :
        /\ program[j].name = Word("println") /\ program[j].params = <<>>
        /\ \/ program[i].call.name = Mangling(j)
           \/ /\ program[i].call.name = Word("println")
              /\ \A k \in Functions : program[k].name = Word("println") => j <= k
  BY DEF PrintsNothing
<1> DEFINE n == program[i].call.name
           s == <<"fn", j>>
<1>3. s[1] # "ctor" /\ NameOf(s) = Word("println") /\ ParamsOf(s) = <<>>
  BY <1>2 DEF NameOf, ParamsOf
<1>4. \A m \in Structs : Stored(program[m].name, <<"struct", m>>)
  BY <1>1, EverythingStored
<1>5. Stored(Mangling(j), s) /\ Overloaded(Word("println"), s) /\ IsFunction(Resolve(Word("println")))
  BY <1>1, <1>2, FinishedMeans, EverythingStored
<1>6. NamedSo(i) = {}
  <2> SUFFICES ASSUME NEW m \in Structs, program[m].name = n PROVE FALSE
    BY DEF NamedSo
  <2>1. CASE n = Mangling(j)
    BY <1>4, <1>5, <2>1 DEF Stored
  <2>2. CASE n = Word("println")
    BY <1>4, <1>5, <2>2 DEF Stored, Resolve, IsFunction
  <2> QED BY <1>2, <2>1, <2>2
<1>7. Resolve(n) \in WrittenCalls
  BY <1>6, FoundCallsAreWritten
<1>8. Resolve(n) = s
  <2>1. CASE n = Mangling(j)
    BY <1>5, <2>1 DEF Stored, Resolve
  <2>2. CASE /\ n = Word("println")
             /\ \A k \in Functions : program[k].name = Word("println") => j <= k
    <3>1. n \in DOMAIN overloads
      BY <1>5, <2>2 DEF Overloaded
    <3>2. ~StandsFor(n, Resolve(n))
      <4>1. \A m \in Functions : n # Mangling(m)
        BY <1>1, <2>2, ManglingShape DEF Functions, OfKind
      <4>2. \A m \in DOMAIN parameters : \A ks \in ByLine(m) : n # ConstructorName(m, ks)
        BY <1>1, <2>2, ConstructorShape DEF NamesInv, ParametersInv
      <4>3. IsFunction(Resolve(n))
        BY <1>5, <2>2
      <4> QED BY <4>1, <4>2, <4>3 DEF StandsFor, IsFunction
    <3>3. Resolve(n) = overloads[n][1] /\ IsOverload(n, Resolve(n))
      BY <1>1, <3>1, <3>2, ResolveMeans
    <3>4. Resolve(n)[1] = "fn"
      <4>1. Resolve(n)[1] # "fn" => \E m \in Structs : program[m].name = n
        BY <1>1, <3>3, OverloadMeans
      <4> QED BY <1>6, <4>1 DEF NamedSo
    <3>5. PICK k \in Functions : Resolve(n) = <<"fn", k>> /\ program[k].name = n
      BY <1>1, <3>3, <3>4, OverloadMeans
    <3>6. overloads[n][1] = <<"fn", k>> /\ Overloaded(n, <<"fn", j>>)
      BY <1>5, <2>2, <3>3, <3>5
    <3>7. k <= j /\ j \in Nat /\ k \in Nat
      BY <1>1, <3>1, <3>6, FirstOverload
    <3>8. j <= k
      BY <2>2, <3>5
    <3> QED BY <3>5, <3>7, <3>8
  <2> QED BY <1>2, <2>1, <2>2
<1> QED BY <1>3, <1>7, <1>8

\* Why the compiler aborts, of the program alone.
AbortNamed ==
  \/ PrintsNothing
  \/ (\E i \in Functions : Hidden(i))
  \/ (\E j \in Structs : Computed(j))
  \/ \E j \in OfKind("global") : NamesNoVariable(j)

\* The reasons to abort depend on the program only.
LEMMA AbortNamedStays ==
  ASSUME program' = program
  PROVE  AbortNamed' <=> AbortNamed
<1>1. \A kind : OfKind(kind)' = OfKind(kind)
  BY DEF OfKind
<1>2. Functions' = Functions /\ Structs' = Structs /\ Callers' = Callers
  BY <1>1 DEF Functions, Structs, Callers
<1>3. PrintsNothing' <=> PrintsNothing
  BY <1>2 DEF PrintsNothing, Mangling
<1>4. \A i : (Hidden(i)' <=> Hidden(i)) /\ (Computed(i)' <=> Computed(i))
  BY <1>1, <1>2 DEF Hidden, Computed, SameName
<1>5. \A i : NamesNoVariable(i)' <=> NamesNoVariable(i)
  BY DEF NamesNoVariable, SameName, Mangling
<1> QED BY <1>1, <1>2, <1>3, <1>4, <1>5 DEF AbortNamed

\* A declaration that ends the compiler: its name is that of an earlier struct,
\* or the one that an earlier function is stored under.
LEMMA CollectAborts ==
  ASSUME NamesInv, NEW d \in Definitions, Collect(d), phase' = "aborted"
  PROVE  AbortNamed'
<1>0. PICK i : i = Len(program) + 1
  OBVIOUS
<1>1. d \in DefinitionSet /\ WellMade(d)
  BY DefinitionsAreWellMade
<1>2. /\ phase = "collecting" /\ program' = Append(program, d) /\ DOMAIN parameters = {}
      /\ ProgramInv
      /\ d.kind = "global" /\ d.name \in DOMAIN symbols /\ symbols[d.name][1] # "global"
  <2>1. /\ phase = "collecting" /\ program' = Append(program, d) /\ DOMAIN parameters = {}
        /\ ProgramInv
    BY DEF Collect, NamesInv, ParametersInv
  <2>2. d.kind # "fn" /\ AddOther(<<d.kind, i>>, d.name)
    BY <1>0, <2>1 DEF Collect, AddFunction
  <2>3. /\ d.name \in DOMAIN symbols
        /\ AfterRedeclaration(<<d.kind, i>>, d.name) = "aborted"
    BY <2>1, <2>2 DEF AddOther
  <2>4. <<d.kind, i>>[1] = "global" /\ symbols[d.name][1] # "global"
    BY <2>3 DEF AfterRedeclaration
  <2>5. <<d.kind, i>>[1] = d.kind
    OBVIOUS
  <2> QED BY <2>1, <2>3, <2>4, <2>5
<1>3. /\ i \in Nat /\ \A j \in DOMAIN program : j \in Nat /\ j < i
      /\ program'[i] = d /\ \A j \in DOMAIN program : program'[j] = program[j]
      /\ \A kind : OfKind(kind)' = OfKind(kind) \cup (IF d.kind = kind THEN {i} ELSE {})
      /\ \A j \in DOMAIN program : Mangling(j)' = Mangling(j)
      /\ DOMAIN program = 1..Len(program)
  <2>1. DOMAIN program = 1..Len(program)
    BY <1>2 DEF ProgramInv
  <2> QED BY <1>0, <1>1, <1>2, <2>1, Growth
<1>4. i \in OfKind("global")'
  BY <1>2, <1>3
<1>5. PICK j \in DOMAIN program :
        \/ program[j].kind = "struct" /\ program[j].name = d.name
        \/ program[j].kind = "fn" /\ d.name = Mangling(j)
  <2>1. StandsFor(d.name, symbols[d.name])
    BY <1>2 DEF NamesInv, SymbolsInv
  <2> QED BY <1>2, <2>1 DEF StandsFor, Functions, Structs, Globals, OfKind
<1>6. j \in 1..(i - 1)
  BY <1>0, <1>3
<1>7. \/ program'[j].kind = "struct" /\ program'[j].name = program'[i].name
      \/ program'[j].kind = "fn" /\ program'[i].name = Mangling(j)'
  BY <1>3, <1>5
<1>8. NamesNoVariable(i)'
  BY <1>6, <1>7 DEF NamesNoVariable, SameName
<1> QED BY <1>4, <1>8 DEF AbortNamed

\* What was collected has a name of its own.
LEMMA FinishedNamesVariables ==
  ASSUME Finished, NEW j \in OfKind("global")
  PROVE  ~NamesNoVariable(j)
<1>1. NamesInv /\ phase \notin {"rejected", "aborted"}
  BY FinishedMeans
<1>2. Stored(program[j].name, <<"global", j>>)
  BY <1>1 DEF NamesInv, RegisteredInv, Globals
<1>3. j \in 1..Len(program) /\ DOMAIN program = 1..Len(program) /\ Len(program) \in Nat
  BY <1>1 DEF NamesInv, ProgramInv, OfKind
<1> SUFFICES ASSUME NEW i \in 1..(j - 1),
                    \/ program[i].kind = "struct" /\ SameName(i, j)
                    \/ program[i].kind = "fn" /\ program[j].name = Mangling(i)
             PROVE  FALSE
  BY DEF NamesNoVariable
<1>4. i \in DOMAIN program
  BY <1>3
<1>5. CASE program[i].kind = "struct" /\ SameName(i, j)
  <2>1. Stored(program[j].name, <<"struct", i>>)
    BY <1>1, <1>4, <1>5, EverythingStored DEF SameName, Structs, OfKind
  <2> QED BY <1>2, <2>1 DEF Stored
<1>6. CASE program[i].kind = "fn" /\ program[j].name = Mangling(i)
  <2>1. Stored(program[j].name, <<"fn", i>>)
    BY <1>1, <1>4, <1>6, EverythingStored DEF Functions, OfKind
  <2> QED BY <1>2, <2>1 DEF Stored
<1> QED BY <1>5, <1>6

\* Every step that aborts has one of the reasons, and every program that is
\* written has none.
LEMMA AbortsStep == LinkageInv /\ AbortsAreNamed /\ [Next]_vars => AbortsAreNamed'
<1> SUFFICES ASSUME LinkageInv, AbortsAreNamed, [Next]_vars PROVE AbortsAreNamed'
  OBVIOUS
<1>1. /\ AbortsAreNamed <=> (phase \in {"aborted", "done"} => (phase = "aborted" <=> AbortNamed))
      /\ AbortsAreNamed' <=>
           (phase' \in {"aborted", "done"} => (phase' = "aborted" <=> AbortNamed'))
  BY DEF AbortsAreNamed, AbortNamed
<1>2. CASE UNCHANGED vars
  BY <1>1, <1>2, AbortNamedStays DEF vars
<1>7. CASE \E d \in Definitions : Collect(d)
  <2>1. PICK d \in Definitions : Collect(d)
    BY <1>7
  <2>2. phase' # "done"
    BY <2>1 DEF Collect, AddFunction, AddOther, AfterRedeclaration
  <2>3. phase' = "aborted" => AbortNamed'
    BY <2>1, CollectAborts DEF LinkageInv
  <2> QED BY <1>1, <2>2, <2>3
<1>3. CASE \/ EndCollection \/ CreateConstructor \/ EndConstructors \/ CheckCall
           \/ EndChecking \/ EndGenerating
  <2>1. phase' \notin {"aborted", "done"}
    <3>2. CASE EndCollection \/ EndConstructors \/ EndChecking \/ EndGenerating
      BY <3>2 DEF EndCollection, EndConstructors, EndChecking, EndGenerating
    <3>3. CASE CreateConstructor
      BY <3>3 DEF CreateConstructor, AddFunction
    <3>4. CASE CheckCall
      BY <3>4 DEF CheckCall
    <3> QED BY <1>3, <3>2, <3>3, <3>4
  <2> QED BY <1>1, <2>1
<1>4. CASE GenerateFunction
  <2> SUFFICES ASSUME phase' \in {"aborted", "done"} PROVE phase' = "aborted" /\ AbortNamed
    BY <1>1, <1>4, AbortNamedStays DEF GenerateFunction
  <2>1. PICK i : i = NextTodo
    OBVIOUS
  <2>2. /\ phase = "generating" /\ todo # {} /\ program[i].kind = "fn" /\ phase' = "aborted"
        /\ ~IsFunction(Current(i)) \/ (Calls(program[i]) /\ ~IsFunction(CalledFunction(i)))
    BY <1>4, <2>1 DEF GenerateFunction, Current
  <2>3. i \in Functions
    BY <2>1, <2>2, NextIsFirst DEF LinkageInv, Functions, OfKind
  <2> QED BY <2>2, <2>3, NotFoundIsHidden DEF AbortNamed
<1>5. CASE GenerateStruct
  <2> SUFFICES ASSUME phase' \in {"aborted", "done"} PROVE phase' = "aborted" /\ AbortNamed
    BY <1>1, <1>5, AbortNamedStays DEF GenerateStruct
  <2>1. PICK i : i = NextTodo
    OBVIOUS
  <2>2. /\ phase = "generating" /\ todo # {} /\ program[i].kind = "struct" /\ phase' = "aborted"
        /\ Computed(i)
    BY <1>5, <2>1 DEF GenerateStruct, Computed
  <2>3. i \in Structs
    BY <2>1, <2>2, NextIsFirst DEF LinkageInv, Structs, OfKind
  <2> QED BY <2>2, <2>3 DEF AbortNamed
<1>6. CASE Write
  <2>1. Finished /\ program' = program
    BY <1>6 DEF Write, Finished
  <2>2. AbortNamed' <=> PrintsNothing
    BY <2>1, FinishedIsPlain, FinishedNamesVariables, AbortNamedStays DEF AbortNamed
  <2>3. phase' = IF \E s \in WrittenCalls :
                      s[1] # "ctor" /\ NameOf(s) = Word("println") /\ ParamsOf(s) = <<>>
                 THEN "aborted" ELSE "done"
    BY <1>6 DEF Write
  <2>4. CASE PrintsNothing
    BY <1>1, <2>1, <2>2, <2>3, <2>4, PrintsNothingIsMet
  <2>5. CASE ~PrintsNothing
    BY <1>1, <2>1, <2>2, <2>3, <2>5, WriterAborts
  <2> QED BY <2>4, <2>5
<1> QED BY <1>2, <1>3, <1>4, <1>5, <1>6, <1>7 DEF Next

\* The programs the compiler neither rejects nor survives are those in which a
\* variable or a struct hides a function from the generator, those that call a
\* println without parameters, those with a computed default value, and those
\* that declare a variable whose name is taken by something that is none.
THEOREM AbortsNamed == Spec => []AbortsAreNamed
<1>1. Init => AbortsAreNamed
  BY DEF Init, AbortsAreNamed
<1> QED BY <1>1, AbortsStep, LinkageInvHolds, PTL DEF Spec

\* Why a program is rejected, of the program alone.
RejectNamed ==
  \/ \E i, j \in DOMAIN program : Clash(i, j) \/ ManglingClash(i, j)
  \/ \E i \in Structs : Crowded(i)
  \/ \E i \in Callers : IllegalCall(i) \/ EarlyCall(i) \/ OrderDependent(i)

\* The reasons to reject depend on the program only.
LEMMA RejectNamedStays ==
  ASSUME program' = program
  PROVE  RejectNamed' <=> RejectNamed
<1>1. \A kind : OfKind(kind)' = OfKind(kind)
  BY DEF OfKind
<1>2. Functions' = Functions /\ Structs' = Structs /\ Callers' = Callers
  BY <1>1 DEF Functions, Structs, Callers
<1>3. \A i, j : (Clash(i, j)' <=> Clash(i, j)) /\ (ManglingClash(i, j)' <=> ManglingClash(i, j))
  BY DEF Clash, ManglingClash, SameName, Mangling
<1>4. \A i : Crowded(i)' <=> Crowded(i)
  BY DEF Crowded, PublicFields, Line
<1>5. \A i : Meant(i)' = Meant(i)
  BY <1>2 DEF Meant
<1>6. \A i : /\ IllegalCall(i)' <=> IllegalCall(i)
             /\ EarlyCall(i)' <=> EarlyCall(i)
             /\ OrderDependent(i)' <=> OrderDependent(i)
  BY <1>2, <1>5 DEF IllegalCall, EarlyCall, OrderDependent
<1> QED BY <1>2, <1>3, <1>4, <1>6 DEF RejectNamed

\* Two definitions of one mangled name clash.
LEMMA SameMangling ==
  ASSUME NamesInv, NEW i \in DOMAIN program, NEW j \in DOMAIN program, i # j,
         Mangling(i) = Mangling(j), {program[i].kind, program[j].kind} \subseteq {"fn", "struct"}
  PROVE  Clash(i, j) \/ ManglingClash(i, j)
<1>1. CASE SameName(i, j)
  <2>1. program[i].params = program[j].params
    BY <1>1, ManglingShape, MangledApart DEF SameName, Mangling
  <2> QED BY <1>1, <2>1 DEF Clash
<1>2. CASE ~SameName(i, j)
  BY <1>2 DEF ManglingClash
<1> QED BY <1>1, <1>2

\* A definition is not collected.
LEMMA CollectRejects ==
  ASSUME NamesInv, NEW d \in Definitions, Collect(d), phase' = "rejected"
  PROVE  RejectNamed'
<1>0. PICK i : i = Len(program) + 1
  OBVIOUS
<1>1. d \in DefinitionSet /\ WellMade(d)
  BY DefinitionsAreWellMade
<1>2. /\ phase = "collecting" /\ program' = Append(program, d) /\ DOMAIN parameters = {}
      /\ ProgramInv
      /\ d.kind = "fn" => Mangled(d.name, d.params) \in DOMAIN symbols
      /\ d.kind # "fn" => d.name \in DOMAIN symbols
  BY DEF Collect, NamesInv, ParametersInv, AddFunction, AddOther
<1>3. /\ i \notin DOMAIN program /\ DOMAIN program' = DOMAIN program \cup {i}
      /\ program'[i] = d /\ \A j \in DOMAIN program : program'[j] = program[j]
      /\ \A j \in DOMAIN program : Mangling(j)' = Mangling(j)
  BY <1>0, <1>1, <1>2, Growth
<1>4. Mangling(i)' = Mangled(d.name, d.params)
  BY <1>3 DEF Mangling
<1>5. NamesInv'
  BY CollectNames
<1>6. /\ \A j \in Functions : j \in DOMAIN program /\ program[j].kind = "fn"
      /\ \A j \in Structs \cup Globals : j \in DOMAIN program /\ program[j].kind # "fn"
  BY DEF Functions, Structs, Globals, OfKind
<1>7. ASSUME NEW n \in DOMAIN symbols
      PROVE  \/ \E j \in Functions : n = Mangling(j)
             \/ \E j \in Structs \cup Globals : n = program[j].name
  <2>1. StandsFor(n, symbols[n])
    BY <1>7 DEF NamesInv, SymbolsInv
  <2> QED BY <1>2, <2>1 DEF StandsFor
<1> SUFFICES \E j \in DOMAIN program : Clash(i, j)' \/ ManglingClash(i, j)' \/ ManglingClash(j, i)'
  BY <1>3 DEF RejectNamed
<1>8. CASE d.kind = "fn"
  <2>1. CASE \E j \in Functions : Mangled(d.name, d.params) = Mangling(j)
    <3>1. PICK j \in Functions : Mangled(d.name, d.params) = Mangling(j)
      BY <2>1
    <3>2. /\ i \in DOMAIN program' /\ j \in DOMAIN program' /\ i # j /\ j \in DOMAIN program
          /\ Mangling(i)' = Mangling(j)'
          /\ program'[i].kind = "fn" /\ program'[j].kind = "fn"
      BY <1>3, <1>4, <1>6, <1>8, <3>1
    <3>3. CASE SameName(i, j)'
      <4>1. Mangled(d.name, d.params) = Mangled(d.name, program[j].params)
        BY <1>3, <3>1, <3>2, <3>3 DEF Mangling, SameName
      <4>2. d.name \in Seq(Words) /\ d.params \in Seq(Types) /\ program[j].params \in Seq(Types)
        BY <1>1, <3>2, ManglingShape DEF DefinitionSet
      <4>3. d.params = program[j].params
        BY <4>1, <4>2, MangledApart
      <4> QED BY <1>3, <3>2, <3>3, <4>3 DEF Clash
    <3>4. CASE ~SameName(i, j)'
      BY <3>2, <3>4 DEF ManglingClash
    <3> QED BY <3>2, <3>3, <3>4
  <2>2. CASE \E j \in Structs \cup Globals : Mangled(d.name, d.params) = program[j].name
    <3>1. PICK j \in Structs \cup Globals : Mangled(d.name, d.params) = program[j].name
      BY <2>2
    <3>2. j \in DOMAIN program /\ j # i /\ program'[j].kind # "fn" /\ program'[j].name = Mangling(i)'
      BY <1>3, <1>4, <1>6, <3>1
    <3> QED BY <3>2 DEF ManglingClash
  <2> QED BY <1>2, <1>7, <1>8, <2>1, <2>2
<1>9. CASE d.kind # "fn"
  <2>1. CASE \E j \in Functions : d.name = Mangling(j)
    <3>1. PICK j \in Functions : d.name = Mangling(j)
      BY <2>1
    <3>2. /\ j \in DOMAIN program /\ j # i /\ program'[i].kind # "fn"
          /\ program'[i].name = Mangling(j)'
      BY <1>3, <1>6, <1>9, <3>1
    <3> QED BY <3>2 DEF ManglingClash
  <2>2. CASE \E j \in Structs \cup Globals : d.name = program[j].name
    <3>1. PICK j \in Structs \cup Globals : d.name = program[j].name
      BY <2>2
    <3>2. /\ j \in DOMAIN program /\ j # i /\ SameName(i, j)'
          /\ program'[i].kind # "fn" /\ program'[j].kind # "fn"
      BY <1>3, <1>6, <1>9, <3>1 DEF SameName
    <3> QED BY <3>2 DEF Clash
  <2> QED BY <1>2, <1>7, <1>9, <2>1, <2>2
<1> QED BY <1>8, <1>9

\* A constructor is not made.
LEMMA ConstructorRejects ==
  ASSUME NamesInv, CreateConstructor, phase' = "rejected"
  PROVE  RejectNamed
<1>0. PICK i : i = NextTodo
  OBVIOUS
<1>1. phase = "constructors" /\ todo # {}
  BY DEF CreateConstructor
<1>2. /\ i \in todo /\ i \in Structs /\ i \in DOMAIN program /\ program[i].kind = "struct"
      /\ DOMAIN parameters = Structs \ todo
  BY <1>0, <1>1, NextIsFirst DEF NamesInv, TodoInv, ParametersInv, Structs, OfKind
<1>3. PICK ks \in ByLine(i) : ConstructorName(i, ks) \in DOMAIN symbols
  BY <1>0, <1>1 DEF CreateConstructor, AddFunction, ConstructorName
<1> SUFFICES ASSUME \A j \in Structs : ~Crowded(j) PROVE RejectNamed
  BY DEF RejectNamed
<1>4. ConstructorName(i, ks) = Mangling(i)
  BY <1>2, ConstructorShape
<1>5. StandsFor(Mangling(i), symbols[Mangling(i)])
  BY <1>3, <1>4 DEF NamesInv, SymbolsInv
<1>6. CASE \E j \in Functions : Mangling(i) = Mangling(j)
  <2>1. PICK j \in Functions : Mangling(i) = Mangling(j)
    BY <1>6
  <2>2. j \in DOMAIN program /\ program[j].kind = "fn" /\ i # j
    BY <1>2 DEF Functions, OfKind
  <2> QED BY <1>2, <2>1, <2>2, SameMangling DEF RejectNamed
<1>7. CASE \E j \in Structs \cup Globals : Mangling(i) = program[j].name
  <2>1. PICK j \in Structs \cup Globals : Mangling(i) = program[j].name
    BY <1>7
  <2>2. j \in DOMAIN program /\ program[j].kind # "fn"
    BY DEF Structs, Globals, OfKind
  <2>3. i # j
    BY <1>2, <2>1, ManglingShape
  <2> QED BY <1>2, <2>1, <2>2, <2>3 DEF ManglingClash, RejectNamed
<1>8. CASE \E j \in DOMAIN parameters : \E os \in ByLine(j) : Mangling(i) = ConstructorName(j, os)
  <2>1. PICK j \in DOMAIN parameters : \E os \in ByLine(j) : Mangling(i) = ConstructorName(j, os)
    BY <1>8
  <2>2. j \in Structs /\ j # i /\ j \in DOMAIN program /\ program[j].kind = "struct"
    BY <1>2 DEF Structs, OfKind
  <2>3. Mangling(i) = Mangling(j)
    BY <2>1, <2>2, ConstructorShape
  <2> QED BY <1>2, <2>2, <2>3, SameMangling DEF RejectNamed
<1> QED BY <1>5, <1>6, <1>7, <1>8 DEF StandsFor
\* With no crowded struct, a call means the functions it may be resolved to.
LEMMA MeantAreCandidates ==
  ASSUME NamesInv, phase = "checking", \A j \in Structs : ~Crowded(j),
         NEW i \in Callers, NEW n, n = program[i].call.name
  PROVE  /\ \A params \in Meant(i) :
              \E k \in DOMAIN Candidates(n) : ParamsOf(Candidates(n)[k]) = params
         /\ \A s : Candidate(n, s) => ParamsOf(s) \in Meant(i)
<1>1. /\ DOMAIN parameters = Structs
      /\ \A j \in Structs : parameters[j] \in ByLine(j)
  BY DEF NamesInv, ParametersInv
<1>2. \A j \in Structs : ParamsOf(<<"ctor", j>>) = program[j].params
  <2> TAKE j \in Structs
  <2>1. FieldTypes(j, parameters[j]) = program[j].params
    BY <1>1, ConstructorShape
  <2> QED BY <2>1 DEF ParamsOf
<1>3. \A j \in Functions : ParamsOf(<<"fn", j>>) = program[j].params
  BY DEF ParamsOf
<1>4. \A j \in Functions \cup Structs : program[j].name = n =>
        \E s : Overloaded(n, s) /\ ParamsOf(s) = program[j].params
  <2> SUFFICES ASSUME NEW j \in Functions \cup Structs, program[j].name = n
               PROVE  \E s : Overloaded(n, s) /\ ParamsOf(s) = program[j].params
    OBVIOUS
  <2>1. CASE j \in Functions
    <3>1. Overloaded(n, <<"fn", j>>)
      BY <2>1, EverythingStored
    <3> QED BY <1>3, <2>1, <3>1
  <2>2. CASE j \in Structs
    <3>1. Overloaded(n, <<"ctor", j>>)
      BY <1>1, <2>2, EverythingStored
    <3> QED BY <1>2, <2>2, <3>1
  <2> QED BY <2>1, <2>2
<1>5. \A s : IsOverload(n, s) =>
        \E j \in Functions \cup Structs : program[j].name = n /\ ParamsOf(s) = program[j].params
  BY <1>1, <1>2, <1>3 DEF IsOverload
<1>6. /\ \A s : Overloaded(n, s) => \E k \in DOMAIN Candidates(n) : Candidates(n)[k] = s
      /\ \A b \in Builtins : n = Word(b) /\ n \notin DOMAIN overloads =>
           \E k \in DOMAIN Candidates(n) : Candidates(n)[k] = <<"builtin", b>>
  BY CandidatesAreFunctions
<1>7. PICK own : own = {program[j].params : j \in {k \in Functions \cup Structs :
                                                    program[k].name = n}}
  OBVIOUS
<1>8. Meant(i) = IF own # {} THEN own
                 ELSE {BuiltinParams(b) : b \in {c \in Builtins : n = Word(c)}}
  BY <1>7 DEF Meant
<1>9. CASE own # {}
  <2>1. \A params \in Meant(i) : \E s : Overloaded(n, s) /\ ParamsOf(s) = params
    BY <1>4, <1>7, <1>8, <1>9
  <2>2. n \in DOMAIN overloads
    BY <1>8, <1>9, <2>1 DEF Overloaded
  <2>3. \A s : Candidate(n, s) => ParamsOf(s) \in Meant(i)
    BY <1>5, <1>7, <1>8, <1>9, <2>2 DEF Candidate
  <2> QED BY <1>6, <2>1, <2>3
<1>10. CASE own = {}
  <2>1. \A s : ~IsOverload(n, s)
    BY <1>5, <1>7, <1>10
  <2>2. n \notin DOMAIN overloads
    <3> SUFFICES ASSUME n \in DOMAIN overloads PROVE FALSE
      OBVIOUS
    <3>1. overloads[n] \in Seq({"fn", "ctor"} \X Nat) /\ overloads[n] # <<>>
            /\ \A k \in DOMAIN overloads[n] : IsOverload(n, overloads[n][k])
      BY DEF NamesInv, OverloadsInv, Arranged
    <3>2. 1 \in DOMAIN overloads[n]
      BY <3>1
    <3> QED BY <2>1, <3>1, <3>2
  <2>3. \A b : ParamsOf(<<"builtin", b>>) = BuiltinParams(b)
    BY DEF ParamsOf
  <2>4. \A s : Candidate(n, s) => ParamsOf(s) \in Meant(i)
    BY <1>8, <1>10, <2>2, <2>3 DEF Candidate
  <2>5. ASSUME NEW params \in Meant(i)
        PROVE  \E k \in DOMAIN Candidates(n) : ParamsOf(Candidates(n)[k]) = params
    <3>1. PICK b \in Builtins : n = Word(b) /\ params = BuiltinParams(b)
      BY <1>8, <1>10
    <3> QED BY <1>6, <2>2, <2>3, <3>1
  <2> QED BY <2>4, <2>5
<1> QED BY <1>9, <1>10

\* A call is not accepted.
LEMMA CallRejects ==
  ASSUME NamesInv, CheckCall, phase' = "rejected"
  PROVE  RejectNamed
<1>0. PICK i, n, args, s : /\ i = NextTodo /\ n = program[i].call.name
                           /\ args = program[i].call.args /\ s = ResolveCall(n, args)
  OBVIOUS
<1>1. /\ phase = "checking" /\ todo # {}
      /\ s = NoSymbol \/ UsedTooEarly(i) \/ ~Accepts(args, ParamsOf(s))
  BY <1>0 DEF CheckCall
<1>2. i \in Callers
  BY <1>0, <1>1, NextIsFirst DEF NamesInv, TodoInv
<1> SUFFICES ASSUME \A j \in Structs : ~Crowded(j)
             PROVE  IllegalCall(i) \/ EarlyCall(i) \/ OrderDependent(i)
  BY <1>2 DEF RejectNamed
<1>3. /\ \A params \in Meant(i) :
           \E k \in DOMAIN Candidates(n) : ParamsOf(Candidates(n)[k]) = params
      /\ \A t : Candidate(n, t) => ParamsOf(t) \in Meant(i)
  BY <1>0, <1>1, <1>2, MeantAreCandidates
<1>4. /\ s # NoSymbol => /\ Candidate(n, s) /\ Len(ParamsOf(s)) = Len(args)
                         /\ (\E k \in DOMAIN Candidates(n) : ParamsOf(Candidates(n)[k]) = args)
                              => ParamsOf(s) = args
      /\ s = NoSymbol =>
           \A k \in DOMAIN Candidates(n) : Len(ParamsOf(Candidates(n)[k])) # Len(args)
  BY <1>0, ResolveCallFits
<1>5. CASE s = NoSymbol
  <2>1. \A params \in Meant(i) : Len(params) # Len(args)
    BY <1>3, <1>4, <1>5
  <2> QED BY <1>0, <2>1 DEF IllegalCall, Accepts
<1>6. CASE UsedTooEarly(i)
  <2>1. ResolveIn(i, n)[1] = "struct" /\ \A k \in 1..i : program[k].name # n
    BY <1>0, <1>6 DEF UsedTooEarly
  <2>2. program[i].hides # n /\ Resolve(n)[1] = "struct"
    BY <2>1 DEF ResolveIn
  <2>3. StandsFor(n, Resolve(n))
    <3>1. IsOverload(n, Resolve(n)) => Resolve(n)[1] # "struct"
      BY DEF IsOverload
    <3>2. NoSymbol[1] # "struct"
      BY DEF NoSymbol
    <3> QED BY <2>2, <3>1, <3>2, ResolveMeans
  <2>4. PICK j \in Structs : Resolve(n) = <<"struct", j>> /\ n = program[j].name
    BY <2>2, <2>3 DEF StandsFor
  <2>5. j > i
    <3>1. i \in Nat /\ j \in Nat /\ j \in 1..Len(program) /\ i \in 1..Len(program)
      BY <1>2 DEF NamesInv, ProgramInv, Callers, Structs, OfKind
    <3> QED BY <2>1, <2>4, <3>1
  <2> QED BY <1>0, <2>1, <2>2, <2>4, <2>5 DEF EarlyCall
<1>7. CASE s # NoSymbol /\ ~Accepts(args, ParamsOf(s))
  <2>1. ParamsOf(s) \in Meant(i) /\ Len(ParamsOf(s)) = Len(args)
    BY <1>3, <1>4, <1>7
  <2>2. ParamsOf(s) # args
    BY <1>7 DEF Accepts
  <2>3. args \notin Meant(i)
    BY <1>3, <1>4, <1>7, <2>2
  <2> QED BY <1>0, <1>7, <2>1, <2>3 DEF OrderDependent
<1> QED BY <1>1, <1>5, <1>6, <1>7

\* Every step that rejects has one of these reasons, and they stay.
LEMMA RejectionsStep == NamesInv /\ RejectionsAreNamed /\ [Next]_vars => RejectionsAreNamed'
<1> SUFFICES ASSUME NamesInv, RejectionsAreNamed, [Next]_vars, phase' = "rejected"
             PROVE  RejectNamed'
  BY DEF RejectionsAreNamed, RejectNamed
<1>1. phase = "rejected" => RejectNamed
  BY DEF RejectionsAreNamed, RejectNamed
<1>2. CASE UNCHANGED vars
  BY <1>1, <1>2, RejectNamedStays DEF vars
<1>3. CASE \E d \in Definitions : Collect(d)
  BY <1>3, CollectRejects
<1>4. CASE CreateConstructor
  BY <1>4, ConstructorRejects, RejectNamedStays DEF CreateConstructor
<1>5. CASE CheckCall
  BY <1>5, CallRejects, RejectNamedStays DEF CheckCall
<1>6. CASE \/ EndCollection \/ EndConstructors \/ EndChecking \/ GenerateFunction
           \/ GenerateStruct \/ EndGenerating \/ Write
  BY <1>6 DEF EndCollection, EndConstructors, EndChecking, GenerateFunction,
              GenerateStruct, EndGenerating, Write
<1> QED BY <1>2, <1>3, <1>4, <1>5, <1>6 DEF Next

\* A program is rejected for two definitions that clash or a call that is not
\* legal; otherwise its names collide only once mangled, a line has fields of
\* different types, or the overload that takes a call is not the first.
THEOREM RejectionsNamed == Spec => []RejectionsAreNamed
<1>1. Init => RejectionsAreNamed
  BY DEF Init, RejectionsAreNamed
<1>2. LinkageInv => NamesInv
  BY DEF LinkageInv
<1> QED BY <1>1, <1>2, RejectionsStep, LinkageInvHolds, PTL DEF Spec

=============================================================================
