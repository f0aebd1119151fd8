----------------------------- MODULE ScopeProofs -----------------------------
(***************************************************************************)
(* Theorems of ScopePasses, for programs of any length and any names and   *)
(* types.  Of the passes: the type invariant, that the first one walks     *)
(* lexically, and that no step renames a symbol.  Of the generated code:   *)
(* its loads and stores are of the variables lexical scoping names, the    *)
(* variables of a function never share a slot, and a variable has its slot *)
(* before it is used.  The passes accept exactly what lexical scoping      *)
(* accepts, if no declaration shadows another.                             *)
(***************************************************************************)
EXTENDS ScopeProps, SequenceTheorems, WellFoundedInduction, TLAPS

\* What Statements holds, from the assumption on the constants.
LEMMA StatementFields ==
  ASSUME NEW st \in Statements
  PROVE  /\ st.op \in {"param", "declare", "assign", "use"}
         /\ st.name \in Names /\ st.type \in Types /\ st.src \in Sources
BY ConstantsAssumption

LEMMA MaxEventsIsNat == MaxEvents \in Nat
BY ConstantsAssumption

\* Greatest picks the greatest member of a set of integers that has one.
LEMMA GreatestIs ==
  ASSUME NEW S, NEW m \in S, S \subseteq Int, \A x \in S : x <= m
  PROVE  Greatest(S) = m
<1>1. \A y \in S : (\A x \in S : y >= x) => y = m
  OBVIOUS
<1>2. Greatest(S) \in S /\ \A x \in S : Greatest(S) >= x
  BY DEF Greatest
<1> QED BY <1>1, <1>2

-----------------------------------------------------------------------------
(* The invariant.  The open events of the first pass are a stack of scopes *)
(* in the order they were opened, and the chain of each is the stack up to *)
(* it; TypeOK needs it because leaving a scope goes to the parent the      *)
(* chain gives.                                                            *)

NestIsStack ==
  /\ nest # <<>> /\ nest[1] = 0
  /\ \A i \in 1..Len(nest) : nest[i] <= Len(program)
  /\ \A i, j \in 1..Len(nest) : i < j => nest[i] < nest[j]

ChainsFollowNest ==
  \A k \in 1..Len(nest) : chain[nest[k]] = {nest[i] : i \in 1..k}

ScopesReachProgram ==
  /\ 0 \in chain[0]
  /\ \A i \in 1..Len(program) : OpensScope(i) => 0 \in chain[i]

CollectInv ==
  /\ NestIsStack
  /\ ScopesReachProgram
  /\ phase = "collect" => ChainsFollowNest /\ currentScope = Enclosing

IInv == TypeOK /\ CollectInv

-----------------------------------------------------------------------------
LEMMA InitIInv == Init => IInv
<1> SUFFICES ASSUME Init PROVE IInv
  OBVIOUS
<1> USE ConstantsAssumption DEF Init
<1>1. TypeOK
  BY DEF TypeOK, Phases, Scopes, Events
<1>2. CollectInv
  BY DEF CollectInv, NestIsStack, ChainsFollowNest, ScopesReachProgram,
         Enclosing, Scopes
<1> QED BY <1>1, <1>2 DEF IInv

\* What an appended event does to the program.
LEMMA AppendEvent ==
  ASSUME TypeOK, Len(program) < MaxEvents, NEW e \in EventRecord,
         program' = Append(program, e)
  PROVE  /\ program' \in Seq(EventRecord)
         /\ Len(program) \in Nat /\ Len(program') = Len(program) + 1
         /\ Len(program) + 1 \in Events
         /\ \A i \in 1..Len(program) : program'[i] = program[i]
         /\ program'[Len(program) + 1] = e
<1>1. program \in Seq(EventRecord) /\ Len(program) \in Nat
  BY DEF TypeOK
<1>2. Len(program) + 1 \in Events
  BY <1>1, MaxEventsIsNat DEF Events
<1> QED BY <1>1, <1>2, AppendProperties

LEMMA EnclosingIsScope ==
  ASSUME TypeOK, nest # <<>>
  PROVE  Len(nest) \in 1..Len(nest) /\ Enclosing \in Scopes
<1>1. nest \in Seq(Scopes)
  BY DEF TypeOK
<1> QED BY <1>1 DEF Enclosing

LEMMA EventIsRecord ==
  ASSUME TypeOK, nest # <<>>,
         NEW op \in Ops, NEW name \in Names \cup {""},
         NEW type \in Types \cup {""}, NEW src \in Sources
  PROVE  Event(op, name, type, src) \in EventRecord
         /\ Event(op, name, type, src).op = op
<1>1. Enclosing \in Scopes
  BY EnclosingIsScope
<1> QED BY <1>1 DEF Event, EventRecord

-----------------------------------------------------------------------------
(* CollectInv, by what a step does to the variables it is about.           *)

LEMMA NestFacts ==
  ASSUME IInv
  PROVE  /\ Len(program) \in Nat
         /\ Len(nest) \in Nat /\ Len(nest) >= 1 /\ nest[1] = 0
         /\ \A i \in 1..Len(nest) :
              nest[i] \in Scopes /\ nest[i] \in Int /\ nest[i] <= Len(program)
<1>1. nest \in Seq(Scopes) /\ Scopes \subseteq Int /\ nest # <<>>
  BY MaxEventsIsNat DEF IInv, TypeOK, Scopes, CollectInv, NestIsStack
<1>2. Len(nest) \in Nat /\ Len(nest) >= 1
  BY <1>1
<1>3. \A i \in 1..Len(nest) : nest[i] \in Scopes
  BY <1>1
<1>4. Len(program) \in Nat
  BY DEF IInv, TypeOK
<1> QED BY <1>1, <1>2, <1>3, <1>4 DEF IInv, CollectInv, NestIsStack

LEMMA StatementKeepsCollectInv ==
  ASSUME IInv, Len(program) < MaxEvents, NEW e \in EventRecord,
         e.op \notin {"function", "block"}, program' = Append(program, e),
         UNCHANGED <<phase, nest, chain, currentScope>>
  PROVE  CollectInv'
<1>1. /\ Len(program) \in Nat /\ Len(program') = Len(program) + 1
      /\ \A i \in 1..Len(program) : program'[i] = program[i]
      /\ program'[Len(program) + 1] = e
  BY AppendEvent DEF IInv
<1>2. NestIsStack'
  <2>1. \A i \in 1..Len(nest) : nest[i] <= Len(program) + 1
    BY NestFacts
  <2> QED BY <2>1, <1>1 DEF IInv, CollectInv, NestIsStack
<1>3. ScopesReachProgram'
  BY <1>1 DEF IInv, CollectInv, ScopesReachProgram, OpensScope
<1>4. (phase = "collect" => ChainsFollowNest /\ currentScope = Enclosing)'
  BY DEF IInv, CollectInv, ChainsFollowNest, Enclosing
<1> QED BY <1>2, <1>3, <1>4 DEF CollectInv

LEMMA LaterPassKeepsCollectInv ==
  ASSUME IInv, phase' # "collect", UNCHANGED <<program, nest, chain>>
  PROVE  CollectInv'
BY DEF IInv, CollectInv, NestIsStack, ScopesReachProgram, OpensScope

-----------------------------------------------------------------------------
(* Entering and leaving a scope in the first pass.                         *)

LEMMA EnterKeepsIInv ==
  ASSUME IInv, NEW op \in {"function", "block"}, CollectEnter(op)
  PROVE  IInv'
<1> DEFINE e == Len(program) + 1
           r == Event(op, "", "", NoInit)
<1>1. r \in EventRecord /\ r.op = op /\ nest # <<>>
  <2>1. NoInit \in Sources /\ op \in Ops
    BY DEF Sources, Ops
  <2> QED BY <2>1, EventIsRecord DEF IInv, CollectInv, NestIsStack
<1>2. /\ Len(program) < MaxEvents /\ program' = Append(program, r)
      /\ nest' = Append(nest, e)
      /\ chain' = [chain EXCEPT ![e] = chain[currentScope] \cup {e}]
      /\ currentScope' = e
      /\ phase = "collect"
      /\ UNCHANGED <<phase, pos, symbols, isDefined, localIndex, nextLocal>>
  BY DEF CollectEnter, Collecting
<1> HIDE DEF r
<1>3. /\ program' \in Seq(EventRecord)
      /\ Len(program) \in Nat /\ Len(program') = e
      /\ e \in Events
      /\ \A i \in 1..Len(program) : program'[i] = program[i]
      /\ program'[e] = r
  BY <1>1, <1>2, AppendEvent DEF IInv
<1>4. e \in Scopes /\ Events \subseteq Scopes /\ Scopes \subseteq Int
  BY <1>3, MaxEventsIsNat DEF Events, Scopes
<1>5. /\ nest' \in Seq(Scopes) /\ Len(nest) \in Nat
      /\ Len(nest') = Len(nest) + 1
      /\ \A i \in 1..Len(nest) : nest'[i] = nest[i]
      /\ nest'[Len(nest) + 1] = e
  BY <1>2, <1>4, AppendProperties DEF IInv, TypeOK
<1>6. /\ \A i \in 1..Len(nest) : nest[i] \in Scopes /\ nest[i] # e
                                /\ chain[nest[i]] = {nest[j] : j \in 1..i}
      /\ currentScope = nest[Len(nest)] /\ Len(nest) >= 1 /\ nest[1] = 0
  <2>1. \A i \in 1..Len(nest) : nest[i] \in Scopes /\ nest[i] # e
    BY NestFacts
  <2> QED BY <2>1, NestFacts, <1>2
          DEF IInv, CollectInv, NestIsStack, ChainsFollowNest, Enclosing
<1>7. /\ chain' \in [Scopes -> SUBSET Scopes]
      /\ \A s \in Scopes \ {e} : chain'[s] = chain[s]
      /\ chain'[e] = chain[currentScope] \cup {e}
      /\ currentScope \in Scopes /\ 0 \in chain[currentScope]
  BY <1>2, <1>4 DEF IInv, TypeOK
<1>8. TypeOK'
  <2>1. Len(program') <= MaxEvents
    BY <1>2, <1>3, MaxEventsIsNat
  <2>2. pos' \in 0..(Len(program') + 1) /\ (phase' # "collect" => pos' # 0)
    BY <1>2, <1>3 DEF IInv, TypeOK
  <2>3. symbols' \in [Scopes -> [Names -> 0..Len(program')]]
    BY <1>2, <1>3 DEF IInv, TypeOK
  <2>4. currentScope' \in Scopes /\ 0 \in (chain')[currentScope']
    BY <1>2, <1>4, <1>7
  <2>5. /\ phase' \in Phases /\ isDefined' \in [Events -> BOOLEAN]
        /\ localIndex' \in [Events -> {-1} \cup Nat] /\ nextLocal' \in Nat
    BY <1>2 DEF IInv, TypeOK
  <2> QED BY <2>1, <2>2, <2>3, <2>4, <2>5, <1>3, <1>5, <1>7 DEF TypeOK
<1>9. NestIsStack'
  <2>1. \A i \in 1..Len(nest) : nest[i] < e
    BY NestFacts
  <2>2. \A i \in 1..Len(nest') : (nest')[i] <= Len(program')
    BY NestFacts, <1>3, <1>5, SMTT(30)
  <2>3. \A i, j \in 1..Len(nest') : i < j => (nest')[i] < (nest')[j]
    BY <2>1, <1>5 DEF IInv, CollectInv, NestIsStack
  <2>4. nest' # <<>> /\ (nest')[1] = 0
    BY <1>5, <1>6
  <2> QED BY <2>2, <2>3, <2>4 DEF NestIsStack
<1>10. ScopesReachProgram'
  <2>1. 0 # e /\ 0 \in Scopes
    BY <1>3, MaxEventsIsNat DEF Scopes
  <2>2. \A i \in 1..Len(program) : i \in Scopes \ {e}
    BY <1>3, <1>2, MaxEventsIsNat DEF Scopes
  <2>3. \A i \in 1..Len(program) : OpensScope(i)' => 0 \in chain'[i]
    BY <2>2, <1>3, <1>7 DEF IInv, CollectInv, ScopesReachProgram, OpensScope
  <2>4. 0 \in chain'[0] /\ 0 \in chain'[e]
    BY <2>1, <1>7 DEF IInv, CollectInv, ScopesReachProgram
  <2> QED BY <2>3, <2>4, <1>3 DEF ScopesReachProgram
<1>11. ChainsFollowNest'
  <2> SUFFICES ASSUME NEW k \in 1..Len(nest')
               PROVE  chain'[(nest')[k]] = {(nest')[i] : i \in 1..k}
    BY DEF ChainsFollowNest
  <2>1. CASE k <= Len(nest)
    <3>1. {(nest')[i] : i \in 1..k} = {nest[i] : i \in 1..k}
      BY <2>1, <1>5
    <3>2. k \in 1..Len(nest) /\ (nest')[k] = nest[k]
      BY <2>1, <1>5
    <3>3. nest[k] \in Scopes /\ nest[k] <= Len(program) /\ nest[k] # e
      BY <1>3, <3>2, NestFacts
    <3>4. chain'[nest[k]] = chain[nest[k]]
      BY <1>7, <3>3
    <3>5. chain[nest[k]] = {nest[i] : i \in 1..k}
      BY ONLY <1>6, <3>2
    <3> QED BY ONLY <3>1, <3>2, <3>4, <3>5
  <2>2. CASE k = Len(nest) + 1
    <3>1. {(nest')[i] : i \in 1..k} = {nest[i] : i \in 1..Len(nest)} \cup {e}
      BY <2>2, <1>5
    <3>2. chain[currentScope] = {nest[i] : i \in 1..Len(nest)}
      <4>1. Len(nest) \in 1..Len(nest)
        BY <1>5, <1>6
      <4> QED BY <4>1, <1>6
    <3> QED BY <3>1, <3>2, <2>2, <1>5, <1>7
  <2> QED BY <2>1, <2>2, <1>5
<1>12. currentScope' = Enclosing'
  BY <1>2, <1>5 DEF Enclosing
<1> QED BY <1>8, <1>9, <1>10, <1>11, <1>12 DEF IInv, CollectInv

LEMMA ExitKeepsIInv ==
  ASSUME IInv, CollectExit
  PROVE  IInv'
<1> DEFINE r == Event("end", "", "", NoInit)
           d == Len(nest)
<1>1. r \in EventRecord /\ r.op = "end"
  <2>1. NoInit \in Sources /\ "end" \in Ops
    BY DEF Sources, Ops
  <2> QED BY <2>1, EventIsRecord DEF IInv, CollectInv, NestIsStack
<1>2. /\ Len(program) < MaxEvents /\ program' = Append(program, r)
      /\ nest[d] # 0
      /\ nest' = SubSeq(nest, 1, d - 1)
      /\ currentScope' = ParentScope(currentScope)
      /\ phase = "collect"
      /\ UNCHANGED <<phase, pos, chain, symbols, isDefined, localIndex, nextLocal>>
  BY DEF CollectExit, Enclosing
<1> HIDE DEF r
<1>3. /\ program' \in Seq(EventRecord)
      /\ Len(program) \in Nat /\ Len(program') = Len(program) + 1
      /\ \A i \in 1..Len(program) : program'[i] = program[i]
      /\ program'[Len(program) + 1] = r
  BY <1>1, <1>2, AppendEvent DEF IInv
<1>4. d \in Nat /\ d >= 2
  BY <1>2, NestFacts
<1>5. /\ nest' \in Seq(Scopes) /\ Len(nest') = d - 1
      /\ \A i \in 1..(d - 1) : nest'[i] = nest[i]
  <2>1. \A i \in 1..(d - 1) : nest[i] \in Scopes
    BY NestFacts, <1>4
  <2> QED BY <2>1, <1>2, <1>4, SubSeqProperties
<1>6. currentScope = nest[d] /\ chain[nest[d]] = {nest[i] : i \in 1..d}
  <2>1. d \in 1..Len(nest)
    BY <1>4
  <2> QED BY <2>1, <1>2 DEF IInv, CollectInv, ChainsFollowNest, Enclosing
<1>7. ParentScope(currentScope) = nest[d - 1]
  <2> DEFINE S == {nest[i] : i \in 1..d} \ {nest[d]}
  <2>1. ParentScope(currentScope) = Greatest(S)
    BY <1>6 DEF ParentScope
  <2>2. \A i \in 1..(d - 1) : nest[i] < nest[d]
    BY <1>4 DEF IInv, CollectInv, NestIsStack
  <2>3. nest[d - 1] \in S
    BY <2>2, <1>4, NestFacts
  <2>4. \A i \in 1..(d - 1) : nest[i] <= nest[d - 1]
    BY <1>4, NestFacts DEF IInv, CollectInv, NestIsStack
  <2>5. S \subseteq Int /\ \A x \in S : x <= nest[d - 1]
    <3>1. SUFFICES ASSUME NEW x \in S PROVE x \in Int /\ x <= nest[d - 1]
      OBVIOUS
    <3>2. PICK i \in 1..d : x = nest[i] /\ i # d
      OBVIOUS
    <3>3. i \in 1..(d - 1)
      BY <3>2, <1>4
    <3> QED BY <3>2, <3>3, <2>4, NestFacts
  <2> HIDE DEF S
  <2> QED BY <2>1, <2>3, <2>5, GreatestIs
<1>8. TypeOK'
  <2>1. Len(program') <= MaxEvents
    BY <1>2, <1>3, MaxEventsIsNat
  <2>2. pos' \in 0..(Len(program') + 1) /\ (phase' # "collect" => pos' # 0)
    BY <1>2, <1>3 DEF IInv, TypeOK
  <2>3. symbols' \in [Scopes -> [Names -> 0..Len(program')]]
    BY <1>2, <1>3 DEF IInv, TypeOK
  <2>4. currentScope' \in Scopes /\ 0 \in (chain')[currentScope']
    <3>1. d - 1 \in 1..d /\ 1 \in 1..(d - 1)
      BY <1>4
    <3>2. chain[nest[d - 1]] = {nest[i] : i \in 1..(d - 1)}
      BY <3>1, <1>2 DEF IInv, CollectInv, ChainsFollowNest
    <3> QED BY <3>1, <3>2, <1>2, <1>7, NestFacts
  <2>5. /\ phase' \in Phases /\ isDefined' \in [Events -> BOOLEAN]
        /\ chain' \in [Scopes -> SUBSET Scopes]
        /\ localIndex' \in [Events -> {-1} \cup Nat] /\ nextLocal' \in Nat
    BY <1>2 DEF IInv, TypeOK
  <2> QED BY <2>1, <2>2, <2>3, <2>4, <2>5, <1>3, <1>5 DEF TypeOK
<1>9. NestIsStack'
  <2>1. \A i \in 1..(d - 1) : nest[i] <= Len(program) + 1
    BY NestFacts, <1>4
  <2>2. \A i, j \in 1..(d - 1) : i < j => nest[i] < nest[j]
    BY <1>4 DEF IInv, CollectInv, NestIsStack
  <2>3. nest' # <<>> /\ (nest')[1] = 0
    BY <1>4, <1>5, NestFacts
  <2> QED BY <2>1, <2>2, <2>3, <1>3, <1>5 DEF NestIsStack
<1>10. ScopesReachProgram'
  BY <1>1, <1>2, <1>3 DEF IInv, CollectInv, ScopesReachProgram, OpensScope
<1>11. ChainsFollowNest'
  <2> SUFFICES ASSUME NEW k \in 1..(d - 1)
               PROVE  chain[nest[k]] = {(nest')[i] : i \in 1..k}
    BY <1>2, <1>5 DEF ChainsFollowNest
  <2>1. {(nest')[i] : i \in 1..k} = {nest[i] : i \in 1..k}
    BY <1>4, <1>5
  <2>2. k \in 1..d
    BY <1>4
  <2> QED BY <2>1, <2>2, <1>2 DEF IInv, CollectInv, ChainsFollowNest
<1>12. currentScope' = Enclosing'
  <2>1. d - 1 \in 1..(d - 1)
    BY <1>4
  <2> QED BY <2>1, <1>2, <1>5, <1>7 DEF Enclosing
<1> QED BY <1>8, <1>9, <1>10, <1>11, <1>12 DEF IInv, CollectInv

-----------------------------------------------------------------------------
(* Statements of the first pass: they touch the symbols only.              *)

\* TypeOK after a statement, given that the symbols keep their type.
LEMMA StatementKeepsTypeOK ==
  ASSUME IInv, Len(program) < MaxEvents, NEW e \in EventRecord,
         program' = Append(program, e),
         symbols' \in [Scopes -> [Names -> 0..(Len(program) + 1)]],
         isDefined' \in [Events -> BOOLEAN],
         UNCHANGED <<phase, nest, pos, currentScope, chain, localIndex, nextLocal>>
  PROVE  TypeOK'
<1>1. /\ program' \in Seq(EventRecord)
      /\ Len(program) \in Nat /\ Len(program') = Len(program) + 1
  BY AppendEvent DEF IInv
<1>2. Len(program') <= MaxEvents
  BY <1>1, MaxEventsIsNat
<1>3. pos' \in 0..(Len(program') + 1) /\ (phase' # "collect" => pos' # 0)
  BY <1>1 DEF IInv, TypeOK
<1>4. symbols' \in [Scopes -> [Names -> 0..Len(program')]]
  BY <1>1
<1> QED BY <1>1, <1>2, <1>3, <1>4 DEF IInv, TypeOK

LEMMA SymbolsWithin ==
  ASSUME TypeOK
  PROVE  symbols \in [Scopes -> [Names -> 0..(Len(program) + 1)]]
<1>1. Len(program) \in Nat
  BY DEF TypeOK
<1> QED BY <1>1 DEF TypeOK

LEMMA RegisteredType ==
  ASSUME TypeOK, NEW name \in Names
  PROVE  Registered(name, Len(program) + 1)
           \in [Scopes -> [Names -> 0..(Len(program) + 1)]]
<1>1. Len(program) \in Nat /\ currentScope \in Scopes
  BY DEF TypeOK
<1>2. symbols \in [Scopes -> [Names -> 0..(Len(program) + 1)]]
  BY SymbolsWithin
<1>3. Len(program) + 1 \in 0..(Len(program) + 1)
  BY <1>1
<1> QED BY <1>1, <1>2, <1>3 DEF Registered

LEMMA StatementsKeepIInv ==
  ASSUME IInv, NEW st \in Statements,
         CollectDeclare(st) \/ CollectParam(st) \/ CollectReference(st)
  PROVE  IInv'
<1>1. /\ st.name \in Names /\ st.type \in Types /\ st.src \in Sources
      /\ NoInit \in Sources
      /\ {"declare", "param", "assign", "use"} \subseteq Ops
  BY StatementFields DEF Sources, Ops
<1>2. nest # <<>> /\ TypeOK
  BY DEF IInv, CollectInv, NestIsStack
<1>3. \A op \in {"declare", "param", "assign", "use"}, src \in Sources :
        /\ Event(op, st.name, st.type, src) \in EventRecord
        /\ Event(op, st.name, st.type, src).op = op
  BY <1>1, <1>2, EventIsRecord
<1>4. isDefined \in [Events -> BOOLEAN]
  BY DEF IInv, TypeOK
<1>5. CASE CollectDeclare(st)
  <2> DEFINE e == Event("declare", st.name, st.type, st.src)
  <2>1. e \in EventRecord /\ e.op = "declare"
    BY <1>1, <1>3
  <2>2. /\ Len(program) < MaxEvents /\ program' = Append(program, e)
        /\ symbols' = Registered(st.name, Len(program) + 1)
        /\ UNCHANGED <<phase, nest, pos, currentScope, chain, localIndex,
                       nextLocal>>
    BY <1>5 DEF CollectDeclare, Collecting
  <2>3. isDefined' \in [Events -> BOOLEAN]
    BY <1>5, <1>4 DEF CollectDeclare
  <2> HIDE DEF e
  <2>4. symbols' \in [Scopes -> [Names -> 0..(Len(program) + 1)]]
    BY <2>2, <1>1, <1>2, RegisteredType
  <2>5. TypeOK'
    BY <2>1, <2>2, <2>3, <2>4, StatementKeepsTypeOK
  <2>6. CollectInv'
    BY <2>1, <2>2, StatementKeepsCollectInv
  <2> QED BY <2>5, <2>6 DEF IInv
<1>6. CASE CollectParam(st)
  <2> DEFINE e == Event("param", st.name, st.type, NoInit)
  <2>1. e \in EventRecord /\ e.op = "param"
    BY <1>1, <1>3
  <2>2. /\ Len(program) < MaxEvents /\ program' = Append(program, e)
        /\ symbols' = Registered(st.name, Len(program) + 1)
        /\ UNCHANGED <<phase, nest, pos, currentScope, chain, localIndex,
                       nextLocal>>
    BY <1>6 DEF CollectParam, Collecting
  <2>3. isDefined' \in [Events -> BOOLEAN]
    BY <1>6, <1>4 DEF CollectParam
  <2> HIDE DEF e
  <2>4. symbols' \in [Scopes -> [Names -> 0..(Len(program) + 1)]]
    BY <2>2, <1>1, <1>2, RegisteredType
  <2>5. TypeOK'
    BY <2>1, <2>2, <2>3, <2>4, StatementKeepsTypeOK
  <2>6. CollectInv'
    BY <2>1, <2>2, StatementKeepsCollectInv
  <2> QED BY <2>5, <2>6 DEF IInv
<1>7. CASE CollectReference(st)
  <2> DEFINE e == Event(st.op, st.name, st.type, st.src)
  <2>1. e \in EventRecord /\ e.op \notin {"function", "block"}
    BY <1>1, <1>3, <1>7 DEF CollectReference
  <2>2. /\ Len(program) < MaxEvents /\ program' = Append(program, e)
        /\ UNCHANGED <<phase, nest, pos, currentScope, chain, symbols,
                       isDefined, localIndex, nextLocal>>
    BY <1>7 DEF CollectReference, Collecting
  <2> HIDE DEF e
  <2>3. symbols' \in [Scopes -> [Names -> 0..(Len(program) + 1)]]
    BY <2>2, <1>2, SymbolsWithin
  <2>4. TypeOK'
    BY <2>1, <2>2, <2>3, <1>4, StatementKeepsTypeOK
  <2>5. CollectInv'
    BY <2>1, <2>2, StatementKeepsCollectInv
  <2> QED BY <2>4, <2>5 DEF IInv
<1> QED BY <1>5, <1>6, <1>7

-----------------------------------------------------------------------------
(* The later passes: the program and its scopes stay as they are.          *)

LEMMA StartPassKeepsIInv ==
  ASSUME IInv, NEW from \in Phases, NEW to \in Phases \ {"collect"},
         StartPass(from, to),
         UNCHANGED <<program, nest, chain, symbols, isDefined, localIndex,
                     nextLocal>>
  PROVE  IInv'
<1>1. 0 \in Scopes /\ 0 \in chain[0]
  BY MaxEventsIsNat DEF Scopes, IInv, CollectInv, ScopesReachProgram
<1>2. 1 \in 0..(Len(program) + 1)
  BY DEF IInv, TypeOK
<1>3. TypeOK'
  BY <1>1, <1>2 DEF IInv, TypeOK, StartPass
<1>4. CollectInv'
  BY LaterPassKeepsCollectInv DEF StartPass
<1> QED BY <1>3, <1>4 DEF IInv

\* Entering a rule leaves a checking pass in a scope inside the program's.
LEMMA EnteredScope ==
  ASSUME IInv, NEW i \in 1..Len(program)
  PROVE  EnterEveryRule(i) \in Scopes /\ 0 \in chain[EnterEveryRule(i)]
<1>1. i \in Scopes
  BY MaxEventsIsNat DEF IInv, TypeOK, Scopes
<1>2. OpensScope(i) => 0 \in chain[i]
  BY DEF IInv, CollectInv, ScopesReachProgram
<1> QED BY <1>1, <1>2 DEF EnterEveryRule, IInv, TypeOK

LEMMA StepKeepsIInv ==
  ASSUME IInv, NEW p \in Phases \ {"collect"}, Step(p),
         currentScope' \in {EnterEveryRule(pos), currentScope},
         isDefined' \in [Events -> BOOLEAN],
         localIndex' \in [Events -> {-1} \cup Nat], nextLocal' \in Nat,
         UNCHANGED <<phase, program, nest, chain, symbols>>
  PROVE  IInv'
<1>1. Len(program) \in Nat /\ pos \in 1..Len(program)
  BY DEF IInv, TypeOK, Step
<1>2. pos' \in 0..(Len(program) + 1) /\ pos' # 0
  BY <1>1 DEF Step
<1>3. currentScope' \in Scopes /\ 0 \in chain[currentScope']
  BY <1>1, EnteredScope DEF IInv, TypeOK
<1>4. TypeOK'
  BY <1>2, <1>3 DEF IInv, TypeOK
<1>5. CollectInv'
  BY LaterPassKeepsCollectInv DEF Step
<1> QED BY <1>4, <1>5 DEF IInv

LEMMA StutterKeepsIInv == IInv /\ UNCHANGED vars => IInv'
BY DEF vars, IInv, TypeOK, CollectInv, NestIsStack, ScopesReachProgram,
       ChainsFollowNest, OpensScope, Enclosing

LEMMA GenerateKeepsSlots ==
  ASSUME IInv, Generate
  PROVE  localIndex' \in [Events -> {-1} \cup Nat] /\ nextLocal' \in Nat
<1>1. localIndex \in [Events -> {-1} \cup Nat] /\ nextLocal \in Nat
  BY DEF IInv, TypeOK
<1>2. nextLocal' \in {0, nextLocal, nextLocal + 1}
  BY DEF Generate
<1>3. \/ localIndex' = localIndex
      \/ \E target : localIndex' = [localIndex EXCEPT ![target] = nextLocal]
  BY DEF Generate
<1> QED BY <1>1, <1>2, <1>3

-----------------------------------------------------------------------------
LEMMA NextKeepsIInv == IInv /\ [Next]_vars => IInv'
<1> SUFFICES ASSUME IInv, [Next]_vars PROVE IInv'
  OBVIOUS
<1> USE DEF Phases
<1>1. CASE \E op \in {"function", "block"} : CollectEnter(op)
  BY <1>1, EnterKeepsIInv
<1>2. CASE CollectExit
  BY <1>2, ExitKeepsIInv
<1>3. CASE \E st \in Statements :
             CollectDeclare(st) \/ CollectParam(st) \/ CollectReference(st)
  BY <1>3, StatementsKeepIInv
<1>4. CASE CollectDone
  BY <1>4, StartPassKeepsIInv DEF CollectDone
<1>5. CASE Check
  <2>1. /\ Step("check") /\ currentScope' = EnterEveryRule(pos)
        /\ UNCHANGED <<phase, program, nest, chain, symbols, isDefined,
                       localIndex, nextLocal>>
    BY <1>5 DEF Check
  <2> QED BY <2>1, StepKeepsIInv DEF IInv, TypeOK
<1>6. CASE CheckDone
  BY <1>6, StartPassKeepsIInv DEF CheckDone
<1>7. CASE Define
  <2>1. /\ Step("define") /\ currentScope' = EnterEveryRule(pos)
        /\ UNCHANGED <<phase, program, nest, chain, symbols, localIndex, nextLocal>>
    BY <1>7 DEF Define
  <2>2. isDefined' \in [Events -> BOOLEAN]
    BY <1>7 DEF Define, IInv, TypeOK
  <2> QED BY <2>1, <2>2, StepKeepsIInv DEF IInv, TypeOK
<1>8. CASE DefineDone
  <2>1. PICK to \in {"generate", "rejected"} : StartPass("define", to)
    BY <1>8 DEF DefineDone
  <2> QED BY <2>1, <1>8, StartPassKeepsIInv DEF DefineDone
<1>9. CASE Generate
  <2>1. /\ Step("generate") /\ currentScope' = currentScope
        /\ UNCHANGED <<phase, program, nest, chain, symbols, isDefined>>
    BY <1>9 DEF Generate
  <2>2. localIndex' \in [Events -> {-1} \cup Nat] /\ nextLocal' \in Nat
    BY <1>9, GenerateKeepsSlots
  <2> QED BY <2>1, <2>2, StepKeepsIInv DEF IInv, TypeOK
<1>10. CASE GenerateDone
  BY <1>10, StartPassKeepsIInv DEF GenerateDone
<1>11. CASE UNCHANGED vars
  BY <1>11, StutterKeepsIInv
<1> QED BY <1>1, <1>2, <1>3, <1>4, <1>5, <1>6, <1>7, <1>8, <1>9, <1>10, <1>11
        DEF Next, Collect

\* In every reachable state the compiler's state has its shape, and the scope
\* a pass is in reaches the program's scope.
THEOREM TypeCorrect == Spec => []TypeOK
<1>1. IInv => TypeOK
  BY DEF IInv
<1> QED BY <1>1, InitIInv, NextKeepsIInv, PTL DEF Spec

\* The first pass is always in the scope of the innermost function or block
\* it has entered and not left: its pushes and pops of currentScope match,
\* for programs of any size and depth.
THEOREM FirstPassIsLexical == Spec => []CollectScopeIsLexical
<1>1. IInv => CollectScopeIsLexical
  <2> SUFFICES ASSUME IInv, phase = "collect"
               PROVE  /\ currentScope = Enclosing
                      /\ chain[currentScope] = {nest[i] : i \in DOMAIN nest}
    BY DEF CollectScopeIsLexical
  <2>1. Len(nest) \in 1..Len(nest) /\ DOMAIN nest = 1..Len(nest)
    BY NestFacts, LenProperties DEF IInv, TypeOK
  <2> QED BY <2>1 DEF IInv, CollectInv, ChainsFollowNest, Enclosing
<1> QED BY <1>1, InitIInv, NextKeepsIInv, PTL DEF Spec

\* No step of any pass renames a symbol: what a scope calls a name, it calls
\* that name until the compilation ends.
THEOREM SymbolsNeverChange == Spec => SymbolsAreStable
<1> DEFINE Kept == \A s \in Scopes, n \in Names :
                     symbols[s][n] # 0 => symbols'[s][n] = symbols[s][n]
<1>1. IInv /\ [Next]_vars => [Kept]_vars
  <2> SUFFICES ASSUME IInv, Next PROVE Kept
    BY DEF vars
  <2>1. symbols \in [Scopes -> [Names -> 0..Len(program)]] /\ currentScope \in Scopes
    BY DEF IInv, TypeOK
  <2>2. CASE \E st \in Statements : CollectDeclare(st) \/ CollectParam(st)
    <3>1. PICK st \in Statements : symbols' = Registered(st.name, Len(program) + 1)
      BY <2>2 DEF CollectDeclare, CollectParam
    <3>2. st.name \in Names
      BY StatementFields
    <3> QED BY <2>1, <3>1, <3>2 DEF Registered
  <2>3. CASE UNCHANGED symbols
    BY <2>3
  <2>4. \/ UNCHANGED symbols
        \/ \E st \in Statements : CollectDeclare(st) \/ CollectParam(st)
    BY DEF Next, Collect, CollectEnter, CollectExit, CollectReference, CollectDone,
           Check, CheckDone, Define, DefineDone, Generate, GenerateDone
  <2> QED BY <2>2, <2>3, <2>4
<1> QED BY <1>1, InitIInv, NextKeepsIInv, PTL DEF Spec, SymbolsAreStable

-----------------------------------------------------------------------------
(* The invariant.                                                          *)

\* No function starts between the two events.
SameFunction(i, j) ==
  \A g \in 1..Len(program) : program[g].op = "function" => (g <= i <=> g <= j)

Ends(e, s) == program[e].op = "end" /\ program[e].parent = s

\* The stack of open events, told by the text: what opened and has not ended,
\* a function first, in the last function.
NestIsOpen ==
  /\ \A k \in 2..Len(nest) :
       OpensScope(nest[k]) /\ SameFunction(nest[k], Len(program))
  /\ Len(nest) >= 2 => program[nest[2]].op = "function"
  /\ \A k \in 1..Len(nest), e \in 1..Len(program) : ~Ends(e, nest[k])
  /\ \A s \in 1..Len(program) :
       OpensScope(s) => \/ \E k \in 1..Len(nest) : nest[k] = s
                        \/ \E e \in 1..Len(program) : Ends(e, s)

\* The scopes reached from an event's parent are those the event is inside.
ChainIsLexical(i) ==
  LET p == program[i].parent IN
  /\ p \in 0..(i - 1) /\ p \in chain[p] /\ \A s \in chain[p] : s <= p
  /\ \A s \in Scopes : s \in chain[p] <=> Inside(s, i)
  /\ \A s \in chain[p] \ {0} : SameFunction(s, i)
  /\ p # 0 => \E g \in chain[p] \ {0} : program[g].op = "function"

ChainsAreLexical == \A i \in 1..Len(program) : ChainIsLexical(i)

Declaration(i) == program[i].op \in {"declare", "param"}

NamesAreNames ==
  \A i \in 1..Len(program) :
    program[i].op \in {"declare", "param", "assign"} => program[i].name \in Names

SymbolsAreDeclared ==
  \A s \in Scopes, n \in Names :
    LET d == symbols[s][n] IN
    d # 0 => Declaration(d) /\ program[d].parent = s /\ program[d].name = n

\* The scopes in which Scope::resolve finds the name.
Holders(scope, name) == {s \in chain[scope] : symbols[s][name] # 0}

\* What the first pass has found in a program without errors.
NamesResolve ==
  errors = {} =>
    \A i \in 1..Len(program) :
      /\ Declaration(i) => symbols[program[i].parent][program[i].name] = i
      /\ program[i].op = "assign" =>
           Holders(program[i].parent, program[i].name) # {}
      /\ program[i].src \in Names =>
           Holders(program[i].parent, program[i].src) # {}

TextInv ==
  /\ NestIsOpen /\ ChainsAreLexical /\ NamesAreNames
  /\ SymbolsAreDeclared /\ NamesResolve

\* Slots are given out in order within a function, to every declaration the
\* walk has passed and to nothing else.
SlotsFollowWalk ==
  /\ \A d \in Events : localIndex[d] # -1 =>
       /\ d < pos
       /\ SameFunction(d, pos - 1) => localIndex[d] < nextLocal
  /\ \A d \in 1..(pos - 1) :
       Declaration(d) /\ program[d].parent # 0 => localIndex[d] # -1

SlotsDiffer ==
  \A d, e \in Events :
    localIndex[d] # -1 /\ localIndex[d] = localIndex[e] /\ SameFunction(d, e) => d = e

AccessRecord == [op : {"load", "store"}, symbol : Events, slot : {-1} \cup Nat, at : Events]

\* What an access names in the program's text.
NameOf(c) == IF c.op = "load" THEN program[c.at].src ELSE program[c.at].name

AccessInv(c) ==
  /\ c.at \in 1..Len(program) /\ program[c.at].parent # 0
  /\ c.op = "store" => program[c.at].op \in {"declare", "assign"}
  /\ NameOf(c) \in Names /\ Holders(program[c.at].parent, NameOf(c)) # {}
  /\ c.symbol = Resolve(program[c.at].parent, NameOf(c))
  /\ c.slot # -1 => c.slot = localIndex[c.symbol]
  /\ c.symbol <= c.at /\ program[c.symbol].parent # 0 => c.slot # -1

Generating == {"generate", "finished"}

CodeInv ==
  /\ phase \notin Generating => localIndex = [e \in Events |-> -1] /\ code = <<>>
  /\ phase \in Generating => errors = {} /\ SlotsDiffer
  /\ phase = "generate" => SlotsFollowWalk
  /\ code \in Seq(AccessRecord)
  /\ \A k \in DOMAIN code : AccessInv(code[k])

-----------------------------------------------------------------------------
(* The greatest of some scopes, and what Scope::resolve finds.             *)

\* Some scopes have a greatest one.
LEMMA GreatestExists ==
  ASSUME NEW S \in SUBSET Scopes, S # {}
  PROVE  Greatest(S) \in S /\ \A x \in S : x <= Greatest(S)
<1> DEFINE R == OpToRel(<, Nat)
           T == {MaxEvents - s : s \in S}
<1>1. \A i, j \in Nat : i < j => <<i, j>> \in R
  BY DEF OpToRel
<1>2. T \subseteq Nat /\ T # {}
  BY MaxEventsIsNat DEF Scopes
<1>3. \E x \in T : \A y \in T : ~ (<<y, x>> \in R)
  <2>1. IsWellFoundedOn(R, Nat)
    BY NatLessThanWellFounded
  <2> HIDE DEF R, T
  <2> QED BY <2>1, <1>2, WFMin
<1>4. PICK m \in S : \A s \in S : ~ (MaxEvents - s < MaxEvents - m)
  BY <1>1, <1>2, <1>3
<1>5. \A s \in S : s <= m
  BY <1>4, MaxEventsIsNat DEF Scopes
<1>6. S \subseteq Int
  BY MaxEventsIsNat DEF Scopes
<1> QED BY <1>4, <1>5, <1>6, GreatestIs

\* A name with a holder resolves to the declaration of it in the greatest one.
LEMMA ResolveFinds ==
  ASSUME TypeOK, SymbolsAreDeclared,
         NEW scope \in Scopes, NEW name \in Names, Holders(scope, name) # {}
  PROVE  LET d == Resolve(scope, name) IN
         /\ d \in 1..Len(program) /\ d \in Events /\ Declaration(d)
         /\ program[d].name = name
         /\ program[d].parent \in chain[scope]
         /\ symbols[program[d].parent][name] = d
         /\ \A s \in Holders(scope, name) : s <= program[d].parent
<1> DEFINE H == Holders(scope, name)
           m == Greatest(H)
<1>1. Len(program) \in Nat /\ Len(program) <= MaxEvents
  BY DEF TypeOK
<1>2. H \in SUBSET Scopes
  BY DEF Holders, TypeOK
<1>3. m \in H /\ \A x \in H : x <= m
  BY <1>2, GreatestExists
<1>4. Resolve(scope, name) = symbols[m][name]
  BY DEF Resolve, Holders
<1> HIDE DEF m
<1>5. m \in Scopes /\ m \in chain[scope] /\ symbols[m][name] # 0
  BY <1>2, <1>3 DEF Holders
<1>6. symbols[m][name] \in 1..Len(program) /\ symbols[m][name] \in Events
  BY <1>1, <1>5, MaxEventsIsNat DEF TypeOK, Events
<1> QED BY <1>3, <1>4, <1>5, <1>6 DEF SymbolsAreDeclared

-----------------------------------------------------------------------------
(* The text and its scopes: one more event.                                *)

\* An event at the end changes nothing between the events before it.
LEMMA OldText ==
  ASSUME Len(program) \in Nat, Len(program') = Len(program) + 1,
         program \in Seq(EventRecord), program' \in Seq(EventRecord),
         \A i \in 1..Len(program) : program'[i] = program[i]
  PROVE  /\ \A i, j \in 0..Len(program) : SameFunction(i, j)' <=> SameFunction(i, j)
         /\ \A i \in 1..Len(program), s \in Scopes : Inside(s, i)' <=> Inside(s, i)
<1>1. DOMAIN program = 1..Len(program) /\ DOMAIN program' = 1..(Len(program) + 1)
  OBVIOUS
<1>2. \A i, j \in 0..Len(program) : SameFunction(i, j)' <=> SameFunction(i, j)
  BY SMTT(30) DEF SameFunction
<1>3. ASSUME NEW i \in 1..Len(program), NEW s \in Scopes
      PROVE  Inside(s, i)' <=> Inside(s, i)
  <2>1. CASE s \in 1..(i - 1)
    BY <2>1, <1>1 DEF Inside
  <2>2. CASE s \notin 1..(i - 1)
    <3>1. s = 0 \/ ~(s < i)
      BY <2>2, MaxEventsIsNat DEF Scopes
    <3> QED BY <3>1 DEF Inside
  <2> QED BY <2>1, <2>2
<1> QED BY <1>2, <1>3

\* What the first pass knows of the open events.
LEMMA OpenEvents ==
  ASSUME IInv, TextInv, phase = "collect"
  PROVE  /\ Enclosing = nest[Len(nest)] /\ Enclosing \in 0..Len(program)
         /\ currentScope = Enclosing /\ Enclosing \in Scopes
         /\ chain[Enclosing] = {nest[k] : k \in 1..Len(nest)}
         /\ \A s \in chain[Enclosing] : s <= Enclosing
         /\ Enclosing \in chain[Enclosing]
         /\ \A k \in 2..Len(nest) : nest[k] # 0
<1>1. /\ Len(program) \in Nat /\ Len(nest) \in Nat /\ Len(nest) >= 1 /\ nest[1] = 0
      /\ \A k \in 1..Len(nest) :
           nest[k] \in Scopes /\ nest[k] \in Int /\ nest[k] <= Len(program)
  BY NestFacts
<1>2. \A i, j \in 1..Len(nest) : i < j => nest[i] < nest[j]
  BY DEF IInv, CollectInv, NestIsStack
<1>3. Len(nest) \in 1..Len(nest)
  BY <1>1
<1>4. chain[nest[Len(nest)]] = {nest[k] : k \in 1..Len(nest)} /\ currentScope = Enclosing
  BY <1>3 DEF IInv, CollectInv, ChainsFollowNest
<1>5. \A k \in 2..Len(nest) : nest[k] # 0
  BY <1>1, <1>2
<1>6. nest[Len(nest)] \in 0..Len(program)
  BY <1>1, <1>3, MaxEventsIsNat DEF Scopes
<1>7. \A k \in 1..Len(nest) : nest[k] <= nest[Len(nest)]
  BY <1>1, <1>2
<1> QED BY <1>1, <1>3, <1>4, <1>5, <1>6, <1>7 DEF Enclosing

\* An event at the end of the program keeps the chains of the scopes before it.
LEMMA AppendKeepsChains ==
  ASSUME IInv, TextInv, phase = "collect", Len(program) < MaxEvents,
         NEW e \in EventRecord, e.parent = Enclosing,
         e.op = "function" => Enclosing = 0,
         program' = Append(program, e),
         \A s \in 0..Len(program) : chain'[s] = chain[s]
  PROVE  ChainsAreLexical'
<1>0. PICK n \in Nat : n = Len(program)
  BY DEF IInv, TypeOK
<1>1. /\ program \in Seq(EventRecord) /\ program' \in Seq(EventRecord)
      /\ n \in Nat /\ Len(program') = n + 1
      /\ \A i \in 1..n : program'[i] = program[i]
      /\ program'[n + 1] = e
  BY <1>0, AppendEvent DEF IInv, TypeOK
<1>2. /\ \A i, j \in 0..n : SameFunction(i, j)' <=> SameFunction(i, j)
      /\ \A i \in 1..n, s \in Scopes : Inside(s, i)' <=> Inside(s, i)
  BY <1>0, <1>1, OldText
<1>3. ASSUME NEW i \in 1..n PROVE ChainIsLexical(i)'
  <2> DEFINE p == program[i].parent
  <2>1. ChainIsLexical(i)
    BY <1>0 DEF TextInv, ChainsAreLexical
  <2>2. program'[i].parent = p /\ p \in 0..(i - 1) /\ p \in 0..n
    BY <1>1, <2>1 DEF ChainIsLexical
  <2>3. chain'[p] = chain[p] /\ p \in Scopes
    BY <1>1, <2>2, MaxEventsIsNat DEF Scopes
  <2>4. \A s \in chain[p] : s \in 0..n
    <3>1. chain[p] \subseteq Scopes /\ \A s \in chain[p] : s <= p
      BY <2>1, <2>3 DEF ChainIsLexical, IInv, TypeOK
    <3> QED BY <3>1, <2>2, <1>1, MaxEventsIsNat DEF Scopes
  <2>5. \A s \in chain[p] \ {0} : SameFunction(s, i)'
    BY <1>1, <1>2, <2>1, <2>4 DEF ChainIsLexical
  <2>6. p # 0 => \E g \in chain[p] \ {0} : program'[g].op = "function"
    BY <1>1, <2>1, <2>4 DEF ChainIsLexical
  <2>7. \A s \in Scopes : s \in chain[p] <=> Inside(s, i)'
    BY <1>2, <2>1 DEF ChainIsLexical
  <2>8. p \in chain[p] /\ \A s \in chain[p] : s <= p
    BY <2>1 DEF ChainIsLexical
  <2> HIDE DEF p
  <2> QED BY <2>2, <2>3, <2>5, <2>6, <2>7, <2>8 DEF ChainIsLexical
<1>4. ChainIsLexical(n + 1)'
  <2> DEFINE p == Enclosing
  <2>1. /\ p \in 0..n /\ p \in Scopes /\ p \in chain[p]
        /\ chain[p] = {nest[k] : k \in 1..Len(nest)}
        /\ \A s \in chain[p] : s <= p
        /\ \A k \in 2..Len(nest) : nest[k] # 0
        /\ p = nest[Len(nest)]
    BY <1>0, OpenEvents
  <2>2. /\ Len(nest) \in Nat /\ Len(nest) >= 1 /\ nest[1] = 0
        /\ \A k \in 1..Len(nest) : nest[k] \in Scopes /\ nest[k] <= n
    BY <1>0, NestFacts
  <2> HIDE DEF p
  <2>3. program'[n + 1].parent = p /\ chain'[p] = chain[p]
    BY <1>1, <2>1, SMTT(30) DEF p
  <2>4. \A s \in Scopes : s \in chain[p] <=> Inside(s, n + 1)'
    <3> SUFFICES ASSUME NEW s \in Scopes PROVE s \in chain[p] <=> Inside(s, n + 1)'
      OBVIOUS
    <3>1. CASE s = 0
      BY <3>1, <2>1, <2>2 DEF Inside
    <3>2. CASE s > n
      <4>1. s \notin chain[p] /\ ~(s < n + 1) /\ s # 0
        BY <3>2, <2>1, <2>2, <1>1, MaxEventsIsNat DEF Scopes
      <4> QED BY <4>1 DEF Inside
    <3>3. CASE s \in 1..n
      <4>1. Inside(s, n + 1)' <=>
              OpensScope(s) /\ \A x \in 1..n : ~Ends(x, s)
        <5>1. DOMAIN program' = 1..(n + 1)
          BY <1>1
        <5> QED BY <5>1, <3>3, <1>1 DEF Inside, OpensScope, Ends
      <4>2. ASSUME s \in chain[p] PROVE OpensScope(s) /\ \A x \in 1..n : ~Ends(x, s)
        <5>1. PICK k \in 1..Len(nest) : nest[k] = s
          BY <4>2, <2>1
        <5>2. k \in 2..Len(nest)
          BY <5>1, <2>2, <3>3
        <5> QED BY <5>1, <5>2, <1>0 DEF TextInv, NestIsOpen
      <4>3. ASSUME OpensScope(s), \A x \in 1..n : ~Ends(x, s) PROVE s \in chain[p]
        <5>1. \E k \in 1..Len(nest) : nest[k] = s
          BY <4>3, <3>3, <1>0 DEF TextInv, NestIsOpen
        <5> QED BY <5>1, <2>1
      <4> QED BY <4>1, <4>2, <4>3
    <3> QED BY <3>1, <3>2, <3>3, <1>1, MaxEventsIsNat DEF Scopes
  <2>5. ASSUME NEW s \in chain[p] \ {0} PROVE SameFunction(s, n + 1)'
    <3>1. PICK k \in 2..Len(nest) : nest[k] = s
      BY <2>1, <2>2
    <3>2. SameFunction(s, n) /\ s \in 0..n
      BY <3>1, <2>2, <1>1, <1>0, MaxEventsIsNat DEF TextInv, NestIsOpen, Scopes
    <3>3. e.op # "function"
      <4>1. Len(nest) >= 2
        BY <3>1, <2>2
      <4> QED BY <4>1, <2>1, <2>2 DEF p
    <3> QED BY <3>2, <3>3, <1>1 DEF SameFunction
  <2>6. p # 0 => \E g \in chain[p] \ {0} : program'[g].op = "function"
    <3> SUFFICES ASSUME p # 0 PROVE \E g \in chain[p] \ {0} : program'[g].op = "function"
      OBVIOUS
    <3>1. Len(nest) >= 2
      BY <2>1, <2>2
    <3>2. nest[2] \in chain[p] /\ nest[2] # 0 /\ program[nest[2]].op = "function"
      BY <3>1, <2>1, <2>2 DEF TextInv, NestIsOpen
    <3>3. nest[2] \in 1..n
      BY <3>1, <3>2, <2>2, <1>1, MaxEventsIsNat DEF Scopes
    <3> QED BY <3>2, <3>3, <1>1
  <2>7. p \in 0..((n + 1) - 1) /\ p \in chain'[p] /\ \A s \in chain'[p] : s <= p
    BY <2>1, <2>3
  <2>8. /\ \A s \in Scopes : s \in chain'[p] <=> Inside(s, n + 1)'
        /\ \A s \in chain'[p] \ {0} : SameFunction(s, n + 1)'
        /\ p # 0 => \E g \in chain'[p] \ {0} : program'[g].op = "function"
    BY <2>3, <2>4, <2>5, <2>6
  <2> QED BY <2>3, <2>7, <2>8 DEF ChainIsLexical
<1> QED BY <1>1, <1>3, <1>4 DEF ChainsAreLexical

\* A statement opens and ends nothing: the open events stay what they are.
LEMMA StatementKeepsNestIsOpen ==
  ASSUME IInv, TextInv, Len(program) < MaxEvents, NEW e \in EventRecord,
         e.op \notin {"function", "block", "end"},
         program' = Append(program, e), nest' = nest
  PROVE  NestIsOpen'
<1>0. PICK n \in Nat : n = Len(program)
  BY DEF IInv, TypeOK
<1>1. /\ program \in Seq(EventRecord) /\ program' \in Seq(EventRecord)
      /\ Len(program') = n + 1
      /\ \A i \in 1..n : program'[i] = program[i]
      /\ program'[n + 1] = e
  BY <1>0, AppendEvent DEF IInv, TypeOK
<1>2. /\ Len(nest) \in Nat
      /\ \A k \in 1..Len(nest) : nest[k] \in Scopes /\ nest[k] <= n
      /\ \A k \in 2..Len(nest) : nest[k] \in 1..n
  <2>1. \A k \in 2..Len(nest) : nest[k] # 0
    BY NestFacts DEF IInv, CollectInv, NestIsStack
  <2> QED BY <2>1, <1>0, NestFacts, MaxEventsIsNat DEF Scopes
<1>3. ASSUME NEW k \in 2..Len(nest)
      PROVE  OpensScope(nest[k])' /\ SameFunction(nest[k], Len(program))'
  <2>1. OpensScope(nest[k]) /\ SameFunction(nest[k], n)
    BY <1>0 DEF TextInv, NestIsOpen
  <2>2. OpensScope(nest[k])'
    BY <1>1, <1>2, <2>1 DEF OpensScope
  <2>3. \A g \in 1..(n + 1) :
          program'[g].op = "function" => (g <= nest[k] <=> g <= n + 1)
    BY <1>0, <1>1, <1>2, <2>1 DEF SameFunction
  <2> QED BY <1>1, <2>2, <2>3 DEF SameFunction
<1>4. \A x \in 1..n, s \in Scopes : Ends(x, s)' <=> Ends(x, s)
  BY <1>1 DEF Ends
<1>5. \A s \in Scopes : ~Ends(n + 1, s)'
  <2>1. \A s \in Scopes : ~(program'[n + 1].op = "end" /\ program'[n + 1].parent = s)
    BY <1>1
  <2> QED BY <2>1 DEF Ends
<1>6. Len(nest) >= 2 => program'[nest[2]].op = "function"
  BY <1>0, <1>1, <1>2 DEF TextInv, NestIsOpen
<1>7. \A k \in 1..Len(nest), x \in 1..(n + 1) : ~Ends(x, nest[k])'
  BY <1>0, <1>2, <1>4, <1>5 DEF TextInv, NestIsOpen
<1>8. \A s \in 1..(n + 1) :
        OpensScope(s)' => \/ \E k \in 1..Len(nest) : nest[k] = s
                          \/ \E x \in 1..(n + 1) : Ends(x, s)'
  <2> SUFFICES ASSUME NEW s \in 1..(n + 1), OpensScope(s)'
               PROVE  \/ \E k \in 1..Len(nest) : nest[k] = s
                      \/ \E x \in 1..(n + 1) : Ends(x, s)'
    OBVIOUS
  <2>1. s \in 1..n /\ OpensScope(s)
    BY <1>1 DEF OpensScope
  <2>2. s \in Scopes
    BY <2>1, <1>0, MaxEventsIsNat DEF Scopes, IInv, TypeOK
  <2> QED BY <2>1, <2>2, <1>0, <1>4 DEF TextInv, NestIsOpen
<1> QED BY <1>1, <1>3, <1>6, <1>7, <1>8 DEF NestIsOpen

\* A function or block that opens joins the open events.
LEMMA EnterKeepsNestIsOpen ==
  ASSUME IInv, TextInv, phase = "collect", Len(program) < MaxEvents,
         NEW e \in EventRecord, e.op \in {"function", "block"},
         e.op = "function" <=> Enclosing = 0,
         program' = Append(program, e), nest' = Append(nest, Len(program) + 1)
  PROVE  NestIsOpen'
<1>0. PICK n \in Nat : n = Len(program)
  BY DEF IInv, TypeOK
<1>1. /\ program \in Seq(EventRecord) /\ program' \in Seq(EventRecord)
      /\ Len(program') = n + 1 /\ n + 1 \in Scopes
      /\ \A i \in 1..n : program'[i] = program[i]
      /\ program'[n + 1] = e
  BY <1>0, AppendEvent, MaxEventsIsNat, SMTT(30) DEF IInv, TypeOK, Scopes, Events
<1>2. PICK d \in Nat : d = Len(nest)
  BY NestFacts
<1>3. /\ d >= 1 /\ nest[1] = 0
      /\ \A k \in 1..d : nest[k] \in Scopes /\ nest[k] <= n
      /\ \A k \in 2..d : nest[k] \in 1..n
      /\ Enclosing = nest[d]
      /\ Len(nest') = d + 1 /\ nest'[d + 1] = n + 1
      /\ \A k \in 1..d : nest'[k] = nest[k]
  <2>1. \A k \in 2..d : nest[k] # 0
    BY <1>2, OpenEvents
  <2>2. nest \in Seq(Scopes)
    BY DEF IInv, TypeOK
  <2>3. d >= 1 /\ nest[1] = 0 /\ Enclosing = nest[d]
    BY <1>2, NestFacts DEF Enclosing
  <2>4. \A k \in 1..d : nest[k] \in Scopes /\ nest[k] <= n
    BY <1>0, <1>2, NestFacts
  <2>5. \A k \in 2..d : nest[k] \in 1..n
    BY <2>1, <2>4, <1>0, MaxEventsIsNat DEF Scopes
  <2>6. /\ Len(nest') = d + 1 /\ nest'[d + 1] = n + 1
        /\ \A k \in 1..d : nest'[k] = nest[k]
    BY <2>2, <1>0, <1>1, <1>2, AppendProperties
  <2> QED BY <2>3, <2>4, <2>5, <2>6
<1>4. d >= 2 => e.op # "function"
  BY <1>3
<1>5. ASSUME NEW k \in 2..(d + 1)
      PROVE  OpensScope(nest[k])' /\ SameFunction(nest[k], n + 1)'
  <2>1. CASE k = d + 1
    BY <2>1, <1>1, <1>3 DEF OpensScope, SameFunction
  <2>2. CASE k \in 2..d
    <3>1. OpensScope(nest[k]) /\ SameFunction(nest[k], n)
      BY <1>0, <1>2, <2>2 DEF TextInv, NestIsOpen
    <3>2. nest'[k] = nest[k] /\ nest[k] \in 1..n /\ e.op # "function"
      BY <1>3, <1>4, <2>2
    <3>3. program'[nest'[k]].op \in {"function", "block"}
      BY <1>1, <3>1, <3>2 DEF OpensScope
    <3>4. PICK s \in 1..n : s = nest[k]
      BY <3>2
    <3>5. \A g \in 1..(n + 1) :
            program'[g].op = "function" => (g <= s <=> g <= n + 1)
      <4>1. program'[n + 1].op # "function"
        BY <1>1, <3>2
      <4>2. \A g \in 1..n : program'[g].op = "function" => (g <= s <=> g <= n)
        BY <1>0, <1>1, <3>1, <3>4 DEF SameFunction
      <4> QED BY <4>1, <4>2, <3>4, <1>0
    <3>6. nest'[k] = s
      BY <3>2, <3>4
    <3> QED BY <1>1, <3>3, <3>5, <3>6 DEF SameFunction, OpensScope
  <2> QED BY <2>1, <2>2, <1>2
<1>6. program'[nest'[2]].op = "function"
  <2>1. CASE d = 1
    BY <2>1, <1>1, <1>3
  <2>2. CASE d >= 2
    BY <2>2, <1>0, <1>1, <1>2, <1>3 DEF TextInv, NestIsOpen
  <2> QED BY <2>1, <2>2, <1>3
<1>7. \A x \in 1..(n + 1), s \in Scopes : Ends(x, s)' <=> x \in 1..n /\ Ends(x, s)
  <2>1. \A s \in Scopes : ~(program'[n + 1].op = "end" /\ program'[n + 1].parent = s)
    BY <1>1
  <2> QED BY <2>1, <1>1 DEF Ends
<1>8. \A x \in 1..n : ~Ends(x, n + 1)
  <2>1. \A x \in 1..n : program[x].parent \in 0..(x - 1)
    BY <1>0 DEF TextInv, ChainsAreLexical, ChainIsLexical
  <2> QED BY <2>1 DEF Ends
<1>9. \A k \in 1..(d + 1), x \in 1..(n + 1) : ~Ends(x, nest[k])'
  <2> SUFFICES ASSUME NEW k \in 1..(d + 1), NEW x \in 1..n
               PROVE  ~Ends(x, nest'[k])
    BY <1>1, <1>3, <1>7
  <2>1. CASE k = d + 1
    BY <2>1, <1>3, <1>8
  <2>2. CASE k \in 1..d
    <3>1. ~Ends(x, nest[k])
      BY <2>2, <1>0, <1>2 DEF TextInv, NestIsOpen
    <3>2. nest'[k] = nest[k]
      BY <2>2, <1>3
    <3> QED BY <3>1, <3>2 DEF Ends
  <2> QED BY <2>1, <2>2, <1>2
<1>10. \A s \in 1..(n + 1) :
         OpensScope(s)' => \/ \E k \in 1..(d + 1) : nest'[k] = s
                           \/ \E x \in 1..(n + 1) : Ends(x, s)'
  <2> SUFFICES ASSUME NEW s \in 1..(n + 1), OpensScope(s)'
               PROVE  \/ \E k \in 1..(d + 1) : nest'[k] = s
                      \/ \E x \in 1..(n + 1) : Ends(x, s)'
    OBVIOUS
  <2>a. CASE s = n + 1
    <3>1. d + 1 \in 1..(d + 1)
      BY <1>2
    <3>2. nest'[d + 1] = s
      BY <2>a, <1>3
    <3> QED BY <3>1, <3>2
  <2>b. CASE s # n + 1
   <3>1. s \in 1..n
     BY <2>b, <1>0
   <3>2. OpensScope(s)
     BY <3>1, <1>1 DEF OpensScope
   <3>3. s \in Scopes
     BY <3>1, <1>0, MaxEventsIsNat DEF Scopes, IInv, TypeOK
   <3>4. (\E k \in 1..d : nest[k] = s) \/ \E x \in 1..n : Ends(x, s)
     BY <3>1, <3>2, <1>0, <1>2 DEF TextInv, NestIsOpen
   <3>5. CASE \E k \in 1..d : nest[k] = s
     BY <3>5, <1>2, <1>3
   <3>6. CASE \E x \in 1..n : Ends(x, s)
     <4>1. PICK x \in 1..n : Ends(x, s)
       BY <3>6
     <4>2. x \in 1..(n + 1)
       BY <1>0
     <4> QED BY <3>3, <4>1, <4>2, <1>7
   <3> QED BY <3>4, <3>5, <3>6
  <2> QED BY <2>a, <2>b
<1> QED BY <1>1, <1>3, <1>5, <1>6, <1>9, <1>10 DEF NestIsOpen

\* A function or block that ends leaves the open events.
LEMMA ExitKeepsNestIsOpen ==
  ASSUME IInv, TextInv, phase = "collect", Len(program) < MaxEvents,
         NEW e \in EventRecord, e.op = "end", e.parent = Enclosing, Enclosing # 0,
         program' = Append(program, e), nest' = SubSeq(nest, 1, Len(nest) - 1)
  PROVE  NestIsOpen'
<1>0. PICK n \in Nat : n = Len(program)
  BY DEF IInv, TypeOK
<1>1. /\ program \in Seq(EventRecord) /\ program' \in Seq(EventRecord)
      /\ Len(program') = n + 1
      /\ \A i \in 1..n : program'[i] = program[i]
      /\ program'[n + 1] = e
  BY <1>0, AppendEvent, MaxEventsIsNat DEF IInv, TypeOK, Scopes, Events
<1>2. PICK d \in Nat : d = Len(nest)
  BY NestFacts
<1>3. /\ d >= 2 /\ nest[1] = 0
      /\ \A k \in 1..d : nest[k] \in Scopes /\ nest[k] <= n
      /\ \A k \in 2..d : nest[k] \in 1..n
      /\ \A k \in 1..(d - 1) : nest[k] # nest[d]
      /\ Enclosing = nest[d]
  <2>1. \A k \in 2..d : nest[k] # 0
    BY <1>2, OpenEvents
  <2>2. Enclosing = nest[d] /\ d >= 2
    BY <1>2, NestFacts DEF Enclosing
  <2>3. \A k \in 1..(d - 1) : nest[k] < nest[d]
    BY <1>2, <2>2 DEF IInv, CollectInv, NestIsStack
  <2> QED BY <2>1, <2>2, <2>3, <1>0, <1>2, NestFacts, MaxEventsIsNat DEF Scopes
<1>4. /\ Len(nest') = d - 1
      /\ \A k \in 1..(d - 1) : nest'[k] = nest[k]
  BY <1>2, <1>3, SubSeqProperties
<1>5. ASSUME NEW k \in 2..(d - 1)
      PROVE  OpensScope(nest[k])' /\ SameFunction(nest[k], n + 1)'
  <2>1. OpensScope(nest[k]) /\ SameFunction(nest[k], n)
    BY <1>0, <1>2 DEF TextInv, NestIsOpen
  <2>2. nest'[k] = nest[k] /\ nest[k] \in 1..n
    BY <1>3, <1>4
  <2>3. program'[nest'[k]].op \in {"function", "block"}
    BY <1>1, <2>1, <2>2 DEF OpensScope
  <2>4. PICK s \in 1..n : s = nest[k]
    BY <2>2
  <2>5. \A g \in 1..(n + 1) :
          program'[g].op = "function" => (g <= s <=> g <= n + 1)
    <3>1. program'[n + 1].op # "function"
      BY <1>1
    <3>2. \A g \in 1..n : program'[g].op = "function" => (g <= s <=> g <= n)
      BY <1>0, <1>1, <2>1, <2>4 DEF SameFunction
    <3> QED BY <3>1, <3>2, <2>4, <1>0
  <2> QED BY <1>1, <2>2, <2>3, <2>4, <2>5 DEF SameFunction, OpensScope
<1>6. d - 1 >= 2 => program'[nest'[2]].op = "function"
  BY <1>0, <1>1, <1>2, <1>3, <1>4 DEF TextInv, NestIsOpen
<1>7. \A x \in 1..(n + 1), s \in Scopes :
        Ends(x, s)' <=> (x \in 1..n /\ Ends(x, s)) \/ (x = n + 1 /\ s = nest[d])
  BY <1>1, <1>3 DEF Ends
<1>8. \A k \in 1..(d - 1), x \in 1..(n + 1) : ~Ends(x, nest[k])'
  <2> SUFFICES ASSUME NEW k \in 1..(d - 1), NEW x \in 1..(n + 1) PROVE ~Ends(x, nest[k])'
    OBVIOUS
  <2>1. PICK t \in Scopes : t = nest[k] /\ t = nest'[k] /\ t # nest[d]
    BY <1>2, <1>3, <1>4
  <2>2. x \in 1..n => ~Ends(x, t)
    <3>1. \A l \in 1..d, y \in 1..n : ~Ends(y, nest[l])
      BY <1>0, <1>2 DEF TextInv, NestIsOpen
    <3>2. k \in 1..d
      BY <1>2
    <3> QED BY <2>1, <3>1, <3>2
  <2>3. ~Ends(x, t)'
    BY <2>1, <2>2, <1>7
  <2> QED BY <2>1, <2>3 DEF Ends
<1>9. \A s \in 1..(n + 1) :
        OpensScope(s)' => \/ \E k \in 1..(d - 1) : nest'[k] = s
                          \/ \E x \in 1..(n + 1) : Ends(x, s)'
  <2> SUFFICES ASSUME NEW s \in 1..(n + 1), OpensScope(s)'
               PROVE  \/ \E k \in 1..(d - 1) : nest'[k] = s
                      \/ \E x \in 1..(n + 1) : Ends(x, s)'
    OBVIOUS
  <2>1. s \in 1..n /\ OpensScope(s)
    BY <1>1 DEF OpensScope
  <2>2. s \in Scopes
    BY <2>1, <1>0, MaxEventsIsNat DEF Scopes, IInv, TypeOK
  <2>3. (\E k \in 1..d : nest[k] = s) \/ \E x \in 1..n : Ends(x, s)
    BY <2>1, <1>0, <1>2 DEF TextInv, NestIsOpen
  <2>4. CASE s = nest[d]
    BY <2>2, <2>4, <1>7
  <2>5. CASE s # nest[d]
    <3>1. (\E k \in 1..(d - 1) : nest[k] = s) \/ \E x \in 1..n : Ends(x, s)
      BY <2>3, <2>5, <1>3
    <3> QED BY <2>2, <3>1, <1>4, <1>7
  <2> QED BY <2>4, <2>5
<1> QED BY <1>1, <1>4, <1>5, <1>6, <1>8, <1>9 DEF NestIsOpen

-----------------------------------------------------------------------------
(* Names and symbols: one more event.                                      *)

\* What a new event must satisfy for the names of the program to resolve.
NewNamesResolve(e, i) ==
  errors' = {} =>
    /\ e.op \in {"declare", "param"} => symbols'[Enclosing][e.name] = i
    /\ e.op = "assign" => \E s \in chain'[Enclosing] : symbols'[s][e.name] # 0
    /\ e.src \in Names => \E s \in chain'[Enclosing] : symbols'[s][e.src] # 0

\* A name found from an event's scope is found there after one more event.
LEMMA AppendKeepsNames ==
  ASSUME IInv, TextInv, phase = "collect", Len(program) < MaxEvents,
         NEW e \in EventRecord, e.parent = Enclosing,
         e.op \in {"declare", "param", "assign"} => e.name \in Names,
         program' = Append(program, e),
         \A s \in 0..Len(program) : chain'[s] = chain[s],
         errors \subseteq errors',
         \A s \in Scopes, m \in Names :
           symbols[s][m] # 0 => symbols'[s][m] = symbols[s][m],
         NewNamesResolve(e, Len(program) + 1)
  PROVE  NamesAreNames' /\ NamesResolve'
<1>0. PICK n \in Nat : n = Len(program)
  BY DEF IInv, TypeOK
<1>1. /\ program \in Seq(EventRecord) /\ program' \in Seq(EventRecord)
      /\ Len(program') = n + 1
      /\ \A i \in 1..n : program'[i] = program[i]
      /\ program'[n + 1] = e
  BY <1>0, AppendEvent DEF IInv, TypeOK
<1>2. NamesAreNames'
  <2>1. \A i \in 1..n : program[i].op \in {"declare", "param", "assign"}
                          => program[i].name \in Names
    BY <1>0 DEF TextInv, NamesAreNames
  <2> QED BY <2>1, <1>0, <1>1 DEF NamesAreNames
<1>3. NamesResolve'
  <2> SUFFICES ASSUME errors' = {}, NEW i \in 1..(n + 1)
               PROVE  /\ Declaration(i)' =>
                           symbols'[program'[i].parent][program'[i].name] = i
                      /\ program'[i].op = "assign" =>
                           Holders(program[i].parent, program[i].name)' # {}
                      /\ program'[i].src \in Names =>
                           Holders(program[i].parent, program[i].src)' # {}
    BY <1>1 DEF NamesResolve
  <2>1. CASE i = n + 1
    <3>1. program'[i] = e /\ program'[i].parent = Enclosing
      BY <2>1, <1>1
    <3> QED BY <2>1, <3>1, <1>0 DEF NewNamesResolve, Declaration, Holders
  <2>2. CASE i \in 1..n
    <3> DEFINE p == program[i].parent
    <3>1. program'[i] = program[i] /\ errors = {}
      BY <2>2, <1>1
    <3>2. p \in 0..n /\ p \in Scopes
      <4>1. p \in 0..(i - 1)
        BY <1>0, <2>2 DEF TextInv, ChainsAreLexical, ChainIsLexical
      <4> QED BY <4>1, <1>0, <2>2, MaxEventsIsNat DEF Scopes, IInv, TypeOK
    <3>3. chain'[p] = chain[p] /\ chain[p] \subseteq Scopes
      BY <1>0, <3>2 DEF IInv, TypeOK
    <3>4. \A m \in Names : Holders(p, m) # {} => \E s \in chain'[p] : symbols'[s][m] # 0
      BY <3>3 DEF Holders
    <3>5. /\ Declaration(i) => symbols[p][program[i].name] = i
          /\ program[i].op = "assign" => Holders(p, program[i].name) # {}
          /\ program[i].src \in Names => Holders(p, program[i].src) # {}
      BY <3>1, <2>2, <1>0 DEF TextInv, NamesResolve
    <3>6. program[i].op \in {"declare", "param", "assign"} => program[i].name \in Names
      BY <2>2, <1>0 DEF TextInv, NamesAreNames
    <3>7. Declaration(i)' => symbols'[p][program[i].name] = i
      <4> SUFFICES ASSUME Declaration(i)' PROVE symbols'[p][program[i].name] = i
        OBVIOUS
      <4>1. Declaration(i)
        BY <3>1 DEF Declaration
      <4>2. symbols[p][program[i].name] = i /\ i # 0 /\ program[i].name \in Names
        BY <4>1, <3>5, <3>6 DEF Declaration
      <4> QED BY <4>2, <3>2
    <3> HIDE DEF p
    <3>8. program'[i].parent = p
      BY <3>1 DEF p
    <3> QED BY <3>1, <3>4, <3>5, <3>6, <3>7, <3>8 DEF Holders
  <2>3. i = n + 1 \/ i \in 1..n
    BY <1>0
  <2> QED BY <2>1, <2>2, <2>3
<1> QED BY <1>2, <1>3

\* The symbols after a declaration are those of declarations.
LEMMA RegisteredIsDeclared ==
  ASSUME IInv, TextInv, phase = "collect", Len(program) < MaxEvents,
         NEW e \in EventRecord, e.parent = Enclosing,
         program' = Append(program, e),
         \/ symbols' = symbols
         \/ /\ e.op \in {"declare", "param"} /\ e.name \in Names
            /\ symbols' = Registered(e.name, Len(program) + 1)
  PROVE  SymbolsAreDeclared'
<1>0. PICK n \in Nat : n = Len(program)
  BY DEF IInv, TypeOK
<1>1. /\ \A i \in 1..n : program'[i] = program[i]
      /\ program'[n + 1] = e
  BY <1>0, AppendEvent DEF IInv, TypeOK
<1>2. currentScope = Enclosing /\ currentScope \in Scopes
  BY OpenEvents
<1>3. symbols \in [Scopes -> [Names -> 0..n]]
  BY <1>0 DEF IInv, TypeOK
<1> SUFFICES ASSUME NEW s \in Scopes, NEW m \in Names, symbols'[s][m] # 0
             PROVE  LET d == symbols'[s][m] IN
                    /\ program'[d].op \in {"declare", "param"}
                    /\ program'[d].parent = s /\ program'[d].name = m
  BY DEF SymbolsAreDeclared, Declaration
<1>4. CASE symbols'[s][m] = symbols[s][m]
  <2>1. symbols[s][m] \in 1..n
    BY <1>3, <1>4, <1>0
  <2>2. /\ Declaration(symbols[s][m]) /\ program[symbols[s][m]].parent = s
        /\ program[symbols[s][m]].name = m
    BY <2>1 DEF TextInv, SymbolsAreDeclared
  <2> QED BY <2>1, <2>2, <1>1, <1>4 DEF Declaration
<1>5. CASE symbols'[s][m] # symbols[s][m]
  <2>1. /\ e.op \in {"declare", "param"} /\ e.name \in Names
        /\ symbols' = Registered(e.name, n + 1)
    BY <1>5, <1>0
  <2>2. s = Enclosing /\ m = e.name /\ symbols'[s][m] = n + 1
    BY <2>1, <1>2, <1>3, <1>5 DEF Registered
  <2> QED BY <2>1, <2>2, <1>1
<1> QED BY <1>4, <1>5

\* Names no scope in reach has are reported.
LEMMA NothingUnresolved ==
  ASSUME NEW names, NEW table, NEW e, UnresolvedUses(names, table, e) = {},
         NEW m \in names
  PROVE  \E s \in chain[currentScope] : table[s][m] # 0
<1> SUFFICES ASSUME \A s \in chain[currentScope] : table[s][m] = 0 PROVE FALSE
  OBVIOUS
<1>1. Report("unresolved", e) \in UnresolvedUses(names, table, e)
  BY DEF UnresolvedUses
<1> QED BY <1>1

\* The mark of a declaration without initialiser is not a name.
LEMMA NoInitIsNoName == NoInit \notin Names
BY ConstantsAssumption

\* Entering a function or block keeps what the first pass knows of the text.
LEMMA EnterKeepsTextInv ==
  ASSUME IInv, TextInv, NEW op \in {"function", "block"}, CollectEnter(op)
  PROVE  TextInv'
<1> DEFINE e == Event(op, "", "", NoInit)
<1>1. /\ phase = "collect" /\ Len(program) < MaxEvents
      /\ program' = Append(program, e)
      /\ nest' = Append(nest, Len(program) + 1)
      /\ chain' = [chain EXCEPT ![Len(program) + 1] =
                     chain[currentScope] \cup {Len(program) + 1}]
      /\ symbols' = symbols /\ errors' = errors
      /\ op = "function" <=> Enclosing = 0
  BY DEF CollectEnter, Collecting
<1>2. e \in EventRecord
  <2>1. NoInit \in Sources /\ op \in Ops /\ nest # <<>>
    BY DEF Sources, Ops, IInv, CollectInv, NestIsStack
  <2> QED BY <2>1, EventIsRecord DEF IInv
<1>3. e.op = op /\ e.parent = Enclosing /\ e.src = NoInit
  BY DEF Event
<1> HIDE DEF e
<1>4. \A s \in 0..Len(program) : chain'[s] = chain[s]
  BY <1>1, MaxEventsIsNat DEF IInv, TypeOK, Scopes
<1>5. NewNamesResolve(e, Len(program) + 1)
  BY <1>3, NoInitIsNoName DEF NewNamesResolve
<1>6. NestIsOpen'
  BY <1>1, <1>2, <1>3, EnterKeepsNestIsOpen
<1>7. ChainsAreLexical'
  BY <1>1, <1>2, <1>3, <1>4, AppendKeepsChains
<1>8. NamesAreNames' /\ NamesResolve'
  BY <1>1, <1>2, <1>3, <1>4, <1>5, AppendKeepsNames
<1>9. SymbolsAreDeclared'
  BY <1>1, <1>2, <1>3, RegisteredIsDeclared
<1> QED BY <1>6, <1>7, <1>8, <1>9 DEF TextInv

\* Leaving a function or block keeps what the first pass knows of the text.
LEMMA ExitKeepsTextInv ==
  ASSUME IInv, TextInv, CollectExit
  PROVE  TextInv'
<1> DEFINE e == Event("end", "", "", NoInit)
<1>1. /\ phase = "collect" /\ Len(program) < MaxEvents /\ Enclosing # 0
      /\ program' = Append(program, e)
      /\ nest' = SubSeq(nest, 1, Len(nest) - 1)
      /\ chain' = chain /\ symbols' = symbols /\ errors' = errors
  BY DEF CollectExit
<1>2. e \in EventRecord
  <2>1. NoInit \in Sources /\ "end" \in Ops /\ nest # <<>>
    BY DEF Sources, Ops, IInv, CollectInv, NestIsStack
  <2> QED BY <2>1, EventIsRecord DEF IInv
<1>3. e.op = "end" /\ e.parent = Enclosing /\ e.src = NoInit
  BY DEF Event
<1> HIDE DEF e
<1>4. NewNamesResolve(e, Len(program) + 1)
  BY <1>3, NoInitIsNoName DEF NewNamesResolve
<1>5. NestIsOpen'
  BY <1>1, <1>2, <1>3, ExitKeepsNestIsOpen
<1>6. ChainsAreLexical'
  BY <1>1, <1>2, <1>3, AppendKeepsChains
<1>7. NamesAreNames' /\ NamesResolve'
  BY <1>1, <1>2, <1>3, <1>4, AppendKeepsNames
<1>8. SymbolsAreDeclared'
  BY <1>1, <1>2, <1>3, RegisteredIsDeclared
<1> QED BY <1>5, <1>6, <1>7, <1>8 DEF TextInv

\* What the statements of the first pass have in common.
LEMMA StatementKeepsTextInv ==
  ASSUME IInv, TextInv, phase = "collect", Len(program) < MaxEvents,
         NEW e \in EventRecord, e.parent = Enclosing,
         e.op \in {"declare", "param", "assign", "use"}, e.name \in Names,
         program' = Append(program, e),
         nest' = nest, chain' = chain, errors \subseteq errors',
         \/ symbols' = symbols
         \/ /\ e.op \in {"declare", "param"}
            /\ symbols' = Registered(e.name, Len(program) + 1),
         NewNamesResolve(e, Len(program) + 1)
  PROVE  TextInv'
<1>1. NestIsOpen'
  BY StatementKeepsNestIsOpen
<1>2. ChainsAreLexical'
  BY AppendKeepsChains
<1>3. \A s \in Scopes, m \in Names : symbols[s][m] # 0 => symbols'[s][m] = symbols[s][m]
  <2>1. symbols \in [Scopes -> [Names -> 0..Len(program)]] /\ currentScope \in Scopes
    BY DEF IInv, TypeOK
  <2>2. CASE symbols' = symbols
    BY <2>2
  <2>3. CASE symbols' = Registered(e.name, Len(program) + 1)
    BY <2>1, <2>3 DEF Registered
  <2> QED BY <2>2, <2>3
<1>4. NamesAreNames' /\ NamesResolve'
  BY <1>3, AppendKeepsNames
<1>5. SymbolsAreDeclared'
  BY RegisteredIsDeclared
<1> QED BY <1>1, <1>2, <1>4, <1>5 DEF TextInv

\* Without errors, a declaration's scope did not have its name.
LEMMA NoRedeclaration ==
  ASSUME IInv, TextInv, phase = "collect", NEW name \in Names,
         Redeclarations(name, Len(program) + 1) = {}
  PROVE  Registered(name, Len(program) + 1)[Enclosing][name] = Len(program) + 1
<1>1. symbols \in [Scopes -> [Names -> 0..Len(program)]]
  BY DEF IInv, TypeOK
<1>2. currentScope = Enclosing /\ Enclosing \in Scopes
  BY OpenEvents
<1>3. symbols[currentScope][name] = 0
  BY DEF Redeclarations
<1> QED BY <1>1, <1>2, <1>3 DEF Registered

\* Every statement of the first pass keeps what it knows of the text.
LEMMA StatementsKeepTextInv ==
  ASSUME IInv, TextInv, NEW st \in Statements,
         CollectDeclare(st) \/ CollectParam(st) \/ CollectReference(st)
  PROVE  TextInv'
<1>1. /\ st.name \in Names /\ st.type \in Types /\ st.src \in Sources
      /\ NoInit \in Sources
      /\ {"declare", "param", "assign", "use"} \subseteq Ops
      /\ nest # <<>>
  BY StatementFields DEF Sources, Ops, IInv, CollectInv, NestIsStack
<1>2. \A op \in {"declare", "param", "assign", "use"}, src \in Sources :
        LET e == Event(op, st.name, st.type, src) IN
        /\ e \in EventRecord /\ e.op = op /\ e.name = st.name /\ e.src = src
        /\ e.parent = Enclosing
  BY <1>1, EventIsRecord DEF IInv, Event
<1>3. phase = "collect" /\ Len(program) < MaxEvents /\ nest' = nest /\ chain' = chain
  BY DEF CollectDeclare, CollectParam, CollectReference, Collecting
<1>4. currentScope = Enclosing
  BY <1>3, OpenEvents
<1>5. CASE CollectDeclare(st)
  <2> DEFINE e == Event("declare", st.name, st.type, st.src)
  <2>1. /\ e \in EventRecord /\ e.op = "declare" /\ e.name = st.name
        /\ e.src = st.src /\ e.parent = Enclosing
    BY <1>1, <1>2
  <2>2. /\ program' = Append(program, e)
        /\ symbols' = Registered(st.name, Len(program) + 1)
        /\ errors' = errors \cup Redeclarations(st.name, Len(program) + 1)
             \cup UnresolvedUses({st.src} \cap Names, symbols', Len(program) + 1)
    BY <1>5 DEF CollectDeclare
  <2> HIDE DEF e
  <2>3. ASSUME errors' = {} PROVE symbols'[Enclosing][st.name] = Len(program) + 1
    BY <2>2, <2>3, <1>1, <1>3, NoRedeclaration
  <2>4. ASSUME errors' = {}, st.src \in Names
        PROVE  \E s \in chain[currentScope] : symbols'[s][st.src] # 0
    <3> DEFINE names == {st.src} \cap Names
    <3>1. UnresolvedUses(names, symbols', Len(program) + 1) = {} /\ st.src \in names
      BY <2>2, <2>4
    <3> HIDE DEF names
    <3> QED BY <3>1, NothingUnresolved
  <2>5. NewNamesResolve(e, Len(program) + 1)
    BY <2>1, <2>3, <2>4, <1>3, <1>4 DEF NewNamesResolve
  <2> QED BY <2>1, <2>2, <2>5, <1>1, <1>3, StatementKeepsTextInv
<1>6. CASE CollectParam(st)
  <2> DEFINE e == Event("param", st.name, st.type, NoInit)
  <2>1. /\ e \in EventRecord /\ e.op = "param" /\ e.name = st.name
        /\ e.src = NoInit /\ e.parent = Enclosing
    BY <1>1, <1>2
  <2>2. /\ program' = Append(program, e)
        /\ symbols' = Registered(st.name, Len(program) + 1)
        /\ errors' = errors \cup Redeclarations(st.name, Len(program) + 1)
    BY <1>6 DEF CollectParam
  <2> HIDE DEF e
  <2>3. ASSUME errors' = {} PROVE symbols'[Enclosing][st.name] = Len(program) + 1
    BY <2>2, <2>3, <1>1, <1>3, NoRedeclaration
  <2>4. NewNamesResolve(e, Len(program) + 1)
    BY <2>1, <2>3, NoInitIsNoName DEF NewNamesResolve
  <2> QED BY <2>1, <2>2, <2>4, <1>1, <1>3, StatementKeepsTextInv
<1>7. CASE CollectReference(st)
  <2> DEFINE e == Event(st.op, st.name, st.type, st.src)
             names == ({st.src} \cap Names)
                        \cup (IF st.op = "assign" THEN {st.name} ELSE {})
  <2>1. /\ e \in EventRecord /\ e.op \in {"assign", "use"} /\ e.op = st.op
        /\ e.name = st.name /\ e.src = st.src /\ e.parent = Enclosing
    <3>1. st.op \in {"assign", "use"}
      BY <1>7 DEF CollectReference
    <3> QED BY <1>1, <1>2, <3>1
  <2>2. /\ program' = Append(program, e) /\ symbols' = symbols
        /\ errors' = errors \cup UnresolvedUses(names, symbols, Len(program) + 1)
    BY <1>7 DEF CollectReference
  <2>3. /\ st.op = "assign" => st.name \in names
        /\ st.src \in Names => st.src \in names
    OBVIOUS
  <2> HIDE DEF e, names
  <2>4. ASSUME errors' = {}, NEW m \in names
        PROVE  \E s \in chain[currentScope] : symbols[s][m] # 0
    <3>1. UnresolvedUses(names, symbols, Len(program) + 1) = {}
      BY <2>2, <2>4
    <3> QED BY <3>1, NothingUnresolved
  <2>5. NewNamesResolve(e, Len(program) + 1)
    BY <2>1, <2>2, <2>3, <2>4, <1>3, <1>4 DEF NewNamesResolve
  <2> QED BY <2>1, <2>2, <2>5, <1>1, <1>3, StatementKeepsTextInv
<1> QED BY <1>5, <1>6, <1>7

\* Later passes leave the text and its scopes alone, and forget no error.
LEMMA LaterPassKeepsTextInv ==
  ASSUME TextInv, UNCHANGED <<program, nest, chain, symbols>>, errors \subseteq errors'
  PROVE  TextInv'
<1>1. NestIsOpen'
  BY DEF TextInv, NestIsOpen, OpensScope, SameFunction, Ends
<1>2. ChainsAreLexical'
  BY DEF TextInv, ChainsAreLexical, ChainIsLexical, SameFunction, Inside
<1>3. NamesAreNames'
  BY DEF TextInv, NamesAreNames
<1>4. SymbolsAreDeclared'
  BY DEF TextInv, SymbolsAreDeclared, Declaration
<1>5. NamesResolve'
  <2>1. errors' = {} => errors = {}
    OBVIOUS
  <2> QED BY <2>1 DEF TextInv, NamesResolve, Declaration, Holders
<1> QED BY <1>1, <1>2, <1>3, <1>4, <1>5 DEF TextInv

\* The empty program satisfies the invariant of the text.
LEMMA InitTextInv == Init => TextInv
<1> SUFFICES ASSUME Init PROVE TextInv
  OBVIOUS
<1>1. program = <<>> /\ nest = <<0>> /\ symbols = [s \in Scopes |-> [m \in Names |-> 0]]
  BY DEF Init
<1>2. Len(program) = 0 /\ Len(nest) = 1
  BY <1>1
<1>3. NestIsOpen
  BY <1>2 DEF NestIsOpen
<1>4. ChainsAreLexical /\ NamesAreNames /\ NamesResolve
  BY <1>2 DEF ChainsAreLexical, NamesAreNames, NamesResolve
<1>5. SymbolsAreDeclared
  BY <1>1 DEF SymbolsAreDeclared
<1> QED BY <1>3, <1>4, <1>5 DEF TextInv

\* Every step of every pass keeps the invariant of the text.
LEMMA NextKeepsTextInv ==
  ASSUME IInv, TextInv, [Next]_vars PROVE TextInv'
<1>1. CASE \E op \in {"function", "block"} : CollectEnter(op)
  BY <1>1, EnterKeepsTextInv
<1>2. CASE CollectExit
  BY <1>2, ExitKeepsTextInv
<1>3. CASE \E st \in Statements :
             CollectDeclare(st) \/ CollectParam(st) \/ CollectReference(st)
  BY <1>3, StatementsKeepTextInv
<1>4. CASE UNCHANGED <<program, nest, chain, symbols>> /\ errors \subseteq errors'
  BY <1>4, LaterPassKeepsTextInv
<1>5. CASE CollectDone \/ Check \/ CheckDone \/ Define \/ DefineDone \/ Generate
             \/ GenerateDone \/ UNCHANGED vars
  BY <1>4, <1>5 DEF CollectDone, Check, CheckDone, Define, DefineDone, Generate,
     GenerateDone, vars
<1> QED BY <1>1, <1>2, <1>3, <1>5 DEF Next, Collect

-----------------------------------------------------------------------------
(* Slots and code: one step of the generator.                              *)

\* A declaration of a program without errors resolves to itself.
LEMMA OwnDeclaration ==
  ASSUME IInv, TextInv, errors = {}, NEW i \in 1..Len(program), Declaration(i)
  PROVE  /\ Resolve(program[i].parent, program[i].name) = i
         /\ Holders(program[i].parent, program[i].name) # {}
         /\ program[i].name \in Names
<1> DEFINE p == program[i].parent
           H == Holders(p, program[i].name)
<1>1. /\ p \in 0..(i - 1) /\ p \in chain[p] /\ \A s \in chain[p] : s <= p
  BY DEF TextInv, ChainsAreLexical, ChainIsLexical
<1>2. program[i].name \in Names /\ symbols[p][program[i].name] = i /\ i # 0
  BY DEF TextInv, NamesAreNames, NamesResolve, Declaration
<1>3. p \in Scopes /\ H \subseteq Int
  <2>1. p \in Scopes
    BY <1>1, MaxEventsIsNat DEF IInv, TypeOK, Scopes
  <2> QED BY <2>1, MaxEventsIsNat DEF Holders, IInv, TypeOK, Scopes
<1>4. p \in H /\ \A s \in H : s <= p
  BY <1>1, <1>2 DEF Holders
<1> HIDE DEF p
<1>5. Greatest(H) = p
  BY <1>3, <1>4, GreatestIs
<1>6. Resolve(p, program[i].name) = symbols[Greatest(H)][program[i].name]
  BY <1>4 DEF Resolve, Holders
<1> QED BY <1>2, <1>4, <1>5, <1>6 DEF p

\* The slots after the generator has passed event pos.
LEMMA GenerateSlots ==
  ASSUME IInv, TextInv, CodeInv, Generate
  PROVE  /\ pos \in 1..Len(program)
         /\ localIndex' = IF Declares(program[pos], pos)
                          THEN [localIndex EXCEPT ![pos] = nextLocal] ELSE localIndex
         /\ nextLocal' = IF ResetsSlots(program[pos]) THEN 0
                         ELSE IF Declares(program[pos], pos) THEN nextLocal + 1
                         ELSE nextLocal
         /\ localIndex[pos] = -1 /\ pos \in Events
<1>1. phase = "generate" /\ pos \in 1..Len(program)
  BY DEF Generate, Step, IInv, TypeOK
<1>2. pos \in Events
  BY <1>1, MaxEventsIsNat DEF Events, IInv, TypeOK
<1>3. localIndex[pos] = -1 /\ errors = {}
  BY <1>1, <1>2 DEF CodeInv, SlotsFollowWalk, Generating
<1>4. ASSUME Declares(program[pos], pos)
      PROVE  Target(TreeScope(pos), program[pos]) = pos
  <2>1. Declaration(pos)
    BY <1>4 DEF Declares, Declaration
  <2> QED BY <2>1, <1>1, <1>3, OwnDeclaration DEF Target, TreeScope, Declaration
<1> QED BY <1>1, <1>2, <1>3, <1>4 DEF Generate

\* Being in one function does not depend on the order of the events.
LEMMA SameFunctionIsSymmetric ==
  ASSUME NEW i, NEW j, SameFunction(i, j) PROVE SameFunction(j, i)
BY DEF SameFunction

\* A variable declared by the generator gets a slot above those of its function.
LEMMA GenerateKeepsSlotsApart ==
  ASSUME IInv, TextInv, CodeInv, Generate
  PROVE  SlotsFollowWalk' /\ SlotsDiffer'
<1> DEFINE fresh == Declares(program[pos], pos)
<1>0. PICK i \in 1..Len(program) : i = pos
  BY GenerateSlots
<1>1. /\ localIndex' = IF fresh THEN [localIndex EXCEPT ![i] = nextLocal] ELSE localIndex
      /\ nextLocal' = IF ResetsSlots(program[i]) THEN 0
                      ELSE IF fresh THEN nextLocal + 1 ELSE nextLocal
      /\ localIndex[i] = -1 /\ i \in Events
  BY <1>0, GenerateSlots
<1>2. /\ fresh <=> Declaration(i) /\ program[i].parent # 0
      /\ ResetsSlots(program[i]) <=> program[i].op = "function"
      /\ fresh => program[i].op # "function"
  BY <1>0 DEF Declares, Declaration, TreeScope, ResetsSlots
<1> HIDE DEF fresh
<1>3. /\ localIndex \in [Events -> {-1} \cup Nat] /\ nextLocal \in Nat
      /\ Events \subseteq Nat
  BY MaxEventsIsNat DEF IInv, TypeOK, Events
<1>4. pos' = i + 1 /\ program' = program /\ phase = "generate"
  BY <1>0 DEF Generate, Step
<1>5. /\ \A d \in Events : localIndex[d] # -1 =>
           d < i /\ (SameFunction(d, i - 1) => localIndex[d] < nextLocal)
      /\ \A d \in 1..(i - 1) :
           Declaration(d) /\ program[d].parent # 0 => localIndex[d] # -1
      /\ SlotsDiffer
  BY <1>0, <1>4 DEF CodeInv, SlotsFollowWalk, Generating
<1>6. ASSUME NEW d \in Events, d < i, SameFunction(d, i)
      PROVE  SameFunction(d, i - 1) /\ program[i].op # "function"
  <2>1. \A g \in 1..Len(program) : program[g].op = "function" => (g <= d <=> g <= i)
    BY <1>6 DEF SameFunction
  <2>2. program[i].op # "function"
    BY <2>1, <1>6, <1>3
  <2>3. \A g \in 1..Len(program) : program[g].op = "function" => (g <= d <=> g <= i - 1)
    BY <2>1, <2>2
  <2> QED BY <2>2, <2>3 DEF SameFunction
<1>7. \A d \in Events : localIndex'[d] # -1 =>
        d < i + 1 /\ (SameFunction(d, i) => localIndex'[d] < nextLocal')
  <2> SUFFICES ASSUME NEW d \in Events, localIndex'[d] # -1
               PROVE  d < i + 1 /\ (SameFunction(d, i) => localIndex'[d] < nextLocal')
    OBVIOUS
  <2>1. CASE d = i
    <3>1. fresh
      BY <2>1, <1>1
    <3> QED BY <2>1, <3>1, <1>1, <1>2, <1>3
  <2>2. CASE d # i
    <3>1. localIndex'[d] = localIndex[d]
      BY <2>2, <1>1, <1>3
    <3>2. d < i /\ (SameFunction(d, i - 1) => localIndex[d] < nextLocal)
      BY <3>1, <1>5
    <3>3. SameFunction(d, i) => localIndex[d] < nextLocal /\ ~ResetsSlots(program[i])
      BY <3>2, <1>2, <1>6
    <3> QED BY <3>1, <3>2, <3>3, <1>1, <1>3
  <2> QED BY <2>1, <2>2
<1>8. \A d \in 1..i : Declaration(d) /\ program[d].parent # 0 => localIndex'[d] # -1
  <2> SUFFICES ASSUME NEW d \in 1..i, Declaration(d), program[d].parent # 0
               PROVE  localIndex'[d] # -1
    OBVIOUS
  <2>1. CASE d = i
    BY <2>1, <1>1, <1>2, <1>3
  <2>2. CASE d # i
    BY <2>2, <1>1, <1>3, <1>5
  <2> QED BY <2>1, <2>2
<1>9. \A d \in Events : d # i => localIndex'[d] = localIndex[d]
  BY <1>1, <1>3
<1>10. \A d \in Events :
         d # i /\ localIndex'[i] # -1 /\ localIndex'[d] = localIndex'[i] => ~SameFunction(d, i)
  <2> SUFFICES ASSUME NEW d \in Events, d # i, localIndex'[i] # -1,
                      localIndex'[d] = localIndex'[i], SameFunction(d, i)
               PROVE  FALSE
    OBVIOUS
  <2>1. localIndex'[i] = nextLocal
    BY <1>1, <1>3
  <2>2. localIndex[d] = nextLocal /\ localIndex[d] # -1
    BY <2>1, <1>3, <1>9
  <2>3. d < i /\ SameFunction(d, i - 1)
    BY <2>2, <1>5, <1>6
  <2> QED BY <2>2, <2>3, <1>3, <1>5
<1>11. \A d, e \in Events :
         localIndex'[d] # -1 /\ localIndex'[d] = localIndex'[e] /\ SameFunction(d, e) => d = e
  <2> SUFFICES ASSUME NEW d \in Events, NEW e \in Events, localIndex'[d] # -1,
                      localIndex'[d] = localIndex'[e], SameFunction(d, e), d # e
               PROVE  FALSE
    OBVIOUS
  <2>1. CASE d = i
    BY <2>1, <1>10, SameFunctionIsSymmetric
  <2>2. CASE e = i
    BY <2>2, <1>10
  <2>3. CASE d # i /\ e # i
    BY <2>3, <1>5, <1>9 DEF SlotsDiffer
  <2> QED BY <2>1, <2>2, <2>3
<1>12. \A d, j : SameFunction(d, j)' <=> SameFunction(d, j)
  BY <1>4 DEF SameFunction
<1>13. \A d : Declaration(d)' <=> Declaration(d)
  BY <1>4 DEF Declaration
<1>14. SlotsDiffer'
  BY <1>11, <1>12 DEF SlotsDiffer
<1>15. SlotsFollowWalk'
  <2>1. pos' - 1 = i
    BY <1>4, <1>0, <1>3, <1>1
  <2> QED BY <2>1, <1>4, <1>7, <1>8, <1>12, <1>13 DEF SlotsFollowWalk, SameFunction, Declaration
<1> QED BY <1>14, <1>15

\* An access to a name that has a holder, with the slots of the new state.
LEMMA NewAccess ==
  ASSUME IInv, TextInv, CodeInv, Generate,
         NEW op \in {"load", "store"}, NEW c,
         program[pos].parent # 0,
         op = "store" => program[pos].op \in {"declare", "assign"},
         NEW name \in Names,
         name = (IF op = "load" THEN program[pos].src ELSE program[pos].name),
         Holders(program[pos].parent, name) # {},
         c = Access(op, Resolve(program[pos].parent, name), localIndex', pos)
  PROVE  c \in AccessRecord /\ AccessInv(c)'
<1>0. PICK i \in 1..Len(program) : i = pos
  BY GenerateSlots
<1>1. PICK p \in Scopes : p = program[i].parent
  <2>1. program[i].parent \in 0..(i - 1)
    BY DEF TextInv, ChainsAreLexical, ChainIsLexical
  <2> QED BY <2>1, <1>0, GenerateSlots, MaxEventsIsNat DEF Events, Scopes
<1>2. PICK d \in Events : /\ d = Resolve(p, name)
                          /\ d \in 1..Len(program) /\ Declaration(d)
  BY <1>0, <1>1, ResolveFinds DEF TextInv, IInv
<1>3. localIndex' \in [Events -> {-1} \cup Nat]
  BY GenerateKeepsSlots
<1>4. /\ program' = program /\ chain' = chain /\ symbols' = symbols /\ pos' = i + 1
  BY <1>0 DEF Generate, Step
<1>5. c = [op |-> op, symbol |-> d, slot |-> localIndex'[d], at |-> i]
  BY <1>0, <1>1, <1>2 DEF Access
<1>6. c \in AccessRecord
  BY <1>0, <1>2, <1>3, <1>5, GenerateSlots DEF AccessRecord
<1>7. d <= i /\ program[d].parent # 0 => localIndex'[d] # -1
  <2> SUFFICES ASSUME d <= i, program[d].parent # 0 PROVE localIndex'[d] # -1
    OBVIOUS
  <2>1. \A x \in 1..(pos' - 1) :
          program'[x].op \in {"declare", "param"} /\ program'[x].parent # 0
            => localIndex'[x] # -1
    BY GenerateKeepsSlotsApart DEF SlotsFollowWalk, Declaration
  <2>2. d \in 1..(pos' - 1)
    BY <1>2, <1>4
  <2> QED BY <2>1, <2>2, <1>2, <1>4 DEF Declaration
<1>8. (IF c.op = "load" THEN program'[c.at].src ELSE program'[c.at].name) = name
  BY <1>0, <1>4, <1>5
<1>9. Holders(p, name)' = Holders(p, name)
  BY <1>4 DEF Holders
<1>10. Resolve(p, name)' = d
  BY <1>2, <1>4 DEF Resolve
<1>11. c.at = i /\ c.symbol = d /\ c.slot = localIndex'[d] /\ c.op = op
  BY <1>5
<1>12. program'[i].parent = p /\ p # 0
  BY <1>0, <1>1, <1>4
<1>13. NameOf(c)' = name
  BY <1>8 DEF NameOf
<1>14. Holders(p, name)' # {}
  BY <1>0, <1>1, <1>9
<1>15. op = "store" => program'[i].op \in {"declare", "assign"}
  BY <1>0, <1>4
<1>16. i \in 1..Len(program') /\ (program'[d].parent # 0 <=> program[d].parent # 0)
  BY <1>4
<1> QED BY <1>6, <1>7, <1>10, <1>11, <1>12, <1>13, <1>14, <1>15, <1>16 DEF AccessInv

\* An access stays right: its variable keeps the slot it has.
LEMMA OldAccess ==
  ASSUME IInv, CodeInv, TextInv, Generate, NEW c \in AccessRecord, AccessInv(c)
  PROVE  AccessInv(c)'
<1>1. program' = program /\ chain' = chain /\ symbols' = symbols
  BY DEF Generate
<1>2. c.slot # -1 => localIndex'[c.symbol] = localIndex[c.symbol]
  <2>1. localIndex \in [Events -> {-1} \cup Nat] /\ c.symbol \in Events
    BY DEF IInv, TypeOK, AccessRecord
  <2>2. c.slot # -1 => localIndex[c.symbol] # -1
    BY DEF AccessInv
  <2> QED BY <2>1, <2>2, GenerateSlots
<1> QED BY <1>1, <1>2 DEF AccessInv, NameOf, Holders, Resolve

\* The elements of two sequences joined are those of both.
LEMMA ConcatElements ==
  ASSUME NEW S, NEW a \in Seq(S), NEW b \in Seq(S)
  PROVE  /\ a \o b \in Seq(S)
         /\ \A k \in DOMAIN (a \o b) : \/ \E j \in DOMAIN a : (a \o b)[k] = a[j]
                                       \/ \E j \in DOMAIN b : (a \o b)[k] = b[j]
<1>1. a \o b \in Seq(S) /\ Len(a \o b) = Len(a) + Len(b)
  BY ConcatProperties
<1>2. \A k \in 1..(Len(a) + Len(b)) :
        (a \o b)[k] = IF k <= Len(a) THEN a[k] ELSE b[k - Len(a)]
  BY ConcatProperties
<1>3. /\ DOMAIN (a \o b) = 1..(Len(a) + Len(b))
      /\ DOMAIN a = 1..Len(a) /\ DOMAIN b = 1..Len(b)
      /\ Len(a) \in Nat /\ Len(b) \in Nat
  BY <1>1, LenProperties
<1>4. \A k \in 1..(Len(a) + Len(b)) : k <= Len(a) \/ k - Len(a) \in 1..Len(b)
  BY <1>3
<1> QED BY <1>1, <1>2, <1>3, <1>4

\* What the generator emits for an event names variables in reach of it.
LEMMA GenerateKeepsCode ==
  ASSUME IInv, TextInv, CodeInv, Generate
  PROVE  code' \in Seq(AccessRecord) /\ (\A k \in DOMAIN code : AccessInv(code[k]))'
<1> DEFINE st == program[pos]
           p == st.parent
           Right(s) == s \in Seq(AccessRecord) /\ \A k \in DOMAIN s : AccessInv(s[k])'
<1>1. pos \in 1..Len(program) /\ errors = {}
  BY GenerateSlots DEF CodeInv, Generate, Step, Generating
<1>2. PICK old : old = code
  OBVIOUS
<1>3. Right(old)
  <2>1. old \in Seq(AccessRecord) /\ \A k \in DOMAIN old : AccessInv(old[k])
    BY <1>2 DEF CodeInv
  <2>2. \A k \in DOMAIN old : old[k] \in AccessRecord
    BY <2>1
  <2> QED BY <2>1, <2>2, OldAccess
<1>4. CASE p = 0
  <2>1. code' = old
    BY <1>2, <1>4 DEF Generate, TreeScope
  <2> QED BY <2>1, <1>3
<1>5. CASE p # 0
  <2>1. PICK l : l = Loads(st, localIndex', pos)
    OBVIOUS
  <2>2. Right(l)
    <3>1. CASE st.src \notin Names
      BY <3>1, <2>1 DEF Loads
    <3>2. CASE st.src \in Names
      <4>1. PICK c : c = Access("load", Resolve(p, st.src), localIndex', pos)
        OBVIOUS
      <4>2. Holders(p, st.src) # {}
        BY <3>2, <1>1 DEF TextInv, NamesResolve
      <4>3. c \in AccessRecord /\ AccessInv(c)'
        BY <4>1, <4>2, <3>2, <1>5, NewAccess
      <4>4. l = <<c>>
        BY <4>1, <3>2, <2>1 DEF Loads, TreeScope
      <4> QED BY <4>3, <4>4
    <3> QED BY <3>1, <3>2
  <2>3. PICK s : s = Stores(st, Target(TreeScope(pos), st), localIndex', pos)
    OBVIOUS
  <2>4. Right(s)
    <3> DEFINE storing == st.op = "assign" \/ (st.op = "declare" /\ st.src # NoInit)
    <3>1. CASE ~storing
      BY <3>1, <2>3 DEF Stores
    <3>2. CASE storing
      <4>1. PICK c : c = Access("store", Resolve(p, st.name), localIndex', pos)
        OBVIOUS
      <4>2. Holders(p, st.name) # {} /\ st.name \in Names
        BY <3>2, <1>1, OwnDeclaration DEF TextInv, NamesResolve, NamesAreNames, Declaration
      <4>3. c \in AccessRecord /\ AccessInv(c)'
        BY <4>1, <4>2, <3>2, <1>5, NewAccess
      <4>4. s = <<c>>
        BY <4>1, <3>2, <2>3 DEF Stores, Target, TreeScope
      <4> QED BY <4>3, <4>4
    <3> QED BY <3>1, <3>2
  <2>5. code' = (old \o l) \o s
    BY <1>2, <1>5, <2>1, <2>3 DEF Generate, TreeScope
  <2> HIDE DEF st, p
  <2>6. Right(old \o l)
    BY <1>3, <2>2, ConcatElements
  <2>7. PICK ol : ol = old \o l
    OBVIOUS
  <2>8. Right(ol \o s)
    BY <2>4, <2>6, <2>7, ConcatElements
  <2> QED BY <2>5, <2>7, <2>8
<1> QED BY <1>4, <1>5

-----------------------------------------------------------------------------
(* The invariant of the whole walk.                                        *)

SInv == IInv /\ TextInv /\ CodeInv

\* The initial states satisfy the invariant of the slots.
LEMMA InitSInv == Init => SInv
<1> SUFFICES ASSUME Init PROVE SInv
  OBVIOUS
<1>1. phase = "collect" /\ code = <<>> /\ localIndex = [e \in Events |-> -1]
  BY DEF Init
<1>2. CodeInv
  BY <1>1 DEF CodeInv, Generating
<1> QED BY <1>2, InitIInv, InitTextInv DEF SInv

\* Before the generator runs there are no slots and no code.
LEMMA EarlierPassKeepsCodeInv ==
  ASSUME CodeInv, phase \notin Generating, phase' \notin Generating,
         localIndex' = localIndex, code' = code
  PROVE  CodeInv'
<1>1. code' = <<>> /\ localIndex' = [e \in Events |-> -1] /\ phase' # "generate"
  BY DEF CodeInv, Generating
<1> QED BY <1>1 DEF CodeInv

\* The generator starts with no slot given out.
LEMMA GeneratorStarts ==
  ASSUME CodeInv, phase = "define", phase' = "generate", pos' = 1, errors' = {},
         localIndex' = localIndex, code' = code
  PROVE  CodeInv'
<1>1. code' = <<>> /\ localIndex' = [e \in Events |-> -1]
  BY DEF CodeInv, Generating
<1>2. SlotsFollowWalk'
  BY <1>1 DEF SlotsFollowWalk
<1>3. SlotsDiffer'
  BY <1>1 DEF SlotsDiffer
<1> QED BY <1>1, <1>2, <1>3 DEF CodeInv, Generating

\* Once it has finished, code and slots stay.
LEMMA FinishedKeepsCodeInv ==
  ASSUME CodeInv, UNCHANGED <<program, chain, symbols, localIndex, code, errors>>,
         \/ phase = "generate" /\ phase' = "finished"
         \/ UNCHANGED <<phase, pos, nextLocal>>
  PROVE  CodeInv'
<1>1. (\A k \in DOMAIN code : AccessInv(code[k]))'
  <2>1. ASSUME NEW c, AccessInv(c) PROVE AccessInv(c)'
    BY <2>1 DEF AccessInv, NameOf, Holders, Resolve
  <2>2. PICK old : old = code
    OBVIOUS
  <2>3. \A k \in DOMAIN old : AccessInv(old[k])
    BY <2>2 DEF CodeInv
  <2>4. \A k \in DOMAIN old : AccessInv(old[k])'
    BY <2>1, <2>3
  <2> QED BY <2>2, <2>4
<1>2. SlotsDiffer => SlotsDiffer'
  BY DEF SlotsDiffer, SameFunction
<1>3. UNCHANGED <<pos, nextLocal>> => (SlotsFollowWalk => SlotsFollowWalk')
  BY DEF SlotsFollowWalk, SameFunction, Declaration
<1> QED BY <1>1, <1>2, <1>3 DEF CodeInv, Generating

\* Every step of every pass keeps the invariant of the slots.
LEMMA NextKeepsSInv == SInv /\ [Next]_vars => SInv'
<1> SUFFICES ASSUME SInv, [Next]_vars PROVE SInv'
  OBVIOUS
<1>1. IInv' /\ TextInv'
  BY NextKeepsIInv, NextKeepsTextInv DEF SInv
<1> SUFFICES CodeInv'
  BY <1>1 DEF SInv
<1> USE DEF Generating
<1>2. CASE \E op \in {"function", "block"} : CollectEnter(op)
  BY <1>2, EarlierPassKeepsCodeInv DEF CollectEnter, Collecting, SInv
<1>3. CASE CollectExit
  BY <1>3, EarlierPassKeepsCodeInv DEF CollectExit, SInv
<1>4. CASE \E st \in Statements :
             CollectDeclare(st) \/ CollectParam(st) \/ CollectReference(st)
  BY <1>4, EarlierPassKeepsCodeInv
     DEF CollectDeclare, CollectParam, CollectReference, Collecting, SInv
<1>5. CASE CollectDone \/ CheckDone
  BY <1>5, EarlierPassKeepsCodeInv DEF CollectDone, CheckDone, StartPass, SInv
<1>6. CASE Check \/ Define
  BY <1>6, EarlierPassKeepsCodeInv DEF Check, Define, Step, SInv
<1>7. CASE DefineDone
  BY <1>7, EarlierPassKeepsCodeInv, GeneratorStarts DEF DefineDone, StartPass, SInv
<1>8. CASE Generate
  <2>1. SlotsFollowWalk' /\ SlotsDiffer'
    BY <1>8, GenerateKeepsSlotsApart DEF SInv
  <2>2. code' \in Seq(AccessRecord) /\ (\A k \in DOMAIN code : AccessInv(code[k]))'
    BY <1>8, GenerateKeepsCode DEF SInv
  <2>3. phase' = "generate" /\ errors' = {}
    BY <1>8 DEF Generate, Step, SInv, CodeInv
  <2> QED BY <2>1, <2>2, <2>3 DEF CodeInv
<1>9. CASE GenerateDone
  BY <1>9, FinishedKeepsCodeInv DEF GenerateDone, StartPass, SInv
<1>10. CASE UNCHANGED vars
  BY <1>10, FinishedKeepsCodeInv DEF vars, SInv
<1> QED BY <1>2, <1>3, <1>4, <1>5, <1>6, <1>7, <1>8, <1>9, <1>10 DEF Next, Collect

\* The invariant above holds of every reachable state.
THEOREM SlotInvariant == Spec => []SInv
<1> QED BY InitSInv, NextKeepsSInv, PTL DEF Spec

-----------------------------------------------------------------------------
(* What the invariant says of an access.                                   *)

\* The variable of an access is declared in a scope around the access, and in
\* the function of the access unless that scope is the program's.
LEMMA AccessedVariable ==
  ASSUME SInv, NEW c \in AccessRecord, AccessInv(c)
  PROVE  LET m == program[c.symbol].parent IN
         /\ c.symbol \in 1..Len(program) /\ Declaration(c.symbol)
         /\ program[c.symbol].name = NameOf(c)
         /\ m \in Scopes /\ m < c.at /\ Inside(m, c.at)
         /\ m # 0 => SameFunction(c.symbol, c.at)
         /\ \A s \in Holders(program[c.at].parent, NameOf(c)) : s <= m
         /\ symbols[m][NameOf(c)] = c.symbol
<1>1. PICK i \in 1..Len(program) : i = c.at
  BY DEF AccessInv
<1> DEFINE p == program[i].parent
           m == program[c.symbol].parent
<1>2. Len(program) \in Nat /\ Len(program) <= MaxEvents
  BY DEF SInv, IInv, TypeOK
<1>3. ChainIsLexical(i)
  BY DEF SInv, TextInv, ChainsAreLexical
<1>4. p \in 0..(i - 1) /\ p \in Scopes
  BY <1>2, <1>3, MaxEventsIsNat DEF ChainIsLexical, Scopes
<1>5. /\ c.symbol \in 1..Len(program) /\ Declaration(c.symbol)
      /\ program[c.symbol].name = NameOf(c)
      /\ m \in chain[p] /\ symbols[m][NameOf(c)] = c.symbol
      /\ \A s \in Holders(p, NameOf(c)) : s <= m
  BY <1>1, <1>4, ResolveFinds DEF SInv, TextInv, IInv, AccessInv
<1>6. m \in Scopes /\ m <= p /\ Inside(m, i)
  BY <1>3, <1>4, <1>5 DEF ChainIsLexical, SInv, IInv, TypeOK
<1>7. m # 0 => SameFunction(m, i)
  BY <1>3, <1>5 DEF ChainIsLexical
<1>8. m # 0 => SameFunction(m, c.symbol)
  <2>1. ChainIsLexical(c.symbol)
    BY <1>5 DEF SInv, TextInv, ChainsAreLexical
  <2> QED BY <2>1 DEF ChainIsLexical
<1>9. m # 0 => SameFunction(c.symbol, i)
  BY <1>7, <1>8 DEF SameFunction
<1>10. m < i
  BY <1>4, <1>6, <1>2, MaxEventsIsNat DEF Scopes
<1> QED BY <1>1, <1>5, <1>6, <1>9, <1>10

\* An event inside a function is in the one FunctionOf names.
LEMMA FunctionOfAccess ==
  ASSUME SInv, NEW i \in 1..Len(program), program[i].parent # 0
  PROVE  FunctionOf(i) \in 1..i /\ SameFunction(FunctionOf(i), i)
<1> DEFINE p == program[i].parent
           F == {f \in 1..i : program[f].op = "function"}
<1>1. ChainIsLexical(i) /\ Len(program) \in Nat
  BY DEF SInv, IInv, TypeOK, TextInv, ChainsAreLexical
<1>2. p \in 0..(i - 1) /\ p \in Scopes
  BY <1>1, MaxEventsIsNat DEF ChainIsLexical, Scopes, SInv, IInv, TypeOK
<1>3. PICK g \in chain[p] \ {0} : program[g].op = "function" /\ SameFunction(g, i) /\ g <= p
  BY <1>1 DEF ChainIsLexical
<1>4. g \in 1..i
  BY <1>2, <1>3, MaxEventsIsNat DEF SInv, IInv, TypeOK, Scopes
<1>5. \A f \in F : f <= g
  BY <1>1, <1>3, <1>4 DEF SameFunction
<1>6. Greatest(F) = g
  <2>1. g \in F /\ F \subseteq Int
    BY <1>3, <1>4
  <2> HIDE DEF F
  <2> QED BY <2>1, <1>5, GreatestIs
<1> QED BY <1>3, <1>4, <1>6 DEF FunctionOf

\* In a program that declares no name late, what an access loads or stores was
\* declared before it.
LEMMA DeclaredBefore ==
  ASSUME SInv, ~LateShadow, errors = {}, NEW c \in AccessRecord, AccessInv(c)
  PROVE  c.symbol <= c.at
<1>1. /\ c.at \in 1..Len(program) /\ c.symbol \in 1..Len(program)
      /\ Len(program) \in Nat /\ DOMAIN program = 1..Len(program)
  <2>1. program \in Seq(EventRecord)
    BY DEF SInv, IInv, TypeOK
  <2> QED BY <2>1, AccessedVariable DEF AccessInv
<1>2. CASE c.op = "store" /\ program[c.at].op = "declare"
  <2>1. c.symbol = c.at
    BY <1>1, <1>2, OwnDeclaration DEF SInv, AccessInv, NameOf, Declaration
  <2> QED BY <2>1, <1>1
<1>3. CASE c.op = "load" \/ program[c.at].op = "assign"
  <2> SUFFICES ASSUME c.at < c.symbol PROVE FALSE
    BY <1>1
  <2>1. /\ c.symbol \in Declarations /\ c.at \in DOMAIN program
        /\ Inside(program[c.symbol].parent, c.at) /\ program[c.symbol].parent < c.at
    BY <1>1, AccessedVariable DEF Declarations, Declaration
  <2>2. \/ program[c.at].op \in {"assign"} /\ program[c.at].name = program[c.symbol].name
        \/ program[c.at].src = program[c.symbol].name
    BY <1>3, AccessedVariable DEF NameOf
  <2> QED BY <2>1, <2>2 DEF LateShadow
<1> QED BY <1>2, <1>3 DEF AccessInv, AccessRecord

-----------------------------------------------------------------------------
(* The properties.                                                         *)

\* The generator's loads and stores are of the variables lexical scoping
\* names, for programs of any size, shadowing or not, as long as no name is
\* declared in a scope that has used it before.
THEOREM CodeIsLexical == Spec => []CodeUsesLexicalVariables
<1>1. SInv => CodeUsesLexicalVariables
  <2> SUFFICES ASSUME SInv, Accepted, ~LateShadow, NEW k \in DOMAIN code
               PROVE  code[k].symbol =
                        (IF code[k].op = "load"
                         THEN Lexical(program[code[k].at].src, code[k].at)
                         ELSE Lexical(program[code[k].at].name, code[k].at))
    BY DEF CodeUsesLexicalVariables
  <2>1. PICK c \in AccessRecord : c = code[k] /\ AccessInv(c)
    BY DEF SInv, CodeInv
  <2>2. errors = {}
    BY DEF SInv, CodeInv, Accepted, Generating
  <2> DEFINE name == NameOf(c)
             i == c.at
             d == c.symbol
             m == program[d].parent
  <2>3. /\ d \in 1..Len(program) /\ Declaration(d) /\ program[d].name = name
        /\ m \in Scopes /\ Inside(m, i) /\ symbols[m][name] = d
        /\ \A s \in Holders(program[i].parent, name) : s <= m
    BY <2>1, AccessedVariable
  <2>4. d <= i
    BY <2>1, <2>2, DeclaredBefore
  <2>5. i \in 1..Len(program) /\ name \in Names /\ DOMAIN program = 1..Len(program)
    BY <2>1 DEF AccessInv, SInv, IInv, TypeOK
  <2>6. d \in Visible(name, i)
    BY <2>3, <2>4, <2>5 DEF Visible, Declarations, Declaration
  <2>7. ASSUME NEW o \in Visible(name, i)
        PROVE  program[o].parent \in Int /\ program[o].parent <= m
               /\ (program[o].parent = m => o = d)
    <3> DEFINE q == program[o].parent
    <3>1. /\ o \in 1..Len(program) /\ Declaration(o) /\ program[o].name = name
          /\ Inside(q, i)
      BY <2>5 DEF Visible, Declarations, Declaration
    <3>2. q \in Scopes
      <4>1. q \in 0..(o - 1)
        BY <3>1 DEF SInv, TextInv, ChainsAreLexical, ChainIsLexical
      <4> QED BY <4>1, <3>1, MaxEventsIsNat DEF Scopes, SInv, IInv, TypeOK
    <3>3. q \in chain[program[i].parent]
      BY <2>5, <3>1, <3>2 DEF SInv, TextInv, ChainsAreLexical, ChainIsLexical
    <3>4. symbols[q][name] = o /\ o # 0
      BY <2>2, <3>1 DEF SInv, TextInv, NamesResolve
    <3>5. q <= m
      BY <2>3, <3>3, <3>4 DEF Holders
    <3> QED BY <2>3, <3>2, <3>4, <3>5, MaxEventsIsNat DEF Scopes
  <2> HIDE DEF name, i, d, m
  <2>8. Lexical(name, i) = d
    <3>1. m \in Int /\ m = program[d].parent
      BY <2>3, MaxEventsIsNat DEF Scopes, m
    <3>2. \A x \in Visible(name, i) :
            (\A o \in Visible(name, i) : program[o].parent <= program[x].parent) <=> x = d
      BY <2>6, <2>7, <3>1
    <3> QED BY <2>6, <3>2 DEF Lexical
  <2> QED BY <2>1, <2>8 DEF NameOf, name, i, d
<1> QED BY <1>1, SlotInvariant, PTL

\* Two variables of one function never share a slot, and a variable has the
\* same slot wherever its function uses it.
THEOREM SlotsDistinct == Spec => []SlotsAreDistinct
<1>1. SInv => SlotsAreDistinct
  <2> SUFFICES ASSUME SInv, NEW k \in DOMAIN code, NEW l \in DOMAIN code,
                      program[code[k].symbol].parent # 0,
                      program[code[l].symbol].parent # 0,
                      FunctionOf(code[k].at) = FunctionOf(code[l].at),
                      code[k].slot # -1, code[l].slot # -1
               PROVE  code[k].slot = code[l].slot <=> code[k].symbol = code[l].symbol
    BY DEF SlotsAreDistinct
  <2>1. PICK a \in AccessRecord : a = code[k] /\ AccessInv(a)
    BY DEF SInv, CodeInv
  <2>2. PICK b \in AccessRecord : b = code[l] /\ AccessInv(b)
    BY DEF SInv, CodeInv
  <2>3. SlotsDiffer
    BY <2>1 DEF SInv, CodeInv
  <2>4. a.slot = localIndex[a.symbol] /\ b.slot = localIndex[b.symbol]
    BY <2>1, <2>2 DEF AccessInv
  <2>5. SameFunction(a.symbol, a.at) /\ SameFunction(b.symbol, b.at)
    BY <2>1, <2>2, AccessedVariable
  <2>6. /\ SameFunction(FunctionOf(a.at), a.at)
        /\ SameFunction(FunctionOf(a.at), b.at)
    BY <2>1, <2>2, FunctionOfAccess DEF AccessInv
  <2>7. SameFunction(a.symbol, b.symbol)
    BY <2>5, <2>6 DEF SameFunction
  <2>8. a.symbol \in Events /\ b.symbol \in Events
    BY DEF AccessRecord
  <2> QED BY <2>1, <2>2, <2>3, <2>4, <2>7, <2>8 DEF SlotsDiffer
<1> QED BY <1>1, SlotInvariant, PTL

\* A variable local to a function has its slot before any load or store of it,
\* in programs that declare no name late.
THEOREM SlotsAllocated == Spec => []SlotsAreAllocated
<1>1. SInv => SlotsAreAllocated
  <2> SUFFICES ASSUME SInv, ~LateShadow, NEW k \in DOMAIN code,
                      program[code[k].symbol].parent # 0
               PROVE  code[k].slot # -1
    BY DEF SlotsAreAllocated, Unallocated
  <2>1. PICK c \in AccessRecord : c = code[k] /\ AccessInv(c)
    BY DEF SInv, CodeInv
  <2>2. errors = {}
    BY DEF SInv, CodeInv
  <2>3. c.symbol <= c.at
    BY <2>1, <2>2, DeclaredBefore
  <2> QED BY <2>1, <2>3 DEF AccessInv
<1> QED BY <1>1, SlotInvariant, PTL

-----------------------------------------------------------------------------
(* The reference, event by event.                                          *)

NewName(i) ==
  Declaration(i) => \A d \in 1..(i - 1) :
    ~(/\ Declaration(d) /\ program[d].name = program[i].name
      /\ program[d].parent = program[i].parent)

GoodAt(i) ==
  /\ NewName(i)
  /\ Reads(i) => Visible(program[i].src, i) # {}
  /\ program[i].op = "assign" => Visible(program[i].name, i) # {}

TypedAt(i) ==
  /\ (program[i].op = "declare" /\ program[i].src # NoInit) =>
       TypeRead(i) = program[i].type
  /\ program[i].op = "assign" =>
       TypeRead(i) = TypeOfSymbol(Lexical(program[i].name, i))

DefinedAt(i) ==
  Reads(i) =>
    LET d == Lexical(program[i].src, i) IN
      d # 0 => \E w \in 1..i : Writes(w, d) /\ (w = i => SelfInit(i))

Good == \A i \in 1..Len(program) : GoodAt(i)
Typed == \A i \in 1..Len(program) : TypedAt(i)
Defined == \A i \in 1..Len(program) : DefinedAt(i)

Initialised(d) ==
  program[d].op = "param" \/ (program[d].op = "declare" /\ program[d].src # NoInit)

-----------------------------------------------------------------------------
(* The invariant.                                                          *)

AllDeclared ==
  \A i \in 1..Len(program) :
    Declaration(i) => symbols[program[i].parent][program[i].name] # 0

ScopeChains ==
  \A c \in 1..Len(program) :
    OpensScope(c) => chain[c] = chain[program[c].parent] \cup {c}

ParamsReadNothing ==
  \A i \in 1..Len(program) : program[i].op = "param" => program[i].src = NoInit

\* A checking pass is in the scope it has entered last.
CurrentIsLast ==
  /\ currentScope \in 0..(pos - 1)
  /\ currentScope # 0 => OpensScope(currentScope)
  /\ \A s \in 1..(pos - 1) : s <= Len(program) /\ OpensScope(s) => s <= currentScope

AssignedBefore(d, i) ==
  \E w \in 1..(i - 1) : program[w].op = "assign" /\ Lexical(program[w].name, w) = d

InitsDefined ==
  \A d \in Events : isDefined[d] <=> (d <= Len(program) /\ Initialised(d))

WritesDefined ==
  \A d \in Events :
    isDefined[d] <=> \/ d <= Len(program) /\ Initialised(d)
                     \/ AssignedBefore(d, pos)

AcceptInv ==
  /\ AllDeclared /\ ScopeChains /\ ParamsReadNothing
  /\ phase = "collect" => (errors = {} <=> Good)
  /\ phase \in {"collect", "check"} /\ errors = {} => InitsDefined
  /\ phase \in {"check", "define"} => CurrentIsLast
  /\ ~Shadows =>
       /\ phase = "check" => (errors = {} <=> Good /\ \A i \in 1..(pos - 1) : TypedAt(i))
       /\ phase = "define" =>
            /\ errors = {} <=> Good /\ Typed /\ \A i \in 1..(pos - 1) : DefinedAt(i)
            /\ errors = {} => WritesDefined
       /\ phase \in Generating => Good /\ Typed /\ Defined
       /\ phase = "rejected" => ~(Good /\ Typed /\ Defined)

-----------------------------------------------------------------------------
(* The first pass: one more event.                                         *)

\* At the last event a name is visible just if a scope around it holds it.
LEMMA HeldIsVisible ==
  TypeOK /\ TextInv /\ AllDeclared /\ Len(program) # 0 =>
    \A m \in Names :
      Visible(m, Len(program)) # {} <=>
        \E s \in chain[program[Len(program)].parent] : symbols[s][m] # 0
<1> SUFFICES ASSUME TypeOK, TextInv, AllDeclared, Len(program) # 0, NEW m \in Names
             PROVE  Visible(m, Len(program)) # {} <=>
                      \E s \in chain[program[Len(program)].parent] : symbols[s][m] # 0
  OBVIOUS
<1>1. PICK n \in Nat : n = Len(program) /\ n \in 1..n /\ DOMAIN program = 1..n
  BY DEF TypeOK
<1> DEFINE p == program[n].parent
<1>2. ChainIsLexical(n) /\ n <= MaxEvents
  BY <1>1 DEF TextInv, ChainsAreLexical, TypeOK
<1>3. p \in Scopes /\ chain[p] \subseteq Scopes
  <2>1. p \in 0..(n - 1)
    BY <1>2 DEF ChainIsLexical
  <2>2. p \in Scopes
    BY <2>1, <1>1, <1>2, MaxEventsIsNat DEF Scopes
  <2> HIDE DEF p
  <2> QED BY <2>2 DEF TypeOK
<1>4. ASSUME NEW d \in Visible(m, n)
      PROVE  \E s \in chain[p] : symbols[s][m] # 0
  <2>1. d \in 1..n /\ Declaration(d) /\ program[d].name = m /\ Inside(program[d].parent, n)
    BY <1>1 DEF Visible, Declarations, Declaration
  <2>2. program[d].parent \in Scopes
    <3>1. program[d].parent \in 0..(d - 1)
      BY <1>1, <2>1 DEF TextInv, ChainsAreLexical, ChainIsLexical
    <3> QED BY <3>1, <2>1, <1>1, <1>2, MaxEventsIsNat DEF Scopes
  <2>3. program[d].parent \in chain[p]
    BY <1>2, <2>1, <2>2 DEF ChainIsLexical
  <2>4. symbols[program[d].parent][m] # 0
    BY <1>1, <2>1 DEF AllDeclared
  <2> QED BY <2>3, <2>4
<1>5. ASSUME NEW s \in chain[p], symbols[s][m] # 0
      PROVE  symbols[s][m] \in Visible(m, n)
  <2> DEFINE d == symbols[s][m]
  <2>1. s \in Scopes /\ Inside(s, n)
    BY <1>2, <1>3 DEF ChainIsLexical
  <2>2. d \in 1..n
    BY <2>1, <1>1, <1>5 DEF TypeOK
  <2>3. Declaration(d) /\ program[d].parent = s /\ program[d].name = m
    BY <2>1, <1>5 DEF TextInv, SymbolsAreDeclared
  <2> QED BY <1>1, <2>1, <2>2, <2>3 DEF Visible, Declarations, Declaration
<1> QED BY <1>1, <1>4, <1>5

\* What is visible at an event does not depend on the events after it.
LEMMA OldGood ==
  ASSUME IInv, TextInv, NEW n \in Nat, n = Len(program), Len(program') = n + 1,
         program' \in Seq(EventRecord), \A i \in 1..n : program'[i] = program[i],
         NEW i \in 1..n
  PROVE  GoodAt(i)' <=> GoodAt(i)
<1>1. program \in Seq(EventRecord) /\ n <= MaxEvents
      /\ DOMAIN program = 1..n /\ DOMAIN program' = 1..(n + 1)
  BY DEF IInv, TypeOK
<1>2. \A s \in Scopes : Inside(s, i)' <=> Inside(s, i)
  BY <1>1, OldText
<1>3. \A d \in 1..n : program[d].parent \in Scopes
  <2>1. \A d \in 1..n : program[d].parent \in 0..(d - 1)
    BY DEF TextInv, ChainsAreLexical, ChainIsLexical
  <2> QED BY <2>1, <1>1, MaxEventsIsNat DEF Scopes
<1>4. ASSUME NEW m PROVE Visible(m, i)' = Visible(m, i)
  <2>1. \A d \in 1..n : Inside(program[d].parent, i)' <=> Inside(program[d].parent, i)
    <3> SUFFICES ASSUME NEW d \in 1..n
                 PROVE  Inside(program[d].parent, i)' <=> Inside(program[d].parent, i)
      OBVIOUS
    <3>1. PICK s \in Scopes : s = program[d].parent /\ s = program'[d].parent
      BY <1>3
    <3>2. Inside(program[d].parent, i)' <=> Inside(s, i)'
      BY <3>1 DEF Inside
    <3>3. Inside(program[d].parent, i) <=> Inside(s, i)
      BY <3>1
    <3> QED BY <3>2, <3>3, <1>2
  <2>2. Visible(m, i)' = {d \in 1..n : /\ program[d].op \in {"declare", "param"}
                                       /\ d <= i /\ program[d].name = m
                                       /\ Inside(program[d].parent, i)'}
    BY <1>1 DEF Visible, Declarations
  <2>3. Visible(m, i) = {d \in 1..n : /\ program[d].op \in {"declare", "param"}
                                      /\ d <= i /\ program[d].name = m
                                      /\ Inside(program[d].parent, i)}
    BY <1>1 DEF Visible, Declarations
  <2> QED BY <2>1, <2>2, <2>3
<1>5. NewName(i)' <=> NewName(i)
  BY <1>1 DEF NewName, Declaration
<1>6. Visible(program[i].src, i)' = Visible(program[i].src, i)
  <2>1. PICK m : m = program[i].src /\ m = program'[i].src
    OBVIOUS
  <2>2. Visible(program[i].src, i)' = Visible(m, i)'
    BY <2>1 DEF Visible, Declarations, Inside
  <2> QED BY <2>1, <2>2, <1>4
<1>7. Visible(program[i].name, i)' = Visible(program[i].name, i)
  <2>1. PICK m : m = program[i].name /\ m = program'[i].name
    OBVIOUS
  <2>2. Visible(program[i].name, i)' = Visible(m, i)'
    BY <2>1 DEF Visible, Declarations, Inside
  <2> QED BY <2>1, <2>2, <1>4
<1>8. (Reads(i)' <=> Reads(i)) /\ program'[i].op = program[i].op
  BY DEF Reads
<1> QED BY <1>5, <1>6, <1>7, <1>8 DEF GoodAt

\* The conditions under which a new event is reported.
NewGood(e) ==
  /\ e.op \in {"declare", "param"} => symbols[Enclosing][e.name] = 0
  /\ e.op = "assign" => \E s \in chain'[Enclosing] : symbols'[s][e.name] # 0
  /\ e.src \in Names => \E s \in chain'[Enclosing] : symbols'[s][e.src] # 0

\* One more event: an error is reported just if the event is not good.
LEMMA AppendKeepsGood ==
  ASSUME IInv, TextInv, AcceptInv, IInv', TextInv', AllDeclared',
         phase = "collect", Len(program) < MaxEvents,
         NEW e \in EventRecord, e.parent = Enclosing,
         program' = Append(program, e),
         errors' = {} <=> errors = {} /\ NewGood(e)
  PROVE  errors' = {} <=> Good'
<1>0. PICK n \in Nat : n = Len(program)
  BY DEF IInv, TypeOK
<1>1. /\ program \in Seq(EventRecord) /\ program' \in Seq(EventRecord)
      /\ Len(program') = n + 1
      /\ \A i \in 1..n : program'[i] = program[i]
      /\ program'[n + 1] = e
  BY <1>0, AppendEvent DEF IInv, TypeOK
<1>2. \A i \in 1..n : GoodAt(i)' <=> GoodAt(i)
  BY <1>0, <1>1, OldGood
<1>3. PICK p \in Scopes : p = Enclosing
  BY OpenEvents
<1>4. \A m \in Names :
        Visible(m, n + 1)' # {} <=> \E s \in chain'[p] : symbols'[s][m] # 0
  <2>1. (TypeOK /\ TextInv /\ AllDeclared /\ Len(program) # 0)' =>
          (\A m \in Names :
             Visible(m, Len(program)) # {} <=>
               \E s \in chain[program[Len(program)].parent] : symbols[s][m] # 0)'
    BY HeldIsVisible, PTL
  <2>2. (TypeOK /\ TextInv /\ AllDeclared /\ Len(program) # 0)'
    BY <1>1 DEF IInv
  <2>3. program'[Len(program')].parent = p
    BY <1>1, <1>3
  <2>4. \A m : Visible(m, Len(program))' = Visible(m, n + 1)'
    BY <1>1 DEF Visible, Declarations, Inside
  <2> QED BY <2>1, <2>2, <2>3, <2>4
<1>5. NewName(n + 1)' <=>
        (e.op \in {"declare", "param"} /\ e.name \in Names => symbols[p][e.name] = 0)
  <2>1. NewName(n + 1)' <=>
          (e.op \in {"declare", "param"} =>
             \A d \in 1..n : ~(/\ Declaration(d) /\ program[d].name = e.name
                               /\ program[d].parent = p))
    BY <1>1, <1>3 DEF NewName, Declaration
  <2>2. ASSUME e.name \in Names
        PROVE  symbols[p][e.name] = 0 <=>
                 \A d \in 1..n : ~(/\ Declaration(d) /\ program[d].name = e.name
                                   /\ program[d].parent = p)
    <3>1. symbols[p][e.name] # 0 => symbols[p][e.name] \in 1..n
      BY <1>0, <1>3, <2>2, SMTT(30) DEF IInv, TypeOK
    <3>2. symbols[p][e.name] # 0 =>
            /\ Declaration(symbols[p][e.name]) /\ program[symbols[p][e.name]].parent = p
            /\ program[symbols[p][e.name]].name = e.name
      BY <1>3, <2>2 DEF TextInv, SymbolsAreDeclared
    <3>3. \A d \in 1..n : Declaration(d) => symbols[program[d].parent][program[d].name] # 0
      BY <1>0 DEF AcceptInv, AllDeclared
    <3> QED BY <3>1, <3>2, <3>3
  <2>3. e.op \in {"declare", "param"} => e.name \in Names
    <3>1. program'[n + 1].op \in {"declare", "param", "assign"} => program'[n + 1].name \in Names
      BY <1>0, <1>1 DEF TextInv, NamesAreNames
    <3> QED BY <3>1, <1>1
  <2> QED BY <2>1, <2>2, <2>3
<1>6. e.op \in {"declare", "param", "assign"} => e.name \in Names
  <2>1. program'[n + 1].op \in {"declare", "param", "assign"} => program'[n + 1].name \in Names
    BY <1>0, <1>1 DEF TextInv, NamesAreNames
  <2> QED BY <2>1, <1>1
<1>7. GoodAt(n + 1)' <=> NewGood(e)
  <2>1. Reads(n + 1)' <=> e.src \in Names
    BY <1>1 DEF Reads
  <2>2. Visible(program[n + 1].src, n + 1)' = Visible(e.src, n + 1)'
    BY <1>1 DEF Visible, Declarations, Inside
  <2>3. Visible(program[n + 1].name, n + 1)' = Visible(e.name, n + 1)'
    BY <1>1 DEF Visible, Declarations, Inside
  <2>4. program'[n + 1].op = e.op
    BY <1>1
  <2> QED BY <2>1, <2>2, <2>3, <2>4, <1>3, <1>4, <1>5, <1>6 DEF GoodAt, NewGood
<1>8. Good' <=> Good /\ GoodAt(n + 1)'
  BY <1>0, <1>1, <1>2 DEF Good
<1> QED BY <1>7, <1>8 DEF AcceptInv

\* What the first pass does to isDefined, in programs without errors.
LEMMA AppendKeepsInits ==
  ASSUME IInv, AcceptInv, phase = "collect", Len(program) < MaxEvents,
         NEW e \in EventRecord, program' = Append(program, e),
         errors' = {} => errors = {},
         errors' = {} =>
           isDefined' = IF e.op = "param" \/ (e.op = "declare" /\ e.src # NoInit)
                        THEN [isDefined EXCEPT ![Len(program) + 1] = TRUE]
                        ELSE isDefined
  PROVE  errors' = {} => InitsDefined'
<1> SUFFICES ASSUME errors' = {} PROVE InitsDefined'
  OBVIOUS
<1>0. PICK n \in Nat : n = Len(program)
  BY DEF IInv, TypeOK
<1>1. /\ Len(program') = n + 1 /\ n + 1 \in Events
      /\ \A i \in 1..n : program'[i] = program[i]
      /\ program'[n + 1] = e
  BY <1>0, AppendEvent DEF IInv, TypeOK
<1>2. isDefined \in [Events -> BOOLEAN]
  BY DEF IInv, TypeOK
<1>3. \A d \in Events : isDefined[d] <=> (d <= n /\ Initialised(d))
  BY <1>0 DEF AcceptInv, InitsDefined
<1>4. \A d \in Events : d \in Nat /\ d >= 1
  BY DEF Events
<1>5. ASSUME NEW d \in Events
      PROVE  isDefined'[d] <=> (d <= n + 1 /\ Initialised(d)')
  <2>1. CASE d = n + 1
    <3>1. ~isDefined[d] /\ (Initialised(d)' <=> e.op = "param" \/ (e.op = "declare" /\ e.src # NoInit))
      BY <2>1, <1>1, <1>3 DEF Initialised
    <3> QED BY <2>1, <3>1, <1>0, <1>1, <1>2
  <2>2. CASE d # n + 1
    <3>1. isDefined'[d] = isDefined[d]
      BY <2>2, <1>0, <1>1, <1>2
    <3>2. d <= n => (Initialised(d)' <=> Initialised(d))
      BY <1>1, <1>4 DEF Initialised
    <3> QED BY <2>2, <3>1, <3>2, <1>3, <1>4
  <2> QED BY <2>1, <2>2
<1> QED BY <1>1, <1>5 DEF InitsDefined

\* A scope that opens is reached from itself, and what its parent reaches.
LEMMA AppendKeepsScopeChains ==
  ASSUME IInv, TextInv, AcceptInv, phase = "collect", Len(program) < MaxEvents,
         NEW e \in EventRecord, program' = Append(program, e),
         e.parent = Enclosing,
         \A s \in 0..Len(program) : chain'[s] = chain[s],
         e.op \in {"function", "block"} =>
           chain'[Len(program) + 1] = chain[Enclosing] \cup {Len(program) + 1}
  PROVE  ScopeChains'
<1>0. PICK n \in Nat : n = Len(program)
  BY DEF IInv, TypeOK
<1>1. /\ Len(program') = n + 1
      /\ \A i \in 1..n : program'[i] = program[i]
      /\ program'[n + 1] = e
  BY <1>0, AppendEvent DEF IInv, TypeOK
<1>2. Enclosing \in 0..n
  BY <1>0, OpenEvents
<1>3. ASSUME NEW c \in 1..n, OpensScope(c)' PROVE chain'[c] = chain'[program'[c].parent] \cup {c}
  <2>1. program[c].parent \in 0..(c - 1)
    BY <1>0 DEF TextInv, ChainsAreLexical, ChainIsLexical
  <2>2. chain[c] = chain[program[c].parent] \cup {c}
    BY <1>0, <1>1, <1>3 DEF AcceptInv, ScopeChains, OpensScope
  <2> QED BY <2>1, <2>2, <1>0, <1>1
<1>4. OpensScope(n + 1)' => chain'[n + 1] = chain'[program'[n + 1].parent] \cup {n + 1}
  BY <1>0, <1>1, <1>2 DEF OpensScope
<1> QED BY <1>1, <1>3, <1>4 DEF ScopeChains

\* A declaration leaves a symbol in its scope, its own or an earlier one's.
LEMMA AppendKeepsAllDeclared ==
  ASSUME IInv, TextInv, AcceptInv, phase = "collect", Len(program) < MaxEvents,
         NEW e \in EventRecord, program' = Append(program, e),
         e.parent = Enclosing,
         \/ symbols' = symbols /\ e.op \notin {"declare", "param"}
         \/ e.name \in Names /\ symbols' = Registered(e.name, Len(program) + 1)
  PROVE  AllDeclared'
<1>0. PICK n \in Nat : n = Len(program)
  BY DEF IInv, TypeOK
<1>1. /\ Len(program') = n + 1
      /\ \A i \in 1..n : program'[i] = program[i]
      /\ program'[n + 1] = e
  BY <1>0, AppendEvent DEF IInv, TypeOK
<1>2. symbols \in [Scopes -> [Names -> 0..n]] /\ currentScope = Enclosing /\ Enclosing \in Scopes
  BY <1>0, OpenEvents DEF IInv, TypeOK
<1>3. \A s \in Scopes, m \in Names : symbols[s][m] # 0 => symbols'[s][m] # 0
  <2>1. CASE symbols' = symbols
    BY <2>1
  <2>2. CASE symbols' = Registered(e.name, n + 1)
    BY <2>2, <1>2 DEF Registered
  <2> QED BY <2>1, <2>2, <1>0
<1>4. ASSUME NEW i \in 1..n, Declaration(i)'
      PROVE  symbols'[program'[i].parent][program'[i].name] # 0
  <2>1. Declaration(i)
    BY <1>1, <1>4 DEF Declaration
  <2>2. program[i].parent \in Scopes
    <3>1. program[i].parent \in 0..(i - 1)
      BY <1>0 DEF TextInv, ChainsAreLexical, ChainIsLexical
    <3> QED BY <3>1, <1>0, MaxEventsIsNat DEF Scopes
  <2>3. program[i].name \in Names /\ symbols[program[i].parent][program[i].name] # 0
    BY <2>1, <1>0 DEF TextInv, NamesAreNames, AcceptInv, AllDeclared, Declaration
  <2> QED BY <2>2, <2>3, <1>1, <1>3
<1>5. Declaration(n + 1)' => symbols'[e.parent][e.name] # 0
  <2> SUFFICES ASSUME Declaration(n + 1)' PROVE symbols'[e.parent][e.name] # 0
    OBVIOUS
  <2>1. e.name \in Names /\ symbols' = Registered(e.name, n + 1)
    BY <1>0, <1>1 DEF Declaration
  <2> QED BY <2>1, <1>0, <1>2 DEF Registered
<1> QED BY <1>1, <1>4, <1>5 DEF AllDeclared

\* What every event of the first pass does, as far as acceptance goes.
LEMMA AppendKeepsAcceptInv ==
  ASSUME IInv, TextInv, AcceptInv, IInv', TextInv',
         phase = "collect", phase' = "collect", Len(program) < MaxEvents,
         NEW e \in EventRecord, e.parent = Enclosing, program' = Append(program, e),
         e.op = "param" => e.src = NoInit,
         \A s \in 0..Len(program) : chain'[s] = chain[s],
         e.op \in {"function", "block"} =>
           chain'[Len(program) + 1] = chain[Enclosing] \cup {Len(program) + 1},
         \/ symbols' = symbols /\ e.op \notin {"declare", "param"}
         \/ e.name \in Names /\ symbols' = Registered(e.name, Len(program) + 1),
         errors' = {} <=> errors = {} /\ NewGood(e),
         errors' = {} =>
           isDefined' = IF e.op = "param" \/ (e.op = "declare" /\ e.src # NoInit)
                        THEN [isDefined EXCEPT ![Len(program) + 1] = TRUE]
                        ELSE isDefined
  PROVE  AcceptInv'
<1>1. AllDeclared'
  BY AppendKeepsAllDeclared
<1>2. ScopeChains'
  BY AppendKeepsScopeChains
<1>3. errors' = {} <=> Good'
  BY <1>1, AppendKeepsGood
<1>4. errors' = {} => InitsDefined'
  BY AppendKeepsInits
<1>5. ParamsReadNothing'
  <2>1. PICK n \in Nat : n = Len(program)
    BY DEF IInv, TypeOK
  <2>2. /\ Len(program') = n + 1 /\ program'[n + 1] = e
        /\ \A i \in 1..n : program'[i] = program[i]
    BY <2>1, AppendEvent DEF IInv, TypeOK
  <2> QED BY <2>1, <2>2 DEF AcceptInv, ParamsReadNothing
<1> QED BY <1>1, <1>2, <1>3, <1>4, <1>5 DEF AcceptInv, Generating

\* Entering and leaving functions and blocks keeps the invariant.
LEMMA ScopesKeepAcceptInv ==
  ASSUME IInv, TextInv, AcceptInv, IInv', TextInv',
         (\E op \in {"function", "block"} : CollectEnter(op)) \/ CollectExit
  PROVE  AcceptInv'
<1>1. NoInit \in Sources /\ {"function", "block", "end"} \subseteq Ops /\ nest # <<>>
  BY DEF Sources, Ops, IInv, CollectInv, NestIsStack
<1>2. phase = "collect" /\ currentScope = Enclosing /\ Len(program) \in Nat
  <2>1. phase = "collect"
    BY DEF CollectEnter, CollectExit, Collecting
  <2> QED BY <2>1, OpenEvents DEF IInv, TypeOK
<1>3. CASE \E op \in {"function", "block"} : CollectEnter(op)
  <2>1. PICK op \in {"function", "block"} : CollectEnter(op)
    BY <1>3
  <2> DEFINE e == Event(op, "", "", NoInit)
  <2>2. /\ Len(program) < MaxEvents /\ program' = Append(program, e)
        /\ chain' = [chain EXCEPT ![Len(program) + 1] =
                       chain[currentScope] \cup {Len(program) + 1}]
        /\ phase' = phase /\ symbols' = symbols /\ errors' = errors
        /\ isDefined' = isDefined
    BY <2>1 DEF CollectEnter, Collecting
  <2>3. e \in EventRecord /\ e.op = op /\ e.parent = Enclosing /\ e.src = NoInit
    <3>1. e \in EventRecord
      BY <1>1, EventIsRecord DEF IInv
    <3> QED BY <3>1 DEF Event
  <2> HIDE DEF e
  <2>4. \A s \in 0..Len(program) : chain'[s] = chain[s]
    BY <1>2, <2>2, MaxEventsIsNat DEF IInv, TypeOK, Scopes
  <2>5. chain'[Len(program) + 1] = chain[Enclosing] \cup {Len(program) + 1}
    <3>1. Len(program) + 1 \in Scopes
      BY <1>2, <2>2, MaxEventsIsNat DEF Scopes
    <3> QED BY <3>1, <1>2, <2>2 DEF IInv, TypeOK
  <2>6. NewGood(e)
    BY <2>3, NoInitIsNoName DEF NewGood
  <2> QED BY <1>2, <2>2, <2>3, <2>4, <2>5, <2>6, AppendKeepsAcceptInv
<1>4. CASE CollectExit
  <2> DEFINE e == Event("end", "", "", NoInit)
  <2>1. /\ Len(program) < MaxEvents /\ program' = Append(program, e)
        /\ chain' = chain /\ phase' = phase /\ symbols' = symbols /\ errors' = errors
        /\ isDefined' = isDefined
    BY <1>4 DEF CollectExit
  <2>2. e \in EventRecord /\ e.op = "end" /\ e.parent = Enclosing /\ e.src = NoInit
    <3>1. e \in EventRecord
      BY <1>1, EventIsRecord DEF IInv
    <3> QED BY <3>1 DEF Event
  <2> HIDE DEF e
  <2>3. NewGood(e)
    BY <2>2, NoInitIsNoName DEF NewGood
  <2> QED BY <1>2, <2>1, <2>2, <2>3, AppendKeepsAcceptInv
<1> QED BY <1>3, <1>4

\* enterVariable reports a name just if no scope in reach holds it.
LEMMA UnresolvedIffUnheld ==
  ASSUME NEW names, NEW table, NEW e
  PROVE  UnresolvedUses(names, table, e) = {} <=>
           \A m \in names : \E s \in chain[currentScope] : table[s][m] # 0
BY DEF UnresolvedUses

\* So do the statements of the first pass.
LEMMA StatementsKeepAcceptInv ==
  ASSUME IInv, TextInv, AcceptInv, IInv', TextInv', NEW st \in Statements,
         CollectDeclare(st) \/ CollectParam(st) \/ CollectReference(st)
  PROVE  AcceptInv'
<1>1. /\ st.name \in Names /\ st.type \in Types /\ st.src \in Sources
      /\ NoInit \in Sources
      /\ {"declare", "param", "assign", "use"} \subseteq Ops
      /\ nest # <<>>
  BY StatementFields DEF Sources, Ops, IInv, CollectInv, NestIsStack
<1>2. \A op \in {"declare", "param", "assign", "use"}, src \in Sources :
        LET e == Event(op, st.name, st.type, src) IN
        /\ e \in EventRecord /\ e.op = op /\ e.name = st.name /\ e.src = src
        /\ e.parent = Enclosing
  BY <1>1, EventIsRecord DEF IInv, Event
<1>3. /\ phase = "collect" /\ phase' = "collect" /\ Len(program) < MaxEvents /\ chain' = chain
  BY DEF CollectDeclare, CollectParam, CollectReference, Collecting
<1>4. currentScope = Enclosing /\ Enclosing \in Scopes
  BY <1>3, OpenEvents
<1>5. Redeclarations(st.name, Len(program) + 1) = {} <=> symbols[Enclosing][st.name] = 0
  BY <1>4 DEF Redeclarations
<1>6. CASE CollectDeclare(st)
  <2> DEFINE e == Event("declare", st.name, st.type, st.src)
  <2>0. PICK names : names = {st.src} \cap Names
    OBVIOUS
  <2>1. /\ e \in EventRecord /\ e.op = "declare" /\ e.name = st.name
        /\ e.src = st.src /\ e.parent = Enclosing
    BY <1>1, <1>2
  <2>2. /\ program' = Append(program, e)
        /\ symbols' = Registered(st.name, Len(program) + 1)
        /\ errors' = errors \cup Redeclarations(st.name, Len(program) + 1)
             \cup UnresolvedUses(names, symbols', Len(program) + 1)
        /\ isDefined' = IF st.src = NoInit THEN isDefined
             ELSE [isDefined EXCEPT ![DefinedBy(st.name, Len(program) + 1)] = TRUE]
    BY <2>0, <1>6 DEF CollectDeclare
  <2>3. \A m : m \in names <=> m = st.src /\ st.src \in Names
    BY <2>0
  <2> HIDE DEF e
  <2>4. UnresolvedUses(names, symbols', Len(program) + 1) = {} <=>
          (st.src \in Names => \E s \in chain[currentScope] : symbols'[s][st.src] # 0)
    <3>1. UnresolvedUses(names, symbols', Len(program) + 1) = {} <=>
            \A m \in names : \E s \in chain[currentScope] : symbols'[s][m] # 0
      BY UnresolvedIffUnheld
    <3>2. (\A m \in names : \E s \in chain[currentScope] : symbols'[s][m] # 0) <=>
            (st.src \in Names => \E s \in chain[currentScope] : symbols'[s][st.src] # 0)
      BY <2>3
    <3> QED BY <3>1, <3>2
  <2>5. errors' = {} <=> errors = {} /\ NewGood(e)
    BY <2>1, <2>2, <2>4, <1>3, <1>4, <1>5 DEF NewGood
  <2>6. errors' = {} => DefinedBy(st.name, Len(program) + 1) = Len(program) + 1
    BY <2>2, <1>4, <1>5 DEF DefinedBy
  <2> QED BY <2>1, <2>2, <2>5, <2>6, <1>1, <1>3, AppendKeepsAcceptInv
<1>7. CASE CollectParam(st)
  <2> DEFINE e == Event("param", st.name, st.type, NoInit)
  <2>1. /\ e \in EventRecord /\ e.op = "param" /\ e.name = st.name
        /\ e.src = NoInit /\ e.parent = Enclosing
    BY <1>1, <1>2
  <2>2. /\ program' = Append(program, e)
        /\ symbols' = Registered(st.name, Len(program) + 1)
        /\ errors' = errors \cup Redeclarations(st.name, Len(program) + 1)
        /\ isDefined' = [isDefined EXCEPT ![Len(program) + 1] = TRUE]
    BY <1>7 DEF CollectParam
  <2> HIDE DEF e
  <2>3. errors' = {} <=> errors = {} /\ NewGood(e)
    BY <2>1, <2>2, <1>5, NoInitIsNoName DEF NewGood
  <2> QED BY <2>1, <2>2, <2>3, <1>1, <1>3, AppendKeepsAcceptInv
<1>8. CASE CollectReference(st)
  <2> DEFINE e == Event(st.op, st.name, st.type, st.src)
  <2>0. PICK names : names = ({st.src} \cap Names)
                               \cup (IF st.op = "assign" THEN {st.name} ELSE {})
    OBVIOUS
  <2>1. /\ e \in EventRecord /\ e.op \in {"assign", "use"} /\ e.op = st.op
        /\ e.name = st.name /\ e.src = st.src /\ e.parent = Enclosing
    <3>1. st.op \in {"assign", "use"}
      BY <1>8 DEF CollectReference
    <3> QED BY <1>1, <1>2, <3>1
  <2>2. /\ program' = Append(program, e) /\ symbols' = symbols
        /\ errors' = errors \cup UnresolvedUses(names, symbols, Len(program) + 1)
        /\ isDefined' = isDefined
    BY <2>0, <1>8 DEF CollectReference
  <2>3. \A m : m \in names <=> \/ m = st.src /\ st.src \in Names
                               \/ m = st.name /\ st.op = "assign"
    BY <2>0
  <2> HIDE DEF e
  <2>4. UnresolvedUses(names, symbols, Len(program) + 1) = {} <=>
          /\ st.src \in Names => \E s \in chain[currentScope] : symbols[s][st.src] # 0
          /\ st.op = "assign" => \E s \in chain[currentScope] : symbols[s][st.name] # 0
    <3>1. UnresolvedUses(names, symbols, Len(program) + 1) = {} <=>
            \A m \in names : \E s \in chain[currentScope] : symbols[s][m] # 0
      BY UnresolvedIffUnheld
    <3>2. (\A m \in names : \E s \in chain[currentScope] : symbols[s][m] # 0) <=>
            /\ st.src \in Names => \E s \in chain[currentScope] : symbols[s][st.src] # 0
            /\ st.op = "assign" => \E s \in chain[currentScope] : symbols[s][st.name] # 0
      BY <2>3
    <3> QED BY <3>1, <3>2
  <2>5. errors' = {} <=> errors = {} /\ NewGood(e)
    BY <2>1, <2>2, <2>4, <1>3, <1>4 DEF NewGood
  <2> QED BY <2>1, <2>2, <2>5, <1>1, <1>3, AppendKeepsAcceptInv
<1> QED BY <1>6, <1>7, <1>8

-----------------------------------------------------------------------------
(* The text does not change after the first pass, nor what depends on it. *)

\* What is visible depends on the text alone.
LEMMA SameVisible ==
  ASSUME program' = program, NEW m, NEW i
  PROVE  Visible(m, i)' = Visible(m, i)
<1>1. \A s : Inside(s, i)' <=> Inside(s, i)
  BY DEF Inside
<1>2. Declarations' = Declarations
  BY DEF Declarations
<1> QED BY <1>1, <1>2 DEF Visible

\* So does what a name means.
LEMMA SameLexical ==
  ASSUME program' = program, NEW m, NEW i
  PROVE  Lexical(m, i)' = Lexical(m, i)
<1>1. Visible(m, i)' = Visible(m, i)
  BY SameVisible
<1> QED BY <1>1 DEF Lexical

\* So do the reference and Shadows, event by event.
LEMMA SameText ==
  ASSUME program' = program
  PROVE  /\ \A i : GoodAt(i)' <=> GoodAt(i)
         /\ \A i : TypedAt(i)' <=> TypedAt(i)
         /\ \A i : DefinedAt(i)' <=> DefinedAt(i)
         /\ (Good' <=> Good) /\ (Typed' <=> Typed) /\ (Defined' <=> Defined)
         /\ \A i : Lexical(program[i].name, i)' = Lexical(program[i].name, i)
         /\ Shadows' <=> Shadows
<1>1. \A m, i : Visible(m, i)' = Visible(m, i)
  BY SameVisible
<1>2. \A m, i : Lexical(m, i)' = Lexical(m, i)
  BY SameLexical
<1>3. ASSUME NEW i PROVE GoodAt(i)' <=> GoodAt(i)
  <2>1. NewName(i)' <=> NewName(i)
    BY DEF NewName, Declaration
  <2>2. Visible(program[i].src, i)' = Visible(program[i].src, i)
    BY DEF Visible, Declarations, Inside
  <2>3. Visible(program[i].name, i)' = Visible(program[i].name, i)
    BY DEF Visible, Declarations, Inside
  <2> QED BY <2>1, <2>2, <2>3 DEF GoodAt, Reads
<1>4. \A i : Lexical(program[i].src, i)' = Lexical(program[i].src, i)
  <2> TAKE i
  <2>1. PICK m : m = program[i].src
    OBVIOUS
  <2>2. Lexical(program[i].src, i)' = Lexical(m, i)'
    BY <2>1 DEF Lexical, Visible, Declarations, Inside
  <2> QED BY <2>1, <2>2, <1>2
<1>5. \A i : Lexical(program[i].name, i)' = Lexical(program[i].name, i)
  <2> TAKE i
  <2>1. PICK m : m = program[i].name
    OBVIOUS
  <2>2. Lexical(program[i].name, i)' = Lexical(m, i)'
    BY <2>1 DEF Lexical, Visible, Declarations, Inside
  <2> QED BY <2>1, <2>2, <1>2
<1>6. \A i : TypeRead(i)' = TypeRead(i)
  BY <1>4 DEF TypeRead, Reads, TypeOfSymbol
<1>7. \A i : TypedAt(i)' <=> TypedAt(i)
  BY <1>5, <1>6 DEF TypedAt, TypeOfSymbol
<1>8. \A w, d : Writes(w, d)' <=> Writes(w, d)
  BY <1>5 DEF Writes
<1>9. \A i : DefinedAt(i)' <=> DefinedAt(i)
  BY <1>4, <1>8 DEF DefinedAt, Reads, SelfInit
<1>10. Shadows' <=> Shadows
  BY DEF Shadows, Declarations, Inside
<1> QED BY <1>3, <1>5, <1>7, <1>9, <1>10 DEF Good, Typed, Defined

-----------------------------------------------------------------------------
(* The checking passes look names up in the scope they entered last, which *)
(* may have ended.  Without shadowing that makes no difference.            *)

\* What the later passes know of an event and its declarations.
LEMMA EventFacts ==
  ASSUME IInv, TextInv, NEW i \in 1..Len(program)
  PROVE  /\ Len(program) \in Nat /\ Len(program) <= MaxEvents
         /\ DOMAIN program = 1..Len(program) /\ program[i] \in EventRecord
         /\ i \in Scopes /\ i \in Events
         /\ program[i].parent \in Scopes /\ program[i].parent < i
         /\ ChainIsLexical(i)
<1>1. program \in Seq(EventRecord) /\ Len(program) <= MaxEvents
  BY DEF IInv, TypeOK
<1>2. ChainIsLexical(i)
  BY DEF TextInv, ChainsAreLexical
<1>3. program[i].parent \in 0..(i - 1)
  BY <1>2 DEF ChainIsLexical
<1> QED BY <1>1, <1>2, <1>3, MaxEventsIsNat DEF Scopes, Events

\* The scopes around an event are reached from the scope opened last before it.
LEMMA LastScopeReaches ==
  ASSUME IInv, TextInv, AcceptInv, phase \in {"check", "define"}, pos \in 1..Len(program),
         NEW s \in Scopes, Inside(s, pos)
  PROVE  s \in chain[currentScope]
<1>1. /\ CurrentIsLast /\ 0 \in chain[currentScope] /\ ScopeChains
  BY DEF AcceptInv, IInv, TypeOK
<1>2. /\ Len(program) \in Nat /\ Len(program) <= MaxEvents /\ DOMAIN program = 1..Len(program)
  BY EventFacts
<1>3. CASE s = 0
  BY <1>1, <1>3
<1>4. CASE s # 0
  <2>1. /\ s \in 1..(pos - 1) /\ OpensScope(s)
        /\ \A e \in DOMAIN program : Ends(e, s) => pos <= e
    BY <1>2, <1>4, MaxEventsIsNat DEF Inside, OpensScope, Ends, Scopes
  <2>2. PICK c : c = currentScope
    OBVIOUS
  <2>3. s <= c /\ c \in 1..(pos - 1) /\ c \in 1..Len(program) /\ OpensScope(c)
    BY <1>1, <1>2, <2>1, <2>2 DEF CurrentIsLast
  <2>4. chain[c] = chain[program[c].parent] \cup {c}
    BY <1>1, <2>3 DEF ScopeChains
  <2>5. CASE s = c
    BY <2>2, <2>4, <2>5
  <2>6. CASE s < c
    <3>1. Inside(s, c)
      BY <1>2, <2>1, <2>3, <2>6 DEF Inside, OpensScope, Ends
    <3>2. s \in chain[program[c].parent]
      BY <2>3, <3>1, EventFacts DEF ChainIsLexical
    <3> QED BY <2>2, <2>4, <3>2
  <2> QED BY <2>3, <2>5, <2>6, <2>1
<1> QED BY <1>3, <1>4

\* Of two scopes reached from one, the later is inside the earlier.
LEMMA ChainIsNested ==
  ASSUME IInv, TextInv, ScopeChains, NEW c \in 1..Len(program), OpensScope(c),
         NEW s \in chain[c], NEW t \in chain[c], s < t
  PROVE  Inside(s, t)
<1>1. /\ Len(program) \in Nat /\ Len(program) <= MaxEvents /\ DOMAIN program = 1..Len(program)
      /\ c \in Scopes /\ ChainIsLexical(c) /\ program[c].parent < c
  BY EventFacts
<1>2. chain[c] = chain[program[c].parent] \cup {c} /\ chain[c] \subseteq Scopes
  BY <1>1 DEF ScopeChains, IInv, TypeOK
<1>3. \A x \in chain[program[c].parent] : x \in Scopes /\ Inside(x, c) /\ x < c
  BY <1>1, <1>2, MaxEventsIsNat DEF ChainIsLexical, Scopes
<1>4. s # c
  BY <1>1, <1>2, <1>3, MaxEventsIsNat DEF Scopes
<1>5. Inside(s, c) /\ s \in Scopes
  BY <1>2, <1>3, <1>4
<1>6. CASE t = c
  BY <1>5, <1>6
<1>7. CASE t # c
  <2>1. t < c /\ t \in Nat /\ s \in Nat
    BY <1>2, <1>3, <1>7, MaxEventsIsNat DEF Scopes
  <2> QED BY <1>1, <1>5, <2>1 DEF Inside
<1> QED BY <1>6, <1>7

\* The only declaration of the name in reach of the last scope is the visible one.
LEMMA StaleFinds ==
  ASSUME IInv, TextInv, AcceptInv, phase \in {"check", "define"}, pos \in 1..Len(program),
         errors = {}, ~Shadows, NEW m \in Names, NEW d \in Visible(m, pos)
  PROVE  Resolve(currentScope, m) = d
<1>1. /\ Len(program) \in Nat /\ Len(program) <= MaxEvents /\ DOMAIN program = 1..Len(program)
  BY EventFacts
<1>2. /\ d \in 1..Len(program) /\ Declaration(d) /\ program[d].name = m
      /\ Inside(program[d].parent, pos)
  BY <1>1 DEF Visible, Declarations, Declaration
<1>3. PICK q \in Scopes : q = program[d].parent
  BY <1>2, EventFacts
<1>4. PICK c \in Scopes : c = currentScope
  BY DEF IInv, TypeOK
<1>5. q \in chain[c]
  BY <1>2, <1>3, <1>4, LastScopeReaches
<1>6. symbols[q][m] = d
  BY <1>2, <1>3 DEF TextInv, NamesResolve
<1>7. q \in Holders(c, m)
  BY <1>2, <1>5, <1>6 DEF Holders
<1>8. ASSUME NEW t \in Holders(c, m) PROVE t = q
  <2>1. t \in chain[c] /\ t \in Scopes /\ symbols[t][m] # 0
    BY <1>4 DEF Holders, IInv, TypeOK
  <2>2. PICK e \in 1..Len(program) : e = symbols[t][m]
    BY <2>1, <1>1 DEF IInv, TypeOK
  <2>3. Declaration(e) /\ program[e].parent = t /\ program[e].name = m
    BY <2>1, <2>2 DEF TextInv, SymbolsAreDeclared
  <2>4. d \in Declarations /\ e \in Declarations
    BY <1>1, <1>2, <2>3 DEF Declarations, Declaration
  <2>5. ~(q < t /\ Inside(q, t)) /\ ~(t < q /\ Inside(t, q))
    BY <1>2, <1>3, <2>3, <2>4 DEF Shadows
  <2>6. CASE c = 0
    <3>1. chain[0] = {0}
      <4>1. 1 \in 1..Len(program) /\ program[1].parent = 0
        BY <1>1, EventFacts, MaxEventsIsNat DEF Scopes
      <4>2. 0 \in chain[0] /\ \A s \in chain[0] : s <= 0
        BY <4>1, EventFacts DEF ChainIsLexical
      <4>3. chain[0] \subseteq Scopes
        BY <2>6 DEF IInv, TypeOK
      <4> QED BY <4>2, <4>3, MaxEventsIsNat DEF Scopes
    <3> QED BY <3>1, <2>1, <2>6, <1>5
  <2>7. CASE c # 0
    <3>1. c \in 1..Len(program) /\ OpensScope(c) /\ ScopeChains
      BY <1>1, <1>4, <2>7 DEF AcceptInv, CurrentIsLast
    <3>2. q < t => Inside(q, t)
      BY <3>1, <1>5, <2>1, ChainIsNested
    <3>3. t < q => Inside(t, q)
      BY <3>1, <1>5, <2>1, ChainIsNested
    <3> QED BY <2>1, <2>5, <3>2, <3>3, MaxEventsIsNat DEF Scopes
  <2> QED BY <2>6, <2>7
<1>9. Resolve(c, m) = symbols[program[Resolve(c, m)].parent][m]
      /\ program[Resolve(c, m)].parent \in Holders(c, m)
  <2>1. PICK r : r = Resolve(c, m)
    OBVIOUS
  <2>2. /\ r \in 1..Len(program) /\ program[r].parent \in chain[c]
        /\ symbols[program[r].parent][m] = r
    BY <1>7, <2>1, ResolveFinds DEF IInv, TextInv
  <2> QED BY <2>1, <2>2 DEF Holders
<1> QED BY <1>4, <1>6, <1>8, <1>9

\* So that is what the name resolves to, and what it means.
LEMMA StaleResolves ==
  ASSUME IInv, TextInv, AcceptInv, phase \in {"check", "define"}, pos \in 1..Len(program),
         errors = {}, ~Shadows, NEW m \in Names, Visible(m, pos) # {}
  PROVE  /\ Resolve(currentScope, m) = Lexical(m, pos)
         /\ Lexical(m, pos) \in Visible(m, pos)
         /\ Lexical(m, pos) \in 1..pos /\ Declaration(Lexical(m, pos))
<1>1. PICK d : d \in Visible(m, pos) /\ d = Resolve(currentScope, m)
  BY StaleFinds
<1>2. Visible(m, pos) = {d}
  BY <1>1, StaleFinds
<1>3. /\ Len(program) \in Nat /\ Len(program) <= MaxEvents /\ DOMAIN program = 1..Len(program)
  BY EventFacts
<1>4. d \in 1..pos /\ d \in 1..Len(program) /\ Declaration(d)
  BY <1>1, <1>3 DEF Visible, Declarations, Declaration
<1>5. program[d].parent <= program[d].parent
  BY <1>4, EventFacts, MaxEventsIsNat DEF Scopes
<1>6. Lexical(m, pos) = d
  BY <1>2, <1>5 DEF Lexical
<1> QED BY <1>1, <1>4, <1>6

-----------------------------------------------------------------------------
(* What the checking passes report.                                        *)

\* The type checker reports just the events with a wrong type.
LEMMA MismatchIsIllTyped ==
  ASSUME IInv, TextInv, AcceptInv, phase = "check", pos \in 1..Len(program),
         errors = {}, ~Shadows, Good
  PROVE  Mismatch(program[pos], pos) <=> ~TypedAt(pos)
<1>1. PICK i \in 1..Len(program) : i = pos
  OBVIOUS
<1>2. GoodAt(i)
  BY DEF Good
<1>3. program[i].src \in Names =>
        Resolve(currentScope, program[i].src) = Lexical(program[i].src, i)
  BY <1>1, <1>2, StaleResolves DEF GoodAt, Reads
<1>4. SourceType(currentScope, program[i].src) = TypeRead(i)
  BY <1>3 DEF SourceType, TypeRead, Reads
<1>5. program[i].op = "assign" =>
        Target(currentScope, program[i]) = Lexical(program[i].name, i)
  <2>1. program[i].op = "assign" => program[i].name \in Names
    BY DEF TextInv, NamesAreNames
  <2> QED BY <1>1, <1>2, <2>1, StaleResolves DEF GoodAt, Target
<1> QED BY <1>1, <1>4, <1>5 DEF Mismatch, TypedAt

\* The next pass reports just the reads that no write comes before.
LEMMA UndefinedIsUnwritten ==
  ASSUME IInv, TextInv, AcceptInv, phase = "define", pos \in 1..Len(program),
         errors = {}, ~Shadows, Good, WritesDefined
  PROVE  ReadsUndefined(program[pos]) <=> ~DefinedAt(pos)
<1>1. PICK i \in 1..Len(program) : i = pos
  OBVIOUS
<1>2. GoodAt(i) /\ i \in Nat
  BY EventFacts DEF Good
<1>3. CASE ~Reads(i)
  BY <1>1, <1>3 DEF DefinedAt, ReadsUndefined, Reads
<1>4. CASE Reads(i)
  <2>1. PICK d : d = Lexical(program[i].src, i)
    OBVIOUS
  <2>2. /\ Resolve(currentScope, program[i].src) = d /\ d \in Visible(program[i].src, i)
        /\ d \in 1..i /\ Declaration(d)
    BY <1>1, <1>2, <1>4, <2>1, StaleResolves DEF GoodAt, Reads
  <2>3. d \in Events /\ d <= Len(program) /\ d # 0 /\ program[d].name = program[i].src
    <3>1. d \in 1..Len(program)
      BY <1>1, <2>2, EventFacts
    <3> QED BY <2>2, <3>1, EventFacts DEF Visible
  <2>4. isDefined[d] <=> Initialised(d) \/ AssignedBefore(d, i)
    BY <1>1, <2>3 DEF WritesDefined
  <2>5. DefinedAt(i) <=> \E w \in 1..i : Writes(w, d) /\ (w = i => SelfInit(i))
    BY <1>4, <2>1, <2>3 DEF DefinedAt
  <2>6. ASSUME Initialised(d) PROVE DefinedAt(i)
    <3>1. Writes(d, d)
      BY <2>6 DEF Initialised, Writes
    <3>2. d = i => SelfInit(i)
      <4>1. program[i].op = "param" => program[i].src \notin Names
        BY NoInitIsNoName DEF AcceptInv, ParamsReadNothing
      <4> QED BY <1>4, <2>2, <2>3, <4>1 DEF SelfInit, Reads, Declaration
    <3> QED BY <2>2, <2>5, <3>1, <3>2
  <2>7. ASSUME AssignedBefore(d, i) PROVE DefinedAt(i)
    <3>1. PICK w \in 1..(i - 1) :
            program[w].op = "assign" /\ Lexical(program[w].name, w) = d
      BY <2>7 DEF AssignedBefore
    <3>2. Writes(w, d) /\ w \in 1..i /\ w # i
      BY <1>2, <3>1 DEF Writes
    <3> QED BY <2>5, <3>2
  <2>8. ASSUME DefinedAt(i) PROVE Initialised(d) \/ AssignedBefore(d, i)
    <3>1. PICK w \in 1..i : Writes(w, d) /\ (w = i => SelfInit(i))
      BY <2>5, <2>8
    <3>2. CASE w = d /\ (program[d].op = "param" \/ program[d].src # NoInit)
      BY <2>2, <3>2 DEF Initialised, Declaration
    <3>3. CASE program[w].op = "assign" /\ Lexical(program[w].name, w) = d
      <4>1. w # i
        BY <3>1, <3>3 DEF SelfInit
      <4> QED BY <1>2, <3>1, <3>3, <4>1 DEF AssignedBefore
    <3> QED BY <3>1, <3>2, <3>3 DEF Writes
  <2> QED BY <1>1, <1>4, <2>2, <2>3, <2>4, <2>6, <2>7, <2>8 DEF ReadsUndefined, Reads
<1> QED BY <1>3, <1>4

\* enterEveryRule keeps currentScope the scope opened last.
LEMMA CurrentStaysLast ==
  ASSUME IInv, TextInv, AcceptInv, phase \in {"check", "define"}, pos \in 1..Len(program),
         program' = program, pos' = pos + 1, currentScope' = EnterEveryRule(pos)
  PROVE  CurrentIsLast'
<1>1. /\ currentScope \in 0..(pos - 1)
      /\ currentScope # 0 => OpensScope(currentScope)
      /\ \A s \in 1..(pos - 1) : s <= Len(program) /\ OpensScope(s) => s <= currentScope
  BY DEF AcceptInv, CurrentIsLast
<1>2. Len(program) \in Nat
  BY EventFacts
<1>3. PICK i \in 1..Len(program) : i = pos
  OBVIOUS
<1>4. PICK c \in 0..i : c = currentScope'
  BY <1>1, <1>2, <1>3 DEF EnterEveryRule
<1>5. c # 0 => OpensScope(c)
  BY <1>1, <1>3, <1>4 DEF EnterEveryRule
<1>6. \A s \in 1..i : OpensScope(s) => s <= c
  <2> SUFFICES ASSUME NEW s \in 1..i, OpensScope(s) PROVE s <= c
    OBVIOUS
  <2>1. CASE s = i
    BY <1>3, <1>4, <2>1 DEF EnterEveryRule
  <2>2. CASE s # i
    <3>1. s <= currentScope /\ currentScope <= i
      BY <1>1, <1>2, <1>3, <2>2
    <3> QED BY <1>1, <1>2, <1>3, <1>4, <3>1 DEF EnterEveryRule
  <2> QED BY <2>1, <2>2
<1>7. (c # 0 => OpensScope(c)') /\ \A s \in 1..i : OpensScope(s)' => s <= c
  BY <1>5, <1>6 DEF OpensScope
<1>8. currentScope' # 0 => OpensScope(currentScope)'
  BY <1>4, <1>7 DEF OpensScope
<1> QED BY <1>2, <1>3, <1>4, <1>7, <1>8 DEF CurrentIsLast

\* What AcceptInv says of the text stays true after the first pass.
LEMMA TextStays ==
  ASSUME AcceptInv, UNCHANGED <<program, chain, symbols>>
  PROVE  AllDeclared' /\ ScopeChains' /\ ParamsReadNothing'
BY DEF AcceptInv, AllDeclared, ScopeChains, ParamsReadNothing, Declaration, OpensScope

-----------------------------------------------------------------------------
(* The passes, step by step.                                               *)

\* An assignment marks the variable it means as defined.
LEMMA DefineKeepsWrites ==
  ASSUME IInv, TextInv, AcceptInv, Define, pos \in 1..Len(program),
         errors = {}, ~Shadows, Good, WritesDefined
  PROVE  WritesDefined'
<1>1. PICK i \in 1..Len(program) : i = pos
  OBVIOUS
<1>2. /\ program' = program /\ pos' = i + 1 /\ i \in Nat /\ phase = "define"
      /\ isDefined' = IF program[i].op = "assign" /\ Target(currentScope, program[i]) # 0
                      THEN [isDefined EXCEPT ![Target(currentScope, program[i])] = TRUE]
                      ELSE isDefined
  BY <1>1, EventFacts DEF Define, Step
<1>3. program[i].op = "assign" =>
        /\ Target(currentScope, program[i]) = Lexical(program[i].name, i)
        /\ Lexical(program[i].name, i) # 0
  <2> SUFFICES ASSUME program[i].op = "assign"
               PROVE  /\ Target(currentScope, program[i]) = Lexical(program[i].name, i)
                      /\ Lexical(program[i].name, i) # 0
    OBVIOUS
  <2>1. program[i].name \in Names /\ Visible(program[i].name, i) # {}
    BY DEF TextInv, NamesAreNames, Good, GoodAt
  <2>2. /\ Resolve(currentScope, program[i].name) = Lexical(program[i].name, i)
        /\ Lexical(program[i].name, i) \in 1..i
    BY <1>1, <1>2, <2>1, StaleResolves
  <2> QED BY <1>2, <2>2 DEF Target
<1>4. \A w : Lexical(program[w].name, w)' = Lexical(program[w].name, w)
  BY <1>2, SameText
<1>5. ASSUME NEW d \in Events
      PROVE  AssignedBefore(d, pos)' <=>
               \/ AssignedBefore(d, i)
               \/ program[i].op = "assign" /\ Lexical(program[i].name, i) = d
  BY <1>2, <1>4 DEF AssignedBefore
<1>6. ASSUME NEW d \in Events
      PROVE  isDefined'[d] <=>
               \/ isDefined[d]
               \/ program[i].op = "assign" /\ Lexical(program[i].name, i) = d
  <2>1. isDefined \in [Events -> BOOLEAN]
    BY DEF IInv, TypeOK
  <2> QED BY <1>2, <1>3, <2>1
<1>7. \A d \in Events : isDefined[d] <=> \/ d <= Len(program) /\ Initialised(d)
                                         \/ AssignedBefore(d, i)
  BY <1>1 DEF WritesDefined
<1>8. \A d \in Events : (d <= Len(program) /\ Initialised(d))' <=>
                          (d <= Len(program) /\ Initialised(d))
  BY <1>2 DEF Initialised
<1> QED BY <1>5, <1>6, <1>7, <1>8 DEF WritesDefined

\* A checking pass starts in the program's scope.
LEMMA StartsInProgram ==
  ASSUME pos' = 1, currentScope' = 0 PROVE CurrentIsLast'
BY DEF CurrentIsLast

\* The type checker starts with the errors of the first pass.
LEMMA CollectDoneKeepsAcceptInv ==
  ASSUME IInv, TextInv, AcceptInv, CollectDone PROVE AcceptInv'
<1>1. /\ phase = "collect" /\ phase' = "check" /\ pos' = 1 /\ currentScope' = 0
      /\ UNCHANGED <<program, chain, symbols, errors, isDefined>>
  BY DEF CollectDone, StartPass
<1>2. AllDeclared' /\ ScopeChains' /\ ParamsReadNothing' /\ CurrentIsLast'
  BY <1>1, TextStays, StartsInProgram
<1>3. errors' = {} <=> Good'
  BY <1>1, SameText DEF AcceptInv
<1>4. errors' = {} => InitsDefined'
  BY <1>1 DEF AcceptInv, InitsDefined, Initialised
<1>5. \A i \in 1..(pos' - 1) : FALSE
  BY <1>1
<1> QED BY <1>1, <1>2, <1>3, <1>4, <1>5 DEF AcceptInv, Generating

\* One event of the type checker.
LEMMA CheckKeepsAcceptInv ==
  ASSUME IInv, TextInv, AcceptInv, Check PROVE AcceptInv'
<1>1. /\ phase = "check" /\ phase' = "check" /\ pos' = pos + 1
      /\ currentScope' = EnterEveryRule(pos) /\ pos \in 1..Len(program)
      /\ UNCHANGED <<program, chain, symbols, isDefined>>
      /\ errors' = errors \cup (IF Mismatch(program[pos], pos)
                                THEN {Report("mismatch", pos)} ELSE {})
  BY DEF Check, Step, IInv, TypeOK
<1>2. AllDeclared' /\ ScopeChains' /\ ParamsReadNothing' /\ CurrentIsLast'
  BY <1>1, TextStays, CurrentStaysLast
<1>3. errors' = {} => InitsDefined'
  BY <1>1 DEF AcceptInv, InitsDefined, Initialised
<1>4. ASSUME ~Shadows'
      PROVE  errors' = {} <=> Good' /\ \A i \in 1..(pos' - 1) : TypedAt(i)'
  <2>1. PICK k \in Nat : k = pos
    BY <1>1, EventFacts
  <2>2. errors = {} <=> Good /\ \A i \in 1..(k - 1) : TypedAt(i)
    BY <1>1, <1>4, <2>1, SameText DEF AcceptInv
  <2>3. errors = {} => (Mismatch(program[pos], pos) <=> ~TypedAt(k))
    BY <1>1, <1>4, <2>1, <2>2, SameText, MismatchIsIllTyped
  <2>4. errors' = {} <=> Good /\ (\A i \in 1..(k - 1) : TypedAt(i)) /\ TypedAt(k)
    BY <1>1, <2>2, <2>3
  <2>5. \A i \in 1..k : i \in 1..(k - 1) \/ i = k
    BY <2>1
  <2>6. k \in 1..k /\ 1..(k - 1) \subseteq 1..k /\ pos' - 1 = k
    BY <1>1, <2>1
  <2>7. (Good' <=> Good) /\ \A i : TypedAt(i)' <=> TypedAt(i)
    BY <1>1, SameText
  <2> QED BY <2>4, <2>5, <2>6, <2>7
<1> QED BY <1>1, <1>2, <1>3, <1>4 DEF AcceptInv, Generating

\* The type checker has seen every event when the next pass starts.
LEMMA CheckDoneKeepsAcceptInv ==
  ASSUME IInv, TextInv, AcceptInv, CheckDone PROVE AcceptInv'
<1>1. /\ phase = "check" /\ phase' = "define" /\ pos' = 1 /\ currentScope' = 0
      /\ UNCHANGED <<program, chain, symbols, errors, isDefined>>
      /\ pos > Len(program) /\ pos \in Int /\ Len(program) \in Nat
  BY DEF CheckDone, StartPass, IInv, TypeOK
<1>2. AllDeclared' /\ ScopeChains' /\ ParamsReadNothing' /\ CurrentIsLast'
  BY <1>1, TextStays, StartsInProgram
<1>3. \A i \in 1..Len(program) : i \in 1..(pos - 1)
  BY <1>1
<1>4. ~Shadows' => (errors' = {} <=> Good' /\ Typed')
  <2>1. (\A i \in 1..(pos - 1) : TypedAt(i)) => Typed
    BY <1>3 DEF Typed
  <2>2. 1..(pos - 1) = 1..Len(program)
    BY <1>1 DEF IInv, TypeOK
  <2>3. ~Shadows => (errors = {} <=> Good /\ Typed)
    BY <1>1, <2>2 DEF AcceptInv, Typed
  <2> QED BY <1>1, <2>3, SameText
<1>5. \A i \in 1..(pos' - 1) : FALSE
  BY <1>1
<1>6. errors' = {} => WritesDefined'
  <2>1. errors' = {} => InitsDefined
    BY <1>1 DEF AcceptInv
  <2>2. \A d : ~AssignedBefore(d, pos)'
    BY <1>5 DEF AssignedBefore
  <2> QED BY <1>1, <2>1, <2>2 DEF InitsDefined, WritesDefined, Initialised
<1> QED BY <1>1, <1>2, <1>4, <1>5, <1>6 DEF AcceptInv, Generating

\* One event of the use-before-definition pass.
LEMMA DefineKeepsAcceptInv ==
  ASSUME IInv, TextInv, AcceptInv, Define PROVE AcceptInv'
<1>1. /\ phase = "define" /\ phase' = "define" /\ pos' = pos + 1
      /\ currentScope' = EnterEveryRule(pos) /\ pos \in 1..Len(program)
      /\ UNCHANGED <<program, chain, symbols>>
      /\ errors' = errors \cup (IF ReadsUndefined(program[pos])
                                THEN {Report("undefined", pos)} ELSE {})
  BY DEF Define, Step, IInv, TypeOK
<1>2. AllDeclared' /\ ScopeChains' /\ ParamsReadNothing' /\ CurrentIsLast'
  BY <1>1, TextStays, CurrentStaysLast
<1>3. ASSUME ~Shadows'
      PROVE  /\ errors' = {} <=> Good' /\ Typed' /\ \A i \in 1..(pos' - 1) : DefinedAt(i)'
             /\ errors' = {} => WritesDefined'
  <2>1. PICK k \in Nat : k = pos
    BY <1>1, EventFacts
  <2>2. /\ errors = {} <=> Good /\ Typed /\ \A i \in 1..(k - 1) : DefinedAt(i)
        /\ errors = {} => WritesDefined
        /\ ~Shadows
    BY <1>1, <1>3, <2>1, SameText DEF AcceptInv
  <2>3. errors = {} => (ReadsUndefined(program[pos]) <=> ~DefinedAt(k))
    BY <1>1, <2>1, <2>2, UndefinedIsUnwritten
  <2>4. errors' = {} <=> Good /\ Typed /\ (\A i \in 1..(k - 1) : DefinedAt(i)) /\ DefinedAt(k)
    BY <1>1, <2>2, <2>3
  <2>5. \A i \in 1..k : i \in 1..(k - 1) \/ i = k
    BY <2>1
  <2>6. k \in 1..k /\ 1..(k - 1) \subseteq 1..k /\ pos' - 1 = k
    BY <1>1, <2>1
  <2>7. (Good' <=> Good) /\ (Typed' <=> Typed) /\ \A i : DefinedAt(i)' <=> DefinedAt(i)
    BY <1>1, SameText
  <2>8. errors' = {} => WritesDefined'
    <3>1. errors' = {} => errors = {}
      BY <1>1
    <3> QED BY <3>1, <1>1, <2>2, DefineKeepsWrites
  <2> QED BY <2>4, <2>5, <2>6, <2>7, <2>8
<1> QED BY <1>1, <1>2, <1>3 DEF AcceptInv, Generating

\* main generates code just if no pass has found an error.
LEMMA DefineDoneKeepsAcceptInv ==
  ASSUME IInv, TextInv, AcceptInv, DefineDone PROVE AcceptInv'
<1>1. /\ phase = "define" /\ phase' = IF errors = {} THEN "generate" ELSE "rejected"
      /\ UNCHANGED <<program, chain, symbols, errors>>
      /\ pos > Len(program) /\ pos \in 0..(Len(program) + 1) /\ Len(program) \in Nat
  BY DEF DefineDone, StartPass, IInv, TypeOK
<1>2. AllDeclared' /\ ScopeChains' /\ ParamsReadNothing'
  BY <1>1, TextStays
<1>3. 1..(pos - 1) = 1..Len(program)
  BY <1>1
<1>4. ~Shadows => (errors = {} <=> Good /\ Typed /\ Defined)
  BY <1>1, <1>3 DEF AcceptInv, Defined
<1>5. ~Shadows' => (errors = {} <=> Good' /\ Typed' /\ Defined')
  BY <1>1, <1>4, SameText
<1> QED BY <1>1, <1>2, <1>5 DEF AcceptInv, Generating

\* The generator changes nothing the invariant is about.
LEMMA OthersKeepAcceptInv ==
  ASSUME IInv, TextInv, AcceptInv, Generate \/ GenerateDone PROVE AcceptInv'
<1>1. /\ phase = "generate" /\ phase' \in Generating
      /\ UNCHANGED <<program, chain, symbols>>
  BY DEF Generate, GenerateDone, Step, StartPass, Generating
<1>2. AllDeclared' /\ ScopeChains' /\ ParamsReadNothing'
  BY <1>1, TextStays
<1>3. ~Shadows' => Good' /\ Typed' /\ Defined'
  BY <1>1, SameText DEF AcceptInv, Generating
<1> QED BY <1>1, <1>2, <1>3 DEF AcceptInv, Generating

\* A step that changes nothing.
LEMMA StutterKeepsAcceptInv ==
  ASSUME AcceptInv, UNCHANGED vars PROVE AcceptInv'
<1>1. UNCHANGED <<program, chain, symbols, phase, pos, currentScope, errors, isDefined>>
  BY DEF vars
<1>2. AllDeclared' /\ ScopeChains' /\ ParamsReadNothing'
  BY <1>1, TextStays
<1>3. (CurrentIsLast => CurrentIsLast') /\ (InitsDefined => InitsDefined')
  BY <1>1 DEF CurrentIsLast, InitsDefined, OpensScope, Initialised
<1>4. WritesDefined => WritesDefined'
  <2>1. \A w : Lexical(program[w].name, w)' = Lexical(program[w].name, w)
    BY <1>1, SameText
  <2>2. \A d : AssignedBefore(d, pos)' <=> AssignedBefore(d, pos)
    BY <1>1, <2>1 DEF AssignedBefore
  <2> QED BY <1>1, <2>2 DEF WritesDefined, Initialised
<1>5. /\ (Good' <=> Good) /\ (Typed' <=> Typed) /\ (Defined' <=> Defined)
      /\ (Shadows' <=> Shadows)
      /\ \A i : TypedAt(i)' <=> TypedAt(i)
      /\ \A i : DefinedAt(i)' <=> DefinedAt(i)
  BY <1>1, SameText
<1> QED BY <1>1, <1>2, <1>3, <1>4, <1>5 DEF AcceptInv, Generating

-----------------------------------------------------------------------------
(* The theorem.                                                            *)

\* The empty program is good, and nothing is defined.
LEMMA InitAcceptInv == Init => AcceptInv
<1> SUFFICES ASSUME Init PROVE AcceptInv
  OBVIOUS
<1>1. /\ program = <<>> /\ phase = "collect" /\ errors = {}
      /\ isDefined = [e \in Events |-> FALSE]
  BY DEF Init
<1>2. Len(program) = 0 /\ \A d \in Events : ~(d <= 0)
  BY <1>1 DEF Events
<1>3. AllDeclared /\ ScopeChains /\ ParamsReadNothing /\ Good
  BY <1>2 DEF AllDeclared, ScopeChains, ParamsReadNothing, Good
<1>4. InitsDefined
  BY <1>1, <1>2 DEF InitsDefined
<1> QED BY <1>1, <1>3, <1>4 DEF AcceptInv, Generating

\* With the invariants it rests on.
AInv == SInv /\ AcceptInv

\* Every step of every pass keeps the invariant.
LEMMA NextKeepsAInv == AInv /\ [Next]_vars => AInv'
<1> SUFFICES ASSUME AInv, [Next]_vars PROVE AInv'
  OBVIOUS
<1>1. SInv /\ IInv /\ TextInv /\ AcceptInv
  BY DEF AInv, SInv
<1>2. SInv' /\ IInv' /\ TextInv'
  BY <1>1, NextKeepsSInv DEF SInv
<1>3. CASE (\E op \in {"function", "block"} : CollectEnter(op)) \/ CollectExit
  BY <1>1, <1>2, <1>3, ScopesKeepAcceptInv DEF AInv
<1>4. CASE \E st \in Statements :
             CollectDeclare(st) \/ CollectParam(st) \/ CollectReference(st)
  BY <1>1, <1>2, <1>4, StatementsKeepAcceptInv DEF AInv
<1>5. CASE CollectDone
  BY <1>1, <1>2, <1>5, CollectDoneKeepsAcceptInv DEF AInv
<1>6. CASE Check
  BY <1>1, <1>2, <1>6, CheckKeepsAcceptInv DEF AInv
<1>7. CASE CheckDone
  BY <1>1, <1>2, <1>7, CheckDoneKeepsAcceptInv DEF AInv
<1>8. CASE Define
  BY <1>1, <1>2, <1>8, DefineKeepsAcceptInv DEF AInv
<1>9. CASE DefineDone
  BY <1>1, <1>2, <1>9, DefineDoneKeepsAcceptInv DEF AInv
<1>10. CASE Generate \/ GenerateDone
  BY <1>1, <1>2, <1>10, OthersKeepAcceptInv DEF AInv
<1>11. CASE UNCHANGED vars
  BY <1>1, <1>2, <1>11, StutterKeepsAcceptInv DEF AInv
<1> QED BY <1>3, <1>4, <1>5, <1>6, <1>7, <1>8, <1>9, <1>10, <1>11 DEF Next, Collect

\* A name that is visible has an innermost declaration.
LEMMA LexicalOfVisible ==
  ASSUME IInv, TextInv, NEW i \in 1..Len(program), NEW m
  PROVE  Visible(m, i) # {} <=> Lexical(m, i) # 0
<1>1. CASE Visible(m, i) = {}
  BY <1>1 DEF Lexical
<1>2. CASE Visible(m, i) # {}
  <2> DEFINE V == Visible(m, i)
             P == {program[d].parent : d \in V}
  <2>1. V \subseteq 1..Len(program) /\ Len(program) \in Nat
    BY EventFacts DEF Visible, Declarations
  <2>2. P \in SUBSET Scopes /\ P # {}
    BY <1>2, <2>1, EventFacts
  <2>3. PICK g \in P : \A x \in P : x <= g
    BY <2>2, GreatestExists
  <2>4. PICK d \in V : program[d].parent = g
    BY <2>3
  <2>5. \A o \in V : program[o].parent <= program[d].parent
    BY <2>3, <2>4
  <2>6. Lexical(m, i) \in V
    BY <1>2, <2>5 DEF Lexical
  <2> QED BY <1>2, <2>1, <2>6
<1> QED BY <1>1, <1>2

\* The reference event by event is the reference of ScopeProps.
LEMMA GoodIsResolved ==
  ASSUME IInv, TextInv PROVE Good <=> ~Redeclared /\ WellResolved
<1>1. Len(program) \in Nat /\ DOMAIN program = 1..Len(program)
  <2>1. program \in Seq(EventRecord)
    BY DEF IInv, TypeOK
  <2> QED BY <2>1
<1>2. (\A i \in 1..Len(program) : NewName(i)) <=> ~Redeclared
  <2>1. ASSUME Redeclared PROVE \E i \in 1..Len(program) : ~NewName(i)
    <3>1. PICK d, o \in Declarations :
            /\ d # o /\ program[d].name = program[o].name
            /\ program[d].parent = program[o].parent
      BY <2>1 DEF Redeclared
    <3>2. /\ d \in 1..Len(program) /\ o \in 1..Len(program)
          /\ Declaration(d) /\ Declaration(o)
      BY <1>1, <3>1 DEF Declarations, Declaration
    <3>3. d < o => ~NewName(o)
      BY <3>1, <3>2 DEF NewName
    <3>4. o < d => ~NewName(d)
      BY <3>1, <3>2 DEF NewName
    <3> QED BY <1>1, <3>1, <3>2, <3>3, <3>4
  <2>2. ASSUME NEW i \in 1..Len(program), ~NewName(i) PROVE Redeclared
    <3>1. PICK d \in 1..(i - 1) :
            /\ Declaration(d) /\ program[d].name = program[i].name
            /\ program[d].parent = program[i].parent /\ Declaration(i)
      BY <2>2 DEF NewName
    <3>2. d \in Declarations /\ i \in Declarations /\ d # i
      BY <1>1, <3>1 DEF Declarations, Declaration
    <3> QED BY <3>1, <3>2 DEF Redeclared
  <2> QED BY <2>1, <2>2
<1>3. \A i \in 1..Len(program) : \A m : Visible(m, i) # {} <=> Lexical(m, i) # 0
  BY LexicalOfVisible
<1>4. \A i \in 1..Len(program) :
        GoodAt(i) <=> /\ NewName(i)
                      /\ Reads(i) => Lexical(program[i].src, i) # 0
                      /\ program[i].op = "assign" => Lexical(program[i].name, i) # 0
  BY <1>3 DEF GoodAt
<1> QED BY <1>1, <1>2, <1>4 DEF Good, WellResolved

\* A program is accepted just if every name resolves by lexical scoping, types
\* agree and what is read has been written, unless a declaration shadows
\* another: for programs of any length, over any names and types, although
\* two passes never leave a scope they entered.
THEOREM AcceptsLexical == Spec => []AcceptsWhatScopingAccepts
<1>1. Init => AInv
  BY InitSInv, InitAcceptInv DEF AInv
<1>2. AInv => AcceptsWhatScopingAccepts
  <2> SUFFICES ASSUME AInv, Analysed, ~Shadows
               PROVE  Accepted <=> ~Redeclared /\ WellResolved /\ WellTyped /\ WrittenBeforeRead
    BY DEF AcceptsWhatScopingAccepts
  <2>1. IInv /\ TextInv /\ AcceptInv
    BY DEF AInv, SInv
  <2>2. DOMAIN program = 1..Len(program)
    <3>1. program \in Seq(EventRecord)
      BY <2>1 DEF IInv, TypeOK
    <3> QED BY <3>1
  <2>3. Good <=> ~Redeclared /\ WellResolved
    BY <2>1, GoodIsResolved
  <2>4. Typed <=> WellTyped
    BY <2>2 DEF Typed, TypedAt, WellTyped
  <2>5. Defined <=> WrittenBeforeRead
    BY <2>2 DEF Defined, DefinedAt, WrittenBeforeRead
  <2>6. Accepted => Good /\ Typed /\ Defined
    BY <2>1 DEF AcceptInv, Accepted, Generating
  <2>7. ~Accepted => ~(Good /\ Typed /\ Defined)
    BY <2>1 DEF AcceptInv, Accepted, Analysed
  <2> QED BY <2>3, <2>4, <2>5, <2>6, <2>7
<1> QED BY <1>1, <1>2, NextKeepsAInv, PTL DEF Spec

=============================================================================
