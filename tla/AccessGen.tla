------------------------------ MODULE AccessGen ------------------------------
(***************************************************************************)
(* Member accesses, indexing, method calls and increments.  One statement  *)
(* is checked and then generated.  The type checker keeps the type an      *)
(* access has reached on a stack of its own for each access; the           *)
(* generator keeps it in one variable, lastFieldType, that accesses within *)
(* arguments and indices share with the access around them.                *)
(*                                                                         *)
(* The statement is a sequence of the listener's events, in the order of   *)
(* the walk: the type checker's pass chooses them, and the generator's     *)
(* replays them.  A field's last event includes the exit of its access.    *)
(***************************************************************************)
EXTENDS Integers, Sequences, FiniteSets, SequencesExt

CONSTANTS
  MaxEvents,  \* bound: events of the statement
  Contexts,   \* where it stands: records [method, locals], whether that is in
              \* a method of the struct S, and the types of the local variables
  Uses        \* what kinds of statement it may be

-----------------------------------------------------------------------------
(* The program around it: two structs with a method each, and a function.  *)

None    == "none"
Structs == {"S", "T"}
Arrays  == {"T[]", "int[]"}
Types   == {"int", "S*"} \cup Structs \cup Arrays

Fields ==
  [S |-> [n |-> "int", t |-> "T", ts |-> "T[]"],
   T |-> [n |-> "int", s |-> "S", ns |-> "int[]"]]

Element(array)   == IF array = "T[]" THEN "T" ELSE "int"
Pointed(pointer) == "S"

\* get(int), of S and of T, and the function twice(int).
Functions == {"get", "twice"}
Returned(owner) == CASE owner = "S" -> "T" [] owner = "T" -> "S" [] OTHER -> "int"

Names == UNION {DOMAIN Fields[struct] : struct \in Structs}

ASSUME ConstantsAssumption ==
  /\ MaxEvents \in Nat
  /\ Uses \subseteq {"declare", "assign", "target", "element"}
  /\ \A where \in Contexts :
       /\ where.method \in BOOLEAN
       /\ \A name \in DOMAIN where.locals : where.locals[name] \in Types
       /\ where.method => where.locals["this"] = "S"

VARIABLES
  phase,    \* see Phases
  where,    \* the context the statement is in
  use,      \* its kind
  events,   \* the walk
  open,     \* the contexts the type checker is in, the outermost first
  value,    \* the type of the operand just exited, None if one is to come
  next,     \* the event the generator comes to next
  lastFieldType,
  code      \* currentFunction->instructions

vars == <<phase, where, use, events, open, value, next, lastFieldType, code>>

Phases == {"checking", "generating", "done", "rejected", "aborted"}

\* Frames of open: `base` is the type an access has reached, or what a call or
\* an index is applied to; `field` says that it is a field of an access, and
\* `node` is the event that entered a call or an index.
Frame(kind, name, base, field, node) ==
  [kind |-> kind, name |-> name, base |-> base, field |-> field, node |-> node]

\* The exit of a call or an index has the `node` of its enter.
Event(kind, name, base, type) ==
  [kind |-> kind, name |-> name, base |-> base, type |-> type, field |-> FALSE,
   last |-> FALSE, arrow |-> FALSE, target |-> FALSE, node |-> 0]

\* Scope::resolve of a variable, from the scope of the statement.
IsLocal(name)  == name \in DOMAIN where.locals
IsMember(name) == where.method /\ ~IsLocal(name) /\ name \in DOMAIN Fields["S"]

VariableType(name) ==
  CASE IsLocal(name) -> where.locals[name]
    [] IsMember(name) -> Fields["S"][name]
    [] OTHER -> None

Variables == {name \in Names \cup DOMAIN where.locals : VariableType(name) # None}

\* The class that has the function a name means: in a scope, in a struct.
FunctionHere(name) ==
  CASE name = "twice" -> "Main"
    [] name = "get" /\ where.method -> "S"
    [] OTHER -> None

FunctionOf(struct, name) == IF name = "get" THEN struct ELSE "Main"

-----------------------------------------------------------------------------
(* The type checker.                                                       *)

Init ==
  /\ phase = "checking"
  /\ where \in Contexts
  /\ use \in Uses
  /\ events = <<>>
  /\ open = <<Frame("statement", None, None, FALSE, 0)>>
  /\ value = None
  /\ next = 1
  /\ lastFieldType = None
  /\ code = <<>>

Top      == Last(open)
IsRoot   == Len(open) = 1
InAccess == Top.kind = "access"

\* The target of an assignment is the access, or the index expression, that
\* comes first.
IsTarget(frames) == use = "target" /\ Len(frames) = 2
IsLeftSide(frames) == use = "element" /\ Len(frames) = 2

\* An operand may begin here; its kind is free except for a target.
OperandMayBegin(kind) ==
  /\ phase = "checking" /\ value = None /\ ~InAccess
  /\ IsRoot /\ use = "target" => kind = "access"
  /\ IsRoot /\ use = "element" => kind = "index"

FieldMayBegin == phase = "checking" /\ value = None /\ InAccess

Unchecked == <<where, use, next, lastFieldType, code>>

\* The events that will at least be needed to leave the open contexts.
Needed(frames) ==
  Cardinality({d \in 2..Len(frames) : frames[d].kind = "access" => d = Len(frames)})
    + Cardinality({d \in DOMAIN frames : frames[d].kind = "access" /\ frames[d].base = None})

\* The bound leaves room for them, and for an operand if there is none yet.
Room ==
  LET operand == IF value' = None /\ Last(open').kind # "access" THEN 1 ELSE 0
  IN  Len(events') + Needed(open') + operand <= MaxEvents

Record(event) == events' = Append(events, event)

Reject ==
  /\ phase' = "rejected"
  /\ UNCHANGED <<events, open, value>> /\ UNCHANGED Unchecked

CheckLiteral ==
  /\ OperandMayBegin("literal")
  /\ Record(Event("literal", None, None, "int"))
  /\ value' = "int"
  /\ UNCHANGED <<phase, open>> /\ UNCHANGED Unchecked /\ Room

\* exitVariable
CheckVariable(name) ==
  /\ OperandMayBegin("variable")
  /\ Record(Event("variable", name, None, VariableType(name)))
  /\ value' = VariableType(name)
  /\ UNCHANGED <<phase, open>> /\ UNCHANGED Unchecked /\ Room

\* exitPostfix_expression of an identifier
CheckPostfixVariable(name) ==
  /\ OperandMayBegin("postfix")
  /\ IF VariableType(name) = "int"
     THEN /\ Record(Event("postfixVariable", name, None, "int"))
          /\ value' = "int"
          /\ UNCHANGED <<phase, open>> /\ UNCHANGED Unchecked /\ Room
     ELSE Reject

\* enterField_access, and the operators that take any operand.
Open(kind) ==
  /\ IF kind = "paren" THEN FieldMayBegin /\ Top.base = None ELSE OperandMayBegin(kind)
  /\ open' = Append(open, Frame(kind, None, None, FALSE, 0))
  /\ UNCHANGED <<phase, events, value>> /\ UNCHANGED Unchecked /\ Room

\* A call, as an operand or as a field.
EnterCall(name) ==
  /\ OperandMayBegin("call") \/ FieldMayBegin
  /\ LET base == IF InAccess THEN Top.base ELSE None IN
     /\ Record([Event("enterCall", name, base, None) EXCEPT !.field = InAccess])
     /\ open' = Append(open, Frame("call", name, base, InAccess, Len(events) + 1))
  /\ UNCHANGED <<phase, value>> /\ UNCHANGED Unchecked /\ Room

\* getFieldType: any member of an array is an element.
FieldType(base, name) ==
  CASE base \in Structs /\ name \in DOMAIN Fields[base] -> Fields[base][name]
    [] base \in Arrays -> Element(base)
    [] OTHER -> None

\* The type of what is indexed: exitIndexable.  Not indexed here are pointers, and
\* expressions in parentheses: at one of those enterIndexable follows a null
\* pointer, whatever is in it.
IndexedType(name) ==
  IF InAccess /\ Top.base # None THEN FieldType(Top.base, name) ELSE VariableType(name)

EnterIndex(name) ==
  /\ OperandMayBegin("index") \/ FieldMayBegin
  /\ IndexedType(name) \in Arrays
  /\ Record([Event("enterIndex", name, IF InAccess THEN Top.base ELSE None,
                   IndexedType(name)) EXCEPT !.field = InAccess])
  /\ open' = Append(open, Frame("index", name, IndexedType(name), InAccess,
                                Len(events) + 1))
  /\ UNCHANGED <<phase, value>> /\ UNCHANGED Unchecked /\ Room

\* exitField, and exitField_access after the last one.
FieldDone(event, frames, last, arrow) ==
  LET type == IF arrow THEN Pointed(event.type) ELSE event.type IN
  /\ last => Last(frames).base # None /\ ~arrow
  /\ IF event.type = None \/ (arrow /\ event.type # "S*") THEN Reject
     ELSE /\ Record([event EXCEPT !.field = TRUE, !.last = last, !.arrow = arrow,
                                  !.base = Last(frames).base, !.target = IsTarget(frames)])
          /\ open' = IF last THEN Front(frames)
                             ELSE [frames EXCEPT ![Len(frames)].base = type]
          /\ value' = IF last THEN type ELSE None
          /\ UNCHANGED phase /\ UNCHANGED Unchecked /\ Room

CheckIdentifier(name, last, arrow) ==
  /\ FieldMayBegin
  /\ FieldDone(Event("identifier", name, None,
                     IF Top.base = None THEN VariableType(name) ELSE FieldType(Top.base, name)),
               open, last, arrow)

\* The operand of the innermost context is complete.
OperandOf(kind) == phase = "checking" /\ value # None /\ Top.kind = kind

OperandDone(event) ==
  /\ Record(event)
  /\ open' = Front(open)
  /\ value' = event.type
  /\ UNCHANGED phase /\ UNCHANGED Unchecked /\ Room

\* exitFunction_call: the base of a call that is a field must be a struct, so
\* a call cannot come first.
CheckCall(last, arrow) ==
  /\ OperandOf("call")
  /\ LET owner == CASE Top.field /\ Top.base \in Structs -> FunctionOf(Top.base, Top.name)
                    [] Top.field /\ Top.base \notin Structs -> None
                    [] OTHER -> FunctionHere(Top.name)
         event == [Event("exitCall", Top.name, None, Returned(owner)) EXCEPT
                     !.node = Top.node]
     IN
     IF owner = None \/ value # "int" THEN Reject
     ELSE IF Top.field THEN FieldDone(event, Front(open), last, arrow)
     ELSE ~last /\ ~arrow /\ OperandDone(event)

\* exitIndex_expression
CheckIndex(last, arrow) ==
  /\ OperandOf("index")
  /\ LET event == [Event("exitIndex", Top.name, None, Element(Top.base)) EXCEPT
                     !.target = IsLeftSide(open), !.node = Top.node]
     IN
     IF value # "int" THEN Reject
     ELSE IF Top.field THEN FieldDone(event, Front(open), last, arrow)
     ELSE ~last /\ ~arrow /\ OperandDone(event)

CheckParen(arrow) ==
  /\ OperandOf("paren")
  /\ FieldDone(Event("paren", None, None, value), Front(open), FALSE, arrow)

\* exitUnary_expression and exitPostfix_expression: the operand of ++ need
\* only be a number.  The name is that of a variable, if it is one.
CheckIncrement(kind) ==
  /\ OperandOf(kind)
  /\ IF value # "int" THEN Reject
     ELSE OperandDone(Event(kind, IF Last(events).kind = "variable" THEN Last(events).name
                                                                    ELSE None, None, "int"))

\* Mutation: the type checker is left in the middle of an expression.
CheckStatementAnywhere ==
  /\ phase = "checking" /\ value # None
  /\ phase' = "generating"
  /\ UNCHANGED <<events, open, value>> /\ UNCHANGED Unchecked

\* The end of the type checker's pass, which has reported nothing.
CheckStatement ==
  /\ phase = "checking" /\ value # None /\ IsRoot
  /\ phase' = "generating"
  /\ UNCHANGED <<events, open, value>> /\ UNCHANGED Unchecked

-----------------------------------------------------------------------------
(* The generator.                                                          *)

Instr(op, owner, name) == [op |-> op, owner |-> owner, name |-> name]

This               == Instr("load", None, "this")
GetField(owner, f) == Instr("getfield", owner, f)
PutField(owner, f) == Instr("putfield", owner, f)

\* An exception, or a null pointer that is followed.
Throw == <<Instr("throw", None, None)>>

LoadVariable(name) ==
  IF IsMember(name) THEN <<This, GetField("S", name)>> ELSE <<Instr("load", None, name)>>

\* getArrayOperationInstruction
ArrayLoad(type)  == Instr(IF type = "int" THEN "iaload" ELSE "aaload", None, None)
ArrayStore(type) == Instr(IF type = "int" THEN "iastore" ELSE "aastore", None, None)

\* enterFunction_call and exitFunction_call both look the function up, in the
\* struct an access has reached, if one is open.
Called(name) ==
  CASE lastFieldType = None -> FunctionHere(name)
    [] lastFieldType \in Structs -> FunctionOf(lastFieldType, name)
    [] OTHER -> None

EnterCallCode(e) ==
  CASE Called(e.name) = None -> Throw
    [] Called(e.name) \in Structs /\ where.method -> <<This>>
    [] OTHER -> <<>>

ExitCallCode(e) ==
  IF Called(e.name) = None THEN Throw ELSE <<Instr("invoke", Called(e.name), e.name)>>

\* Mutation: a pointer is taken for what it points to.
DereferenceNothing(e) == <<>>

\* generateDereference deals with pointers to primitives only, and they have
\* no members.
Dereference(e) == IF e.arrow THEN Throw ELSE <<>>

Member(name) ==
  IF lastFieldType \in Structs /\ name \in DOMAIN Fields[lastFieldType]
  THEN <<GetField(lastFieldType, name)>> ELSE Throw

\* exitField
FieldCode(e) ==
  CASE lastFieldType = None ->
         (IF e.kind = "identifier" THEN LoadVariable(e.name) ELSE <<>>) \o Dereference(e)
    [] lastFieldType # None /\ e.target /\ e.last -> <<>>
    [] lastFieldType # None /\ ~(e.target /\ e.last) ->
         (CASE lastFieldType \notin Structs \/ e.kind = "paren" -> Throw
            [] lastFieldType \in Structs /\ e.kind = "identifier" -> Member(e.name)
            [] lastFieldType \in Structs /\ e.kind = "exitIndex" /\ ~e.last ->
                 <<ArrayLoad(lastFieldType)>>
            [] OTHER -> <<>>) \o Dereference(e)

\* Mutation: an access keeps the type it has reached.
FieldTypeAfterKeeps(e) == e.type

\* lastFieldType after exitField, and exitField_access if it was the last.
FieldTypeAfter(e) ==
  CASE e.last -> None
    [] ~e.last /\ e.kind = "identifier" /\ lastFieldType \in Structs ->
         IF e.name \in DOMAIN Fields[lastFieldType] THEN Fields[lastFieldType][e.name] ELSE None
    [] OTHER -> e.type

\* enterField and enterIndexable
EnterIndexCode(e) ==
  (IF e.field /\ lastFieldType # None THEN Member(e.name) ELSE <<>>)
    \o (IF VariableType(e.name) \in Structs \cup {None} THEN <<>> ELSE LoadVariable(e.name))

\* Mutation: what is left of an assignment is loaded too.
IndexLoadOnTheLeft(e) ==
  IF use = "declare" \/ lastFieldType = None
  THEN <<ArrayLoad(e.type)>> ELSE <<>>

\* exitExpression, of the index: the element is loaded unless it is assigned
\* to.  Anything in an assignment, its right side too, may be.
IndexLoad(e) ==
  IF use = "declare" \/ (lastFieldType = None /\ ~(e.target /\ ~e.field))
  THEN <<ArrayLoad(e.type)>> ELSE <<>>

Increment == Instr("increment", None, None)

StoreIncremented(name) ==
  CASE IsMember(name) -> <<Instr("dup_x1", None, None), Increment, PutField("S", name)>>
    [] OTHER -> <<Instr("dup", None, None), Increment, Instr("store", None, name)>>

\* exitPostfix_expression
PostfixCode(name) ==
  (IF IsMember(name) THEN <<This>> ELSE <<>>) \o LoadVariable(name) \o StoreIncremented(name)

\* exitUnary_expression
PrefixCode(name) ==
  CASE name = None -> Throw
    [] IsMember(name) -> <<Increment, Instr("dup_x1", None, None), PutField("S", name)>>
    [] OTHER -> <<Increment, Instr("dup", None, None), Instr("store", None, name)>>

EventCode(e) ==
  CASE e.kind = "literal" -> <<Instr("const", None, None)>>
    [] e.kind = "variable" -> LoadVariable(e.name)
    [] e.kind = "postfixVariable" -> PostfixCode(e.name)
    [] e.kind = "prefix" -> PrefixCode(e.name)
    [] e.kind = "enterCall" -> EnterCallCode(e)
    [] e.kind = "enterIndex" -> EnterIndexCode(e)
    [] e.kind = "exitCall" -> ExitCallCode(e) \o (IF e.field THEN FieldCode(e) ELSE <<>>)
    [] e.kind = "exitIndex" -> IndexLoad(e) \o (IF e.field THEN FieldCode(e) ELSE <<>>)
    [] e.kind \in {"identifier", "paren"} -> FieldCode(e)
    [] OTHER -> <<>>

\* exitVariable_declaration and exitAssignment_statement; the right side of
\* an assignment to an access is a variable.
StatementCode ==
  LET e == Last(events)
      rhs == Instr("load", value, "rhs")
  IN
  CASE use \in {"declare", "assign"} -> <<Instr("store", None, "v")>>
    [] use = "element" -> <<rhs, ArrayStore(value)>>
    [] use = "target" /\ e.base \in Structs /\ e.kind = "identifier" ->
         <<rhs, PutField(e.base, e.name)>>
    [] use = "target" /\ e.base \in Structs /\ e.kind = "exitIndex" ->
         <<rhs, ArrayStore(value)>>
    [] OTHER -> <<rhs>>

Throws(instructions) == \E i \in DOMAIN instructions : instructions[i].op = "throw"

GenerateEvent ==
  /\ phase = "generating" /\ next <= Len(events)
  /\ LET e == events[next] IN
     IF Throws(EventCode(e))
     THEN phase' = "aborted" /\ UNCHANGED <<lastFieldType, code>>
     ELSE /\ code' = code \o EventCode(e)
          /\ lastFieldType' = IF e.field /\ e.kind \notin {"enterCall", "enterIndex"}
                              THEN FieldTypeAfter(e) ELSE lastFieldType
          /\ UNCHANGED phase
  /\ next' = next + 1
  /\ UNCHANGED <<where, use, events, open, value>>

GenerateStatement ==
  /\ phase = "generating" /\ next = Len(events) + 1
  /\ phase' = "done"
  /\ code' = code \o StatementCode
  /\ UNCHANGED <<where, use, events, open, value, next, lastFieldType>>

Next ==
  \/ CheckLiteral
  \/ \E name \in Variables : CheckVariable(name) \/ CheckPostfixVariable(name)
  \/ \E kind \in {"access", "paren", "prefix", "postfix"} : Open(kind)
  \/ \E name \in Functions : EnterCall(name)
  \/ \E name \in Names \cup DOMAIN where.locals : EnterIndex(name)
  \/ \E name \in Names \cup DOMAIN where.locals, last, arrow \in BOOLEAN :
       CheckIdentifier(name, last, arrow)
  \/ \E last, arrow \in BOOLEAN : CheckCall(last, arrow) \/ CheckIndex(last, arrow)
  \/ \E arrow \in BOOLEAN : CheckParen(arrow)
  \/ \E kind \in {"prefix", "postfix"} : CheckIncrement(kind)
  \/ CheckStatement \/ GenerateEvent \/ GenerateStatement

Spec == Init /\ [][Next]_vars

=============================================================================
