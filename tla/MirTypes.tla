------------------------------- MODULE MirTypes -------------------------------
(***************************************************************************)
(* Types of the mid-level intermediate representation and their check in a *)
(* module (lib/mir/src/types, lib/mir/src/analysis/type_check.rs).  The    *)
(* module has no state.                                                    *)
(*                                                                         *)
(* Where the code keeps types in expressions, they have one more field.    *)
(***************************************************************************)
EXTENDS Mir, TLC

\* The types of arguments and of the result of a function are its parts. A
\* record type has a name.
MirType(kind, name, parts) == [kind |-> kind, name |-> name, parts |-> parts]

BasicType(kind) == MirType(kind, <<>>, <<>>)
RecordType(name) == MirType("record", <<name>>, <<>>)
FunctionType(arguments, result) == MirType("function", <<>>, Append(arguments, result))

BooleanType == BasicType("boolean")
NoneType == BasicType("none")
NumberType == BasicType("number")
VariantType == BasicType("variant")

\* What the check of an expression that fails returns for a type.
WrongType == BasicType("wrong")

Typed(type, e) == e @@ [type |-> type]

\* The type that an alternative's name has.
AlternativeType(tags) ==
    IF Cardinality(tags) = 1 THEN CHOOSE tag \in tags : TRUE ELSE VariantType

-----------------------------------------------------------------------------
(* Checks *)

\* The types of the names in subexpression i.
ScopeTypes(e, i) ==
    LET Position(x) == CHOOSE k \in Scope(e, i) : e.binds[k] = x /\
                            \A l \in Scope(e, i) : e.binds[l] = x => l <= k
        At(j) == CASE e.kind = "let" -> e.type
                   [] e.kind = "try" -> e.tag
                   [] e.kind = "case" -> AlternativeType(e.tags[j])
                   [] e.kind = "let_recursive" -> IF j = 1 THEN e.type ELSE e.type.parts[j - 1]
    IN  [x \in BoundIn(e, i) |-> At(Position(x))]

FieldsFit(types, e, values) ==
    /\ e.type.name[1] \in DOMAIN types
    /\ values = types[e.type.name[1]]

\* The type of an expression whose subexpressions have the given ones, in a
\* function with a result of some type.
CheckedType(e, subs, result, types) ==
    LET Checked(condition, type) == IF condition THEN type ELSE WrongType
        defined == IF e.kind \in {"record", "field", "update"}
                      /\ e.type.name[1] \in DOMAIN types
                   THEN types[e.type.name[1]] ELSE <<>>
    IN  CASE e.kind = "literal" -> e.type
          [] e.kind = "operation" ->
                Checked(subs = <<NumberType, NumberType>>,
                        IF e.operator = "+" THEN NumberType ELSE BooleanType)
          [] e.kind = "call" ->
                Checked(subs[1] = e.type /\ Tail(subs) = Front(e.type.parts), Last(e.type.parts))
          [] e.kind = "if" -> Checked(subs[1] = BooleanType /\ subs[2] = subs[3], subs[2])
          [] e.kind = "let" -> Checked(subs[1] = e.type, subs[2])
          [] e.kind = "let_recursive" -> Checked(subs[1] = Last(e.type.parts), subs[2])
          [] e.kind = "case" ->
                Checked(/\ subs[1] = VariantType
                        /\ \A i \in DOMAIN e.tags : VariantType \notin e.tags[i]
                        /\ \A i \in 2 .. Len(subs) : subs[i] = subs[2],
                        subs[2])
          [] e.kind = "try" -> Checked(subs = <<VariantType, result>>, VariantType)
          [] e.kind = "record" -> Checked(FieldsFit(types, e, subs), e.type)
          [] e.kind = "field" ->
                Checked(subs = <<e.type>> /\ e.index \in DOMAIN defined, defined[e.index])
          [] e.kind = "update" ->
                Checked(/\ subs[1] = e.type
                        /\ \A i \in DOMAIN e.indices : subs[i + 1] = defined[e.indices[i]],
                        e.type)
          [] e.kind = "variant" ->
                Checked(e.tag # VariantType /\ subs = <<e.tag>>, VariantType)
          [] e.kind = "synchronize" -> Checked(subs[1] = e.type, e.type)

RECURSIVE CheckExpression(_, _, _, _)
CheckExpression(e, variables, result, types) ==
    LET ResultIn(i) == IF e.kind = "let_recursive" /\ i = 1 THEN Last(e.type.parts) ELSE result
        subs == Evaluated([i \in DOMAIN e.subs |->
                    CheckExpression(e.subs[i], ScopeTypes(e, i) @@ variables, ResultIn(i), types)])
    IN  CASE e.kind = "variable" ->
                IF e.name \in DOMAIN variables THEN variables[e.name] ELSE WrongType
          [] WrongType \in ToSet(subs) -> WrongType
          [] OTHER -> CheckedType(e, subs, result, types)

\* Whether a global function is of the type that it is declared with.
CheckFunction(f, variables, types) ==
    LET arguments == [x \in ToSet(f.arguments) |->
                        f.type.parts[CHOOSE i \in DOMAIN f.arguments : f.arguments[i] = x]]
    IN  CheckExpression(f.body, arguments @@ variables, Last(f.type.parts), types)
            = Last(f.type.parts)
=============================================================================
