----------------------------- MODULE HirAnalysis -----------------------------
(***************************************************************************)
(* The analysis of a module (lib/hir/src/analysis.rs): the inference of    *)
(* types, their checks, the checks of try operations and of errors that    *)
(* are not used, and the coercion to supertypes.                           *)
(*                                                                         *)
(* Where the code stops with an error, a type is NoType or a check FALSE;  *)
(* which error it is is left out.                                          *)
(***************************************************************************)
EXTENDS Hir

(* Types of expressions *)

\* The subexpressions of which one is the result.
Branches(e) ==
    CASE e.kind \in {"if", "if list"} -> {2, 3}
      [] e.kind = "if map" -> {3, 4}
      [] e.kind = "if type" -> 2 .. Len(e.subs)
      [] OTHER -> {}

FunctionResult(type) ==
    LET function == Canonicalize(type)
    IN  IF function.kind = "function" THEN ResultType(function) ELSE NoType

ListElement(type) ==
    LET list == Canonicalize(type)
    IN  IF list.kind = "list" THEN Element(list) ELSE NoType

\* The types of keys and of values.
EntryTypes(type) ==
    LET map == Canonicalize(type)
    IN  IF map.kind = "map" THEN <<MapKey(map), MapValue(map)>> ELSE <<NoType, NoType>>

RECURSIVE Extract(_, _)
ExtractBranches(e, variables) ==
    Union({Extract(e.subs[i], Scope(e, i, variables)) : i \in Branches(e)})

\* The type of an expression whose subexpressions have been inferred.
Extract(e, variables) ==
    CASE e.kind = "number" -> Number
      [] e.kind = "boolean" -> Boolean
      [] e.kind = "none" -> None
      [] e.kind = "variable" ->
            IF e.names[1] \in DOMAIN variables THEN variables[e.names[1]] ELSE NoType
      [] e.kind \in {"call", "built-in call"} -> FunctionResult(e.types[1])
      [] Branches(e) # {} -> ExtractBranches(e, variables)
      [] e.kind = "lambda" -> LambdaType(e)
      [] e.kind = "let" -> Extract(e.subs[2], Scope(e, 2, variables))
      [] e.kind \in {"list", "comprehension", "map comprehension"} -> List(e.types[1])
      [] e.kind = "map" -> Map(e.types[1], e.types[2])
      [] e.kind = "operation" -> IF e.names[1] = "+" THEN Number ELSE Boolean
      [] e.kind = "not" -> Boolean
      [] e.kind \in {"try", "construction", "update"} -> e.types[1]
      [] e.kind = "deconstruction" -> FieldType(e.types[1], e.names[1])
      [] e.kind = "thunk" -> Function(<<>>, e.types[1])
      [] e.kind = "coercion" -> e.types[2]

-----------------------------------------------------------------------------
(* Inference *)

ExtractSubs(e, variables) == [i \in DOMAIN e.subs |-> Extract(e.subs[i], variables)]

\* The type of a built-in function, as a call uses it.
BuiltInType(function, arguments) ==
    CASE function = "error" -> Function(<<AnyType>>, Error)
      [] function = "source" -> Function(<<Error>>, AnyType)
      [] function = "size" -> Function(arguments, Number)
      [] function = "spawn" /\ arguments = <<>> -> NoType
      [] function = "spawn" /\ arguments # <<>> -> Function(arguments, arguments[1])

\* An else branch is for what is left of the type of the argument.
BranchTypes(e, argument) ==
    CASE e.kind = "if list" -> <<ListElement(argument)>>
      [] e.kind = "if map" -> EntryTypes(argument)
      [] e.kind = "if type" /\ HasElse(e) ->
            Append(e.types, Difference(argument, Union(ToSet(e.types))))
      [] OTHER -> e.types

OperationTypes(e, subs) ==
    IF IsEqualityOperator(e.names[1]) THEN <<Union({subs[1], subs[2]})>> ELSE <<>>

\* What is left of a type after an error has been returned.  It is not any.
SuccessType(type) ==
    LET success == Difference(type, Error)
    IN  IF success = AnyType THEN NoType ELSE success

\* The types of an expression, from those of its subexpressions out of its scope.
InferTypes(e, subs) ==
    CASE e.kind \in {"call", "let", "deconstruction"} -> <<subs[1]>>
      [] e.kind = "built-in call" -> <<BuiltInType(e.names[1], subs)>>
      [] e.kind \in {"if list", "if map", "if type"} -> BranchTypes(e, subs[1])
      [] e.kind = "comprehension" -> Append(e.types, ListElement(subs[1]))
      [] e.kind = "map comprehension" -> e.types \o EntryTypes(subs[1])
      [] e.kind = "operation" -> OperationTypes(e, subs)
      [] e.kind = "try" -> <<SuccessType(subs[1])>>
      [] OTHER -> e.types

WithTypesInferred(e, variables) ==
    [e EXCEPT !.types = InferTypes(e, ExtractSubs(e, variables))]

RECURSIVE Infer(_, _)
InferOuter(e, variables) ==
    [e EXCEPT !.subs = Evaluated([i \in DOMAIN @ |->
        IF IsInner(e, i) THEN @[i] ELSE Infer(@[i], variables)])]

InferInner(e, variables) ==
    [e EXCEPT !.subs = Evaluated([i \in DOMAIN @ |->
        IF IsInner(e, i) THEN Infer(@[i], Scope(e, i, variables)) ELSE @[i]])]

\* What an expression binds has a type before the expressions that use it are looked at.
Infer(e, variables) ==
    InferInner(WithTypesInferred(InferOuter(e, variables), variables), variables)

RECURSIVE IsKnown(_), IsInferred(_)
IsKnown(type) ==
    /\ type # NoType
    /\ \A i \in DOMAIN type.parts : IsKnown(type.parts[i])
    /\ \A member \in type.members : IsKnown(member)

\* Whether the inference has found all types.
IsInferred(e) ==
    /\ \A i \in DOMAIN e.types : IsKnown(e.types[i])
    /\ \A i \in DOMAIN e.subs : IsInferred(e.subs[i])

-----------------------------------------------------------------------------
(* Checks of types *)

SubtypesOf(types, upper) == \A i \in DOMAIN types : Subsumes(types[i], upper)

PairwiseSubtypes(lowers, uppers) ==
    /\ Len(lowers) = Len(uppers)
    /\ \A i \in DOMAIN lowers : Subsumes(lowers[i], uppers[i])

IsFunctionCall(arguments, type) ==
    /\ Canonicalize(type).kind = "function"
    /\ PairwiseSubtypes(arguments, ArgumentTypes(Canonicalize(type)))

CheckBuiltIn(function, arguments) ==
    CASE function = "size" ->
            Len(arguments) = 1 /\ Canonicalize(arguments[1]).kind \in {"list", "map"}
      [] function = "spawn" ->
            /\ Len(arguments) = 1
            /\ Canonicalize(arguments[1]).kind = "function"
            /\ ArgumentTypes(Canonicalize(arguments[1])) = <<>>
      [] OTHER -> TRUE

\* Mutant of CheckIfType: branches need not be for all types of the argument.
CheckIfTypePartly(e, argument) ==
    /\ IsVariant(Canonicalize(argument))
    /\ \A i \in 1 .. e.n : Subsumes(e.types[i], argument) /\ Canonicalize(e.types[i]) # AnyType

\* Branches are for some of the types of the argument, and without an else
\* branch for all of them.
CheckIfType(e, argument) ==
    /\ IsVariant(Canonicalize(argument))
    /\ \A i \in 1 .. e.n : Subsumes(e.types[i], argument) /\ Canonicalize(e.types[i]) # AnyType
    /\ HasElse(e) \/ EqualTypes(argument, Union(ToSet(e.types)))

CheckCondition(e, argument) ==
    CASE e.kind = "if" -> Subsumes(argument, Boolean)
      [] e.kind = "if list" -> Subsumes(argument, List(e.types[1]))
      [] e.kind = "if type" -> CheckIfType(e, argument)

CheckIfMap(e, types) ==
    Subsumes(types[2], e.types[1]) /\ Subsumes(types[1], Map(e.types[1], e.types[2]))

CheckComprehension(e, types) ==
    Subsumes(types[2], e.types[1]) /\ Subsumes(types[1], List(e.types[2]))

CheckMapComprehension(e, types) ==
    Subsumes(types[2], e.types[1]) /\ Subsumes(types[1], Map(e.types[2], e.types[3]))

CheckElements(e, types) ==
    \A i \in DOMAIN types :
        IF e.names[i] = "..."
        THEN /\ Canonicalize(types[i]).kind = "list"
             /\ Subsumes(ListElement(types[i]), e.types[1])
        ELSE Subsumes(types[i], e.types[1])

CheckMapElements(e, types) ==
    \A i \in DOMAIN types :
        IF e.names[i] = "..."
        THEN /\ Canonicalize(types[i]).kind = "map"
             /\ PairwiseSubtypes(EntryTypes(types[i]), e.types)
        ELSE Subsumes(types[i], IF e.names[i] = "value" THEN e.types[2] ELSE e.types[1])

CheckOperation(e, types) ==
    CASE e.names[1] \in {"+", "<"} -> SubtypesOf(types, Number)
      [] e.names[1] \in {"and", "or"} -> SubtypesOf(types, Boolean)
      [] IsEqualityOperator(e.names[1]) ->
            /\ SubtypesOf(types, e.types[1])
            /\ Subsumes(types[1], types[2]) \/ Subsumes(types[2], types[1])

CheckTry(success, union) ==
    /\ Subsumes(Error, union)
    /\ Subsumes(success, union)
    /\ Subsumes(union, Union({success, Error}))

CheckFields(record, names, types) ==
    /\ Canonicalize(record).kind = "record"
    /\ \A i \in DOMAIN names : /\ names[i] \in FieldNames(record)
                               /\ Subsumes(types[i], FieldType(record, names[i]))

CheckCoercion(e, argument) ==
    /\ Subsumes(argument, e.types[1])
    /\ Canonicalize(e.types[2]).kind \in {"list", "map"} \/ Subsumes(e.types[1], e.types[2])

\* Whether an expression fits its subexpressions of the given types.
IsWellTyped(e, types, variables) ==
    CASE e.kind = "variable" -> e.names[1] \in DOMAIN variables
      [] e.kind = "call" ->
            IsFunctionCall(Tail(types), e.types[1]) /\ Subsumes(types[1], e.types[1])
      [] e.kind = "built-in call" ->
            IsFunctionCall(types, e.types[1]) /\ CheckBuiltIn(e.names[1], types)
      [] e.kind \in {"if", "if list", "if type"} -> CheckCondition(e, types[1])
      [] e.kind = "if map" -> CheckIfMap(e, types)
      [] e.kind = "not" -> Subsumes(types[1], Boolean)
      [] e.kind = "lambda" -> Subsumes(types[1], Last(e.types))
      [] e.kind \in {"let", "thunk"} -> Subsumes(types[1], e.types[1])
      [] e.kind = "list" -> CheckElements(e, types)
      [] e.kind = "comprehension" -> CheckComprehension(e, types)
      [] e.kind = "map" -> CheckMapElements(e, types)
      [] e.kind = "map comprehension" -> CheckMapComprehension(e, types)
      [] e.kind = "operation" -> CheckOperation(e, types)
      [] e.kind = "try" -> CheckTry(e.types[1], types[1])
      [] e.kind = "construction" ->
            CheckFields(e.types[1], e.names, types) /\ FieldNames(e.types[1]) = ToSet(e.names)
      [] e.kind = "deconstruction" ->
            Subsumes(types[1], e.types[1]) /\ e.names[1] \in FieldNames(e.types[1])
      [] e.kind = "update" ->
            Subsumes(types[1], e.types[1]) /\ CheckFields(e.types[1], e.names, Tail(types))
      [] e.kind = "coercion" -> CheckCoercion(e, types[1])
      [] OTHER -> TRUE

RECURSIVE CheckTypes(_, _)
CheckTypes(e, variables) ==
    LET types == Evaluated([i \in DOMAIN e.subs |->
                            Extract(e.subs[i], Scope(e, i, variables))])
    IN  /\ \A i \in DOMAIN e.subs : CheckTypes(e.subs[i], Scope(e, i, variables))
        /\ IsWellTyped(e, types, variables)

-----------------------------------------------------------------------------
(* Checks of errors *)

RECURSIVE ValidTries(_, _), ErrorsAreUsed(_)
\* Mutant of ValidTries: lists may hold try operations, whose elements are
\* evaluated when there is no function left to return from.
ValidTriesInLists(e, result) ==
    LET InSubs(type) == \A i \in DOMAIN e.subs : ValidTries(e.subs[i], type)
    IN  CASE e.kind = "lambda" -> InSubs(Last(e.types))
          [] e.kind = "try" -> Subsumes(Error, result) /\ InSubs(result)
          [] OTHER -> InSubs(result)

\* Functions with try operations have results that can be errors. There are none
\* in lists, whose elements are evaluated later.
ValidTries(e, result) ==
    LET InSubs(type) == \A i \in DOMAIN e.subs : ValidTries(e.subs[i], type)
    IN  CASE e.kind = "lambda" -> InSubs(Last(e.types))
          [] e.kind = "thunk" -> InSubs(e.types[1])
          [] e.kind \in {"list", "comprehension", "map comprehension"} -> InSubs(NoType)
          [] e.kind = "try" -> Subsumes(Error, result) /\ InSubs(result)
          [] OTHER -> InSubs(result)

\* A value that nobody uses is not an error, unless it can be anything.
ErrorsAreUsed(e) ==
    /\ (e.kind = "let" /\ e.names = <<"">>) =>
            Canonicalize(e.types[1]) = AnyType \/ ~ Subsumes(Error, e.types[1])
    /\ \A i \in DOMAIN e.subs : ErrorsAreUsed(e.subs[i])

-----------------------------------------------------------------------------
(* Coercion *)

ExpectedArgument(e, i) ==
    LET arguments == ArgumentTypes(Canonicalize(e.types[1]))
    IN  IF e.kind = "built-in call" THEN arguments[i]
        ELSE IF i > 1 THEN arguments[i - 1] ELSE NoType

ExpectedElement(e, i) ==
    CASE e.kind = "list" -> IF e.names[i] = "..." THEN List(e.types[1]) ELSE e.types[1]
      [] e.kind \in {"comprehension", "map comprehension"} ->
            IF i = 2 THEN e.types[1] ELSE NoType

ExpectedKeyOrValue(e, i) ==
    CASE e.kind = "map" /\ e.names[i] = "..." -> Map(e.types[1], e.types[2])
      [] e.kind = "map" /\ e.names[i] = "value" -> e.types[2]
      [] OTHER -> e.types[1]

ExpectedOperand(e) == IF IsEqualityOperator(e.names[1]) THEN e.types[1] ELSE NoType

ExpectedField(e, i) ==
    CASE e.kind = "construction" -> FieldType(e.types[1], e.names[i])
      [] e.kind = "update" ->
            IF i > 1 THEN FieldType(e.types[1], e.names[i - 1]) ELSE NoType

\* The type that subexpression i is coerced to, if it is to any.
ExpectedType(e, i, variables) ==
    CASE e.kind \in {"call", "built-in call"} -> ExpectedArgument(e, i)
      [] i \in Branches(e) -> Extract(e, variables)
      [] e.kind = "lambda" -> Last(e.types)
      [] e.kind \in {"list", "comprehension", "map comprehension"} -> ExpectedElement(e, i)
      [] e.kind = "map" \/ (e.kind = "if map" /\ i = 2) -> ExpectedKeyOrValue(e, i)
      [] e.kind = "operation" -> ExpectedOperand(e)
      [] e.kind \in {"construction", "update"} -> ExpectedField(e, i)
      [] e.kind = "thunk" -> e.types[1]
      [] OTHER -> NoType

CoerceTo(e, type, variables) ==
    LET lower == Extract(e, variables)
    IN  IF type = NoType \/ EqualTypes(lower, type) THEN e
        ELSE Coercion(lower, type, e)

RECURSIVE Coerce(_, _)
\* Mutant of Coerce: what is coerced is looked at outside of its scope.
CoerceOutside(e, variables) ==
    LET Coerced(i, inner) ==
            CoerceTo(Coerce(e.subs[i], inner), ExpectedType(e, i, variables), variables)
    IN  [e EXCEPT !.subs = Evaluated([i \in DOMAIN @ |-> Coerced(i, Scope(e, i, variables))])]

Coerce(e, variables) ==
    LET Coerced(i, inner) ==
            CoerceTo(Coerce(e.subs[i], inner), ExpectedType(e, i, variables), inner)
    IN  [e EXCEPT !.subs = Evaluated([i \in DOMAIN @ |-> Coerced(i, Scope(e, i, variables))])]
=============================================================================
