-------------------------------- MODULE HirMir --------------------------------
(***************************************************************************)
(* The compilation of an analyzed module to the mid-level representation   *)
(* (lib/hir-mir): transformations of expressions to simpler ones, which    *)
(* call functions of the prelude, the functions that compare and hash      *)
(* values, and the compilation of types, expressions and functions.        *)
(*                                                                         *)
(* What the code generates has $ in its name, or a type next to it.        *)
(***************************************************************************)
EXTENDS HirAnalysis

M == INSTANCE MirTypes

(* Types *)

\* The records of the prelude that stand for lists, maps and errors, for what compares keys
\* and values of a map, for a value that is not there, and for the rest of a map.
AnyList == Record("List")
AnyMap == Record("Map")
MapContextRecord == Record("MapContext")
EmptyRecord == Record("Empty")
MapIterator == Record("MapIterator")
FirstRest == Record("FirstRest")
ErrorRecord == Record("Error")
AnyThunk == Function(<<>>, AnyType)
ListThunk == Function(<<>>, AnyList)

RECURSIVE CompileType(_)
CompileCanonical(type) ==
    CASE IsVariant(type) -> M!VariantType
      [] type.kind = "function" ->
            M!MirType("function", <<>>, [i \in DOMAIN type.parts |-> CompileType(type.parts[i])])
      [] type.kind = "list" -> M!RecordType(AnyList)
      [] type.kind = "map" -> M!RecordType(AnyMap)
      [] type.kind = "error" -> M!RecordType(ErrorRecord)
      [] type.kind = "record" -> M!RecordType(type)
      [] OTHER -> M!BasicType(type.kind)

CompileType(type) == CompileCanonical(Canonicalize(type))

IsGeneric(type) == type.kind \in {"function", "list", "map"}

\* The tag of a value in a variant. Functions, lists and maps are put in records that
\* tell their types apart.
ConcreteType(type) == IF IsGeneric(type) THEN M!RecordType(type) ELSE CompileType(type)

-----------------------------------------------------------------------------
(* Transformations *)

CallOf(type, function, arguments) == WithTypes(Call(function, arguments), <<type>>)

PreludeCall(x, arguments, result, values) ==
    CallOf(Function(arguments, result), Variable(x), values)

LetOf(x, type, bound, e) == WithTypes(Let(x, bound, e), <<type>>)

Downcast(type, e) ==
    IF EqualTypes(type, AnyType) THEN e
    ELSE IfType("$value", e, <<type>>, <<Variable("$value")>>)

\* The first element stays in its thunk, which gets a type.
TransformIfList(e) ==
    LET element == e.types[1]
        x == e.names[1]
        FirstRestVariable == Variable("$firstRest")
        first == PreludeCall("First", <<FirstRest>>, AnyThunk, <<FirstRestVariable>>)
        typed == LetOf(x, AnyThunk, first,
                       Lambda(<<>>, <<>>, element,
                              Downcast(element, CallOf(AnyThunk, Variable(x), <<>>))))
        rest == PreludeCall("Rest", <<FirstRest>>, AnyList, <<FirstRestVariable>>)
    IN  IfType("$firstRest",
               PreludeCall("FirstRest", <<AnyList>>, Union({FirstRest, None}), <<e.subs[1]>>),
               <<FirstRest, None>>,
               <<LetOf(x, Function(<<>>, element),
                       IF EqualTypes(element, AnyType) THEN first ELSE typed,
                       LetOf(e.names[2], AnyList, rest, e.subs[2])),
                 e.subs[3]>>)

\* Elements and lists whose elements are spread are evaluated when they are used.
TransformList(e) ==
    LET Prepended(i, rest) ==
            IF e.names[i] = "..."
            THEN PreludeCall("ConcatenateLists", <<ListThunk, AnyList>>, AnyList,
                             <<Thunk(AnyList, e.subs[i]), rest>>)
            ELSE PreludeCall("PrependToList", <<AnyThunk, AnyList>>, AnyList,
                             <<Thunk(AnyType, Coercion(e.types[1], AnyType, e.subs[i])), rest>>)
        last == Len(e.subs)
        lazy == last > 0 /\ e.names[last] = "..."
        end == IF lazy
               THEN PreludeCall("LazyList", <<ListThunk>>, AnyList,
                                <<Thunk(AnyList, e.subs[last])>>)
               ELSE PreludeCall("EmptyList", <<>>, AnyList, <<>>)
    IN  FoldRight(Prepended, [i \in 1 .. (IF lazy THEN last - 1 ELSE last) |-> i], end)

\* The function with what compares keys and values of a canonical type of maps.
MapContextName(type) == [Variable("hir:map:context") EXCEPT !.types = <<type>>]

MapContext(type) == CallOf(Function(<<>>, MapContextRecord), MapContextName(type), <<>>)

\* A call of a function of the prelude on a map.
MapCall(x, arguments, result, values) ==
    PreludeCall(x, <<MapContextRecord, AnyMap>> \o arguments, result, values)

\* Elements are put in one after the other. What is spread is looked at first, so that
\* what has been put in before stays.
TransformMap(e) ==
    LET ctx == Variable("$ctx")
        AsAny(i) == Coercion(ExpectedKeyOrValue(e, i), AnyType, e.subs[i])
        Added(i, map) ==
            CASE e.names[i] = "..." -> MapCall("MergeMaps", <<AnyMap>>, AnyMap,
                                               <<ctx, e.subs[i], map>>)
              [] e.names[i] = "key" -> MapCall("SetMap", <<AnyType, AnyType>>, AnyMap,
                                               <<ctx, map, AsAny(i), AsAny(i + 1)>>)
              [] e.names[i] = "removal" -> MapCall("DeleteMap", <<AnyType>>, AnyMap,
                                                   <<ctx, map, AsAny(i)>>)
        spread == e.names # <<>> /\ e.names[1] = "..."
        elements == SelectSeq([i \in DOMAIN e.subs |-> i],
                              LAMBDA i : e.names[i] # "value" /\ ~ (spread /\ i = 1))
    IN  LetOf("$ctx", MapContextRecord, MapContext(Canonicalize(Map(e.types[1], e.types[2]))),
              FoldLeft(LAMBDA map, i : Added(i, map),
                       IF spread THEN e.subs[1] ELSE PreludeCall("NewMap", <<>>, AnyMap, <<>>),
                       elements))

\* A value that is not there is a record of its own. The name is bound to it, too.
TransformIfMap(e) ==
    LET x == e.names[1]
        value == MapCall("GetMap", <<AnyType>>, AnyType,
                         <<MapContext(Canonicalize(Map(e.types[1], e.types[2]))), e.subs[1],
                           Coercion(e.types[1], AnyType, e.subs[2])>>)
    IN  WithTypes(IfType(x, value, <<EmptyRecord>>,
                         <<e.subs[4],
                           LetOf(x, e.types[2], Downcast(e.types[2], Variable(x)), e.subs[3])>>),
                  <<EmptyRecord, AnyType>>)

TransformBoolean(e) ==
    IF e.names[1] = "and"
    THEN If(e.subs[1], e.subs[2], BooleanLiteral(FALSE))
    ELSE If(e.subs[1], BooleanLiteral(TRUE), e.subs[2])

\* The functions that compare values of a type, and elements in variants, and those that
\* hash them.
RecordEqual(type) == [Variable("$equal") EXCEPT !.types = <<type>>]
ElementEqual(type) == [Variable("hir:equal") EXCEPT !.types = <<type>>]
RecordHash(type) == [Variable("$hash") EXCEPT !.types = <<type>>]
ElementHash(type) == [Variable("hir:hash") EXCEPT !.types = <<type>>]

Equality(type, lhs, rhs) == WithTypes(Operation("=", lhs, rhs), <<type>>)

TransformNotEqual(e) ==
    If(Equality(e.types[1], e.subs[1], e.subs[2]), BooleanLiteral(FALSE), BooleanLiteral(TRUE))

Lhs == Variable("$lhs")
Rhs == Variable("$rhs")

\* How values of different members of a union compare.
OtherMembers == BooleanLiteral(FALSE)

RECURSIVE Equal(_, _, _)
\* What compares two values of a canonical type.
Equal(type, lhs, rhs) ==
    LET members == SetToSeq(type.members)
        Both(i) == IfType("$rhs", rhs, <<members[i], UnionOf(type.members \ {members[i]})>>,
                          <<Equal(members[i], Lhs, Rhs), OtherMembers>>)
    IN  CASE type.kind = "number" -> Equality(type, lhs, rhs)
          [] type.kind = "none" -> BooleanLiteral(TRUE)
          [] type.kind = "boolean" ->
                If(lhs, If(rhs, BooleanLiteral(TRUE), BooleanLiteral(FALSE)),
                        If(rhs, BooleanLiteral(FALSE), BooleanLiteral(TRUE)))
          [] type.kind = "record" ->
                CallOf(Function(<<type, type>>, Boolean), RecordEqual(type), <<lhs, rhs>>)
          [] type.kind = "list" ->
                PreludeCall("EqualLists",
                            <<Function(<<AnyType, AnyType>>, Boolean), AnyList, AnyList>>, Boolean,
                            <<ElementEqual(Canonicalize(Element(type))), lhs, rhs>>)
          [] type.kind = "map" ->
                MapCall("EqualMaps", <<AnyMap>>, Boolean, <<MapContext(type), lhs, rhs>>)
          [] type.kind = "union" ->
                IfType("$lhs", lhs, members, [i \in DOMAIN members |-> Both(i)])

RECURSIVE Hash(_, _)
\* What hashes a value of a canonical type.
Hash(type, value) ==
    LET members == SetToSeq(type.members)
    IN  CASE type.kind = "number" -> PreludeCall("HashNumber", <<type>>, Number, <<value>>)
          [] type.kind = "none" -> NumberLiteral(0)
          [] type.kind = "boolean" -> If(value, NumberLiteral(1), NumberLiteral(2))
          [] type.kind = "record" ->
                CallOf(Function(<<type>>, Number), RecordHash(type), <<value>>)
          [] type.kind = "list" ->
                PreludeCall("HashList", <<Function(<<AnyType>>, Number), AnyList>>, Number,
                            <<ElementHash(Canonicalize(Element(type))), value>>)
          [] type.kind = "map" -> MapCall("HashMap", <<>>, Number, <<MapContext(type), value>>)
          [] type.kind = "union" ->
                IfType("$x", value, members,
                       [i \in DOMAIN members |-> Hash(members[i], Variable("$x"))])

\* Whether equal operations are on types that have one: not on any, functions and
\* errors, and not on records with such fields.
HasEqual(type) ==
    \A member \in Members(type) :
        \/ member.kind \in {"boolean", "none", "number", "list", "map"}
        \/ member.kind = "record" /\ IsComparable(member, {})

RECURSIVE EqualitiesExist(_)
EqualitiesExist(e) ==
    /\ (e.kind = "operation" /\ IsEqualityOperator(e.names[1])) => HasEqual(e.types[1])
    /\ \A i \in DOMAIN e.subs : EqualitiesExist(e.subs[i])

-----------------------------------------------------------------------------
(* Expressions *)

LocalFunction(x, type, names, thunk, body, e) ==
    M!Typed(type, M!LetRecursive(M!Name(x), [i \in DOMAIN names |-> M!Name(names[i])],
                                 thunk, body, e))

Closure(x, type, names, thunk, body) ==
    LocalFunction(x, type, names, thunk, body, M!Variable(M!Name(x)))

MirCall(type, function, arguments) == M!Typed(type, M!Call(function, arguments))

\* What a name stands for in an alternative for a type: functions, lists and maps are
\* taken out of their records.
Alternative(x, type, e) ==
    IF IsGeneric(type)
    THEN M!Typed(CompileType(type),
                 M!Let(M!Name(x),
                       M!Typed(ConcreteType(type), M!RecordField(M!Variable(M!Name(x)), 1)), e))
    ELSE e

Tags(type) == {ConcreteType(member) : member \in Members(type)}

\* Mutant of CompileIfType: lists and functions are not taken out.
CompileIfTypeRaw(e, subs) ==
    LET Default(i) == i > e.n /\ Canonicalize(e.types[i]) = AnyType
    IN  M!Case(subs[1],
               [i \in DOMAIN e.types |-> IF Default(i) THEN {} ELSE Tags(e.types[i])],
               [i \in DOMAIN e.types |-> M!Name(e.names[1])],
               Tail(subs))

CompileIfType(e, subs) ==
    LET Default(i) == i > e.n /\ Canonicalize(e.types[i]) = AnyType
    IN  M!Case(subs[1],
               [i \in DOMAIN e.types |-> IF Default(i) THEN {} ELSE Tags(e.types[i])],
               [i \in DOMAIN e.types |-> M!Name(e.names[1])],
               [i \in DOMAIN e.types |->
                    Alternative(e.names[1], Canonicalize(e.types[i]), subs[i + 1])])

\* An error returns from the function as one of the members of its result.
CompileTry(e, operand) ==
    LET error == CompileType(Error)
        x == M!Name("$error")
        success == M!Name("$success")
    IN  M!Case(M!TryOperation(operand, x, error, M!Variant(error, M!Variable(x))),
               <<Tags(e.types[1])>>, <<success>>,
               <<Alternative("$success", Canonicalize(e.types[1]), M!Variable(success))>>)

Wrapped(type, argument) ==
    IF IsGeneric(type) THEN M!Typed(ConcreteType(type), M!Record(<<argument>>)) ELSE argument

\* Values of any and of unions have their tags already, all lists are alike, and all maps.
CoerceVariant(from, to, argument) ==
    IF IsVariant(from) \/ (from.kind \in {"list", "map"} /\ to.kind = from.kind)
    THEN argument
    ELSE M!Variant(ConcreteType(from), Wrapped(from, argument))

CompileCoercion(e, argument) ==
    CoerceVariant(Canonicalize(e.types[1]), Canonicalize(e.types[2]), argument)

\* The fields are evaluated in the order in which the programmer wrote them.
CompileConstruction(e, subs) ==
    LET fields == Fields(e.types[1])
        Field(name) == M!Name("$" \o name)
        Bound(i, inner) ==
            M!Typed(CompileType(FieldType(e.types[1], e.names[i])),
                    M!Let(Field(e.names[i]), subs[i], inner))
    IN  FoldRight(Bound, [i \in DOMAIN subs |-> i],
                  M!Typed(CompileType(e.types[1]),
                          M!Record([i \in DOMAIN fields |-> M!Variable(Field(fields[i].name))])))

CompileOperation(e, subs) == M!Operation(e.names[1], subs[1], subs[2])

CompileNot(operand) ==
    M!If(operand, M!Typed(M!BooleanType, M!Literal(0)), M!Typed(M!BooleanType, M!Literal(1)))

RECURSIVE CompileExpression(_)

\* A loop over a list, which starts when the result is used.
CompileComprehension(e, list) ==
    LET element == e.types[2]
        next == CallOf(Function(<<List(element)>>, List(e.types[1])), Variable("$loop"),
                       <<Variable("$list")>>)
        body == IfList(Variable("$list"), e.names[1], "$list",
                       ListLiteral(e.types[1], <<"", "...">>, <<e.subs[2], next>>),
                       ListLiteral(e.types[1], <<>>, <<>>))
        loop == CompileType(Function(<<AnyList>>, AnyList))
    IN  MirCall(CompileType(Function(<<ListThunk>>, AnyList)), M!Variable(M!Name("LazyList")),
                <<Closure("$loop", CompileType(ListThunk), <<>>, FALSE,
                          LocalFunction("$loop", loop, <<"$list">>, FALSE,
                                        CompileExpression(WithTypes(body, <<element>>)),
                                        MirCall(loop, M!Variable(M!Name("$loop")), <<list>>)))>>)

MaybeMapIterator == Union({MapIterator, None})

\* A turn of a loop over a map: what an iterator is at, and what is after it.
MapLoop(e) ==
    LET iterator == Variable("$iterator")
        rest == MaybeMapIterator
        At(x, type) ==
            Downcast(type, PreludeCall(x, <<MapIterator>>, AnyType, <<iterator>>))
        next == CallOf(Function(<<rest>>, List(e.types[1])), Variable("$loop"),
                       <<PreludeCall("MapIteratorRest", <<MapIterator>>, rest, <<iterator>>)>>)
        element == LetOf(e.names[1], e.types[2], At("MapIteratorKey", e.types[2]),
                         LetOf(e.names[2], e.types[3], At("MapIteratorValue", e.types[3]),
                               ListLiteral(e.types[1], <<"", "...">>, <<e.subs[2], next>>)))
    IN  WithTypes(IfType("$iterator", iterator, <<MapIterator>>,
                         <<element, ListLiteral(e.types[1], <<>>, <<>>)>>),
                  <<MapIterator, None>>)

CompileMapComprehension(e, map) ==
    LET loop == CompileType(Function(<<MaybeMapIterator>>, AnyList))
        start == MirCall(CompileType(Function(<<AnyMap>>, MaybeMapIterator)),
                         M!Variable(M!Name("IterateMap")), <<map>>)
    IN  MirCall(CompileType(Function(<<ListThunk>>, AnyList)), M!Variable(M!Name("LazyList")),
                <<Closure("$loop", CompileType(ListThunk), <<>>, FALSE,
                          LocalFunction("$loop", loop, <<"$iterator">>, FALSE,
                                        CompileExpression(MapLoop(e)),
                                        MirCall(loop, M!Variable(M!Name("$loop")), <<start>>)))>>)

\* A task evaluates a thunk of the function's result as a value of any type.
CompileSpawn(e) ==
    LET function == Canonicalize(e.types[1].parts[1])
        result == ResultType(function)
        thunk == CompileType(AnyThunk)
        body == Coercion(result, AnyType, CallOf(function, e.subs[1], <<>>))
        spawned == LocalFunction("$any_thunk", thunk, <<>>, TRUE, CompileExpression(body),
                                 M!Typed(thunk, M!Synchronize(M!Variable(M!Name("$any_thunk")))))
    IN  M!Typed(thunk,
            M!Let(M!Name("$any_thunk"),
                  MirCall(CompileType(Function(<<AnyThunk>>, AnyThunk)),
                          M!Variable(M!Name("spawn")), <<spawned>>),
                  Closure("$thunk", CompileType(function), <<>>, FALSE,
                          CompileExpression(
                            Downcast(result, CallOf(AnyThunk, Variable("$any_thunk"), <<>>))))))

CompileBuiltInCall(e, subs) ==
    LET function == Canonicalize(e.types[1])
        x == CASE e.names[1] = "error" -> "Error"
               [] e.names[1] = "source" -> "Source"
               [] e.names[1] = "size" ->
                    IF Canonicalize(function.parts[1]).kind = "list" THEN "ListSize" ELSE "MapSize"
    IN  MirCall(CompileType(function), M!Variable(M!Name(x)), subs)

CompileEquality(e, subs) ==
    LET type == Canonicalize(e.types[1])
    IN  IF type = Number THEN CompileOperation(e, subs)
        ELSE CompileExpression(Equal(type, e.subs[1], e.subs[2]))

CompileUpdate(e, subs) ==
    M!Typed(CompileType(e.types[1]),
            M!RecordUpdate(subs[1],
                           [i \in DOMAIN e.names |-> FieldIndex(e.types[1], e.names[i])],
                           Tail(subs)))

\* An expression, from what its subexpressions have been compiled to.
CompileWith(e, subs) ==
    CASE e.kind \in {"number", "boolean", "none"} ->
            M!Typed(M!BasicType(e.kind), M!Literal(e.n))
      [] e.kind = "variable" -> M!Variable(<<e.names[1], e.types>>)
      [] e.kind = "call" -> MirCall(CompileType(e.types[1]), subs[1], Tail(subs))
      [] e.kind = "built-in call" ->
            IF e.names[1] = "spawn" THEN CompileSpawn(e) ELSE CompileBuiltInCall(e, subs)
      [] e.kind = "if" -> M!If(subs[1], subs[2], subs[3])
      [] e.kind = "if list" -> CompileExpression(TransformIfList(e))
      [] e.kind = "if map" -> CompileExpression(TransformIfMap(e))
      [] e.kind = "if type" -> CompileIfType(e, subs)
      [] e.kind = "lambda" ->
            Closure("$closure", CompileType(LambdaType(e)), e.names, FALSE, subs[1])
      [] e.kind = "let" ->
            M!Typed(CompileType(e.types[1]), M!Let(M!Name(e.names[1]), subs[1], subs[2]))
      [] e.kind = "list" -> CompileExpression(TransformList(e))
      [] e.kind = "comprehension" -> CompileComprehension(e, subs[1])
      [] e.kind = "map" -> CompileExpression(TransformMap(e))
      [] e.kind = "map comprehension" -> CompileMapComprehension(e, subs[1])
      [] e.kind = "operation" /\ e.names[1] \in {"and", "or"} ->
            CompileExpression(TransformBoolean(e))
      [] e.kind = "operation" /\ e.names[1] = "=" -> CompileEquality(e, subs)
      [] e.kind = "operation" /\ e.names[1] = "#" -> CompileExpression(TransformNotEqual(e))
      [] e.kind = "operation" -> CompileOperation(e, subs)
      [] e.kind = "not" -> CompileNot(subs[1])
      [] e.kind = "try" -> CompileTry(e, subs[1])
      [] e.kind = "construction" -> CompileConstruction(e, subs)
      [] e.kind = "deconstruction" ->
            M!Typed(CompileType(e.types[1]),
                    M!RecordField(subs[1], FieldIndex(e.types[1], e.names[1])))
      [] e.kind = "update" -> CompileUpdate(e, subs)
      [] e.kind = "thunk" ->
            Closure("$thunk", CompileType(Function(<<>>, e.types[1])), <<>>, TRUE, subs[1])
      [] e.kind = "coercion" -> CompileCoercion(e, subs[1])

CompileExpression(e) ==
    CompileWith(e, Evaluated([i \in DOMAIN e.subs |-> CompileExpression(e.subs[i])]))

-----------------------------------------------------------------------------
(* Modules *)

\* A function that the compiler generates.
Generated(variable, lambda) ==
    [GlobalFunction(variable.names[1], lambda) EXCEPT !.types = variable.types]

\* Two records are equal if all of their fields are.
RecordEqualFunction(type) ==
    LET fields == Fields(type)
        Field(x, i) == WithTypes(Deconstruction(x, fields[i].name), <<type>>)
        And(i, rest) == If(Equality(fields[i].type, Field(Lhs, i), Field(Rhs, i)),
                           rest, BooleanLiteral(FALSE))
    IN  Generated(RecordEqual(type),
                  Lambda(<<"$lhs", "$rhs">>, <<type, type>>, Boolean,
                         FoldRight(And, [i \in DOMAIN fields |-> i], BooleanLiteral(TRUE))))

ElementEqualFunction(type) ==
    Generated(ElementEqual(type),
              Lambda(<<"$lhs", "$rhs">>, <<AnyType, AnyType>>, Boolean,
                     IfType("$lhs", Lhs, <<type>>,
                            <<IfType("$rhs", Rhs, <<type>>, <<Equal(type, Lhs, Rhs)>>)>>)))

\* The hash of a record begins with a number that stands for its type.
IdentityHash == 3

RecordHashFunction(type) ==
    LET fields == Fields(type)
        Combined(field, rest) ==
            PreludeCall("CombineHashes", <<Number, Number>>, Number,
                        <<rest, Hash(Canonicalize(field.type),
                                     WithTypes(Deconstruction(Variable("$record"), field.name),
                                               <<type>>))>>)
    IN  Generated(RecordHash(type),
                  Lambda(<<"$record">>, <<type>>, Number,
                         FoldRight(Combined, fields, NumberLiteral(IdentityHash))))

ElementHashFunction(type) ==
    Generated(ElementHash(type),
              Lambda(<<"$x">>, <<AnyType>>, Number,
                     IfType("$x", Variable("$x"), <<type>>, <<Hash(type, Variable("$x"))>>)))

\* Values that cannot be compared have functions that nobody should call.
MapContextFunction(type) ==
    LET equal == Function(<<AnyType, AnyType>>, Boolean)
        hash == Function(<<AnyType>>, Number)
        key == Canonicalize(MapKey(type))
        value == Canonicalize(MapValue(type))
        ofValues == IF IsComparable(value, {}) THEN <<ElementEqual(value), ElementHash(value)>>
                    ELSE <<Lambda(<<"", "">>, <<AnyType, AnyType>>, Boolean, BooleanLiteral(FALSE)),
                           Lambda(<<"">>, <<AnyType>>, Number, NumberLiteral(0))>>
    IN  Generated(MapContextName(type),
                  Lambda(<<>>, <<>>, MapContextRecord,
                         PreludeCall("NewMapContext", <<equal, hash, equal, hash>>,
                                     MapContextRecord,
                                     <<ElementEqual(key), ElementHash(key)>> \o ofValues)))

RECURSIVE PartsOf(_), TypesIn(_), ElementTypes(_), MapTypes(_), LowerTypes(_)
\* A type and what it is made of.
PartsOf(type) ==
    {type} \cup UNION {PartsOf(part) : part \in ToSet(type.parts) \cup type.members}

\* The types that an expression spells out by itself.
OwnTypes(e) == IF e.kind \in {"operation", "try"} THEN {} ELSE ToSet(e.types)

TypesIn(e) ==
    UNION {PartsOf(type) : type \in OwnTypes(e)} \cup UNION {TypesIn(sub) : sub \in ToSet(e.subs)}

ElementTypes(e) ==
    (IF e.kind \in {"if list", "if map", "list", "map", "comprehension", "map comprehension"}
     THEN ToSet(e.types) ELSE {})
        \cup UNION {ElementTypes(sub) : sub \in ToSet(e.subs)}

MapTypes(e) ==
    (IF e.kind \in {"if map", "map"} THEN {Map(e.types[1], e.types[2])} ELSE {})
        \cup UNION {MapTypes(sub) : sub \in ToSet(e.subs)}

\* The types that functions and definitions spell out.
SpelledTypes(functions) ==
    UNION {TypesIn(f.lambda) : f \in functions}
        \cup UNION {PartsOf(Aliases[x]) : x \in DOMAIN Aliases}
        \cup UNION {UNION {PartsOf(field.type) : field \in ToSet(Records[x])} : x \in DOMAIN Records}

\* The types of elements of lists, and of keys and values of maps, that have an equality.
ComparableElements(functions) ==
    LET generic == {t \in SpelledTypes(functions) : t.kind \in {"list", "map"}}
        elements == UNION {ToSet(type.parts) : type \in generic}
            \cup UNION {ElementTypes(f.lambda) : f \in functions}
    IN  {Canonicalize(type) : type \in {t \in elements : IsComparable(Canonicalize(t), {})}}

\* The types of maps that need what compares their keys and values.
ContextTypes(functions) ==
    {Canonicalize(type) :
        type \in {t \in SpelledTypes(functions) : t.kind = "map"}
                    \cup UNION {MapTypes(f.lambda) : f \in functions}}

\* The functions that compare and hash records that a module defines, elements of lists,
\* and keys and values of maps.
ComparableRecords(records) == {Record(x) : x \in {y \in records : IsComparable(Record(y), {})}}
RecordEquals(records) == {RecordEqualFunction(type) : type \in ComparableRecords(records)}
RecordHashes(records) == {RecordHashFunction(type) : type \in ComparableRecords(records)}
MapContexts(functions) == {MapContextFunction(type) : type \in ContextTypes(functions)}
ElementEquals(functions) == {ElementEqualFunction(type) : type \in ComparableElements(functions)}
ElementHashes(functions) == {ElementHashFunction(type) : type \in ComparableElements(functions)}

WithGenerated(functions, records) ==
    functions \cup RecordEquals(records) \cup RecordHashes(records) \cup MapContexts(functions)
        \cup ElementEquals(functions) \cup ElementHashes(functions)

\* The types that may come to be in variants: coercions may be generated as late
\* as during the compilation.
LowerTypes(e) ==
    (CASE e.kind \in {"if list", "if map", "if type", "list", "map", "comprehension", "try"} ->
            ToSet(e.types)
       [] e.kind = "operation" -> ToSet(e.types)
       [] e.kind = "coercion" -> {e.types[1]}
       [] OTHER -> {}) \cup UNION {LowerTypes(sub) : sub \in ToSet(e.subs)}

\* The record types of functions, lists and maps in variants.
GenericTypes(functions) ==
    LET types == UNION {Members(type) : type \in UNION {LowerTypes(f.lambda) : f \in functions}}
    IN  [type \in {t \in types : IsGeneric(t)} |-> <<CompileType(type)>>]

RecordTypes ==
    [type \in {Record(x) : x \in DOMAIN Records} |->
        [i \in DOMAIN Fields(type) |-> CompileType(Fields(type)[i].type)]]

\* A global function without arguments is evaluated once.
CompileFunction(f) ==
    M!Typed(CompileType(LambdaType(f.lambda)),
            M!GlobalFunction(<<f.name, f.types>>,
                             [i \in DOMAIN f.lambda.names |-> M!Name(f.lambda.names[i])],
                             f.lambda.names = <<>>, CompileExpression(f.lambda.subs[1])))

\* A module that defines some of the records.
CompileModule(functions, records) ==
    LET all == WithGenerated(functions, records)
    IN  [types |-> Extended(RecordTypes, GenericTypes(all)),
         functions |-> {CompileFunction(f) : f \in all}]

\* Functions from elsewhere, with their types.
Declared(scope) ==
    [x \in {M!Name(y) : y \in DOMAIN scope} |-> CompileType(scope[x[1]])]

\* The check of what has been compiled.
CheckModule(module, declared) ==
    LET own == [x \in {f.name : f \in module.functions} |->
                    (CHOOSE f \in module.functions : f.name = x).type]
    IN  \A f \in module.functions :
            M!CheckFunction(f, Extended(declared, own), module.types)
=============================================================================
