---------------------------------- MODULE Hir ----------------------------------
(***************************************************************************)
(* Types and expressions of the high-level intermediate representation     *)
(* (lib/hir/ir, lib/hir/types) and what the types are equal to and         *)
(* subtypes of (lib/hir/analysis).  The module has no state: the analysis  *)
(* of modules and their compilation extend it.                             *)
(*                                                                         *)
(* A union is the set of its members.  In the code it is a tree whose      *)
(* canonical form is a chain of members in their order.  Positions are     *)
(* left out: the code compares all of them as equal.                       *)
(*                                                                         *)
(* Every expression is a record with a kind, its names (what it binds or   *)
(* refers to, fields, elements that are spread), its direct subexpressions *)
(* (subs) in the order in which the code evaluates them, and its types:    *)
(* those a programmer wrote, then the ones that the type inference adds.   *)
(* Byte strings are left out, and of the built-in functions those for      *)
(* debugging and races.                                                    *)
(***************************************************************************)
EXTENDS Naturals, Sequences, FiniteSets, SequencesExt

CONSTANTS
    Aliases,    \* the types that names stand for
    Records     \* the fields of record types, each with a name and a type

Type(kind, name, parts, members) ==
    [kind |-> kind, name |-> name, parts |-> parts, members |-> members]

Basic(kind) == Type(kind, "", <<>>, {})
AnyType == Basic("any")
Boolean == Basic("boolean")
Error == Basic("error")
None == Basic("none")
Number == Basic("number")
Record(name) == Type("record", name, <<>>, {})
Reference(name) == Type("reference", name, <<>>, {})
List(element) == Type("list", "", <<element>>, {})
Map(key, value) == Type("map", "", <<key, value>>, {})
Function(arguments, result) == Type("function", "", Append(arguments, result), {})
Union(members) == Type("union", "", <<>>, members)

\* What an analysis that fails returns for a type.
NoType == Basic("no type")

Element(list) == list.parts[1]
MapKey(map) == map.parts[1]
MapValue(map) == map.parts[2]
ArgumentTypes(function) == Front(function.parts)
ResultType(function) == Last(function.parts)

IsVariant(type) == type.kind \in {"any", "union"}

\* One type for types of which none is a union.
UnionOf(types) ==
    CASE types = {} -> NoType
      [] AnyType \in types -> AnyType
      [] Cardinality(types) = 1 -> CHOOSE type \in types : TRUE
      [] OTHER -> Union(types)

RECURSIVE Canonicalize(_), CollectMembers(_)
\* A type without aliases, nested unions and unions of any or of one type.
Canonicalize(type) ==
    CASE type.kind = "reference" -> Canonicalize(Aliases[type.name])
      [] type.kind = "union" -> UnionOf(CollectMembers(type))
      [] OTHER -> [type EXCEPT !.parts = [i \in DOMAIN @ |-> Canonicalize(@[i])]]

CollectMembers(type) ==
    CASE type.kind = "reference" -> CollectMembers(Aliases[type.name])
      [] type.kind = "union" -> UNION {CollectMembers(member) : member \in type.members}
      [] OTHER -> {Canonicalize(type)}

MembersOf(canonical) == IF canonical.kind = "union" THEN canonical.members ELSE {canonical}

\* The types that a value of a type can be of.
Members(type) == MembersOf(Canonicalize(type))

EqualTypes(one, other) == Canonicalize(one) = Canonicalize(other)

\* Only unions and any have subtypes, not what is inside of other types.
Subsumes(lower, upper) ==
    \/ Canonicalize(upper) = AnyType
    \/ Members(lower) \subseteq Members(upper)

\* The type of what is of one type but not of the other one.
Difference(one, other) ==
    CASE Canonicalize(other) = AnyType -> NoType
      [] Canonicalize(one) = AnyType -> AnyType
      [] OTHER -> UnionOf(Members(one) \ Members(other))

RecordFields(canonical) == IF canonical.kind = "record" THEN Records[canonical.name] ELSE <<>>

\* The fields of a type if it is that of a record.
Fields(type) == RecordFields(Canonicalize(type))

FieldNames(type) == {field.name : field \in ToSet(Fields(type))}

FieldIndex(type, name) == SelectInSeq(Fields(type), LAMBDA field : field.name = name)

FieldType(type, name) ==
    UnionOf({field.type : field \in {f \in ToSet(Fields(type)) : f.name = name}})

RECURSIVE IsComparable(_, _)
\* Whether there is an equality on a type. Records inside of themselves are.
IsComparable(type, seen) ==
    CASE type.kind = "reference" -> IsComparable(Aliases[type.name], seen)
      [] type.kind = "union" -> \A member \in type.members : IsComparable(member, seen)
      [] type.kind = "list" -> IsComparable(Element(type), seen)
      [] type.kind = "map" ->
            IsComparable(MapKey(type), seen) /\ IsComparable(MapValue(type), seen)
      [] type.kind = "record" ->
            \/ type.name \in seen
            \/ \A i \in DOMAIN Records[type.name] :
                    IsComparable(Records[type.name][i].type, seen \cup {type.name})
      [] OTHER -> type.kind \in {"boolean", "none", "number"}

-----------------------------------------------------------------------------
(* Expressions *)

Node(kind, names, types, subs) ==
    [kind |-> kind, names |-> names, types |-> types, subs |-> subs, n |-> 0]

Leaf(kind, n) == [Node(kind, <<>>, <<>>, <<>>) EXCEPT !.n = n]
NumberLiteral(n) == Leaf("number", n)
BooleanLiteral(b) == Leaf("boolean", IF b THEN 1 ELSE 0)
NoneLiteral == Leaf("none", 0)
Variable(x) == Node("variable", <<x>>, <<>>, <<>>)

Call(function, arguments) == Node("call", <<>>, <<>>, <<function>> \o arguments)

\* The function is "error", "size", "source" or "spawn".
BuiltInCall(function, arguments) == Node("built-in call", <<function>>, <<>>, arguments)

If(condition, then, else) == Node("if", <<>>, <<>>, <<condition, then, else>>)

IfList(list, first, rest, then, else) ==
    Node("if list", <<first, rest>>, <<>>, <<list, then, else>>)

IfMap(x, map, key, then, else) == Node("if map", <<x>>, <<>>, <<map, key, then, else>>)

\* The last branch has no type if it is an else branch. The number tells how many
\* branches have one.
IfType(x, argument, types, branches) ==
    [Node("if type", <<x>>, types, <<argument>> \o branches) EXCEPT !.n = Len(types)]

Lambda(names, types, result, body) ==
    Node("lambda", names, Append(types, result), <<body>>)

\* The name is empty if the value is not used.
Let(x, bound, expression) == Node("let", <<x>>, <<>>, <<bound, expression>>)

\* Every element is one value or, with the name "...", all elements of a list.
ListLiteral(element, names, elements) == Node("list", names, <<element>>, elements)

Comprehension(element, expression, x, list) ==
    Node("comprehension", <<x>>, <<element>>, <<list, expression>>)

\* Every element of a map is one or two expressions, each with what it is for: a key and
\* a value to insert, all entries of a map, or a key to remove.
MapEntry(key, value) == [names |-> <<"key", "value">>, subs |-> <<key, value>>]
MapSpread(map) == [names |-> <<"...">>, subs |-> <<map>>]
MapRemoval(key) == [names |-> <<"removal">>, subs |-> <<key>>]

MapLiteral(key, value, elements) ==
    Node("map", FlattenSeq([i \in DOMAIN elements |-> elements[i].names]), <<key, value>>,
         FlattenSeq([i \in DOMAIN elements |-> elements[i].subs]))

MapIterationComprehension(element, expression, key, value, map) ==
    Node("map comprehension", <<key, value>>, <<element>>, <<map, expression>>)

\* The operators are +, <, and, or, = and #.
Operation(operator, lhs, rhs) == Node("operation", <<operator>>, <<>>, <<lhs, rhs>>)
Not(operand) == Node("not", <<>>, <<>>, <<operand>>)
Try(operand) == Node("try", <<>>, <<>>, <<operand>>)

Construction(type, names, fields) == Node("construction", names, <<type>>, fields)
Deconstruction(record, name) == Node("deconstruction", <<name>>, <<>>, <<record>>)
Update(type, record, names, fields) ==
    Node("update", names, <<type>>, <<record>> \o fields)

\* The expressions that programmers do not write.
Thunk(type, expression) == Node("thunk", <<>>, <<type>>, <<expression>>)
Coercion(from, to, argument) == Node("coercion", <<>>, <<from, to>>, <<argument>>)
WithTypes(e, types) == [e EXCEPT !.types = types]

\* The name of a function that the compiler generates comes with types.
GlobalFunction(name, lambda) == [name |-> name, types |-> <<>>, lambda |-> lambda]

\* The same sequence.  TLC evaluates its elements here and now, and only once.
Evaluated(sequence) == sequence \o <<>>

\* A function that maps more names, or maps them to something else.
Extended(f, g) == [x \in DOMAIN f \cup DOMAIN g |-> IF x \in DOMAIN g THEN g[x] ELSE f[x]]
Named(x, value) == [y \in {x} |-> value]

-----------------------------------------------------------------------------
(* Scopes *)

IsEqualityOperator(operator) == operator \in {"=", "#"}

HasElse(e) == Len(e.subs) > e.n + 1

LambdaType(lambda) == Function(Front(lambda.types), Last(lambda.types))

\* Whether subexpression i can use names that e binds.
IsInner(e, i) ==
    CASE e.kind \in {"let", "comprehension", "map comprehension", "if list"} -> i = 2
      [] e.kind = "if map" -> i = 3
      [] e.kind = "if type" -> i > 1
      [] e.kind = "lambda" -> TRUE
      [] OTHER -> FALSE

\* The names that e binds in subexpression i, with their types.
BoundTypes(e, i) ==
    LET one == CASE e.kind = "let" -> e.types[1]
                 [] e.kind = "comprehension" -> Function(<<>>, e.types[2])
                 [] e.kind = "if type" -> e.types[i - 1]
    IN  CASE ~ IsInner(e, i) \/ e.names = <<"">> -> <<>>
          [] e.kind = "lambda" -> [x \in ToSet(e.names) |->
                e.types[CHOOSE j \in DOMAIN e.names : e.names[j] = x /\
                            \A k \in DOMAIN e.names : e.names[k] = x => k <= j]]
          [] e.kind = "if list" ->
                Extended(Named(e.names[1], Function(<<>>, e.types[1])),
                         Named(e.names[2], List(e.types[1])))
          [] e.kind = "if map" -> Named(e.names[1], e.types[2])
          [] e.kind = "map comprehension" ->
                Extended(Named(e.names[1], e.types[2]), Named(e.names[2], e.types[3]))
          [] OTHER -> Named(e.names[1], one)

\* The types of the variables in subexpression i.
Scope(e, i, variables) == Extended(variables, BoundTypes(e, i))

\* What is known outside of functions: all of them, and foreign ones.
GlobalScope(functions, foreign) ==
    Extended(foreign, [x \in {f.name : f \in functions} |->
                        LambdaType((CHOOSE f \in functions : f.name = x).lambda)])
=============================================================================
