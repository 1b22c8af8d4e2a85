---------------------------------- MODULE Ast ----------------------------------
(***************************************************************************)
(* The structures that a syntax tree consists of (lib/ast): what each part *)
(* of a tree is to those who read it.  The module has no state.            *)
(***************************************************************************)
EXTENDS Parse

\* Where names are joined: a prefix and what it qualifies, components of a path.
IdentifierSeparator == "'"

\* The names of modules end in one of their components.
CONSTANT LastComponent

Name(tree) == tree.parts[1].text
OptionalText(group) == IF group.parts = <<>> THEN {} ELSE {group.parts[1].text}

-----------------------------------------------------------------------------
(* Modules *)

Module(tree) ==
    [imports |-> tree.parts[1].parts, foreign_imports |-> tree.parts[2].parts,
     type_definitions |-> tree.parts[3].parts, function_definitions |-> tree.parts[4].parts]

ModulePath(tree) == [kind |-> tree.kind, text |-> tree.text]
Components(path) == <<LastComponent[path.text]>>

Import(tree) ==
    [module_path |-> ModulePath(tree.parts[1]), prefix |-> OptionalText(tree.parts[2]),
     unqualified_names |-> tree.parts[3].parts]
UnqualifiedName(tree) == tree.text

\* A convention is written, or it is that of the language.
CallingConvention(group) == IF group.parts = <<>> THEN "native" ELSE Name(group.parts[1])

ForeignImport(tree) ==
    [name |-> tree.parts[2].text, calling_convention |-> CallingConvention(tree.parts[1]),
     type |-> tree.parts[3]]

ForeignExport(tree) == [calling_convention |-> CallingConvention(tree)]

FunctionDefinition(tree) ==
    [foreign_export |-> tree.parts[1].parts, name |-> tree.parts[2].text,
     lambda |-> tree.parts[3]]

FieldType(tree) == [name |-> Name(tree), type |-> tree.parts[2]]
RecordDefinition(tree) == [name |-> Name(tree), fields |-> Tail(tree.parts)]
TypeAlias(tree) == [name |-> Name(tree), type |-> tree.parts[2]]

IsRecordDefinition(tree) == tree.kind = "record definition"
IsTypeAlias(tree) == tree.kind = "type alias"

-----------------------------------------------------------------------------
(* Types *)

FunctionType(tree) == [arguments |-> tree.parts[1].parts, result |-> tree.parts[2]]
ListType(tree) == [element |-> tree.parts[1]]
MapType(tree) == [key |-> tree.parts[1], value |-> tree.parts[2]]
ReferenceType(tree) == [name |-> tree.text]
LhsAndRhs(tree) == [lhs |-> tree.parts[1], rhs |-> tree.parts[2]]

-----------------------------------------------------------------------------
(* Blocks and expressions *)

\* The last statement is the value of a block.
Block(tree) == [statements |-> Front(tree.parts), expression |-> Last(tree.parts).parts[1]]

Statement(tree) ==
    [name |-> IF Len(tree.parts) = 2 THEN {Name(tree)} ELSE {}, expression |-> Last(tree.parts)]

Argument(tree) == [name |-> Name(tree), type |-> tree.parts[2]]

Lambda(tree) ==
    [arguments |-> tree.parts[1].parts, result_type |-> tree.parts[2], body |-> tree.parts[3]]

BinaryOperation(tree) == [operator |-> tree.text, lhs |-> tree.parts[1], rhs |-> tree.parts[2]]

UnaryOperation(tree) == [operator |-> tree.kind, expression |-> tree.parts[1]]

Call(tree) == [function |-> tree.parts[1], arguments |-> Tail(tree.parts)]

RecordDeconstruction(tree) == [expression |-> tree.parts[1], name |-> tree.parts[2].text]

Pair(parts, i) == <<parts[2 * i - 1], parts[2 * i]>>

IfBranch(pair) == [condition |-> pair[1], block |-> pair[2]]

If(tree) ==
    [branches |-> [i \in 1 .. Len(tree.parts) \div 2 |-> IfBranch(Pair(tree.parts, i))],
     else |-> Last(tree.parts)]

IfList(tree) ==
    [first_name |-> tree.parts[1].text, rest_name |-> tree.parts[2].text,
     list |-> tree.parts[3], then |-> tree.parts[4], else |-> tree.parts[5]]

IfMap(tree) ==
    [name |-> Name(tree), map |-> tree.parts[2], key |-> tree.parts[3],
     then |-> tree.parts[4], else |-> tree.parts[5]]

IfTypeBranch(pair) == [type |-> pair[1], block |-> pair[2]]

IfType(tree) ==
    [name |-> Name(tree), argument |-> tree.parts[2],
     branches |-> [i \in 1 .. Len(tree.parts) \div 2 - 1 |-> IfTypeBranch(Pair(tree.parts, i + 1))],
     else |-> IF Len(tree.parts) % 2 = 1 THEN <<Last(tree.parts)>> ELSE <<>>]

List(tree) == [type |-> tree.parts[1], elements |-> Tail(tree.parts)]
ListElement(tree) ==
    IF tree.kind = "spread" THEN [kind |-> "...", expression |-> tree.parts[1]]
    ELSE [kind |-> "", expression |-> tree]

IsIteration(tree) == Len(tree.parts) = 5

ListComprehension(tree) ==
    [type |-> tree.parts[1], element |-> tree.parts[2], element_name |-> tree.parts[3].text,
     list |-> tree.parts[4]]

MapIterationComprehension(tree) ==
    [element_type |-> tree.parts[1], element |-> tree.parts[2], key_name |-> tree.parts[3].text,
     value_name |-> tree.parts[4].text, map |-> tree.parts[5]]

Map(tree) ==
    [key_type |-> tree.parts[1], value_type |-> tree.parts[2],
     elements |-> SubSeq(tree.parts, 3, Len(tree.parts))]
MapEntry(tree) == [key |-> tree.parts[1], value |-> tree.parts[2]]
MapElementKind(tree) ==
    CASE tree.kind = "entry" -> "insertion" [] tree.kind = "spread" -> "map" [] OTHER -> "removal"

RecordField(tree) == [name |-> Name(tree), expression |-> tree.parts[2]]
Record(tree) ==
    [type_name |-> Name(tree), record |-> tree.parts[2].parts,
     fields |-> SubSeq(tree.parts, 3, Len(tree.parts))]

Number(tree) == [value |-> tree.text]
ByteString(tree) == [value |-> tree.text]
Variable(tree) == [name |-> tree.text]

-----------------------------------------------------------------------------
(* Analysis *)

\* The names that begin with an upper-case letter. (Characters are not modelled.)
CONSTANT PublicNames

is_name_public(name) == name \in PublicNames

is_record_open(record_) ==
    \A i \in DOMAIN record_.fields : is_name_public(FieldType(record_.fields[i]).name)
=============================================================================
