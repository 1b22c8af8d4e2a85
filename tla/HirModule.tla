------------------------------- MODULE HirModule -------------------------------
(***************************************************************************)
(* Modules of the high-level intermediate representation, their interfaces *)
(* and the passes that look after names: those that put the full name of   *)
(* what is meant in the place of each name, and those that refuse modules  *)
(* (lib/hir/src/ir, lib/interface, lib/hir/src/analysis).  The module has  *)
(* no state.                                                               *)
(***************************************************************************)
EXTENDS Hir

TypeDefinition(name, original_name, fields, is_open, is_public, is_external) ==
    [name |-> name, original_name |-> original_name, fields |-> fields, is_open |-> is_open,
     is_public |-> is_public, is_external |-> is_external]

TypeAlias(name, original_name, type, is_public, is_external) ==
    [name |-> name, original_name |-> original_name, type |-> type, is_public |-> is_public,
     is_external |-> is_external]

ForeignDeclaration(name, foreign_name, calling_convention, type) ==
    [name |-> name, foreign_name |-> foreign_name, calling_convention |-> calling_convention,
     type |-> type]

FunctionDeclaration(name, type) == [name |-> name, type |-> type]

FunctionDefinition(name, original_name, lambda, foreign_definition, is_public) ==
    [name |-> name, original_name |-> original_name, lambda |-> lambda,
     foreign_definition |-> foreign_definition, is_public |-> is_public]

Module(type_definitions, type_aliases, foreign_declarations, function_declarations, function_definitions) ==
    [type_definitions |-> type_definitions, type_aliases |-> type_aliases,
     foreign_declarations |-> foreign_declarations,
     function_declarations |-> function_declarations,
     function_definitions |-> function_definitions]

RecordField(name, type) == [name |-> name, type |-> type]

\* Byte strings, which the passes after these leave out.
ByteString == Basic("string")
StringLiteral(string) == Leaf("string", string)
BuiltInFunction(function) == Node("built-in function", <<function>>, <<>>, <<>>)

\* The same operation on each of a sequence, here and now.
Each(Operation_(_), sequence) == Evaluated([i \in DOMAIN sequence |-> Operation_(sequence[i])])

-----------------------------------------------------------------------------
(* Types in a module *)

RECURSIVE transform_type(_, _)
\* References are replaced by types. (There are no record types yet: they come with the
\* resolution of references.)
transform_type(type, types) ==
    IF type.kind = "reference" /\ type.name \in DOMAIN types THEN types[type.name]
    ELSE [type EXCEPT !.parts = Evaluated([i \in DOMAIN @ |-> transform_type(@[i], types)]),
                      !.members = {transform_type(member, types) : member \in @}]

\* The types that an expression has by itself.
transform_own_types(e, types) ==
    [e EXCEPT !.types = Evaluated([i \in DOMAIN @ |-> transform_type(@[i], types)])]

RECURSIVE transform_types_of_expression(_, _)
transform_types_of_expression(e, types) ==
    [transform_own_types(e, types) EXCEPT
        !.subs = Evaluated([i \in DOMAIN @ |-> transform_types_of_expression(@[i], types)])]

transform_type_definition(record, types) ==
    IF record.is_external THEN record
    ELSE [record EXCEPT !.fields =
            Evaluated([i \in DOMAIN @ |-> [@[i] EXCEPT !.type = transform_type(@, types)]])]

transform_type_alias(alias, types) ==
    IF alias.is_external THEN alias ELSE [alias EXCEPT !.type = transform_type(@, types)]

transform_foreign_declaration(declaration, types) ==
    [declaration EXCEPT !.type = transform_type(@, types)]

transform_types_of_function(function, types) ==
    [function EXCEPT !.lambda = transform_types_of_expression(@, types)]

transform_types(module, types) ==
    LET Definition(d) == transform_type_definition(d, types)
        Alias(a) == transform_type_alias(a, types)
        Foreign(d) == transform_foreign_declaration(d, types)
        Function_(f) == transform_types_of_function(f, types)
    IN  Module(Each(Definition, module.type_definitions), Each(Alias, module.type_aliases),
               Each(Foreign, module.foreign_declarations), module.function_declarations,
               Each(Function_, module.function_definitions))

Own(definitions) == SelectSeq(definitions, LAMBDA d : ~ d.is_external)
NamesOf(definitions) == {definitions[i].name : i \in DOMAIN definitions}

\* The types that the module defines get their full names.
qualify_types(module, prefix) ==
    LET own == NamesOf(Own(module.type_definitions)) \cup NamesOf(Own(module.type_aliases))
        Qualified(d) == [d EXCEPT !.name = IF @ \in own THEN prefix \o @ ELSE @]
    IN  transform_types([module EXCEPT !.type_definitions = Each(Qualified, @),
                                       !.type_aliases = Each(Qualified, @)],
                        [name \in own |-> Reference(prefix \o name)])

BuiltInTypes ==
    [any |-> AnyType, boolean |-> Boolean, error |-> Error, none |-> None, number |-> Number,
     string |-> ByteString]

\* References are to built-in types unless a type has their name.
transform_built_in_types(module) ==
    LET defined == NamesOf(module.type_definitions) \cup NamesOf(module.type_aliases)
    IN  transform_types(module, [name \in DOMAIN BuiltInTypes \ defined |-> BuiltInTypes[name]])

-----------------------------------------------------------------------------
(* Variables in a module *)

\* Mutant: the name of a statement is bound in its own value, too.
MutantBinds(e, i) ==
    LET inner == CASE e.kind = "lambda" -> {1}
                   [] e.kind = "let" -> {1, 2}
                   [] e.kind \in {"if list", "comprehension", "map comprehension"} -> {2}
                   [] e.kind = "if map" -> {3}
                   [] e.kind = "if type" -> DOMAIN e.subs \ {1}
                   [] OTHER -> {}
    IN  IF i \in inner THEN ToSet(e.names) ELSE {}

\* The names that an expression binds in one of its subexpressions.
Binds(e, i) ==
    LET inner == CASE e.kind = "lambda" -> {1}
                   [] e.kind \in {"let", "if list", "comprehension", "map comprehension"} -> {2}
                   [] e.kind = "if map" -> {3}
                   [] e.kind = "if type" -> DOMAIN e.subs \ {1}
                   [] OTHER -> {}
    IN  IF i \in inner THEN ToSet(e.names) ELSE {}

RECURSIVE transform_expression(_, _)
\* Variables that are not bound inside of the expression are replaced by expressions.
transform_expression(e, expressions) ==
    IF e.kind = "variable"
    THEN IF e.names[1] \in DOMAIN expressions THEN expressions[e.names[1]] ELSE e
    ELSE [e EXCEPT !.subs = Evaluated([i \in DOMAIN @ |->
            transform_expression(@[i], Restrict(expressions, DOMAIN expressions \ Binds(e, i)))])]

transform_variables(module, expressions) ==
    LET Transformed(f) == [f EXCEPT !.lambda = transform_expression(@, expressions)]
    IN  [module EXCEPT !.function_definitions = Each(Transformed, @)]

rename_variables(module, names) ==
    transform_variables(module, [name \in DOMAIN names |-> Variable(names[name])])

\* Functions and what is imported from foreign code get their full names.
qualify_functions(module, prefix) ==
    LET Qualified(d) == [d EXCEPT !.name = prefix \o @]
        own == NamesOf(module.foreign_declarations) \cup NamesOf(module.function_definitions)
    IN  rename_variables([module EXCEPT !.foreign_declarations = Each(Qualified, @),
                                        !.function_definitions = Each(Qualified, @)],
                         [name \in own |-> prefix \o name])

BuiltInVariables ==
    [debug |-> BuiltInFunction("debug"), error |-> BuiltInFunction("error"),
     false |-> BooleanLiteral(FALSE), go |-> BuiltInFunction("spawn"), none |-> NoneLiteral,
     race |-> BuiltInFunction("race"), size |-> BuiltInFunction("size"),
     source |-> BuiltInFunction("source"), true |-> BooleanLiteral(TRUE)]

transform_built_in_variables(module) == transform_variables(module, BuiltInVariables)

-----------------------------------------------------------------------------
(* Interfaces *)

InterfaceTypeDefinition(name, original_name, fields, is_open, is_public) ==
    [name |-> name, original_name |-> original_name, fields |-> fields, is_open |-> is_open,
     is_public |-> is_public]

InterfaceTypeAlias(name, original_name, type, is_public) ==
    [name |-> name, original_name |-> original_name, type |-> type, is_public |-> is_public]

InterfaceFunction(name, original_name, type) ==
    [name |-> name, original_name |-> original_name, type |-> type]

Interface(type_definitions, type_aliases, function_declarations) ==
    [type_definitions |-> type_definitions, type_aliases |-> type_aliases,
     function_declarations |-> function_declarations]

\* All types are in the interface, for the types that refer to them. Only its own public
\* ones are public.
compile_interface(module) ==
    LET Definition(d) == InterfaceTypeDefinition(d.name, d.original_name, d.fields, d.is_open,
                                                 d.is_public /\ ~ d.is_external)
        Alias(a) == InterfaceTypeAlias(a.name, a.original_name, a.type,
                                       a.is_public /\ ~ a.is_external)
        Declaration(f) == InterfaceFunction(f.name, f.original_name, LambdaType(f.lambda))
    IN  Interface(Each(Definition, module.type_definitions), Each(Alias, module.type_aliases),
                  Each(Declaration,
                       SelectSeq(module.function_definitions, LAMBDA f : f.is_public)))

-----------------------------------------------------------------------------
(* Modules that are refused *)

AreUnique(names) == \A i, j \in DOMAIN names : names[i] = names[j] => i = j
NameSequence(definitions) == [i \in DOMAIN definitions |-> definitions[i].name]

HasDuplicateFunctions(module) == ~ AreUnique(NameSequence(module.function_definitions))

HasDuplicateTypes(module) ==
    ~ AreUnique(NameSequence(module.type_definitions) \o NameSequence(module.type_aliases))

RECURSIVE ReferencesIn(_)
ReferencesIn(type) ==
    IF type.kind = "reference" THEN {type.name}
    ELSE UNION {ReferencesIn(type.parts[i]) : i \in DOMAIN type.parts}
            \cup UNION {ReferencesIn(member) : member \in type.members}

RECURSIVE ReferencesOf(_)
ReferencesOf(e) ==
    UNION {ReferencesIn(e.types[i]) : i \in DOMAIN e.types}
        \cup UNION {ReferencesOf(e.subs[i]) : i \in DOMAIN e.subs}

FieldTypes(record) == {record.fields[i].type : i \in DOMAIN record.fields}

\* The references in all that is transformed when types are.
collect_types(module) ==
    LET Types == UNION {FieldTypes(record) : record \in ToSet(Own(module.type_definitions))}
                    \cup {alias.type : alias \in ToSet(Own(module.type_aliases))}
                    \cup {declaration.type : declaration \in ToSet(module.foreign_declarations)}
    IN  UNION {ReferencesIn(type) : type \in Types}
            \cup UNION {ReferencesOf(f.lambda) : f \in ToSet(module.function_definitions)}

IsVisible(definition) == ~ definition.is_external \/ definition.is_public

collect_existent_types(module) ==
    NamesOf(SelectSeq(module.type_definitions, IsVisible))
        \cup NamesOf(SelectSeq(module.type_aliases, IsVisible))

LacksTypes(module) == ~ collect_types(module) \subseteq collect_existent_types(module)

\* Aliases have no order in which each refers to earlier ones only.
HasRecursiveAliases(module) ==
    LET names == NamesOf(module.type_aliases)
        refers == [name \in names |->
                    UNION {ReferencesIn(alias.type) :
                            alias \in {a \in ToSet(module.type_aliases) : a.name = name}}]
    IN  \E cycle \in SUBSET names \ {{}} : \A name \in cycle : refers[name] \cap cycle # {}

\* What names of types stand for, and the fields of records: Aliases and Records of what
\* follows.
collect_type_names(module) ==
    [name \in NamesOf(module.type_aliases) |->
        (CHOOSE alias \in ToSet(module.type_aliases) : alias.name = name).type]
        @@ [name \in NamesOf(module.type_definitions) |-> Record(name)]

collect_records(module) ==
    [name \in NamesOf(module.type_definitions) |->
        (CHOOSE record \in ToSet(module.type_definitions) : record.name = name).fields]

RECURSIVE is_type_recursive(_, _, _)
\* Whether every value of a type has a value of a record inside. A record that has been
\* met before does not count.
is_type_recursive(name, cache, type) ==
    CASE type.kind = "reference" -> is_type_recursive(name, cache, Aliases[type.name])
      [] type.kind = "record" ->
            /\ type.name \notin cache
            /\ \/ type.name = name
               \/ \E i \in DOMAIN Records[type.name] :
                    is_type_recursive(name, cache \cup {type.name}, Records[type.name][i].type)
      [] type.kind = "union" ->
            \A member \in type.members : is_type_recursive(name, cache, member)
      [] OTHER -> FALSE

HasImpossibleRecords(module) ==
    \E record \in ToSet(module.type_definitions) :
        \E type \in FieldTypes(record) : is_type_recursive(record.name, {}, type)

RECURSIVE Subexpressions(_)
Subexpressions(e) == {e} \cup UNION {Subexpressions(e.subs[i]) : i \in DOMAIN e.subs}

collect_expressions(module) ==
    {e \in UNION {Subexpressions(f.lambda) : f \in ToSet(module.function_definitions)} :
        e.kind \in {"construction", "update"}}

\* Mutant: fields of public records are public.
MutantCollectOpenRecords(module) == NamesOf(SelectSeq(module.type_definitions, IsVisible))

collect_open_records(module) ==
    NamesOf(SelectSeq(module.type_definitions, LAMBDA d : ~ d.is_external \/ d.is_open))

\* Records are made from other modules' fields. (The types of deconstructions are known
\* only once they are inferred.)
UsesPrivateFields(module) ==
    \E e \in collect_expressions(module) :
        LET type == Canonicalize(e.types[1])
        IN  type.kind # "record" \/ type.name \notin collect_open_records(module)

\* The first thing that analysis refuses the module for. Inference, type checks and
\* coercion come in between.
Refusal(module) ==
    IF HasDuplicateFunctions(module) THEN "duplicate functions"
    ELSE IF HasDuplicateTypes(module) THEN "duplicate types"
    ELSE IF LacksTypes(module) THEN "unknown type"
    ELSE IF HasRecursiveAliases(module) THEN "recursive alias"
    ELSE IF HasImpossibleRecords(module) THEN "impossible record"
    ELSE IF UsesPrivateFields(module) THEN "private field"
    ELSE "none"
=============================================================================
