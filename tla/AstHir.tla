-------------------------------- MODULE AstHir --------------------------------
(***************************************************************************)
(* From syntax trees to the high-level intermediate representation         *)
(* (lib/ast-hir): expressions, and the names that imports bring in.  The   *)
(* module has no state.                                                    *)
(***************************************************************************)
EXTENDS Ast

H == INSTANCE HirModule WITH Aliases <- <<>>, Records <- <<>>
Analysis(Aliases, Records) == INSTANCE HirModule

-----------------------------------------------------------------------------
(* Expressions *)

RECURSIVE compile_type(_)
compile_type(tree) ==
    CASE tree.kind = "function type" ->
            LET function == FunctionType(tree)
            IN  H!Function(H!Each(compile_type, function.arguments), compile_type(function.result))
      [] tree.kind = "list type" -> H!List(compile_type(ListType(tree).element))
      [] tree.kind = "map type" ->
            H!Map(compile_type(MapType(tree).key), compile_type(MapType(tree).value))
      [] tree.kind = "union type" ->
            H!Union({compile_type(LhsAndRhs(tree).lhs), compile_type(LhsAndRhs(tree).rhs)})
      [] tree.kind = "reference" -> H!Reference(ReferenceType(tree).name)

ArithmeticOperators == {"+", "-", "*", "/"}
OrderOperators == {"<", "<=", ">", ">="}
BooleanOperators == [o \in {"&", "|"} |-> IF o = "&" THEN "and" ELSE "or"]
EqualityOperators == [o \in {"==", "!="} |-> IF o = "==" THEN "=" ELSE "#"]
compile_operator(operator) ==
    CASE operator \in ArithmeticOperators \cup OrderOperators -> operator
      [] operator \in DOMAIN BooleanOperators -> BooleanOperators[operator]
      [] operator \in DOMAIN EqualityOperators -> EqualityOperators[operator]

RECURSIVE compile_expression(_)

ArgumentNames(arguments) == H!Evaluated([i \in DOMAIN arguments |-> Argument(arguments[i]).name])
ArgumentTypes(arguments) ==
    H!Evaluated([i \in DOMAIN arguments |-> compile_type(Argument(arguments[i]).type)])

RECURSIVE CompileStatements(_, _)
\* Statements are let expressions around what follows them.
CompileStatements(statements, expression_) ==
    IF statements = <<>> THEN expression_
    ELSE LET first == Statement(Head(statements))
             name == IF first.name = {} THEN "" ELSE CHOOSE x \in first.name : TRUE
         IN  H!Let(name, compile_expression(first.expression),
                   CompileStatements(Tail(statements), expression_))

compile_block(tree) ==
    CompileStatements(Block(tree).statements, compile_expression(Block(tree).expression))

compile_lambda(tree) ==
    LET function == Lambda(tree)
    IN  H!Lambda(ArgumentNames(function.arguments), ArgumentTypes(function.arguments),
                 compile_type(function.result_type), compile_block(function.body))

RECURSIVE compile_if(_, _)
compile_if(branches, else) ==
    LET then == Head(branches)
    IN  H!If(compile_expression(then.condition), compile_block(then.block),
             IF Len(branches) = 1 THEN compile_block(else) ELSE compile_if(Tail(branches), else))

compile_if_type(tree) ==
    LET if == IfType(tree)
        Type(branch) == compile_type(branch.type)
        Body(branch) == compile_block(branch.block)
    IN  H!IfType(if.name, compile_expression(if.argument), H!Each(Type, if.branches),
                 H!Each(Body, if.branches) \o H!Each(compile_block, if.else))

compile_list(tree) ==
    LET Kind(element) == ListElement(element).kind
        Body(element) == compile_expression(ListElement(element).expression)
    IN  H!ListLiteral(compile_type(List(tree).type), H!Each(Kind, List(tree).elements),
                      H!Each(Body, List(tree).elements))

compile_map_element(element) ==
    CASE MapElementKind(element) = "insertion" ->
            H!MapEntry(compile_expression(MapEntry(element).key),
                       compile_expression(MapEntry(element).value))
      [] MapElementKind(element) = "map" -> H!MapSpread(compile_expression(element.parts[1]))
      [] OTHER -> H!MapRemoval(compile_expression(element))

compile_record(tree) ==
    LET new == Record(tree)
        type == H!Reference(new.type_name)
        FieldName(field) == RecordField(field).name
        Body(field) == compile_expression(RecordField(field).expression)
        names == H!Each(FieldName, new.fields)
        fields == H!Each(Body, new.fields)
    IN  IF new.record = <<>> THEN H!Construction(type, names, fields)
        ELSE H!Update(type, compile_expression(new.record[1]), names, fields)

compile_expression(tree) ==
    CASE tree.kind = "operation" ->
            LET operation == BinaryOperation(tree)
            IN  H!Operation(compile_operator(operation.operator),
                            compile_expression(operation.lhs), compile_expression(operation.rhs))
      [] tree.kind = "call" ->
            H!Call(compile_expression(Call(tree).function),
                   H!Each(compile_expression, Call(tree).arguments))
      [] tree.kind = "field" ->
            H!Deconstruction(compile_expression(RecordDeconstruction(tree).expression),
                             RecordDeconstruction(tree).name)
      [] tree.kind = "if" -> compile_if(If(tree).branches, If(tree).else)
      [] tree.kind = "if list" ->
            LET if == IfList(tree)
            IN  H!IfList(compile_expression(if.list), if.first_name, if.rest_name,
                         compile_block(if.then), compile_block(if.else))
      [] tree.kind = "if map" ->
            LET if == IfMap(tree)
            IN  H!IfMap(if.name, compile_expression(if.map), compile_expression(if.key),
                        compile_block(if.then), compile_block(if.else))
      [] tree.kind = "if type" -> compile_if_type(tree)
      [] tree.kind = "lambda" -> compile_lambda(tree)
      [] tree.kind = "list" -> compile_list(tree)
      [] tree.kind = "comprehension" /\ ~ IsIteration(tree) ->
            LET list == ListComprehension(tree)
            IN  H!Comprehension(compile_type(list.type), compile_expression(list.element),
                                list.element_name, compile_expression(list.list))
      [] tree.kind = "comprehension" /\ IsIteration(tree) ->
            LET map == MapIterationComprehension(tree)
            IN  H!MapIterationComprehension(
                    compile_type(map.element_type), compile_expression(map.element),
                    map.key_name, map.value_name, compile_expression(map.map))
      [] tree.kind = "map" ->
            H!MapLiteral(compile_type(Map(tree).key_type), compile_type(Map(tree).value_type),
                         H!Each(compile_map_element, Map(tree).elements))
      [] tree.kind = "number" -> H!NumberLiteral(Number(tree).value)
      [] tree.kind = "string" -> H!StringLiteral(ByteString(tree).value)
      [] tree.kind = "record" -> compile_record(tree)
      [] tree.kind = "not" -> H!Not(compile_expression(UnaryOperation(tree).expression))
      [] tree.kind = "try" -> H!Try(compile_expression(UnaryOperation(tree).expression))
      [] tree.kind = "variable" -> H!Variable(Variable(tree).name)

-----------------------------------------------------------------------------
(* Modules *)

compile_record_definition(tree) ==
    LET new == RecordDefinition(tree)
        Field(field) == H!RecordField(FieldType(field).name, compile_type(FieldType(field).type))
    IN  H!TypeDefinition(new.name, new.name, H!Each(Field, new.fields), is_record_open(new),
                         is_name_public(new.name), FALSE)

compile_type_alias(tree) ==
    LET alias == TypeAlias(tree)
    IN  H!TypeAlias(alias.name, alias.name, compile_type(alias.type), is_name_public(alias.name),
                    FALSE)

compile_foreign_import(tree) ==
    LET new == ForeignImport(tree)
    IN  H!ForeignDeclaration(new.name, new.name, new.calling_convention, compile_type(new.type))

compile_function_definition(tree) ==
    LET new == FunctionDefinition(tree)
        Configuration(export) == ForeignExport(export).calling_convention
    IN  H!FunctionDefinition(new.name, new.name, compile_lambda(new.lambda),
                             H!Each(Configuration, new.foreign_export), is_name_public(new.name))

compile_module(tree) ==
    LET new == Module(tree)
    IN  H!Module(H!Each(compile_record_definition,
                        SelectSeq(new.type_definitions, IsRecordDefinition)),
                 H!Each(compile_type_alias, SelectSeq(new.type_definitions, IsTypeAlias)),
                 H!Each(compile_foreign_import, new.foreign_imports), <<>>,
                 H!Each(compile_function_definition, new.function_definitions))

-----------------------------------------------------------------------------
(* Imports *)

qualify_name(prefix, name) == prefix \o IdentifierSeparator \o name

\* The names of an imported module have a prefix, its last component if none is given.
module_prefix(new) ==
    IF new.prefix = {} THEN Last(Components(new.module_path)) ELSE CHOOSE x \in new.prefix : TRUE

ImportedModule(interface, new) ==
    [interface |-> interface, prefix |-> module_prefix(new),
     unqualified_names |-> {UnqualifiedName(name) : name \in ToSet(new.unqualified_names)}]

OriginalNames(definitions) == {definitions[i].original_name : i \in DOMAIN definitions}

\* Every name that is imported without a prefix is one of the interface.
validate_imported_module(imported) ==
    imported.unqualified_names \subseteq
        OriginalNames(imported.interface.type_definitions)
            \cup OriginalNames(imported.interface.type_aliases)
            \cup OriginalNames(imported.interface.function_declarations)

\* The first definition of each name.
UniqueByName(definitions) ==
    LET Add(sequence, d) ==
            IF d.name \in H!NamesOf(sequence) THEN sequence ELSE Append(sequence, d)
    IN  FoldLeft(Add, <<>>, definitions)

\* Public definitions first. (The names are in no order that matters.)
SortedByVisibility(definitions) ==
    SelectSeq(definitions, LAMBDA d : d.is_public)
        \o SelectSeq(definitions, LAMBDA d : ~ d.is_public)

compile_imports(compiled, interfaces) ==
    LET TypeDefinitions(interface) == interface.type_definitions
        TypeAliases(interface) == interface.type_aliases
        Functions_(interface) == interface.function_declarations
        Definition(d) == H!TypeDefinition(d.name, d.original_name, d.fields, d.is_open,
                                          d.is_public, TRUE)
        Alias(a) == H!TypeAlias(a.name, a.original_name, a.type, a.is_public, TRUE)
        Declaration(d) == H!FunctionDeclaration(d.name, d.type)
    IN  H!Module(
            H!Each(Definition, UniqueByName(SortedByVisibility(
                               FlattenSeq(H!Each(TypeDefinitions, interfaces)))))
                \o compiled.type_definitions,
            H!Each(Alias, UniqueByName(SortedByVisibility(
                          FlattenSeq(H!Each(TypeAliases, interfaces)))))
                \o compiled.type_aliases,
            compiled.foreign_declarations,
            UniqueByName(H!Each(Declaration, FlattenSeq(H!Each(Functions_, interfaces))))
                \o compiled.function_declarations,
            compiled.function_definitions)

\* What a definition of an imported module is called here.
LocalName(imported, original_name) ==
    IF original_name \in imported.unqualified_names THEN original_name
    ELSE qualify_name(imported.prefix, original_name)

\* Names of later imports replace those of earlier ones.
Renamed(imports, Definitions(_)) ==
    LET NamesOf(imported) ==
            LET definitions == Definitions(imported.interface)
            IN  [name \in {LocalName(imported, x) : x \in OriginalNames(definitions)} |->
                    (CHOOSE d \in ToSet(definitions) :
                        LocalName(imported, d.original_name) = name).name]
    IN  FoldLeft(LAMBDA names, imported : NamesOf(imported) @@ names, <<>>, imports)

rename_variables(compiled, imports) ==
    LET Functions_(interface) == interface.function_declarations
    IN  H!rename_variables(compiled, Renamed(imports, Functions_))

rename_types(compiled, imports) ==
    LET IsPublic(d) == d.is_public
        Public(interface) == SelectSeq(interface.type_definitions, IsPublic)
                                \o SelectSeq(interface.type_aliases, IsPublic)
        names == Renamed(imports, Public)
    IN  H!transform_types(compiled, [name \in DOMAIN names |-> H!Reference(names[name])])

compile_with_imports(compiled, imports, prelude_interfaces) ==
    LET Interface(imported) == imported.interface
    IN  rename_variables(
            rename_types(compile_imports(compiled, H!Each(Interface, imports) \o prelude_interfaces),
                         imports),
            imports)

-----------------------------------------------------------------------------

transform_module(compiled, prefix) ==
    H!transform_built_in_variables(
        H!transform_built_in_types(
            H!qualify_types(H!qualify_functions(compiled, prefix), prefix)))

\* A module, or none. The interfaces of other modules are there by their paths.
compile(tree, prefix, interfaces, prelude_interfaces) ==
    LET imports == H!Each(Import, Module(tree).imports)
        imported == H!Evaluated([i \in DOMAIN imports |->
                        ImportedModule(interfaces[imports[i].module_path], imports[i])])
    IN  IF \E i \in DOMAIN imports : imports[i].module_path \notin DOMAIN interfaces THEN <<>>
        ELSE IF \E i \in DOMAIN imported : ~ validate_imported_module(imported[i]) THEN <<>>
        ELSE <<transform_module(
                    compile_with_imports(compile_module(tree), imported, prelude_interfaces),
                    prefix)>>

compile_prelude(tree, prefix) == transform_module(compile_module(tree), prefix)

\* What analysis refuses the module for, as far as names and definitions go.
validate(compiled) ==
    Analysis(H!collect_type_names(compiled), H!collect_records(compiled))!Refusal(compiled)
=============================================================================
