-------------------------------- MODULE Scopes --------------------------------
(***************************************************************************)
(* What the names in a module mean, by the rules of the language           *)
(* reference, for the properties of Source: a name that is bound around    *)
(* it, one that is imported without a prefix, one that the module defines, *)
(* one that is imported with a prefix, or one that is built in.  It looks  *)
(* at syntax trees and is not a model of code.                             *)
(***************************************************************************)
EXTENDS AstHir

CONSTANTS
    Library,    \* modules with their paths, each after those it imports
    Prelude     \* modules that all others use, without imports

\* What the full names of a module's definitions begin with.
FullPrefix(path) == path.text \o ":"
PreludePrefix == "prelude:"

PreludeInterfaces ==
    [i \in DOMAIN Prelude |-> H!compile_interface(compile_prelude(Prelude[i], PreludePrefix))]

\* What the builds of the modules have left for those that import them.
Interfaces ==
    LET Built(done, built) ==
            (built.path :> H!compile_interface(
                compile(built.module, FullPrefix(built.path), done, PreludeInterfaces)[1])) @@ done
    IN  FoldLeft(Built, <<>>, Library)

-----------------------------------------------------------------------------

Imports(tree) == ToSet(H!Each(Import, Module(tree).imports))
IsInLibrary(path) == \E built \in ToSet(Library) : built.path = path
Imported(new) == (CHOOSE built \in ToSet(Library) : built.path = new.module_path).module
Listed(new) == {UnqualifiedName(name) : name \in ToSet(new.unqualified_names)}

DefinedTypes(tree) == ToSet(H!Each(Name, Module(tree).type_definitions))
DefinedFunctions(tree) ==
    {FunctionDefinition(f).name : f \in ToSet(Module(tree).function_definitions)}
        \cup {ForeignImport(f).name : f \in ToSet(Module(tree).foreign_imports)}
ExportedFunctions(tree) ==
    PublicNames \cap {FunctionDefinition(f).name : f \in ToSet(Module(tree).function_definitions)}
ExportedTypes(tree) == PublicNames \cap DefinedTypes(tree)

\* A module with the prefix of its full names.
Scope(module_, prefix) == [module |-> module_, prefix |-> prefix]

\* The full names of what a name can mean outside of functions.
MeaningsOf(name, scope, own, Exported(_)) ==
    LET imports == {new \in Imports(scope.module) : IsInLibrary(new.module_path)}
        IsMeant(new, x) ==
            IF x \in Listed(new) THEN x = name
            ELSE qualify_name(module_prefix(new), x) = name
    IN  {scope.prefix \o x : x \in own \cap {name}}
            \cup UNION {{FullPrefix(new.module_path) \o x :
                            x \in {x \in Exported(Imported(new)) : IsMeant(new, x)}} :
                        new \in imports}

TypeMeanings(name, scope) == MeaningsOf(name, scope, DefinedTypes(scope.module), ExportedTypes)

VariableMeanings(name, scope) ==
    MeaningsOf(name, scope, DefinedFunctions(scope.module), ExportedFunctions)

MeantReference(name, scope) ==
    IF TypeMeanings(name, scope) # {} THEN H!Reference(CHOOSE x \in TypeMeanings(name, scope) : TRUE)
    ELSE IF name \in DOMAIN H!BuiltInTypes THEN H!BuiltInTypes[name]
    ELSE H!Reference(name)

MeantVariable(name, scope) ==
    IF VariableMeanings(name, scope) # {}
    THEN H!Variable(CHOOSE x \in VariableMeanings(name, scope) : TRUE)
    ELSE IF name \in DOMAIN H!BuiltInVariables THEN H!BuiltInVariables[name]
    ELSE H!Variable(name)

RECURSIVE MeantType(_, _)
MeantType(tree, scope) ==
    LET Part(i) == MeantType(tree.parts[i], scope)
    IN  CASE tree.kind = "reference" -> MeantReference(tree.text, scope)
          [] tree.kind = "list type" -> H!List(Part(1))
          [] tree.kind = "map type" -> H!Map(Part(1), Part(2))
          [] tree.kind = "union type" -> H!Union({Part(1), Part(2)})
          [] tree.kind = "function type" ->
                H!Function([i \in DOMAIN tree.parts[1].parts |->
                                MeantType(tree.parts[1].parts[i], scope)], Part(2))

-----------------------------------------------------------------------------

TypeKinds == {"function type", "union type", "list type", "map type", "reference"}

\* The names that part i of a tree can use because of the tree.
NamesBound(tree, i) ==
    CASE tree.kind = "lambda" /\ i = 3 -> ToSet(ArgumentNames(tree.parts[1].parts))
      [] tree.kind = "block" -> UNION {Statement(tree.parts[j]).name : j \in 1 .. i - 1}
      [] tree.kind = "if list" /\ i = 4 -> {tree.parts[1].text, tree.parts[2].text}
      [] tree.kind = "if map" /\ i = 4 -> {tree.parts[1].text}
      [] tree.kind = "if type" /\ i > 2 -> {tree.parts[1].text}
      [] tree.kind = "comprehension" /\ i = 2 ->
            {tree.parts[j].text : j \in 3 .. Len(tree.parts) - 1}
      [] OTHER -> {}

\* The parts of a tree as the code goes through them.
Order(tree) ==
    LET IsType(i) == tree.parts[i].kind \in TypeKinds
        NotType(i) == ~ IsType(i)
        all == [i \in DOMAIN tree.parts |-> i]
    IN  CASE tree.kind = "comprehension" -> <<1, Len(tree.parts), 2>>
          [] tree.kind = "if type" -> SelectSeq(all, IsType) \o SelectSeq(all, NotType)
          [] OTHER -> all

RECURSIVE Meant(_, _, _)
\* What types, variables and literals in a part of a module mean, one after the other.
Meant(tree, locals, scope) ==
    LET order == Order(tree)
        Part(i) == Meant(tree.parts[i], locals \cup NamesBound(tree, i), scope)
        type == IF tree.kind = "record" THEN <<MeantReference(Name(tree), scope)>> ELSE <<>>
    IN  CASE tree.kind \in TypeKinds -> <<MeantType(tree, scope)>>
          [] tree.kind = "variable" ->
                <<IF tree.text \in locals THEN H!Variable(tree.text)
                  ELSE MeantVariable(tree.text, scope)>>
          [] tree.kind = "number" -> <<H!NumberLiteral(tree.text)>>
          [] tree.kind = "string" -> <<H!StringLiteral(tree.text)>>
          [] tree.kind \in {"conventions", "exports"} -> <<>>
          [] OTHER -> type \o FlattenSeq(H!Each(Part, order))

MeantByModule(scope) ==
    LET new == Module(scope.module)
        MeantHere(tree) == Meant(tree, {}, scope)
    IN  FlattenSeq(H!Each(MeantHere, SelectSeq(new.type_definitions, IsRecordDefinition)
                            \o SelectSeq(new.type_definitions, IsTypeAlias)
                            \o new.foreign_imports \o new.function_definitions))

\* The same of a module that has been compiled.
RECURSIVE Leaves(_)
Leaves(e) ==
    IF e.kind \in {"variable", "number", "string", "boolean", "none", "built-in function"} THEN <<e>>
    ELSE e.types \o FlattenSeq(H!Each(Leaves, e.subs))

LeavesOfModule(compiled) ==
    LET TypesOf(d) == [i \in DOMAIN d.fields |-> d.fields[i].type]
        TypeOf(d) == <<d.type>>
        LeavesOf(f) == Leaves(f.lambda)
    IN  FlattenSeq(H!Each(TypesOf, H!Own(compiled.type_definitions))
                    \o H!Each(TypeOf, H!Own(compiled.type_aliases))
                    \o H!Each(TypeOf, compiled.foreign_declarations)
                    \o H!Each(LeavesOf, compiled.function_definitions))

-----------------------------------------------------------------------------
(* Modules that mean something *)

ImportsExist(tree) ==
    \A new \in Imports(tree) :
        /\ IsInLibrary(new.module_path)
        /\ Listed(new) \subseteq ExportedTypes(Imported(new)) \cup ExportedFunctions(Imported(new))

FullNames(definitions) == {d.name : d \in ToSet(definitions)}

RECURSIVE IsFinite(_, _)
\* Whether a type has a value if some records have, and references stand for types.
IsFinite(type, finite) ==
    CASE type.kind = "reference" -> type.name \in finite
      [] type.kind = "union" -> \E member \in type.members : IsFinite(member, finite)
      [] OTHER -> TRUE

\* What is found from nothing in some number of steps.
FoundIn(steps, Step(_)) ==
    FoldLeft(LAMBDA found, step : Step(found), {}, [step \in 1 .. steps |-> step])

\* The aliases that stand for something, and the records that have values.
Expandable(compiled) ==
    LET aliases == ToSet(compiled.type_aliases)
        Step(found) ==
            {a.name : a \in {a \in aliases :
                    H!ReferencesIn(a.type) \cap FullNames(compiled.type_aliases) \subseteq found}}
    IN  FoundIn(Cardinality(aliases), Step)

Inhabited(compiled) ==
    LET aliases == ToSet(compiled.type_aliases)
        records == ToSet(compiled.type_definitions)
        Step(found) ==
            {a.name : a \in {a \in aliases : IsFinite(a.type, found)}}
                \cup {r.name : r \in {r \in records :
                        \A type \in H!FieldTypes(r) : IsFinite(type, found)}}
    IN  FoundIn(Cardinality(aliases) + Cardinality(records), Step)

RECURSIVE RecordsMade(_)
\* The names of types that records are made of in a tree.
RecordsMade(tree) ==
    (IF tree.kind = "record" THEN {Name(tree)} ELSE {})
        \cup UNION {RecordsMade(tree.parts[i]) : i \in DOMAIN tree.parts}

OwnNames(scope) == {scope.prefix \o name : name \in DefinedTypes(scope.module)}
ImportedNames(scope) ==
    UNION {{FullPrefix(new.module_path) \o name : name \in ExportedTypes(Imported(new))} :
            new \in Imports(scope.module)}

RECURSIVE Expanded(_, _)
\* What a type is when aliases are left out.
Expanded(type, compiled) ==
    LET same == {a \in ToSet(compiled.type_aliases) : a.name = type.name}
    IN  IF type.kind = "reference" /\ same # {}
        THEN Expanded((CHOOSE a \in same : TRUE).type, compiled)
        ELSE type

\* The type is one of a record, of the module or with public fields only.
CanBeMade(type, compiled, scope) ==
    \E r \in ToSet(compiled.type_definitions) :
        /\ Expanded(type, compiled) = H!Reference(r.name)
        /\ \/ r.name \in OwnNames(scope)
           \/ \A i \in DOMAIN r.fields : r.fields[i].name \in PublicNames

\* Each name is that of one type or function, all types are there, aliases and records
\* stand for something, and records are made by those who may.
IsSound(compiled, scope) ==
    LET new == Module(scope.module)
        FunctionName(tree) == FunctionDefinition(tree).name
        references ==
            UNION {H!ReferencesIn(type) : type \in {e \in ToSet(LeavesOfModule(compiled)) :
                                                        "members" \in DOMAIN e}}
    IN  /\ H!AreUnique(H!Each(FunctionName, new.function_definitions))
        /\ H!AreUnique(H!Each(Name, new.type_definitions))
        /\ references \subseteq OwnNames(scope) \cup ImportedNames(scope)
        /\ FullNames(compiled.type_aliases) = Expandable(compiled)
        /\ FullNames(compiled.type_definitions) \subseteq Inhabited(compiled)
        /\ \A name \in UNION {RecordsMade(tree) : tree \in ToSet(new.function_definitions)} :
                CanBeMade(MeantReference(name, scope), compiled, scope)

RECURSIVE HasUnionOfNames(_)
HasUnionOfNames(type) ==
    \/ type.kind = "union" /\ Cardinality({m \in type.members : m.kind = "reference"}) > 1
    \/ \E i \in DOMAIN type.parts : HasUnionOfNames(type.parts[i])
    \/ \E member \in type.members : HasUnionOfNames(member)

\* A field of some record, or an alias, is a union of two types with names.
HasRecordsInUnions(compiled) ==
    \E type \in UNION {H!FieldTypes(r) : r \in ToSet(compiled.type_definitions)}
                    \cup {a.type : a \in ToSet(compiled.type_aliases)} :
        HasUnionOfNames(type)
=============================================================================
