-------------------------------- MODULE Frontend --------------------------------
(***************************************************************************)
(* The way of a module from the source to the mid-level representation:    *)
(* one action per step of its analysis (lib/hir/src/analysis.rs, analyze)  *)
(* and one for its compilation (lib/hir-mir/src/lib.rs, compile_module).   *)
(*                                                                         *)
(* The prelude and another module are imported; both have been compiled    *)
(* before in the same way.                                                 *)
(***************************************************************************)
EXTENDS HirMir, HirMachine, Prelude

CONSTANTS
    Sources,    \* modules, each a set of global functions, one of them named main
    Imported,   \* the functions of a module that they import
    Foreign,    \* the types of foreign functions
    Inputs,     \* numbers that main is called with
    UserRecords \* the names of records that the modules define

VARIABLES
    source,     \* the module as it has been
    functions,  \* the module as it is
    mir,        \* what it has been compiled to
    linked,     \* compiled functions that it is linked with
    stage       \* the last step

vars == <<source, functions, mir, linked, stage>>

E == INSTANCE MirMachine

\* What a module sees: its functions, imported and foreign ones.
VisibleScope(module) == GlobalScope(module \cup Imported, Foreign)

Inferred(module, scope) == {[f EXCEPT !.lambda = Infer(@, scope)] : f \in module}
Coerced(module, scope) == {[f EXCEPT !.lambda = Coerce(@, scope)] : f \in module}

\* Functions by their names.
Table(module) == [x \in {f.name : f \in module} |-> CHOOSE f \in module : f.name = x]

-----------------------------------------------------------------------------
(* What has been compiled before *)

PreludeScope == GlobalScope(PreludeFunctions, <<>>)

ImportedScope == GlobalScope(Imported, Foreign)

\* Modules, each with what it sees.
Units == {<<PreludeFunctions, PreludeScope>>, <<Imported, ImportedScope>>}

Linked ==
    Table(UNION {CompileModule(Coerced(Inferred(unit[1], unit[2]), unit[2]), {}).functions :
                    unit \in Units})

\* The names that compiled modules may use.
Runtime ==
    Extended(Declared(Extended(ImportedScope, PreludeScope)),
             Named(M!Name("spawn"), CompileType(Function(<<AnyThunk>>, AnyThunk))))

-----------------------------------------------------------------------------
(* Steps *)

Init == /\ linked = Linked
        /\ source \in Sources
        /\ functions = source
        /\ mir = <<>>
        /\ stage = "source"

Step(from, condition, to) ==
    /\ stage = from
    /\ stage' = IF condition THEN to ELSE "rejected"
    /\ UNCHANGED <<source, mir, linked>>

InferModule ==
    \E inferred \in {Inferred(functions, VisibleScope(functions))} :
        LET known == \A f \in inferred : IsInferred(f.lambda)
        IN  /\ Step("source", known, "inferred")
            /\ functions' = IF known THEN inferred ELSE functions

CheckModuleTypes ==
    /\ Step("inferred", \A f \in functions : CheckTypes(f.lambda, VisibleScope(functions)),
            "types checked")
    /\ UNCHANGED functions

ValidateTryOperations ==
    /\ Step("types checked", \A f \in functions : ValidTries(f.lambda, NoType), "tries checked")
    /\ UNCHANGED functions

ValidateUnusedErrors ==
    /\ Step("tries checked", \A f \in functions : ErrorsAreUsed(f.lambda), "checked")
    /\ UNCHANGED functions

CoerceModule ==
    /\ Step("checked", TRUE, "coerced")
    /\ functions' = Coerced(functions, VisibleScope(functions))

Compile ==
    LET comparable == \A f \in functions : EqualitiesExist(f.lambda)
    IN  /\ stage = "coerced"
        /\ stage' = IF comparable THEN "compiled" ELSE "rejected"
        /\ mir' = IF comparable THEN <<CompileModule(functions, UserRecords)>> ELSE mir
        /\ UNCHANGED <<source, functions, linked>>

\* The compiled module is handed on, and an error shown.
End == stage \in {"compiled", "rejected"} /\ UNCHANGED vars

Next == \/ InferModule
        \/ CheckModuleTypes
        \/ ValidateTryOperations
        \/ ValidateUnusedErrors
        \/ CoerceModule
        \/ Compile
        \/ End

Spec == Init /\ [][Next]_vars

-----------------------------------------------------------------------------
(* Runs of main *)

Main == CHOOSE f \in source : f.name = "main"

\* What main returns as the language has it.
Meaning(n) ==
    LET modules == {<<source, VisibleScope(source)>>, <<Imported, ImportedScope>>}
    IN  ApplyGlobal("main", <<NumberValue(n)>>,
                    Running(Table(UNION {Inferred(unit[1], unit[2]) : unit \in modules}),
                            VisibleScope(source)))

\* What it returns once it is compiled.
Outcome(n) ==
    E!Apply(E!Machine(Extended(linked, Table(mir[1].functions)), FALSE, <<>>),
            E!Static(M!Name("main")), <<E!Number(n)>>)

RECURSIVE ElementsOf(_), Agrees(_, _, _, _)
CallPrelude(x, m, argument) == E!Apply(m, E!Static(M!Name(x)), <<argument>>)

\* The first element has been evaluated.
ElementsFrom(first, top) == <<first>> \o ElementsOf(CallPrelude("Rest", first.m, top))

ElementsIn(thunk, top) == ElementsFrom(E!Apply(thunk.m, thunk.value, <<>>), top)

ElementsUnder(top) ==
    IF top.value.tag = CompileType(None) THEN <<>>
    ELSE ElementsIn(CallPrelude("First", top.m, top.value.payload[1]), top.value.payload[1])

\* The elements of a compiled list, each with the machine that has evaluated it.
ElementsOf(list) == ElementsUnder(CallPrelude("FirstRest", list.m, list.value))

RECURSIVE EntriesUnder(_)
EntryFrom(key, value, iterator) ==
    <<key, value>> \o EntriesUnder(CallPrelude("MapIteratorRest", value.m, iterator))

EntryAfter(key, iterator) ==
    EntryFrom(key, CallPrelude("MapIteratorValue", key.m, iterator), iterator)

\* The keys and values of what an iterator of a compiled map is at and after that.
EntriesUnder(top) ==
    IF top.value.tag = CompileType(None) THEN <<>>
    ELSE EntryAfter(CallPrelude("MapIteratorKey", top.m, top.value.payload[1]),
                    top.value.payload[1])

EntriesOf(map) == EntriesUnder(CallPrelude("IterateMap", map.m, map.value))

AllAgree(elements, values) ==
    /\ Len(elements) = Len(values)
    /\ \A i \in DOMAIN values : Agrees(elements[i].m, elements[i].value, AnyType, values[i])

\* Whether a compiled value stands for a value of a type.  Functions all look alike.
Agrees(m, compiled, type, value) ==
    LET inner == compiled.payload[1]
        fields == m.heap[compiled.n].fields
        Field(i) == Agrees(m, fields[i], Fields(type)[i].type, value.parts[i])
    IN  CASE IsVariant(Canonicalize(type)) ->
                /\ compiled.tag = ConcreteType(value.type)
                /\ Agrees(m, IF IsGeneric(value.type) THEN m.heap[inner.n].fields[1] ELSE inner,
                          value.type, value)
          [] KindOf(value) \in {"number", "boolean"} -> compiled.n = value.n
          [] KindOf(value) = "record" -> \A i \in DOMAIN fields : Field(i)
          [] KindOf(value) = "error" -> Agrees(m, fields[1], AnyType, value.parts[1])
          [] KindOf(value) = "list" -> AllAgree(ElementsOf([m |-> m, value |-> compiled]), value.parts)
          [] KindOf(value) = "map" ->
                AllAgree(EntriesOf([m |-> m, value |-> compiled]),
                         FlattenSeq([i \in DOMAIN value.parts |-> value.parts[i].parts]))
          [] OTHER -> TRUE

-----------------------------------------------------------------------------
\* A program that the checks let pass never applies an operation to what it is
\* not for, and what it returns is of the type it is declared to return, with
\* all that is in it.
CheckedProgramsAreSound ==
    stage = "checked" =>
        \A n \in Inputs : \A result \in {Meaning(n)} :
            ~ result.s.stuck /\ HasType(result.value, Last(Main.lambda.types))

\* Coercions make the types of all expressions equal to what is expected: the
\* check of types never fails for a second time.
CoercionKeepsTypes ==
    stage = "coerced" =>
        \A f \in functions : CheckTypes(f.lambda, VisibleScope(functions))

\* A program that is accepted compiles to one whose types are equal wherever
\* values meet, whose names all are defined and whose variants have definitions:
\* the check after the compilation never fails.
AcceptedProgramsCompile ==
    stage = "compiled" => CheckModule(mir[1], Runtime)

\* The compiled program returns what the program means and calls the same
\* foreign functions with the same arguments in the same order, although
\* elements of lists, thunks and comparisons are evaluated in another way.
CompiledProgramsMeanTheSame ==
    stage = "compiled" =>
        \A n \in Inputs : \A meaning \in {Meaning(n)}, outcome \in {Outcome(n)} :
            /\ ~ outcome.m.bad
            /\ [i \in DOMAIN outcome.m.trace |-> outcome.m.trace[i].n] = meaning.s.trace
            /\ Agrees(outcome.m, outcome.value, Last(Main.lambda.types), meaning.value)
=============================================================================
