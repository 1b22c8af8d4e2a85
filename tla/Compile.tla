------------------------------- MODULE Compile -------------------------------
(***************************************************************************)
(* The compilation of a module of the mid-level representation up to the   *)
(* point where code is emitted (lib/mir-fmm/src/lib.rs, compile): one      *)
(* action per pass.                                                        *)
(***************************************************************************)
EXTENDS MirPasses, MirCounts, MirMachine

CONSTANTS
    Sources,    \* modules, each a set of global functions, one of them named main
    Inputs      \* arguments of main, with the blocks they refer to

VARIABLES
    source,     \* the module as it has been
    functions,  \* the module as it is
    stage       \* the last pass

vars == <<source, functions, stage>>

Main == Name("main")

Init == /\ source \in Sources
        /\ functions = source
        /\ stage = "source"

Pass(from, to, new) ==
    /\ stage = from
    /\ functions' = new
    /\ stage' = to
    /\ UNCHANGED source

RECURSIVE NamesIn(_)
NamesIn(e) == ToSet(e.binds) \cup UNION {NamesIn(e.subs[i]) : i \in DOMAIN e.subs}

ConvertNames ==
    LET globals == {f.name : f \in functions}
        names == globals \cup UNION {NamesIn(f.body) : f \in functions}
    IN  Pass("source", "alpha converted",
             {ConvertAlphaOfFunction(names, globals, f) : f \in functions})

Normalize ==
    Pass("alpha converted", "normalized", {NormalizeFunction(f) : f \in functions})

InferEnvironments ==
    Pass("normalized", "environments inferred",
         {InferEnvironmentOfFunction(f) : f \in functions})

LiftFunctions ==
    Pass("environments inferred", "lifted", UNION {LiftFunction(f) : f \in functions})

CountReferences ==
    Pass("lifted", "counted", {CountFunction(f) : f \in functions})

\* A counted module is emitted as it is.
Emit == stage = "counted" /\ UNCHANGED vars

Next == \/ ConvertNames
        \/ Normalize
        \/ InferEnvironments
        \/ LiftFunctions
        \/ CountReferences
        \/ Emit

Spec == Init /\ [][Next]_vars

-----------------------------------------------------------------------------
\* A run of main with a value that comes back, as the caller sees it.
Run(module, counted, input) ==
    LET table == [x \in {f.name : f \in module} |-> CHOOSE f \in module : f.name = x]
    IN  Apply(Machine(table, counted, input.heap), Static(Main), input.arguments)

Observed(result) == <<Shown(result.m, result.value), result.m.trace>>

\* Whatever pass comes last, the program returns what its source returns, and
\* calls foreign functions in the same order with the same arguments, also when
\* records are updated in place.
MeaningIsKept ==
    \A input \in Inputs :
        Observed(Run(functions, stage = "counted", input))
            = Observed(Run(source, FALSE, input))

\* On every path of a function, each variable is used up exactly once for each
\* reference to it: it is cloned before all uses but the last, and dropped
\* where it is not used.
VariablesAreUsedUp ==
    stage = "counted" => \A f \in functions : ValidFunction(f)

\* A run never touches a block that has been freed, and once the caller drops
\* the result, nothing is left but what global functions keep.
NothingLeaks ==
    stage = "counted" =>
        \A input \in Inputs :
            LET result == Run(functions, TRUE, input)
                globals == result.m.globals
                m == DropAll(Drop(result.m, result.value),
                             [i \in 1 .. Cardinality(DOMAIN globals) |->
                                globals[SetToSeq(DOMAIN globals)[i]]])
            IN  /\ ~ m.bad
                /\ \A i \in DOMAIN m.heap : m.heap[i].count = 0

=============================================================================
