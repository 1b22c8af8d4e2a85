---------------------------- MODULE MCModuleBuild ----------------------------
(* ModuleBuild for TLC.  In one family there are three libraries that       *)
(* depend on each other in every way without a circle, up to their names,  *)
(* and with one dependency more that closes a circle of one, two or three, *)
(* and a main package without modules.  In the other there are modules     *)
(* that are edited.                                                        *)
EXTENDS ModuleBuild, TLC

CONSTANTS a, b, c, Own1, Own2, Test, key, other, x, y

Depends(main, A, B, C) ==
    [p \in {a, b, c, Main, Ffi} |->
        CASE p = Main -> main
          [] p = Ffi  -> {}
          [] p = a    -> A
          [] p = b    -> B
          [] p = c    -> C]

MCGraphs ==
    {Depends(main, A, B, C) :
        main \in {{a}, {a, b}, {a, c}, {a, b, c}},
        A \in SUBSET {b, c}, B \in SUBSET {c}, C \in {{}, {a}, {c}}}
    \cup {Depends(main, {}, {}, {}) : main \in {{a}, {a, b}}}

None == [m \in Own |-> Absent]
Nothing == [m \in {} |-> {}]
Module(name, imports) == [name |-> name, imports |-> imports]

WithoutModules ==
    {[graph |-> graph, damage |-> 0, edits |-> MaxEdits,
      application |-> FALSE, commands |-> {"build"}, text |-> None, library |-> <<>>, configuration |-> [p \in graph[Main] |-> p],
      texts |-> Nothing, configurations |-> {}] : graph \in MCGraphs}

Library == [p \in {a, b, Prelude} |-> Module(IF p = b THEN y ELSE x, <<>>)]

Package(changes, main, commands, own, keys, texts, configurations) ==
    [graph |-> Depends(main, {}, {}, {}), damage |-> MaxDamage, edits |-> MaxEdits - changes,
     application |-> Entry \in DOMAIN own, commands |-> commands,
     text |-> [m \in Own |-> IF m \in DOMAIN own THEN own[m] ELSE Absent],
     library |-> Library, configuration |-> keys, texts |-> texts,
     configurations |-> configurations]

\* A module and the one that imports it are edited, the former is deleted, ...
ImportsEdited ==
    Package(2, {a}, {"build"},
        Entry :> Module(x, Own1 :> x) @@ Own1 :> Module(x, key :> x), key :> a,
        Own1 :> {Module(y, key :> x), Module(x, key :> x), Absent}
            @@ Entry :> {Module(x, Own1 :> y), Module(x, Own1 :> x)}, {})

\* ... or comes to import the one that imports it.
InCircle ==
    Package(2, {a}, {"build"},
        Entry :> Module(x, Own1 :> x) @@ Own1 :> Module(x, Own2 :> y)
            @@ Own2 :> Module(y, <<>>), key :> a,
        Own2 :> {Module(y, Own1 :> x), Module(y, key :> x)}, {})

\* Tests are added and deleted together with what they test.
Tested ==
    Package(1, {a}, {"build", "test"},
        Own1 :> Module(x, <<>>) @@ Test :> Module(x, Own1 :> x), key :> a,
        Own1 :> {Module(y, <<>>)} @@ Test :> {Absent, Module(x, Own1 :> y)}, {})

\* Packages are given other keys, or are not depended on any more.
Configured ==
    Package(2, {a, b}, {"build"},
        Entry :> Module(x, key :> x), key :> a @@ other :> b,
        Entry :> {Module(x, key :> y)}, {key :> b @@ other :> a, key :> a})

MCProjects == WithoutModules \cup {ImportsEdited, InCircle, Tested, Configured}
=============================================================================
