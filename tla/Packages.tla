------------------------------- MODULE Packages -------------------------------
(***************************************************************************)
(* pen build up to the moment when it runs the main build script: external *)
(* packages are copied into the output directory, a build script is        *)
(* written for each, and the scripts are put in order                      *)
(* (lib/app/src/package_initializer.rs and package_builder.rs).            *)
(*                                                                         *)
(* The output directory survives a build that is interrupted or fails, and *)
(* the next build starts from it.  What is in a directory is "absent",     *)
(* "bare" (no configuration file), "partial" (a configuration file, but    *)
(* not all modules) or "whole"; script[p] is what was in the directory of  *)
(* p when the build script of p was written.  There is one build at a      *)
(* time.                                                                   *)
(***************************************************************************)
EXTENDS Naturals, FiniteSets, Sequences

CONSTANTS Libraries,   \* external packages
          Prelude, Ffi,
          Main,
          Graphs,      \* what packages may depend on
          StackLimit,  \* how deep initialize can recurse
          MaxDamage    \* bound on copies that do not come to their end

ASSUME PackagesAssumption ==
    /\ IsFiniteSet(Libraries)
    /\ Prelude # Ffi /\ Main \notin {Prelude, Ffi}
    /\ {Prelude, Ffi, Main} \cap Libraries = {}
    /\ Graphs \subseteq [Libraries \cup {Main, Ffi} -> SUBSET Libraries]
    /\ \A graph \in Graphs : graph[Ffi] = {}
    /\ StackLimit \in Nat /\ StackLimit > Cardinality(Libraries) + 1
    /\ MaxDamage \in Nat

VARIABLES
    needs,      \* needs[p]: the dependencies in the configuration of p
    directory,  \* directory[p]: what is in the copy of p
    script,     \* script[p]: what the build script of p was written for
    stage,      \* what package_initializer::initialize has come to
    step,       \* what the build does next
    current,    \* the package that is initialized
    stack,      \* the dependencies left to initialize, call by call
    linked,     \* the external packages in their order
    outcome,    \* what the last build has come to
    damage      \* how many copies have not come to their end

packages == <<needs, directory, script, stage, step, current, stack, linked, outcome,
              damage>>

Packages == Libraries \cup {Prelude, Ffi}
Contents == {"absent", "bare", "partial", "whole"}

PackagesInit ==
    /\ needs \in Graphs
    /\ directory = [p \in Packages |-> "absent"]
    /\ script = directory
    /\ stage = "prelude"
    /\ step = "idle"
    /\ current = Prelude
    /\ stack = <<>>
    /\ linked = <<>>
    /\ outcome = "none"
    /\ damage \in 0 .. MaxDamage

----------------------------------------------------------------------------

(* The process ends, one way or another.  Nothing but files outlives it.   *)
End(result) ==
    /\ outcome' = result
    /\ step' = "idle"
    /\ stage' = "prelude"
    /\ current' = Prelude
    /\ stack' = <<>>
    /\ linked' = <<>>

Initialize(p) == step' = "copy" /\ current' = p

(* pen build: the prelude is the first package.                            *)
Build ==
    /\ step = "idle"
    /\ Initialize(Prelude)
    /\ outcome' = "none"
    /\ UNCHANGED <<needs, directory, script, stage, stack, linked, damage>>

(* A package that exists is not copied again.                              *)
MutantSkipCopy ==
    /\ step = "copy"
    /\ directory[current] # "absent"
    /\ step' = IF stage = "main" THEN "next" ELSE "compile"
    /\ UNCHANGED <<needs, directory, script, stage, current, stack, linked,
                   outcome, damage>>

SkipCopy ==
    /\ step = "copy"
    /\ directory[current] # "absent"
    /\ step' = "compile"
    /\ UNCHANGED <<needs, directory, script, stage, current, stack, linked,
                   outcome, damage>>

(* cp -r or git clone.                                                     *)
Copy ==
    /\ step = "copy"
    /\ directory[current] = "absent"
    /\ directory' = [directory EXCEPT ![current] = "whole"]
    /\ step' = "compile"
    /\ UNCHANGED <<needs, script, stage, current, stack, linked, outcome, damage>>

(* The command fails, or is killed together with the build.  git clone     *)
(* mostly removes what it has copied by then; cp does not.                 *)
CopyFails ==
    /\ step = "copy"
    /\ directory[current] = "absent"
    /\ damage < MaxDamage
    /\ damage' = damage + 1
    /\ \E c \in Contents : directory' = [directory EXCEPT ![current] = c]
    /\ \E result \in {"failed", "interrupted"} : End(result)
    /\ UNCHANGED <<needs, script>>

(* package_build_script_compiler: a script for the modules in a directory. *)
(* The dependencies of the prelude are not looked at.                      *)
Compile ==
    /\ step = "compile"
    /\ script' = [script EXCEPT ![current] = directory[current]]
    /\ IF stage = "prelude"
       THEN stage' = "ffi" /\ Initialize(Ffi)
       ELSE step' = "read" /\ UNCHANGED <<stage, current>>
    /\ UNCHANGED <<needs, directory, stack, linked, outcome, damage>>

(* initialize_dependencies: the configuration is read, and initialize is   *)
(* called for every dependency, whether it has been before or not.         *)
ReadDependencies ==
    /\ step = "read"
    /\ directory[current] # "bare"
    /\ Len(stack) < StackLimit
    /\ stack' = Append(stack, needs[current])
    /\ step' = "next"
    /\ UNCHANGED <<needs, directory, script, stage, current, linked, outcome, damage>>

ReadFails ==
    /\ step = "read"
    /\ directory[current] = "bare"
    /\ End("failed")
    /\ UNCHANGED <<needs, directory, script, damage>>

Overflow ==
    /\ step = "read"
    /\ directory[current] # "bare"
    /\ Len(stack) = StackLimit
    /\ End("overflow")
    /\ UNCHANGED <<needs, directory, script, damage>>

Top == Len(stack)

MutantNextDependency ==
    /\ step = "next"
    /\ \E p \in stack[Top] : Initialize(p)
    /\ UNCHANGED <<needs, directory, script, stage, stack, linked, outcome, damage>>

NextDependency ==
    /\ step = "next"
    /\ \E p \in stack[Top] :
          /\ Initialize(p)
          /\ stack' = [stack EXCEPT ![Top] = @ \ {p}]
    /\ UNCHANGED <<needs, directory, script, stage, linked, outcome, damage>>

(* A call that has no dependencies left returns.  After the ffi package    *)
(* the dependencies of the main package follow.                            *)
MutantReturn ==
    /\ step = "next"
    /\ stack[Top] = {}
    /\ IF Top = 1 /\ stage = "ffi"
       THEN /\ stage' = "main"
            /\ stack' = <<needs[Main]>>
            /\ UNCHANGED step
       ELSE /\ stack' = SubSeq(stack, 1, Top - 1)
            /\ step' = "order"
            /\ UNCHANGED stage
    /\ UNCHANGED <<needs, directory, script, current, linked, outcome, damage>>

Return ==
    /\ step = "next"
    /\ stack[Top] = {}
    /\ IF Top = 1 /\ stage = "ffi"
       THEN /\ stage' = "main"
            /\ stack' = <<needs[Main]>>
            /\ UNCHANGED step
       ELSE /\ stack' = SubSeq(stack, 1, Top - 1)
            /\ step' = IF Top = 1 THEN "order" ELSE "next"
            /\ UNCHANGED stage
    /\ UNCHANGED <<needs, directory, script, current, linked, outcome, damage>>

(* external_package_configuration_reader::read_all: the least set that has *)
(* the roots and whatever its packages depend on.                          *)
IsClosed(S) == \A p \in S : needs[p] \subseteq S

DependenciesOf(roots) ==
    {p \in Libraries : \A S \in SUBSET Libraries : roots \subseteq S /\ IsClosed(S) => p \in S}

External == DependenciesOf(needs[Main])

(* external_package_topological_sorter::sort: petgraph puts the source of  *)
(* an edge before its target, and an edge goes from a package to what it   *)
(* depends on.                                                             *)
MutantOrders ==
    {order \in [1..Cardinality(External) -> External] :
        /\ {order[i] : i \in DOMAIN order} = External
        /\ \A i, j \in DOMAIN order : order[i] \in needs[order[j]] => i < j}

Orders ==
    {order \in [1..Cardinality(External) -> External] :
        /\ {order[i] : i \in DOMAIN order} = External
        /\ \A i, j \in DOMAIN order : order[j] \in needs[order[i]] => i < j}

(* package_builder::build.  The scripts that it writes are always written  *)
(* anew.                                                                   *)
Order ==
    /\ step = "order"
    /\ IF \E p \in External : directory[p] = "bare" THEN End("failed")
       ELSE IF Orders = {} THEN End("cycle")
       ELSE /\ linked' \in Orders
            /\ step' = "run"
            /\ UNCHANGED <<stage, current, stack, outcome>>
    /\ UNCHANGED <<needs, directory, script, damage>>

(* The process is killed between two of its steps.                         *)
Interrupt ==
    /\ step # "idle"
    /\ End("interrupted")
    /\ UNCHANGED <<needs, directory, script, damage>>

PackagesStep ==
    \/ SkipCopy
    \/ Copy
    \/ CopyFails
    \/ Compile
    \/ ReadDependencies
    \/ ReadFails
    \/ Overflow
    \/ NextDependency
    \/ Return

----------------------------------------------------------------------------

PackagesTypeOK ==
    /\ needs \in [Libraries \cup {Main, Ffi} -> SUBSET Libraries] /\ needs[Ffi] = {}
    /\ directory \in [Packages -> Contents]
    /\ script \in [Packages -> Contents]
    /\ stage \in {"prelude", "ffi", "main"}
    /\ step \in {"idle", "copy", "compile", "read", "next", "order", "run"}
    /\ current \in Packages
    /\ stack \in Seq(SUBSET Libraries)
    /\ step = "run" => linked \in Orders

ScriptFits(p) == script[p] # "absent" /\ script[p] = directory[p]

(* How far a build is: the prelude, the ffi package and what the main      *)
(* package depends on are initialized one after another.                   *)
StagesInOrder ==
    /\ step = "compile" => directory[current] # "absent"
    /\ step = "read" => ScriptFits(current)
    /\ stage = "prelude" => step \in {"idle", "copy", "compile"} /\ current = Prelude
    /\ stage = "ffi" =>
          /\ ScriptFits(Prelude)
          /\ current = Ffi
          /\ \/ step \in {"copy", "compile", "read"}
             \/ step = "next" /\ ScriptFits(Ffi)
    /\ stage = "main" =>
          /\ ScriptFits(Prelude) /\ ScriptFits(Ffi)
          /\ step \in {"copy", "compile", "read"} => current \in Libraries
          /\ step # "idle"
    /\ stage # "main" => stack = IF step = "next" THEN <<{}>> ELSE <<>>
    /\ step \in {"order", "run"} => stack = <<>>
    /\ step = "next" => stack # <<>>

(* The dependencies that are still to be initialized.                      *)
Stacked == UNION {stack[i] : i \in DOMAIN stack}
Left == Stacked \cup IF step \in {"copy", "compile"} THEN {current} ELSE {}

(* Of the packages that the main package needs, and that those need that   *)
(* have been initialized, none is forgotten.                               *)
NothingIsForgotten ==
    stage = "main" =>
        \E initialized \in SUBSET Libraries :
            /\ needs[Main] \subseteq initialized \cup Left
            /\ \A p \in initialized :
                  /\ ScriptFits(p)
                  /\ needs[p] \subseteq initialized \cup Left \/ (step = "read" /\ p = current)

PackagesInductive == PackagesTypeOK /\ StagesInOrder /\ NothingIsForgotten

(* When the main build script is run, every script that it includes has    *)
(* been written, and for the package as it is there, whatever builds were  *)
(* interrupted before (compile_external runs for packages that exist too). *)
ScriptsFitPackages ==
    step = "run" =>
        \A p \in External \cup {Prelude, Ffi} :
            script[p] # "absent" /\ script[p] = directory[p]

(* Archives are linked with dependents first, once each, and none is left  *)
(* out (the test of external_package_topological_sorter.rs).               *)
DependentsFirst ==
    step = "run" =>
        /\ \A p \in Libraries :
              (\E i \in DOMAIN linked : linked[i] = p) <=>
                  \E q \in Libraries : q \in needs[Main] /\ p \in DependenciesOf({q})
        /\ \A i, j \in DOMAIN linked :
              linked[j] \in DependenciesOf(needs[linked[i]]) => i < j

=============================================================================
