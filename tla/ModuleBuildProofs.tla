--------------------------- MODULE ModuleBuildProofs ---------------------------
(***************************************************************************)
(* Proofs about pen build and pen test, for any packages and modules,      *)
(* whatever they depend on and import, and any builds and edits before:    *)
(* that the scripts that the main build script includes are there and fit, *)
(* that archives are linked with dependents first, and that a build that   *)
(* ends well has made what a clean build would make.                       *)
(*                                                                         *)
(* The last is shown in three steps.  What holds at every step is that     *)
(* files are what the jobs on record have made of what they have read, and *)
(* that jobs are done in an order in which nothing is read before it is    *)
(* written (BuildInductive).  So a build that has done all its jobs is     *)
(* complete: files are what they would be made of the files there are.     *)
(* And what is complete is what a clean build makes, which compiles        *)
(* modules in rounds, as many as there are modules at most                 *)
(* (CleanBuildAgrees), as an order of n modules is filled in after n       *)
(* rounds.                                                                 *)
(***************************************************************************)
EXTENDS ModuleBuild, FiniteSetTheorems, WellFoundedInduction, TLAPS

----------------------------------------------------------------------------
(* The packages that roots depend on.                                      *)

(* A closed set of packages that has the roots has all that they depend    *)
(* on.                                                                     *)
LEMMA DependenciesAreLeast ==
    ASSUME NEW roots, NEW S \in SUBSET Libraries, roots \subseteq S, IsClosed(S)
    PROVE  DependenciesOf(roots) \subseteq S
  BY DEF DependenciesOf

(* What roots depend on has the roots, and all that its own packages       *)
(* depend on.                                                              *)
LEMMA DependenciesAreClosed ==
    ASSUME PackagesTypeOK, NEW roots \in SUBSET Libraries
    PROVE  /\ roots \subseteq DependenciesOf(roots)
           /\ DependenciesOf(roots) \in SUBSET Libraries
           /\ IsClosed(DependenciesOf(roots))
<1>1. roots \subseteq DependenciesOf(roots) /\ DependenciesOf(roots) \in SUBSET Libraries
  BY DEF DependenciesOf
<1>2. ASSUME NEW p \in DependenciesOf(roots), NEW q \in needs[p]
      PROVE  q \in DependenciesOf(roots)
  <2>1. p \in Libraries
    BY DEF DependenciesOf
  <2>2. q \in Libraries
    BY <2>1 DEF PackagesTypeOK
  <2>3. ASSUME NEW S \in SUBSET Libraries, roots \subseteq S, IsClosed(S)
        PROVE  q \in S
    <3>1. p \in S
      BY <2>3 DEF DependenciesOf
    <3> QED
      BY <2>3, <3>1 DEF IsClosed
  <2> QED
    BY <2>2, <2>3 DEF DependenciesOf
<1> QED
  BY <1>1, <1>2 DEF IsClosed

(* The packages that a build uses are those that its dependencies use.     *)
LEMMA DependenciesAreOfSome ==
    ASSUME PackagesTypeOK, NEW p \in Libraries, NEW roots \in SUBSET Libraries
    PROVE  p \in DependenciesOf(roots) <=> \E q \in roots : p \in DependenciesOf({q})
<1> DEFINE some == {r \in Libraries : \E q \in roots : r \in DependenciesOf({q})}
<1>1. \A q \in roots : /\ q \in DependenciesOf({q})
                       /\ IsClosed(DependenciesOf({q}))
                       /\ DependenciesOf({q}) \in SUBSET Libraries
  <2> TAKE q \in roots
  <2>1. {q} \in SUBSET Libraries
    OBVIOUS
  <2> QED
    BY <2>1, DependenciesAreClosed
<1>2. IsClosed(some)
  BY <1>1 DEF IsClosed
<1>3. roots \subseteq some /\ some \in SUBSET Libraries
  BY <1>1
<1>4. DependenciesOf(roots) \subseteq some
  BY <1>2, <1>3, DependenciesAreLeast
<1>5. ASSUME NEW q \in roots PROVE DependenciesOf({q}) \subseteq DependenciesOf(roots)
  <2>1. /\ roots \subseteq DependenciesOf(roots)
        /\ DependenciesOf(roots) \in SUBSET Libraries
        /\ IsClosed(DependenciesOf(roots))
    BY DependenciesAreClosed
  <2>2. {q} \subseteq DependenciesOf(roots)
    BY <2>1
  <2> QED
    BY <2>1, <2>2, DependenciesAreLeast
<1> QED
  BY <1>4, <1>5

----------------------------------------------------------------------------
(* A state that satisfies the invariant satisfies the properties.          *)

(* When a build runs its scripts, nothing is left to initialize, so the    *)
(* scripts of all packages are there.                                      *)
LEMMA InitializedScriptsFit ==
    ASSUME PackagesInductive
    PROVE  ScriptsFitPackages
<1> SUFFICES ASSUME step = "run"
             PROVE  \A p \in External \cup {Prelude, Ffi} : ScriptFits(p)
  BY DEF ScriptsFitPackages, ScriptFits
<1>1. /\ PackagesTypeOK
      /\ stage = "main" /\ stack = <<>> /\ ScriptFits(Prelude) /\ ScriptFits(Ffi)
  BY DEF PackagesInductive, PackagesTypeOK, StagesInOrder
<1>2. Left = {}
  BY <1>1 DEF Left, Stacked
<1>3. PICK initialized \in SUBSET Libraries :
         /\ needs[Main] \subseteq initialized
         /\ \A p \in initialized : ScriptFits(p) /\ needs[p] \subseteq initialized
  BY <1>1, <1>2 DEF PackagesInductive, NothingIsForgotten
<1>4. IsClosed(initialized)
  BY <1>3 DEF IsClosed
<1>5. External \subseteq initialized
  BY <1>3, <1>4, DependenciesAreLeast DEF External
<1> QED
  BY <1>1, <1>3, <1>5

(* An order that is right for every package and its own dependencies is    *)
(* right for all that they depend on.                                      *)
LEMMA OrdersPutDependentsFirst ==
    ASSUME PackagesInductive
    PROVE  DependentsFirst
<1> SUFFICES ASSUME step = "run"
             PROVE  /\ \A p \in Libraries :
                          (\E i \in DOMAIN linked : linked[i] = p) <=>
                              \E q \in Libraries : q \in needs[Main] /\ p \in DependenciesOf({q})
                    /\ \A i, j \in DOMAIN linked :
                          linked[j] \in DependenciesOf(needs[linked[i]]) => i < j
  BY DEF DependentsFirst
<1>1. PackagesTypeOK /\ linked \in Orders
  BY DEF PackagesInductive, PackagesTypeOK
<1>2. /\ {linked[i] : i \in DOMAIN linked} = External
      /\ \A i, j \in DOMAIN linked : linked[j] \in needs[linked[i]] => i < j
  BY <1>1 DEF Orders
<1>3. needs[Main] \in SUBSET Libraries
  BY <1>1 DEF PackagesTypeOK
<1>4. /\ External \in SUBSET Libraries
      /\ IsClosed(External)
  BY <1>1, <1>3, DependenciesAreClosed DEF External
<1>5. ASSUME NEW p \in Libraries
      PROVE  (\E i \in DOMAIN linked : linked[i] = p) <=>
                 \E q \in Libraries : q \in needs[Main] /\ p \in DependenciesOf({q})
  <2>1. p \in External <=> \E q \in needs[Main] : p \in DependenciesOf({q})
    BY <1>1, <1>3, DependenciesAreOfSome DEF External
  <2> QED
    BY <1>2, <1>3, <2>1
<1>6. ASSUME NEW i \in DOMAIN linked, NEW j \in DOMAIN linked,
             linked[j] \in DependenciesOf(needs[linked[i]])
      PROVE  i < j
  <2> DEFINE after == {q \in External : \A k \in DOMAIN linked : linked[k] = q => i < k}
  <2>1. linked[i] \in External /\ needs[linked[i]] \subseteq External
    BY <1>2, <1>4 DEF IsClosed
  <2>2. needs[linked[i]] \subseteq after
    BY <1>2, <2>1
  <2>3. IsClosed(after)
    <3>1. ASSUME NEW q \in after, NEW r \in needs[q], NEW m \in DOMAIN linked, linked[m] = r
          PROVE  i < m
      <4>1. PICK k \in DOMAIN linked : linked[k] = q
        BY <1>2
      <4>2. i < k /\ k < m
        BY <1>2, <3>1, <4>1
      <4>3. i \in Nat /\ k \in Nat /\ m \in Nat
        BY <1>1 DEF Orders
      <4> QED
        BY <4>2, <4>3
    <3>2. \A q \in after : needs[q] \subseteq External
      BY <1>4 DEF IsClosed
    <3> QED
      BY <3>1, <3>2 DEF IsClosed
  <2>4. after \in SUBSET Libraries
    BY <1>4
  <2>5. DependenciesOf(needs[linked[i]]) \subseteq after
    BY <2>2, <2>3, <2>4, DependenciesAreLeast
  <2> QED
    BY <1>6, <2>5
<1> QED
  BY <1>5, <1>6

----------------------------------------------------------------------------
(* Builds that end, and steps that are not about packages.                 *)

(* A build that ends leaves only files.                                    *)
LEMMA EndKeeps ==
    ASSUME PackagesInductive, NEW result, End(result), needs' = needs,
           directory' \in [Packages -> Contents], script' \in [Packages -> Contents]
    PROVE  PackagesInductive'
<1>1. PackagesTypeOK'
  <2>1. Prelude \in Packages /\ <<>> \in Seq(SUBSET Libraries)
    BY DEF Packages
  <2> QED
    BY <2>1 DEF PackagesInductive, PackagesTypeOK, End
<1>2. StagesInOrder' /\ NothingIsForgotten'
  BY DEF End, StagesInOrder, NothingIsForgotten
<1> QED
  BY <1>1, <1>2 DEF PackagesInductive

(* Steps that leave packages alone keep the invariant.                     *)
LEMMA OtherStepsKeep ==
    ASSUME PackagesInductive, UNCHANGED packages
    PROVE  PackagesInductive'
<1>1. Orders' = Orders
  BY DEF packages, Orders, External, DependenciesOf, IsClosed
<1>2. PackagesTypeOK'
  BY <1>1 DEF packages, PackagesInductive, PackagesTypeOK
<1>3. StagesInOrder'
  BY DEF packages, PackagesInductive, StagesInOrder, ScriptFits
<1>4. NothingIsForgotten'
  <2>1. Stacked' = Stacked
    BY DEF packages, Stacked
  <2>2. Left' = Left
    BY <2>1 DEF packages, Left
  <2> QED
    BY <2>2 DEF packages, PackagesInductive, NothingIsForgotten, ScriptFits
<1> QED
  BY <1>2, <1>3, <1>4 DEF PackagesInductive

----------------------------------------------------------------------------
(* The steps of a build.                                                   *)

(* A build starts with the prelude.                                        *)
LEMMA BuildKeeps ==
    ASSUME PackagesInductive, Build
    PROVE  PackagesInductive'
<1>1. stage = "prelude" /\ stack = <<>>
  BY DEF Build, PackagesInductive, PackagesTypeOK, StagesInOrder
<1>2. PackagesTypeOK'
  BY DEF Build, Initialize, PackagesInductive, PackagesTypeOK, Packages
<1>3. StagesInOrder' /\ NothingIsForgotten'
  BY <1>1 DEF Build, Initialize, StagesInOrder, NothingIsForgotten
<1> QED
  BY <1>2, <1>3 DEF PackagesInductive

(* A package that is there is not copied.                                  *)
LEMMA SkipCopyKeeps ==
    ASSUME PackagesInductive, SkipCopy
    PROVE  PackagesInductive'
<1>1. PackagesTypeOK'
  BY DEF SkipCopy, PackagesInductive, PackagesTypeOK
<1>2. StagesInOrder'
  BY DEF SkipCopy, PackagesInductive, StagesInOrder, ScriptFits
<1>3. NothingIsForgotten'
  <2>1. Stacked' = Stacked
    BY DEF SkipCopy, Stacked
  <2>2. Left' = Left
    BY <2>1 DEF SkipCopy, Left
  <2> QED
    BY <2>2 DEF SkipCopy, PackagesInductive, NothingIsForgotten, ScriptFits
<1> QED
  BY <1>1, <1>2, <1>3 DEF PackagesInductive

(* A copy that fits its script is not made again.                          *)
LEMMA CopyKeeps ==
    ASSUME PackagesInductive, Copy
    PROVE  PackagesInductive'
<1>1. PackagesTypeOK /\ StagesInOrder
  BY DEF PackagesInductive
<1>2. /\ step = "copy" /\ step' = "compile" /\ directory[current] = "absent"
      /\ directory' = [directory EXCEPT ![current] = "whole"]
      /\ UNCHANGED <<needs, script, stage, current, stack, linked>>
  BY DEF Copy
<1>3. PackagesTypeOK'
  BY <1>1, <1>2 DEF PackagesTypeOK, Contents
<1>4. directory'[current] = "whole" /\ \A p \in Packages \ {current} : directory'[p] = directory[p]
  BY <1>1, <1>2 DEF PackagesTypeOK
<1>5. \A p \in Packages : ScriptFits(p) => ScriptFits(p)'
  BY <1>2, <1>4 DEF ScriptFits
<1>6. Prelude \in Packages /\ Ffi \in Packages /\ Libraries \subseteq Packages
  BY DEF Packages
<1>7. StagesInOrder'
  BY <1>1, <1>2, <1>4, <1>5, <1>6 DEF StagesInOrder
<1>8. NothingIsForgotten'
  <2>1. Left' = Left
    BY <1>2 DEF Left, Stacked
  <2> QED
    BY <1>2, <1>5, <1>6, <2>1 DEF PackagesInductive, NothingIsForgotten
<1> QED
  BY <1>3, <1>7, <1>8 DEF PackagesInductive

(* A copy that fails ends the build.                                       *)
LEMMA CopyFailsKeeps ==
    ASSUME PackagesInductive, CopyFails
    PROVE  PackagesInductive'
<1>1. directory' \in [Packages -> Contents] /\ script' \in [Packages -> Contents] /\ needs' = needs
  BY DEF CopyFails, PackagesInductive, PackagesTypeOK
<1>2. \E result : End(result)
  BY DEF CopyFails
<1> QED
  BY <1>1, <1>2, EndKeeps

(* The package whose script is written is initialized, up to its own       *)
(* dependencies.                                                           *)
LEMMA CompileKeeps ==
    ASSUME PackagesInductive, Compile
    PROVE  PackagesInductive'
<1>1. PackagesTypeOK /\ StagesInOrder
  BY DEF PackagesInductive
<1>2. /\ step = "compile" /\ directory[current] # "absent" /\ current \in Packages
      /\ script' = [script EXCEPT ![current] = directory[current]]
      /\ UNCHANGED <<needs, directory, stack, linked>>
  BY <1>1 DEF Compile, StagesInOrder, PackagesTypeOK
<1>3. script'[current] = directory[current] /\ \A p \in Packages \ {current} : script'[p] = script[p]
  BY <1>1, <1>2 DEF PackagesTypeOK
<1>5. \A p \in Packages : ScriptFits(p) \/ p = current =>
          script'[p] # "absent" /\ script'[p] = directory'[p]
  BY <1>2, <1>3 DEF ScriptFits
<1>6. Prelude \in Packages /\ Ffi \in Packages /\ Libraries \subseteq Packages
  BY DEF Packages
<1>7. script' \in [Packages -> Contents] /\ directory[current] \in Contents
  BY <1>1, <1>2 DEF PackagesTypeOK
<1>8. CASE stage = "prelude"
  <2>1. stage' = "ffi" /\ step' = "copy" /\ current' = Ffi /\ current = Prelude /\ stack = <<>>
    BY <1>1, <1>2, <1>8 DEF Compile, Initialize, StagesInOrder
  <2>2. PackagesTypeOK'
    BY <1>1, <1>2, <1>6, <1>7, <2>1 DEF PackagesTypeOK
  <2>3. StagesInOrder'
    BY <1>2, <1>5, <1>6, <2>1 DEF StagesInOrder, ScriptFits
  <2>4. NothingIsForgotten'
    BY <2>1 DEF NothingIsForgotten
  <2> QED
    BY <2>2, <2>3, <2>4 DEF PackagesInductive
<1>9. CASE stage # "prelude"
  <2>1. step' = "read" /\ UNCHANGED <<stage, current>>
    BY <1>9 DEF Compile
  <2>2. PackagesTypeOK'
    BY <1>1, <1>2, <1>6, <1>7, <2>1 DEF PackagesTypeOK
  <2>3. StagesInOrder'
    BY <1>1, <1>2, <1>5, <1>6, <1>9, <2>1 DEF StagesInOrder, ScriptFits
  <2>4. NothingIsForgotten'
    <3> SUFFICES ASSUME stage' = "main" PROVE NothingIsForgotten'
      BY DEF NothingIsForgotten
    <3>1. stage = "main" /\ current \in Libraries
      BY <1>1, <1>2, <2>1 DEF StagesInOrder
    <3>2. PICK initialized \in SUBSET Libraries :
             /\ needs[Main] \subseteq initialized \cup Left
             /\ \A p \in initialized :
                   ScriptFits(p) /\ needs[p] \subseteq initialized \cup Left
      BY <1>2, <3>1 DEF PackagesInductive, NothingIsForgotten
    <3> DEFINE all == initialized \cup {current}
    <3>3. Left \subseteq Left' \cup {current}
      <4>1. Left = Stacked \cup {current}
        BY <1>2 DEF Left
      <4>2. Left' = Stacked
        <5>1. Left' = Stacked' \cup {}
          BY <2>1 DEF Left
        <5>2. Stacked' = Stacked
          BY <1>2 DEF Stacked
        <5> QED
          BY <5>1, <5>2
      <4> QED
        BY <4>1, <4>2
    <3>4. all \in SUBSET Libraries /\ needs'[Main] \subseteq all \cup Left'
      BY <1>2, <3>1, <3>2, <3>3
    <3>5. ASSUME NEW p \in all
          PROVE  /\ ScriptFits(p)'
                 /\ needs'[p] \subseteq all \cup Left' \/ (step' = "read" /\ p = current')
      <4>1. ScriptFits(p)'
        <5>1. ScriptFits(p) \/ p = current
          BY <3>2
        <5>2. p \in Packages
          BY <1>6, <3>4
        <5> QED
          BY <1>5, <5>1, <5>2 DEF ScriptFits
      <4>2. CASE p = current
        BY <2>1, <4>1, <4>2
      <4>3. CASE p # current
        BY <1>2, <3>2, <3>3, <4>1, <4>3
      <4> QED
        BY <4>2, <4>3
    <3> QED
      BY <3>4, <3>5 DEF NothingIsForgotten
  <2> QED
    BY <2>2, <2>3, <2>4 DEF PackagesInductive
<1> QED
  BY <1>8, <1>9

(* The dependencies that are read are left to be initialized.              *)
LEMMA ReadDependenciesKeeps ==
    ASSUME PackagesInductive, ReadDependencies
    PROVE  PackagesInductive'
<1>1. PackagesTypeOK /\ StagesInOrder
  BY DEF PackagesInductive
<1>2. /\ step = "read" /\ step' = "next" /\ stack' = Append(stack, needs[current])
      /\ UNCHANGED <<needs, directory, script, stage, current, linked>>
  BY DEF ReadDependencies
<1>3. stage \in {"ffi", "main"} /\ needs[current] \in SUBSET Libraries
      /\ (stage = "ffi" => needs[current] = {} /\ stack = <<>>)
  BY <1>1, <1>2 DEF PackagesTypeOK, StagesInOrder
<1>4. stack \in Seq(SUBSET Libraries)
  BY <1>1 DEF PackagesTypeOK
<1>5. /\ stack' \in Seq(SUBSET Libraries) /\ stack' # <<>>
      /\ Len(stack') = Len(stack) + 1 /\ Len(stack) \in Nat
      /\ \A i \in 1 .. Len(stack) : stack'[i] = stack[i]
      /\ stack'[Len(stack) + 1] = needs[current]
  BY <1>2, <1>3, <1>4
<1>6. PackagesTypeOK'
  BY <1>1, <1>2, <1>5 DEF PackagesTypeOK
<1>7. stage = "ffi" => stack' = <<{}>>
  BY <1>2, <1>3
<1>8. StagesInOrder'
  BY <1>1, <1>2, <1>3, <1>5, <1>7 DEF StagesInOrder, ScriptFits
<1>9. NothingIsForgotten'
  <2> SUFFICES ASSUME stage' = "main" PROVE NothingIsForgotten'
    BY DEF NothingIsForgotten
  <2>1. Left \cup needs[current] \subseteq Left'
    <3>1. DOMAIN stack = 1 .. Len(stack) /\ DOMAIN stack' = 1 .. Len(stack')
      BY <1>4, <1>5
    <3>2. \A i \in DOMAIN stack : i \in DOMAIN stack' /\ stack'[i] = stack[i]
      BY <1>5, <3>1
    <3>3. Len(stack) + 1 \in DOMAIN stack'
      BY <1>5, <3>1
    <3> QED
      BY <1>2, <1>5, <3>2, <3>3 DEF Left, Stacked
  <2>2. PICK initialized \in SUBSET Libraries :
           /\ needs[Main] \subseteq initialized \cup Left
           /\ \A p \in initialized :
                 /\ ScriptFits(p)
                 /\ needs[p] \subseteq initialized \cup Left \/ p = current
    BY <1>2 DEF PackagesInductive, NothingIsForgotten
  <2>3. needs'[Main] \subseteq initialized \cup Left'
    BY <1>2, <2>1, <2>2
  <2>4. \A p \in initialized : ScriptFits(p)' /\ needs'[p] \subseteq initialized \cup Left'
    BY <1>2, <2>1, <2>2 DEF ScriptFits
  <2> QED
    BY <2>3, <2>4 DEF NothingIsForgotten
<1> QED
  BY <1>6, <1>8, <1>9 DEF PackagesInductive

(* A configuration that cannot be read ends the build.                     *)
LEMMA ReadEndsKeeps ==
    ASSUME PackagesInductive, ReadFails \/ Overflow
    PROVE  PackagesInductive'
<1>1. directory' \in [Packages -> Contents] /\ script' \in [Packages -> Contents] /\ needs' = needs
  BY DEF ReadFails, Overflow, PackagesInductive, PackagesTypeOK
<1>2. \E result : End(result)
  BY DEF ReadFails, Overflow
<1> QED
  BY <1>1, <1>2, EndKeeps

(* The dependency that is taken from the stack is the current package, and *)
(* not forgotten.                                                          *)
LEMMA NextDependencyKeeps ==
    ASSUME PackagesInductive, NextDependency
    PROVE  PackagesInductive'
<1>1. PackagesTypeOK /\ StagesInOrder
  BY DEF PackagesInductive
<1>2. PICK p \in stack[Top] :
         /\ step = "next" /\ step' = "copy" /\ current' = p
         /\ stack' = [stack EXCEPT ![Top] = stack[Top] \ {p}]
         /\ UNCHANGED <<needs, directory, script, stage, linked>>
  BY DEF NextDependency, Initialize
<1>3. stack \in Seq(SUBSET Libraries) /\ stack # <<>>
  BY <1>1, <1>2 DEF PackagesTypeOK, StagesInOrder
<1>4. Top \in DOMAIN stack /\ Top \in Nat /\ DOMAIN stack = 1 .. Len(stack)
      /\ \A i \in DOMAIN stack : stack[i] \in SUBSET Libraries
  BY <1>3 DEF Top
<1>5. /\ stack' \in Seq(SUBSET Libraries)
      /\ DOMAIN stack' = DOMAIN stack
      /\ stack'[Top] = stack[Top] \ {p}
      /\ \A i \in DOMAIN stack \ {Top} : stack'[i] = stack[i]
  BY <1>2, <1>3, <1>4
<1>6. p \in Libraries
  BY <1>4
<1>7. stage = "main"
  <2>1. ASSUME stack = <<{}>> PROVE FALSE
    BY <2>1 DEF Top
  <2> QED
    BY <1>1, <1>2, <2>1 DEF StagesInOrder, PackagesTypeOK
<1>8. PackagesTypeOK'
  BY <1>1, <1>2, <1>5, <1>6 DEF PackagesTypeOK, Packages
<1>9. StagesInOrder'
  BY <1>1, <1>2, <1>6, <1>7 DEF StagesInOrder, ScriptFits
<1>10. NothingIsForgotten'
  <2>1. Left \subseteq Left'
    <3>1. \A i \in DOMAIN stack : stack[i] \subseteq stack'[i] \cup {p}
      BY <1>4, <1>5
    <3>2. Left = Stacked \cup {}
      BY <1>2 DEF Left
    <3>3. Left' = Stacked' \cup {p}
      BY <1>2 DEF Left
    <3>4. Stacked \subseteq Stacked' \cup {p}
      BY <1>5, <3>1 DEF Stacked
    <3> QED
      BY <3>2, <3>3, <3>4
  <2>2. PICK initialized \in SUBSET Libraries :
           /\ needs[Main] \subseteq initialized \cup Left
           /\ \A q \in initialized : ScriptFits(q) /\ needs[q] \subseteq initialized \cup Left
    BY <1>2, <1>7 DEF PackagesInductive, NothingIsForgotten
  <2>3. needs'[Main] \subseteq initialized \cup Left'
    BY <1>2, <2>1, <2>2
  <2>4. \A q \in initialized : ScriptFits(q)' /\ needs'[q] \subseteq initialized \cup Left'
    BY <1>2, <2>1, <2>2 DEF ScriptFits
  <2> QED
    BY <2>3, <2>4 DEF NothingIsForgotten
<1> QED
  BY <1>8, <1>9, <1>10 DEF PackagesInductive

(* A call that returns has left nothing.                                   *)
LEMMA ReturnKeeps ==
    ASSUME PackagesInductive, Return
    PROVE  PackagesInductive'
<1>1. PackagesTypeOK /\ StagesInOrder
  BY DEF PackagesInductive
<1>2. /\ step = "next" /\ stack[Top] = {}
      /\ UNCHANGED <<needs, directory, script, current, linked>>
  BY DEF Return
<1>3. stack \in Seq(SUBSET Libraries) /\ stack # <<>>
  BY <1>1, <1>2 DEF PackagesTypeOK, StagesInOrder
<1>4. Top \in DOMAIN stack /\ Top \in Nat /\ Top > 0 /\ DOMAIN stack = 1 .. Top
  BY <1>3 DEF Top
<1>5. CASE stage = "ffi"
  <2>1. stack = <<{}>> /\ Top = 1
    BY <1>1, <1>2, <1>5 DEF StagesInOrder, Top
  <2>2. stage' = "main" /\ stack' = <<needs[Main]>> /\ step' = "next"
    BY <1>2, <1>5, <2>1 DEF Return
  <2>3. needs[Main] \in SUBSET Libraries
    BY <1>1 DEF PackagesTypeOK
  <2>4. PackagesTypeOK'
    BY <1>1, <1>2, <2>2, <2>3 DEF PackagesTypeOK
  <2>5. StagesInOrder'
    BY <1>1, <1>2, <1>5, <2>2 DEF StagesInOrder, ScriptFits
  <2>6. NothingIsForgotten'
    <3>1. 1 \in DOMAIN stack' /\ stack'[1] = needs[Main]
      BY <2>2
    <3>2. needs'[Main] \subseteq {} \cup Left'
      BY <1>2, <3>1 DEF Left, Stacked
    <3>3. {} \in SUBSET Libraries
      OBVIOUS
    <3> QED
      BY <3>2, <3>3 DEF NothingIsForgotten
  <2> QED
    BY <2>4, <2>5, <2>6 DEF PackagesInductive
<1>6. CASE stage # "ffi"
  <2>1. stage = "main"
    BY <1>1, <1>2, <1>6 DEF StagesInOrder, PackagesTypeOK
  <2>2. /\ stack' = SubSeq(stack, 1, Top - 1)
        /\ step' = IF Top = 1 THEN "order" ELSE "next"
        /\ stage' = stage
    BY <1>6 DEF Return
  <2>3. /\ stack' \in Seq(SUBSET Libraries)
        /\ DOMAIN stack' = 1 .. Top - 1
        /\ \A i \in 1 .. Top - 1 : stack'[i] = stack[i]
    BY <1>3, <1>4, <2>2 DEF Top
  <2>4. Top = 1 <=> stack' = <<>>
    <3>1. Len(stack') = Top - 1
      BY <1>3, <1>4, <2>2 DEF Top
    <3> QED
      BY <1>4, <2>3, <3>1
  <2>5. PackagesTypeOK'
    BY <1>1, <1>2, <2>1, <2>2, <2>3 DEF PackagesTypeOK
  <2>6. StagesInOrder'
    BY <1>1, <1>2, <2>1, <2>2, <2>4 DEF StagesInOrder, ScriptFits
  <2>7. NothingIsForgotten'
    <3>1. Left \subseteq Left'
      <4>1. \A i \in DOMAIN stack : stack[i] # {} => i \in DOMAIN stack' /\ stack'[i] = stack[i]
        BY <1>2, <1>4, <2>3
      <4> QED
        BY <1>2, <4>1 DEF Left, Stacked
    <3>2. PICK initialized \in SUBSET Libraries :
             /\ needs[Main] \subseteq initialized \cup Left
             /\ \A q \in initialized : ScriptFits(q) /\ needs[q] \subseteq initialized \cup Left
      BY <1>2, <2>1 DEF PackagesInductive, NothingIsForgotten
    <3>3. needs'[Main] \subseteq initialized \cup Left'
      BY <1>2, <3>1, <3>2
    <3>4. \A q \in initialized : ScriptFits(q)' /\ needs'[q] \subseteq initialized \cup Left'
      BY <1>2, <3>1, <3>2 DEF ScriptFits
    <3> QED
      BY <3>3, <3>4 DEF NothingIsForgotten
  <2> QED
    BY <2>5, <2>6, <2>7 DEF PackagesInductive
<1> QED
  BY <1>5, <1>6

(* Packages are put in order, or the build ends.                           *)
LEMMA OrderKeeps ==
    ASSUME PackagesInductive, Order
    PROVE  PackagesInductive'
<1>1. step = "order" /\ UNCHANGED <<needs, directory, script>>
  BY DEF Order
<1>2. CASE \E result : End(result)
  <2>1. directory' \in [Packages -> Contents] /\ script' \in [Packages -> Contents]
    BY <1>1 DEF PackagesInductive, PackagesTypeOK
  <2> QED
    BY <1>1, <1>2, <2>1, EndKeeps
<1>3. CASE linked' \in Orders /\ step' = "run" /\ UNCHANGED <<stage, current, stack, outcome>>
  <2>1. Orders' = Orders
    BY <1>1 DEF Orders, External, DependenciesOf, IsClosed
  <2>2. PackagesTypeOK'
    BY <1>1, <1>3, <2>1 DEF PackagesInductive, PackagesTypeOK
  <2>3. StagesInOrder'
    BY <1>1, <1>3 DEF PackagesInductive, StagesInOrder, ScriptFits
  <2>4. Left' = Left
    BY <1>1, <1>3 DEF Left, Stacked
  <2>5. NothingIsForgotten'
    BY <1>1, <1>3, <2>4 DEF PackagesInductive, NothingIsForgotten, ScriptFits
  <2> QED
    BY <2>2, <2>3, <2>5 DEF PackagesInductive
<1> QED
  BY <1>2, <1>3 DEF Order

(* The dependencies of the main package are edited between builds only.    *)
LEMMA EditConfigurationKeeps ==
    ASSUME PackagesInductive, EditConfiguration, project \in Projects
    PROVE  PackagesInductive'
<1>1. /\ step = "idle" /\ UNCHANGED <<directory, script, stage, step, current, stack, linked>>
      /\ needs' = [needs EXCEPT ![Main] = Range(configuration')]
      /\ Range(configuration') \in SUBSET Libraries
  BY ModuleBuildAssumption DEF EditConfiguration
<1>2. /\ needs' \in [Libraries \cup {Main, Ffi} -> SUBSET Libraries]
      /\ needs'[Ffi] = {}
  BY <1>1, PackagesAssumption DEF PackagesInductive, PackagesTypeOK
<1>3. PackagesTypeOK'
  BY <1>1, <1>2 DEF PackagesInductive, PackagesTypeOK
<1>4. stage = "prelude"
  BY <1>1 DEF PackagesInductive, PackagesTypeOK, StagesInOrder
<1>5. StagesInOrder' /\ NothingIsForgotten'
  BY <1>1, <1>4 DEF PackagesInductive, StagesInOrder, NothingIsForgotten
<1> QED
  BY <1>3, <1>5 DEF PackagesInductive

----------------------------------------------------------------------------
(* The theorems about packages.                                            *)

(* Before any build nothing is initialized.                                *)
LEMMA InitIsInductive == Init => PackagesInductive /\ project \in Projects
<1> SUFFICES ASSUME Init PROVE PackagesInductive /\ project \in Projects
  OBVIOUS
<1>1. PackagesInit /\ project \in Projects
  BY DEF Init
<1>2. needs \in [Libraries \cup {Main, Ffi} -> SUBSET Libraries] /\ needs[Ffi] = {}
  BY <1>1, PackagesAssumption DEF PackagesInit
<1>3. PackagesTypeOK
  BY <1>1, <1>2 DEF PackagesInit, PackagesTypeOK, Packages, Contents
<1>4. StagesInOrder /\ NothingIsForgotten
  BY <1>1 DEF PackagesInit, StagesInOrder, NothingIsForgotten
<1> QED
  BY <1>1, <1>3, <1>4 DEF PackagesInductive

(* A build that ends while it runs its scripts leaves only files.          *)
LEMMA LeaveKeeps ==
    ASSUME PackagesInductive, NEW result, Leave(result)
    PROVE  PackagesInductive' /\ project' = project
<1>1. /\ directory' \in [Packages -> Contents] /\ script' \in [Packages -> Contents] /\ needs' = needs
      /\ End(result) /\ project' = project
  BY DEF Leave, sources, PackagesInductive, PackagesTypeOK
<1> QED
  BY <1>1, EndKeeps

(* A job comes to its end, and the next one is run, or fails, and the      *)
(* build ends.                                                             *)
LEMMA JobsKeep ==
    ASSUME PackagesInductive,
           \/ \E j : Succeed(j) \/ Fail(j)
           \/ Skip
    PROVE  PackagesInductive' /\ project' = project
<1>1. ASSUME NEW j, Succeed(j) PROVE PackagesInductive' /\ project' = project
  BY <1>1, OtherStepsKeep DEF Succeed, sources
<1>2. ASSUME NEW j, Fail(j) PROVE PackagesInductive' /\ project' = project
  BY <1>2, LeaveKeeps DEF Fail
<1>3. CASE Skip
  BY <1>3, OtherStepsKeep DEF Skip, sources
<1> QED
  BY <1>1, <1>2, <1>3

(* Every step keeps the invariant about packages.                          *)
LEMMA NextIsInductive ==
    ASSUME PackagesInductive, project \in Projects, [Next]_vars
    PROVE  PackagesInductive' /\ project' \in Projects
<1>1. CASE UNCHANGED vars
  BY <1>1, OtherStepsKeep DEF vars, sources
<1>2. CASE Start
  BY <1>2, BuildKeeps DEF Start, sources
<1>3. CASE Prepare
  <2>1. project' = project
    BY <1>3 DEF Prepare, sources
  <2>2. PackagesStep
    BY <1>3 DEF Prepare
  <2> QED
    BY <2>1, <2>2, SkipCopyKeeps, CopyKeeps, CopyFailsKeeps, CompileKeeps, ReadDependenciesKeeps,
       ReadEndsKeeps, NextDependencyKeeps, ReturnKeeps DEF PackagesStep
<1>4. CASE WriteScripts
  <2>1. project' = project
    BY <1>4 DEF WriteScripts, sources
  <2>2. CASE ScriptsFail
    <3>1. End("failed") /\ UNCHANGED <<needs, directory, script>>
      BY <1>4, <2>2 DEF WriteScripts
    <3>2. directory' \in [Packages -> Contents] /\ script' \in [Packages -> Contents]
      BY <3>1 DEF PackagesInductive, PackagesTypeOK
    <3> QED
      BY <2>1, <3>1, <3>2, EndKeeps
  <2>3. CASE ~ScriptsFail
    BY <1>4, <2>1, <2>3, OrderKeeps DEF WriteScripts
  <2> QED
    BY <2>2, <2>3
<1>5. CASE Skip
  BY <1>5, JobsKeep
<1>6. CASE \/ Resolve \/ CompileModule \/ CompileMain \/ CompileTest \/ CompilePrelude
           \/ Archive \/ CompileInformation \/ LinkApplication \/ LinkTest
  <2>1. \E j : Succeed(j) \/ Fail(j)
    BY <1>6 DEF Resolve, CompileModule, CompileMain, CompileTest, CompilePrelude, CompileTo,
                Archive, CompileInformation, LinkApplication, LinkTest, LinkTo
  <2> QED
    BY <2>1, JobsKeep
<1>7. CASE Circle \/ Finish
  BY <1>7, LeaveKeeps DEF Circle, Finish
<1>8. CASE Kill
  <2>1. /\ End("interrupted") /\ UNCHANGED <<needs, directory, script>> /\ project' = project
    BY <1>8 DEF Kill, Interrupt, sources
  <2>2. directory' \in [Packages -> Contents] /\ script' \in [Packages -> Contents]
    BY <2>1 DEF PackagesInductive, PackagesTypeOK
  <2> QED
    BY <2>1, <2>2, EndKeeps
<1>9. CASE EditText
  BY <1>9, OtherStepsKeep DEF EditText
<1>10. CASE EditConfiguration
  BY <1>10, EditConfigurationKeeps DEF EditConfiguration
<1> QED
  BY <1>1, <1>2, <1>3, <1>4, <1>5, <1>6, <1>7, <1>8, <1>9, <1>10 DEF Next, Proceed

(* Whatever builds came before, and wherever they were interrupted, a      *)
(* build has initialized what it needs, or has the rest of it before it.   *)
THEOREM InductiveInvariant == Spec => []PackagesInductive
<1>1. Init => PackagesInductive /\ project \in Projects
  BY InitIsInductive
<1>2. PackagesInductive /\ project \in Projects /\ [Next]_vars
          => (PackagesInductive /\ project \in Projects)'
  BY NextIsInductive
<1> QED
  BY <1>1, <1>2, PTL DEF Spec

(* The main build script includes only scripts that have been written for  *)
(* the packages as they are (package_initializer.rs).                      *)
THEOREM ScriptsAreThere == Spec => []ScriptsFitPackages
<1>1. PackagesInductive => ScriptsFitPackages
  BY InitializedScriptsFit
<1> QED
  BY <1>1, InductiveInvariant, PTL

(* Archives are linked with dependents first, and none is left out         *)
(* (external_package_topological_sorter.rs).                               *)
THEOREM LinkOrder == Spec => []DependentsFirst
<1>1. PackagesInductive => DependentsFirst
  BY OrdersPutDependentsFirst
<1> QED
  BY <1>1, InductiveInvariant, PTL

----------------------------------------------------------------------------
(* Least numbers, and the rounds of a clean build.                         *)

(* A set of numbers has a least one.                                       *)
LEMMA LeastNumber ==
    ASSUME NEW S \in SUBSET Nat, S # {}
    PROVE  \E x \in S : \A y \in S : x <= y
<1> DEFINE less == OpToRel(<, Nat)
<1>1. IsWellFoundedOn(less, Nat)
  BY NatLessThanWellFounded
<1>2. less = {ss \in Nat \X Nat : ss[1] < ss[2]}
  BY DEF OpToRel
<1> HIDE DEF less
<1>3. PICK x \in S : \A y \in S : ~ (<<y, x>> \in less)
  BY <1>1, WFMin
<1>4. \A z, y \in Nat : y < z => <<y, z>> \in less
  BY <1>2
<1>5. \A y \in S : ~ (y < x)
  BY <1>3, <1>4
<1>6. \A y \in S : x <= y
  BY <1>5
<1> QED
  BY <1>6

(* What is so at first, and after each round, is so after all rounds.      *)
LEMMA Rounds ==
    ASSUME NEW S, 0 \in S, \A n \in Nat : n \in S => n + 1 \in S
    PROVE  Nat \subseteq S
<1> DEFINE T == Nat \ S
<1>1. SUFFICES ASSUME T # {} PROVE FALSE
  OBVIOUS
<1>2. PICK x \in T : \A y \in T : x <= y
  BY <1>1, LeastNumber
<1>3. x # 0 /\ x - 1 \in Nat /\ x - 1 \notin T
  BY <1>2
<1> QED
  BY <1>2, <1>3

CleanRound(interfaces) ==
    [m \in Units |->
        IF Compiles(m, Resolution(m), interfaces)
        THEN Interface(m, Range(Resolution(m)), interfaces) ELSE Absent]

(* There are finitely many modules.                                        *)
LEMMA UnitsAreFinite == IsFiniteSet(Units) /\ Cardinality(Units) \in Nat
<1>1. IsFiniteSet({Entry}) /\ IsFiniteSet({Prelude})
  BY FS_Singleton
<1>2. IsFiniteSet(Modules \cup Tests)
  BY FS_Union, ModuleBuildAssumption
<1>3. IsFiniteSet(Own)
  BY <1>1, <1>2, FS_Union DEF Own
<1>4. IsFiniteSet(Own \cup Libraries)
  BY <1>3, FS_Union, PackagesAssumption
<1>5. IsFiniteSet(Units)
  BY <1>1, <1>4, FS_Union DEF Units
<1> QED
  BY <1>5, FS_CardinalityType

(* The recursive definition of rounds is one.                              *)
LEMMA CleanRoundsAre ==
    /\ CleanRounds[0] = [m \in Units |-> Absent]
    /\ \A n \in 1 .. Cardinality(Units) : CleanRounds[n] = CleanRound(CleanRounds[n - 1])
<1> DEFINE N == Cardinality(Units)
           None == [m \in Units |-> Absent]
           Is(f, n) == f = [k \in 0 .. n |-> IF k > 0 THEN CleanRound(f[k - 1]) ELSE None]
           S == {n \in Nat : \E f : Is(f, n)}
<1> HIDE DEF None
<1>1. N \in Nat
  BY UnitsAreFinite
<1>2. 0 \in S
  <2> DEFINE f == [k \in 0 .. 0 |-> None]
  <2>1. Is(f, 0)
    OBVIOUS
  <2> QED
    BY <2>1
<1>3. ASSUME NEW n \in Nat, n \in S PROVE n + 1 \in S
  <2>1. PICK f : Is(f, n)
    BY <1>3
  <2> DEFINE g == [k \in 0 .. n + 1 |-> IF k = n + 1 THEN CleanRound(f[n]) ELSE f[k]]
  <2>2. ASSUME NEW k \in 0 .. n + 1
        PROVE  g[k] = IF k > 0 THEN CleanRound(g[k - 1]) ELSE None
    <3>1. CASE k = n + 1
      BY <3>1
    <3>2. CASE k # n + 1
      <4>1. k \in 0 .. n /\ (k > 0 => k - 1 \in 0 .. n /\ k - 1 # n + 1)
        BY <3>2
      <4>2. f[k] = IF k > 0 THEN CleanRound(f[k - 1]) ELSE None
        BY <2>1, <4>1
      <4>3. g[k] = f[k]
        BY <3>2
      <4>4. k > 0 => g[k - 1] = f[k - 1]
        BY <4>1
      <4> HIDE DEF g
      <4> QED
        BY <4>2, <4>3, <4>4
    <3> QED
      BY <3>1, <3>2
  <2>3. g = [k \in 0 .. n + 1 |-> g[k]]
    OBVIOUS
  <2> HIDE DEF g
  <2>4. Is(g, n + 1)
    BY <2>2, <2>3
  <2> QED
    BY <2>4
<1>4. \E f : Is(f, N)
  <2> HIDE DEF N
  <2>1. Nat \subseteq S
    <3> HIDE DEF S
    <3> QED
      BY <1>2, <1>3, Rounds
  <2> QED
    BY <1>1, <2>1
<1> DEFINE Solves(f) == f = [n \in 0 .. N |->
               [m \in Units |->
                   IF n > 0 /\ Compiles(m, Resolution(m), f[n - 1])
                   THEN Interface(m, Range(Resolution(m)), f[n - 1]) ELSE Absent]]
<1>5. ASSUME NEW f PROVE Is(f, N) <=> Solves(f)
  <2> DEFINE round(n) == [m \in Units |->
              IF n > 0 /\ Compiles(m, Resolution(m), f[n - 1])
              THEN Interface(m, Range(Resolution(m)), f[n - 1]) ELSE Absent]
  <2>1. ASSUME NEW n \in 0 .. N
        PROVE  round(n) = IF n > 0 THEN CleanRound(f[n - 1]) ELSE None
    BY DEF CleanRound, None
  <2>2. [n \in 0 .. N |-> round(n)]
          = [n \in 0 .. N |-> IF n > 0 THEN CleanRound(f[n - 1]) ELSE None]
    <3> HIDE DEF round
    <3> QED
      BY <2>1
  <2> QED
    BY <2>2
<1>6. Is(CleanRounds, N)
  <2>1. CleanRounds = CHOOSE f : Solves(f)
    BY DEF CleanRounds
  <2>2. \E f : Solves(f)
    BY <1>4, <1>5
  <2> HIDE DEF Solves
  <2>3. Solves(CHOOSE f : Solves(f))
    BY <2>2, Zenon
  <2> QED
    BY <1>5, <2>1, <2>3
<1> QED
  <2> HIDE DEF N
  <2>1. 0 \in 0 .. N /\ \A n \in 1 .. N : n \in 0 .. N /\ n > 0
    BY <1>1
  <2>2. \A k \in 0 .. N : CleanRounds[k] = IF k > 0 THEN CleanRound(CleanRounds[k - 1]) ELSE None
    BY <1>6
  <2>3. CleanRounds[0] = None
    BY <2>1, <2>2
  <2> QED
    BY <2>1, <2>2, <2>3 DEF None, N

(* A compilation sees the interfaces of what it imports and of its         *)
(* contexts only.                                                          *)
LEMMA CompilationsSee ==
    ASSUME NEW m, NEW found, NEW f, NEW g,
           \A n \in Range(found) \cup Contexts(m) : f[n] = g[n]
    PROVE  /\ Compiles(m, found, f) <=> Compiles(m, found, g)
           /\ Interface(m, Range(found), f) = Interface(m, Range(found), g)
           /\ Compiled(m, found, f) = Compiled(m, found, g)
<1>1. Compiles(m, found, f) <=> Compiles(m, found, g)
  BY DEF Compiles, Range
<1>2. Interface(m, Range(found), f) = Interface(m, Range(found), g)
  <2>1. {f[n].types : n \in Range(found)} = {g[n].types : n \in Range(found)}
    OBVIOUS
  <2> QED
    BY <2>1 DEF Interface
<1>3. Compiled(m, found, f) = Compiled(m, found, g)
  BY DEF Compiled
<1> QED
  BY <1>1, <1>2, <1>3

(* Interfaces that are what compilation makes of each other, in an order   *)
(* of modules, are those of a clean build.                                 *)
LEMMA CleanBuildAgrees ==
    ASSUME NEW T \in SUBSET Units,
           \A m \in T : /\ Compiles(m, Resolution(m), interface)
                        /\ interface[m] = Interface(m, Range(Resolution(m)), interface)
                        /\ Range(Resolution(m)) \cup Contexts(m) \subseteq T,
           \A some \in SUBSET T : some # {} =>
               \E m \in some : (Range(Resolution(m)) \cup Contexts(m)) \cap some = {}
    PROVE  \A m \in T : CleanInterfaces[m] = interface[m]
<1> DEFINE N == Cardinality(Units)
           agreed(n) == {m \in T : \A k \in n .. N : CleanRounds[k][m] = interface[m]}
           S == {n \in Nat : n <= N => agreed(n) = T \/ n <= Cardinality(agreed(n))}
           uses(m) == Range(Resolution(m)) \cup Contexts(m)
<1>1. N \in Nat /\ IsFiniteSet(Units)
  BY UnitsAreFinite
<1>2. ASSUME NEW n \in Nat
      PROVE  IsFiniteSet(agreed(n)) /\ Cardinality(agreed(n)) \in Nat
  <2>1. agreed(n) \subseteq Units
    OBVIOUS
  <2> QED
    BY <1>1, <2>1, FS_Subset, FS_CardinalityType
<1>3. ASSUME NEW n \in Nat, n + 1 <= N, NEW m \in T, uses(m) \subseteq agreed(n)
      PROVE  m \in agreed(n + 1)
  <2> SUFFICES ASSUME NEW k \in n + 1 .. N PROVE CleanRounds[k][m] = interface[m]
    OBVIOUS
  <2>1. k \in 1 .. N /\ k - 1 \in n .. N
    BY <1>1, <1>3
  <2>2. \A d \in uses(m) : CleanRounds[k - 1][d] = interface[d]
    BY <1>3, <2>1
  <2>3. /\ Compiles(m, Resolution(m), CleanRounds[k - 1])
        /\ Interface(m, Range(Resolution(m)), CleanRounds[k - 1]) = interface[m]
    BY <2>2, CompilationsSee
  <2>4. CleanRounds[k] = CleanRound(CleanRounds[k - 1])
    BY <2>1, CleanRoundsAre
  <2> QED
    BY <2>3, <2>4 DEF CleanRound
<1>4. 0 \in S
  <2>1. 0 <= Cardinality(agreed(0))
    BY <1>2
  <2> QED
    BY <2>1
<1>5. ASSUME NEW n \in Nat, n \in S PROVE n + 1 \in S
  <2> SUFFICES ASSUME n + 1 <= N
               PROVE  agreed(n + 1) = T \/ n + 1 <= Cardinality(agreed(n + 1))
    OBVIOUS
  <2>1. agreed(n) = T \/ n <= Cardinality(agreed(n))
    BY <1>1, <1>5
  <2>2. CASE agreed(n) = T
    <3>1. \A m \in T : uses(m) \subseteq agreed(n)
      BY <2>2
    <3>2. \A m \in T : m \in agreed(n + 1)
      BY <1>3, <3>1
    <3>3. agreed(n + 1) \subseteq T
      OBVIOUS
    <3> QED
      BY <3>2, <3>3
  <2>3. CASE agreed(n) # T
    <3>1. agreed(n) \subseteq agreed(n + 1)
      <4>1. \A k \in n + 1 .. N : k \in n .. N
        BY <1>1
      <4> QED
        BY <4>1
    <3>2. T \ agreed(n) # {} /\ T \ agreed(n) \in SUBSET T
      BY <2>3
    <3>3. PICK m \in T \ agreed(n) : uses(m) \cap (T \ agreed(n)) = {}
      BY <3>2
    <3>4. uses(m) \subseteq agreed(n)
      BY <3>3
    <3>5. m \in agreed(n + 1)
      BY <1>3, <3>3, <3>4
    <3> HIDE DEF agreed
    <3>6. IsFiniteSet(agreed(n + 1)) /\ Cardinality(agreed(n + 1)) \in Nat
          /\ Cardinality(agreed(n)) \in Nat
      BY <1>2
    <3>7. Cardinality(agreed(n)) <= Cardinality(agreed(n + 1))
          /\ (Cardinality(agreed(n)) = Cardinality(agreed(n + 1)) => agreed(n) = agreed(n + 1))
      BY <3>1, <3>6, FS_Subset
    <3> QED
      BY <2>1, <2>3, <3>3, <3>5, <3>6, <3>7
  <2> QED
    BY <2>2, <2>3
<1>6. agreed(N) = T
  <2>1. N \in S
    <3> HIDE DEF S, N
    <3> QED
      BY <1>1, <1>4, <1>5, Rounds
  <2>2. CASE N <= Cardinality(agreed(N))
    <3>1. agreed(N) \subseteq Units
      OBVIOUS
    <3> HIDE DEF agreed
    <3>2. Cardinality(agreed(N)) <= N /\ (Cardinality(agreed(N)) = N => agreed(N) = Units)
      BY <1>1, <3>1, FS_Subset
    <3>3. agreed(N) = Units
      BY <1>1, <1>2, <2>2, <3>2
    <3>4. agreed(N) \subseteq T
      BY DEF agreed
    <3> QED
      BY <3>3, <3>4
  <2>3. N <= N
    BY <1>1
  <2> HIDE DEF agreed, N
  <2> QED
    BY <2>1, <2>2, <2>3
<1>7. N \in N .. N
  BY <1>1
<1> QED
  BY <1>6, <1>7 DEF CleanInterfaces

(* The kinds of modules are apart.                                         *)
LEMMA Kinds ==
    /\ Entry \in Own /\ Modules \subseteq Own /\ Tests \subseteq Own /\ Own \subseteq Units
    /\ Libraries \subseteq Units /\ Prelude \in Units
    /\ Units = Own \cup Libraries \cup {Prelude}
    /\ Own = Modules \cup Tests \cup {Entry}
    /\ Prelude \notin Own /\ Prelude \notin Libraries /\ Own \cap Libraries = {}
    /\ Modules \cap Tests = {} /\ Entry \notin Modules /\ Entry \notin Tests
    /\ Main \notin Libraries
  BY ModuleBuildAssumption, PackagesAssumption DEF Own, Units

(* Scripts are written for the modules that there are.                     *)
LEMMA TargetsAre ==
    ASSUME NEW c
    PROVE  /\ Targets(c) \subseteq Units
           /\ \A m \in Modules \cup {Entry} : m \in Targets(c) <=> text[m] # Absent
           /\ \A m \in Tests : m \in Targets(c) <=> c = "test" /\ text[m] # Absent
           /\ \A m \in Libraries \cup {Prelude} : m \in Targets(c) <=>
                 /\ m \in DOMAIN project.library
                 /\ m \in External \cup {Prelude} /\ script[m] = "whole"
<1>1. External \subseteq Libraries
  BY DEF External, DependenciesOf
<1> QED
  BY <1>1, Kinds DEF Targets, ModuleTargets, TestModuleTargets, ExternalTargets

(* What the imports of a module stand for is a module or a package that is *)
(* there.                                                                  *)
LEMMA ImportsAre ==
    ASSUME NEW m \in Units, Resolution(m) # Absent
    PROVE  /\ Source(m) # Absent
           /\ Resolution(m) = [path \in DOMAIN Source(m).imports |-> Resolved(m, path)]
           /\ \A n \in Range(Resolution(m)) :
                 /\ Source(n) # Absent
                 /\ \/ m \in Own /\ n \in Modules \cup {Entry}
                    \/ m \in Own /\ n \in Range(configuration)
                    \/ m \in Libraries /\ n \in needs[m]
<1> DEFINE found == [path \in DOMAIN Source(m).imports |-> Resolved(m, path)]
<1>1. /\ Source(m) # Absent /\ Resolution(m) = found
      /\ \A path \in DOMAIN Source(m).imports :
            found[path] # "PackageNotFound" /\ Source(found[path]) # Absent
  BY DEF Resolution
<1>2. ASSUME NEW path, Resolved(m, path) # "PackageNotFound"
      PROVE  \/ m \in Own /\ Resolved(m, path) \in Modules \cup {Entry}
             \/ m \in Own /\ Resolved(m, path) \in Range(configuration)
             \/ m \in Libraries /\ Resolved(m, path) \in needs[m]
  BY <1>2 DEF Resolved, Range
<1>3. ASSUME NEW n \in Range(Resolution(m))
      PROVE  \E path \in DOMAIN Source(m).imports : n = Resolved(m, path)
  BY <1>1 DEF Range
<1> QED
  BY <1>1, <1>2, <1>3

(* A package that has been compiled, and that the build has to do with, is *)
(* a target.                                                               *)
LEMMA PackagesAreTargets ==
    ASSUME NEW c, NEW m \in External \cup {Prelude}, ScriptFits(m), Source(m) # Absent
    PROVE  m \in Targets(c)
<1>1. m \in Libraries \cup {Prelude}
  BY DEF External, DependenciesOf
<1>2. m \notin Own
  BY <1>1, Kinds
<1>3. directory[m] = "whole" /\ m \in DOMAIN project.library
  BY <1>2 DEF Source
<1> QED
  BY <1>1, <1>3, TargetsAre DEF ScriptFits

(* The packages of a build have all their dependencies among them.         *)
LEMMA ExternalIsClosed ==
    ASSUME PackagesTypeOK
    PROVE  /\ needs[Main] \subseteq External
           /\ External \subseteq Libraries
           /\ \A p \in External : needs[p] \subseteq External
<1>1. needs[Main] \in SUBSET Libraries
  BY DEF PackagesTypeOK
<1> QED
  BY <1>1, DependenciesAreClosed DEF External, IsClosed

(* What a module that is compiled needs is compiled too.                   *)
LEMMA NeededAreTargets ==
    ASSUME PackagesTypeOK, BuildTypeOK, PackagesStay, NEW c, NEW m \in Targets(c),
           Compiles(m, Resolution(m), interface),
           \A p \in External \cup {Prelude} : ScriptFits(p),
           NEW n \in Range(Resolution(m)) \cup Contexts(m)
    PROVE  n \in Targets(c) \ {Entry}
<1>1. m \in Units
  BY TargetsAre
<1>2. interface[n] # Absent /\ n # Entry /\ Resolution(m) # Absent
  BY DEF Compiles, BuildTypeOK
<1>3. Range(configuration) = needs[Main]
  BY DEF BuildTypeOK
<1>4. m \in Libraries => m \in External
  BY Kinds, TargetsAre
<1>5. CASE n \in Modules \cup {Entry}
  <2>1. n \notin Contexts(m)
    <3>1. SystemPackages \subseteq Range(configuration)
      BY DEF SystemPackages, SystemKeys, Range
    <3> QED
      BY <1>3, <1>5, <3>1, ExternalIsClosed, Kinds DEF Contexts
  <2>2. Source(n) # Absent
    BY <1>1, <1>2, <2>1, ImportsAre
  <2> QED
    BY <1>2, <1>5, <2>2, TargetsAre, Kinds DEF Source
<1>6. CASE n \notin Modules \cup {Entry}
  <2>1. n \in External \cup {Prelude}
    <3>1. CASE n \in Range(Resolution(m))
      BY <1>1, <1>2, <1>3, <1>4, <1>6, <3>1, ImportsAre, ExternalIsClosed
    <3>2. CASE n \in Contexts(m)
      <4>1. SystemPackages \subseteq Range(configuration)
        BY DEF SystemPackages, SystemKeys, Range
      <4> QED
        BY <1>3, <3>2, <4>1, ExternalIsClosed DEF Contexts
    <3> QED
      BY <3>1, <3>2
  <2>2. n \in Libraries \cup {Prelude}
    BY <2>1, ExternalIsClosed
  <2>3. Source(n) # Absent
    BY <1>2, <2>2 DEF PackagesStay
  <2> QED
    BY <1>2, <2>1, <2>3, PackagesAreTargets
<1> QED
  BY <1>5, <1>6

(* A build that is complete has made what a clean build would make.        *)
LEMMA CompleteIsUpToDate ==
    ASSUME PackagesTypeOK, BuildTypeOK, PackagesStay, RecordsAreTrue, SuccessIsComplete
    PROVE  UpToDate
<1> SUFFICES ASSUME outcome = "success", ~edited, ~IsStale, command = "test" \/ project.application
             PROVE  executable[command] = CleanProgram
  BY DEF UpToDate
<1> DEFINE T == Targets(command)
           libs == T \ {Entry}
<1>1. Complete(T)
  BY DEF SuccessIsComplete
<1>2. T \subseteq Units
  BY TargetsAre
<1>3. ASSUME NEW m \in T PROVE Dependency(m) = Resolution(m)
  <2>1. Compiles(m, Dependency(m), interface)
    BY <1>1 DEF Complete
  <2>2. CASE m \in Own
    <3>1. IsUpToDate(Job("resolve", m))
      BY <1>1, <2>2 DEF Complete, IsUpToDate, Reads, Job
    <3>2. dependency[m] = Resolution(m)
      BY <2>2, <3>1 DEF IsStale
    <3> QED
      BY <2>2, <3>2, Kinds DEF Dependency
  <2>3. CASE m \in Libraries
    BY <1>1, <2>3, Kinds DEF Complete, Dependency
  <2>4. CASE m = Prelude
    <3>1. Dependency(m) = <<>>
      BY <2>4 DEF Dependency
    <3>2. Source(m) # Absent /\ DOMAIN Source(m).imports = {}
      BY <2>1, <3>1 DEF Compiles
    <3>3. Resolution(m) = [path \in {} |-> Resolved(m, path)]
      BY <3>2 DEF Resolution
    <3> QED
      BY <3>1, <3>3
  <2> QED
    BY <1>2, <2>2, <2>3, <2>4, Kinds
<1>4. ASSUME NEW m \in T
      PROVE  /\ Compiles(m, Resolution(m), interface)
             /\ object[m] = Compiled(m, Resolution(m), interface)
             /\ m # Entry => interface[m] = Interface(m, Range(Resolution(m)), interface)
             /\ Beside(m) = Range(Resolution(m)) \cup Contexts(m)
  <2>1. Resolution(m) # Absent
    BY <1>1, <1>3 DEF Complete, Compiles
  <2> QED
    BY <1>1, <1>3, <2>1 DEF Complete, Beside, Imported
<1>5. ASSUME NEW m \in T PROVE Range(Resolution(m)) \cup Contexts(m) \subseteq libs
  <2>1. \A p \in External \cup {Prelude} : ScriptFits(p)
    BY <1>1 DEF Complete
  <2> QED
    BY <1>4, <2>1, NeededAreTargets
<1>6. ASSUME NEW m \in libs PROVE CleanInterfaces[m] = interface[m]
  <2>1. ASSUME NEW some \in SUBSET libs, some # {}
        PROVE  \E n \in some : (Range(Resolution(n)) \cup Contexts(n)) \cap some = {}
    <3>1. Ordered(T) /\ some \in SUBSET T
      BY <1>1 DEF Complete
    <3>2. PICK n \in some : Beside(n) \cap some = {}
      BY <2>1, <3>1 DEF Ordered
    <3> QED
      BY <1>4, <3>2
  <2>2. libs \in SUBSET Units
    BY <1>2
  <2>3. \A n \in libs : /\ Compiles(n, Resolution(n), interface)
                        /\ interface[n] = Interface(n, Range(Resolution(n)), interface)
                        /\ Range(Resolution(n)) \cup Contexts(n) \subseteq libs
    BY <1>4, <1>5
  <2> HIDE DEF libs
  <2> QED
    BY <2>1, <2>2, <2>3, CleanBuildAgrees
<1>7. ASSUME NEW m \in T
      PROVE  /\ Compiles(m, Resolution(m), CleanInterfaces)
             /\ object[m] = Compiled(m, Resolution(m), CleanInterfaces)
  <2>1. \A n \in Range(Resolution(m)) \cup Contexts(m) : CleanInterfaces[n] = interface[n]
    BY <1>5, <1>6
  <2> QED
    BY <1>4, <2>1, CompilationsSee
<1> DEFINE clean == [m \in T |-> Compiled(m, Resolution(m), CleanInterfaces)]
           tests == IF command = "test" THEN [m \in T \cap Tests |-> CleanInterfaces[m]]
                    ELSE Absent
<1>8. Members(command, T) = clean
  <2> DEFINE test == IF command = "test" THEN archive["test"] ELSE <<>>
  <2>1. \A a \in {"main", "test"} : \A m \in DOMAIN archive[a] : text[m] # Absent
    BY DEF IsStale, BuildTypeOK
  <2>2. DOMAIN archive["main"] = T \cap (Modules \cup {Entry})
    BY <1>1, <2>1, TargetsAre DEF Complete, RecordsAreTrue
  <2>3. DOMAIN test = T \cap Tests
    <3>1. CASE command = "test"
      BY <1>1, <2>1, <3>1, TargetsAre DEF Complete, RecordsAreTrue
    <3>2. CASE command # "test"
      <4>1. DOMAIN <<>> = {}
        OBVIOUS
      <4>2. T \cap Tests = {}
        BY <3>2, TargetsAre
      <4> QED
        BY <3>2, <4>1, <4>2
    <3> QED
      BY <3>1, <3>2
  <2>4. DOMAIN archive["main"] \cup DOMAIN test \cup (T \ Own) = T
    BY <1>2, <2>2, <2>3, Kinds
  <2>5. \A m \in DOMAIN archive["main"] : archive["main"][m] = object[m]
    BY <1>1, <2>2 DEF Complete
  <2>6. \A m \in DOMAIN test : test[m] = object[m]
    BY <1>1, <2>3, TargetsAre DEF Complete
  <2> HIDE DEF T
  <2>7. \A m \in T : (CASE m \in DOMAIN archive["main"] -> archive["main"][m]
                       [] m \in DOMAIN test -> test[m]
                       [] OTHER -> object[m]) = object[m]
    BY <2>5, <2>6
  <2>8. Members(command, T) =
            [m \in T |-> CASE m \in DOMAIN archive["main"] -> archive["main"][m]
                           [] m \in DOMAIN test -> test[m]
                           [] OTHER -> object[m]]
    BY <2>4 DEF Members
  <2> QED
    BY <1>7, <2>7, <2>8
<1>9. Information(command) = tests
  <2>1. CASE command = "test"
    <3>1. \A m \in T \cap Tests : CleanInterfaces[m] = interface[m]
      BY <1>6, Kinds
    <3>2. information = [m \in T \cap Tests |-> interface[m]]
      BY <1>1, <2>1 DEF Complete
    <3> HIDE DEF T
    <3> QED
      BY <2>1, <3>1, <3>2 DEF Information
  <2>2. CASE command # "test"
    BY <2>2 DEF Information
  <2> QED
    BY <2>1, <2>2
<1>10. executable[command] = Program(command, clean, tests)
  BY <1>1, <1>8, <1>9 DEF Complete
<1>11. ~ScriptsFail /\ \A m \in T : Compiles(m, Resolution(m), CleanInterfaces)
  BY <1>1, <1>7 DEF Complete
<1> QED
  BY <1>10, <1>11 DEF CleanProgram

----------------------------------------------------------------------------
(* Jobs, what they read, and what writes it.                               *)

(* Jobs are told apart by their kinds and by what they are for.            *)
LEMMA JobsAreApart ==
    \A k, l, m, n : Job(k, m) = Job(l, n) <=> k = l /\ m = n
  BY DEF Job

(* The jobs of the scripts, by their kinds.                                *)
LEMMA ScriptJobsAre ==
    ASSUME targets \subseteq Units
    PROVE  /\ \A m : Job("resolve", m) \in ScriptJobs =>
                        m \in targets \cap (Own \cup Libraries)
           /\ \A m : Job("compile", m) \in ScriptJobs => m \in targets
           /\ \A m \in targets : m \in Modules \cup {Entry} \cup Libraries \/ (command = "test" /\ m \in Tests)
                  => Job("resolve", m) \in ScriptJobs /\ Job("compile", m) \in ScriptJobs
           /\ Prelude \in targets => Job("compile", Prelude) \in ScriptJobs
           /\ Job("archive", "main") \in ScriptJobs
           /\ command = "test" => /\ Job("archive", "test") \in ScriptJobs
                                  /\ Job("information", "test") \in ScriptJobs
                                  /\ Job("link", "test") \in ScriptJobs
           /\ command = "build" /\ project.application => Job("link", "build") \in ScriptJobs
           /\ \A j \in ScriptJobs :
                 \/ \E m \in targets \cap (Own \cup Libraries) : j = Job("resolve", m)
                 \/ \E m \in targets : j = Job("compile", m)
                 \/ \E a \in {"main", "test"} : j = Job("archive", a)
                 \/ j = Job("information", "test")
                 \/ \E c \in {"build", "test"} : j = Job("link", c)
<1>1. \A modules, j : j \in CompileJobs(modules) <=>
          \E m \in modules : j = Job("resolve", m) \/ j = Job("compile", m)
  BY DEF CompileJobs
<1>2. \A j : j \in ModulesScript <=>
          \/ \E m \in targets \cap (Modules \cup {Entry}) : j = Job("resolve", m) \/ j = Job("compile", m)
          \/ j = Job("archive", "main")
  BY <1>1 DEF ModulesScript
<1>3. \A j : j \in TestModulesScript <=>
          \/ \E m \in targets \cap Tests : j = Job("resolve", m) \/ j = Job("compile", m)
          \/ j = Job("archive", "test") \/ j = Job("information", "test")
  BY <1>1 DEF TestModulesScript
<1>4. \A j : j \in ExternalScripts <=>
          \E m \in targets \cap Libraries : j = Job("resolve", m) \/ j = Job("compile", m)
  BY <1>1 DEF ExternalScripts
<1>5. \A j : j \in PreludeScript <=> Prelude \in targets /\ j = Job("compile", Prelude)
  BY DEF PreludeScript
<1>6. \A j : j \in ScriptJobs <=>
          \/ j \in ModulesScript \/ j \in ExternalScripts \/ j \in PreludeScript
          \/ command = "test" /\ (j \in TestModulesScript \/ j = Job("link", "test"))
          \/ command # "test" /\ project.application /\ j = Job("link", "build")
  BY DEF ScriptJobs, TestScript, ApplicationScript
<1> HIDE DEF Job
<1>7. \A m : Job("resolve", m) \in ScriptJobs => m \in targets \cap (Own \cup Libraries)
  <2> TAKE m
  <2> HAVE Job("resolve", m) \in ScriptJobs
  <2>1. \A k, n : k # "resolve" => Job("resolve", m) # Job(k, n)
    BY JobsAreApart
  <2>2. Job("resolve", m) \in ModulesScript => m \in targets \cap (Modules \cup {Entry})
    BY <1>2, JobsAreApart
  <2>3. Job("resolve", m) \in TestModulesScript => m \in targets \cap Tests
    BY <1>3, JobsAreApart
  <2>4. Job("resolve", m) \in ExternalScripts => m \in targets \cap Libraries
    BY <1>4, JobsAreApart
  <2>5. Job("resolve", m) \notin PreludeScript
    BY <1>5, <2>1
  <2> QED
    BY <1>6, <2>1, <2>2, <2>3, <2>4, <2>5, Kinds
<1>8. \A m : Job("compile", m) \in ScriptJobs => m \in targets
  <2> TAKE m
  <2> HAVE Job("compile", m) \in ScriptJobs
  <2>1. \A k, n : k # "compile" => Job("compile", m) # Job(k, n)
    BY JobsAreApart
  <2>2. Job("compile", m) \in ModulesScript => m \in targets
    BY <1>2, JobsAreApart
  <2>3. Job("compile", m) \in TestModulesScript => m \in targets
    BY <1>3, JobsAreApart
  <2>4. Job("compile", m) \in ExternalScripts => m \in targets
    BY <1>4, JobsAreApart
  <2>5. Job("compile", m) \in PreludeScript => m \in targets
    BY <1>5, JobsAreApart
  <2> QED
    BY <1>6, <2>1, <2>2, <2>3, <2>4, <2>5
<1>9. \A m \in targets : m \in Modules \cup {Entry} \cup Libraries \/ (command = "test" /\ m \in Tests)
          => Job("resolve", m) \in ScriptJobs /\ Job("compile", m) \in ScriptJobs
  BY <1>2, <1>3, <1>4, <1>6
<1>10. /\ Prelude \in targets => Job("compile", Prelude) \in ScriptJobs
       /\ Job("archive", "main") \in ScriptJobs
       /\ command = "test" => /\ Job("archive", "test") \in ScriptJobs
                              /\ Job("information", "test") \in ScriptJobs
                              /\ Job("link", "test") \in ScriptJobs
       /\ command = "build" /\ project.application => Job("link", "build") \in ScriptJobs
  BY <1>2, <1>3, <1>5, <1>6
<1>11. ASSUME NEW j \in ScriptJobs
       PROVE  \/ \E m \in targets \cap (Own \cup Libraries) : j = Job("resolve", m)
              \/ \E m \in targets : j = Job("compile", m)
              \/ \E a \in {"main", "test"} : j = Job("archive", a)
              \/ j = Job("information", "test")
              \/ \E c \in {"build", "test"} : j = Job("link", c)
  <2>1. CASE j \in ModulesScript
    BY <1>2, <2>1, Kinds
  <2>2. CASE j \in TestModulesScript
    BY <1>3, <2>2, Kinds
  <2>3. CASE j \in ExternalScripts
    BY <1>4, <2>3
  <2>4. CASE j \in PreludeScript
    BY <1>5, <2>4
  <2> QED
    BY <1>6, <2>1, <2>2, <2>3, <2>4
<1> QED
  BY <1>7, <1>8, <1>9, <1>10, <1>11

(* What each kind of job reads.                                            *)
LEMMA ReadsAre ==
    /\ \A m : Reads(Job("resolve", m)) = [source |-> Source(m)]
    /\ \A m : Reads(Job("compile", m)) =
            [source |-> Source(m), dependency |-> dependency[m],
             interfaces |-> [n \in Beside(m) |-> interface[n]]]
    /\ \A a : Reads(Job("archive", a)) = [objects |-> [m \in Archived(a) |-> object[m]]]
    /\ \A a : Reads(Job("information", a)) = [files |-> [m \in targets \cap Tests |-> interface[m]]]
    /\ \A c : Reads(Job("link", c)) =
            [order |-> linked, members |-> Members(c, targets), tests |-> Information(c)]
  BY DEF Reads, Job

(* What each kind of job waits for.                                        *)
LEMMA UpstreamIs ==
    /\ \A m : Upstream(Job("resolve", m)) = {}
    /\ \A m : Upstream(Job("compile", m)) = ModuleUpstream(m)
    /\ \A a : Upstream(Job("archive", a)) = {Job("compile", m) : m \in Archived(a)}
    /\ \A a : Upstream(Job("information", a)) = {Job("compile", m) : m \in Archived("test")}
    /\ Upstream(Job("link", "test")) = TestUpstream
    /\ Upstream(Job("link", "build")) = ApplicationUpstream
  BY DEF Upstream, Job

----------------------------------------------------------------------------
(* What the order of jobs is made of.                                      *)

(* A job runs after the jobs it waits for, and once.                       *)
LEMMA RunsAre ==
    ASSUME NEW kind, NEW j \in Runs(kind)
    PROVE  /\ step = "run" /\ j \in ScriptJobs /\ j \notin done
           /\ Upstream(j) \cap ScriptJobs \subseteq done
           /\ j.kind = kind
  BY DEF Runs, Ready

(* The scripts stay what they are while they run.                          *)
LEMMA ScriptsStay ==
    ASSUME UNCHANGED <<targets, command, project>>
    PROVE  /\ ScriptJobs' = ScriptJobs
           /\ \A a : Archived(a)' = Archived(a)
           /\ ApplicationUpstream' = ApplicationUpstream
           /\ TestUpstream' = TestUpstream
<1>1. ApplicationUpstream' = ApplicationUpstream
  BY DEF ApplicationUpstream
<1> QED
  BY <1>1 DEF ScriptJobs, ModulesScript, ExternalScripts, PreludeScript, TestModulesScript, TestScript,
         ApplicationScript, CompileJobs, Archived, TestUpstream

(* What the sources of modules and their contexts depend on.               *)
LEMMA SourcesStay ==
    ASSUME UNCHANGED <<needs, directory, project, text, configuration>>
    PROVE  /\ \A m : Source(m)' = Source(m)
           /\ \A m : Contexts(m)' = Contexts(m)
           /\ \A m : Resolution(m)' = Resolution(m)
<1>1. \A m : Source(m)' = Source(m)
  BY DEF Source
<1>2. SystemPackages' = SystemPackages
  BY DEF SystemPackages, SystemKeys
<1>3. \A m : Contexts(m)' = Contexts(m)
  BY <1>2 DEF Contexts
<1>4. \A m, path : Resolved(m, path)' = Resolved(m, path)
  BY DEF Resolved
<1>5. \A m : Resolution(m)' = Resolution(m)
  BY <1>1, <1>4 DEF Resolution
<1> QED
  BY <1>1, <1>3, <1>5

(* A run that goes on, with more done than before.                         *)
LEMMA RunGoesOn ==
    ASSUME BuildTypeOK, JobsInOrder, step = "run", step' = "run",
           UNCHANGED <<targets, command, project, text, configuration, needs, directory, script,
                       edited>>,
           NEW more \in SUBSET Ready, done' = done \cup more,
           \A i \in done' : Reads(i)' = Reads(i) /\ Upstream(i)' = Upstream(i),
           \A m : Job("compile", m) \in done' => Beside(m)' = Beside(m),
           \A i \in more : Reads(i) \in record'[i],
           \A i \in done \ more : record'[i] = record[i]
    PROVE  JobsInOrder'
<1>1. ScriptJobs' = ScriptJobs
  BY ScriptsStay
<1>2. \A j \in more : j \in ScriptJobs /\ j \notin done /\ Upstream(j) \cap ScriptJobs \subseteq done
  BY DEF Ready
<1>3. targets' \subseteq Units /\ done' \subseteq ScriptJobs'
  BY <1>1, <1>2 DEF JobsInOrder
<1>4. \A j \in done' : Upstream(j)' \cap ScriptJobs' \subseteq done'
  BY <1>1, <1>2 DEF JobsInOrder
<1>5. Ordered({m \in Units : Job("compile", m) \in done})
  BY DEF JobsInOrder
<1>6. Ordered({m \in Units : Job("compile", m) \in done})'
  <2> DEFINE before == {m \in Units : Job("compile", m) \in done}
             after == {m \in Units : Job("compile", m) \in done'}
  <2> SUFFICES ASSUME NEW some \in SUBSET after, some # {}
               PROVE  \E m \in some : Beside(m)' \cap some = {}
    BY DEF Ordered
  <2>1. \A m \in after : Beside(m)' = Beside(m)
    OBVIOUS
  <2>2. \A m \in after : \A n \in Beside(m) \cap after : Job("compile", n) \in Upstream(Job("compile", m)) \cap ScriptJobs
    BY <1>3, <1>1, UpstreamIs DEF ModuleUpstream
  <2>3. \A m \in after : Beside(m) \cap after \subseteq before
    <3>1. ASSUME NEW m \in after, NEW n \in Beside(m) \cap after
          PROVE  Job("compile", n) \in done
      BY <1>2, <2>2 DEF JobsInOrder
    <3> QED
      BY <3>1
  <2>4. CASE some \cap before = {}
    <3>1. PICK m \in some : TRUE
      OBVIOUS
    <3> QED
      BY <2>1, <2>3, <2>4, <3>1
  <2>5. CASE some \cap before # {}
    <3>1. PICK m \in some \cap before : Beside(m) \cap (some \cap before) = {}
      BY <1>5, <2>5 DEF Ordered
    <3> QED
      BY <2>1, <2>3, <3>1
  <2> QED
    BY <2>4, <2>5
<1>7. ASSUME ~edited'
      PROVE  targets' = Targets(command)' /\ ~ScriptsFail' /\ \A j \in done' : IsUpToDate(j)'
  <2>1. Targets(command)' = Targets(command)
    BY DEF Targets, ModuleTargets, TestModuleTargets, ExternalTargets, External, DependenciesOf, IsClosed
  <2>2. ScriptsFail' = ScriptsFail
    BY DEF ScriptsFail, SystemKeys
  <2>3. targets = Targets(command) /\ ~ScriptsFail /\ \A j \in done : Reads(j) \in record[j]
    BY <1>7 DEF JobsInOrder, IsUpToDate
  <2>4. \A j \in done' : Reads(j)' \in record'[j]
    BY <2>3
  <2> QED
    BY <2>1, <2>2, <2>3, <2>4 DEF IsUpToDate
<1> QED
  BY <1>3, <1>4, <1>6, <1>7 DEF JobsInOrder

----------------------------------------------------------------------------
(* The order of jobs, as jobs are done.                                    *)

(* What a job reads is what it read before, if the files that it reads are *)
(* the same.                                                               *)
LEMMA ReadsStay ==
    ASSUME targets \subseteq Units, UNCHANGED <<packages, sources, command, targets>>,
           NEW i \in ScriptJobs,
           \A m \in Units : i = Job("compile", m) =>
                dependency'[m] = dependency[m] /\ \A n \in Beside(m) : interface'[n] = interface[n],
           \A a \in {"main", "test"} : i = Job("archive", a) =>
                \A m \in Archived(a) : object'[m] = object[m],
           i = Job("information", "test") => \A m \in Archived("test") : interface'[m] = interface[m],
           \A c \in {"build", "test"} : i = Job("link", c) =>
                /\ archive'["main"] = archive["main"]
                /\ c = "test" => archive'["test"] = archive["test"] /\ information' = information
                /\ \A m \in targets \ Own : object'[m] = object[m]
    PROVE  /\ Reads(i)' = Reads(i)
           /\ Upstream(i)' = Upstream(i)
           /\ \A m \in Units : i = Job("compile", m) => Beside(m)' = Beside(m)
<1>1. UNCHANGED <<targets, command, project, text, configuration, needs, directory, linked>>
  BY DEF packages, sources
<1>2. /\ \A m : Source(m)' = Source(m)
      /\ \A m : Contexts(m)' = Contexts(m)
      /\ \A a : Archived(a)' = Archived(a)
      /\ ApplicationUpstream' = ApplicationUpstream
      /\ TestUpstream' = TestUpstream
  BY <1>1, SourcesStay, ScriptsStay
<1>3. \A m \in Units : i = Job("compile", m) => Beside(m)' = Beside(m)
  <2> SUFFICES ASSUME NEW m \in Units, i = Job("compile", m) PROVE Beside(m)' = Beside(m)
    OBVIOUS
  <2>1. Imported(m)' = Imported(m)
    BY DEF Imported, Dependency
  <2> QED
    BY <1>2, <2>1 DEF Beside
<1>4. CASE \E m \in targets \cap (Own \cup Libraries) : i = Job("resolve", m)
  <2>1. PICK m \in targets : i = Job("resolve", m)
    BY <1>4
  <2>2. Reads(Job("resolve", m))' = [source |-> Source(m)']
    BY DEF Reads, Job
  <2>3. Upstream(Job("resolve", m))' = {}
    BY DEF Upstream, Job
  <2> QED
    BY <1>2, <1>3, <2>1, <2>2, <2>3, ReadsAre, UpstreamIs
<1>5. CASE \E m \in targets : i = Job("compile", m)
  <2>1. PICK m \in targets : i = Job("compile", m)
    BY <1>5
  <2>2. Reads(Job("compile", m))' =
            [source |-> Source(m)', dependency |-> dependency'[m],
             interfaces |-> [n \in Beside(m)' |-> interface'[n]]]
    BY DEF Reads, Job
  <2>3. Upstream(Job("compile", m))' = ModuleUpstream(m)'
    BY DEF Upstream, Job
  <2>4. m \in Units /\ Beside(m)' = Beside(m)
    BY <1>3, <2>1
  <2>5. [n \in Beside(m)' |-> interface'[n]] = [n \in Beside(m) |-> interface[n]]
    BY <2>1, <2>4
  <2>6. dependency'[m] = dependency[m] /\ Source(m)' = Source(m)
    BY <1>2, <2>1, <2>4
  <2>7. Reads(i)' = Reads(i)
    BY <2>1, <2>2, <2>5, <2>6, ReadsAre
  <2>8. ModuleUpstream(m)' = ModuleUpstream(m)
    BY <2>4 DEF ModuleUpstream
  <2> QED
    BY <1>3, <2>1, <2>3, <2>7, <2>8, UpstreamIs
<1>6. CASE \E a \in {"main", "test"} : i = Job("archive", a)
  <2>1. PICK a \in {"main", "test"} : i = Job("archive", a)
    BY <1>6
  <2>2. Reads(Job("archive", a))' = [objects |-> [m \in Archived(a)' |-> object'[m]]]
    BY DEF Reads, Job
  <2>3. Upstream(Job("archive", a))' = {Job("compile", m) : m \in Archived(a)'}
    BY DEF Upstream, Job
  <2>4. Archived(a)' = Archived(a) /\ \A m \in Archived(a) : object'[m] = object[m]
    BY <1>2, <2>1
  <2>5. [m \in Archived(a)' |-> object'[m]] = [m \in Archived(a) |-> object[m]]
    BY <2>4
  <2>6. Reads(i)' = Reads(i)
    BY <2>1, <2>2, <2>5, ReadsAre
  <2>7. Upstream(i)' = Upstream(i)
    BY <2>1, <2>3, <2>4, UpstreamIs
  <2> QED
    BY <1>3, <2>6, <2>7
<1>7. CASE i = Job("information", "test")
  <2>1. Reads(Job("information", "test"))' = [files |-> [m \in targets' \cap Tests |-> interface'[m]]]
    BY DEF Reads, Job
  <2>2. Upstream(Job("information", "test"))' = {Job("compile", m) : m \in Archived("test")'}
    BY DEF Upstream, Job
  <2>3. Archived("test") = targets \cap Tests
    BY DEF Archived
  <2>4. [m \in targets' \cap Tests |-> interface'[m]] = [m \in targets \cap Tests |-> interface[m]]
    BY <1>7, <1>1, <2>3
  <2> QED
    BY <1>2, <1>3, <1>7, <2>1, <2>2, <2>4, ReadsAre, UpstreamIs
<1>8. CASE \E c \in {"build", "test"} : i = Job("link", c)
  <2>1. PICK c \in {"build", "test"} : i = Job("link", c)
    BY <1>8
  <2>2. Reads(Job("link", c))' =
            [order |-> linked', members |-> Members(c, targets)', tests |-> Information(c)']
    BY DEF Reads, Job
  <2>3. Upstream(Job("link", "test"))' = TestUpstream' /\ Upstream(Job("link", "build"))' = ApplicationUpstream'
    BY DEF Upstream, Job
  <2>4. Information(c)' = Information(c)
    BY <2>1 DEF Information
  <2>5. Members(c, targets)' = Members(c, targets)
    <3> DEFINE main == DOMAIN archive["main"]
               test == IF c = "test" THEN archive["test"] ELSE <<>>
    <3>1. test' = test /\ main' = main
      BY <2>1
    <3>2. \A m \in main \cup DOMAIN test \cup (targets \ Own) :
              m \notin main /\ m \notin DOMAIN test => object'[m] = object[m]
      BY <2>1
    <3>3. \A m \in main : archive'["main"][m] = archive["main"][m]
      BY <2>1
    <3>4. Members(c, targets) =
            [m \in main \cup DOMAIN test \cup (targets \ Own) |->
                CASE m \in main -> archive["main"][m] [] m \in DOMAIN test -> test[m]
                  [] OTHER -> object[m]]
      BY DEF Members
    <3>5. Members(c, targets)' =
            [m \in main \cup DOMAIN test \cup (targets \ Own) |->
                CASE m \in main -> archive'["main"][m] [] m \in DOMAIN test -> test[m]
                  [] OTHER -> object'[m]]
      BY <1>1, <3>1 DEF Members
    <3> HIDE DEF main, test
    <3> QED
      BY <3>2, <3>3, <3>4, <3>5
  <2> QED
    BY <1>1, <1>2, <1>3, <2>1, <2>2, <2>3, <2>4, <2>5, ReadsAre, UpstreamIs
<1> QED
  BY <1>4, <1>5, <1>6, <1>7, <1>8, ScriptJobsAre

(* What is up to date is done in order, too.                               *)
LEMMA SkipOrder ==
    ASSUME BuildTypeOK, JobsInOrder, Skip
    PROVE  JobsInOrder'
<1>1. /\ step = "run" /\ step' = "run" /\ done' = done \cup Current
      /\ UNCHANGED <<targets, command, project, text, configuration, needs, directory, script, edited>>
      /\ UNCHANGED <<packages, files, sources, command, targets>>
      /\ record' = record
  BY DEF Skip, packages, sources, files
<1>2. Current \in SUBSET Ready /\ \A i \in Current : Reads(i) \in record[i]
  BY DEF Current, IsUpToDate
<1>3. targets \subseteq Units /\ done' \subseteq ScriptJobs
  BY <1>1, <1>2 DEF JobsInOrder, Ready
<1>4. \A i \in done' : Reads(i)' = Reads(i) /\ Upstream(i)' = Upstream(i)
          /\ \A m \in Units : i = Job("compile", m) => Beside(m)' = Beside(m)
  <2> TAKE i \in done'
  <2>1. i \in ScriptJobs
    BY <1>3
  <2>2. UNCHANGED <<dependency, interface, object, archive, information>>
    BY <1>1 DEF files
  <2> QED
    BY <1>1, <1>3, <2>1, <2>2, ReadsStay
<1>5. \A m : Job("compile", m) \in done' => Beside(m)' = Beside(m)
  <2>1. \A m : Job("compile", m) \in done' => m \in Units
    BY <1>3, ScriptJobsAre
  <2> QED
    BY <1>4, <2>1
<1> QED
  BY <1>1, <1>2, <1>4, <1>5, RunGoesOn

(* A job that comes to its end while nothing that is done has read what it *)
(* writes.                                                                 *)
LEMMA SucceedOrder ==
    ASSUME BuildTypeOK, JobsInOrder, NEW kind, NEW j \in Runs(kind), Succeed(j),
           \A i \in done \cup {j} :
              /\ \A m \in Units : i = Job("compile", m) =>
                    dependency'[m] = dependency[m] /\ \A n \in Beside(m) : interface'[n] = interface[n]
              /\ \A a \in {"main", "test"} : i = Job("archive", a) =>
                    \A m \in Archived(a) : object'[m] = object[m]
              /\ i = Job("information", "test") => \A m \in Archived("test") : interface'[m] = interface[m]
              /\ \A c \in {"build", "test"} : i = Job("link", c) =>
                    /\ archive'["main"] = archive["main"]
                    /\ c = "test" => archive'["test"] = archive["test"] /\ information' = information
                    /\ \A m \in targets \ Own : object'[m] = object[m]
    PROVE  JobsInOrder'
<1>1. /\ step = "run" /\ step' = "run" /\ done' = done \cup {j}
      /\ UNCHANGED <<targets, command, project, text, configuration, needs, directory, script, edited>>
      /\ UNCHANGED <<packages, sources, command, targets>>
      /\ record' = [record EXCEPT ![j] = {Reads(j)}]
  BY RunsAre DEF Succeed, packages, sources
<1>2. {j} \in SUBSET Ready /\ j \notin done /\ j \in ScriptJobs
  BY RunsAre DEF Runs
<1>3. targets \subseteq Units /\ done' \subseteq ScriptJobs
  BY <1>1, <1>2 DEF JobsInOrder
<1>4. j \in Jobs
  BY <1>2, <1>3, ScriptJobsAre DEF Jobs
<1>5. /\ \A i \in {j} : Reads(i) \in record'[i]
      /\ \A i \in done \ {j} : record'[i] = record[i]
  BY <1>1, <1>4 DEF BuildTypeOK
<1>6. \A i \in done' : Reads(i)' = Reads(i) /\ Upstream(i)' = Upstream(i)
          /\ \A m \in Units : i = Job("compile", m) => Beside(m)' = Beside(m)
  <2> TAKE i \in done'
  <2>1. i \in ScriptJobs /\ i \in done \cup {j}
    BY <1>1, <1>3
  <2> QED
    BY <1>1, <1>3, <2>1, ReadsStay
<1>7. \A m : Job("compile", m) \in done' => Beside(m)' = Beside(m)
  <2>1. \A m : Job("compile", m) \in done' => m \in Units
    BY <1>3, ScriptJobsAre
  <2> QED
    BY <1>6, <2>1
<1> QED
  BY <1>1, <1>2, <1>5, <1>6, <1>7, RunGoesOn

----------------------------------------------------------------------------
(* Jobs that succeed.                                                      *)

(* What runs, by its kind, has not been waited for by what is done.        *)
LEMMA RunningJobs ==
    ASSUME JobsInOrder, NEW kind, NEW j \in Runs(kind)
    PROVE  /\ step = "run" /\ targets \subseteq Units /\ done \cup {j} \subseteq ScriptJobs
           /\ j \in Jobs
           /\ \A i \in done \cup {j} : j \notin Upstream(i)
           /\ kind = "resolve" => \E m \in targets \cap (Own \cup Libraries) : j = Job("resolve", m)
           /\ kind = "compile" => \E m \in targets : j = Job("compile", m)
           /\ kind = "archive" => \E a \in {"main", "test"} : j = Job("archive", a)
           /\ kind = "information" => j = Job("information", "test")
           /\ kind = "link" => \E c \in {"build", "test"} : j = Job("link", c)
<1>1. /\ step = "run" /\ j \in ScriptJobs /\ j \notin done
      /\ Upstream(j) \cap ScriptJobs \subseteq done /\ j.kind = kind
  BY RunsAre
<1>2. /\ targets \subseteq Units /\ done \subseteq ScriptJobs
      /\ \A i \in done : Upstream(i) \cap ScriptJobs \subseteq done
  BY <1>1 DEF JobsInOrder
<1>3. \A i \in done \cup {j} : j \notin Upstream(i)
  BY <1>1, <1>2
<1>4. \/ \E m \in targets \cap (Own \cup Libraries) : j = Job("resolve", m)
      \/ \E m \in targets : j = Job("compile", m)
      \/ \E a \in {"main", "test"} : j = Job("archive", a)
      \/ j = Job("information", "test")
      \/ \E c \in {"build", "test"} : j = Job("link", c)
  BY <1>1, <1>2, ScriptJobsAre
<1>5. \A k, m : Job(k, m).kind = k
  BY DEF Job
<1>6. j \in Jobs
  BY <1>2, <1>4 DEF Jobs
<1> QED
  BY <1>1, <1>2, <1>3, <1>4, <1>5, <1>6

(* Jobs leave packages and what is configured alone.                       *)
LEMMA SucceedStays ==
    ASSUME BuildTypeOK, NEW j \in Jobs, Succeed(j)
    PROVE  /\ UNCHANGED <<needs, directory, project, text, configuration, command, outcome, edited,
                          step, targets>>
           /\ record' = [k \in Jobs |-> record'[k]]
           /\ record'[j] = {Reads(j)}
           /\ \A k \in Jobs \ {j} : record'[k] = record[k]
           /\ \A m : Source(m)' = Source(m)
           /\ \A m : Resolution(m)' = Resolution(m)
<1>1. /\ UNCHANGED <<needs, directory, project, text, configuration, command, outcome, edited, step,
                     targets>>
      /\ record' = [record EXCEPT ![j] = {Reads(j)}]
  BY DEF Succeed, packages, sources
<1>2. record = [k \in Jobs |-> record[k]]
  BY DEF BuildTypeOK
<1>3. /\ record' = [k \in Jobs |-> record'[k]]
      /\ record'[j] = {Reads(j)}
      /\ \A k \in Jobs \ {j} : record'[k] = record[k]
  BY <1>1, <1>2
<1>4. /\ \A m : Source(m)' = Source(m)
      /\ \A m : Resolution(m)' = Resolution(m)
  BY <1>1, SourcesStay
<1> QED
  BY <1>1, <1>3, <1>4

(* All jobs there can be have a record.                                    *)
LEMMA JobsAre ==
    /\ \A m \in Units : Job("resolve", m) \in Jobs /\ Job("compile", m) \in Jobs
    /\ \A a \in {"main", "test"} : Job("archive", a) \in Jobs
    /\ Job("information", "test") \in Jobs
    /\ \A c \in {"build", "test"} : Job("link", c) \in Jobs
  BY DEF Jobs

JobsKept == BuildTypeOK /\ PackagesStay /\ RecordsAreTrue /\ JobsInOrder

(* The modules whose interfaces a compilation reads.                       *)
LEMMA BesideAre ==
    ASSUME PackagesTypeOK, BuildTypeOK, NEW m \in Units
    PROVE  Beside(m) \subseteq Units
<1>1. Range(configuration) \subseteq Libraries
  BY ExternalIsClosed DEF BuildTypeOK
<1>2. SystemPackages \subseteq Libraries
  BY <1>1 DEF SystemPackages, SystemKeys, Range
<1>3. Contexts(m) \subseteq Units
  BY <1>2, Kinds DEF Contexts
<1>4. Imported(m) \subseteq Units
  <2>1. CASE m = Prelude
    <3>1. Range(<<>>) = {}
      BY DEF Range
    <3> QED
      BY <2>1, <3>1 DEF Imported, Dependency
  <2>2. CASE m # Prelude
    BY <2>2 DEF Imported, Dependency, BuildTypeOK
  <2> QED
    BY <2>1, <2>2
<1> QED
  BY <1>3, <1>4 DEF Beside

(* Records of other jobs are as true as they were.                         *)
LEMMA OtherRecordsStay ==
    ASSUME BuildTypeOK, NEW j \in Jobs, Succeed(j)
    PROVE  /\ \A m \in Units : j # Job("resolve", m) =>
                    record'[Job("resolve", m)] = record[Job("resolve", m)]
           /\ \A m \in Units : j # Job("compile", m) =>
                    record'[Job("compile", m)] = record[Job("compile", m)]
           /\ \A a \in {"main", "test"} : j # Job("archive", a) =>
                    record'[Job("archive", a)] = record[Job("archive", a)]
           /\ j # Job("information", "test") =>
                    record'[Job("information", "test")] = record[Job("information", "test")]
           /\ \A c \in {"build", "test"} : j # Job("link", c) =>
                    record'[Job("link", c)] = record[Job("link", c)]
  BY SucceedStays, JobsAre

(* Dependencies are resolved before anything that reads them is done.      *)
LEMMA ResolveSucceeds ==
    ASSUME PackagesTypeOK, JobsKept, NEW j \in Runs("resolve"), Resolution(j.of) # Absent,
           dependency' = [dependency EXCEPT ![j.of] = Resolution(j.of)],
           Succeed(j), UNCHANGED <<interface, object, archive, information, executable>>
    PROVE  JobsKept'
<1>1. PICK m \in targets \cap (Own \cup Libraries) : j = Job("resolve", m)
  BY RunningJobs DEF JobsKept
<1>2. /\ j \in Jobs /\ m \in Units /\ j.of = m /\ m # Prelude
      /\ \A i \in done \cup {j} : j \notin Upstream(i)
  BY <1>1, RunningJobs, Kinds DEF JobsKept, Job
<1>3. /\ dependency' = [k \in Units |-> dependency'[k]]
      /\ dependency'[m] = Resolution(m)
      /\ \A k \in Units \ {m} : dependency'[k] = dependency[k]
  BY <1>2 DEF JobsKept, BuildTypeOK
<1>4. BuildTypeOK'
  <2>1. Range(Resolution(m)) \subseteq Units
    <3>1. Range(configuration) \subseteq Libraries
      BY ExternalIsClosed DEF JobsKept, BuildTypeOK
    <3>2. m \in Libraries => needs[m] \subseteq Libraries
      BY DEF PackagesTypeOK
    <3> QED
      BY <1>2, <3>1, <3>2, ImportsAre, Kinds
  <2>2. UNCHANGED <<needs, project, configuration, command, outcome, step, interface, object, archive, executable>>
        /\ record' = [k \in Jobs |-> record'[k]]
    BY <1>2, SucceedStays DEF JobsKept
  <2> QED
    BY <1>2, <1>3, <2>1, <2>2 DEF JobsKept, BuildTypeOK
<1>5. PackagesStay'
  <2>1. \A k \in Libraries : k # m => record'[Job("resolve", k)] = record[Job("resolve", k)]
    BY <1>1, <1>2, OtherRecordsStay, JobsAreApart, Kinds DEF JobsKept
  <2>2. Resolution(m) # Absent
    BY <1>2
  <2> QED
    BY <1>2, <1>3, <2>1, <2>2, SucceedStays, Kinds DEF JobsKept, PackagesStay
<1>6. RecordsAreTrue'
  <2>1. \A k \in Units : record'[Job("compile", k)] = record[Job("compile", k)]
    BY <1>1, <1>2, OtherRecordsStay, JobsAreApart DEF JobsKept
  <2>2. /\ \A a \in {"main", "test"} : record'[Job("archive", a)] = record[Job("archive", a)]
        /\ record'[Job("information", "test")] = record[Job("information", "test")]
        /\ \A c \in {"build", "test"} : record'[Job("link", c)] = record[Job("link", c)]
    BY <1>1, <1>2, OtherRecordsStay, JobsAreApart DEF JobsKept
  <2>3. \A k, read : CompiledFrom(k, read)' <=> CompiledFrom(k, read)
    BY DEF CompiledFrom
  <2> QED
    BY <2>1, <2>2, <2>3 DEF JobsKept, RecordsAreTrue
<1>7. JobsInOrder'
  <2>1. ASSUME NEW i \in done \cup {j}, NEW k \in Units, i = Job("compile", k)
        PROVE  dependency'[k] = dependency[k]
    <3>1. k # m
      <4>1. k = m => j \in Upstream(i)
        BY <1>1, <1>2, <2>1, UpstreamIs DEF ModuleUpstream
      <4> QED
        BY <1>2, <4>1
    <3> QED
      BY <1>3, <3>1
  <2> QED
    BY <2>1, SucceedOrder DEF JobsKept
<1> QED
  BY <1>4, <1>5, <1>6, <1>7 DEF JobsKept

(* A module is compiled after the modules whose interfaces it reads, and   *)
(* before those that read its own interface are done.                      *)
LEMMA CompileSucceeds ==
    ASSUME PackagesTypeOK, JobsKept, NEW j \in Runs("compile"), NEW m \in targets, j = Job("compile", m),
           Compiles(m, Dependency(m), interface),
           object' = [object EXCEPT ![m] = Compiled(m, Dependency(m), interface)],
           interface' = IF m # Entry
                        THEN [interface EXCEPT ![m] = Interface(m, Range(Dependency(m)), interface)]
                        ELSE interface,
           Succeed(j), UNCHANGED <<dependency, archive, information, executable>>
    PROVE  JobsKept'
<1>2. /\ j \in Jobs /\ m \in Units
      /\ \A i \in done \cup {j} : j \notin Upstream(i)
  BY RunningJobs DEF JobsKept
<1>3. /\ object' = [k \in Units |-> object'[k]]
      /\ interface' = [k \in Units |-> interface'[k]]
      /\ object'[m] = Compiled(m, Dependency(m), interface)
      /\ m # Entry => interface'[m] = Interface(m, Range(Dependency(m)), interface)
      /\ \A k \in Units \ {m} : object'[k] = object[k] /\ interface'[k] = interface[k]
      /\ interface'[Entry] = interface[Entry]
  BY <1>2, Kinds DEF JobsKept, BuildTypeOK
<1>4. BuildTypeOK'
  BY <1>2, <1>3, SucceedStays DEF JobsKept, BuildTypeOK
<1>5. PackagesStay'
  <2>1. \A k \in Libraries : record'[Job("resolve", k)] = record[Job("resolve", k)]
    BY <1>2, OtherRecordsStay, JobsAreApart, Kinds DEF JobsKept
  <2>2. Source(m) # Absent
    BY DEF Compiles
  <2> QED
    BY <1>2, <1>3, <2>1, <2>2, SucceedStays, Kinds DEF JobsKept, PackagesStay
<1>6. RecordsAreTrue'
  <2>1. \A k \in Units \ {m} : record'[Job("compile", k)] = record[Job("compile", k)]
    BY <1>2, OtherRecordsStay, JobsAreApart DEF JobsKept
  <2>2. /\ \A a \in {"main", "test"} : record'[Job("archive", a)] = record[Job("archive", a)]
        /\ record'[Job("information", "test")] = record[Job("information", "test")]
        /\ \A c \in {"build", "test"} : record'[Job("link", c)] = record[Job("link", c)]
    BY <1>2, OtherRecordsStay, JobsAreApart DEF JobsKept
  <2>3. \A k \in Units \ {m} : \A read : CompiledFrom(k, read)' <=> CompiledFrom(k, read)
    BY <1>3 DEF CompiledFrom
  <2>4. ASSUME NEW read, read = Reads(j) PROVE CompiledFrom(m, read)'
    <3> DEFINE found == Dependency(m)
    <3>1. /\ read.source = Source(m) /\ read.dependency = dependency[m]
          /\ read.interfaces = [n \in Beside(m) |-> interface[n]]
      BY <2>4, ReadsAre
    <3>2. found = IF m = Prelude THEN <<>> ELSE read.dependency
      BY <3>1 DEF Dependency
    <3>3. Source(m) # Absent /\ found # Absent
      BY DEF Compiles
    <3>4. Beside(m) = Range(found) \cup Contexts(m)
      BY <3>3 DEF Beside, Imported
    <3>5. \A n \in DOMAIN read.interfaces : read.interfaces[n] # Absent
      BY <3>1, <3>4 DEF Compiles
    <3>6. \A path \in DOMAIN read.source.imports :
            /\ path \in DOMAIN found
            /\ read.interfaces[found[path]].name = read.source.imports[path]
      <4>1. \A path \in DOMAIN found : found[path] \in Beside(m)
        BY <3>4 DEF Range
      <4> QED
        BY <3>1, <4>1 DEF Compiles
    <3>7. object'[m] = [source |-> read.source, uses |-> found, interfaces |-> read.interfaces]
      BY <1>3, <3>1, <3>4 DEF Compiled
    <3>8. m # Entry => interface'[m] =
            [name |-> read.source.name,
             types |-> {<<m, read.source.name>>}
                        \cup UNION {read.interfaces[n].types : n \in Range(found)}]
      <4>1. {read.interfaces[n].types : n \in Range(found)} = {interface[n].types : n \in Range(found)}
        BY <3>1, <3>4
      <4> QED
        BY <1>3, <3>1, <4>1 DEF Interface
    <3> HIDE DEF found
    <3> QED
      BY <3>1, <3>2, <3>3, <3>5, <3>6, <3>7, <3>8 DEF CompiledFrom
  <2>5. ASSUME NEW k \in Units, NEW read \in record'[Job("compile", k)]
        PROVE  CompiledFrom(k, read)'
    <3>1. CASE k = m
      <4>1. record'[j] = {Reads(j)}
        BY <1>2, SucceedStays DEF JobsKept
      <4>2. read = Reads(j)
        BY <2>5, <3>1, <4>1
      <4> QED
        BY <2>4, <3>1, <4>2
    <3>2. CASE k # m
      <4>1. read \in record[Job("compile", k)]
        BY <2>1, <2>5, <3>2
      <4>2. CompiledFrom(k, read)
        BY <4>1 DEF JobsKept, RecordsAreTrue
      <4> QED
        BY <2>3, <3>2, <4>2
    <3> QED
      BY <3>1, <3>2
  <2> QED
    BY <2>2, <2>5 DEF JobsKept, RecordsAreTrue
<1>7. JobsInOrder'
  <2>1. ASSUME NEW i \in done \cup {j}, NEW k \in Units, i = Job("compile", k), NEW n \in Beside(k)
        PROVE  interface'[n] = interface[n]
    <3>1. Job("compile", n) \in Upstream(i)
      BY <2>1, UpstreamIs DEF ModuleUpstream
    <3>2. n # m /\ n \in Units
      BY <1>2, <3>1, BesideAre DEF JobsKept
    <3> QED
      BY <1>3, <3>2
  <2>2. ASSUME NEW i \in done \cup {j}, NEW a \in {"main", "test"}, i = Job("archive", a),
               NEW n \in Archived(a)
        PROVE  object'[n] = object[n]
    <3>1. Job("compile", n) \in Upstream(i)
      BY <2>2, UpstreamIs
    <3>2. n # m /\ n \in Units
      BY <1>2, <2>2, <3>1, RunningJobs DEF JobsKept, Archived
    <3> QED
      BY <1>3, <3>2
  <2>3. ASSUME NEW i \in done \cup {j}, i = Job("information", "test"), NEW n \in Archived("test")
        PROVE  interface'[n] = interface[n]
    <3>1. Job("compile", n) \in Upstream(i)
      BY <2>3, UpstreamIs
    <3>2. n # m /\ n \in Units
      BY <1>2, <2>3, <3>1, RunningJobs DEF JobsKept, Archived
    <3> QED
      BY <1>3, <3>2
  <2>4. ASSUME NEW i \in done \cup {j}, NEW c \in {"build", "test"}, i = Job("link", c),
               NEW n \in targets \ Own
        PROVE  object'[n] = object[n]
    <3>1. Job("compile", n) \in Upstream(i)
      BY <2>4, UpstreamIs DEF TestUpstream, ApplicationUpstream
    <3>2. n # m /\ n \in Units
      BY <1>2, <3>1, RunningJobs DEF JobsKept
    <3> QED
      BY <1>3, <3>2
  <2> QED
    BY <2>1, <2>2, <2>3, <2>4, SucceedOrder DEF JobsKept
<1> QED
  BY <1>4, <1>5, <1>6, <1>7 DEF JobsKept

(* An archive is made before it is linked, and has the modules that it has *)
(* been made of.                                                           *)
LEMMA ArchiveSucceeds ==
    ASSUME JobsKept, NEW j \in Runs("archive"), NEW a \in {"main", "test"}, j = Job("archive", a),
           archive' = [archive EXCEPT ![a] =
                [m \in DOMAIN @ \cup Archived(a) |-> IF m \in Archived(a) THEN object[m] ELSE @[m]]],
           Succeed(j), UNCHANGED <<dependency, interface, object, information, executable>>
    PROVE  JobsKept'
<1>1. /\ j \in Jobs /\ targets \subseteq Units
      /\ \A i \in done \cup {j} : j \notin Upstream(i)
  BY RunningJobs DEF JobsKept
<1> DEFINE members == [m \in DOMAIN archive[a] \cup Archived(a) |->
                          IF m \in Archived(a) THEN object[m] ELSE archive[a][m]]
<1>2. /\ archive' = [b \in {"main", "test"} |-> archive'[b]]
      /\ archive'[a] = members
      /\ \A b \in {"main", "test"} \ {a} : archive'[b] = archive[b]
  BY DEF JobsKept, BuildTypeOK
<1>3. BuildTypeOK'
  <2>1. UNCHANGED <<needs, project, configuration, command, outcome, step>>
        /\ record' = [k \in Jobs |-> record'[k]]
    BY <1>1, SucceedStays DEF JobsKept
  <2> QED
    BY <1>2, <2>1 DEF JobsKept, BuildTypeOK
<1>4. PackagesStay'
  <2>1. \A k \in Libraries : record'[Job("resolve", k)] = record[Job("resolve", k)]
    BY <1>1, OtherRecordsStay, JobsAreApart, Kinds DEF JobsKept
  <2> QED
    BY <1>1, <2>1, SucceedStays, Kinds DEF JobsKept, PackagesStay
<1>5. RecordsAreTrue'
  <2>1. /\ \A k \in Units : record'[Job("compile", k)] = record[Job("compile", k)]
        /\ \A b \in {"main", "test"} \ {a} : record'[Job("archive", b)] = record[Job("archive", b)]
        /\ record'[Job("information", "test")] = record[Job("information", "test")]
        /\ \A c \in {"build", "test"} : record'[Job("link", c)] = record[Job("link", c)]
    BY <1>1, OtherRecordsStay, JobsAreApart DEF JobsKept
  <2>2. \A k, read : CompiledFrom(k, read)' <=> CompiledFrom(k, read)
    BY DEF CompiledFrom
  <2>3. \A read \in record'[Job("archive", a)] :
            \A m \in DOMAIN read.objects :
                m \in DOMAIN archive'[a] /\ archive'[a][m] = read.objects[m]
    <3>1. record'[j] = {[objects |-> [m \in Archived(a) |-> object[m]]]}
      BY <1>1, SucceedStays, ReadsAre DEF JobsKept
    <3> QED
      BY <1>2, <3>1
  <2>4. /\ DOMAIN archive'["main"] \subseteq Modules \cup {Entry}
        /\ DOMAIN archive'["test"] \subseteq Tests
    <3>1. Archived("main") \subseteq Modules \cup {Entry} /\ Archived("test") \subseteq Tests
      BY DEF Archived
    <3>2. DOMAIN archive'[a] = DOMAIN archive[a] \cup Archived(a)
      BY <1>2
    <3> QED
      BY <1>2, <3>1, <3>2 DEF JobsKept, RecordsAreTrue
  <2>5. \A b \in {"main", "test"} : \A read \in record'[Job("archive", b)] :
            \A m \in DOMAIN read.objects :
                m \in DOMAIN archive'[b] /\ archive'[b][m] = read.objects[m]
    <3> TAKE b \in {"main", "test"}
    <3>1. CASE b = a
      BY <2>3, <3>1
    <3>2. CASE b # a
      BY <1>2, <2>1, <3>2 DEF JobsKept, RecordsAreTrue
    <3> QED
      BY <3>1, <3>2
  <2> QED
    BY <2>1, <2>2, <2>4, <2>5 DEF JobsKept, RecordsAreTrue
<1>6. JobsInOrder'
  <2>1. ASSUME NEW i \in done \cup {j}, NEW c \in {"build", "test"}, i = Job("link", c)
        PROVE  /\ archive'["main"] = archive["main"]
               /\ c = "test" => archive'["test"] = archive["test"]
    <3>1. Job("archive", "main") \in Upstream(i)
          /\ (c = "test" => Job("archive", "test") \in Upstream(i))
      BY <2>1, UpstreamIs DEF ApplicationUpstream, TestUpstream
    <3>2. a # "main" /\ (c = "test" => a # "test")
      BY <1>1, <3>1
    <3> QED
      BY <1>2, <3>2
  <2> QED
    BY <2>1, SucceedOrder DEF JobsKept
<1> QED
  BY <1>3, <1>4, <1>5, <1>6 DEF JobsKept

(* Test information is written before tests are linked.                    *)
LEMMA InformationSucceeds ==
    ASSUME JobsKept, NEW j \in Runs("information"), j = Job("information", "test"),
           information' = [m \in targets \cap Tests |-> interface[m]],
           Succeed(j), UNCHANGED <<dependency, interface, object, archive, executable>>
    PROVE  JobsKept'
<1>1. /\ j \in Jobs
      /\ \A i \in done \cup {j} : j \notin Upstream(i)
  BY RunningJobs DEF JobsKept
<1>3. BuildTypeOK'
  <2>1. UNCHANGED <<needs, project, configuration, command, outcome, step>>
        /\ record' = [k \in Jobs |-> record'[k]]
    BY <1>1, SucceedStays DEF JobsKept
  <2> QED
    BY <2>1 DEF JobsKept, BuildTypeOK
<1>4. PackagesStay'
  <2>1. \A k \in Libraries : record'[Job("resolve", k)] = record[Job("resolve", k)]
    BY <1>1, OtherRecordsStay, JobsAreApart, Kinds DEF JobsKept
  <2> QED
    BY <1>1, <2>1, SucceedStays, Kinds DEF JobsKept, PackagesStay
<1>5. RecordsAreTrue'
  <2>1. /\ \A k \in Units : record'[Job("compile", k)] = record[Job("compile", k)]
        /\ \A b \in {"main", "test"} : record'[Job("archive", b)] = record[Job("archive", b)]
        /\ \A c \in {"build", "test"} : record'[Job("link", c)] = record[Job("link", c)]
    BY <1>1, OtherRecordsStay, JobsAreApart DEF JobsKept
  <2>2. \A k, read : CompiledFrom(k, read)' <=> CompiledFrom(k, read)
    BY DEF CompiledFrom
  <2>3. record'[Job("information", "test")] = {[files |-> [m \in targets \cap Tests |-> interface[m]]]}
    BY <1>1, SucceedStays, ReadsAre DEF JobsKept
  <2> QED
    BY <2>1, <2>2, <2>3 DEF JobsKept, RecordsAreTrue
<1>6. JobsInOrder'
  <2>1. ASSUME NEW i \in done \cup {j} PROVE i # Job("link", "test")
    <3>1. j \in Upstream(Job("link", "test"))
      BY UpstreamIs DEF TestUpstream
    <3> QED
      BY <1>1, <3>1
  <2> QED
    BY <2>1, SucceedOrder DEF JobsKept
<1> QED
  BY <1>3, <1>4, <1>5, <1>6 DEF JobsKept

(* What is linked is what the archives have.                               *)
LEMMA LinkSucceeds ==
    ASSUME JobsKept, NEW j \in Runs("link"), NEW c \in {"build", "test"}, j = Job("link", c),
           executable' = [executable EXCEPT ![c] =
                Program(c, Members(c, targets), Information(c))],
           Succeed(j), UNCHANGED <<dependency, interface, object, archive, information>>
    PROVE  JobsKept'
<1>1. j \in Jobs
  BY RunningJobs DEF JobsKept
<1>2. /\ executable' = [b \in {"build", "test"} |-> executable'[b]]
      /\ executable'[c] = Program(c, Members(c, targets), Information(c))
      /\ \A b \in {"build", "test"} \ {c} : executable'[b] = executable[b]
  BY DEF JobsKept, BuildTypeOK
<1>3. BuildTypeOK'
  <2>1. UNCHANGED <<needs, project, configuration, command, outcome, step>>
        /\ record' = [k \in Jobs |-> record'[k]]
    BY <1>1, SucceedStays DEF JobsKept
  <2> QED
    BY <1>2, <2>1 DEF JobsKept, BuildTypeOK
<1>4. PackagesStay'
  <2>1. \A k \in Libraries : record'[Job("resolve", k)] = record[Job("resolve", k)]
    BY <1>1, OtherRecordsStay, JobsAreApart, Kinds DEF JobsKept
  <2> QED
    BY <1>1, <2>1, SucceedStays, Kinds DEF JobsKept, PackagesStay
<1>5. RecordsAreTrue'
  <2>1. /\ \A k \in Units : record'[Job("compile", k)] = record[Job("compile", k)]
        /\ \A b \in {"main", "test"} : record'[Job("archive", b)] = record[Job("archive", b)]
        /\ record'[Job("information", "test")] = record[Job("information", "test")]
        /\ \A b \in {"build", "test"} \ {c} : record'[Job("link", b)] = record[Job("link", b)]
    BY <1>1, OtherRecordsStay, JobsAreApart DEF JobsKept
  <2>2. \A k, read : CompiledFrom(k, read)' <=> CompiledFrom(k, read)
    BY DEF CompiledFrom
  <2>3. record'[Job("link", c)] =
            {[order |-> linked, members |-> Members(c, targets), tests |-> Information(c)]}
    BY <1>1, SucceedStays, ReadsAre DEF JobsKept
  <2>4. \A b \in {"build", "test"} : \A read \in record'[Job("link", b)] :
            executable'[b] = Program(b, read.members, read.tests)
    <3> TAKE b \in {"build", "test"}
    <3>1. CASE b = c
      BY <1>2, <2>3, <3>1
    <3>2. CASE b # c
      BY <1>2, <2>1, <3>2 DEF JobsKept, RecordsAreTrue
    <3> QED
      BY <3>1, <3>2
  <2> QED
    BY <2>1, <2>2, <2>4 DEF JobsKept, RecordsAreTrue
<1>6. JobsInOrder'
  BY SucceedOrder DEF JobsKept
<1> QED
  BY <1>3, <1>4, <1>5, <1>6 DEF JobsKept

(* A build that ends leaves the files to the next one, of those the ones   *)
(* without a record in any state.                                          *)
LEMMA EndedBuild ==
    ASSUME JobsKept, PackagesTypeOK, PackagesTypeOK',
           step' = "idle", targets' = {}, done' = {},
           UNCHANGED <<needs, directory, project, text, configuration, command, dependency, interface,
                       archive, information, executable>>,
           \/ UNCHANGED <<object, record>>
           \/ \E j \in Jobs : record' = [record EXCEPT ![j] = {}] /\ UNCHANGED object
           \/ \E m \in Units : \E new :
                /\ object' = [object EXCEPT ![m] = new]
                /\ record' = [record EXCEPT ![Job("compile", m)] = {}]
    PROVE  JobsKept'
<1>1. /\ \A m : Source(m)' = Source(m)
      /\ \A m : Resolution(m)' = Resolution(m)
  BY SourcesStay
<1>2. /\ record' = [k \in Jobs |-> record'[k]] /\ object' = [m \in Units |-> object'[m]]
      /\ \A k \in Jobs : record'[k] = record[k] \/ record'[k] = {}
      /\ \A m \in Units : object'[m] = object[m] \/ record'[Job("compile", m)] = {}
  <2>1. record = [k \in Jobs |-> record[k]] /\ object = [m \in Units |-> object[m]]
    BY DEF JobsKept, BuildTypeOK
  <2> QED
    BY <2>1, JobsAre
<1>3. BuildTypeOK'
  BY <1>2 DEF JobsKept, BuildTypeOK
<1>4. PackagesStay'
  <2>1. \A m \in Libraries : Job("resolve", m) \in Jobs
    BY JobsAre, Kinds
  <2> QED
    BY <1>1, <1>2, <2>1 DEF JobsKept, PackagesStay
<1>5. RecordsAreTrue'
  <2>1. ASSUME NEW m \in Units, NEW read \in record'[Job("compile", m)]
        PROVE  CompiledFrom(m, read)'
    <3>1. read \in record[Job("compile", m)] /\ object'[m] = object[m]
      BY <1>2, <2>1, JobsAre
    <3>2. CompiledFrom(m, read)
      BY <3>1 DEF JobsKept, RecordsAreTrue
    <3> QED
      BY <3>1, <3>2 DEF CompiledFrom
  <2>2. /\ \A a \in {"main", "test"} : record'[Job("archive", a)] \subseteq record[Job("archive", a)]
        /\ record'[Job("information", "test")] \subseteq record[Job("information", "test")]
        /\ \A c \in {"build", "test"} : record'[Job("link", c)] \subseteq record[Job("link", c)]
    BY <1>2, JobsAre
  <2> QED
    BY <2>1, <2>2 DEF JobsKept, RecordsAreTrue
<1>6. JobsInOrder'
  BY DEF JobsInOrder
<1> QED
  BY <1>3, <1>4, <1>5, <1>6 DEF JobsKept

----------------------------------------------------------------------------
(* What a build leaves to the next one.                                    *)

(* Files that a build finds stay what they are, as packages stay.          *)
LEMMA FilesStay ==
    ASSUME PackagesTypeOK, PackagesStay, RecordsAreTrue, UNCHANGED files, project' = project,
           \A p \in Libraries \cup {Prelude} : directory[p] = "whole" => directory'[p] = "whole",
           \A p \in Libraries : needs'[p] = needs[p]
    PROVE  PackagesStay' /\ RecordsAreTrue'
<1>1. UNCHANGED <<dependency, interface, object, archive, information, executable, record>>
  BY DEF files
<1>2. ASSUME NEW m \in Libraries \cup {Prelude}, Source(m) # Absent
      PROVE  Source(m)' = Source(m)
  BY <1>2, Kinds DEF Source
<1>3. ASSUME NEW m \in Libraries, Resolution(m) # Absent
      PROVE  Resolution(m)' = Resolution(m)
  <2> DEFINE paths == DOMAIN Source(m).imports
             found == [path \in paths |-> Resolved(m, path)]
  <2>1. /\ Source(m) # Absent /\ Resolution(m) = found
        /\ \A path \in paths : found[path] # "PackageNotFound" /\ Source(found[path]) # Absent
    BY <1>3 DEF Resolution
  <2>2. m \notin Own
    BY Kinds
  <2>3. \A path : Resolved(m, path)' = Resolved(m, path)
    BY <2>2 DEF Resolved
  <2>4. ASSUME NEW path \in paths
        PROVE  /\ Resolved(m, path) = path /\ path # "PackageNotFound"
               /\ Source(path) # Absent /\ path \in Libraries
    <3>1. Resolved(m, path) # "PackageNotFound" /\ Source(Resolved(m, path)) # Absent
      BY <2>1
    <3>2. Resolved(m, path) = path /\ path \in needs[m]
      BY <2>2, <3>1 DEF Resolved
    <3> QED
      BY <3>1, <3>2 DEF PackagesTypeOK
  <2>5. Source(m)' = Source(m)
    BY <1>2, <2>1
  <2>6. \A path \in paths : Source(path)' = Source(path)
    BY <1>2, <2>4
  <2>7. found = [path \in paths |-> path]
    BY <2>4
  <2>8. [path \in DOMAIN Source(m)'.imports |-> Resolved(m, path)'] = found
    BY <2>3, <2>5
  <2>9. Resolution(m)' = [path \in DOMAIN Source(m)'.imports |-> Resolved(m, path)']
    <3>1. \A path \in DOMAIN Source(m)'.imports :
              Resolved(m, path)' = path /\ path # "PackageNotFound" /\ Source(path)' # Absent
      BY <2>3, <2>4, <2>5, <2>6
    <3> QED
      BY <2>1, <2>5, <3>1 DEF Resolution, Source
  <2> QED
    BY <2>1, <2>8, <2>9
<1>4. PackagesStay'
  BY <1>1, <1>2, <1>3 DEF PackagesStay
<1>5. RecordsAreTrue'
  <2>1. \A m, read : CompiledFrom(m, read)' <=> CompiledFrom(m, read)
    BY <1>1 DEF CompiledFrom
  <2> QED
    BY <1>1, <2>1 DEF RecordsAreTrue
<1> QED
  BY <1>4, <1>5

(* What a build has completed stays complete as long as nothing happens.   *)
LEMMA CompleteStays ==
    ASSUME NEW modules, Complete(modules), UNCHANGED files,
           UNCHANGED <<needs, directory, script, project, text, configuration, command>>
    PROVE  Complete(modules)'
<1>1. UNCHANGED <<dependency, interface, object, archive, information, executable, record>>
  BY DEF files
<1>2. /\ \A m : Source(m)' = Source(m)
      /\ \A m : Contexts(m)' = Contexts(m)
      /\ \A m : Resolution(m)' = Resolution(m)
  BY SourcesStay
<1>3. /\ \A m : Dependency(m)' = Dependency(m)
      /\ \A m : Beside(m)' = Beside(m)
  BY <1>1, <1>2 DEF Dependency, Beside, Imported
<1>4. /\ \A m : Compiles(m, Dependency(m), interface)' <=> Compiles(m, Dependency(m), interface)
      /\ \A m : Compiled(m, Dependency(m), interface)' = Compiled(m, Dependency(m), interface)
      /\ \A m : Interface(m, Range(Dependency(m)), interface)' = Interface(m, Range(Dependency(m)), interface)
  BY <1>1, <1>2, <1>3 DEF Compiles, Compiled, Interface
<1>5. ScriptsFail' <=> ScriptsFail
  BY DEF ScriptsFail, SystemKeys
<1>6. Ordered(modules)' <=> Ordered(modules)
  BY <1>3 DEF Ordered
<1>7. Members(command, modules)' = Members(command, modules)
      /\ Information(command)' = Information(command)
  BY <1>1 DEF Members, Information
<1>8. Program(command, Members(command, modules), Information(command))'
          = Program(command, Members(command, modules), Information(command))
  BY <1>7
<1>9. External' = External /\ \A p : ScriptFits(p)' <=> ScriptFits(p)
  BY DEF External, DependenciesOf, IsClosed, ScriptFits
<1> QED
  BY <1>1, <1>2, <1>3, <1>4, <1>5, <1>6, <1>8, <1>9 DEF Complete

----------------------------------------------------------------------------
(* A build that is done.                                                   *)

(* A module whose record is of what it would read now is compiled from     *)
(* what is there now.                                                      *)
LEMMA CompiledAsRead ==
    ASSUME NEW m, CompiledFrom(m, Reads(Job("compile", m)))
    PROVE  /\ Compiles(m, Dependency(m), interface)
           /\ object[m] = Compiled(m, Dependency(m), interface)
           /\ m # Entry => interface[m] = Interface(m, Range(Dependency(m)), interface)
<1> DEFINE found == Dependency(m)
           read == [source |-> Source(m), dependency |-> dependency[m],
                    interfaces |-> [n \in Beside(m) |-> interface[n]]]
<1>1. CompiledFrom(m, read) /\ found = (IF m = Prelude THEN <<>> ELSE read.dependency)
  BY ReadsAre DEF Dependency
<1>2. /\ Source(m) # Absent /\ found # Absent
      /\ \A n \in Beside(m) : interface[n] # Absent
      /\ \A path \in DOMAIN Source(m).imports :
            /\ path \in DOMAIN found
            /\ read.interfaces[found[path]].name = Source(m).imports[path]
      /\ object[m] = [source |-> Source(m), uses |-> found, interfaces |-> read.interfaces]
      /\ m # Entry => interface[m] =
            [name |-> Source(m).name,
             types |-> {<<m, Source(m).name>>}
                        \cup UNION {read.interfaces[n].types : n \in Range(found)}]
  BY <1>1 DEF CompiledFrom
<1>3. Beside(m) = Range(found) \cup Contexts(m)
  BY <1>2 DEF Beside, Imported
<1>4. \A n \in Range(found) \cup Contexts(m) : read.interfaces[n] = interface[n]
  BY <1>3
<1>5. \A path \in DOMAIN found : found[path] \in Range(found)
  BY DEF Range
<1>6. Compiles(m, found, interface)
  BY <1>2, <1>3, <1>4, <1>5 DEF Compiles
<1>7. object[m] = Compiled(m, found, interface)
  BY <1>2, <1>3 DEF Compiled
<1>8. UNION {read.interfaces[n].types : n \in Range(found)} = UNION {interface[n].types : n \in Range(found)}
  BY <1>4
<1>9. m # Entry => interface[m] = Interface(m, Range(found), interface)
  BY <1>2, <1>8 DEF Interface
<1> QED
  BY <1>6, <1>7, <1>9

(* A build that has done everything without an edit is complete.           *)
LEMMA DoneIsComplete ==
    ASSUME PackagesInductive, JobsKept, step = "run", done = ScriptJobs, ~edited
    PROVE  Complete(Targets(command))
<1>1. /\ targets = Targets(command) /\ ~ScriptsFail /\ targets \subseteq Units
      /\ \A j \in ScriptJobs : Reads(j) \in record[j]
      /\ Ordered({m \in Units : Job("compile", m) \in ScriptJobs})
  BY DEF JobsKept, JobsInOrder, IsUpToDate
<1>2. command \in {"build", "test"}
  BY DEF JobsKept, BuildTypeOK
<1>3. \A m \in targets : /\ Job("compile", m) \in ScriptJobs
                         /\ m # Prelude => Job("resolve", m) \in ScriptJobs
  <2> TAKE m \in targets
  <2>1. m \in Modules \cup {Entry} \cup Libraries \cup {Prelude} \/ (command = "test" /\ m \in Tests)
    BY <1>1, TargetsAre, Kinds
  <2> QED
    BY <1>1, <2>1, ScriptJobsAre
<1>4. Ordered(targets)
  <2>1. targets \subseteq {m \in Units : Job("compile", m) \in ScriptJobs}
    BY <1>1, <1>3
  <2> QED
    BY <1>1, <2>1 DEF Ordered
<1>5. ASSUME NEW m \in targets
      PROVE  /\ Compiles(m, Dependency(m), interface)
             /\ object[m] = Compiled(m, Dependency(m), interface)
             /\ m # Entry => interface[m] = Interface(m, Range(Dependency(m)), interface)
             /\ m \in Own => [source |-> Source(m)] \in record[Job("resolve", m)]
             /\ m \in Libraries => dependency[m] = Resolution(m)
  <2>1. CompiledFrom(m, Reads(Job("compile", m)))
    BY <1>1, <1>3 DEF JobsKept, RecordsAreTrue
  <2>2. m # Prelude => [source |-> Source(m)] \in record[Job("resolve", m)]
    <3>1. Reads(Job("resolve", m)) = [source |-> Source(m)]
      BY ReadsAre
    <3> QED
      BY <1>1, <1>3, <3>1
  <2>3. m \in Libraries => dependency[m] = Resolution(m)
    BY <2>2, Kinds DEF JobsKept, PackagesStay
  <2> QED
    BY <2>1, <2>2, <2>3, CompiledAsRead, Kinds
<1>6. ASSUME NEW a \in {"main", "test"}, Job("archive", a) \in ScriptJobs, NEW m \in Archived(a)
      PROVE  m \in DOMAIN archive[a] /\ archive[a][m] = object[m]
  <2>1. [objects |-> [n \in Archived(a) |-> object[n]]] \in record[Job("archive", a)]
    BY <1>1, <1>6, ReadsAre
  <2> DEFINE read == [objects |-> [n \in Archived(a) |-> object[n]]]
  <2>2. \A n \in DOMAIN read.objects : n \in DOMAIN archive[a] /\ archive[a][n] = read.objects[n]
    BY <2>1 DEF JobsKept, RecordsAreTrue
  <2> QED
    BY <2>2
<1>7. /\ Job("archive", "main") \in ScriptJobs
      /\ command = "test" => /\ Job("archive", "test") \in ScriptJobs
                             /\ Job("information", "test") \in ScriptJobs
                             /\ Job("link", "test") \in ScriptJobs
      /\ command = "build" /\ project.application => Job("link", "build") \in ScriptJobs
  BY <1>1, ScriptJobsAre
<1>8. Archived("main") = targets \cap (Modules \cup {Entry}) /\ Archived("test") = targets \cap Tests
  BY DEF Archived
<1>9. command = "test" => information = [m \in targets \cap Tests |-> interface[m]]
  <2> SUFFICES ASSUME command = "test"
               PROVE  information = [m \in targets \cap Tests |-> interface[m]]
    OBVIOUS
  <2>1. [files |-> [m \in targets \cap Tests |-> interface[m]]] \in record[Job("information", "test")]
    BY <1>1, <1>7, ReadsAre
  <2>2. information = [files |-> [m \in targets \cap Tests |-> interface[m]]].files
    BY <2>1 DEF JobsKept, RecordsAreTrue
  <2> QED
    BY <2>2
<1>10. command = "test" \/ project.application =>
            executable[command] = Program(command, Members(command, targets), Information(command))
  <2> SUFFICES ASSUME command = "test" \/ project.application
               PROVE  executable[command] = Program(command, Members(command, targets), Information(command))
    OBVIOUS
  <2>1. Job("link", command) \in ScriptJobs
    BY <1>2, <1>7
  <2> DEFINE read == [order |-> linked, members |-> Members(command, targets), tests |-> Information(command)]
  <2>2. read \in record[Job("link", command)]
    BY <1>1, <2>1, ReadsAre
  <2>3. executable[command] = Program(command, read.members, read.tests)
    BY <1>2, <2>2 DEF JobsKept, RecordsAreTrue
  <2> QED
    BY <2>3
<1>11. \A p \in External \cup {Prelude} : ScriptFits(p)
  BY InitializedScriptsFit DEF ScriptsFitPackages, ScriptFits
<1>12. /\ \A m \in targets \cap (Modules \cup {Entry}) :
             m \in DOMAIN archive["main"] /\ archive["main"][m] = object[m]
       /\ command = "test" => \A m \in targets \cap Tests :
             m \in DOMAIN archive["test"] /\ archive["test"][m] = object[m]
  BY <1>6, <1>7, <1>8
<1> QED
  BY <1>1, <1>4, <1>5, <1>9, <1>10, <1>11, <1>12 DEF Complete

----------------------------------------------------------------------------
(* Steps that end a build, or come before its scripts are run.             *)

(* Steps that have no success leave nothing to be complete.                *)
LEMMA NotYetComplete ==
    ASSUME outcome' # "success" \/ edited'
    PROVE  SuccessIsComplete'
  BY DEF SuccessIsComplete

(* A build that ends well is complete.                                     *)
LEMMA FinishKeeps ==
    ASSUME PackagesInductive, PackagesInductive', JobsKept, Finish
    PROVE  JobsKept' /\ SuccessIsComplete'
<1>1. /\ step = "run" /\ done = ScriptJobs
      /\ step' = "idle" /\ targets' = {} /\ done' = {}
      /\ UNCHANGED files
      /\ UNCHANGED <<needs, directory, script, project, text, configuration, command, edited>>
  BY DEF Finish, Leave, End, sources
<1>2. UNCHANGED <<dependency, interface, object, archive, information, executable, record>>
  BY <1>1 DEF files
<1>3. JobsKept'
  BY <1>1, <1>2, EndedBuild DEF PackagesInductive
<1>4. SuccessIsComplete'
  <2> SUFFICES ASSUME ~edited
               PROVE  \A modules \in {Targets(command)'} : Complete(modules)'
    BY <1>1 DEF SuccessIsComplete
  <2>1. Complete(Targets(command))
    BY <1>1, DoneIsComplete
  <2>2. PICK all : all = Targets(command)
    OBVIOUS
  <2>3. Targets(command)' = all
    <3>1. External' = External
      BY <1>1 DEF External, DependenciesOf, IsClosed
    <3>2. Targets(command)' = Targets(command)
      BY <1>1, <3>1 DEF Targets, ModuleTargets, TestModuleTargets, ExternalTargets
    <3> QED
      BY <2>2, <3>2
  <2>4. Complete(all)'
    BY <1>1, <2>1, <2>2, CompleteStays
  <2> QED
    BY <2>3, <2>4
<1> QED
  BY <1>3, <1>4

(* A job that fails has no record any more.                                *)
LEMMA FailKeeps ==
    ASSUME PackagesTypeOK, PackagesTypeOK', JobsKept, NEW j \in Jobs, Fail(j)
    PROVE  JobsKept' /\ SuccessIsComplete'
<1>1. /\ step' = "idle" /\ targets' = {} /\ done' = {} /\ outcome' = "failed"
      /\ UNCHANGED <<needs, directory, project, text, configuration, command>>
      /\ UNCHANGED <<dependency, interface, object, archive, information, executable>>
      /\ record' = [record EXCEPT ![j] = {}]
  BY DEF Fail, Leave, End, sources
<1>2. JobsKept'
  BY <1>1, EndedBuild
<1> QED
  BY <1>1, <1>2, NotYetComplete

(* A build whose jobs wait for each other ends as it is.                   *)
LEMMA CircleKeeps ==
    ASSUME PackagesTypeOK, PackagesTypeOK', JobsKept, Circle
    PROVE  JobsKept' /\ SuccessIsComplete'
<1>1. /\ step' = "idle" /\ targets' = {} /\ done' = {} /\ outcome' = "failed"
      /\ UNCHANGED <<needs, directory, project, text, configuration, command>>
      /\ UNCHANGED <<dependency, interface, object, archive, information, executable, record>>
  BY DEF Circle, Leave, End, sources, files
<1>2. JobsKept'
  BY <1>1, EndedBuild
<1> QED
  BY <1>1, <1>2, NotYetComplete

(* The module that is half compiled has no record any more.                *)
LEMMA KillKeeps ==
    ASSUME PackagesTypeOK, PackagesTypeOK', JobsKept, Kill
    PROVE  JobsKept' /\ SuccessIsComplete'
<1>1. /\ step' = "idle" /\ targets' = {} /\ done' = {} /\ outcome' = "interrupted"
      /\ UNCHANGED <<needs, directory, project, text, configuration, command>>
  BY DEF Kill, Interrupt, End, sources
<1>2. CASE UNCHANGED files
  <2>1. UNCHANGED <<dependency, interface, object, archive, information, executable, record>>
    BY <1>2 DEF files
  <2>2. JobsKept'
    BY <1>1, <2>1, EndedBuild
  <2> QED
    BY <1>1, <2>2, NotYetComplete
<1>3. CASE \E j \in Runs("compile") :
            /\ object' = [object EXCEPT ![j.of] = Compiled(j.of, Dependency(j.of), interface)]
            /\ record' = [record EXCEPT ![j] = {}]
            /\ UNCHANGED <<dependency, interface, archive, information, executable>>
  <2>1. PICK j \in Runs("compile") :
            /\ object' = [object EXCEPT ![j.of] = Compiled(j.of, Dependency(j.of), interface)]
            /\ record' = [record EXCEPT ![j] = {}]
            /\ UNCHANGED <<dependency, interface, archive, information, executable>>
    BY <1>3
  <2>2. PICK m \in Units : j = Job("compile", m)
    <3>1. targets \subseteq Units /\ \E m \in targets : j = Job("compile", m)
      BY RunningJobs DEF JobsKept
    <3> QED
      BY <3>1
  <2>3. j.of = m
    BY <2>2 DEF Job
  <2>4. /\ object' = [object EXCEPT ![m] = Compiled(m, Dependency(m), interface)]
        /\ record' = [record EXCEPT ![Job("compile", m)] = {}]
        /\ UNCHANGED <<dependency, interface, archive, information, executable>>
    BY <2>1, <2>2, <2>3
  <2>5. \E n \in Units : \E new :
            /\ object' = [object EXCEPT ![n] = new]
            /\ record' = [record EXCEPT ![Job("compile", n)] = {}]
    BY <2>4
  <2>6. JobsKept'
    BY <1>1, <2>4, <2>5, EndedBuild
  <2> QED
    BY <1>1, <2>6, NotYetComplete
<1> QED
  BY <1>2, <1>3 DEF Kill

(* A step before the scripts are run.                                      *)
LEMMA StepsBefore ==
    ASSUME PackagesTypeOK, JobsKept, UNCHANGED files, project' = project, configuration' = configuration,
           \A p \in Libraries \cup {Prelude} : directory[p] = "whole" => directory'[p] = "whole",
           needs' = needs, step' # "run", done' = {}, command' \in {"build", "test"},
           step' # "idle" => outcome' = "none"
    PROVE  JobsKept'
<1>1. UNCHANGED <<dependency, interface, object, archive, information, executable, record>>
  BY DEF files
<1>2. BuildTypeOK'
  BY <1>1 DEF JobsKept, BuildTypeOK
<1>3. PackagesStay' /\ RecordsAreTrue'
  BY FilesStay DEF JobsKept
<1>4. JobsInOrder'
  BY DEF JobsInOrder
<1> QED
  BY <1>2, <1>3, <1>4 DEF JobsKept

(* A build starts with nothing done.                                       *)
LEMMA StartKeeps ==
    ASSUME PackagesTypeOK, JobsKept, Start
    PROVE  JobsKept' /\ SuccessIsComplete'
<1>1. /\ UNCHANGED files /\ project' = project /\ configuration' = configuration
      /\ directory' = directory /\ needs' = needs
      /\ step = "idle" /\ step' = "copy" /\ outcome' = "none" /\ done' = done
      /\ command' \in project.commands
  BY DEF Start, Build, Initialize, sources
<1>2. command' \in {"build", "test"}
  BY <1>1, ModuleBuildAssumption DEF JobsKept, BuildTypeOK
<1>3. done' = {}
  BY <1>1 DEF JobsKept, JobsInOrder
<1>4. JobsKept'
  BY <1>1, <1>2, <1>3, StepsBefore
<1> QED
  BY <1>1, <1>4, NotYetComplete

(* The initialization of packages writes no file that jobs write.          *)
LEMMA PrepareKeeps ==
    ASSUME PackagesTypeOK, JobsKept, Prepare
    PROVE  JobsKept' /\ SuccessIsComplete'
<1>1. /\ UNCHANGED files /\ project' = project /\ configuration' = configuration
      /\ done' = done /\ command' = command
  BY DEF Prepare, sources
<1>2. PackagesStep
  BY DEF Prepare
<1>3. /\ step \in {"copy", "compile", "read", "next"} /\ needs' = needs
      /\ step' \in {"idle", "copy", "compile", "read", "next", "order"}
  BY <1>2 DEF PackagesStep, SkipCopy, Copy, CopyFails, Compile, ReadDependencies, ReadFails,
              Overflow, NextDependency, Return, End, Initialize
<1>4. \/ step' = "idle" /\ outcome' \in {"failed", "interrupted", "overflow"}
      \/ outcome' = outcome /\ step' # "idle"
  BY <1>2 DEF PackagesStep, SkipCopy, Copy, CopyFails, Compile, ReadDependencies, ReadFails,
              Overflow, NextDependency, Return, End, Initialize
<1>5. \A p \in Libraries \cup {Prelude} : directory[p] = "whole" => directory'[p] = "whole"
  <2>1. \/ directory' = directory
        \/ directory[current] = "absent" /\ \E c \in Contents : directory' = [directory EXCEPT ![current] = c]
    BY <1>2 DEF PackagesStep, SkipCopy, Copy, CopyFails, Compile, ReadDependencies, ReadFails,
                Overflow, NextDependency, Return, End, Initialize, Contents
  <2> QED
    BY <2>1 DEF PackagesTypeOK, Packages
<1>6. outcome = "none"
  BY <1>3 DEF JobsKept, BuildTypeOK
<1>7. done' = {} /\ command' \in {"build", "test"}
  BY <1>1, <1>3 DEF JobsKept, BuildTypeOK, JobsInOrder
<1>8. JobsKept'
  BY <1>1, <1>3, <1>4, <1>5, <1>6, <1>7, StepsBefore
<1> QED
  BY <1>4, <1>6, <1>8, NotYetComplete

----------------------------------------------------------------------------
(* Steps of a build that runs its scripts, and edits.                      *)

(* The scripts are written for the modules that there are.                 *)
LEMMA WriteScriptsKeeps ==
    ASSUME PackagesTypeOK, JobsKept, WriteScripts
    PROVE  JobsKept' /\ SuccessIsComplete'
<1>1. /\ UNCHANGED files /\ UNCHANGED <<project, configuration, text, command, done, edited>>
      /\ step = "order" /\ UNCHANGED <<needs, directory, script>>
      /\ targets' = IF step' = "run" THEN Targets(command) ELSE {}
  BY DEF WriteScripts, Order, sources
<1>2. done' = {} /\ command' \in {"build", "test"} /\ outcome = "none"
  BY <1>1 DEF JobsKept, BuildTypeOK, JobsInOrder
<1>3. CASE step' # "run"
  <2>1. step' = "idle" /\ outcome' \in {"failed", "cycle"}
    BY <1>3 DEF WriteScripts, Order, End
  <2>2. JobsKept'
    BY <1>1, <1>2, <1>3, <2>1, StepsBefore
  <2> QED
    BY <2>1, <2>2, NotYetComplete
<1>4. CASE step' = "run"
  <2>1. ~ScriptsFail /\ outcome' = outcome
    BY <1>4 DEF WriteScripts, Order, End
  <2>2. UNCHANGED <<dependency, interface, object, archive, information, executable, record>>
    BY <1>1 DEF files
  <2>3. BuildTypeOK'
    BY <1>1, <1>2, <2>1, <2>2 DEF JobsKept, BuildTypeOK
  <2>4. PackagesStay' /\ RecordsAreTrue'
    BY <1>1, FilesStay DEF JobsKept
  <2>5. JobsInOrder'
    <3>1. ScriptsFail' <=> ScriptsFail
      BY <1>1 DEF ScriptsFail, SystemKeys
    <3>2. targets' = Targets(command)'
      <4>1. External' = External
        BY <1>1 DEF External, DependenciesOf, IsClosed
      <4>2. Targets(command)' = Targets(command)
        BY <1>1, <4>1 DEF Targets, ModuleTargets, TestModuleTargets, ExternalTargets
      <4> QED
        BY <1>1, <1>4, <4>2
    <3>3. targets' \subseteq Units
      BY <1>1, <1>4, TargetsAre
    <3>4. Ordered({m \in Units : Job("compile", m) \in done})'
      BY <1>2 DEF Ordered
    <3> QED
      BY <1>2, <1>4, <2>1, <3>1, <3>2, <3>3, <3>4 DEF JobsInOrder
  <2>6. outcome' # "success"
    BY <1>2, <2>1
  <2> QED
    BY <2>3, <2>4, <2>5, <2>6, NotYetComplete DEF JobsKept
<1> QED
  BY <1>3, <1>4

(* A job that is up to date leaves its files.                              *)
LEMMA SkipKeeps ==
    ASSUME PackagesTypeOK, JobsKept, Skip
    PROVE  JobsKept' /\ SuccessIsComplete'
<1>1. /\ UNCHANGED files /\ UNCHANGED <<project, configuration, command, outcome, needs, directory, step>>
      /\ step = "run"
  BY DEF Skip, sources, packages
<1>2. UNCHANGED <<dependency, interface, object, archive, information, executable, record>>
  BY <1>1 DEF files
<1>3. BuildTypeOK'
  BY <1>1, <1>2 DEF JobsKept, BuildTypeOK
<1>4. PackagesStay' /\ RecordsAreTrue'
  BY <1>1, FilesStay DEF JobsKept
<1>5. JobsInOrder'
  BY SkipOrder DEF JobsKept
<1>6. outcome' # "success"
  BY <1>1 DEF JobsKept, BuildTypeOK
<1> QED
  BY <1>3, <1>4, <1>5, <1>6, NotYetComplete DEF JobsKept

(* No file that has been written changes by an edit of sources.            *)
LEMMA EditTextKeeps ==
    ASSUME PackagesTypeOK, JobsKept, EditText
    PROVE  JobsKept' /\ SuccessIsComplete'
<1>1. /\ UNCHANGED files /\ UNCHANGED packages
      /\ UNCHANGED <<project, configuration, command, targets, done>>
      /\ edited'
  BY DEF EditText
<1>2. /\ UNCHANGED <<dependency, interface, object, archive, information, executable, record>>
      /\ UNCHANGED <<needs, directory, script, step, outcome>>
  BY <1>1 DEF files, packages
<1>3. BuildTypeOK'
  BY <1>1, <1>2 DEF JobsKept, BuildTypeOK
<1>4. PackagesStay' /\ RecordsAreTrue'
  BY <1>1, <1>2, FilesStay DEF JobsKept
<1>5. JobsInOrder'
  <2>1. ScriptJobs' = ScriptJobs
    BY <1>1, ScriptsStay
  <2>2. \A m : Beside(m)' = Beside(m)
    BY <1>1, <1>2 DEF Beside, Contexts, Imported, Dependency, SystemPackages, SystemKeys
  <2>3. \A j : Upstream(j)' = Upstream(j)
    BY <1>1, <1>2, <2>2, ScriptsStay DEF Upstream, ModuleUpstream
  <2>4. Ordered({m \in Units : Job("compile", m) \in done})' <=>
            Ordered({m \in Units : Job("compile", m) \in done})
    BY <1>1, <2>2 DEF Ordered
  <2> QED
    BY <1>1, <1>2, <2>1, <2>3, <2>4 DEF JobsKept, JobsInOrder
<1> QED
  BY <1>1, <1>3, <1>4, <1>5, NotYetComplete DEF JobsKept

(* No file that has been written changes by an edit of the configuration,  *)
(* and records are compared with sources when the next build runs.         *)
LEMMA EditConfigurationKeepsJobs ==
    ASSUME PackagesTypeOK, JobsKept, EditConfiguration
    PROVE  JobsKept' /\ SuccessIsComplete'
<1>1. /\ UNCHANGED files /\ UNCHANGED <<directory, step, outcome, project, command, done>>
      /\ step = "idle" /\ edited'
      /\ needs' = [needs EXCEPT ![Main] = Range(configuration')]
  BY DEF EditConfiguration
<1>2. UNCHANGED <<dependency, interface, object, archive, information, executable, record>>
  BY <1>1 DEF files
<1>3. needs'[Main] = Range(configuration') /\ \A p \in Libraries : needs'[p] = needs[p]
  BY <1>1, Kinds DEF PackagesTypeOK
<1>4. BuildTypeOK'
  BY <1>1, <1>2, <1>3 DEF JobsKept, BuildTypeOK
<1>5. PackagesStay' /\ RecordsAreTrue'
  BY <1>1, <1>3, FilesStay DEF JobsKept
<1>6. JobsInOrder'
  BY <1>1 DEF JobsKept, JobsInOrder
<1> QED
  BY <1>1, <1>4, <1>5, <1>6, NotYetComplete DEF JobsKept

(* A job that succeeds leaves the build running.                           *)
LEMMA RunningIsNotComplete ==
    ASSUME JobsKept, NEW kind, NEW j \in Runs(kind), Succeed(j)
    PROVE  SuccessIsComplete'
<1>1. outcome' = outcome /\ outcome = "none"
  BY RunsAre DEF Succeed, packages, JobsKept, BuildTypeOK
<1> QED
  BY <1>1, NotYetComplete

(* Every step of a dependency resolution keeps the invariant.              *)
LEMMA ResolveKeeps ==
    ASSUME PackagesTypeOK, PackagesTypeOK', JobsKept, Resolve
    PROVE  JobsKept' /\ SuccessIsComplete'
<1>1. PICK j \in Runs("resolve") :
         \/ Fail(j)
         \/ /\ Resolution(j.of) # Absent
            /\ dependency' = [dependency EXCEPT ![j.of] = Resolution(j.of)]
            /\ Succeed(j)
            /\ UNCHANGED <<interface, object, archive, information, executable>>
  BY DEF Resolve
<1>2. j \in Jobs
  BY RunningJobs DEF JobsKept
<1> QED
  BY <1>1, <1>2, FailKeeps, ResolveSucceeds, RunningIsNotComplete

(* The commands that compile modules differ in what they write.            *)
LEMMA CompilationsAre ==
    ASSUME JobsKept, CompileModule \/ CompileMain \/ CompileTest \/ CompilePrelude
    PROVE  \E j \in Runs("compile"), m \in targets :
              j = Job("compile", m) /\ CompileTo(j, Dependency(m), m # Entry)
<1>1. \A j \in Runs("compile") : \E m \in targets : j = Job("compile", m) /\ j.of = m
  <2> TAKE j \in Runs("compile")
  <2>1. \E m \in targets : j = Job("compile", m)
    BY RunningJobs DEF JobsKept
  <2> QED
    BY <2>1 DEF Job
<1>2. ASSUME NEW j \in Runs("compile"), NEW m, j.of = m,
             \/ m \in Modules \cup Libraries /\ CompileTo(j, dependency[m], TRUE)
             \/ m = Entry /\ CompileTo(j, dependency[Entry], FALSE)
             \/ m \in Tests /\ CompileTo(j, dependency[m], TRUE)
             \/ m = Prelude /\ CompileTo(j, <<>>, TRUE)
      PROVE  CompileTo(j, Dependency(m), m # Entry)
  <2>1. CASE m = Entry
    <3>1. m # Prelude /\ m \notin Modules \cup Libraries /\ m \notin Tests
      BY <2>1, Kinds
    <3>2. CompileTo(j, dependency[m], FALSE) /\ Dependency(m) = dependency[m]
      BY <1>2, <2>1, <3>1 DEF Dependency
    <3>3. (m # Entry) = FALSE
      BY <2>1
    <3> QED
      BY <3>2, <3>3
  <2>2. CASE m # Entry
    <3>1. CompileTo(j, Dependency(m), TRUE)
      BY <1>2, <2>2, Kinds DEF Dependency
    <3>2. (m # Entry) = TRUE
      BY <2>2
    <3> QED
      BY <3>1, <3>2
  <2> QED
    BY <2>1, <2>2
<1> QED
  BY <1>1, <1>2 DEF CompileModule, CompileMain, CompileTest, CompilePrelude

(* Every compilation keeps the invariant, whether it fails or not.         *)
LEMMA CompileKeepsJobs ==
    ASSUME PackagesTypeOK, PackagesTypeOK', JobsKept,
           CompileModule \/ CompileMain \/ CompileTest \/ CompilePrelude
    PROVE  JobsKept' /\ SuccessIsComplete'
<1>1. PICK j \in Runs("compile"), m \in targets :
         j = Job("compile", m) /\ CompileTo(j, Dependency(m), m # Entry)
  BY CompilationsAre
<1>2. j \in Jobs /\ j.of = m
  BY <1>1, RunningJobs DEF JobsKept, Job
<1>3. \/ Fail(j)
      \/ /\ Compiles(m, Dependency(m), interface)
         /\ object' = [object EXCEPT ![m] = Compiled(m, Dependency(m), interface)]
         /\ interface' = IF m # Entry
                THEN [interface EXCEPT ![m] = Interface(m, Range(Dependency(m)), interface)]
                ELSE interface
         /\ Succeed(j)
         /\ UNCHANGED <<dependency, archive, information, executable>>
  BY <1>1, <1>2 DEF CompileTo
<1> QED
  BY <1>1, <1>2, <1>3, FailKeeps, CompileSucceeds, RunningIsNotComplete

(* Every archiving keeps the invariant.                                    *)
LEMMA ArchiveKeeps ==
    ASSUME PackagesTypeOK, PackagesTypeOK', JobsKept, Archive
    PROVE  JobsKept' /\ SuccessIsComplete'
<1>1. PICK j \in Runs("archive") :
        /\ archive' = [archive EXCEPT ![j.of] =
                [m \in DOMAIN @ \cup Archived(j.of) |->
                    IF m \in Archived(j.of) THEN object[m] ELSE @[m]]]
        /\ Succeed(j)
        /\ UNCHANGED <<dependency, interface, object, information, executable>>
  BY DEF Archive
<1>2. PICK a \in {"main", "test"} : j = Job("archive", a)
  BY RunningJobs DEF JobsKept
<1>3. j.of = a
  BY <1>2 DEF Job
<1> QED
  BY <1>1, <1>2, <1>3, ArchiveSucceeds, RunningIsNotComplete

(* Every step that writes test information keeps the invariant.            *)
LEMMA InformationKeeps ==
    ASSUME PackagesTypeOK, PackagesTypeOK', JobsKept, CompileInformation
    PROVE  JobsKept' /\ SuccessIsComplete'
<1>1. PICK j \in Runs("information") :
        /\ information' = [m \in targets \cap Tests |-> interface[m]]
        /\ Succeed(j)
        /\ UNCHANGED <<dependency, interface, object, archive, executable>>
  BY DEF CompileInformation
<1>2. j = Job("information", "test")
  BY RunningJobs DEF JobsKept
<1> QED
  BY <1>1, <1>2, InformationSucceeds, RunningIsNotComplete

(* Every link keeps the invariant, whether it fails or not.                *)
LEMMA LinkKeeps ==
    ASSUME PackagesTypeOK, PackagesTypeOK', JobsKept, LinkApplication \/ LinkTest
    PROVE  JobsKept' /\ SuccessIsComplete'
<1>1. PICK j \in Runs("link") : LinkTo(j)
  BY DEF LinkApplication, LinkTest
<1>2. j \in Jobs /\ \E c \in {"build", "test"} : j = Job("link", c)
  BY RunningJobs DEF JobsKept
<1>3. PICK c \in {"build", "test"} : j = Job("link", c)
  BY <1>2
<1>4. j.of = c
  BY <1>3 DEF Job
<1>5. \/ Fail(j)
      \/ /\ executable' = [executable EXCEPT ![c] = Program(c, Members(c, targets), Information(c))]
         /\ Succeed(j)
         /\ UNCHANGED <<dependency, interface, object, archive, information>>
  BY <1>1, <1>4 DEF LinkTo
<1> QED
  BY <1>2, <1>3, <1>5, FailKeeps, LinkSucceeds, RunningIsNotComplete

----------------------------------------------------------------------------
(* What is so at every step of every build.                                *)

(* Before any build there are no records.                                  *)
LEMMA NothingBuilt == Init => BuildInductive
<1> SUFFICES ASSUME Init PROVE BuildInductive
  OBVIOUS
<1>1. PackagesInductive /\ project \in Projects
  BY InitIsInductive
<1>2. /\ step = "idle" /\ outcome = "none"
      /\ needs = project.graph /\ configuration = project.configuration
      /\ dependency = [m \in Units |-> Absent] /\ interface = dependency /\ object = dependency
      /\ archive = [a \in {"main", "test"} |-> <<>>]
      /\ executable = [c \in {"build", "test"} |-> Absent]
      /\ record = [j \in Jobs |-> {}]
      /\ command = "build" /\ done = {}
  BY DEF Init, PackagesInit
<1>3. \A m \in Units : dependency[m] = Absent /\ interface[m] = Absent
  BY <1>2
<1>4. \A j \in Jobs : record[j] = {}
  BY <1>2
<1>5. BuildTypeOK
  <2>1. needs[Main] = Range(configuration)
    BY <1>1, <1>2, ModuleBuildAssumption
  <2>2. Entry \in Units
    BY Kinds
  <2> QED
    BY <1>1, <1>2, <1>3, <2>1, <2>2 DEF BuildTypeOK
<1>6. PackagesStay
  BY <1>3, <1>4, JobsAre, Kinds DEF PackagesStay
<1>7. RecordsAreTrue
  <2>1. archive["main"] = <<>> /\ archive["test"] = <<>>
    BY <1>2
  <2>2. DOMAIN <<>> = {}
    OBVIOUS
  <2> QED
    BY <1>4, <2>1, <2>2, JobsAre DEF RecordsAreTrue
<1>8. JobsInOrder /\ SuccessIsComplete
  BY <1>2 DEF JobsInOrder, SuccessIsComplete
<1> QED
  BY <1>1, <1>5, <1>6, <1>7, <1>8 DEF BuildInductive

(* Steps of others change nothing.                                         *)
LEMMA NothingHappens ==
    ASSUME BuildInductive, UNCHANGED vars
    PROVE  JobsKept' /\ SuccessIsComplete'
<1>1. /\ UNCHANGED files
      /\ UNCHANGED <<project, text, configuration, command, targets, done, edited>>
      /\ UNCHANGED <<needs, directory, script, step, outcome, linked>>
  BY DEF vars, sources, packages
<1>2. UNCHANGED <<dependency, interface, object, archive, information, executable, record>>
  BY <1>1 DEF files
<1>3. BuildTypeOK'
  BY <1>1, <1>2 DEF BuildInductive, BuildTypeOK
<1>4. PackagesStay' /\ RecordsAreTrue'
  BY <1>1, FilesStay DEF BuildInductive, PackagesInductive
<1>5. External' = External
  BY <1>1 DEF External, DependenciesOf, IsClosed
<1>6. Targets(command)' = Targets(command)
  BY <1>1, <1>5 DEF Targets, ModuleTargets, TestModuleTargets, ExternalTargets
<1>7. JobsInOrder'
  <2>1. ScriptJobs' = ScriptJobs /\ \A a : Archived(a)' = Archived(a)
    BY <1>1, ScriptsStay
  <2>2. \A m : Source(m)' = Source(m)
    BY <1>1, SourcesStay
  <2>3. \A m : Beside(m)' = Beside(m)
    BY <1>1, <1>2 DEF Beside, Contexts, Imported, Dependency, SystemPackages, SystemKeys
  <2>4. \A j : Upstream(j)' = Upstream(j)
    BY <1>1, <2>3, ScriptsStay DEF Upstream, ModuleUpstream
  <2>5. \A c : Members(c, targets)' = Members(c, targets) /\ Information(c)' = Information(c)
    BY <1>1, <1>2 DEF Members, Information
  <2>6. \A j : Reads(j)' = Reads(j)
    BY <1>1, <1>2, <2>1, <2>2, <2>3, <2>5 DEF Reads
  <2>7. \A j : IsUpToDate(j)' <=> IsUpToDate(j)
    BY <1>2, <2>6 DEF IsUpToDate
  <2>8. Ordered({m \in Units : Job("compile", m) \in done})' <=>
            Ordered({m \in Units : Job("compile", m) \in done})
    BY <1>1, <2>3 DEF Ordered
  <2>9. ScriptsFail' <=> ScriptsFail
    BY <1>1 DEF ScriptsFail, SystemKeys
  <2> QED
    BY <1>1, <1>6, <2>1, <2>4, <2>7, <2>8, <2>9 DEF BuildInductive, JobsInOrder
<1>8. SuccessIsComplete'
  <2> SUFFICES ASSUME outcome = "success", ~edited
               PROVE  \A modules \in {Targets(command)'} : Complete(modules)'
    BY <1>1 DEF SuccessIsComplete
  <2>1. PICK all : all = Targets(command)
    OBVIOUS
  <2>2. Complete(all)
    BY <2>1 DEF BuildInductive, SuccessIsComplete
  <2>3. Complete(all)'
    BY <1>1, <2>2, CompleteStays
  <2> QED
    BY <1>6, <2>1, <2>3
<1> QED
  BY <1>3, <1>4, <1>7, <1>8 DEF JobsKept

(* Every step keeps the invariant about builds.                            *)
LEMMA BuildsGoOn ==
    ASSUME BuildInductive, [Next]_vars
    PROVE  BuildInductive'
<1>1. PackagesInductive /\ JobsKept /\ SuccessIsComplete /\ project \in Projects
  BY DEF BuildInductive, JobsKept, BuildTypeOK
<1>2. PackagesInductive'
  BY <1>1, NextIsInductive
<1>3. PackagesTypeOK /\ PackagesTypeOK'
  BY <1>1, <1>2 DEF PackagesInductive
<1>4. CASE UNCHANGED vars
  BY <1>2, <1>4, NothingHappens DEF JobsKept, BuildInductive
<1>5. CASE Start
  BY <1>1, <1>2, <1>3, <1>5, StartKeeps DEF JobsKept, BuildInductive
<1>6. CASE Prepare
  BY <1>1, <1>2, <1>3, <1>6, PrepareKeeps DEF JobsKept, BuildInductive
<1>7. CASE WriteScripts
  BY <1>1, <1>2, <1>3, <1>7, WriteScriptsKeeps DEF JobsKept, BuildInductive
<1>8. CASE Skip
  BY <1>1, <1>2, <1>3, <1>8, SkipKeeps DEF JobsKept, BuildInductive
<1>9. CASE Resolve
  BY <1>1, <1>2, <1>3, <1>9, ResolveKeeps DEF JobsKept, BuildInductive
<1>10. CASE CompileModule \/ CompileMain \/ CompileTest \/ CompilePrelude
  BY <1>1, <1>2, <1>3, <1>10, CompileKeepsJobs DEF JobsKept, BuildInductive
<1>11. CASE Archive
  BY <1>1, <1>2, <1>3, <1>11, ArchiveKeeps DEF JobsKept, BuildInductive
<1>12. CASE CompileInformation
  BY <1>1, <1>2, <1>3, <1>12, InformationKeeps DEF JobsKept, BuildInductive
<1>13. CASE LinkApplication \/ LinkTest
  BY <1>1, <1>2, <1>3, <1>13, LinkKeeps DEF JobsKept, BuildInductive
<1>14. CASE Circle
  BY <1>1, <1>2, <1>3, <1>14, CircleKeeps DEF JobsKept, BuildInductive
<1>15. CASE Finish
  BY <1>1, <1>2, <1>3, <1>15, FinishKeeps DEF JobsKept, BuildInductive
<1>16. CASE Kill
  BY <1>1, <1>2, <1>3, <1>16, KillKeeps DEF JobsKept, BuildInductive
<1>17. CASE EditText
  BY <1>1, <1>2, <1>3, <1>17, EditTextKeeps DEF JobsKept, BuildInductive
<1>18. CASE EditConfiguration
  BY <1>1, <1>2, <1>3, <1>18, EditConfigurationKeepsJobs DEF JobsKept, BuildInductive
<1> QED
  BY <1>4, <1>5, <1>6, <1>7, <1>8, <1>9, <1>10, <1>11, <1>12, <1>13, <1>14, <1>15, <1>16, <1>17,
     <1>18 DEF Next, Proceed

(* Whatever was built, edited, interrupted or has failed before, files are *)
(* what the jobs on record have made of what they have read, and jobs are  *)
(* done in an order in which nothing is read before it is written.         *)
THEOREM BuildInvariant == Spec => []BuildInductive
<1>1. Init => BuildInductive
  BY NothingBuilt
<1>2. BuildInductive /\ [Next]_vars => BuildInductive'
  BY BuildsGoOn
<1> QED
  BY <1>1, <1>2, PTL DEF Spec

(* A build that ends well without an edit meanwhile has made what a clean  *)
(* build would make (ninja_build_script_compiler.rs, module_compiler.rs).  *)
THEOREM BuildsAreUpToDate == Spec => []UpToDate
<1>1. BuildInductive => UpToDate
  BY CompleteIsUpToDate DEF BuildInductive, PackagesInductive
<1> QED
  BY <1>1, BuildInvariant, PTL

===============================================================================
