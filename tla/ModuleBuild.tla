----------------------------- MODULE ModuleBuild -----------------------------
(***************************************************************************)
(* pen build and pen test as a whole: packages are initialized (Packages), *)
(* scripts are written for the modules that there are, and the runner of   *)
(* scripts resolves dependencies, compiles modules, archives and links     *)
(* them, as far as what it has is out of date.  In between, and while the  *)
(* scripts run, files of the main package are edited, added and deleted.   *)
(*                                                                         *)
(* The runner (turtle, a Ninja) is not in this repository.  It runs a      *)
(* command unless the last run of the same command came to its end and has *)
(* left the files it writes, and has read what it would read now.  It runs *)
(* what a command reads first.  An external package has one module, and    *)
(* the name of the package is the name of the module.                      *)
(***************************************************************************)
EXTENDS Packages, Functions

CONSTANTS Entry,       \* the main module of an application
          Modules,     \* other modules of the main package
          Tests,       \* test modules
          Systems,     \* system packages among Libraries
          Projects,    \* what is built, and what may become of it
          MaxEdits,    \* bound on edits
          Absent

ASSUME ModuleBuildAssumption ==
    /\ IsFiniteSet(Modules) /\ IsFiniteSet(Tests)
    /\ Modules \cap Tests = {} /\ Entry \notin Modules \cup Tests
    /\ (Modules \cup Tests \cup {Entry}) \cap (Libraries \cup {Prelude}) = {}
    /\ \A p \in Projects :
        /\ p.graph \in Graphs
        /\ Range(p.configuration) = p.graph[Main]
        /\ \A keys \in p.configurations : Range(keys) \subseteq Libraries
        /\ p.commands \subseteq {"build", "test"}

VARIABLES
    project,        \* a member of Projects
    text,           \* text[m]: the source file of m in the main package
    configuration,  \* keys of dependencies in pen.json, and the packages they stand for
    dependency,     \* dependency[m]: modules that the imports of m stand for
    interface,      \* interface[m], and of a test module its test information
    object,         \* object[m]
    archive,        \* archive[a]: the members of the archives of the main package
    information,    \* the test information of the main package
    executable,     \* executable[c]: what the last link of a command has made
    record,         \* record[j]: what the last run of j has read, if that came to its end
    command,        \* what is run, "build" or "test"
    targets,        \* the modules that the scripts have been written for
    done,           \* the jobs of this run that need not run any more
    edits,          \* how many edits there have been
    edited          \* whether there has been one since the build started

files == <<dependency, interface, object, archive, information, executable, record>>
sources == <<project, text, configuration, edits>>
vars == <<packages, files, sources, command, targets, done, edited>>

Own == Modules \cup Tests \cup {Entry}
Units == Own \cup Libraries \cup {Prelude}
Job(kind, of) == [kind |-> kind, of |-> of]
Jobs == {Job(kind, m) : kind \in {"resolve", "compile"}, m \in Units}
            \cup {Job("archive", a) : a \in {"main", "test"}}
            \cup {Job("information", "test")}
            \cup {Job("link", c) : c \in {"build", "test"}}

Init ==
    /\ PackagesInit
    /\ project \in Projects
    /\ needs = project.graph
    /\ damage = project.damage
    /\ configuration = project.configuration
    /\ text = project.text
    /\ dependency = [m \in Units |-> Absent]
    /\ interface = dependency
    /\ object = dependency
    /\ archive = [a \in {"main", "test"} |-> <<>>]
    /\ information = Absent
    /\ executable = [c \in {"build", "test"} |-> Absent]
    /\ record = [j \in Jobs |-> {}]
    /\ command = "build"
    /\ targets = {}
    /\ done = {}
    /\ edits = project.edits
    /\ edited = FALSE

-----------------------------------------------------------------------------
(* What commands make of the files they read.                              *)

Source(m) ==
    IF m \in Own THEN text[m]
    ELSE IF directory[m] = "whole" /\ m \in DOMAIN project.library
    THEN project.library[m] ELSE Absent

\* file_path_resolver::resolve_source_file, for an import as it is written: a module of
\* the same package, which is no test, or the module of a package by its key.
Resolved(m, path) ==
    CASE m \in Own /\ path \in Modules \cup {Entry} -> path
      [] m \in Own /\ path \in DOMAIN configuration -> configuration[path]
      [] m \in Libraries /\ path \in needs[m] -> path
      [] OTHER -> "PackageNotFound"

\* module_dependency_resolver::resolve.
Resolution(m) ==
    LET paths == DOMAIN Source(m).imports
        found == [path \in paths |-> Resolved(m, path)]
    IN
    IF Source(m) # Absent /\ \A path \in paths :
            found[path] # "PackageNotFound" /\ Source(found[path]) # Absent
    THEN found ELSE Absent

\* system_package_finder::find.
SystemKeys == {key \in DOMAIN configuration : configuration[key] \in Systems}
SystemPackages == {configuration[key] : key \in SystemKeys}

\* The interface files that the compilation of a module reads beside those of its imports.
Contexts(m) ==
    IF m = Prelude THEN {} ELSE {Prelude} \cup IF m = Entry THEN SystemPackages ELSE {}

Dependency(m) == IF m = Prelude THEN <<>> ELSE dependency[m]

\* The interface of a module has its own names and all types it has met.
Interface(m, modules, interfaces) ==
    [name |-> Source(m).name,
     types |-> {<<m, Source(m).name>>} \cup UNION {interfaces[n].types : n \in modules}]

\* module_compiler::compile: each import has to be among the resolved ones and to export
\* the name that is used.
Compiles(m, found, interfaces) ==
    /\ Source(m) # Absent /\ found # Absent
    /\ \A n \in Range(found) \cup Contexts(m) : interfaces[n] # Absent
    /\ \A path \in DOMAIN Source(m).imports :
            /\ path \in DOMAIN found
            /\ interfaces[found[path]].name = Source(m).imports[path]

Compiled(m, found, interfaces) ==
    [source |-> Source(m), uses |-> found,
     interfaces |-> [n \in Range(found) \cup Contexts(m) |-> interfaces[n]]]

\* The modules that a linker finds its way to.
Reached(roots, members) ==
    LET within[n \in 0 .. Cardinality(Units)] ==
            IF n = 0 THEN roots
            ELSE within[n - 1] \cup
                    UNION {Range(members[m].uses) : m \in within[n - 1] \cap DOMAIN members}
    IN within[Cardinality(Units)]

\* What the main module of an application is reached from, or the main.rs of tests, which
\* calls the functions that the test information names.
Roots(c, tests) == IF c = "build" THEN {Entry} ELSE DOMAIN tests

\* A program is what is reached from its roots, or nothing if a module is missing.
Program(c, members, tests) ==
    LET roots == Roots(c, tests) IN
    IF Reached(roots, members) \subseteq DOMAIN members
    THEN [members |-> [m \in Reached(roots, members) |-> members[m]], tests |-> tests]
    ELSE Absent

-----------------------------------------------------------------------------
(* The build scripts.                                                      *)

\* module_target_collector and test_module_target_collector: the files that there are.
\* The script of an external package is for the files that its directory had.
ModuleTargets == {m \in Modules \cup {Entry} : text[m] # Absent}
TestModuleTargets == {m \in Tests : text[m] # Absent}
ExternalTargets ==
    {p \in DOMAIN project.library : p \in External \cup {Prelude} /\ script[p] = "whole"}

Targets(c) ==
    ModuleTargets \cup ExternalTargets \cup (IF c = "test" THEN TestModuleTargets ELSE {})

CompileJobs(modules) == {Job(kind, m) : kind \in {"resolve", "compile"}, m \in modules}

\* The script of the modules of the main package, with the main module if there is one.
ModulesScript == CompileJobs(targets \cap (Modules \cup {Entry})) \cup {Job("archive", "main")}

TestModulesScript ==
    CompileJobs(targets \cap Tests) \cup {Job("archive", "test"), Job("information", "test")}

ExternalScripts == CompileJobs(targets \cap Libraries)
PreludeScript == {Job("compile", Prelude) : m \in targets \cap {Prelude}}
ApplicationScript == IF project.application THEN {Job("link", "build")} ELSE {}
TestScript == {Job("link", "test")}

\* The main build script includes the others.
ScriptJobs ==
    ModulesScript \cup ExternalScripts \cup PreludeScript
        \cup (IF command = "test" THEN TestModulesScript \cup TestScript
              ELSE ApplicationScript)

Archived(a) == IF a = "test" THEN targets \cap Tests ELSE targets \cap (Modules \cup {Entry})

\* ninja_build_script_dependency_compiler: what the dynamic dependencies of a module name.
MutantImported(m) == {}

Imported(m) == IF Dependency(m) = Absent THEN {} ELSE Range(Dependency(m))

\* The modules that dynamic dependencies and the script itself name.
Beside(m) == Contexts(m) \cup Imported(m)

\* A module is compiled after its dependencies are resolved, and after those modules.
ModuleUpstream(m) ==
    {Job("compile", n) : n \in Beside(m)}
        \cup (IF m = Prelude THEN {} ELSE {Job("resolve", m)})

ApplicationUpstream == {Job("archive", "main")} \cup {Job("compile", p) : p \in targets \ Own}
TestUpstream == ApplicationUpstream \cup {Job("archive", "test"), Job("information", "test")}

\* What a job reads is written by other jobs.
Upstream(j) ==
    CASE j.kind = "resolve" -> {}
      [] j.kind = "compile" -> ModuleUpstream(j.of)
      [] j.kind = "archive" -> {Job("compile", m) : m \in Archived(j.of)}
      [] j.kind = "information" -> {Job("compile", m) : m \in Archived("test")}
      [] j.kind = "link" -> IF j.of = "test" THEN TestUpstream ELSE ApplicationUpstream

\* What is linked: archives of the main package, of external packages and of the prelude.
Members(c, modules) ==
    LET test == IF c = "test" THEN archive["test"] ELSE <<>> IN
    [m \in DOMAIN archive["main"] \cup DOMAIN test \cup (modules \ Own) |->
        CASE m \in DOMAIN archive["main"] -> archive["main"][m]
          [] m \in DOMAIN test -> test[m]
          [] OTHER -> object[m]]

Information(c) == IF c = "test" THEN information ELSE Absent

\* What a job reads, its command included.
Reads(j) ==
    CASE j.kind = "resolve" -> [source |-> Source(j.of)]
      [] j.kind = "compile" ->
            [source |-> Source(j.of), dependency |-> dependency[j.of],
             interfaces |-> [n \in Beside(j.of) |-> interface[n]]]
      [] j.kind = "archive" -> [objects |-> [m \in Archived(j.of) |-> object[m]]]
      [] j.kind = "information" -> [files |-> [m \in targets \cap Tests |-> interface[m]]]
      [] j.kind = "link" ->
            [order |-> linked, members |-> Members(j.of, targets), tests |-> Information(j.of)]

IsUpToDate(j) == Reads(j) \in record[j]
Ready == {j \in ScriptJobs \ done : Upstream(j) \cap ScriptJobs \subseteq done}
Current == {j \in Ready : IsUpToDate(j)}

\* compile_modules and compile_application: a main module has to be given a system
\* package, and an application has the link script of one.
ScriptsFail ==
    \/ text[Entry] # Absent /\ SystemKeys = {}
    \/ command = "build" /\ project.application /\ Cardinality(SystemKeys) # 1

-----------------------------------------------------------------------------

Start ==
    /\ Build
    /\ command' \in project.commands
    /\ edited' = FALSE
    /\ UNCHANGED <<files, sources, targets, done>>

Prepare ==
    /\ PackagesStep
    /\ UNCHANGED <<files, sources, command, targets, done, edited>>

\* package_builder::build and package_test_builder::build up to the run of the script.
WriteScripts ==
    /\ IF ScriptsFail
       THEN step = "order" /\ End("failed") /\ UNCHANGED <<needs, directory, script, damage>>
       ELSE Order
    /\ targets' = IF step' = "run" THEN Targets(command) ELSE {}
    /\ UNCHANGED <<files, sources, command, done, edited>>

Leave(result) ==
    /\ End(result)
    /\ targets' = {}
    /\ done' = {}
    /\ UNCHANGED <<needs, directory, script, damage, sources, command, edited>>

\* Nothing is done for what is up to date.
Skip ==
    /\ step = "run"
    /\ Current # {}
    /\ done' = done \cup Current
    /\ UNCHANGED <<packages, files, sources, command, targets, edited>>

Runs(kind) ==
    IF step = "run" /\ Current = {} THEN {j \in Ready : j.kind = kind} ELSE {}

Succeed(j) ==
    /\ done' = done \cup {j}
    /\ record' = [record EXCEPT ![j] = {Reads(j)}]
    /\ UNCHANGED <<packages, sources, command, targets, edited>>

Fail(j) ==
    /\ record' = [record EXCEPT ![j] = {}]
    /\ Leave("failed")
    /\ UNCHANGED <<dependency, interface, object, archive, information, executable>>

\* pen resolve-dependency writes what the imports of a module stand for.
Resolve ==
    \E j \in Runs("resolve") :
        IF Resolution(j.of) = Absent THEN Fail(j)
        ELSE /\ dependency' = [dependency EXCEPT ![j.of] = Resolution(j.of)]
             /\ Succeed(j)
             /\ UNCHANGED <<interface, object, archive, information, executable>>

\* The object file is written before another file is, or nothing is.
CompileTo(j, found, writes) ==
    LET m == j.of IN
    IF ~Compiles(m, found, interface) THEN Fail(j)
    ELSE /\ object' = [object EXCEPT ![m] = Compiled(m, found, interface)]
         /\ interface' = IF writes
                THEN [interface EXCEPT ![m] = Interface(m, Range(found), interface)]
                ELSE interface
         /\ Succeed(j)
         /\ UNCHANGED <<dependency, archive, information, executable>>

\* pen compile.
CompileModule ==
    \E j \in Runs("compile") :
        j.of \in Modules \cup Libraries /\ CompileTo(j, dependency[j.of], TRUE)

\* pen compile-main: nobody imports a main module.
CompileMain ==
    \E j \in Runs("compile") : j.of = Entry /\ CompileTo(j, dependency[Entry], FALSE)

\* pen compile-test: test information is written in place of an interface.
CompileTest ==
    \E j \in Runs("compile") : j.of \in Tests /\ CompileTo(j, dependency[j.of], TRUE)

\* pen compile-prelude.
CompilePrelude ==
    \E j \in Runs("compile") : j.of = Prelude /\ CompileTo(j, <<>>, TRUE)

\* ar crs adds members to an archive and replaces members, and never removes one.
Archive ==
    \E j \in Runs("archive") :
        /\ archive' = [archive EXCEPT ![j.of] =
                [m \in DOMAIN @ \cup Archived(j.of) |->
                    IF m \in Archived(j.of) THEN object[m] ELSE @[m]]]
        /\ Succeed(j)
        /\ UNCHANGED <<dependency, interface, object, information, executable>>

\* pen compile-package-test-information.
CompileInformation ==
    \E j \in Runs("information") :
        /\ information' = [m \in targets \cap Tests |-> interface[m]]
        /\ Succeed(j)
        /\ UNCHANGED <<dependency, interface, object, archive, executable>>

LinkTo(j) ==
    LET program == Program(j.of, Members(j.of, targets), Information(j.of)) IN
    IF program = Absent THEN Fail(j)
    ELSE /\ executable' = [executable EXCEPT ![j.of] = program]
         /\ Succeed(j)
         /\ UNCHANGED <<dependency, interface, object, archive, information>>

\* The link script of the system package.
LinkApplication == \E j \in Runs("link") : j.of = "build" /\ LinkTo(j)

\* pen link-test.
LinkTest == \E j \in Runs("link") : j.of = "test" /\ LinkTo(j)

\* Jobs wait for each other in a circle, as modules import each other in one.
Circle ==
    /\ step = "run"
    /\ Ready = {}
    /\ done # ScriptJobs
    /\ Leave("failed")
    /\ UNCHANGED files

Finish ==
    /\ step = "run"
    /\ done = ScriptJobs
    /\ Leave("success")
    /\ UNCHANGED files

\* The process is killed, between two steps or when a module is half compiled.
Kill ==
    /\ Interrupt
    /\ targets' = {}
    /\ done' = {}
    /\ \/ UNCHANGED files
       \/ \E j \in Runs("compile") :
            /\ Compiles(j.of, Dependency(j.of), interface)
            /\ object' = [object EXCEPT ![j.of] = Compiled(j.of, Dependency(j.of), interface)]
            /\ record' = [record EXCEPT ![j] = {}]
            /\ UNCHANGED <<dependency, interface, archive, information, executable>>
    /\ UNCHANGED <<sources, command, edited>>

\* Somebody edits, adds or deletes a file, or edits the configuration.
EditText ==
    /\ edits < MaxEdits
    /\ step \in {"idle", "run"}
    /\ \E m \in DOMAIN project.texts : \E source \in project.texts[m] \ {text[m]} :
            text' = [text EXCEPT ![m] = source]
    /\ edits' = edits + 1
    /\ edited' = TRUE
    /\ UNCHANGED <<packages, files, project, configuration, command, targets, done>>

EditConfiguration ==
    /\ edits < MaxEdits
    /\ step = "idle"
    /\ configuration' \in project.configurations \ {configuration}
    /\ needs' = [needs EXCEPT ![Main] = Range(configuration')]
    /\ edits' = edits + 1
    /\ edited' = TRUE
    /\ UNCHANGED <<directory, script, stage, step, current, stack, linked, outcome, damage,
                   files, project, text, command, targets, done>>

Proceed ==
    \/ Prepare \/ WriteScripts \/ Skip \/ Resolve \/ CompileModule \/ CompileMain
    \/ CompileTest \/ CompilePrelude \/ Archive \/ CompileInformation \/ LinkApplication
    \/ LinkTest \/ Circle \/ Finish

Next == Start \/ Proceed \/ Kill \/ EditText \/ EditConfiguration

Spec == Init /\ [][Next]_vars /\ WF_vars(Proceed)

-----------------------------------------------------------------------------

\* The interfaces of a clean build after so many rounds, as far as modules compile.
CleanRounds[n \in 0 .. Cardinality(Units)] ==
    [m \in Units |->
        IF n > 0 /\ Compiles(m, Resolution(m), CleanRounds[n - 1])
        THEN Interface(m, Range(Resolution(m)), CleanRounds[n - 1]) ELSE Absent]

CleanInterfaces == CleanRounds[Cardinality(Units)]

\* What a clean build makes.
CleanProgram ==
    LET interfaces == CleanInterfaces
        modules == Targets(command)
    IN
    IF ScriptsFail \/ \E m \in modules : ~Compiles(m, Resolution(m), interfaces) THEN Absent
    ELSE Program(command,
                 [m \in modules |-> Compiled(m, Resolution(m), interfaces)],
                 IF command = "test" THEN [m \in modules \cap Tests |-> interfaces[m]]
                 ELSE Absent)

\* Jobs whose results are not what they would be now, though nothing they read has changed:
\* what imports stand for does not depend on the source only, and archives keep what has
\* been deleted.
IsStale ==
    \/ \E m \in Own : LET j == Job("resolve", m) IN
            IsUpToDate(j) /\ dependency[m] # Resolution(m)
    \/ \E a \in DOMAIN archive : \E m \in DOMAIN archive[a] : text[m] = Absent

(* A build or a test that ends well without an edit meanwhile has linked   *)
(* what a clean one would link, whatever was built, edited, interrupted or *)
(* has failed before: nothing that is out of date is taken for up to date, *)
(* and nothing half done for done (compile_module_targets and              *)
(* compile_dependency of ninja_build_script_compiler.rs, and compile of    *)
(* module_compiler.rs, which writes one file after another).               *)
UpToDate ==
    outcome = "success" /\ ~edited /\ ~IsStale /\
    (command = "test" \/ project.application) =>
        executable[command] = CleanProgram

-----------------------------------------------------------------------------
(* What is so at every step, and UpToDate follows from.                    *)

BuildTypeOK ==
    /\ project \in Projects
    /\ needs[Main] = Range(configuration)
    /\ dependency = [m \in Units |-> dependency[m]]
    /\ \A m \in Units : dependency[m] # Absent => Range(dependency[m]) \subseteq Units
    /\ interface = [m \in Units |-> interface[m]]
    /\ interface[Entry] = Absent
    /\ object = [m \in Units |-> object[m]]
    /\ archive = [a \in {"main", "test"} |-> archive[a]]
    /\ executable = [c \in {"build", "test"} |-> executable[c]]
    /\ record = [j \in Jobs |-> record[j]]
    /\ command \in {"build", "test"}
    /\ step # "idle" => outcome = "none"

(* The directories of packages stay as they are, so what has been found in *)
(* them is still there, and their imports stand for what they stood for.   *)
PackagesStay ==
    /\ \A m \in Libraries \cup {Prelude} : interface[m] # Absent => Source(m) # Absent
    /\ \A m \in Libraries : record[Job("resolve", m)] # {} =>
            Resolution(m) # Absent /\ dependency[m] = Resolution(m)

(* A module was compiled from what the record of its compilation says.     *)
CompiledFrom(m, read) ==
    LET found == IF m = Prelude THEN <<>> ELSE read.dependency IN
    /\ read.source # Absent /\ found # Absent
    /\ \A n \in DOMAIN read.interfaces : read.interfaces[n] # Absent
    /\ \A path \in DOMAIN read.source.imports :
            /\ path \in DOMAIN found
            /\ read.interfaces[found[path]].name = read.source.imports[path]
    /\ object[m] = [source |-> read.source, uses |-> found, interfaces |-> read.interfaces]
    /\ m # Entry => interface[m] =
            [name |-> read.source.name,
             types |-> {<<m, read.source.name>>}
                        \cup UNION {read.interfaces[n].types : n \in Range(found)}]

(* Files are what the jobs on record have made of what they have read.     *)
RecordsAreTrue ==
    /\ \A m \in Units : \A read \in record[Job("compile", m)] : CompiledFrom(m, read)
    /\ \A a \in {"main", "test"} : \A read \in record[Job("archive", a)] :
            \A m \in DOMAIN read.objects :
                m \in DOMAIN archive[a] /\ archive[a][m] = read.objects[m]
    /\ \A read \in record[Job("information", "test")] : information = read.files
    /\ \A c \in {"build", "test"} : \A read \in record[Job("link", c)] :
            executable[c] = Program(c, read.members, read.tests)
    /\ DOMAIN archive["main"] \subseteq Modules \cup {Entry}
    /\ DOMAIN archive["test"] \subseteq Tests

(* Among any modules there is one that needs none of them.                 *)
Ordered(modules) ==
    \A some \in SUBSET modules :
        some # {} => \E m \in some : Beside(m) \cap some = {}

(* What is done is done in order, and has read what it would read now.     *)
JobsInOrder ==
    /\ step # "run" => done = {}
    /\ step = "run" =>
          /\ targets \subseteq Units
          /\ done \subseteq ScriptJobs
          /\ \A j \in done : Upstream(j) \cap ScriptJobs \subseteq done
          /\ Ordered({m \in Units : Job("compile", m) \in done})
    /\ step = "run" /\ ~edited =>
          /\ targets = Targets(command) /\ ~ScriptsFail
          /\ \A j \in done : IsUpToDate(j)

(* After a build of these modules without an edit all files are what they  *)
(* would be made of what they are made from.                               *)
Complete(modules) ==
    /\ ~ScriptsFail
    /\ Ordered(modules)
    /\ \A m \in modules :
          /\ Compiles(m, Dependency(m), interface)
          /\ object[m] = Compiled(m, Dependency(m), interface)
          /\ m # Entry => interface[m] = Interface(m, Range(Dependency(m)), interface)
          /\ m \in Own => [source |-> Source(m)] \in record[Job("resolve", m)]
          /\ m \in Libraries => dependency[m] = Resolution(m)
    /\ \A m \in modules \cap (Modules \cup {Entry}) :
          m \in DOMAIN archive["main"] /\ archive["main"][m] = object[m]
    /\ command = "test" =>
          /\ \A m \in modules \cap Tests :
                m \in DOMAIN archive["test"] /\ archive["test"][m] = object[m]
          /\ information = [m \in modules \cap Tests |-> interface[m]]
    /\ command = "test" \/ project.application =>
          executable[command] =
              Program(command, Members(command, modules), Information(command))
    /\ \A p \in External \cup {Prelude} : ScriptFits(p)

SuccessIsComplete ==
    outcome = "success" /\ ~edited => \A modules \in {Targets(command)} : Complete(modules)

BuildInductive ==
    /\ PackagesInductive /\ BuildTypeOK /\ PackagesStay /\ RecordsAreTrue /\ JobsInOrder
    /\ SuccessIsComplete

-----------------------------------------------------------------------------

(* A build comes to an end even if packages depend on each other in a      *)
(* circle, or modules do.                                                  *)
EveryBuildEnds == step # "idle" ~> step = "idle"
=============================================================================
