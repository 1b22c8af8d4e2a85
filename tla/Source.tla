------------------------------- MODULE Source --------------------------------
(***************************************************************************)
(* What is done with the file of a module.  pen format                     *)
(* (lib/app/src/module_formatter.rs) parses the text, prints the module    *)
(* with the comments of the text, and writes the result over it.  It is    *)
(* run twice.  A build (lib/app/src/module_compiler.rs) parses the text,   *)
(* puts what is meant in the place of every name, and refuses the module   *)
(* or goes on with it.                                                     *)
(***************************************************************************)
EXTENDS Format

CONSTANTS
    Sources,        \* texts, [tokens, comments], with the module that is meant
    Library,        \* modules with their paths, each after those it imports
    Prelude,        \* modules that all others use
    LastComponent,  \* of the path of each module
    PublicNames     \* names that begin with an upper-case letter

Names == INSTANCE Scopes

\* The file is no module of the library.
SourcePrefix == "main:"

VARIABLES
    source,     \* the text that was written
    text,       \* the text of the file
    modules,    \* what has been parsed, time after time
    compiled,   \* the module with the names that are meant, if it has been compiled
    stage       \* the last step

vars == <<source, text, modules, compiled, stage>>

Init == /\ source \in Sources
        /\ text = [tokens |-> source.tokens, comments |-> source.comments]
        /\ modules = <<>>
        /\ compiled = <<>>
        /\ stage = "written"

ParseFile ==
    /\ stage = "written"
    /\ \E result \in {Parse(text.tokens)} :
            /\ stage' = IF result.ok THEN "parsed" ELSE "refused"
            /\ modules' = modules \o result.trees
    /\ UNCHANGED <<source, text, compiled>>

FormatFile ==
    /\ stage = "parsed" /\ Len(modules) < 3
    /\ text' = Format(Last(modules), text.comments)
    /\ stage' = "written"
    /\ UNCHANGED <<source, modules, compiled>>

CompileFile ==
    /\ stage = "parsed" /\ Len(modules) = 1
    /\ compiled' = Names!compile(modules[1], SourcePrefix, Names!Interfaces,
                                 Names!PreludeInterfaces)
    /\ stage' = "compiled"
    /\ UNCHANGED <<source, text, modules>>

End_ == (stage \in {"refused", "compiled"} \/ Len(modules) = 3) /\ UNCHANGED vars

Next == ParseFile \/ FormatFile \/ CompileFile \/ End_

Spec == Init /\ [][Next]_vars

-----------------------------------------------------------------------------
RECURSIVE Program(_)
\* What a tree says: without lines, without the order of imports, and with the members
\* of unions side by side.
Program(tree) ==
    CASE tree.kind = "union type" ->
            <<"union type", Each(Program, collect_union_types(tree))>>
      [] tree.kind \in {"imports", "names"} ->
            <<tree.kind, ToSet(Each(Program, tree.parts))>>
      [] OTHER -> <<tree.kind, tree.text, Each(Program, tree.parts)>>

Comments(comments) == FlattenSeq([i \in DOMAIN comments |-> comments[i].text])

\* The parser reads what is meant, whatever the layout: operators take their operands by
\* their priorities and from the left, no alternative of the grammar hides another one,
\* and a text that means no module is refused.
ParserReadsWhatIsMeant ==
    /\ stage = "refused" => source.module.kind # "module"
    /\ Len(modules) = 1 => Program(modules[1]) = Program(source.module)

\* Formatting changes neither the program nor its comments and their order: the parser
\* reads the same module in the formatted text, and no comment is lost.
FormattingKeepsModules ==
    /\ Len(modules) > 0 => /\ stage # "refused"
                           /\ Program(Last(modules)) = Program(modules[1])
    /\ Comments(text.comments) = Comments(source.comments)

\* A text that has been formatted is formatted: formatting it again, with the lines that
\* the parser and the comments have then, changes nothing.
FormattedStaysFormatted ==
    stage = "written" /\ Len(modules) = 2 => text = Format(modules[1], source.comments)

\* The compiler puts in the place of each name, of a type or a variable, the full name
\* of what it means where it stands: passes for imports, for the module's own names and
\* for built-in ones run one after the other over the same names, and none of them
\* touches what another one has written or what is bound around a name.
NamesMeanWhatIsInScope ==
    compiled # <<>> =>
        LET scope == Names!Scope(modules[1], SourcePrefix) IN
        Names!LeavesOfModule(compiled[1]) = Names!MeantByModule(scope)

\* A module is refused for its names and definitions if and only if something in it has
\* no meaning: a module or a name that is not there, two definitions of a name, an alias
\* that stands for itself, a record that takes one of its own to be made, or a record
\* made from fields that are private. (Records that need each other by way of unions
\* are accepted.)
OnlyMeaninglessModulesAreRefused ==
    stage = "compiled" =>
        /\ compiled # <<>> <=> Names!ImportsExist(modules[1])
        /\ compiled # <<>> =>
            LET scope == Names!Scope(modules[1], SourcePrefix)
                is_accepted == Names!validate(compiled[1]) = "none"
                is_sound == Names!IsSound(compiled[1], scope)
            IN  /\ is_sound => is_accepted
                /\ is_accepted => is_sound \/ Names!HasRecordsInUnions(compiled[1])
=============================================================================
