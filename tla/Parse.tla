--------------------------------- MODULE Parse ---------------------------------
(***************************************************************************)
(* The parser of modules (lib/parse/src/parsers.rs, operations.rs): its    *)
(* grammar, and the parser combinators that it is made from, which go back *)
(* only where they are told to.  The module has no state.                  *)
(*                                                                         *)
(* A text is a sequence of tokens.  A token has a kind, a text, a line and *)
(* whether it is glued to the one before it (no blank between them).       *)
(* Comments are next to the tokens: another pass of the code collects them *)
(* from the same text.                                                     *)
(***************************************************************************)
EXTENDS Naturals, Sequences, FiniteSets, SequencesExt

\* A syntax tree: what it is, a name or literal, its line and what it is made of.
Tree(kind, text, line, parts) == [kind |-> kind, text |-> text, line |-> line, parts |-> parts]

-----------------------------------------------------------------------------
(* Parser combinators (the library combine, as the parser uses it) *)

Sign(text) == [rule |-> "sign", text |-> text]
Prefix(text) == [rule |-> "prefix", text |-> text]
Glued(text) == [rule |-> "glued", text |-> text]
Word(kind, tree) == [rule |-> "word", kind |-> kind, tree |-> tree]
OneOf(texts, tree) == [rule |-> "one of", texts |-> texts, tree |-> tree]
Unless(text) == [rule |-> "unless", text |-> text]
Nothing == [rule |-> "nothing"]
End == [rule |-> "end"]
Rule(name) == [rule |-> "rule", name |-> name]
Attempt(parser) == [rule |-> "attempt", parser |-> parser]
Chain(parsers) == [rule |-> "chain", parsers |-> parsers]
Choice(parsers) == [rule |-> "choice", parsers |-> parsers]
Many(parser) == [rule |-> "many", parser |-> parser]
SepEndBy1(parser, sign) == [rule |-> "separated", parser |-> parser, sign |-> Sign(sign)]
Node(kind, parser) == [rule |-> "node", kind |-> kind, parser |-> parser]

Optional(parser) == Choice(<<parser, Nothing>>)
SepEndBy(parser, sign) == Optional(SepEndBy1(parser, sign))
Group(kind, parsers) == Node(kind, Chain(parsers))

-----------------------------------------------------------------------------
(* The grammar *)

identifier == Word("name", "name")

qualified_identifier(tree) == Word("name", tree)

module_path ==
    Choice(<<Word("internal path", "internal path"), Word("external path", "external path")>>)

import ==
    Group("import",
          <<Attempt(Chain(<<Sign("import"), Unless("foreign")>>)), module_path,
            Group("prefix", <<Optional(Chain(<<Sign("as"), identifier>>))>>),
            Group("names", <<Optional(Chain(<<Sign("{"), SepEndBy1(identifier, ","),
                                              Sign("}")>>))>>)>>)

calling_convention == Group("convention", <<Word("string", "string")>>)

foreign_import ==
    Group("foreign import",
          <<Attempt(Chain(<<Sign("import"), Sign("foreign")>>)),
            Group("conventions", <<Optional(calling_convention)>>), identifier, Rule("type_")>>)

foreign_export == Group("export", <<Sign("foreign"), Optional(calling_convention)>>)

definition ==
    Group("function", <<Group("exports", <<Optional(foreign_export)>>), identifier, Sign("="),
                        Rule("lambda")>>)

record_definition ==
    Group("record definition",
          <<Attempt(Sign("type")), identifier, Sign("{"),
            Many(Group("field type", <<identifier, Rule("type_")>>)), Sign("}")>>)

type_alias ==
    Group("type alias", <<Attempt(Chain(<<Sign("type"), identifier, Sign("=")>>)), Rule("type_")>>)

module ==
    Group("module",
          <<Group("imports", <<Many(import)>>), Group("foreign imports", <<Many(foreign_import)>>),
            Group("types", <<Many(Choice(<<type_alias, record_definition>>))>>),
            Group("functions", <<Many(definition)>>), End>>)

function_type ==
    Group("function type",
          <<Attempt(Sign("\\(")), Group("arguments", <<SepEndBy(Rule("type_"), ",")>>), Sign(")"),
            Rule("type_")>>)

union_type == Node("union type", SepEndBy1(Rule("atomic_type"), "|"))

type_ == Choice(<<function_type, union_type>>)

list_type == Group("list type", <<Attempt(Sign("[")), Rule("type_"), Sign("]")>>)

map_type ==
    Group("map type", <<Attempt(Sign("{")), Rule("type_"), Sign(":"), Rule("type_"), Sign("}")>>)

reference_type == qualified_identifier("reference")

atomic_type ==
    Choice(<<reference_type, list_type, map_type, Chain(<<Sign("("), Rule("type_"), Sign(")")>>)>>)

block == Group("block", <<Sign("{"), Rule("statement"), Many(Rule("statement")), Sign("}")>>)

statement_with_result ==
    Group("statement", <<Attempt(Chain(<<identifier, Sign("=")>>)), Rule("expression")>>)

statement_without_result == Group("statement", <<Rule("expression")>>)

statement == Choice(<<statement_with_result, statement_without_result>>)

BinaryOperators == {"+", "-", "*", "/", "==", "!=", "<", "<=", ">", ">=", "&", "|"}

binary_operator == OneOf(BinaryOperators, "operator")

binary_operation_like ==
    Group("operations", <<Rule("prefix_operation_like"),
                          Many(Chain(<<binary_operator, Rule("prefix_operation_like")>>))>>)

expression == Rule("binary_operation_like")

prefix_operation == Group("not", <<Prefix("!"), Rule("prefix_operation_like")>>)

prefix_operation_like == Choice(<<prefix_operation, Rule("suffix_operation_like")>>)

call_operator == Group("call", <<Attempt(Sign("(")), SepEndBy(Rule("expression"), ","), Sign(")")>>)

record_field_operator == Group("field", <<Attempt(Sign(".")), identifier>>)

try_operator == Group("try", <<Sign("?")>>)

suffix_operator == Choice(<<call_operator, record_field_operator, try_operator>>)

suffix_operation_like == Group("suffixes", <<Rule("atomic_expression"), Many(suffix_operator)>>)

argument == Group("argument", <<identifier, Rule("type_")>>)

lambda ==
    Group("lambda", <<Attempt(Sign("\\(")), Group("arguments", <<SepEndBy(argument, ",")>>),
                      Sign(")"), Rule("type_"), Rule("block")>>)

if_branch == Chain(<<Rule("expression"), Rule("block")>>)

ElseIf == Attempt(Chain(<<Sign("else"), Sign("if")>>))

if_ ==
    Group("if", <<Attempt(Sign("if")), if_branch, Many(Chain(<<ElseIf, if_branch>>)),
                  Sign("else"), Rule("block")>>)

if_list ==
    Group("if list", <<Attempt(Chain(<<Sign("if"), Sign("[")>>)), identifier, Sign(","),
                       Sign("..."), identifier, Sign("]"), Sign("="), Rule("expression"),
                       Rule("block"), Sign("else"), Rule("block")>>)

if_map ==
    Group("if map", <<Attempt(Chain(<<Sign("if"), identifier, Sign("="), Rule("expression"),
                                      Sign("[")>>)),
                      Rule("expression"), Sign("]"), Rule("block"), Sign("else"), Rule("block")>>)

if_type_branch == Chain(<<Rule("type_"), Rule("block")>>)

if_type ==
    Group("if type", <<Attempt(Chain(<<Sign("if"), identifier, Sign("=")>>)), Rule("expression"),
                       Sign("as"), if_type_branch, Many(Chain(<<ElseIf, if_type_branch>>)),
                       Optional(Chain(<<Sign("else"), Rule("block")>>))>>)

record_field ==
    Group("record field", <<Attempt(identifier), Sign(":"), Rule("expression")>>)

record ==
    Group("record",
          <<Attempt(Chain(<<qualified_identifier("name"), Glued("{")>>)),
            Choice(<<Chain(<<Group("base", <<Sign("..."), Rule("expression"), Sign(",")>>),
                             SepEndBy1(record_field, ",")>>),
                     Chain(<<Group("base", <<>>), SepEndBy(record_field, ",")>>)>>),
            Sign("}")>>)

Spread == Group("spread", <<Sign("..."), Rule("expression")>>)

list_element == Choice(<<Rule("expression"), Spread>>)

list_literal ==
    Group("list", <<Attempt(Sign("[")), Rule("type_"), SepEndBy(list_element, ","), Sign("]")>>)

list_comprehension ==
    Group("comprehension",
          <<Attempt(Chain(<<Sign("["), Rule("type_"), Rule("expression"), Sign("for")>>)),
            identifier, Optional(Chain(<<Sign(","), identifier>>)), Sign("in"),
            Rule("expression"), Sign("]")>>)

map_element ==
    Choice(<<Group("entry", <<Attempt(Chain(<<Rule("expression"), Sign(":")>>)),
                              Rule("expression")>>),
             Spread, Rule("expression")>>)

map_literal ==
    Group("map", <<Attempt(Sign("{")), Rule("type_"), Sign(":"), Rule("type_"),
                   SepEndBy(map_element, ","), Sign("}")>>)

number_literal == Word("number", "number")

string_literal == Word("string", "string")

variable == qualified_identifier("variable")

atomic_expression ==
    Choice(<<if_list, if_map, if_type, if_, lambda, record, list_comprehension, list_literal,
             map_literal, number_literal, string_literal, variable,
             Chain(<<Sign("("), Rule("expression"), Sign(")")>>)>>)

\* The rules that refer to each other.
Grammar ==
    [type_ |-> type_, atomic_type |-> atomic_type, block |-> block, statement |-> statement,
     expression |-> expression, binary_operation_like |-> binary_operation_like,
     prefix_operation_like |-> prefix_operation_like,
     suffix_operation_like |-> suffix_operation_like,
     atomic_expression |-> atomic_expression, lambda |-> lambda]

-----------------------------------------------------------------------------
(* What is made of the parts of a rule *)

operator_priority(operator) ==
    CASE operator = "|" -> 1
      [] operator = "&" -> 2
      [] operator \in {"==", "!=", "<", "<=", ">", ">="} -> 3
      [] operator \in {"+", "-"} -> 4
      [] operator \in {"*", "/"} -> 5

\* An operation is where its operator is.
Operation(operator, lhs, rhs) ==
    Tree("operation", operator.text, operator.line, <<lhs, rhs>>)

\* Mutant: operators of the same priority take what follows them first.
RECURSIVE reduce_operations_right(_, _)
reduce_operations_right(lhs, pairs) ==
    IF pairs = <<>> THEN lhs
    ELSE Operation(pairs[1], lhs, reduce_operations_right(pairs[2], SubSeq(pairs, 3, Len(pairs))))

RECURSIVE reduce_operations(_, _)
\* Operators and operands in turn, by priorities. Later operators of a higher
\* priority than the first take their operands first.
reduce_operations(lhs, pairs) ==
    LET Priority(i) == operator_priority(pairs[2 * i - 1].text)
        Stops == {i \in 2 .. Len(pairs) \div 2 : Priority(i) <= Priority(1)}
        end == IF Stops = {} THEN Len(pairs) ELSE 2 * (CHOOSE i \in Stops : \A j \in Stops : i <= j) - 2
    IN  IF pairs = <<>> THEN lhs
        ELSE reduce_operations(
                Operation(pairs[1], lhs, reduce_operations(pairs[2], SubSeq(pairs, 3, end))),
                SubSeq(pairs, end + 1, Len(pairs)))

\* A suffix is where its sign is.
Suffixed(operand, suffix) == [suffix EXCEPT !.parts = <<operand>> \o @]

UnionType(lhs, rhs) == Tree("union type", "", lhs.line, <<lhs, rhs>>)

Build(kind, line, parts) ==
    CASE kind = "operations" -> reduce_operations(Head(parts), Tail(parts))
      [] kind = "suffixes" -> FoldLeft(Suffixed, Head(parts), Tail(parts))
      [] kind = "union type" -> FoldLeft(UnionType, Head(parts), Tail(parts))
      [] OTHER -> Tree(kind, "", line, parts)

\* A block ends with a value, fields of a record differ, and there is one foreign
\* calling convention.
IsValid(kind, parts) ==
    CASE kind = "block" -> Len(Last(parts).parts) = 1
      [] kind = "record" ->
            \A i, j \in 3 .. Len(parts) :
                parts[i].parts[1].text = parts[j].parts[1].text => i = j
      [] kind = "convention" -> parts[1].text = "c"
      [] OTHER -> TRUE

-----------------------------------------------------------------------------
(* Runs of parsers *)

Operators == BinaryOperators \cup {"=", "!", "?"}

\* A parser succeeds with trees, or fails.  It is at the token after the last one
\* that it has taken.
Success(at, trees) == [ok |-> TRUE, at |-> at, trees |-> trees]
Failure(at) == [ok |-> FALSE, at |-> at, trees |-> <<>>]

\* A sign of operator characters must not go on with another one.
ReadSign(text, tokens, i) ==
    LET RunsOn == /\ text \in Operators /\ i < Len(tokens)
                  /\ tokens[i + 1].glued /\ tokens[i + 1].text \in Operators
    IN  IF i > Len(tokens) \/ tokens[i].text # text \/ tokens[i].kind # "sign" THEN Failure(i)
        ELSE IF RunsOn THEN Failure(i + 1)
        ELSE Success(i + 1, <<>>)

Leaf(kind, token) == Tree(kind, token.text, token.line, <<>>)

LineAt(tokens, i) == IF i <= Len(tokens) THEN tokens[i].line ELSE 0

BuildIfValid(kind, line, result) ==
    IF ~ result.ok THEN result
    ELSE IF IsValid(kind, result.trees)
         THEN [result EXCEPT !.trees = <<Build(kind, line, @)>>]
         ELSE Failure(result.at)

\* (Sequences are read by halves so that TLC is not too deep in them.)
FirstHalf(sequence) == SubSeq(sequence, 1, Len(sequence) \div 2)
SecondHalf(sequence) == SubSeq(sequence, Len(sequence) \div 2 + 1, Len(sequence))

Prepend(trees, result) == IF result.ok THEN [result EXCEPT !.trees = trees \o @] ELSE result

RECURSIVE Read(_, _, _)

ReadNext(first, rest, tokens) ==
    IF first.ok THEN Prepend(first.trees, Read(rest, tokens, first.at)) ELSE first

\* The next alternatives, unless one has taken something.
ReadElse(first, rest, tokens, i) ==
    IF first.ok \/ first.at > i THEN first ELSE Read(rest, tokens, i)

ReadMore(first, parser, tokens, i) ==
    IF first.ok THEN Prepend(first.trees, Read(parser, tokens, first.at))
    ELSE IF first.at > i THEN first ELSE Success(i, <<>>)

\* What follows a separator may be missing.
ReadSeparated(first, parser, tokens) ==
    IF first.ok THEN Prepend(first.trees, Read(Optional(Chain(<<parser.sign, Optional(parser)>>)),
                                               tokens, first.at))
    ELSE first

Read(parser, tokens, i) ==
    CASE parser.rule = "sign" -> ReadSign(parser.text, tokens, i)
      [] parser.rule = "prefix" ->
            IF LineAt(tokens, i) > 0 /\ tokens[i].text = parser.text
            THEN Success(i + 1, <<>>) ELSE Failure(i)
      [] parser.rule = "glued" ->
            IF LineAt(tokens, i) > 0 /\ tokens[i].text = parser.text /\ tokens[i].glued
            THEN Success(i + 1, <<>>) ELSE Failure(i)
      [] parser.rule = "word" ->
            IF LineAt(tokens, i) > 0 /\ tokens[i].kind = parser.kind
            THEN Success(i + 1, <<Leaf(parser.tree, tokens[i])>>) ELSE Failure(i)
      [] parser.rule = "one of" ->
            IF LineAt(tokens, i) > 0 /\ tokens[i].text \in parser.texts
                /\ ReadSign(tokens[i].text, tokens, i).ok
            THEN Success(i + 1, <<Leaf(parser.tree, tokens[i])>>) ELSE Failure(i)
      [] parser.rule = "unless" ->
            IF ReadSign(parser.text, tokens, i).ok THEN Failure(i) ELSE Success(i, <<>>)
      [] parser.rule = "nothing" -> Success(i, <<>>)
      [] parser.rule = "end" -> IF i > Len(tokens) THEN Success(i, <<>>) ELSE Failure(i)
      [] parser.rule = "rule" -> Read(Grammar[parser.name], tokens, i)
      [] parser.rule = "attempt" ->
            LET result == Read(parser.parser, tokens, i)
            IN  IF result.ok THEN result ELSE Failure(i)
      [] parser.rule = "chain" ->
            CASE Len(parser.parsers) = 0 -> Success(i, <<>>)
              [] Len(parser.parsers) = 1 -> Read(parser.parsers[1], tokens, i)
              [] OTHER -> ReadNext(Read(Chain(FirstHalf(parser.parsers)), tokens, i),
                                   Chain(SecondHalf(parser.parsers)), tokens)
      [] parser.rule = "choice" ->
            IF Len(parser.parsers) = 1 THEN Read(parser.parsers[1], tokens, i)
            ELSE ReadElse(Read(Choice(FirstHalf(parser.parsers)), tokens, i),
                          Choice(SecondHalf(parser.parsers)), tokens, i)
      [] parser.rule = "many" ->
            ReadMore(Read(parser.parser, tokens, i), parser, tokens, i)
      [] parser.rule = "separated" ->
            ReadSeparated(Read(parser.parser, tokens, i), parser, tokens)
      [] parser.rule = "node" ->
            BuildIfValid(parser.kind, LineAt(tokens, i), Read(parser.parser, tokens, i))

\* The module of a text, if it has one.
Parse(tokens) == Read(module, tokens, 1)
=============================================================================
