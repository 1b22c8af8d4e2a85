-------------------------------- MODULE Format --------------------------------
(***************************************************************************)
(* The formatter of modules (lib/format/src/lib.rs, context.rs, ir).  The  *)
(* module has no state.                                                    *)
(*                                                                         *)
(* A document is a sequence of items: texts, spaces, lines, comments, and  *)
(* parts whose lines are broken or not.  Operators that are named after    *)
(* functions of the code describe the document of a tree; what depends on  *)
(* the comments that are left, the code's mutable context, is deferred in  *)
(* the description, and Expand goes through it in the order in which the   *)
(* code takes comments.  Indentation is left out.                          *)
(*                                                                         *)
(* A comment is a sequence of texts: the code may print several into one.  *)
(***************************************************************************)
EXTENDS Parse

CONSTANT Alphabet   \* names of modules and of what they define, in their order

Comment(text, line) == [text |-> text, line |-> line]

\* What documents are made of.
Item(item) == [item |-> item]
Token(kind, text) == <<[item |-> "text", kind |-> kind, text |-> text]>>
T(sign) == Token("sign", sign)
Space == <<Item("space")>>
Line == <<Item("line")>>
CommentText(text) == <<[item |-> "comment", text |-> text]>>
LineSuffix(text) == <<[item |-> "suffix", text |-> text]>>
Break(broken, document) == <<[item |-> "break", broken |-> broken, document |-> document]>>
flatten(document) == Break(FALSE, document)
break_(document) == Break(TRUE, document)

\* What depends on comments.
Compiled(tree) == <<[item |-> "tree", tree |-> tree]>>
BlockComment(line) == <<[item |-> "block comment", line |-> line]>>
SuffixComment(line) == <<[item |-> "suffix comment", line |-> line]>>
flatten_if(condition, document) ==
    <<[item |-> "flatten if", condition |-> condition, document |-> document]>>
Elements(flat, before, document, after) ==
    <<[item |-> "elements", flat |-> flat, before |-> before, document |-> document,
       after |-> after]>>
Statement(tree, next) == <<[item |-> "statement", tree |-> tree, next |-> next]>>

LineComment(line, document) == BlockComment(line) \o document \o SuffixComment(line)

\* The sequence of what a function gives.  (It is computed once.)
Computed(function) == <<>> \o function

Interspersed(documents, separator) ==
    FlattenSeq(Computed([i \in DOMAIN documents |->
                            IF i = 1 THEN documents[1] ELSE separator \o documents[i]]))

Each(Op(_), trees) == Computed([i \in DOMAIN trees |-> Op(trees[i])])

is_broken(document) ==
    \E i \in DOMAIN document : document[i].item = "break" /\ document[i].broken

RECURSIVE count_lines(_)
count_lines(document) ==
    CASE Len(document) = 0 -> 0
      [] Len(document) > 1 -> count_lines(FirstHalf(document))
                                + count_lines(SecondHalf(document))
      [] document[1].item = "line" -> 1
      [] document[1].item = "break" /\ document[1].broken -> count_lines(document[1].document)
      [] OTHER -> 0

Comma == T(",")
CommaLine == Comma \o Line

-----------------------------------------------------------------------------
(* Types *)

RECURSIVE collect_union_types(_)
collect_union_types(type) ==
    IF type.kind = "union type"
    THEN collect_union_types(type.parts[1]) \o collect_union_types(type.parts[2])
    ELSE <<type>>

RECURSIVE compile_type(_)
\* Members of a union are on lines of their own if the first two have been.
compile_union_type(types) ==
    LET Member(i) == IF i # Len(types) /\ types[i].kind = "function type"
                     THEN T("(") \o compile_type(types[i]) \o T(")")
                     ELSE compile_type(types[i])
        union == Interspersed([i \in DOMAIN types |-> Member(i)], Space \o T("|") \o Line)
    IN  Break(types[1].line # types[2].line \/ is_broken(union), union)

compile_type(type) ==
    CASE type.kind = "function type" ->
            T("\\(") \o Interspersed(Each(compile_type, type.parts[1].parts), Comma \o Space)
                \o T(")") \o Space \o compile_type(type.parts[2])
      [] type.kind = "list type" -> T("[") \o compile_type(type.parts[1]) \o T("]")
      [] type.kind = "map type" ->
            T("{") \o compile_type(type.parts[1]) \o T(":") \o Space
                \o compile_type(type.parts[2]) \o T("}")
      [] type.kind = "reference" -> Token("name", type.text)
      [] type.kind = "union type" -> compile_union_type(collect_union_types(type))

-----------------------------------------------------------------------------
(* Functions and blocks *)

compile_argument(argument_) ==
    LineComment(argument_.parts[2].line,
                Token("name", argument_.parts[1].text) \o Space \o compile_type(argument_.parts[2]))

are_arguments_flat(arguments, line) ==
    arguments = <<>> \/ arguments[1].parts[2].line = line

compile_signature(arguments, result, line) ==
    LET documents == Interspersed(Each(compile_argument, arguments), CommaLine)
    IN  T("\\(")
            \o (IF are_arguments_flat(arguments, line) THEN flatten(documents)
                ELSE break_(Line \o documents \o CommaLine))
            \o T(")") \o Space \o compile_type(result)

Value(body) == Last(body.parts).parts[1]

compile_lambda(lambda_) ==
    LET arguments == lambda_.parts[1].parts
    IN  compile_signature(arguments, lambda_.parts[2], lambda_.line) \o Space
            \o flatten_if(/\ are_arguments_flat(arguments, lambda_.line)
                          /\ lambda_.line = Value(lambda_.parts[3]).line,
                          Compiled(lambda_.parts[3]))

compile_block(block_) ==
    LET statements == Front(block_.parts)
        Next(i) == IF i < Len(statements) THEN statements[i + 1].line ELSE Value(block_).line
    IN  T("{") \o Line
            \o FlattenSeq([i \in DOMAIN statements |->
                    BlockComment(statements[i].line) \o Statement(statements[i], Next(i))])
            \o LineComment(Value(block_).line, Compiled(Value(block_)))
            \o Line \o T("}")

compile_statement(statement_) ==
    (IF Len(statement_.parts) = 2
     THEN Token("name", statement_.parts[1].text) \o Space \o T("=") \o Space
     ELSE <<>>)
        \o Compiled(Last(statement_.parts)) \o SuffixComment(statement_.line) \o break_(Line)

-----------------------------------------------------------------------------
(* Expressions *)

compile_call(call) ==
    LET arguments == Tail(call.parts)
        documents == Interspersed([i \in DOMAIN arguments |->
                                      LineComment(arguments[i].line, Compiled(arguments[i]))],
                                  CommaLine)
    IN  Compiled(call.parts[1]) \o T("(")
            \o Elements(arguments = <<>> \/ call.parts[1].line = arguments[1].line,
                        Line, documents, CommaLine)
            \o T(")")

compile_if_list(e) ==
    T("if") \o Space \o T("[") \o Token("name", e.parts[1].text) \o Comma \o Space \o T("...")
        \o Token("name", e.parts[2].text) \o T("]") \o Space \o T("=") \o Space
        \o Compiled(e.parts[3]) \o Space \o Compiled(e.parts[4])
        \o Space \o T("else") \o Space \o Compiled(e.parts[5])

compile_if_map(e) ==
    T("if") \o Space \o Token("name", e.parts[1].text) \o Space \o T("=") \o Space
        \o Compiled(e.parts[2]) \o T("[") \o Compiled(e.parts[3]) \o T("]") \o Space
        \o Compiled(e.parts[4]) \o Space \o T("else") \o Space \o Compiled(e.parts[5])

\* On one line if the value of the first block has been on that of the if.
compile_if(e) ==
    LET Branch(i) == T("if") \o Space \o Compiled(e.parts[2 * i - 1]) \o Space
                        \o Compiled(e.parts[2 * i]) \o Space \o T("else") \o Space
        branches == Len(e.parts) \div 2
    IN  flatten_if(branches = 1 /\ e.line = Value(e.parts[2]).line,
                   FlattenSeq([i \in 1 .. branches |-> Branch(i)]) \o Compiled(Last(e.parts)))

compile_if_type(e) ==
    LET Branch(i) == compile_type(e.parts[2 * i + 1]) \o Space \o Compiled(e.parts[2 * i + 2])
        branches == Len(e.parts) \div 2 - 1
        Else == IF Len(e.parts) % 2 = 0 THEN <<>>
                ELSE Space \o T("else") \o Space \o Compiled(Last(e.parts))
    IN  flatten_if(branches + (Len(e.parts) % 2) <= 2 /\ e.line = Value(e.parts[4]).line,
                   T("if") \o Space \o Token("name", e.parts[1].text) \o Space \o T("=") \o Space
                    \o Compiled(e.parts[2]) \o Space \o T("as") \o Space
                    \o Interspersed([i \in 1 .. branches |-> Branch(i)],
                                    Space \o T("else") \o Space \o T("if") \o Space)
                    \o Else)

\* An element that is spread is where its expression is.
ElementLine(element) == IF element.kind = "spread" THEN element.parts[1].line ELSE element.line

compile_element(element) ==
    CASE element.kind = "spread" -> T("...") \o Compiled(element.parts[1])
      [] element.kind = "entry" ->
            Compiled(element.parts[1]) \o T(":") \o Space \o Compiled(element.parts[2])
      [] element.kind = "record field" ->
            Token("name", element.parts[1].text) \o T(":") \o Space \o Compiled(element.parts[2])
      [] OTHER -> Compiled(element)

compile_elements(elements) ==
    [i \in DOMAIN elements |->
        LineComment(ElementLine(elements[i]), compile_element(elements[i]))]

compile_list(e) ==
    LET elements == Tail(e.parts)
        documents == Interspersed([i \in DOMAIN elements |-> Line \o compile_elements(elements)[i]],
                                  Comma)
    IN  T("[") \o compile_type(e.parts[1])
            \o Elements(elements = <<>> \/ e.line = ElementLine(elements[1]),
                        <<>>, documents, CommaLine)
            \o T("]")

compile_map(e) ==
    LET elements == SubSeq(e.parts, 3, Len(e.parts))
        documents == Interspersed([i \in DOMAIN elements |-> Line \o compile_elements(elements)[i]],
                                  Comma)
    IN  T("{") \o compile_type(e.parts[1]) \o T(":") \o Space \o compile_type(e.parts[2])
            \o Elements(elements = <<>> \/ e.line = ElementLine(elements[1]),
                        <<>>, documents, CommaLine)
            \o T("}")

compile_comprehension(e) ==
    LET element == e.parts[2]
        Name(x) == Token("name", x.text)
        names == Interspersed(Each(Name, SubSeq(e.parts, 3, Len(e.parts) - 1)), Comma \o Space)
        documents == Line \o LineComment(element.line, Compiled(element)) \o Line
                        \o LineComment(element.line,
                                       T("for") \o Space \o names \o Space \o T("in") \o Space
                                        \o Compiled(Last(e.parts)))
    IN  T("[") \o compile_type(e.parts[1])
            \o Elements(e.line = element.line, <<>>, documents, Line) \o T("]")

\* A base is an element like those that are spread.
compile_record(e) ==
    LET base == e.parts[2].parts
        elements == [i \in DOMAIN base |-> Tree("spread", "", base[i].line, <<base[i]>>)]
                        \o SubSeq(e.parts, 3, Len(e.parts))
        documents == Interspersed(compile_elements(elements), CommaLine)
    IN  Token("name", e.parts[1].text) \o T("{")
            \o Elements(elements = <<>> \/ e.line = ElementLine(elements[1]),
                        Line, documents, CommaLine)
            \o T("}")

compile_unary_operation(e) ==
    LET operand == IF e.parts[1].kind = "operation"
                   THEN T("(") \o Compiled(e.parts[1]) \o T(")")
                   ELSE Compiled(e.parts[1])
    IN  IF e.kind = "not" THEN T("!") \o operand ELSE operand \o T("?")

\* Mutant: operands never have parentheses.
compile_bare_operand(operand, parent) == Compiled(operand)

compile_operand(operand, parent) ==
    IF operand.kind = "operation" /\ operator_priority(operand.text) < operator_priority(parent)
    THEN T("(") \o Compiled(operand) \o T(")")
    ELSE Compiled(operand)

compile_binary_operation(e) ==
    flatten_if(e.parts[1].line = e.parts[2].line,
               compile_operand(e.parts[1], e.text)
                \o Line \o T(e.text) \o Space \o compile_operand(e.parts[2], e.text))

compile_expression(e) ==
    CASE e.kind = "operation" -> compile_binary_operation(e)
      [] e.kind = "call" -> compile_call(e)
      [] e.kind = "if" -> compile_if(e)
      [] e.kind = "if list" -> compile_if_list(e)
      [] e.kind = "if map" -> compile_if_map(e)
      [] e.kind = "if type" -> compile_if_type(e)
      [] e.kind = "lambda" -> compile_lambda(e)
      [] e.kind = "list" -> compile_list(e)
      [] e.kind = "map" -> compile_map(e)
      [] e.kind = "comprehension" -> compile_comprehension(e)
      [] e.kind = "record" -> compile_record(e)
      [] e.kind = "field" -> Compiled(e.parts[1]) \o T(".") \o Token("name", e.parts[2].text)
      [] e.kind \in {"not", "try"} -> compile_unary_operation(e)
      [] e.kind = "variable" -> Token("name", e.text)
      [] e.kind \in {"number", "string"} -> Token(e.kind, e.text)
      [] e.kind = "block" -> compile_block(e)
-----------------------------------------------------------------------------
(* Definitions *)

Rank(text) == CHOOSE i \in DOMAIN Alphabet : Alphabet[i] = text

Sorted(trees) == SortSeq(trees, LAMBDA x, y : Rank(x.text) < Rank(y.text))

compile_import(import_) ==
    LET prefix == import_.parts[2].parts
        names == Sorted(import_.parts[3].parts)
        Name(x) == Token("name", x.text)
    IN  BlockComment(import_.line) \o T("import") \o Space
            \o Token(import_.parts[1].kind, import_.parts[1].text)
            \o (IF prefix = <<>> THEN <<>>
                ELSE Space \o T("as") \o Space \o Token("name", prefix[1].text))
            \o (IF names = <<>> THEN <<>>
                ELSE Space \o T("{") \o Space
                        \o Interspersed(Each(Name, names), Comma \o Space) \o Space \o T("}"))
            \o Line

compile_imports(imports) ==
    FlattenSeq(Each(compile_import,
                    SortSeq(imports, LAMBDA x, y : Rank(x.parts[1].text) < Rank(y.parts[1].text))))

compile_foreign_import(import_) ==
    BlockComment(import_.line) \o T("import") \o Space \o T("foreign")
        \o (IF import_.parts[1].parts = <<>> THEN <<>> ELSE Space \o Token("string", "c"))
        \o Space \o Token("name", import_.parts[2].text) \o Space
        \o compile_type(import_.parts[3]) \o Line

compile_foreign_imports(imports) == FlattenSeq(Each(compile_foreign_import, imports))

compile_record_definition(definition_) ==
    LET fields == Tail(definition_.parts)
        Field(field) == Line \o Token("name", field.parts[1].text) \o Space
                            \o compile_type(field.parts[2])
    IN  BlockComment(definition_.line) \o T("type") \o Space
            \o Token("name", definition_.parts[1].text) \o Space \o T("{")
            \o (IF fields = <<>> THEN <<>> ELSE FlattenSeq(Each(Field, fields)) \o Line)
            \o T("}") \o Line

compile_type_alias(alias) ==
    LET type == compile_type(alias.parts[2])
    IN  BlockComment(alias.line) \o T("type") \o Space \o Token("name", alias.parts[1].text)
            \o Space \o T("=") \o (IF is_broken(type) THEN Line ELSE Space) \o type \o Line

compile_type_definition(definition_) ==
    IF definition_.kind = "type alias" THEN compile_type_alias(definition_)
    ELSE compile_record_definition(definition_)

\* A definition is where its name is.
compile_function_definition(definition_) ==
    LET export == definition_.parts[1].parts
    IN  BlockComment(definition_.parts[2].line)
            \o (IF export = <<>> THEN <<>>
                ELSE T("foreign") \o Space
                        \o (IF export[1].parts = <<>> THEN <<>> ELSE Token("string", "c") \o Space))
            \o Token("name", definition_.parts[2].text) \o Space \o T("=") \o Space
            \o compile_lambda(definition_.parts[3]) \o Line

-----------------------------------------------------------------------------
(* Comments *)

Before(comments, line) == SelectSeq(comments, LAMBDA comment : comment.line < line)
NotBefore(comments, line) == SelectSeq(comments, LAMBDA comment : comment.line >= line)

\* Comments on lines of their own, with a blank line where there has been one.
compile_all_comments(comments, last) ==
    LET Next(i) == IF i < Len(comments) THEN comments[i + 1].line ELSE last
    IN  FlattenSeq([i \in DOMAIN comments |->
            CommentText(comments[i].text) \o break_(Line)
                \o (IF comments[i].line + 1 < Next(i) THEN Line ELSE <<>>)])

Expanded(document, comments) == [document |-> document, comments |-> comments]

compile_block_comment(line, comments) ==
    Expanded(compile_all_comments(Before(comments, line), line), NotBefore(comments, line))

compile_suffix_comment(line, comments) ==
    LET current == Before(comments, line + 1)
    IN  Expanded(FlattenSeq([i \in DOMAIN current |-> LineSuffix(current[i].text)]),
                 NotBefore(comments, line + 1))

BreakAs(broken, result) == [result EXCEPT !.document = Break(broken, @)]

\* Mutant: only the condition decides, whatever is inside.
FlattenedAlways(condition, result) == [result EXCEPT !.document = Break(~ condition, @)]

FlattenedIf(condition, result) ==
    [result EXCEPT !.document = Break(~ condition \/ is_broken(@), @)]

Enclosed(item, result) ==
    [result EXCEPT !.document = IF item.flat /\ ~ is_broken(@) THEN flatten(@)
                                ELSE break_(item.before \o @ \o item.after)]

\* A blank line follows a statement if there has been one.
Spaced(lines, result) ==
    [result EXCEPT !.document = IF count_lines(@) >= lines THEN @ ELSE @ \o Line]

Joined(first, rest) == Expanded(first.document \o rest.document, rest.comments)

RECURSIVE Expand(_, _)
ExpandItem(item, comments) ==
    CASE item.item = "tree" -> Expand(compile_expression(item.tree), comments)
      [] item.item = "block comment" -> compile_block_comment(item.line, comments)
      [] item.item = "suffix comment" -> compile_suffix_comment(item.line, comments)
      [] item.item = "flatten if" ->
            FlattenedIf(item.condition, Expand(item.document, comments))
      [] item.item = "elements" -> Enclosed(item, Expand(item.document, comments))
      [] item.item = "statement" ->
            Spaced(item.next - item.tree.line - Len(Before(comments, item.next)),
                   Expand(compile_statement(item.tree), comments))
      [] item.item = "break" ->
            BreakAs(item.broken, Expand(item.document, comments))
      [] OTHER -> Expanded(<<item>>, comments)

ExpandRest(first, rest) == Joined(first, Expand(rest, first.comments))

Expand(document, comments) ==
    CASE Len(document) = 0 -> Expanded(<<>>, comments)
      [] Len(document) = 1 -> ExpandItem(document[1], comments)
      [] OTHER -> ExpandRest(Expand(FirstHalf(document), comments),
                             SecondHalf(document))

-----------------------------------------------------------------------------
(* Modules *)

IsExternal(import_) == import_.parts[1].kind = "external path"

\* The sections of a module that are not empty have blank lines between them.
WithSection(all, section) ==
    IF count_lines(section.document) = 0 THEN [all EXCEPT !.comments = section.comments]
    ELSE [section EXCEPT !.document = all.document
                                        \o (IF count_lines(all.document) = 0 THEN <<>> ELSE Line)
                                        \o @]

compile_remaining_block_comment(all) ==
    WithSection(all, Expanded(compile_all_comments(all.comments, 0), <<>>))

compile_module(module_, comments) ==
    LET imports == module_.parts[1].parts
        sections ==
            <<compile_imports(SelectSeq(imports, IsExternal)),
              compile_imports(SelectSeq(imports, LAMBDA x : ~ IsExternal(x))),
              compile_foreign_imports(module_.parts[2].parts),
              Interspersed(Each(compile_type_definition, module_.parts[3].parts), Line),
              Interspersed(Each(compile_function_definition, module_.parts[4].parts), Line)>>
    IN  compile_remaining_block_comment(
            FoldLeft(LAMBDA all, section : WithSection(all, Expand(section, all.comments)),
                     Expanded(<<>>, comments), sections))

-----------------------------------------------------------------------------
(* Texts *)

\* What has been printed: tokens, comments and the one on the current line, comments
\* that wait for its end, and whether there is no blank at the end.
Printing == [tokens |-> <<>>, comments |-> <<>>, line |-> 1, comment |-> <<>>,
             line_suffixes |-> <<>>, glued |-> FALSE]

format_line(p) ==
    LET text == p.comment \o FlattenSeq(p.line_suffixes)
    IN  [p EXCEPT !.comments = IF text = <<>> THEN @ ELSE Append(@, Comment(text, p.line)),
                  !.comment = <<>>, !.line_suffixes = <<>>, !.line = @ + 1, !.glued = FALSE]

FormatText(p, item) ==
    [p EXCEPT !.tokens = Append(@, [kind |-> item.kind, text |-> item.text, line |-> p.line,
                                    glued |-> p.glued]),
              !.glued = TRUE]

RECURSIVE format_document(_, _, _)
FormatItem(p, item, broken) ==
    CASE item.item = "break" -> format_document(p, item.document, item.broken)
      [] item.item = "line" ->
            IF broken THEN format_line(p) ELSE [p EXCEPT !.glued = FALSE]
      [] item.item = "space" -> [p EXCEPT !.glued = FALSE]
      [] item.item = "suffix" -> [p EXCEPT !.line_suffixes = Append(@, item.text)]
      [] item.item = "comment" -> [p EXCEPT !.comment = @ \o item.text]
      [] item.item = "text" -> FormatText(p, item)

format_document(p, document, broken) ==
    CASE Len(document) = 0 -> p
      [] Len(document) = 1 -> FormatItem(p, document[1], broken)
      [] OTHER -> format_document(
                    format_document(p, FirstHalf(document), broken),
                    SecondHalf(document), broken)

\* The text of a module with the comments that its text has had.
Format(module_, comments) ==
    LET p == format_document(Printing, compile_module(module_, comments).document, TRUE)
    IN  [tokens |-> p.tokens, comments |-> p.comments]
=============================================================================
