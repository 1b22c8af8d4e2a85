------------------------------- MODULE MCSource -------------------------------
(* Small modules, written by the rules of the language reference, in every *)
(* layout with at most two breaks.                                         *)
EXTENDS Source

N(kind, name, parts) == Tree(kind, name, 0, parts)
Var(x) == N("variable", x, <<>>)
Num(n) == N("number", n, <<>>)
Named(x) == N("name", x, <<>>)
Ref(x) == N("reference", x, <<>>)
Op(o, l, r) == N("operation", o, <<l, r>>)
Not(e) == N("not", "", <<e>>)
Try(e) == N("try", "", <<e>>)
CallOf(f, es) == N("call", "", <<f>> \o es)
FieldOf(e, x) == N("field", "", <<e, Named(x)>>)
Value_(e) == N("block", "", <<N("statement", "", <<e>>)>>)
LetIn(x, e, v) == N("block", "", <<N("statement", "", <<Named(x), e>>), N("statement", "", <<v>>)>>)
Do(e, v) == N("block", "", <<N("statement", "", <<e>>), N("statement", "", <<v>>)>>)
Function(body) == N("lambda", "", <<N("arguments", "", <<N("argument", "", <<Named("x"), Ref("t")>>)>>), Ref("t"), body>>)
Def(x, l) == N("function", "", <<N("exports", "", <<>>), Named(x), l>>)
G(kind, parts) == N(kind, "", parts)
ModuleOf(fs) == G("module", <<G("imports", <<>>), G("foreign imports", <<>>), G("types", <<>>), G("functions", fs)>>)

S(t) == <<[kind |-> "sign", text |-> t, glued |-> FALSE]>>
GluedS(t) == <<[kind |-> "sign", text |-> t, glued |-> TRUE]>>
Wd(kind, t) == <<[kind |-> kind, text |-> t, glued |-> FALSE]>>
Sep(ts, s) == Interspersed(ts, S(s))
ElseIf_(ts) == Interspersed(ts, S("else") \o S("if"))

RECURSIVE Write(_)
Paren(c, e) == IF c THEN S("(") \o Write(e) \o S(")") ELSE Write(e)
Prio(e) == IF e.kind = "operation" THEN operator_priority(e.text) ELSE 6
Write(e) ==
    LET p == e.parts
        n == Len(p)
        All(i) == Computed([j \in 1 .. n - i + 1 |-> Write(p[i + j - 1])])
        W(i) == Write(p[i])
    IN
    CASE e.kind \in {"variable", "reference", "name"} -> Wd("name", e.text)
      [] e.kind \in {"number", "string", "internal path", "external path"} -> Wd(e.kind, e.text)
      [] e.kind = "operation" ->
            Paren(Prio(p[1]) < Prio(e), p[1]) \o S(e.text) \o Paren(Prio(p[2]) <= Prio(e), p[2])
      [] e.kind = "not" -> S("!") \o Paren(p[1].kind = "operation", p[1])
      [] e.kind = "try" -> Paren(p[1].kind \in {"operation", "not"}, p[1]) \o S("?")
      [] e.kind = "field" -> Paren(p[1].kind \in {"operation", "not"}, p[1]) \o S(".") \o W(2)
      [] e.kind = "call" ->
            Paren(p[1].kind \in {"operation", "not"}, p[1]) \o S("(") \o Sep(All(2), ",") \o S(")")
      [] e.kind = "block" -> S("{") \o FlattenSeq(All(1)) \o S("}")
      [] e.kind = "statement" -> IF n = 2 THEN W(1) \o S("=") \o W(2) ELSE W(1)
      [] e.kind \in {"argument", "field type"} -> W(1) \o W(2)
      [] e.kind = "arguments" -> Sep(All(1), ",")
      [] e.kind = "lambda" -> S("\\(") \o W(1) \o S(")") \o W(2) \o W(3)
      [] e.kind = "if" ->
            Sep(Computed([i \in 1 .. n \div 2 |-> S("if") \o W(2 * i - 1) \o W(2 * i)]), "else")
                \o S("else") \o W(n)
      [] e.kind = "if list" ->
            S("if") \o S("[") \o W(1) \o S(",") \o S("...") \o W(2) \o S("]") \o S("=") \o W(3)
                \o W(4) \o S("else") \o W(5)
      [] e.kind = "if map" ->
            S("if") \o W(1) \o S("=") \o W(2) \o S("[") \o W(3) \o S("]") \o W(4) \o S("else") \o W(5)
      [] e.kind = "if type" ->
            S("if") \o W(1) \o S("=") \o W(2) \o S("as")
                \o ElseIf_(Computed([i \in 1 .. n \div 2 - 1 |-> W(2 * i + 1) \o W(2 * i + 2)]))
                \o (IF n % 2 = 1 THEN S("else") \o W(n) ELSE <<>>)
      [] e.kind \in {"base", "spread"} ->
            IF n = 0 THEN <<>> ELSE S("...") \o W(1)
      [] e.kind \in {"entry", "record field"} -> W(1) \o S(":") \o W(2)
      [] e.kind = "record" ->
            W(1) \o GluedS("{") \o Sep((IF p[2].parts = <<>> THEN <<>> ELSE <<W(2)>>) \o All(3), ",")
                \o S("}")
      [] e.kind = "list" -> S("[") \o W(1) \o Sep(All(2), ",") \o S("]")
      [] e.kind = "map" -> S("{") \o W(1) \o S(":") \o W(2) \o Sep(All(3), ",") \o S("}")
      [] e.kind = "comprehension" ->
            S("[") \o W(1) \o W(2) \o S("for") \o Sep(SubSeq(All(3), 1, n - 3), ",")
                \o S("in") \o W(n) \o S("]")
      [] e.kind = "list type" -> S("[") \o W(1) \o S("]")
      [] e.kind = "map type" -> S("{") \o W(1) \o S(":") \o W(2) \o S("}")
      [] e.kind = "function type" -> S("\\(") \o W(1) \o S(")") \o W(2)
      [] e.kind = "union type" ->
            Paren(p[1].kind = "function type", p[1]) \o S("|")
                \o Paren(p[2].kind = "function type", p[2])
      [] e.kind = "import" ->
            S("import") \o W(1)
                \o (IF p[2].parts = <<>> THEN <<>> ELSE S("as") \o Write(p[2].parts[1]))
                \o (IF p[3].parts = <<>> THEN <<>>
                    ELSE S("{") \o Sep([i \in DOMAIN p[3].parts |-> Write(p[3].parts[i])], ",")
                            \o S("}"))
      [] e.kind = "foreign import" -> S("import") \o S("foreign") \o W(1) \o W(2) \o W(3)
      [] e.kind = "record definition" -> S("type") \o W(1) \o S("{") \o FlattenSeq(All(2)) \o S("}")
      [] e.kind = "type alias" -> S("type") \o W(1) \o S("=") \o W(2)
      [] e.kind = "export" -> S("foreign") \o FlattenSeq(All(1))
      [] e.kind = "function" -> W(1) \o W(2) \o S("=") \o W(3)
      [] OTHER -> FlattenSeq(All(1))

\* Gaps after tokens.
Breaks == {"line", "blank"}
Notes == {"comment", "own"}
Gaps == Breaks \cup Notes
Height(g) == CASE g = "none" -> 0 [] g \in {"line", "comment"} -> 1 [] OTHER -> 2
LaidOut(tokens, gap) ==
    LET LineOf(i) == 1 + FoldSet(LAMBDA j, n : n + Height(gap[j]), 0, {j \in DOMAIN gap : j < i})
        commented == SetToSortSeq({i \in DOMAIN gap : gap[i] \in {"comment", "own"}}, <)
    IN  [tokens |-> [i \in DOMAIN tokens |->
            [kind |-> tokens[i].kind, text |-> tokens[i].text, line |-> LineOf(i),
             glued |-> tokens[i].glued]],
         comments |-> [k \in DOMAIN commented |->
            Comment(<<k>>, LineOf(commented[k]) + (IF gap[commented[k]] = "own" THEN 1 ELSE 0))]]

\* Layouts with at most so many gaps, none of them before a token that is glued. There
\* are no comments before the signs that a function begins with.
Layouts(tokens, number, gaps) ==
    LET n == Len(tokens)
        places == {i \in 1 .. n : i = n \/ ~ tokens[i + 1].glued}
        GapsAt(i) == IF i < n /\ tokens[i + 1].text \in {"=", "\\("} THEN gaps \ Notes ELSE gaps
    IN  {[i \in 1 .. n |-> "none"]}
            \cup UNION {{[i \in 1 .. n |-> IF i \in DOMAIN g THEN g[i] ELSE "none"] :
                            g \in {g \in [B -> gaps] : \A i \in B : g[i] \in GapsAt(i)}} :
                        B \in {{f[k] : k \in 1 .. number} : f \in [1 .. number -> places]}}

SourcesOf(module_, number, gaps) ==
    LET tokens == Write(module_) IN
    {LaidOut(tokens, gap) @@ [module |-> module_] : gap \in Layouts(tokens, number, gaps)}

x == Var("x")
y == Var("y")
z == Var("z")
t == Ref("t")
u == Ref("u")
B_(e) == Value_(e)
Main_(b) == ModuleOf(<<Def("f", Function(b))>>)
Expr(e) == Main_(Value_(e))

Operators_ == {"|", "&", "==", "+", "-", "*"}
Trees == {Op(o, Op(q, x, y), z) : o, q \in Operators_}
    \cup {Op(o, x, Op(q, y, z)) : o, q \in {"|", "&", "==", "+"}} 
    \cup {Not(Op("|", x, y)), Op("|", Not(x), y), Try(x), Not(Try(x))}
Prioritized(e) ==
    e.kind = "operation" /\ e.parts[2].kind = "operation" => Prio(e.parts[2]) # Prio(e)

Fld(n, e) == G("record field", <<Named(n), e>>)
Spread_(e) == G("spread", <<e>>)
Fn(ts, r) == G("function type", <<G("arguments", ts), r>>)
Or(a, b) == G("union type", <<a, b>>)
Exprs == {
    G("if", <<x, B_(y), B_(z)>>),
    G("if", <<x, B_(y), Op("|", x, y), B_(y), B_(z)>>),
    G("if list", <<Named("x"), Named("y"), z, B_(x), B_(y)>>),
    G("if map", <<Named("x"), y, z, B_(x), B_(y)>>),
    G("if type", <<Named("x"), y, t, B_(x), B_(y)>>),
    G("if type", <<Named("x"), y, t, B_(x), u, B_(x)>>),
    G("list", <<t, x, Spread_(y)>>),
    G("list", <<t>>),
    G("map", <<t, u, G("entry", <<x, y>>), Spread_(z)>>),
    G("comprehension", <<t, CallOf(x, <<y>>), Named("y"), z>>),
    G("comprehension", <<t, x, Named("x"), Named("y"), z>>),
    G("record", <<Named("x"), G("base", <<>>), Fld("y", y), Fld("z", z)>>),
    G("record", <<Named("x"), G("base", <<y>>), Fld("z", z)>>),
    Try(FieldOf(CallOf(x, <<>>), "y")),
    Function(LetIn("y", x, y)) }

Imported_(kind, name, prefix, names) ==
    G("import", <<N(kind, name, <<>>), G("prefix", prefix), G("names", names)>>)
Definitions == {
    G("module", <<G("imports", <<Imported_("internal path", "b", <<>>, <<Named("b"), Named("a")>>),
                                 Imported_("external path", "a", <<Named("b")>>, <<>>)>>),
                  G("foreign imports", <<>>), G("types", <<>>),
                  G("functions", <<Def("f", Function(B_(x)))>>)>>),
    G("module", <<G("imports", <<>>),
                  G("foreign imports",
                    <<G("foreign import", <<G("conventions", <<>>), Named("a"), Fn(<<t>>, u)>>)>>),
                  G("types",
                    <<G("type alias", <<Named("a"), Or(Or(Fn(<<>>, t), t), G("list type", <<u>>))>>),
                      G("record definition", <<Named("b"), G("field type", <<Named("x"), t>>),
                                               G("field type", <<Named("y"), u>>)>>)>>),
                  G("functions", <<>>)>>) }

Laid == {Main_(LetIn("y", CallOf(x, <<y, z>>), y)), Expr(G("list", <<t, x, y>>))}

\* Texts that mean nothing: a block without a value, a field twice, and a calling
\* convention that there is not.
Meaningless == {
    Main_(N("block", "", <<N("statement", "", <<Named("y"), x>>)>>)),
    Expr(G("record", <<Named("x"), G("base", <<>>), Fld("y", y), Fld("y", z)>>)),
    ModuleOf(<<G("function", <<G("exports", <<G("export", <<N("string", "d", <<>>)>>)>>),
                               Named("f"), Function(B_(x))>>)>>)}

-----------------------------------------------------------------------------
(* Modules with names from other modules *)

FooPath == "Foo"
BarPath == "dir'Bar"
ImportFoo(prefix, names) ==
    Imported_("internal path", FooPath, prefix, [i \in DOMAIN names |-> Named(names[i])])
ImportBar(prefix, names) ==
    Imported_("external path", BarPath, prefix, [i \in DOMAIN names |-> Named(names[i])])

Whole(imports, foreign_, types, functions) ==
    G("module", <<G("imports", imports), G("foreign imports", foreign_), G("types", types),
                  G("functions", functions)>>)
Foreign_(name) == G("foreign import", <<G("conventions", <<>>), Named(name), Fn(<<>>, Ref("number"))>>)
Alias_(name, type) == G("type alias", <<Named(name), type>>)
RecordOf_(name, fields) ==
    G("record definition", <<Named(name)>>
        \o [i \in DOMAIN fields |-> G("field type", <<Named(fields[i][1]), fields[i][2]>>)])
Number_ == Ref("number")
Constant_(name, value) == Def(name, G("lambda", <<G("arguments", <<>>), Number_, B_(value)>>))
Make_(name, fields) == G("record", <<Named(name), G("base", <<>>)>> \o fields)
Change_(name, base, fields) == G("record", <<Named(name), G("base", <<base>>)>> \o fields)

\* Types that can be imported: a closed and an open record, an alias of a private record.
FooModule == Whole(<<>>, <<>>,
    <<RecordOf_("T", <<<<"x", Number_>>>>), RecordOf_("O", <<<<"X", Number_>>>>),
      RecordOf_("p", <<<<"x", Or(Ref("T"), Ref("none"))>>>>), Alias_("A", Ref("p"))>>,
    <<Constant_("G", Num("1")), Constant_("g", CallOf(Var("G"), <<>>))>>)
BarModule == Whole(<<ImportFoo(<<>>, <<"T">>)>>, <<>>,
    <<Alias_("B", Ref("T")), RecordOf_("R", <<<<"x", Ref("Foo'A")>>>>)>>,
    <<Def("H", G("lambda", <<G("arguments", <<>>), Ref("Foo'O"),
                             B_(Make_("Foo'O", <<Fld("X", CallOf(Var("Foo'G"), <<>>))>>))>>))>>)
MCLibrary ==
    <<[path |-> [kind |-> "internal path", text |-> FooPath], module |-> FooModule],
      [path |-> [kind |-> "external path", text |-> BarPath], module |-> BarModule]>>
MCPrelude == <<Whole(<<>>, <<>>, <<RecordOf_("P", <<<<"x", Number_>>>>)>>,
                     <<Constant_("G", Num("0"))>>)>>
MCLastComponent == [path \in {FooPath, BarPath, "None"} |-> IF path = BarPath THEN "Bar" ELSE path]
MCPublicNames == {"T", "O", "A", "G", "B", "R", "H", "P", "X", "F"}

\* Each kind of expression that binds a name, with a use of names in each part.
Binding(name, other, use) == {
    G("lambda", <<G("arguments", <<G("argument", <<Named(name), Number_>>)>>), Number_, B_(use)>>),
    G("if", <<use, LetIn(name, use, use), B_(use)>>),
    G("if list", <<Named(name), Named(other), use, B_(use), B_(use)>>),
    G("if list", <<Named(other), Named(name), use, B_(use), B_(use)>>),
    G("if map", <<Named(name), use, use, B_(use), B_(use)>>),
    G("if type", <<Named(name), use, Number_, B_(use), B_(use)>>),
    G("comprehension", <<Number_, use, Named(name), use>>),
    G("comprehension", <<Number_, use, Named(other), Named(name), use>>),
    G("list", <<Number_, Not(use), Spread_(use)>>),
    G("map", <<Number_, Number_, G("entry", <<use, use>>), Spread_(use)>>) }

FooImports == {<<>>, <<ImportFoo(<<>>, <<>>)>>, <<ImportFoo(<<Named("Q")>>, <<>>)>>,
               <<ImportFoo(<<>>, <<"G">>)>>}
BarImports == {<<>>, <<ImportBar(<<>>, <<"H">>)>>, <<ImportBar(<<Named("Foo")>>, <<>>)>>}
Uses == {"x", "f", "G", "Foo'G", "Q'G", "Foo'g", "H", "Foo'H", "size", "h", "g"}

InScope ==
    {Whole(<<>>, <<Foreign_("h")>>, <<>>, <<Constant_("f", e), Constant_("g", Var("f"))>>) :
        e \in UNION {Binding(name, "y", Var(use)) :
                        name \in {"x", "f", "size", "h"}, use \in {"x", "f", "size", "h"}}}
    \cup {Whole(imports, <<>>, <<>>, <<Constant_("f", e)>>) :
            imports \in {<<ImportFoo(<<>>, <<"G">>)>>},
            e \in UNION {Binding(name, "y", Op("+", Var(use), Num("1"))) :
                            name \in {"G", "f"}, use \in {"G", "f", "Foo'g"}}}
    \cup {Whole(foo \o bar, <<Foreign_("h")>>, <<>>, <<Constant_("f", CallOf(Var(use), <<>>))>>) :
            foo \in FooImports, bar \in BarImports, use \in Uses}
    \cup {Whole(<<>>, <<>>, <<>>, <<Constant_("size", Op("+", Var("size"), Var(use)))>>) :
            use \in {"true", "none", "size"}}

\* Types of the language and of the module, its aliases and imported ones.
Leaves_ == {Number_, Ref("a"), Ref("r"), Ref("s"), Ref("Foo'T"), Ref("Foo'p"), Ref("Foo'A")}
FieldTypes_ == Leaves_ \cup
    {G("list type", <<Ref("r")>>), Or(Ref("r"), Ref("none")), Or(Ref("r"), Ref("s")),
     Or(Ref("a"), Ref("s")), Fn(<<Ref("r")>>, Ref("a")), Ref("B"),
     G("map type", <<Ref("a"), Ref("r")>>)}
WithTypes ==
    {Whole(<<ImportFoo(<<>>, <<>>), ImportBar(<<>>, <<"B">>)>>, <<>>,
           <<Alias_("a", type_a), RecordOf_("r", <<<<"x", Number_>>, <<"y", type_r>>>>),
             RecordOf_("s", <<<<"y", type_s>>>>)>>, <<>>) :
        type_a \in FieldTypes_ \ {Number_, Ref("Foo'A")}, type_r \in FieldTypes_,
        type_s \in {Number_, Ref("a"), Ref("r"), Ref("s"), Or(Ref("r"), Ref("none")),
                    G("list type", <<Ref("r")>>)}}

Making ==
    {Whole(<<ImportFoo(<<>>, names), ImportBar(<<>>, <<>>)>>, <<>>,
           <<RecordOf_("r", <<<<"x", Number_>>>>), Alias_("a", type), RecordOf_("e", <<>>)>>,
           <<Constant_("f", e)>>) :
        names \in {<<>>, <<"O">>}, type \in {Ref("r"), Ref("Foo'A"), Ref("Foo'O"), Number_},
        e \in {Make_(name, <<Fld("x", Num("1"))>>) : name \in {"r", "a", "O", "Foo'T"}}
            \cup {Change_(name, Var("f"), <<Fld("x", Num("1"))>>) :
                    name \in {"r", "a", "Foo'O", "Foo'A", "Bar'B", "Bar'R", "e"}}}

Defined ==
    {Whole(<<>>, <<>>, types, functions) :
        types \in {<<>>, <<Alias_("a", Number_), Alias_("a", Number_)>>,
                   <<Alias_("a", Number_), RecordOf_("a", <<>>)>>,
                   <<Alias_("number", Number_)>>, <<RecordOf_("number", <<<<"x", Ref("none")>>>>)>>},
        functions \in {<<Constant_("f", Num("1")), Constant_("f", Num("2"))>>,
                       <<Constant_("f", Num("1")), Constant_("g", Num("2"))>>}}
    \cup {Whole(<<new>>, <<>>, <<>>, <<Constant_("f", Num("1"))>>) :
            new \in {Imported_(kind, path, <<>>, names) :
                        kind \in {"internal path"}, path \in {FooPath, "None"},
                        names \in {<<>>, <<Named("T")>>, <<Named("g")>>, <<Named("G"), Named("H")>>}}}

WithNames == InScope \cup WithTypes \cup Making \cup Defined

MCSources ==
    {LaidOut(Write(m), [i \in 1 .. Len(Write(m)) |-> "none"]) @@ [module |-> m] : m \in WithNames}
    \cup UNION {{[s EXCEPT !.module = G("nothing", <<>>)] : s \in SourcesOf(m, 1, Breaks)} :
            m \in Meaningless}
    \cup UNION {SourcesOf(Expr(e), 1, Breaks) : e \in {e \in Trees : Prioritized(e)}}
    \cup UNION {SourcesOf(Expr(e), 1, Gaps) : e \in Exprs}
    \cup UNION {SourcesOf(m, 1, Gaps) : m \in Definitions}
    \cup UNION {SourcesOf(m, 2, gaps) : m \in Laid, gaps \in {Breaks, {"line"} \cup Notes}}
MCAlphabet == <<"B", "G", "H", "O", "T", "a", "b", "g", FooPath, "None", BarPath>>
=============================================================================
