------------------------------ MODULE MCFrontend ------------------------------
(* Small programs: what is done with a value, and then with what comes of it. *)
EXTENDS Frontend

Maybe == Reference("maybe")
Fallible == Union({Number, Error})
Item == Record("item")

MCAliases == [x \in {"maybe"} |-> Union({None, Number})]

MCRecords ==
    Extended(PreludeRecords,
             [x \in {"item"} |-> <<[name |-> "value", type |-> Number],
                                   [name |-> "next", type |-> Union({Item, None})]>>])

MCForeign == [x \in {"print"} |-> Function(<<Number>>, Number)]

n == Variable("n")
x == Variable("x")
y == Variable("y")
Zero == NumberLiteral(0)
Two == NumberLiteral(2)
Show(e) == Call(Variable("print"), <<e>>)
IsPositive(e) == Operation("<", Zero, e)

MCImported ==
    LET OfNumber(name, result, body) ==
            GlobalFunction(name, Lambda(<<"n">>, <<Number>>, result, body))
    IN  {OfNumber("maybe", Maybe, If(IsPositive(n), n, NoneLiteral)),
         OfNumber("fail", Fallible,
                  If(IsPositive(n), n, BuiltInCall("error", <<n>>))),
         OfNumber("item", Item,
                  Construction(Item, <<"value", "next">>,
                               <<n, If(IsPositive(n), Call(Variable("item"), <<Zero>>),
                                       NoneLiteral)>>)),
         OfNumber("something", AnyType,
                  If(IsPositive(n), ListLiteral(Number, <<"">>, <<n>>), NoneLiteral))}

On(f, e) == Call(Variable(f), <<e>>)
BuiltIn(f, e) == BuiltInCall(f, <<e>>)

\* A map whose keys are a number and none, or twice none.
Numbers == MapLiteral(Maybe, Number, <<MapEntry(On("maybe", n), n), MapEntry(NoneLiteral, Two)>>)

\* Expressions of every type.
Values ==
    {n, NoneLiteral, BooleanLiteral(TRUE), On("maybe", n), On("fail", n), On("item", n),
     On("something", n),
     ListLiteral(Number, <<"", "">>, <<n, Two>>),
     ListLiteral(Maybe, <<"", "...", "">>,
                 <<On("maybe", n), ListLiteral(Maybe, <<"">>, <<n>>), NoneLiteral>>),
     Lambda(<<>>, <<>>, Number, Show(n)),
     Lambda(<<"x">>, <<Number>>, Number, Operation("+", x, n)),
     Numbers,
     MapLiteral(Item, List(Number),
                <<MapEntry(On("item", n), ListLiteral(Number, <<"">>, <<n>>)),
                  MapRemoval(On("item", Zero))>>),
     MapLiteral(Boolean, Function(<<>>, Number),
                <<MapEntry(IsPositive(n), Lambda(<<>>, <<>>, Number, n))>>)}

\* Tests of what type a value is of, with and without an else branch.
TypeTests(e) ==
    {IfType("x", e, <<Number, None>>, <<Show(x), Zero>>),
     IfType("x", e, <<Number>>, <<Show(x), x>>),
     IfType("x", e, <<Error>>, <<BuiltIn("source", x), x>>),
     IfType("x", e, <<List(Number), Error>>, <<BuiltIn("size", x), Zero, x>>),
     IfType("x", e, <<Map(Maybe, Number)>>, <<BuiltIn("size", x), x>>)}

\* What can be done with a list, a map, a record and a function.
ListUses(e) ==
    {BuiltIn("size", e),
     IfList(e, "x", "y", Operation("+", Call(x, <<>>), BuiltIn("size", y)), n),
     Comprehension(Maybe, Call(x, <<>>), "x", e),
     ListLiteral(Maybe, <<"", "...">>, <<n, e>>),
     ListLiteral(AnyType, <<"...", "">>, <<e, e>>)}

MapUses(e) ==
    {IfMap("x", e, n, Show(x), n),
     IfMap("x", e, On("item", n), BuiltIn("size", x), e),
     IfMap("x", e, BooleanLiteral(TRUE), Call(x, <<>>), NoneLiteral),
     IfMap("y", Numbers, e, IsPositive(y), Zero),
     MapIterationComprehension(Maybe, x, "x", "y", e),
     MapIterationComprehension(AnyType, y, "x", "y", e),
     MapLiteral(Maybe, Number, <<MapSpread(e), MapRemoval(NoneLiteral), MapEntry(n, Zero)>>),
     MapLiteral(Maybe, AnyType,
                <<MapEntry(Two, e), MapEntry(NoneLiteral, n), MapSpread(Numbers)>>),
     MapLiteral(Maybe, AnyType, <<MapSpread(Numbers), MapSpread(e), MapRemoval(e)>>),
     MapLiteral(Item, Number, <<MapEntry(e, n), MapEntry(On("item", Zero), Two)>>),
     Operation("=", Numbers, e)}

RecordUses(e) ==
    {Deconstruction(e, "value"), Deconstruction(e, "next"),
     Update(Item, e, <<"value">>, <<n>>),
     Update(Item, On("item", n), <<"next">>, <<e>>),
     Construction(Item, <<"next", "value">>, <<e, Show(n)>>),
     Construction(Item, <<"next", "value">>, <<NoneLiteral, e>>)}

FunctionUses(e) == {Call(e, <<>>), Call(e, <<n>>), BuiltIn("spawn", e)}

Operations(e) ==
    {Operation("+", e, Show(n)), Operation("<", e, n), Operation("=", On("item", Zero), e),
     Operation("=", e, ListLiteral(Maybe, <<"">>, <<n>>)),
     Operation("#", On("maybe", n), e), Operation("and", e, IsPositive(Show(n))),
     Operation("or", IsPositive(n), e), Not(e)}

\* Functions that the value is in, in their results or around them.
Blocks(e) ==
    {Let("x", Lambda(<<"n">>, <<Number>>, AnyType, e), Call(x, <<Zero>>)),
     Let("x", Lambda(<<>>, <<>>, Fallible, Let("y", Try(e), n)), Call(x, <<>>)),
     Let("x", e, Lambda(<<>>, <<>>, AnyType, x)),
     Let("", Call(Variable("once"), <<>>), Let("", e, Call(Variable("once"), <<>>)))}

\* What can be done with a value.
Uses(e) ==
    {Try(e), Show(e), BuiltIn("error", e), On("maybe", e), ListLiteral(Number, <<"">>, <<e>>),
     If(IsPositive(n), e, NoneLiteral), Lambda(<<>>, <<>>, AnyType, e), Let("", e, n)}
        \cup TypeTests(e) \cup ListUses(e) \cup MapUses(e) \cup RecordUses(e)
        \cup FunctionUses(e) \cup Operations(e) \cup Blocks(e)

RECURSIVE Mentions(_, _), IsCalm(_)
Mentions(e, names) ==
    ToSet(e.names) \cap names # {} \/ \E i \in DOMAIN e.subs : Mentions(e.subs[i], names)

\* Elements of lists, and of maps with others in them, call no foreign functions.
IsCalm(e) ==
    LET late == \/ e.kind \in {"list", "comprehension", "map comprehension"}
                \/ e.kind = "map" /\ "..." \in ToSet(e.names)
    IN  /\ late => ~ Mentions(e, {"print", "once"})
        /\ \A i \in DOMAIN e.subs : IsCalm(e.subs[i])

\* A global function without arguments.
Once == GlobalFunction("once", Lambda(<<>>, <<>>, Number, Show(Two)))

Program(result, body) ==
    {GlobalFunction("main", Lambda(<<"n">>, <<Number>>, result, body)), Once}

\* Whether the types of a body are as they should be.
IsSound(body) ==
    LET program == Program(AnyType, body)
        inferred == Inferred(program, VisibleScope(program))
    IN  \A f \in inferred :
            IsInferred(f.lambda) /\ CheckTypes(f.lambda, VisibleScope(program))

\* Whatever the values, one thing is done with them, and another one with what
\* comes of it if that has a type.
OneUse == UNION {Uses(e) : e \in Values}
TwoUses == UNION {Uses(e) : e \in {u \in OneUse : IsSound(u)}}

MCSources ==
    {Program(result, body) : result \in {AnyType, Fallible, Number},
                             body \in {b \in OneUse \cup TwoUses : IsCalm(b)}}

MCUserRecords == {"item"}
=============================================================================
