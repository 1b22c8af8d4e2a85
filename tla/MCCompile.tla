------------------------------ MODULE MCCompile ------------------------------
(* Small programs of every shape: two statements around a result. *)
EXTENDS Compile

\* The arguments of main: a condition, two records with a record in each, and
\* a variant.
b == Name("b")
r == Name("r")
s == Name("s")
v == Name("v")
x == Name("x")
y == Name("y")
f == Name("f")
h == Name("h")
a == Name("a")
c == Name("c")
g == Variable(Name("g"))

Inner(e) == RecordField(e, 1)
CallForeign(e) == Call(g, <<e>>)

Uses(names) == {Variable(n) : n \in names}

\* Expressions whose values are records, made of the variables of some names.
Simple(names) ==
    LET U == Uses(names)
    IN  U \cup {CallForeign(e) : e \in U}
          \cup {RecordUpdate(e1, <<1>>, <<Inner(e2)>>) : e1, e2 \in U}
          \cup {Record(<<Inner(Synchronize(e))>>) : e \in U}

Branches(names) ==
    LET U == Uses(names)
    IN  {If(Variable(b), e1, e2) : e1, e2 \in U \cup {CallForeign(e) : e \in U}}
          \cup {Case(Variable(v), <<{"some"}, {}>>, <<x, x>>, <<Record(<<Variable(x)>>), e>>) :
                    e \in U \ {Variable(x)}}
          \cup {Case(TryOperation(Variable(v), y, "error", Record(<<Variable(y)>>)),
                     <<{"some"}>>, <<y>>, <<RecordUpdate(e, <<1>>, <<Variable(y)>>)>>) :
                    e \in U}
          \cup {If(Operation("+", Variable(b), Literal(n)), CallForeign(CallForeign(e)), e) :
                    n \in 0 .. 1, e \in U}

Expressions(names) == Simple(names) \cup Branches(names)

\* A local function and what is done with it: it is called once or twice, on its
\* way it is a value, it is never called, and it calls itself.
Functions(body, e1, e2) ==
    LET F == Variable(f)
        One(e) == Call(F, <<e>>)
    IN  {LetRecursive(f, <<a>>, FALSE, body, One(e1)),
         LetRecursive(f, <<a>>, FALSE, body, CallForeign(One(One(e2)))),
         LetRecursive(f, <<a>>, FALSE, body,
            Let(x, CallForeign(F), Record(<<Inner(Call(Variable(x), <<e1>>)), Inner(e2)>>))),
         LetRecursive(f, <<a>>, FALSE, body, e2),
         LetRecursive(f, <<c, a>>, FALSE,
                      If(Variable(c), Call(F, <<Literal(0), e1>>), body),
                      Call(F, <<Variable(b), e2>>)),
         LetRecursive(f, <<>>, TRUE, e1,
                      Record(<<Inner(Call(F, <<>>)), Inner(Call(F, <<>>)), Inner(e2)>>))}

\* Two functions: the second one calls the first one, which is around it or
\* next to it.
TwoFunctions(body, e) ==
    LET F(z) == Call(Variable(f), <<z>>)
        H(z) == Call(Variable(h), <<z>>)
        A == Variable(a)
    IN  {LetRecursive(f, <<a>>, FALSE, body,
            LetRecursive(h, <<a>>, FALSE, F(F(A)), Record(<<Inner(H(e)), Inner(F(e))>>))),
         LetRecursive(f, <<a>>, FALSE, body,
            LetRecursive(h, <<>>, TRUE, F(e), F(Call(Variable(h), <<>>)))),
         LetRecursive(f, <<a>>, FALSE, LetRecursive(h, <<a>>, FALSE, body, H(H(A))), F(e)),
         LetRecursive(f, <<a>>, FALSE,
            LetRecursive(h, <<c>>, FALSE, If(Variable(c), F(body), A), H(Literal(0))), F(e)),
         LetRecursive(f, <<a>>, FALSE, LetRecursive(h, <<>>, TRUE, body, Variable(h)),
            Let(x, F(e), Record(<<Inner(Call(Variable(x), <<>>)), Inner(e)>>)))}

Bodies ==
    UNION {
        {Let(x, e1, e2) : e1 \in Expressions({r, s}), e2 \in Expressions({r, x})},
        {Let(x, Let(x, e1, CallForeign(Variable(x))), Call(g, <<e2>>)) :
            e1 \in Simple({r, s}), e2 \in Expressions({s, x})},
        {Let(x, e1, Let(y, Variable(x), Let(x, e2,
                Record(<<Inner(Variable(y)), Inner(Variable(x))>>)))) :
            e1 \in Simple({r, s}), e2 \in Expressions({s, x})},
        UNION {Functions(body, e1, e2) :
            body \in Expressions({a, s}), e1 \in Simple({r, s}), e2 \in Uses({r, s})},
        UNION {TwoFunctions(body, e) : body \in Expressions({a, s}), e \in Uses({r, s})}}

Program(body) == {GlobalFunction(Main, <<b, r, s, v>>, FALSE, body)}

MCSources == {Program(body) : body \in Bodies}

\* What the records hold is told apart. Two arguments may be the same block.
Leaf(n, count) == [Block("record", <<Number(n)>>) EXCEPT !.count = count]
Outer(i, count) == [Block("record", <<Pointer(i)>>) EXCEPT !.count = count]

Heap(shared) ==
    IF shared
    THEN <<Leaf(1, 0), Outer(1, 0), Leaf(3, 1), Outer(3, 2), Leaf(5, 1)>>
    ELSE <<Leaf(1, 1), Outer(1, 1), Leaf(3, 1), Outer(3, 1), Leaf(5, 1)>>

MCInputs ==
    {[heap |-> Heap(shared),
      arguments |-> <<Number(n), Pointer(IF shared THEN 4 ELSE 2), Pointer(4),
                      Tagged(tag, Pointer(5))>>] :
        shared \in BOOLEAN, n \in 0 .. 1, tag \in {"some", "error"}}
=============================================================================
