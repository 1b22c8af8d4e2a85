------------------------------ MODULE MirCounts ------------------------------
(***************************************************************************)
(* The transformation that inserts clones and drops of variables           *)
(* (lib/mir/src/analysis/reference_count/transformation.rs), and the       *)
(* validation that its unit tests apply to the result (validation.rs).     *)
(*                                                                         *)
(* An expression is transformed from its end to its start, with the set of *)
(* variables that are moved later: the use that runs last takes the        *)
(* variable, and every use before it takes a clone.                        *)
(***************************************************************************)
EXTENDS Mir

CloneIfAny(variables, owned, e) ==
    IF variables = {} THEN e ELSE CloneVariables(variables \cap owned, e)

DropIfAny(variables, owned, e) ==
    IF variables = {} THEN e ELSE DropVariables(variables \cap owned, e)

\* Transforms subexpressions in an order, so that the first in the order is the
\* one that runs last.
RECURSIVE Count(_, _, _), CountInOrder(_, _, _, _), CountFunctionBody(_, _)
CountInOrder(e, order, owned, moved) ==
    IF order = <<>>
    THEN [e |-> e, moved |-> moved]
    ELSE LET sub == Count(e.subs[Head(order)], owned, moved)
         IN  CountInOrder([e EXCEPT !.subs[Head(order)] = sub.e], Tail(order),
                          owned, sub.moved)

\* What a function owns and does not use is dropped before its body.
CountFunctionBody(body, owned) ==
    LET counted == Count(body, owned, {})
    IN  DropIfAny(owned \ counted.moved, owned, counted.e)

CountVariable(e, owned, moved) ==
    IF e.name \in owned /\ e.name \in moved
    THEN [e |-> CloneIfAny({e.name}, owned, e), moved |-> moved]
    ELSE [e |-> e, moved |-> moved \cup {e.name}]

\* Mutant of CountIf: the branches are transformed as if they were one after
\* the other.
CountIfInOrder(e, owned, moved) == CountInOrder(e, <<3, 2, 1>>, owned, moved)

\* A variable moved in one of the branches is dropped in the others.
CountIf(e, owned, moved) ==
    LET then == Count(e.subs[2], owned, moved)
        else == Count(e.subs[3], owned, moved)
        all == then.moved \cup else.moved
        condition == Count(e.subs[1], owned, all)
    IN  [e |-> If(condition.e, DropIfAny(all \ then.moved, owned, then.e),
                               DropIfAny(all \ else.moved, owned, else.e)),
         moved |-> condition.moved]

CountCase(e, owned, moved) ==
    LET Owned(i) == owned \cup {e.binds[i]}
        alternatives == Evaluated([i \in DOMAIN e.binds |->
                            Count(e.subs[i + 1], Owned(i), moved \ {e.binds[i]})])
        all == UNION {alternatives[i].moved \ {e.binds[i]} : i \in DOMAIN e.binds}
        argument == Count(e.subs[1], owned, moved \cup all)
        Dropped(i) == (all \cup {e.binds[i]}) \ alternatives[i].moved
    IN  [e |-> [e EXCEPT !.subs = <<argument.e>> \o
                    [i \in DOMAIN e.binds |->
                        DropIfAny(Dropped(i), Owned(i), alternatives[i].e)]],
         moved |-> argument.moved]

CountLet(e, owned, moved) ==
    LET x == e.binds[1]
        rest == Count(e.subs[2], owned \cup {x}, moved \ {x})
        bound == Count(e.subs[1], owned, moved \cup (rest.moved \ {x}))
    IN  [e |-> Let(x, bound.e, DropIfAny({x} \ rest.moved, owned \cup {x}, rest.e)),
         moved |-> bound.moved]

\* A closure takes its free variables; the ones used later are cloned for it.
CountLetRecursive(e, owned, moved) ==
    LET f == FunctionName(e)
        free == ToSet(e.environment)
        rest == Count(e.subs[2], owned \cup {f}, moved \ {f})
        later == moved \cup (rest.moved \ {f})
        body == CountFunctionBody(e.subs[1], ToSet(e.binds) \cup free)
    IN  [e |-> CloneIfAny(free \cap later, owned,
                [e EXCEPT !.subs =
                    <<body, DropIfAny({f} \ rest.moved, owned \cup {f}, rest.e)>>]),
         moved |-> later \cup free]

\* The expression after a match returns from the function: all that is moved
\* later is dropped there.
CountTry(e, owned, moved) ==
    LET then == Count(e.subs[2], owned, {})
        inThen == then.moved \ {e.binds[1]}
        all == inThen \cup moved
        operand == Count(e.subs[1], owned, all)
    IN  [e |-> DropIfAny(all \ moved, owned,
                [e EXCEPT !.subs =
                    <<operand.e, DropIfAny(all \ inThen, owned, then.e)>>]),
         moved |-> operand.moved]

Count(e, owned, moved) ==
    LET n == Len(e.subs)
        forwards == [i \in 1 .. n |-> i]
        backwards == [i \in 1 .. n |-> n + 1 - i]
    IN  CASE e.kind = "variable"      -> CountVariable(e, owned, moved)
          [] e.kind = "if"            -> CountIf(e, owned, moved)
          [] e.kind = "case"          -> CountCase(e, owned, moved)
          [] e.kind = "let"           -> CountLet(e, owned, moved)
          [] e.kind = "let_recursive" -> CountLetRecursive(e, owned, moved)
          [] e.kind = "try"           -> CountTry(e, owned, moved)
          [] e.kind = "update"        -> CountInOrder(e, forwards, owned, moved)
          [] OTHER                    -> CountInOrder(e, backwards, owned, moved)

CountFunction(function) ==
    [function EXCEPT !.body =
        CountFunctionBody(@, ToSet(function.arguments))]

-----------------------------------------------------------------------------
(* Validation *)

\* How many references to each variable there are left to use up, and whether
\* no mistake has been found so far.
Add(counts, x, n) ==
    IF x \in DOMAIN counts THEN [counts EXCEPT ![x] = @ + n] ELSE counts

AddAll(counts, names, n) ==
    [x \in DOMAIN counts |-> IF x \in names THEN counts[x] + n ELSE counts[x]]

Bind(counts, x) == [y \in DOMAIN counts \cup {x} |-> IF y = x THEN 1 ELSE counts[y]]

\* After the scope of x: all of its references are used up, and an outer
\* variable of the same name is back.
Unbind(state, x, old) ==
    [ok |-> state.ok /\ state.counts[x] = 0,
     counts |-> IF x \in DOMAIN old THEN [state.counts EXCEPT ![x] = old[x]]
                ELSE state.counts]

Left(counts) == {<<x, counts[x]>> : x \in {y \in DOMAIN counts : counts[y] # 0}}

RECURSIVE Move(_, _), MoveInOrder(_, _), ValidBody(_, _)
MoveInOrder(subs, state) ==
    IF subs = <<>> \/ ~ state.ok THEN state
    ELSE MoveInOrder(Tail(subs), Move(Head(subs), state))

MoveScope(x, e, state) == Unbind(Move(e, [state EXCEPT !.counts = Bind(@, x)]), x, state.counts)

ValidBody(body, names) ==
    LET state == Move(body, [ok |-> TRUE, counts |-> [x \in names |-> 1]])
    IN  state.ok /\ Left(state.counts) = {}

\* All branches have to use up the same.
MoveBranches(states) ==
    [ok |-> /\ \A i \in DOMAIN states : states[i].ok
            /\ \A i, j \in DOMAIN states :
                    Left(states[i].counts) = Left(states[j].counts),
     counts |-> states[Len(states)].counts]

Move(e, state) ==
    CASE e.kind = "variable" -> [state EXCEPT !.counts = Add(@, e.name, -1)]
      [] e.kind = "clone" ->
            Move(e.subs[1], [state EXCEPT !.counts = AddAll(@, e.variables, 1)])
      [] e.kind = "drop" ->
            Move(e.subs[1], [state EXCEPT !.counts = AddAll(@, e.variables, -1)])
      [] e.kind = "let" -> MoveScope(e.binds[1], e.subs[2], Move(e.subs[1], state))
      [] e.kind = "let_recursive" ->
            MoveScope(FunctionName(e), e.subs[2],
                [ok |-> /\ state.ok
                        /\ ValidBody(e.subs[1], ToSet(e.binds) \cup ToSet(e.environment)),
                 counts |-> AddAll(state.counts, ToSet(e.environment), -1)])
      [] e.kind = "if" ->
            LET condition == Move(e.subs[1], state)
            IN  MoveBranches(<<Move(e.subs[2], condition), Move(e.subs[3], condition)>>)
      [] e.kind = "case" ->
            LET argument == Move(e.subs[1], state)
            IN  MoveBranches(Evaluated([i \in DOMAIN e.binds |->
                                MoveScope(e.binds[i], e.subs[i + 1], argument)]))
      [] e.kind = "try" ->
            LET operand == Move(e.subs[1], state)
                then == MoveScope(e.binds[1], e.subs[2], operand)
            IN  [operand EXCEPT !.ok = @ /\ then.ok /\ Left(then.counts) = {}]
      [] OTHER -> MoveInOrder(e.subs, state)

ValidFunction(function) == ValidBody(function.body, ToSet(function.arguments))
=============================================================================
