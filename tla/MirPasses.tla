------------------------------ MODULE MirPasses ------------------------------
(***************************************************************************)
(* The passes that a module goes through before references are counted     *)
(* (lib/mir-fmm/src/lib.rs, compile): alpha conversion, normalization,     *)
(* inference of environments and lambda lifting.                           *)
(*                                                                         *)
(* The code numbers the names it generates; here the position of the       *)
(* expression a name is generated for makes it unique.                     *)
(***************************************************************************)
EXTENDS Mir

(* Alpha conversion *)

\* Mutant of RenamedBinds: the second one of a name keeps it, too.
RenamedBindsLate(e, counts) ==
    [i \in DOMAIN e.binds |->
        IF counts[e.binds[i]] <= 1 THEN e.binds[i]
        ELSE <<e.binds[i][1], <<counts[e.binds[i]]>>>>]

\* Binds the names of e, given how often each name has been bound.  The first
\* one of a name is kept as it is.
RenamedBinds(e, counts) ==
    [i \in DOMAIN e.binds |->
        LET earlier == {j \in 1 .. i - 1 : e.binds[j] = e.binds[i]}
            count == counts[e.binds[i]] + Cardinality(earlier)
        IN  IF count = 0 THEN e.binds[i] ELSE <<e.binds[i][1], <<count>>>>]

CountsAfter(e, counts) ==
    [x \in DOMAIN counts |->
        counts[x] + Cardinality({i \in DOMAIN e.binds : e.binds[i] = x})]

RECURSIVE ConvertAlpha(_, _, _), ConvertAlphaInSubs(_, _, _, _)
ConvertAlpha(e, variables, counts) ==
    IF e.kind = "variable"
    THEN [e |-> IF e.name \in DOMAIN variables THEN Variable(variables[e.name]) ELSE e,
          counts |-> counts]
    ELSE ConvertAlphaInSubs([e EXCEPT !.binds = RenamedBinds(e, counts)], e.binds,
                            variables, [n |-> 1, counts |-> CountsAfter(e, counts)])

\* Converts the subexpressions of e from the n-th one on.
ConvertAlphaInSubs(e, old, variables, state) ==
    IF state.n > Len(e.subs)
    THEN [e |-> e, counts |-> state.counts]
    ELSE LET scope == Scope(e, state.n)
             inner == [x \in DOMAIN variables \cup {old[j] : j \in scope} |->
                          IF \E j \in scope : old[j] = x
                          THEN e.binds[CHOOSE j \in scope :
                                          /\ old[j] = x
                                          /\ \A k \in scope : old[k] = x => k <= j]
                          ELSE variables[x]]
             sub == ConvertAlpha(e.subs[state.n], inner, state.counts)
         IN  ConvertAlphaInSubs([e EXCEPT !.subs[state.n] = sub.e], old, variables,
                                [n |-> state.n + 1, counts |-> sub.counts])

\* The arguments of a global function keep their names, and are not counted.
ConvertAlphaOfFunction(names, globals, function) ==
    [function EXCEPT !.body =
        ConvertAlpha(@, <<>>, [x \in names |-> IF x \in globals THEN 1 ELSE 0]).e]

-----------------------------------------------------------------------------
(* Normalization *)

RECURSIVE RemoveAliases(_, _)
RemoveAliases(e, aliases) ==
    LET Without(names) == [x \in DOMAIN aliases \ names |-> aliases[x]]
        Resolve(x) == IF x \in DOMAIN aliases THEN aliases[x] ELSE x
        InSubs(i) == RemoveAliases(e.subs[i], Without(BoundIn(e, i)))
        subs == Evaluated([i \in DOMAIN e.subs |-> InSubs(i)])
        first == InSubs(1)
    IN  CASE e.kind = "variable" -> Variable(Resolve(e.name))
          [] e.kind = "let" /\ first.kind = "variable" ->
                RemoveAliases(e.subs[2],
                              [x \in DOMAIN aliases \cup {e.binds[1]} |->
                                  IF x = e.binds[1] THEN first.name ELSE aliases[x]])
          [] e.kind = "let_recursive" ->
                [e EXCEPT !.subs = subs,
                          !.environment = [i \in DOMAIN @ |-> Resolve(@[i])]]
          [] OTHER -> [e EXCEPT !.subs = subs]

\* What becomes of subexpression i: it is bound to a name unless it is one
\* already, stays where it is, or is normalized by itself as it may not run.
Treatment(e, i) ==
    CASE e.kind \in {"call", "record", "update"}   -> "named"
      [] e.kind = "operation" /\ i = 1             -> "named"
      [] e.kind \in {"if", "case", "try"} /\ i > 1 -> "nested"
      [] OTHER                                     -> "direct"

\* Puts let and let-recursive expressions that lack their last subexpression
\* around an expression.
Wrap(frames, e) ==
    FoldRight(LAMBDA frame, inner : [frame EXCEPT !.subs = Append(@, inner)], frames, e)

RECURSIVE Flatten(_, _)
\* An expression as the bindings that come before it and the rest.
Flatten(e, position) ==
    LET sub == Evaluated([i \in DOMAIN e.subs |->
                            Flatten(e.subs[i], Append(position, i))])
        anf(i) == <<"anf", Append(position, i)>>
        Named(i) == /\ Treatment(e, i) = "named"
                    /\ sub[i].e.kind \notin {"literal", "variable"}
        Frames(i) == CASE Treatment(e, i) = "nested" -> <<>>
                       [] Named(i) -> sub[i].frames \o
                                      <<[Let(anf(i), sub[i].e, sub[i].e) EXCEPT
                                            !.subs = <<sub[i].e>>]>>
                       [] OTHER -> sub[i].frames
        Rest(i) == CASE Treatment(e, i) = "nested" -> Wrap(sub[i].frames, sub[i].e)
                     [] Named(i) -> Variable(anf(i))
                     [] OTHER -> sub[i].e
    IN  CASE e.kind = "let" ->
                [frames |-> sub[1].frames \o <<[e EXCEPT !.subs = <<sub[1].e>>]>>
                                          \o sub[2].frames,
                 e |-> sub[2].e]
          [] e.kind = "let_recursive" ->
                LET body == RemoveAliases(Wrap(sub[1].frames, sub[1].e), <<>>)
                IN  [frames |-> <<[e EXCEPT !.subs = <<body>>]>> \o sub[2].frames,
                     e |-> sub[2].e]
          [] OTHER ->
                [frames |-> FlattenSeq([i \in DOMAIN e.subs |-> Frames(i)]),
                 e |-> [e EXCEPT !.subs = Evaluated([i \in DOMAIN @ |-> Rest(i)])]]

NormalizeFunction(function) ==
    [function EXCEPT !.body =
        LET flat == Flatten(@, <<>>) IN RemoveAliases(Wrap(flat.frames, flat.e), <<>>)]

-----------------------------------------------------------------------------
(* Inference of environments *)

RECURSIVE InferEnvironment(_, _)
InferEnvironment(e, variables) ==
    LET subs == Evaluated([i \in DOMAIN e.subs |->
                    InferEnvironment(e.subs[i], variables \cup BoundIn(e, i))])
    IN  IF e.kind = "let_recursive"
        THEN [e EXCEPT !.subs = subs,
                       !.environment = SetToSeq(
                            (FreeVariables(e.subs[1]) \ BoundIn(e, 1)) \cap variables)]
        ELSE [e EXCEPT !.subs = subs]

InferEnvironmentOfFunction(function) ==
    [function EXCEPT !.body = InferEnvironment(@, ToSet(function.arguments))]

-----------------------------------------------------------------------------
(* Lambda lifting *)

RECURSIVE IsBoxed(_, _)
\* Whether function f is used for anything but calls.
IsBoxed(e, f) ==
    CASE e.kind = "variable" -> e.name = f
      [] e.kind = "let_recursive" ->
            \/ f \in ToSet(e.environment)
            \/ FunctionName(e) # f /\ IsBoxed(e.subs[2], f)
      [] OTHER ->
            \E i \in DOMAIN e.subs :
                /\ f \notin BoundIn(e, i)
                /\ ~ (e.kind = "call" /\ i = 1 /\ e.subs[1].kind = "variable")
                /\ IsBoxed(e.subs[i], f)

RECURSIVE PassFreeVariables(_, _, _)
\* Passes more arguments to every call of f.
PassFreeVariables(e, f, names) ==
    LET Sub(i) == IF f \in BoundIn(e, i) THEN e.subs[i]
                  ELSE PassFreeVariables(e.subs[i], f, names)
        subs == Evaluated([i \in DOMAIN e.subs |-> Sub(i)])
    IN  CASE e.kind = "let_recursive" -> [e EXCEPT !.subs[2] = Sub(2)]
          [] e.kind = "call" /\ e.subs[1].kind = "variable" /\ e.subs[1].name = f ->
                [e EXCEPT !.subs =
                    subs \o [i \in DOMAIN names |-> Variable(names[i])]]
          [] OTHER -> [e EXCEPT !.subs = subs]

SaveFreeVariables(environment, names, e) ==
    Wrap([i \in DOMAIN environment |->
            [Let(names[i], Variable(environment[i]), Literal(0)) EXCEPT
                !.subs = <<Variable(environment[i])>>]], e)

\* The name is bound again inside of the function, for its recursive calls.
LiftedFunction(name, e, arguments, body) ==
    GlobalFunction(name, arguments, e.thunk, Let(FunctionName(e), Variable(name), body))

RECURSIVE Lift(_, _)
\* An expression without the functions that need no closures, and those functions.
Lift(e, position) ==
    LET sub == Evaluated([i \in DOMAIN e.subs |-> Lift(e.subs[i], Append(position, i))])
        lifted == UNION {sub[i].functions : i \in DOMAIN e.subs}
        inner == [e EXCEPT !.subs = Evaluated([i \in DOMAIN @ |-> sub[i].e])]
        f == FunctionName(e)
        global == <<"lift", position>>
        names == [i \in DOMAIN e.environment |-> <<e.environment[i][1], <<0>> \o position>>]
        WithFreeVariables(x) ==
            SaveFreeVariables(e.environment, names, PassFreeVariables(x, f, names))
    IN  CASE e.kind = "let_recursive" /\ e.environment = <<>> ->
                [e |-> Let(f, Variable(global), inner.subs[2]),
                 functions |-> lifted \cup
                    {LiftedFunction(global, e, Arguments(e), inner.subs[1])}]
          [] /\ e.kind = "let_recursive" /\ e.environment # <<>> /\ ~ e.thunk
             /\ ~ IsBoxed(inner.subs[1], f) /\ ~ IsBoxed(inner.subs[2], f) ->
                [e |-> Let(f, Variable(global), WithFreeVariables(inner.subs[2])),
                 functions |-> lifted \cup
                    {LiftedFunction(global, e, Arguments(e) \o e.environment,
                                    WithFreeVariables(inner.subs[1]))}]
          [] OTHER -> [e |-> inner, functions |-> lifted]

LiftFunction(function) ==
    LET lifted == Lift(function.body, <<>>)
    IN  {[function EXCEPT !.body = lifted.e]} \cup lifted.functions
=============================================================================
