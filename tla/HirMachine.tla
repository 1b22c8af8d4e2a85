------------------------------ MODULE HirMachine ------------------------------
(***************************************************************************)
(* What programs of the language mean, for comparison with what they are   *)
(* compiled to: an evaluation of inferred expressions over values that     *)
(* know their types, before there are coercions, variants and thunks.      *)
(*                                                                         *)
(* Arguments and fields are evaluated in the order in which they are       *)
(* written, and operators and, or and if only what they need.  Elements of *)
(* lists are evaluated at once, which nobody can tell as long as they only *)
(* calculate.  So are functions that are run with go, in a task of their   *)
(* own that may as well be first.                                          *)
(***************************************************************************)
EXTENDS Hir

\* The parts of a value are its elements, its entries, its fields or the source of an
\* error. The code is that of a function.
Value(type, n, parts, code) == [type |-> type, n |-> n, parts |-> parts, code |-> code]

NumberValue(n) == Value(Number, n, <<>>, <<>>)
BooleanValue(b) == Value(Boolean, IF b THEN 1 ELSE 0, <<>>, <<>>)
NoneValue == Value(None, 0, <<>>, <<>>)
ErrorValue(source) == Value(Error, 0, <<source>>, <<>>)
RecordValue(type, fields) == Value(Canonicalize(type), 0, fields, <<>>)
ListValue(element, values) == Value(Canonicalize(List(element)), 0, values, <<>>)

\* Entries are in the order in which their keys have been put in.
EntryValue(key, value) == Value(Basic("entry"), 0, <<key, value>>, <<>>)
MapValueOf(e, entries) == Value(Canonicalize(Map(e.types[1], e.types[2])), 0, entries, <<>>)

\* Functions are global ones, lambda expressions and those whose value is known.
GlobalValue(type, x) == Value(Canonicalize(type), 0, <<>>, <<[by |-> "name", name |-> x]>>)
LambdaValue(e, env) ==
    Value(Canonicalize(LambdaType(e)), 0, <<>>, <<[by |-> "lambda", lambda |-> e, env |-> env]>>)
KnownValue(type, value) ==
    Value(Canonicalize(Function(<<>>, type)), 0, <<>>, <<[by |-> "value", value |-> value]>>)

RECURSIVE HasType(_, _)
\* Whether a value is of a type, and all that is in it of the types there.
HasType(value, type) ==
    /\ Canonicalize(type) = AnyType \/ value.type \in Members(type)
    /\ value.type.kind = "list" =>
            \A i \in DOMAIN value.parts : HasType(value.parts[i], Element(value.type))
    /\ value.type.kind = "map" =>
            \A i \in DOMAIN value.parts :
                /\ HasType(value.parts[i].parts[1], MapKey(value.type))
                /\ HasType(value.parts[i].parts[2], MapValue(value.type))
    /\ value.type.kind = "record" =>
            \A i \in DOMAIN value.parts : HasType(value.parts[i], Fields(value.type)[i].type)

RECURSIVE Equals(_, _)
Equals(x, y) ==
    /\ x.type = y.type /\ x.n = y.n /\ Len(x.parts) = Len(y.parts)
    /\ IF x.type.kind = "map"
       THEN \A i \in DOMAIN x.parts : \E j \in DOMAIN y.parts : Equals(x.parts[i], y.parts[j])
       ELSE \A i \in DOMAIN x.parts : Equals(x.parts[i], y.parts[i])

Finding(entries, key) == {i \in DOMAIN entries : Equals(entries[i].parts[1], key)}

Inserted(entries, entry) ==
    LET found == Finding(entries, entry.parts[1])
    IN  IF found = {} THEN Append(entries, entry)
        ELSE [i \in DOMAIN entries |-> IF i \in found THEN entry ELSE entries[i]]

Removed(entries, key) == SelectSeq(entries, LAMBDA entry : ~ Equals(entry.parts[1], key))

\* The functions of a program, the arguments of foreign functions so far, the
\* values of global functions without arguments, whether the function is
\* returning and whether an operation has been given what it is not for.
Running(functions, scope) ==
    [functions |-> functions, scope |-> scope, trace |-> <<>>, globals |-> <<>>,
     returning |-> FALSE, stuck |-> FALSE]

Done(s, value) == [s |-> s, value |-> value]
Stuck(s) == Done([s EXCEPT !.stuck = TRUE], NoneValue)

KindOf(value) == value.type.kind
AreNumbers(values) == \A i \in DOMAIN values : KindOf(values[i]) = "number"

-----------------------------------------------------------------------------
RECURSIVE Evaluate(_, _, _), EvaluateAll(_, _, _), ApplyValue(_, _, _), EvaluateEach(_, _, _, _)

Before(value, rest) == [rest EXCEPT !.values = <<value>> \o @]

EvaluateRest(first, subs, env) ==
    IF first.s.returning \/ first.s.stuck
    THEN [s |-> first.s, values |-> <<first.value>>]
    ELSE Before(first.value, EvaluateAll(subs, env, first.s))

EvaluateAll(subs, env, s) ==
    IF subs = <<>>
    THEN [s |-> s, values |-> <<>>]
    ELSE EvaluateRest(Evaluate(Head(subs), env, s), Tail(subs), env)

Assigned(names, values) ==
    [x \in ToSet(names) |-> values[CHOOSE i \in DOMAIN names :
                                names[i] = x /\ \A j \in DOMAIN names : names[j] = x => j <= i]]

Returned(result) == [result EXCEPT !.s.returning = FALSE]

EnterFunction(lambda, env, arguments, s) ==
    Returned(Evaluate(lambda.subs[1], Extended(env, Assigned(lambda.names, arguments)), s))

Remembered(x, result) == [result EXCEPT !.s.globals = Extended(@, Named(x, result.value))]

\* Global functions without arguments are evaluated once. A foreign function
\* returns its argument.
ApplyGlobal(x, arguments, s) ==
    LET lambda == s.functions[x].lambda
        result == EnterFunction(lambda, <<>>, arguments, s)
    IN  CASE x \notin DOMAIN s.functions ->
                Done([s EXCEPT !.trace = Append(@, arguments[1].n)], arguments[1])
          [] x \in DOMAIN s.globals -> Done(s, s.globals[x])
          [] lambda.names = <<>> -> Remembered(x, result)
          [] OTHER -> result

ApplyValue(function, arguments, s) ==
    LET code == function.code[1]
    IN  CASE KindOf(function) # "function" -> Stuck(s)
          [] code.by = "name" -> ApplyGlobal(code.name, arguments, s)
          [] code.by = "lambda" -> EnterFunction(code.lambda, code.env, arguments, s)
          [] code.by = "value" -> Done(s, code.value)

EvaluateOthers(first, e, values, env) ==
    Before(first.value, EvaluateEach(e, values, env, first.s))

\* The elements of a comprehension.
EvaluateEach(e, values, env, s) ==
    IF values = <<>>
    THEN [s |-> s, values |-> <<>>]
    ELSE LET first == Head(values)
             element == IF e.kind = "comprehension"
                        THEN Named(e.names[1], KnownValue(e.types[2], first))
                        ELSE Assigned(e.names, first.parts)
         IN  EvaluateOthers(Evaluate(e.subs[2], Extended(env, element), s), e, Tail(values), env)

EvaluateIfList(e, list, env, s) ==
    CASE KindOf(list) # "list" -> Stuck(s)
      [] list.parts = <<>> -> Evaluate(e.subs[3], env, s)
      [] OTHER ->
            LET names == Extended(Named(e.names[1], KnownValue(e.types[1], Head(list.parts))),
                                  Named(e.names[2], [list EXCEPT !.parts = Tail(@)]))
            IN  Evaluate(e.subs[2], Extended(env, names), s)

EvaluateIfMap(e, map, key, env, s) ==
    LET found == IF KindOf(map) = "map" THEN Finding(map.parts, key) ELSE {}
        Bound(i) == Extended(env, Named(e.names[1], map.parts[i].parts[2]))
    IN  CASE KindOf(map) # "map" -> Stuck(s)
          [] found = {} -> Evaluate(e.subs[4], env, s)
          [] OTHER -> Evaluate(e.subs[3], Bound(CHOOSE i \in found : TRUE), s)

\* The first branch whose type the value is of.
EvaluateIfType(e, value, env, s) ==
    LET Matches == {i \in DOMAIN e.types : Canonicalize(e.types[i]) = AnyType
                                            \/ value.type \in Members(e.types[i])}
    IN  IF Matches = {} THEN Stuck(s)
        ELSE Evaluate(e.subs[1 + (CHOOSE i \in Matches : \A j \in Matches : i <= j)],
                      Extended(env, Named(e.names[1], value)), s)

EvaluateList(e, values, s) ==
    IF \E i \in DOMAIN values : e.names[i] = "..." /\ KindOf(values[i]) # "list"
    THEN Stuck(s)
    ELSE Done(s, ListValue(e.types[1],
                FlattenSeq([i \in DOMAIN values |->
                    IF e.names[i] = "..." THEN values[i].parts ELSE <<values[i]>>])))

\* What a spread map has replaces nothing that has been put in before.
EvaluateMap(e, values, s) ==
    LET Added(entries, i) ==
            CASE e.names[i] = "..." -> FoldLeft(Inserted, values[i].parts, entries)
              [] e.names[i] = "key" -> Inserted(entries, EntryValue(values[i], values[i + 1]))
              [] e.names[i] = "value" -> entries
              [] e.names[i] = "removal" -> Removed(entries, values[i])
    IN  IF \E i \in DOMAIN values : e.names[i] = "..." /\ KindOf(values[i]) # "map"
        THEN Stuck(s)
        ELSE Done(s, MapValueOf(e, FoldLeft(Added, <<>>, [i \in DOMAIN values |-> i])))

EvaluateOperation(operator, values, s) ==
    CASE operator = "=" -> Done(s, BooleanValue(Equals(values[1], values[2])))
      [] operator = "#" -> Done(s, BooleanValue(~ Equals(values[1], values[2])))
      [] ~ AreNumbers(values) -> Stuck(s)
      [] operator = "+" -> Done(s, NumberValue(values[1].n + values[2].n))
      [] operator = "<" -> Done(s, BooleanValue(values[1].n < values[2].n))

\* A task that has ended is a function with a known value.
Finished(result, type) ==
    Done(result.s, [KnownValue(AnyType, result.value) EXCEPT !.type = type])

EvaluateBuiltIn(function, values, s) ==
    CASE function = "error" -> Done(s, ErrorValue(values[1]))
      [] function = "source" /\ KindOf(values[1]) = "error" -> Done(s, values[1].parts[1])
      [] function = "size" /\ KindOf(values[1]) \in {"list", "map"} ->
            Done(s, NumberValue(Len(values[1].parts)))
      [] function = "spawn" -> Finished(ApplyValue(values[1], <<>>, s), values[1].type)
      [] OTHER -> Stuck(s)

FieldsOf(e, values) ==
    [i \in DOMAIN Fields(e.types[1]) |->
        values[CHOOSE j \in DOMAIN e.names : e.names[j] = Fields(e.types[1])[i].name]]

UpdatedFields(e, record, values) ==
    [i \in DOMAIN record.parts |->
        LET js == {j \in DOMAIN e.names : FieldIndex(e.types[1], e.names[j]) = i}
        IN  IF js = {} THEN record.parts[i] ELSE values[CHOOSE j \in js : \A k \in js : k <= j]]

ListOf(element, each) == Done(each.s, ListValue(element, each.values))

\* What an expression does once its operands have values.
EvaluateWith(e, values, env, s) ==
    LET first == values[1]
    IN  CASE e.kind = "call" -> ApplyValue(first, Tail(values), s)
          [] e.kind = "built-in call" -> EvaluateBuiltIn(e.names[1], values, s)
          [] e.kind = "if type" -> EvaluateIfType(e, first, env, s)
          [] e.kind = "if list" -> EvaluateIfList(e, first, env, s)
          [] e.kind = "if map" -> EvaluateIfMap(e, first, values[2], env, s)
          [] e.kind = "map" -> EvaluateMap(e, values, s)
          [] e.kind = "map comprehension" /\ KindOf(first) = "map" ->
                ListOf(e.types[1], EvaluateEach(e, first.parts, env, s))
          [] e.kind = "let" -> Evaluate(e.subs[2], Extended(env, Named(e.names[1], first)), s)
          [] e.kind = "list" -> EvaluateList(e, values, s)
          [] e.kind = "comprehension" /\ KindOf(first) = "list" ->
                ListOf(e.types[1], EvaluateEach(e, first.parts, env, s))
          [] e.kind = "if" /\ KindOf(first) = "boolean" ->
                Evaluate(e.subs[IF first.n = 1 THEN 2 ELSE 3], env, s)
          [] e.kind = "not" /\ KindOf(first) = "boolean" -> Done(s, BooleanValue(first.n = 0))
          [] e.kind = "operation" /\ e.names[1] \in {"and", "or"} /\ KindOf(first) = "boolean" ->
                IF (e.names[1] = "and") = (first.n = 1) THEN Evaluate(e.subs[2], env, s)
                ELSE Done(s, first)
          [] e.kind = "operation" /\ e.names[1] \notin {"and", "or"} ->
                EvaluateOperation(e.names[1], values, s)
          [] e.kind = "try" ->
                Done([s EXCEPT !.returning = KindOf(first) = "error"], first)
          [] e.kind = "construction" -> Done(s, RecordValue(e.types[1], FieldsOf(e, values)))
          [] e.kind = "deconstruction" /\ KindOf(first) = "record" ->
                Done(s, first.parts[FieldIndex(first.type, e.names[1])])
          [] e.kind = "update" /\ KindOf(first) = "record" ->
                Done(s, [first EXCEPT !.parts = UpdatedFields(e, first, Tail(values))])
          [] OTHER -> Stuck(s)

EvaluateAfter(operands, e, env) ==
    IF operands.s.returning \/ operands.s.stuck
    THEN Done(operands.s, operands.values[Len(operands.values)])
    ELSE EvaluateWith(e, operands.values, env, operands.s)

Evaluate(e, env, s) ==
    LET Lazy == \/ e.kind \in {"if", "if list", "if type", "let", "comprehension",
                                "map comprehension"}
                \/ e.kind = "operation" /\ e.names[1] \in {"and", "or"}
        operands == CASE Lazy -> <<e.subs[1]>>
                      [] e.kind = "if map" -> SubSeq(e.subs, 1, 2)
                      [] OTHER -> e.subs
    IN  CASE e.kind = "number" -> Done(s, NumberValue(e.n))
          [] e.kind = "boolean" -> Done(s, BooleanValue(e.n = 1))
          [] e.kind = "none" -> Done(s, NoneValue)
          [] e.kind = "lambda" -> Done(s, LambdaValue(e, env))
          [] e.kind = "variable" ->
                Done(s, IF e.names[1] \in DOMAIN env THEN env[e.names[1]]
                        ELSE GlobalValue(s.scope[e.names[1]], e.names[1]))
          [] OTHER ->
                EvaluateAfter(EvaluateAll(operands, env, s), e, env)
=============================================================================
