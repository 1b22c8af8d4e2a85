------------------------------ MODULE MirMachine ------------------------------
(***************************************************************************)
(* What compiled expressions do (lib/mir-fmm/src/expression.rs,            *)
(* entry_function.rs): values, blocks with reference counts and calls, in  *)
(* one task.  The order in which expressions are evaluated, the clones and *)
(* drops that operations make by themselves, updates in place and thunks   *)
(* are those of the code.                                                  *)
(*                                                                         *)
(* Before references are counted, a program has no clones and drops; then  *)
(* the machine leaves counts alone and never updates a record in place     *)
(* (counted is FALSE).  So it also says what a program means.              *)
(***************************************************************************)
EXTENDS Mir, TLC

Number(n) == [type |-> "number", n |-> n, payload |-> <<>>]
Pointer(i) == [type |-> "pointer", n |-> i, payload |-> <<>>]
Static(x) == [type |-> "static", name |-> x, payload |-> <<>>]
Tagged(tag, value) == [type |-> "variant", tag |-> tag, payload |-> <<value>>]

\* The state of the machine: functions by their names, blocks, the arguments
\* foreign functions have been called with, whether a freed block has been
\* used, a variable not been there or a variant been of none of the types that
\* are expected, and whether the function is returning.  The values of global
\* functions without arguments stay once they are known.
Machine(functions, counted, heap) ==
    [functions |-> functions, counted |-> counted, heap |-> heap, globals |-> <<>>,
     trace |-> <<>>, bad |-> FALSE, returning |-> FALSE]

Block(kind, fields) == [kind |-> kind, count |-> 1, fields |-> fields]

RECURSIVE Clone(_, _), Drop(_, _)
\* One more reference to a value.
Clone(m, value) ==
    CASE value.type = "pointer" /\ m.counted ->
            [m EXCEPT !.bad = @ \/ m.heap[value.n].count < 1,
                      !.heap[value.n].count = @ + 1]
      [] value.type = "variant" -> Clone(m, value.payload[1])
      [] OTHER -> m

CloneAll(m, values) == FoldLeft(LAMBDA n, value : Clone(n, value), m, values)

\* One reference less; the last one frees the block and drops what it holds.
Drop(m, value) ==
    CASE value.type = "pointer" /\ m.counted ->
            LET block == m.heap[value.n]
                less == [m EXCEPT !.bad = @ \/ block.count < 1,
                                  !.heap[value.n].count = @ - 1]
            IN  IF block.count = 1
                THEN FoldLeft(LAMBDA n, field : Drop(n, field), less, block.fields)
                ELSE less
      [] value.type = "variant" -> Drop(m, value.payload[1])
      [] OTHER -> m

DropAll(m, values) == FoldLeft(LAMBDA n, value : Drop(n, value), m, values)

Allocate(m, block) == [m EXCEPT !.heap = Append(@, block)]
Newest(m) == Pointer(Len(m.heap))

\* The block of a value, which must not have been freed.
Access(m, value) ==
    [m EXCEPT !.bad = @ \/ (m.counted /\ m.heap[value.n].count < 1)]

IsUnique(m, value) == m.counted /\ m.heap[value.n].count = 1

\* What a value looks like from the outside.
RECURSIVE Shown(_, _)
Shown(m, value) ==
    LET Show(name, n, parts) == [shown |-> name, n |-> n, parts |-> parts]
    IN  CASE value.type = "number" -> Show("number", value.n, <<>>)
          [] value.type = "variant" -> Show(value.tag, 0, <<Shown(m, value.payload[1])>>)
          [] value.type = "pointer" /\ m.heap[value.n].kind = "record" ->
                LET fields == m.heap[value.n].fields
                IN  Show("record", 0, [i \in DOMAIN fields |-> Shown(m, fields[i])])
          [] OTHER -> Show("function", 0, <<>>)

Updated(f, g) == [x \in DOMAIN f \cup DOMAIN g |-> IF x \in DOMAIN g THEN g[x] ELSE f[x]]

Assign(names, values) ==
    [x \in ToSet(names) |->
        values[CHOOSE i \in DOMAIN names :
                    names[i] = x /\ \A j \in DOMAIN names : names[j] = x => j <= i]]

Result(m, value) == [m |-> m, value |-> value]

\* The foreign function that runs a thunk in a task of its own.
Spawned == Name("spawn")

Calculated(operator, x, y) ==
    LET IfTrue(b) == IF b THEN 1 ELSE 0
    IN  CASE operator = "+" -> x + y
          [] operator = "=" -> IfTrue(x = y)
          [] operator = "<" -> IfTrue(x < y)

-----------------------------------------------------------------------------
RECURSIVE Evaluate(_, _, _), EvaluateAll(_, _, _), Apply(_, _, _)

Before(value, rest) == [rest EXCEPT !.values = <<value>> \o @]

EvaluateRest(first, subs, env) ==
    IF first.m.returning
    THEN [m |-> first.m, values |-> <<first.value>>]
    ELSE Before(first.value, EvaluateAll(subs, env, first.m))

\* Evaluates expressions in their order, until one returns from the function.
EvaluateAll(subs, env, m) ==
    IF subs = <<>>
    THEN [m |-> m, values |-> <<>>]
    ELSE EvaluateRest(Evaluate(Head(subs), env, m), Tail(subs), env)

Dropped(result, value) == Result(Drop(result.m, result.value), value)

\* A foreign function shows the machine its argument and returns it.  The one
\* that spawns tasks may just as well run them to their end at once.
ApplyForeign(m, x, arguments) ==
    IF x = Spawned
    THEN Dropped(Apply(Clone(m, arguments[1]), arguments[1], <<>>), arguments[1])
    ELSE Result([m EXCEPT !.trace = Append(@, Shown(m, arguments[1]))], arguments[1])

\* The end of a function, where an early return stops.
Called(result) == [result EXCEPT !.m.returning = FALSE]

Remembered(x, result) ==
    Result([Clone(result.m, result.value) EXCEPT !.globals = Updated(@, x :> result.value)],
           result.value)

EnterStatic(m, function, arguments) ==
    Called(Evaluate(function.body, Assign(function.arguments, arguments), m))

ApplyStatic(m, x, arguments) ==
    LET function == m.functions[x]
        result == EnterStatic(m, function, arguments)
    IN  CASE x \in DOMAIN m.globals -> Result(Clone(m, m.globals[x]), m.globals[x])
          [] function.thunk -> Remembered(x, result)
          [] OTHER -> result

\* The body owns its free variables, its arguments and the closure.
EnterClosure(m, closure, block, arguments) ==
    Called(Evaluate(block.body,
                    Updated(Assign(block.environment, block.fields),
                             Assign(block.names, <<closure>> \o arguments)),
                    CloneAll(m, block.fields)))

\* Mutant of Store: the value is stored without a clone, as if the caller
\* did not get one.
StoreMoving(body, closure, environment) ==
    LET stored == [DropAll(body.m, environment) EXCEPT
                        !.heap[closure.n].kind = "value",
                        !.heap[closure.n].fields = <<body.value>>]
    IN  Result(Drop(stored, closure), body.value)

\* The value of a thunk takes the place of its environment.
Store(body, closure, environment) ==
    LET stored == [Clone(DropAll(body.m, environment), body.value) EXCEPT
                        !.heap[closure.n].kind = "value",
                        !.heap[closure.n].fields = <<body.value>>]
    IN  Result(Drop(stored, closure), body.value)

\* The first call of a thunk stores its value.
ForceThunk(m, closure, block) ==
    Store(EnterClosure(Clone(m, closure), closure, block, <<>>), closure, block.fields)

Apply(m, function, arguments) ==
    IF function.type = "static"
    THEN IF function.name \in DOMAIN m.functions
         THEN ApplyStatic(m, function.name, arguments)
         ELSE ApplyForeign(m, function.name, arguments)
    ELSE LET block == m.heap[function.n]
             n == Access(m, function)
         IN  CASE block.kind = "closure" -> EnterClosure(n, function, block, arguments)
               [] block.kind = "thunk"   -> ForceThunk(n, function, block)
               [] block.kind = "value"   ->
                    Result(Drop(Clone(n, block.fields[1]), function), block.fields[1])

EvaluateField(m, record, index) ==
    LET field == m.heap[record.n].fields[index]
    IN  Result(Drop(Clone(Access(m, record), field), record), field)

\* A record that nobody else has is updated in place.
EvaluateUpdate(m, record, indices, values) ==
    LET old == m.heap[record.n].fields
        replaced == Assign(indices, values)
        new == [i \in DOMAIN old |-> IF i \in DOMAIN replaced THEN replaced[i] ELSE old[i]]
        Kept == SelectSeq([i \in DOMAIN old |-> <<i, old[i]>>],
                          LAMBDA field : field[1] \notin DOMAIN replaced)
        Gone == SelectSeq([i \in DOMAIN old |-> <<i, old[i]>>],
                          LAMBDA field : field[1] \in DOMAIN replaced)
        Values(fields) == [i \in DOMAIN fields |-> fields[i][2]]
        n == Access(m, record)
        copied == Allocate(CloneAll(n, Values(Kept)), Block("record", new))
    IN  IF IsUnique(m, record)
        THEN Result([DropAll(n, Values(Gone)) EXCEPT !.heap[record.n].fields = new], record)
        ELSE Result(Drop(copied, record), Newest(copied))

\* Until environments are inferred, a function takes what it finds around it.
EvaluateLetRecursive(e, env, m) ==
    LET Free == (FreeVariables(e.subs[1]) \ BoundIn(e, 1)) \cap DOMAIN env
        environment == IF m.counted THEN e.environment ELSE SetToSeq(Free)
        closure == [kind |-> IF e.thunk THEN "thunk" ELSE "closure", count |-> 1,
                    fields |-> [i \in DOMAIN environment |-> env[environment[i]]],
                    environment |-> environment, names |-> e.binds,
                    body |-> e.subs[1]]
        n == Allocate(m, closure)
    IN  Evaluate(e.subs[2], Updated(env, FunctionName(e) :> Newest(n)), n)

\* The first alternative for the tag of the argument.  If it is for no other
\* tag, its name stands for what is inside.
EvaluateCase(e, argument, env, m) ==
    LET Matches == {i \in DOMAIN e.tags : e.tags[i] = {} \/ argument.tag \in e.tags[i]}
        i == CHOOSE i \in Matches : \A j \in Matches : i <= j
        value == IF e.tags[i] = {argument.tag} THEN argument.payload[1] ELSE argument
    IN  IF Matches = {}
        THEN Result([m EXCEPT !.bad = TRUE], argument)
        ELSE Evaluate(e.subs[i + 1], Updated(env, e.binds[i] :> value), m)

EvaluateTry(e, operand, env, m) ==
    IF operand.tag # e.tag
    THEN Result(m, operand)
    ELSE [Evaluate(e.subs[2], Updated(env, e.binds[1] :> operand.payload[1]), m)
            EXCEPT !.m.returning = TRUE]

\* What an expression does once its first operands have values.
EvaluateOperation(e, values, env, m) ==
    CASE e.kind = "call" -> Apply(m, values[1], Tail(values))
      [] e.kind = "operation" -> Result(m, Number(Calculated(e.operator, values[1].n, values[2].n)))
      [] e.kind = "if" -> Evaluate(e.subs[IF values[1].n = 1 THEN 2 ELSE 3], env, m)
      [] e.kind = "let" ->
            Evaluate(e.subs[2], Updated(env, e.binds[1] :> values[1]), m)
      [] e.kind = "case" -> EvaluateCase(e, values[1], env, m)
      [] e.kind = "try" -> EvaluateTry(e, values[1], env, m)
      [] e.kind = "record" ->
            LET n == Allocate(m, Block("record", values)) IN Result(n, Newest(n))
      [] e.kind = "field" -> EvaluateField(m, values[1], e.index)
      [] e.kind = "update" -> EvaluateUpdate(m, values[1], e.indices, Tail(values))
      [] e.kind = "variant" -> Result(m, Tagged(e.tag, values[1]))
      [] e.kind = "synchronize" -> Result(m, values[1])

EvaluateWith(operands, e, env) ==
    IF operands.m.returning
    THEN Result(operands.m, operands.values[Len(operands.values)])
    ELSE EvaluateOperation(e, operands.values, env, operands.m)

Evaluate(e, env, m) ==
    LET VariablesThere == e.variables \subseteq DOMAIN env
        Values(names) == LET s == CHOOSE s \in [1 .. Cardinality(names) -> names] :
                                        ToSet(s) = names
                         IN  [i \in DOMAIN s |-> env[s[i]]]
        Operands == IF e.kind \in {"if", "let", "case", "try"} THEN <<e.subs[1]>> ELSE e.subs
    IN  CASE e.kind = "literal" -> Result(m, Number(e.n))
          [] e.kind = "variable" ->
                Result(m, IF e.name \in DOMAIN env THEN env[e.name] ELSE Static(e.name))
          [] e.kind \in {"clone", "drop"} /\ ~ VariablesThere ->
                Evaluate(e.subs[1], env, [m EXCEPT !.bad = TRUE])
          [] e.kind = "clone" /\ VariablesThere ->
                Evaluate(e.subs[1], env, CloneAll(m, Values(e.variables)))
          [] e.kind = "drop" /\ VariablesThere ->
                Evaluate(e.subs[1], env, DropAll(m, Values(e.variables)))
          [] e.kind = "let_recursive" -> EvaluateLetRecursive(e, env, m)
          [] OTHER -> EvaluateWith(EvaluateAll(Operands, env, m), e, env)
=============================================================================
