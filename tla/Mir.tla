--------------------------------- MODULE Mir ---------------------------------
(***************************************************************************)
(* Expressions of the mid-level intermediate representation (lib/mir/ir),  *)
(* their scopes and their free variables.  The module has no state: the    *)
(* passes over the representation and the machine that runs it extend it.  *)
(*                                                                         *)
(* Every expression is a record with a kind, the names it binds (binds)    *)
(* and its direct subexpressions in the order in which the code evaluates  *)
(* them (subs).  Types of variables are left out; they only tell the       *)
(* backend which operation on counts to emit.  Numbers, booleans, byte     *)
(* strings and none are the one kind "literal", arithmetic and comparison  *)
(* operations the one kind "operation".                                    *)
(***************************************************************************)
EXTENDS Integers, Sequences, FiniteSets, SequencesExt

\* A name as a programmer writes it.  What passes generate differs in the
\* second component.
Name(string) == <<string, <<>>>>

Literal(n) == [kind |-> "literal", n |-> n, binds |-> <<>>, subs |-> <<>>]

Variable(x) == [kind |-> "variable", name |-> x, binds |-> <<>>, subs |-> <<>>]

Call(function, arguments) ==
    [kind |-> "call", binds |-> <<>>, subs |-> <<function>> \o arguments]

Operation(operator, lhs, rhs) ==
    [kind |-> "operation", operator |-> operator, binds |-> <<>>, subs |-> <<lhs, rhs>>]

If(condition, then, else) ==
    [kind |-> "if", binds |-> <<>>, subs |-> <<condition, then, else>>]

Let(x, bound, expression) ==
    [kind |-> "let", binds |-> <<x>>, subs |-> <<bound, expression>>]

\* The environment is empty until it is inferred.
LetRecursive(x, arguments, thunk, body, expression) ==
    [kind |-> "let_recursive", thunk |-> thunk, environment |-> <<>>,
     binds |-> <<x>> \o arguments, subs |-> <<body, expression>>]

\* Alternatives, each for a set of tags; a default one is for none of them.
Case(argument, tags, names, alternatives) ==
    [kind |-> "case", tags |-> tags, binds |-> names,
     subs |-> <<argument>> \o alternatives]

TryOperation(operand, x, tag, then) ==
    [kind |-> "try", tag |-> tag, binds |-> <<x>>, subs |-> <<operand, then>>]

Record(fields) == [kind |-> "record", binds |-> <<>>, subs |-> fields]

RecordField(record, index) ==
    [kind |-> "field", index |-> index, binds |-> <<>>, subs |-> <<record>>]

RecordUpdate(record, indices, fields) ==
    [kind |-> "update", indices |-> indices, binds |-> <<>>,
     subs |-> <<record>> \o fields]

Variant(tag, payload) ==
    [kind |-> "variant", tag |-> tag, binds |-> <<>>, subs |-> <<payload>>]

Synchronize(expression) ==
    [kind |-> "synchronize", binds |-> <<>>, subs |-> <<expression>>]

CloneVariables(variables, expression) ==
    [kind |-> "clone", variables |-> variables, binds |-> <<>>, subs |-> <<expression>>]

DropVariables(variables, expression) ==
    [kind |-> "drop", variables |-> variables, binds |-> <<>>, subs |-> <<expression>>]

\* A global function. The environment of one is always empty.
GlobalFunction(x, arguments, thunk, body) ==
    [name |-> x, arguments |-> arguments, thunk |-> thunk, body |-> body]

\* The same sequence.  TLC evaluates its elements here and now, and only once.
Evaluated(sequence) == sequence \o <<>>

-----------------------------------------------------------------------------
(* Scopes *)

\* The positions in binds of the names that subexpression i can use.
Scope(e, i) ==
    CASE e.kind \in {"let", "try"} -> IF i = 2 THEN {1} ELSE {}
      [] e.kind = "let_recursive"  -> IF i = 1 THEN DOMAIN e.binds ELSE {1}
      [] e.kind = "case"           -> IF i = 1 THEN {} ELSE {i - 1}
      [] OTHER                     -> {}

BoundIn(e, i) == {e.binds[j] : j \in Scope(e, i)}

FunctionName(e) == e.binds[1]
Arguments(e) == Tail(e.binds)

RECURSIVE FreeVariables(_)
FreeVariables(e) ==
    IF e.kind = "variable"
    THEN {e.name}
    ELSE UNION {FreeVariables(e.subs[i]) \ BoundIn(e, i) : i \in DOMAIN e.subs}
=============================================================================
