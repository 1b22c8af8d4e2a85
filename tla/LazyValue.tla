------------------------------ MODULE LazyValue ------------------------------
(***************************************************************************)
(* What a thunk promises to the tasks that call it: it is evaluated at     *)
(* most once, whoever calls it and how often, every call returns the value *)
(* of that evaluation, and every call returns.                             *)
(***************************************************************************)
CONSTANTS Tasks, Values, None

VARIABLES value,    \* the value of the evaluation, None before it
          asked,    \* the tasks that have called and got no answer yet
          answer    \* answer[t]: what the last call by t has returned

lazyVars == <<value, asked, answer>>

LazyInit ==
    /\ value = None
    /\ asked = {}
    /\ answer = [t \in Tasks |-> None]

Ask(t) ==
    /\ t \notin asked
    /\ asked' = asked \cup {t}
    /\ answer' = [answer EXCEPT ![t] = None]
    /\ UNCHANGED value

Evaluate ==
    /\ asked # {}
    /\ value = None
    /\ value' \in Values
    /\ UNCHANGED <<asked, answer>>

Answer(t) ==
    /\ t \in asked
    /\ value # None
    /\ asked' = asked \ {t}
    /\ answer' = [answer EXCEPT ![t] = value]
    /\ UNCHANGED value

Forget(t) ==
    /\ t \notin asked
    /\ answer' = [answer EXCEPT ![t] = None]
    /\ UNCHANGED <<value, asked>>

LazyNext ==
    \/ Evaluate
    \/ \E t \in Tasks : Ask(t) \/ Answer(t) \/ Forget(t)

Spec ==
    /\ LazyInit
    /\ [][LazyNext]_lazyVars
    /\ WF_lazyVars(Evaluate)
    /\ \A t \in Tasks : WF_lazyVars(Answer(t))

=============================================================================
