-------------------------------- MODULE Spawn --------------------------------
(***************************************************************************)
(* The go function: tasks, and the futures that stand for their results.   *)
(*                                                                         *)
(* hir-mir compiles go(f) to a call of _pen_spawn with a thunk of f, and   *)
(* _pen_spawn of packages/os spawns a task of the executor and returns the *)
(* task's handle as a closure made by to_closure.  The closure keeps the   *)
(* handle in an Option, and its first call takes it.  go returns a         *)
(* function that calls that closure each time it is called.                *)
(*                                                                         *)
(* Values are immutable, so that a task can only know of a future because  *)
(* it has spawned the task, captured the future when it was spawned, or    *)
(* got it in the result of another task.  A future is named after its task. *)
(***************************************************************************)
EXTENDS Naturals, FiniteSets

CONSTANTS Tasks,
          Main,         \* the task that runs _pen_main
          None          \* no task

ASSUME SpawnAssumption ==
    /\ IsFiniteSet(Tasks)
    /\ Main \in Tasks
    /\ None \notin Tasks

VARIABLES
    state,    \* state[t]: "unborn", "running", "waiting", "ended", "panicked"
    awaits,   \* awaits[t]: the task for whose end t waits, or None
    knows,    \* knows[t]: the futures that t can call, or has in its result
    taken     \* the futures whose handle has been taken

vars == <<state, awaits, knows, taken>>

Init ==
    /\ state = [t \in Tasks |-> IF t = Main THEN "running" ELSE "unborn"]
    /\ awaits = [t \in Tasks |-> None]
    /\ knows = [t \in Tasks |-> {}]
    /\ taken = {}

----------------------------------------------------------------------------

(* The futures that the function given to go can capture.                  *)
MutantCapturable(t, u) == knows[t] \cup {u}
Capturable(t, u) == knows[t]

Go(t, u) ==
    /\ state[t] = "running"
    /\ state[u] = "unborn"
    /\ state' = [state EXCEPT ![u] = "running"]
    /\ \E captured \in SUBSET Capturable(t, u) :
          knows' = [knows EXCEPT ![t] = @ \cup {u}, ![u] = captured]
    /\ UNCHANGED <<awaits, taken>>

(* The first call of a future takes the handle and polls it.               *)
CallFuture(t, u) ==
    /\ state[t] = "running"
    /\ u \in knows[t]
    /\ u \notin taken
    /\ taken' = taken \cup {u}
    /\ state' = [state EXCEPT ![t] = "waiting"]
    /\ awaits' = [awaits EXCEPT ![t] = u]
    /\ UNCHANGED knows

(* The next one, by any task, finds None and unwraps it.  One that runs at *)
(* the same time as the first is a data race on the handle, and counts as  *)
(* failed too.                                                             *)
CallFutureAgain(t, u) ==
    /\ state[t] = "running"
    /\ u \in knows[t]
    /\ u \in taken
    /\ state' = [state EXCEPT ![t] = "panicked"]
    /\ UNCHANGED <<awaits, knows, taken>>

(* The handle is ready when the task has ended, and gives its result.      *)
Await(t) ==
    /\ state[t] = "waiting"
    /\ state[awaits[t]] = "ended"
    /\ state' = [state EXCEPT ![t] = "running"]
    /\ knows' = [knows EXCEPT ![t] = @ \cup knows[awaits[t]]]
    /\ awaits' = [awaits EXCEPT ![t] = None]
    /\ UNCHANGED taken

(* The handle of a task that has panicked is ready with an error, which is *)
(* unwrapped.                                                              *)
AwaitPanicked(t) ==
    /\ state[t] = "waiting"
    /\ state[awaits[t]] = "panicked"
    /\ state' = [state EXCEPT ![t] = "panicked"]
    /\ awaits' = [awaits EXCEPT ![t] = None]
    /\ UNCHANGED <<knows, taken>>

(* A function returns, and some of the futures it knows are in its result. *)
End(t) ==
    /\ state[t] = "running"
    /\ state' = [state EXCEPT ![t] = "ended"]
    /\ \E result \in SUBSET knows[t] : knows' = [knows EXCEPT ![t] = result]
    /\ UNCHANGED <<awaits, taken>>

Next ==
    \E t \in Tasks :
        \/ \E u \in Tasks : Go(t, u) \/ CallFuture(t, u) \/ CallFutureAgain(t, u)
        \/ Await(t)
        \/ AwaitPanicked(t)
        \/ End(t)

(* Functions return, and the executor wakes those who wait for them.       *)
Spec ==
    /\ Init /\ [][Next]_vars
    /\ \A t \in Tasks : WF_vars(Await(t) \/ AwaitPanicked(t)) /\ WF_vars(End(t))

----------------------------------------------------------------------------

(* Every call of a future comes back to its caller, with the result of the *)
(* task or with its panic (get_result and poll in to_closure.rs, and the   *)
(* unwrap in _pen_spawn).                                                  *)
EveryCallReturns ==
    \A t \in Tasks : state[t] = "waiting" ~> state[t] \in {"running", "panicked"}

----------------------------------------------------------------------------

(* What EveryCallReturns rests on, besides fairness: proved in SpawnProofs *)
(* for any number of tasks.                                                *)

(* No set of tasks waits for itself: futures cannot deadlock.              *)
NobodyWaitsInACircle ==
    \A S \in SUBSET Tasks :
        S # {} /\ (\A t \in S : state[t] = "waiting") =>
            \E t \in S : awaits[t] \notin S

(* As long as anybody waits, somebody waits for a task that runs, or whose *)
(* result or panic is there to be taken.                                   *)
SomebodyCanGoOn ==
    (\E t \in Tasks : state[t] = "waiting") =>
        \E t \in Tasks :
            /\ state[t] = "waiting"
            /\ awaits[t] \in Tasks
            /\ state[awaits[t]] \in {"running", "ended", "panicked"}

(* Why these hold.                                                         *)

States == {"unborn", "running", "waiting", "ended", "panicked"}

TypeOK ==
    /\ state \in [Tasks -> States]
    /\ awaits \in [Tasks -> Tasks \cup {None}]
    /\ knows \in [Tasks -> SUBSET Tasks]
    /\ taken \in SUBSET Tasks

(* Nobody can name a future before its task is spawned, and a task that    *)
(* does not run yet knows nothing (go in hir-mir, _pen_spawn).             *)
UnbornAreUnknown ==
    \A u \in Tasks : state[u] = "unborn" =>
        knows[u] = {} /\ \A t \in Tasks : u \notin knows[t]

(* Who waits, waits for a future that it knows (poll in to_closure.rs).    *)
WaitersKnow ==
    \A t \in Tasks : state[t] = "waiting" => awaits[t] \in knows[t]

(* Values are immutable: among any tasks there is one that knows no future *)
(* of another, as there was when the last of them was spawned.             *)
KnowledgeIsAcyclic ==
    \A S \in SUBSET Tasks : S # {} => \E t \in S : knows[t] \cap S = {}

Inductive == TypeOK /\ UnbornAreUnknown /\ WaitersKnow /\ KnowledgeIsAcyclic

=============================================================================
