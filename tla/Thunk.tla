-------------------------------- MODULE Thunk --------------------------------
(***************************************************************************)
(* A thunk and the tasks that call it: the code that                       *)
(* lib/mir-fmm/src/entry_function.rs emits for a function without          *)
(* arguments.                                                              *)
(*                                                                         *)
(* A thunk is a closure block.  Its entry function is its state: "initial" *)
(* evaluates the body, "locked" waits, and "normal" returns the value.     *)
(* Its payload is a union of the environment of the body and the value,    *)
(* and its metadata says how the payload is dropped and synchronized.      *)
(*                                                                         *)
(* Memory is as weak as the code allows: view[t] is the set of the entry   *)
(* functions that a relaxed load by t may return, and sees the set of the  *)
(* tasks for which the last write to the payload and the metadata happened *)
(* before their next step.                                                 *)
(*                                                                         *)
(* The count of the block is that of ArcBlock, where it is shown to tell   *)
(* the references of all tasks together, and an is_synchronized test with  *)
(* a relaxed load to be right.  Functions without free variables are       *)
(* thunks in static memory, which counts as synchronized, and which every  *)
(* task can refer to.                                                      *)
(***************************************************************************)
EXTENDS Naturals

CONSTANTS Tasks,
          Values,         \* what the body may return
          Environment,    \* a payload: the free variables of the body
          Hollow,         \* a payload: dropped free variables
          None,           \* no value
          MaxReferences   \* bound on the references of a task to the thunk

ASSUME ThunkAssumption ==
    /\ Environment \notin Values
    /\ Hollow \notin Values \cup {Environment}
    /\ None \notin Values \cup {Environment, Hollow}
    /\ MaxReferences \in Nat \ {0}

VARIABLES
    static,            \* whether the thunk is in static memory
    synchronized,      \* whether its count is synchronized
    refs,              \* refs[t]: the references to it that t holds
    entry,             \* the last write to the entry function
    view,              \* view[t]: the writes a relaxed load by t may return
    released,          \* whether the last write was a release
    metadata,
    payload,
    sees,
    pc,                \* pc[t]: where t is in a call of the thunk
    sync,              \* sync[t]: what t found is_synchronized to be
    value,             \* value[t]: the value in the call by t
    valueSynchronized, \* whether the value is synchronized
    answer             \* answer[t]: what the last call by t returned

heapVars == <<static, synchronized, refs, entry, view, released, metadata,
              payload, sees, valueSynchronized>>
vars == <<heapVars, pc, sync, value, answer>>

Entries == {"initial", "locked", "normal"}

EvaluationSteps ==
    {"clone", "body", "environment", "store", "metadata", "publish"}

TypeOK ==
    /\ static \in BOOLEAN
    /\ synchronized \in BOOLEAN
    /\ refs \in [Tasks -> 0..MaxReferences + 1]
    /\ entry \in Entries
    /\ view \in [Tasks -> SUBSET Entries]
    /\ released \in BOOLEAN
    /\ metadata \in {"initial", "normal"}
    /\ payload \in Values \cup {Environment, Hollow}
    /\ sees \in SUBSET Tasks
    /\ pc \in [Tasks -> Entries \cup EvaluationSteps \cup {"idle", "read", "return"}]
    /\ sync \in [Tasks -> BOOLEAN]
    /\ value \in [Tasks -> Values \cup {None}]
    /\ valueSynchronized \in BOOLEAN
    /\ answer \in [Tasks -> Values \cup {None}]

Reaches(t) == static \/ refs[t] > 0

----------------------------------------------------------------------------

(* A closure with an environment is allocated by a task; one without is    *)
(* there from the start.                                                   *)
Init ==
    /\ \/ /\ static = TRUE
          /\ refs = [t \in Tasks |-> 0]
          /\ view = [t \in Tasks |-> {"initial"}]
          /\ sees = Tasks
       \/ /\ static = FALSE
          /\ \E t \in Tasks :
                /\ refs = [u \in Tasks |-> IF u = t THEN 1 ELSE 0]
                /\ view = [u \in Tasks |-> IF u = t THEN {"initial"} ELSE {}]
                /\ sees = {t}
    /\ synchronized = static
    /\ entry = "initial"
    /\ released = FALSE
    /\ metadata = "initial"
    /\ payload = Environment
    /\ pc = [t \in Tasks |-> "idle"]
    /\ sync = [t \in Tasks |-> FALSE]
    /\ value = [t \in Tasks |-> None]
    /\ valueSynchronized = FALSE
    /\ answer = [t \in Tasks |-> None]

Goto(t, step) == pc' = [pc EXCEPT ![t] = step]

(* The entry functions that are not older than e: loads by one task never  *)
(* go back in time.                                                        *)
NotBefore(e) ==
    CASE e = "initial" -> Entries
      [] e = "locked"  -> {"locked", "normal"}
      [] e = "normal"  -> {"normal"}

(* A relaxed load of the entry function, and the call of what it returned. *)
Enter(t, e) ==
    /\ e \in view[t]
    /\ view' = [view EXCEPT ![t] = @ \cap NotBefore(e)]
    /\ Goto(t, e)

WriteEntry(t, e) ==
    /\ entry' = e
    /\ view' = [u \in Tasks |-> IF u = t THEN {e}
                                ELSE IF Reaches(u) THEN view[u] \cup {e}
                                ELSE {}]

(* A reference more or less for t, where references are counted.           *)
CloneClosure(t) == refs' = IF static THEN refs ELSE [refs EXCEPT ![t] = @ + 1]

DropClosure(t) ==
    /\ refs' = IF static THEN refs ELSE [refs EXCEPT ![t] = @ - 1]
    /\ view' = [view EXCEPT ![t] = IF static \/ refs[t] > 1 THEN @ ELSE {}]

(* A call takes over one of the references of t.                           *)
Call(t) ==
    /\ pc[t] = "idle"
    /\ Reaches(t)
    /\ \E e \in Entries : Enter(t, e)
    /\ answer' = [answer EXCEPT ![t] = None]
    /\ UNCHANGED <<static, synchronized, refs, entry, released, metadata, payload,
                   sees, sync, value, valueSynchronized>>

(* The initial entry function.  A thunk that is not synchronized is        *)
(* evaluated without a lock.                                               *)
SkipLock(t) ==
    /\ pc[t] = "initial"
    /\ ~synchronized
    /\ sync' = [sync EXCEPT ![t] = FALSE]
    /\ Goto(t, "clone")
    /\ UNCHANGED <<heapVars, value, answer>>

MutantLock(t) ==
    /\ pc[t] = "initial"
    /\ synchronized
    /\ "initial" \in view[t]
    /\ sync' = [sync EXCEPT ![t] = TRUE]
    /\ WriteEntry(t, "locked")
    /\ Goto(t, "clone")
    /\ UNCHANGED <<static, synchronized, refs, released, metadata, payload, sees,
                   value, valueSynchronized, answer>>

Lock(t) ==
    /\ pc[t] = "initial"
    /\ synchronized
    /\ entry = "initial"
    /\ sync' = [sync EXCEPT ![t] = TRUE]
    /\ WriteEntry(t, "locked")
    /\ Goto(t, "clone")
    /\ UNCHANGED <<static, synchronized, refs, released, metadata, payload, sees,
                   value, valueSynchronized, answer>>

(* The compare-and-swap fails, and the entry function is loaded again,     *)
(* which cannot return anything older than what the failure has seen.      *)
LockFails(t) ==
    /\ pc[t] = "initial"
    /\ synchronized
    /\ entry # "initial"
    /\ \E e \in Entries \ {"initial"} : Enter(t, e)
    /\ UNCHANGED <<static, synchronized, refs, entry, released, metadata, payload,
                   sees, sync, value, valueSynchronized, answer>>

(* The evaluator keeps a reference of its own for the time it needs it.    *)
MutantKeepClosure(t) ==
    /\ pc[t] = "clone"
    /\ Goto(t, "body")
    /\ UNCHANGED <<heapVars, sync, value, answer>>

KeepClosure(t) ==
    /\ pc[t] = "clone"
    /\ CloneClosure(t)
    /\ Goto(t, "body")
    /\ UNCHANGED <<static, synchronized, entry, view, released, metadata, payload,
                   sees, sync, value, valueSynchronized, answer>>

(* The body clones the environment, drops the closure it was called with   *)
(* and returns a value, synchronized or not.                               *)
RunBody(t) ==
    /\ pc[t] = "body"
    /\ DropClosure(t)
    /\ \E v \in Values : value' = [value EXCEPT ![t] = v]
    /\ valueSynchronized' \in BOOLEAN
    /\ Goto(t, "environment")
    /\ UNCHANGED <<static, synchronized, entry, released, metadata, payload, sees,
                   sync, answer>>

DropEnvironment(t) ==
    /\ pc[t] = "environment"
    /\ payload' = Hollow
    /\ sees' = {t}
    /\ Goto(t, "store")
    /\ UNCHANGED <<static, synchronized, refs, entry, view, released, metadata,
                   sync, value, valueSynchronized, answer>>

StoreValue(t) ==
    /\ pc[t] = "store"
    /\ payload' = value[t]
    /\ sees' = {t}
    /\ Goto(t, "metadata")
    /\ UNCHANGED <<static, synchronized, refs, entry, view, released, metadata,
                   sync, value, valueSynchronized, answer>>

MutantStoreMetadata(t) ==
    /\ pc[t] = "metadata"
    /\ Goto(t, "publish")
    /\ UNCHANGED <<heapVars, sync, value, answer>>

StoreMetadata(t) ==
    /\ pc[t] = "metadata"
    /\ metadata' = "normal"
    /\ sees' = {t}
    /\ Goto(t, "publish")
    /\ UNCHANGED <<static, synchronized, refs, entry, view, released, payload,
                   sync, value, valueSynchronized, answer>>

MutantPublish(t) ==
    /\ pc[t] = "publish"
    /\ WriteEntry(t, "normal")
    /\ UNCHANGED released
    /\ Goto(t, "return")
    /\ UNCHANGED <<static, synchronized, refs, metadata, payload, sees, sync, value,
                   valueSynchronized, answer>>

Publish(t) ==
    /\ pc[t] = "publish"
    /\ WriteEntry(t, "normal")
    /\ released' = sync[t]
    /\ Goto(t, "return")
    /\ UNCHANGED <<static, synchronized, refs, metadata, payload, sees, sync, value,
                   valueSynchronized, answer>>

(* The normal entry function: a load of the entry function with an acquire *)
(* ordering, for its effect, where tasks may share the thunk.              *)
AcquireValue(t) ==
    /\ pc[t] = "normal"
    /\ sees' = IF synchronized /\ released THEN sees \cup {t} ELSE sees
    /\ Goto(t, "read")
    /\ UNCHANGED <<static, synchronized, refs, entry, view, released, metadata,
                   payload, sync, value, valueSynchronized, answer>>

ReadValue(t) ==
    /\ pc[t] = "read"
    /\ value' = [value EXCEPT ![t] = payload]
    /\ Goto(t, "return")
    /\ UNCHANGED <<heapVars, sync, answer>>

(* Both entry functions end with a drop of the closure.                    *)
Return(t) ==
    /\ pc[t] = "return"
    /\ DropClosure(t)
    /\ answer' = [answer EXCEPT ![t] = value[t]]
    /\ value' = [value EXCEPT ![t] = None]
    /\ Goto(t, "idle")
    /\ UNCHANGED <<static, synchronized, entry, released, metadata, payload, sees,
                   sync, valueSynchronized>>

(* The locked entry function: _pen_yield, and then whatever is loaded.     *)
MutantWait(t) ==
    /\ pc[t] = "locked"
    /\ view' = [view EXCEPT ![t] = @ \cap NotBefore("locked")]
    /\ Goto(t, "locked")
    /\ UNCHANGED <<static, synchronized, refs, entry, released, metadata, payload,
                   sees, sync, value, valueSynchronized, answer>>

Wait(t) ==
    /\ pc[t] = "locked"
    /\ \E e \in Entries : Enter(t, e)
    /\ UNCHANGED <<static, synchronized, refs, entry, released, metadata, payload,
                   sees, sync, value, valueSynchronized, answer>>

----------------------------------------------------------------------------

(* What tasks do with a thunk between calls.                               *)

Clone(t) ==
    /\ pc[t] = "idle"
    /\ refs[t] \in 1 .. MaxReferences - 1
    /\ CloneClosure(t)
    /\ UNCHANGED <<static, synchronized, entry, view, released, metadata, payload,
                   sees, pc, sync, value, valueSynchronized, answer>>

Drop(t) ==
    /\ pc[t] = "idle"
    /\ refs[t] > 0
    /\ DropClosure(t)
    /\ UNCHANGED <<static, synchronized, entry, released, metadata, payload, sees,
                   pc, sync, value, valueSynchronized, answer>>

(* Synchronizing a closure synchronizes its payload: the metadata of a     *)
(* normal thunk synchronizes the value.                                    *)
Synchronize(t) ==
    /\ pc[t] = "idle"
    /\ refs[t] > 0
    /\ ~synchronized
    /\ synchronized' = TRUE
    /\ valueSynchronized' = (valueSynchronized \/ metadata = "normal")
    /\ UNCHANGED <<static, refs, entry, view, released, metadata, payload, sees,
                   pc, sync, value, answer>>

Give(t, u, n) ==
    /\ t # u
    /\ pc[t] = "idle"
    /\ pc[u] = "idle"
    /\ refs[t] >= n
    /\ refs[u] + n <= MaxReferences
    /\ refs' = [refs EXCEPT ![t] = @ - n, ![u] = @ + n]
    /\ view' = [view EXCEPT ![t] = IF refs[t] > n THEN @ ELSE {},
                            ![u] = IF refs[u] > 0 THEN @ \cap view[t] ELSE view[t]]
    /\ sees' = IF t \in sees THEN sees \cup {u} ELSE sees
    /\ UNCHANGED <<static, synchronized, entry, released, metadata, payload, pc,
                   sync, value, valueSynchronized, answer>>

(* A closure that goes into a task has been synchronized.                  *)
Send(t, u) == synchronized /\ Give(t, u, 1)

(* The result of a task goes to the one that waits for it with all that    *)
(* the task holds.                                                         *)
HandOver(t, u) ==
    /\ refs[t] > 0
    /\ answer[t] = None
    /\ Give(t, u, refs[t])

(* t is done with the value it got.                                        *)
Forget(t) ==
    /\ pc[t] = "idle"
    /\ answer[t] # None
    /\ answer' = [answer EXCEPT ![t] = None]
    /\ UNCHANGED <<heapVars, pc, sync, value>>

(* A write becomes visible to relaxed loads.                               *)
Observe(t) ==
    /\ Reaches(t)
    /\ view[t] # {entry}
    /\ view' = [view EXCEPT ![t] = {entry}]
    /\ UNCHANGED <<static, synchronized, refs, entry, released, metadata, payload,
                   sees, pc, sync, value, valueSynchronized, answer>>

CallStep(t) ==
    \/ SkipLock(t)
    \/ Lock(t)
    \/ LockFails(t)
    \/ KeepClosure(t)
    \/ RunBody(t)
    \/ DropEnvironment(t)
    \/ StoreValue(t)
    \/ StoreMetadata(t)
    \/ Publish(t)
    \/ AcquireValue(t)
    \/ ReadValue(t)
    \/ Return(t)
    \/ Wait(t)

Next ==
    \E t \in Tasks :
        \/ Call(t)
        \/ CallStep(t)
        \/ Clone(t)
        \/ Drop(t)
        \/ Synchronize(t)
        \/ \E u \in Tasks : Send(t, u)
        \/ \E u \in Tasks : HandOver(t, u)
        \/ Forget(t)
        \/ Observe(t)

(* The executor polls every task again after it has yielded, bodies        *)
(* terminate, and a store becomes visible in finite time.                  *)
Fairness ==
    \A t \in Tasks : WF_vars(CallStep(t)) /\ WF_vars(Observe(t))

Spec == Init /\ [][Next]_vars /\ Fairness

----------------------------------------------------------------------------

Evaluators == {t \in Tasks : pc[t] \in EvaluationSteps}

(* The lock keeps a second evaluation out, and none begins after the first *)
(* has ended (the compare-and-swap of the initial entry function).         *)
OneEvaluation ==
    \A t \in Evaluators :
        /\ \A u \in Evaluators : t = u
        /\ payload \in Values => pc[t] \in {"metadata", "publish"}

(* "They should guarantee memory operation ordering by themselves"         *)
(* (entry_function.rs:52): whoever is in the normal entry function finds   *)
(* the value there, and the body finds its environment.                    *)
PayloadIsThere ==
    \A t \in Tasks :
        /\ pc[t] = "normal" => payload \in Values
        /\ pc[t] = "read" => payload \in Values /\ t \in sees
        /\ pc[t] \in {"clone", "body", "environment"} =>
              payload = Environment /\ t \in sees

(* "Evaluator threads keep references at least" (metadata.rs:15): nobody   *)
(* in a call of the thunk is left without a reference to it.               *)
CallersKeepReferences == \A t \in Tasks : pc[t] # "idle" => Reaches(t)

(* When the last reference is dropped, or the thunk synchronized, the      *)
(* metadata fits what is in the payload: nothing is dropped twice, or      *)
(* never, or as what it is not (metadata.rs and its comment).              *)
MetadataFits ==
    Evaluators = {} =>
        IF metadata = "normal" THEN payload \in Values ELSE payload = Environment

(* A thunk that is not synchronized is within reach of one task only, so   *)
(* that it needs no lock.                                                  *)
UnsynchronizedIsLocal ==
    ~synchronized => \A t, u \in Tasks : Reaches(t) /\ Reaches(u) => t = u

----------------------------------------------------------------------------

(* The rest of what makes these invariants inductive.                      *)

(* The body has a reference to drop and the evaluator one to keep.         *)
ReferencesAreCounted ==
    \A t \in Tasks :
        /\ static => refs[t] = 0
        /\ IF pc[t] = "body"
           THEN static \/ refs[t] >= 2
           ELSE refs[t] <= MaxReferences

(* Relaxed loads return nothing that has not been written yet, and what is *)
(* not shared is never out of date.                                        *)
ViewsHoldTheEntry ==
    \A t \in Tasks :
        IF Reaches(t)
        THEN /\ entry \in view[t]
             /\ entry = "initial" \/ ~synchronized => view[t] = {entry}
             /\ "normal" \in view[t] => entry = "normal"
        ELSE view[t] = {}

(* The entry function tells how far the evaluation has come.               *)
EntryTellsPhase ==
    /\ released => synchronized /\ entry = "normal"
    /\ entry = "locked" => Evaluators # {}
    /\ \A t \in Evaluators :
          /\ sync[t] = synchronized
          /\ entry = IF synchronized THEN "locked" ELSE "initial"
    /\ \A t \in Tasks :
          /\ pc[t] = "locked" => entry # "initial"
          /\ pc[t] \in {"normal", "read", "return"} => entry = "normal"
          /\ ~synchronized /\ pc[t] \in Entries => pc[t] = entry

(* So do payload and metadata, step by step.                               *)
PayloadTellsPhase ==
    /\ Evaluators = {} =>
          IF entry = "normal"
          THEN payload \in Values /\ metadata = "normal"
          ELSE payload = Environment /\ metadata = "initial"
    /\ \A t \in Evaluators :
          /\ t \in sees
          /\ pc[t] \in {"clone", "body", "environment"} => payload = Environment
          /\ pc[t] = "store" => payload = Hollow
          /\ pc[t] \in {"metadata", "publish"} => payload \in Values
          /\ pc[t] \notin {"clone", "body"} => value[t] \in Values
          /\ metadata = IF pc[t] = "publish" THEN "normal" ELSE "initial"

(* Whoever can reach a thunk that nobody has published sees what is in it. *)
HoldersSeePayload ==
    entry # "locked" /\ ~released => \A t \in Tasks : Reaches(t) => t \in sees

Inductive ==
    /\ TypeOK
    /\ OneEvaluation
    /\ PayloadIsThere
    /\ CallersKeepReferences
    /\ MetadataFits
    /\ UnsynchronizedIsLocal
    /\ ReferencesAreCounted
    /\ ViewsHoldTheEntry
    /\ EntryTellsPhase
    /\ PayloadTellsPhase
    /\ HoldersSeePayload
    /\ static => synchronized

----------------------------------------------------------------------------

(* What all this is for: see LazyValue.                                    *)
Lazy == INSTANCE LazyValue WITH
    value <- IF payload \in Values THEN payload ELSE None,
    asked <- {t \in Tasks : pc[t] # "idle"}

ImplementsLazyValue == Lazy!Spec

=============================================================================
