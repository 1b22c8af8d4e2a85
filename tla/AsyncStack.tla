----------------------------- MODULE AsyncStack -----------------------------
(***************************************************************************)
(* One task of the executor, and the futures nested in it: Rust futures    *)
(* that run compiled Pen functions, which call async Rust functions, whose *)
(* futures run Pen functions again.                                        *)
(*                                                                         *)
(* Compiled functions are in continuation-passing style and run on an      *)
(* AsyncStack (lib/ffi/src/cps).  A future of lib/ffi/src/future/call.rs,  *)
(* call_function.rs, from_closure.rs or from_function.rs owns such a stack *)
(* and polls the function that runs on it.  A function that bindgen        *)
(* (lib/ffi-macro) wraps, and the closure of to_closure.rs, poll a future  *)
(* on behalf of the function that called them.  Level 1 is the future that *)
(* the executor polls, and level l + 1 is a future that level l awaits.    *)
(*                                                                         *)
(* What is pushed and popped is modelled by its type: a pop reads as many  *)
(* bytes as its type says, whatever they are.  Functions of the machine    *)
(* code run to a return, so a poll is one sequence of steps.               *)
(***************************************************************************)
EXTENDS Naturals, Sequences

CONSTANTS Depth,      \* bound on the nesting of futures
          MaxCalls    \* bound on the calls of async Rust functions

ASSUME AsyncStackAssumption == Depth \in Nat \ {0} /\ MaxCalls \in Nat

VARIABLES
    (* the AsyncStack of each level                                        *)
    stack,        \* what is on it
    context,      \* whether it has the context of the poll under way
    nextActions,  \* the actions that validate_action accepts, the last first
    resolved,     \* whether resolved_value is Some
    (* the futures                                                         *)
    trampoline,   \* what the next poll of each level runs
    awaits,       \* the future each level polls: none, a leaf or a level
    leaf,         \* the future without futures in it: a timer, a socket, ...
    waker,        \* whether the leaf has the waker of the task
    (* the task                                                            *)
    notified,     \* whether the executor is to poll the task
    done,         \* whether the task has ended
    level,        \* the level that runs
    control,      \* what it runs
    calls         \* calls of async Rust functions still to come

stackVars == <<stack, context, nextActions, resolved>>
futureVars == <<trampoline, awaits, leaf, waker>>
taskVars == <<notified, done, level, control, calls>>
vars == <<stackVars, futureVars, taskVars>>

Levels == 1..Depth

Actions == {"Suspend", "Resume", "Restore"}

(* A stack frame of compiled code, a future, a value, the step functions   *)
(* of to_closure and of trampoline, and a continuation.                    *)
Items == {"frame", "future", "value", "resume", "step", "continuation"}

Controls == {"idle", "poll", "run", "await", "ready", "pending", "tail", "panic"}

Init ==
    /\ stack = [l \in Levels |-> << >>]
    /\ context = [l \in Levels |-> FALSE]
    /\ nextActions = [l \in Levels |-> <<"Suspend">>]
    /\ resolved = [l \in Levels |-> FALSE]
    /\ trampoline = [l \in Levels |-> "initialize"]
    /\ awaits = [l \in Levels |-> "none"]
    /\ leaf = "none"
    /\ waker = FALSE
    /\ notified = TRUE
    /\ done = FALSE
    /\ level = 1
    /\ control = "idle"
    /\ calls = MaxCalls

----------------------------------------------------------------------------

Top(s) == s[Len(s)]
Below(s, n) == SubSeq(s, 1, Len(s) - n)

(* Whether validate_action lets the action pass.                           *)
Expects(l, action) == nextActions[l] # << >> /\ Top(nextActions[l]) = action

(* What is next once the action on top has been taken.                     *)
Then(l, actions) ==
    nextActions' = [nextActions EXCEPT ![l] = Below(@, 1) \o actions]

Push(l, items) == stack' = [stack EXCEPT ![l] = @ \o items]
Pop(l, n) == stack' = [stack EXCEPT ![l] = Below(@, n)]

Goto(step) == control' = step

(* The executor polls the task.                                            *)
Poll ==
    /\ control = "idle"
    /\ notified
    /\ ~done
    /\ notified' = FALSE
    /\ level' = 1
    /\ Goto("poll")
    /\ UNCHANGED <<stackVars, futureVars, done, calls>>

(* run_with_context, and what runs in it.                                  *)
SetContext(l) == context' = [context EXCEPT ![l] = TRUE]

Initialize ==
    /\ control = "poll"
    /\ trampoline[level] = "initialize"
    /\ trampoline' = [trampoline EXCEPT ![level] = "none"]
    /\ SetContext(level)
    /\ Goto("run")
    /\ UNCHANGED <<stack, nextActions, resolved, awaits, leaf, waker, notified, done,
                   level, calls>>

(* The step function of AsyncStack::trampoline pops the value.             *)
StepValue ==
    /\ control = "poll"
    /\ trampoline[level] = "step"
    /\ trampoline' = [trampoline EXCEPT ![level] = "none"]
    /\ SetContext(level)
    /\ Pop(level, 1)
    /\ Goto("run")
    /\ UNCHANGED <<nextActions, resolved, awaits, leaf, waker, notified, done, level,
                   calls>>

(* The step function passed to AsyncStack::suspend restores the future.    *)
StepResume ==
    /\ control = "poll"
    /\ trampoline[level] = "resume"
    /\ Expects(level, "Restore")
    /\ trampoline' = [trampoline EXCEPT ![level] = "none"]
    /\ SetContext(level)
    /\ Then(level, << >>)
    /\ Pop(level, 1)
    /\ Goto("await")
    /\ UNCHANGED <<resolved, awaits, leaf, waker, notified, done, level, calls>>

(* Compiled code calls an async Rust function, pushing a frame unless it   *)
(* is a tail call.  The function creates a future.                         *)
CallForeign ==
    /\ control = "run"
    /\ calls > 0
    /\ calls' = calls - 1
    /\ \E frame \in {<< >>, <<"frame">>} : Push(level, frame)
    /\ \/ /\ awaits' = [awaits EXCEPT ![level] = "leaf"]
          /\ leaf' \in {"pending", "ready"}
       \/ /\ level < Depth
          /\ awaits' = [awaits EXCEPT ![level] = "level"]
          /\ leaf' = leaf
    /\ Goto("await")
    /\ UNCHANGED <<context, nextActions, resolved, trampoline, waker, notified, done,
                   level>>

(* Compiled code calls the continuation in the frame on top.               *)
ReturnToFrame ==
    /\ control = "run"
    /\ stack[level] # << >>
    /\ Pop(level, 1)
    /\ UNCHANGED <<context, nextActions, resolved, futureVars, taskVars>>

(* The continuation of the first function is resolve.                      *)
Resolve ==
    /\ control = "run"
    /\ stack[level] = << >>
    /\ resolved' = [resolved EXCEPT ![level] = TRUE]
    /\ Goto("tail")
    /\ UNCHANGED <<stack, context, nextActions, futureVars, notified, done, level,
                   calls>>

(* poll in to_closure and bindgen.  A leaf that is not ready keeps the     *)
(* waker of the context.                                                   *)
PollLeaf ==
    /\ control = "await"
    /\ context[level]
    /\ awaits[level] = "leaf"
    /\ \/ /\ leaf = "ready"
          /\ leaf' = "none"
          /\ awaits' = [awaits EXCEPT ![level] = "none"]
          /\ waker' = FALSE
          /\ Goto("ready")
       \/ /\ leaf = "pending"
          /\ waker' = TRUE
          /\ Goto("pending")
          /\ UNCHANGED <<leaf, awaits>>
    /\ UNCHANGED <<stackVars, trampoline, notified, done, level, calls>>

PollLevel ==
    /\ control = "await"
    /\ context[level]
    /\ awaits[level] = "level"
    /\ level' = level + 1
    /\ Goto("poll")
    /\ UNCHANGED <<stackVars, futureVars, notified, done, calls>>

(* AsyncStack::trampoline wakes the task that it makes wait.               *)
TrampolineActions == <<"Suspend", "Resume">>

MutantTrampoline ==
    /\ control = "ready"
    /\ Expects(level, "Suspend")
    /\ context[level]
    /\ Then(level, TrampolineActions)
    /\ Push(level, <<"value", "step", "continuation">>)
    /\ Goto("tail")
    /\ UNCHANGED <<context, resolved, futureVars, notified, done, level, calls>>

Trampoline ==
    /\ control = "ready"
    /\ Expects(level, "Suspend")
    /\ context[level]
    /\ Then(level, TrampolineActions)
    /\ Push(level, <<"value", "step", "continuation">>)
    /\ notified' = TRUE
    /\ Goto("tail")
    /\ UNCHANGED <<context, resolved, futureVars, done, level, calls>>

(* push_next_actions reverses what it is given.                            *)
MutantSuspendActions == <<"Resume", "Restore", "Suspend">>
SuspendActions == <<"Suspend", "Restore", "Resume">>

(* The order in which resume and restore pop.                              *)
MutantSuspendItems == <<"resume", "continuation", "future">>
SuspendItems == <<"future", "resume", "continuation">>

Suspend ==
    /\ control = "pending"
    /\ Expects(level, "Suspend")
    /\ Then(level, SuspendActions)
    /\ Push(level, SuspendItems)
    /\ Goto("tail")
    /\ UNCHANGED <<context, resolved, futureVars, notified, done, level, calls>>

MutantClearContext(l) == UNCHANGED context
ClearContext(l) == context' = [context EXCEPT ![l] = FALSE]

(* A level that is Ready is dropped, and the level below gets the value;   *)
(* a later future at the level has a stack of its own.                     *)
FinishReady ==
    /\ control = "tail"
    /\ resolved[level]
    /\ stack' = [stack EXCEPT ![level] = << >>]
    /\ nextActions' = [nextActions EXCEPT ![level] = <<"Suspend">>]
    /\ resolved' = [resolved EXCEPT ![level] = FALSE]
    /\ ClearContext(level)
    /\ IF level = 1
       THEN /\ done' = TRUE
            /\ Goto("idle")
            /\ UNCHANGED <<trampoline, awaits, level>>
       ELSE /\ trampoline' = [trampoline EXCEPT ![level] = "initialize"]
            /\ awaits' = [awaits EXCEPT ![level - 1] = "none"]
            /\ level' = level - 1
            /\ Goto("ready")
            /\ UNCHANGED done
    /\ UNCHANGED <<leaf, waker, notified, calls>>

(* A level that is Pending resumes its stack: the continuation and the     *)
(* step are popped for the next poll.                                      *)
FinishPending ==
    /\ control = "tail"
    /\ ~resolved[level]
    /\ Expects(level, "Resume")
    /\ Then(level, << >>)
    /\ Pop(level, 2)
    /\ trampoline' = [trampoline EXCEPT ![level] = Top(Below(stack[level], 1))]
    /\ ClearContext(level)
    /\ IF level = 1
       THEN Goto("idle") /\ UNCHANGED level
       ELSE Goto("pending") /\ level' = level - 1
    /\ UNCHANGED <<resolved, awaits, leaf, waker, notified, done, calls>>

(* The unwraps and the unreachable of the code above.                      *)
Panics ==
    \/ control = "poll" /\ trampoline[level] \notin {"initialize", "step", "resume"}
    \/ control = "poll" /\ trampoline[level] = "resume" /\ ~Expects(level, "Restore")
    \/ control \in {"await", "ready"} /\ ~context[level]
    \/ control \in {"ready", "pending"} /\ ~Expects(level, "Suspend")
    \/ control = "tail" /\ ~resolved[level] /\ ~Expects(level, "Resume")

(* The leaf gets ready, whoever runs, and wakes the task it knows of.      *)
LeafReady ==
    /\ leaf = "pending"
    /\ leaf' = "ready"
    /\ waker' = FALSE
    /\ notified' = (notified \/ waker)
    /\ UNCHANGED <<stackVars, trampoline, awaits, done, level, control, calls>>

(* A task can be woken at any time without a reason.                       *)
SpuriousWake ==
    /\ ~notified
    /\ notified' = TRUE
    /\ UNCHANGED <<stackVars, futureVars, done, level, control, calls>>

TaskStep ==
    \/ Poll
    \/ Initialize \/ StepValue \/ StepResume
    \/ CallForeign \/ ReturnToFrame \/ Resolve
    \/ PollLeaf \/ PollLevel
    \/ Trampoline \/ Suspend
    \/ FinishReady \/ FinishPending

Next == TaskStep \/ LeafReady \/ SpuriousWake

(* The executor polls tasks that have been woken, and whatever the leaf    *)
(* waits for happens.  No spurious wake can be counted on.                 *)
Spec == Init /\ [][Next]_vars /\ WF_vars(TaskStep) /\ WF_vars(LeafReady)

----------------------------------------------------------------------------

(* What is popped is what was pushed, as the types of resume, restore and  *)
(* the step functions have it, and frames are popped in between only.      *)
PopsWhatWasPushed ==
    LET s == stack[level] IN
    /\ control = "tail" /\ ~resolved[level] =>
          /\ Len(s) >= 3
          /\ SubSeq(s, Len(s) - 2, Len(s)) \in
                {<<"value", "step", "continuation">>, <<"future", "resume", "continuation">>}
    /\ control = "poll" /\ trampoline[level] = "step" => s # << >> /\ Top(s) = "value"
    /\ control = "poll" /\ trampoline[level] = "resume" => s # << >> /\ Top(s) = "future"
    /\ control = "run" => \A i \in DOMAIN s : s[i] = "frame"
    /\ control = "tail" /\ resolved[level] => s = << >>

(* No unwrap in the bridge fails: every call of suspend, trampoline,       *)
(* resume and restore comes when the stack expects it, with a context, and *)
(* no value is taken for one of another type, which nothing would notice.  *)
NeverPanics == ~Panics /\ PopsWhatWasPushed

(* "Option<*mut Context> is cleared to None on every non-preemptive run"   *)
(* (async_stack.rs:171): a stack has a context only within the poll that   *)
(* the context is for.                                                     *)
ContextOnlyInPoll ==
    \A l \in Levels : context[l] <=>
        /\ control # "idle"
        /\ l <= level
        /\ l = level => control # "poll"

(* Every task comes to its end, as the functions it runs do.               *)
Completes == <>done

----------------------------------------------------------------------------

(* Why these hold: what every level of the nested futures looks like, by   *)
(* where the task is.                                                      *)

TypeOK ==
    /\ stack \in [Levels -> Seq(Items)]
    /\ context \in [Levels -> BOOLEAN]
    /\ nextActions \in [Levels -> Seq(Actions)]
    /\ resolved \in [Levels -> BOOLEAN]
    /\ trampoline \in [Levels -> {"none", "initialize"} \cup Items]
    /\ awaits \in [Levels -> {"none", "leaf", "level"}]
    /\ \A l \in Levels : awaits[l] = "level" => l < Depth
    /\ level \in Levels
    /\ control \in Controls

Frames == Seq({"frame"})

(* The stack of compiled code that runs, or that awaits a future.          *)
Running(l) ==
    /\ context[l]
    /\ ~resolved[l]
    /\ nextActions[l] = <<"Suspend">>
    /\ stack[l] \in Frames

(* A continuation has been left on top for the poll that ends, with what   *)
(* the next poll starts with below it.                                     *)
Left(s, actions) ==
    \E f \in Frames :
        \/ s = f \o <<"value", "step", "continuation">> /\ actions = <<"Suspend", "Resume">>
        \/ s = f \o SuspendItems /\ actions = SuspendActions

Returning(l) ==
    /\ context[l]
    /\ IF resolved[l]
       THEN stack[l] = << >> /\ nextActions[l] = <<"Suspend">>
       ELSE Left(stack[l], nextActions[l])

(* A future between two polls, or that has not been polled.                *)
Parked(l) ==
    /\ ~context[l]
    /\ ~resolved[l]
    /\ \/ /\ trampoline[l] = "initialize"
          /\ stack[l] = << >>
          /\ nextActions[l] = <<"Suspend">>
       \/ /\ trampoline[l] = "step"
          /\ \E f \in Frames : stack[l] = f \o <<"value">>
          /\ nextActions[l] = <<"Suspend">>
       \/ /\ trampoline[l] = "resume"
          /\ \E f \in Frames : stack[l] = f \o <<"future">>
          /\ nextActions[l] = <<"Suspend", "Restore">>

LevelsTellPhase ==
    /\ control # "idle" => ~done
    /\ control = "idle" =>
          \A l \in Levels : IF done THEN ~context[l] ELSE Parked(l)
    /\ control # "idle" =>
          \A l \in Levels :
              /\ l < level => Running(l)
              /\ l > level => Parked(l)
              /\ l = level => IF control = "poll" THEN Parked(l)
                              ELSE IF control = "tail" THEN Returning(l)
                              ELSE Running(l)

Inductive == TypeOK /\ LevelsTellPhase

=============================================================================
