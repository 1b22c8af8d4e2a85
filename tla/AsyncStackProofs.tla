--------------------------- MODULE AsyncStackProofs ---------------------------
(***************************************************************************)
(* Proofs that the bridge between compiled code and Rust futures never     *)
(* panics and never takes what it pops for something else, for any nesting *)
(* of futures, any number of calls and stacks of any height.               *)
(***************************************************************************)
EXTENDS AsyncStack, SequenceTheorems, TLAPS

(* A stack s of f with the three actions a, b and c on top, seen from its  *)
(* top: what a poll that ends takes off and what it leaves.                *)
ThreeTaken(f, s, a, b, c) ==
    /\ s \in Seq(Items)
    /\ Len(s) >= 3
    /\ SubSeq(s, Len(s) - 2, Len(s)) = <<a, b, c>>
    /\ Below(s, 2) = f \o <<a>>
    /\ Top(Below(s, 1)) = b

(* What suspend and trampoline push is on top, in the order pushed.        *)
LEMMA ThreeOnTop ==
    ASSUME NEW f \in Seq(Items), NEW a \in Items, NEW b \in Items, NEW c \in Items,
           NEW s, s = f \o <<a, b, c>>
    PROVE  ThreeTaken(f, s, a, b, c)
<1>1. /\ s \in Seq(Items)
      /\ Len(s) = Len(f) + 3 /\ Len(f) \in Nat
      /\ \A i \in 1 .. Len(f) + 3 : s[i] = IF i <= Len(f) THEN f[i] ELSE <<a, b, c>>[i - Len(f)]
  <2>1. <<a, b, c>> \in Seq(Items) /\ Len(<<a, b, c>>) = 3
    OBVIOUS
  <2> QED
    BY <2>1, ConcatProperties, LenProperties
<1>2. \A i \in 1 .. Len(s) : s[i] \in Items
  BY <1>1, ElementOfSeq
<1>3. SubSeq(s, Len(s) - 2, Len(s)) = <<a, b, c>>
  <2> DEFINE u == SubSeq(s, Len(s) - 2, Len(s))
  <2>1. /\ u \in Seq(Items) /\ Len(u) = 3
        /\ \A i \in 1 .. 3 : u[i] = s[Len(s) - 2 + i - 1]
    BY <1>1, <1>2, SubSeqProperties
  <2>2. u[1] = a /\ u[2] = b /\ u[3] = c
    BY <1>1, <2>1
  <2>3. <<a, b, c>> \in Seq(Items) /\ Len(<<a, b, c>>) = 3
    OBVIOUS
  <2> HIDE DEF u
  <2>4. \A i \in 1 .. 3 : u[i] = <<a, b, c>>[i]
    BY <2>2
  <2> QED
    BY <2>1, <2>3, <2>4, SeqEqual DEF u
<1>4. Below(s, 2) = f \o <<a>>
  <2> DEFINE u == SubSeq(s, 1, Len(s) - 2)
             v == f \o <<a>>
  <2>1. /\ u \in Seq(Items) /\ Len(u) = Len(f) + 1
        /\ \A i \in 1 .. Len(f) + 1 : u[i] = s[i]
    BY <1>1, <1>2, SubSeqProperties
  <2>2. /\ v \in Seq(Items) /\ Len(v) = Len(f) + 1
        /\ \A i \in 1 .. Len(f) + 1 : v[i] = IF i <= Len(f) THEN f[i] ELSE <<a>>[i - Len(f)]
    <3>1. <<a>> \in Seq(Items) /\ Len(<<a>>) = 1
      OBVIOUS
    <3> QED
      BY <3>1, ConcatProperties
  <2>3. \A i \in 1 .. Len(f) + 1 : u[i] = v[i]
    BY <1>1, <2>1, <2>2
  <2> HIDE DEF u, v
  <2>4. u = v
    BY <2>1, <2>2, <2>3, SeqEqual
  <2> QED
    BY <2>4 DEF Below, u, v
<1>5. Top(Below(s, 1)) = b
  <2> DEFINE u == SubSeq(s, 1, Len(s) - 1)
  <2>1. /\ Len(u) = Len(f) + 2
        /\ \A i \in 1 .. Len(f) + 2 : u[i] = s[i]
    BY <1>1, <1>2, SubSeqProperties
  <2> HIDE DEF u
  <2>2. u[Len(u)] = s[Len(f) + 2]
    BY <1>1, <2>1
  <2>3. s[Len(f) + 2] = <<a, b, c>>[2]
    BY <1>1
  <2>4. Top(u) = b
    BY <2>2, <2>3 DEF Top
  <2> QED
    BY <2>4 DEF Below, u
<1>6. s \in Seq(Items) /\ Len(s) >= 3
  BY <1>1
<1> QED
  BY <1>3, <1>4, <1>5, <1>6 DEF ThreeTaken

(* What is left for the next poll is on top, and popped alone.             *)
LEMMA OneOnTop ==
    ASSUME NEW S, NEW f \in Seq(S), NEW a \in S, NEW s, s = f \o <<a>>
    PROVE  /\ s \in Seq(S)
           /\ s # << >>
           /\ Top(s) = a
           /\ Below(s, 1) = f
<1>1. /\ s \in Seq(S)
      /\ Len(s) = Len(f) + 1 /\ Len(f) \in Nat
      /\ \A i \in 1 .. Len(f) + 1 : s[i] = IF i <= Len(f) THEN f[i] ELSE <<a>>[i - Len(f)]
  <2>1. <<a>> \in Seq(S) /\ Len(<<a>>) = 1
    OBVIOUS
  <2> QED
    BY <2>1, ConcatProperties, LenProperties
<1>2. \A i \in 1 .. Len(s) : s[i] \in S
  BY <1>1, ElementOfSeq
<1>3. s # << >> /\ Top(s) = a
  BY <1>1 DEF Top
<1>4. Below(s, 1) = f
  <2> DEFINE u == SubSeq(s, 1, Len(s) - 1)
  <2>1. /\ u \in Seq(S) /\ Len(u) = Len(f)
        /\ \A i \in 1 .. Len(f) : u[i] = s[i]
    BY <1>1, <1>2, SubSeqProperties
  <2> HIDE DEF u
  <2>2. u = f
    BY <1>1, <2>1, SeqEqual
  <2> QED
    BY <2>2 DEF Below, u
<1> QED
  BY <1>1, <1>3, <1>4

(* Compiled code pushes and pops frames only.                              *)
LEMMA FramesOnly ==
    ASSUME NEW f \in Frames
    PROVE  /\ f \in Seq(Items)
           /\ << >> \in Frames
           /\ f \o << >> \in Frames
           /\ f \o <<"frame">> \in Frames
           /\ f # << >> => Below(f, 1) \in Frames
           /\ \A i \in DOMAIN f : f[i] = "frame"
<1>1. f \in Seq(Items)
  <2>1. {"frame"} \subseteq Items
    BY DEF Items
  <2> QED
    BY <2>1, SeqMonotonic DEF Frames
<1>2. << >> \in Frames
  BY DEF Frames
<1>3. f \o << >> \in Frames
  BY ConcatEmptySeq DEF Frames
<1>4. f \o <<"frame">> \in Frames
  <2>1. <<"frame">> \in Seq({"frame"})
    OBVIOUS
  <2> QED
    BY <2>1, ConcatProperties DEF Frames
<1>5. ASSUME f # << >>
      PROVE  Below(f, 1) \in Frames
  BY ElementOfSeq, SubSeqProperties, LenProperties DEF Frames, Below
<1>6. \A i \in DOMAIN f : f[i] = "frame"
  BY DEF Frames
<1> QED
  BY <1>1, <1>2, <1>3, <1>4, <1>5, <1>6

(* What suspend and trampoline leave, and what the poll that ends takes.   *)
LEMMA LeftOnTop ==
    ASSUME NEW f \in Frames, NEW s,
           NEW a \in {"value", "future"}, NEW b \in {"step", "resume"},
           s = f \o <<a, b, "continuation">>
    PROVE  /\ s \in Seq(Items)
           /\ Len(s) >= 3
           /\ SubSeq(s, Len(s) - 2, Len(s)) = <<a, b, "continuation">>
           /\ Below(s, 2) = f \o <<a>>
           /\ Top(Below(s, 1)) = b
<1>1. f \in Seq(Items) /\ a \in Items /\ b \in Items /\ "continuation" \in Items
  BY FramesOnly DEF Items
<1>2. ThreeTaken(f, s, a, b, "continuation")
  BY <1>1, ThreeOnTop
<1> QED
  BY <1>2 DEF ThreeTaken

(* The same for the two or three actions that a stack expects.             *)
LEMMA LastOfTwo ==
    ASSUME NEW S, NEW a \in S, NEW b \in S
    PROVE  /\ Top(<<a>>) = a /\ Below(<<a>>, 1) = << >>
           /\ Top(<<a, b>>) = b /\ Below(<<a, b>>, 1) = <<a>>
<1>1. Top(<<a>>) = a /\ Top(<<a, b>>) = b
  BY DEF Top
<1>2. Below(<<a>>, 1) = << >>
  BY SubSeqEmpty DEF Below
<1>3. Below(<<a, b>>, 1) = <<a>>
  <2> DEFINE s == <<a, b>>
             u == SubSeq(s, 1, 1)
  <2>1. /\ u \in Seq(S) /\ Len(u) = 1
        /\ \A i \in 1 .. 1 : u[i] = s[i]
    BY SubSeqProperties
  <2>2. /\ <<a>> \in Seq(S) /\ Len(<<a>>) = 1 /\ <<a>>[1] = a /\ s[1] = a /\ Len(s) = 2
    OBVIOUS
  <2> HIDE DEF u
  <2>3. u = <<a>>
    BY <2>1, <2>2, SeqEqual
  <2> QED
    BY <2>2, <2>3 DEF Below, u
<1> QED
  BY <1>1, <1>2, <1>3

LEMMA LastOfThree ==
    ASSUME NEW S, NEW a \in S, NEW b \in S, NEW c \in S
    PROVE  Top(<<a, b, c>>) = c /\ Below(<<a, b, c>>, 1) = <<a, b>>
<1>1. Top(<<a, b, c>>) = c
  BY DEF Top
<1>2. Below(<<a, b, c>>, 1) = <<a, b>>
  <2> DEFINE s == <<a, b, c>>
             u == SubSeq(s, 1, 2)
  <2>1. /\ u \in Seq(S) /\ Len(u) = 2
        /\ \A i \in 1 .. 2 : u[i] = s[i]
    BY SubSeqProperties
  <2>2. /\ <<a, b>> \in Seq(S) /\ Len(<<a, b>>) = 2 /\ Len(s) = 3
        /\ <<a, b>>[1] = s[1] /\ <<a, b>>[2] = s[2]
    OBVIOUS
  <2> HIDE DEF u, s
  <2>3. u = <<a, b>>
    BY <2>1, <2>2, SeqEqual
  <2> QED
    BY <2>2, <2>3 DEF Below, u, s
<1> QED
  BY <1>1, <1>2

(* How the actions on top change from one call to the next: suspend or     *)
(* trampoline, resume, and restore come back to where they started.        *)
LEMMA ActionsOnTop ==
    /\ Top(<<"Suspend">>) = "Suspend" /\ <<"Suspend">> # << >>
    /\ Below(<<"Suspend">>, 1) \o TrampolineActions = <<"Suspend", "Resume">>
    /\ Below(<<"Suspend">>, 1) \o SuspendActions = SuspendActions
    /\ Top(<<"Suspend", "Resume">>) = "Resume" /\ <<"Suspend", "Resume">> # << >>
    /\ Below(<<"Suspend", "Resume">>, 1) \o << >> = <<"Suspend">>
    /\ Top(SuspendActions) = "Resume" /\ SuspendActions # << >>
    /\ Below(SuspendActions, 1) \o << >> = <<"Suspend", "Restore">>
    /\ Top(<<"Suspend", "Restore">>) = "Restore" /\ <<"Suspend", "Restore">> # << >>
    /\ Below(<<"Suspend", "Restore">>, 1) \o << >> = <<"Suspend">>
<1> DEFINE S == {"Suspend", "Resume", "Restore"}
<1>1. "Suspend" \in S /\ "Resume" \in S /\ "Restore" \in S
  OBVIOUS
<1>2. /\ <<"Suspend">> \in Seq(S) /\ << >> \in Seq(S)
      /\ <<"Suspend", "Restore">> \in Seq(S)
      /\ <<"Suspend", "Resume">> \in Seq(S)
      /\ <<"Suspend", "Restore", "Resume">> \in Seq(S)
  OBVIOUS
<1>3. \A s \in Seq(S) : << >> \o s = s /\ s \o << >> = s
  BY ConcatEmptySeq
<1> HIDE DEF S
<1>4. /\ Top(<<"Suspend">>) = "Suspend" /\ Below(<<"Suspend">>, 1) = << >>
      /\ Top(<<"Suspend", "Resume">>) = "Resume"
      /\ Below(<<"Suspend", "Resume">>, 1) = <<"Suspend">>
      /\ Top(<<"Suspend", "Restore">>) = "Restore"
      /\ Below(<<"Suspend", "Restore">>, 1) = <<"Suspend">>
  BY <1>1, LastOfTwo
<1>5. /\ Top(SuspendActions) = "Resume"
      /\ Below(SuspendActions, 1) = <<"Suspend", "Restore">>
  BY <1>1, LastOfThree DEF SuspendActions
<1>6. /\ <<"Suspend">> # << >> /\ <<"Suspend", "Resume">> # << >>
      /\ <<"Suspend", "Restore">> # << >> /\ SuspendActions # << >>
  BY DEF SuspendActions
<1> QED
  BY <1>2, <1>3, <1>4, <1>5, <1>6 DEF TrampolineActions, SuspendActions

----------------------------------------------------------------------------

(* A task starts with fresh stacks.                                        *)
LEMMA InitInductive ==
    ASSUME Init
    PROVE  Inductive
<1>1. TypeOK
  <2>1. << >> \in Seq(Items) /\ <<"Suspend">> \in Seq(Actions)
    BY DEF Actions
  <2> QED
    BY <2>1, AsyncStackAssumption DEF Init, TypeOK, Levels, Controls
<1>2. LevelsTellPhase
  BY DEF Init, LevelsTellPhase, Parked
<1> QED
  BY <1>1, <1>2 DEF Inductive

(* What a level looks like while it runs, and what the others do.          *)
LEMMA LevelFacts ==
    ASSUME Inductive, control # "idle"
    PROVE  /\ level \in Levels /\ ~done
           /\ control = "poll" => Parked(level)
           /\ control = "tail" => Returning(level)
           /\ control \notin {"poll", "tail"} => Running(level)
BY DEF Inductive, TypeOK, LevelsTellPhase, Levels

(* A step that touches the level that runs only.                           *)
LEMMA SameLevel ==
    ASSUME Inductive, TypeOK', control # "idle", control' # "idle",
           level' = level, done' = done,
           \A l \in Levels \ {level} :
               /\ stack'[l] = stack[l]
               /\ context'[l] = context[l]
               /\ nextActions'[l] = nextActions[l]
               /\ resolved'[l] = resolved[l]
               /\ trampoline'[l] = trampoline[l],
           control' = "poll" => Parked(level)',
           control' = "tail" => Returning(level)',
           control' \notin {"poll", "tail"} => Running(level)'
    PROVE  Inductive'
<1> SUFFICES ASSUME NEW l \in Levels
             PROVE  /\ l < level => Running(l)'
                    /\ l > level => Parked(l)'
                    /\ l = level => IF control' = "poll" THEN Parked(l)'
                                    ELSE IF control' = "tail" THEN Returning(l)'
                                    ELSE Running(l)'
  BY DEF Inductive, LevelsTellPhase
<1>1. CASE l = level
  BY <1>1 DEF Levels
<1>2. CASE l # level
  <2>1. /\ l < level => Running(l)
        /\ l > level => Parked(l)
    BY DEF Inductive, LevelsTellPhase
  <2> QED
    BY <1>2, <2>1 DEF Running, Parked
<1> QED
  BY <1>1, <1>2

(* The executor enters at the outermost future.                            *)
LEMMA PollPreserves ==
    ASSUME Inductive, Poll
    PROVE  Inductive'
<1>1. /\ control = "idle" /\ ~done /\ level' = 1 /\ control' = "poll" /\ done' = done
      /\ stack' = stack /\ context' = context /\ nextActions' = nextActions
      /\ resolved' = resolved /\ trampoline' = trampoline /\ awaits' = awaits
  BY DEF Poll, Goto, stackVars, futureVars
<1>2. TypeOK'
  BY <1>1, AsyncStackAssumption DEF Inductive, TypeOK, Levels, Controls
<1>3. \A l \in Levels : Parked(l)'
  BY <1>1 DEF Inductive, LevelsTellPhase, Parked
<1>4. \A l \in Levels : ~(l < 1) /\ (l > 1 => l # 1)
  BY DEF Levels
<1> QED
  BY <1>1, <1>2, <1>3, <1>4 DEF Inductive, LevelsTellPhase

(* run_with_context runs a function for the first time.                    *)
LEMMA InitializePreserves ==
    ASSUME Inductive, Initialize
    PROVE  Inductive'
<1>1. /\ control = "poll" /\ control' = "run" /\ trampoline[level] = "initialize"
      /\ trampoline' = [trampoline EXCEPT ![level] = "none"]
      /\ context' = [context EXCEPT ![level] = TRUE]
      /\ stack' = stack /\ nextActions' = nextActions /\ resolved' = resolved
      /\ awaits' = awaits /\ level' = level /\ done' = done
  BY DEF Initialize, SetContext, Goto
<1>2. TypeOK'
  BY <1>1 DEF Inductive, TypeOK, Controls
<1>3. Running(level)'
  BY <1>1, LevelFacts DEF Inductive, TypeOK, Parked, Running, Frames
<1> QED
  BY <1>1, <1>2, <1>3, SameLevel DEF Inductive, TypeOK

(* The next poll after a trampoline pops the value it left.                *)
LEMMA StepValuePreserves ==
    ASSUME Inductive, StepValue
    PROVE  Inductive'
<1>1. /\ control = "poll" /\ control' = "run" /\ trampoline[level] = "step"
      /\ trampoline' = [trampoline EXCEPT ![level] = "none"]
      /\ context' = [context EXCEPT ![level] = TRUE]
      /\ stack' = [stack EXCEPT ![level] = Below(@, 1)]
      /\ nextActions' = nextActions /\ resolved' = resolved
      /\ awaits' = awaits /\ level' = level /\ done' = done /\ level \in Levels
  BY LevelFacts DEF StepValue, SetContext, Goto, Pop
<1>2. PICK f \in Frames : stack[level] = f \o <<"value">>
  BY <1>1, LevelFacts DEF Parked
<1>3. Below(stack[level], 1) = f /\ f \in Seq(Items)
  <2>1. "value" \in Items
    BY DEF Items
  <2> QED
    BY <1>2, <2>1, FramesOnly, OneOnTop
<1>4. TypeOK'
  BY <1>1, <1>3 DEF Inductive, TypeOK, Controls
<1>5. Running(level)'
  BY <1>1, <1>3, LevelFacts DEF Inductive, TypeOK, Parked, Running
<1> QED
  BY <1>1, <1>4, <1>5, SameLevel DEF Inductive, TypeOK

(* The next poll after a suspension restores the future it left.           *)
LEMMA StepResumePreserves ==
    ASSUME Inductive, StepResume
    PROVE  Inductive'
<1>1. /\ control = "poll" /\ control' = "await" /\ trampoline[level] = "resume"
      /\ trampoline' = [trampoline EXCEPT ![level] = "none"]
      /\ context' = [context EXCEPT ![level] = TRUE]
      /\ stack' = [stack EXCEPT ![level] = Below(@, 1)]
      /\ nextActions' = [nextActions EXCEPT ![level] = Below(@, 1) \o << >>]
      /\ resolved' = resolved
      /\ awaits' = awaits /\ level' = level /\ done' = done /\ level \in Levels
  BY LevelFacts DEF StepResume, SetContext, Goto, Pop, Then
<1>2. PICK f \in Frames : stack[level] = f \o <<"future">>
  BY <1>1, LevelFacts DEF Parked
<1>3. Below(stack[level], 1) = f /\ f \in Seq(Items)
  <2>1. "future" \in Items
    BY DEF Items
  <2> QED
    BY <1>2, <2>1, FramesOnly, OneOnTop
<1>4. Below(nextActions[level], 1) \o << >> = <<"Suspend">>
  BY <1>1, LevelFacts, ActionsOnTop DEF Parked
<1>5. TypeOK'
  <2>1. <<"Suspend">> \in Seq(Actions)
    BY DEF Actions
  <2> QED
    BY <1>1, <1>3, <1>4, <2>1 DEF Inductive, TypeOK, Controls
<1>6. Running(level)'
  BY <1>1, <1>3, <1>4, LevelFacts DEF Inductive, TypeOK, Parked, Running
<1> QED
  BY <1>1, <1>5, <1>6, SameLevel DEF Inductive, TypeOK

(* Compiled code leaves a frame for its continuation, or none.             *)
LEMMA CallForeignPreserves ==
    ASSUME Inductive, CallForeign
    PROVE  Inductive'
<1>1. /\ control = "run" /\ control' = "await"
      /\ trampoline' = trampoline /\ context' = context
      /\ nextActions' = nextActions /\ resolved' = resolved
      /\ level' = level /\ done' = done /\ level \in Levels
  BY LevelFacts DEF CallForeign, Goto
<1>2. PICK frame \in {<< >>, <<"frame">>} : stack' = [stack EXCEPT ![level] = @ \o frame]
  BY DEF CallForeign, Push
<1>3. stack[level] \o frame \in Frames
  BY <1>1, LevelFacts, FramesOnly DEF Running
<1>4. TypeOK'
  <2>1. stack' \in [Levels -> Seq(Items)]
    BY <1>1, <1>2, <1>3, FramesOnly DEF Inductive, TypeOK
  <2>2. /\ awaits' \in [Levels -> {"none", "leaf", "level"}]
        /\ \A l \in Levels : awaits'[l] = "level" => l < Depth
    BY <1>1 DEF CallForeign, Inductive, TypeOK
  <2> QED
    BY <1>1, <2>1, <2>2 DEF Inductive, TypeOK, Controls
<1>5. Running(level)'
  BY <1>1, <1>2, <1>3, LevelFacts DEF Inductive, TypeOK, Running
<1> QED
  BY <1>1, <1>2, <1>4, <1>5, SameLevel DEF Inductive, TypeOK

(* A continuation pops its frame.                                          *)
LEMMA ReturnToFramePreserves ==
    ASSUME Inductive, ReturnToFrame
    PROVE  Inductive'
<1>1. /\ control = "run" /\ control' = "run" /\ stack[level] # << >>
      /\ stack' = [stack EXCEPT ![level] = Below(@, 1)]
      /\ trampoline' = trampoline /\ context' = context
      /\ nextActions' = nextActions /\ resolved' = resolved /\ awaits' = awaits
      /\ level' = level /\ done' = done /\ level \in Levels
  BY LevelFacts DEF ReturnToFrame, Pop, futureVars, taskVars
<1>2. Below(stack[level], 1) \in Frames /\ Below(stack[level], 1) \in Seq(Items)
  BY <1>1, LevelFacts, FramesOnly DEF Running
<1>3. TypeOK'
  BY <1>1, <1>2 DEF Inductive, TypeOK
<1>4. Running(level)'
  BY <1>1, <1>2, LevelFacts DEF Inductive, TypeOK, Running
<1> QED
  BY <1>1, <1>3, <1>4, SameLevel DEF Inductive, TypeOK

(* The last continuation resolves the future.                              *)
LEMMA ResolvePreserves ==
    ASSUME Inductive, Resolve
    PROVE  Inductive'
<1>1. /\ control = "run" /\ control' = "tail" /\ stack[level] = << >>
      /\ resolved' = [resolved EXCEPT ![level] = TRUE]
      /\ stack' = stack /\ trampoline' = trampoline /\ context' = context
      /\ nextActions' = nextActions /\ awaits' = awaits
      /\ level' = level /\ done' = done /\ level \in Levels
  BY LevelFacts DEF Resolve, Goto, futureVars
<1>2. TypeOK'
  BY <1>1 DEF Inductive, TypeOK, Controls
<1>3. Returning(level)'
  BY <1>1, LevelFacts DEF Inductive, TypeOK, Running, Returning
<1> QED
  BY <1>1, <1>2, <1>3, SameLevel DEF Inductive, TypeOK

(* A poll of a future without futures in it changes no stack.              *)
LEMMA PollLeafPreserves ==
    ASSUME Inductive, PollLeaf
    PROVE  Inductive'
<1>1. /\ control = "await" /\ control' \in {"ready", "pending"}
      /\ stack' = stack /\ trampoline' = trampoline /\ context' = context
      /\ nextActions' = nextActions /\ resolved' = resolved
      /\ level' = level /\ done' = done /\ level \in Levels
  BY LevelFacts DEF PollLeaf, Goto, stackVars
<1>2. TypeOK'
  <2>1. /\ awaits' \in [Levels -> {"none", "leaf", "level"}]
        /\ \A l \in Levels : awaits'[l] = "level" => l < Depth
    BY <1>1 DEF PollLeaf, Inductive, TypeOK
  <2> QED
    BY <1>1, <2>1 DEF Inductive, TypeOK, Controls
<1>3. Running(level)'
  BY <1>1, LevelFacts DEF Running
<1> QED
  BY <1>1, <1>2, <1>3, SameLevel DEF Inductive, TypeOK

(* A poll of a nested future finds it parked.                              *)
LEMMA PollLevelPreserves ==
    ASSUME Inductive, PollLevel
    PROVE  Inductive'
<1>1. /\ control = "await" /\ control' = "poll" /\ awaits[level] = "level"
      /\ level' = level + 1
      /\ stack' = stack /\ trampoline' = trampoline /\ context' = context
      /\ nextActions' = nextActions /\ resolved' = resolved /\ awaits' = awaits
      /\ done' = done /\ level \in Levels
  BY LevelFacts DEF PollLevel, Goto, stackVars, futureVars
<1>2. level + 1 \in Levels
  BY <1>1, AsyncStackAssumption DEF Inductive, TypeOK, Levels
<1>3. TypeOK'
  BY <1>1, <1>2 DEF Inductive, TypeOK, Controls
<1>4. \A l \in Levels : (Running(l)' <=> Running(l)) /\ (Parked(l)' <=> Parked(l))
  BY <1>1 DEF Running, Parked
<1>5. ASSUME NEW l \in Levels
      PROVE  /\ l < level + 1 => Running(l)
             /\ l >= level + 1 => Parked(l)
  <2>1. l < level + 1 <=> l < level \/ l = level
    BY <1>1 DEF Levels
  <2>2. l >= level + 1 <=> l > level
    BY <1>1 DEF Levels
  <2> QED
    BY <1>1, <2>1, <2>2 DEF Inductive, LevelsTellPhase
<1>6. \A l \in Levels : (l > level + 1 => l >= level + 1) /\ (l = level + 1 => l >= level + 1)
  BY <1>1 DEF Levels
<1>7. ~done'
  BY <1>1, LevelFacts
<1> QED
  BY <1>1, <1>3, <1>4, <1>5, <1>6, <1>7 DEF Inductive, LevelsTellPhase

(* AsyncStack::trampoline leaves a value, its step and the continuation.   *)
LEMMA TrampolinePreserves ==
    ASSUME Inductive, Trampoline
    PROVE  Inductive'
<1>1. /\ control = "ready" /\ control' = "tail"
      /\ nextActions' = [nextActions EXCEPT ![level] = Below(@, 1) \o TrampolineActions]
      /\ stack' = [stack EXCEPT ![level] = @ \o <<"value", "step", "continuation">>]
      /\ trampoline' = trampoline /\ context' = context
      /\ resolved' = resolved /\ awaits' = awaits
      /\ level' = level /\ done' = done /\ level \in Levels
  BY LevelFacts DEF Trampoline, Goto, Then, Push, futureVars
<1>2. Running(level) /\ stack[level] \in Frames
  BY <1>1, LevelFacts DEF Running
<1>3. Below(nextActions[level], 1) \o TrampolineActions = <<"Suspend", "Resume">>
  BY <1>2, ActionsOnTop DEF Running
<1>4. TypeOK'
  <2>1. <<"Suspend", "Resume">> \in Seq(Actions)
    BY DEF Actions
  <2>2. stack[level] \o <<"value", "step", "continuation">> \in Seq(Items)
    <3>1. "value" \in Items /\ "step" \in Items /\ "continuation" \in Items
      BY DEF Items
    <3> QED
      BY <1>2, <3>1, FramesOnly, ThreeOnTop DEF ThreeTaken
  <2> QED
    BY <1>1, <1>3, <2>1, <2>2 DEF Inductive, TypeOK, Controls
<1>5. Returning(level)'
  <2>1. Left(stack'[level], nextActions'[level])
    BY <1>1, <1>2, <1>3 DEF Inductive, TypeOK, Left
  <2> QED
    BY <1>1, <1>2, <2>1 DEF Running, Returning
<1> QED
  BY <1>1, <1>4, <1>5, SameLevel DEF Inductive, TypeOK

(* AsyncStack::suspend leaves a future, its step and the continuation.     *)
LEMMA SuspendPreserves ==
    ASSUME Inductive, Suspend
    PROVE  Inductive'
<1>1. /\ control = "pending" /\ control' = "tail"
      /\ nextActions' = [nextActions EXCEPT ![level] = Below(@, 1) \o SuspendActions]
      /\ stack' = [stack EXCEPT ![level] = @ \o SuspendItems]
      /\ trampoline' = trampoline /\ context' = context
      /\ resolved' = resolved /\ awaits' = awaits
      /\ level' = level /\ done' = done /\ level \in Levels
  BY LevelFacts DEF Suspend, Goto, Then, Push, futureVars
<1>2. Running(level) /\ stack[level] \in Frames
  BY <1>1, LevelFacts DEF Running
<1>3. Below(nextActions[level], 1) \o SuspendActions = SuspendActions
  BY <1>2, ActionsOnTop DEF Running
<1>4. TypeOK'
  <2>1. SuspendActions \in Seq(Actions)
    BY DEF Actions, SuspendActions
  <2>2. stack[level] \o SuspendItems \in Seq(Items)
    <3>1. "future" \in Items /\ "resume" \in Items /\ "continuation" \in Items
      BY DEF Items
    <3> QED
      BY <1>2, <3>1, FramesOnly, ThreeOnTop DEF SuspendItems, ThreeTaken
  <2> QED
    BY <1>1, <1>3, <2>1, <2>2 DEF Inductive, TypeOK, Controls
<1>5. Returning(level)'
  <2>1. Left(stack'[level], nextActions'[level])
    BY <1>1, <1>2, <1>3 DEF Inductive, TypeOK, Left
  <2> QED
    BY <1>1, <1>2, <2>1 DEF Running, Returning
<1> QED
  BY <1>1, <1>4, <1>5, SameLevel DEF Inductive, TypeOK

(* A future that is ready is dropped with its stack, and the level below   *)
(* goes on where it polled it.                                             *)
LEMMA FinishReadyPreserves ==
    ASSUME Inductive, FinishReady
    PROVE  Inductive'
<1>1. /\ control = "tail" /\ level \in Levels
      /\ stack' = [stack EXCEPT ![level] = << >>]
      /\ nextActions' = [nextActions EXCEPT ![level] = <<"Suspend">>]
      /\ resolved' = [resolved EXCEPT ![level] = FALSE]
      /\ context' = [context EXCEPT ![level] = FALSE]
  BY LevelFacts DEF FinishReady, ClearContext
<1>2. << >> \in Seq(Items) /\ <<"Suspend">> \in Seq(Actions)
  BY DEF Actions
<1>3. /\ stack' \in [Levels -> Seq(Items)] /\ nextActions' \in [Levels -> Seq(Actions)]
      /\ resolved' \in [Levels -> BOOLEAN] /\ context' \in [Levels -> BOOLEAN]
  BY <1>1, <1>2 DEF Inductive, TypeOK
<1>4. /\ stack'[level] = << >> /\ nextActions'[level] = <<"Suspend">>
      /\ ~resolved'[level] /\ ~context'[level]
      /\ \A l \in Levels \ {level} :
            /\ stack'[l] = stack[l] /\ nextActions'[l] = nextActions[l]
            /\ resolved'[l] = resolved[l] /\ context'[l] = context[l]
  BY <1>1 DEF Inductive, TypeOK
<1>5. CASE level = 1
  <2>1. /\ done' = TRUE /\ control' = "idle" /\ level' = level
        /\ trampoline' = trampoline /\ awaits' = awaits
    BY <1>5 DEF FinishReady, Goto
  <2>2. \A l \in Levels : l # level => ~context[l]
    <3>1. \A l \in Levels : l # level => l > level
      BY <1>5 DEF Levels
    <3> QED
      BY <1>1, <3>1 DEF Inductive, LevelsTellPhase, Parked
  <2>3. LevelsTellPhase'
    BY <1>4, <2>1, <2>2 DEF LevelsTellPhase
  <2>4. TypeOK'
    BY <1>1, <1>3, <2>1 DEF Inductive, TypeOK, Controls
  <2> QED
    BY <2>3, <2>4 DEF Inductive
<1>6. CASE level # 1
  <2>1. /\ trampoline' = [trampoline EXCEPT ![level] = "initialize"]
        /\ awaits' = [awaits EXCEPT ![level - 1] = "none"]
        /\ level' = level - 1 /\ control' = "ready" /\ done' = done
    BY <1>6 DEF FinishReady, Goto
  <2>2. level - 1 \in Levels
    BY <1>1, <1>6, AsyncStackAssumption DEF Levels
  <2>3. TypeOK'
    BY <1>1, <1>3, <2>1, <2>2 DEF Inductive, TypeOK, Controls
  <2>4. /\ trampoline'[level] = "initialize"
        /\ \A l \in Levels \ {level} : trampoline'[l] = trampoline[l]
    BY <1>1, <2>1 DEF Inductive, TypeOK
  <2>5. ASSUME NEW l \in Levels
        PROVE  /\ l >= level => Parked(l)'
               /\ l < level => Running(l)'
    <3>1. CASE l = level
      BY <1>1, <1>4, <2>4, <3>1 DEF Parked, Levels
    <3>2. CASE l # level
      <4>1. /\ l >= level => Parked(l)
            /\ l < level => Running(l)
        <5>1. l >= level => l > level
          BY <1>1, <3>2 DEF Levels
        <5> QED
          BY <1>1, <5>1 DEF Inductive, LevelsTellPhase
      <4> QED
        BY <1>4, <2>4, <3>2, <4>1 DEF Parked, Running
    <3> QED
      BY <3>1, <3>2
  <2>6. \A l \in Levels :
            /\ l < level - 1 => l < level
            /\ l > level - 1 => l >= level
            /\ l = level - 1 => l < level
    BY <1>1 DEF Levels
  <2>7. ~done'
    BY <1>1, <2>1, LevelFacts
  <2> QED
    BY <2>1, <2>3, <2>5, <2>6, <2>7 DEF Inductive, LevelsTellPhase
<1> QED
  BY <1>5, <1>6

(* A future that is pending is resumed by the next poll with what is left  *)
(* on its stack, and the level below suspends too.                         *)
LEMMA FinishPendingPreserves ==
    ASSUME Inductive, FinishPending
    PROVE  Inductive'
<1>1. /\ control = "tail" /\ level \in Levels /\ ~resolved[level] /\ ~done
      /\ nextActions' = [nextActions EXCEPT ![level] = Below(@, 1) \o << >>]
      /\ stack' = [stack EXCEPT ![level] = Below(@, 2)]
      /\ trampoline' = [trampoline EXCEPT ![level] = Top(Below(stack[level], 1))]
      /\ context' = [context EXCEPT ![level] = FALSE]
      /\ resolved' = resolved /\ awaits' = awaits /\ done' = done
  BY LevelFacts DEF FinishPending, Then, Pop, ClearContext
<1>2. Left(stack[level], nextActions[level])
  BY <1>1, LevelFacts DEF Returning
<1> PICK f \in Frames :
        \/ /\ stack[level] = f \o <<"value", "step", "continuation">>
           /\ nextActions[level] = <<"Suspend", "Resume">>
        \/ /\ stack[level] = f \o SuspendItems
           /\ nextActions[level] = SuspendActions
  BY <1>2 DEF Left
<1> DEFINE After(s, a, p) ==
      \/ p = "step" /\ s = f \o <<"value">> /\ a = <<"Suspend">>
      \/ p = "resume" /\ s = f \o <<"future">> /\ a = <<"Suspend", "Restore">>
<1> HIDE DEF After
<1>3. /\ After(Below(stack[level], 2), Below(nextActions[level], 1) \o << >>,
               Top(Below(stack[level], 1)))
      /\ Below(stack[level], 2) \in Seq(Items)
      /\ Below(nextActions[level], 1) \o << >> \in Seq(Actions)
      /\ Top(Below(stack[level], 1)) \in Items
  <2>1. /\ "value" \in Items /\ "step" \in Items /\ "continuation" \in Items
        /\ "future" \in Items /\ "resume" \in Items
    BY DEF Items
  <2>2. <<"Suspend">> \in Seq(Actions) /\ <<"Suspend", "Restore">> \in Seq(Actions)
    BY DEF Actions
  <2>3. f \in Seq(Items)
    BY FramesOnly
  <2>4. f \o <<"value">> \in Seq(Items) /\ f \o <<"future">> \in Seq(Items)
    BY <2>1, <2>3, OneOnTop
  <2>5. CASE /\ stack[level] = f \o <<"value", "step", "continuation">>
             /\ nextActions[level] = <<"Suspend", "Resume">>
    <3>1. "value" \in {"value", "future"} /\ "step" \in {"step", "resume"}
      OBVIOUS
    <3>2. /\ Below(stack[level], 2) = f \o <<"value">>
          /\ Top(Below(stack[level], 1)) = "step"
      BY <2>5, <3>1, LeftOnTop, Zenon
    <3>3. Below(nextActions[level], 1) \o << >> = <<"Suspend">>
      BY <2>5, ActionsOnTop
    <3> QED
      BY <2>1, <2>2, <2>4, <3>2, <3>3 DEF After
  <2>6. CASE /\ stack[level] = f \o SuspendItems
             /\ nextActions[level] = SuspendActions
    <3>1. "future" \in {"value", "future"} /\ "resume" \in {"step", "resume"}
      OBVIOUS
    <3>2. stack[level] = f \o <<"future", "resume", "continuation">>
      BY <2>6 DEF SuspendItems
    <3>3. /\ Below(stack[level], 2) = f \o <<"future">>
          /\ Top(Below(stack[level], 1)) = "resume"
      BY <3>1, <3>2, LeftOnTop, Zenon
    <3>4. Below(nextActions[level], 1) \o << >> = <<"Suspend", "Restore">>
      BY <2>6, ActionsOnTop
    <3> QED
      BY <2>1, <2>2, <2>4, <3>3, <3>4 DEF After
  <2> QED
    BY <2>5, <2>6
<1>4. /\ After(stack'[level], nextActions'[level], trampoline'[level])
      /\ ~context'[level] /\ ~resolved'[level]
      /\ \A l \in Levels \ {level} :
            /\ stack'[l] = stack[l] /\ nextActions'[l] = nextActions[l]
            /\ resolved'[l] = resolved[l] /\ context'[l] = context[l]
            /\ trampoline'[l] = trampoline[l]
  BY <1>1, <1>3 DEF Inductive, TypeOK
<1>5. /\ stack' \in [Levels -> Seq(Items)] /\ nextActions' \in [Levels -> Seq(Actions)]
      /\ trampoline' \in [Levels -> {"none", "initialize"} \cup Items]
      /\ context' \in [Levels -> BOOLEAN]
  BY <1>1, <1>3 DEF Inductive, TypeOK
<1>6. ASSUME NEW l \in Levels
      PROVE  /\ l >= level => Parked(l)'
             /\ l < level => Running(l)'
  <2>1. CASE l = level
    <3>1. ~(l < level)
      BY <1>1, <2>1 DEF Levels
    <3>2. /\ ~context'[l] /\ ~resolved'[l]
          /\ \/ /\ trampoline'[l] = "step" /\ stack'[l] = f \o <<"value">>
                /\ nextActions'[l] = <<"Suspend">>
             \/ /\ trampoline'[l] = "resume" /\ stack'[l] = f \o <<"future">>
                /\ nextActions'[l] = <<"Suspend", "Restore">>
      BY <1>4, <2>1 DEF After
    <3>3. Parked(l)'
      BY <3>2 DEF Parked
    <3> QED
      BY <3>1, <3>3
  <2>2. CASE l # level
    <3>1. /\ l >= level => Parked(l)
          /\ l < level => Running(l)
      <4>1. l >= level => l > level
        BY <1>1, <2>2 DEF Levels
      <4> QED
        BY <1>1, <4>1 DEF Inductive, LevelsTellPhase
    <3> QED
      BY <1>4, <2>2, <3>1 DEF Parked, Running
  <2> QED
    BY <2>1, <2>2
<1>7. CASE level = 1
  <2>1. control' = "idle" /\ level' = level
    BY <1>7 DEF FinishPending, Goto
  <2>2. TypeOK'
    BY <1>1, <1>5, <2>1 DEF Inductive, TypeOK, Controls
  <2>3. \A l \in Levels : l >= level
    BY <1>7 DEF Levels
  <2> QED
    BY <1>1, <1>6, <2>1, <2>2, <2>3 DEF Inductive, LevelsTellPhase
<1>8. CASE level # 1
  <2>1. control' = "pending" /\ level' = level - 1
    BY <1>8 DEF FinishPending, Goto
  <2>2. level - 1 \in Levels
    BY <1>1, <1>8, AsyncStackAssumption DEF Levels
  <2>3. TypeOK'
    BY <1>1, <1>5, <2>1, <2>2 DEF Inductive, TypeOK, Controls
  <2>4. \A l \in Levels :
            /\ l < level - 1 => l < level
            /\ l > level - 1 => l >= level
            /\ l = level - 1 => l < level
    BY <1>1 DEF Levels
  <2> QED
    BY <1>1, <1>6, <2>1, <2>3, <2>4 DEF Inductive, LevelsTellPhase
<1> QED
  BY <1>7, <1>8

(* What happens outside of the task touches no stack.                      *)
LEMMA OutsidePreserves ==
    ASSUME Inductive, LeafReady \/ SpuriousWake \/ UNCHANGED vars
    PROVE  Inductive'
<1>1. /\ stack' = stack /\ trampoline' = trampoline /\ context' = context
      /\ nextActions' = nextActions /\ resolved' = resolved /\ awaits' = awaits
      /\ level' = level /\ done' = done /\ control' = control
  BY DEF LeafReady, SpuriousWake, vars, stackVars, futureVars, taskVars
<1>2. TypeOK'
  BY <1>1 DEF Inductive, TypeOK
<1>3. \A l \in Levels :
          /\ Running(l)' <=> Running(l)
          /\ Parked(l)' <=> Parked(l)
          /\ Returning(l)' <=> Returning(l)
  BY <1>1 DEF Running, Parked, Returning, Left
<1> QED
  BY <1>1, <1>2, <1>3 DEF Inductive, LevelsTellPhase

(* Every step keeps the levels in step with the task.                      *)
LEMMA NextInductive ==
    ASSUME Inductive, [Next]_vars
    PROVE  Inductive'
<1>1. CASE TaskStep
  <2>1. CASE Poll \/ Initialize \/ StepValue \/ StepResume
    BY <2>1, PollPreserves, InitializePreserves, StepValuePreserves, StepResumePreserves
  <2>2. CASE CallForeign \/ ReturnToFrame \/ Resolve
    BY <2>2, CallForeignPreserves, ReturnToFramePreserves, ResolvePreserves
  <2>3. CASE PollLeaf \/ PollLevel
    BY <2>3, PollLeafPreserves, PollLevelPreserves
  <2>4. CASE Trampoline \/ Suspend \/ FinishReady \/ FinishPending
    BY <2>4, TrampolinePreserves, SuspendPreserves, FinishReadyPreserves,
       FinishPendingPreserves
  <2> QED
    BY <1>1, <2>1, <2>2, <2>3, <2>4 DEF TaskStep
<1> QED
  BY <1>1, OutsidePreserves DEF Next

(* Each level is parked, runs or returns, as the task has it, for any      *)
(* nesting and any number of calls.                                        *)
THEOREM InductiveInvariant == Spec => []Inductive
<1>1. Init => Inductive
  BY InitInductive
<1>2. Inductive /\ [Next]_vars => Inductive'
  BY NextInductive
<1> QED
  BY <1>1, <1>2, PTL DEF Spec

(* No unwrap of the bridge fails, and every pop takes what was pushed for  *)
(* it (async_stack.rs:75 and the transmutes of its callers).               *)
THEOREM BridgeNeverPanics == Spec => []NeverPanics
<1>1. Inductive => PopsWhatWasPushed
  <2> SUFFICES ASSUME Inductive PROVE PopsWhatWasPushed
    OBVIOUS
  <2>1. ASSUME control = "tail", ~resolved[level]
        PROVE  /\ Len(stack[level]) >= 3
               /\ SubSeq(stack[level], Len(stack[level]) - 2, Len(stack[level])) \in
                      {<<"value", "step", "continuation">>, <<"future", "resume", "continuation">>}
    <3>1. PICK f \in Frames :
              \/ stack[level] = f \o <<"value", "step", "continuation">>
              \/ stack[level] = f \o SuspendItems
      BY <2>1, LevelFacts DEF Returning, Left
    <3>2. PICK a \in {"value", "future"}, b \in {"step", "resume"} :
              /\ stack[level] = f \o <<a, b, "continuation">>
              /\ <<a, b, "continuation">> \in
                    {<<"value", "step", "continuation">>, <<"future", "resume", "continuation">>}
      BY <3>1 DEF SuspendItems
    <3> QED
      BY <3>2, LeftOnTop
  <2>2. ASSUME control = "poll", trampoline[level] \in {"step", "resume"}
        PROVE  /\ stack[level] # << >>
               /\ trampoline[level] = "step" => Top(stack[level]) = "value"
               /\ trampoline[level] = "resume" => Top(stack[level]) = "future"
    <3>1. PICK f \in Frames :
              \/ trampoline[level] = "step" /\ stack[level] = f \o <<"value">>
              \/ trampoline[level] = "resume" /\ stack[level] = f \o <<"future">>
      BY <2>2, LevelFacts DEF Parked
    <3>2. "value" \in Items /\ "future" \in Items /\ f \in Seq(Items)
      BY FramesOnly DEF Items
    <3> QED
      BY <3>1, <3>2, OneOnTop
  <2>3. control = "run" => \A i \in DOMAIN stack[level] : stack[level][i] = "frame"
    BY LevelFacts, FramesOnly DEF Running
  <2>4. control = "tail" /\ resolved[level] => stack[level] = << >>
    BY LevelFacts DEF Returning
  <2> QED
    BY <2>1, <2>2, <2>3, <2>4 DEF PopsWhatWasPushed
<1>2. Inductive => ~Panics
  <2> SUFFICES ASSUME Inductive, Panics PROVE FALSE
    OBVIOUS
  <2>1. control # "idle"
    BY DEF Panics
  <2>2. CASE control = "poll"
    BY <2>1, <2>2, LevelFacts, ActionsOnTop DEF Panics, Parked, Expects
  <2>3. CASE control \in {"await", "ready", "pending"}
    BY <2>1, <2>3, LevelFacts, ActionsOnTop DEF Panics, Running, Expects
  <2>4. CASE control = "tail"
    BY <2>1, <2>4, LevelFacts, ActionsOnTop DEF Panics, Returning, Left, Expects
  <2> QED
    BY <2>2, <2>3, <2>4 DEF Panics
<1> QED
  BY <1>1, <1>2, InductiveInvariant, PTL DEF NeverPanics

(* A stack has a context exactly while it is polled (async_stack.rs:171).  *)
THEOREM ContextsAreCleared == Spec => []ContextOnlyInPoll
<1>1. Inductive => ContextOnlyInPoll
  <2> SUFFICES ASSUME Inductive, NEW l \in Levels
               PROVE  context[l] <=> /\ control # "idle"
                                     /\ l <= level
                                     /\ l = level => control # "poll"
    BY DEF ContextOnlyInPoll
  <2>1. CASE control = "idle"
    BY <2>1 DEF Inductive, LevelsTellPhase, Parked
  <2>2. CASE control # "idle"
    <3>1. /\ l < level => Running(l)
          /\ l > level => Parked(l)
          /\ l = level => IF control = "poll" THEN Parked(l)
                          ELSE IF control = "tail" THEN Returning(l)
                          ELSE Running(l)
      BY <2>2 DEF Inductive, LevelsTellPhase
    <3>2. /\ Running(l) => context[l]
          /\ Returning(l) => context[l]
          /\ Parked(l) => ~context[l]
      BY DEF Running, Returning, Parked
    <3>3. /\ l < level \/ l > level \/ l = level
          /\ l <= level <=> l < level \/ l = level
          /\ ~(l < level /\ l = level) /\ ~(l > level /\ (l < level \/ l = level))
      BY DEF Inductive, TypeOK, Levels
    <3> QED
      BY <2>2, <3>1, <3>2, <3>3
  <2> QED
    BY <2>1, <2>2
<1> QED
  BY <1>1, InductiveInvariant, PTL

=============================================================================
