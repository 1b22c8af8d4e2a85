----------------------------- MODULE ThunkProofs -----------------------------
(***************************************************************************)
(* Proofs that the safety properties of Thunk hold for every number of     *)
(* tasks, of references and of values.                                     *)
(***************************************************************************)
EXTENDS Thunk, TLAPS

(* A closure is born with the initial entry function and an environment    *)
(* (compile_content in closure.rs), and with one reference.                *)
LEMMA InitInductive == Init => Inductive
<1> SUFFICES ASSUME Init
             PROVE  Inductive
  OBVIOUS
<1> USE ThunkAssumption
<1>1. TypeOK
  <2>1. refs \in [Tasks -> 0..MaxReferences + 1]
    BY DEF Init
  <2>2. view \in [Tasks -> SUBSET Entries] /\ sees \in SUBSET Tasks
    BY DEF Init, Entries
  <2> QED
    BY <2>1, <2>2 DEF Init, TypeOK, Entries
<1>2. Evaluators = {}
  BY DEF Init, Evaluators, EvaluationSteps
<1>3. OneEvaluation /\ PayloadIsThere /\ CallersKeepReferences /\ MetadataFits
  BY <1>2
     DEF Init, OneEvaluation, PayloadIsThere, CallersKeepReferences,
         MetadataFits
<1>4. UnsynchronizedIsLocal
  BY DEF Init, UnsynchronizedIsLocal, Reaches
<1>5. ReferencesAreCounted /\ ViewsHoldTheEntry
  BY DEF Init, ReferencesAreCounted, ViewsHoldTheEntry, Reaches
<1>6. EntryTellsPhase /\ PayloadTellsPhase /\ HoldersSeePayload
  BY <1>2
     DEF Init, EntryTellsPhase, PayloadTellsPhase, HoldersSeePayload, Reaches,
         Entries
<1> QED
  BY <1>1, <1>3, <1>4, <1>5, <1>6 DEF Init, Inductive

(* A call enters the entry function that a relaxed load returns (call.rs). *)
(* What has been returned has been written, so the normal entry function   *)
(* is entered only after the value has been stored.                        *)
LEMMA CallPreserves ==
    ASSUME Inductive, NEW t \in Tasks, Call(t)
    PROVE  Inductive'
<1> USE ThunkAssumption DEF Inductive, Call, Enter, Goto
<1>1. TypeOK'
  BY DEF TypeOK
<1>2. Evaluators' = Evaluators
  BY DEF Evaluators, Entries, EvaluationSteps
<1>3. PayloadIsThere'
  BY DEF Entries, PayloadIsThere, PayloadTellsPhase, EntryTellsPhase,
         ViewsHoldTheEntry
<1>4. ReferencesAreCounted'
  BY DEF ReferencesAreCounted, Entries
<1>5. ViewsHoldTheEntry'
  BY DEF TypeOK, ViewsHoldTheEntry, Reaches, NotBefore, Entries
<1>6. EntryTellsPhase'
  BY <1>2 DEF EntryTellsPhase, Entries, ViewsHoldTheEntry
<1>7. PayloadTellsPhase'
  BY <1>2 DEF PayloadTellsPhase, Evaluators, EvaluationSteps
<1>8. /\ OneEvaluation'
      /\ CallersKeepReferences'
      /\ MetadataFits'
      /\ UnsynchronizedIsLocal'
      /\ HoldersSeePayload'
  BY <1>2
     DEF OneEvaluation, CallersKeepReferences, MetadataFits,
         UnsynchronizedIsLocal, HoldersSeePayload, Reaches
<1> QED
  BY <1>1, <1>3, <1>4, <1>5, <1>6, <1>7, <1>8

(* The initial entry function without a lock: no other task can reach a    *)
(* thunk that is not synchronized, so nobody else evaluates it.            *)
LEMMA SkipLockPreserves ==
    ASSUME Inductive, NEW t \in Tasks, SkipLock(t)
    PROVE  Inductive'
<1> USE ThunkAssumption DEF Inductive, SkipLock, heapVars, Goto
<1>1. TypeOK'
  BY DEF TypeOK, EvaluationSteps
<1>2. Evaluators = {} /\ Evaluators' = {t}
  BY DEF TypeOK, Evaluators, EvaluationSteps, UnsynchronizedIsLocal,
         CallersKeepReferences
<1>3. OneEvaluation'
  BY <1>2
     DEF TypeOK, OneEvaluation, PayloadTellsPhase, EntryTellsPhase,
         EvaluationSteps
<1>4. PayloadIsThere'
  BY <1>2
     DEF Entries, PayloadIsThere, PayloadTellsPhase, EntryTellsPhase,
         HoldersSeePayload, CallersKeepReferences
<1>5. EntryTellsPhase'
  <2>1. sync'[t] = synchronized
    BY DEF TypeOK
  <2>2. pc'[t] = "clone" /\ \A u \in Tasks \ {t} : pc'[u] = pc[u]
    BY DEF TypeOK
  <2> QED
    BY <1>2, <2>1, <2>2 DEF EntryTellsPhase, Entries
<1>6. PayloadTellsPhase'
  BY <1>2
     DEF TypeOK, PayloadTellsPhase, EntryTellsPhase, CallersKeepReferences,
         HoldersSeePayload, EvaluationSteps
<1>7. /\ CallersKeepReferences'
      /\ MetadataFits'
      /\ UnsynchronizedIsLocal'
      /\ ReferencesAreCounted'
      /\ ViewsHoldTheEntry'
      /\ HoldersSeePayload'
  BY <1>2
     DEF CallersKeepReferences, MetadataFits, UnsynchronizedIsLocal,
         ReferencesAreCounted, ViewsHoldTheEntry, HoldersSeePayload, Reaches
<1> QED
  BY <1>1, <1>3, <1>4, <1>5, <1>6, <1>7

(* The compare-and-swap succeeds: the entry function was the initial one,  *)
(* so nobody evaluates the thunk, or has done so.                          *)
LEMMA LockPreserves ==
    ASSUME Inductive, NEW t \in Tasks, Lock(t)
    PROVE  Inductive'
<1> USE ThunkAssumption DEF Inductive
<1>1. TypeOK'
  BY DEF Lock, WriteEntry, Goto, TypeOK, Entries, EvaluationSteps
<1>2. Evaluators = {} /\ Evaluators' = {t}
  BY DEF Lock, Goto, TypeOK, Evaluators, EvaluationSteps, EntryTellsPhase
<1>3. OneEvaluation'
  BY <1>2 DEF Lock, OneEvaluation, PayloadTellsPhase
<1>4. PayloadIsThere'
  BY DEF Lock, Goto, PayloadIsThere, PayloadTellsPhase, EntryTellsPhase,
         HoldersSeePayload, CallersKeepReferences
<1>5. CallersKeepReferences' /\ MetadataFits' /\ UnsynchronizedIsLocal'
  BY <1>2
     DEF Lock, Goto, CallersKeepReferences, MetadataFits, UnsynchronizedIsLocal,
         Reaches
<1>6. ReferencesAreCounted'
  BY DEF Lock, Goto, ReferencesAreCounted
<1>7. ViewsHoldTheEntry'
  BY DEF Lock, WriteEntry, ViewsHoldTheEntry, Reaches, CallersKeepReferences
<1>8. EntryTellsPhase'
  BY <1>2 DEF Lock, Goto, WriteEntry, TypeOK, EntryTellsPhase
<1>9. PayloadTellsPhase' /\ HoldersSeePayload'
  BY <1>2
     DEF Lock, Goto, WriteEntry, TypeOK, PayloadTellsPhase, HoldersSeePayload,
         EntryTellsPhase, CallersKeepReferences
<1> QED
  BY <1>1, <1>3, <1>4, <1>5, <1>6, <1>7, <1>8, <1>9 DEF Lock

(* The compare-and-swap fails, and the entry function that is loaded again *)
(* is called.                                                              *)
LEMMA LockFailsPreserves ==
    ASSUME Inductive, NEW t \in Tasks, LockFails(t)
    PROVE  Inductive'
<1> USE ThunkAssumption DEF Inductive, LockFails, Enter, Goto
<1>1. TypeOK'
  BY DEF TypeOK
<1>2. Evaluators' = Evaluators
  BY DEF Evaluators, Entries, EvaluationSteps
<1>3. PayloadIsThere'
  <2>1. pc'[t] = "normal" => entry = "normal"
    BY DEF ViewsHoldTheEntry
  <2>2. entry = "normal" => payload \in Values
    BY DEF PayloadTellsPhase, EntryTellsPhase
  <2>3. pc'[t] \in {"locked", "normal"}
    BY DEF TypeOK, Entries
  <2> QED
    BY <2>1, <2>2, <2>3 DEF PayloadIsThere
<1>4. ReferencesAreCounted'
  BY DEF ReferencesAreCounted, Entries
<1>5. ViewsHoldTheEntry'
  BY DEF TypeOK, ViewsHoldTheEntry, Reaches, NotBefore, Entries
<1>6. EntryTellsPhase'
  <2>1. pc'[t] = "normal" => entry = "normal"
    BY DEF ViewsHoldTheEntry
  <2>2. pc'[t] \in Entries
    BY DEF TypeOK
  <2> QED
    BY <1>2, <2>1, <2>2 DEF TypeOK, EntryTellsPhase, Entries
<1>7. PayloadTellsPhase'
  BY <1>2 DEF PayloadTellsPhase, Evaluators, EvaluationSteps
<1>8. /\ OneEvaluation'
      /\ CallersKeepReferences'
      /\ MetadataFits'
      /\ UnsynchronizedIsLocal'
      /\ HoldersSeePayload'
  BY <1>2
     DEF OneEvaluation, CallersKeepReferences, MetadataFits,
         UnsynchronizedIsLocal, HoldersSeePayload, Reaches
<1> QED
  BY <1>1, <1>3, <1>4, <1>5, <1>6, <1>7, <1>8

(* The evaluator clones the closure before it calls the body.              *)
LEMMA KeepClosurePreserves ==
    ASSUME Inductive, NEW t \in Tasks, KeepClosure(t)
    PROVE  Inductive'
<1> USE ThunkAssumption DEF Inductive, KeepClosure, CloneClosure, Goto
<1>1. TypeOK'
  BY DEF TypeOK, EvaluationSteps, ReferencesAreCounted
<1>2. Evaluators = {t} /\ Evaluators' = {t}
  BY DEF Evaluators, EvaluationSteps, OneEvaluation
<1>3. CallersKeepReferences' /\ MetadataFits' /\ UnsynchronizedIsLocal'
  BY <1>2
     DEF TypeOK, CallersKeepReferences, MetadataFits, UnsynchronizedIsLocal,
         Reaches
<1>4. ReferencesAreCounted'
  BY DEF TypeOK, ReferencesAreCounted, CallersKeepReferences, Reaches
<1>5. ViewsHoldTheEntry'
  BY DEF TypeOK, ViewsHoldTheEntry, Reaches, CallersKeepReferences
<1>6. EntryTellsPhase'
  BY <1>2 DEF EntryTellsPhase, Entries
<1>7. HoldersSeePayload'
  BY <1>2 DEF HoldersSeePayload, Reaches, PayloadTellsPhase
<1>8. /\ OneEvaluation'
      /\ PayloadIsThere'
      /\ PayloadTellsPhase'
  BY <1>2 DEF OneEvaluation, PayloadIsThere, PayloadTellsPhase, Reaches
<1> QED
  BY <1>1, <1>3, <1>4, <1>5, <1>6, <1>7, <1>8

(* The body drops the closure that it was called with: the evaluator's own *)
(* reference is left.                                                      *)
LEMMA RunBodyPreserves ==
    ASSUME Inductive, NEW t \in Tasks, RunBody(t)
    PROVE  Inductive'
<1> USE ThunkAssumption DEF Inductive, RunBody, DropClosure, Goto
<1>1. TypeOK'
  BY DEF TypeOK, EvaluationSteps, ReferencesAreCounted
<1>2. Evaluators = {t} /\ Evaluators' = {t}
  BY DEF Evaluators, EvaluationSteps, OneEvaluation
<1>3. CallersKeepReferences' /\ MetadataFits' /\ UnsynchronizedIsLocal'
  BY <1>2
     DEF TypeOK, CallersKeepReferences, MetadataFits, UnsynchronizedIsLocal,
         Reaches, ReferencesAreCounted
<1>4. ReferencesAreCounted'
  BY DEF TypeOK, ReferencesAreCounted
<1>5. ViewsHoldTheEntry'
  BY DEF TypeOK, ViewsHoldTheEntry, Reaches
<1>6. EntryTellsPhase'
  BY <1>2 DEF EntryTellsPhase, Entries
<1>7. PayloadTellsPhase'
  BY <1>2 DEF TypeOK, PayloadTellsPhase
<1>8. HoldersSeePayload'
  BY DEF TypeOK, HoldersSeePayload, Reaches
<1>9. /\ OneEvaluation'
      /\ PayloadIsThere'
  BY <1>2 DEF OneEvaluation, PayloadIsThere, Reaches
<1> QED
  BY <1>1, <1>3, <1>4, <1>5, <1>6, <1>7, <1>8, <1>9

(* The environment is dropped while the lock, or the lack of sharing,      *)
(* keeps everybody else from the payload.                                  *)
LEMMA DropEnvironmentPreserves ==
    ASSUME Inductive, NEW t \in Tasks, DropEnvironment(t)
    PROVE  Inductive'
<1> USE ThunkAssumption DEF Inductive, DropEnvironment, Goto
<1>1. TypeOK'
  BY DEF TypeOK, EvaluationSteps
<1>2. Evaluators = {t} /\ Evaluators' = {t}
  BY DEF Evaluators, EvaluationSteps, OneEvaluation
<1>3. PayloadIsThere'
  BY <1>2 DEF TypeOK, PayloadIsThere, Evaluators, EvaluationSteps
<1>4. EntryTellsPhase'
  BY <1>2 DEF EntryTellsPhase, Entries
<1>5. PayloadTellsPhase'
  BY <1>2 DEF TypeOK, PayloadTellsPhase
<1>6. HoldersSeePayload'
  BY <1>2
     DEF HoldersSeePayload, EntryTellsPhase, CallersKeepReferences,
         UnsynchronizedIsLocal, Reaches
<1>7. /\ OneEvaluation'
      /\ CallersKeepReferences'
      /\ MetadataFits'
      /\ UnsynchronizedIsLocal'
      /\ ReferencesAreCounted'
      /\ ViewsHoldTheEntry'
  BY <1>2
     DEF OneEvaluation, CallersKeepReferences, MetadataFits,
         UnsynchronizedIsLocal, ReferencesAreCounted, ViewsHoldTheEntry, Reaches
<1> QED
  BY <1>1, <1>3, <1>4, <1>5, <1>6, <1>7

(* The value takes the place of the environment.                           *)
LEMMA StoreValuePreserves ==
    ASSUME Inductive, NEW t \in Tasks, StoreValue(t)
    PROVE  Inductive'
<1> USE ThunkAssumption DEF Inductive, StoreValue, Goto
<1>1. TypeOK'
  BY DEF TypeOK, EvaluationSteps, Evaluators, PayloadTellsPhase
<1>2. Evaluators = {t} /\ Evaluators' = {t}
  BY DEF Evaluators, EvaluationSteps, OneEvaluation
<1>3. OneEvaluation'
  BY <1>2 DEF TypeOK, OneEvaluation
<1>4. PayloadIsThere'
  BY <1>2 DEF PayloadIsThere, PayloadTellsPhase
<1>5. EntryTellsPhase'
  BY <1>2 DEF EntryTellsPhase, Entries
<1>6. PayloadTellsPhase'
  BY <1>2 DEF TypeOK, PayloadTellsPhase
<1>7. HoldersSeePayload'
  BY <1>2
     DEF HoldersSeePayload, EntryTellsPhase, CallersKeepReferences,
         UnsynchronizedIsLocal, Reaches
<1>8. /\ CallersKeepReferences'
      /\ MetadataFits'
      /\ UnsynchronizedIsLocal'
      /\ ReferencesAreCounted'
      /\ ViewsHoldTheEntry'
  BY <1>2
     DEF CallersKeepReferences, MetadataFits, UnsynchronizedIsLocal,
         ReferencesAreCounted, ViewsHoldTheEntry, Reaches
<1> QED
  BY <1>1, <1>3, <1>4, <1>5, <1>6, <1>7, <1>8

(* The metadata is written before the entry function.                      *)
LEMMA StoreMetadataPreserves ==
    ASSUME Inductive, NEW t \in Tasks, StoreMetadata(t)
    PROVE  Inductive'
<1> USE ThunkAssumption DEF Inductive, StoreMetadata, Goto
<1>1. TypeOK'
  BY DEF TypeOK, EvaluationSteps
<1>2. Evaluators = {t} /\ Evaluators' = {t}
  BY DEF Evaluators, EvaluationSteps, OneEvaluation
<1>3. PayloadIsThere'
  BY <1>2 DEF PayloadIsThere, PayloadTellsPhase, EntryTellsPhase
<1>4. EntryTellsPhase'
  BY <1>2 DEF EntryTellsPhase, Entries
<1>5. PayloadTellsPhase'
  BY <1>2 DEF TypeOK, PayloadTellsPhase
<1>6. HoldersSeePayload'
  BY <1>2
     DEF HoldersSeePayload, EntryTellsPhase, CallersKeepReferences,
         UnsynchronizedIsLocal, Reaches
<1>7. /\ OneEvaluation'
      /\ CallersKeepReferences'
      /\ MetadataFits'
      /\ UnsynchronizedIsLocal'
      /\ ReferencesAreCounted'
      /\ ViewsHoldTheEntry'
  BY <1>2
     DEF OneEvaluation, CallersKeepReferences, MetadataFits,
         UnsynchronizedIsLocal, ReferencesAreCounted, ViewsHoldTheEntry, Reaches
<1> QED
  BY <1>1, <1>3, <1>4, <1>5, <1>6, <1>7

(* The entry function becomes the normal one: a release where tasks may    *)
(* share the thunk, and nothing more where only one task sees it.          *)
LEMMA PublishPreserves ==
    ASSUME Inductive, NEW t \in Tasks, Publish(t)
    PROVE  Inductive'
<1> USE ThunkAssumption DEF Inductive, Publish, WriteEntry, Goto
<1>1. TypeOK'
  BY DEF TypeOK, Entries
<1>2. Evaluators = {t} /\ Evaluators' = {}
  BY DEF TypeOK, Evaluators, EvaluationSteps, OneEvaluation
<1>3. CallersKeepReferences' /\ MetadataFits' /\ UnsynchronizedIsLocal'
  BY <1>2
     DEF CallersKeepReferences, MetadataFits, UnsynchronizedIsLocal, Reaches,
         PayloadTellsPhase
<1>4. ViewsHoldTheEntry'
  BY DEF ViewsHoldTheEntry, Reaches, CallersKeepReferences,
         UnsynchronizedIsLocal
<1>5. EntryTellsPhase'
  BY <1>2
     DEF EntryTellsPhase, Entries, CallersKeepReferences, UnsynchronizedIsLocal
<1>6. HoldersSeePayload'
  BY <1>2 DEF HoldersSeePayload, EntryTellsPhase, Reaches
<1>7. /\ OneEvaluation'
      /\ PayloadIsThere'
      /\ ReferencesAreCounted'
      /\ PayloadTellsPhase'
  BY <1>2
     DEF OneEvaluation, PayloadIsThere, ReferencesAreCounted, PayloadTellsPhase,
         Reaches
<1> QED
  BY <1>1, <1>3, <1>4, <1>5, <1>6, <1>7

(* The acquiring load of the normal entry function orders the value before *)
(* what the caller reads.                                                  *)
LEMMA AcquireValuePreserves ==
    ASSUME Inductive, NEW t \in Tasks, AcquireValue(t)
    PROVE  Inductive'
<1> USE ThunkAssumption DEF Inductive, AcquireValue, Goto
<1>1. TypeOK'
  BY DEF TypeOK
<1>2. Evaluators' = Evaluators
  BY DEF Evaluators, EvaluationSteps
<1>3. PayloadIsThere'
  BY DEF PayloadIsThere, EntryTellsPhase, HoldersSeePayload,
         CallersKeepReferences
<1>4. EntryTellsPhase'
  BY <1>2 DEF EntryTellsPhase, Entries
<1>5. /\ OneEvaluation'
      /\ CallersKeepReferences'
      /\ MetadataFits'
      /\ UnsynchronizedIsLocal'
      /\ ReferencesAreCounted'
      /\ ViewsHoldTheEntry'
      /\ PayloadTellsPhase'
      /\ HoldersSeePayload'
  BY <1>2
     DEF OneEvaluation, CallersKeepReferences, MetadataFits,
         UnsynchronizedIsLocal, ReferencesAreCounted, ViewsHoldTheEntry,
         PayloadTellsPhase, HoldersSeePayload, Reaches
<1> QED
  BY <1>1, <1>3, <1>4, <1>5

(* The value is read from the payload.                                     *)
LEMMA ReadValuePreserves ==
    ASSUME Inductive, NEW t \in Tasks, ReadValue(t)
    PROVE  Inductive'
<1> USE ThunkAssumption DEF Inductive, ReadValue, heapVars, Goto
<1>1. TypeOK'
  BY DEF TypeOK, PayloadIsThere
<1>2. Evaluators' = Evaluators
  BY DEF Evaluators, EvaluationSteps
<1>3. EntryTellsPhase'
  BY <1>2 DEF EntryTellsPhase, Entries
<1>4. PayloadTellsPhase'
  BY DEF PayloadTellsPhase, Evaluators, EvaluationSteps
<1>5. /\ OneEvaluation'
      /\ PayloadIsThere'
      /\ CallersKeepReferences'
      /\ MetadataFits'
      /\ UnsynchronizedIsLocal'
      /\ ReferencesAreCounted'
      /\ ViewsHoldTheEntry'
      /\ HoldersSeePayload'
  BY <1>2
     DEF OneEvaluation, PayloadIsThere, CallersKeepReferences, MetadataFits,
         UnsynchronizedIsLocal, ReferencesAreCounted, ViewsHoldTheEntry,
         HoldersSeePayload, Reaches
<1> QED
  BY <1>1, <1>3, <1>4, <1>5

(* A call ends with a drop of the closure.                                 *)
LEMMA ReturnPreserves ==
    ASSUME Inductive, NEW t \in Tasks, Return(t)
    PROVE  Inductive'
<1> USE ThunkAssumption DEF Inductive, Return, DropClosure, Goto
<1>1. TypeOK'
  BY DEF TypeOK, Reaches, CallersKeepReferences
<1>2. Evaluators' = Evaluators
  BY DEF Evaluators, EvaluationSteps
<1>3. CallersKeepReferences' /\ MetadataFits' /\ UnsynchronizedIsLocal'
  BY <1>2
     DEF TypeOK, CallersKeepReferences, MetadataFits, UnsynchronizedIsLocal,
         Reaches
<1>4. ReferencesAreCounted'
  BY DEF TypeOK, ReferencesAreCounted
<1>5. ViewsHoldTheEntry'
  BY DEF TypeOK, ViewsHoldTheEntry, Reaches
<1>6. EntryTellsPhase'
  BY <1>2 DEF EntryTellsPhase, Entries
<1>7. PayloadTellsPhase'
  BY DEF PayloadTellsPhase, Evaluators, EvaluationSteps
<1>8. HoldersSeePayload'
  BY DEF TypeOK, HoldersSeePayload, Reaches
<1>9. /\ OneEvaluation'
      /\ PayloadIsThere'
  BY <1>2 DEF OneEvaluation, PayloadIsThere, Reaches
<1> QED
  BY <1>1, <1>3, <1>4, <1>5, <1>6, <1>7, <1>8, <1>9

(* The locked entry function yields and enters what it then loads.         *)
LEMMA WaitPreserves ==
    ASSUME Inductive, NEW t \in Tasks, Wait(t)
    PROVE  Inductive'
<1> USE ThunkAssumption DEF Inductive, Wait, Enter, Goto
<1>1. TypeOK'
  BY DEF TypeOK
<1>2. Evaluators' = Evaluators
  BY DEF Evaluators, Entries, EvaluationSteps
<1>3. PayloadIsThere'
  BY DEF Entries, PayloadIsThere, PayloadTellsPhase, EntryTellsPhase,
         ViewsHoldTheEntry
<1>4. ReferencesAreCounted'
  BY DEF ReferencesAreCounted, Entries
<1>5. ViewsHoldTheEntry'
  BY DEF TypeOK, ViewsHoldTheEntry, Reaches, NotBefore, Entries
<1>6. EntryTellsPhase'
  BY <1>2 DEF EntryTellsPhase, Entries, ViewsHoldTheEntry
<1>7. PayloadTellsPhase'
  BY <1>2 DEF PayloadTellsPhase, Evaluators, EvaluationSteps
<1>8. /\ OneEvaluation'
      /\ CallersKeepReferences'
      /\ MetadataFits'
      /\ UnsynchronizedIsLocal'
      /\ HoldersSeePayload'
  BY <1>2
     DEF OneEvaluation, CallersKeepReferences, MetadataFits,
         UnsynchronizedIsLocal, HoldersSeePayload, Reaches
<1> QED
  BY <1>1, <1>3, <1>4, <1>5, <1>6, <1>7, <1>8

(* A clone between calls.                                                  *)
LEMMA ClonePreserves ==
    ASSUME Inductive, NEW t \in Tasks, Clone(t)
    PROVE  Inductive'
<1> USE ThunkAssumption DEF Inductive, Clone, CloneClosure
<1>1. TypeOK'
  BY DEF TypeOK
<1>2. Evaluators' = Evaluators
  BY DEF Evaluators
<1>3. /\ OneEvaluation'
      /\ PayloadIsThere'
      /\ CallersKeepReferences'
      /\ MetadataFits'
      /\ UnsynchronizedIsLocal'
      /\ ReferencesAreCounted'
      /\ ViewsHoldTheEntry'
      /\ EntryTellsPhase'
      /\ PayloadTellsPhase'
      /\ HoldersSeePayload'
  BY <1>2
     DEF OneEvaluation, PayloadIsThere, CallersKeepReferences, MetadataFits,
         UnsynchronizedIsLocal, ReferencesAreCounted, ViewsHoldTheEntry,
         EntryTellsPhase, PayloadTellsPhase, HoldersSeePayload, Reaches
<1> QED
  BY <1>1, <1>3

(* A drop between calls.                                                   *)
LEMMA DropPreserves ==
    ASSUME Inductive, NEW t \in Tasks, Drop(t)
    PROVE  Inductive'
<1> USE ThunkAssumption DEF Inductive, Drop, DropClosure
<1>1. TypeOK'
  BY DEF TypeOK
<1>2. Evaluators' = Evaluators
  BY DEF Evaluators
<1>3. ReferencesAreCounted'
  BY DEF TypeOK, ReferencesAreCounted
<1>4. ViewsHoldTheEntry'
  BY DEF TypeOK, ViewsHoldTheEntry, Reaches
<1>5. /\ OneEvaluation'
      /\ PayloadIsThere'
      /\ CallersKeepReferences'
      /\ MetadataFits'
      /\ UnsynchronizedIsLocal'
      /\ EntryTellsPhase'
      /\ PayloadTellsPhase'
      /\ HoldersSeePayload'
  BY <1>2
     DEF OneEvaluation, PayloadIsThere, CallersKeepReferences, MetadataFits,
         UnsynchronizedIsLocal, EntryTellsPhase, PayloadTellsPhase,
         HoldersSeePayload, Reaches
<1> QED
  BY <1>1, <1>3, <1>4, <1>5

(* A thunk is synchronized by the only task that can reach it, which is    *)
(* not in a call of it then (metadata.rs).                                 *)
LEMMA SynchronizePreserves ==
    ASSUME Inductive, NEW t \in Tasks, Synchronize(t)
    PROVE  Inductive'
<1> USE ThunkAssumption DEF Inductive, Synchronize
<1>1. TypeOK'
  BY DEF TypeOK
<1>2. Evaluators' = Evaluators /\ Evaluators = {}
  BY DEF Evaluators, EvaluationSteps, UnsynchronizedIsLocal,
         CallersKeepReferences, Reaches
<1>3. /\ OneEvaluation'
      /\ PayloadIsThere'
      /\ CallersKeepReferences'
      /\ MetadataFits'
      /\ UnsynchronizedIsLocal'
      /\ ReferencesAreCounted'
      /\ ViewsHoldTheEntry'
      /\ EntryTellsPhase'
      /\ PayloadTellsPhase'
      /\ HoldersSeePayload'
  BY <1>2
     DEF OneEvaluation, PayloadIsThere, CallersKeepReferences, MetadataFits,
         UnsynchronizedIsLocal, ReferencesAreCounted, ViewsHoldTheEntry,
         EntryTellsPhase, PayloadTellsPhase, HoldersSeePayload, Reaches
<1> QED
  BY <1>1, <1>3

(* A value that is not needed any more changes nothing for the thunk.      *)
LEMMA ForgetPreserves ==
    ASSUME Inductive, NEW t \in Tasks, Forget(t)
    PROVE  Inductive'
<1> USE ThunkAssumption DEF Inductive, Forget, heapVars
<1>1. TypeOK'
  BY DEF TypeOK
<1>2. Evaluators' = Evaluators
  BY DEF Evaluators
<1>3. /\ OneEvaluation'
      /\ PayloadIsThere'
      /\ CallersKeepReferences'
      /\ MetadataFits'
      /\ UnsynchronizedIsLocal'
      /\ ReferencesAreCounted'
      /\ ViewsHoldTheEntry'
      /\ EntryTellsPhase'
      /\ PayloadTellsPhase'
      /\ HoldersSeePayload'
  BY <1>2
     DEF OneEvaluation, PayloadIsThere, CallersKeepReferences, MetadataFits,
         UnsynchronizedIsLocal, ReferencesAreCounted, ViewsHoldTheEntry,
         EntryTellsPhase, PayloadTellsPhase, HoldersSeePayload, Reaches
<1> QED
  BY <1>1, <1>3

(* A store becomes visible to a task that can reach the thunk.             *)
LEMMA ObservePreserves ==
    ASSUME Inductive, NEW t \in Tasks, Observe(t)
    PROVE  Inductive'
<1> USE ThunkAssumption DEF Inductive, Observe
<1>1. TypeOK'
  BY DEF TypeOK
<1>2. Evaluators' = Evaluators
  BY DEF Evaluators
<1>3. /\ OneEvaluation'
      /\ PayloadIsThere'
      /\ CallersKeepReferences'
      /\ MetadataFits'
      /\ UnsynchronizedIsLocal'
      /\ ReferencesAreCounted'
      /\ ViewsHoldTheEntry'
      /\ EntryTellsPhase'
      /\ PayloadTellsPhase'
      /\ HoldersSeePayload'
  BY <1>2
     DEF OneEvaluation, PayloadIsThere, CallersKeepReferences, MetadataFits,
         UnsynchronizedIsLocal, ReferencesAreCounted, ViewsHoldTheEntry,
         EntryTellsPhase, PayloadTellsPhase, HoldersSeePayload, Reaches
<1> QED
  BY <1>1, <1>3

(* References go from one task to another: of a synchronized thunk, or all *)
(* that there are.                                                         *)
LEMMA GivePreserves ==
    ASSUME Inductive, NEW t \in Tasks, NEW u \in Tasks, NEW n \in Nat \ {0},
           Give(t, u, n), synchronized \/ n = refs[t]
    PROVE  Inductive'
<1> USE ThunkAssumption DEF Inductive, Give
<1>1. TypeOK'
  BY DEF TypeOK
<1>2. Evaluators' = Evaluators
  BY DEF Evaluators
<1>3. OneEvaluation' /\ MetadataFits'
  BY <1>2 DEF OneEvaluation, MetadataFits
<1>4. PayloadIsThere'
  BY DEF PayloadIsThere
<1>5. ~static
  BY DEF ReferencesAreCounted
<1>6. \A v \in Tasks :
         Reaches(v)' <=>
             \/ v = u
             \/ v = t /\ refs[t] > n
             \/ v \notin {t, u} /\ Reaches(v)
  BY <1>5 DEF TypeOK, Reaches
<1>7. CallersKeepReferences' /\ UnsynchronizedIsLocal'
  BY DEF TypeOK, CallersKeepReferences, UnsynchronizedIsLocal, Reaches
<1>8. ReferencesAreCounted'
  BY DEF TypeOK, ReferencesAreCounted
<1>9. ViewsHoldTheEntry'
  BY <1>6 DEF TypeOK, ViewsHoldTheEntry, Reaches
<1>10. EntryTellsPhase' /\ PayloadTellsPhase'
  BY <1>2 DEF EntryTellsPhase, PayloadTellsPhase
<1>11. HoldersSeePayload'
  BY DEF TypeOK, HoldersSeePayload, Reaches
<1> QED
  BY <1>1, <1>3, <1>4, <1>7, <1>8, <1>9, <1>10, <1>11

(* Every step of every task preserves the strengthening.                   *)
LEMMA NextInductive ==
    ASSUME Inductive, [Next]_vars
    PROVE  Inductive'
<1>1. CASE UNCHANGED vars
  <2> USE <1>1 DEF vars, heapVars
  <2>1. Evaluators' = Evaluators /\ \A t \in Tasks : Reaches(t)' <=> Reaches(t)
    BY DEF Evaluators, Reaches
  <2>2. TypeOK' /\ OneEvaluation' /\ PayloadIsThere' /\ CallersKeepReferences'
        /\ MetadataFits' /\ UnsynchronizedIsLocal'
    BY <2>1 DEF Inductive, TypeOK, OneEvaluation, PayloadIsThere,
           CallersKeepReferences, MetadataFits, UnsynchronizedIsLocal
  <2>3. ReferencesAreCounted' /\ ViewsHoldTheEntry' /\ EntryTellsPhase'
        /\ PayloadTellsPhase' /\ HoldersSeePayload'
    BY <2>1
       DEF Inductive, ReferencesAreCounted, ViewsHoldTheEntry, EntryTellsPhase,
           PayloadTellsPhase, HoldersSeePayload
  <2> QED
    BY <2>2, <2>3 DEF Inductive
<1>2. ASSUME NEW t \in Tasks, CallStep(t)
      PROVE  Inductive'
  <2>1. CASE SkipLock(t) \/ Lock(t) \/ LockFails(t) \/ Wait(t)
    BY <2>1, SkipLockPreserves, LockPreserves, LockFailsPreserves, WaitPreserves
  <2>2. CASE KeepClosure(t) \/ RunBody(t) \/ DropEnvironment(t)
    BY <2>2, KeepClosurePreserves, RunBodyPreserves, DropEnvironmentPreserves
  <2>3. CASE StoreValue(t) \/ StoreMetadata(t) \/ Publish(t)
    BY <2>3, StoreValuePreserves, StoreMetadataPreserves, PublishPreserves
  <2>4. CASE AcquireValue(t) \/ ReadValue(t) \/ Return(t)
    BY <2>4, AcquireValuePreserves, ReadValuePreserves, ReturnPreserves
  <2> QED
    BY <1>2, <2>1, <2>2, <2>3, <2>4 DEF CallStep
<1>3. ASSUME NEW t \in Tasks, NEW u \in Tasks, Send(t, u) \/ HandOver(t, u)
      PROVE  Inductive'
  <2>1. refs[t] \in Nat
    BY DEF Inductive, TypeOK
  <2>2. CASE Send(t, u)
    BY <2>2, GivePreserves DEF Send
  <2>3. CASE HandOver(t, u)
    BY <2>1, <2>3, GivePreserves DEF HandOver
  <2> QED
    BY <1>3, <2>2, <2>3
<1> QED
  BY <1>1, <1>2, <1>3, CallPreserves, ClonePreserves, DropPreserves,
     SynchronizePreserves, ForgetPreserves, ObservePreserves DEF Next

(* The strengthening holds in every state: entry function, metadata,       *)
(* payload, references and views of a thunk fit together, for any number   *)
(* of tasks, references and values.                                        *)
THEOREM InductiveInvariant == Spec => []Inductive
<1>1. Init => Inductive
  BY InitInductive
<1>2. Inductive /\ [Next]_vars => Inductive'
  BY NextInductive
<1> QED
  BY <1>1, <1>2, PTL DEF Spec

(* Variables keep their types; no task runs out of references.             *)
THEOREM TypeCorrect == Spec => []TypeOK
<1>1. Inductive => TypeOK
  BY DEF Inductive
<1> QED
  BY <1>1, InductiveInvariant, PTL

(* The body of a thunk is evaluated at most once, and by one task, whoever *)
(* calls it and however weak the memory is (entry_function.rs).            *)
THEOREM EvaluatedOnce == Spec => []OneEvaluation
<1>1. Inductive => OneEvaluation
  BY DEF Inductive
<1> QED
  BY <1>1, InductiveInvariant, PTL

(* Whoever is in the normal entry function finds the value, ordered before *)
(* its read; the body finds its environment (entry_function.rs:52).        *)
THEOREM PayloadIsPublished == Spec => []PayloadIsThere
<1>1. Inductive => PayloadIsThere
  BY DEF Inductive
<1> QED
  BY <1>1, InductiveInvariant, PTL

(* Callers keep references, and whenever nobody evaluates the thunk its    *)
(* metadata says what is in its payload, so that it can be dropped and     *)
(* synchronized (metadata.rs:15).                                          *)
THEOREM MetadataIsRight == Spec => [](CallersKeepReferences /\ MetadataFits)
<1>1. Inductive => CallersKeepReferences /\ MetadataFits
  BY DEF Inductive
<1> QED
  BY <1>1, InductiveInvariant, PTL

(* A thunk that is not synchronized is within reach of one task only,      *)
(* which justifies SkipLock.                                               *)
THEOREM NeedsNoLock == Spec => []UnsynchronizedIsLocal
<1>1. Inductive => UnsynchronizedIsLocal
  BY DEF Inductive
<1> QED
  BY <1>1, InductiveInvariant, PTL

----------------------------------------------------------------------------

(* What an evaluator has stored, and what a call is about to return, is    *)
(* the value of the thunk: the part of the refinement that Inductive does  *)
(* not need for itself.                                                    *)
ValueIsPayload ==
    \A t \in Tasks : pc[t] \in {"metadata", "publish", "return"} => value[t] = payload

(* Nobody overwrites a value that a call is about to return.               *)
LEMMA NextKeepsValue ==
    ASSUME Inductive, ValueIsPayload, [Next]_vars
    PROVE  ValueIsPayload'
<1> USE ThunkAssumption DEF Inductive
<1>1. CASE UNCHANGED vars
  BY <1>1 DEF vars, heapVars, ValueIsPayload
<1>2. ASSUME NEW t \in Tasks, DropEnvironment(t) \/ StoreValue(t)
      PROVE  ValueIsPayload'
  <2>1. /\ t \in Evaluators
        /\ \A u \in Tasks \ {t} : pc[u] \notin {"metadata", "publish", "return"}
    BY <1>2 DEF DropEnvironment, StoreValue, Evaluators, EvaluationSteps,
       OneEvaluation, EntryTellsPhase
  <2>2. /\ value' = value
        /\ \A u \in Tasks \ {t} : pc'[u] = pc[u]
        /\ pc'[t] = "store" \/ (pc'[t] = "metadata" /\ payload' = value[t])
    BY <1>2 DEF DropEnvironment, StoreValue, Goto, TypeOK
  <2> QED
    BY <2>1, <2>2 DEF ValueIsPayload
<1>3. ASSUME NEW t \in Tasks, ReadValue(t) \/ RunBody(t)
      PROVE  ValueIsPayload'
  BY <1>3 DEF ReadValue, RunBody, Goto, heapVars, ValueIsPayload, TypeOK
<1>4. ASSUME NEW t \in Tasks, Return(t)
      PROVE  ValueIsPayload'
  BY <1>4 DEF Return, Goto, ValueIsPayload, TypeOK
<1>5. ASSUME NEW t \in Tasks, StoreMetadata(t) \/ Publish(t)
      PROVE  ValueIsPayload'
  BY <1>5 DEF StoreMetadata, Publish, Goto, ValueIsPayload, TypeOK
<1>6. ASSUME NEW t \in Tasks,
             \/ Call(t) \/ SkipLock(t) \/ Lock(t) \/ LockFails(t)
             \/ KeepClosure(t) \/ AcquireValue(t) \/ Wait(t)
      PROVE  ValueIsPayload'
  BY <1>6 DEF Call, SkipLock, Lock, LockFails, KeepClosure, AcquireValue, Wait,
     Enter, Entries, Goto, heapVars, ValueIsPayload, TypeOK
<1>7. ASSUME NEW t \in Tasks,
             \/ Clone(t) \/ Drop(t) \/ Synchronize(t) \/ Forget(t) \/ Observe(t)
             \/ \E u \in Tasks : Send(t, u) \/ HandOver(t, u)
      PROVE  ValueIsPayload'
  BY <1>7 DEF Clone, Drop, Synchronize, Forget, Observe, Send, HandOver, Give,
     heapVars, ValueIsPayload
<1> QED
  BY <1>1, <1>2, <1>3, <1>4, <1>5, <1>6, <1>7 DEF Next, CallStep

(* A thunk starts without a value and without callers.                     *)
LEMMA InitIsLazy ==
    ASSUME Init
    PROVE  Lazy!LazyInit /\ ValueIsPayload
BY ThunkAssumption DEF Init, Lazy!LazyInit, ValueIsPayload

(* Every step of a task on a thunk is one of the lazy value, or none.      *)
LEMMA NextIsLazy ==
    ASSUME Inductive, ValueIsPayload, Next
    PROVE  [Lazy!LazyNext]_(Lazy!lazyVars)
<1> USE ThunkAssumption DEF Inductive
<1> DEFINE Stutters ==
      /\ (payload \in Values \/ payload' \in Values) => payload' = payload
      /\ \A u \in Tasks : pc'[u] = "idle" <=> pc[u] = "idle"
      /\ answer' = answer
<1>1. Stutters => [Lazy!LazyNext]_(Lazy!lazyVars)
  <2> SUFFICES ASSUME Stutters PROVE UNCHANGED Lazy!lazyVars
    OBVIOUS
  <2>1. (IF payload' \in Values THEN payload' ELSE None)
          = IF payload \in Values THEN payload ELSE None
    OBVIOUS
  <2>2. {u \in Tasks : pc'[u] # "idle"} = {u \in Tasks : pc[u] # "idle"}
    OBVIOUS
  <2> QED
    BY <2>1, <2>2 DEF Lazy!lazyVars
<1>2. ASSUME NEW t \in Tasks, Call(t)
      PROVE  Lazy!Ask(t)
  BY <1>2 DEF Call, Enter, Entries, Goto, TypeOK, Lazy!Ask
<1>3. ASSUME NEW t \in Tasks, StoreValue(t)
      PROVE  Lazy!Evaluate
  <2>1. t \in Evaluators /\ payload \notin Values /\ value[t] \in Values
    BY <1>3 DEF StoreValue, Evaluators, EvaluationSteps, OneEvaluation,
       PayloadTellsPhase
  <2>2. {u \in Tasks : pc'[u] # "idle"} = {u \in Tasks : pc[u] # "idle"}
    BY <1>3 DEF StoreValue, Goto, TypeOK
  <2> QED
    BY <1>3, <2>1, <2>2 DEF StoreValue, Lazy!Evaluate
<1>4. ASSUME NEW t \in Tasks, Return(t)
      PROVE  Lazy!Answer(t)
  <2>1. payload \in Values /\ value[t] = payload
    BY <1>4 DEF Return, ValueIsPayload, EntryTellsPhase, PayloadTellsPhase,
       Evaluators, EvaluationSteps
  <2> QED
    BY <1>4, <2>1 DEF Return, Goto, TypeOK, Lazy!Answer
<1>5. ASSUME NEW t \in Tasks, Forget(t)
      PROVE  Lazy!Forget(t)
  BY <1>5 DEF Forget, heapVars, Lazy!Forget
<1>6. ASSUME NEW t \in Tasks, DropEnvironment(t)
      PROVE  Stutters
  BY <1>6 DEF DropEnvironment, Goto, TypeOK, PayloadIsThere
<1>7. ASSUME NEW t \in Tasks,
             \/ SkipLock(t) \/ Lock(t) \/ LockFails(t) \/ KeepClosure(t) \/ RunBody(t)
             \/ StoreMetadata(t) \/ Publish(t) \/ AcquireValue(t) \/ ReadValue(t)
             \/ Wait(t)
      PROVE  Stutters
  BY <1>7 DEF SkipLock, Lock, LockFails, KeepClosure, RunBody, StoreMetadata,
     Publish, AcquireValue, ReadValue, Wait, Enter, Entries, Goto, heapVars, TypeOK
<1>8. ASSUME NEW t \in Tasks,
             \/ Clone(t) \/ Drop(t) \/ Synchronize(t) \/ Observe(t)
             \/ \E u \in Tasks : Send(t, u) \/ HandOver(t, u)
      PROVE  Stutters
  BY <1>8 DEF Clone, Drop, Synchronize, Observe, Send, HandOver, Give
<1> HIDE DEF Stutters
<1> QED
  BY <1>1, <1>2, <1>3, <1>4, <1>5, <1>6, <1>7, <1>8
     DEF Next, CallStep, Lazy!LazyNext

(* The safety half of ImplementsLazyValue: whatever tasks do, a thunk      *)
(* takes a value once, and every call that returns answers with it.        *)
THEOREM ThunkIsLazyValue ==
    Spec => Lazy!LazyInit /\ [][Lazy!LazyNext]_(Lazy!lazyVars)
<1>1. Init => Lazy!LazyInit /\ ValueIsPayload
  BY InitIsLazy
<1>2. Inductive /\ ValueIsPayload /\ [Next]_vars => ValueIsPayload'
  BY NextKeepsValue
<1>3. Inductive /\ ValueIsPayload /\ [Next]_vars => [Lazy!LazyNext]_(Lazy!lazyVars)
  <2>1. UNCHANGED vars => UNCHANGED Lazy!lazyVars
    BY DEF vars, heapVars, Lazy!lazyVars
  <2> QED
    BY <2>1, NextIsLazy
<1> QED
  BY <1>1, <1>2, <1>3, InductiveInvariant, PTL DEF Spec

=============================================================================
