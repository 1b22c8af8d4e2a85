--------------------------- MODULE ArcBlockProofs ---------------------------
(***************************************************************************)
(* Proofs that the properties of ArcBlock hold for every number of threads *)
(* and of references and every width of the count.  Inductive holds        *)
(* initially and is preserved by each operation; the steps an operation    *)
(* takes are treated one lemma each.                                       *)
(***************************************************************************)
EXTENDS ArcBlock, FiniteSetTheorems, TLAPS

(* How many references there are: a number that fits the count, zero       *)
(* exactly when there is none, and one exactly when there is one.          *)
LEMMA LiveSize ==
    ASSUME TypeOK
    PROVE  /\ IsFiniteSet(Live)
           /\ Cardinality(Live) \in Nat
           /\ Cardinality(Live) < -StaticCount
           /\ Cardinality(Live) = 0 <=> Live = {}
           /\ \A r \in Live : Cardinality(Live) = 1 <=> Live = {r}
<1>1. Live \in SUBSET Refs
  BY DEF Live
<1>2. /\ IsFiniteSet(Live)
      /\ Cardinality(Live) <= Cardinality(Refs)
  BY <1>1, FS_Subset, ArcBlockAssumption
<1>3. Cardinality(Live) \in Nat /\ Cardinality(Refs) \in Nat
  BY <1>2, FS_CardinalityType, ArcBlockAssumption
<1>4. Cardinality(Live) = 0 <=> Live = {}
  BY <1>2, FS_EmptySet
<1>5. ASSUME NEW r \in Live
      PROVE  Cardinality(Live) = 1 <=> Live = {r}
  <2>1. Cardinality(Live) = 1 <=> \E x : Live = {x}
    BY <1>2, FS_Singleton
  <2> QED
    BY <2>1
<1> QED
  BY <1>2, <1>3, <1>4, <1>5, ArcBlockAssumption

(* Zero is a word, for any number of references the word can count. *)
LEMMA ZeroIsAWord ==
    ASSUME TypeOK
    PROVE  0 \in Words
BY LiveSize, ArcBlockAssumption DEF Words

(* Holding a reference is owning a live one.                               *)
LEMMA HoldsLive ==
    ASSUME TypeOK
    PROVE  /\ \A t \in Threads : Holds(t) <=> \E r \in Live : owner[r] = t
           /\ \A r \in Live : owner[r] \in Threads /\ Holds(owner[r])
BY ArcBlockAssumption DEF TypeOK, Holds, Live

(* A new reference is one more reference.                                  *)
LEMMA AddReference ==
    ASSUME TypeOK, NEW t \in Threads, NEW s \in Refs,
           owner[s] = None, owner' = [owner EXCEPT ![s] = t]
    PROVE  /\ Live' = Live \cup {s}
           /\ Cardinality(Live') = Cardinality(Live) + 1
           /\ Cardinality(Live) + 1 < -StaticCount
           /\ \A u \in Threads : Holds(u)' <=> Holds(u) \/ u = t
<1>1. Live' = Live \cup {s} /\ s \notin Live
  BY ArcBlockAssumption DEF TypeOK, Live
<1>2. Cardinality(Live') = Cardinality(Live) + 1
  BY <1>1, LiveSize, FS_AddElement
<1>4. Cardinality(Live') <= Cardinality(Refs)
  BY <1>1, FS_Subset, ArcBlockAssumption DEF Live
<1>5. Cardinality(Refs) \in Nat
  BY FS_CardinalityType, ArcBlockAssumption
<1>3. \A u \in Threads : Holds(u)' <=> Holds(u) \/ u = t
  BY ArcBlockAssumption DEF TypeOK, Holds
<1>6. Cardinality(Live) + 1 < -StaticCount
  BY <1>2, <1>4, <1>5, LiveSize, ArcBlockAssumption
<1> QED
  BY <1>1, <1>2, <1>3, <1>6

(* A reference that is dropped is one reference less.                      *)
LEMMA RemoveReference ==
    ASSUME TypeOK, NEW t \in Threads, NEW r \in Refs,
           owner[r] = t, owner' = [owner EXCEPT ![r] = None]
    PROVE  /\ Live' = Live \ {r}
           /\ r \in Live
           /\ Cardinality(Live') = Cardinality(Live) - 1
           /\ \A u \in Threads : Holds(u)' => Holds(u)
           /\ \A u \in Threads \ {t} : Holds(u)' <=> Holds(u)
<1>1. Live' = Live \ {r} /\ r \in Live
  BY ArcBlockAssumption DEF TypeOK, Live
<1>2. Cardinality(Live') = Cardinality(Live) - 1
  BY <1>1, LiveSize, FS_RemoveElement
<1>3. /\ \A u \in Threads : Holds(u)' => Holds(u)
      /\ \A u \in Threads \ {t} : Holds(u)' <=> Holds(u)
  BY ArcBlockAssumption DEF TypeOK, Holds
<1> QED
  BY <1>1, <1>2, <1>3

(* A block is born in a consistent state.                                  *)
LEMMA InitInductive ==
    ASSUME Init
    PROVE  Inductive
<1> PICK c \in {UniqueCount, StaticCount} : NewBlock(c)
  BY DEF Init
<1> PICK t \in Threads, r \in Refs :
        /\ owner = [s \in Refs |-> IF s = r THEN t ELSE None]
        /\ view = [u \in Threads |-> IF u = t THEN {cell} ELSE {}]
        /\ fresh = IF IsStatic(c) THEN Threads ELSE {t}
  BY DEF NewBlock
<1>1. Live = {r}
  BY ArcBlockAssumption DEF Live
<1>2. Cardinality(Live) = 1
  BY <1>1, FS_Singleton
<1>3. StaticCount \in Int /\ StaticCount < -1
  <2>1. {r} \in SUBSET Refs /\ Cardinality({r}) = 1
    BY FS_Singleton
  <2>2. Cardinality(Refs) \in Nat /\ 1 <= Cardinality(Refs)
    BY <2>1, FS_Subset, FS_CardinalityType, ArcBlockAssumption
  <2> QED
    BY <2>2, ArcBlockAssumption
<1>4. cell = [count |-> c, released |-> {}]
  BY DEF NewBlock
<1>5. TypeOK
  <2>1. cell \in Writes
    BY <1>3, <1>4 DEF Writes, Words, UniqueCount
  <2>2. loaded \in [Threads -> Words]
    BY <1>3 DEF NewBlock, Words
  <2> QED
    BY <2>1, <2>2 DEF NewBlock, TypeOK, Operations
<1>6. CountMatchesReferences
  BY <1>2, <1>3, <1>4 DEF CountMatchesReferences, Counted, IsStatic,
        IsCountSynchronized, UniqueCount
<1>7. NoUseAfterFree /\ FreedByTheLastDropper /\ WritesAreExclusive
  BY <1>1 DEF NewBlock, NoUseAfterFree, FreedByTheLastDropper, WritesAreExclusive
<1>8. HoldersSeeLastWrite /\ UnsynchronizedIsLocal
  BY <1>1 DEF HoldersSeeLastWrite, UnsynchronizedIsLocal
<1>9. LoadedCountsHold /\ OperatingThreadsHold /\ LastDropperIsAlone
      /\ KnowsItself /\ MutatorIsAlone
  BY DEF NewBlock, LoadedCountsHold, OperatingThreadsHold, LastDropperIsAlone,
        KnowsItself, MutatorIsAlone
<1>10. ViewsAgree
  BY ArcBlockAssumption DEF ViewsAgree, Holds
<1>11. AccessesAreAccountedFor
  BY <1>3, <1>4 DEF NewBlock, AccessesAreAccountedFor, IsCountSynchronized,
        UniqueCount, Counted, IsStatic
<1>12. StaticIsReady
  BY <1>4 DEF StaticIsReady, Counted, IsStatic
<1> QED
  BY <1>5, <1>6, <1>7, <1>8, <1>9, <1>10, <1>11, <1>12 DEF Inductive

(* Counts and references stay as they are when an operation starts.        *)
LEMMA BeginPreserves ==
    ASSUME Inductive, NEW t \in Threads,
           NEW op \in {"clone", "drop", "synchronize"}, Begin(t, op)
    PROVE  Inductive'
<1> PICK w \in view[t] : Goto(t, op, w.count)
  BY DEF Begin
<1> USE DEF Inductive
<1>1. /\ pc[t] = "idle" /\ Holds(t)
      /\ cell' = cell /\ view' = view /\ owner' = owner
      /\ known' = known /\ fresh' = fresh /\ freed' = freed
      /\ pc' = [pc EXCEPT ![t] = op]
      /\ loaded' = [loaded EXCEPT ![t] = w.count]
  BY DEF Begin, Goto
<1>2. Live' = Live /\ Cardinality(Live') = Cardinality(Live)
      /\ \A u \in Threads : Holds(u)' <=> Holds(u)
  BY <1>1 DEF Live, Holds
<1>3. Live # {}
  BY <1>1, HoldsLive
<1>4. w \in Writes
  BY DEF TypeOK
<1>5. TypeOK'
  BY <1>1, <1>4 DEF TypeOK, Writes, Operations
<1>6. CountMatchesReferences' /\ HoldersSeeLastWrite' /\ UnsynchronizedIsLocal'
      /\ KnowsItself' /\ StaticIsReady'
  BY <1>1, <1>2 DEF CountMatchesReferences, HoldersSeeLastWrite,
        UnsynchronizedIsLocal, KnowsItself, StaticIsReady, Counted
<1>7. NoUseAfterFree' /\ FreedByTheLastDropper' /\ LastDropperIsAlone'
  BY <1>1, <1>2, <1>3 DEF NoUseAfterFree, FreedByTheLastDropper,
        LastDropperIsAlone, Counted, TypeOK
<1>8. WritesAreExclusive' /\ MutatorIsAlone' /\ OperatingThreadsHold'
  BY <1>1, <1>2 DEF WritesAreExclusive, MutatorIsAlone, OperatingThreadsHold,
        Counted, TypeOK
<1>9. LoadedCountsHold'
  BY <1>1, <1>2 DEF LoadedCountsHold, ViewsAgree, TypeOK
<1>10. ViewsAgree'
  BY <1>1, <1>2 DEF ViewsAgree
<1>11. AccessesAreAccountedFor'
  BY <1>1, <1>2 DEF AccessesAreAccountedFor, Counted
<1> QED
  BY <1>5, <1>6, <1>7, <1>8, <1>9, <1>10, <1>11

(* "Unique" is the truth, and whoever is told so has acquired what others  *)
(* did to the payload before they dropped their references.                *)
LEMMA IsUniquePreserves ==
    ASSUME Inductive, NEW t \in Threads, IsUnique(t)
    PROVE  Inductive'
<1> USE DEF Inductive
<1>1. /\ pc[t] = "idle" /\ Holds(t)
      /\ cell' = cell /\ view' = view /\ owner' = owner
      /\ fresh' = fresh /\ freed' = freed
  BY DEF IsUnique
<1> PICK w \in view[t] :
        /\ \/ /\ IsCountSynchronized(w.count)
              /\ known' = [known EXCEPT ![t] = @ \cup w.released]
           \/ /\ ~IsCountSynchronized(w.count)
              /\ known' = known
        /\ IF IsUniqueCount(w.count) THEN Goto(t, "mutate", 0) ELSE Done(t)
  BY DEF IsUnique
<1>2. Live' = Live /\ Cardinality(Live') = Cardinality(Live)
      /\ \A u \in Threads : Holds(u)' <=> Holds(u)
  BY <1>1 DEF Live, Holds
<1>3. Live # {}
  BY <1>1, HoldsLive
<1>4. w \in Writes
  BY DEF TypeOK
<1>5. /\ pc' \in [Threads -> Operations]
      /\ loaded' = [loaded EXCEPT ![t] = 0]
      /\ \A u \in Threads \ {t} : pc'[u] = pc[u] /\ loaded'[u] = loaded[u]
      /\ pc'[t] \in {"idle", "mutate"}
      /\ pc'[t] = "mutate" <=> IsUniqueCount(w.count)
  BY DEF Goto, Done, TypeOK, Operations
<1>6. /\ known' \in [Threads -> SUBSET Threads]
      /\ \A u \in Threads : known[u] \subseteq known'[u]
      /\ \A u \in Threads \ {t} : known'[u] = known[u]
      /\ IsCountSynchronized(w.count) => w.released \subseteq known'[t]
  BY <1>4 DEF TypeOK, Writes
<1>7. StaticCount < -1 /\ StaticCount \in Int
  BY <1>3, LiveSize, ArcBlockAssumption
<1>8. TypeOK'
  <2>1. 0 \in Words
    BY <1>7 DEF Words
  <2>2. loaded' \in [Threads -> Words]
    BY <1>5, <2>1 DEF TypeOK
  <2>3. /\ cell' \in Writes /\ view' \in [Threads -> SUBSET Writes]
        /\ owner' \in [Refs -> Threads \cup {None}]
        /\ fresh' \in SUBSET Threads /\ freed' \in BOOLEAN
    BY <1>1 DEF TypeOK
  <2> QED
    BY <1>5, <1>6, <2>2, <2>3 DEF TypeOK, Writes, Words, Operations
<1>9. ASSUME pc'[t] = "mutate"
      PROVE  /\ Counted /\ Cardinality(Live) = 1 /\ known'[t] = Threads
             /\ \E r \in Refs : Live = {r} /\ owner[r] = t
  <2>1. IsUniqueCount(w.count) /\ w = cell
    BY <1>1, <1>5, <1>9 DEF ViewsAgree, IsUniqueCount, IsCountSynchronized
  <2>2. Counted
    BY <1>7, <2>1 DEF Counted, IsUniqueCount, IsStatic, UniqueCount,
          SynchronizedUniqueCount
  <2>3. Cardinality(Live) = 1
    BY <1>3, <2>1, <2>2, LiveSize DEF CountMatchesReferences, IsUniqueCount,
          UniqueCount, SynchronizedUniqueCount
  <2>4. PICK r \in Live : owner[r] = t
    BY <1>1, HoldsLive
  <2>5. Live = {r} /\ r \in Refs
    BY <2>3, <2>4, LiveSize DEF Live
  <2>6. \A u \in Threads : Holds(u) => u = t
    BY <2>4, <2>5, HoldsLive
  <2>7. known'[t] = Threads
    <3>1. \A u \in Threads : u \in known'[t]
      BY <1>1, <1>3, <1>6, <2>1, <2>2, <2>6
         DEF AccessesAreAccountedFor, KnowsItself
    <3> QED
      BY <1>6, <3>1
  <2> QED
    BY <2>2, <2>3, <2>4, <2>5, <2>7
<1>10. CountMatchesReferences' /\ HoldersSeeLastWrite' /\ UnsynchronizedIsLocal'
      /\ KnowsItself' /\ StaticIsReady'
  BY <1>1, <1>2, <1>6 DEF CountMatchesReferences, HoldersSeeLastWrite,
        UnsynchronizedIsLocal, KnowsItself, StaticIsReady, Counted
<1>11. NoUseAfterFree' /\ FreedByTheLastDropper' /\ LastDropperIsAlone'
  BY <1>1, <1>2, <1>3, <1>5 DEF NoUseAfterFree, FreedByTheLastDropper,
        LastDropperIsAlone, Counted
<1>12. WritesAreExclusive'
  BY <1>1, <1>2, <1>5, <1>6, <1>9 DEF WritesAreExclusive
<1>13. MutatorIsAlone' /\ OperatingThreadsHold'
  BY <1>1, <1>2, <1>5, <1>9 DEF MutatorIsAlone, OperatingThreadsHold, Counted
<1>14. LoadedCountsHold' /\ ViewsAgree'
  BY <1>1, <1>2, <1>5 DEF LoadedCountsHold, ViewsAgree
<1>15. AccessesAreAccountedFor'
  BY <1>1, <1>2, <1>6 DEF AccessesAreAccountedFor, Counted
<1> QED
  BY <1>8, <1>10, <1>11, <1>12, <1>13, <1>14, <1>15

(* An access changes no count, and nobody but its thread is ordered after  *)
(* it by what was known or released before.                                *)
LEMMA AccessFacts ==
    ASSUME TypeOK, NEW t \in Threads, Access(t)
    PROVE  /\ cell' \in Writes /\ view' \in [Threads -> SUBSET Writes]
           /\ known' \in [Threads -> SUBSET Threads]
           /\ cell'.count = cell.count
           /\ cell'.released = cell.released \ {t}
           /\ \A u \in Threads : known'[u] = IF u = t THEN known[u] ELSE known[u] \ {t}
           /\ \A u \in Threads : view'[u] = {Unordered(w, t) : w \in view[u]}
           /\ \A w \in Writes : Unordered(w, t).count = w.count
           /\ cell' = Unordered(cell, t)
BY DEF Access, Unordered, TypeOK, Writes

(* Entering an access (ArcBlock::get_mut, ptr) changes no view of the memory,
   only who is inside the payload. *)
LEMMA AccessKeepsViews ==
    ASSUME TypeOK, NEW t \in Threads, Access(t), owner' = owner, ViewsAgree
    PROVE  ViewsAgree'
<1> SUFFICES ASSUME NEW u \in Threads, Holds(u)
             PROVE  ViewsAgree!(u)!2'
  BY DEF ViewsAgree, Holds
<1>1. cell' \in view'[u]
  BY AccessFacts DEF ViewsAgree
<1>2. ASSUME NEW w \in view'[u]
      PROVE  /\ IsCountSynchronized(w.count) <=> IsCountSynchronized(cell'.count)
             /\ IsStatic(w.count) <=> IsStatic(cell'.count)
             /\ ~IsCountSynchronized(cell'.count) => w = cell'
             /\ w.count = SynchronizedUniqueCount => w = cell'
  <2> PICK v \in view[u] : w = Unordered(v, t)
    BY AccessFacts
  <2>1. v \in Writes /\ w.count = v.count
    BY AccessFacts DEF TypeOK
  <2> QED
    BY <2>1, AccessFacts DEF ViewsAgree
<1> QED
  BY <1>1, <1>2

(* What holds after every step of an operation that touches neither the    *)
(* value of the count nor the references.                                  *)
LEMMA AccessPreserves ==
    ASSUME Inductive, NEW t \in Threads, Access(t), owner' = owner, Holds(t)
    PROVE  /\ CountMatchesReferences' /\ UnsynchronizedIsLocal'
           /\ ViewsAgree' /\ AccessesAreAccountedFor' /\ KnowsItself'
           /\ Live' = Live /\ Cardinality(Live') = Cardinality(Live)
           /\ \A u \in Threads : Holds(u)' <=> Holds(u)
<1> USE DEF Inductive
<1>0. /\ cell'.released = cell.released \ {t}
      /\ \A u \in Threads : known'[u] = IF u = t THEN known[u] ELSE known[u] \ {t}
  BY AccessFacts
<1>1. Live' = Live /\ Cardinality(Live') = Cardinality(Live)
      /\ \A u \in Threads : Holds(u)' <=> Holds(u)
  BY DEF Live, Holds
<1>2. CountMatchesReferences' /\ UnsynchronizedIsLocal'
  BY <1>1, AccessFacts DEF CountMatchesReferences, UnsynchronizedIsLocal, Counted
<1>3. ViewsAgree'
  BY AccessKeepsViews
<1>4. AccessesAreAccountedFor'
  <2> SUFFICES ASSUME Counted, Live # {}
               PROVE  AccessesAreAccountedFor'
    BY <1>1, AccessFacts DEF AccessesAreAccountedFor, Counted
  <2>1. CASE IsCountSynchronized(cell.count)
    <3>1. ASSUME NEW u \in Threads
          PROVE  \/ Holds(u)
                 \/ u \in cell'.released
                 \/ \E v \in Threads : Holds(v) /\ u \in known'[v]
      <4>1. CASE u = t
        BY <4>1
      <4>2. CASE u # t
        <5>1. \/ Holds(u)
              \/ u \in cell.released
              \/ \E v \in Threads : Holds(v) /\ u \in known[v]
          BY <2>1 DEF AccessesAreAccountedFor
        <5>2. \A v \in Threads : u \in known[v] => u \in known'[v]
          BY <4>2, <1>0
        <5>3. u \in cell.released => u \in cell'.released
          BY <4>2, <1>0
        <5> QED
          BY <5>1, <5>2, <5>3
      <4> QED
        BY <4>1, <4>2
    <3> QED
      BY <1>1, <2>1, <3>1, AccessFacts DEF AccessesAreAccountedFor
  <2>2. CASE ~IsCountSynchronized(cell.count)
    <3>1. \A v \in Threads : Holds(v) => v = t
      BY <2>2, HoldsLive DEF UnsynchronizedIsLocal
    <3>2. known'[t] = known[t]
      BY <1>0
    <3> QED
      BY <1>1, <2>2, <3>1, <3>2, AccessFacts DEF AccessesAreAccountedFor
  <2> QED
    BY <2>1, <2>2
<1>5. KnowsItself'
  BY AccessFacts DEF KnowsItself
<1> QED
  BY <1>1, <1>2, <1>3, <1>4, <1>5

(* Reading the payload (ArcBlock::ptr, load of a field) keeps the invariant. *)
LEMMA ReadPreserves ==
    ASSUME Inductive, NEW t \in Threads, Read(t)
    PROVE  Inductive'
<1> USE DEF Inductive
<1>1. /\ pc[t] = "idle" /\ Holds(t) /\ Access(t)
      /\ owner' = owner /\ pc' = pc /\ loaded' = loaded
      /\ fresh' = fresh /\ freed' = freed
  BY DEF Read
<1>2. /\ CountMatchesReferences' /\ UnsynchronizedIsLocal'
      /\ ViewsAgree' /\ AccessesAreAccountedFor' /\ KnowsItself'
      /\ Live' = Live /\ Cardinality(Live') = Cardinality(Live)
      /\ \A u \in Threads : Holds(u)' <=> Holds(u)
  BY <1>1, AccessPreserves
<1>3. TypeOK'
  BY <1>1, AccessFacts DEF TypeOK, Writes, Words, Operations
<1>4. Live # {} /\ \A u \in Threads : pc[u] \notin {"fence", "free"}
  BY <1>1, HoldsLive DEF LastDropperIsAlone
<1>5. \A u \in Threads : pc[u] # "mutate"
  <2> SUFFICES ASSUME NEW u \in Threads, pc[u] = "mutate"
               PROVE  FALSE
    OBVIOUS
  <2>1. \A r \in Live : owner[r] = u
    BY DEF WritesAreExclusive
  <2> QED
    BY <1>1, <2>1, HoldsLive
<1>6. NoUseAfterFree' /\ FreedByTheLastDropper' /\ LastDropperIsAlone'
      /\ WritesAreExclusive' /\ MutatorIsAlone' /\ OperatingThreadsHold'
  BY <1>1, <1>2, <1>4, <1>5 DEF NoUseAfterFree, FreedByTheLastDropper,
        LastDropperIsAlone, WritesAreExclusive, MutatorIsAlone, OperatingThreadsHold
<1>7. LoadedCountsHold' /\ HoldersSeeLastWrite' /\ StaticIsReady'
  BY <1>1, <1>2, AccessFacts DEF LoadedCountsHold, HoldersSeeLastWrite,
        StaticIsReady, Counted
<1> QED
  BY <1>2, <1>3, <1>6, <1>7

(* Writing the payload of a unique block (ArcBlock::get_mut, update in place)
   keeps the invariant: nobody else holds a reference then. *)
LEMMA MutatePreserves ==
    ASSUME Inductive, NEW t \in Threads, Mutate(t)
    PROVE  Inductive'
<1> USE DEF Inductive
<1>1. /\ pc[t] = "mutate" /\ Holds(t) /\ Access(t)
      /\ owner' = owner /\ freed' = freed /\ fresh' = {t}
      /\ pc' = [pc EXCEPT ![t] = "idle"] /\ loaded' = [loaded EXCEPT ![t] = 0]
  BY DEF Mutate, Done, Goto, OperatingThreadsHold
<1>2. /\ CountMatchesReferences' /\ UnsynchronizedIsLocal'
      /\ ViewsAgree' /\ AccessesAreAccountedFor' /\ KnowsItself'
      /\ Live' = Live /\ Cardinality(Live') = Cardinality(Live)
      /\ \A u \in Threads : Holds(u)' <=> Holds(u)
  BY <1>1, AccessPreserves
<1>3. \A r \in Live : owner[r] = t
  BY <1>1 DEF WritesAreExclusive
<1>4. TypeOK'
  <2>1. 0 \in Words
    BY ZeroIsAWord
  <2>2. loaded' \in [Threads -> Words] /\ pc' \in [Threads -> Operations]
    BY <1>1, <2>1 DEF TypeOK, Operations
  <2> QED
    BY <1>1, <2>2, AccessFacts DEF TypeOK, Writes, Words, Operations
<1>5. Live # {} /\ \A u \in Threads : pc[u] \notin {"fence", "free"}
  BY <1>1, HoldsLive DEF LastDropperIsAlone
<1>6. \A u \in Threads \ {t} : pc[u] # "mutate"
  BY <1>1, <1>3, HoldsLive DEF OperatingThreadsHold
<1>7. NoUseAfterFree' /\ FreedByTheLastDropper' /\ LastDropperIsAlone'
      /\ WritesAreExclusive' /\ MutatorIsAlone' /\ OperatingThreadsHold'
  BY <1>1, <1>2, <1>5, <1>6 DEF NoUseAfterFree, FreedByTheLastDropper,
        LastDropperIsAlone, WritesAreExclusive, MutatorIsAlone,
        OperatingThreadsHold, TypeOK
<1>8. LoadedCountsHold'
  BY <1>1, <1>2, AccessFacts DEF LoadedCountsHold, TypeOK
<1>9. HoldersSeeLastWrite'
  BY <1>1, <1>2, <1>3 DEF HoldersSeeLastWrite
<1>10. StaticIsReady'
  BY <1>1, AccessFacts DEF StaticIsReady, Counted, MutatorIsAlone
<1> QED
  BY <1>2, <1>4, <1>7, <1>8, <1>9, <1>10

(* The thread that frees the block is the last one that knows it.          *)
LEMMA DropInnerPreserves ==
    ASSUME Inductive, NEW t \in Threads, DropInner(t)
    PROVE  Inductive'
<1> USE DEF Inductive
<1>1. /\ pc[t] = "free" /\ Access(t)
      /\ owner' = owner /\ freed' = TRUE /\ fresh' = {t}
      /\ pc' = [pc EXCEPT ![t] = "idle"] /\ loaded' = [loaded EXCEPT ![t] = 0]
  BY DEF DropInner, Done, Goto
<1>2. /\ Live = {} /\ Counted
      /\ \A u \in Threads \ {t} : pc[u] = "idle"
  BY <1>1 DEF LastDropperIsAlone
<1>3. Live' = {} /\ \A u \in Threads : pc'[u] = "idle" /\ ~Holds(u)'
  BY <1>1, <1>2, HoldsLive DEF TypeOK, Live, Holds
<1>4. TypeOK'
  <2>1. 0 \in Words
    BY ZeroIsAWord
  <2>2. loaded' \in [Threads -> Words] /\ pc' \in [Threads -> Operations]
    BY <1>1, <2>1 DEF TypeOK, Operations
  <2> QED
    BY <1>1, <2>2, AccessFacts DEF TypeOK, Writes, Words, Operations
<1>5. Counted'
  BY <1>2, <1>1, AccessFacts DEF Counted
<1>6. CountMatchesReferences' /\ NoUseAfterFree' /\ FreedByTheLastDropper'
      /\ WritesAreExclusive' /\ HoldersSeeLastWrite' /\ UnsynchronizedIsLocal'
      /\ LastDropperIsAlone' /\ MutatorIsAlone' /\ AccessesAreAccountedFor'
      /\ StaticIsReady'
  BY <1>1, <1>3, <1>5 DEF CountMatchesReferences, NoUseAfterFree, StaticIsReady,
        FreedByTheLastDropper, WritesAreExclusive, HoldersSeeLastWrite,
        UnsynchronizedIsLocal, LastDropperIsAlone, MutatorIsAlone,
        AccessesAreAccountedFor
<1>7. LoadedCountsHold' /\ OperatingThreadsHold' /\ ViewsAgree'
  BY <1>3 DEF LoadedCountsHold, OperatingThreadsHold, ViewsAgree
<1>8. KnowsItself'
  BY <1>1, AccessFacts DEF KnowsItself
<1> QED
  BY <1>4, <1>6, <1>7, <1>8

(* Taking a reference to a static block keeps the invariant. *)
LEMMA ReferToStaticPreserves ==
    ASSUME Inductive, NEW t \in Threads, NEW s \in Refs, ReferToStatic(t, s)
    PROVE  Inductive'
<1> USE DEF Inductive
<1>1. /\ pc[t] = "idle" /\ IsStatic(cell.count)
      /\ owner[s] = None /\ owner' = [owner EXCEPT ![s] = t]
      /\ view' = [view EXCEPT ![t] = {cell}]
      /\ cell' = cell /\ pc' = pc /\ loaded' = loaded
      /\ known' = known /\ fresh' = fresh /\ freed' = freed
  BY DEF ReferToStatic
<1>2. \A u \in Threads : Holds(u)' <=> Holds(u) \/ u = t
  BY <1>1, AddReference
<1>3. /\ ~Counted /\ ~Counted' /\ ~freed
      /\ \A u \in Threads : pc[u] \notin {"fence", "free", "mutate"}
  BY <1>1 DEF Counted, NoUseAfterFree, LastDropperIsAlone, MutatorIsAlone
<1>4. TypeOK'
  BY <1>1 DEF TypeOK, Writes, Words, Operations
<1>5. CountMatchesReferences' /\ NoUseAfterFree' /\ FreedByTheLastDropper'
      /\ WritesAreExclusive' /\ LastDropperIsAlone' /\ MutatorIsAlone'
      /\ AccessesAreAccountedFor' /\ StaticIsReady' /\ KnowsItself'
  BY <1>1, <1>3 DEF CountMatchesReferences, NoUseAfterFree, StaticIsReady,
        FreedByTheLastDropper, WritesAreExclusive, LastDropperIsAlone,
        MutatorIsAlone, AccessesAreAccountedFor, KnowsItself
<1>6. LoadedCountsHold' /\ OperatingThreadsHold'
  BY <1>1, <1>2 DEF LoadedCountsHold, OperatingThreadsHold
<1>7. HoldersSeeLastWrite'
  BY <1>3, <1>4, <1>5, HoldsLive DEF HoldersSeeLastWrite, StaticIsReady, TypeOK, Live
<1>8. UnsynchronizedIsLocal'
  <2>1. IsCountSynchronized(cell.count)
    BY <1>1, LiveSize, ArcBlockAssumption DEF IsStatic, IsCountSynchronized
  <2> QED
    BY <1>1, <2>1 DEF UnsynchronizedIsLocal
<1>9. ViewsAgree'
  BY <1>1, <1>2 DEF ViewsAgree, TypeOK
<1> QED
  BY <1>4, <1>5, <1>6, <1>7, <1>8, <1>9

(* The fence of the last dropper keeps the invariant: its view takes in what
   every decrement has released. *)
LEMMA AcquireFencePreserves ==
    ASSUME Inductive, NEW t \in Threads, AcquireFence(t)
    PROVE  Inductive'
<1> USE DEF Inductive
<1>1. /\ pc[t] = "fence"
      /\ known' = [known EXCEPT ![t] = @ \cup cell.released]
      /\ pc' = [pc EXCEPT ![t] = "free"] /\ loaded' = [loaded EXCEPT ![t] = 0]
      /\ cell' = cell /\ view' = view /\ owner' = owner
      /\ fresh' = fresh /\ freed' = freed
  BY DEF AcquireFence, Goto
<1>2. /\ Live = {} /\ Counted /\ ~freed /\ known'[t] = Threads
      /\ \A u \in Threads \ {t} : pc[u] = "idle"
  BY <1>1 DEF LastDropperIsAlone, TypeOK
<1>3. Live' = {} /\ Counted' /\ \A u \in Threads : ~Holds(u)'
  BY <1>1, <1>2, HoldsLive DEF Live, Holds, Counted
<1>4. TypeOK'
  <2>1. 0 \in Words
    BY ZeroIsAWord
  <2>2. loaded' \in [Threads -> Words] /\ pc' \in [Threads -> Operations]
    BY <1>1, <2>1 DEF TypeOK, Operations
  <2>3. known' \in [Threads -> SUBSET Threads]
    BY <1>1 DEF TypeOK, Writes
  <2> QED
    BY <1>1, <2>2, <2>3 DEF TypeOK, Writes, Words, Operations
<1>5. /\ pc'[t] = "free"
      /\ \A u \in Threads \ {t} : pc'[u] = "idle"
  BY <1>1, <1>2 DEF TypeOK
<1>6. CountMatchesReferences' /\ NoUseAfterFree' /\ FreedByTheLastDropper'
      /\ WritesAreExclusive' /\ HoldersSeeLastWrite' /\ UnsynchronizedIsLocal'
      /\ LastDropperIsAlone' /\ MutatorIsAlone' /\ AccessesAreAccountedFor'
      /\ StaticIsReady'
  BY <1>1, <1>2, <1>3, <1>5 DEF CountMatchesReferences, NoUseAfterFree,
        FreedByTheLastDropper, WritesAreExclusive, HoldersSeeLastWrite,
        UnsynchronizedIsLocal, LastDropperIsAlone, MutatorIsAlone,
        AccessesAreAccountedFor, StaticIsReady
<1>7. LoadedCountsHold' /\ OperatingThreadsHold' /\ ViewsAgree'
  BY <1>3, <1>5 DEF LoadedCountsHold, OperatingThreadsHold, ViewsAgree
<1>8. KnowsItself'
  BY <1>1 DEF KnowsItself, TypeOK
<1> QED
  BY <1>4, <1>6, <1>7, <1>8

(* References of an idle thread t become references of another idle thread *)
(* u, which learns what t knows.                                           *)
LEMMA LearnPreserves ==
    ASSUME Inductive, NEW t \in Threads, NEW u \in Threads, t # u,
           pc[t] = "idle", pc[u] = "idle", Holds(t), Learn(t, u),
           owner' \in [Refs -> Threads \cup {None}],
           \A r \in Refs : owner'[r] # owner[r] => owner[r] = t /\ owner'[r] = u,
           \E r \in Refs : owner'[r] = u,
           UnsynchronizedIsLocal'
    PROVE  Inductive'
<1> USE DEF Inductive
<1>1. /\ known' = [known EXCEPT ![u] = @ \cup known[t]]
      /\ view' = [view EXCEPT ![u] = IF Holds(u) THEN @ \cap view[t] ELSE view[t],
                              ![t] = IF Holds(t)' THEN @ ELSE {}]
      /\ fresh' = IF t \in fresh THEN fresh \cup {u} ELSE fresh
      /\ cell' = cell /\ pc' = pc /\ loaded' = loaded /\ freed' = freed
  BY DEF Learn
<1>2. Live' = Live /\ Cardinality(Live') = Cardinality(Live)
  BY ArcBlockAssumption DEF Live
<1>3. /\ Holds(u)'
      /\ \A v \in Threads \ {t, u} : Holds(v)' <=> Holds(v)
  BY DEF Holds
<1>4. Live # {} /\ \A v \in Threads : pc[v] \notin {"fence", "free"}
  BY HoldsLive DEF LastDropperIsAlone
<1>5. \A v \in Threads : pc[v] # "mutate"
  <2> SUFFICES ASSUME NEW v \in Threads, pc[v] = "mutate"
               PROVE  FALSE
    OBVIOUS
  <2>1. \A r \in Live : owner[r] = v
    BY DEF WritesAreExclusive
  <2> QED
    BY <2>1, HoldsLive
<1>6. /\ known' \in [Threads -> SUBSET Threads]
      /\ \A v \in Threads : known[v] \subseteq known'[v]
      /\ known[t] \subseteq known'[u]
  BY <1>1 DEF TypeOK
<1>7. TypeOK'
  <2>1. view' \in [Threads -> SUBSET Writes]
    BY <1>1 DEF TypeOK
  <2>2. fresh' \in SUBSET Threads
    BY <1>1 DEF TypeOK
  <2> QED
    BY <1>1, <1>6, <2>1, <2>2 DEF TypeOK, Writes, Words, Operations
<1>8. CountMatchesReferences' /\ NoUseAfterFree' /\ FreedByTheLastDropper'
      /\ WritesAreExclusive' /\ LastDropperIsAlone' /\ MutatorIsAlone'
  BY <1>1, <1>2, <1>4, <1>5 DEF CountMatchesReferences, NoUseAfterFree, Counted,
        FreedByTheLastDropper, WritesAreExclusive, LastDropperIsAlone, MutatorIsAlone
<1>9. LoadedCountsHold' /\ OperatingThreadsHold'
  BY <1>1, <1>3 DEF LoadedCountsHold, OperatingThreadsHold
<1>10. HoldersSeeLastWrite' /\ StaticIsReady'
  <2>1. t \in fresh
    BY HoldsLive DEF HoldersSeeLastWrite
  <2>2. fresh' = fresh \cup {u}
    BY <1>1, <2>1
  <2> QED
    BY <1>1, <1>2, <2>2 DEF HoldersSeeLastWrite, StaticIsReady, Counted, TypeOK, Live
<1>11. ViewsAgree'
  <2> SUFFICES ASSUME NEW v \in Threads, Holds(v)'
               PROVE  ViewsAgree!(v)!2'
    BY DEF ViewsAgree
  <2>1. CASE v = u
    BY <1>1, <2>1 DEF ViewsAgree, TypeOK
  <2>2. CASE v # u
    <3>1. view'[v] = view[v] /\ Holds(v)
      BY <1>1, <1>3, <2>2 DEF TypeOK
    <3> QED
      BY <1>1, <3>1 DEF ViewsAgree
  <2> QED
    BY <2>1, <2>2
<1>12. AccessesAreAccountedFor'
  <2> SUFFICES ASSUME Counted, NEW v \in Threads
               PROVE  AccessesAreAccountedFor!2!(v)'
    BY <1>1 DEF AccessesAreAccountedFor, Counted
  <2>1. CASE IsCountSynchronized(cell.count)
    <3>1. \/ Holds(v)
          \/ v \in cell.released
          \/ \E x \in Threads : Holds(x) /\ v \in known[x]
      BY <1>4, <2>1 DEF AccessesAreAccountedFor
    <3>2. ASSUME NEW x \in Threads, Holds(x), v \in known[x]
          PROVE  \E y \in Threads : Holds(y)' /\ v \in known'[y]
      <4>1. CASE x = t
        BY <1>3, <1>6, <3>2, <4>1
      <4>2. CASE x # t
        BY <1>3, <1>6, <3>2, <4>2
      <4> QED
        BY <4>1, <4>2
    <3>3. Holds(v) => \E y \in Threads : Holds(y)' /\ v \in known'[y]
      BY <3>2 DEF KnowsItself
    <3> QED
      BY <1>1, <2>1, <3>1, <3>2, <3>3
  <2>2. CASE ~IsCountSynchronized(cell.count)
    <3>1. ASSUME NEW x \in Threads, Holds(x)'
          PROVE  x = u
      <4>1. PICK r \in Refs, s \in Refs : owner'[r] = x /\ owner'[s] = u
        BY <3>1 DEF Holds
      <4>2. r \in Live' /\ s \in Live'
        BY <4>1, ArcBlockAssumption DEF Live
      <4> QED
        BY <1>1, <2>2, <4>1, <4>2 DEF UnsynchronizedIsLocal
    <3>2. v \in known[t]
      BY <1>4, <2>2 DEF AccessesAreAccountedFor
    <3> QED
      BY <1>1, <1>6, <2>2, <3>1, <3>2
  <2> QED
    BY <2>1, <2>2
<1>13. KnowsItself'
  BY <1>6 DEF KnowsItself
<1> QED
  BY <1>7, <1>8, <1>9, <1>10, <1>11, <1>12, <1>13

(* Sending a reference to a task that is spawned keeps the invariant. *)
LEMMA SendPreserves ==
    ASSUME Inductive, NEW t \in Threads, NEW u \in Threads, NEW r \in Refs,
           Send(t, u, r)
    PROVE  Inductive'
<1> USE DEF Inductive
<1>1. /\ t # u /\ pc[t] = "idle" /\ pc[u] = "idle" /\ owner[r] = t
      /\ IsCountSynchronized(cell.count) /\ Learn(t, u)
      /\ owner' = [owner EXCEPT ![r] = u]
  BY DEF Send, MayShare
<1>2. /\ owner' \in [Refs -> Threads \cup {None}]
      /\ \A s \in Refs : owner'[s] # owner[s] => owner[s] = t /\ owner'[s] = u
      /\ owner'[r] = u /\ Holds(t)
  BY <1>1 DEF TypeOK, Holds
<1>3. UnsynchronizedIsLocal'
  BY <1>1 DEF Learn, UnsynchronizedIsLocal
<1> QED
  BY <1>1, <1>2, <1>3, LearnPreserves

(* Handing a reference over with the result of a task keeps the invariant. *)
LEMMA HandOverPreserves ==
    ASSUME Inductive, NEW t \in Threads, NEW u \in Threads, HandOver(t, u)
    PROVE  Inductive'
<1> USE DEF Inductive
<1>1. /\ t # u /\ pc[t] = "idle" /\ pc[u] = "idle" /\ Holds(t) /\ Learn(t, u)
      /\ owner' = [r \in Refs |-> IF owner[r] = t THEN u ELSE owner[r]]
  BY DEF HandOver
<1>2. /\ owner' \in [Refs -> Threads \cup {None}]
      /\ \A s \in Refs : owner'[s] # owner[s] => owner[s] = t /\ owner'[s] = u
      /\ \E s \in Refs : owner'[s] = u
  BY <1>1 DEF TypeOK, Holds
<1>3. UnsynchronizedIsLocal'
  <2> SUFFICES ASSUME ~IsCountSynchronized(cell.count), NEW r \in Live', NEW s \in Live'
               PROVE  owner'[r] = owner'[s]
    BY <1>1 DEF Learn, UnsynchronizedIsLocal
  <2>1. Live' = Live
    BY <1>1, ArcBlockAssumption DEF Live
  <2>2. owner[r] = owner[s]
    BY <2>1 DEF UnsynchronizedIsLocal
  <2> QED
    BY <1>1, <2>2 DEF Live
<1> QED
  BY <1>1, <1>2, <1>3, LearnPreserves

(* While a thread is in the middle of an operation on its reference, the   *)
(* block is there, and nobody writes to the payload.                       *)
LEMMA HolderFacts ==
    ASSUME Inductive, NEW t \in Threads, Holds(t), pc[t] # "mutate"
    PROVE  /\ ~freed /\ Live # {}
           /\ Cardinality(Live) \in Nat \ {0}
           /\ \A u \in Threads : pc[u] \notin {"fence", "free", "mutate"}
           /\ ~IsCountSynchronized(cell.count) =>
                 /\ Counted
                 /\ \A u \in Threads : Holds(u) => u = t
                 /\ known[t] = Threads
           /\ StaticCount \in Int /\ StaticCount < -1
<1> USE DEF Inductive
<1>1. Live # {} /\ ~freed
  BY HoldsLive DEF NoUseAfterFree
<1>2. Cardinality(Live) \in Nat \ {0}
  BY <1>1, LiveSize
<1>3. \A u \in Threads : pc[u] \notin {"fence", "free"}
  BY <1>1 DEF LastDropperIsAlone
<1>4. \A u \in Threads : pc[u] # "mutate"
  <2> SUFFICES ASSUME NEW u \in Threads, pc[u] = "mutate"
               PROVE  FALSE
    OBVIOUS
  <2>1. \A r \in Live : owner[r] = u
    BY DEF WritesAreExclusive
  <2> QED
    BY <2>1, HoldsLive
<1>5. StaticCount \in Int /\ StaticCount < -1
  BY <1>2, LiveSize, ArcBlockAssumption
<1>6. ASSUME ~IsCountSynchronized(cell.count)
      PROVE  /\ Counted
             /\ \A u \in Threads : Holds(u) => u = t
             /\ known[t] = Threads
  <2>1. Counted
    BY <1>5, <1>6 DEF Counted, IsStatic, IsCountSynchronized
  <2>2. \A u \in Threads : Holds(u) => u = t
    BY <1>6, HoldsLive DEF UnsynchronizedIsLocal
  <2>3. known[t] = Threads
    BY <1>1, <1>6, <2>1 DEF AccessesAreAccountedFor, TypeOK
  <2> QED
    BY <2>1, <2>2, <2>3
<1> QED
  BY <1>1, <1>2, <1>3, <1>4, <1>5, <1>6

(* The count of a block that lives in memory after n references.           *)
LEMMA CountFacts ==
    ASSUME Inductive, NEW t \in Threads, Holds(t), pc[t] # "mutate"
    PROVE  /\ cell.count \in Int
           /\ IsCountSynchronized(cell.count) <=> cell.count < 0
           /\ IsStatic(cell.count) <=> ~Counted
           /\ ~Counted => cell.count < -1
           /\ Counted /\ cell.count < 0 => cell.count = -Cardinality(Live)
           /\ cell.count >= 0 => Counted /\ cell.count = Cardinality(Live) - 1
<1> USE DEF Inductive
<1>1. cell.count \in Int
  BY ArcBlockAssumption DEF TypeOK, Writes, Words
<1> QED
  BY <1>1, HolderFacts DEF IsCountSynchronized, IsStatic, Counted,
     CountMatchesReferences

(* The last write by t is what t sees, and a holder sees no other "unique" *)
(* than a true one, because t held a reference as well.                    *)
LEMMA ReadModifyWriteKeepsViews ==
    ASSUME Inductive, NEW t \in Threads, Holds(t), pc[t] # "mutate",
           NEW w \in Writes, Write(t, w),
           Counted, IsCountSynchronized(cell.count),
           IsCountSynchronized(w.count), ~IsStatic(w.count),
           \A u \in Threads : Holds(u)' => Holds(u)
    PROVE  ViewsAgree'
<1> USE DEF Inductive
<1>1. /\ cell' = w
      /\ \A u \in Threads : Holds(u)' =>
            view'[u] = IF u = t THEN {w} ELSE view[u] \cup {w}
  BY DEF Write
<1>2. ASSUME NEW u \in Threads \ {t}, Holds(u), NEW v \in view[u]
      PROVE  v.count # SynchronizedUniqueCount
  <2> SUFFICES ASSUME v.count = SynchronizedUniqueCount
               PROVE  FALSE
    OBVIOUS
  <2>1. cell.count = -1
    BY <1>2 DEF ViewsAgree, SynchronizedUniqueCount
  <2>2. Cardinality(Live) = 1
    BY <2>1, CountFacts, HolderFacts
  <2>3. PICK r \in Live, s \in Live : owner[r] = t /\ owner[s] = u
    BY <1>2, HoldsLive
  <2>4. Live = {r} /\ Live = {s}
    BY <2>2, LiveSize
  <2> QED
    BY <2>3, <2>4
<1> SUFFICES ASSUME NEW u \in Threads, Holds(u)', NEW v \in view'[u]
             PROVE  /\ cell' \in view'[u]
                    /\ IsCountSynchronized(v.count) /\ ~IsStatic(v.count)
                    /\ v.count = SynchronizedUniqueCount => v = w
  BY <1>1 DEF ViewsAgree
<1>3. CASE v = w
  BY <1>1, <1>3
<1>4. CASE v # w
  <2>0. view'[u] = IF u = t THEN {w} ELSE view[u] \cup {w}
    BY <1>1
  <2>1. u # t /\ v \in view[u] /\ Holds(u)
    BY <1>4, <2>0
  <2>2. IsCountSynchronized(v.count) /\ ~IsStatic(v.count)
    BY <2>1 DEF ViewsAgree, Counted
  <2> QED
    BY <1>1, <1>2, <2>1, <2>2
<1> QED
  BY <1>3, <1>4

(* A thread that is done with an operation has done no harm to the         *)
(* operations of the others.                                               *)
LEMMA DoneFacts ==
    ASSUME Inductive, NEW t \in Threads, Holds(t), pc[t] # "mutate", Done(t)
    PROVE  /\ pc' \in [Threads -> Operations] /\ loaded' \in [Threads -> Words]
           /\ pc'[t] = "idle"
           /\ \A u \in Threads \ {t} : pc'[u] = pc[u] /\ loaded'[u] = loaded[u]
           /\ \A u \in Threads : pc'[u] \notin {"fence", "free", "mutate"}
<1> USE DEF Inductive
<1>1. pc' = [pc EXCEPT ![t] = "idle"] /\ loaded' = [loaded EXCEPT ![t] = 0]
  BY DEF Done, Goto
<1>2. pc' \in [Threads -> Operations] /\ loaded' \in [Threads -> Words]
  BY <1>1, ZeroIsAWord DEF TypeOK, Operations
<1> QED
  BY <1>1, <1>2, HolderFacts DEF TypeOK

(* The only holder stores a count for the references it has now.           *)
LEMMA StorePreserves ==
    ASSUME Inductive, NEW t \in Threads, Holds(t), pc[t] # "mutate",
           ~IsCountSynchronized(cell.count), Done(t),
           NEW c \in Words, Store(t, c), ~IsStatic(c),
           owner' \in [Refs -> Threads \cup {None}],
           known' = known, fresh' = fresh, freed' = freed,
           Live' # {}, \A r \in Live' : owner'[r] = t,
           c = IF c < 0 THEN -Cardinality(Live') ELSE Cardinality(Live') - 1
    PROVE  Inductive'
<1> USE DEF Inductive
<1>1. \A u \in Threads : Holds(u)' <=> u = t
  BY ArcBlockAssumption DEF Holds, Live
<1>2. cell' = [count |-> c, released |-> {}] /\ cell' \in Writes
  BY DEF Store, Write, Writes
<1>3. /\ view' = [u \in Threads |-> IF ~Holds(u)' THEN {}
                                    ELSE IF u = t THEN {cell'} ELSE view[u] \cup {cell'}]
      /\ view' \in [Threads -> SUBSET Writes]
      /\ view'[t] = {cell'}
  BY <1>1, <1>2 DEF Store, Write, TypeOK
<1>4. /\ ~freed /\ known[t] = Threads /\ Counted'
      /\ \A u \in Threads : Holds(u) => u = t
  BY <1>2, HolderFacts DEF Counted
<1>5. TypeOK'
  BY <1>2, <1>3, DoneFacts DEF TypeOK, Writes, Words, Operations
<1>6. CountMatchesReferences'
  BY <1>2 DEF CountMatchesReferences, IsCountSynchronized
<1>7. NoUseAfterFree' /\ FreedByTheLastDropper' /\ WritesAreExclusive'
      /\ LastDropperIsAlone' /\ MutatorIsAlone' /\ StaticIsReady'
  BY <1>4, DoneFacts DEF NoUseAfterFree, FreedByTheLastDropper,
        WritesAreExclusive, LastDropperIsAlone, MutatorIsAlone, StaticIsReady
<1>8. HoldersSeeLastWrite' /\ UnsynchronizedIsLocal'
  BY HoldsLive DEF HoldersSeeLastWrite, UnsynchronizedIsLocal
<1>9. LoadedCountsHold' /\ OperatingThreadsHold'
  BY <1>4, DoneFacts DEF LoadedCountsHold, OperatingThreadsHold
<1>10. ViewsAgree'
  BY <1>1, <1>3 DEF ViewsAgree
<1>11. AccessesAreAccountedFor'
  BY <1>1, <1>4 DEF AccessesAreAccountedFor
<1>12. KnowsItself'
  BY DEF KnowsItself
<1> QED
  BY <1>5, <1>6, <1>7, <1>8, <1>9, <1>10, <1>11, <1>12

(* A read-modify-write of a synchronized count, after which there are      *)
(* still references, releases what t knows if t may have no reference.     *)
LEMMA ReadModifyWritePreserves ==
    ASSUME Inductive, NEW t \in Threads, Holds(t), pc[t] # "mutate",
           Counted, IsCountSynchronized(cell.count), Done(t),
           NEW c \in Int, NEW releases \in SUBSET Threads, FetchAdd(t, c, releases),
           owner' \in [Refs -> Threads \cup {None}],
           known' = known, fresh' = fresh, freed' = freed,
           Live' # {}, \A r \in Live' : (r \in Live /\ owner'[r] = owner[r]) \/ owner'[r] = t,
           \A u \in Threads \ {t} : Holds(u)' <=> Holds(u),
           Holds(t)' \/ known[t] \subseteq releases,
           cell.count + c = -Cardinality(Live'),
           Cardinality(Live') \in Nat \ {0},
           Cardinality(Live') < -StaticCount
    PROVE  Inductive'
<1> USE DEF Inductive
<1> DEFINE w == [count |-> cell.count + c, released |-> cell.released \cup releases]
<1>1. /\ StaticCount \in Int /\ w.count < 0 /\ w.count \in Words /\ w \in Writes
      /\ IsCountSynchronized(w.count) /\ ~IsStatic(w.count)
      /\ w.released = cell.released \cup releases
  <2>1. cell.released \in SUBSET Threads
    BY DEF TypeOK, Writes
  <2>2. w.count < 0 /\ w.count \in Words /\ w.count # StaticCount
    BY ArcBlockAssumption DEF Words
  <2> QED
    BY <2>1, <2>2, ArcBlockAssumption DEF Writes, IsCountSynchronized, IsStatic
<1>2. Write(t, w) /\ cell' = w
  BY DEF FetchAdd, Write
<1> HIDE DEF w
<1>3. view' \in [Threads -> SUBSET Writes]
  BY <1>1, <1>2 DEF Write, TypeOK
<1>4. ViewsAgree'
  BY <1>1, <1>2, ReadModifyWriteKeepsViews
<1>5. TypeOK'
  BY <1>1, <1>2, <1>3, DoneFacts DEF TypeOK, Writes, Words, Operations
<1>6. CountMatchesReferences'
  BY <1>1, <1>2 DEF CountMatchesReferences, w
<1>7. NoUseAfterFree' /\ FreedByTheLastDropper' /\ WritesAreExclusive'
      /\ LastDropperIsAlone' /\ MutatorIsAlone' /\ StaticIsReady'
  BY <1>1, <1>2, HolderFacts, DoneFacts DEF NoUseAfterFree, FreedByTheLastDropper,
        WritesAreExclusive, LastDropperIsAlone, MutatorIsAlone, StaticIsReady, Counted
<1>8. HoldersSeeLastWrite' /\ UnsynchronizedIsLocal'
  <2>1. t \in fresh
    BY HoldsLive DEF HoldersSeeLastWrite
  <2> QED
    BY <1>1, <1>2, <2>1 DEF HoldersSeeLastWrite, UnsynchronizedIsLocal
<1>9. LoadedCountsHold' /\ OperatingThreadsHold'
  BY <1>1, <1>2, DoneFacts DEF LoadedCountsHold, OperatingThreadsHold, Counted
<1>10. AccessesAreAccountedFor'
  <2> SUFFICES ASSUME NEW u \in Threads
               PROVE  \/ Holds(u)'
                      \/ u \in cell'.released
                      \/ \E v \in Threads : Holds(v)' /\ u \in known[v]
    BY <1>1, <1>2 DEF AccessesAreAccountedFor
  <2>1. \/ Holds(u)
        \/ u \in cell.released
        \/ \E v \in Threads : Holds(v) /\ u \in known[v]
    BY HolderFacts DEF AccessesAreAccountedFor
  <2>2. ASSUME NEW v \in Threads, Holds(v), u \in known[v]
        PROVE  u \in cell'.released \/ (Holds(v)' /\ u \in known[v])
    BY <1>1, <1>2, <2>2
  <2>3. Holds(u) => u \in known[u]
    BY DEF KnowsItself
  <2> QED
    BY <1>1, <1>2, <2>1, <2>2, <2>3
<1>11. KnowsItself'
  BY DEF KnowsItself
<1> QED
  BY <1>4, <1>5, <1>6, <1>7, <1>8, <1>9, <1>10, <1>11

(* The count of a block in static memory is left alone.                    *)
LEMMA StaticPreserves ==
    ASSUME Inductive, NEW t \in Threads, Holds(t), pc[t] # "mutate",
           ~Counted, Done(t), KeepCount,
           owner' \in [Refs -> Threads \cup {None}],
           known' = known, fresh' = fresh, freed' = freed,
           \A u \in Threads : Holds(u)' => Holds(u),
           \A u \in Threads \ {t} : Holds(u)' <=> Holds(u)
    PROVE  Inductive'
<1> USE DEF Inductive
<1>1. /\ cell' = cell
      /\ view' = [u \in Threads |-> IF Holds(u)' THEN view[u] ELSE {}]
  BY DEF KeepCount
<1>2. ~Counted' /\ ~freed /\ IsCountSynchronized(cell.count)
  BY <1>1, HolderFacts, CountFacts DEF Counted
<1>3. TypeOK'
  <2>1. view' \in [Threads -> SUBSET Writes]
    BY <1>1 DEF TypeOK
  <2> QED
    BY <1>1, <2>1, DoneFacts DEF TypeOK, Writes, Words, Operations
<1>4. CountMatchesReferences' /\ NoUseAfterFree' /\ FreedByTheLastDropper'
      /\ WritesAreExclusive' /\ LastDropperIsAlone' /\ MutatorIsAlone'
      /\ AccessesAreAccountedFor' /\ StaticIsReady' /\ KnowsItself'
  BY <1>1, <1>2, DoneFacts DEF CountMatchesReferences, NoUseAfterFree, StaticIsReady,
        FreedByTheLastDropper, WritesAreExclusive, LastDropperIsAlone, Counted,
        MutatorIsAlone, AccessesAreAccountedFor, KnowsItself
<1>5. HoldersSeeLastWrite'
  BY <1>2 DEF HoldersSeeLastWrite, StaticIsReady, TypeOK, Live
<1>6. UnsynchronizedIsLocal'
  BY <1>1, <1>2 DEF UnsynchronizedIsLocal
<1>7. LoadedCountsHold' /\ OperatingThreadsHold'
  BY <1>1, DoneFacts DEF LoadedCountsHold, OperatingThreadsHold
<1>8. ViewsAgree'
  BY <1>1 DEF ViewsAgree
<1> QED
  BY <1>3, <1>4, <1>5, <1>6, <1>7, <1>8

(* The store of synchronize keeps the invariant: the count read before it is
   still the count, because only the owner of all references gets there. *)
LEMMA FinishSynchronizePreserves ==
    ASSUME Inductive, NEW t \in Threads, FinishSynchronize(t)
    PROVE  Inductive'
<1> USE DEF Inductive
<1>1. /\ pc[t] = "synchronize" /\ Holds(t) /\ Done(t)
      /\ owner' = owner /\ known' = known /\ fresh' = fresh /\ freed' = freed
      /\ IsCountSynchronized(loaded[t]) <=> IsCountSynchronized(cell.count)
      /\ ~IsCountSynchronized(cell.count) => loaded[t] = cell.count
  BY DEF FinishSynchronize, OperatingThreadsHold, LoadedCountsHold
<1>2. Live' = Live /\ \A u \in Threads : Holds(u)' <=> Holds(u)
  BY <1>1 DEF Live, Holds
<1>3. CASE ~IsCountSynchronized(cell.count)
  <2> DEFINE c == SynchronizedCount(loaded[t])
  <2>1. Store(t, c)
    BY <1>1, <1>3 DEF FinishSynchronize
  <2>2. c = -Cardinality(Live)
    BY <1>1, <1>3, CountFacts, HolderFacts DEF SynchronizedCount, SynchronizedUniqueCount
  <2>3. c \in Words /\ ~IsStatic(c) /\ c < 0
    BY <2>2, <1>1, HolderFacts, LiveSize DEF Words, IsStatic
  <2>4. \A r \in Live : owner[r] = t
    BY <1>1, <1>3, HolderFacts, HoldsLive
  <2> HIDE DEF c
  <2>5. owner' \in [Refs -> Threads \cup {None}]
    BY <1>1 DEF TypeOK
  <2> QED
    BY <1>1, <1>2, <1>3, <2>1, <2>2, <2>3, <2>4, <2>5, HolderFacts, StorePreserves
<1>4. CASE IsCountSynchronized(cell.count)
  <2>1. KeepCount
    BY <1>1, <1>4 DEF FinishSynchronize
  <2>2. /\ cell' = cell
        /\ view' = [u \in Threads |-> IF Holds(u)' THEN view[u] ELSE {}]
    BY <2>1 DEF KeepCount
  <2>3. TypeOK'
    <3>1. view' \in [Threads -> SUBSET Writes]
      BY <2>2 DEF TypeOK
    <3> QED
      BY <1>1, <2>2, <3>1, DoneFacts DEF TypeOK, Writes, Words, Operations
  <2>4. CountMatchesReferences' /\ NoUseAfterFree' /\ FreedByTheLastDropper'
        /\ WritesAreExclusive' /\ LastDropperIsAlone' /\ MutatorIsAlone'
        /\ StaticIsReady' /\ KnowsItself'
    BY <1>1, <1>2, <2>2, HolderFacts, DoneFacts DEF CountMatchesReferences,
          NoUseAfterFree, StaticIsReady, FreedByTheLastDropper, WritesAreExclusive,
          LastDropperIsAlone, Counted, MutatorIsAlone, KnowsItself
  <2>5. HoldersSeeLastWrite' /\ UnsynchronizedIsLocal' /\ AccessesAreAccountedFor'
    BY <1>1, <1>2, <2>2 DEF HoldersSeeLastWrite, UnsynchronizedIsLocal,
          AccessesAreAccountedFor, Counted
  <2>6. LoadedCountsHold' /\ OperatingThreadsHold'
    BY <1>1, <1>2, <2>2, DoneFacts DEF LoadedCountsHold, OperatingThreadsHold
  <2>7. ViewsAgree'
    BY <1>2, <2>2 DEF ViewsAgree
  <2> QED
    BY <2>3, <2>4, <2>5, <2>6, <2>7
<1> QED
  BY <1>3, <1>4

(* The second half of clone, a store or a fetch_add by the sign of the count
   loaded in the first, keeps the invariant. *)
LEMMA FinishClonePreserves ==
    ASSUME Inductive, NEW t \in Threads, NEW s \in Refs, FinishClone(t, s)
    PROVE  Inductive'
<1> USE DEF Inductive
<1>1. /\ pc[t] = "clone" /\ Holds(t) /\ Done(t) /\ owner[s] = None
      /\ owner' = [owner EXCEPT ![s] = t]
      /\ known' = known /\ fresh' = fresh /\ freed' = freed
      /\ IsCountSynchronized(loaded[t]) <=> IsCountSynchronized(cell.count)
      /\ IsStatic(loaded[t]) <=> ~Counted
      /\ ~IsCountSynchronized(cell.count) => loaded[t] = cell.count
  BY DEF FinishClone, OperatingThreadsHold, LoadedCountsHold, Counted
<1>2. /\ Live' = Live \cup {s} /\ s \notin Live
      /\ Cardinality(Live') = Cardinality(Live) + 1
      /\ Cardinality(Live) + 1 < -StaticCount
      /\ \A u \in Threads : Holds(u)' <=> Holds(u)
      /\ owner' \in [Refs -> Threads \cup {None}]
      /\ \A r \in Live : owner'[r] = owner[r]
      /\ owner'[s] = t
  BY <1>1, AddReference DEF TypeOK, Live
<1>3. Cardinality(Live) \in Nat \ {0} /\ StaticCount \in Int /\ StaticCount < -1
  BY <1>1, HolderFacts
<1>4. CASE ~IsCountSynchronized(cell.count)
  <2>1. Store(t, loaded[t] + 1)
    BY <1>1, <1>3, <1>4, CountFacts DEF FinishClone, IsStatic
  <2> DEFINE c == loaded[t] + 1
  <2>2. c = Cardinality(Live') - 1 /\ c = Cardinality(Live)
    BY <1>1, <1>2, <1>3, <1>4, CountFacts
  <2>3. c \in Words /\ ~IsStatic(c) /\ ~(c < 0)
    BY <2>2, <1>2, <1>3 DEF Words, IsStatic
  <2>4. \A r \in Live' : owner'[r] = t
    BY <1>1, <1>2, <1>4, HolderFacts, HoldsLive
  <2>5. Store(t, c)
    BY <2>1
  <2> HIDE DEF c
  <2> QED
    BY <1>1, <1>2, <1>4, <2>2, <2>3, <2>4, <2>5, StorePreserves
<1>5. CASE IsCountSynchronized(cell.count) /\ Counted
  <2>1. FetchAdd(t, -1, {})
    BY <1>1, <1>5 DEF FinishClone
  <2>2. cell.count + -1 = -Cardinality(Live')
    BY <1>1, <1>2, <1>3, <1>5, CountFacts
  <2>3. -1 \in Int /\ {} \in SUBSET Threads
        /\ Cardinality(Live') \in Nat \ {0} /\ Cardinality(Live') < -StaticCount
    BY <1>2, <1>3
  <2> QED
    BY <1>1, <1>2, <1>5, <2>1, <2>2, <2>3, ReadModifyWritePreserves
<1>6. CASE ~Counted
  <2>1. KeepCount
    BY <1>1, <1>6, CountFacts DEF FinishClone
  <2> QED
    BY <1>1, <1>2, <1>6, <2>1, StaticPreserves
<1> QED
  BY <1>4, <1>5, <1>6

(* The end of a block: its last reference is gone, and the thread that     *)
(* dropped it knows, or is about to know, what everybody did to it.        *)
LEMMA LastDropPreserves ==
    ASSUME Inductive, NEW t \in Threads, pc[t] = "drop", Holds(t), Counted,
           NEW step \in {"fence", "free"}, Goto(t, step, 0),
           cell' \in Writes, Counted', ~IsCountSynchronized(cell'.count),
           view' \in [Threads -> SUBSET Writes],
           owner' \in [Refs -> Threads \cup {None}], Live' = {},
           known' = known, fresh' = fresh, freed' = freed,
           \A u \in Threads : Holds(u) => u = t,
           step = "fence" => known[t] \cup cell'.released = Threads,
           step = "free" => known[t] = Threads
    PROVE  Inductive'
<1> USE DEF Inductive
<1>1. /\ pc' = [pc EXCEPT ![t] = step] /\ loaded' = [loaded EXCEPT ![t] = 0]
      /\ pc' \in [Threads -> Operations] /\ loaded' \in [Threads -> Words]
  BY ZeroIsAWord DEF Goto, TypeOK, Operations
<1>2. pc'[t] = step /\ \A u \in Threads \ {t} : pc'[u] = "idle"
  <2>1. \A u \in Threads \ {t} : pc[u] = "idle"
    BY HolderFacts DEF OperatingThreadsHold, TypeOK, Operations
  <2> QED
    BY <1>1, <2>1 DEF TypeOK
<1>3. ~freed /\ \A u \in Threads : ~Holds(u)'
  BY HolderFacts, ArcBlockAssumption DEF Live, Holds
<1>4. TypeOK'
  BY <1>1 DEF TypeOK, Writes, Words, Operations
<1>5. CountMatchesReferences' /\ NoUseAfterFree' /\ FreedByTheLastDropper'
      /\ WritesAreExclusive' /\ HoldersSeeLastWrite' /\ UnsynchronizedIsLocal'
      /\ LastDropperIsAlone' /\ MutatorIsAlone' /\ AccessesAreAccountedFor'
      /\ StaticIsReady' /\ KnowsItself'
  BY <1>2, <1>3 DEF CountMatchesReferences, NoUseAfterFree,
        FreedByTheLastDropper, WritesAreExclusive, HoldersSeeLastWrite,
        UnsynchronizedIsLocal, LastDropperIsAlone, MutatorIsAlone,
        AccessesAreAccountedFor, StaticIsReady, KnowsItself
<1>6. LoadedCountsHold' /\ OperatingThreadsHold' /\ ViewsAgree'
  BY <1>2, <1>3 DEF LoadedCountsHold, OperatingThreadsHold, ViewsAgree
<1> QED
  BY <1>4, <1>5, <1>6

(* The second half of drop, a store or a fetch_sub by the sign of the count
   loaded in the first, keeps the invariant and finds out who is last. *)
LEMMA FinishDropPreserves ==
    ASSUME Inductive, NEW t \in Threads, NEW r \in Refs, FinishDrop(t, r)
    PROVE  Inductive'
<1> USE DEF Inductive
<1>1. /\ pc[t] = "drop" /\ Holds(t) /\ owner[r] = t
      /\ owner' = [owner EXCEPT ![r] = None]
      /\ known' = known /\ fresh' = fresh /\ freed' = freed
      /\ IsCountSynchronized(loaded[t]) <=> IsCountSynchronized(cell.count)
      /\ IsStatic(loaded[t]) <=> ~Counted
      /\ ~IsCountSynchronized(cell.count) => loaded[t] = cell.count
  BY DEF FinishDrop, OperatingThreadsHold, LoadedCountsHold, Counted
<1>2. /\ Live' = Live \ {r} /\ r \in Live
      /\ Cardinality(Live') = Cardinality(Live) - 1
      /\ \A u \in Threads : Holds(u)' => Holds(u)
      /\ \A u \in Threads \ {t} : Holds(u)' <=> Holds(u)
      /\ owner' \in [Refs -> Threads \cup {None}]
      /\ \A s \in Live' : owner'[s] = owner[s]
  BY <1>1, RemoveReference DEF TypeOK, Live
<1>3. /\ Cardinality(Live) \in Nat \ {0} /\ Cardinality(Live) < -StaticCount
      /\ StaticCount \in Int /\ StaticCount < -1
  BY <1>1, HolderFacts, LiveSize
<1>4. Cardinality(Live) = 1 => Live' = {} /\ \A u \in Threads : Holds(u) => u = t
  <2> SUFFICES ASSUME Cardinality(Live) = 1
               PROVE  Live' = {} /\ \A u \in Threads : Holds(u) => u = t
    OBVIOUS
  <2>1. Live = {r}
    BY <1>2, LiveSize
  <2> QED
    BY <1>1, <1>2, <2>1, HoldsLive
<1>5. Cardinality(Live) # 1 => Live' # {}
  <2> SUFFICES ASSUME Live' = {}
               PROVE  Cardinality(Live) = 1
    OBVIOUS
  <2>1. Live = {r}
    BY <1>2
  <2> QED
    BY <1>2, <2>1, LiveSize
<1>6. CASE ~IsCountSynchronized(cell.count) /\ cell.count = UniqueCount
  <2>1. KeepCount /\ Goto(t, "free", 0)
    BY <1>1, <1>3, <1>6 DEF FinishDrop, IsStatic, UniqueCount
  <2>2. Counted /\ Cardinality(Live) = 1 /\ known[t] = Threads
    BY <1>1, <1>3, <1>6, CountFacts, HolderFacts DEF UniqueCount
  <2>3. /\ cell' = cell
        /\ view' \in [Threads -> SUBSET Writes]
    BY <2>1 DEF KeepCount, TypeOK
  <2>4. cell' \in Writes /\ Counted' /\ ~IsCountSynchronized(cell'.count)
    BY <1>6, <2>2, <2>3 DEF TypeOK, Counted
  <2> QED
    BY <1>1, <1>2, <1>4, <2>1, <2>2, <2>3, <2>4, LastDropPreserves
<1>7. CASE ~IsCountSynchronized(cell.count) /\ cell.count # UniqueCount
  <2> DEFINE c == loaded[t] - 1
  <2>1. Store(t, c) /\ Done(t)
    BY <1>1, <1>3, <1>7, CountFacts DEF FinishDrop, IsStatic, UniqueCount
  <2>2. c = Cardinality(Live') - 1 /\ Cardinality(Live) # 1
    BY <1>1, <1>2, <1>3, <1>7, CountFacts DEF UniqueCount
  <2>3. c \in Words /\ ~IsStatic(c) /\ ~(c < 0)
    BY <2>2, <1>2, <1>3 DEF Words, IsStatic
  <2>4. \A s \in Live' : owner'[s] = t
    BY <1>1, <1>2, <1>7, HolderFacts, HoldsLive
  <2> HIDE DEF c
  <2> QED
    BY <1>1, <1>2, <1>5, <1>7, <2>1, <2>2, <2>3, <2>4, StorePreserves
<1>8. CASE IsCountSynchronized(cell.count) /\ Counted
  <2>1. /\ FetchAdd(t, 1, known[t])
        /\ IF IsLastReference(t) THEN Goto(t, "fence", 0) ELSE Done(t)
    BY <1>1, <1>8 DEF FinishDrop
  <2>2. cell.count + 1 = -Cardinality(Live') /\ cell.count \in Int
        /\ cell.count = -Cardinality(Live)
    BY <1>1, <1>2, <1>3, <1>8, CountFacts
  <2>3. known[t] \in SUBSET Threads /\ cell.released \in SUBSET Threads
    BY DEF TypeOK, Writes
  <2>4. CASE Cardinality(Live) = 1
    <3>1. Goto(t, "fence", 0)
      BY <2>1, <2>2, <2>4 DEF IsLastReference, SynchronizedUniqueCount
    <3> DEFINE w == [count |-> 0, released |-> cell.released \cup known[t]]
    <3>2. w \in Writes
      BY <2>3, ZeroIsAWord DEF Writes
    <3>3. Write(t, w) /\ cell' = w
      BY <2>1, <2>2, <2>4, <1>2 DEF FetchAdd, Write
    <3>4. view' \in [Threads -> SUBSET Writes]
      BY <3>2, <3>3 DEF Write, TypeOK
    <3>5. Counted' /\ ~IsCountSynchronized(cell'.count)
      BY <3>3, <1>3 DEF Counted, IsStatic, IsCountSynchronized
    <3>6. known[t] \cup cell'.released = Threads
      <4>1. ASSUME NEW u \in Threads
            PROVE  u \in known[t] \cup cell.released
        <5>1. \/ Holds(u)
              \/ u \in cell.released
              \/ \E v \in Threads : Holds(v) /\ u \in known[v]
          BY <1>1, <1>8, HolderFacts DEF AccessesAreAccountedFor
        <5> QED
          BY <5>1, <1>4, <2>4 DEF KnowsItself
      <4> QED
        BY <3>3, <4>1, <2>3
    <3> HIDE DEF w
    <3>7. cell' \in Writes
      BY <3>2, <3>3
    <3> QED
      BY <1>1, <1>2, <1>4, <1>8, <2>4, <3>1, <3>4, <3>5, <3>6, <3>7, LastDropPreserves
  <2>5. CASE Cardinality(Live) # 1
    <3>1. Done(t)
      BY <2>1, <2>2, <2>5, <1>3 DEF IsLastReference, SynchronizedUniqueCount
    <3>2. Cardinality(Live') \in Nat \ {0} /\ Cardinality(Live') < -StaticCount
      BY <1>2, <1>3, <2>5
    <3>3. \A s \in Live' : (s \in Live /\ owner'[s] = owner[s]) \/ owner'[s] = t
      BY <1>2
    <3>4. 1 \in Int
      OBVIOUS
    <3> QED
      BY <1>1, <1>2, <1>5, <1>8, <2>1, <2>2, <2>3, <2>5, <3>1, <3>2, <3>3, <3>4,
         ReadModifyWritePreserves
  <2> QED
    BY <2>4, <2>5
<1>9. CASE ~Counted
  <2>1. KeepCount /\ Done(t)
    BY <1>1, <1>9, CountFacts DEF FinishDrop
  <2> QED
    BY <1>1, <1>2, <1>9, <2>1, StaticPreserves
<1> QED
  BY <1>6, <1>7, <1>8, <1>9

----------------------------------------------------------------------------

(* Every operation of every thread preserves the invariant.                *)
LEMMA NextInductive ==
    ASSUME Inductive, [Next]_vars
    PROVE  Inductive'
<1>1. CASE UNCHANGED vars
  <2> USE <1>1 DEF vars
  <2>1. TypeOK' /\ CountMatchesReferences' /\ NoUseAfterFree'
        /\ FreedByTheLastDropper' /\ WritesAreExclusive' /\ HoldersSeeLastWrite'
    BY DEF Inductive, TypeOK, CountMatchesReferences, NoUseAfterFree,
           FreedByTheLastDropper, WritesAreExclusive, HoldersSeeLastWrite,
           Live, Counted, Writes, Words, Operations
  <2>2. UnsynchronizedIsLocal' /\ LoadedCountsHold' /\ OperatingThreadsHold'
        /\ ViewsAgree' /\ LastDropperIsAlone' /\ AccessesAreAccountedFor'
        /\ KnowsItself' /\ StaticIsReady' /\ MutatorIsAlone'
    BY DEF Inductive, UnsynchronizedIsLocal, LoadedCountsHold, OperatingThreadsHold,
           ViewsAgree, LastDropperIsAlone, AccessesAreAccountedFor, KnowsItself,
           StaticIsReady, MutatorIsAlone, Live, Counted, Holds
  <2> QED
    BY <2>1, <2>2 DEF Inductive
<1>2. ASSUME NEW t \in Threads, ThreadStep(t)
      PROVE  Inductive'
  <2>1. CASE BeginClone(t) \/ BeginDrop(t) \/ BeginSynchronize(t)
    BY <2>1, BeginPreserves DEF BeginClone, BeginDrop, BeginSynchronize
  <2>2. CASE \E s \in Refs : FinishClone(t, s)
    BY <2>2, FinishClonePreserves
  <2>3. CASE \E s \in Refs : ReferToStatic(t, s)
    BY <2>3, ReferToStaticPreserves
  <2>4. CASE \E r \in Refs : FinishDrop(t, r)
    BY <2>4, FinishDropPreserves
  <2>5. CASE AcquireFence(t)
    BY <2>5, AcquireFencePreserves
  <2>6. CASE DropInner(t)
    BY <2>6, DropInnerPreserves
  <2>7. CASE FinishSynchronize(t)
    BY <2>7, FinishSynchronizePreserves
  <2>8. CASE IsUnique(t)
    BY <2>8, IsUniquePreserves
  <2>9. CASE Mutate(t)
    BY <2>9, MutatePreserves
  <2>10. CASE Read(t)
    BY <2>10, ReadPreserves
  <2>11. CASE \E u \in Threads, r \in Refs : Send(t, u, r)
    BY <2>11, SendPreserves
  <2>12. CASE \E u \in Threads : HandOver(t, u)
    BY <2>12, HandOverPreserves
  <2> QED
    BY <1>2, <2>1, <2>2, <2>3, <2>4, <2>5, <2>6, <2>7, <2>8, <2>9, <2>10,
       <2>11, <2>12 DEF ThreadStep
<1> QED
  BY <1>1, <1>2 DEF Next

(* The invariant that all the others follow from holds for any number of   *)
(* threads and references, and any width of the count that the references  *)
(* fit (the operations of arc_block.rs and pointer.rs).                    *)
THEOREM InductiveInvariant == Spec => []Inductive
<1>1. Init => Inductive
  BY InitInductive
<1>2. Inductive /\ [Next]_vars => Inductive'
  BY NextInductive
<1> QED
  BY <1>1, <1>2, PTL DEF Spec

(* No count overflows its word, and every variable has its type.           *)
THEOREM TypeCorrect == Spec => []TypeOK
<1>1. Inductive => TypeOK
  BY DEF Inductive
<1> QED
  BY <1>1, InductiveInvariant, PTL

(* The count is right at every moment.                                     *)
THEOREM CountsAreExact == Spec => []CountMatchesReferences
<1>1. Inductive => CountMatchesReferences
  BY DEF Inductive
<1> QED
  BY <1>1, InductiveInvariant, PTL

(* A block is deallocated once, by the thread that drops the last          *)
(* reference, and nobody touches it afterwards.                            *)
THEOREM MemorySafe == Spec => [](NoUseAfterFree /\ FreedByTheLastDropper)
<1>1. Inductive => NoUseAfterFree /\ FreedByTheLastDropper
  BY DEF Inductive
<1> QED
  BY <1>1, InductiveInvariant, PTL

(* A payload is written in place or dropped only by a thread that nobody   *)
(* races with: the relaxed loads and the fences are enough.                *)
THEOREM DataRaceFree == Spec => [](WritesAreExclusive /\ HoldersSeeLastWrite)
<1>1. Inductive => WritesAreExclusive /\ HoldersSeeLastWrite
  BY DEF Inductive
<1> QED
  BY <1>1, InductiveInvariant, PTL

(* The comment above is_synchronized in pointer.rs: every load of a count  *)
(* can be relaxed.                                                         *)
THEOREM RelaxedIsEnough == Spec => [](RelaxedLoadsSuffice /\ UnsynchronizedIsLocal)
<1>1. Inductive => RelaxedLoadsSuffice
  <2> SUFFICES ASSUME Inductive, NEW r \in Live, NEW w \in view[owner[r]]
               PROVE  /\ IsCountSynchronized(w.count) <=> IsCountSynchronized(cell.count)
                      /\ w.count = SynchronizedUniqueCount => w.count = cell.count
    BY DEF RelaxedLoadsSuffice
  <2> QED
    BY HoldsLive DEF Inductive, ViewsAgree
<1>2. Inductive => UnsynchronizedIsLocal
  BY DEF Inductive
<1> QED
  BY <1>1, <1>2, InductiveInvariant, PTL

(* A step never takes a block back from synchronized to unsynchronized     *)
(* while there are references to it.                                       *)
THEOREM StaysSynchronized == Spec => NeverUnsynchronized
<1>1. ASSUME Inductive, Inductive', [Next]_vars
      PROVE  [IsCountSynchronized(cell.count) /\ Live' # {} =>
                  IsCountSynchronized(cell'.count)]_vars
  <2> SUFFICES ASSUME NEW t \in Threads, ThreadStep(t),
                      IsCountSynchronized(cell.count), Live' # {}
               PROVE  IsCountSynchronized(cell'.count)
    BY <1>1 DEF Next
  <2> USE DEF Inductive
  <2>1. CASE \/ BeginClone(t) \/ BeginDrop(t) \/ BeginSynchronize(t)
             \/ (\E s \in Refs : ReferToStatic(t, s)) \/ AcquireFence(t) \/ IsUnique(t)
             \/ (\E u \in Threads, r \in Refs : Send(t, u, r))
             \/ (\E u \in Threads : HandOver(t, u))
    BY <2>1 DEF BeginClone, BeginDrop, BeginSynchronize, Begin, ReferToStatic,
           AcquireFence, IsUnique, Send, HandOver, Learn
  <2>2. CASE DropInner(t) \/ Mutate(t) \/ Read(t)
    BY <1>1, <2>2, AccessFacts DEF DropInner, Mutate, Read
  <2>3. CASE FinishSynchronize(t)
    BY <1>1, <2>3 DEF FinishSynchronize, LoadedCountsHold, KeepCount
  <2>4. CASE \E s \in Refs : FinishClone(t, s)
    <3> PICK s \in Refs : FinishClone(t, s)
      BY <2>4
    <3>1. IsCountSynchronized(loaded[t])
      BY <1>1 DEF FinishClone, LoadedCountsHold
    <3>2. cell.count \in Int
      BY <1>1, ArcBlockAssumption DEF TypeOK, Writes, Words
    <3> QED
      BY <3>1, <3>2 DEF FinishClone, FetchAdd, Write, KeepCount, IsCountSynchronized
  <2>5. CASE \E r \in Refs : FinishDrop(t, r)
    <3> PICK r \in Refs : FinishDrop(t, r)
      BY <2>5
    <3>1. /\ IsCountSynchronized(loaded[t])
          /\ pc[t] = "drop" /\ Holds(t)
          /\ IsStatic(loaded[t]) <=> ~Counted
      BY <1>1 DEF FinishDrop, LoadedCountsHold, OperatingThreadsHold, Counted
    <3>2. CASE ~Counted
      BY <3>1, <3>2 DEF FinishDrop, KeepCount
    <3>3. CASE Counted
      <4>1. cell'.count = cell.count + 1 /\ cell.count = -Cardinality(Live)
            /\ Cardinality(Live) \in Nat
        BY <1>1, <3>1, <3>3, CountFacts, LiveSize DEF FinishDrop, FetchAdd, Write
      <4>2. r \in Live /\ Live' = Live \ {r}
        BY <1>1, RemoveReference DEF FinishDrop
      <4>3. Cardinality(Live) # 1 /\ Cardinality(Live) # 0
        BY <1>1, <4>2, LiveSize
      <4> QED
        BY <4>1, <4>3 DEF IsCountSynchronized
    <3> QED
      BY <3>2, <3>3
  <2> QED
    BY <2>1, <2>2, <2>3, <2>4, <2>5 DEF ThreadStep
<1> QED
  BY <1>1, InductiveInvariant, PTL DEF Spec, NeverUnsynchronized

----------------------------------------------------------------------------

(* No count of references is taken for the mark of a block in static       *)
(* memory, nor the other way around, whatever clone, drop and synchronize  *)
(* write.                                                                  *)
LEMMA CountedIsKept ==
    ASSUME Inductive, NEW t \in Threads, ThreadStep(t)
    PROVE  Counted' = Counted
<1> USE DEF Inductive
<1>1. CASE \/ BeginClone(t) \/ BeginDrop(t) \/ BeginSynchronize(t)
           \/ (\E s \in Refs : ReferToStatic(t, s)) \/ AcquireFence(t) \/ IsUnique(t)
           \/ (\E u \in Threads, r \in Refs : Send(t, u, r))
           \/ (\E u \in Threads : HandOver(t, u))
  <2>1. cell' = cell
    BY <1>1 DEF BeginClone, BeginDrop, BeginSynchronize, Begin, ReferToStatic,
       AcquireFence, IsUnique, Send, HandOver, Learn
  <2> QED
    BY <2>1 DEF Counted
<1>2. CASE DropInner(t) \/ Mutate(t) \/ Read(t)
  BY <1>2, AccessFacts DEF DropInner, Mutate, Read, Counted
<1>3. CASE FinishSynchronize(t)
  <2>1. /\ pc[t] = "synchronize" /\ Holds(t)
        /\ IsCountSynchronized(loaded[t]) <=> IsCountSynchronized(cell.count)
        /\ ~IsCountSynchronized(cell.count) => loaded[t] = cell.count
    BY <1>3 DEF FinishSynchronize, OperatingThreadsHold, LoadedCountsHold
  <2>2. CASE IsCountSynchronized(cell.count)
    BY <1>3, <2>1, <2>2 DEF FinishSynchronize, KeepCount, Counted
  <2>3. CASE ~IsCountSynchronized(cell.count)
    <3>1. /\ Counted
          /\ cell'.count = -Cardinality(Live)
      BY <1>3, <2>1, <2>3, CountFacts, HolderFacts DEF FinishSynchronize, Store,
         Write, SynchronizedCount, SynchronizedUniqueCount
    <3> QED
      BY <3>1, LiveSize, ArcBlockAssumption DEF Counted, IsStatic
  <2> QED
    BY <2>2, <2>3
<1>4. ASSUME NEW s \in Refs, FinishClone(t, s)
      PROVE  Counted' = Counted
  <2>1. /\ pc[t] = "clone" /\ Holds(t)
        /\ IsCountSynchronized(loaded[t]) <=> IsCountSynchronized(cell.count)
        /\ IsStatic(loaded[t]) <=> ~Counted
        /\ ~IsCountSynchronized(cell.count) => loaded[t] = cell.count
    BY <1>4 DEF FinishClone, OperatingThreadsHold, LoadedCountsHold, Counted
  <2>2. CASE ~Counted
    BY <1>4, <2>1, <2>2, CountFacts DEF FinishClone, KeepCount, Counted
  <2>3. CASE Counted
    <3>1. /\ Cardinality(Live) \in Nat \ {0}
          /\ Cardinality(Live) + 1 < -StaticCount
      BY <1>4, <2>1, HolderFacts, AddReference DEF FinishClone
    <3>2. cell'.count = cell.count + 1 \/ cell'.count = cell.count - 1
      BY <1>4, <2>1, <2>3, CountFacts DEF FinishClone, Store, FetchAdd, Write
    <3>3. /\ cell.count \in Int
          /\ cell.count >= 0 \/ cell.count = -Cardinality(Live)
      BY <2>1, <2>3, CountFacts
    <3> QED
      BY <2>3, <3>1, <3>2, <3>3, ArcBlockAssumption DEF Counted, IsStatic
  <2> QED
    BY <2>2, <2>3
<1>5. ASSUME NEW r \in Refs, FinishDrop(t, r)
      PROVE  Counted' = Counted
  <2>1. /\ pc[t] = "drop" /\ Holds(t)
        /\ IsCountSynchronized(loaded[t]) <=> IsCountSynchronized(cell.count)
        /\ IsStatic(loaded[t]) <=> ~Counted
        /\ ~IsCountSynchronized(cell.count) => loaded[t] = cell.count
    BY <1>5 DEF FinishDrop, OperatingThreadsHold, LoadedCountsHold, Counted
  <2>2. CASE ~Counted
    BY <1>5, <2>1, <2>2, CountFacts DEF FinishDrop, KeepCount, Counted
  <2>3. CASE Counted
    <3>1. /\ Cardinality(Live) \in Nat \ {0}
          /\ Cardinality(Live) < -StaticCount
          /\ StaticCount \in Int /\ StaticCount < -1
      BY <2>1, HolderFacts, LiveSize
    <3>2. cell'.count \in {cell.count, cell.count + 1, cell.count - 1}
          /\ (cell.count < 0 => cell'.count = cell.count + 1)
      BY <1>5, <2>1, <2>3, CountFacts DEF FinishDrop, Store, FetchAdd, Write, KeepCount
    <3>3. /\ cell.count \in Int
          /\ cell.count >= 0 \/ cell.count = -Cardinality(Live)
      BY <2>1, <2>3, CountFacts
    <3> QED
      BY <2>3, <3>1, <3>2, <3>3 DEF Counted, IsStatic
  <2> QED
    BY <2>2, <2>3
<1> QED
  BY <1>1, <1>2, <1>3, <1>4, <1>5 DEF ThreadStep

(* Every step of a thread on a block is one that ownership allows, or does *)
(* not concern it.                                                         *)
LEMMA ThreadStepIsOwnership ==
    ASSUME Inductive, NEW t \in Threads, ThreadStep(t)
    PROVE  [Ownership!OwnershipNext]_(Ownership!ownershipVars)
<1> USE DEF Inductive
<1>0. Counted' = Counted
  BY CountedIsKept
<1>1. CASE \/ BeginClone(t) \/ BeginDrop(t) \/ BeginSynchronize(t)
           \/ AcquireFence(t) \/ FinishSynchronize(t) \/ IsUnique(t)
           \/ Mutate(t) \/ Read(t)
  <2>1. owner' = owner /\ freed' = freed
    BY <1>1 DEF BeginClone, BeginDrop, BeginSynchronize, Begin, AcquireFence,
       FinishSynchronize, IsUnique, Mutate, Read
  <2> QED
    BY <1>0, <2>1 DEF Ownership!ownershipVars
<1>2. ASSUME NEW s \in Refs, FinishClone(t, s)
      PROVE  Ownership!Share(t, s)
  <2>1. Holds(t) /\ ~freed
    BY <1>2, HolderFacts DEF FinishClone, OperatingThreadsHold
  <2> QED
    BY <1>0, <1>2, <2>1, HoldsLive
       DEF FinishClone, Live, Ownership!Share, Ownership!Held
<1>3. ASSUME NEW s \in Refs, ReferToStatic(t, s)
      PROVE  Ownership!Share(t, s)
  <2>1. ~Counted /\ ~freed
    BY <1>3 DEF ReferToStatic, Counted, NoUseAfterFree
  <2> QED
    BY <1>0, <1>3, <2>1 DEF ReferToStatic, Ownership!Share
<1>4. ASSUME NEW r \in Refs, FinishDrop(t, r)
      PROVE  Ownership!Release(r)
  <2>1. ~freed /\ owner[r] # None
    BY <1>4, HolderFacts, ArcBlockAssumption DEF FinishDrop, OperatingThreadsHold
  <2> QED
    BY <1>0, <1>4, <2>1 DEF FinishDrop, Ownership!Release
<1>5. ASSUME DropInner(t)
      PROVE  Ownership!Destroy
  <2>1. Live = {} /\ Counted /\ ~freed
    BY <1>5 DEF DropInner, LastDropperIsAlone
  <2> QED
    BY <1>0, <1>5, <2>1 DEF DropInner, Live, Ownership!Destroy, Ownership!Held
<1>6. ASSUME NEW u \in Threads, NEW r \in Refs, Send(t, u, r)
      PROVE  Ownership!Give(t, u, {r})
  <2>1. Holds(t) /\ r \in Live /\ owner[r] = t /\ freed' = freed /\ ~freed
    BY <1>6, HolderFacts, ArcBlockAssumption DEF Send, Learn, Holds, Live
  <2>2. owner' = [s \in Refs |-> IF s \in {r} THEN u ELSE owner[s]]
    BY <1>6 DEF Send, TypeOK
  <2> QED
    BY <1>0, <2>1, <2>2 DEF Live, Ownership!Give, Ownership!Held
<1>7. ASSUME NEW u \in Threads, HandOver(t, u)
      PROVE  Ownership!Give(t, u, {r \in Refs : owner[r] = t})
  <2> DEFINE R == {r \in Refs : owner[r] = t}
  <2>1. Holds(t) /\ freed' = freed /\ ~freed
    BY <1>7, HolderFacts DEF HandOver, Learn
  <2>2. owner' = [s \in Refs |-> IF s \in R THEN u ELSE owner[s]]
    BY <1>7 DEF HandOver
  <2>3. R \subseteq {r \in Ownership!Held : owner[r] = t}
    BY ArcBlockAssumption DEF Ownership!Held
  <2> QED
    BY <1>0, <2>1, <2>2, <2>3 DEF Ownership!Give
<1>8. \A u \in Threads, R \in SUBSET Refs :
          Ownership!Give(t, u, R) => Ownership!OwnershipNext
  BY DEF Ownership!OwnershipNext
<1>9. CASE \/ \E u \in Threads, r \in Refs : Send(t, u, r)
           \/ \E u \in Threads : HandOver(t, u)
  BY <1>6, <1>7, <1>8, <1>9
<1> QED
  BY <1>1, <1>2, <1>3, <1>4, <1>5, <1>9 DEF ThreadStep, Ownership!OwnershipNext

(* The safety half of ImplementsOwnership: a block is destroyed only when  *)
(* nobody holds a reference to it, once, and only holders share it, for    *)
(* any number of threads and references and any width of the count.        *)
THEOREM BlockIsOwned ==
    Spec => Ownership!OwnershipInit /\ [][Ownership!OwnershipNext]_(Ownership!ownershipVars)
<1>1. Init => Ownership!OwnershipInit
  <2> SUFFICES ASSUME Init PROVE Ownership!OwnershipInit
    OBVIOUS
  <2> QED
    BY DEF Init, NewBlock, Ownership!OwnershipInit
<1>2. Inductive /\ [Next]_vars => [Ownership!OwnershipNext]_(Ownership!ownershipVars)
  <2>1. UNCHANGED vars => UNCHANGED Ownership!ownershipVars
    BY DEF vars, Counted, Ownership!ownershipVars
  <2> QED
    BY <2>1, ThreadStepIsOwnership DEF Next
<1> QED
  BY <1>1, <1>2, InductiveInvariant, PTL DEF Spec

=============================================================================
