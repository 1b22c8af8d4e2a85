------------------------------ MODULE ArcBlock ------------------------------
(***************************************************************************)
(* One reference-counted memory block and the threads that hold references *)
(* to it: lib/ffi/src/arc/arc_block.rs, and the code the compiler emits    *)
(* for the same blocks, lib/mir-fmm/src/reference_count/pointer.rs.        *)
(*                                                                         *)
(* The count of a block is a signed word with three encodings:             *)
(*   n - 1        n references, all of them held by one thread, and the    *)
(*                count is updated by plain loads and stores;              *)
(*   -n           n references, held by any threads, and the count is      *)
(*                updated by atomic read-modify-writes;                    *)
(*   StaticCount  a block in static memory, which is never counted.        *)
(*                                                                         *)
(* Every operation starts with a relaxed load of the count and finishes    *)
(* with a store or a read-modify-write in a later step.  A relaxed load    *)
(* may return an old value: view[t] is the set of the writes that a load   *)
(* by t may return, empty while t has no reference to load through.        *)
(* known[t] is the set of the threads whose accesses to  *)
(* the payload happen before whatever t does next, and a write of the      *)
(* count carries in "released" what an acquire fence after a load of it    *)
(* adds to known[t].                                                       *)
(*                                                                         *)
(* A thread here is a task of the program.  Blocks without a payload are   *)
(* null pointers (ArcBlock::new with a zero size), and every operation     *)
(* returns early for them, so they have no state to model.                 *)
(***************************************************************************)
EXTENDS Integers, FiniteSets

CONSTANTS Threads,      \* the tasks of a program
          Refs,         \* names for references: at most this many at a time
          None,         \* the owner of a name that is not in use
          StaticCount   \* 1 << (isize::BITS - 1)

(* A reference occupies a word of memory, so there are fewer of them than  *)
(* the word has negative values.                                           *)
ASSUME ArcBlockAssumption ==
    /\ IsFiniteSet(Threads)
    /\ IsFiniteSet(Refs)
    /\ None \notin Threads
    /\ StaticCount \in Int
    /\ Cardinality(Refs) < -StaticCount

VARIABLES
    cell,     \* the last write to the count: its value and what it releases
    view,     \* view[t]: the writes to the count a relaxed load by t can return
    owner,    \* owner[r]: the thread that holds r, or None
    pc,       \* pc[t]: the operation t is in the middle of
    loaded,   \* loaded[t]: the count that operation has loaded
    known,    \* known[t]: threads whose payload accesses happen before t's next step
    fresh,    \* threads for which the last write to the payload happened before
    freed     \* whether the block has been deallocated

vars == <<cell, view, owner, pc, loaded, known, fresh, freed>>

UniqueCount == 0
SynchronizedUniqueCount == -1

IsCountSynchronized(c) == c < 0

IsStatic(c) == c = StaticCount

(* The comparison of is_unique.                                            *)
IsUniqueCount(c) ==
    c = IF IsCountSynchronized(c) THEN SynchronizedUniqueCount ELSE UniqueCount

(* The count of a block for as many references, synchronized.              *)
MutantSynchronizedCount(c) == UniqueCount - c
SynchronizedCount(c) == SynchronizedUniqueCount - c

(* The values of a machine word, in which no count may overflow.           *)
Words == StaticCount .. -StaticCount - 1

Operations == {"idle", "clone", "drop", "synchronize", "mutate", "fence", "free"}

Writes == [count : Words, released : SUBSET Threads]

Live == {r \in Refs : owner[r] # None}

Holds(t) == \E r \in Refs : owner[r] = t

TypeOK ==
    /\ cell \in Writes
    /\ view \in [Threads -> SUBSET Writes]
    /\ owner \in [Refs -> Threads \cup {None}]
    /\ pc \in [Threads -> Operations]
    /\ loaded \in [Threads -> Words]
    /\ known \in [Threads -> SUBSET Threads]
    /\ fresh \in SUBSET Threads
    /\ freed \in BOOLEAN

----------------------------------------------------------------------------

(* A block is born with one reference, on the heap by ArcBlock::new or     *)
(* heap::allocate, or in static memory by block::compile_static.           *)
NewBlock(c) ==
    /\ cell = [count |-> c, released |-> {}]
    /\ \E t \in Threads, r \in Refs :
          /\ owner = [s \in Refs |-> IF s = r THEN t ELSE None]
          /\ view = [u \in Threads |-> IF u = t THEN {cell} ELSE {}]
          /\ fresh = IF IsStatic(c) THEN Threads ELSE {t}
    /\ pc = [t \in Threads |-> "idle"]
    /\ loaded = [t \in Threads |-> 0]
    /\ known = [t \in Threads |-> Threads]
    /\ freed = FALSE

Init == NewBlock(UniqueCount) \/ NewBlock(StaticCount)

(* The effect of a write w to the count by t: t has seen it, and a relaxed *)
(* load by any other thread may or may not return it.  The step also says  *)
(* who holds references after it.                                          *)
Write(t, w) ==
    /\ cell' = w
    /\ view' = [u \in Threads |-> IF ~Holds(u)' THEN {}
                                  ELSE IF u = t THEN {w} ELSE view[u] \cup {w}]

(* A relaxed store does not continue a release sequence; a read-modify-    *)
(* write does.                                                             *)
Store(t, c) == Write(t, [count |-> c, released |-> {}])

FetchAdd(t, c, releases) ==
    Write(t, [count    |-> cell.count + c,
              released |-> cell.released \cup releases])

KeepCount ==
    /\ cell' = cell
    /\ view' = [u \in Threads |-> IF Holds(u)' THEN view[u] ELSE {}]

Goto(t, operation, c) ==
    /\ pc' = [pc EXCEPT ![t] = operation]
    /\ loaded' = [loaded EXCEPT ![t] = c]

Done(t) == Goto(t, "idle", 0)

(* The relaxed load every operation on a reference starts with.            *)
Begin(t, operation) ==
    /\ pc[t] = "idle"
    /\ Holds(t)
    /\ \E w \in view[t] : Goto(t, operation, w.count)
    /\ UNCHANGED <<cell, view, owner, known, fresh, freed>>

BeginClone(t) == Begin(t, "clone")

FinishClone(t, s) ==
    /\ pc[t] = "clone"
    /\ owner[s] = None
    /\ owner' = [owner EXCEPT ![s] = t]
    /\ \/ /\ ~IsCountSynchronized(loaded[t])
          /\ Store(t, loaded[t] + 1)
       \/ /\ IsCountSynchronized(loaded[t])
          /\ ~IsStatic(loaded[t])
          /\ FetchAdd(t, -1, {})
       \/ /\ IsStatic(loaded[t])
          /\ KeepCount
    /\ Done(t)
    /\ UNCHANGED <<known, fresh, freed>>

(* Code that mentions a block in static memory has a reference to it.      *)
ReferToStatic(t, s) ==
    /\ pc[t] = "idle"
    /\ IsStatic(cell.count)
    /\ owner[s] = None
    /\ owner' = [owner EXCEPT ![s] = t]
    /\ view' = [view EXCEPT ![t] = {cell}]
    /\ UNCHANGED <<cell, pc, loaded, known, fresh, freed>>

BeginDrop(t) == Begin(t, "drop")

(* fetch_add returned the count of the last reference.                     *)
MutantIsLastByEarlierLoad(t) == loaded[t] = SynchronizedUniqueCount
IsLastReference(t) == cell.count = SynchronizedUniqueCount

(* The decrement of a synchronized count releases what t has done to the   *)
(* payload; only the thread that dropped the last reference goes on.       *)
FinishDrop(t, r) ==
    /\ pc[t] = "drop"
    /\ owner[r] = t
    /\ owner' = [owner EXCEPT ![r] = None]
    /\ \/ /\ ~IsCountSynchronized(loaded[t])
          /\ loaded[t] = UniqueCount
          /\ KeepCount
          /\ Goto(t, "free", 0)
       \/ /\ ~IsCountSynchronized(loaded[t])
          /\ loaded[t] # UniqueCount
          /\ Store(t, loaded[t] - 1)
          /\ Done(t)
       \/ /\ IsCountSynchronized(loaded[t])
          /\ ~IsStatic(loaded[t])
          /\ FetchAdd(t, 1, known[t])
          /\ IF IsLastReference(t)
             THEN Goto(t, "fence", 0)
             ELSE Done(t)
       \/ /\ IsStatic(loaded[t])
          /\ KeepCount
          /\ Done(t)
    /\ UNCHANGED <<known, fresh, freed>>

(* fence(Ordering::Acquire) in drop.                                       *)
MutantNoFence(t) ==
    /\ pc[t] = "fence"
    /\ Goto(t, "free", 0)
    /\ UNCHANGED <<cell, view, owner, known, fresh, freed>>

AcquireFence(t) ==
    /\ pc[t] = "fence"
    /\ known' = [known EXCEPT ![t] = @ \cup cell.released]
    /\ Goto(t, "free", 0)
    /\ UNCHANGED <<cell, view, owner, fresh, freed>>

(* An access to the payload by t is unordered with what other threads do   *)
(* next, until they learn of it.                                           *)
Unordered(w, t) == [w EXCEPT !.released = @ \ {t}]

Access(t) ==
    /\ known' = [u \in Threads |-> IF u = t THEN known[u] ELSE known[u] \ {t}]
    /\ cell' = Unordered(cell, t)
    /\ view' = [u \in Threads |-> {Unordered(w, t) : w \in view[u]}]

(* drop_inner: the content is dropped in place and the memory deallocated. *)
DropInner(t) ==
    /\ pc[t] = "free"
    /\ freed' = TRUE
    /\ Access(t)
    /\ fresh' = {t}
    /\ Done(t)
    /\ UNCHANGED owner

BeginSynchronize(t) == Begin(t, "synchronize")

FinishSynchronize(t) ==
    /\ pc[t] = "synchronize"
    /\ UNCHANGED owner
    /\ \/ /\ ~IsCountSynchronized(loaded[t])
          /\ Store(t, SynchronizedCount(loaded[t]))
       \/ /\ IsCountSynchronized(loaded[t])
          /\ KeepCount
    /\ Done(t)
    /\ UNCHANGED <<known, fresh, freed>>

(* is_unique: a relaxed load, and an acquire fence if the count is         *)
(* synchronized.  get_mut and the record update go on only if it is true.  *)
IsUnique(t) ==
    /\ pc[t] = "idle"
    /\ Holds(t)
    /\ \E w \in view[t] :
       /\ \/ /\ IsCountSynchronized(w.count)
             /\ known' = [known EXCEPT ![t] = @ \cup w.released]
          \/ /\ ~IsCountSynchronized(w.count)
             /\ UNCHANGED known
       /\ IF IsUniqueCount(w.count) THEN Goto(t, "mutate", 0) ELSE Done(t)
    /\ UNCHANGED <<cell, view, owner, fresh, freed>>

(* The write through the pointer that get_mut returned.                    *)
Mutate(t) ==
    /\ pc[t] = "mutate"
    /\ Access(t)
    /\ fresh' = {t}
    /\ Done(t)
    /\ UNCHANGED <<owner, freed>>

(* A read of the payload through a reference.                              *)
Read(t) ==
    /\ pc[t] = "idle"
    /\ Holds(t)
    /\ Access(t)
    /\ UNCHANGED <<owner, pc, loaded, fresh, freed>>

(* What t knows, u knows once it has received something from t, and a load *)
(* by u returns no write older than what t could see.                      *)
Learn(t, u) ==
    /\ known' = [known EXCEPT ![u] = @ \cup known[t]]
    /\ view' = [view EXCEPT ![u] = IF Holds(u) THEN @ \cap view[t] ELSE view[t],
                            ![t] = IF Holds(t)' THEN @ ELSE {}]
    /\ fresh' = IF t \in fresh THEN fresh \cup {u} ELSE fresh
    /\ UNCHANGED <<cell, pc, loaded, freed>>

(* Whether its owner has synchronized the block.                           *)
MutantMayShareAnything == TRUE
MayShare == IsCountSynchronized(cell.count)

(* A value that goes into a task: the closure passed to _pen_spawn is      *)
(* synchronized first, and the sender may keep other references.           *)
Send(t, u, r) ==
    /\ t # u
    /\ pc[t] = "idle"
    /\ pc[u] = "idle"
    /\ owner[r] = t
    /\ MayShare
    /\ owner' = [owner EXCEPT ![r] = u]
    /\ Learn(t, u)

(* The result of a task moves to the task that waits for it, synchronized  *)
(* or not; the task it comes from has ended and holds nothing.             *)
HandOver(t, u) ==
    /\ t # u
    /\ pc[t] = "idle"
    /\ pc[u] = "idle"
    /\ Holds(t)
    /\ owner' = [r \in Refs |-> IF owner[r] = t THEN u ELSE owner[r]]
    /\ Learn(t, u)

ThreadStep(t) ==
    \/ BeginClone(t)
    \/ \E s \in Refs : FinishClone(t, s)
    \/ \E s \in Refs : ReferToStatic(t, s)
    \/ BeginDrop(t)
    \/ \E r \in Refs : FinishDrop(t, r)
    \/ AcquireFence(t)
    \/ DropInner(t)
    \/ BeginSynchronize(t)
    \/ FinishSynchronize(t)
    \/ IsUnique(t)
    \/ Mutate(t)
    \/ Read(t)
    \/ \E u \in Threads, r \in Refs : Send(t, u, r)
    \/ \E u \in Threads : HandOver(t, u)

Next == \E t \in Threads : ThreadStep(t)

(* A thread that has begun to drop or to free a block is not suspended for *)
(* ever: neither operation waits for anything.                             *)
Fairness ==
    \A t \in Threads :
        WF_vars(AcquireFence(t) \/ DropInner(t))

Spec == Init /\ [][Next]_vars /\ Fairness

----------------------------------------------------------------------------

Counted == ~IsStatic(cell.count)

(* The count says how many references there are, in the encoding that its  *)
(* sign announces, whatever operations are under way (clone, drop and      *)
(* synchronize of arc_block.rs).                                           *)
CountMatchesReferences ==
    Counted /\ Live # {} =>
        IF IsCountSynchronized(cell.count)
        THEN cell.count = -Cardinality(Live)
        ELSE cell.count = Cardinality(Live) - 1

(* A deallocated block has no references and no operation on it goes on;   *)
(* a block in static memory is never deallocated (drop and drop_inner).    *)
NoUseAfterFree ==
    freed => Counted /\ Live = {} /\ \A t \in Threads : pc[t] = "idle"

(* Once the last reference is gone, somebody has freed the block or is     *)
(* about to, and only one thread is (fetch_add's old value in drop).       *)
FreedByTheLastDropper ==
    Live = {} /\ Counted /\ ~freed =>
        \E t \in Threads :
            /\ pc[t] \in {"fence", "free"}
            /\ \A u \in Threads \ {t} : pc[u] = "idle"

(* A thread that writes to the payload in place, or drops it, is the only  *)
(* one that can reach it, and every access another thread has ever made    *)
(* happened before: is_unique and the acquire fences.                      *)
WritesAreExclusive ==
    \A t \in Threads :
        /\ pc[t] = "mutate" =>
              known[t] = Threads /\ \E r \in Refs : Live = {r} /\ owner[r] = t
        /\ pc[t] = "free" => known[t] = Threads /\ Live = {}

(* Whoever holds a reference sees the last write to the payload.           *)
HoldersSeeLastWrite == \A r \in Live : owner[r] \in fresh

(* "Heap blocks are always synchronized by their owners before references  *)
(* are shared with other threads. So an ordering to load counts can always *)
(* be relaxed" (pointer.rs:186): whatever write a relaxed load by a holder *)
(* returns, it tells the right encoding, and "unique" only if it is true.  *)
RelaxedLoadsSuffice ==
    \A r \in Live : \A w \in view[owner[r]] :
        /\ IsCountSynchronized(w.count) <=> IsCountSynchronized(cell.count)
        /\ w.count = SynchronizedUniqueCount => w.count = cell.count

(* "blocks get never un-synchronized" (pointer.rs:165), and a block that   *)
(* is not synchronized is only ever reachable by one thread.               *)
NeverUnsynchronized ==
    [][IsCountSynchronized(cell.count) /\ Live' # {} =>
           IsCountSynchronized(cell'.count)]_vars

UnsynchronizedIsLocal ==
    ~IsCountSynchronized(cell.count) =>
        \A r, s \in Live : owner[r] = owner[s]

----------------------------------------------------------------------------

(* Why these hold: the parts of the inductive invariant that none of the   *)
(* properties above states.                                                *)

(* What an operation has loaded still tells which branch is the right one. *)
LoadedCountsHold ==
    \A t \in Threads : pc[t] \in {"clone", "drop", "synchronize"} =>
        /\ IsCountSynchronized(loaded[t]) <=> IsCountSynchronized(cell.count)
        /\ IsStatic(loaded[t]) <=> IsStatic(cell.count)
        /\ ~IsCountSynchronized(cell.count) => loaded[t] = cell.count

OperatingThreadsHold ==
    \A t \in Threads :
        pc[t] \in {"clone", "drop", "synchronize", "mutate"} => Holds(t)

ViewsAgree ==
    \A t \in Threads : Holds(t) =>
        /\ cell \in view[t]
        /\ \A w \in view[t] :
              /\ IsCountSynchronized(w.count) <=> IsCountSynchronized(cell.count)
              /\ IsStatic(w.count) <=> IsStatic(cell.count)
              /\ ~IsCountSynchronized(cell.count) => w = cell
              /\ w.count = SynchronizedUniqueCount => w = cell

(* A thread that has dropped the last reference is alone with the block.   *)
LastDropperIsAlone ==
    \A t \in Threads : pc[t] \in {"fence", "free"} =>
        /\ Live = {} /\ Counted /\ ~freed
        /\ \A u \in Threads \ {t} : pc[u] = "idle"
        /\ pc[t] = "fence" => known[t] \cup cell.released = Threads

(* Whatever a thread did to the payload, either it still holds a           *)
(* reference, or a holder knows of it, or an acquire of the count will     *)
(* tell.                                                                   *)
AccessesAreAccountedFor ==
    Counted /\ Live # {} =>
        \A u \in Threads :
            IF IsCountSynchronized(cell.count)
            THEN \/ Holds(u)
                 \/ u \in cell.released
                 \/ \E t \in Threads : Holds(t) /\ u \in known[t]
            ELSE \A t \in Threads : Holds(t) => u \in known[t]

KnowsItself == \A t \in Threads : t \in known[t]

(* A block in static memory was written before the program started.        *)
StaticIsReady == ~Counted => fresh = Threads

MutatorIsAlone ==
    \A t \in Threads : pc[t] = "mutate" => Counted /\ Cardinality(Live) = 1

Inductive ==
    /\ TypeOK
    /\ CountMatchesReferences
    /\ NoUseAfterFree
    /\ FreedByTheLastDropper
    /\ WritesAreExclusive
    /\ HoldersSeeLastWrite
    /\ UnsynchronizedIsLocal
    /\ LoadedCountsHold
    /\ OperatingThreadsHold
    /\ ViewsAgree
    /\ LastDropperIsAlone
    /\ AccessesAreAccountedFor
    /\ KnowsItself
    /\ StaticIsReady
    /\ MutatorIsAlone

----------------------------------------------------------------------------

(* What all this is for: see SharedOwnership.                              *)
Ownership == INSTANCE SharedOwnership WITH
    holder <- owner,
    static <- ~Counted,
    alive  <- ~freed

ImplementsOwnership == Ownership!Spec

=============================================================================
