----------------------------- MODULE SharedHeap -----------------------------
(***************************************************************************)
(* The heap of a compiled program: records that refer to each other, and   *)
(* the tasks whose variables refer to them.  The compiler emits the        *)
(* operations of lib/mir-fmm/src/expression.rs and of                      *)
(* lib/mir-fmm/src/reference_count for them.  ArcBlock shows that each     *)
(* operation on one block can be taken for atomic as long as the block is  *)
(* synchronized before a second task can reach it; this module is about    *)
(* whether it is.                                                          *)
(*                                                                         *)
(* A count is n - 1 for n references of an unsynchronized block and -n for *)
(* n references of a synchronized one, as in ArcBlock.  Static blocks are  *)
(* not counted and are left out.  Drop and synchronize recurse into the    *)
(* fields of a record: pending[t] are the references that t still has to   *)
(* drop and syncing[t] the blocks that t still has to synchronize, and     *)
(* other tasks run in between.                                             *)
(***************************************************************************)
EXTENDS Integers, FiniteSets

CONSTANTS Tasks,
          Blocks,          \* the memory: at most this many blocks at a time
          Fields,          \* the fields of a record
          Nil,             \* a field without a block: a number, none, ...
          MaxReferences,   \* bound on the references to a block
          UpdatesRecords,  \* whether the program updates records
          CallsRace        \* whether the program calls race

ASSUME SharedHeapAssumption ==
    /\ IsFiniteSet(Tasks) /\ IsFiniteSet(Blocks) /\ IsFiniteSet(Fields)
    /\ Nil \notin Blocks
    /\ MaxReferences \in Nat \ {0}
    /\ UpdatesRecords \in BOOLEAN /\ CallsRace \in BOOLEAN

VARIABLES
    allocated,   \* the blocks in use
    count,       \* the count of each block
    field,       \* the fields of each block
    held,        \* held[t][b]: how many variables of t refer to b
    pending,     \* pending[t][b]: how many references to b t is dropping
    syncing,     \* syncing[t]: the blocks t is about to synchronize
    outbox,      \* outbox[t]: what t is about to pass to a new task
    leaked       \* history: whether a reference has gone where only
                 \* synchronized ones may go without being synchronized

vars == <<allocated, count, field, held, pending, syncing, outbox, leaked>>

Values == Blocks \cup {Nil}

Nowhere == [block |-> Nil, to |-> Nil]
Messages == [block : Blocks, to : Tasks] \cup {Nowhere}

Empty == [b \in Blocks |-> 0]
EmptyRecord == [f \in Fields |-> Nil]

Init ==
    /\ allocated = {}
    /\ count = Empty
    /\ field = [b \in Blocks |-> EmptyRecord]
    /\ held = [t \in Tasks |-> Empty]
    /\ pending = [t \in Tasks |-> Empty]
    /\ syncing = [t \in Tasks |-> {}]
    /\ outbox = [t \in Tasks |-> Nowhere]
    /\ leaked = FALSE

----------------------------------------------------------------------------

IsSynchronized(b) == count[b] < 0

MutantUniqueIfSynchronized(b) == count[b] <= 0
IsUnique(b) == count[b] = IF IsSynchronized(b) THEN -1 ELSE 0

(* How many fields of a record refer to b.                                 *)
Occurrences(record, b) == Cardinality({f \in Fields : record[f] = b})

(* The counts after n[b] more, or less, references to each block b.        *)
More(counts, n) ==
    [b \in Blocks |-> IF counts[b] < 0 THEN counts[b] - n[b] ELSE counts[b] + n[b]]

SynchronizedCount(c) == -1 - c

One(v) == [b \in Blocks |-> IF b = v THEN 1 ELSE 0]
References(record) == [b \in Blocks |-> Occurrences(record, b)]

Plus(m, n) == [b \in Blocks |-> m[b] + n[b]]
Minus(m, n) == [b \in Blocks |-> m[b] - n[b]]
Covers(m, n) == \A b \in Blocks : n[b] <= m[b]

(* A task runs one operation to its end before the next.                   *)
Idle(t) == pending[t] = Empty /\ syncing[t] = {} /\ outbox[t] = Nowhere

Hold(t, bag) == held' = [held EXCEPT ![t] = bag]

(* Every reference there is: in variables, being dropped and in fields.    *)
VariableReferences(b) == UNION {{t} \X (1 .. held[t][b] + pending[t][b]) : t \in Tasks}
FieldReferences(b) == {p \in allocated \X Fields : field[p[1]][p[2]] = b}

AllReferences(b) == Cardinality(VariableReferences(b)) + Cardinality(FieldReferences(b))

(* The bound on references leaves room for n more.                         *)
Room(n) == \A b \in Blocks : n[b] > 0 => AllReferences(b) + n[b] <= MaxReferences

(* compile_record: a new block takes over the references in its fields.    *)
NewRecord(t, b, record) ==
    /\ Idle(t)
    /\ b \notin allocated
    /\ Covers(held[t], References(record))
    /\ allocated' = allocated \cup {b}
    /\ count' = [count EXCEPT ![b] = 0]
    /\ field' = [field EXCEPT ![b] = record]
    /\ Hold(t, Plus(Minus(held[t], References(record)), One(b)))
    /\ UNCHANGED <<pending, syncing, outbox, leaked>>

(* A variable that is used again is cloned.                                *)
CloneVariable(t, b) ==
    /\ Idle(t)
    /\ held[t][b] > 0
    /\ Room(One(b))
    /\ count' = More(count, One(b))
    /\ Hold(t, Plus(held[t], One(b)))
    /\ UNCHANGED <<allocated, field, pending, syncing, outbox, leaked>>

DropVariable(t, b) ==
    /\ Idle(t)
    /\ held[t][b] > 0
    /\ Hold(t, Minus(held[t], One(b)))
    /\ pending' = [pending EXCEPT ![t] = Plus(@, One(b))]
    /\ UNCHANGED <<allocated, count, field, syncing, outbox, leaked>>

(* One level of a recursive drop: the last reference takes the references  *)
(* in the fields with it.                                                  *)
DropStep(t, b) ==
    /\ pending[t][b] > 0
    /\ IF IsUnique(b)
       THEN /\ allocated' = allocated \ {b}
            /\ count' = [count EXCEPT ![b] = 0]
            /\ field' = [field EXCEPT ![b] = EmptyRecord]
            /\ pending' = [pending EXCEPT ![t] =
                              Plus(Minus(@, One(b)), References(field[b]))]
       ELSE /\ count' = More(count, Minus(Empty, One(b)))
            /\ pending' = [pending EXCEPT ![t] = Minus(@, One(b))]
            /\ UNCHANGED <<allocated, field>>
    /\ UNCHANGED <<held, syncing, outbox, leaked>>

(* A field of a record is cloned, and then the record dropped.             *)
GetField(t, b, f) ==
    /\ Idle(t)
    /\ held[t][b] > 0
    /\ field[b][f] # Nil
    /\ Room(One(field[b][f]))
    /\ count' = More(count, One(field[b][f]))
    /\ Hold(t, Plus(Minus(held[t], One(b)), One(field[b][f])))
    /\ pending' = [pending EXCEPT ![t] = Plus(@, One(b))]
    /\ UNCHANGED <<allocated, field, syncing, outbox, leaked>>

(* A record update with the value v for the field f.  A unique record is   *)
(* updated in place: the old value of f is dropped and nothing else is     *)
(* cloned.                                                                 *)
UpdateInPlace(t, b, f, v) ==
    /\ UpdatesRecords
    /\ Idle(t)
    /\ Covers(held[t], Plus(One(b), One(v)))
    /\ IsUnique(b)
    /\ field' = [field EXCEPT ![b][f] = v]
    /\ Hold(t, Minus(held[t], One(v)))
    /\ pending' = [pending EXCEPT ![t] = Plus(@, One(field[b][f]))]
    /\ leaked' = (leaked \/ (v # Nil /\ IsSynchronized(b) /\ ~IsSynchronized(v)))
    /\ UNCHANGED <<allocated, count, syncing, outbox>>

(* Any other is copied to a new block n: the other fields are cloned, and  *)
(* the record is dropped.                                                  *)
MutantUpdateCopy(t, b, f, v, n) ==
    /\ UpdatesRecords
    /\ Idle(t)
    /\ Covers(held[t], Plus(One(b), One(v)))
    /\ ~IsUnique(b)
    /\ n \notin allocated
    /\ Room(References([field[b] EXCEPT ![f] = Nil]))
    /\ allocated' = allocated \cup {n}
    /\ field' = [field EXCEPT ![n] = [field[b] EXCEPT ![f] = v]]
    /\ count' = [count EXCEPT ![n] = 0]
    /\ Hold(t, Plus(Minus(Minus(held[t], One(b)), One(v)), One(n)))
    /\ pending' = [pending EXCEPT ![t] = Plus(@, One(b))]
    /\ UNCHANGED <<syncing, outbox, leaked>>

UpdateCopy(t, b, f, v, n) ==
    /\ UpdatesRecords
    /\ Idle(t)
    /\ Covers(held[t], Plus(One(b), One(v)))
    /\ ~IsUnique(b)
    /\ n \notin allocated
    /\ Room(References([field[b] EXCEPT ![f] = Nil]))
    /\ allocated' = allocated \cup {n}
    /\ field' = [field EXCEPT ![n] = [field[b] EXCEPT ![f] = v]]
    /\ count' = [More(count, References([field[b] EXCEPT ![f] = Nil])) EXCEPT ![n] = 0]
    /\ Hold(t, Plus(Minus(Minus(held[t], One(b)), One(v)), One(n)))
    /\ pending' = [pending EXCEPT ![t] = Plus(@, One(b))]
    /\ UNCHANGED <<syncing, outbox, leaked>>

(* Blocks that are synchronized already, and whatever they refer to, are   *)
(* left alone.                                                             *)
MutantSynchronizeStep(t, b) ==
    /\ b \in syncing[t]
    /\ syncing' = [syncing EXCEPT ![t] = @ \ {b}]
    /\ count' = IF IsSynchronized(b)
                THEN count
                ELSE [count EXCEPT ![b] = SynchronizedCount(@)]
    /\ UNCHANGED <<allocated, field, held, pending, outbox, leaked>>

SynchronizeStep(t, b) ==
    /\ b \in syncing[t]
    /\ IF IsSynchronized(b)
       THEN /\ syncing' = [syncing EXCEPT ![t] = @ \ {b}]
            /\ UNCHANGED count
       ELSE /\ syncing' = [syncing EXCEPT ![t] =
                              (@ \ {b}) \cup ({field[b][f] : f \in Fields} \ {Nil})]
            /\ count' = [count EXCEPT ![b] = SynchronizedCount(@)]
    /\ UNCHANGED <<allocated, field, held, pending, outbox, leaked>>

(* go: the closure for the new task u is synchronized and passed to        *)
(* _pen_spawn.                                                             *)
BeginSpawn(t, u, b) ==
    /\ t # u
    /\ Idle(t)
    /\ held[t][b] > 0
    /\ syncing' = [syncing EXCEPT ![t] = {b}]
    /\ outbox' = [outbox EXCEPT ![t] = [block |-> b, to |-> u]]
    /\ UNCHANGED <<allocated, count, field, held, pending, leaked>>

Move(t, u, b) ==
    held' = [held EXCEPT ![t] = Minus(@, One(b)), ![u] = Plus(@, One(b))]

FinishSpawn(t) ==
    /\ outbox[t] # Nowhere
    /\ syncing[t] = {}
    /\ Move(t, outbox[t].to, outbox[t].block)
    /\ outbox' = [outbox EXCEPT ![t] = Nowhere]
    /\ UNCHANGED <<allocated, count, field, pending, syncing, leaked>>

(* The result of a task that has ended moves to the task that awaits it.   *)
Join(t, u, b) ==
    /\ t # u
    /\ Idle(t)
    /\ held[t] = One(b)
    /\ Move(t, u, b)
    /\ UNCHANGED <<allocated, count, field, pending, syncing, outbox, leaked>>

(* race: the list goes to the tasks that _pen_race spawns as it is.        *)
SpawnRace(t, u, b) ==
    /\ CallsRace
    /\ t # u
    /\ Idle(t)
    /\ held[t][b] > 0
    /\ Move(t, u, b)
    /\ leaked' = (leaked \/ ~IsSynchronized(b))
    /\ UNCHANGED <<allocated, count, field, pending, syncing, outbox>>

TaskStep(t) ==
    \/ \E b \in Blocks :
          \/ \E record \in [Fields -> Values] : NewRecord(t, b, record)
          \/ CloneVariable(t, b)
          \/ DropVariable(t, b)
          \/ DropStep(t, b)
          \/ \E f \in Fields : GetField(t, b, f)
          \/ \E f \in Fields, v \in Values : UpdateInPlace(t, b, f, v)
          \/ \E f \in Fields, v \in Values, n \in Blocks : UpdateCopy(t, b, f, v, n)
          \/ SynchronizeStep(t, b)
          \/ \E u \in Tasks : BeginSpawn(t, u, b)
          \/ \E u \in Tasks : Join(t, u, b)
          \/ \E u \in Tasks : SpawnRace(t, u, b)
    \/ FinishSpawn(t)

Next == \E t \in Tasks : TaskStep(t)

Spec == Init /\ [][Next]_vars

----------------------------------------------------------------------------

(* Every count is right, so no block in use is without references, and no  *)
(* reference is left to a block that has been freed.                       *)
CountsBalance ==
    \A b \in Blocks :
        IF b \in allocated
        THEN AllReferences(b) = IF IsSynchronized(b) THEN -count[b] ELSE count[b] + 1
        ELSE AllReferences(b) = 0

(* What can be reached from a set of blocks through fields: the least set  *)
(* that has them and whatever its blocks refer to.                         *)
IsClosed(blocks) ==
    \A b \in blocks, f \in Fields : field[b][f] # Nil => field[b][f] \in blocks

Reachable(roots) ==
    {b \in Blocks : \A S \in SUBSET Blocks : roots \subseteq S /\ IsClosed(S) => b \in S}

ReachableFrom(t) == Reachable({b \in Blocks : held[t][b] + pending[t][b] > 0})

(* "Heap blocks are always synchronized by their owners before references  *)
(* are shared with other threads" (pointer.rs:186).                        *)
SharedBlocksAreSynchronized ==
    \A t, u \in Tasks : t # u =>
        \A b \in ReachableFrom(t) \cap ReachableFrom(u) : IsSynchronized(b)

(* It is so until a record that is synchronized is updated in place with a *)
(* value that is not, or race called with a list that is not: nothing else *)
(* in the code shares what it has not synchronized.                        *)
NothingElseLeaks == ~leaked => SharedBlocksAreSynchronized

(* What synchronize relies on when it stops at a synchronized block, up to *)
(* then: all that the block refers to is synchronized too, or about to be. *)
SynchronizedIsClosed ==
    ~leaked => \A b \in allocated, f \in Fields :
        IsSynchronized(b) /\ field[b][f] # Nil =>
            \/ IsSynchronized(field[b][f])
            \/ \E t \in Tasks : field[b][f] \in syncing[t]

(* What these rest on: a task that synchronizes a closure holds on to it   *)
(* and drops nothing meanwhile, and synchronizes only what it can reach.   *)
Bags == [Blocks -> Nat]

TypeOK ==
    /\ allocated \in SUBSET Blocks
    /\ count \in [Blocks -> Int]
    /\ field \in [Blocks -> [Fields -> Values]]
    /\ held \in [Tasks -> Bags]
    /\ pending \in [Tasks -> Bags]
    /\ syncing \in [Tasks -> SUBSET Blocks]
    /\ outbox \in [Tasks -> Messages]
    /\ leaked \in BOOLEAN

SpawnersHoldClosures ==
    \A t \in Tasks :
        /\ syncing[t] # {} => outbox[t] # Nowhere
        /\ outbox[t] # Nowhere =>
              /\ outbox[t].block \in Blocks
              /\ outbox[t].to \in Tasks \ {t}
              /\ held[t][outbox[t].block] > 0
              /\ pending[t] = Empty
              /\ outbox[t].block \in syncing[t] \/ IsSynchronized(outbox[t].block)

SyncingIsReached == \A t \in Tasks : syncing[t] \subseteq ReachableFrom(t)

Inductive ==
    /\ TypeOK
    /\ CountsBalance
    /\ SpawnersHoldClosures
    /\ SyncingIsReached
    /\ SynchronizedIsClosed
    /\ NothingElseLeaks

(* Values do not change under anybody's eyes: only a block with a single   *)
(* reference is ever written to (the record update in expression.rs).      *)
OnlyUnsharedBlocksChange ==
    [][\A b \in allocated \cap allocated' :
           field'[b] # field[b] => AllReferences(b) = 1]_vars

=============================================================================
