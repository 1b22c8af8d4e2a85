-------------------------------- MODULE Map --------------------------------
(***************************************************************************)
(* The maps of the prelude (packages/prelude/Map.pen): hash tries whose    *)
(* nodes hold 32 entries, where every level of the trie looks at five more *)
(* bits of the hash of a key (packages/prelude/ffi/src/lib.rs) and every   *)
(* layer starts again from the first bits of another hash.  Programs reach *)
(* them by map literals, which the compiler turns into calls of SetMap,    *)
(* DeleteMap and MergeMaps (hir-mir/src/transformation/map_literal.rs).    *)
(*                                                                         *)
(* Two maps are built by such calls; next to each of them, contents holds  *)
(* the finite function the map stands for.  The width of hashes and the    *)
(* number of bits of an index are parameters, everything else is as in the *)
(* code: the largest level is the quotient of the two, a node one level    *)
(* deeper sees the bits that remain.                                       *)
(***************************************************************************)
EXTENDS Integers, Sequences, FiniteSets, TLC

CONSTANTS
    Keys,       \* keys; two keys are equal only if they are the same
    Values,     \* values
    KeyHash,    \* KeyHash[k] is the hash of key k
    ValueHash,  \* ValueHash[v] is the hash of value v
    LayerHash,  \* LayerHash[n] is the hash of number n, for the layers
    HashBits,   \* the width of a hash: 64
    IndexBits,  \* the width of an index: 5
    Empty,      \* what a lookup gives for a key that is not there
    Endless     \* what stands for the result of a call that never returns

ASSUME MapAssumption ==
    /\ HashBits \in Nat \ {0}
    /\ IndexBits \in 1 .. HashBits
    /\ KeyHash \in [Keys -> 0 .. 2 ^ HashBits - 1]
    /\ ValueHash \in [Values -> 0 .. 2 ^ HashBits - 1]

VARIABLES
    maps,      \* maps[m]: a map of the prelude, [hamt, size]
    contents,  \* contents[m]: the function from keys to values it stands for
    running,   \* FALSE once a call does not return
    lifted     \* TRUE once a deletion moved a node to another level

vars == <<maps, contents, running, lifted>>

Maps == {"x", "y"}

-----------------------------------------------------------------------------
(* Hashes and indices. *)

maxLevel == HashBits \div IndexBits

\* Hashes are 64-bit words inside of floating point numbers.
CombineHashes(one, other) == (one * 31 + other) % 2 ^ HashBits


\* A shift by more than the width takes the remainder, as release builds do.
HashToIndex(hash, layer, level) ==
    ((CombineHashes(hash, LayerHash[layer])
        \div 2 ^ ((IndexBits * (level - 1)) % HashBits)) % 2 ^ IndexBits) + 1

hamtIndex(key, layer, level) == HashToIndex(KeyHash[key], layer, level)

-----------------------------------------------------------------------------
(* Nodes. *)

None == [kind |-> "none"]

KeyValue(key, value) == [kind |-> "keyValue", key |-> key, value |-> value]

Hamt(entries) == [kind |-> "hamt", entries |-> entries]

Indices == 1 .. 2 ^ IndexBits

newHamt == Hamt([i \in Indices |-> None])

getEntry(hamt, i) == hamt.entries[i]

setEntry(hamt, i, entry) == [hamt EXCEPT !.entries[i] = entry]

Occupied(hamt) == {i \in Indices : getEntry(hamt, i) # None}

\* Mutant: a layer ends one level early, but not for new nodes.
BelowEarly(layer, level) ==
    IF level >= maxLevel THEN [layer |-> layer + 1, level |-> 1]
                         ELSE [layer |-> layer, level |-> level + 1]

\* The place of the children of a node at a level of a layer.
Below(layer, level) ==
    IF level > maxLevel THEN [layer |-> layer + 1, level |-> 1]
                        ELSE [layer |-> layer, level |-> level + 1]

\* No two different hashes agree on every bit, so a call that gets this deep
\* gets deeper for ever.
DepthBound == HashBits + 1

-----------------------------------------------------------------------------
(* Operations. *)

NewMap == [hamt |-> newHamt, size |-> 0]

RECURSIVE getValue(_, _, _, _)
getValue(hamt, key, layer, level) ==
    LET e == getEntry(hamt, hamtIndex(key, layer, level))
        below == Below(layer, level)
    IN  CASE e.kind = "keyValue" /\ e.key = key -> e.value
          [] e.kind = "keyValue" /\ e.key # key -> Empty
          [] e.kind = "hamt" -> getValue(e, key, below.layer, below.level)
          [] e.kind = "none" -> Empty

GetMap(map, key) == getValue(map.hamt, key, 1, 1)

\* A node that two keys of the same index share is made one level deeper in the
\* same layer, whatever the level.
RECURSIVE setKeyValue(_, _, _, _, _)
setKeyValue(hamt, key, value, layer, level) ==
    LET i == hamtIndex(key, layer, level)
        e == getEntry(hamt, i)
        below == Below(layer, level)
        Update(entry, resized) ==
            [hamt |-> setEntry(hamt, i, entry), resized |-> resized]
    IN  CASE level > DepthBound -> [hamt |-> Endless, resized |-> TRUE]
          [] level <= DepthBound /\ e.kind = "keyValue" ->
                IF e.key = key
                THEN Update(KeyValue(key, value), FALSE)
                ELSE LET old == setKeyValue(newHamt, e.key, e.value, layer, level + 1)
                         new == setKeyValue(old.hamt, key, value, layer, level + 1)
                     IN  IF old.hamt = Endless \/ new.hamt = Endless
                         THEN [hamt |-> Endless, resized |-> TRUE]
                         ELSE Update(new.hamt, TRUE)
          [] level <= DepthBound /\ e.kind = "hamt" ->
                LET u == setKeyValue(e, key, value, below.layer, below.level)
                IN  IF u.hamt = Endless THEN u ELSE Update(u.hamt, u.resized)
          [] level <= DepthBound /\ e.kind = "none" ->
                Update(KeyValue(key, value), TRUE)

Resize(size, u, change) == IF u.resized THEN size + change ELSE size

SetMap(map, key, value) ==
    LET u == setKeyValue(map.hamt, key, value, 1, 1)
    IN  IF u.hamt = Endless
        THEN Endless
        ELSE [hamt |-> u.hamt, size |-> Resize(map.size, u, 1)]

\* Mutant: nodes stay as deep as they once were.
KeptHamt(hamt) == hamt

\* Mutant: the first of the entries replaces a node with several.
FirstEntry(hamt) ==
    IF Occupied(hamt) # {}
    THEN getEntry(hamt, CHOOSE i \in Occupied(hamt) : \A j \in Occupied(hamt) : i <= j)
    ELSE hamt

\* A node with a single entry is replaced by the entry, be it a key or a node.
normalizeHamt(hamt) ==
    IF Cardinality(Occupied(hamt)) = 1
    THEN getEntry(hamt, CHOOSE i \in Occupied(hamt) : TRUE)
    ELSE hamt

RECURSIVE deleteKey(_, _, _, _)
deleteKey(hamt, key, layer, level) ==
    LET i == hamtIndex(key, layer, level)
        e == getEntry(hamt, i)
        below == Below(layer, level)
        Unchanged == [hamt |-> hamt, resized |-> FALSE, lifts |-> FALSE]
    IN  CASE e.kind = "keyValue" ->
                IF e.key = key
                THEN [hamt |-> setEntry(hamt, i, None), resized |-> TRUE,
                      lifts |-> FALSE]
                ELSE Unchanged
          [] e.kind = "hamt" ->
                LET u == deleteKey(e, key, below.layer, below.level)
                    entry == normalizeHamt(u.hamt)
                IN  [hamt |-> setEntry(hamt, i, entry), resized |-> u.resized,
                     lifts |-> u.lifts \/ (entry.kind = "hamt" /\ entry # u.hamt)]
          [] e.kind = "none" -> Unchanged

DeleteMap(map, key) ==
    LET u == deleteKey(map.hamt, key, 1, 1)
    IN  [hamt |-> u.hamt, size |-> Resize(map.size, u, -1)]

RECURSIVE mergeHamt(_, _, _)
mergeHamt(map, hamt, i) ==
    IF i \notin Indices \/ map = Endless
    THEN map
    ELSE LET e == getEntry(hamt, i)
         IN  mergeHamt(CASE e.kind = "keyValue" -> SetMap(map, e.key, e.value)
                         [] e.kind = "hamt" -> mergeHamt(map, e, 1)
                         [] e.kind = "none" -> map,
                       hamt, i + 1)

MergeMaps(x, y) == mergeHamt(x, y.hamt, 1)

RECURSIVE equalHamts(_, _)
equalHamts(h1, h2) ==
    \A i \in Indices :
        LET e1 == getEntry(h1, i)
            e2 == getEntry(h2, i)
        IN  /\ e1.kind = e2.kind
            /\ e1.kind = "keyValue" => e1.key = e2.key /\ e1.value = e2.value
            /\ e1.kind = "hamt" => equalHamts(e1, e2)

EqualMaps(x, y) == x.size = y.size /\ equalHamts(x.hamt, y.hamt)

RECURSIVE hashHamt(_, _, _)
hashHamt(hamt, i, hash) ==
    IF i \notin Indices
    THEN hash
    ELSE LET e == getEntry(hamt, i)
             next == CASE e.kind = "keyValue" ->
                            CombineHashes(CombineHashes(hash, KeyHash[e.key]),
                                          ValueHash[e.value])
                       [] e.kind = "hamt" ->
                            CombineHashes(hash, hashHamt(e, 1, hash))
                       [] e.kind = "none" -> hash
         IN  hashHamt(hamt, i + 1, next)

HashMap(map) == hashHamt(map.hamt, 1, 5)

\* The entries an iterator gives, in its order.
RECURSIVE iterateHamt(_, _)
iterateHamt(hamt, i) ==
    IF i \notin Indices
    THEN << >>
    ELSE LET e == getEntry(hamt, i)
         IN  (CASE e.kind = "keyValue" -> <<e>>
                [] e.kind = "hamt" -> iterateHamt(e, 1)
                [] e.kind = "none" -> << >>) \o iterateHamt(hamt, i + 1)

IterateMap(map) == iterateHamt(map.hamt, 1)

-----------------------------------------------------------------------------
(* The elements of a map literal.  Each is applied to the map the elements *)
(* before it made.                                                         *)

Returns(m, map, content) ==
    IF map = Endless
    THEN running' = FALSE /\ UNCHANGED <<maps, contents>>
    ELSE /\ maps' = [maps EXCEPT ![m] = map]
         /\ contents' = [contents EXCEPT ![m] = content]
         /\ UNCHANGED running

Insertion(m, key, value) ==
    /\ running /\ ~lifted
    /\ Returns(m, SetMap(maps[m], key, value), (key :> value) @@ contents[m])
    /\ UNCHANGED lifted

Removal(m, key) ==
    /\ running /\ ~lifted
    /\ Returns(m, DeleteMap(maps[m], key),
               [k \in DOMAIN contents[m] \ {key} |-> contents[m][k]])
    /\ lifted' = deleteKey(maps[m].hamt, key, 1, 1).lifts

\* The spread map comes first: entries of the elements before it stay.
Spread(m, other) ==
    /\ running /\ ~lifted
    /\ Returns(m, MergeMaps(maps[other], maps[m]), contents[m] @@ contents[other])
    /\ UNCHANGED lifted

Init ==
    /\ maps = [m \in Maps |-> NewMap]
    /\ contents = [m \in Maps |-> << >>]
    /\ running = TRUE
    /\ lifted = FALSE

Next ==
    \E m \in Maps :
        \/ \E key \in Keys, value \in Values : Insertion(m, key, value)
        \/ \E key \in Keys : Removal(m, key)
        \/ \E other \in Maps \ {m} : Spread(m, other)

Spec == Init /\ [][Next]_vars

-----------------------------------------------------------------------------
Found(map) == [k \in {k \in Keys : GetMap(map, k) # Empty} |-> GetMap(map, k)]

(* Lookups find what insertions and spreads put into a map and removals     *)
(* left there, and nothing else, however keys share parts of their hashes; *)
(* and the size counts it.  Once a deletion has moved a node to a level     *)
(* whose bits its entries are not placed by, this ends (see below).         *)
LookupsFindContents ==
    ~lifted =>
        \A m \in Maps :
            /\ Found(maps[m]) = contents[m]
            /\ maps[m].size = Cardinality(DOMAIN contents[m])

(* An iterator gives each entry of a map exactly once, with lifted nodes or *)
(* not: moving a node loses no entry, lookups only miss it.                 *)
IterationVisitsEachEntryOnce ==
    \A m \in Maps :
        LET visited == IterateMap(maps[m])
        IN  /\ Len(visited) = Cardinality(DOMAIN contents[m])
            /\ {<<e.key, e.value>> : e \in {visited[i] : i \in DOMAIN visited}}
                 = {<<k, contents[m][k]>> : k \in DOMAIN contents[m]}

(* Comparison and hashing look at the tries only, so that equal contents   *)
(* have to end up in equal tries, whatever calls built them in what order. *)
EqualityIsExtensional ==
    ~lifted =>
        /\ EqualMaps(maps["x"], maps["y"]) <=> contents["x"] = contents["y"]
        /\ contents["x"] = contents["y"] =>
              HashMap(maps["x"]) = HashMap(maps["y"])

Collide(keys) == \E k1, k2 \in keys : k1 # k2 /\ KeyHash[k1] = KeyHash[k2]


(* "You can also delete a key from a map omitting its value."              *)
(* (doc/src/references/language/types.md): a removal takes away the key it  *)
(* names and no other.                                                     *)
RemovalsKeepOtherKeys ==
    \A m \in Maps : Found(maps[m]) = contents[m]
=============================================================================
