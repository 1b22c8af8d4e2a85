--------------------------- MODULE SharedHeapProofs ---------------------------
(***************************************************************************)
(* Proofs about the heap of compiled code, for any number of tasks, blocks *)
(* and fields: that counts balance, that only blocks without other         *)
(* references are written to, and that whatever tasks share is             *)
(* synchronized until one of the two operations that leak it is used.      *)
(***************************************************************************)
EXTENDS SharedHeap, FiniteSetTheorems, TLAPS

----------------------------------------------------------------------------
(* Counting references.                                                    *)

LEMMA RowSize ==
    ASSUME NEW a, NEW S, IsFiniteSet(S)
    PROVE  /\ IsFiniteSet({a} \X S)
           /\ Cardinality({a} \X S) = Cardinality(S)
           /\ Cardinality(S) \in Nat
<1>1. IsFiniteSet({a}) /\ Cardinality({a}) = 1
  BY FS_Singleton
<1>2. Cardinality(S) \in Nat
  BY FS_CardinalityType
<1>3. IsFiniteSet({a} \X S) /\ Cardinality({a} \X S) = Cardinality({a}) * Cardinality(S)
  BY <1>1, FS_Product
<1>4. Cardinality({a} \X S) = 1 * Cardinality(S)
  BY <1>1, <1>3
<1> QED
  BY <1>2, <1>3, <1>4

LEMMA DisjointUnion ==
    ASSUME NEW S, NEW T, IsFiniteSet(S), IsFiniteSet(T), S \cap T = {}
    PROVE  /\ Cardinality(S \cup T) = Cardinality(S) + Cardinality(T)
           /\ Cardinality(S) \in Nat /\ Cardinality(T) \in Nat
<1>1. Cardinality(S \cup T) = Cardinality(S) + Cardinality(T) - Cardinality(S \cap T)
  BY FS_Union
<1>2. Cardinality(S \cap T) = 0
  BY FS_EmptySet
<1>3. Cardinality(S) \in Nat /\ Cardinality(T) \in Nat
  BY FS_CardinalityType
<1> QED
  BY <1>1, <1>2, <1>3

(* n[t] things of each task t.                                             *)
Tokens(n) == UNION {{t} \X (1 .. n[t]) : t \in Tasks}

LEMMA TokensAreFinite ==
    ASSUME NEW n \in [Tasks -> Nat]
    PROVE  IsFiniteSet(Tokens(n)) /\ Cardinality(Tokens(n)) \in Nat
<1> DEFINE of == [t \in Tasks |-> {t} \X (1 .. n[t])]
           all == {{t} \X (1 .. n[t]) : t \in Tasks}
<1>1. IsFiniteSet(all)
  <2>1. of \in Surjection(Tasks, all)
    BY DEF Surjection
  <2> QED
    BY <2>1, FS_Surjection, SharedHeapAssumption
<1>2. \A S \in all : IsFiniteSet(S)
  <2>1. ASSUME NEW t \in Tasks PROVE IsFiniteSet({t} \X (1 .. n[t]))
    <3>1. IsFiniteSet(1 .. n[t])
      BY FS_Interval
    <3> QED
      BY <3>1, RowSize
  <2> QED
    BY <2>1
<1>3. IsFiniteSet(Tokens(n))
  BY <1>1, <1>2, FS_UNION DEF Tokens
<1> QED
  BY <1>3, FS_CardinalityType

(* What one task has more or less changes the total by as much.            *)
LEMMA TokensChange ==
    ASSUME NEW n \in [Tasks -> Nat], NEW m \in [Tasks -> Nat], NEW t \in Tasks,
           \A u \in Tasks \ {t} : m[u] = n[u]
    PROVE  Cardinality(Tokens(m)) = Cardinality(Tokens(n)) - n[t] + m[t]
<1> DEFINE rest == UNION {{u} \X (1 .. n[u]) : u \in Tasks \ {t}}
<1>1. ASSUME NEW k \in [Tasks -> Nat], \A u \in Tasks \ {t} : k[u] = n[u]
      PROVE  Cardinality(Tokens(k)) = Cardinality(rest) + k[t] /\ Cardinality(rest) \in Nat
  <2>1. Tokens(k) = rest \cup ({t} \X (1 .. k[t]))
    BY <1>1 DEF Tokens
  <2>2. rest \cap ({t} \X (1 .. k[t])) = {}
    OBVIOUS
  <2>3. IsFiniteSet(rest)
    BY <2>1, FS_Subset, TokensAreFinite
  <2>4. IsFiniteSet({t} \X (1 .. k[t])) /\ Cardinality({t} \X (1 .. k[t])) = k[t]
    <3>1. IsFiniteSet(1 .. k[t]) /\ Cardinality(1 .. k[t]) = k[t]
      BY FS_Interval
    <3> QED
      BY <3>1, RowSize
  <2> HIDE DEF rest
  <2> QED
    BY <2>1, <2>2, <2>3, <2>4, DisjointUnion
<1> HIDE DEF rest
<1>2. Cardinality(Tokens(n)) = Cardinality(rest) + n[t] /\ Cardinality(rest) \in Nat
  BY <1>1
<1>3. Cardinality(Tokens(m)) = Cardinality(rest) + m[t]
  BY <1>1
<1> QED
  BY <1>2, <1>3

(* Two tasks have no more than there is.                                   *)
LEMMA TokensOfTwo ==
    ASSUME NEW n \in [Tasks -> Nat], NEW t \in Tasks, NEW u \in Tasks, t # u
    PROVE  n[t] + n[u] <= Cardinality(Tokens(n))
<1> DEFINE l == [n EXCEPT ![t] = 0]
           k == [l EXCEPT ![u] = 0]
<1>1. l \in [Tasks -> Nat] /\ k \in [Tasks -> Nat]
  OBVIOUS
<1>2. Cardinality(Tokens(l)) = Cardinality(Tokens(n)) - n[t] + 0
  <2>1. \A v \in Tasks \ {t} : l[v] = n[v]
    OBVIOUS
  <2>2. l[t] = 0
    OBVIOUS
  <2> QED
    BY <1>1, <2>1, <2>2, TokensChange
<1>3. Cardinality(Tokens(k)) = Cardinality(Tokens(l)) - n[u] + 0
  <2>1. \A v \in Tasks \ {u} : k[v] = l[v]
    OBVIOUS
  <2>2. k[u] = 0 /\ l[u] = n[u]
    OBVIOUS
  <2> QED
    BY <1>1, <2>1, <2>2, TokensChange
<1> HIDE DEF l, k
<1>4. Cardinality(Tokens(k)) \in Nat /\ Cardinality(Tokens(n)) \in Nat
  BY <1>1, TokensAreFinite
<1> QED
  BY <1>2, <1>3, <1>4

(* The same for one.                                                       *)
LEMMA TokensOfOne ==
    ASSUME NEW n \in [Tasks -> Nat], NEW t \in Tasks
    PROVE  n[t] <= Cardinality(Tokens(n))
<1> DEFINE l == [n EXCEPT ![t] = 0]
<1>1. l \in [Tasks -> Nat]
  OBVIOUS
<1>2. (\A v \in Tasks \ {t} : l[v] = n[v]) /\ l[t] = 0
  OBVIOUS
<1> HIDE DEF l
<1>3. Cardinality(Tokens(l)) = Cardinality(Tokens(n)) - n[t] + l[t]
  BY <1>1, <1>2, TokensChange
<1>4. Cardinality(Tokens(l)) \in Nat /\ Cardinality(Tokens(n)) \in Nat
  BY <1>1, TokensAreFinite
<1> QED
  BY <1>2, <1>3, <1>4

(* What moves from one task to another leaves the total as it is.          *)
LEMMA TokensMove ==
    ASSUME NEW n \in [Tasks -> Nat], NEW k \in [Tasks -> Nat],
           NEW t \in Tasks, NEW u \in Tasks, t # u,
           \A v \in Tasks \ {t, u} : k[v] = n[v],
           k[t] + k[u] = n[t] + n[u]
    PROVE  Cardinality(Tokens(k)) = Cardinality(Tokens(n))
<1> DEFINE m == [n EXCEPT ![t] = k[t]]
<1>1. m \in [Tasks -> Nat] /\ m[t] = k[t] /\ m[u] = n[u] /\ \A v \in Tasks \ {t} : m[v] = n[v]
  OBVIOUS
<1> HIDE DEF m
<1>2. \A v \in Tasks \ {u} : k[v] = m[v]
  BY <1>1
<1>3. Cardinality(Tokens(m)) = Cardinality(Tokens(n)) - n[t] + m[t]
  BY <1>1, TokensChange
<1>4. Cardinality(Tokens(k)) = Cardinality(Tokens(m)) - m[u] + k[u]
  BY <1>1, <1>2, TokensChange
<1>5. Cardinality(Tokens(n)) \in Nat /\ Cardinality(Tokens(m)) \in Nat
      /\ n[t] \in Nat /\ n[u] \in Nat /\ k[t] \in Nat /\ k[u] \in Nat
  BY <1>1, TokensAreFinite
<1> QED
  BY <1>1, <1>3, <1>4, <1>5

LEMMA OccurrencesAreFinite ==
    ASSUME NEW r, NEW x
    PROVE  /\ IsFiniteSet({f \in Fields : r[f] = x})
           /\ Occurrences(r, x) \in Nat
           /\ Occurrences(r, x) = 0 <=> \A f \in Fields : r[f] # x
<1>1. IsFiniteSet({f \in Fields : r[f] = x})
  BY FS_Subset, SharedHeapAssumption
<1>2. Cardinality({f \in Fields : r[f] = x}) = 0 <=> {f \in Fields : r[f] = x} = {}
  BY <1>1, FS_EmptySet
<1> QED
  BY <1>1, <1>2, FS_CardinalityType DEF Occurrences

(* A field that is written to refers to the new value instead of the old.  *)
LEMMA OccurrencesChange ==
    ASSUME NEW r \in [Fields -> Values], NEW f \in Fields, NEW v \in Values, NEW x \in Blocks
    PROVE  Occurrences([r EXCEPT ![f] = v], x) =
               Occurrences(r, x) - One(r[f])[x] + One(v)[x]
<1> DEFINE A == {g \in Fields : r[g] = x}
           B == {g \in Fields : [r EXCEPT ![f] = v][g] = x}
<1>1. B = IF v = x THEN A \cup {f} ELSE A \ {f}
  OBVIOUS
<1>2. IsFiniteSet(A) /\ Cardinality(A) \in Nat
  <2>1. IsFiniteSet(A)
    BY OccurrencesAreFinite
  <2> HIDE DEF A
  <2> QED
    BY <2>1, FS_CardinalityType
<1>3. f \in A <=> r[f] = x
  OBVIOUS
<1> HIDE DEF A, B
<1>4. Cardinality(B) = Cardinality(A) - (IF r[f] = x THEN 1 ELSE 0) + (IF v = x THEN 1 ELSE 0)
  <2>1. Cardinality(A \cup {f}) = IF f \in A THEN Cardinality(A) ELSE Cardinality(A) + 1
    BY <1>2, FS_AddElement
  <2>2. Cardinality(A \ {f}) = IF f \in A THEN Cardinality(A) - 1 ELSE Cardinality(A)
    BY <1>2, FS_RemoveElement
  <2> QED
    BY <1>1, <1>2, <1>3, <2>1, <2>2
<1>5. One(r[f])[x] = (IF r[f] = x THEN 1 ELSE 0) /\ One(v)[x] = IF v = x THEN 1 ELSE 0
  BY DEF One
<1> QED
  BY <1>4, <1>5 DEF Occurrences, A, B

(* The references to x in the fields of some records.                      *)
Pairs(blocks, record, x) == {p \in blocks \X Fields : record[p[1]][p[2]] = x}

LEMMA PairsAreFinite ==
    ASSUME NEW blocks \in SUBSET Blocks, NEW record, NEW x
    PROVE  IsFiniteSet(Pairs(blocks, record, x)) /\ Cardinality(Pairs(blocks, record, x)) \in Nat
<1>1. IsFiniteSet(Blocks \X Fields)
  BY FS_Product, SharedHeapAssumption
<1>2. Pairs(blocks, record, x) \subseteq Blocks \X Fields
  BY DEF Pairs
<1> QED
  BY <1>1, <1>2, FS_Subset, FS_CardinalityType

(* A record that comes, goes or changes brings and takes its references.   *)
LEMMA PairsChange ==
    ASSUME NEW S \in SUBSET Blocks, NEW T \in SUBSET Blocks, NEW r, NEW s,
           NEW a \in Blocks, NEW x,
           \A c \in Blocks \ {a} : (c \in T <=> c \in S) /\ s[c] = r[c]
    PROVE  Cardinality(Pairs(T, s, x)) =
               Cardinality(Pairs(S, r, x))
                   - (IF a \in S THEN Occurrences(r[a], x) ELSE 0)
                   + (IF a \in T THEN Occurrences(s[a], x) ELSE 0)
<1> DEFINE rest == Pairs(S \ {a}, r, x)
<1>1. ASSUME NEW U \in SUBSET Blocks, NEW q,
             \A c \in Blocks \ {a} : (c \in U <=> c \in S) /\ q[c] = r[c]
      PROVE  /\ Cardinality(Pairs(U, q, x)) =
                    Cardinality(rest) + (IF a \in U THEN Occurrences(q[a], x) ELSE 0)
             /\ Cardinality(rest) \in Nat
  <2> DEFINE here == {f \in Fields : q[a][f] = x}
             own == {a} \X here
  <2>1. IsFiniteSet(rest) /\ Cardinality(rest) \in Nat
    BY PairsAreFinite
  <2>2. CASE a \notin U
    <3>1. Pairs(U, q, x) = rest
      BY <1>1, <2>2 DEF Pairs
    <3> QED
      BY <2>1, <2>2, <3>1
  <2>3. CASE a \in U
    <3>1. Pairs(U, q, x) = rest \cup own
      BY <1>1, <2>3 DEF Pairs
    <3>2. rest \cap own = {}
      BY DEF Pairs
    <3>3. IsFiniteSet(own) /\ Cardinality(own) = Occurrences(q[a], x)
      <4>1. IsFiniteSet(here) /\ Cardinality(here) = Occurrences(q[a], x)
        <5>1. IsFiniteSet(here)
          BY FS_Subset, SharedHeapAssumption
        <5>2. Cardinality(here) = Occurrences(q[a], x)
          BY DEF Occurrences
        <5> QED
          BY <5>1, <5>2
      <4> HIDE DEF here
      <4> QED
        BY <4>1, RowSize
    <3> HIDE DEF rest, own
    <3> QED
      BY <2>1, <2>3, <3>1, <3>2, <3>3, DisjointUnion
  <2> QED
    BY <2>2, <2>3
<1> HIDE DEF rest
<1>2. Cardinality(Pairs(S, r, x)) = Cardinality(rest) + (IF a \in S THEN Occurrences(r[a], x) ELSE 0)
      /\ Cardinality(rest) \in Nat
  BY <1>1
<1>3. Cardinality(Pairs(T, s, x)) = Cardinality(rest) + (IF a \in T THEN Occurrences(s[a], x) ELSE 0)
  BY <1>1
<1>4. Occurrences(r[a], x) \in Nat /\ Occurrences(s[a], x) \in Nat
  BY OccurrencesAreFinite
<1> QED
  BY <1>2, <1>3, <1>4

----------------------------------------------------------------------------
(* References of a state and of the next one.                              *)

(* What t has of references to x, in variables or about to be dropped.     *)
Has(t, x) == held[t][x] + pending[t][x]
Uses(x) == [t \in Tasks |-> held[t][x] + pending[t][x]]

LEMMA UsesAreTokens ==
    ASSUME TypeOK, NEW x \in Blocks
    PROVE  /\ Uses(x) \in [Tasks -> Nat]
           /\ VariableReferences(x) = Tokens(Uses(x))
           /\ FieldReferences(x) = Pairs(allocated, field, x)
           /\ \A t \in Tasks : Uses(x)[t] = Has(t, x) /\ Has(t, x) \in Nat
<1>1. \A t \in Tasks : held[t][x] \in Nat /\ pending[t][x] \in Nat
  BY DEF TypeOK, Bags
<1>2. Uses(x) \in [Tasks -> Nat] /\ \A t \in Tasks : Uses(x)[t] = Has(t, x) /\ Has(t, x) \in Nat
  BY <1>1 DEF Uses, Has
<1>3. VariableReferences(x) = Tokens(Uses(x))
  BY DEF VariableReferences, Tokens, Uses
<1>4. FieldReferences(x) = Pairs(allocated, field, x)
  BY DEF FieldReferences, Pairs
<1> QED
  BY <1>2, <1>3, <1>4

(* References are counted in natural numbers, and no task and no field has *)
(* more than there are.                                                    *)
LEMMA ReferencesBound ==
    ASSUME TypeOK, NEW x \in Blocks
    PROVE  /\ AllReferences(x) \in Nat
           /\ \A t \in Tasks : Has(t, x) \in Nat /\ Has(t, x) <= AllReferences(x)
           /\ \A t, u \in Tasks : t # u => Has(t, x) + Has(u, x) <= AllReferences(x)
           /\ \A a \in allocated : \A f \in Fields :
                 field[a][f] = x =>
                    /\ AllReferences(x) > 0
                    /\ \A t \in Tasks : Has(t, x) < AllReferences(x)
<1> DEFINE V == Cardinality(Tokens(Uses(x)))
           F == Cardinality(Pairs(allocated, field, x))
<1>1. Uses(x) \in [Tasks -> Nat] /\ \A t \in Tasks : Uses(x)[t] = Has(t, x) /\ Has(t, x) \in Nat
  BY UsesAreTokens
<1>2. AllReferences(x) = V + F
  BY UsesAreTokens DEF AllReferences
<1>3. V \in Nat
  BY <1>1, TokensAreFinite
<1>4. F \in Nat /\ IsFiniteSet(Pairs(allocated, field, x))
  BY PairsAreFinite DEF TypeOK
<1>5. \A t \in Tasks : Has(t, x) <= V
  BY <1>1, TokensOfOne
<1>6. \A t, u \in Tasks : t # u => Has(t, x) + Has(u, x) <= V
  BY <1>1, TokensOfTwo
<1>7. ASSUME NEW a \in allocated, NEW f \in Fields, field[a][f] = x
      PROVE  F > 0
  <2>1. <<a, f>> \in Pairs(allocated, field, x)
    BY <1>7 DEF Pairs
  <2>2. F # 0
    BY <1>4, <2>1, FS_EmptySet
  <2> QED
    BY <1>4, <2>2
<1> HIDE DEF V, F
<1> QED
  BY <1>1, <1>2, <1>3, <1>4, <1>5, <1>6, <1>7

(* A step that changes what one task has and what one record refers to     *)
(* changes the references by as much.                                      *)
LEMMA ReferencesChange ==
    ASSUME TypeOK, TypeOK', NEW t \in Tasks, NEW a \in Blocks, NEW x \in Blocks,
           \A u \in Tasks \ {t} : Has(u, x)' = Has(u, x),
           \A c \in Blocks \ {a} :
               (c \in allocated' <=> c \in allocated) /\ field'[c] = field[c]
    PROVE  AllReferences(x)' =
               AllReferences(x) - Has(t, x) + Has(t, x)'
                   - (IF a \in allocated THEN Occurrences(field[a], x) ELSE 0)
                   + (IF a \in allocated' THEN Occurrences(field'[a], x) ELSE 0)
<1>1. /\ Uses(x) \in [Tasks -> Nat]
      /\ \A u \in Tasks : Uses(x)[u] = Has(u, x) /\ Has(u, x) \in Nat
      /\ AllReferences(x) =
             Cardinality(Tokens(Uses(x))) + Cardinality(Pairs(allocated, field, x))
  BY UsesAreTokens DEF AllReferences
<1>2. /\ Uses(x)' \in [Tasks -> Nat]
      /\ \A u \in Tasks : Uses(x)'[u] = Has(u, x)' /\ Has(u, x)' \in Nat
      /\ AllReferences(x)' =
             Cardinality(Tokens(Uses(x)')) + Cardinality(Pairs(allocated', field', x))
  <2>1. Uses(x)' = [u \in Tasks |-> held'[u][x] + pending'[u][x]]
    BY DEF Uses
  <2>2. \A u \in Tasks : held'[u][x] \in Nat /\ pending'[u][x] \in Nat
    BY DEF TypeOK, Bags
  <2>3. VariableReferences(x)' = Tokens(Uses(x)')
    BY <2>1 DEF VariableReferences, Tokens
  <2>4. FieldReferences(x)' = Pairs(allocated', field', x)
    BY DEF FieldReferences, Pairs
  <2> QED
    BY <2>1, <2>2, <2>3, <2>4 DEF Has, AllReferences
<1>3. Cardinality(Tokens(Uses(x)')) =
          Cardinality(Tokens(Uses(x))) - Uses(x)[t] + Uses(x)'[t]
  <2>1. \A u \in Tasks \ {t} : Uses(x)'[u] = Uses(x)[u]
    BY <1>1, <1>2
  <2> QED
    BY <1>1, <1>2, <2>1, TokensChange
<1>4. Cardinality(Pairs(allocated', field', x)) =
          Cardinality(Pairs(allocated, field, x))
              - (IF a \in allocated THEN Occurrences(field[a], x) ELSE 0)
              + (IF a \in allocated' THEN Occurrences(field'[a], x) ELSE 0)
  <2> DEFINE T == allocated'
             s == field'
  <2>1. allocated \in SUBSET Blocks /\ T \in SUBSET Blocks
    BY DEF TypeOK
  <2>2. \A c \in Blocks \ {a} : (c \in T <=> c \in allocated) /\ s[c] = field[c]
    OBVIOUS
  <2> HIDE DEF T, s
  <2>3. Cardinality(Pairs(T, s, x)) =
            Cardinality(Pairs(allocated, field, x))
                - (IF a \in allocated THEN Occurrences(field[a], x) ELSE 0)
                + (IF a \in T THEN Occurrences(s[a], x) ELSE 0)
    BY <2>1, <2>2, PairsChange
  <2> QED
    BY <2>3 DEF T, s
<1>5. /\ Cardinality(Tokens(Uses(x))) \in Nat
      /\ Cardinality(Pairs(allocated, field, x)) \in Nat
  BY <1>1, TokensAreFinite, PairsAreFinite DEF TypeOK
<1>6. Occurrences(field[a], x) \in Nat /\ Occurrences(field'[a], x) \in Nat
  BY OccurrencesAreFinite
<1> QED
  BY <1>1, <1>2, <1>3, <1>4, <1>5, <1>6

(* A reference that moves from one task to another leaves as many.         *)
LEMMA ReferencesMove ==
    ASSUME TypeOK, TypeOK', NEW t \in Tasks, NEW u \in Tasks, t # u, NEW x \in Blocks,
           \A v \in Tasks \ {t, u} : Has(v, x)' = Has(v, x),
           Has(t, x)' + Has(u, x)' = Has(t, x) + Has(u, x),
           UNCHANGED <<allocated, field>>
    PROVE  AllReferences(x)' = AllReferences(x)
<1> DEFINE n == Uses(x)
           k == Uses(x)'
<1>1. /\ n \in [Tasks -> Nat]
      /\ \A v \in Tasks : n[v] = Has(v, x) /\ Has(v, x) \in Nat
      /\ AllReferences(x) = Cardinality(Tokens(n)) + Cardinality(Pairs(allocated, field, x))
  BY UsesAreTokens DEF AllReferences
<1>2. /\ k \in [Tasks -> Nat]
      /\ \A v \in Tasks : k[v] = Has(v, x)' /\ Has(v, x)' \in Nat
      /\ AllReferences(x)' = Cardinality(Tokens(k)) + Cardinality(Pairs(allocated, field, x))
  <2>1. k = [v \in Tasks |-> held'[v][x] + pending'[v][x]]
    BY DEF Uses
  <2>2. \A v \in Tasks : held'[v][x] \in Nat /\ pending'[v][x] \in Nat
    BY DEF TypeOK, Bags
  <2>3. VariableReferences(x)' = Tokens(k)
    BY <2>1 DEF VariableReferences, Tokens
  <2>4. FieldReferences(x)' = Pairs(allocated, field, x)
    BY DEF FieldReferences, Pairs
  <2> QED
    BY <2>1, <2>2, <2>3, <2>4 DEF Has, AllReferences
<1> HIDE DEF n, k
<1>3. (\A v \in Tasks \ {t, u} : k[v] = n[v]) /\ k[t] + k[u] = n[t] + n[u]
  BY <1>1, <1>2
<1>4. Cardinality(Tokens(k)) = Cardinality(Tokens(n))
  BY <1>1, <1>2, <1>3, TokensMove
<1> QED
  BY <1>1, <1>2, <1>4

----------------------------------------------------------------------------
(* Bags of references.                                                     *)

LEMMA BagFacts ==
    /\ Empty \in Bags
    /\ \A v \in Values : One(v) \in Bags
    /\ \A v \in Values, x \in Blocks : One(v)[x] = IF x = v THEN 1 ELSE 0
    /\ \A x \in Blocks : Empty[x] = 0
    /\ \A m, n \in Bags : Plus(m, n) \in Bags /\ (Covers(m, n) => Minus(m, n) \in Bags)
    /\ \A m, n \in Bags, x \in Blocks :
          Plus(m, n)[x] = m[x] + n[x] /\ Minus(m, n)[x] = m[x] - n[x]
  BY DEF Bags, Empty, One, Plus, Minus, Covers

LEMMA ReferencesAreABag ==
    ASSUME NEW r
    PROVE  References(r) \in Bags /\ \A x \in Blocks : References(r)[x] = Occurrences(r, x)
<1>1. \A x \in Blocks : Occurrences(r, x) \in Nat
  BY OccurrencesAreFinite
<1> QED
  BY <1>1 DEF References, Bags

(* The count that a block in use or a free one should have.                *)
Balance(x) ==
    AllReferences(x) = IF x \in allocated
                       THEN IF count[x] < 0 THEN -count[x] ELSE count[x] + 1
                       ELSE 0

LEMMA BalanceOfAll ==
    /\ CountsBalance <=> \A x \in Blocks : Balance(x)
    /\ CountsBalance' <=> \A x \in Blocks : Balance(x)'
  BY DEF CountsBalance, Balance, IsSynchronized

(* What is referred to is in use.                                          *)
LEMMA ReferencedIsAllocated ==
    ASSUME TypeOK, CountsBalance
    PROVE  /\ \A t \in Tasks, x \in Blocks : Has(t, x) > 0 => x \in allocated
           /\ \A t \in Tasks, x \in Blocks : held[t][x] > 0 => x \in allocated
           /\ \A t \in Tasks, x \in Blocks : pending[t][x] > 0 => x \in allocated
           /\ \A a \in allocated, f \in Fields : field[a][f] # Nil => field[a][f] \in allocated
<1>1. ASSUME NEW t \in Tasks, NEW x \in Blocks, Has(t, x) > 0 PROVE x \in allocated
  <2>1. AllReferences(x) \in Nat /\ Has(t, x) \in Nat /\ Has(t, x) <= AllReferences(x)
    BY ReferencesBound
  <2>2. AllReferences(x) # 0
    BY <1>1, <2>1
  <2> QED
    BY <2>2, BalanceOfAll DEF Balance
<1>2. \A t \in Tasks, x \in Blocks : held[t][x] \in Nat /\ pending[t][x] \in Nat
  BY DEF TypeOK, Bags
<1>3. ASSUME NEW a \in allocated, NEW f \in Fields, field[a][f] # Nil
      PROVE  field[a][f] \in allocated
  <2>1. field[a][f] \in Blocks
    BY <1>3 DEF TypeOK, Values
  <2>2. AllReferences(field[a][f]) # 0
    BY <2>1, ReferencesBound
  <2> QED
    BY <2>1, <2>2, BalanceOfAll DEF Balance
<1> QED
  BY <1>1, <1>2, <1>3 DEF Has

(* The only reference to a block is nobody else's and in no field.         *)
LEMMA UniqueIsNotShared ==
    ASSUME TypeOK, CountsBalance, NEW t \in Tasks, NEW b \in Blocks,
           IsUnique(b), Has(t, b) > 0
    PROVE  /\ b \in allocated
           /\ AllReferences(b) = 1
           /\ Has(t, b) = 1
           /\ \A w \in Tasks \ {t} : Has(w, b) = 0
           /\ \A a \in allocated, f \in Fields : field[a][f] # b
           /\ Occurrences(field[b], b) = 0
<1>1. b \in allocated
  BY ReferencedIsAllocated
<1>2. AllReferences(b) = 1
  BY <1>1, BalanceOfAll DEF Balance, IsUnique, IsSynchronized
<1>3. /\ Has(t, b) \in Nat /\ Has(t, b) <= 1
      /\ \A w \in Tasks \ {t} : Has(w, b) \in Nat /\ Has(t, b) + Has(w, b) <= 1
      /\ \A a \in allocated, f \in Fields : field[a][f] = b => Has(t, b) < 1
  BY <1>2, ReferencesBound
<1>4. \A a \in allocated, f \in Fields : field[a][f] # b
  BY <1>3
<1>5. Occurrences(field[b], b) = 0
  BY <1>1, <1>4, OccurrencesAreFinite
<1> QED
  BY <1>1, <1>2, <1>3, <1>4, <1>5

(* References come and go, and the count follows.                          *)
LEMMA CountFollows ==
    ASSUME TypeOK, TypeOK', CountsBalance, NEW x \in Blocks, NEW d \in Int,
           AllReferences(x)' = AllReferences(x) + d,
           AllReferences(x) + d > 0,
           x \in allocated, x \in allocated',
           count'[x] = IF count[x] < 0 THEN count[x] - d ELSE count[x] + d
    PROVE  Balance(x)' /\ (count'[x] < 0 <=> count[x] < 0)
<1>1. count[x] \in Int
  BY DEF TypeOK
<1>2. AllReferences(x) = IF count[x] < 0 THEN -count[x] ELSE count[x] + 1
  BY BalanceOfAll DEF Balance
<1>3. AllReferences(x)' = IF count'[x] < 0 THEN -count'[x] ELSE count'[x] + 1
  BY <1>1, <1>2
<1>4. count'[x] < 0 <=> count[x] < 0
  BY <1>1, <1>2
<1> QED
  BY <1>3, <1>4 DEF Balance

(* A block whose references and count stay as they are.                    *)
LEMMA CountStays ==
    ASSUME CountsBalance, NEW x \in Blocks,
           AllReferences(x)' = AllReferences(x),
           x \in allocated' <=> x \in allocated,
           x \in allocated => count'[x] = count[x]
    PROVE  Balance(x)'
  BY BalanceOfAll DEF Balance

(* A state in which there are no references but those of a task to x.      *)
LEMMA FreeHasNoReferences ==
    ASSUME TypeOK, CountsBalance, NEW x \in Blocks, x \notin allocated
    PROVE  /\ AllReferences(x) = 0
           /\ \A t \in Tasks : Has(t, x) = 0 /\ held[t][x] = 0 /\ pending[t][x] = 0
           /\ \A a \in allocated, f \in Fields : field[a][f] # x
<1>1. AllReferences(x) = 0
  BY BalanceOfAll DEF Balance
<1>2. \A t \in Tasks : Has(t, x) \in Nat /\ Has(t, x) <= 0
  BY <1>1, ReferencesBound
<1>3. \A t \in Tasks : held[t][x] \in Nat /\ pending[t][x] \in Nat
  BY DEF TypeOK, Bags
<1>4. \A a \in allocated, f \in Fields : field[a][f] # x
  BY <1>1, ReferencesBound
<1> QED
  BY <1>1, <1>2, <1>3, <1>4 DEF Has

----------------------------------------------------------------------------
(* What can be reached.                                                    *)

ClosedUnder(record, S) ==
    \A b \in S, f \in Fields : record[b][f] # Nil => record[b][f] \in S

From(record, roots) ==
    {b \in Blocks : \A S \in SUBSET Blocks : roots \subseteq S /\ ClosedUnder(record, S) => b \in S}

Roots(t) == {b \in Blocks : held[t][b] + pending[t][b] > 0}

LEMMA ReachableIsFrom ==
    /\ \A roots : Reachable(roots) = From(field, roots)
    /\ \A t : ReachableFrom(t) = From(field, Roots(t))
    /\ \A t \in Tasks : ReachableFrom(t)' = From(field', Roots(t)')
  BY DEF Reachable, IsClosed, From, ClosedUnder, ReachableFrom, Roots

LEMMA FromIsLeast ==
    ASSUME NEW record, NEW roots, NEW S \in SUBSET Blocks,
           roots \subseteq S, ClosedUnder(record, S)
    PROVE  From(record, roots) \subseteq S
  BY DEF From

LEMMA FromIsClosed ==
    ASSUME NEW record \in [Blocks -> [Fields -> Values]], NEW roots \in SUBSET Blocks
    PROVE  /\ roots \subseteq From(record, roots)
           /\ From(record, roots) \in SUBSET Blocks
           /\ ClosedUnder(record, From(record, roots))
<1>1. roots \subseteq From(record, roots) /\ From(record, roots) \in SUBSET Blocks
  BY DEF From
<1>2. ASSUME NEW b \in From(record, roots), NEW f \in Fields, record[b][f] # Nil
      PROVE  record[b][f] \in From(record, roots)
  <2>1. b \in Blocks
    BY DEF From
  <2>2. record[b][f] \in Blocks
    BY <1>2, <2>1 DEF Values
  <2>3. ASSUME NEW S \in SUBSET Blocks, roots \subseteq S, ClosedUnder(record, S)
        PROVE  record[b][f] \in S
    <3>1. b \in S
      BY <2>3 DEF From
    <3> QED
      BY <1>2, <2>3, <3>1 DEF ClosedUnder
  <2> QED
    BY <2>2, <2>3 DEF From
<1> QED
  BY <1>1, <1>2 DEF ClosedUnder

(* More roots reach more.                                                  *)
LEMMA FromGrows ==
    ASSUME NEW record \in [Blocks -> [Fields -> Values]],
           NEW roots \in SUBSET Blocks, NEW more \in SUBSET Blocks,
           roots \subseteq From(record, more)
    PROVE  From(record, roots) \subseteq From(record, more)
  BY FromIsClosed, FromIsLeast

(* What is written to blocks out of reach changes nothing.                 *)
LEMMA FromStays ==
    ASSUME NEW record \in [Blocks -> [Fields -> Values]],
           NEW new \in [Blocks -> [Fields -> Values]],
           NEW roots \in SUBSET Blocks,
           \A a \in From(record, roots) : new[a] = record[a]
    PROVE  From(new, roots) = From(record, roots)
<1> DEFINE R == From(record, roots)
           N == From(new, roots)
<1>1. roots \subseteq R /\ R \in SUBSET Blocks /\ ClosedUnder(record, R)
  BY FromIsClosed
<1>2. roots \subseteq N /\ N \in SUBSET Blocks /\ ClosedUnder(new, N)
  BY FromIsClosed
<1>3. \A a \in R : new[a] = record[a]
  OBVIOUS
<1> HIDE DEF R, N
<1>4. ClosedUnder(new, R)
  BY <1>1, <1>3 DEF ClosedUnder
<1>5. ClosedUnder(record, R \cap N)
  BY <1>1, <1>2, <1>3 DEF ClosedUnder
<1>6. From(new, roots) \subseteq R
  BY <1>1, <1>4, FromIsLeast
<1>7. R \cap N \in SUBSET Blocks /\ roots \subseteq R \cap N
  BY <1>1, <1>2
<1>8. From(record, roots) \subseteq R \cap N
  BY <1>5, <1>7, FromIsLeast
<1> QED
  BY <1>6, <1>8 DEF R, N

(* Two sets of roots reach no more than each of them.                      *)
LEMMA FromUnion ==
    ASSUME NEW record \in [Blocks -> [Fields -> Values]],
           NEW one \in SUBSET Blocks, NEW two \in SUBSET Blocks
    PROVE  From(record, one \cup two) \subseteq From(record, one) \cup From(record, two)
<1> DEFINE O == From(record, one)
           W == From(record, two)
<1>1. one \subseteq O /\ O \in SUBSET Blocks /\ ClosedUnder(record, O)
  BY FromIsClosed
<1>2. two \subseteq W /\ W \in SUBSET Blocks /\ ClosedUnder(record, W)
  BY FromIsClosed
<1> HIDE DEF O, W
<1>3. ClosedUnder(record, O \cup W)
  BY <1>1, <1>2 DEF ClosedUnder
<1>4. From(record, one \cup two) \subseteq O \cup W
  BY <1>1, <1>2, <1>3, FromIsLeast
<1> QED
  BY <1>4 DEF O, W

(* Only blocks in use can be reached, and of them only what a task has or  *)
(* another block refers to.                                                *)
LEMMA ReachIsAllocated ==
    ASSUME TypeOK, CountsBalance, NEW t \in Tasks
    PROVE  /\ Roots(t) \in SUBSET Blocks
           /\ Roots(t) = {b \in Blocks : Has(t, b) > 0}
           /\ From(field, Roots(t)) \subseteq allocated
           /\ \A b \in Blocks :
                 Has(t, b) = 0 /\ (\A a \in allocated, f \in Fields : field[a][f] # b)
                     => b \notin From(field, Roots(t))
<1>1. Roots(t) = {b \in Blocks : Has(t, b) > 0}
  BY DEF Roots, Has
<1>2. ClosedUnder(field, allocated) /\ Roots(t) \subseteq allocated /\ allocated \in SUBSET Blocks
  BY <1>1, ReferencedIsAllocated DEF ClosedUnder, TypeOK
<1>3. From(field, Roots(t)) \subseteq allocated
  BY <1>2, FromIsLeast
<1>4. ASSUME NEW b \in Blocks, Has(t, b) = 0, \A a \in allocated, f \in Fields : field[a][f] # b
      PROVE  b \notin From(field, Roots(t))
  <2>1. ClosedUnder(field, allocated \ {b})
    BY <1>2, <1>4 DEF ClosedUnder
  <2>2. Roots(t) \subseteq allocated \ {b} /\ allocated \ {b} \in SUBSET Blocks
    BY <1>1, <1>2, <1>4
  <2> QED
    BY <2>1, <2>2, FromIsLeast
<1> QED
  BY <1>1, <1>3, <1>4

----------------------------------------------------------------------------
(* Steps of a task and what others can reach.                              *)

LEMMA InUse ==
    TypeOK /\ CountsBalance =>
        /\ \A t \in Tasks : Roots(t) \in SUBSET Blocks /\ From(field, Roots(t)) \subseteq allocated
        /\ \A t \in Tasks, x \in Blocks : held[t][x] > 0 => x \in allocated
        /\ \A a \in allocated, f \in Fields : field[a][f] # Nil => field[a][f] \in allocated
  BY ReferencedIsAllocated, ReachIsAllocated

LEMMA InUseNext ==
    ASSUME TypeOK', CountsBalance'
    PROVE  /\ \A t \in Tasks : Roots(t)' \in SUBSET Blocks /\ From(field', Roots(t)') \subseteq allocated'
           /\ \A t \in Tasks, x \in Blocks : held'[t][x] > 0 => x \in allocated'
           /\ \A a \in allocated', f \in Fields : field'[a][f] # Nil => field'[a][f] \in allocated'
<1>1. (TypeOK /\ CountsBalance =>
          /\ \A t \in Tasks : Roots(t) \in SUBSET Blocks /\ From(field, Roots(t)) \subseteq allocated
          /\ \A t \in Tasks, x \in Blocks : held[t][x] > 0 => x \in allocated
          /\ \A a \in allocated, f \in Fields : field[a][f] # Nil => field[a][f] \in allocated)'
  BY InUse, PTL
<1>2. \A t \in Tasks : From(field, Roots(t))' = From(field', Roots(t)')
  BY DEF From, ClosedUnder
<1> QED
  BY <1>1, <1>2

HoldsClosure(t) ==
    /\ syncing[t] # {} => outbox[t] # Nowhere
    /\ outbox[t] # Nowhere =>
          /\ outbox[t].block \in Blocks
          /\ outbox[t].to \in Tasks \ {t}
          /\ held[t][outbox[t].block] > 0
          /\ pending[t] = Empty
          /\ outbox[t].block \in syncing[t] \/ IsSynchronized(outbox[t].block)

(* Whatever else a step does, synchronized blocks remain closed when the   *)
(* fields that are new refer to synchronized blocks.                       *)
LEMMA StaysClosed ==
    ASSUME Inductive, TypeOK', CountsBalance', leaked => leaked',
           \A w \in Tasks : syncing[w] \subseteq syncing'[w],
           \A x \in allocated \cap allocated' : count[x] < 0 => count'[x] < 0,
           \A a \in allocated', f \in Fields :
               ~leaked' /\ count'[a] < 0 /\ field'[a][f] # Nil =>
                  \/ a \in allocated /\ count[a] < 0 /\ field[a][f] = field'[a][f]
                  \/ count'[field'[a][f]] < 0
    PROVE  SynchronizedIsClosed'
<1>1. SUFFICES ASSUME ~leaked', NEW a \in allocated', NEW f \in Fields,
                      count'[a] < 0, field'[a][f] # Nil
               PROVE  \/ count'[field'[a][f]] < 0
                      \/ \E w \in Tasks : field'[a][f] \in syncing'[w]
  BY DEF SynchronizedIsClosed, IsSynchronized
<1>2. CASE count'[field'[a][f]] < 0
  BY <1>2
<1>3. CASE a \in allocated /\ count[a] < 0 /\ field[a][f] = field'[a][f]
  <2>1. field'[a][f] \in allocated /\ field'[a][f] \in allocated'
    BY <1>1, <1>3, InUse, InUseNext DEF Inductive
  <2>2. count[field[a][f]] < 0 \/ \E w \in Tasks : field[a][f] \in syncing[w]
    BY <1>1, <1>3 DEF Inductive, SynchronizedIsClosed, IsSynchronized
  <2> QED
    BY <1>3, <2>1, <2>2
<1> QED
  BY <1>1, <1>2, <1>3

(* A step of t that writes to nothing another task reaches, and after      *)
(* which t reaches no more than it did and new blocks.                     *)
LEMMA LocalStep ==
    ASSUME Inductive, TypeOK', CountsBalance', SynchronizedIsClosed', leaked => leaked',
           NEW t \in Tasks,
           \A w \in Tasks \ {t} : /\ held'[w] = held[w] /\ pending'[w] = pending[w]
                                  /\ syncing'[w] = syncing[w] /\ outbox'[w] = outbox[w],
           \A w \in Tasks \ {t} : \A a \in From(field, Roots(w)) : field'[a] = field[a],
           From(field', Roots(t)') \subseteq From(field, Roots(t)) \cup (Blocks \ allocated),
           \A x \in allocated \cap allocated' : count[x] < 0 => count'[x] < 0,
           HoldsClosure(t)',
           syncing'[t] \subseteq From(field', Roots(t)')
    PROVE  Inductive'
<1>1. \A w \in Tasks : Roots(w) \in SUBSET Blocks /\ From(field, Roots(w)) \subseteq allocated
  BY InUse DEF Inductive
<1>2. \A w \in Tasks : Roots(w)' \in SUBSET Blocks /\ From(field', Roots(w)') \subseteq allocated'
  BY InUseNext
<1>3. \A w \in Tasks \ {t} : From(field', Roots(w)') = From(field, Roots(w))
  <2> TAKE w \in Tasks \ {t}
  <2>1. Roots(w)' = Roots(w)
    BY DEF Roots
  <2>2. field \in [Blocks -> [Fields -> Values]]
    BY DEF Inductive, TypeOK
  <2>3. field' \in [Blocks -> [Fields -> Values]]
    BY DEF TypeOK
  <2>4. From(field', Roots(w)) = From(field, Roots(w))
    BY <1>1, <2>2, <2>3, FromStays
  <2> QED
    BY <2>1, <2>4
<1>4. SyncingIsReached'
  <2>1. ASSUME NEW w \in Tasks PROVE syncing'[w] \subseteq From(field', Roots(w)')
    <3>1. CASE w = t
      BY <3>1
    <3>2. CASE w # t
      <4>1. syncing[w] \subseteq From(field, Roots(w))
        BY ReachableIsFrom DEF Inductive, SyncingIsReached
      <4> QED
        BY <1>3, <3>2, <4>1
    <3> QED
      BY <3>1, <3>2
  <2> QED
    BY <2>1, ReachableIsFrom DEF SyncingIsReached
<1>5. SpawnersHoldClosures'
  <2>1. ASSUME NEW w \in Tasks, w # t PROVE HoldsClosure(w)'
    <3>1. HoldsClosure(w)
      BY DEF Inductive, SpawnersHoldClosures, HoldsClosure
    <3>2. held'[w] = held[w] /\ pending'[w] = pending[w]
          /\ syncing'[w] = syncing[w] /\ outbox'[w] = outbox[w]
      BY <2>1
    <3>3. ASSUME outbox[w] # Nowhere PROVE outbox[w].block \in allocated \cap allocated'
      <4>1. outbox[w].block \in Blocks /\ held[w][outbox[w].block] > 0
        BY <3>1, <3>3 DEF HoldsClosure
      <4> QED
        BY <3>2, <4>1, InUse, InUseNext DEF Inductive
    <3> QED
      BY <3>1, <3>2, <3>3 DEF HoldsClosure, IsSynchronized
  <2>2. \A w \in Tasks : HoldsClosure(w)'
    BY <2>1
  <2> QED
    BY <2>2 DEF SpawnersHoldClosures, HoldsClosure
<1>6. NothingElseLeaks'
  <2>1. ASSUME ~leaked', NEW w \in Tasks, w # t, NEW v \in Tasks, v # w,
               NEW x \in From(field', Roots(w)'), x \in From(field', Roots(v)')
        PROVE  count'[x] < 0
    <3>1. x \in From(field, Roots(w)) /\ x \in allocated /\ x \in allocated'
      BY <1>1, <1>2, <1>3, <2>1
    <3>2. x \in From(field, Roots(v))
      BY <1>3, <2>1, <3>1
    <3>3. count[x] < 0
      BY <2>1, <3>1, <3>2, ReachableIsFrom
      DEF Inductive, NothingElseLeaks, SharedBlocksAreSynchronized, IsSynchronized
    <3> QED
      BY <3>1, <3>3
  <2>2. ASSUME ~leaked', NEW v \in Tasks, NEW w \in Tasks, v # w,
               NEW x \in From(field', Roots(v)'), x \in From(field', Roots(w)')
        PROVE  count'[x] < 0
    <3>1. CASE w # t
      BY <2>1, <2>2, <3>1
    <3>2. CASE w = t
      BY <2>1, <2>2, <3>2
    <3> QED
      BY <3>1, <3>2
  <2> QED
    BY <2>2, ReachableIsFrom DEF NothingElseLeaks, SharedBlocksAreSynchronized, IsSynchronized
<1> QED
  BY <1>4, <1>5, <1>6 DEF Inductive

(* A reference that moves from t to u takes what it reaches with it.       *)
LEMMA MoveStep ==
    ASSUME Inductive, TypeOK', leaked => leaked',
           NEW t \in Tasks, NEW u \in Tasks, t # u, NEW b \in Blocks,
           held[t][b] > 0, Move(t, u, b),
           UNCHANGED <<allocated, count, field, pending, syncing>>,
           syncing[t] = {}, outbox'[t] = Nowhere,
           \A w \in Tasks \ {t} : outbox'[w] = outbox[w],
           ~leaked' => \A w \in Tasks \ {u} : \A x \in From(field, {b}) :
                          x \in From(field', Roots(w)') => count[x] < 0
    PROVE  Inductive'
<1>1. TypeOK /\ CountsBalance /\ SpawnersHoldClosures /\ SyncingIsReached
  BY DEF Inductive
<1>2. /\ \A w \in Tasks \ {t, u} : held'[w] = held[w]
      /\ \A x \in Blocks : held'[t][x] = held[t][x] - One(b)[x]
      /\ \A x \in Blocks : held'[u][x] = held[u][x] + One(b)[x]
  <2>1. held \in [Tasks -> Bags]
    BY <1>1 DEF TypeOK
  <2>2. /\ held'[t] = Minus(held[t], One(b))
        /\ held'[u] = Plus(held[u], One(b))
        /\ \A w \in Tasks \ {t, u} : held'[w] = held[w]
    BY <2>1 DEF Move
  <2> QED
    BY <2>2 DEF Plus, Minus
<1>3. \A x \in Blocks : One(b)[x] = IF x = b THEN 1 ELSE 0
  BY BagFacts DEF Values
<1>4. \A w \in Tasks, x \in Blocks : held[w][x] \in Nat /\ pending[w][x] \in Nat
  BY <1>1 DEF TypeOK, Bags
<1>5. CountsBalance'
  <2>1. ASSUME NEW x \in Blocks PROVE AllReferences(x)' = AllReferences(x)
    <3>1. \A w \in Tasks \ {t, u} : Has(w, x)' = Has(w, x)
      BY <1>2 DEF Has
    <3>2. Has(t, x)' + Has(u, x)' = Has(t, x) + Has(u, x)
      <4>1. Has(t, x)' = held[t][x] - One(b)[x] + pending[t][x]
        BY <1>2 DEF Has
      <4>2. Has(u, x)' = held[u][x] + One(b)[x] + pending[u][x]
        BY <1>2 DEF Has
      <4>3. One(b)[x] \in Nat
        BY <1>3
      <4> QED
        BY <1>4, <4>1, <4>2, <4>3 DEF Has
    <3> QED
      BY <1>1, <3>1, <3>2, ReferencesMove
  <2>2. \A x \in Blocks : Balance(x)'
    BY <1>1, <2>1, CountStays
  <2> QED
    BY <2>2, BalanceOfAll
<1>6. SynchronizedIsClosed'
  BY DEF Inductive, SynchronizedIsClosed, IsSynchronized
<1>7. field \in [Blocks -> [Fields -> Values]] /\ field' = field
  BY <1>1 DEF TypeOK
<1>8. \A w \in Tasks : Roots(w) \in SUBSET Blocks /\ Roots(w)' \in SUBSET Blocks
  BY DEF Roots
<1>9. /\ \A w \in Tasks \ {t, u} : Roots(w)' = Roots(w)
      /\ Roots(t)' \subseteq Roots(t)
      /\ Roots(u) \subseteq Roots(u)'
      /\ Roots(u)' \subseteq Roots(u) \cup {b}
  <2>1. \A w \in Tasks \ {t, u} : Roots(w)' = Roots(w)
    BY <1>2 DEF Roots
  <2>2. ASSUME NEW x \in Roots(t)' PROVE x \in Roots(t)
    <3>1. x \in Blocks /\ held'[t][x] + pending[t][x] > 0
      BY DEF Roots
    <3>2. held'[t][x] = held[t][x] - One(b)[x]
      BY <1>2, <3>1
    <3> QED
      BY <1>3, <1>4, <3>1, <3>2 DEF Roots
  <2>3. ASSUME NEW x \in Roots(u) PROVE x \in Roots(u)'
    <3>1. x \in Blocks /\ held[u][x] + pending[u][x] > 0
      BY DEF Roots
    <3>2. held'[u][x] = held[u][x] + One(b)[x]
      BY <1>2, <3>1
    <3> QED
      BY <1>3, <1>4, <3>1, <3>2 DEF Roots
  <2>4. ASSUME NEW x \in Roots(u)', x # b PROVE x \in Roots(u)
    <3>1. x \in Blocks /\ held'[u][x] + pending[u][x] > 0
      BY DEF Roots
    <3>2. held'[u][x] = held[u][x] + One(b)[x]
      BY <1>2, <3>1
    <3> QED
      BY <1>3, <1>4, <2>4, <3>1, <3>2 DEF Roots
  <2> QED
    BY <2>1, <2>2, <2>3, <2>4
<1>10. /\ \A w \in Tasks \ {t, u} : From(field', Roots(w)') = From(field, Roots(w))
       /\ From(field', Roots(t)') \subseteq From(field, Roots(t))
       /\ From(field, Roots(u)) \subseteq From(field', Roots(u)')
       /\ From(field', Roots(u)') \subseteq From(field, Roots(u)) \cup From(field, {b})
  <2>1. \A w \in Tasks \ {t, u} : From(field', Roots(w)') = From(field, Roots(w))
    BY <1>7, <1>9
  <2>2. From(field', Roots(t)') \subseteq From(field, Roots(t))
    <3>1. Roots(t) \subseteq From(field, Roots(t))
      BY <1>7, <1>8, FromIsClosed
    <3> QED
      BY <1>7, <1>8, <1>9, <3>1, FromGrows
  <2>3. From(field, Roots(u)) \subseteq From(field', Roots(u)')
    <3>1. Roots(u)' \subseteq From(field, Roots(u)')
      BY <1>7, <1>8, FromIsClosed
    <3>2. From(field, Roots(u)) \subseteq From(field, Roots(u)')
      BY <1>7, <1>8, <1>9, <3>1, FromGrows
    <3> QED
      BY <1>7, <3>2
  <2>4. From(field', Roots(u)') \subseteq From(field, Roots(u)) \cup From(field, {b})
    <3>1. Roots(u) \cup {b} \in SUBSET Blocks
      BY <1>8
    <3>2. Roots(u) \cup {b} \subseteq From(field, Roots(u) \cup {b})
      BY <1>7, <3>1, FromIsClosed
    <3>3. From(field, Roots(u)') \subseteq From(field, Roots(u) \cup {b})
      BY <1>7, <1>8, <1>9, <3>1, <3>2, FromGrows
    <3>4. From(field, Roots(u) \cup {b}) \subseteq From(field, Roots(u)) \cup From(field, {b})
      BY <1>7, <1>8, FromUnion
    <3> QED
      BY <1>7, <3>3, <3>4
  <2> QED
    BY <2>1, <2>2, <2>3, <2>4
<1>11. SyncingIsReached'
  <2>1. ASSUME NEW w \in Tasks PROVE syncing'[w] \subseteq From(field', Roots(w)')
    <3>1. syncing[w] \subseteq From(field, Roots(w)) /\ syncing'[w] = syncing[w]
      BY <1>1, ReachableIsFrom DEF SyncingIsReached
    <3> QED
      BY <1>10, <3>1
  <2> QED
    BY <2>1, ReachableIsFrom DEF SyncingIsReached
<1>12. SpawnersHoldClosures'
  <2>1. ASSUME NEW w \in Tasks PROVE HoldsClosure(w)'
    <3>1. CASE w = t
      BY <3>1 DEF HoldsClosure
    <3>2. CASE w # t
      <4>1. HoldsClosure(w)
        BY <1>1 DEF SpawnersHoldClosures, HoldsClosure
      <4>2. \A x \in Blocks : held[w][x] > 0 => held'[w][x] > 0
        BY <1>2, <1>3, <1>4, <3>2
      <4>3. outbox'[w] = outbox[w]
        BY <3>2
      <4> QED
        BY <4>1, <4>2, <4>3 DEF HoldsClosure, IsSynchronized
    <3> QED
      BY <3>1, <3>2
  <2> QED
    BY <2>1 DEF SpawnersHoldClosures, HoldsClosure
<1>13. NothingElseLeaks'
  <2>1. ASSUME ~leaked', NEW w \in Tasks, w # u, NEW v \in Tasks, v # w,
               NEW x \in From(field', Roots(w)'), x \in From(field', Roots(v)')
        PROVE  count[x] < 0
    <3>1. x \in From(field, Roots(w))
      BY <1>10, <2>1
    <3>2. CASE x \in From(field, Roots(v))
      BY <2>1, <3>1, <3>2, ReachableIsFrom
      DEF Inductive, NothingElseLeaks, SharedBlocksAreSynchronized, IsSynchronized
    <3>3. CASE x \in From(field, {b})
      BY <2>1, <3>3
    <3> QED
      BY <1>10, <2>1, <3>2, <3>3
  <2>2. ASSUME ~leaked', NEW v \in Tasks, NEW w \in Tasks, v # w,
               NEW x \in From(field', Roots(v)'), x \in From(field', Roots(w)')
        PROVE  count'[x] < 0
    <3>1. CASE w # u
      BY <2>1, <2>2, <3>1
    <3>2. CASE w = u
      BY <2>1, <2>2, <3>2
    <3> QED
      BY <3>1, <3>2
  <2> QED
    BY <2>2, ReachableIsFrom DEF NothingElseLeaks, SharedBlocksAreSynchronized, IsSynchronized
<1> QED
  BY <1>5, <1>6, <1>11, <1>12, <1>13 DEF Inductive

----------------------------------------------------------------------------
(* Steps of one task, point by point.                                      *)

LEMMA HoldStep ==
    ASSUME TypeOK, NEW t \in Tasks, NEW bag \in Bags, Hold(t, bag)
    PROVE  /\ held' \in [Tasks -> Bags]
           /\ held'[t] = bag
           /\ \A w \in Tasks \ {t} : held'[w] = held[w]
  BY DEF TypeOK, Hold

LEMMA PendingStep ==
    ASSUME TypeOK, NEW t \in Tasks, NEW bag \in Bags, pending' = [pending EXCEPT ![t] = bag]
    PROVE  /\ pending' \in [Tasks -> Bags]
           /\ pending'[t] = bag
           /\ \A w \in Tasks \ {t} : pending'[w] = pending[w]
  BY DEF TypeOK

LEMMA MoreCounts ==
    ASSUME TypeOK, NEW n \in [Blocks -> Int]
    PROVE  /\ More(count, n) \in [Blocks -> Int]
           /\ \A x \in Blocks : More(count, n)[x] =
                 IF count[x] < 0 THEN count[x] - n[x] ELSE count[x] + n[x]
  BY DEF TypeOK, More

(* Other tasks keep what they have.                                        *)
OthersKeep(t) ==
    \A w \in Tasks \ {t} : /\ held'[w] = held[w] /\ pending'[w] = pending[w]
                           /\ syncing'[w] = syncing[w] /\ outbox'[w] = outbox[w]

(* The references to x that a step of t which writes to a brings.          *)
Gain(t, a, x) ==
    Has(t, x)' - Has(t, x)
        - (IF a \in allocated THEN Occurrences(field[a], x) ELSE 0)
        + (IF a \in allocated' THEN Occurrences(field'[a], x) ELSE 0)

OnlyWrites(a) ==
    \A c \in Blocks \ {a} : (c \in allocated' <=> c \in allocated) /\ field'[c] = field[c]

(* Counts balance after a step that counts what it gains: for blocks that  *)
(* stay in use, blocks that are freed or stay free, and new ones.          *)
LEMMA CountsAfter ==
    ASSUME TypeOK, TypeOK', CountsBalance,
           NEW t \in Tasks, NEW a \in Blocks, NEW d \in [Blocks -> Int],
           OthersKeep(t), OnlyWrites(a),
           \A x \in Blocks : Gain(t, a, x) = d[x],
           \A x \in Blocks :
              \/ /\ x \in allocated /\ x \in allocated' /\ AllReferences(x) + d[x] > 0
                 /\ count'[x] = IF count[x] < 0 THEN count[x] - d[x] ELSE count[x] + d[x]
              \/ x \notin allocated' /\ AllReferences(x) + d[x] = 0
              \/ x \notin allocated /\ x \in allocated' /\ d[x] = 1 /\ count'[x] = 0
    PROVE  /\ CountsBalance'
           /\ \A x \in allocated \cap allocated' : count'[x] < 0 <=> count[x] < 0
<1>1. ASSUME NEW x \in Blocks
      PROVE  Balance(x)' /\ (x \in allocated \cap allocated' => (count'[x] < 0 <=> count[x] < 0))
  <2>1. \A w \in Tasks \ {t} : Has(w, x)' = Has(w, x)
    BY DEF OthersKeep, Has
  <2>2. AllReferences(x)' =
               AllReferences(x) - Has(t, x) + Has(t, x)'
                   - (IF a \in allocated THEN Occurrences(field[a], x) ELSE 0)
                   + (IF a \in allocated' THEN Occurrences(field'[a], x) ELSE 0)
    BY <2>1, ReferencesChange DEF OnlyWrites
  <2>3. AllReferences(x) \in Nat /\ Has(t, x) \in Nat
    BY ReferencesBound
  <2>4. Has(t, x)' \in Nat
    BY DEF Has, TypeOK, Bags
  <2>5. Occurrences(field[a], x) \in Nat /\ Occurrences(field'[a], x) \in Nat
    BY OccurrencesAreFinite
  <2>6. d[x] \in Int /\ Gain(t, a, x) = d[x]
    OBVIOUS
  <2>7. AllReferences(x)' = AllReferences(x) + d[x]
    BY <2>2, <2>3, <2>4, <2>5, <2>6 DEF Gain
  <2>8. CASE /\ x \in allocated /\ x \in allocated' /\ AllReferences(x) + d[x] > 0
             /\ count'[x] = IF count[x] < 0 THEN count[x] - d[x] ELSE count[x] + d[x]
    BY <2>6, <2>7, <2>8, CountFollows
  <2>9. CASE x \notin allocated' /\ AllReferences(x) + d[x] = 0
    BY <2>7, <2>9 DEF Balance
  <2>10. CASE x \notin allocated /\ x \in allocated' /\ d[x] = 1 /\ count'[x] = 0
    <3>1. AllReferences(x) = 0
      BY <2>10, FreeHasNoReferences
    <3> QED
      BY <2>7, <2>10, <3>1 DEF Balance
  <2> QED
    BY <2>8, <2>9, <2>10
<1>2. \A x \in Blocks : Balance(x)'
  BY <1>1
<1>3. allocated \subseteq Blocks
  BY DEF TypeOK
<1> QED
  BY <1>1, <1>2, <1>3, BalanceOfAll

LEMMA BlocksInUseHaveReferences ==
    ASSUME TypeOK, CountsBalance, NEW x \in allocated
    PROVE  x \in Blocks /\ AllReferences(x) \in Nat /\ AllReferences(x) > 0
           /\ (~IsUnique(x) => AllReferences(x) > 1)
<1>1. x \in Blocks /\ count[x] \in Int
  BY DEF TypeOK
<1> QED
  BY <1>1, BalanceOfAll DEF Balance, IsUnique, IsSynchronized

LEMMA IdleHoldsNothing ==
    ASSUME NEW t \in Tasks, syncing'[t] = {}, outbox'[t] = Nowhere
    PROVE  HoldsClosure(t)' /\ syncing'[t] \subseteq From(field', Roots(t)')
  BY DEF HoldsClosure

(* What t reaches when it has no new references but to what it could reach *)
(* and new blocks, and has written nothing else to fields.                 *)
LEMMA ReachAfter ==
    ASSUME TypeOK, TypeOK', NEW t \in Tasks, NEW new \in SUBSET Blocks,
           \A x \in Blocks \ new : Has(t, x)' > Has(t, x) => x \in From(field, Roots(t)),
           \A a \in From(field, Roots(t)), f \in Fields :
               field'[a][f] # Nil => field'[a][f] = field[a][f] \/ field'[a][f] \in From(field, Roots(t)),
           \A a \in new, f \in Fields : field'[a][f] # Nil => field'[a][f] \in From(field, Roots(t))
    PROVE  From(field', Roots(t)') \subseteq From(field, Roots(t)) \cup new
<1> DEFINE R == From(field, Roots(t))
<1>1. /\ field \in [Blocks -> [Fields -> Values]]
      /\ Roots(t) \in SUBSET Blocks
  BY DEF TypeOK, Roots
<1>2. Roots(t) \subseteq R /\ R \in SUBSET Blocks /\ ClosedUnder(field, R)
  BY <1>1, FromIsClosed
<1>3. \A a \in R, f \in Fields : field[a][f] # Nil => field[a][f] \in R
  BY <1>2 DEF ClosedUnder
<1> HIDE DEF R
<1>4. ClosedUnder(field', R \cup new)
  BY <1>3 DEF ClosedUnder, R
<1>5. Roots(t)' \subseteq R \cup new
  <2>1. ASSUME NEW x \in Roots(t)', x \notin new PROVE x \in R
    <3>1. x \in Blocks /\ Has(t, x)' > 0
      BY DEF Roots, Has
    <3>2. CASE Has(t, x)' > Has(t, x)
      BY <2>1, <3>1, <3>2 DEF R
    <3>3. CASE ~(Has(t, x)' > Has(t, x))
      <4>1. Has(t, x) \in Nat /\ Has(t, x)' \in Nat
        BY <3>1 DEF Has, TypeOK, Bags
      <4>2. Has(t, x) > 0
        BY <3>1, <3>3, <4>1
      <4> QED
        BY <1>2, <3>1, <4>2 DEF Roots, Has
    <3> QED
      BY <3>2, <3>3
  <2> QED
    BY <2>1
<1>6. From(field', Roots(t)') \subseteq R \cup new
  BY <1>2, <1>4, <1>5, FromIsLeast
<1> QED
  BY <1>6 DEF R

----------------------------------------------------------------------------
(* The operations that only count.                                         *)

LEMMA CloneVariableKeeps ==
    ASSUME Inductive, NEW t \in Tasks, NEW b \in Blocks, CloneVariable(t, b)
    PROVE  Inductive'
<1>1. TypeOK /\ CountsBalance
  BY DEF Inductive
<1>2. One(b) \in Bags /\ Plus(held[t], One(b)) \in Bags
  BY <1>1, BagFacts DEF TypeOK, Values
<1>3. /\ held' \in [Tasks -> Bags]
      /\ held'[t] = Plus(held[t], One(b))
      /\ \A w \in Tasks \ {t} : held'[w] = held[w]
  BY <1>1, <1>2, HoldStep DEF CloneVariable
<1>4. /\ count' \in [Blocks -> Int]
      /\ \A x \in Blocks : count'[x] =
            IF count[x] < 0 THEN count[x] - One(b)[x] ELSE count[x] + One(b)[x]
  BY <1>1, <1>2, MoreCounts DEF CloneVariable, Bags
<1>5. TypeOK'
  BY <1>1, <1>3, <1>4 DEF TypeOK, CloneVariable
<1>6. UNCHANGED <<allocated, field, pending, syncing, outbox, leaked>>
      /\ syncing[t] = {} /\ outbox[t] = Nowhere /\ b \in allocated /\ held[t][b] > 0
  BY <1>1, ReferencedIsAllocated DEF CloneVariable, Idle
<1>7. OthersKeep(t) /\ OnlyWrites(b)
  BY <1>3, <1>6 DEF OthersKeep, OnlyWrites
<1>8. \A x \in Blocks : One(b)[x] = IF x = b THEN 1 ELSE 0
  BY DEF One
<1>9. \A x \in Blocks : Has(t, x)' = Has(t, x) + One(b)[x] /\ Has(t, x) \in Nat
  <2> TAKE x \in Blocks
  <2>1. held'[t][x] = held[t][x] + One(b)[x]
    BY <1>3 DEF Plus
  <2>2. held[t][x] \in Nat /\ pending[t][x] \in Nat /\ One(b)[x] \in Nat
    BY <1>1, <1>2 DEF TypeOK, Bags
  <2> QED
    BY <1>6, <2>1, <2>2 DEF Has
<1>10. \A x \in Blocks : Gain(t, b, x) = One(b)[x]
  <2> TAKE x \in Blocks
  <2>1. Occurrences(field[b], x) \in Nat
    BY OccurrencesAreFinite
  <2> QED
    BY <1>6, <1>8, <1>9, <2>1 DEF Gain
<1>11. \A x \in Blocks :
              \/ /\ x \in allocated /\ x \in allocated' /\ AllReferences(x) + One(b)[x] > 0
                 /\ count'[x] = IF count[x] < 0 THEN count[x] - One(b)[x] ELSE count[x] + One(b)[x]
              \/ x \notin allocated' /\ AllReferences(x) + One(b)[x] = 0
              \/ x \notin allocated /\ x \in allocated' /\ One(b)[x] = 1 /\ count'[x] = 0
  <2> TAKE x \in Blocks
  <2>1. CASE x \in allocated
    BY <1>1, <1>4, <1>6, <1>8, <2>1, BlocksInUseHaveReferences
  <2>2. CASE x \notin allocated
    BY <1>1, <1>6, <1>8, <2>2, FreeHasNoReferences
  <2> QED
    BY <2>1, <2>2
<1>12. One(b) \in [Blocks -> Int]
  BY <1>2 DEF Bags
<1>13. CountsBalance' /\ \A x \in allocated \cap allocated' : count'[x] < 0 <=> count[x] < 0
  BY <1>1, <1>5, <1>7, <1>10, <1>11, <1>12, CountsAfter
<1>14. SynchronizedIsClosed'
  BY <1>5, <1>6, <1>13, StaysClosed
<1>15. From(field', Roots(t)') \subseteq From(field, Roots(t)) \cup {}
  <2>1. b \in From(field, Roots(t))
    <3>1. b \in Roots(t) /\ Roots(t) \in SUBSET Blocks
      BY <1>1, <1>6 DEF Roots, TypeOK, Bags
    <3> QED
      BY <1>1, <3>1, FromIsClosed DEF TypeOK
  <2>2. \A x \in Blocks \ {} : Has(t, x)' > Has(t, x) => x \in From(field, Roots(t))
    BY <1>8, <1>9, <2>1
  <2>3. \A a \in From(field, Roots(t)), f \in Fields :
            field'[a][f] # Nil => field'[a][f] = field[a][f] \/ field'[a][f] \in From(field, Roots(t))
    BY <1>6
  <2> QED
    BY <1>1, <1>5, <2>2, <2>3, ReachAfter
<1>16. \A w \in Tasks \ {t} : \A a \in From(field, Roots(w)) : field'[a] = field[a]
  BY <1>6
<1>17. HoldsClosure(t)' /\ syncing'[t] \subseteq From(field', Roots(t)')
  BY <1>6, IdleHoldsNothing
<1> QED
  BY <1>5, <1>6, <1>7, <1>13, <1>14, <1>15, <1>16, <1>17, LocalStep DEF OthersKeep

(* What t has, and all that it refers to, can be reached by t.             *)
LEMMA HeldIsReached ==
    ASSUME TypeOK, NEW t \in Tasks
    PROVE  /\ \A x \in Blocks : held[t][x] > 0 => x \in From(field, Roots(t))
           /\ \A x \in Blocks : pending[t][x] > 0 => x \in From(field, Roots(t))
           /\ \A a \in From(field, Roots(t)), f \in Fields :
                 field[a][f] # Nil => field[a][f] \in From(field, Roots(t))
           /\ From(field, Roots(t)) \in SUBSET Blocks
<1>1. Roots(t) \in SUBSET Blocks /\ field \in [Blocks -> [Fields -> Values]]
  BY DEF Roots, TypeOK
<1>2. \A x \in Blocks : held[t][x] \in Nat /\ pending[t][x] \in Nat
  BY DEF TypeOK, Bags
<1>3. /\ \A x \in Blocks : held[t][x] > 0 => x \in Roots(t)
      /\ \A x \in Blocks : pending[t][x] > 0 => x \in Roots(t)
  BY <1>2 DEF Roots
<1>4. /\ Roots(t) \subseteq From(field, Roots(t))
      /\ From(field, Roots(t)) \in SUBSET Blocks
      /\ ClosedUnder(field, From(field, Roots(t)))
  BY <1>1, FromIsClosed
<1> QED
  BY <1>3, <1>4 DEF ClosedUnder

LEMMA DropVariableKeeps ==
    ASSUME Inductive, NEW t \in Tasks, NEW b \in Blocks, DropVariable(t, b)
    PROVE  Inductive'
<1>1. TypeOK /\ CountsBalance
  BY DEF Inductive
<1>2. /\ held[t] \in Bags /\ pending[t] \in Bags
      /\ \A x \in Blocks : One(b)[x] = IF x = b THEN 1 ELSE 0
      /\ held[t][b] > 0
  BY <1>1 DEF TypeOK, One, DropVariable
<1>3. Minus(held[t], One(b)) \in Bags /\ Plus(pending[t], One(b)) \in Bags
  BY <1>2 DEF Bags, Minus, Plus
<1>4. /\ held' \in [Tasks -> Bags]
      /\ held'[t] = Minus(held[t], One(b))
      /\ \A w \in Tasks \ {t} : held'[w] = held[w]
  BY <1>1, <1>3, HoldStep DEF DropVariable
<1>5. /\ pending' \in [Tasks -> Bags]
      /\ pending'[t] = Plus(pending[t], One(b))
      /\ \A w \in Tasks \ {t} : pending'[w] = pending[w]
  BY <1>1, <1>3, PendingStep DEF DropVariable
<1>6. UNCHANGED <<allocated, count, field, syncing, outbox, leaked>>
      /\ syncing[t] = {} /\ outbox[t] = Nowhere
  BY DEF DropVariable, Idle
<1>7. TypeOK'
  BY <1>1, <1>4, <1>5, <1>6 DEF TypeOK
<1>8. OthersKeep(t) /\ OnlyWrites(b)
  BY <1>4, <1>5, <1>6 DEF OthersKeep, OnlyWrites
<1>9. \A x \in Blocks : Has(t, x)' = Has(t, x) /\ Has(t, x) \in Nat
  <2> TAKE x \in Blocks
  <2>1. held'[t][x] = held[t][x] - One(b)[x] /\ pending'[t][x] = pending[t][x] + One(b)[x]
    BY <1>4, <1>5 DEF Plus, Minus
  <2>2. held[t][x] \in Nat /\ pending[t][x] \in Nat
    BY <1>2 DEF Bags
  <2> QED
    BY <1>2, <2>1, <2>2 DEF Has
<1>10. \A x \in Blocks : Gain(t, b, x) = Empty[x] /\ Empty[x] = 0
  <2> TAKE x \in Blocks
  <2>1. Occurrences(field[b], x) \in Nat
    BY OccurrencesAreFinite
  <2>2. Empty[x] = 0
    BY DEF Empty
  <2> QED
    BY <1>6, <1>9, <2>1, <2>2 DEF Gain
<1>11. \A x \in Blocks :
              \/ /\ x \in allocated /\ x \in allocated' /\ AllReferences(x) + Empty[x] > 0
                 /\ count'[x] = IF count[x] < 0 THEN count[x] - Empty[x] ELSE count[x] + Empty[x]
              \/ x \notin allocated' /\ AllReferences(x) + Empty[x] = 0
              \/ x \notin allocated /\ x \in allocated' /\ Empty[x] = 1 /\ count'[x] = 0
  <2> TAKE x \in Blocks
  <2>1. CASE x \in allocated
    <3>1. count[x] \in Int
      BY <1>1 DEF TypeOK
    <3> QED
      BY <1>1, <1>6, <1>10, <2>1, <3>1, BlocksInUseHaveReferences
  <2>2. CASE x \notin allocated
    BY <1>1, <1>6, <1>10, <2>2, FreeHasNoReferences
  <2> QED
    BY <2>1, <2>2
<1>12. Empty \in [Blocks -> Int]
  BY DEF Empty
<1>13. CountsBalance' /\ \A x \in allocated \cap allocated' : count'[x] < 0 <=> count[x] < 0
  BY <1>1, <1>7, <1>8, <1>10, <1>11, <1>12, CountsAfter
<1>14. SynchronizedIsClosed'
  BY <1>6, <1>7, <1>13, StaysClosed
<1>15. From(field', Roots(t)') \subseteq From(field, Roots(t)) \cup {}
  <2>1. \A x \in Blocks \ {} : Has(t, x)' > Has(t, x) => x \in From(field, Roots(t))
    BY <1>9
  <2>2. \A a \in From(field, Roots(t)), f \in Fields :
            field'[a][f] # Nil => field'[a][f] = field[a][f] \/ field'[a][f] \in From(field, Roots(t))
    BY <1>6
  <2> QED
    BY <1>1, <1>7, <2>1, <2>2, ReachAfter
<1>16. \A w \in Tasks \ {t} : \A a \in From(field, Roots(w)) : field'[a] = field[a]
  BY <1>6
<1>17. HoldsClosure(t)' /\ syncing'[t] \subseteq From(field', Roots(t)')
  BY <1>6, IdleHoldsNothing
<1> QED
  BY <1>6, <1>7, <1>8, <1>13, <1>14, <1>15, <1>16, <1>17, LocalStep DEF OthersKeep

(* A task that is dropping is not about to spawn.                          *)
LEMMA DroppingIsNotSpawning ==
    ASSUME Inductive, NEW t \in Tasks, NEW b \in Blocks, pending[t][b] > 0
    PROVE  outbox[t] = Nowhere /\ syncing[t] = {}
<1>1. pending[t] # Empty
  BY DEF Empty
<1> QED
  BY <1>1 DEF Inductive, SpawnersHoldClosures

(* The drop of a reference that is not the last.                           *)
LEMMA DropOneKeeps ==
    ASSUME Inductive, NEW t \in Tasks, NEW b \in Blocks, DropStep(t, b), ~IsUnique(b)
    PROVE  Inductive'
<1> DEFINE d == Minus(Empty, One(b))
<1>1. TypeOK /\ CountsBalance
  BY DEF Inductive
<1>2. /\ pending[t] \in Bags /\ pending[t][b] > 0
      /\ count' = More(count, d)
      /\ pending' = [pending EXCEPT ![t] = Minus(pending[t], One(b))]
      /\ UNCHANGED <<allocated, field, held, syncing, outbox, leaked>>
  BY <1>1 DEF DropStep, TypeOK
<1>3. /\ \A x \in Blocks : One(b)[x] = IF x = b THEN 1 ELSE 0
      /\ \A x \in Blocks : d[x] = IF x = b THEN -1 ELSE 0
      /\ d \in [Blocks -> Int]
  BY DEF One, Minus, Empty
<1> HIDE DEF d
<1>4. Minus(pending[t], One(b)) \in Bags
  BY <1>2, <1>3 DEF Bags, Minus
<1>5. /\ pending' \in [Tasks -> Bags]
      /\ pending'[t] = Minus(pending[t], One(b))
      /\ \A w \in Tasks \ {t} : pending'[w] = pending[w]
  BY <1>1, <1>2, <1>4, PendingStep
<1>6. /\ count' \in [Blocks -> Int]
      /\ \A x \in Blocks : count'[x] = IF count[x] < 0 THEN count[x] - d[x] ELSE count[x] + d[x]
  BY <1>1, <1>2, <1>3, MoreCounts
<1>7. TypeOK'
  BY <1>1, <1>2, <1>5, <1>6 DEF TypeOK
<1>8. OthersKeep(t) /\ OnlyWrites(b)
  BY <1>2, <1>5 DEF OthersKeep, OnlyWrites
<1>9. \A x \in Blocks : Has(t, x)' = Has(t, x) + d[x] /\ Has(t, x) \in Nat
  <2> TAKE x \in Blocks
  <2>1. pending'[t][x] = pending[t][x] - One(b)[x]
    BY <1>5 DEF Minus
  <2>2. held[t][x] \in Nat /\ pending[t][x] \in Nat
    BY <1>1 DEF TypeOK, Bags
  <2> QED
    BY <1>2, <1>3, <2>1, <2>2 DEF Has
<1>10. \A x \in Blocks : Gain(t, b, x) = d[x]
  <2> TAKE x \in Blocks
  <2>1. Occurrences(field[b], x) \in Nat
    BY OccurrencesAreFinite
  <2> QED
    BY <1>2, <1>3, <1>9, <2>1 DEF Gain
<1>11. \A x \in Blocks :
              \/ /\ x \in allocated /\ x \in allocated' /\ AllReferences(x) + d[x] > 0
                 /\ count'[x] = IF count[x] < 0 THEN count[x] - d[x] ELSE count[x] + d[x]
              \/ x \notin allocated' /\ AllReferences(x) + d[x] = 0
              \/ x \notin allocated /\ x \in allocated' /\ d[x] = 1 /\ count'[x] = 0
  <2> TAKE x \in Blocks
  <2>1. b \in allocated
    BY <1>1, <1>2, ReferencedIsAllocated
  <2>2. CASE x \in allocated
    <3>1. AllReferences(x) \in Nat /\ AllReferences(x) > 0 /\ (x = b => AllReferences(x) > 1)
      BY <1>1, <2>2, BlocksInUseHaveReferences
    <3> QED
      BY <1>2, <1>3, <1>6, <2>2, <3>1
  <2>3. CASE x \notin allocated
    BY <1>1, <1>2, <1>3, <2>1, <2>3, FreeHasNoReferences
  <2> QED
    BY <2>2, <2>3
<1>12. CountsBalance' /\ \A x \in allocated \cap allocated' : count'[x] < 0 <=> count[x] < 0
  BY <1>1, <1>3, <1>7, <1>8, <1>10, <1>11, CountsAfter
<1>13. SynchronizedIsClosed'
  BY <1>2, <1>7, <1>12, StaysClosed
<1>14. From(field', Roots(t)') \subseteq From(field, Roots(t)) \cup {}
  <2>1. \A x \in Blocks \ {} : Has(t, x)' > Has(t, x) => x \in From(field, Roots(t))
    BY <1>3, <1>9
  <2>2. \A a \in From(field, Roots(t)), f \in Fields :
            field'[a][f] # Nil => field'[a][f] = field[a][f] \/ field'[a][f] \in From(field, Roots(t))
    BY <1>2
  <2> QED
    BY <1>1, <1>7, <2>1, <2>2, ReachAfter
<1>15. \A w \in Tasks \ {t} : \A a \in From(field, Roots(w)) : field'[a] = field[a]
  BY <1>2
<1>16. HoldsClosure(t)' /\ syncing'[t] \subseteq From(field', Roots(t)')
  BY <1>2, DroppingIsNotSpawning, IdleHoldsNothing
<1> QED
  BY <1>2, <1>7, <1>8, <1>12, <1>13, <1>14, <1>15, <1>16, LocalStep DEF OthersKeep

(* The drop of the last reference frees the block and leaves its own       *)
(* references to be dropped.                                               *)
LEMMA DropLastKeeps ==
    ASSUME Inductive, NEW t \in Tasks, NEW b \in Blocks, DropStep(t, b), IsUnique(b)
    PROVE  Inductive'
<1> DEFINE d == Minus(Empty, One(b))
<1>1. TypeOK /\ CountsBalance
  BY DEF Inductive
<1>2. /\ pending[t] \in Bags /\ pending[t][b] > 0 /\ held[t] \in Bags
      /\ allocated' = allocated \ {b}
      /\ count' = [count EXCEPT ![b] = 0]
      /\ field' = [field EXCEPT ![b] = EmptyRecord]
      /\ pending' = [pending EXCEPT ![t] =
                        Plus(Minus(pending[t], One(b)), References(field[b]))]
      /\ UNCHANGED <<held, syncing, outbox, leaked>>
  BY <1>1 DEF DropStep, TypeOK
<1>3. /\ \A x \in Blocks : One(b)[x] = IF x = b THEN 1 ELSE 0
      /\ \A x \in Blocks : d[x] = IF x = b THEN -1 ELSE 0
      /\ d \in [Blocks -> Int]
  BY DEF One, Minus, Empty
<1> HIDE DEF d
<1>4. \A x \in Blocks : Occurrences(field[b], x) \in Nat
                        /\ References(field[b])[x] = Occurrences(field[b], x)
  BY OccurrencesAreFinite, ReferencesAreABag
<1>5. Plus(Minus(pending[t], One(b)), References(field[b])) \in Bags
  BY <1>2, <1>3, <1>4 DEF Bags, Minus, Plus
<1>6. /\ pending' \in [Tasks -> Bags]
      /\ pending'[t] = Plus(Minus(pending[t], One(b)), References(field[b]))
      /\ \A w \in Tasks \ {t} : pending'[w] = pending[w]
  BY <1>1, <1>2, <1>5, PendingStep
<1>7. TypeOK'
  BY <1>1, <1>2, <1>6 DEF TypeOK, EmptyRecord, Values
<1>8. OthersKeep(t) /\ OnlyWrites(b)
  BY <1>1, <1>2, <1>6 DEF OthersKeep, OnlyWrites, TypeOK
<1>9. \A x \in Blocks : Has(t, x)' = Has(t, x) + d[x] + Occurrences(field[b], x)
                        /\ Has(t, x) \in Nat
  <2> TAKE x \in Blocks
  <2>1. pending'[t][x] = pending[t][x] - One(b)[x] + Occurrences(field[b], x)
    BY <1>4, <1>6 DEF Minus, Plus
  <2>2. held[t][x] \in Nat /\ pending[t][x] \in Nat
    BY <1>2 DEF Bags
  <2> QED
    BY <1>2, <1>3, <1>4, <2>1, <2>2 DEF Has
<1>10. /\ b \in allocated
       /\ AllReferences(b) = 1
       /\ \A w \in Tasks \ {t} : Has(w, b) = 0
       /\ \A a \in allocated, f \in Fields : field[a][f] # b
  <2>1. Has(t, b) > 0
    BY <1>2 DEF Has, Bags
  <2> QED
    BY <1>1, <2>1, UniqueIsNotShared
<1>11. \A x \in Blocks : Gain(t, b, x) = d[x]
  BY <1>2, <1>3, <1>4, <1>9, <1>10 DEF Gain
<1>12. \A x \in Blocks :
              \/ /\ x \in allocated /\ x \in allocated' /\ AllReferences(x) + d[x] > 0
                 /\ count'[x] = IF count[x] < 0 THEN count[x] - d[x] ELSE count[x] + d[x]
              \/ x \notin allocated' /\ AllReferences(x) + d[x] = 0
              \/ x \notin allocated /\ x \in allocated' /\ d[x] = 1 /\ count'[x] = 0
  <2> TAKE x \in Blocks
  <2>1. CASE x = b
    BY <1>2, <1>3, <1>10, <2>1
  <2>2. CASE x \in allocated /\ x # b
    <3>1. AllReferences(x) \in Nat /\ AllReferences(x) > 0 /\ count'[x] = count[x] /\ count[x] \in Int
      BY <1>1, <1>2, <2>2, BlocksInUseHaveReferences DEF TypeOK
    <3> QED
      BY <1>2, <1>3, <2>2, <3>1
  <2>3. CASE x \notin allocated /\ x # b
    BY <1>1, <1>2, <1>3, <2>3, FreeHasNoReferences
  <2> QED
    BY <2>1, <2>2, <2>3
<1>13. CountsBalance' /\ \A x \in allocated \cap allocated' : count'[x] < 0 <=> count[x] < 0
  BY <1>1, <1>3, <1>7, <1>8, <1>11, <1>12, CountsAfter
<1>14. SynchronizedIsClosed'
  <2>1. \A a \in allocated' : a \in allocated /\ field'[a] = field[a]
    BY <1>1, <1>2 DEF TypeOK
  <2>2. \A a \in allocated' : count'[a] < 0 <=> count[a] < 0
    BY <1>13, <2>1
  <2> QED
    BY <1>2, <1>7, <1>13, <2>1, <2>2, StaysClosed
<1>15. From(field', Roots(t)') \subseteq From(field, Roots(t)) \cup {}
  <2>1. \A x \in Blocks \ {} : Has(t, x)' > Has(t, x) => x \in From(field, Roots(t))
    <3> TAKE x \in Blocks \ {}
    <3> HAVE Has(t, x)' > Has(t, x)
    <3>1. Occurrences(field[b], x) # 0
      BY <1>3, <1>4, <1>9
    <3>2. PICK f \in Fields : field[b][f] = x
      BY <3>1, OccurrencesAreFinite
    <3>3. field[b][f] # Nil
      BY <3>2, SharedHeapAssumption
    <3> QED
      BY <1>1, <1>2, <3>2, <3>3, HeldIsReached
  <2>2. \A a \in From(field, Roots(t)), f \in Fields :
            field'[a][f] # Nil => field'[a][f] = field[a][f] \/ field'[a][f] \in From(field, Roots(t))
    <3>1. \A a \in Blocks, f \in Fields : field'[a][f] # Nil => field'[a][f] = field[a][f]
      BY <1>1, <1>2 DEF TypeOK, EmptyRecord
    <3> QED
      BY <1>1, <3>1, HeldIsReached
  <2> QED
    BY <1>1, <1>7, <2>1, <2>2, ReachAfter
<1>16. \A w \in Tasks \ {t} : \A a \in From(field, Roots(w)) : field'[a] = field[a]
  <2> TAKE w \in Tasks \ {t}
  <2>1. b \notin From(field, Roots(w)) /\ From(field, Roots(w)) \subseteq Blocks
    BY <1>1, <1>10, ReachIsAllocated DEF TypeOK
  <2> QED
    BY <1>1, <1>2, <2>1 DEF TypeOK
<1>17. HoldsClosure(t)' /\ syncing'[t] \subseteq From(field', Roots(t)')
  BY <1>2, DroppingIsNotSpawning, IdleHoldsNothing
<1> QED
  BY <1>2, <1>7, <1>8, <1>13, <1>14, <1>15, <1>16, <1>17, LocalStep DEF OthersKeep

LEMMA GetFieldKeeps ==
    ASSUME Inductive, NEW t \in Tasks, NEW b \in Blocks, NEW f \in Fields, GetField(t, b, f)
    PROVE  Inductive'
<1> DEFINE v == field[b][f]
<1>1. TypeOK /\ CountsBalance
  BY DEF Inductive
<1>2. /\ held[t] \in Bags /\ pending[t] \in Bags /\ held[t][b] > 0 /\ v \in Blocks
      /\ b \in allocated /\ v \in allocated
  BY <1>1, ReferencedIsAllocated DEF TypeOK, GetField, Values
<1>3. /\ count' = More(count, One(v))
      /\ Hold(t, Plus(Minus(held[t], One(b)), One(v)))
      /\ pending' = [pending EXCEPT ![t] = Plus(pending[t], One(b))]
      /\ UNCHANGED <<allocated, field, syncing, outbox, leaked>>
      /\ syncing[t] = {} /\ outbox[t] = Nowhere
  BY DEF GetField, Idle
<1> HIDE DEF v
<1>4. /\ \A x \in Blocks : One(b)[x] = IF x = b THEN 1 ELSE 0
      /\ \A x \in Blocks : One(v)[x] = IF x = v THEN 1 ELSE 0
      /\ One(v) \in [Blocks -> Int]
  BY DEF One
<1>5. Plus(Minus(held[t], One(b)), One(v)) \in Bags /\ Plus(pending[t], One(b)) \in Bags
  BY <1>2, <1>4 DEF Bags, Minus, Plus
<1>6. /\ held' \in [Tasks -> Bags]
      /\ held'[t] = Plus(Minus(held[t], One(b)), One(v))
      /\ \A w \in Tasks \ {t} : held'[w] = held[w]
  BY <1>1, <1>3, <1>5, HoldStep
<1>7. /\ pending' \in [Tasks -> Bags]
      /\ pending'[t] = Plus(pending[t], One(b))
      /\ \A w \in Tasks \ {t} : pending'[w] = pending[w]
  BY <1>1, <1>3, <1>5, PendingStep
<1>8. /\ count' \in [Blocks -> Int]
      /\ \A x \in Blocks : count'[x] =
            IF count[x] < 0 THEN count[x] - One(v)[x] ELSE count[x] + One(v)[x]
  BY <1>1, <1>3, <1>4, MoreCounts
<1>9. TypeOK'
  BY <1>1, <1>3, <1>6, <1>7, <1>8 DEF TypeOK
<1>10. OthersKeep(t) /\ OnlyWrites(b)
  BY <1>3, <1>6, <1>7 DEF OthersKeep, OnlyWrites
<1>11. \A x \in Blocks : Has(t, x)' = Has(t, x) + One(v)[x] /\ Has(t, x) \in Nat
  <2> TAKE x \in Blocks
  <2>1. held'[t][x] = held[t][x] - One(b)[x] + One(v)[x]
        /\ pending'[t][x] = pending[t][x] + One(b)[x]
    BY <1>6, <1>7 DEF Minus, Plus
  <2>2. held[t][x] \in Nat /\ pending[t][x] \in Nat
    BY <1>2 DEF Bags
  <2> QED
    BY <1>4, <2>1, <2>2 DEF Has
<1>12. \A x \in Blocks : Gain(t, b, x) = One(v)[x]
  <2> TAKE x \in Blocks
  <2>1. Occurrences(field[b], x) \in Nat
    BY OccurrencesAreFinite
  <2> QED
    BY <1>3, <1>4, <1>11, <2>1 DEF Gain
<1>13. \A x \in Blocks :
              \/ /\ x \in allocated /\ x \in allocated' /\ AllReferences(x) + One(v)[x] > 0
                 /\ count'[x] = IF count[x] < 0 THEN count[x] - One(v)[x] ELSE count[x] + One(v)[x]
              \/ x \notin allocated' /\ AllReferences(x) + One(v)[x] = 0
              \/ x \notin allocated /\ x \in allocated' /\ One(v)[x] = 1 /\ count'[x] = 0
  <2> TAKE x \in Blocks
  <2>1. CASE x \in allocated
    BY <1>1, <1>3, <1>4, <1>8, <2>1, BlocksInUseHaveReferences
  <2>2. CASE x \notin allocated
    BY <1>1, <1>2, <1>3, <1>4, <2>2, FreeHasNoReferences
  <2> QED
    BY <2>1, <2>2
<1>14. CountsBalance' /\ \A x \in allocated \cap allocated' : count'[x] < 0 <=> count[x] < 0
  BY <1>1, <1>4, <1>9, <1>10, <1>12, <1>13, CountsAfter
<1>15. SynchronizedIsClosed'
  BY <1>3, <1>9, <1>14, StaysClosed
<1>16. From(field', Roots(t)') \subseteq From(field, Roots(t)) \cup {}
  <2>1. v \in From(field, Roots(t))
    BY <1>1, <1>2, HeldIsReached, SharedHeapAssumption DEF v
  <2>2. \A x \in Blocks \ {} : Has(t, x)' > Has(t, x) => x \in From(field, Roots(t))
    BY <1>4, <1>11, <2>1
  <2>3. \A a \in From(field, Roots(t)), g \in Fields :
            field'[a][g] # Nil => field'[a][g] = field[a][g] \/ field'[a][g] \in From(field, Roots(t))
    BY <1>3
  <2> QED
    BY <1>1, <1>9, <2>2, <2>3, ReachAfter
<1>17. \A w \in Tasks \ {t} : \A a \in From(field, Roots(w)) : field'[a] = field[a]
  BY <1>3
<1>18. HoldsClosure(t)' /\ syncing'[t] \subseteq From(field', Roots(t)')
  BY <1>3, IdleHoldsNothing
<1> QED
  BY <1>3, <1>9, <1>10, <1>14, <1>15, <1>16, <1>17, <1>18, LocalStep DEF OthersKeep

----------------------------------------------------------------------------
(* The operations that write to records.                                   *)

LEMMA NewRecordKeeps ==
    ASSUME Inductive, NEW t \in Tasks, NEW b \in Blocks, NEW record \in [Fields -> Values],
           NewRecord(t, b, record)
    PROVE  Inductive'
<1>1. TypeOK /\ CountsBalance
  BY DEF Inductive
<1>2. /\ held[t] \in Bags /\ pending[t] \in Bags /\ b \notin allocated
      /\ allocated' = allocated \cup {b}
      /\ count' = [count EXCEPT ![b] = 0]
      /\ field' = [field EXCEPT ![b] = record]
      /\ Hold(t, Plus(Minus(held[t], References(record)), One(b)))
      /\ UNCHANGED <<pending, syncing, outbox, leaked>>
      /\ syncing[t] = {} /\ outbox[t] = Nowhere
  BY <1>1 DEF TypeOK, NewRecord, Idle
<1>3. /\ \A x \in Blocks : One(b)[x] = IF x = b THEN 1 ELSE 0
      /\ One(b) \in [Blocks -> Int]
  BY DEF One
<1>4. \A x \in Blocks : /\ Occurrences(record, x) \in Nat
                        /\ References(record)[x] = Occurrences(record, x)
                        /\ Occurrences(record, x) <= held[t][x]
  <2>1. \A x \in Blocks : /\ Occurrences(record, x) \in Nat
                          /\ References(record)[x] = Occurrences(record, x)
    BY OccurrencesAreFinite, ReferencesAreABag
  <2>2. \A x \in Blocks : References(record)[x] <= held[t][x]
    BY DEF NewRecord, Covers
  <2> QED
    BY <2>1, <2>2
<1>5. Plus(Minus(held[t], References(record)), One(b)) \in Bags
  BY <1>2, <1>3, <1>4 DEF Bags, Minus, Plus
<1>6. /\ held' \in [Tasks -> Bags]
      /\ held'[t] = Plus(Minus(held[t], References(record)), One(b))
      /\ \A w \in Tasks \ {t} : held'[w] = held[w]
  BY <1>1, <1>2, <1>5, HoldStep
<1>7. TypeOK'
  BY <1>1, <1>2, <1>6 DEF TypeOK
<1>8. field'[b] = record
  BY <1>1, <1>2 DEF TypeOK
<1>9. OthersKeep(t) /\ OnlyWrites(b)
  BY <1>1, <1>2, <1>6 DEF OthersKeep, OnlyWrites, TypeOK
<1>10. \A x \in Blocks : Has(t, x)' = Has(t, x) + One(b)[x] - Occurrences(record, x)
                         /\ Has(t, x) \in Nat
  <2> TAKE x \in Blocks
  <2>1. held'[t][x] = held[t][x] - Occurrences(record, x) + One(b)[x]
    BY <1>4, <1>6 DEF Minus, Plus
  <2>2. held[t][x] \in Nat /\ pending[t][x] \in Nat
    BY <1>2 DEF Bags
  <2> QED
    BY <1>2, <1>3, <1>4, <2>1, <2>2 DEF Has
<1>11. \A x \in Blocks : Gain(t, b, x) = One(b)[x]
  BY <1>2, <1>3, <1>4, <1>8, <1>10 DEF Gain
<1>12. \A x \in Blocks :
              \/ /\ x \in allocated /\ x \in allocated' /\ AllReferences(x) + One(b)[x] > 0
                 /\ count'[x] = IF count[x] < 0 THEN count[x] - One(b)[x] ELSE count[x] + One(b)[x]
              \/ x \notin allocated' /\ AllReferences(x) + One(b)[x] = 0
              \/ x \notin allocated /\ x \in allocated' /\ One(b)[x] = 1 /\ count'[x] = 0
  <2> TAKE x \in Blocks
  <2>1. CASE x = b
    BY <1>1, <1>2, <1>3, <2>1 DEF TypeOK
  <2>2. CASE x \in allocated /\ x # b
    <3>1. AllReferences(x) \in Nat /\ AllReferences(x) > 0 /\ count'[x] = count[x] /\ count[x] \in Int
      BY <1>1, <1>2, <2>2, BlocksInUseHaveReferences DEF TypeOK
    <3> QED
      BY <1>2, <1>3, <2>2, <3>1
  <2>3. CASE x \notin allocated /\ x # b
    BY <1>1, <1>2, <1>3, <2>3, FreeHasNoReferences
  <2> QED
    BY <2>1, <2>2, <2>3
<1>13. CountsBalance' /\ \A x \in allocated \cap allocated' : count'[x] < 0 <=> count[x] < 0
  BY <1>1, <1>3, <1>7, <1>9, <1>11, <1>12, CountsAfter
<1>14. \A a \in Blocks \ {b} : field'[a] = field[a]
  BY <1>1, <1>2 DEF TypeOK
<1>15. SynchronizedIsClosed'
  <2>1. count'[b] = 0
    BY <1>1, <1>2 DEF TypeOK
  <2>2. \A a \in allocated' : count'[a] < 0 => a \in allocated /\ count[a] < 0 /\ field'[a] = field[a]
    BY <1>1, <1>2, <1>13, <1>14, <2>1 DEF TypeOK
  <2> QED
    BY <1>2, <1>7, <1>13, <2>2, StaysClosed
<1>16. From(field', Roots(t)') \subseteq From(field, Roots(t)) \cup {b}
  <2>1. \A x \in Blocks \ {b} : Has(t, x)' > Has(t, x) => x \in From(field, Roots(t))
    BY <1>3, <1>4, <1>10
  <2>2. b \notin From(field, Roots(t)) /\ From(field, Roots(t)) \subseteq Blocks
    BY <1>1, <1>2, ReachIsAllocated, HeldIsReached
  <2>3. \A a \in From(field, Roots(t)), f \in Fields :
            field'[a][f] # Nil => field'[a][f] = field[a][f] \/ field'[a][f] \in From(field, Roots(t))
    BY <1>14, <2>2
  <2>4. \A a \in {b}, f \in Fields : field'[a][f] # Nil => field'[a][f] \in From(field, Roots(t))
    <3> SUFFICES ASSUME NEW f \in Fields, record[f] # Nil
                 PROVE  record[f] \in From(field, Roots(t))
      BY <1>8
    <3>1. record[f] \in Blocks
      BY DEF Values
    <3>2. Occurrences(record, record[f]) # 0
      BY OccurrencesAreFinite
    <3>3. held[t][record[f]] > 0
      BY <1>2, <1>4, <3>1, <3>2 DEF Bags
    <3> QED
      BY <1>1, <3>1, <3>3, HeldIsReached
  <2>5. {b} \in SUBSET Blocks
    OBVIOUS
  <2> QED
    BY <1>1, <1>7, <2>1, <2>3, <2>4, <2>5, ReachAfter
<1>17. \A w \in Tasks \ {t} : \A a \in From(field, Roots(w)) : field'[a] = field[a]
  <2> TAKE w \in Tasks \ {t}
  <2>1. b \notin From(field, Roots(w)) /\ From(field, Roots(w)) \subseteq Blocks
    BY <1>1, <1>2, ReachIsAllocated, HeldIsReached
  <2> QED
    BY <1>14, <2>1
<1>18. HoldsClosure(t)' /\ syncing'[t] \subseteq From(field', Roots(t)')
  BY <1>2, IdleHoldsNothing
<1>19. From(field', Roots(t)') \subseteq From(field, Roots(t)) \cup (Blocks \ allocated)
  BY <1>2, <1>16
<1> QED
  BY <1>2, <1>7, <1>9, <1>13, <1>15, <1>17, <1>18, <1>19, LocalStep DEF OthersKeep

(* Nobody else can see a record that is updated in place.                  *)
LEMMA UpdateInPlaceKeeps ==
    ASSUME Inductive, NEW t \in Tasks, NEW b \in Blocks, NEW f \in Fields, NEW v \in Values,
           UpdateInPlace(t, b, f, v)
    PROVE  Inductive'
<1> DEFINE old == field[b][f]
<1>1. TypeOK /\ CountsBalance
  BY DEF Inductive
<1>2. /\ held[t] \in Bags /\ pending[t] \in Bags /\ old \in Values
      /\ field' = [field EXCEPT ![b] = [field[b] EXCEPT ![f] = v]]
      /\ Hold(t, Minus(held[t], One(v)))
      /\ pending' = [pending EXCEPT ![t] = Plus(pending[t], One(old))]
      /\ leaked' = (leaked \/ (v # Nil /\ count[b] < 0 /\ ~(count[v] < 0)))
      /\ UNCHANGED <<allocated, count, syncing, outbox>>
      /\ syncing[t] = {} /\ outbox[t] = Nowhere /\ IsUnique(b)
  BY <1>1 DEF TypeOK, UpdateInPlace, Idle, IsSynchronized
<1> HIDE DEF old
<1>3. /\ \A x \in Blocks : One(b)[x] = IF x = b THEN 1 ELSE 0
      /\ \A x \in Blocks : One(v)[x] = IF x = v THEN 1 ELSE 0
      /\ \A x \in Blocks : One(old)[x] = IF x = old THEN 1 ELSE 0
  BY DEF One
<1>4. \A x \in Blocks : One(b)[x] + One(v)[x] <= held[t][x] /\ held[t][x] \in Nat /\ pending[t][x] \in Nat
  BY <1>2 DEF UpdateInPlace, Covers, Plus, Bags
<1>5. Minus(held[t], One(v)) \in Bags /\ Plus(pending[t], One(old)) \in Bags
  BY <1>3, <1>4 DEF Bags, Minus, Plus
<1>6. /\ held' \in [Tasks -> Bags]
      /\ held'[t] = Minus(held[t], One(v))
      /\ \A w \in Tasks \ {t} : held'[w] = held[w]
  BY <1>1, <1>2, <1>5, HoldStep
<1>7. /\ pending' \in [Tasks -> Bags]
      /\ pending'[t] = Plus(pending[t], One(old))
      /\ \A w \in Tasks \ {t} : pending'[w] = pending[w]
  BY <1>1, <1>2, <1>5, PendingStep
<1>8. field[b] \in [Fields -> Values] /\ [field[b] EXCEPT ![f] = v] \in [Fields -> Values]
  BY <1>1 DEF TypeOK
<1>9. TypeOK'
  BY <1>1, <1>2, <1>6, <1>7, <1>8 DEF TypeOK
<1>10. field'[b] = [field[b] EXCEPT ![f] = v] /\ \A a \in Blocks \ {b} : field'[a] = field[a]
  BY <1>1, <1>2 DEF TypeOK
<1>11. OthersKeep(t) /\ OnlyWrites(b)
  BY <1>2, <1>6, <1>7, <1>10 DEF OthersKeep, OnlyWrites
<1>12. /\ b \in allocated
       /\ \A w \in Tasks \ {t} : Has(w, b) = 0
       /\ \A a \in allocated, g \in Fields : field[a][g] # b
  <2>1. Has(t, b) > 0
    BY <1>3, <1>4 DEF Has
  <2> QED
    BY <1>1, <1>2, <2>1, UniqueIsNotShared
<1>13. \A x \in Blocks : Has(t, x)' = Has(t, x) - One(v)[x] + One(old)[x] /\ Has(t, x) \in Nat
  <2> TAKE x \in Blocks
  <2>1. held'[t][x] = held[t][x] - One(v)[x] /\ pending'[t][x] = pending[t][x] + One(old)[x]
    BY <1>6, <1>7 DEF Minus, Plus
  <2> QED
    BY <1>3, <1>4, <2>1 DEF Has
<1>14. \A x \in Blocks : Gain(t, b, x) = Empty[x] /\ Empty[x] = 0
  <2> TAKE x \in Blocks
  <2>1. Occurrences(field'[b], x) = Occurrences(field[b], x) - One(old)[x] + One(v)[x]
    BY <1>8, <1>10, OccurrencesChange DEF old
  <2>2. Occurrences(field[b], x) \in Nat
    BY OccurrencesAreFinite
  <2>3. Empty[x] = 0
    BY DEF Empty
  <2> QED
    BY <1>2, <1>3, <1>12, <1>13, <2>1, <2>2, <2>3 DEF Gain
<1>15. \A x \in Blocks :
              \/ /\ x \in allocated /\ x \in allocated' /\ AllReferences(x) + Empty[x] > 0
                 /\ count'[x] = IF count[x] < 0 THEN count[x] - Empty[x] ELSE count[x] + Empty[x]
              \/ x \notin allocated' /\ AllReferences(x) + Empty[x] = 0
              \/ x \notin allocated /\ x \in allocated' /\ Empty[x] = 1 /\ count'[x] = 0
  <2> TAKE x \in Blocks
  <2>1. CASE x \in allocated
    <3>1. count[x] \in Int
      BY <1>1 DEF TypeOK
    <3> QED
      BY <1>1, <1>2, <1>14, <2>1, <3>1, BlocksInUseHaveReferences
  <2>2. CASE x \notin allocated
    BY <1>1, <1>2, <1>14, <2>2, FreeHasNoReferences
  <2> QED
    BY <2>1, <2>2
<1>16. Empty \in [Blocks -> Int]
  BY DEF Empty
<1>17. CountsBalance' /\ \A x \in allocated \cap allocated' : count'[x] < 0 <=> count[x] < 0
  BY <1>1, <1>9, <1>11, <1>14, <1>15, <1>16, CountsAfter
<1>18. SynchronizedIsClosed'
  <2>1. ASSUME NEW a \in allocated', NEW g \in Fields, ~leaked', count'[a] < 0, field'[a][g] # Nil
        PROVE  \/ a \in allocated /\ count[a] < 0 /\ field[a][g] = field'[a][g]
               \/ count'[field'[a][g]] < 0
    <3>1. a \in allocated /\ count[a] < 0 /\ a \in Blocks
      BY <1>1, <1>2, <2>1 DEF TypeOK
    <3>2. CASE a = b /\ g = f
      <4>1. field'[a][g] = v
        BY <1>8, <1>10, <3>2
      <4> QED
        BY <1>2, <2>1, <3>1, <3>2, <4>1
    <3>3. CASE ~(a = b /\ g = f)
      <4>1. field'[a][g] = field[a][g]
        BY <1>8, <1>10, <3>1, <3>3
      <4> QED
        BY <3>1, <4>1
    <3> QED
      BY <3>2, <3>3
  <2> QED
    BY <1>2, <1>9, <1>17, <2>1, StaysClosed
<1>19. From(field', Roots(t)') \subseteq From(field, Roots(t)) \cup {}
  <2>1. b \in From(field, Roots(t)) /\ From(field, Roots(t)) \subseteq Blocks
    BY <1>1, <1>3, <1>4, HeldIsReached
  <2>2. old # Nil => old \in From(field, Roots(t))
    BY <1>1, <2>1, HeldIsReached DEF old
  <2>3. v # Nil => v \in From(field, Roots(t))
    <3>1. v # Nil => v \in Blocks
      BY DEF Values
    <3>2. v # Nil => held[t][v] > 0
      BY <1>3, <1>4, <3>1
    <3> QED
      BY <1>1, <3>1, <3>2, HeldIsReached
  <2>4. \A x \in Blocks \ {} : Has(t, x)' > Has(t, x) => x \in From(field, Roots(t))
    BY <1>3, <1>13, <2>2, SharedHeapAssumption
  <2>5. \A a \in From(field, Roots(t)), g \in Fields :
            field'[a][g] # Nil => field'[a][g] = field[a][g] \/ field'[a][g] \in From(field, Roots(t))
    BY <1>8, <1>10, <2>1, <2>3
  <2> QED
    BY <1>1, <1>9, <2>4, <2>5, ReachAfter
<1>20. \A w \in Tasks \ {t} : \A a \in From(field, Roots(w)) : field'[a] = field[a]
  <2> TAKE w \in Tasks \ {t}
  <2>1. b \notin From(field, Roots(w)) /\ From(field, Roots(w)) \subseteq Blocks
    BY <1>1, <1>12, ReachIsAllocated, HeldIsReached
  <2> QED
    BY <1>10, <2>1
<1>21. HoldsClosure(t)' /\ syncing'[t] \subseteq From(field', Roots(t)')
  BY <1>2, IdleHoldsNothing
<1>22. leaked => leaked'
  BY <1>2
<1> QED
  BY <1>9, <1>11, <1>17, <1>18, <1>19, <1>20, <1>21, <1>22, LocalStep DEF OthersKeep

(* The copy of a record that others can see.                               *)
LEMMA UpdateCopyKeeps ==
    ASSUME Inductive, NEW t \in Tasks, NEW b \in Blocks, NEW f \in Fields, NEW v \in Values,
           NEW n \in Blocks, UpdateCopy(t, b, f, v, n)
    PROVE  Inductive'
<1> DEFINE rest == [field[b] EXCEPT ![f] = Nil]
           copy == [field[b] EXCEPT ![f] = v]
           d == [x \in Blocks |-> IF x = n THEN 1 ELSE Occurrences(rest, x)]
<1>1. TypeOK /\ CountsBalance
  BY DEF Inductive
<1>2. /\ held[t] \in Bags /\ pending[t] \in Bags /\ n \notin allocated
      /\ allocated' = allocated \cup {n}
      /\ field' = [field EXCEPT ![n] = copy]
      /\ count' = [More(count, References(rest)) EXCEPT ![n] = 0]
      /\ Hold(t, Plus(Minus(Minus(held[t], One(b)), One(v)), One(n)))
      /\ pending' = [pending EXCEPT ![t] = Plus(pending[t], One(b))]
      /\ UNCHANGED <<syncing, outbox, leaked>>
      /\ syncing[t] = {} /\ outbox[t] = Nowhere
  BY <1>1 DEF TypeOK, UpdateCopy, Idle
<1>3. /\ field[b] \in [Fields -> Values]
      /\ rest \in [Fields -> Values] /\ copy \in [Fields -> Values]
      /\ copy = [rest EXCEPT ![f] = v] /\ rest[f] = Nil
      /\ \A g \in Fields \ {f} : rest[g] = field[b][g] /\ copy[g] = field[b][g]
      /\ copy[f] = v
  BY <1>1 DEF TypeOK, Values
<1>4. /\ \A x \in Blocks : One(b)[x] = IF x = b THEN 1 ELSE 0
      /\ \A x \in Blocks : One(v)[x] = IF x = v THEN 1 ELSE 0
      /\ \A x \in Blocks : One(n)[x] = IF x = n THEN 1 ELSE 0
      /\ \A x \in Blocks : One(Nil)[x] = 0
  BY SharedHeapAssumption DEF One
<1>5. \A x \in Blocks : One(b)[x] + One(v)[x] <= held[t][x] /\ held[t][x] \in Nat /\ pending[t][x] \in Nat
  BY <1>2 DEF UpdateCopy, Covers, Plus, Bags
<1>6. /\ b \in allocated /\ b # n /\ v # n
      /\ v # Nil => v \in Blocks /\ held[t][v] > 0
  <2>1. held[t][b] > 0
    BY <1>4, <1>5
  <2>2. v # Nil => v \in Blocks
    BY DEF Values
  <2>3. v # Nil => held[t][v] > 0
    BY <1>4, <1>5, <2>2
  <2>4. held[t][n] = 0
    BY <1>1, <1>2, FreeHasNoReferences
  <2> QED
    BY <1>1, <2>1, <2>2, <2>3, <2>4, ReferencedIsAllocated, SharedHeapAssumption
<1>7. \A x \in Blocks :
         /\ Occurrences(rest, x) \in Nat
         /\ References(rest)[x] = Occurrences(rest, x)
         /\ Occurrences(copy, x) = Occurrences(rest, x) + One(v)[x]
         /\ x \notin allocated => Occurrences(rest, x) = 0
  <2> TAKE x \in Blocks
  <2>1. Occurrences(rest, x) \in Nat /\ References(rest)[x] = Occurrences(rest, x)
    BY OccurrencesAreFinite, ReferencesAreABag
  <2>2. Occurrences([rest EXCEPT ![f] = v], x) = Occurrences(rest, x) - One(rest[f])[x] + One(v)[x]
    BY <1>3, OccurrencesChange
  <2>3. Occurrences(copy, x) = Occurrences(rest, x) + One(v)[x]
    BY <1>3, <1>4, <2>1, <2>2
  <2>4. x \notin allocated => \A g \in Fields : rest[g] # x
    BY <1>1, <1>3, <1>6, ReferencedIsAllocated, SharedHeapAssumption
  <2> QED
    BY <2>1, <2>3, <2>4, OccurrencesAreFinite
<1>8. /\ \A x \in Blocks : d[x] = IF x = n THEN 1 ELSE Occurrences(rest, x)
      /\ d \in [Blocks -> Int]
  BY <1>7
<1> HIDE DEF rest, copy, d
<1>9. /\ Plus(Minus(Minus(held[t], One(b)), One(v)), One(n)) \in Bags
      /\ Plus(pending[t], One(b)) \in Bags
  BY <1>4, <1>5 DEF Bags, Minus, Plus
<1>10. /\ held' \in [Tasks -> Bags]
       /\ held'[t] = Plus(Minus(Minus(held[t], One(b)), One(v)), One(n))
       /\ \A w \in Tasks \ {t} : held'[w] = held[w]
  BY <1>1, <1>2, <1>9, HoldStep
<1>11. /\ pending' \in [Tasks -> Bags]
       /\ pending'[t] = Plus(pending[t], One(b))
       /\ \A w \in Tasks \ {t} : pending'[w] = pending[w]
  BY <1>1, <1>2, <1>9, PendingStep
<1>12. /\ count' \in [Blocks -> Int]
       /\ count'[n] = 0
       /\ \A x \in Blocks \ {n} : count'[x] =
             IF count[x] < 0 THEN count[x] - Occurrences(rest, x) ELSE count[x] + Occurrences(rest, x)
  <2>1. References(rest) \in [Blocks -> Int]
    BY ReferencesAreABag DEF Bags
  <2>2. /\ More(count, References(rest)) \in [Blocks -> Int]
        /\ \A x \in Blocks : More(count, References(rest))[x] =
              IF count[x] < 0 THEN count[x] - References(rest)[x] ELSE count[x] + References(rest)[x]
    BY <1>1, <2>1, MoreCounts
  <2> QED
    BY <1>2, <1>7, <2>2
<1>13. TypeOK'
  BY <1>1, <1>2, <1>3, <1>10, <1>11, <1>12 DEF TypeOK
<1>14. field'[n] = copy /\ \A a \in Blocks \ {n} : field'[a] = field[a]
  BY <1>1, <1>2 DEF TypeOK
<1>15. OthersKeep(t) /\ OnlyWrites(n)
  BY <1>2, <1>10, <1>11, <1>14 DEF OthersKeep, OnlyWrites
<1>16. \A x \in Blocks : Has(t, x)' = Has(t, x) - One(v)[x] + One(n)[x] /\ Has(t, x) \in Nat
  <2> TAKE x \in Blocks
  <2>1. held'[t][x] = held[t][x] - One(b)[x] - One(v)[x] + One(n)[x]
        /\ pending'[t][x] = pending[t][x] + One(b)[x]
    BY <1>10, <1>11 DEF Minus, Plus
  <2> QED
    BY <1>4, <1>5, <2>1 DEF Has
<1>17. \A x \in Blocks : Gain(t, n, x) = d[x]
  <2> TAKE x \in Blocks
  <2>1. Occurrences(field'[n], x) = Occurrences(rest, x) + One(v)[x]
    BY <1>7, <1>14
  <2>2. Has(t, x)' = Has(t, x) - One(v)[x] + One(n)[x] /\ Has(t, x) \in Nat
    BY <1>16
  <2>3. n \in allocated'
    BY <1>2
  <2>4. One(v)[x] \in Nat /\ One(n)[x] = IF x = n THEN 1 ELSE 0
    BY <1>4
  <2>5. Occurrences(rest, x) \in Nat /\ (x = n => Occurrences(rest, x) = 0)
    BY <1>2, <1>7
  <2>6. Gain(t, n, x) = Occurrences(rest, x) + One(n)[x]
    BY <1>2, <2>1, <2>2, <2>3, <2>4, <2>5 DEF Gain
  <2> QED
    BY <1>8, <2>4, <2>5, <2>6
<1>18. \A x \in Blocks :
              \/ /\ x \in allocated /\ x \in allocated' /\ AllReferences(x) + d[x] > 0
                 /\ count'[x] = IF count[x] < 0 THEN count[x] - d[x] ELSE count[x] + d[x]
              \/ x \notin allocated' /\ AllReferences(x) + d[x] = 0
              \/ x \notin allocated /\ x \in allocated' /\ d[x] = 1 /\ count'[x] = 0
  <2> TAKE x \in Blocks
  <2>1. CASE x = n
    BY <1>2, <1>8, <1>12, <2>1
  <2>2. CASE x \in allocated
    <3>1. AllReferences(x) \in Nat /\ AllReferences(x) > 0
      BY <1>1, <2>2, BlocksInUseHaveReferences
    <3> QED
      BY <1>2, <1>7, <1>8, <1>12, <2>2, <3>1
  <2>3. CASE x \notin allocated /\ x # n
    BY <1>1, <1>2, <1>7, <1>8, <2>3, FreeHasNoReferences
  <2> QED
    BY <2>1, <2>2, <2>3
<1>19. CountsBalance' /\ \A x \in allocated \cap allocated' : count'[x] < 0 <=> count[x] < 0
  BY <1>1, <1>8, <1>13, <1>15, <1>17, <1>18, CountsAfter
<1>20. SynchronizedIsClosed'
  <2>1. \A a \in allocated' : count'[a] < 0 => a \in allocated /\ count[a] < 0 /\ field'[a] = field[a]
    BY <1>1, <1>2, <1>12, <1>14, <1>19 DEF TypeOK
  <2> QED
    BY <1>2, <1>13, <1>19, <2>1, StaysClosed
<1>21. From(field', Roots(t)') \subseteq From(field, Roots(t)) \cup {n}
  <2>1. \A x \in Blocks \ {n} : Has(t, x)' > Has(t, x) => x \in From(field, Roots(t))
    BY <1>4, <1>16
  <2>2. n \notin From(field, Roots(t)) /\ From(field, Roots(t)) \subseteq Blocks
    BY <1>1, <1>2, ReachIsAllocated, HeldIsReached
  <2>3. \A a \in From(field, Roots(t)), g \in Fields :
            field'[a][g] # Nil => field'[a][g] = field[a][g] \/ field'[a][g] \in From(field, Roots(t))
    BY <1>14, <2>2
  <2>4. \A a \in {n}, g \in Fields : field'[a][g] # Nil => field'[a][g] \in From(field, Roots(t))
    <3> SUFFICES ASSUME NEW g \in Fields, copy[g] # Nil
                 PROVE  copy[g] \in From(field, Roots(t))
      BY <1>14
    <3>1. CASE g = f
      BY <1>1, <1>3, <1>6, <3>1, HeldIsReached
    <3>2. CASE g # f
      <4>1. b \in From(field, Roots(t))
        BY <1>1, <1>4, <1>5, HeldIsReached
      <4>2. copy[g] = field[b][g]
        BY <1>3, <3>2
      <4> QED
        BY <1>1, <4>1, <4>2, HeldIsReached
    <3> QED
      BY <3>1, <3>2
  <2>5. {n} \in SUBSET Blocks
    OBVIOUS
  <2> QED
    BY <1>1, <1>13, <2>1, <2>3, <2>4, <2>5, ReachAfter
<1>22. \A w \in Tasks \ {t} : \A a \in From(field, Roots(w)) : field'[a] = field[a]
  <2> TAKE w \in Tasks \ {t}
  <2>1. n \notin From(field, Roots(w)) /\ From(field, Roots(w)) \subseteq Blocks
    BY <1>1, <1>2, ReachIsAllocated, HeldIsReached
  <2> QED
    BY <1>14, <2>1
<1>23. HoldsClosure(t)' /\ syncing'[t] \subseteq From(field', Roots(t)')
  BY <1>2, IdleHoldsNothing
<1>24. From(field', Roots(t)') \subseteq From(field, Roots(t)) \cup (Blocks \ allocated)
  BY <1>2, <1>21
<1> QED
  BY <1>2, <1>13, <1>15, <1>19, <1>20, <1>22, <1>23, <1>24, LocalStep DEF OthersKeep

----------------------------------------------------------------------------
(* The operations that share.                                              *)

LEMMA NoReferencesChange ==
    ASSUME CountsBalance, UNCHANGED <<allocated, field, held, pending>>,
           \A x \in allocated : x \in Blocks =>
               (IF count'[x] < 0 THEN -count'[x] ELSE count'[x] + 1)
                   = IF count[x] < 0 THEN -count[x] ELSE count[x] + 1
    PROVE  CountsBalance'
<1>1. \A x \in Blocks : AllReferences(x)' = AllReferences(x)
  BY DEF AllReferences, VariableReferences, FieldReferences
<1> QED
  BY <1>1, BalanceOfAll DEF Balance

LEMMA SynchronizeStepKeeps ==
    ASSUME Inductive, NEW t \in Tasks, NEW b \in Blocks, SynchronizeStep(t, b)
    PROVE  Inductive'
<1> DEFINE referred == {field[b][f] : f \in Fields} \ {Nil}
<1>1. TypeOK /\ CountsBalance /\ SyncingIsReached
  BY DEF Inductive
<1>2. /\ UNCHANGED <<allocated, field, held, pending, outbox, leaked>>
      /\ b \in syncing[t] /\ count[b] \in Int
  BY <1>1 DEF SynchronizeStep, TypeOK
<1>3. /\ count' \in [Blocks -> Int]
      /\ count'[b] = IF count[b] < 0 THEN count[b] ELSE -1 - count[b]
      /\ \A x \in Blocks \ {b} : count'[x] = count[x]
  BY <1>1 DEF SynchronizeStep, IsSynchronized, SynchronizedCount, TypeOK
<1>4. /\ syncing'[t] = (syncing[t] \ {b}) \cup IF count[b] < 0 THEN {} ELSE referred
      /\ \A w \in Tasks \ {t} : syncing'[w] = syncing[w]
  BY <1>1 DEF SynchronizeStep, IsSynchronized, TypeOK
<1>5. referred \subseteq Blocks
  BY <1>1 DEF TypeOK, Values
<1>6. TypeOK'
  <2>1. syncing' \in [Tasks -> SUBSET Blocks]
    BY <1>1, <1>5 DEF SynchronizeStep, TypeOK
  <2> QED
    BY <1>1, <1>2, <1>3, <2>1 DEF TypeOK
<1>7. count'[b] < 0 /\ \A x \in Blocks : count[x] < 0 => count'[x] < 0
  BY <1>2, <1>3
<1>8. CountsBalance'
  <2>1. \A x \in Blocks : (IF count'[x] < 0 THEN -count'[x] ELSE count'[x] + 1)
                              = IF count[x] < 0 THEN -count[x] ELSE count[x] + 1
    BY <1>2, <1>3
  <2> QED
    BY <1>1, <1>2, <2>1, NoReferencesChange
<1>9. SynchronizedIsClosed'
  <2> SUFFICES ASSUME ~leaked', NEW a \in allocated', NEW f \in Fields,
                      count'[a] < 0, field'[a][f] # Nil
               PROVE  \/ count'[field'[a][f]] < 0
                      \/ \E w \in Tasks : field'[a][f] \in syncing'[w]
    BY DEF SynchronizedIsClosed, IsSynchronized
  <2> DEFINE c == field[a][f]
  <2>1. c \in Blocks /\ a \in Blocks /\ field'[a][f] = c /\ c # Nil /\ a \in allocated
    BY <1>1, <1>2 DEF TypeOK, Values
  <2>2. CASE c = b
    BY <1>7, <2>1, <2>2
  <2>3. CASE a = b /\ ~(count[b] < 0)
    BY <1>4, <2>1, <2>3
  <2>4. CASE c # b /\ ~(a = b /\ ~(count[b] < 0))
    <3>1. count[a] < 0
      BY <1>3, <2>1, <2>4
    <3>2. count[c] < 0 \/ \E w \in Tasks : c \in syncing[w]
      BY <1>2, <2>1, <3>1 DEF Inductive, SynchronizedIsClosed, IsSynchronized
    <3>3. \A w \in Tasks : c \in syncing[w] => c \in syncing'[w]
      BY <1>4, <2>4
    <3> QED
      BY <1>7, <2>1, <3>2, <3>3
  <2> QED
    BY <2>2, <2>3, <2>4
<1>10. /\ \A w \in Tasks : Roots(w)' = Roots(w)
       /\ From(field', Roots(t)') = From(field, Roots(t))
  BY <1>2 DEF Roots
<1>11. syncing'[t] \subseteq From(field', Roots(t)')
  <2>1. syncing[t] \subseteq From(field, Roots(t))
    BY <1>1, ReachableIsFrom DEF SyncingIsReached
  <2>2. referred \subseteq From(field, Roots(t))
    BY <1>1, <1>2, <2>1, HeldIsReached
  <2> HIDE DEF referred
  <2> QED
    BY <1>4, <1>10, <2>1, <2>2
<1>12. HoldsClosure(t)'
  <2>1. /\ outbox[t] # Nowhere
        /\ outbox[t].block \in Blocks
        /\ outbox[t].to \in Tasks \ {t}
        /\ held[t][outbox[t].block] > 0
        /\ pending[t] = Empty
        /\ outbox[t].block \in syncing[t] \/ IsSynchronized(outbox[t].block)
    BY <1>2 DEF Inductive, SpawnersHoldClosures
  <2>2. outbox[t].block \in syncing'[t] \/ count'[outbox[t].block] < 0
    BY <1>4, <1>7, <2>1 DEF IsSynchronized
  <2> QED
    BY <1>2, <2>1, <2>2 DEF HoldsClosure, IsSynchronized
<1>13. \A w \in Tasks \ {t} : /\ held'[w] = held[w] /\ pending'[w] = pending[w]
                              /\ syncing'[w] = syncing[w] /\ outbox'[w] = outbox[w]
  BY <1>2, <1>4
<1>14. \A w \in Tasks \ {t} : \A a \in From(field, Roots(w)) : field'[a] = field[a]
  BY <1>2
<1>15. \A x \in allocated \cap allocated' : count[x] < 0 => count'[x] < 0
  BY <1>1, <1>7 DEF TypeOK
<1> HIDE DEF referred
<1> QED
  BY <1>2, <1>6, <1>8, <1>9, <1>10, <1>11, <1>12, <1>13, <1>14, <1>15, LocalStep

LEMMA BeginSpawnKeeps ==
    ASSUME Inductive, NEW t \in Tasks, NEW u \in Tasks, NEW b \in Blocks, BeginSpawn(t, u, b)
    PROVE  Inductive'
<1> DEFINE message == [block |-> b, to |-> u]
<1>1. TypeOK /\ CountsBalance
  BY DEF Inductive
<1>2. /\ UNCHANGED <<allocated, count, field, held, pending, leaked>>
      /\ t # u /\ held[t][b] > 0 /\ pending[t] = Empty /\ syncing[t] = {}
      /\ message \in Messages /\ message # Nowhere
      /\ message.block = b /\ message.to = u
  <2>1. message.block = b /\ message.to = u /\ Nowhere.block = Nil
    BY DEF Nowhere
  <2>2. message # Nowhere
    BY <2>1, SharedHeapAssumption
  <2> QED
    BY <2>1, <2>2 DEF BeginSpawn, Idle, Messages
<1>3. /\ syncing' = [syncing EXCEPT ![t] = {b}]
      /\ outbox' = [outbox EXCEPT ![t] = message]
  BY DEF BeginSpawn
<1> HIDE DEF message
<1>4. TypeOK'
  BY <1>1, <1>2, <1>3 DEF TypeOK
<1>5. CountsBalance'
  BY <1>1, <1>2, NoReferencesChange
<1>6. /\ syncing'[t] = {b} /\ outbox'[t] = message
      /\ \A w \in Tasks \ {t} : syncing'[w] = syncing[w] /\ outbox'[w] = outbox[w]
  BY <1>1, <1>3 DEF TypeOK
<1>7. SynchronizedIsClosed'
  <2>1. \A w \in Tasks : syncing[w] \subseteq syncing'[w]
    BY <1>2, <1>6
  <2> QED
    BY <1>2, <1>4, <1>5, <2>1, StaysClosed
<1>8. From(field', Roots(t)') = From(field, Roots(t))
  BY <1>2 DEF Roots
<1>9. HoldsClosure(t)' /\ syncing'[t] \subseteq From(field', Roots(t)')
  <2>1. b \in From(field, Roots(t))
    BY <1>1, <1>2, HeldIsReached
  <2> QED
    BY <1>2, <1>6, <1>8, <2>1 DEF HoldsClosure
<1>10. \A w \in Tasks \ {t} : /\ held'[w] = held[w] /\ pending'[w] = pending[w]
                              /\ syncing'[w] = syncing[w] /\ outbox'[w] = outbox[w]
  BY <1>2, <1>6
<1>11. \A w \in Tasks \ {t} : \A a \in From(field, Roots(w)) : field'[a] = field[a]
  BY <1>2
<1> QED
  BY <1>2, <1>4, <1>5, <1>7, <1>8, <1>9, <1>10, <1>11, LocalStep

(* What a task is about to give away.                                      *)
LEMMA MoveKeepsTypes ==
    ASSUME TypeOK, NEW t \in Tasks, NEW u \in Tasks, t # u, NEW b \in Blocks,
           held[t][b] > 0, Move(t, u, b)
    PROVE  held' \in [Tasks -> Bags] /\ held'[t] = Minus(held[t], One(b))
<1>1. held[t] \in Bags /\ held[u] \in Bags /\ held \in [Tasks -> Bags]
  BY DEF TypeOK
<1>2. \A x \in Blocks : One(b)[x] = IF x = b THEN 1 ELSE 0
  BY DEF One
<1>3. Minus(held[t], One(b)) \in Bags /\ Plus(held[u], One(b)) \in Bags
  BY <1>1, <1>2 DEF Bags, Minus, Plus
<1> QED
  BY <1>1, <1>3 DEF Move

(* A task that has synchronized a block has synchronized all that the      *)
(* block reaches: what other tasks are still synchronizing of it, they     *)
(* share with this one.                                                    *)
LEMMA SynchronizedToTheBottom ==
    ASSUME Inductive, ~leaked, NEW t \in Tasks, NEW b \in Blocks,
           held[t][b] > 0, syncing[t] = {}, count[b] < 0
    PROVE  \A x \in From(field, {b}) : count[x] < 0
<1> DEFINE B == From(field, {b})
           S == {x \in B : count[x] < 0}
<1>1. TypeOK /\ CountsBalance /\ SyncingIsReached
  BY DEF Inductive
<1>2. {b} \subseteq B /\ B \in SUBSET Blocks /\ ClosedUnder(field, B)
  BY <1>1, FromIsClosed DEF TypeOK
<1>3. B \subseteq From(field, Roots(t)) /\ From(field, Roots(t)) \subseteq allocated
  <2>1. b \in From(field, Roots(t)) /\ Roots(t) \in SUBSET Blocks
    BY <1>1, HeldIsReached, ReachIsAllocated
  <2>2. B \subseteq From(field, Roots(t))
    BY <1>1, <2>1, FromGrows DEF TypeOK
  <2> QED
    BY <1>1, <2>2, ReachIsAllocated
<1> HIDE DEF B
<1>4. ClosedUnder(field, S)
  <2> SUFFICES ASSUME NEW a \in S, NEW f \in Fields, field[a][f] # Nil
               PROVE  field[a][f] \in S
    BY DEF ClosedUnder
  <2> DEFINE c == field[a][f]
  <2>1. c \in B /\ c \in From(field, Roots(t)) /\ a \in allocated /\ count[a] < 0
    BY <1>2, <1>3 DEF ClosedUnder
  <2>2. count[c] < 0 \/ \E w \in Tasks : c \in syncing[w]
    BY <2>1 DEF Inductive, SynchronizedIsClosed, IsSynchronized
  <2>3. ASSUME NEW w \in Tasks, c \in syncing[w] PROVE count[c] < 0
    <3>1. w # t
      BY <2>3
    <3>2. c \in ReachableFrom(w) /\ c \in ReachableFrom(t)
      BY <1>1, <2>1, <2>3, ReachableIsFrom DEF SyncingIsReached
    <3> QED
      BY <3>1, <3>2 DEF Inductive, NothingElseLeaks, SharedBlocksAreSynchronized, IsSynchronized
  <2> QED
    BY <2>1, <2>2, <2>3
<1>5. B \subseteq S
  <2>1. S \in SUBSET Blocks /\ {b} \subseteq S
    BY <1>2
  <2> HIDE DEF S
  <2> QED
    BY <1>4, <2>1, FromIsLeast DEF B
<1> QED
  BY <1>5 DEF B

LEMMA FinishSpawnKeeps ==
    ASSUME Inductive, NEW t \in Tasks, FinishSpawn(t)
    PROVE  Inductive'
<1> DEFINE b == outbox[t].block
           u == outbox[t].to
<1>1. TypeOK
  BY DEF Inductive
<1>2. /\ b \in Blocks /\ u \in Tasks /\ u # t /\ held[t][b] > 0 /\ count[b] < 0
      /\ syncing[t] = {} /\ Move(t, u, b)
  BY DEF FinishSpawn, Inductive, SpawnersHoldClosures, IsSynchronized
<1>3. /\ outbox' = [outbox EXCEPT ![t] = Nowhere]
      /\ UNCHANGED <<allocated, count, field, pending, syncing, leaked>>
  BY DEF FinishSpawn
<1> HIDE DEF b, u
<1>4. held' \in [Tasks -> Bags]
  BY <1>1, <1>2, MoveKeepsTypes
<1>5. TypeOK'
  BY <1>1, <1>3, <1>4 DEF TypeOK, Messages
<1>6. outbox'[t] = Nowhere /\ \A w \in Tasks \ {t} : outbox'[w] = outbox[w]
  BY <1>1, <1>3 DEF TypeOK
<1>7. ~leaked => \A x \in From(field, {b}) : count[x] < 0
  BY <1>2, SynchronizedToTheBottom
<1> QED
  BY <1>2, <1>3, <1>5, <1>6, <1>7, MoveStep

LEMMA SpawnRaceKeeps ==
    ASSUME Inductive, NEW t \in Tasks, NEW u \in Tasks, NEW b \in Blocks, SpawnRace(t, u, b)
    PROVE  Inductive'
<1>1. TypeOK
  BY DEF Inductive
<1>2. /\ t # u /\ held[t][b] > 0 /\ syncing[t] = {} /\ outbox[t] = Nowhere /\ Move(t, u, b)
      /\ leaked' = (leaked \/ ~(count[b] < 0))
      /\ UNCHANGED <<allocated, count, field, pending, syncing, outbox>>
  BY DEF SpawnRace, Idle, IsSynchronized
<1>3. held' \in [Tasks -> Bags]
  BY <1>1, <1>2, MoveKeepsTypes
<1>4. TypeOK'
  BY <1>1, <1>2, <1>3 DEF TypeOK
<1>5. ~leaked' => \A x \in From(field, {b}) : count[x] < 0
  BY <1>2, SynchronizedToTheBottom
<1> QED
  BY <1>2, <1>4, <1>5, MoveStep

(* A task that ends gives away all it has.                                 *)
LEMMA JoinKeeps ==
    ASSUME Inductive, NEW t \in Tasks, NEW u \in Tasks, NEW b \in Blocks, Join(t, u, b)
    PROVE  Inductive'
<1>1. TypeOK
  BY DEF Inductive
<1>2. /\ t # u /\ held[t] = One(b) /\ pending[t] = Empty /\ syncing[t] = {} /\ outbox[t] = Nowhere
      /\ Move(t, u, b)
      /\ UNCHANGED <<allocated, count, field, pending, syncing, outbox, leaked>>
  BY DEF Join, Idle
<1>3. held[t][b] > 0
  BY <1>2 DEF One
<1>4. held' \in [Tasks -> Bags] /\ held'[t] = Minus(held[t], One(b))
  BY <1>1, <1>2, <1>3, MoveKeepsTypes
<1>5. TypeOK'
  BY <1>1, <1>2, <1>4 DEF TypeOK
<1>6. \A x \in Blocks : held'[t][x] = 0 /\ pending'[t][x] = 0
  BY <1>2, <1>4 DEF Minus, One, Empty
<1>7. From(field', Roots(t)') = {}
  <2>1. Roots(t)' = {}
    BY <1>6 DEF Roots
  <2>2. ClosedUnder(field', {})
    BY DEF ClosedUnder
  <2> QED
    BY <2>1, <2>2, FromIsLeast
<1>8. ASSUME ~leaked', NEW w \in Tasks \ {u}, NEW x \in From(field, {b}), x \in From(field', Roots(w)')
      PROVE  count[x] < 0
  <2>1. w # t
    BY <1>7, <1>8
  <2>2. Roots(w)' = Roots(w) /\ field' = field
    <3>1. held'[w] = held[w]
      BY <1>1, <1>2, <1>8, <2>1 DEF Move, TypeOK
    <3> QED
      BY <1>2, <3>1 DEF Roots
  <2>3. x \in From(field, Roots(t))
    <3>1. b \in From(field, Roots(t)) /\ Roots(t) \in SUBSET Blocks
      BY <1>1, <1>3, HeldIsReached DEF Roots
    <3> QED
      BY <1>1, <1>8, <3>1, FromGrows DEF TypeOK
  <2> QED
    BY <1>2, <1>8, <2>1, <2>2, <2>3, ReachableIsFrom
    DEF Inductive, NothingElseLeaks, SharedBlocksAreSynchronized, IsSynchronized
<1> QED
  BY <1>2, <1>3, <1>5, <1>8, MoveStep

----------------------------------------------------------------------------
(* The theorems.                                                           *)

LEMMA InitIsInductive == Init => Inductive
<1> SUFFICES ASSUME Init PROVE Inductive
  OBVIOUS
<1>1. TypeOK
  <2>1. Empty \in Bags /\ Empty \in [Blocks -> Int]
    BY DEF Empty, Bags
  <2>2. EmptyRecord \in [Fields -> Values] /\ Nowhere \in Messages
    BY DEF EmptyRecord, Values, Messages
  <2> QED
    BY <2>1, <2>2 DEF Init, TypeOK
<1>2. \A t \in Tasks, x \in Blocks : held[t][x] = 0 /\ pending[t][x] = 0
  BY DEF Init, Empty
<1>3. CountsBalance
  <2>1. ASSUME NEW x \in Blocks PROVE AllReferences(x) = 0
    <3>1. VariableReferences(x) = {}
      BY <1>2 DEF VariableReferences
    <3>2. FieldReferences(x) = {}
      BY DEF FieldReferences, Init
    <3> QED
      BY <3>1, <3>2, FS_EmptySet DEF AllReferences
  <2> QED
    BY <2>1, BalanceOfAll DEF Balance, Init
<1>4. SpawnersHoldClosures /\ SyncingIsReached /\ SynchronizedIsClosed
  BY DEF Init, SpawnersHoldClosures, SyncingIsReached, SynchronizedIsClosed
<1>5. NothingElseLeaks
  <2>1. \A t \in Tasks : Roots(t) = {}
    BY <1>2 DEF Roots
  <2>2. ClosedUnder(field, {})
    BY DEF ClosedUnder
  <2>3. \A t \in Tasks : From(field, Roots(t)) = {}
    BY <2>1, <2>2, FromIsLeast
  <2> QED
    BY <2>3, ReachableIsFrom DEF NothingElseLeaks, SharedBlocksAreSynchronized
<1> QED
  BY <1>1, <1>3, <1>4, <1>5 DEF Inductive

LEMMA NextIsInductive ==
    ASSUME Inductive, Next
    PROVE  Inductive'
<1> PICK t \in Tasks : TaskStep(t)
  BY DEF Next
<1>1. CASE FinishSpawn(t)
  BY <1>1, FinishSpawnKeeps
<1>2. ASSUME NEW b \in Blocks, NEW record \in [Fields -> Values], NewRecord(t, b, record)
      PROVE  Inductive'
  BY <1>2, NewRecordKeeps
<1>3. ASSUME NEW b \in Blocks, CloneVariable(t, b) PROVE Inductive'
  BY <1>3, CloneVariableKeeps
<1>4. ASSUME NEW b \in Blocks, DropVariable(t, b) PROVE Inductive'
  BY <1>4, DropVariableKeeps
<1>5. ASSUME NEW b \in Blocks, DropStep(t, b) PROVE Inductive'
  BY <1>5, DropOneKeeps, DropLastKeeps
<1>6. ASSUME NEW b \in Blocks, NEW f \in Fields, GetField(t, b, f) PROVE Inductive'
  BY <1>6, GetFieldKeeps
<1>7. ASSUME NEW b \in Blocks, NEW f \in Fields, NEW v \in Values, UpdateInPlace(t, b, f, v)
      PROVE  Inductive'
  BY <1>7, UpdateInPlaceKeeps
<1>8. ASSUME NEW b \in Blocks, NEW f \in Fields, NEW v \in Values, NEW n \in Blocks,
             UpdateCopy(t, b, f, v, n)
      PROVE  Inductive'
  BY <1>8, UpdateCopyKeeps
<1>9. ASSUME NEW b \in Blocks, SynchronizeStep(t, b) PROVE Inductive'
  BY <1>9, SynchronizeStepKeeps
<1>10. ASSUME NEW b \in Blocks, NEW u \in Tasks, BeginSpawn(t, u, b) PROVE Inductive'
  BY <1>10, BeginSpawnKeeps
<1>11. ASSUME NEW b \in Blocks, NEW u \in Tasks, Join(t, u, b) PROVE Inductive'
  BY <1>11, JoinKeeps
<1>12. ASSUME NEW b \in Blocks, NEW u \in Tasks, SpawnRace(t, u, b) PROVE Inductive'
  BY <1>12, SpawnRaceKeeps
<1> QED
  BY <1>1, <1>2, <1>3, <1>4, <1>5, <1>6, <1>7, <1>8, <1>9, <1>10, <1>11, <1>12 DEF TaskStep

LEMMA StutteringIsInductive ==
    ASSUME Inductive, UNCHANGED vars
    PROVE  Inductive'
<1>1. /\ TypeOK' /\ SpawnersHoldClosures' /\ SynchronizedIsClosed'
  BY DEF vars, Inductive, TypeOK, SpawnersHoldClosures, SynchronizedIsClosed, IsSynchronized
<1>2. CountsBalance'
  BY NoReferencesChange DEF Inductive, vars
<1>3. \A t \in Tasks : ReachableFrom(t)' = ReachableFrom(t)
  BY DEF vars, ReachableFrom, Reachable, IsClosed
<1>4. SyncingIsReached' /\ NothingElseLeaks'
  BY <1>3 DEF vars, Inductive, SyncingIsReached, NothingElseLeaks,
              SharedBlocksAreSynchronized, IsSynchronized
<1> QED
  BY <1>1, <1>2, <1>4 DEF Inductive

(* The invariant that the properties rest on holds in every state of every *)
(* program of clones, drops, records, updates, go and race.                *)
THEOREM InductiveInvariant == Spec => []Inductive
<1>1. Inductive /\ [Next]_vars => Inductive'
  BY NextIsInductive, StutteringIsInductive
<1> QED
  BY InitIsInductive, <1>1, PTL DEF Spec

(* The count of a block is the number of references to it, in variables,   *)
(* being dropped and in fields, however the tasks interleave: nothing is   *)
(* freed early and nothing in use is without a reference (pointer.rs).     *)
THEOREM CountsAreRight == Spec => []CountsBalance
<1>1. Inductive => CountsBalance
  BY DEF Inductive
<1> QED
  BY <1>1, InductiveInvariant, PTL

(* Tasks share only synchronized blocks until a synchronized record has    *)
(* been updated in place with a value that is not, or race been called     *)
(* with a list that is not.                                                *)
THEOREM OnlyTwoWaysLeak == Spec => []NothingElseLeaks
<1>1. Inductive => NothingElseLeaks
  BY DEF Inductive
<1> QED
  BY <1>1, InductiveInvariant, PTL

(* Until then synchronize may stop at a block that is synchronized: all    *)
(* below it is, or is being synchronized.                                  *)
THEOREM SynchronizationIsDeep == Spec => []SynchronizedIsClosed
<1>1. Inductive => SynchronizedIsClosed
  BY DEF Inductive
<1> QED
  BY <1>1, InductiveInvariant, PTL

(* No step writes to a block in use that somebody else refers to.          *)
THEOREM SharedValuesAreConstant == Spec => OnlyUnsharedBlocksChange
<1> DEFINE Unshared == \A b \in allocated \cap allocated' :
                           field'[b] # field[b] => AllReferences(b) = 1
<1>1. ASSUME Inductive, Next PROVE Unshared
  <2> TAKE b \in allocated \cap allocated'
  <2>1. SUFFICES ASSUME field'[b] # field[b] PROVE AllReferences(b) = 1
    OBVIOUS
  <2>2. TypeOK /\ CountsBalance /\ b \in Blocks
    BY <1>1 DEF Inductive, TypeOK
  <2>3. PICK t \in Tasks : TaskStep(t)
    BY <1>1 DEF Next
  <2>4. ASSUME NEW c \in Blocks, NEW record \in [Fields -> Values], NewRecord(t, c, record)
        PROVE  FALSE
    BY <2>1, <2>2, <2>4 DEF NewRecord, TypeOK
  <2>5. ASSUME NEW c \in Blocks, DropStep(t, c) PROVE FALSE
    BY <2>1, <2>2, <2>5 DEF DropStep, TypeOK
  <2>6. ASSUME NEW c \in Blocks, NEW f \in Fields, NEW v \in Values, UpdateInPlace(t, c, f, v)
        PROVE  AllReferences(b) = 1
    <3>1. IsUnique(c) /\ held[t][c] >= 1
      <4>1. One(c)[c] + One(v)[c] <= held[t][c] /\ One(c)[c] = 1 /\ One(v)[c] \in {0, 1}
        BY <2>6 DEF UpdateInPlace, Covers, Plus, One
      <4>2. held[t][c] \in Nat
        BY <2>2 DEF TypeOK, Bags
      <4> QED
        BY <2>6, <4>1, <4>2 DEF UpdateInPlace
    <3>2. c = b
      BY <2>1, <2>2, <2>6 DEF UpdateInPlace, TypeOK
    <3>3. Has(t, c) > 0
      BY <2>2, <3>1 DEF Has, TypeOK, Bags
    <3> QED
      BY <2>2, <3>1, <3>2, <3>3, UniqueIsNotShared
  <2>7. ASSUME NEW c \in Blocks, NEW f \in Fields, NEW v \in Values, NEW n \in Blocks,
               UpdateCopy(t, c, f, v, n)
        PROVE  FALSE
    BY <2>1, <2>2, <2>7 DEF UpdateCopy, TypeOK
  <2>8. \/ \E c \in Blocks, record \in [Fields -> Values] : NewRecord(t, c, record)
        \/ \E c \in Blocks : DropStep(t, c)
        \/ \E c \in Blocks, f \in Fields, v \in Values : UpdateInPlace(t, c, f, v)
        \/ \E c \in Blocks, f \in Fields, v \in Values, n \in Blocks : UpdateCopy(t, c, f, v, n)
    BY <2>1, <2>3 DEF TaskStep, CloneVariable, DropVariable, GetField, SynchronizeStep,
                      BeginSpawn, Join, SpawnRace, FinishSpawn
  <2> QED
    BY <2>4, <2>5, <2>6, <2>7, <2>8
<1>2. Inductive /\ [Next]_vars => [Unshared]_vars
  BY <1>1
<1> QED
  BY <1>2, InductiveInvariant, PTL DEF Spec, OnlyUnsharedBlocksChange

===============================================================================
