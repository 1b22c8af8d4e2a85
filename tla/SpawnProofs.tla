----------------------------- MODULE SpawnProofs -----------------------------
(***************************************************************************)
(* Proofs that tasks never wait for each other in a circle, however many   *)
(* there are and however futures are captured, called and returned: some   *)
(* task that others wait for can always go on.                             *)
(*                                                                         *)
(* A circle is stated by sets: a set of tasks each of which waits for a    *)
(* task in the set.  So is the absence of one in what tasks know, which is *)
(* the invariant that explains it.                                         *)
(***************************************************************************)
EXTENDS Spawn, TLAPS

----------------------------------------------------------------------------

(* The main task starts without futures.                                   *)
LEMMA InitInductive ==
    ASSUME Init
    PROVE  Inductive
BY DEF Init, Inductive, TypeOK, States, UnbornAreUnknown, WaitersKnow,
   KnowledgeIsAcyclic

(* A new task may know what its spawner knew, which does not include       *)
(* itself; nobody but its spawner knows it.                                *)
LEMMA GoPreserves ==
    ASSUME Inductive, NEW t \in Tasks, NEW u \in Tasks, Go(t, u)
    PROVE  Inductive'
<1> USE DEF Inductive
<1> PICK captured \in SUBSET knows[t] :
        knows' = [knows EXCEPT ![t] = @ \cup {u}, ![u] = captured]
  BY DEF Go, Capturable
<1>1. /\ state[t] = "running" /\ state[u] = "unborn" /\ t # u
      /\ state' = [state EXCEPT ![u] = "running"]
      /\ awaits' = awaits /\ taken' = taken
  BY DEF Go
<1>2. /\ knows'[t] = knows[t] \cup {u}
      /\ knows'[u] = captured
      /\ \A x \in Tasks \ {t, u} : knows'[x] = knows[x]
      /\ \A x \in Tasks : u \notin knows[x]
      /\ knows' \in [Tasks -> SUBSET Tasks]
  BY <1>1 DEF TypeOK, UnbornAreUnknown
<1>3. TypeOK'
  BY <1>1, <1>2 DEF TypeOK, States
<1>4. UnbornAreUnknown' /\ WaitersKnow'
  BY <1>1, <1>2 DEF TypeOK, UnbornAreUnknown, WaitersKnow
<1>5. KnowledgeIsAcyclic'
  <2> SUFFICES ASSUME NEW S \in SUBSET Tasks, S # {}
               PROVE  \E x \in S : knows'[x] \cap S = {}
    BY DEF KnowledgeIsAcyclic
  <2>1. CASE S = {u}
    BY <1>2, <2>1
  <2>2. CASE S # {u}
    <3>1. PICK x \in S \ {u} : knows[x] \cap (S \ {u}) = {}
      <4>1. S \ {u} \in SUBSET Tasks /\ S \ {u} # {}
        BY <2>2
      <4> QED
        BY <4>1 DEF KnowledgeIsAcyclic
    <3>2. CASE x # t
      BY <1>2, <3>1, <3>2
    <3>3. CASE x = t /\ u \in S
      <4>1. captured \subseteq knows[t] /\ u \notin captured
        BY <1>2
      <4>2. captured \cap S = {}
        BY <3>1, <3>3, <4>1
      <4> QED
        BY <1>2, <3>3, <4>2
    <3>4. CASE x = t /\ u \notin S
      BY <1>2, <3>1, <3>4
    <3> QED
      BY <3>2, <3>3, <3>4
  <2> QED
    BY <2>1, <2>2
<1> QED
  BY <1>3, <1>4, <1>5

(* A call of a future, the first or a later one, tells nobody anything.    *)
LEMMA CallPreserves ==
    ASSUME Inductive, NEW t \in Tasks, NEW u \in Tasks,
           CallFuture(t, u) \/ CallFutureAgain(t, u)
    PROVE  Inductive'
BY DEF CallFuture, CallFutureAgain, Inductive, TypeOK, States, UnbornAreUnknown,
   WaitersKnow, KnowledgeIsAcyclic

(* What a result tells its receiver, the receiver could have reached       *)
(* through the future it waited for.                                       *)
LEMMA AwaitPreserves ==
    ASSUME Inductive, NEW t \in Tasks, Await(t)
    PROVE  Inductive'
<1> USE DEF Inductive
<1> DEFINE w == awaits[t]
<1>1. /\ state[t] = "waiting" /\ w \in knows[t] /\ w \in Tasks
      /\ state' = [state EXCEPT ![t] = "running"]
      /\ knows' = [knows EXCEPT ![t] = @ \cup knows[w]]
      /\ awaits' = [awaits EXCEPT ![t] = None] /\ taken' = taken
  BY DEF Await, WaitersKnow, TypeOK
<1> HIDE DEF w
<1>2. /\ knows'[t] = knows[t] \cup knows[w]
      /\ \A x \in Tasks \ {t} : knows'[x] = knows[x]
  BY <1>1 DEF TypeOK
<1>3. TypeOK'
  BY <1>1 DEF TypeOK, States
<1>4. UnbornAreUnknown' /\ WaitersKnow'
  BY <1>1, <1>2 DEF TypeOK, UnbornAreUnknown, WaitersKnow
<1>5. KnowledgeIsAcyclic'
  <2> SUFFICES ASSUME NEW S \in SUBSET Tasks, S # {}
               PROVE  \E x \in S : knows'[x] \cap S = {}
    BY DEF KnowledgeIsAcyclic
  <2>1. PICK x \in S : knows[x] \cap S = {}
    BY DEF KnowledgeIsAcyclic
  <2>2. CASE x # t
    BY <1>2, <2>1, <2>2
  <2>3. CASE x = t
    <3>1. S \cup {w} \in SUBSET Tasks /\ S \cup {w} # {}
      BY <1>1
    <3>2. PICK y \in S \cup {w} : knows[y] \cap (S \cup {w}) = {}
      BY <3>1 DEF KnowledgeIsAcyclic
    <3>3. CASE y = w
      BY <1>2, <2>1, <2>3, <3>2, <3>3
    <3>4. CASE y # w
      BY <1>1, <1>2, <3>2, <3>4
    <3> QED
      BY <3>3, <3>4
  <2> QED
    BY <2>2, <2>3
<1> QED
  BY <1>3, <1>4, <1>5

(* A panic takes the receiver with it, and tells it nothing else.          *)
LEMMA AwaitPanickedPreserves ==
    ASSUME Inductive, NEW t \in Tasks, AwaitPanicked(t)
    PROVE  Inductive'
BY DEF AwaitPanicked, Inductive, TypeOK, States, UnbornAreUnknown, WaitersKnow,
   KnowledgeIsAcyclic

(* A task that ends keeps no more than it knew.                            *)
LEMMA EndPreserves ==
    ASSUME Inductive, NEW t \in Tasks, End(t)
    PROVE  Inductive'
<1> USE DEF Inductive
<1> PICK result \in SUBSET knows[t] : knows' = [knows EXCEPT ![t] = result]
  BY DEF End
<1>1. /\ state[t] = "running"
      /\ state' = [state EXCEPT ![t] = "ended"]
      /\ awaits' = awaits /\ taken' = taken
      /\ \A x \in Tasks : knows'[x] \subseteq knows[x]
      /\ \A x \in Tasks \ {t} : knows'[x] = knows[x]
  BY DEF End, TypeOK
<1>2. TypeOK'
  BY <1>1 DEF TypeOK, States
<1>3. UnbornAreUnknown' /\ WaitersKnow'
  BY <1>1 DEF TypeOK, UnbornAreUnknown, WaitersKnow
<1>4. KnowledgeIsAcyclic'
  BY <1>1 DEF KnowledgeIsAcyclic
<1> QED
  BY <1>2, <1>3, <1>4

(* No step of any task brings a circle about.                              *)
LEMMA NextInductive ==
    ASSUME Inductive, [Next]_vars
    PROVE  Inductive'
<1>1. CASE UNCHANGED vars
  BY <1>1 DEF vars, Inductive, TypeOK, UnbornAreUnknown, WaitersKnow,
     KnowledgeIsAcyclic
<1>2. CASE Next
  BY <1>2, GoPreserves, CallPreserves, AwaitPreserves, AwaitPanickedPreserves,
     EndPreserves DEF Next
<1> QED
  BY <1>1, <1>2

(* What tasks know stays acyclic, for any set of tasks.                    *)
THEOREM InductiveInvariant == Spec => []Inductive
<1>1. Init => Inductive
  BY InitInductive
<1>2. Inductive /\ [Next]_vars => Inductive'
  BY NextInductive
<1> QED
  BY <1>1, <1>2, PTL DEF Spec

(* Futures cannot deadlock: no tasks wait for each other in a circle.      *)
THEOREM FuturesDoNotDeadlock == Spec => []NobodyWaitsInACircle
<1>1. Inductive => NobodyWaitsInACircle
  <2> SUFFICES ASSUME Inductive, NEW S \in SUBSET Tasks, S # {},
                      \A t \in S : state[t] = "waiting"
               PROVE  \E t \in S : awaits[t] \notin S
    BY DEF NobodyWaitsInACircle
  <2>1. PICK t \in S : knows[t] \cap S = {}
    BY DEF Inductive, KnowledgeIsAcyclic
  <2> QED
    BY <2>1 DEF Inductive, WaitersKnow
<1> QED
  BY <1>1, InductiveInvariant, PTL

(* While a task waits, the futures that others hold let one of them go on: *)
(* the safety that EveryCallReturns rests on.                              *)
THEOREM WaitingEndsSomewhere == Spec => []SomebodyCanGoOn
<1>1. Inductive => SomebodyCanGoOn
  <2> SUFFICES ASSUME Inductive, \E t \in Tasks : state[t] = "waiting"
               PROVE  \E t \in Tasks :
                          /\ state[t] = "waiting"
                          /\ awaits[t] \in Tasks
                          /\ state[awaits[t]] \in {"running", "ended", "panicked"}
    BY DEF SomebodyCanGoOn
  <2> DEFINE S == {t \in Tasks : state[t] = "waiting"}
  <2>1. PICK t \in S : knows[t] \cap S = {}
    BY DEF Inductive, KnowledgeIsAcyclic
  <2>2. awaits[t] \in knows[t] /\ awaits[t] \in Tasks /\ awaits[t] \notin S
    BY <2>1 DEF Inductive, WaitersKnow, TypeOK
  <2>3. state[awaits[t]] \in {"running", "ended", "panicked"}
    BY <2>2 DEF Inductive, TypeOK, States, UnbornAreUnknown
  <2> QED
    BY <2>2, <2>3
<1> QED
  BY <1>1, InductiveInvariant, PTL

=============================================================================
