--------------------------- MODULE SharedOwnership ---------------------------
(***************************************************************************)
(* What reference counting promises, without counts: a block lives as long *)
(* as somebody holds a reference to it, and is destroyed once, and         *)
(* eventually, after the last reference is gone.  Blocks in static memory  *)
(* are not destroyed.                                                      *)
(***************************************************************************)
EXTENDS FiniteSets

CONSTANTS Threads, Refs, None

VARIABLES holder,   \* holder[r]: the thread that holds r, or None
          static,   \* whether the block is in static memory
          alive     \* whether the block can still be used

ownershipVars == <<holder, static, alive>>

Held == {r \in Refs : holder[r] # None}

OwnershipInit ==
    /\ \E t \in Threads, r \in Refs :
          holder = [s \in Refs |-> IF s = r THEN t ELSE None]
    /\ static \in BOOLEAN
    /\ alive = TRUE

(* A holder makes another reference for itself; anybody can refer to a     *)
(* block in static memory.                                                 *)
Share(t, s) ==
    /\ alive
    /\ static \/ t \in {holder[r] : r \in Held}
    /\ holder[s] = None
    /\ holder' = [holder EXCEPT ![s] = t]
    /\ UNCHANGED <<static, alive>>

Release(r) ==
    /\ alive
    /\ holder[r] # None
    /\ holder' = [holder EXCEPT ![r] = None]
    /\ UNCHANGED <<static, alive>>

(* Some of the references of t become references of u.                     *)
Give(t, u, R) ==
    /\ alive
    /\ R \subseteq {r \in Held : holder[r] = t}
    /\ holder' = [r \in Refs |-> IF r \in R THEN u ELSE holder[r]]
    /\ UNCHANGED <<static, alive>>

Destroy ==
    /\ alive
    /\ ~static
    /\ Held = {}
    /\ alive' = FALSE
    /\ UNCHANGED <<holder, static>>

OwnershipNext ==
    \/ \E t \in Threads, s \in Refs : Share(t, s)
    \/ \E r \in Refs : Release(r)
    \/ \E t, u \in Threads, R \in SUBSET Refs : Give(t, u, R)
    \/ Destroy

Spec ==
    OwnershipInit /\ [][OwnershipNext]_ownershipVars /\ WF_ownershipVars(Destroy)

=============================================================================
