-------------------------------- MODULE Merge --------------------------------
(***************************************************************************)
(* What the race function promises: the list it returns has the elements   *)
(* of all the given lists, each once, those of one list in the order of    *)
(* that list, and every part of it that is asked for can be had.           *)
(***************************************************************************)
EXTENDS Naturals, Sequences

CONSTANTS Lists, Length

VARIABLES merged,   \* the elements of the result so far
          status    \* "idle", "asked" for the next element, "ended", "dropped"

mergeVars == <<merged, status>>

Element(i, n) == [list |-> i, index |-> n]

(* Whether the n-th element of list i is in the result.                    *)
Has(i, n) == \E k \in DOMAIN merged : merged[k] = Element(i, n)

MergeInit == merged = << >> /\ status = "idle"

Ask == status = "idle" /\ status' = "asked" /\ UNCHANGED merged

(* The first element of some list that is not in the result yet.           *)
Deliver ==
    /\ status = "asked"
    /\ \E i \in Lists : \E n \in 1..Length[i] :
          /\ \A m \in 1..Length[i] : Has(i, m) <=> m < n
          /\ merged' = Append(merged, Element(i, n))
    /\ status' = "idle"

End ==
    /\ status = "asked"
    /\ \A i \in Lists : \A n \in 1..Length[i] : Has(i, n)
    /\ status' = "ended"
    /\ UNCHANGED merged

Drop == status = "idle" /\ status' = "dropped" /\ UNCHANGED merged

MergeNext == Ask \/ Deliver \/ End \/ Drop

Spec == MergeInit /\ [][MergeNext]_mergeVars /\ WF_mergeVars(Deliver \/ End)

=============================================================================
