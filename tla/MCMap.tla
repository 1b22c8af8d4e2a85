------------------------------- MODULE MCMap -------------------------------
(* Hashes of five bits and indices of two, so that nodes have four entries *)
(* and the third level, the last, sees one bit.  The layers add multiples  *)
(* of five.  The keys share no level, one, or two of them; "same" has the   *)
(* hash of "a".                                                            *)
EXTENDS Map

CONSTANTS v, w
MCKeys == {"a", "b", "c", "d", "same"}
MCKeyHash ==
    [k \in MCKeys |-> CASE k \in {"a", "same"} -> 3
                        [] k = "b" -> 19
                        [] k = "c" -> 7
                        [] k = "d" -> 5]
MCValues == {v, w}
MCValueHash == [value \in MCValues |-> IF value = v THEN 1 ELSE 2]
MCLayerHash == [n \in 1 .. 5 |-> (5 * n) % 32]
=============================================================================
