---------------------------- MODULE MCSharedHeap ----------------------------
(* SharedHeap for TLC: tasks, blocks and fields are interchangeable.       *)
EXTENDS SharedHeap, TLC

Symmetry == Permutations(Tasks) \cup Permutations(Blocks) \cup Permutations(Fields)

=============================================================================
