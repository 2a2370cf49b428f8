----------------------------- MODULE MCTaskLists -----------------------------
(* Instances of TaskLists for TLC. *)
EXTENDS TaskLists, TLC

MCSymmetry == Permutations(Requests) \cup Permutations(Items) \cup Permutations(Lists)

=============================================================================
