---------------------------- MODULE MCDevProjects ----------------------------
(* Small instances of DevProjects for TLC.                                 *)
EXTENDS DevProjects, TLC

MCSymmetry == Permutations(Recorders) \cup Permutations(Paths)
=============================================================================
