---------------------------- MODULE MCChatEditor ----------------------------
(* Instances of ChatEditor for TLC.                                        *)
EXTENDS ChatEditor, TLC

CONSTANTS t1, t2, s1, s2

MCSymmetry == Permutations(Turns) \cup Permutations(Sessions)
=============================================================================
