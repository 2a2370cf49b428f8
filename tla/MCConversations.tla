-------------------------- MODULE MCConversations --------------------------
(* Instances of Conversations for TLC.                                     *)
EXTENDS Conversations, TLC

CONSTANTS t1, t2, p1

\* an answer sets one field, a PATCH the other
MCAnswerFields == {{"builder"}}
MCPatchFields == {{"global"}}

\* no definition tells the turns apart
MCSymmetry == Permutations(Turns)
=============================================================================
