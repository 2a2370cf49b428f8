CONSTANTS
  t1 = t1
  t2 = t2
  p1 = p1
  Turns = {t1, t2}
  Patchers = {p1}
  Untitled = Untitled
  Named = Named
  Unset = Unset
  AnswerFields <- MCAnswerFields
  PatchFields <- MCPatchFields
  MaxFaults = 1
SPECIFICATION Spec
SYMMETRY MCSymmetry
INVARIANTS
  TypeOK
  Dialogue
  RepliesAccounted
  EditsSurvive
CHECK_DEADLOCK FALSE
