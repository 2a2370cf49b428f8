CONSTANTS
  t1 = t1
  t2 = t2
  s1 = s1
  s2 = s2
  Turns = {t1, t2}
  Sessions = {s1, s2}
  None = None
  MaxChats = 2
  MaxLines = 1
  MaxEvents = 1
SPECIFICATION Spec
SYMMETRY MCSymmetry
INVARIANTS
  TypeOK
  QuestionsKept
  AtHome
  StoredOnce
  InputLock
CHECK_DEADLOCK FALSE
