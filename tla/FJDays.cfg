CONSTANTS
  Users = {u1}
  Subs = {s1}
  Requests = {r1, r2}
  Hours = 2
  PerHour = 4
  Every = 2
  Zones <- MCZones
  SubChanges <- MCSubChanges
  ConfChanges <- MCConfChanges
  None = None
  Start = 21
  MaxTime = 28
  MaxDue = 3
  MaxFaults = 1
SPECIFICATION Spec
SYMMETRY MCSymmetry
INVARIANTS
  TypeOK
  Reminders
  OneDigestADay
CHECK_DEADLOCK FALSE
