CONSTANTS
  Workflows = {f1}
  Workers = {w1, w2}
  Callers = {}
  Editors = {u1}
  Scheduler = Scheduler
  Hourly = Hourly
  Daily = Daily
  Crons = {Hourly, Daily}
  NoCron = NoCron
  CronTicks <- MCCronTicks
  LockTTL = 1
  SemCap = 1
  QueueEnabled = TRUE
  MaxTime = 2
  MaxRuns = 1
  MaxEdits = 1
  MaxFaults = 1
  MaxExpiries = 1
SPECIFICATION FairSpec
INVARIANTS
  TypeOK
  AtMostOnce
  SerialPerWorkflow
  NoTickSkipped
PROPERTIES
  ImplementsContract
  QueuedSettles
  DueTickFires
