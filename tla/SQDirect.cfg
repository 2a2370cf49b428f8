CONSTANTS
  Workflows = {f1}
  Workers = {}
  Callers = {c1}
  Editors = {u1}
  Scheduler = Scheduler
  Hourly = Hourly
  Daily = Daily
  Crons = {Hourly, Daily}
  NoCron = NoCron
  CronTicks <- MCCronTicks
  LockTTL = 1
  SemCap = 1
  QueueEnabled = FALSE
  MaxTime = 3
  MaxRuns = 1
  MaxEdits = 1
  MaxFaults = 1
  MaxExpiries = 1
SPECIFICATION Spec
INVARIANT NoOrphanRun
PROPERTY FiredOnTick
