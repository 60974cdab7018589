SPECIFICATION FairSpec
CONSTANTS
  a = a
  b = b
  r1 = r1
  scheduler = scheduler
  Todos = {a}
  Periodic = {a}
  Cron = {a}
  Reuse = {}
  Requests = {r1}
  Scheduler = scheduler
  MaxRuns = 2
  MaxOps = 2
  MaxEvents = 2
  MaxCrashes = 0
PROPERTIES
  CronCardIsRescheduled
