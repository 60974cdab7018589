SPECIFICATION FairSpec
CONSTANTS
  a = a
  b = b
  r1 = r1
  scheduler = scheduler
  Todos = {a, b}
  Periodic = {b}
  Cron = {}
  Reuse = {}
  Requests = {r1}
  Scheduler = scheduler
  MaxRuns = 1
  MaxOps = 2
  MaxEvents = 2
  MaxCrashes = 0
INVARIANTS
  ReservationExact
PROPERTIES
  QueueDrains
