SPECIFICATION Spec
CONSTANTS
  a = a
  b = b
  r1 = r1
  scheduler = scheduler
  Todos = {a, b}
  Periodic = {}
  Cron = {}
  Reuse = {}
  Requests = {r1}
  Scheduler = scheduler
  MaxRuns = 1
  MaxOps = 3
  MaxEvents = 0
  MaxCrashes = 0
PROPERTIES
  CancelledDispatchStaysCancelled
