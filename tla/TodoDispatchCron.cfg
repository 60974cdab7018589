SPECIFICATION Spec
CONSTANTS
  a = a
  b = b
  r1 = r1
  scheduler = scheduler
  Todos = {a}
  Periodic = {a}
  Cron = {a}
  Reuse = {a}
  Requests = {r1}
  Scheduler = scheduler
  MaxRuns = 2
  MaxOps = 3
  MaxEvents = 3
  MaxCrashes = 1
INVARIANTS
  TypeOK
  ReservationExact
  TaskOwnsLatestRun
  StartingRunHasOwner
  InFlightStageIsLive
  DisarmedCronHasOpenRun
PROPERTIES
  FailedRunStays
  ImplementsLedger
