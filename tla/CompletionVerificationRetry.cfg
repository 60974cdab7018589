SPECIFICATION FairSpec
CONSTANTS
  r1 = r1
  s1 = s1
  s2 = s2
  s3 = s3
  Requests = {r1}
  Slots = {s1, s2, s3}
  Periodic = FALSE
  Work = {"process", "subagent"}
  MaxAttempts = 2
  MaxDispatches = 1
  MaxEvents = 1
  MaxWork = 1
  MaxMishaps = 0
PROPERTIES
  VerificationEnds
CHECK_DEADLOCK FALSE
