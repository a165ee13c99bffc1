SPECIFICATION AdminFairSpec
CONSTANTS
  q1 = q1
  q2 = q2
  Requests = {q1}
  Cache = cache
  NoRequest = NoRequest
  Faults = {"fail", "throw", "crash"}
  MAX_RETRIES = 3
  CIRCUIT_THRESHOLD = 3
  MaxCopies = 1
  MaxQueue = 1
  Endpoints = {"replay", "circuits"}
INVARIANTS
  AdminTypeOK
  SucceededMeansErased
  BreakerHasCause
  DeadLetterKept
  CalmOneFinalWord
  OpenShownWasOpen
PROPERTIES
  ReplayTerminates
  CalmAnswered
CHECK_DEADLOCK FALSE
