SPECIFICATION FairSpec
CONSTANTS
  b1 = b1
  b2 = b2
  primary = primary
  cache = cache
  Requests = {q1}
  Replicas = {b1}
  FastSteps = {primary, cache}
  Analytics = analytics
  Cache = cache
  NoMessage = NoMessage
  NoRequest = NoRequest
  Faults = {"fail"}
  Slow = {}
  Breaker = "closed"
  MAX_RETRIES = 1
  CIRCUIT_THRESHOLD = 2
  MaxCopies = 1
  MaxQueue = 2
  MaxLifecycle = 1
INVARIANTS
  QuietAgreement
PROPERTIES
  ErasurePromise
  EveryRequestFinishes
CHECK_DEADLOCK FALSE
