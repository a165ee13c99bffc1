SPECIFICATION Spec
CONSTANTS
  b1 = b1
  b2 = b2
  primary = primary
  cache = cache
  Requests = {q1}
  Replicas = {b1}
  FastSteps = {cache}
  Analytics = analytics
  Cache = cache
  NoMessage = NoMessage
  NoRequest = NoRequest
  Faults = {"crash"}
  Slow = {}
  Breaker = "any"
  MAX_RETRIES = 1
  CIRCUIT_THRESHOLD = 2
  MaxCopies = 1
  MaxQueue = 1
  MaxLifecycle = 1
INVARIANTS
  CompletedMeansErased
  SettledStepsProved
CHECK_DEADLOCK FALSE
