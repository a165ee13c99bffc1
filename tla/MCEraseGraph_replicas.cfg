SPECIFICATION Spec
CONSTANTS
  b1 = b1
  b2 = b2
  primary = primary
  cache = cache
  Requests = {q1}
  Replicas = {b1, b2}
  FastSteps = {cache}
  Analytics = analytics
  Cache = cache
  NoMessage = NoMessage
  NoRequest = NoRequest
  Faults = {}
  Slow = {}
  Breaker = "closed"
  MAX_RETRIES = 1
  CIRCUIT_THRESHOLD = 2
  MaxCopies = 1
  MaxQueue = 1
  MaxLifecycle = 1
INVARIANTS
  AllSucceededCompletes
CHECK_DEADLOCK FALSE
