SPECIFICATION FairSpec
CONSTANTS
  b1 = b1
  b2 = b2
  primary = primary
  cache = cache
  Requests = {q1}
  Replicas = {b1, b2}
  FastSteps = {cache}
  Analytics = analytics
  Cache = cache
  NoMessage = NoMessage
  NoRequest = NoRequest
  Faults = {}
  Slow = {q1}
  Breaker = "closed"
  MAX_RETRIES = 1
  CIRCUIT_THRESHOLD = 2
  MaxCopies = 1
  MaxQueue = 1
  MaxLifecycle = 1
INVARIANTS
  DecidedWhenQuiet
PROPERTIES
  EveryRequestDecided
CHECK_DEADLOCK FALSE
