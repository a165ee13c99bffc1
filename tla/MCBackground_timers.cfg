SPECIFICATION BackgroundSpec
CONSTANTS
  b1 = b1
  b2 = b2
  q1 = q1
  q2 = q2
  Replicas <- MCReplicas
  Requests <- MCRequests
  NoRequest = NoRequest
  Connections = {c1, c2, c3}
  Null = Null
  MaxTimers = 2
  MaxLosses = 2
  LinkFaults = {}
INVARIANTS
  SlaTypeOK
  ViolationHasProof
  ReconnectPending
PROPERTIES
  AuditedAtLast
  LateIsNoticed
  Reconnects
CHECK_DEADLOCK FALSE
