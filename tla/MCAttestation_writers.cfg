SPECIFICATION AttestSpec
CONSTANTS
  b1 = b1
  b2 = b2
  k1 = k1
  k2 = k2
  Keys = {k1, k2}
  ProofKeys = {k1, k2}
  Bare = {}
  SlaKey = SlaKey
  Late = TRUE
  Replicas = {b1, b2}
  NoKey = NoKey
  Genesis = Genesis
  NoHash = NoHash
  Free = Free
  Faults = {"crash"}
  MaxClock = 4
SYMMETRY Symmetry
INVARIANTS
  ProofTypeOK
  LinksResolve
  EveryResultProved
  ReportStandsAlone
  ChainVerifies
CHECK_DEADLOCK FALSE
