SPECIFICATION Spec
CONSTANTS
  b1 = b1
  b2 = b2
  cache = cache
  Requests = {q1}
  Replicas = {b1, b2}
  FastSteps = {cache}
  Analytics = analytics
  Vocabulary <- MCVocabulary
  Repeats = FALSE
  NoMessage = NoMessage
  Faults = {"crash", "throw"}
  MaxQueue = 1
  MaxLifecycle = 1
SYMMETRY Symmetry
INVARIANTS
  TypeOK
  StatusJustified
  FinishedMeansAllReported
  LifecycleTruthful
PROPERTIES
  RowsMoveAsShown
CHECK_DEADLOCK FALSE
