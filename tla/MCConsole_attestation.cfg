SPECIFICATION Spec
CONSTANTS
  Pages = {"home"}
  Requests = {1, 2}
  None = None
  Faults = {}
  MaxReads = 1
  MaxWire = 1
  Filters <- MCFilters
  MaxLate = 1
  Files <- MCFiles
  Subjects = {"alice", "bob"}
  Users = {1}
  Callers = {"page"}
  MaxErasures = 0
  DemoFaults = {}
INVARIANTS AttestationShown
CHECK_DEADLOCK FALSE
