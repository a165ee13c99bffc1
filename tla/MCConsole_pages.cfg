SPECIFICATION FairSpec
CONSTANTS
  Pages = {"home", "history", "submit", "bulk", "users"}
  Requests = {1, 2}
  None = None
  Faults = {"fail"}
  MaxReads = 2
  MaxWire = 1
  Filters <- MCFilters
  MaxLate = 1
  Files <- MCFiles
  Subjects = {"alice", "bob"}
  Users = {1, 2}
  Callers = {"page", "other"}
  MaxErasures = 1
  DemoFaults = {"fail"}
INVARIANTS ConsoleTypeOK StreamTruthful ScreenConsistent UploadAccounted RestoredWhole
PROPERTIES StreamEnds ScreenSettles
CHECK_DEADLOCK FALSE
