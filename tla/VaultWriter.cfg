SPECIFICATION Spec
CONSTANTS
  Pages <- MCPages
  Inodes <- MCInodes
  Requests <- MCRequests
  Companions = {"a"}
  Present = {"a", "c"}
  MaxEdits = 2
  MaxFaults = 2
INVARIANTS TypeOK OwnTextsKept OutcomeIsExact OneNameIsComplete
CHECK_DEADLOCK FALSE
