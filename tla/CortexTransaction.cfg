SPECIFICATION Spec
CONSTANTS
  Pages <- MCPages
  Inodes <- MCInodes
  Plans <- MCPlans
  Companions = {"a"}
  Present = {"a"}
  MaxEdits = 1
  MaxFaults = 2
INVARIANTS TypeOK EveryTextKept OutcomeIsExact
PROPERTIES ChangesAreLogged RecoveryGoesThrough
CHECK_DEADLOCK FALSE
