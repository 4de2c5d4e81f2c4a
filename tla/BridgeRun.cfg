SPECIFICATION Spec
CONSTANTS
  b0 = b0
  empty = empty
  lossy = lossy
  t0 = t0
  t1 = t1
  Bodies <- MCBodies
  Tags <- MCTags
  LossyBodies = {lossy}
  EmptyBodies = {empty}
  MaxEdits = 2
  MaxFaults = 2
  LastDay = 1
SYMMETRY Symmetry
INVARIANTS TypeOK AtMostOnePage QuietMeansRecorded PausedConflictKeepsBothTexts
PROPERTIES OnlyCommonTextIsReplaced AcknowledgedChangesAreSettled NewlySyncedPageIsRegistered
CHECK_DEADLOCK FALSE
