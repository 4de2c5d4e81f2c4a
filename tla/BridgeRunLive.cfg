SPECIFICATION FairSpec
CONSTANTS
  Bodies = {b0, b1}
  Tags = {t0}
  LossyBodies = {}
  EmptyBodies = {b1}
  MaxEdits = 2
  MaxFaults = 1
  LastDay = 1
PROPERTY PairConverges
CHECK_DEADLOCK FALSE
