SPECIFICATION Spec
CONSTANTS
  Root = Root
  A = A
  B = B
  C = C
  a = a
  b = b
  Others = {A, B, C, D}
  Names = {a, b}
  RootName = RootName
  Nothing = Nothing
  Starts <- MCStarts
  MaxEdits = 2
  MaxFaults = 1
INVARIANTS TypeOK NeverCreatedTwice
PROPERTIES OnlySeenTextIsReplaced ConflictIsLeftAlone
CHECK_DEADLOCK FALSE
