SPECIFICATION Spec
CONSTANTS
  i1 = i1
  i2 = i2
  i3 = i3
  Installs <- MCInstalls
  Original = Original
  Artifacts = {a1, a2}
  NoTree = NoTree
  Missing = Missing
  MaxEdits = 1
  MaxFaults = 2
SYMMETRY Symmetry
INVARIANTS SettingsSurvive TargetIsWhole OutcomeIsExact
CHECK_DEADLOCK FALSE
