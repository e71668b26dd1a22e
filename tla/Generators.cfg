SPECIFICATION Spec
CONSTANTS
  Versions = {2, 3}
  Packets = {a, b}
  MaxRuns = 2
  MaxEdits = 1
SYMMETRY PacketsAlike
INVARIANTS
  TypeOK
  OkMeansCurrent
  FailsOnlyForCause
  TwinsAgree
PROPERTY CurrentIsNotTouched
CHECK_DEADLOCK FALSE
