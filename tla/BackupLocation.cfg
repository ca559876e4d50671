SPECIFICATION Spec
CONSTANTS
  p1 = p1
  p2 = p2
  NoPod = NoPod
  Pods = {p1}
  Specs <- ManySpecs
  MaxRuns = 4
  MaxWrites = 1
  MaxSlots = 2
  MaxEdits = 0
  MaxFaults = 1
INVARIANT ReportedExists
CHECK_DEADLOCK FALSE
