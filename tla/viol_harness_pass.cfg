CONSTANTS
  WriteSize = 2
  NoTarget = NoTarget
  a = a
  b = b
  d = d
  e = e
  AreaSeq <- BothAreas
  Units = {1, 2}
  Data = {d, e, blank}
  Blank = blank
  None = None
  Tests <- NamedTests
  FormatBytes = 10
  MaxTests = 2
  Faults = {"mixed", "refused", "internal"}
SPECIFICATION Spec
INVARIANTS FailureReported
CHECK_DEADLOCK FALSE
