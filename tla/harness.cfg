CONSTANTS
  WriteSize = 2
  NoTarget = NoTarget
  a = a
  b = b
  d = d
  e = e
  AreaSeq <- BothAreas
  Units = {1, 2}
  Data = {d, e, blank}
  Blank = blank
  None = None
  Tests <- SmallTests
  FormatBytes = 10
  MaxTests = 2
  Faults = {"mixed", "refused", "internal"}
SPECIFICATION FairSpec
INVARIANTS InSync NoFalseAlarm MixingReported FormatsUntorn Exhaustive TornAtTarget
PROPERTIES SweepAdvances SweepEnds
CHECK_DEADLOCK FALSE
