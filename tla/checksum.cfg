CONSTANTS
  BufSize = 2
  DataSizes = {1, 3, 5}
  Bytes = {{}, {0, 3, 5}}
  Flips <- SmallFlips
SPECIFICATION Spec
INVARIANTS BurstDetected DoubleErrorDetected OddErrorDetected ErasedIsNoSum
CHECK_DEADLOCK FALSE
