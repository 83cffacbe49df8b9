\* The three drivers, each with two banks of two pages of two units.
CONSTANTS
  N = 8
  PageUnits = 2
  FlashBase = 16
  NvmAlignment = 2
  Targets = {"stm32", "ch32", "linux"}
  FaultyErases = {"ch32"}
  VendorTimeouts = FALSE
  MaxSize = 5
  MaxCalls = 2
SPECIFICATION Spec
INVARIANTS Restored Undisturbed
PROPERTIES Contract StopsAtError CallReturns
CHECK_DEADLOCK FALSE
