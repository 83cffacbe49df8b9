CONSTANTS
  Blank = Blank
  Garbage = Garbage
  None = None
  NSlots = 2
  NUnits = 2
  Val = {a, b}
  MaxVersion = 3
  ErasedVersion = 5
  TornProgramVersion <- AnyWord
  TornEraseVersion <- AnyWord
  FaultyOps = {"erase", "program", "scan", "seal", "version", "sum", "sum2"}
  ReprogramDisturbs = FALSE
  WeakErase = FALSE
  StableReads = TRUE
  StrayErase = FALSE
SPECIFICATION Spec
INVARIANTS IInv
PROPERTIES StoreSpec
