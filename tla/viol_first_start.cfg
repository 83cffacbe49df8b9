CONSTANTS
  Blank = Blank
  Garbage = Garbage
  None = None
  NSlots = 2
  NUnits = 2
  Val = {a}
  MaxVersion = 3
  ErasedVersion = 5
  TornProgramVersion <- HalfProgrammedWord
  TornEraseVersion <- FarWord
  FaultyOps = {}
  ReprogramDisturbs = FALSE
  WeakErase = FALSE
  StableReads = TRUE
  StrayErase = FALSE
SPECIFICATION Spec
INVARIANTS TransactionStarts
