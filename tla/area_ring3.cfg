CONSTANTS
  Blank = Blank
  Garbage = Garbage
  None = None
  NSlots = 3
  NUnits = 2
  Val = {a}
  MaxVersion = 4
  ErasedVersion = 6
  TornProgramVersion <- HalfProgrammedWord
  TornEraseVersion <- FarWord
  FaultyOps = {"erase", "program", "scan", "seal", "version", "sum", "sum2"}
  ReprogramDisturbs = FALSE
  WeakErase = FALSE
  StableReads = TRUE
  StrayErase = FALSE
SPECIFICATION Spec
INVARIANTS TypeOK AntiTearing SearchSucceeds NothingOverprogrammed
PROPERTIES OldestErased CallEnds
