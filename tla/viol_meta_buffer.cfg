CONSTANTS
  WriteSizes = {4, 8, 16, 32, 64, 128, 256}
  EraseSizes = {256}
  DataSizes = {256, 512}
  Factors = {2}
  MaxUses = 1
  MacroWriteSizes = {4, 8, 16, 32, 64, 128}
SPECIFICATION Spec
INVARIANTS MetaBuffered
