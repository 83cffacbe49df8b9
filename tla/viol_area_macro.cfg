CONSTANTS
  WriteSizes = {2}
  EraseSizes = {16, 32}
  DataSizes = {4, 16, 20, 24, 32, 52}
  Factors = {2, 3}
  MaxUses = 1
  MacroWriteSizes = {2}
SPECIFICATION Spec
INVARIANTS SlotsDeclared
