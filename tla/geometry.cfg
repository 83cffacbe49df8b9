CONSTANTS
  WriteSizes = {1, 2, 4, 8, 16, 256}
  EraseSizes = {16, 32, 64, 256}
  DataSizes = {4, 16, 20, 24, 32, 48, 52, 64, 80, 116, 128, 256}
  Factors = {2, 3, 4}
  MaxUses = 3
  MacroWriteSizes = {4, 8, 16}
SPECIFICATION Spec
INVARIANTS TypeOK SlotsFit EvenUse SlotsDeclared
PROPERTIES MemsetFirstSlotOnly
