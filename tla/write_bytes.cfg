CONSTANTS
  WriteSize = 3
  DataSize = 9
  MaxCalls = 2
  Erased = Erased
  Spoiled = Spoiled
  None = None
  AreaSources = {5}
  ReadSizes = {0, 1, 5, 9}
SPECIFICATION Spec
INVARIANTS TypeOK TrackerExact ProgrammedOnce
PROPERTIES StoreSteps
