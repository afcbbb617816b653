SPECIFICATION Spec
CONSTANTS
  BlockSize = 2
  Garbage <- MCGarbage
  Machines <- MCMachines
  UuidTexts <- MCUuidTexts
  NumberTexts <- MCNumberTexts
  Trees <- MCTrees
  NameLen <- MCNameLen
  Initial <- MCInitial
  Programs = {"f"}
  Devices = {"ps2kb"}
  Paths <- MCPaths
  BufferSizes = {4, 6, 20}
  Offsets = {1, 4}
  Counts = {5}
  MaxDepth = 6
  MaxTasks = 2
  MaxFiles = 1
VIEW View
CHECK_DEADLOCK FALSE
INVARIANTS
  
  CwdIsWhereItSays
  
  FunctionsAreFound
  RootIsFound

  
