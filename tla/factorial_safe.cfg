SPECIFICATION FairSpec
CONSTANTS
  Words <- MCWords
  Main = "main"
  Modules <- MCModules
  Types <- MCTypes
  Loc = "quot"
  Bit = "i1"
  SizeOf <- MCSizeOf
  Half = 4
  AreaSize = 1024
  StackSize = 1024
INVARIANTS
  TypeOK
  Linked
  StacksKept
  EndsClean
  Computes
PROPERTIES
  RunsToEnd
