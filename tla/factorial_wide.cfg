SPECIFICATION Spec
CONSTANTS
  Words <- MCWords
  Main = "main"
  Modules <- MCOnce
  Types <- MCTypes
  Loc = "quot"
  Bit = "i1"
  SizeOf <- MCWideSizeOf
  Half = 4
  AreaSize = 1024
  StackSize = 1024
INVARIANT
  WholeData
