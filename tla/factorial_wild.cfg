SPECIFICATION Spec
CONSTANTS
  Words <- MCWords
  Main = "main"
  Modules <- MCOnce
  Types <- MCTypes
  Loc = "quot"
  Bit = "i1"
  SizeOf <- MCSizeOf
  Half = 4
  AreaSize = 1024
  StackSize = 1024
INVARIANT
  NeverWild
