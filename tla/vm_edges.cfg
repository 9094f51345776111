SPECIFICATION Spec
CONSTANTS
  Words <- MCWords
  Main = "main"
  Modules <- MCModules
  Types <- MCTypes
  Loc = "quot"
  Bit = "i1"
  SizeOf <- MCSizeOf
  Half = 2
  AreaSize = 5
  StackSize = 9
INVARIANT
  LinkInv
