SPECIFICATION Spec
INVARIANTS FoldsKeepMeaning CastsChosen PredicatesAgree TypesUnique ConstantsUnique
PROPERTIES ShapesKept TreesKept
CHECK_DEADLOCK FALSE
CONSTANTS
  WordBits = 3
  PtrBits = 6
  FPBits <- MCFPBits
  Globals <- MCGlobals
