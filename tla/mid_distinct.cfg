SPECIFICATION FairSpec
CONSTANTS
  a = a  b = b  c = c  d = d
  n1 = n1  n2 = n2  n3 = n3
  add = add
  NoWord = NoWord
  Concrete <- MCConcrete
  Names <- MCNames
  NameOf <- MCNameOf
  Instructions <- MCInstructions
  Dictionaries <- MCDictionaries
INVARIANTS
  Closed
  Complete
  Minimal
  Faithful
PROPERTIES
  Returns
  SetOnce
