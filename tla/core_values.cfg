SPECIFICATION PartSpec
CONSTANTS
  Uses = {x1, x2, x3, x4}
  Values = {v1, v2}
  None = None
  Outside = {"left", "right"}
  Loops = {"self"}
  Self = "self"
  Nodes <- MCNodes
  Available <- MCAvailable
  Insts = {"inst", "mine"}
  Undef = "undef"
  NoValue = "none"
  MaxEdges = 3
  i1 = i1  i2 = i2  b1 = b1  b2 = b2  a1 = a1
  f1 = f1  f2 = f2  f3 = f3  m1 = m1  m2 = m2
INVARIANTS Linked ListsExact OperandsExact PhisExact TablesExact
PROPERTY Implements
CHECK_DEADLOCK FALSE
