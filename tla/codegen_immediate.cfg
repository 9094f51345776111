SPECIFICATION Both
CONSTANTS
  Stacks = {"data", "cont"}
  Types = {"i8", "i32"}
  SizeOf <- MCTwoSizes
  Values <- MCValue
  Capacity = 3
  Class = "immediate"
  Junk <- MCJunk
  MaxCache = 0
PROPERTIES
  Implements
  OneImplements
