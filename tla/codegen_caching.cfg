SPECIFICATION Both
CONSTANTS
  Stacks = {"data", "cont"}
  Types = {"quot", "i32"}
  SizeOf <- MCOneSize
  Values <- MCValues
  Capacity = 4
  Class = "caching"
  Junk <- MCJunk
  MaxCache = 2
PROPERTY
  Implements
