SPECIFICATION PartSpec
CONSTANTS
  MidDefinitions <- MCDefinitions
  TestDefinitions <- MidTestDefinitions
  Words = {"main", "f", "g"}
  Main = "main"
  Primitives <- MCPrimitives
  Dictionaries <- MCDictionaries
  Width = 3
  Deep = 6
  Problems <- MCProblems
  InferTerms <- MCTerms
  Ground <- MCGround
  NoWord = NoWord
INVARIANTS
  Flattened MidTestIsFactorialModule
  Links
  UnifiesAsRobinson Typed
PROPERTIES
  Runs CompileEnds TypeVariablesKeepValue
