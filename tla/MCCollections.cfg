SPECIFICATION Spec
CONSTANTS
  width = 2
  hamtBits = 1
  HashWidth = 3
  Keys = {1, 2, 3, 4, 5}
  Hash <- MCHash
  Samples <- MCSamples
  Sets <- MCSets
  Positions <- MCPositions
  MaxCalls = 2
CHECK_DEADLOCK FALSE
INVARIANTS
  ListAnswers
  TrieShape
PROPERTY
  ImplementsValues
