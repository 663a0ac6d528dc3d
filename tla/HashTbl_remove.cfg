SPECIFICATION Spec
CONSTANTS
  k1 = k1
  k2 = k2
  k3 = k3
  k4 = k4
  k5 = k5
  v1 = v1
  v2 = v2
  Keys <- FourKeys
  Values <- TwoValues
  IntKeys <- OneKey
  Hashes <- SmallHashes
  MinCapacity = 4
  MaxCapacity = 4
  Removing = TRUE
  Terminated = TRUE
SYMMETRY Symmetry
VIEW TableView
CHECK_DEADLOCK FALSE
INVARIANTS
  WellLinked
PROPERTIES
  ImplementsMap
