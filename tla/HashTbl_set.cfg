SPECIFICATION Spec
CONSTANTS
  k1 = k1
  k2 = k2
  k3 = k3
  k4 = k4
  k5 = k5
  v1 = v1
  v2 = v2
  Keys <- FiveKeys
  Values <- TwoValues
  IntKeys <- NoKeys
  Hashes <- SpreadHashes
  MinCapacity = 2
  MaxCapacity = 8
  Removing = FALSE
  Terminated = TRUE
SYMMETRY Symmetry
VIEW TableView
CHECK_DEADLOCK FALSE
INVARIANTS
  TypeOK
  NoFreeSpacesLeft
  FreeIndexIsFree
PROPERTIES
  ImplementsMap
