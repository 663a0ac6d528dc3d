SPECIFICATION Spec
CONSTANTS
  k1 = k1
  k2 = k2
  k3 = k3
  k4 = k4
  k5 = k5
  v1 = v1
  v2 = v2
  Keys <- ThreeKeys
  Values <- TwoValues
  IntKeys <- NoKeys
  Hashes <- SmallHashes
  MinCapacity = 4
  MaxCapacity = 8
  Removing = FALSE
  Terminated = FALSE
SYMMETRY Symmetry
CHECK_DEADLOCK FALSE
INVARIANT KeysUnique
