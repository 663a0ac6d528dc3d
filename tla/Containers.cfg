SPECIFICATION MCSpec
CONSTANTS
  Arrs <- TwoArrays
  Elems <- ThreeElems
  key <- Halved
  MinCapacity = 3
  MaxReserve = 6
  MaxAppend = 1
  Chars <- SomeBytes
  Inputs <- ShortInputs
  Files <- ShortFiles
  MaxStrCapacity = 8
INVARIANTS
  TypeOK
  StrTypeOK
  HoldsText
  Terminated
PROPERTIES
  SortOrders
