SPECIFICATION Spec
CONSTANTS
  n1 = n1
  n2 = n2
  one = one
  two = two
  Names <- TwoNames
  Contents <- TwoContents
  Size <- Sizes
  Crc <- CrcOf
  NamesCrc = 2
  Windows <- NoWindows
  MaxClock = 1
  MaxFailures = 1
  OtherContent <- Others
INVARIANTS
  TypeOK
  IndexAgrees
  RefusedAfterWriteOnly
PROPERTIES
  NoLostUpdate
  PutStores
  ImplementsStore
