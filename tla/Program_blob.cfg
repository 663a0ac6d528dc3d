SPECIFICATION MCSpec
CONSTANTS
  Words <- SomeWords
  Lower <- LowerCase
  NullUrl = "null"
  Tables = 2
  DefaultRows <- FirstUrl
  Databases <- AllFiles
  PatchNames <- AskedNames
  Bytes <- BytesOf
  ManifestDot = "manifest."
  HeaderSize = 8
  SubHeaderSize = 16
  Documents <- NoPages
  OtherPages <- NoPages
  Arguments <- UpToThreePaths
INVARIANTS
  BlobNamesFound
