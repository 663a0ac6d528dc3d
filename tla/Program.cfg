SPECIFICATION MCSpec
CONSTANTS
  Words <- SomeWords
  Lower <- LowerCase
  NullUrl = "null"
  Tables = 2
  DefaultRows <- FirstUrl
  Databases <- AllFiles
  PatchNames <- AskedNames
  Bytes <- BytesOf
  ManifestDot = "manifest."
  HeaderSize = 8
  SubHeaderSize = 16
  Documents <- AllDocuments
  OtherPages <- SecondPages
  Arguments <- UpToThreePaths
INVARIANTS
  TypeOK
  OwnedOnce
  ListsFirst
  DownloadsNamedPatch
  SuccessIsWhole
  BlobDataFound
  BlobHasManifest
