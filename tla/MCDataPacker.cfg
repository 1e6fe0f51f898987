CONSTANTS
  a = a
  b = b
  NumFiles = 3
  Contents <- MCContents
  BlockSize = 3
  PackedSizes <- MCPackedSizes
  SizeLimit = 16
  AddressLimit = 100
  LengthLimit = 6
  DecompressLimit = 2
  Rewritable = {3}
SPECIFICATION Spec
INVARIANTS
  TypeOK
  TailsResolve
  BlocksResolve
  WithinDecompressLimit
  EqualTailsShared
  ReadAsStatted
PROPERTIES
  PackingArchives
  Finishes
