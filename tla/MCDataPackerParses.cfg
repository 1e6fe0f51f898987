CONSTANTS
  a = a
  b = b
  NumFiles = 3
  Contents <- MCFewContents
  BlockSize = 3
  PackedSizes <- MCPackedSizes
  SizeLimit = 16
  AddressLimit = 100
  LengthLimit = 6
  DecompressLimit = 2
  Rewritable = {2, 3}
SPECIFICATION Spec
INVARIANT EveryInodeParses
