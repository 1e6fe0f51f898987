CONSTANTS
  Codecs = {"zstd"}
  Nibble = 2
  MinMatch = 4
  HashSize = 3
  Lz4Inputs <- MCLz4Inputs
  Damage <- MCDamage
  LzoInputs <- MCLzoInputs
  XzInputs <- MCXzInputs
  Foreign <- MCForeign
  Misread <- MCMisread
  MaxChunk = 2
  DictSize = 4
  LzmaStreams <- MCLzmaStreams
  MinDict = 4
  RangeBytes = 3
  ZstdInputs <- MCZstdInputs
  ZstdForeign <- MCZstdForeign
  ZstdHashSize = 31
  MaxBlock = 60
  ReadSize = 9
  Buffers = {4, 512}
  Cases <- MCCases
SPECIFICATION Spec
INVARIANT
  KeptReadsBack
