CONSTANTS
  BlockSize = 2
  MaxFileSize = 7
  FragmentSize = 3
  Shortfall = 1
  BlockKinds <- AllKinds
  FragmentKinds <- AllFragmentKinds
  DiskFills = TRUE
SPECIFICATION Spec
INVARIANTS
  TypeOK
  IntactIsCopied
  PrefixIsSound
  ForeignOnlyAfterGap
  LengthIsExact
  InMemoryAgrees
