CONSTANTS
  Ref <- MCRef
  Images <- MCImages
  Plain <- MCPlain
  MaxFiles = 2
  MaxDepth = 2
  MaxPath = 3
SPECIFICATION Spec
INVARIANTS
  TypeOK
  WellFormedIsCopied
  DirectoryOnce
  FilesBounded
PROPERTIES
  ExtractionCopies
  Terminates
