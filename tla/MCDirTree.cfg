CONSTANTS
  N = 5
  Kinds <- AllKinds
  NameLength = 4
  Width = 150
  Vanishing = TRUE
SPECIFICATION Spec
INVARIANTS
  TypeOK
  TreeResolves
  OneInodeEach
  PostOrder
