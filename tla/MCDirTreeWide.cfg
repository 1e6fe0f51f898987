CONSTANTS
  N = 5
  Kinds <- MCKinds
  NameLength = 4
  Width = 100
  Vanishing = FALSE
SPECIFICATION Spec
INVARIANT ImageHoldsDirectory
