CONSTANTS
  InodeCounts <- MCInodeCounts
  DirCounts <- MCDirCounts
  FragmentCounts <- MCFragmentCounts
  MetaBlockSize = 2
  PackedSizes <- MCPackedSizes
SPECIFICATION Spec
INVARIANT FragmentsReadBack
