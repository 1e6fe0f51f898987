--------------------------- MODULE MCImageTables ---------------------------
(* Instances of ImageTables for TLC: metadata blocks of two entries.       *)
EXTENDS ImageTables

MCInodeCounts    == {1, 2, 5}
MCDirCounts      == {0, 1, 3}
MCFragmentCounts == {0, 1, 2, 3, 5}
MCPackedSizes    == {1}
=============================================================================
