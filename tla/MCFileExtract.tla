--------------------------- MODULE MCFileExtract ---------------------------
(* Instances of FileExtract for TLC. *)
EXTENDS FileExtract

AllKinds == Kinds
AllFragmentKinds == {"whole", "short", "corrupt", "missing"}
=============================================================================
