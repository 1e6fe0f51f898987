----------------------------- MODULE MCDirTree -----------------------------
(* Instances of DirTree for TLC. *)
EXTENDS DirTree

MCKinds == {"dir", "file"}
AllKinds == {"dir", "file", "link"}
=============================================================================
