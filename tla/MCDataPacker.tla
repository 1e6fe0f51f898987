--------------------------- MODULE MCDataPacker ---------------------------
(* Instances of DataPacker and PackerArchive for TLC: two bytes, blocks of *)
(* three.                                                                  *)
EXTENDS PackerArchive

CONSTANTS a, b

(* Nothing, a tail alone, a block alone, a block with a tail of two, and   *)
(* more than an inode can say: two blocks and another tail of one.         *)
MCContents == {<<>>, <<a>>, <<a, b, a>>, <<a, b, a, a, b>>, <<a, a, b, a, b, b, b>>}

(* Shrinking and growing within a block, across a block boundary, and to   *)
(* nothing.                                                                *)
MCFewContents == {<<>>, <<a>>, <<a, b, a, a, b>>}

MCPackedSizes == {1}
=============================================================================
