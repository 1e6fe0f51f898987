--------------------------- MODULE PackerArchive ---------------------------
(***************************************************************************)
(* DataPacker implements Archive.  What the archive yields for a file is   *)
(* what readInode and Reader.extractFileToPath (squashfs.go) put together  *)
(* from the inode and the image: as many blocks as follow from the inode's *)
(* size, found by walking the size words from startBlock, then as much of  *)
(* the fragment as the size leaves, and all of it cut to the size.         *)
(***************************************************************************)
EXTENDS DataPacker, SequencesExt

(* The data of the extent found at an address with a size word.            *)
At(addr, word) == LET e == CHOOSE e \in DOMAIN out : Found(e, addr, word) IN out[e].data

DataBlocks(f) ==
  [k \in 1..ReaderBlocks(f) |-> At(BlockAddress(f)[k], inode[f].words[k])]

(* The decompressed fragment: written, or still being filled.              *)
FragmentData(i) ==
  IF i < Len(fragEntries) THEN At(fragEntries[i + 1].start, fragEntries[i + 1].word)
    ELSE fragBuf

(* The bytes at most n long at offset off: as many as the fragment has.    *)
Slice(d, off, n) ==
  SubSeq(d, off + 1, IF off + n <= Len(d) THEN off + n ELSE Len(d))

(* f.Truncate: what is too much is cut, what is missing is zeros.          *)
Truncated(d, n) ==
  IF n <= Len(d) THEN SubSeq(d, 1, n) ELSE d \o [i \in 1..n - Len(d) |-> 0]

(* What is written before that. *)
Written(f) ==
  LET body == FlattenSeq(DataBlocks(f))
      n    == inode[f]
  IN IF n.fragIdx = NoFragment
       THEN body
       ELSE body \o Slice(FragmentData(n.fragIdx), n.fragOff, ReaderLength(f) - Len(body))

Extracted(f) == Truncated(Written(f), ReaderLength(f))

(* The files of which something is promised: those that were empty, and    *)
(* those that were read, as long as they had been found, if the inode can  *)
(* say how long they are and where they begin.  Of others the reader may   *)
(* take other files' size words, or other files' data.                     *)
Promised(f) ==
  \/ fileSize[f] = 0
  \/ /\ inode[f].start # 0 /\ Len(got[f]) = fileSize[f]
     /\ fileSize[f] < LengthLimit /\ inode[f].start < AddressLimit

Yield(f) ==
  IF Promised(f) THEN [kept |-> TRUE, data |-> Extracted(f)]
    ELSE [kept |-> FALSE, data |-> <<>>]

(* A file is taken as it was when it was read and startBlock set: from     *)
(* then on, rewriting it makes no difference.                              *)
Source ==
  [f \in File |-> IF inode[f].start # 0
                    THEN [data |-> got[f], readable |-> TRUE]
                    ELSE disk[f]]

(* The file that is taken, or the next one, begins where no inode can say. *)
Full ==
  IF pc \in {"blocks", "tail"} THEN inode[next].start >= AddressLimit
    ELSE ImageLen(out) >= AddressLimit

A == INSTANCE Archive WITH source   <- Source,
                           found    <- fileSize,
                           archived <- [f \in 1..next - 1 |-> Yield(f)],
                           full     <- Full

(* Packing is archiving: each file that keeps its length until it is read  *)
(* ends up in the image whole and as it was at one moment, whoever         *)
(* rewrites it or others meanwhile, and no later block, fragment or reuse  *)
(* of a tail changes what the image yields for the files before            *)
(* (writer.go, phase 1).                                                   *)
PackingArchives == A!Spec
=============================================================================
