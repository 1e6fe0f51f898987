---------------------------- MODULE FileExtract ----------------------------
(***************************************************************************)
(* Reader.extractFileToPath (squashfs.go): one regular file is written to  *)
(* disk block by block, then its tail is cut out of a fragment, then the   *)
(* file is truncated to its length.  The image may be damaged and the disk *)
(* may fill up: which step reports what, and what is in the file then.     *)
(*                                                                         *)
(* Bytes stand for where they belong: n > 0 is the n-th byte of this file, *)
(* 0 a zero byte, a negative number a byte of another file.                *)
(***************************************************************************)
EXTENDS Integers, Sequences, SequencesExt

CONSTANTS
  BlockSize,    (* Superblock.BlockSize                                     *)
  MaxFileSize,  (* bound on the sizes tried                                 *)
  FragmentSize, (* bytes in the fragment of the file, its own tail included *)
  Shortfall,    (* bytes that a scant block lacks                           *)
  BlockKinds,   (* what the data blocks may be like, see Kinds              *)
  FragmentKinds,
  DiskFills     (* f.Write may write less than it is given, and f.Truncate  *)
                (* may fail                                                 *)

(* whole: decompresses to the bytes the writer cut; sparse: size 0; odd: a *)
(* byte too many; scant: too few, as a codec that stops early yields them  *)
(* without an error; corrupt: does not decompress; missing: lies beyond    *)
(* the image or cannot be read.                                            *)
Kinds == {"whole", "sparse", "odd", "scant", "corrupt", "missing"}

ASSUME ExtractAssumption ==
  /\ BlockSize \in Nat \ {0}
  /\ MaxFileSize \in Nat
  /\ FragmentSize \in Nat
  /\ Shortfall \in Nat \ {0}
  /\ BlockKinds \subseteq Kinds
  /\ FragmentKinds \subseteq {"whole", "short", "corrupt", "missing"}
  /\ DiskFills \in BOOLEAN

VARIABLES
  inode,    (* [fileSize, blocks, fragment, fragOff]; no fragment: "none"   *)
  pc,       (* "open", "blocks", "fragment", "truncate", "done"             *)
  k,        (* the size word the loop is at                                 *)
  file,     (* what is in the file                                          *)
  written,  (* the variable written: bytes the blocks took                  *)
  err,      (* what extractFileToPath returned: TRUE is an error            *)
  short,    (* history: some f.Write wrote less than it was given           *)
  stuck     (* history: f.Truncate failed                                   *)

vars == <<inode, pc, k, file, written, err, short, stuck>>

-----------------------------------------------------------------------------
(* The image.                                                              *)

(* How many size words readInode looks for.                                *)
WordCount(size, fragment) ==
  (size \div BlockSize) +
    (IF fragment = "none" /\ size % BlockSize # 0 THEN 1 ELSE 0)

Inode ==
  UNION {
    [fileSize : {size}, fragment : {fragment}, fragOff : 0..FragmentSize,
     blocks : [1..WordCount(size, fragment) -> BlockKinds]] :
    size \in 0..MaxFileSize, fragment \in FragmentKinds \cup {"none"}}

Lesser(m, n) == IF m <= n THEN m ELSE n

Bytes(from, to) == [i \in 1..to - from + 1 |-> from + i - 1]
Zeros(n)        == [i \in 1..n |-> 0]

(* The bytes of block b, the last one ending with the file.                *)
BlockBytes(in, b) ==
  Bytes((b - 1) * BlockSize + 1, Lesser(b * BlockSize, in.fileSize))

(* What comes out of block b. *)
BlockOutput(in, b) ==
  CASE in.blocks[b] = "sparse" -> Zeros(BlockSize)
    [] in.blocks[b] = "odd"    -> Append(BlockBytes(in, b), -b)
    [] in.blocks[b] = "scant"  ->
         SubSeq(BlockBytes(in, b), 1, Len(BlockBytes(in, b)) - Shortfall)
    [] OTHER                   -> BlockBytes(in, b)

(* The file as it was packed.                                              *)
Content(in) ==
  [p \in 1..in.fileSize |->
     LET b == ((p - 1) \div BlockSize) + 1
     IN IF b \in DOMAIN in.blocks /\ in.blocks[b] = "sparse" THEN 0 ELSE p]

(* The fragment: the tail of this file at fragOff, other files around it.  *)
(* A short one ends within the tail.                                       *)
FragmentBytes(in) ==
  LET body == (in.fileSize \div BlockSize) * BlockSize
      tail == in.fileSize - body
      size == IF in.fragment = "short" THEN Lesser(in.fragOff + tail - 1, FragmentSize)
                                       ELSE FragmentSize
  IN [j \in 1..size |-> IF j - in.fragOff \in 1..tail THEN body + j - in.fragOff
                                                      ELSE -j]

(* The tail lies within the fragment. *)
Placed(in) ==
  in.fragment # "none" => in.fragOff + (in.fileSize % BlockSize) <= FragmentSize

Init ==
  /\ inode \in {in \in Inode : Placed(in)}
  /\ pc = "open"
  /\ k = 1
  /\ file = <<>>
  /\ written = 0
  /\ err = FALSE
  /\ short = FALSE /\ stuck = FALSE

-----------------------------------------------------------------------------
(* f.Write(data): its error is dropped. *)
Write(data) ==
  \E n \in IF DiskFills THEN 0..Len(data) ELSE {Len(data)} :
    /\ file' = file \o SubSeq(data, 1, n)
    /\ short' = (short \/ n < Len(data))

(* Operators that end in Slip are what the one after them is tried with.   *)
CountSlip == written' = written + BlockSize

(* What the block that was just written adds to written. *)
Count == written' = written + (Len(file') - Len(file))

Return(e) == pc' = "done" /\ err' = e

CannotOpen ==
  /\ pc = "open"
  /\ Return(TRUE)
  /\ UNCHANGED <<inode, k, file, written, short, stuck>>

Open ==
  /\ pc = "open"
  /\ IF inode.fileSize = 0 THEN Return(FALSE)
                           ELSE pc' = "blocks" /\ err' = err
  /\ UNCHANGED <<inode, k, file, written, short, stuck>>

AtBlock(kinds) == pc = "blocks" /\ k \in DOMAIN inode.blocks /\ inode.blocks[k] \in kinds

SparseBlockSlip ==
  /\ AtBlock({"sparse"})
  /\ k' = k + 1
  /\ UNCHANGED <<inode, pc, file, written, err, short, stuck>>

(* Sparse blocks count as whole ones, the last of the file too. *)
SparseBlock ==
  /\ AtBlock({"sparse"})
  /\ Write(Zeros(BlockSize))
  /\ Count
  /\ k' = k + 1
  /\ UNCHANGED <<inode, pc, err, stuck>>

(* What a block yields is written, whatever its length. *)
DataBlock ==
  /\ AtBlock({"whole", "odd", "scant"})
  /\ Write(BlockOutput(inode, k))
  /\ Count
  /\ k' = k + 1
  /\ UNCHANGED <<inode, pc, err, stuck>>

MissingBlockSlip ==
  /\ AtBlock({"missing"})
  /\ Return(TRUE)
  /\ UNCHANGED <<inode, k, file, written, short, stuck>>

(* A block that is beyond the image or cannot be read ends the loop; what  *)
(* comes after the loop is done all the same.                              *)
MissingBlock ==
  /\ AtBlock({"missing"})
  /\ pc' = "fragment"
  /\ UNCHANGED <<inode, k, file, written, err, short, stuck>>

CorruptBlock ==
  /\ AtBlock({"corrupt"})
  /\ Return(TRUE)
  /\ UNCHANGED <<inode, k, file, written, short, stuck>>

EndBlocks ==
  /\ pc = "blocks"
  /\ k \notin DOMAIN inode.blocks
  /\ pc' = "fragment"
  /\ UNCHANGED <<inode, k, file, written, err, short, stuck>>

(* No fragment, one the table has no entry for, or one beyond the image.   *)
NoFragment ==
  /\ pc = "fragment"
  /\ inode.fragment \in {"none", "missing"}
  /\ pc' = "truncate"
  /\ UNCHANGED <<inode, k, file, written, err, short, stuck>>

Remaining == inode.fileSize - written

CutSlip(data, off, n) == SubSeq(data, 1, Lesser(n, Len(data)))

(* fragData[off : off+n], or as much of it as there is. *)
Cut(data, off, n) == SubSeq(data, off + 1, Lesser(off + n, Len(data)))

Fragment ==
  /\ pc = "fragment"
  /\ inode.fragment \in {"whole", "short"}
  /\ IF Remaining > 0
       THEN Write(Cut(FragmentBytes(inode), inode.fragOff, Remaining))
       ELSE UNCHANGED <<file, short>>
  /\ pc' = "truncate"
  /\ UNCHANGED <<inode, k, written, err, stuck>>

(* A fragment that does not decompress is skipped: the function returns.   *)
CorruptFragment ==
  /\ pc = "fragment"
  /\ inode.fragment = "corrupt"
  /\ Return(FALSE)
  /\ UNCHANGED <<inode, k, file, written, short, stuck>>

ResizedSlip(data, n) == data \o Zeros(n - Len(data))

(* f.Truncate cuts the file or fills it up with zeros. *)
Resized(data, n) == [p \in 1..n |-> IF p <= Len(data) THEN data[p] ELSE 0]

(* Its error is dropped, too. *)
Truncate ==
  /\ pc = "truncate"
  /\ \/ file' = Resized(file, inode.fileSize) /\ UNCHANGED stuck
     \/ DiskFills /\ file' = file /\ stuck' = TRUE
  /\ Return(FALSE)
  /\ UNCHANGED <<inode, k, written, short>>

Next == \/ CannotOpen \/ Open
        \/ SparseBlock \/ DataBlock \/ MissingBlock \/ CorruptBlock \/ EndBlocks
        \/ NoFragment \/ Fragment \/ CorruptFragment
        \/ Truncate
        \/ pc = "done" /\ UNCHANGED vars

Spec == Init /\ [][Next]_vars

-----------------------------------------------------------------------------
(* Reader.readFileData, the same file read into memory: the blocks until   *)
(* one is missing, then the tail, then cut to the length of the file.      *)
(* The number of blocks before the first of these kinds. *)
BlocksBefore(in, kinds) ==
  IF \E b \in DOMAIN in.blocks : in.blocks[b] \in kinds
    THEN (CHOOSE b \in DOMAIN in.blocks :
            /\ in.blocks[b] \in kinds
            /\ \A c \in 1..b - 1 : in.blocks[c] \notin kinds) - 1
    ELSE Len(in.blocks)

Shortened(data, n) == SubSeq(data, 1, Lesser(Len(data), n))

ReadFileData(in) ==
  LET body == FlattenSeq([b \in 1..BlocksBefore(in, {"missing"}) |-> BlockOutput(in, b)])
      rest == in.fileSize - Len(body)
      frag == FragmentBytes(in)
  IN CASE in.fileSize = 0 -> [err |-> FALSE, data |-> <<>>]
       [] in.fileSize > 0 /\ BlocksBefore(in, {"corrupt"}) < BlocksBefore(in, {"missing"})
            -> [err |-> TRUE, data |-> <<>>]
       [] OTHER -> [err |-> FALSE, data |->
            CASE in.fragment = "corrupt" -> body
              [] in.fragment \in {"none", "missing"} -> Shortened(body, in.fileSize)
              [] OTHER -> Shortened(body \o Cut(frag, in.fragOff, rest), in.fileSize)]

(* A negative rest makes it slice fragData[off : off+rest] backwards.      *)
Backwards(in) ==
  /\ in.fragment \in {"whole", "short"}
  /\ in.fileSize < Len(FlattenSeq([b \in 1..BlocksBefore(in, {"missing"}) |-> BlockOutput(in, b)]))

-----------------------------------------------------------------------------
(* The variables have their types. *)
TypeOK ==
  /\ inode \in Inode
  /\ pc \in {"open", "blocks", "fragment", "truncate", "done"}
  /\ k \in 1..Len(inode.blocks) + 1
  /\ file \in Seq(Int)
  /\ written \in 0..Len(file) \/ pc = "done"
  /\ err \in BOOLEAN /\ short \in BOOLEAN /\ stuck \in BOOLEAN

Done(e) == pc = "done" /\ err = e

Intact == inode.fragment \in {"none", "whole"} /\ BlocksBefore(inode, Kinds \ {"whole", "sparse"}) = Len(inode.blocks)

(* An intact file is copied byte for byte, whatever the mix of full        *)
(* blocks, sparse blocks, a sparse or partial last block and a tail.  If   *)
(* not even f.Truncate works, there may only be more behind it.            *)
IntactIsCopied ==
  Done(FALSE) /\ Intact /\ ~short =>
    /\ \A p \in 1..inode.fileSize : p <= Len(file) /\ file[p] = Content(inode)[p]
    /\ ~stuck => Len(file) = inode.fileSize

(* What comes before the first damage is saved: at every step, also when   *)
(* the call reports an error or goes on behind a missing block.            *)
PrefixIsSound ==
  LET sound == BlocksBefore(inode, Kinds \ {"whole", "sparse"}) * BlockSize
  IN ~short =>
       \A p \in 1..Lesser(Lesser(Len(file), sound), inode.fileSize) :
         file[p] = Content(inode)[p]

(* Bytes of other files get into this one only if a data block is missing  *)
(* or came out longer or shorter than its share of the file, or if the     *)
(* disk is full: then written falls behind, and the cut out of the         *)
(* fragment is longer than the tail.                                       *)
ForeignOnlyAfterGap ==
  Done(FALSE) /\ ~short /\ BlocksBefore(inode, {"missing", "odd", "scant"}) = Len(inode.blocks)
    => \A p \in DOMAIN file : file[p] >= 0

(* A call that reports success leaves a file of the right length, also if  *)
(* blocks are missing or writes fell short: unless the fragment could not  *)
(* be decompressed, or f.Truncate failed, whose error is dropped.          *)
LengthIsExact ==
  Done(FALSE) /\ inode.fragment # "corrupt" /\ ~stuck => Len(file) = inode.fileSize

(* readFileData and extractFileToPath, two readings of one file, agree:    *)
(* on errors, and on the bytes but for the zeros Truncate appends.         *)
InMemoryAgrees ==
  pc = "done" /\ ~short /\ ~stuck /\ ~Backwards(inode) /\ (k > 1 \/ ~err) =>
    LET r == ReadFileData(inode)
    IN /\ err = r.err
       /\ ~err => /\ Len(r.data) <= Len(file)
                  /\ file = Resized(r.data, Len(file))
=============================================================================
