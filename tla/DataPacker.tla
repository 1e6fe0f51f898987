----------------------------- MODULE DataPacker -----------------------------
(***************************************************************************)
(* Phase 1 of Writer.CreateFromDir (writer.go): the data area of an image. *)
(* Every regular file is cut into blocks of BlockSize bytes, appended to   *)
(* the image one by one; what is left over, the tail, goes into a fragment *)
(* block shared by several files.  Equal tails are stored once.  The sizes *)
(* in the inodes were taken by Lstat during the walk (phase 0), the bytes  *)
(* are read here: another process may rewrite a file in between.  Phase 5  *)
(* writes what the nodes keep into inodes, in fields of 32 bits; that is   *)
(* where the reader begins.                                                *)
(***************************************************************************)
EXTENDS Integers, Sequences

CONSTANTS
  NumFiles,    (* regular files with a node, in the order of the walk       *)
  Contents,    (* what a file may hold: a set of byte sequences             *)
  BlockSize,   (* Writer.BlockSize                                          *)
  PackedSizes, (* lengths Writer.compress may reach; it returns the data    *)
               (*   itself unless the result is strictly shorter            *)
  SizeLimit,   (* a size word keeps the size modulo this (2^24 in the code) *)
  AddressLimit,    (* a basic inode keeps startBlock modulo this (2^32)     *)
  LengthLimit,     (* and the file's size modulo this (2^32)                *)
  DecompressLimit, (* what a block may decompress to, in block sizes (4)    *)
  Rewritable   (* files other processes may rewrite while the writer runs   *)

File == 1..NumFiles
Byte == UNION {{c[i] : i \in DOMAIN c} : c \in Contents}
NoFragment == -1             \* 0xFFFFFFFF: no fragment table is that long
SuperblockSize == 96

ASSUME PackerAssumption ==
  /\ NumFiles \in Nat
  /\ BlockSize \in Nat \ {0}
  /\ SizeLimit \in Nat \ {0}
  /\ AddressLimit \in Nat /\ AddressLimit > SuperblockSize
  /\ LengthLimit \in Nat \ {0}
  /\ PackedSizes \subseteq Nat \ {0}
  /\ DecompressLimit \in Nat /\ DecompressLimit >= 2
  /\ Rewritable \subseteq File
  /\ Contents \subseteq Seq(Byte)

VARIABLES
  disk,        (* the source directory: [data, readable] of every file      *)
  fileSize,    (* node.fileSize: the length Lstat reported                  *)
  pc,          (* "open", "blocks", "tail" within a file, then "done"       *)
  next,        (* the file the loop over allNodes is at                     *)
  got,         (* the bytes os.ReadFile returned for each file              *)
  inode,       (* what the node keeps: startBlock, blockSizes, fragment     *)
  out,         (* the data area: extents [start, word, data]                *)
  fragBuf,     (* the fragment block being filled                           *)
  fragEntries, (* the fragment blocks written: [start, word]                *)
  fragDedup    (* tail -> [idx, off], for tails in the block being filled   *)

vars == <<disk, fileSize, pc, next, got, inode, out, fragBuf, fragEntries,
          fragDedup>>

-----------------------------------------------------------------------------
(* Slips these definitions are tried with have names that end in Slip.     *)
TailOfSlip(c)  == c
FullBlocks(c)  == Len(c) \div BlockSize
Remainder(c)   == Len(c) % BlockSize
Block(c, k)    == SubSeq(c, (k - 1) * BlockSize + 1, k * BlockSize)
TailOf(c)      == SubSeq(c, Len(c) - Remainder(c) + 1, Len(c))

(* The length of what Writer.compress returns: shorter than the data, or   *)
(* the data itself, flagged uncompressed.                                  *)
StoredLengths(d) == {s \in PackedSizes : s < Len(d)} \cup {Len(d)}

SizeWordSlip(s, d) == [size |-> Len(d) % SizeLimit, raw |-> s >= Len(d)]

(* The 32-bit size word: bit 24 flags raw data, the bits below it are the  *)
(* size.                                                                   *)
SizeWord(s, d) == [size |-> s % SizeLimit, raw |-> s >= Len(d) \/ s >= SizeLimit]

ImageLen(o) == IF o = <<>> THEN SuperblockSize
                           ELSE o[Len(o)].start + o[Len(o)].len

Extent(o, s, d) ==
  [start |-> ImageLen(o), len |-> s, word |-> SizeWord(s, d), data |-> d]

(* A node before phase 1 reaches it. *)
FreshInode == [start |-> 0, words |-> <<>>, fragIdx |-> NoFragment, fragOff |-> 0]

Init ==
  /\ disk \in [File -> [data : Contents, readable : BOOLEAN]]
  /\ fileSize = [f \in File |-> Len(disk[f].data)]
  /\ pc = "open"
  /\ next = 1
  /\ got = [f \in File |-> <<>>]
  /\ inode = [f \in File |-> FreshInode]
  /\ out = <<>>
  /\ fragBuf = <<>>
  /\ fragEntries = <<>>
  /\ fragDedup = [t \in {} |-> [idx |-> 0, off |-> 0]]

-----------------------------------------------------------------------------
(* Another process rewrites or removes a file of the source directory.  A  *)
(* file the loop has passed is not looked at again: its rewrites are left  *)
(* out.                                                                    *)
Rewrite ==
  /\ pc # "done"
  /\ \E f \in Rewritable, c \in Contents, r \in BOOLEAN :
       /\ f >= next
       /\ disk' = [disk EXCEPT ![f] = [data |-> c, readable |-> r]]
  /\ UNCHANGED <<fileSize, pc, next, got, inode, out, fragBuf, fragEntries,
                 fragDedup>>

SkipFileSlip ==
  /\ pc = "open"
  /\ next \in File
  /\ fileSize[next] = 0
  /\ next' = next + 1
  /\ UNCHANGED <<disk, fileSize, pc, got, inode, out, fragBuf, fragEntries,
                 fragDedup>>

(* An empty file, and one os.ReadFile cannot read, keep their fresh node.  *)
SkipFile ==
  /\ pc = "open"
  /\ next \in File
  /\ fileSize[next] = 0 \/ ~disk[next].readable
  /\ next' = next + 1
  /\ UNCHANGED <<disk, fileSize, pc, got, inode, out, fragBuf, fragEntries,
                 fragDedup>>

ReadFile ==
  /\ pc = "open"
  /\ next \in File
  /\ fileSize[next] # 0 /\ disk[next].readable
  /\ got' = [got EXCEPT ![next] = disk[next].data]
  /\ inode' = [inode EXCEPT ![next].start = ImageLen(out)]
  /\ pc' = "blocks"
  /\ UNCHANGED <<disk, fileSize, next, out, fragBuf, fragEntries, fragDedup>>

WriteBlock ==
  /\ pc = "blocks"
  /\ LET k == Len(inode[next].words) + 1
         d == Block(got[next], k)
     IN /\ k <= FullBlocks(got[next])
        /\ \E s \in StoredLengths(d) :
             /\ out' = Append(out, Extent(out, s, d))
             /\ inode' = [inode EXCEPT ![next].words = Append(@, SizeWord(s, d))]
  /\ UNCHANGED <<disk, fileSize, pc, next, got, fragBuf, fragEntries, fragDedup>>

EndBlocks ==
  /\ pc = "blocks"
  /\ Len(inode[next].words) = FullBlocks(got[next])
  /\ pc' = "tail"
  /\ UNCHANGED <<disk, fileSize, next, got, inode, out, fragBuf, fragEntries,
                 fragDedup>>

NextFileSlip == pc' = pc /\ next' = next + 1

NextFile == pc' = "open" /\ next' = next + 1

NoTail ==
  /\ pc = "tail"
  /\ Remainder(got[next]) = 0
  /\ NextFile
  /\ UNCHANGED <<disk, fileSize, got, inode, out, fragBuf, fragEntries, fragDedup>>

(* The same tail is already in the block being filled: share it.           *)
ReuseTail ==
  /\ pc = "tail"
  /\ Remainder(got[next]) > 0
  /\ LET t == TailOf(got[next])
     IN /\ t \in DOMAIN fragDedup
        /\ inode' = [inode EXCEPT ![next].fragIdx = fragDedup[t].idx,
                                  ![next].fragOff = fragDedup[t].off]
  /\ NextFile
  /\ UNCHANGED <<disk, fileSize, got, out, fragBuf, fragEntries, fragDedup>>

RememberSlip(dedup, t, ref) == [x \in {t} |-> ref]

Remember(dedup, t, ref) ==
  [x \in DOMAIN dedup \cup {t} |-> IF x = t THEN ref ELSE dedup[x]]

(* Writes the fragment block to the image and starts an empty one.         *)
FlushFragments(buf) ==
  \E s \in StoredLengths(buf) :
    /\ out' = Append(out, Extent(out, s, buf))
    /\ fragEntries' = Append(fragEntries,
                        [start |-> ImageLen(out), word |-> SizeWord(s, buf)])

NewRefSlip == [idx |-> Len(fragEntries) + 1, off |-> Len(fragBuf)]

(* Where the tail that is added next will be. *)
NewRef == [idx |-> Len(fragEntries), off |-> Len(fragBuf)]

(* A new tail is appended to the fragment block; one that fills the block  *)
(* has it written, and the tails remembered for it forgotten.              *)
AddTail ==
  /\ pc = "tail"
  /\ Remainder(got[next]) > 0
  /\ LET t   == TailOf(got[next])
         buf == fragBuf \o t
         ref == NewRef
     IN /\ t \notin DOMAIN fragDedup
        /\ inode' = [inode EXCEPT ![next].fragIdx = ref.idx,
                                  ![next].fragOff = ref.off]
        /\ \/ /\ Len(buf) < BlockSize
              /\ fragBuf' = buf
              /\ fragDedup' = Remember(fragDedup, t, ref)
              /\ UNCHANGED <<out, fragEntries>>
           \/ /\ Len(buf) >= BlockSize
              /\ FlushFragments(buf)
              /\ fragBuf' = <<>>
              /\ fragDedup' = [x \in {} |-> ref]
  /\ NextFile
  /\ UNCHANGED <<disk, fileSize, got>>

(* After the last file, whatever the fragment block holds is written.      *)
Finish ==
  /\ pc = "open"
  /\ next = NumFiles + 1
  /\ \/ /\ fragBuf = <<>>
        /\ UNCHANGED <<out, fragEntries>>
     \/ /\ fragBuf # <<>>
        /\ FlushFragments(fragBuf)
  /\ pc' = "done"
  /\ UNCHANGED <<disk, fileSize, next, got, inode, fragBuf, fragDedup>>

Pack == \/ SkipFile \/ ReadFile \/ WriteBlock \/ EndBlocks
        \/ NoTail \/ ReuseTail \/ AddTail \/ Finish

Next == Pack \/ Rewrite \/ (pc = "done" /\ UNCHANGED vars)

Spec == Init /\ [][Next]_vars /\ WF_vars(Pack)

-----------------------------------------------------------------------------
(* The reader's side, as readInode and extractFileToPath compute it.       *)

(* The size and the first address readInode finds in the inode of f.       *)
ReaderLength(f) == fileSize[f] % LengthLimit
ReaderStart(f)  == inode[f].start % AddressLimit

ReaderBlocksSlip(f) ==
  (ReaderLength(f) \div BlockSize) + (IF ReaderLength(f) % BlockSize # 0 THEN 1 ELSE 0)

(* How many size words readInode takes from the inode of f.                *)
ReaderBlocks(f) ==
  ReaderLength(f) \div BlockSize +
    (IF inode[f].fragIdx = NoFragment /\ ReaderLength(f) % BlockSize # 0
       THEN 1 ELSE 0)

(* The addresses extractFileToPath computes: blockStart += size.           *)
BlockAddress(f) ==
  LET addr[k \in 1..Len(inode[f].words)] ==
        IF k = 1 THEN ReaderStart(f)
                 ELSE addr[k - 1] + inode[f].words[k - 1].size
  IN addr

(* The extent e is what a reader cuts out of the image at this address with*)
(* this size word.                                                         *)
Found(e, addr, word) ==
  out[e].start = addr /\ out[e].word = word /\ out[e].len = word.size

Yields(addr, word, d) ==
  \E e \in DOMAIN out : Found(e, addr, word) /\ out[e].data = d

(* The bytes t are at offset off of d.                                     *)
Holds(d, off, t) ==
  /\ off + Len(t) <= Len(d)
  /\ \A i \in 1..Len(t) : d[off + i] = t[i]

(* The fragment block i holds t at offset off: if it has been written,     *)
(* where the reader cuts it out with the size word of its table entry, and *)
(* in memory if it is the one being filled.                                *)
FragmentHolds(i, off, t) ==
  IF i < Len(fragEntries)
    THEN \E e \in DOMAIN out : /\ Found(e, fragEntries[i + 1].start, fragEntries[i + 1].word)
                               /\ Holds(out[e].data, off, t)
    ELSE i = Len(fragEntries) /\ Holds(fragBuf, off, t)

Packed == {f \in File : f < next}

-----------------------------------------------------------------------------
Word       == [size : Nat, raw : BOOLEAN]
Ref        == [idx : Nat, off : Nat]
ExtentType == [start : Nat, len : Nat, word : Word, data : Seq(Byte)]
EntryType  == [start : Nat, word : Word]
InodeType  == [start : Nat, words : Seq(Word),
               fragIdx : Nat \cup {NoFragment}, fragOff : Nat]

(* The variables have their types. *)
TypeOK ==
  /\ disk \in [File -> [data : Seq(Byte), readable : BOOLEAN]]
  /\ fileSize \in [File -> Nat]
  /\ pc \in {"open", "blocks", "tail", "done"}
  /\ next \in 1..NumFiles + 1
  /\ pc \in {"blocks", "tail"} => next \in File
  /\ got \in [File -> Seq(Byte)]
  /\ inode \in [File -> InodeType]
  /\ out \in Seq(ExtentType)
  /\ fragBuf \in Seq(Byte)
  /\ fragEntries \in Seq(EntryType)
  /\ DOMAIN fragDedup \subseteq Seq(Byte)
  /\ \A t \in DOMAIN fragDedup : fragDedup[t] \in Ref

(* The fragment of a file holds its tail where its inode says: whichever   *)
(* file stored the tail first, and however often the fragment block was    *)
(* written out and started again since (writer.go, the fragDedup map and   *)
(* its reset).  Its size word must tell the length of such a block, which  *)
(* may be nearly two block sizes.                                          *)
TailsResolve ==
  \A f \in Packed :
    LET n == inode[f]
    IN IF Remainder(got[f]) = 0
         THEN n.fragIdx = NoFragment
         ELSE /\ n.fragIdx # NoFragment
              /\ FragmentHolds(n.fragIdx, n.fragOff, TailOf(got[f]))

(* Walking the size words from startBlock, as extractFileToPath does, ends *)
(* up on the blocks of the file, in order, and not on another file's, if   *)
(* the first of them is where an inode can say (writer.go:543).            *)
BlocksResolve ==
  \A f \in Packed :
    /\ Len(inode[f].words) = FullBlocks(got[f])
    /\ inode[f].start < AddressLimit =>
         \A k \in DOMAIN inode[f].words :
           Yields(BlockAddress(f)[k], inode[f].words[k], Block(got[f], k))

(* No block decompresses to more than Reader.decompress lets through.      *)
WithinDecompressLimit ==
  \A e \in DOMAIN out : Len(out[e].data) <= DecompressLimit * BlockSize

(* Two files with equal tails in one fragment block share the bytes there: *)
(* the deduplication the superblock's flags announce.                      *)
EqualTailsShared ==
  \A f, g \in Packed :
    /\ inode[f].fragIdx # NoFragment
    /\ inode[f].fragIdx = inode[g].fragIdx
    /\ TailOf(got[f]) = TailOf(got[g])
    => inode[f].fragOff = inode[g].fragOff

(* The reader takes from the inode of f the size words the writer put      *)
(* there: it derives their number from the Lstat size and the fragment.    *)
SelfDescribing(f) == ReaderBlocks(f) = Len(inode[f].words)

(* That is so of every file whose length had not changed when it was read, *)
(* and can be said in an inode (writer.go:546).                            *)
ReadAsStatted ==
  \A f \in Packed :
    Len(got[f]) = fileSize[f] /\ fileSize[f] < LengthLimit => SelfDescribing(f)

(* "CreateFromDir creates a SquashFS image from a directory": each inode   *)
(* of the image can be parsed back, whether its file could be read, or     *)
(* changed its length before that, or not.                                 *)
EveryInodeParses == \A f \in Packed : SelfDescribing(f)

(* Phase 1 gets through the directory however often files are rewritten.   *)
Finishes == <>(pc = "done")
=============================================================================
