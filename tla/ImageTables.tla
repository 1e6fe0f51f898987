---------------------------- MODULE ImageTables ----------------------------
(***************************************************************************)
(* The tables behind the data area: Writer.CreateFromDir (writer.go) cuts  *)
(* each into metadata blocks and notes in the superblock where it starts,  *)
(* os.WriteFile puts the image on disk and may be cut short by a crash or  *)
(* a full disk; newReader (squashfs.go) reads the tables back.  A table is *)
(* a sequence of entries of one size, a byte to the model.                 *)
(***************************************************************************)
EXTENDS Integers, Sequences, SequencesExt

CONSTANTS
  InodeCounts, DirCounts, FragmentCounts, (* entries the tables may have    *)
  MetaBlockSize, (* entries to a metadata block (8192 bytes; 512 fragments) *)
  PackedSizes    (* lengths Writer.compress may reach; else it stores raw   *)

ASSUME TablesAssumption ==
  /\ InodeCounts \subseteq Nat \ {0}       \* the root has an inode
  /\ DirCounts \subseteq Nat /\ FragmentCounts \subseteq Nat
  /\ MetaBlockSize \in Nat \ {0}
  /\ PackedSizes \subseteq Nat \ {0}

SuperblockSize == 96
BlockHeader    == 2
PointerSize    == 8

Table == <<"inodes", "dirs", "fragments", "ids">>
Tables == ToSet(Table)

VARIABLES
  count,    (* entries of each table; the superblock has the fragments'     *)
  pc,       (* "tables", "file", "header", "inodes", "dirs", "fragments",   *)
            (* then "opened", "failed" (newReader's error) or "panicked"    *)
  t,        (* the table that is being written, an index of Table           *)
  done,     (* how many of its entries are                                  *)
  begin,    (* out.Len() when it was begun                                  *)
  len,      (* out.Len()                                                    *)
  blocks,   (* the metadata blocks: [start, size, entries]                  *)
  pointers, (* the 64-bit pointers: address -> value                        *)
  start,    (* the superblock's ...TableStart                               *)
  file,     (* how much of the image is on disk                             *)
  off,      (* the reader's place in the range, or among the pointers       *)
  data      (* what newReader has of each table; NoTable for r.frags = nil  *)

vars == <<count, pc, t, done, begin, len, blocks, pointers, start, file, off, data>>

image == <<count, t, done, begin, len, blocks, pointers, start>>

Rows(x) == [i \in 1..count[x] |-> <<x, i>>]
NoTable == << <<"nil", 0>> >>
Junk    == <<"junk", 0>>
Zero    == <<"zero", 0>>

Init ==
  /\ \E i \in InodeCounts, d \in DirCounts, f \in FragmentCounts :
       count = [inodes |-> i, dirs |-> d, fragments |-> f, ids |-> 1]
  /\ pc = "tables" /\ t = 1 /\ done = 0
  /\ begin = SuperblockSize /\ len = SuperblockSize
  /\ blocks = <<>>
  /\ pointers = [a \in {} |-> 0]
  /\ start = [x \in Tables |-> 0]
  /\ file = 0
  /\ off = 0
  /\ data = [x \in {"inodes", "dirs", "fragments"} |-> <<>>]

-----------------------------------------------------------------------------
(* Slips these definitions are tried with have names that end in Slip.     *)
AfterSlip(s) == len + s

(* out.Len() after a block of this length and its header. *)
After(s) == len + BlockHeader + s

(* writeMetablocks, one block.                                             *)
WriteMetablock ==
  /\ pc = "tables" /\ t \in DOMAIN Table
  /\ LET rows == Rows(Table[t])
         n    == IF done + MetaBlockSize < Len(rows) THEN MetaBlockSize
                                                     ELSE Len(rows) - done
     IN /\ done < Len(rows)
        /\ \E s \in {s \in PackedSizes : s < n} \cup {n} :
             /\ blocks' = Append(blocks, [start   |-> len, size |-> s,
                                          entries |-> SubSeq(rows, done + 1, done + n)])
             /\ len' = After(s)
        /\ done' = done + n
  /\ UNCHANGED <<count, pc, t, begin, pointers, start, file, off, data>>

(* The fragment table, if there is one, and the ids are found through a    *)
(* pointer that follows them: one, however many blocks there are.          *)
Indexed(x) == x = "ids" \/ (x = "fragments" /\ count[x] > 0)

TableStart(x) == IF Indexed(x) THEN len ELSE begin

EndTable ==
  /\ pc = "tables" /\ t \in DOMAIN Table
  /\ LET x == Table[t]
     IN /\ done = count[x]
        /\ start' = [start EXCEPT ![x] = TableStart(x)]
        /\ IF Indexed(x)
             THEN /\ pointers' = [a \in DOMAIN pointers \cup {len} |->
                                    IF a = len THEN begin ELSE pointers[a]]
                  /\ len' = len + PointerSize
             ELSE UNCHANGED <<pointers, len>>
        /\ begin' = len'
  /\ t' = t + 1 /\ done' = 0
  /\ UNCHANGED <<count, pc, blocks, file, off, data>>

(* Phase 8 fills in the superblock, in memory.                             *)
EndTables ==
  /\ pc = "tables" /\ t = Len(Table) + 1
  /\ pc' = "file"
  /\ UNCHANGED <<image, file, off, data>>

(* os.WriteFile, or as much of it as a crash or a full disk lets through.  *)
(* Less than a superblock is all the same to newReader.                    *)
WriteFile ==
  /\ pc = "file"
  /\ file' \in {0} \cup SuperblockSize..len
  /\ pc' = "header"
  /\ UNCHANGED <<image, off, data>>

-----------------------------------------------------------------------------
ReadHeader ==
  /\ pc = "header"
  /\ \/ file < SuperblockSize /\ pc' = "failed" /\ UNCHANGED off
     \/ file >= SuperblockSize /\ pc' = "inodes" /\ off' = start["inodes"]
  /\ UNCHANGED <<image, file, data>>

(* readMetablock: the blocks it may return for an address.  Where no block *)
(* begins it takes what is there for one.                                  *)
BlocksAt(a) ==
  {b \in ToSet(blocks) : b.start = a /\ a + BlockHeader + b.size <= file}

(* newReader's two ranges: the directories' goes up to the pointer to the  *)
(* fragment table and takes in that table's blocks.                        *)
RangeEnd == IF pc = "inodes" THEN start["dirs"] ELSE start["fragments"]

(* readMetaRange, one block. *)
ReadMetablock ==
  /\ pc \in {"inodes", "dirs"} /\ off < RangeEnd
  /\ \E b \in BlocksAt(off) :
       /\ data' = [data EXCEPT ![pc] = @ \o b.entries]
       /\ off' = off + b.size + BlockHeader
  /\ UNCHANGED <<image, pc, file>>

BeyondDataSlip ==
  /\ pc \in {"inodes", "dirs"} /\ off < RangeEnd
  /\ BlocksAt(off) = {}
  /\ off' = RangeEnd
  /\ UNCHANGED <<image, pc, file, data>>

(* readMetablock fails on a block that is not all there, and newReader     *)
(* with it.                                                                *)
BeyondData ==
  /\ pc \in {"inodes", "dirs"} /\ off < RangeEnd
  /\ BlocksAt(off) = {}
  /\ pc' = "failed"
  /\ UNCHANGED <<image, file, off, data>>

EndRange ==
  /\ pc \in {"inodes", "dirs"} /\ off >= RangeEnd
  /\ \/ /\ pc = "inodes"
        /\ pc' = "dirs" /\ off' = start["dirs"]
     \/ /\ pc = "dirs"
        /\ pc' = IF count["fragments"] > 0 THEN "fragments" ELSE "opened"
        /\ off' = start["fragments"]
  /\ UNCHANGED <<image, file, data>>

PointersSlip == (count["fragments"] \div MetaBlockSize) + 1

(* nPtrs in readFragTable, which reads as many pointers. *)
Pointers == (count["fragments"] + MetaBlockSize - 1) \div MetaBlockSize

PointersEnd == start["fragments"] + (Pointers * PointerSize)

NoFragmentsSlip ==
  /\ data' = [data EXCEPT !["fragments"] = [i \in 1..count["fragments"] |-> Zero]]
  /\ pc' = "opened"
  /\ UNCHANGED <<image, file, off>>

(* newReader goes on without fragments when their table cannot be read.    *)
NoFragments ==
  /\ data' = [data EXCEPT !["fragments"] = NoTable]
  /\ pc' = "opened"
  /\ UNCHANGED <<image, file, off>>

PointersBeyondData ==
  /\ pc = "fragments"
  /\ PointersEnd > file
  /\ NoFragments

(* The next pointer, and the metadata block it points to, which is on disk *)
(* as it comes before the pointer.                                         *)
FollowPointer ==
  /\ pc = "fragments" /\ PointersEnd <= file
  /\ off < PointersEnd /\ off \in DOMAIN pointers
  /\ \E b \in BlocksAt(pointers[off]) :
       data' = [data EXCEPT !["fragments"] = @ \o b.entries]
  /\ off' = off + PointerSize
  /\ UNCHANGED <<image, pc, file>>

(* Bytes that are no pointer, taken for one: what they point to may be     *)
(* beyond the image, or anything, or at a negative offset, on which        *)
(* byteSource.Slice panics.                                                *)
FollowGarbage ==
  /\ pc = "fragments" /\ PointersEnd <= file
  /\ off < PointersEnd /\ off \notin DOMAIN pointers
  /\ \/ NoFragments
     \/ /\ data' = [data EXCEPT !["fragments"] = Append(@, Junk)]
        /\ off' = off + PointerSize
        /\ UNCHANGED <<image, pc, file>>
     \/ /\ pc' = "panicked"
        /\ UNCHANGED <<image, file, off, data>>

(* Entries beyond what was read stay zero. *)
EndFragments ==
  /\ pc = "fragments" /\ PointersEnd <= file
  /\ off >= PointersEnd
  /\ data' = [data EXCEPT !["fragments"] =
                [i \in 1..count["fragments"] |-> IF i <= Len(@) THEN @[i] ELSE Zero]]
  /\ pc' = "opened"
  /\ UNCHANGED <<image, file, off>>

Next == \/ WriteMetablock \/ EndTable \/ EndTables \/ WriteFile
        \/ ReadHeader \/ ReadMetablock \/ BeyondData \/ EndRange
        \/ PointersBeyondData \/ FollowPointer \/ FollowGarbage \/ EndFragments
        \/ pc \in {"opened", "failed", "panicked"} /\ UNCHANGED vars

Spec == Init /\ [][Next]_vars

-----------------------------------------------------------------------------
(* The variables have their types, and the blocks are within the image.    *)
TypeOK ==
  /\ pc \in {"tables", "file", "header", "inodes", "dirs", "fragments",
             "opened", "failed", "panicked"}
  /\ count \in [Tables -> Nat]
  /\ t \in 1..Len(Table) + 1 /\ done \in Nat
  /\ begin \in Nat /\ len \in Nat /\ begin <= len
  /\ \A i \in DOMAIN blocks : blocks[i].start + BlockHeader + blocks[i].size <= len
  /\ DOMAIN pointers \subseteq Nat
  /\ start \in [Tables -> Nat]
  /\ file \in 0..len /\ off \in Nat
  /\ DOMAIN data = {"inodes", "dirs", "fragments"}

(* Whatever was left on disk of an image: when newReader opens it, it has  *)
(* the whole inode table and the whole directory table, and a fragment     *)
(* table that is missing or, up to the first metadata block's worth, right.*)
OpenedIsRight ==
  pc = "opened" =>
    /\ data["inodes"] = Rows("inodes")
    /\ IsPrefix(Rows("dirs"), data["dirs"])
    /\ \/ data["fragments"] = NoTable
       \/ /\ Len(data["fragments"]) = count["fragments"]
          /\ \A i \in 1..count["fragments"] :
               i <= MetaBlockSize => data["fragments"][i] = Rows("fragments")[i]

(* A complete image with at most a metadata block's worth of fragments     *)
(* opens, with the fragment table.                                         *)
CompleteOpens ==
  file = len /\ count["fragments"] <= MetaBlockSize =>
    /\ pc \notin {"failed", "panicked"}
    /\ pc = "opened" => data["fragments"] = Rows("fragments")

(* An image cut short loses its fragments in silence only if the cut fell  *)
(* into the pointer to them: a shorter one is refused.                     *)
CutIsRefused ==
  pc = "opened" => \/ file >= start["fragments"] + PointerSize
                   \/ /\ file >= start["fragments"]
                      /\ count["fragments"] > 0 => data["fragments"] = NoTable

(* "Fragment table support" (README.md:67), reading and writing: a         *)
(* complete image is opened with its fragments.                            *)
FragmentsReadBack ==
  pc = "opened" /\ file = len => data["fragments"] = Rows("fragments")
=============================================================================
