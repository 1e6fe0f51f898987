------------------------- MODULE ImageTables_proofs -------------------------
(***************************************************************************)
(* Proofs about ImageTables, for tables of any lengths, any metadata block *)
(* size, any compressor and an image cut short anywhere.                   *)
(***************************************************************************)
EXTENDS ImageTables, SequenceTheorems, TLAPS

-----------------------------------------------------------------------------
(* The inductive invariant: the image.                                     *)

Item == (Tables \cup {"nil", "junk", "zero"}) \X Nat

BlockType == [start : Nat, size : Nat, entries : Seq(Item)]

(* More of the types than TypeOK says. *)
Typed ==
  /\ TypeOK
  /\ blocks \in Seq(BlockType)
  /\ \A a \in DOMAIN pointers : pointers[a] \in Nat
  /\ data \in [{"inodes", "dirs", "fragments"} -> Seq(Item)]

(* The rows that go into one metadata block behind the first p.            *)
Chunk(x, p) == IF p + MetaBlockSize < count[x] THEN MetaBlockSize ELSE count[x] - p

Entries(x, p) == SubSeq(Rows(x), p + 1, p + Chunk(x, p))

(* Rows of the i-th table that are in metadata blocks.                     *)
Written(i) == IF i < t THEN count[Table[i]] ELSE IF i = t THEN done ELSE 0

(* Where the metadata blocks of the i-th table begin, of the first three,  *)
(* and where they end.                                                     *)
First(i) ==
  IF i = t THEN begin
  ELSE IF i = 3 /\ count["fragments"] > 0 THEN pointers[start["fragments"]]
  ELSE start[Table[i]]

Edge(i) == IF i = t THEN len ELSE IF i = 3 THEN start["fragments"] ELSE First(i + 1)

End(b) == b.start + BlockHeader + b.size

(* The rows of the i-th table behind the first p go on at address a.       *)
Place(i, p, a) ==
  IF p < Written(i)
    THEN \E b \in ToSet(blocks) : b.start = a /\ b.entries = Entries(Table[i], p)
    ELSE p = Written(i) /\ a = Edge(i)

(* Metadata blocks do not overlap. *)
Apart == \A j, k \in DOMAIN blocks : j < k => End(blocks[j]) <= blocks[k].start

(* Each table lies in one stretch, and behind each of its blocks goes on.  *)
Laid ==
  /\ \A i \in 1..3 : i <= t => Place(i, 0, First(i)) /\ First(i) <= Edge(i)
  /\ \A b \in ToSet(blocks), i \in 1..3 : \A p \in 0..count[Table[i]] - 1 :
       b.entries = Entries(Table[i], p) =>
         /\ p + Chunk(Table[i], p) <= Written(i)
         /\ End(b) <= Edge(i)
         /\ Place(i, p + Chunk(Table[i], p), End(b))

(* The superblock points to the fragments' pointer, if there is one.       *)
Pointed ==
  t > 3 => /\ start["fragments"] <= begin
           /\ count["fragments"] > 0 => /\ start["fragments"] \in DOMAIN pointers
                                        /\ start["fragments"] + PointerSize <= begin

-----------------------------------------------------------------------------
(* The inductive invariant: the reader.                                    *)

(* What the phases have done, and what those to come have not.             *)
Phases ==
  /\ count["inodes"] > 0 /\ len >= SuperblockSize
  /\ t <= 4 => done <= count[Table[t]]
  /\ pc # "tables" => t = 5
  /\ t > 1 => start["inodes"] = SuperblockSize
  /\ t = 1 => begin = SuperblockSize
  /\ pc \in {"tables", "file"} => file = 0
  /\ pc \in {"tables", "file", "header"} => data["inodes"] = <<>>
  /\ pc \in {"tables", "file", "header", "inodes"} => data["dirs"] = <<>>
  /\ pc \in {"tables", "file", "header", "inodes", "dirs"} => data["fragments"] = <<>>

(* The inodes read are the first ones, and the reader is where they go on. *)
ReadInodes ==
  /\ pc = "inodes" => \E p \in 0..count["inodes"] :
       /\ data["inodes"] = SubSeq(Rows("inodes"), 1, p) /\ Place(1, p, off)
       /\ p > 0 => off <= file
  /\ pc \in {"dirs", "fragments", "opened"} => data["inodes"] = Rows("inodes")

(* So are the listings, and the fragments behind them.                     *)
ReadDirs ==
  /\ pc = "dirs" =>
       /\ off <= file
       /\ \/ \E p \in 0..count["dirs"] :
               data["dirs"] = SubSeq(Rows("dirs"), 1, p) /\ Place(2, p, off)
          \/ \E p \in 0..count["fragments"] :
               data["dirs"] = Rows("dirs") \o SubSeq(Rows("fragments"), 1, p) /\ Place(3, p, off)
  /\ pc \in {"fragments", "opened"} =>
       IsPrefix(Rows("dirs"), data["dirs"]) /\ start["fragments"] <= file

(* The first metadata block's worth of fragments is what it should be.     *)
FirstRight ==
  \A i \in 1..count["fragments"] :
    i <= MetaBlockSize =>
      i \in DOMAIN data["fragments"] /\ data["fragments"][i] = Rows("fragments")[i]

(* It is once the first pointer has been followed.                         *)
ReadFragments ==
  pc = "fragments" =>
    /\ count["fragments"] > 0
    /\ \E m \in Nat : /\ off = start["fragments"] + (m * PointerSize)
                      /\ m > 0 => FirstRight
                      /\ m = 0 => data["fragments"] = <<>>

IInv ==
  /\ Typed
  /\ Apart
  /\ Laid
  /\ Pointed
  /\ Phases
  /\ ReadInodes
  /\ ReadDirs
  /\ ReadFragments
  /\ OpenedIsRight
  /\ CompleteOpens
  /\ CutIsRefused

-----------------------------------------------------------------------------
(* Tables and blocks.                                                      *)

(* The names of the tables. *)
LEMMA TableNames ==
  /\ Table[1] = "inodes" /\ Table[2] = "dirs" /\ Table[3] = "fragments" /\ Table[4] = "ids"
  /\ Len(Table) = 4 /\ DOMAIN Table = 1..4
  /\ Tables = {"inodes", "dirs", "fragments", "ids"}
  /\ \A i \in 1..4 : Table[i] \in Tables
  /\ \A i, j \in 1..4 : Table[i] = Table[j] => i = j
<1>1. /\ Table[1] = "inodes" /\ Table[2] = "dirs" /\ Table[3] = "fragments" /\ Table[4] = "ids"
      /\ Len(Table) = 4 /\ DOMAIN Table = 1..4
  BY DEF Table
<1>2. \A i \in 1..4 : i = 1 \/ i = 2 \/ i = 3 \/ i = 4
  OBVIOUS
<1>3. Tables = {"inodes", "dirs", "fragments", "ids"}
  <2>1. Tables = {Table[i] : i \in 1..4}
    BY <1>1 DEF Tables, ToSet
  <2> QED
    BY <1>1, <1>2, <2>1
<1>4. \A i \in 1..4 : Table[i] \in Tables
  BY <1>1, <1>2, <1>3
<1>5. \A i, j \in 1..4 : Table[i] = Table[j] => i = j
  BY <1>1, <1>2
<1> QED
  BY <1>1, <1>3, <1>4, <1>5

(* The rows of a table. *)
LEMMA RowsAre ==
  ASSUME NEW x \in Tables, count[x] \in Nat
  PROVE  /\ Rows(x) \in Seq(Item) /\ Len(Rows(x)) = count[x]
         /\ \A i \in 1..count[x] : Rows(x)[i] = <<x, i>>
<1>1. \A i \in 1..count[x] : <<x, i>> \in Item
  BY DEF Item
<1> QED
  BY <1>1 DEF Rows

(* What a metadata block takes is not empty, and joins what is before it.  *)
LEMMA ChunkIs ==
  ASSUME NEW x \in Tables, count[x] \in Nat, NEW p \in Nat, p < count[x]
  PROVE  /\ Chunk(x, p) \in Nat /\ Chunk(x, p) > 0 /\ p + Chunk(x, p) <= count[x]
         /\ Entries(x, p) \in Seq(Item) /\ Len(Entries(x, p)) = Chunk(x, p)
         /\ \A i \in 1..Chunk(x, p) : Entries(x, p)[i] = <<x, p + i>>
         /\ SubSeq(Rows(x), 1, p) \o Entries(x, p) = SubSeq(Rows(x), 1, p + Chunk(x, p))
<1> DEFINE n == Chunk(x, p)
           r == Rows(x)
<1>1. n \in Nat /\ n > 0 /\ p + n <= count[x]
  BY TablesAssumption DEF Chunk
<1>2. r \in Seq(Item) /\ Len(r) = count[x] /\ \A i \in 1..count[x] : r[i] = <<x, i>>
  BY RowsAre
<1> HIDE DEF n, r
<1>3. SubSeq(r, p + 1, p + n) \in Seq(Item) /\ Len(SubSeq(r, p + 1, p + n)) = n
  BY <1>1, <1>2
<1>4. \A i \in 1..n : SubSeq(r, p + 1, p + n)[i] = <<x, p + i>>
  <2> SUFFICES ASSUME NEW i \in 1..n PROVE SubSeq(r, p + 1, p + n)[i] = <<x, p + i>>
    OBVIOUS
  <2>1. SubSeq(r, p + 1, p + n)[i] = r[p + i] /\ p + i \in 1..count[x]
    BY <1>1, <1>2
  <2> QED
    BY <1>2, <2>1
<1>5. SubSeq(r, 1, p) \o SubSeq(r, p + 1, p + n) = SubSeq(r, 1, p + n)
  <2>1. 1 \in 1..Len(r) + 1 /\ p \in 1 - 1..Len(r) /\ p + n \in p..Len(r)
    BY <1>1, <1>2
  <2> QED
    BY <1>2, <2>1, ConcatAdjacentSubSeq
<1> QED
  BY <1>1, <1>3, <1>4, <1>5 DEF n, r, Entries

(* A metadata block tells which rows it has. *)
LEMMA EntriesTell ==
  ASSUME NEW x \in Tables, count[x] \in Nat, NEW p \in Nat, p < count[x],
         NEW y \in Tables, count[y] \in Nat, NEW q \in Nat, q < count[y],
         Entries(x, p) = Entries(y, q)
  PROVE  x = y /\ p = q
<1>1. Entries(x, p)[1] = <<x, p + 1>> /\ Entries(y, q)[1] = <<y, q + 1>>
  <2>1. Chunk(x, p) \in Nat /\ Chunk(x, p) > 0 /\ \A i \in 1..Chunk(x, p) : Entries(x, p)[i] = <<x, p + i>>
    BY ChunkIs
  <2>2. Chunk(y, q) \in Nat /\ Chunk(y, q) > 0 /\ \A i \in 1..Chunk(y, q) : Entries(y, q)[i] = <<y, q + i>>
    BY ChunkIs
  <2>3. 1 \in 1..Chunk(x, p) /\ 1 \in 1..Chunk(y, q)
    BY <2>1, <2>2
  <2> QED
    BY <2>1, <2>2, <2>3
<1>2. x = y /\ p + 1 = q + 1
  BY <1>1
<1> QED
  BY <1>2

(* What a metadata block has. *)
LEMMA BlockFields ==
  ASSUME Typed, NEW b \in ToSet(blocks)
  PROVE  b.start \in Nat /\ b.size \in Nat /\ b.entries \in Seq(Item) /\ End(b) <= len
         /\ End(b) \in Nat /\ End(b) > b.start
<1>1. PICK j \in DOMAIN blocks : b = blocks[j]
  BY DEF ToSet
<1>2. b \in BlockType
  BY <1>1 DEF Typed
<1>3. End(b) <= len
  BY <1>1 DEF Typed, TypeOK, End
<1> QED
  BY <1>2, <1>3 DEF BlockType, End, BlockHeader

(* No two of them begin at the same address. *)
LEMMA SameStart ==
  ASSUME Typed, Apart, NEW b \in ToSet(blocks), NEW c \in ToSet(blocks), b.start = c.start
  PROVE  b = c
<1>1. PICK j \in DOMAIN blocks : b = blocks[j]
  BY DEF ToSet
<1>2. PICK k \in DOMAIN blocks : c = blocks[k]
  BY DEF ToSet
<1>3. j \in Nat /\ k \in Nat
  BY <1>1, <1>2 DEF Typed
<1>4. ~(j < k) /\ ~(k < j)
  <2>1. b.start \in Nat /\ c.start \in Nat /\ End(b) > b.start /\ End(c) > c.start
        /\ End(b) \in Nat /\ End(c) \in Nat
    BY BlockFields
  <2> QED
    BY <1>1, <1>2, <2>1 DEF Apart
<1> QED
  BY <1>1, <1>2, <1>3, <1>4

-----------------------------------------------------------------------------
(* Type correctness.                                                       *)

(* The tables newReader keeps. *)
Kept == {"inodes", "dirs", "fragments"}

(* The types hold at the start. *)
LEMMA TypedInit == Init => Typed
<1> SUFFICES ASSUME Init PROVE Typed
  OBVIOUS
<1>1. count \in [Tables -> Nat]
  <2>1. PICK i \in InodeCounts, d \in DirCounts, f \in FragmentCounts :
          count = [inodes |-> i, dirs |-> d, fragments |-> f, ids |-> 1]
    BY DEF Init
  <2> QED
    BY <2>1, TableNames, TablesAssumption
<1>2. start \in [Tables -> Nat] /\ data \in [Kept -> Seq(Item)] /\ DOMAIN data = Kept
  BY DEF Init, Kept
<1>3. blocks \in Seq(BlockType) /\ blocks = <<>> /\ DOMAIN blocks = {}
  BY DEF Init
<1>4. TypeOK
  BY <1>1, <1>2, <1>3, TableNames DEF Init, TypeOK, SuperblockSize, Kept
<1> QED
  BY <1>2, <1>3, <1>4 DEF Typed, Init, Kept

(* The step that writes a metadata block: which rows are in it.            *)
LEMMA BlockWritten ==
  ASSUME Typed, Phases, WriteMetablock
  PROVE  \E b \in BlockType :
           /\ blocks' = Append(blocks, b) /\ b.start = len /\ len' = End(b)
           /\ b.entries = Entries(Table[t], done)
           /\ t \in 1..4 /\ done < count[Table[t]] /\ count[Table[t]] \in Nat
           /\ done' = done + Chunk(Table[t], done)
<1> DEFINE x == Table[t]
           n == Chunk(x, done)
<1>1. t \in 1..4 /\ x \in Tables /\ count[x] \in Nat /\ done \in Nat /\ len \in Nat
  BY TableNames DEF Typed, TypeOK, WriteMetablock
<1>2. Len(Rows(x)) = count[x] /\ done < count[x]
  BY <1>1, RowsAre DEF WriteMetablock
<1>3. n = IF done + MetaBlockSize < Len(Rows(x)) THEN MetaBlockSize ELSE Len(Rows(x)) - done
  BY <1>2 DEF Chunk
<1>4. PICK s \in {s \in PackedSizes : s < n} \cup {n} :
        /\ blocks' = Append(blocks, [start |-> len, size |-> s,
                                     entries |-> SubSeq(Rows(x), done + 1, done + n)])
        /\ len' = After(s) /\ done' = done + n
  <2> HIDE DEF n
  <2> QED
    BY <1>3 DEF WriteMetablock
<1>5. n \in Nat /\ n > 0 /\ Entries(x, done) \in Seq(Item)
  BY <1>1, <1>2, ChunkIs
<1>6. s \in Nat
  BY <1>4, <1>5, TablesAssumption
<1> DEFINE b == [start |-> len, size |-> s, entries |-> Entries(x, done)]
<1>7. b \in BlockType /\ b.start = len /\ b.entries = Entries(x, done)
  BY <1>1, <1>5, <1>6 DEF BlockType
<1>8. blocks' = Append(blocks, b)
  BY <1>4 DEF Entries
<1>9. len' = End(b)
  BY <1>1, <1>4, <1>6 DEF After, End, BlockHeader
<1> QED
  BY <1>1, <1>2, <1>4, <1>7, <1>8, <1>9

(* What reading a metadata block appends is made of rows. *)
LEMMA MoreData ==
  ASSUME Typed, NEW x \in Kept, NEW b \in BlocksAt(off) \cup BlocksAt(pointers[off]),
         data' = [data EXCEPT ![x] = @ \o b.entries]
  PROVE  data' \in [Kept -> Seq(Item)]
<1>1. b.entries \in Seq(Item) /\ data \in [Kept -> Seq(Item)] /\ data[x] \in Seq(Item)
  BY BlockFields DEF BlocksAt, Typed, Kept
<1>2. data[x] \o b.entries \in Seq(Item)
  BY <1>1
<1> QED
  BY <1>1, <1>2

(* Writing a metadata block keeps the types. *)
LEMMA TypedBlock ==
  ASSUME Typed, Phases, WriteMetablock
  PROVE  Typed'
<1>1. PICK b \in BlockType :
        blocks' = Append(blocks, b) /\ b.start = len /\ len' = End(b)
        /\ t \in 1..4 /\ done < count[Table[t]] /\ count[Table[t]] \in Nat
        /\ done' = done + Chunk(Table[t], done)
  BY BlockWritten
<1>2. End(b) \in Nat /\ End(b) > len /\ len \in Nat /\ blocks \in Seq(BlockType) /\ done \in Nat
  BY <1>1 DEF BlockType, End, BlockHeader, Typed, TypeOK
<1>3. done' \in Nat
  <2>1. Table[t] \in Tables
    BY <1>1, TableNames
  <2>2. Chunk(Table[t], done) \in Nat
    BY <1>1, <1>2, <2>1, ChunkIs
  <2> QED
    BY <1>1, <1>2, <2>2
<1>4. \A i \in DOMAIN blocks' : End(blocks'[i]) <= len'
  <2>1. \A i \in DOMAIN blocks : End(blocks[i]) <= len /\ End(blocks[i]) \in Int
    <3>1. \A i \in DOMAIN blocks : blocks[i] \in ToSet(blocks)
      BY DEF ToSet
    <3> QED
      BY <3>1, BlockFields
  <2>2. \A i \in DOMAIN blocks' : i = Len(blocks) + 1 \/ i \in DOMAIN blocks
    BY <1>1, <1>2
  <2>3. \A i \in DOMAIN blocks : blocks'[i] = blocks[i]
    BY <1>1, <1>2
  <2>4. blocks'[Len(blocks) + 1] = b
    BY <1>1, <1>2
  <2> SUFFICES ASSUME NEW i \in DOMAIN blocks' PROVE End(blocks'[i]) <= len'
    OBVIOUS
  <2>5. CASE i = Len(blocks) + 1
    BY <1>1, <1>2, <2>4, <2>5
  <2>6. CASE i \in DOMAIN blocks
    BY <1>1, <1>2, <2>1, <2>3, <2>6
  <2> QED
    BY <2>2, <2>5, <2>6
<1>5. blocks' \in Seq(BlockType)
  BY <1>1, <1>2
<1>6. len' \in Nat /\ len' > len /\ UNCHANGED <<count, pc, t, begin, pointers, start, file, off, data>>
  BY <1>1, <1>2 DEF WriteMetablock
<1>7. TypeOK'
  BY <1>3, <1>4, <1>6 DEF Typed, TypeOK, End
<1> QED
  BY <1>5, <1>6, <1>7 DEF Typed

(* Ending a table keeps the types. *)
LEMMA TypedEnd ==
  ASSUME Typed, EndTable
  PROVE  Typed'
<1> DEFINE x == Table[t]
<1>1. /\ t \in 1..4 /\ x \in Tables /\ len \in Nat /\ begin \in Nat /\ begin <= len
      /\ start \in [Tables -> Nat] /\ file \in 0..len
  BY TableNames DEF Typed, TypeOK, EndTable
<1>2. TableStart(x) \in Nat
  BY <1>1 DEF TableStart
<1>3. start' \in [Tables -> Nat]
  BY <1>1, <1>2 DEF EndTable
<1>4. len' \in Nat /\ len <= len'
  BY <1>1 DEF EndTable, PointerSize
<1>5. DOMAIN pointers' \subseteq Nat /\ \A a \in DOMAIN pointers' : pointers'[a] \in Nat
  BY <1>1 DEF EndTable, Typed, TypeOK
<1>6. t' \in 1..5 /\ done' = 0 /\ begin' = len' /\ UNCHANGED <<count, pc, blocks, file, off, data>>
  BY <1>1 DEF EndTable
<1>7. \A i \in DOMAIN blocks : End(blocks[i]) <= len'
  <2>1. \A i \in DOMAIN blocks : End(blocks[i]) <= len /\ End(blocks[i]) \in Int
    <3>1. \A i \in DOMAIN blocks : blocks[i] \in ToSet(blocks)
      BY DEF ToSet
    <3> QED
      BY <3>1, BlockFields
  <2> QED
    BY <1>1, <1>4, <2>1
<1>8. TypeOK'
  <2>1. file' \in 0..len'
    BY <1>1, <1>4, <1>6
  <2>2. begin' \in Nat /\ len' \in Nat /\ begin' <= len'
    BY <1>4, <1>6
  <2>3. \A i \in DOMAIN blocks' : blocks'[i].start + BlockHeader + blocks'[i].size <= len'
    BY <1>6, <1>7 DEF End
  <2> QED
    BY <1>3, <1>5, <1>6, <2>1, <2>2, <2>3, TableNames DEF Typed, TypeOK
<1> QED
  BY <1>5, <1>6, <1>8 DEF Typed

(* Going on with no fragment table keeps them. *)
LEMMA TypedNone ==
  ASSUME Typed, NoFragments
  PROVE  Typed'
<1>1. NoTable \in Seq(Item)
  BY DEF NoTable, Item
<1>2. data' \in [Kept -> Seq(Item)] /\ DOMAIN data' = Kept
  BY <1>1 DEF NoFragments, Typed, Kept
<1>3. pc' = "opened" /\ UNCHANGED <<image, file, off>>
  BY DEF NoFragments
<1>4. TypeOK'
  BY <1>2, <1>3 DEF Typed, TypeOK, image, Kept
<1> QED
  BY <1>2, <1>3, <1>4 DEF Typed, image, Kept

(* Each step of the reader keeps the types. *)
LEMMA TypedRead ==
  ASSUME Typed, ReadHeader \/ ReadMetablock \/ BeyondData \/ EndRange
                \/ PointersBeyondData \/ FollowPointer \/ FollowGarbage \/ EndFragments
  PROVE  Typed' /\ UNCHANGED <<image, file>>
<1>1. ASSUME data' \in [Kept -> Seq(Item)], off' \in Nat, UNCHANGED <<image, file>>,
             pc' \in {"inodes", "dirs", "fragments", "opened", "failed", "panicked"}
      PROVE  Typed' /\ UNCHANGED <<image, file>>
  <2>1. DOMAIN data' = Kept
    BY <1>1
  <2>2. TypeOK'
    BY <1>1, <2>1 DEF Typed, TypeOK, image, Kept
  <2> QED
    BY <1>1, <2>2 DEF Typed, image, Kept
<1>2. off \in Nat /\ start \in [Tables -> Nat] /\ data \in [Kept -> Seq(Item)] /\ "inodes" \in Tables
      /\ "dirs" \in Tables /\ "fragments" \in Tables
  BY TableNames DEF Typed, TypeOK, Kept
<1>3. CASE ReadHeader
  BY <1>1, <1>2, <1>3 DEF ReadHeader
<1>4. CASE ReadMetablock
  <2>1. PICK b \in BlocksAt(off) : data' = [data EXCEPT ![pc] = @ \o b.entries]
                                   /\ off' = off + b.size + BlockHeader
    BY <1>4 DEF ReadMetablock
  <2>2. data' \in [Kept -> Seq(Item)]
    BY <1>4, <2>1, MoreData DEF ReadMetablock, Kept
  <2>3. b.size \in Nat
    BY <2>1, BlockFields DEF BlocksAt
  <2> QED
    BY <1>1, <1>2, <1>4, <2>1, <2>2, <2>3 DEF ReadMetablock, BlockHeader
<1>5. CASE BeyondData
  BY <1>1, <1>2, <1>5 DEF BeyondData
<1>6. CASE EndRange
  BY <1>1, <1>2, <1>6 DEF EndRange
<1>7. CASE PointersBeyondData
  BY <1>7, TypedNone DEF PointersBeyondData, NoFragments
<1>8. CASE FollowPointer
  <2>1. PICK b \in BlocksAt(pointers[off]) : data' = [data EXCEPT !["fragments"] = @ \o b.entries]
    BY <1>8 DEF FollowPointer
  <2>2. data' \in [Kept -> Seq(Item)]
    BY <2>1, MoreData DEF Kept
  <2> QED
    BY <1>1, <1>2, <1>8, <2>2 DEF FollowPointer, PointerSize
<1>9. CASE FollowGarbage
  <2>1. CASE NoFragments
    BY <2>1, TypedNone DEF NoFragments
  <2>2. CASE /\ data' = [data EXCEPT !["fragments"] = Append(@, Junk)]
             /\ off' = off + PointerSize
             /\ UNCHANGED <<image, pc, file>>
    <3>1. Junk \in Item
      BY DEF Junk, Item
    <3>2. data' \in [Kept -> Seq(Item)]
      BY <1>2, <2>2, <3>1 DEF Kept
    <3>3. pc' \in {"fragments"} /\ off' \in Nat
      BY <1>2, <1>9, <2>2 DEF FollowGarbage, PointerSize
    <3> QED
      BY <1>1, <2>2, <3>2, <3>3
  <2>3. CASE pc' = "panicked" /\ UNCHANGED <<image, file, off, data>>
    BY <1>1, <1>2, <2>3
  <2> QED
    BY <1>9, <2>1, <2>2, <2>3 DEF FollowGarbage
<1>10. CASE EndFragments
  <2> DEFINE d == data["fragments"]
             r == [i \in 1..count["fragments"] |-> IF i <= Len(d) THEN d[i] ELSE Zero]
  <2>1. d \in Seq(Item) /\ Zero \in Item /\ count["fragments"] \in Nat
    BY <1>2 DEF Kept, Zero, Item, Typed, TypeOK
  <2>2. r \in Seq(Item)
    <3>1. \A i \in 1..count["fragments"] : i <= Len(d) => d[i] \in Item
      BY <2>1
    <3> HIDE DEF d
    <3> QED
      BY <2>1, <3>1
  <2>3. data' = [data EXCEPT !["fragments"] = r]
    BY <1>2, <1>10 DEF EndFragments, Kept
  <2> HIDE DEF r
  <2>4. data' \in [Kept -> Seq(Item)]
    BY <1>2, <2>2, <2>3 DEF Kept
  <2> QED
    BY <1>1, <1>2, <1>10, <2>4 DEF EndFragments
<1> QED
  BY <1>3, <1>4, <1>5, <1>6, <1>7, <1>8, <1>9, <1>10

(* Each step keeps the types. *)
LEMMA TypedStep ==
  ASSUME Typed, Phases, [Next]_vars
  PROVE  Typed'
<1>1. CASE EndTables
  BY <1>1 DEF Typed, TypeOK, EndTables, image
<1>2. CASE WriteFile
  <2>1. file' \in 0..len
    <3>1. len \in Nat /\ len >= SuperblockSize
      BY DEF Phases, Typed, TypeOK
    <3> QED
      BY <1>2, <3>1 DEF WriteFile, SuperblockSize
  <2>2. TypeOK'
    BY <1>2, <2>1 DEF Typed, TypeOK, WriteFile, image
  <2> QED
    BY <1>2, <2>2 DEF Typed, WriteFile, image
<1>3. CASE UNCHANGED vars
  BY <1>3 DEF Typed, TypeOK, vars
<1> QED
  BY <1>1, <1>2, <1>3, TypedBlock, TypedEnd, TypedRead DEF Next

-----------------------------------------------------------------------------
(* The layout.                                                             *)

(* The metadata blocks after one has been written. *)
LEMMA BlocksGrow ==
  ASSUME Typed, NEW b \in BlockType, blocks' = Append(blocks, b)
  PROVE  /\ ToSet(blocks') = ToSet(blocks) \cup {b}
         /\ Len(blocks) \in Nat /\ DOMAIN blocks = 1..Len(blocks)
         /\ DOMAIN blocks' = 1..Len(blocks) + 1
         /\ blocks'[Len(blocks) + 1] = b
         /\ \A i \in 1..Len(blocks) : blocks'[i] = blocks[i]
<1>1. /\ Len(blocks) \in Nat /\ DOMAIN blocks = 1..Len(blocks)
      /\ DOMAIN blocks' = 1..Len(blocks) + 1
      /\ blocks'[Len(blocks) + 1] = b
      /\ \A i \in 1..Len(blocks) : blocks'[i] = blocks[i]
  BY DEF Typed
<1>2. \A i \in 1..Len(blocks) + 1 : i = Len(blocks) + 1 \/ i \in 1..Len(blocks)
  BY <1>1
<1>3. 1..Len(blocks) \subseteq 1..Len(blocks) + 1 /\ Len(blocks) + 1 \in 1..Len(blocks) + 1
  BY <1>1
<1>4. ToSet(blocks') = ToSet(blocks) \cup {b}
  BY <1>1, <1>2, <1>3 DEF ToSet
<1> QED
  BY <1>1, <1>4

(* A metadata block is written behind the others. *)
LEMMA ApartStep ==
  ASSUME Typed, Phases, Apart, WriteMetablock
  PROVE  Apart'
<1>1. PICK b \in BlockType : blocks' = Append(blocks, b) /\ b.start = len
  BY BlockWritten
<1>2. /\ Len(blocks) \in Nat /\ DOMAIN blocks = 1..Len(blocks)
      /\ DOMAIN blocks' = 1..Len(blocks) + 1
      /\ blocks'[Len(blocks) + 1] = b
      /\ \A i \in 1..Len(blocks) : blocks'[i] = blocks[i]
  BY <1>1, BlocksGrow
<1>3. \A i \in 1..Len(blocks) : End(blocks[i]) <= len
  <2>1. \A i \in 1..Len(blocks) : blocks[i] \in ToSet(blocks)
    BY <1>2 DEF ToSet
  <2> QED
    BY <2>1, BlockFields
<1> SUFFICES ASSUME NEW j \in 1..Len(blocks) + 1, NEW k \in 1..Len(blocks) + 1, j < k
             PROVE  End(blocks'[j]) <= blocks'[k].start
  BY <1>2 DEF Apart, End
<1>4. j \in 1..Len(blocks) /\ (k \in 1..Len(blocks) \/ k = Len(blocks) + 1)
  BY <1>2
<1>5. CASE k \in 1..Len(blocks)
  BY <1>2, <1>4, <1>5 DEF Apart
<1>6. CASE k = Len(blocks) + 1
  BY <1>1, <1>2, <1>3, <1>4, <1>6
<1> QED
  BY <1>4, <1>5, <1>6

(* Numbers of rows, and what is in a chunk, while the counts stay.         *)
LEMMA SameRows ==
  ASSUME count' = count
  PROVE  \A x, p : Chunk(x, p)' = Chunk(x, p) /\ Entries(x, p)' = Entries(x, p)
BY DEF Chunk, Entries, Rows

(* Counts and rows written are numbers. *)
LEMMA WrittenType ==
  ASSUME Typed, NEW i \in 1..4
  PROVE  count[Table[i]] \in Nat /\ Written(i) \in Nat /\ Table[i] \in Tables
<1>1. count[Table[i]] \in Nat /\ Table[i] \in Tables
  BY TableNames DEF Typed, TypeOK
<1>2. done \in Nat
  BY DEF Typed, TypeOK
<1> QED
  BY <1>1, <1>2 DEF Written

(* The stretches grow with the metadata block that is written. *)
LEMMA LaidBlock ==
  ASSUME Typed, Phases, Laid, WriteMetablock
  PROVE  Laid'
<1> DEFINE n == Chunk(Table[t], done)
           W(i) == IF i = t THEN done' ELSE Written(i)
           E(i) == IF i = t THEN len' ELSE Edge(i)
           Now(i, p, a) ==
             IF p < W(i) THEN \E c \in ToSet(blocks') : c.start = a /\ c.entries = Entries(Table[i], p)
                         ELSE p = W(i) /\ a = E(i)
<1>1. PICK b \in BlockType :
           /\ blocks' = Append(blocks, b) /\ b.start = len /\ len' = End(b)
           /\ b.entries = Entries(Table[t], done)
           /\ t \in 1..4 /\ done < count[Table[t]] /\ count[Table[t]] \in Nat
           /\ done' = done + n
  BY BlockWritten
<1>2. ToSet(blocks') = ToSet(blocks) \cup {b}
  BY <1>1, BlocksGrow
<1>3. UNCHANGED <<count, t, begin, pointers, start>>
  BY DEF WriteMetablock
<1>4. n \in Nat /\ n > 0 /\ done \in Nat /\ len \in Nat /\ len' \in Nat /\ len < len'
  <2>1. done \in Nat /\ len \in Nat
    BY DEF Typed, TypeOK
  <2>2. n \in Nat /\ n > 0
    BY <1>1, <2>1, WrittenType, ChunkIs
  <2>3. End(b) \in Nat /\ b.start < End(b)
    BY DEF BlockType, End, BlockHeader
  <2> QED
    BY <1>1, <2>1, <2>2, <2>3
<1>5. \A i \in 1..3 : /\ Written(i) \in Nat /\ W(i) \in Nat /\ Written(i) <= W(i)
                      /\ Written(i)' = W(i)
  <2> SUFFICES ASSUME NEW i \in 1..3
               PROVE  /\ Written(i) \in Nat /\ W(i) \in Nat /\ Written(i) <= W(i)
                      /\ Written(i)' = W(i)
    OBVIOUS
  <2>1. Written(i) \in Nat /\ i \in 1..4
    BY WrittenType
  <2>2. Written(i)' = W(i)
    BY <1>3 DEF Written
  <2>3. CASE i = t
    BY <1>1, <1>4, <2>1, <2>2, <2>3 DEF Written
  <2>4. CASE i # t
    BY <2>1, <2>2, <2>4
  <2> QED
    BY <2>3, <2>4
<1>6. \A i \in 1..3 : First(i)' = First(i) /\ Edge(i)' = E(i) /\ (i = t => Edge(i) = len)
  <2>1. \A i \in 1..4 : First(i)' = First(i)
    BY <1>3 DEF First
  <2> QED
    BY <1>3, <2>1 DEF Edge
<1>7. ASSUME NEW i \in 1..3, NEW p \in Nat, NEW a, Place(i, p, a)
      PROVE  Now(i, p, a)
  <2>1. CASE p < Written(i)
    <3>1. PICK c \in ToSet(blocks) : c.start = a /\ c.entries = Entries(Table[i], p)
      BY <1>7, <2>1 DEF Place
    <3>2. c \in ToSet(blocks')
      BY <1>2
    <3>3. CASE p < W(i)
      BY <3>1, <3>2, <3>3
    <3>4. CASE ~(p < W(i))
      <4> HIDE DEF W
      <4> QED
        BY <1>5, <2>1, <3>4
    <3> QED
      BY <3>3, <3>4
  <2>2. CASE ~(p < Written(i))
    <3>1. p = Written(i) /\ a = Edge(i)
      BY <1>7, <2>2 DEF Place
    <3>2. CASE i = t
      <4>1. p = done /\ a = len /\ W(i) = done + n
        BY <1>1, <1>6, <3>1, <3>2 DEF Written
      <4>2. p < W(i) /\ b \in ToSet(blocks') /\ b.start = a /\ b.entries = Entries(Table[i], p)
        <5> HIDE DEF n, W
        <5> QED
          BY <1>1, <1>2, <1>4, <3>2, <4>1
      <4> QED
        BY <4>2
    <3>3. CASE i # t
      BY <1>5, <3>1, <3>3
    <3> QED
      BY <3>2, <3>3
  <2> QED
    BY <2>1, <2>2
<1>8. \A i \in 1..3 : i <= t => Now(i, 0, First(i)) /\ First(i) <= E(i)
  <2> SUFFICES ASSUME NEW i \in 1..3, i <= t
               PROVE  Now(i, 0, First(i)) /\ First(i) <= E(i)
    OBVIOUS
  <2>1. Place(i, 0, First(i)) /\ First(i) <= Edge(i)
    BY DEF Laid
  <2>2. Now(i, 0, First(i))
    <3> HIDE DEF Now
    <3> QED
      BY <1>7, <2>1
  <2>3. First(i) <= E(i)
    <3>1. CASE i # t
      BY <2>1, <3>1
    <3>2. CASE i = t
      <4>1. First(i) = begin /\ begin \in Nat /\ begin <= len
        BY <3>2 DEF First, Typed, TypeOK
      <4> QED
        BY <1>4, <3>2, <4>1
    <3> QED
      BY <3>1, <3>2
  <2> QED
    BY <2>2, <2>3
<1>9. ASSUME NEW c \in ToSet(blocks'), NEW i \in 1..3, NEW p \in 0..count[Table[i]] - 1,
             c.entries = Entries(Table[i], p)
      PROVE  /\ p + Chunk(Table[i], p) <= W(i)
             /\ End(c) <= E(i)
             /\ Now(i, p + Chunk(Table[i], p), End(c))
  <2> DEFINE q == p + Chunk(Table[i], p)
  <2>1. i \in 1..4 /\ Table[i] \in Tables /\ count[Table[i]] \in Nat /\ p \in Nat /\ p < count[Table[i]]
    BY WrittenType
  <2>2. q \in Nat
    BY <2>1, ChunkIs
  <2>3. CASE c \in ToSet(blocks)
    <3>1. q <= Written(i) /\ End(c) <= Edge(i) /\ Place(i, q, End(c))
      BY <1>9, <2>3 DEF Laid
    <3>2. Now(i, q, End(c))
      <4> HIDE DEF Now, q
      <4> QED
        BY <1>7, <2>2, <3>1
    <3>3. q <= W(i)
      <4> HIDE DEF q, W
      <4> QED
        BY <1>5, <2>2, <3>1
    <3>4. End(c) <= E(i)
      <4>1. End(c) \in Nat
        BY <2>3, BlockFields
      <4> QED
        BY <1>4, <1>6, <3>1, <4>1
    <3> QED
      BY <3>2, <3>3, <3>4
  <2>4. CASE c = b
    <3>1. i = t /\ p = done
      <4>1. Table[i] = Table[t] /\ p = done
        <5>1. Entries(Table[i], p) = Entries(Table[t], done)
          BY <1>1, <1>9, <2>4
        <5>2. Table[t] \in Tables /\ count[Table[t]] \in Nat /\ done \in Nat
          BY <1>1, <1>4, WrittenType
        <5> QED
          BY <1>1, <2>1, <5>1, <5>2, EntriesTell
      <4> QED
        BY <1>1, <2>1, <4>1, TableNames
    <3>2. q = W(i) /\ End(c) = E(i)
      BY <1>1, <2>4, <3>1
    <3> HIDE DEF W, E, q
    <3>3. q <= W(i) /\ End(c) <= E(i) /\ Now(i, q, End(c))
      <4>1. W(i) \in Nat /\ End(c) \in Nat
        BY <1>1, <1>4, <1>5, <2>4
      <4> QED
        BY <3>2, <4>1
    <3> QED
      BY <3>3 DEF q
  <2> QED
    BY <1>2, <2>3, <2>4
<1>10. \A i \in 1..3 : \A p, a : Place(i, p, a)' <=> Now(i, p, a)
  <2> SUFFICES ASSUME NEW i \in 1..3, NEW p, NEW a
               PROVE  Place(i, p, a)' <=> Now(i, p, a)
    OBVIOUS
  <2>1. Written(i)' = W(i) /\ Edge(i)' = E(i) /\ Entries(Table[i], p)' = Entries(Table[i], p)
    BY <1>3, <1>5, <1>6, SameRows
  <2> HIDE DEF W, E
  <2> QED
    BY <2>1 DEF Place
<1>11. \A i \in 1..3 : i <= t' => Place(i, 0, First(i))' /\ First(i)' <= Edge(i)'
  <2> HIDE DEF W, E, Now
  <2> QED
    BY <1>3, <1>6, <1>8, <1>10
<1>12. ASSUME NEW c \in ToSet(blocks'), NEW i \in 1..3, NEW p \in 0..count'[Table[i]] - 1,
             c.entries = Entries(Table[i], p)'
      PROVE  /\ p + Chunk(Table[i], p)' <= Written(i)'
             /\ End(c) <= Edge(i)'
             /\ Place(i, p + Chunk(Table[i], p), End(c))'
  <2>1. Chunk(Table[i], p)' = Chunk(Table[i], p) /\ Entries(Table[i], p)' = Entries(Table[i], p)
    BY <1>3, SameRows
  <2>2. p \in 0..count[Table[i]] - 1
    BY <1>3
  <2>3. /\ p + Chunk(Table[i], p) <= W(i)
        /\ End(c) <= E(i)
        /\ Now(i, p + Chunk(Table[i], p), End(c))
    BY <1>9, <1>12, <2>1, <2>2
  <2> HIDE DEF W, E, Now
  <2> QED
    BY <1>5, <1>6, <1>10, <2>1, <2>3
<1> QED
  BY <1>11, <1>12 DEF Laid, End

(* What ending a table does. *)
LEMMA TableEnded ==
  ASSUME Typed, EndTable
  PROVE  /\ t \in 1..4 /\ t' = t + 1 /\ done = count[Table[t]] /\ done' = 0
         /\ begin' = len' /\ UNCHANGED <<count, blocks>>
         /\ len \in Nat /\ begin \in Nat /\ begin <= len
         /\ \A x \in Tables : start'[x] = IF x = Table[t] THEN TableStart(x) ELSE start[x]
         /\ IF Indexed(Table[t])
              THEN /\ len' = len + PointerSize /\ pointers'[len] = begin
                   /\ DOMAIN pointers' = DOMAIN pointers \cup {len}
                   /\ \A a \in DOMAIN pointers : a # len => pointers'[a] = pointers[a]
              ELSE len' = len /\ pointers' = pointers
         /\ Indexed(Table[t]) <=> t = 4 \/ (t = 3 /\ count["fragments"] > 0)
<1>1. t \in 1..4 /\ len \in Nat /\ begin \in Nat /\ begin <= len /\ start \in [Tables -> Nat]
      /\ Table[t] \in Tables
  BY TableNames DEF Typed, TypeOK, EndTable
<1>2. start' = [start EXCEPT ![Table[t]] = TableStart(Table[t])]
  BY DEF EndTable
<1>3. IF Indexed(Table[t])
        THEN /\ len' = len + PointerSize /\ pointers'[len] = begin
             /\ DOMAIN pointers' = DOMAIN pointers \cup {len}
             /\ \A a \in DOMAIN pointers : a # len => pointers'[a] = pointers[a]
        ELSE len' = len /\ pointers' = pointers
  BY DEF EndTable
<1>4. Indexed(Table[t]) <=> t = 4 \/ (t = 3 /\ count["fragments"] > 0)
  <2>1. t = 1 \/ t = 2 \/ t = 3 \/ t = 4
    BY <1>1
  <2>2. /\ ~Indexed("inodes") /\ ~Indexed("dirs") /\ Indexed("ids")
        /\ Indexed("fragments") <=> count["fragments"] > 0
    BY DEF Indexed
  <2> QED
    BY <2>1, <2>2, TableNames
<1> QED
  BY <1>1, <1>2, <1>3, <1>4 DEF EndTable

(* Where the tables begin and end is the same after one has been ended.    *)
LEMMA EdgesKept ==
  ASSUME Typed, Laid, Pointed, EndTable
  PROVE  \A i \in 1..3 :
           /\ Written(i)' = Written(i)
           /\ i <= t => First(i)' = First(i) /\ Edge(i)' = Edge(i)
           /\ i > t => Written(i) = 0
           /\ i = t' => First(i)' = len' /\ Edge(i)' = len'
<1> DEFINE x == Table[t]
           fr == count["fragments"]
<1>1. /\ t \in 1..4 /\ t' = t + 1 /\ done = count[x] /\ done' = 0
      /\ begin' = len' /\ UNCHANGED <<count, blocks>>
      /\ len \in Nat /\ begin \in Nat /\ begin <= len
      /\ \A y \in Tables : start'[y] = IF y = x THEN TableStart(y) ELSE start[y]
      /\ Indexed(x) <=> t = 4 \/ (t = 3 /\ fr > 0)
  BY TableEnded
<1>2. IF Indexed(x)
        THEN /\ len' = len + PointerSize /\ pointers'[len] = begin
             /\ DOMAIN pointers' = DOMAIN pointers \cup {len}
             /\ \A a \in DOMAIN pointers : a # len => pointers'[a] = pointers[a]
        ELSE len' = len /\ pointers' = pointers
  BY TableEnded
<1>3. \A i \in 1..4 : i \in Int /\ count[Table[i]] \in Nat /\ Table[i] \in Tables
                      /\ (Table[i] = x => i = t)
  BY <1>1, WrittenType, TableNames
<1>4. \A i \in 1..4 : Written(i)' = Written(i) /\ (i > t => Written(i) = 0)
  <2> SUFFICES ASSUME NEW i \in 1..4
               PROVE  Written(i)' = Written(i) /\ (i > t => Written(i) = 0)
    OBVIOUS
  <2>1. Written(i)' = IF i < t + 1 THEN count[Table[i]] ELSE IF i = t + 1 THEN 0 ELSE 0
    BY <1>1 DEF Written
  <2>2. Written(i) = IF i < t THEN count[Table[i]] ELSE IF i = t THEN count[Table[i]] ELSE 0
    BY <1>1 DEF Written
  <2> HIDE DEF x
  <2> QED
    BY <1>1, <2>1, <2>2
<1>5. \A i \in 1..3 : i = t' => First(i)' = len' /\ Edge(i)' = len'
  BY <1>1 DEF First, Edge
<1>6. ASSUME NEW i \in 1..3, i <= t
      PROVE  First(i)' = First(i)
  <2>1. First(i)' = IF i = 3 /\ fr > 0 THEN pointers'[start'["fragments"]] ELSE start'[Table[i]]
    <3>1. i # t'
      BY <1>1, <1>6
    <3> QED
      BY <1>1, <3>1 DEF First
  <2>2. start'[Table[i]] = IF i = t THEN TableStart(x) ELSE start[Table[i]]
    <3> HIDE DEF x
    <3>1. Table[i] \in Tables /\ (Table[i] = x <=> i = t)
      BY <1>3 DEF x
    <3> QED
      BY <1>1, <3>1
  <2>3. CASE i = t
    <3>1. First(i) = begin
      BY <2>3 DEF First
    <3>2. CASE i = 3 /\ fr > 0
      <4>1. Indexed(x) /\ Table[i] = "fragments"
        BY <1>1, <2>3, <3>2, TableNames
      <4>2. start'["fragments"] = len
        BY <2>2, <2>3, <4>1 DEF TableStart
      <4> QED
        BY <1>2, <2>1, <3>1, <3>2, <4>1, <4>2
    <3>3. CASE ~(i = 3 /\ fr > 0)
      <4>1. ~Indexed(x)
        BY <1>1, <2>3, <3>3
      <4> QED
        BY <2>1, <2>2, <2>3, <3>1, <3>3, <4>1 DEF TableStart
    <3> QED
      BY <3>2, <3>3
  <2>4. CASE i # t
    <3>1. First(i) = IF i = 3 /\ fr > 0 THEN pointers[start["fragments"]] ELSE start[Table[i]]
      BY <2>4 DEF First
    <3>2. CASE i = 3 /\ fr > 0
      <4>1. t = 4 /\ Table[i] = "fragments"
        BY <1>1, <1>6, <2>4, <3>2, TableNames
      <4>2. start["fragments"] \in DOMAIN pointers /\ start["fragments"] + PointerSize <= begin
        BY <3>2, <4>1 DEF Pointed
      <4>3. start["fragments"] # len
        <5>1. start["fragments"] \in Nat
          BY TableNames DEF Typed, TypeOK
        <5> QED
          BY <1>1, <4>2, <5>1 DEF PointerSize
      <4>4. pointers'[start["fragments"]] = pointers[start["fragments"]]
        BY <1>2, <4>2, <4>3
      <4>5. start'["fragments"] = start["fragments"]
        BY <2>2, <2>4, <4>1
      <4> QED
        BY <2>1, <3>1, <3>2, <4>4, <4>5
    <3>3. CASE ~(i = 3 /\ fr > 0)
      BY <2>1, <2>2, <2>4, <3>1, <3>3
    <3> QED
      BY <3>2, <3>3
  <2> QED
    BY <2>3, <2>4
<1>7. ASSUME NEW i \in 1..3, i <= t
      PROVE  Edge(i)' = Edge(i)
  <2>1. Edge(i)' = IF i = 3 THEN start'["fragments"] ELSE First(i + 1)'
    <3>1. i # t'
      BY <1>1, <1>7
    <3> QED
      BY <3>1 DEF Edge
  <2>2. CASE i = t /\ i = 3
    <3>1. x = "fragments" /\ "fragments" \in Tables
      BY <2>2, TableNames
    <3>2. start'["fragments"] = TableStart("fragments")
      BY <1>1, <3>1
    <3>3. Edge(i) = len
      BY <2>2 DEF Edge
    <3>4. CASE fr > 0
      BY <1>1, <2>1, <2>2, <3>1, <3>2, <3>3, <3>4 DEF TableStart
    <3>5. CASE ~(fr > 0)
      <4>1. fr = 0 /\ Written(3) = 0
        <5>1. fr \in Nat /\ done = fr
          BY <1>1, <1>3, <3>1, TableNames
        <5> QED
          BY <2>2, <3>5, <5>1 DEF Written
      <4>2. First(3) = Edge(3)
        BY <2>2, <4>1 DEF Laid, Place
      <4>3. begin = len
        BY <2>2, <3>3, <4>2 DEF First
      <4>4. TableStart("fragments") = begin
        BY <1>1, <2>2, <3>1, <3>5 DEF TableStart
      <4> QED
        BY <2>1, <2>2, <3>2, <3>3, <4>3, <4>4
    <3> QED
      BY <3>4, <3>5
  <2>3. CASE i = t /\ i # 3
    <3>1. i + 1 = t' /\ ~Indexed(x) /\ Edge(i) = len
      BY <1>1, <2>3 DEF Edge
    <3>2. First(i + 1)' = begin'
      BY <3>1 DEF First
    <3> QED
      BY <1>1, <1>2, <2>1, <2>3, <3>1, <3>2
  <2>4. CASE i # t /\ i = 3
    <3>1. t = 4 /\ "fragments" \in Tables /\ "fragments" # x
      BY <1>1, <1>7, <2>4, TableNames
    <3> QED
      BY <1>1, <2>1, <2>4, <3>1 DEF Edge
  <2>5. CASE i # t /\ i # 3
    <3>1. i + 1 \in 1..3 /\ i + 1 <= t
      BY <1>1, <1>7, <2>5
    <3>2. First(i + 1)' = First(i + 1)
      BY <1>6, <3>1
    <3> QED
      BY <2>1, <2>5, <3>2 DEF Edge
  <2> QED
    BY <2>2, <2>3, <2>4, <2>5
<1> QED
  BY <1>4, <1>5, <1>6, <1>7

(* The stretches are the same after a table has been ended, and the next   *)
(* one begins.                                                             *)
LEMMA LaidEnd ==
  ASSUME Typed, Laid, Pointed, EndTable
  PROVE  Laid'
<1>1. /\ t \in 1..4 /\ t' = t + 1 /\ UNCHANGED <<count, blocks>> /\ len' \in Nat
  BY TableEnded DEF PointerSize
<1>2. \A i \in 1..3 :
           /\ Written(i)' = Written(i)
           /\ i <= t => First(i)' = First(i) /\ Edge(i)' = Edge(i)
           /\ i > t => Written(i) = 0
           /\ i = t' => First(i)' = len' /\ Edge(i)' = len'
  BY EdgesKept
<1>3. \A x, p : Chunk(x, p)' = Chunk(x, p) /\ Entries(x, p)' = Entries(x, p)
  BY <1>1, SameRows
<1>4. ASSUME NEW i \in 1..3, NEW p, NEW a, i <= t
      PROVE  Place(i, p, a)' <=> Place(i, p, a)
  <2>1. Written(i)' = Written(i) /\ Edge(i)' = Edge(i) /\ Entries(Table[i], p)' = Entries(Table[i], p)
    BY <1>2, <1>3, <1>4
  <2> QED
    BY <1>1, <1>4, <2>1 DEF Place
<1>5. ASSUME NEW i \in 1..3, i <= t'
      PROVE  Place(i, 0, First(i))' /\ First(i)' <= Edge(i)'
  <2>1. CASE i <= t
    <3> DEFINE a == First(i)
    <3>1. Place(i, 0, a) /\ First(i) <= Edge(i)
      BY <2>1 DEF Laid
    <3>2. First(i)' = First(i) /\ Edge(i)' = Edge(i) /\ Written(i)' = Written(i)
          /\ Entries(Table[i], 0)' = Entries(Table[i], 0)
      BY <1>2, <1>3, <2>1
    <3>3. IF 0 < Written(i)
            THEN \E b \in ToSet(blocks) : b.start = First(i) /\ b.entries = Entries(Table[i], 0)
            ELSE 0 = Written(i) /\ First(i) = Edge(i)
      BY <3>1 DEF Place
    <3>4. Place(i, 0, First(i))'
      BY <1>1, <3>2, <3>3 DEF Place
    <3> QED
      BY <3>1, <3>2, <3>4
  <2>2. CASE ~(i <= t)
    <3>1. i = t' /\ Written(i)' = 0 /\ First(i)' = len' /\ Edge(i)' = len'
      BY <1>1, <1>2, <1>5, <2>2
    <3> QED
      BY <1>1, <3>1 DEF Place
  <2> QED
    BY <2>1, <2>2
<1>6. ASSUME NEW b \in ToSet(blocks'), NEW i \in 1..3, NEW p \in 0..count'[Table[i]] - 1,
             b.entries = Entries(Table[i], p)'
      PROVE  /\ p + Chunk(Table[i], p)' <= Written(i)'
             /\ End(b) <= Edge(i)'
             /\ Place(i, p + Chunk(Table[i], p), End(b))'
  <2> DEFINE q == p + Chunk(Table[i], p)
  <2>1. Chunk(Table[i], p)' = Chunk(Table[i], p) /\ Entries(Table[i], p)' = Entries(Table[i], p)
    BY <1>3
  <2>2. b \in ToSet(blocks) /\ p \in 0..count[Table[i]] - 1 /\ b.entries = Entries(Table[i], p)
    BY <1>1, <1>6, <2>1
  <2>3. q <= Written(i) /\ End(b) <= Edge(i) /\ Place(i, q, End(b))
    BY <2>2 DEF Laid
  <2>4. q \in Nat /\ q > 0
    <3>1. i \in 1..4 /\ Table[i] \in Tables /\ count[Table[i]] \in Nat
      BY WrittenType
    <3>2. p \in Nat /\ p < count[Table[i]]
      BY <2>2, <3>1
    <3>3. Chunk(Table[i], p) \in Nat /\ Chunk(Table[i], p) > 0
      BY <3>1, <3>2, ChunkIs
    <3> QED
      BY <3>2, <3>3
  <2>5. i <= t
    <3> HIDE DEF q
    <3> QED
      BY <1>1, <1>2, <2>3, <2>4
  <2> QED
    BY <1>2, <1>4, <2>1, <2>3, <2>5
<1> QED
  BY <1>5, <1>6 DEF Laid, End

(* The superblock still points to the fragments' pointer. *)
LEMMA PointedEnd ==
  ASSUME Typed, Laid, Pointed, EndTable
  PROVE  Pointed'
<1>1. /\ t \in 1..4 /\ t' = t + 1 /\ begin' = len' /\ UNCHANGED <<count, blocks>>
      /\ len \in Nat /\ begin \in Nat /\ begin <= len
      /\ \A y \in Tables : start'[y] = IF y = Table[t] THEN TableStart(y) ELSE start[y]
      /\ Indexed(Table[t]) <=> t = 4 \/ (t = 3 /\ count["fragments"] > 0)
  BY TableEnded
<1>2. IF Indexed(Table[t])
        THEN len' = len + PointerSize /\ DOMAIN pointers' = DOMAIN pointers \cup {len}
        ELSE len' = len /\ pointers' = pointers
  BY TableEnded
<1>3. "fragments" \in Tables /\ Table[3] = "fragments" /\ Table[4] = "ids" /\ "fragments" # "ids"
      /\ start["fragments"] \in Nat
  BY TableNames DEF Typed, TypeOK
<1>4. CASE t = 3
  <2>1. start'["fragments"] = TableStart("fragments")
    BY <1>1, <1>3, <1>4
  <2> QED
    BY <1>1, <1>2, <1>3, <1>4, <2>1 DEF Pointed, TableStart, PointerSize
<1>5. CASE t = 4
  <2>1. start'["fragments"] = start["fragments"]
    BY <1>1, <1>3, <1>5
  <2> QED
    BY <1>1, <1>2, <1>3, <1>5, <2>1 DEF Pointed, PointerSize
<1>6. CASE t \in 1..2
  BY <1>1, <1>6 DEF Pointed
<1> QED
  BY <1>1, <1>4, <1>5, <1>6

(* While the image stays as it is, so does all that is said of it.         *)
LEMMA PlaceSame ==
  ASSUME UNCHANGED image
  PROVE  /\ \A i, p, a : Place(i, p, a)' <=> Place(i, p, a)
         /\ \A x : Rows(x)' = Rows(x)
<1>1. UNCHANGED <<count, t, done, begin, len, blocks, pointers, start>>
  BY DEF image
<1>2. \A x : Rows(x)' = Rows(x)
  BY <1>1 DEF Rows
<1>3. \A i : Written(i)' = Written(i) /\ First(i)' = First(i)
  BY <1>1 DEF Written, First
<1>4. \A i : Edge(i)' = Edge(i)
  BY <1>1, <1>3 DEF Edge
<1>5. \A x, p : Entries(x, p)' = Entries(x, p)
  BY <1>1, SameRows
<1>6. ASSUME NEW i, NEW p, NEW a
      PROVE  Place(i, p, a)' <=> Place(i, p, a)
  BY <1>1, <1>3, <1>4, <1>5 DEF Place
<1> QED
  BY <1>2, <1>6

LEMMA ImageSame ==
  ASSUME UNCHANGED image, Apart, Laid, Pointed
  PROVE  Apart' /\ Laid' /\ Pointed'
<1>1. UNCHANGED <<count, t, done, begin, len, blocks, pointers, start>>
  BY DEF image
<1>2. Apart' /\ Pointed'
  BY <1>1 DEF Apart, Pointed, End
<1>3. Laid'
  <2>1. \A i : Written(i)' = Written(i) /\ First(i)' = First(i)
    BY <1>1 DEF Written, First
  <2>2. \A i : Edge(i)' = Edge(i)
    BY <1>1, <2>1 DEF Edge
  <2>3. \A x, p : Entries(x, p)' = Entries(x, p) /\ Chunk(x, p)' = Chunk(x, p)
    BY <1>1, SameRows
  <2>4. \A i, p, a : Place(i, p, a)' <=> Place(i, p, a)
    BY PlaceSame
  <2> QED
    BY <1>1, <2>1, <2>2, <2>3, <2>4 DEF Laid, End
<1> QED
  BY <1>2, <1>3

(* Each step keeps the layout. *)
LEMMA ImageStep ==
  ASSUME Typed, Apart, Laid, Pointed, Phases, [Next]_vars
  PROVE  Apart' /\ Laid' /\ Pointed'
<1>1. CASE WriteMetablock
  <2>1. Pointed'
    <3>1. UNCHANGED <<t, begin, count, pointers, start>>
      BY <1>1 DEF WriteMetablock
    <3> QED
      BY <3>1 DEF Pointed
  <2> QED
    BY <1>1, <2>1, ApartStep, LaidBlock
<1>2. CASE EndTable
  <2>1. Apart'
    <3>1. blocks' = blocks
      BY <1>2 DEF EndTable
    <3> QED
      BY <3>1 DEF Apart, End
  <2> QED
    BY <1>2, <2>1, LaidEnd, PointedEnd
<1>3. CASE EndTables \/ WriteFile \/ UNCHANGED vars
  <2>1. UNCHANGED image
    BY <1>3 DEF EndTables, WriteFile, vars, image
  <2> QED
    BY <2>1, ImageSame
<1>4. CASE ReadHeader \/ ReadMetablock \/ BeyondData \/ EndRange
           \/ PointersBeyondData \/ FollowPointer \/ FollowGarbage \/ EndFragments
  BY <1>4, TypedRead, ImageSame
<1>5. \/ WriteMetablock \/ EndTable \/ EndTables \/ WriteFile \/ UNCHANGED vars
      \/ ReadHeader \/ ReadMetablock \/ BeyondData \/ EndRange
      \/ PointersBeyondData \/ FollowPointer \/ FollowGarbage \/ EndFragments
  BY DEF Next
<1> QED
  BY <1>1, <1>2, <1>3, <1>4, <1>5

-----------------------------------------------------------------------------
(* The reader on the finished image.                                       *)

(* Where the tables are in it. *)
LEMMA Finished ==
  ASSUME Typed, Laid, Pointed, Phases, t = 5
  PROVE  /\ \A i \in 1..3 : Written(i) = count[Table[i]] /\ Place(i, 0, First(i)) /\ First(i) <= Edge(i)
         /\ start["inodes"] = First(1) /\ start["inodes"] = SuperblockSize
         /\ start["dirs"] = Edge(1) /\ start["dirs"] = First(2)
         /\ Edge(2) = First(3) /\ start["fragments"] = Edge(3)
         /\ start["fragments"] <= len
         /\ count["fragments"] > 0 => /\ start["fragments"] \in DOMAIN pointers
                                      /\ pointers[start["fragments"]] = First(3)
                                      /\ start["fragments"] + PointerSize <= len
         /\ \A i \in 1..3 : count[Table[i]] \in Nat /\ Table[i] \in Tables
<1>1. \A i \in 1..3 : count[Table[i]] \in Nat /\ Table[i] \in Tables
  BY WrittenType
<1>2. \A i \in 1..3 : Written(i) = count[Table[i]] /\ Place(i, 0, First(i)) /\ First(i) <= Edge(i)
  BY DEF Written, Laid
<1>3. /\ First(1) = start["inodes"] /\ First(2) = start["dirs"] /\ Edge(1) = First(2)
      /\ Edge(2) = First(3) /\ Edge(3) = start["fragments"]
      /\ count["fragments"] > 0 => First(3) = pointers[start["fragments"]]
  BY TableNames DEF First, Edge
<1>4. start["inodes"] = SuperblockSize
  BY DEF Phases
<1>5. /\ start["fragments"] <= begin
      /\ count["fragments"] > 0 => /\ start["fragments"] \in DOMAIN pointers
                                   /\ start["fragments"] + PointerSize <= begin
  BY DEF Pointed
<1>6. start["fragments"] \in Nat /\ begin \in Nat /\ len \in Nat /\ begin <= len
  BY TableNames DEF Typed, TypeOK
<1>7. /\ start["fragments"] <= len
      /\ count["fragments"] > 0 => start["fragments"] + PointerSize <= len
  BY <1>5, <1>6 DEF PointerSize
<1> QED
  BY <1>1, <1>2, <1>3, <1>4, <1>5, <1>7

(* A reader that is before the end of a table finds the block with the     *)
(* rows that come next, and is behind them afterwards.                     *)
LEMMA GoesOn ==
  ASSUME Typed, Apart, Laid, Pointed, Phases, t = 5,
         NEW i \in 1..3, NEW p \in 0..count[Table[i]], NEW a, Place(i, p, a), p < count[Table[i]]
  PROVE  \E b \in ToSet(blocks) :
           /\ b.start = a /\ b.entries = Entries(Table[i], p)
           /\ \A c \in BlocksAt(a) : c = b
           /\ a < Edge(i) /\ End(b) <= Edge(i)
           /\ p + Chunk(Table[i], p) \in 0..count[Table[i]] /\ p + Chunk(Table[i], p) > 0
           /\ Place(i, p + Chunk(Table[i], p), End(b))
<1>1. Written(i) = count[Table[i]] /\ count[Table[i]] \in Nat /\ Table[i] \in Tables
  BY Finished
<1>2. PICK b \in ToSet(blocks) : b.start = a /\ b.entries = Entries(Table[i], p)
  BY <1>1 DEF Place
<1>3. p \in 0..count[Table[i]] - 1 /\ p \in Nat
  BY <1>1
<1>4. /\ p + Chunk(Table[i], p) <= Written(i) /\ End(b) <= Edge(i)
      /\ Place(i, p + Chunk(Table[i], p), End(b))
  BY <1>2, <1>3 DEF Laid
<1>5. Chunk(Table[i], p) \in Nat /\ Chunk(Table[i], p) > 0
  BY <1>1, <1>3, ChunkIs
<1>6. p + Chunk(Table[i], p) \in 0..count[Table[i]] /\ p + Chunk(Table[i], p) > 0
  BY <1>1, <1>3, <1>4, <1>5
<1>7. \A c \in BlocksAt(a) : c = b
  BY <1>2, SameStart DEF BlocksAt
<1>8. a < Edge(i)
  <2>1. b.start \in Nat /\ End(b) \in Nat /\ End(b) > b.start
    BY BlockFields
  <2>2. Edge(i) \in Int
    <3>1. \A y \in Tables : start[y] \in Nat
      BY DEF Typed, TypeOK
    <3>2. start["dirs"] \in Nat /\ start["fragments"] \in Nat
      BY <3>1, TableNames
    <3>3. Edge(2) \in Nat
      <4>1. Edge(2) = IF count["fragments"] > 0 THEN pointers[start["fragments"]] ELSE start[Table[3]]
        BY DEF Edge, First
      <4> QED
        BY <3>2, <4>1, Finished, TableNames DEF Typed
    <3> QED
      BY <3>2, <3>3, Finished
  <2> QED
    BY <1>2, <1>4, <2>1, <2>2
<1> QED
  BY <1>2, <1>4, <1>6, <1>7, <1>8

(* One that is at the end has all the rows. *)
LEMMA AtEdge ==
  ASSUME Typed, Apart, Laid, Pointed, Phases, t = 5,
         NEW i \in 1..3, NEW p \in 0..count[Table[i]], NEW a, Place(i, p, a), ~(p < count[Table[i]])
  PROVE  p = count[Table[i]] /\ a = Edge(i)
BY Finished DEF Place

(* Each step keeps what the phases have done. *)
LEMMA PhasesStep ==
  ASSUME Typed, Phases, [Next]_vars
  PROVE  Phases'
<1>1. CASE WriteMetablock
  <2>1. /\ t \in 1..4 /\ done < count[Table[t]] /\ count[Table[t]] \in Nat
        /\ done' = done + Chunk(Table[t], done) /\ len' > len
    <3>1. PICK b \in BlockType :
            /\ b.start = len /\ len' = End(b)
            /\ t \in 1..4 /\ done < count[Table[t]] /\ count[Table[t]] \in Nat
            /\ done' = done + Chunk(Table[t], done)
      BY <1>1, BlockWritten
    <3>2. len' > len
      BY <3>1 DEF BlockType, End, BlockHeader
    <3> QED
      BY <3>1, <3>2
  <2>2. done' <= count[Table[t]]
    <3>1. done \in Nat /\ Table[t] \in Tables
      BY <2>1, WrittenType DEF Typed, TypeOK
    <3> QED
      BY <2>1, <3>1, ChunkIs
  <2>3. len' >= SuperblockSize
    <3>1. len \in Nat /\ len' \in Int
      <4>1. len' \in Nat
        BY <1>1, TypedBlock DEF Typed, TypeOK
      <4> QED
        BY <4>1 DEF Typed, TypeOK
    <3> QED
      BY <2>1, <3>1 DEF Phases, SuperblockSize
  <2>4. UNCHANGED <<count, pc, t, begin, pointers, start, file, off, data>>
    BY <1>1 DEF WriteMetablock
  <2> QED
    BY <2>2, <2>3, <2>4 DEF Phases
<1>2. CASE EndTable
  <2>1. /\ t \in 1..4 /\ t' = t + 1 /\ done' = 0 /\ begin' = len' /\ UNCHANGED <<count, blocks>>
        /\ len \in Nat /\ begin \in Nat
        /\ \A x \in Tables : start'[x] = IF x = Table[t] THEN TableStart(x) ELSE start[x]
        /\ len' >= len
    BY <1>2, TableEnded DEF PointerSize
  <2>2. UNCHANGED <<pc, file, data>> /\ pc = "tables"
    BY <1>2 DEF EndTable
  <2>3. len' \in Nat
    BY <1>2, TypedEnd DEF Typed, TypeOK
  <2>4. len' >= SuperblockSize
    BY <2>1, <2>3 DEF Phases, SuperblockSize
  <2>5. t' > 1 /\ t' # 1 /\ start'["inodes"] = SuperblockSize
    <3>1. CASE t = 1
      <4>1. ~Indexed("inodes") /\ Table[t] = "inodes"
        BY <3>1, TableNames DEF Indexed
      <4>2. start'["inodes"] = begin
        BY <2>1, <4>1, TableNames DEF TableStart
      <4> QED
        BY <2>1, <3>1, <4>2 DEF Phases
    <3>2. CASE t # 1
      <4>1. "inodes" \in Tables /\ "inodes" # Table[t]
        BY <2>1, <3>2, TableNames
      <4> QED
        BY <2>1, <3>2, <4>1 DEF Phases
    <3> QED
      BY <2>1, <3>1, <3>2
  <2>6. t' <= 4 => done' <= count[Table[t']]
    <3>1. t' <= 4 => t' \in 1..4
      BY <2>1
    <3>2. \A i \in 1..4 : count[Table[i]] >= 0
      BY WrittenType
    <3> QED
      BY <2>1, <3>1, <3>2
  <2> QED
    BY <2>1, <2>2, <2>4, <2>5, <2>6 DEF Phases
<1>3. CASE EndTables
  BY <1>3, TableNames DEF EndTables, Phases, image
<1>4. CASE WriteFile
  BY <1>4 DEF WriteFile, Phases, image
<1>5. CASE UNCHANGED vars
  BY <1>5 DEF Phases, vars
<1>6. CASE ReadHeader \/ ReadMetablock \/ BeyondData \/ EndRange
           \/ PointersBeyondData \/ FollowPointer \/ FollowGarbage \/ EndFragments
  <2>1. UNCHANGED <<count, t, done, begin, len, start, file>> /\ pc \notin {"tables", "file"}
        /\ data \in [Kept -> Seq(Item)]
    BY <1>6, TypedRead DEF image, Typed, Kept, ReadHeader, ReadMetablock, BeyondData, EndRange,
       PointersBeyondData, FollowPointer, FollowGarbage, EndFragments
  <2>2. pc' \notin {"tables", "file", "header"}
    BY <1>6 DEF ReadHeader, ReadMetablock, BeyondData, EndRange, PointersBeyondData,
       FollowPointer, FollowGarbage, EndFragments, NoFragments
  <2>3. pc' = "inodes" => pc \in {"header", "inodes"} /\ data'["dirs"] = data["dirs"]
                          /\ data'["fragments"] = data["fragments"]
    BY <1>6, <2>1 DEF ReadHeader, ReadMetablock, BeyondData, EndRange, PointersBeyondData,
       FollowPointer, FollowGarbage, EndFragments, NoFragments, Kept
  <2>4. pc' = "dirs" => pc \in {"inodes", "dirs"} /\ data'["fragments"] = data["fragments"]
    BY <1>6, <2>1 DEF ReadHeader, ReadMetablock, BeyondData, EndRange, PointersBeyondData,
       FollowPointer, FollowGarbage, EndFragments, NoFragments, Kept
  <2> QED
    BY <2>1, <2>2, <2>3, <2>4 DEF Phases
<1> QED
  BY <1>1, <1>2, <1>3, <1>4, <1>5, <1>6 DEF Next

(* How many pointers the reader wants: at least one, and one for up to a   *)
(* metadata block's worth of fragments.                                    *)
LEMMA PointersWanted ==
  ASSUME Typed, count["fragments"] > 0
  PROVE  /\ Pointers \in Nat /\ Pointers >= 1
         /\ count["fragments"] <= MetaBlockSize => Pointers = 1
<1> DEFINE c == count["fragments"]
           m == MetaBlockSize
           n == c + m - 1
           q == n \div m
<1>1. c \in Nat /\ c >= 1 /\ m \in Nat /\ m >= 1
  BY TableNames, TablesAssumption DEF Typed, TypeOK
<1>2. n \in Nat /\ n >= m
  BY <1>1
<1> HIDE DEF c, m, n
<1>3. q \in Nat /\ n % m \in 0..m - 1 /\ n = (m * q) + (n % m)
  BY <1>1, <1>2
<1> HIDE DEF q
<1>4. q # 0
  BY <1>1, <1>2, <1>3
<1>5. ASSUME c <= m PROVE q = 1
  <2>1. n < m * 2
    BY <1>1, <1>5 DEF n
  <2>2. m * q < m * 2
    <3> DEFINE r == n % m
               a == m * q
    <3>1. r \in Nat /\ n = a + r /\ a \in Int
      BY <1>1, <1>3
    <3> HIDE DEF r, a
    <3>2. a < m * 2
      BY <1>1, <1>2, <2>1, <3>1
    <3> QED
      BY <3>2 DEF a
  <2>3. q < 2
    BY <1>1, <1>3, <2>2
  <2> QED
    BY <1>3, <1>4, <2>3
<1> QED
  BY <1>3, <1>4, <1>5 DEF c, m, n, q, Pointers

(* What holds of the reader's tables. *)
Reader ==
  /\ ReadInodes
  /\ ReadDirs
  /\ ReadFragments
  /\ OpenedIsRight
  /\ CompleteOpens
  /\ CutIsRefused

(* Before the tables are read there is nothing to say of them.             *)
LEMMA ReaderBefore ==
  ASSUME pc \in {"tables", "file", "header"}
  PROVE  Reader
BY DEF Reader, ReadInodes, ReadDirs, ReadFragments, OpenedIsRight, CompleteOpens, CutIsRefused

(* A reader that gives up is on an image that is not complete.             *)
LEMMA ReaderFailed ==
  ASSUME pc \in {"failed", "panicked"}, ~(file = len /\ count["fragments"] <= MetaBlockSize)
  PROVE  Reader
BY DEF Reader, ReadInodes, ReadDirs, ReadFragments, OpenedIsRight, CompleteOpens, CutIsRefused

(* The step from the superblock to the inode table. *)
LEMMA ReaderHeader ==
  ASSUME Typed, Laid, Pointed, Phases, ReadHeader
  PROVE  Reader'
<1>1. UNCHANGED <<image, file, data>> /\ pc = "header" /\ t = 5
  BY DEF ReadHeader, Phases
<1>2. CASE file < SuperblockSize /\ pc' = "failed"
  <2>1. file \in Nat /\ len \in Nat /\ len >= SuperblockSize /\ len' = len /\ file' = file
    BY <1>1 DEF Typed, TypeOK, Phases, image
  <2>2. file' # len'
    BY <1>2, <2>1 DEF SuperblockSize
  <2> QED
    BY <1>2, <2>2 DEF Reader, ReadInodes, ReadDirs, ReadFragments, OpenedIsRight, CompleteOpens,
       CutIsRefused
<1>3. CASE pc' = "inodes" /\ off' = start["inodes"]
  <2>1. data["inodes"] = SubSeq(Rows("inodes"), 1, 0)
    <3>1. data["inodes"] = <<>>
      BY <1>1 DEF Phases
    <3> QED
      BY <3>1 DEF Rows
  <2>2. Place(1, 0, off')
    BY <1>1, <1>3, Finished
  <2>3. \A p, a : Place(1, p, a)' <=> Place(1, p, a)
    BY <1>1, PlaceSame
  <2>4. Rows("inodes")' = Rows("inodes") /\ count' = count /\ data' = data
    BY <1>1, PlaceSame DEF image
  <2>5. 0 \in 0..count["inodes"] /\ ~(0 > 0)
    BY <1>1, Finished, TableNames DEF Phases
  <2>6. ReadInodes'
    BY <1>3, <2>1, <2>2, <2>3, <2>4, <2>5 DEF ReadInodes
  <2> QED
    BY <1>3, <2>6 DEF Reader, ReadDirs, ReadFragments, OpenedIsRight, CompleteOpens, CutIsRefused
<1> QED
  BY <1>2, <1>3 DEF ReadHeader

(* The block the reader takes, if its place among the rows of a table is   *)
(* before their end, is the next one of that table.                        *)
LEMMA ReadsNext ==
  ASSUME Typed, Apart, Laid, Pointed, Phases, pc \in {"inodes", "dirs"}, ReadMetablock,
         NEW i \in 1..3, NEW p \in 0..count[Table[i]], Place(i, p, off), off < Edge(i)
  PROVE  /\ p < count[Table[i]]
         /\ p + Chunk(Table[i], p) \in 0..count[Table[i]] /\ p + Chunk(Table[i], p) > 0
         /\ Place(i, p + Chunk(Table[i], p), off')
         /\ data' = [data EXCEPT ![pc] = @ \o Entries(Table[i], p)]
         /\ off' <= file
<1>1. t = 5 /\ Edge(i) = Edge(i)
  BY DEF Phases
<1>2. p < count[Table[i]]
  <2> SUFFICES ASSUME ~(p < count[Table[i]]) PROVE FALSE
    OBVIOUS
  <2>1. off = Edge(i)
    BY <1>1, AtEdge
  <2>2. off \in Nat
    BY DEF Typed, TypeOK
  <2> QED
    BY <2>1, <2>2
<1>3. PICK b \in ToSet(blocks) :
           /\ b.start = off /\ b.entries = Entries(Table[i], p)
           /\ \A c \in BlocksAt(off) : c = b
           /\ p + Chunk(Table[i], p) \in 0..count[Table[i]] /\ p + Chunk(Table[i], p) > 0
           /\ Place(i, p + Chunk(Table[i], p), End(b))
  BY <1>1, <1>2, GoesOn
<1>4. PICK c \in BlocksAt(off) : /\ data' = [data EXCEPT ![pc] = @ \o c.entries]
                                 /\ off' = off + c.size + BlockHeader
  BY DEF ReadMetablock
<1>5. c = b
  BY <1>3, <1>4
<1>6. b.size \in Nat /\ off \in Nat /\ off + BlockHeader + b.size <= file
  BY <1>4, <1>5, BlockFields DEF BlocksAt, Typed, TypeOK
<1>7. off' = End(b) /\ off' <= file
  BY <1>3, <1>4, <1>5, <1>6 DEF End, BlockHeader
<1> QED
  BY <1>2, <1>3, <1>4, <1>5, <1>7

(* A metadata block of the inode table. *)
LEMMA ReaderInodeBlock ==
  ASSUME Typed, Apart, Laid, Pointed, Phases, Reader, ReadMetablock, pc = "inodes"
  PROVE  Reader'
<1>1. UNCHANGED <<image, pc, file>> /\ t = 5
  BY DEF ReadMetablock, Phases
<1>2. PICK p \in 0..count["inodes"] :
        data["inodes"] = SubSeq(Rows("inodes"), 1, p) /\ Place(1, p, off)
  BY DEF Reader, ReadInodes
<1> DEFINE q == p + Chunk("inodes", p)
<1>3. off < Edge(1)
  BY <1>1, Finished DEF ReadMetablock, RangeEnd
<1>4. /\ p < count["inodes"] /\ q \in 0..count["inodes"] /\ q > 0 /\ Place(1, q, off')
      /\ data' = [data EXCEPT !["inodes"] = @ \o Entries("inodes", p)]
      /\ off' <= file
  <2>1. 1 \in 1..3 /\ Table[1] = "inodes"
    BY TableNames
  <2> QED
    BY <1>2, <1>3, <2>1, ReadsNext
<1>5. SubSeq(Rows("inodes"), 1, p) \o Entries("inodes", p) = SubSeq(Rows("inodes"), 1, q)
  <2>1. "inodes" \in Tables /\ count["inodes"] \in Nat /\ p \in Nat
    BY <1>1, Finished, TableNames
  <2> QED
    BY <1>4, <2>1, ChunkIs
<1>6. data'["inodes"] = SubSeq(Rows("inodes"), 1, q)
  BY <1>2, <1>4, <1>5 DEF Typed
<1>7. \A r, a : Place(1, r, a)' <=> Place(1, r, a)
  BY <1>1, PlaceSame
<1>8. Rows("inodes")' = Rows("inodes") /\ count' = count /\ len' = len
  BY <1>1, PlaceSame DEF image
<1> HIDE DEF q
<1>9. ReadInodes'
  BY <1>1, <1>4, <1>6, <1>7, <1>8 DEF ReadInodes
<1> QED
  BY <1>1, <1>9 DEF Reader, ReadDirs, ReadFragments, OpenedIsRight, CompleteOpens, CutIsRefused

(* Where the reader of the directory table may be: among the listings, or  *)
(* behind all of them, among the fragments.                                *)
LEMMA DirsPlace ==
  ASSUME Typed, Apart, Laid, Pointed, Phases, ReadDirs, pc = "dirs"
  PROVE  \/ \E p \in 0..count["dirs"] :
              /\ p < count["dirs"] /\ off < Edge(2)
              /\ data["dirs"] = SubSeq(Rows("dirs"), 1, p) /\ Place(2, p, off)
         \/ \E p \in 0..count["fragments"] :
              data["dirs"] = Rows("dirs") \o SubSeq(Rows("fragments"), 1, p) /\ Place(3, p, off)
<1>1. t = 5 /\ Table[2] = "dirs" /\ 2 \in 1..3 /\ Table[3] = "fragments" /\ 3 \in 1..3
  BY TableNames DEF Phases
<1>2. /\ Edge(2) = First(3) /\ Place(3, 0, First(3))
      /\ count["dirs"] \in Nat /\ count["fragments"] \in Nat
      /\ "dirs" \in Tables /\ "fragments" \in Tables
  BY <1>1, Finished, TableNames
<1>3. SUFFICES ASSUME NEW p \in 0..count["dirs"],
                      data["dirs"] = SubSeq(Rows("dirs"), 1, p), Place(2, p, off)
               PROVE  \/ p < count["dirs"] /\ off < Edge(2)
                      \/ \E q \in 0..count["fragments"] :
                           /\ data["dirs"] = Rows("dirs") \o SubSeq(Rows("fragments"), 1, q)
                           /\ Place(3, q, off)
  BY DEF ReadDirs
<1>4. CASE p < count["dirs"]
  BY <1>1, <1>3, <1>4, GoesOn
<1>5. CASE ~(p < count["dirs"])
  <2>1. p = count["dirs"] /\ off = Edge(2)
    BY <1>1, <1>3, <1>5, AtEdge
  <2>2. data["dirs"] = Rows("dirs") \o SubSeq(Rows("fragments"), 1, 0)
    <3>1. Rows("dirs") \in Seq(Item) /\ Len(Rows("dirs")) = p
      BY <1>2, <2>1, RowsAre
    <3>2. SubSeq(Rows("dirs"), 1, p) = Rows("dirs")
      BY <3>1
    <3>3. SubSeq(Rows("fragments"), 1, 0) = <<>>
      BY <1>2, RowsAre
    <3> QED
      BY <1>3, <3>1, <3>2, <3>3
  <2>3. Place(3, 0, off) /\ 0 \in 0..count["fragments"]
    BY <1>2, <2>1
  <2> QED
    BY <2>2, <2>3
<1> QED
  BY <1>4, <1>5

(* A metadata block of the directory table, or of the fragments behind it. *)
LEMMA ReaderDirBlock ==
  ASSUME Typed, Apart, Laid, Pointed, Phases, Reader, ReadMetablock, pc = "dirs"
  PROVE  Reader'
<1>1. UNCHANGED <<image, pc, file>> /\ t = 5
  BY DEF ReadMetablock, Phases
<1>2. /\ Table[2] = "dirs" /\ 2 \in 1..3 /\ Table[3] = "fragments" /\ 3 \in 1..3
      /\ "dirs" \in Tables /\ "fragments" \in Tables
      /\ count["dirs"] \in Nat /\ count["fragments"] \in Nat
  BY <1>1, Finished, TableNames
<1>3. \A i, r, a : Place(i, r, a)' <=> Place(i, r, a)
  BY <1>1, PlaceSame
<1>4. /\ Rows("dirs")' = Rows("dirs") /\ Rows("fragments")' = Rows("fragments")
      /\ Rows("inodes")' = Rows("inodes") /\ count' = count /\ len' = len
  BY <1>1, PlaceSame DEF image
<1>5. data["inodes"] = Rows("inodes") /\ data \in [Kept -> Seq(Item)]
  BY DEF Reader, ReadInodes, Typed, Kept
<1> DEFINE Follows == /\ off' <= file /\ data'["inodes"] = data["inodes"]
                    /\ \/ \E p \in 0..count["dirs"] :
                            /\ data'["dirs"] = SubSeq(Rows("dirs"), 1, p)
                            /\ Place(2, p, off')
                       \/ \E p \in 0..count["fragments"] :
                            /\ data'["dirs"] = Rows("dirs") \o SubSeq(Rows("fragments"), 1, p)
                            /\ Place(3, p, off')
<1>6. Follows
  <2>1. ASSUME NEW p \in 0..count["dirs"], off < Edge(2),
               data["dirs"] = SubSeq(Rows("dirs"), 1, p), Place(2, p, off)
        PROVE  Follows
    <3> DEFINE q == p + Chunk("dirs", p)
    <3>1. /\ p < count["dirs"] /\ q \in 0..count["dirs"] /\ Place(2, q, off') /\ off' <= file
          /\ data' = [data EXCEPT !["dirs"] = @ \o Entries("dirs", p)]
      BY <1>2, <2>1, ReadsNext
    <3>2. SubSeq(Rows("dirs"), 1, p) \o Entries("dirs", p) = SubSeq(Rows("dirs"), 1, q)
      <4>1. p \in Nat
        BY <1>2
      <4> QED
        BY <1>2, <3>1, <4>1, ChunkIs
    <3>3. data'["dirs"] = SubSeq(Rows("dirs"), 1, q) /\ data'["inodes"] = data["inodes"]
      BY <1>5, <2>1, <3>1, <3>2 DEF Kept
    <3> HIDE DEF q
    <3> QED
      BY <3>1, <3>3
  <2>2. ASSUME NEW p \in 0..count["fragments"], Place(3, p, off),
               data["dirs"] = Rows("dirs") \o SubSeq(Rows("fragments"), 1, p)
        PROVE  Follows
    <3> DEFINE q == p + Chunk("fragments", p)
    <3>1. off < Edge(3)
      BY <1>1, Finished DEF ReadMetablock, RangeEnd
    <3>2. /\ p < count["fragments"] /\ q \in 0..count["fragments"] /\ Place(3, q, off')
          /\ off' <= file
          /\ data' = [data EXCEPT !["dirs"] = @ \o Entries("fragments", p)]
      BY <1>2, <2>2, <3>1, ReadsNext
    <3>3. /\ SubSeq(Rows("fragments"), 1, p) \o Entries("fragments", p)
               = SubSeq(Rows("fragments"), 1, q)
          /\ Entries("fragments", p) \in Seq(Item)
      <4>1. p \in Nat
        BY <1>2
      <4> QED
        BY <1>2, <3>2, <4>1, ChunkIs
    <3>4. Rows("dirs") \in Seq(Item) /\ SubSeq(Rows("fragments"), 1, p) \in Seq(Item)
      <4>1. Rows("fragments") \in Seq(Item) /\ Len(Rows("fragments")) = count["fragments"]
        BY <1>2, RowsAre
      <4>2. Rows("dirs") \in Seq(Item)
        BY <1>2, RowsAre
      <4> QED
        BY <4>1, <4>2
    <3>5. /\ data'["dirs"] = (Rows("dirs") \o SubSeq(Rows("fragments"), 1, p)) \o Entries("fragments", p)
          /\ data'["inodes"] = data["inodes"]
      BY <1>5, <2>2, <3>2 DEF Kept
    <3>6. data'["dirs"] = Rows("dirs") \o SubSeq(Rows("fragments"), 1, q)
      <4>1. \A r, s, u \in Seq(Item) : (r \o s) \o u = r \o (s \o u)
        BY ConcatAssociative
      <4> DEFINE r == Rows("dirs")
                 s == SubSeq(Rows("fragments"), 1, p)
                 e == Entries("fragments", p)
      <4>2. (r \o s) \o e = r \o (s \o e)
        <5>1. r \in Seq(Item) /\ s \in Seq(Item) /\ e \in Seq(Item)
          BY <3>3, <3>4
        <5> HIDE DEF r, s, e
        <5> QED
          BY <4>1, <5>1
      <4> QED
        BY <3>3, <3>5, <4>2
    <3> HIDE DEF q
    <3> QED
      BY <3>2, <3>5, <3>6
  <2> QED
    BY <2>1, <2>2, DirsPlace DEF Reader
<1>7. ReadDirs'
  BY <1>1, <1>3, <1>4, <1>6 DEF ReadDirs
<1>8. ReadInodes'
  BY <1>1, <1>4, <1>5, <1>6 DEF ReadInodes
<1> QED
  BY <1>1, <1>7, <1>8 DEF Reader, ReadFragments, OpenedIsRight, CompleteOpens, CutIsRefused

(* On a complete image a reader that is within a table finds a block.      *)
LEMMA BlockThere ==
  ASSUME Typed, Apart, Laid, Pointed, Phases, t = 5, file = len,
         NEW i \in 1..3, NEW p \in 0..count[Table[i]], Place(i, p, off), off < Edge(i)
  PROVE  BlocksAt(off) # {}
<1>1. p < count[Table[i]]
  <2> SUFFICES ASSUME ~(p < count[Table[i]]) PROVE FALSE
    OBVIOUS
  <2>1. off = Edge(i) /\ off \in Nat
    BY AtEdge DEF Typed, TypeOK
  <2> QED
    BY <2>1
<1>2. PICK b \in ToSet(blocks) : b.start = off
  BY <1>1, GoesOn
<1>3. off + BlockHeader + b.size <= file
  BY <1>2, BlockFields DEF End
<1> QED
  BY <1>2, <1>3 DEF BlocksAt

(* A block is missing: the image was cut short. *)
LEMMA ReaderBeyond ==
  ASSUME Typed, Apart, Laid, Pointed, Phases, Reader, BeyondData
  PROVE  Reader'
<1>1. UNCHANGED <<image, file, off, data>> /\ pc' = "failed" /\ t = 5 /\ BlocksAt(off) = {}
  BY DEF BeyondData, Phases
<1>2. file # len
  <2> SUFFICES ASSUME file = len PROVE FALSE
    OBVIOUS
  <2>1. /\ Table[1] = "inodes" /\ 1 \in 1..3 /\ Table[2] = "dirs" /\ 2 \in 1..3
        /\ Table[3] = "fragments" /\ 3 \in 1..3
    BY TableNames
  <2>2. CASE pc = "inodes"
    <3>1. PICK p \in 0..count["inodes"] : Place(1, p, off)
      BY <2>2 DEF Reader, ReadInodes
    <3>2. off < Edge(1)
      BY <1>1, <2>2, Finished DEF BeyondData, RangeEnd
    <3> QED
      BY <1>1, <2>1, <3>1, <3>2, BlockThere
  <2>3. CASE pc = "dirs"
    <3>1. off < Edge(3)
      BY <1>1, <2>3, Finished DEF BeyondData, RangeEnd
    <3>2. ~ \E p \in 0..count["dirs"] : off < Edge(2) /\ Place(2, p, off)
      BY <1>1, <2>1, BlockThere
    <3>3. ~ \E p \in 0..count["fragments"] : Place(3, p, off)
      BY <1>1, <2>1, <3>1, BlockThere
    <3> QED
      BY <2>3, <3>2, <3>3, DirsPlace DEF Reader
  <2> QED
    BY <2>2, <2>3 DEF BeyondData
<1>3. file' # len'
  BY <1>1, <1>2 DEF image
<1> QED
  BY <1>1, <1>3 DEF Reader, ReadInodes, ReadDirs, ReadFragments, OpenedIsRight, CompleteOpens,
     CutIsRefused

(* The inode table is at its end. *)
LEMMA ReaderInodesEnd ==
  ASSUME Typed, Apart, Laid, Pointed, Phases, Reader, EndRange, pc = "inodes"
  PROVE  Reader'
<1>1. /\ UNCHANGED <<image, file, data>> /\ t = 5 /\ pc' = "dirs" /\ off' = start["dirs"]
      /\ off >= RangeEnd
  BY DEF EndRange, Phases
<1>2. /\ start["dirs"] = Edge(1) /\ start["dirs"] = First(2) /\ Place(2, 0, First(2))
      /\ 1 \in 1..3 /\ Table[1] = "inodes" /\ Table[2] = "dirs"
      /\ "inodes" \in Tables /\ "dirs" \in Tables
      /\ count["inodes"] \in Nat /\ count["dirs"] \in Nat /\ start["dirs"] \in Nat
  BY <1>1, Finished, TableNames DEF Typed, TypeOK
<1>3. PICK p \in 0..count["inodes"] :
        /\ data["inodes"] = SubSeq(Rows("inodes"), 1, p) /\ Place(1, p, off)
        /\ p > 0 => off <= file
  BY DEF Reader, ReadInodes
<1>4. ~(p < count["inodes"])
  <2> SUFFICES ASSUME p < count["inodes"] PROVE FALSE
    OBVIOUS
  <2>1. off < Edge(1)
    BY <1>1, <1>2, <1>3, GoesOn
  <2>2. off \in Nat /\ off >= Edge(1)
    BY <1>1, <1>2 DEF Typed, TypeOK, RangeEnd
  <2> QED
    BY <1>2, <2>1, <2>2
<1>5. p = count["inodes"] /\ off = Edge(1)
  BY <1>1, <1>2, <1>3, <1>4, AtEdge
<1>6. off' <= file
  BY <1>1, <1>2, <1>3, <1>5 DEF Phases
<1>7. data["inodes"] = Rows("inodes")
  <2>1. Rows("inodes") \in Seq(Item) /\ Len(Rows("inodes")) = count["inodes"]
    BY <1>2, RowsAre
  <2> QED
    BY <1>3, <1>5, <2>1
<1>8. data["dirs"] = SubSeq(Rows("dirs"), 1, 0) /\ 0 \in 0..count["dirs"]
  <2>1. data["dirs"] = <<>>
    BY DEF Phases
  <2>2. Rows("dirs") \in Seq(Item)
    BY <1>2, RowsAre
  <2> QED
    BY <1>2, <2>1, <2>2
<1>9. Place(2, 0, off')
  BY <1>1, <1>2
<1>10. \A i, r, a : Place(i, r, a)' <=> Place(i, r, a)
  BY <1>1, PlaceSame
<1>11. /\ Rows("dirs")' = Rows("dirs") /\ Rows("inodes")' = Rows("inodes")
       /\ count' = count /\ data' = data /\ file' = file
  BY <1>1, PlaceSame DEF image
<1>12. ReadDirs'
  BY <1>1, <1>6, <1>8, <1>9, <1>10, <1>11 DEF ReadDirs
<1>13. ReadInodes'
  BY <1>1, <1>7, <1>11 DEF ReadInodes
<1> QED
  BY <1>1, <1>12, <1>13 DEF Reader, ReadFragments, OpenedIsRight, CompleteOpens, CutIsRefused

(* A sequence comes first in what is joined to it. *)
LEMMA PrefixJoined ==
  ASSUME NEW r \in Seq(Item), NEW s \in Seq(Item)
  PROVE  IsPrefix(r, r \o s)
<1>1. /\ r \o s \in Seq(Item) /\ Len(r \o s) = Len(r) + Len(s) /\ Len(r) \in Nat /\ Len(s) \in Nat
      /\ \A i \in 1..Len(r) : (r \o s)[i] = r[i]
  BY ConcatProperties
<1> DEFINE u == r \o s
<1>2. SubSeq(r, 1, Len(r)) = r
  OBVIOUS
<1> HIDE DEF u
<1>3. /\ SubSeq(u, 1, Len(r)) \in Seq(Item) /\ Len(SubSeq(u, 1, Len(r))) = Len(r)
      /\ \A i \in 1..Len(r) : SubSeq(u, 1, Len(r))[i] = u[i]
  BY <1>1 DEF u
<1>4. SubSeq(u, 1, Len(r)) = r
  BY <1>1, <1>3, SeqEqual DEF u
<1> QED
  BY <1>1, <1>2, <1>4 DEF IsPrefix, u

(* So is the directory table, with the fragments behind it.                *)
LEMMA ReaderDirsEnd ==
  ASSUME Typed, Apart, Laid, Pointed, Phases, Reader, EndRange, pc = "dirs"
  PROVE  Reader'
<1>1. /\ UNCHANGED <<image, file, data>> /\ t = 5 /\ off' = start["fragments"]
      /\ pc' = IF count["fragments"] > 0 THEN "fragments" ELSE "opened"
      /\ off >= RangeEnd
  BY DEF EndRange, Phases
<1>2. /\ start["fragments"] = Edge(3) /\ Edge(2) = First(3) /\ First(3) <= Edge(3)
      /\ 3 \in 1..3 /\ Table[3] = "fragments" /\ "dirs" \in Tables /\ "fragments" \in Tables
      /\ count["dirs"] \in Nat /\ count["fragments"] \in Nat
      /\ start["fragments"] \in Nat /\ off \in Nat
  BY <1>1, Finished, TableNames DEF Typed, TypeOK
<1>3. off >= Edge(3)
  BY <1>1, <1>2 DEF RangeEnd
<1>4. First(3) \in Int
  <2>1. First(3) = IF count["fragments"] > 0 THEN pointers[start["fragments"]] ELSE start[Table[3]]
    BY <1>1 DEF First
  <2> QED
    BY <1>1, <1>2, <2>1, Finished DEF Typed
<1>5. PICK p \in 0..count["fragments"] :
        data["dirs"] = Rows("dirs") \o SubSeq(Rows("fragments"), 1, p) /\ Place(3, p, off)
  <2>1. ~(off < Edge(2))
    BY <1>2, <1>3, <1>4
  <2> QED
    BY <2>1, DirsPlace DEF Reader
<1>6. ~(p < count["fragments"])
  <2> SUFFICES ASSUME p < count["fragments"] PROVE FALSE
    OBVIOUS
  <2>1. off < Edge(3)
    BY <1>1, <1>2, <1>5, GoesOn
  <2> QED
    BY <1>2, <1>3, <2>1
<1>7. off = Edge(3)
  BY <1>1, <1>2, <1>5, <1>6, AtEdge
<1>8. start["fragments"] <= file
  BY <1>2, <1>7 DEF Reader, ReadDirs
<1>9. IsPrefix(Rows("dirs"), data["dirs"])
  <2>1. Rows("fragments") \in Seq(Item) /\ Len(Rows("fragments")) = count["fragments"]
    BY <1>2, RowsAre
  <2>2. Rows("dirs") \in Seq(Item) /\ SubSeq(Rows("fragments"), 1, p) \in Seq(Item)
    BY <1>2, <2>1, RowsAre
  <2> QED
    BY <1>5, <2>2, PrefixJoined
<1>10. /\ Rows("dirs")' = Rows("dirs") /\ Rows("inodes")' = Rows("inodes")
       /\ Rows("fragments")' = Rows("fragments")
       /\ count' = count /\ data' = data /\ file' = file /\ start' = start
  BY <1>1, PlaceSame DEF image
<1>11. data["fragments"] = <<>> /\ data["inodes"] = Rows("inodes")
  BY DEF Phases, Reader, ReadInodes
<1>12. ReadInodes' /\ ReadDirs'
  BY <1>1, <1>8, <1>9, <1>10, <1>11 DEF ReadInodes, ReadDirs
<1>13. CASE count["fragments"] > 0
  <2>1. pc' = "fragments"
    BY <1>1, <1>13
  <2>2. 0 \in Nat /\ off' = start'["fragments"] + (0 * PointerSize) /\ ~(0 > 0)
    BY <1>1, <1>2, <1>10 DEF PointerSize
  <2>3. ReadFragments'
    BY <1>10, <1>11, <1>13, <2>2 DEF ReadFragments
  <2> QED
    BY <1>12, <2>1, <2>3 DEF Reader, OpenedIsRight, CompleteOpens, CutIsRefused
<1>14. CASE ~(count["fragments"] > 0)
  <2>1. pc' = "opened" /\ count["fragments"] = 0
    BY <1>1, <1>2, <1>14
  <2>2. Rows("fragments") = <<>>
    BY <2>1 DEF Rows
  <2>3. OpenedIsRight'
    BY <1>9, <1>10, <1>11, <2>1 DEF OpenedIsRight
  <2>4. CompleteOpens' /\ CutIsRefused'
    BY <1>8, <1>10, <1>11, <2>1, <2>2 DEF CompleteOpens, CutIsRefused
  <2> QED
    BY <1>12, <2>1, <2>3, <2>4 DEF Reader, ReadFragments
<1> QED
  BY <1>13, <1>14

(* What the steps that read the fragment table leave alone.                *)
LEMMA OthersKept ==
  ASSUME Typed, Reader, pc = "fragments", UNCHANGED <<image, file>>,
         pc' \in {"fragments", "opened"}, NEW d, data' = [data EXCEPT !["fragments"] = d]
  PROVE  /\ ReadInodes' /\ ReadDirs' /\ data'["fragments"] = d
         /\ \A x : Rows(x)' = Rows(x)
         /\ UNCHANGED <<count, start, len>> /\ start["fragments"] <= file
<1>1. /\ \A x : Rows(x)' = Rows(x)
      /\ UNCHANGED <<count, start, len>>
  BY PlaceSame DEF image
<1>2. data \in [Kept -> Seq(Item)]
  BY DEF Typed, Kept
<1>3. data'["inodes"] = data["inodes"] /\ data'["dirs"] = data["dirs"] /\ data'["fragments"] = d
  BY <1>2 DEF Kept
<1>4. /\ data["inodes"] = Rows("inodes") /\ IsPrefix(Rows("dirs"), data["dirs"])
      /\ start["fragments"] <= file
  BY DEF Reader, ReadInodes, ReadDirs
<1>5. data'["inodes"] = Rows("inodes")' /\ IsPrefix(Rows("dirs")', data'["dirs"])
      /\ start'["fragments"] <= file'
  BY <1>1, <1>3, <1>4
<1>6. ReadInodes'
  BY <1>5 DEF ReadInodes
<1>7. ReadDirs'
  BY <1>5 DEF ReadDirs
<1> QED
  BY <1>1, <1>3, <1>4, <1>6, <1>7

(* Where the reader is among the pointers. *)
LEMMA AmongPointers ==
  ASSUME Typed, Laid, Pointed, Phases, Reader, pc = "fragments"
  PROVE  \E m \in Nat :
           /\ off = start["fragments"] + (m * PointerSize)
           /\ m > 0 => FirstRight
           /\ m = 0 => /\ data["fragments"] = <<>> /\ off \in DOMAIN pointers
                       /\ pointers[off] = First(3)
           /\ off >= PointersEnd => m > 0
           /\ m > 0 /\ off < PointersEnd => ~(count["fragments"] <= MetaBlockSize)
           /\ start["fragments"] + PointerSize <= PointersEnd
           /\ count["fragments"] <= MetaBlockSize => PointersEnd <= len
           /\ count["fragments"] > 0
<1>1. PICK m \in Nat : /\ off = start["fragments"] + (m * PointerSize)
                       /\ m > 0 => FirstRight
                       /\ m = 0 => data["fragments"] = <<>>
  BY DEF Reader, ReadFragments
<1>2. /\ start["fragments"] \in Nat /\ start["fragments"] \in DOMAIN pointers
      /\ pointers[start["fragments"]] = First(3) /\ count["fragments"] > 0
      /\ start["fragments"] + PointerSize <= len
  BY Finished, TableNames DEF Typed, TypeOK, Phases, Reader, ReadFragments
<1>3. /\ Pointers \in Nat /\ Pointers >= 1
      /\ count["fragments"] <= MetaBlockSize => Pointers = 1
  BY <1>2, PointersWanted
<1>4. PointersEnd = start["fragments"] + (Pointers * PointerSize)
  BY DEF PointersEnd
<1> HIDE DEF Pointers, PointersEnd
<1>5. m = 0 => off = start["fragments"]
  BY <1>1, <1>2 DEF PointerSize
<1>6. off >= PointersEnd => m > 0
  BY <1>1, <1>2, <1>3, <1>4 DEF PointerSize
<1>7. m > 0 /\ off < PointersEnd => ~(count["fragments"] <= MetaBlockSize)
  BY <1>1, <1>2, <1>3, <1>4 DEF PointerSize
<1>8. start["fragments"] + PointerSize <= PointersEnd
  BY <1>2, <1>3, <1>4 DEF PointerSize
<1>9. count["fragments"] <= MetaBlockSize => PointersEnd <= len
  BY <1>2, <1>3, <1>4 DEF PointerSize
<1> QED
  BY <1>1, <1>2, <1>5, <1>6, <1>7, <1>8, <1>9

(* The reader goes on without the fragment table. *)
LEMMA ReaderWithout ==
  ASSUME Typed, Reader, pc = "fragments", NoFragments,
         ~(file = len /\ count["fragments"] <= MetaBlockSize)
  PROVE  Reader'
<1>1. UNCHANGED <<image, file>> /\ pc' = "opened" /\ data' = [data EXCEPT !["fragments"] = NoTable]
  BY DEF NoFragments
<1>2. /\ ReadInodes' /\ ReadDirs' /\ data'["fragments"] = NoTable
      /\ UNCHANGED <<count, start, len>> /\ start["fragments"] <= file
  BY <1>1, OthersKept
<1>3. OpenedIsRight'
  BY <1>1, <1>2 DEF OpenedIsRight, ReadInodes, ReadDirs, NoTable
<1>4. CompleteOpens' /\ CutIsRefused'
  BY <1>1, <1>2 DEF CompleteOpens, CutIsRefused, NoTable
<1> QED
  BY <1>1, <1>2, <1>3, <1>4 DEF Reader, ReadFragments

(* Another pointer is behind the reader. *)
LEMMA ReaderAdvances ==
  ASSUME Typed, Reader, pc = "fragments", UNCHANGED <<image, pc, file>>,
         NEW d, data' = [data EXCEPT !["fragments"] = d],
         NEW m \in Nat, off = start["fragments"] + (m * PointerSize), off' = off + PointerSize,
         \A i \in 1..count["fragments"] :
           i <= MetaBlockSize => i \in DOMAIN d /\ d[i] = Rows("fragments")[i]
  PROVE  Reader'
<1>1. pc' = "fragments"
  OBVIOUS
<1>2. /\ ReadInodes' /\ ReadDirs' /\ data'["fragments"] = d /\ \A x : Rows(x)' = Rows(x)
      /\ UNCHANGED <<count, start, len>>
  BY <1>1, OthersKept
<1>3. FirstRight'
  BY <1>2 DEF FirstRight
<1>4. off' = start'["fragments"] + ((m + 1) * PointerSize) /\ m + 1 \in Nat /\ m + 1 > 0
      /\ m + 1 # 0
  <2>1. start["fragments"] \in Nat
    BY TableNames DEF Typed, TypeOK
  <2> QED
    BY <1>2, <2>1 DEF PointerSize
<1>5. count["fragments"] > 0
  BY DEF Reader, ReadFragments
<1>6. ReadFragments'
  <2> DEFINE k == m + 1
  <2>1. k \in Nat /\ k > 0 /\ k # 0 /\ off' = start'["fragments"] + (k * PointerSize)
    BY <1>4
  <2> HIDE DEF k
  <2> QED
    BY <1>2, <1>3, <1>5, <2>1 DEF ReadFragments
<1> QED
  BY <1>1, <1>2, <1>6 DEF Reader, OpenedIsRight, CompleteOpens, CutIsRefused

(* The fragment table's pointers are beyond the end of the image.          *)
LEMMA ReaderPointersBeyond ==
  ASSUME Typed, Laid, Pointed, Phases, Reader, PointersBeyondData
  PROVE  Reader'
<1>1. pc = "fragments" /\ PointersEnd > file /\ NoFragments
  BY DEF PointersBeyondData
<1>2. ~(file = len /\ count["fragments"] <= MetaBlockSize)
  <2> SUFFICES ASSUME file = len, count["fragments"] <= MetaBlockSize PROVE FALSE
    OBVIOUS
  <2>1. PointersEnd <= len
    BY <1>1, AmongPointers
  <2>2. PointersEnd \in Int /\ len \in Nat
    <3>1. start["fragments"] \in Nat /\ len \in Nat /\ count["fragments"] > 0
      BY <1>1, AmongPointers, TableNames DEF Typed, TypeOK
    <3>2. Pointers \in Nat
      BY <3>1, PointersWanted
    <3> QED
      BY <3>1, <3>2 DEF PointersEnd, PointerSize
  <2> QED
    BY <1>1, <2>1, <2>2
<1> QED
  BY <1>1, <1>2, ReaderWithout

(* The reader follows a pointer. *)
LEMMA ReaderFollows ==
  ASSUME Typed, Apart, Laid, Pointed, Phases, Reader, FollowPointer
  PROVE  Reader'
<1>1. pc = "fragments" /\ t = 5 /\ UNCHANGED <<image, pc, file>> /\ off' = off + PointerSize
  BY DEF FollowPointer, Phases
<1>2. PICK b \in BlocksAt(pointers[off]) :
        data' = [data EXCEPT !["fragments"] = @ \o b.entries]
  BY DEF FollowPointer
<1> DEFINE c == count["fragments"]
           old == data["fragments"]
           new == old \o b.entries
<1>3. PICK m \in Nat : /\ off = start["fragments"] + (m * PointerSize)
                       /\ m > 0 => FirstRight
                       /\ m = 0 => old = <<>> /\ pointers[off] = First(3)
                       /\ c > 0
  BY <1>1, AmongPointers
<1>4. old \in Seq(Item) /\ b.entries \in Seq(Item)
  BY <1>2, BlockFields DEF Typed, BlocksAt
<1>5. \A i \in 1..c : i <= MetaBlockSize => i \in DOMAIN new /\ new[i] = Rows("fragments")[i]
  <2>1. CASE m = 0
    <3>1. /\ Table[3] = "fragments" /\ 3 \in 1..3 /\ "fragments" \in Tables
          /\ Place(3, 0, First(3)) /\ c \in Nat /\ 0 \in 0..c /\ 0 < c
      BY <1>1, <1>3, Finished, TableNames
    <3>2. b.entries = Entries("fragments", 0)
      BY <1>1, <1>2, <1>3, <2>1, <3>1, GoesOn
    <3>3. new = Entries("fragments", 0)
      BY <1>3, <1>4, <2>1, <3>2
    <3>4. /\ Chunk("fragments", 0) \in Nat
          /\ Len(Entries("fragments", 0)) = Chunk("fragments", 0)
          /\ Entries("fragments", 0) \in Seq(Item)
          /\ \A i \in 1..Chunk("fragments", 0) :
               Entries("fragments", 0)[i] = <<"fragments", 0 + i>>
      BY <3>1, ChunkIs
    <3>5. \A i \in 1..c : Rows("fragments")[i] = <<"fragments", i>>
      BY <3>1, RowsAre
    <3> HIDE DEF new
    <3> SUFFICES ASSUME NEW i \in 1..c, i <= MetaBlockSize
                 PROVE  i \in DOMAIN new /\ new[i] = Rows("fragments")[i]
      OBVIOUS
    <3>6. i \in 1..Chunk("fragments", 0) /\ 0 + i = i
      BY <3>1, TablesAssumption DEF Chunk
    <3>7. i \in DOMAIN new
      BY <3>3, <3>4, <3>6
    <3> QED
      BY <3>3, <3>4, <3>5, <3>6, <3>7
  <2>2. CASE m # 0
    <3>1. FirstRight
      BY <1>3, <2>2
    <3>2. /\ new \in Seq(Item) /\ Len(new) = Len(old) + Len(b.entries)
          /\ Len(old) \in Nat /\ Len(b.entries) \in Nat
          /\ \A i \in 1..Len(old) : new[i] = old[i]
          /\ DOMAIN old = 1..Len(old) /\ DOMAIN new = 1..Len(new)
      <4> DEFINE e == b.entries
      <4> HIDE DEF old, e
      <4>1. old \in Seq(Item) /\ e \in Seq(Item)
        BY <1>4 DEF old, e
      <4>2. /\ old \o e \in Seq(Item) /\ Len(old \o e) = Len(old) + Len(e)
            /\ Len(old) \in Nat /\ Len(e) \in Nat
            /\ \A i \in 1..Len(old) : (old \o e)[i] = old[i]
        BY <4>1
      <4> QED
        BY <4>1, <4>2 DEF e
    <3> HIDE DEF new, old
    <3>3. \A i \in DOMAIN old : i \in DOMAIN new /\ new[i] = old[i]
      BY <3>2
    <3> QED
      BY <3>1, <3>3 DEF FirstRight, old
  <2> QED
    BY <2>1, <2>2
<1>6. data' = [data EXCEPT !["fragments"] = new]
  BY <1>2
<1> HIDE DEF new
<1> QED
  BY <1>1, <1>3, <1>5, <1>6, ReaderAdvances

(* The reader takes something else for a pointer. *)
LEMMA ReaderStrays ==
  ASSUME Typed, Laid, Pointed, Phases, Reader, FollowGarbage
  PROVE  Reader'
<1>1. pc = "fragments" /\ t = 5 /\ off < PointersEnd /\ off \notin DOMAIN pointers
  BY DEF FollowGarbage, Phases
<1>2. PICK m \in Nat : /\ off = start["fragments"] + (m * PointerSize)
                       /\ m > 0 /\ FirstRight
                       /\ ~(count["fragments"] <= MetaBlockSize)
  <2>1. PICK m \in Nat :
               /\ off = start["fragments"] + (m * PointerSize)
               /\ m > 0 => FirstRight
               /\ m = 0 => off \in DOMAIN pointers
               /\ m > 0 /\ off < PointersEnd => ~(count["fragments"] <= MetaBlockSize)
    BY <1>1, AmongPointers
  <2>2. m > 0
    BY <1>1, <2>1
  <2> QED
    BY <1>1, <2>1, <2>2
<1>3. CASE NoFragments
  BY <1>1, <1>2, <1>3, ReaderWithout
<1>4. CASE /\ data' = [data EXCEPT !["fragments"] = Append(@, Junk)]
           /\ off' = off + PointerSize
           /\ UNCHANGED <<image, pc, file>>
  <2> DEFINE old == data["fragments"]
             new == Append(old, Junk)
  <2>1. old \in Seq(Item)
    BY DEF Typed
  <2>2. /\ DOMAIN new = 1..Len(old) + 1 /\ DOMAIN old = 1..Len(old) /\ Len(old) \in Nat
        /\ \A i \in 1..Len(old) : new[i] = old[i]
    BY <2>1
  <2>3. data' = [data EXCEPT !["fragments"] = new]
    BY <1>4
  <2> HIDE DEF new
  <2>4. \A i \in DOMAIN old : i \in DOMAIN new /\ new[i] = old[i]
    BY <2>2
  <2>5. \A i \in 1..count["fragments"] :
          i <= MetaBlockSize => i \in DOMAIN new /\ new[i] = Rows("fragments")[i]
    BY <1>2, <2>4 DEF FirstRight
  <2> QED
    BY <1>1, <1>2, <1>4, <2>3, <2>5, ReaderAdvances
<1>5. CASE pc' = "panicked" /\ UNCHANGED <<image, file, off, data>>
  <2>1. count' = count
    BY <1>5 DEF image
  <2>2. ~(count'["fragments"] <= MetaBlockSize)
    BY <1>2, <2>1
  <2> QED
    BY <1>5, <2>2 DEF Reader, ReadInodes, ReadDirs, ReadFragments, OpenedIsRight, CompleteOpens,
       CutIsRefused
<1> QED
  BY <1>3, <1>4, <1>5 DEF FollowGarbage

(* The last pointer is behind the reader. *)
LEMMA ReaderFragmentsEnd ==
  ASSUME Typed, Laid, Pointed, Phases, Reader, EndFragments
  PROVE  Reader'
<1> DEFINE c == count["fragments"]
           old == data["fragments"]
           new == [i \in 1..c |-> IF i <= Len(old) THEN old[i] ELSE Zero]
<1>1. /\ pc = "fragments" /\ UNCHANGED <<image, file>> /\ pc' = "opened"
      /\ PointersEnd <= file /\ off >= PointersEnd
  BY DEF EndFragments
<1>2. data' = [data EXCEPT !["fragments"] = new]
  BY DEF EndFragments, Typed
<1>3. old \in Seq(Item) /\ c \in Nat /\ DOMAIN old = 1..Len(old) /\ Len(old) \in Nat
  BY TableNames DEF Typed, TypeOK
<1>4. DOMAIN new = 1..c /\ Len(new) = c
  BY <1>3
<1>5. FirstRight /\ start["fragments"] + PointerSize <= PointersEnd /\ c > 0
  BY <1>1, AmongPointers
<1>6. \A i \in 1..c : i <= MetaBlockSize => new[i] = Rows("fragments")[i]
  <2> SUFFICES ASSUME NEW i \in 1..c, i <= MetaBlockSize PROVE new[i] = Rows("fragments")[i]
    OBVIOUS
  <2>1. i \in DOMAIN old /\ old[i] = Rows("fragments")[i]
    BY <1>5 DEF FirstRight
  <2> QED
    BY <1>3, <2>1
<1> HIDE DEF new
<1>7. /\ ReadInodes' /\ ReadDirs' /\ data'["fragments"] = new /\ \A x : Rows(x)' = Rows(x)
      /\ UNCHANGED <<count, start, len>> /\ start["fragments"] <= file
  BY <1>1, <1>2, OthersKept
<1>8. OpenedIsRight'
  BY <1>1, <1>4, <1>6, <1>7 DEF OpenedIsRight, ReadInodes, ReadDirs
<1>9. c <= MetaBlockSize => new = Rows("fragments")
  <2> SUFFICES ASSUME c <= MetaBlockSize PROVE new = Rows("fragments")
    OBVIOUS
  <2>1. \A i \in 1..c : new[i] = Rows("fragments")[i]
    BY <1>3, <1>6, TablesAssumption
  <2>2. new = [i \in 1..c |-> new[i]]
    BY DEF new
  <2>3. Rows("fragments") = [i \in 1..c |-> Rows("fragments")[i]]
    BY DEF Rows
  <2> QED
    BY <2>1, <2>2, <2>3
<1>10. CompleteOpens'
  BY <1>1, <1>7, <1>9 DEF CompleteOpens
<1>11. CutIsRefused'
  <2>1. file >= start["fragments"] + PointerSize
    <3>1. start["fragments"] \in Nat /\ file \in Nat
      BY TableNames DEF Typed, TypeOK
    <3>2. PointersEnd \in Int
      <4>1. Pointers \in Nat
        BY <1>5, PointersWanted
      <4> QED
        BY <3>1, <4>1 DEF PointersEnd, PointerSize
    <3> HIDE DEF PointersEnd
    <3> QED
      BY <1>1, <1>5, <3>1, <3>2 DEF PointerSize
  <2> QED
    BY <1>1, <1>7, <2>1 DEF CutIsRefused
<1> QED
  BY <1>1, <1>7, <1>8, <1>10, <1>11 DEF Reader, ReadFragments

(* Each step keeps what holds of the reader's tables.                      *)
LEMMA ReaderStep ==
  ASSUME Typed, Apart, Laid, Pointed, Phases, Reader, [Next]_vars
  PROVE  Reader'
<1>1. CASE WriteMetablock \/ EndTable \/ EndTables \/ WriteFile
  <2>1. pc' \in {"tables", "file", "header"}
    BY <1>1 DEF WriteMetablock, EndTable, EndTables, WriteFile
  <2> QED
    BY <2>1 DEF Reader, ReadInodes, ReadDirs, ReadFragments, OpenedIsRight, CompleteOpens,
       CutIsRefused
<1>2. CASE UNCHANGED vars
  <2>1. UNCHANGED <<image, pc, file, off, data>>
    BY <1>2 DEF vars, image
  <2>2. /\ \A i, p, a : Place(i, p, a)' <=> Place(i, p, a)
        /\ \A x : Rows(x)' = Rows(x)
        /\ UNCHANGED <<count, start, len>>
    BY <2>1, PlaceSame DEF image
  <2>3. ReadInodes' /\ ReadDirs'
    BY <2>1, <2>2 DEF Reader, ReadInodes, ReadDirs
  <2>4. ReadFragments'
    BY <2>1, <2>2 DEF Reader, ReadFragments, FirstRight
  <2>5. OpenedIsRight' /\ CompleteOpens' /\ CutIsRefused'
    BY <2>1, <2>2 DEF Reader, OpenedIsRight, CompleteOpens, CutIsRefused
  <2> QED
    BY <2>3, <2>4, <2>5 DEF Reader
<1>3. CASE ReadMetablock
  BY <1>3, ReaderInodeBlock, ReaderDirBlock DEF ReadMetablock
<1>4. CASE EndRange
  BY <1>4, ReaderInodesEnd, ReaderDirsEnd DEF EndRange
<1>5. CASE ReadHeader
  BY <1>5, ReaderHeader
<1>6. CASE BeyondData
  BY <1>6, ReaderBeyond
<1>7. CASE PointersBeyondData
  BY <1>7, ReaderPointersBeyond
<1>8. CASE FollowPointer
  BY <1>8, ReaderFollows
<1>9. CASE FollowGarbage
  BY <1>9, ReaderStrays
<1>10. CASE EndFragments
  BY <1>10, ReaderFragmentsEnd
<1> QED
  BY <1>1, <1>2, <1>3, <1>4, <1>5, <1>6, <1>7, <1>8, <1>9, <1>10 DEF Next

-----------------------------------------------------------------------------
(* The theorems.                                                           *)

(* The invariant holds at the start. *)
LEMMA IInvInit == Init => IInv
<1> SUFFICES ASSUME Init PROVE IInv
  OBVIOUS
<1>1. Typed
  BY TypedInit
<1>2. /\ t = 1 /\ done = 0 /\ begin = SuperblockSize /\ len = SuperblockSize /\ blocks = <<>>
      /\ pc = "tables" /\ file = 0
      /\ data = [x \in Kept |-> <<>>]
  BY DEF Init, Kept
<1>3. count["inodes"] > 0 /\ count["inodes"] \in Nat
  <2>1. PICK i \in InodeCounts, d \in DirCounts, f \in FragmentCounts :
          count = [inodes |-> i, dirs |-> d, fragments |-> f, ids |-> 1]
    BY DEF Init
  <2> QED
    BY <2>1, TablesAssumption
<1>4. Apart /\ ToSet(blocks) = {}
  BY <1>2 DEF Apart, ToSet
<1>5. Laid
  <2>1. \A i \in 1..3 : i <= t => i = 1
    BY <1>2
  <2>2. Written(1) = 0 /\ First(1) = SuperblockSize /\ Edge(1) = SuperblockSize
    BY <1>2 DEF Written, First, Edge
  <2>3. Place(1, 0, First(1)) /\ First(1) <= Edge(1)
    BY <2>2 DEF Place, SuperblockSize
  <2> QED
    BY <1>4, <2>1, <2>3 DEF Laid
<1>6. Pointed
  BY <1>2 DEF Pointed
<1>7. Phases
  BY <1>2, <1>3, TableNames DEF Phases, SuperblockSize, Kept
<1>8. Reader
  BY <1>2, ReaderBefore
<1> QED
  BY <1>1, <1>4, <1>5, <1>6, <1>7, <1>8 DEF IInv, Reader

(* Each step keeps it. *)
LEMMA IInvStep == IInv /\ [Next]_vars => IInv'
<1> SUFFICES ASSUME IInv, [Next]_vars PROVE IInv'
  OBVIOUS
<1>1. Typed /\ Apart /\ Laid /\ Pointed /\ Phases /\ Reader
  BY DEF IInv, Reader
<1>2. Typed'
  BY <1>1, TypedStep
<1>3. Apart' /\ Laid' /\ Pointed'
  BY <1>1, ImageStep
<1>4. Phases'
  BY <1>1, PhasesStep
<1>5. Reader'
  BY <1>1, ReaderStep
<1> QED
  BY <1>2, <1>3, <1>4, <1>5 DEF IInv, Reader

(* The invariant always holds. *)
THEOREM Invariance == Spec => []IInv
BY IInvInit, IInvStep, PTL DEF Spec

(* The variables always have their types, and no metadata block of         *)
(* writeMetablocks goes beyond out.Len().                                  *)
THEOREM TypeCorrect == Spec => []TypeOK
<1>1. IInv => TypeOK
  BY DEF IInv, Typed
<1> QED
  BY <1>1, Invariance, PTL

(* Whatever a crash of os.WriteFile left of an image, newReader opens it   *)
(* only with the whole inode and directory tables, and a fragment table    *)
(* that is missing or right up to a metadata block's worth.                *)
THEOREM OpenedAlwaysRight == Spec => []OpenedIsRight
<1>1. IInv => OpenedIsRight
  BY DEF IInv
<1> QED
  BY <1>1, Invariance, PTL

(* newReader opens every complete image with at most a metadata block's    *)
(* worth of fragments, and has its fragment table.                         *)
THEOREM CompleteAlwaysOpens == Spec => []CompleteOpens
<1>1. IInv => CompleteOpens
  BY DEF IInv
<1> QED
  BY <1>1, Invariance, PTL

(* An image cut short before the pointer to the fragment table is refused. *)
THEOREM CutAlwaysRefused == Spec => []CutIsRefused
<1>1. IInv => CutIsRefused
  BY DEF IInv
<1> QED
  BY <1>1, Invariance, PTL

=============================================================================
