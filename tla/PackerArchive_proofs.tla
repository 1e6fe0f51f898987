------------------------ MODULE PackerArchive_proofs ------------------------
(***************************************************************************)
(* Proofs about packing, for any number of files, any contents and any     *)
(* block size: first what DataPacker keeps true by itself, then the data   *)
(* area as a reader walks it: the blocks of a file are where its inode     *)
(* says, and packing implements Archive.  A size word keeps 24 bits of a   *)
(* size: what is said of data blocks is about writers whose BlockSize is   *)
(* below that, what is said of fragment blocks about those of whose blocks *)
(* two are.                                                                *)
(***************************************************************************)
EXTENDS PackerArchive, FiniteSetTheorems, SequenceTheorems, TLAPS

-----------------------------------------------------------------------------
(* What fails fails first, and sequences joined.                           *)

(* A set of natural numbers that is not empty has a least element.  A set  *)
(* of numbers at which something fails is what it is used with.            *)
LEMMA HasLeast ==
  ASSUME NEW S \in SUBSET Nat, S # {}
  PROVE  \E m \in S : \A n \in S : m <= n
<1> DEFINE R == {x \in Nat \X Nat : x[1] < x[2]}
<1>1. IsWellFoundedOn(R, Nat)
  BY NatLessThanWellFounded DEF OpToRel
<1>2. \A m, n \in Nat : <<n, m>> \notin R => m <= n
  OBVIOUS
<1> HIDE DEF R
<1> QED
  BY <1>1, <1>2, WFMin

(* f[i] is the first i of n sequences, joined. *)
AreJoins(s, f, n) == f = [i \in 1..n |-> IF i = 1 THEN s[i] ELSE f[i - 1] \o s[i]]

(* There is such a function, for any sequences. *)
LEMMA JoinsExist ==
  ASSUME NEW s
  PROVE  \A n \in Nat : \E f : AreJoins(s, f, n)
<1> DEFINE Bad == {n \in Nat : ~ \E f : AreJoins(s, f, n)}
<1>1. ASSUME Bad # {}
      PROVE  FALSE
  <2>1. PICK n \in Bad : \A m \in Bad : n <= m
    <3>1. Bad \subseteq Nat
      OBVIOUS
    <3> HIDE DEF Bad
    <3> QED
      BY <1>1, <3>1, HasLeast
  <2>2. n \in Nat /\ n # 0
    <3>1. n \in Nat
      OBVIOUS
    <3>2. AreJoins(s, [i \in 1..0 |-> s[i]], 0)
      BY DEF AreJoins
    <3> QED
      BY <3>1, <3>2
  <2>3. n - 1 \in Nat /\ n - 1 \notin Bad
    <3> HIDE DEF Bad
    <3> QED
      BY <2>1, <2>2
  <2>4. PICK f : AreJoins(s, f, n - 1)
    BY <2>3
  <2> DEFINE g == [i \in 1..n |-> IF i = n THEN IF i = 1 THEN s[i] ELSE f[n - 1] \o s[i]
                                          ELSE f[i]]
  <2>5. AreJoins(s, g, n)
    <3> SUFFICES ASSUME NEW i \in 1..n
                 PROVE  g[i] = IF i = 1 THEN s[i] ELSE g[i - 1] \o s[i]
      BY DEF AreJoins
    <3>1. CASE i = n
      BY <2>2, <3>1
    <3>2. CASE i # n
      <4>1. i \in 1..n - 1 /\ (i # 1 => i - 1 \in 1..n - 1)
        BY <2>2, <3>2
      <4>2. g[i] = f[i] /\ (i # 1 => g[i - 1] = f[i - 1])
        BY <2>2, <3>2, <4>1
      <4>3. f[i] = IF i = 1 THEN s[i] ELSE f[i - 1] \o s[i]
        BY <2>4, <4>1 DEF AreJoins
      <4> QED
        BY <4>1, <4>2, <4>3
    <3> QED
      BY <3>1, <3>2
  <2> QED
    BY <2>2, <2>5
<1> QED
  BY <1>1

(* Where two sequences agree, what joins them does. *)
LEMMA JoinsAgree ==
  ASSUME NEW s, NEW t, NEW f, NEW g, NEW n \in Nat, NEW m \in Nat, n <= m,
         \A i \in 1..n : s[i] = t[i],
         AreJoins(s, f, n), AreJoins(t, g, m)
  PROVE  \A i \in 1..n : f[i] = g[i]
<1> DEFINE Bad == {i \in 1..n : f[i] # g[i]}
<1>1. ASSUME Bad # {}
      PROVE  FALSE
  <2>1. PICK i \in Bad : \A j \in Bad : i <= j
    <3>1. Bad \subseteq Nat
      OBVIOUS
    <3> HIDE DEF Bad
    <3> QED
      BY <1>1, <3>1, HasLeast
  <2>2. i \in 1..n /\ f[i] # g[i] /\ s[i] = t[i]
    OBVIOUS
  <2>3. f[i] = IF i = 1 THEN s[i] ELSE f[i - 1] \o s[i]
    BY <2>2 DEF AreJoins
  <2>4. g[i] = IF i = 1 THEN t[i] ELSE g[i - 1] \o t[i]
    <3>1. i \in 1..m
      BY <2>2
    <3> QED
      BY <3>1 DEF AreJoins
  <2>5. i # 1
    BY <2>2, <2>3, <2>4
  <2>6. i - 1 \in 1..n /\ f[i - 1] = g[i - 1]
    BY <2>1, <2>2, <2>5
  <2> QED
    BY <2>2, <2>3, <2>4, <2>6
<1> QED
  BY <1>1

(* FlattenSeq says what such a function does. *)
LEMMA FlattenIsJoin ==
  ASSUME NEW s, Len(s) \in Nat \ {0}
  PROVE  \E f : AreJoins(s, f, Len(s)) /\ FlattenSeq(s) = f[Len(s)]
<1> DEFINE n == Len(s)
           f == CHOOSE f : f = [i \in 1..n |-> IF i = 1 THEN s[i] ELSE f[i - 1] \o s[i]]
<1>1. FlattenSeq(s) = f[n]
  BY DEF FlattenSeq
<1>2. f = CHOOSE g : AreJoins(s, g, n)
  BY DEF AreJoins
<1> QED
  BY <1>1, <1>2, JoinsExist

(* No sequences joined are the empty one.                                  *)
LEMMA FlattenEmpty == FlattenSeq(<<>>) = <<>>
BY DEF FlattenSeq

(* What is joined grows at the end when a sequence comes in there.         *)
LEMMA FlattenAppend ==
  ASSUME NEW S, NEW s \in Seq(Seq(S)), NEW x \in Seq(S)
  PROVE  FlattenSeq(Append(s, x)) = FlattenSeq(s) \o x
<1> DEFINE t == Append(s, x)
           n == Len(s)
           m == n + 1
<1>1. n \in Nat /\ Len(t) = m /\ t[m] = x /\ \A i \in 1..n : s[i] = t[i]
  OBVIOUS
<1>2. m \in Nat \ {0} /\ m - 1 = n /\ m \in 1..m
  BY <1>1
<1> HIDE DEF t, n, m
<1>3. PICK g : AreJoins(t, g, m) /\ FlattenSeq(t) = g[m]
  BY <1>1, <1>2, FlattenIsJoin
<1>4. g[m] = IF m = 1 THEN x ELSE g[n] \o x
  BY <1>1, <1>2, <1>3 DEF AreJoins
<1>5. CASE n = 0
  <2>1. s = <<>>
    BY <1>5 DEF n
  <2>2. FlattenSeq(t) = x
    BY <1>2, <1>3, <1>4, <1>5 DEF m
  <2>3. <<>> \o x = x
    OBVIOUS
  <2> QED
    BY <2>1, <2>2, <2>3, FlattenEmpty DEF t
<1>6. CASE n # 0
  <2>1. PICK f : AreJoins(s, f, n) /\ FlattenSeq(s) = f[n]
    BY <1>1, <1>6, FlattenIsJoin DEF n
  <2>2. n <= m /\ n \in 1..n /\ m # 1
    BY <1>1, <1>2, <1>6
  <2>3. f[n] = g[n]
    <3>1. n \in Nat /\ m \in Nat /\ n <= m /\ \A i \in 1..n : s[i] = t[i]
      BY <1>1, <1>2, <2>2
    <3>2. AreJoins(s, f, n) /\ AreJoins(t, g, m)
      BY <1>3, <2>1
    <3>3. \A i \in 1..n : f[i] = g[i]
      BY <3>1, <3>2, JoinsAgree
    <3> QED
      BY <2>2, <3>3
  <2> QED
    BY <1>3, <1>4, <2>1, <2>2, <2>3 DEF t
<1> QED
  BY <1>5, <1>6

-----------------------------------------------------------------------------
(* The inductive invariant.                                                *)

(* The loop has not reached f. *)
Ahead(f) == f > next \/ (f = next /\ pc = "open")

(* The loop is done with the blocks of f. *)
Cut(f) == f < next \/ (f = next /\ pc = "tail")

(* What the loop has not reached is as phase 0 left it. *)
AheadIsFresh ==
  \A f \in File :
    /\ Ahead(f) => got[f] = <<>> /\ inode[f].words = <<>>
    /\ f >= next => inode[f].fragIdx = NoFragment

(* A file has a size word for each full block. *)
WordPerBlock ==
  \A f \in File : Cut(f) => Len(inode[f].words) = FullBlocks(got[f])

(* Between files the fragment block has room. *)
BufferHasRoom == pc # "done" => Len(fragBuf) < BlockSize

(* A remembered tail is in the block being filled: the map is reset when   *)
(* the block is.                                                           *)
DedupCurrent ==
  pc # "done" =>
    \A t \in DOMAIN fragDedup :
      /\ fragDedup[t].idx = Len(fragEntries)
      /\ Holds(fragBuf, fragDedup[t].off, t)

(* Every tail in the block being filled is remembered. *)
DedupComplete ==
  pc # "done" =>
    \A f \in Packed :
      inode[f].fragIdx = Len(fragEntries) =>
        /\ TailOf(got[f]) \in DOMAIN fragDedup
        /\ fragDedup[TailOf(got[f])].off = inode[f].fragOff

(* The bytes t are in the fragment block i: what FragmentHolds says, but   *)
(* for the length in the size word.                                        *)
HeldAt(i, off, t) ==
  IF i < Len(fragEntries)
    THEN \E e \in DOMAIN out : /\ out[e].start = fragEntries[i + 1].start
                               /\ out[e].word = fragEntries[i + 1].word
                               /\ Holds(out[e].data, off, t)
    ELSE i = Len(fragEntries) /\ Holds(fragBuf, off, t)

(* The tail of a file is in the fragment block its inode names. *)
TailsPlaced ==
  \A f \in Packed :
    LET n == inode[f]
    IN IF Remainder(got[f]) = 0
         THEN n.fragIdx = NoFragment
         ELSE /\ n.fragIdx # NoFragment
              /\ HeldAt(n.fragIdx, n.fragOff, TailOf(got[f]))

IInv ==
  /\ TypeOK
  /\ AheadIsFresh
  /\ WordPerBlock
  /\ BufferHasRoom
  /\ DedupCurrent
  /\ DedupComplete
  /\ TailsPlaced
  /\ WithinDecompressLimit
  /\ EqualTailsShared

-----------------------------------------------------------------------------
(* Arithmetic and sequences.                                               *)

(* Dividing a length by the block size. *)
LEMMA DivMod ==
  ASSUME NEW n \in Nat
  PROVE  /\ n \div BlockSize \in Nat
         /\ n % BlockSize \in 0..BlockSize - 1
         /\ n = (BlockSize * (n \div BlockSize)) + (n % BlockSize)
BY PackerAssumption, SMT

(* The bytes os.ReadFile returned split into full blocks and a tail. *)
LEMMA Split ==
  ASSUME NEW c \in Seq(Byte)
  PROVE  /\ FullBlocks(c) \in Nat
         /\ Remainder(c) \in 0..BlockSize - 1
         /\ Len(c) = (BlockSize * FullBlocks(c)) + Remainder(c)
<1>1. Len(c) \in Nat
  OBVIOUS
<1> QED
  BY <1>1, DivMod DEF FullBlocks, Remainder

(* What is left of a file after its full blocks is as long as the          *)
(* remainder, and made of its bytes.                                       *)
LEMMA TailType ==
  ASSUME NEW c \in Seq(Byte)
  PROVE  TailOf(c) \in Seq(Byte) /\ Len(TailOf(c)) = Remainder(c)
<1> DEFINE r == Remainder(c)
<1>1. r \in Nat /\ r <= Len(c)
  BY Split, PackerAssumption
<1> HIDE DEF r
<1>2. SubSeq(c, Len(c) - r + 1, Len(c)) \in Seq(Byte)
  BY <1>1
<1>3. Len(SubSeq(c, Len(c) - r + 1, Len(c))) = r
  BY <1>1
<1> QED
  BY <1>2, <1>3 DEF TailOf, r

(* A full block has BlockSize bytes. *)
LEMMA BlockType ==
  ASSUME NEW c \in Seq(Byte), NEW k \in 1..FullBlocks(c)
  PROVE  Block(c, k) \in Seq(Byte) /\ Len(Block(c, k)) = BlockSize
<1> DEFINE q == FullBlocks(c)
           lo == (k - 1) * BlockSize
           hi == k * BlockSize
<1>1. q \in Nat /\ BlockSize * q <= Len(c)
  BY Split, PackerAssumption
<1>2. k \in Nat /\ k >= 1 /\ k <= q /\ BlockSize \in Nat /\ BlockSize >= 1
  BY <1>1, PackerAssumption
<1>3. lo \in Nat /\ hi = lo + BlockSize /\ hi <= Len(c)
  <2>1. k * BlockSize <= BlockSize * q
    BY <1>1, <1>2
  <2>2. (k - 1) * BlockSize \in Nat
    BY <1>2
  <2>3. k * BlockSize = ((k - 1) * BlockSize) + BlockSize
    BY <1>2
  <2> QED
    <3> DEFINE m == k * BlockSize
               l == (k - 1) * BlockSize
               n == BlockSize * q
    <3>1. l \in Nat /\ m = l + BlockSize /\ m <= n /\ n <= Len(c)
      BY <1>1, <2>1, <2>2, <2>3
    <3>2. m \in Int /\ n \in Int /\ Len(c) \in Nat
      BY <1>1, <1>2
    <3> HIDE DEF l, m, n
    <3>3. m <= Len(c)
      BY <3>1, <3>2
    <3> QED
      BY <3>1, <3>3 DEF l, m
<1> HIDE DEF lo, hi, q
<1>4. SubSeq(c, lo + 1, hi) \in Seq(Byte) /\ Len(SubSeq(c, lo + 1, hi)) = BlockSize
  BY <1>2, <1>3
<1> QED
  BY <1>4 DEF Block, lo, hi

(* What is in a buffer stays there when the buffer grows. *)
LEMMA HoldsGrow ==
  ASSUME NEW d \in Seq(Byte), NEW u \in Seq(Byte), NEW t \in Seq(Byte),
         NEW off \in Nat, Holds(d, off, t)
  PROVE  Holds(d \o u, off, t)
BY DEF Holds

(* What is appended to a buffer is at the offset that was its length. *)
LEMMA HoldsEnd ==
  ASSUME NEW d \in Seq(Byte), NEW t \in Seq(Byte)
  PROVE  Holds(d \o t, Len(d), t)
BY DEF Holds

-----------------------------------------------------------------------------
(* Type correctness.                                                       *)


(* A size word has its type, whatever length the compressor reached. *)
LEMMA StoredType ==
  ASSUME NEW d \in Seq(Byte), NEW s \in StoredLengths(d)
  PROVE  s \in Nat /\ SizeWord(s, d) \in Word
<1>1. s \in Nat /\ Len(d) \in Nat /\ SizeLimit \in Nat /\ SizeLimit >= 1
  BY PackerAssumption DEF StoredLengths
<1>2. s % SizeLimit \in Nat
  BY <1>1, SMT
<1>3. (s >= Len(d) \/ s >= SizeLimit) \in BOOLEAN
  BY <1>1
<1> QED
  BY <1>1, <1>2, <1>3 DEF SizeWord, Word

(* The length of the image is a number. *)
LEMMA ImageLenType ==
  ASSUME NEW o \in Seq(ExtentType)
  PROVE  ImageLen(o) \in Nat
<1>1. CASE o = <<>>
  BY <1>1 DEF ImageLen, SuperblockSize
<1>2. CASE o # <<>>
  <2>1. o[Len(o)] \in ExtentType
    BY <1>2
  <2> QED
    BY <1>2, <2>1 DEF ImageLen, ExtentType
<1> QED
  BY <1>1, <1>2

(* An extent has its type. *)
LEMMA ExtentTyped ==
  ASSUME NEW o \in Seq(ExtentType), NEW d \in Seq(Byte), NEW s \in StoredLengths(d)
  PROVE  Extent(o, s, d) \in ExtentType
BY ImageLenType, StoredType DEF Extent, ExtentType

(* What FlushFragments writes has the types of the image and its table. *)
LEMMA FlushTyped ==
  ASSUME TypeOK, NEW buf \in Seq(Byte), FlushFragments(buf)
  PROVE  out' \in Seq(ExtentType) /\ fragEntries' \in Seq(EntryType)
<1>1. PICK s \in StoredLengths(buf) :
        /\ out' = Append(out, Extent(out, s, buf))
        /\ fragEntries' = Append(fragEntries,
                            [start |-> ImageLen(out), word |-> SizeWord(s, buf)])
  BY DEF FlushFragments
<1>2. out \in Seq(ExtentType) /\ fragEntries \in Seq(EntryType)
  BY DEF TypeOK
<1>3. Extent(out, s, buf) \in ExtentType /\ ImageLen(out) \in Nat
  BY <1>2, ExtentTyped, ImageLenType
<1>4. [start |-> ImageLen(out), word |-> SizeWord(s, buf)] \in EntryType
  BY <1>3, StoredType DEF EntryType
<1> QED
  BY <1>1, <1>2, <1>3, <1>4

(* The loop goes to the next file, or one past the last. *)
LEMMA NextFileTyped ==
  ASSUME TypeOK, pc = "tail", NextFile
  PROVE  pc' = "open" /\ next \in File /\ next' = next + 1 /\ next' \in 1..NumFiles + 1
BY PackerAssumption DEF TypeOK, NextFile, File

(* The variables have their types at the start. *)
LEMMA TypeInit == Init => TypeOK
<1> SUFFICES ASSUME Init PROVE TypeOK
  OBVIOUS
<1>1. disk \in [File -> [data : Seq(Byte), readable : BOOLEAN]]
  BY PackerAssumption DEF Init
<1>2. fileSize \in [File -> Nat]
  BY <1>1 DEF Init
<1>3. next \in 1..NumFiles + 1
  BY PackerAssumption DEF Init
<1>4. got \in [File -> Seq(Byte)] /\ fragBuf \in Seq(Byte)
  BY DEF Init
<1>5. inode \in [File -> InodeType]
  BY DEF Init, FreshInode, InodeType
<1> QED
  BY <1>1, <1>2, <1>3, <1>4, <1>5 DEF Init, TypeOK

(* Each step of the packer keeps the types. *)
LEMMA TypeStep == TypeOK /\ [Next]_vars => TypeOK'
<1> SUFFICES ASSUME TypeOK, [Next]_vars PROVE TypeOK'
  OBVIOUS
<1>1. CASE SkipFile
  <2>1. next' \in 1..NumFiles + 1
    BY <1>1, PackerAssumption DEF SkipFile, File
  <2> QED
    BY <1>1, <2>1 DEF TypeOK, SkipFile
<1>2. CASE ReadFile
  <2>1. next \in File /\ disk[next].data \in Seq(Byte) /\ inode[next] \in InodeType
    BY <1>2 DEF TypeOK, ReadFile
  <2>2. got' \in [File -> Seq(Byte)]
    BY <1>2, <2>1 DEF TypeOK, ReadFile
  <2>3. ImageLen(out) \in Nat
    BY ImageLenType DEF TypeOK
  <2>4. [inode[next] EXCEPT !.start = ImageLen(out)] \in InodeType
    BY <2>1, <2>3 DEF InodeType
  <2>5. inode' \in [File -> InodeType]
    BY <1>2, <2>4 DEF TypeOK, ReadFile
  <2> QED
    BY <1>2, <2>1, <2>2, <2>5 DEF TypeOK, ReadFile
<1>3. CASE WriteBlock
  <2> DEFINE k == Len(inode[next].words) + 1
             d == Block(got[next], k)
  <2>1. /\ next \in File /\ got[next] \in Seq(Byte)
        /\ inode[next] \in InodeType /\ inode[next].words \in Seq(Word)
    BY <1>3 DEF TypeOK, WriteBlock, InodeType
  <2>2. k \in 1..FullBlocks(got[next])
    <3>1. k \in Nat /\ k >= 1
      BY <2>1
    <3>2. k <= FullBlocks(got[next]) /\ FullBlocks(got[next]) \in Nat
      BY <1>3, <2>1, Split DEF WriteBlock
    <3> QED
      BY <3>1, <3>2
  <2>3. d \in Seq(Byte)
    BY <2>1, <2>2, BlockType
  <2>4. PICK s \in StoredLengths(d) :
          /\ out' = Append(out, Extent(out, s, d))
          /\ inode' = [inode EXCEPT ![next].words = Append(@, SizeWord(s, d))]
    BY <1>3 DEF WriteBlock
  <2> HIDE DEF k, d
  <2>5. SizeWord(s, d) \in Word /\ Extent(out, s, d) \in ExtentType
    BY <2>3, StoredType, ExtentTyped DEF TypeOK
  <2>6. out' \in Seq(ExtentType)
    BY <2>4, <2>5 DEF TypeOK
  <2>7. Append(inode[next].words, SizeWord(s, d)) \in Seq(Word)
    BY <2>1, <2>5
  <2>8. [inode[next] EXCEPT !.words = Append(inode[next].words, SizeWord(s, d))] \in InodeType
    BY <2>1, <2>7 DEF InodeType
  <2>9. inode' \in [File -> InodeType]
    BY <2>1, <2>4, <2>8 DEF TypeOK
  <2> QED
    BY <1>3, <2>6, <2>9 DEF TypeOK, WriteBlock
<1>4. CASE EndBlocks
  BY <1>4 DEF TypeOK, EndBlocks
<1>5. CASE NoTail
  <2>1. NextFile /\ pc = "tail"
    BY <1>5 DEF NoTail
  <2> QED
    BY <1>5, <2>1, NextFileTyped DEF TypeOK, NoTail
<1>6. CASE ReuseTail
  <2> DEFINE r == fragDedup[TailOf(got[next])]
  <2>1. NextFile /\ pc = "tail" /\ next \in File
    BY <1>6 DEF TypeOK, ReuseTail
  <2>2. r.idx \in Nat /\ r.off \in Nat
    BY <1>6 DEF TypeOK, ReuseTail, Ref
  <2>3. inode' = [inode EXCEPT ![next].fragIdx = r.idx, ![next].fragOff = r.off]
    BY <1>6 DEF ReuseTail
  <2> HIDE DEF r
  <2>4. [inode[next] EXCEPT !.fragIdx = r.idx, !.fragOff = r.off] \in InodeType
    <3>1. inode[next] \in InodeType
      BY <2>1 DEF TypeOK
    <3> QED
      BY <2>2, <3>1 DEF InodeType
  <2>5. inode' \in [File -> InodeType]
    BY <2>1, <2>3, <2>4 DEF TypeOK
  <2> QED
    BY <1>6, <2>1, <2>5, NextFileTyped DEF TypeOK, ReuseTail
<1>7. CASE AddTail
  <2> DEFINE t   == TailOf(got[next])
             buf == fragBuf \o t
             ref == NewRef
  <2>1. NextFile /\ pc = "tail" /\ next \in File /\ got[next] \in Seq(Byte)
    BY <1>7 DEF TypeOK, AddTail
  <2>2. t \in Seq(Byte)
    BY <2>1, TailType
  <2>3. buf \in Seq(Byte) /\ ref \in Ref
    BY <2>2 DEF TypeOK, Ref, NewRef
  <2>4. inode' = [inode EXCEPT ![next].fragIdx = ref.idx, ![next].fragOff = ref.off]
    BY <1>7 DEF AddTail
  <2>5. UNCHANGED <<disk, fileSize, got>>
    BY <1>7 DEF AddTail
  <2>6. \/ /\ fragBuf' = buf
           /\ fragDedup' = Remember(fragDedup, t, ref)
           /\ UNCHANGED <<out, fragEntries>>
        \/ /\ FlushFragments(buf)
           /\ fragBuf' = <<>>
           /\ fragDedup' = [x \in {} |-> ref]
    BY <1>7 DEF AddTail
  <2> HIDE DEF t, buf, ref
  <2>7. [inode[next] EXCEPT !.fragIdx = ref.idx, !.fragOff = ref.off] \in InodeType
    <3>1. inode[next] \in InodeType
      BY <2>1 DEF TypeOK
    <3> QED
      BY <2>3, <3>1 DEF InodeType, Ref
  <2>8. inode' \in [File -> InodeType]
    BY <2>1, <2>4, <2>7 DEF TypeOK
  <2>9. /\ fragBuf' \in Seq(Byte)
        /\ out' \in Seq(ExtentType)
        /\ fragEntries' \in Seq(EntryType)
    <3>1. CASE fragBuf' = buf /\ UNCHANGED <<out, fragEntries>>
      BY <2>3, <3>1 DEF TypeOK
    <3>2. CASE fragBuf' = <<>> /\ FlushFragments(buf)
      BY <2>3, <3>2, FlushTyped
    <3> QED
      BY <2>6, <3>1, <3>2
  <2>10. /\ DOMAIN fragDedup' \subseteq Seq(Byte)
         /\ \A x \in DOMAIN fragDedup' : fragDedup'[x] \in Ref
    BY <2>2, <2>3, <2>6 DEF TypeOK, Remember
  <2> QED
    BY <2>1, <2>5, <2>8, <2>9, <2>10, NextFileTyped DEF TypeOK
<1>8. CASE Finish
  <2>1. out' \in Seq(ExtentType) /\ fragEntries' \in Seq(EntryType)
    BY <1>8, FlushTyped DEF TypeOK, Finish
  <2> QED
    BY <1>8, <2>1 DEF TypeOK, Finish
<1>9. CASE Rewrite
  <2>1. disk' \in [File -> [data : Seq(Byte), readable : BOOLEAN]]
    BY <1>9, PackerAssumption DEF TypeOK, Rewrite
  <2> QED
    BY <1>9, <2>1 DEF TypeOK, Rewrite
<1>10. CASE UNCHANGED vars
  BY <1>10 DEF TypeOK, vars
<1> QED
  BY <1>1, <1>2, <1>3, <1>4, <1>5, <1>6, <1>7, <1>8, <1>9, <1>10 DEF Next, Pack

(* The variables of the packer keep their types, whatever the directory    *)
(* holds and whoever writes to it meanwhile (writer.go, phase 1).          *)
THEOREM TypeCorrect == Spec => []TypeOK
BY TypeInit, TypeStep, PTL DEF Spec

-----------------------------------------------------------------------------
(* The order of the loop.                                                  *)

(* A step leaves alone the files the loop has passed. *)
LEMMA PassedKept ==
  ASSUME TypeOK, [Next]_vars, NEW f \in File, f < next
  PROVE  got'[f] = got[f] /\ inode'[f] = inode[f] /\ f < next'
<1>1. f \in Int /\ next \in Int /\ f # next
  BY DEF TypeOK, File
<1>2. CASE SkipFile
  BY <1>1, <1>2 DEF SkipFile
<1>3. CASE ReadFile
  BY <1>1, <1>3 DEF TypeOK, ReadFile
<1>4. CASE WriteBlock
  BY <1>1, <1>4 DEF TypeOK, WriteBlock
<1>5. CASE EndBlocks
  BY <1>5 DEF EndBlocks
<1>6. CASE NoTail
  BY <1>1, <1>6 DEF NoTail, NextFile
<1>7. CASE ReuseTail
  BY <1>1, <1>7 DEF TypeOK, ReuseTail, NextFile
<1>8. CASE AddTail
  BY <1>1, <1>8 DEF TypeOK, AddTail, NextFile
<1>9. CASE Finish
  BY <1>9 DEF Finish
<1>10. CASE Rewrite
  BY <1>10 DEF Rewrite
<1>11. CASE UNCHANGED vars
  BY <1>11 DEF vars
<1> QED
  BY <1>2, <1>3, <1>4, <1>5, <1>6, <1>7, <1>8, <1>9, <1>10, <1>11 DEF Next, Pack

(* A file becomes packed only by being the one the loop is at. *)
LEMMA PackedNext ==
  ASSUME TypeOK, [Next]_vars, NEW f \in File, f < next'
  PROVE  \/ f < next
         \/ f = next /\ (SkipFile \/ NoTail \/ ReuseTail \/ AddTail)
<1>1. f \in Int /\ next \in Int
  BY DEF TypeOK, File
<1>2. \/ next' = next
      \/ next' = next + 1 /\ (SkipFile \/ NoTail \/ ReuseTail \/ AddTail)
  BY DEF Next, Pack, SkipFile, ReadFile, WriteBlock, EndBlocks, NoTail,
         ReuseTail, AddTail, NextFile, Finish, Rewrite, vars
<1> QED
  BY <1>1, <1>2

(* Files the loop has not reached keep their fresh nodes. *)
LEMMA FreshStep ==
  ASSUME TypeOK, [Next]_vars, AheadIsFresh
  PROVE  AheadIsFresh'
<1> SUFFICES ASSUME NEW f \in File
             PROVE  /\ Ahead(f)' => got'[f] = <<>> /\ inode'[f].words = <<>>
                    /\ f >= next' => inode'[f].fragIdx = NoFragment
  BY DEF AheadIsFresh
<1> USE DEF TypeOK, File
<1>1. f \in Int /\ next \in Int
  OBVIOUS
<1>2. /\ Ahead(f) => got[f] = <<>> /\ inode[f].words = <<>>
      /\ f >= next => inode[f].fragIdx = NoFragment
  BY DEF AheadIsFresh
<1>3. CASE SkipFile
  BY <1>1, <1>2, <1>3 DEF SkipFile, Ahead
<1>4. CASE ReadFile
  <2>1. /\ pc' = "blocks" /\ next' = next
        /\ got' = [got EXCEPT ![next] = disk[next].data]
        /\ inode' = [inode EXCEPT ![next].start = ImageLen(out)]
    BY <1>4 DEF ReadFile
  <2>2. inode'[f].fragIdx = inode[f].fragIdx
    BY <2>1 DEF InodeType
  <2>3. f # next => inode'[f] = inode[f] /\ got'[f] = got[f]
    BY <2>1
  <2> QED
    BY <1>1, <1>2, <2>1, <2>2, <2>3 DEF Ahead
<1>5. CASE WriteBlock
  <2>1. /\ pc' = "blocks" /\ next' = next /\ got' = got
        /\ \E w : inode' = [inode EXCEPT ![next].words = w]
    BY <1>5 DEF WriteBlock
  <2>2. inode'[f].fragIdx = inode[f].fragIdx
    BY <2>1 DEF InodeType
  <2>3. f # next => inode'[f] = inode[f]
    BY <2>1
  <2> QED
    BY <1>1, <1>2, <2>1, <2>2, <2>3 DEF Ahead
<1>6. CASE EndBlocks
  BY <1>2, <1>6 DEF EndBlocks, Ahead
<1>7. CASE NoTail
  BY <1>1, <1>2, <1>7 DEF NoTail, NextFile, Ahead
<1>8. CASE ReuseTail
  <2>1. /\ pc' = "open" /\ next' = next + 1 /\ got' = got
        /\ \E idx, off : inode' = [inode EXCEPT ![next].fragIdx = idx, ![next].fragOff = off]
    BY <1>8 DEF ReuseTail, NextFile
  <2>2. f # next => inode'[f] = inode[f]
    BY <2>1
  <2> QED
    BY <1>1, <1>2, <2>1, <2>2 DEF Ahead
<1>9. CASE AddTail
  <2>1. /\ pc' = "open" /\ next' = next + 1 /\ got' = got
        /\ \E idx, off : inode' = [inode EXCEPT ![next].fragIdx = idx, ![next].fragOff = off]
    BY <1>9 DEF AddTail, NextFile
  <2>2. f # next => inode'[f] = inode[f]
    BY <2>1
  <2> QED
    BY <1>1, <1>2, <2>1, <2>2 DEF Ahead
<1>10. CASE Finish
  BY <1>2, <1>10 DEF Finish, Ahead
<1>11. CASE Rewrite
  BY <1>2, <1>11 DEF Rewrite, Ahead
<1>12. CASE UNCHANGED vars
  BY <1>2, <1>12 DEF vars, Ahead
<1> QED
  BY <1>3, <1>4, <1>5, <1>6, <1>7, <1>8, <1>9, <1>10, <1>11, <1>12 DEF Next, Pack

(* The size words of a node are as many as its full blocks. *)
LEMMA WordStep ==
  ASSUME TypeOK, [Next]_vars, AheadIsFresh, WordPerBlock
  PROVE  WordPerBlock'
<1> SUFFICES ASSUME NEW f \in File, Cut(f)'
             PROVE  Len(inode'[f].words) = FullBlocks(got'[f])
  BY DEF WordPerBlock, FullBlocks
<1>1. f \in Int /\ next \in Int
  BY DEF TypeOK, File
<1>2. CASE f < next
  BY <1>2, PassedKept DEF WordPerBlock, Cut
<1>3. CASE f = next /\ pc = "tail"
  <2>1. Len(inode[f].words) = FullBlocks(got[f])
    BY <1>3 DEF WordPerBlock, Cut
  <2>2. got' = got /\ inode'[f].words = inode[f].words
    BY <1>3 DEF TypeOK, InodeType, Next, Pack, SkipFile, ReadFile, WriteBlock,
                EndBlocks, NoTail, ReuseTail, AddTail, Finish, Rewrite, vars
  <2> QED
    BY <2>1, <2>2
<1>4. CASE ~Cut(f)
  <2>1. \/ SkipFile /\ f = next
        \/ EndBlocks /\ f = next
    BY <1>1, <1>4 DEF Cut, TypeOK, Next, Pack, SkipFile, ReadFile, WriteBlock,
                EndBlocks, NoTail, ReuseTail, AddTail, NextFile, Finish, Rewrite,
                vars
  <2>2. CASE SkipFile /\ f = next
    <3>1. got'[f] = <<>> /\ inode'[f].words = <<>>
      BY <2>2 DEF SkipFile, AheadIsFresh, Ahead
    <3>2. FullBlocks(<<>>) = 0
      BY PackerAssumption, SMT DEF FullBlocks
    <3> QED
      BY <3>1, <3>2
  <2>3. CASE EndBlocks /\ f = next
    BY <2>3 DEF EndBlocks
  <2> QED
    BY <2>1, <2>2, <2>3
<1> QED
  BY <1>2, <1>3, <1>4 DEF Cut

-----------------------------------------------------------------------------
(* The fragment blocks.                                                    *)

(* A fragment block that is written can be found by its table entry. *)
LEMMA FlushFinds ==
  ASSUME TypeOK, NEW buf \in Seq(Byte), FlushFragments(buf),
         NEW off \in Nat, NEW t \in Seq(Byte), Holds(buf, off, t)
  PROVE  /\ Len(fragEntries') = Len(fragEntries) + 1
         /\ \E e \in DOMAIN out' :
              /\ out'[e].start = fragEntries'[Len(fragEntries) + 1].start
              /\ out'[e].word = fragEntries'[Len(fragEntries) + 1].word
              /\ Holds(out'[e].data, off, t)
<1>1. PICK s \in StoredLengths(buf) :
        /\ out' = Append(out, Extent(out, s, buf))
        /\ fragEntries' = Append(fragEntries,
                            [start |-> ImageLen(out), word |-> SizeWord(s, buf)])
  BY DEF FlushFragments
<1>2. out \in Seq(ExtentType) /\ fragEntries \in Seq(EntryType)
  BY DEF TypeOK
<1>3. out'[Len(out) + 1] = Extent(out, s, buf) /\ Len(out) + 1 \in DOMAIN out'
  BY <1>1, <1>2
<1>4. /\ fragEntries'[Len(fragEntries) + 1] =
           [start |-> ImageLen(out), word |-> SizeWord(s, buf)]
      /\ Len(fragEntries') = Len(fragEntries) + 1
  BY <1>1, <1>2
<1>5. Holds(Extent(out, s, buf).data, off, t)
  BY DEF Extent
<1> QED
  BY <1>3, <1>4, <1>5 DEF Extent

(* Writing one leaves the ones written before where they were. *)
LEMMA WrittenKept ==
  ASSUME TypeOK, NEW i \in Nat, i < Len(fragEntries),
         NEW off \in Nat, NEW t \in Seq(Byte), HeldAt(i, off, t),
         \/ out' = out
         \/ \E x \in ExtentType : out' = Append(out, x),
         \/ fragEntries' = fragEntries
         \/ \E y \in EntryType : fragEntries' = Append(fragEntries, y)
  PROVE  HeldAt(i, off, t)'
<1>1. out \in Seq(ExtentType) /\ fragEntries \in Seq(EntryType)
  BY DEF TypeOK
<1>2. PICK e \in DOMAIN out : /\ out[e].start = fragEntries[i + 1].start
                              /\ out[e].word = fragEntries[i + 1].word
                              /\ Holds(out[e].data, off, t)
  BY DEF HeldAt
<1>3. e \in DOMAIN out' /\ out'[e] = out[e]
  <2>1. e \in 1..Len(out)
    BY <1>1
  <2>2. CASE \E x \in ExtentType : out' = Append(out, x)
    BY <1>1, <2>1, <2>2
  <2> QED
    BY <2>2
<1>4. fragEntries'[i + 1] = fragEntries[i + 1] /\ i < Len(fragEntries')
  BY <1>1
<1> QED
  BY <1>2, <1>3, <1>4 DEF HeldAt, Holds

(* What flushing adds to the image and to the fragment table. *)
LEMMA FlushAppends ==
  ASSUME TypeOK, NEW buf \in Seq(Byte), FlushFragments(buf)
  PROVE  /\ \E x \in ExtentType : out' = Append(out, x) /\ x.data = buf
         /\ \E y \in EntryType : fragEntries' = Append(fragEntries, y)
<1>1. PICK s \in StoredLengths(buf) :
        /\ out' = Append(out, Extent(out, s, buf))
        /\ fragEntries' = Append(fragEntries,
                            [start |-> ImageLen(out), word |-> SizeWord(s, buf)])
  BY DEF FlushFragments
<1>2. out \in Seq(ExtentType)
  BY DEF TypeOK
<1>3. Extent(out, s, buf) \in ExtentType /\ Extent(out, s, buf).data = buf
  BY <1>2, ExtentTyped DEF Extent
<1>4. [start |-> ImageLen(out), word |-> SizeWord(s, buf)] \in EntryType
  BY <1>2, ImageLenType, StoredType DEF EntryType
<1> QED
  BY <1>1, <1>3, <1>4

(* Flushing a buffer that holds t where the fragment block being filled    *)
(* did keeps every reference into any fragment block good.                 *)
LEMMA FlushKeeps ==
  ASSUME TypeOK, NEW buf \in Seq(Byte), FlushFragments(buf),
         NEW i \in Nat, NEW off \in Nat, NEW t \in Seq(Byte),
         HeldAt(i, off, t),
         Holds(fragBuf, off, t) => Holds(buf, off, t)
  PROVE  HeldAt(i, off, t)' /\ i < Len(fragEntries')
<1>1. fragEntries \in Seq(EntryType)
  BY DEF TypeOK
<1>2. CASE i < Len(fragEntries)
  <2>1. HeldAt(i, off, t)'
    BY <1>2, FlushAppends, WrittenKept
  <2>2. Len(fragEntries) < Len(fragEntries')
    BY <1>1, FlushAppends
  <2> QED
    BY <1>1, <1>2, <2>1, <2>2
<1>3. CASE i = Len(fragEntries) /\ Holds(fragBuf, off, t)
  <2>1. Holds(buf, off, t)
    BY <1>3
  <2>2. /\ Len(fragEntries') = i + 1
        /\ \E e \in DOMAIN out' : /\ out'[e].start = fragEntries'[i + 1].start
                                  /\ out'[e].word = fragEntries'[i + 1].word
                                  /\ Holds(out'[e].data, off, t)
    BY <1>3, <2>1, FlushFinds
  <2> QED
    BY <2>2 DEF HeldAt, Holds
<1> QED
  BY <1>2, <1>3 DEF HeldAt

(* No step of the writer loses a tail that is in some fragment block. *)
LEMMA FragmentKept ==
  ASSUME TypeOK, [Next]_vars, NEW i \in Nat, NEW off \in Nat,
         NEW t \in Seq(Byte), HeldAt(i, off, t)
  PROVE  HeldAt(i, off, t)'
<1>1. CASE UNCHANGED <<out, fragEntries, fragBuf>>
  BY <1>1 DEF HeldAt, Holds
<1>2. CASE WriteBlock
  <2>1. UNCHANGED <<fragEntries, fragBuf>>
    BY <1>2 DEF WriteBlock
  <2>2. \E x \in ExtentType : out' = Append(out, x)
    <3>1. next \in File /\ got[next] \in Seq(Byte) /\ inode[next].words \in Seq(Word)
      BY <1>2 DEF TypeOK, WriteBlock, InodeType
    <3> DEFINE k == Len(inode[next].words) + 1
    <3>2. k \in Nat /\ k >= 1 /\ k <= FullBlocks(got[next])
      BY <1>2, <3>1 DEF WriteBlock
    <3>3. Block(got[next], k) \in Seq(Byte)
      BY <3>1, <3>2, Split, BlockType
    <3>4. PICK s \in StoredLengths(Block(got[next], k)) :
            out' = Append(out, Extent(out, s, Block(got[next], k)))
      BY <1>2 DEF WriteBlock
    <3>5. Extent(out, s, Block(got[next], k)) \in ExtentType
      BY <3>3, ExtentTyped DEF TypeOK
    <3> QED
      BY <3>4, <3>5
  <2>3. CASE i < Len(fragEntries)
    BY <2>1, <2>2, <2>3, WrittenKept
  <2>4. CASE ~(i < Len(fragEntries))
    BY <2>1, <2>4 DEF HeldAt, Holds
  <2> QED
    BY <2>3, <2>4
<1>3. CASE AddTail
  <2> DEFINE u   == TailOf(got[next])
             buf == fragBuf \o u
  <2>1. u \in Seq(Byte) /\ fragBuf \in Seq(Byte) /\ buf \in Seq(Byte)
    BY <1>3, TailType DEF TypeOK, AddTail
  <2>2. Holds(fragBuf, off, t) => Holds(buf, off, t)
    BY <2>1, HoldsGrow
  <2>3. \/ fragBuf' = buf /\ UNCHANGED <<out, fragEntries>>
        \/ FlushFragments(buf)
    BY <1>3 DEF AddTail
  <2> HIDE DEF u, buf
  <2>4. CASE fragBuf' = buf /\ UNCHANGED <<out, fragEntries>>
    BY <2>2, <2>4 DEF HeldAt, Holds
  <2>5. CASE FlushFragments(buf)
    BY <2>1, <2>2, <2>5, FlushKeeps
  <2> QED
    BY <2>3, <2>4, <2>5
<1>4. CASE Finish
  <2>1. fragBuf \in Seq(Byte)
    BY DEF TypeOK
  <2>2. CASE FlushFragments(fragBuf)
    BY <2>1, <2>2, FlushKeeps
  <2>3. CASE UNCHANGED <<out, fragEntries, fragBuf>>
    BY <1>1, <2>3
  <2> QED
    BY <1>4, <2>2, <2>3 DEF Finish
<1> QED
  BY <1>1, <1>2, <1>3, <1>4 DEF Next, Pack, SkipFile, ReadFile, EndBlocks, NoTail,
     ReuseTail, Rewrite, vars

(* A tail that is added to the fragment block can be found there. *)
LEMMA AddedTailHolds ==
  ASSUME TypeOK, AddTail, NEW i \in Nat, NEW off \in Nat, NEW t \in Seq(Byte),
         i = Len(fragEntries), off = Len(fragBuf), t = TailOf(got[next])
  PROVE  HeldAt(i, off, t)'
<1> DEFINE buf == fragBuf \o t
<1>1. fragBuf \in Seq(Byte) /\ buf \in Seq(Byte)
  BY DEF TypeOK
<1>2. Holds(buf, off, t)
  BY <1>1, HoldsEnd
<1>3. \/ fragBuf' = buf /\ UNCHANGED fragEntries
      \/ FlushFragments(buf)
  BY DEF AddTail
<1> HIDE DEF buf
<1>4. CASE fragBuf' = buf /\ UNCHANGED fragEntries
  BY <1>2, <1>4 DEF HeldAt, Holds
<1>5. CASE FlushFragments(buf)
  <2>1. /\ Len(fragEntries') = i + 1
        /\ \E e \in DOMAIN out' : /\ out'[e].start = fragEntries'[i + 1].start
                                  /\ out'[e].word = fragEntries'[i + 1].word
                                  /\ Holds(out'[e].data, off, t)
    BY <1>1, <1>2, <1>5, FlushFinds
  <2>2. PICK e \in DOMAIN out' : /\ out'[e].start = fragEntries'[i + 1].start
                                 /\ out'[e].word = fragEntries'[i + 1].word
                                 /\ Holds(out'[e].data, off, t)
    BY <2>1
  <2>3. i < Len(fragEntries')
    BY <2>1
  <2> QED
    BY <2>2, <2>3, SMTT(30) DEF HeldAt, Holds
<1> QED
  BY <1>3, <1>4, <1>5

(* Each step keeps the tails of packed files where their inodes say. *)
LEMMA TailsStep ==
  ASSUME TypeOK, TypeOK', [Next]_vars, AheadIsFresh, DedupCurrent, TailsPlaced
  PROVE  TailsPlaced'
<1> SUFFICES ASSUME NEW f \in File, f < next'
             PROVE  IF Remainder(got'[f]) = 0
                      THEN inode'[f].fragIdx = NoFragment
                      ELSE /\ inode'[f].fragIdx # NoFragment
                           /\ HeldAt(inode[f].fragIdx, inode[f].fragOff,
                                            TailOf(got[f]))'
  BY DEF TailsPlaced, Packed, Remainder
<1>1. got[f] \in Seq(Byte) /\ inode[f] \in InodeType
  BY DEF TypeOK
<1>2. CASE f < next
  <2>1. got'[f] = got[f] /\ inode'[f] = inode[f]
    BY <1>2, PassedKept
  <2>2. CASE Remainder(got[f]) = 0
    BY <1>2, <2>1, <2>2 DEF TailsPlaced, Packed
  <2>3. CASE Remainder(got[f]) # 0
    <3>1. /\ inode[f].fragIdx # NoFragment
          /\ HeldAt(inode[f].fragIdx, inode[f].fragOff, TailOf(got[f]))
      BY <1>2, <2>3 DEF TailsPlaced, Packed
    <3>2. /\ inode[f].fragIdx \in Nat /\ inode[f].fragOff \in Nat
          /\ TailOf(got[f]) \in Seq(Byte)
      BY <1>1, <3>1, TailType DEF InodeType
    <3> DEFINE i   == inode[f].fragIdx
               off == inode[f].fragOff
               t   == TailOf(got[f])
    <3> HIDE DEF i, off, t
    <3>3. HeldAt(i, off, t)'
      <4>1. i \in Nat /\ off \in Nat /\ t \in Seq(Byte) /\ HeldAt(i, off, t)
        BY <3>1, <3>2 DEF i, off, t
      <4>2. \A ii \in Nat, oo \in Nat, tt \in Seq(Byte) :
              HeldAt(ii, oo, tt) => HeldAt(ii, oo, tt)'
        BY FragmentKept
      <4>3. i' = i /\ off' = off /\ t' = t
        BY <2>1 DEF i, off, t, TailOf, Remainder
      <4> QED
        BY <4>1, <4>2, <4>3
    <3> QED
      BY <2>1, <2>3, <3>1, <3>3 DEF i, off, t
  <2> QED
    BY <2>2, <2>3
<1>3. CASE f = next /\ SkipFile
  <2>1. got'[f] = <<>> /\ inode'[f].fragIdx = NoFragment
    BY <1>3 DEF SkipFile, AheadIsFresh, Ahead, TypeOK, File
  <2>2. Remainder(<<>>) = 0
    BY PackerAssumption, SMT DEF Remainder
  <2> QED
    BY <2>1, <2>2
<1>4. CASE f = next /\ NoTail
  BY <1>4 DEF NoTail, AheadIsFresh, TypeOK, File
<1>5. CASE f = next /\ ReuseTail
  <2> DEFINE t   == TailOf(got[f])
             ref == fragDedup[t]
  <2>1. /\ t \in DOMAIN fragDedup
        /\ inode' = [inode EXCEPT ![f].fragIdx = ref.idx, ![f].fragOff = ref.off]
        /\ UNCHANGED <<got, fragEntries, fragBuf, out>>
        /\ pc = "tail" /\ Remainder(got[f]) > 0
    BY <1>5 DEF ReuseTail
  <2>2. ref.idx = Len(fragEntries) /\ Holds(fragBuf, ref.off, t)
    BY <2>1 DEF DedupCurrent
  <2>3. inode'[f].fragIdx = Len(fragEntries) /\ inode'[f].fragOff = ref.off
    BY <1>1, <2>1, <2>2 DEF TypeOK, InodeType
  <2>4. Len(fragEntries) \in Nat
    BY DEF TypeOK
  <2>5. ~(Len(fragEntries) < Len(fragEntries)) /\ Len(fragEntries) # NoFragment
    BY <2>4 DEF NoFragment
  <2>6. Remainder(got'[f]) # 0
    BY <1>1, <2>1, Split
  <2> HIDE DEF ref
  <2> QED
    BY <2>1, <2>2, <2>3, <2>5, <2>6 DEF HeldAt, Holds, TailOf, Remainder
<1>6. CASE f = next /\ AddTail
  <2> DEFINE i   == Len(fragEntries)
             off == Len(fragBuf)
             t   == TailOf(got[f])
  <2>1. /\ i \in Nat /\ off \in Nat /\ t \in Seq(Byte)
        /\ got' = got /\ Remainder(got[f]) > 0
    BY <1>1, <1>6, TailType DEF TypeOK, AddTail
  <2>2. Remainder(got'[f]) # 0 /\ i # NoFragment
    BY <1>1, <2>1, Split DEF NoFragment
  <2>3. inode'[f].fragIdx = i /\ inode'[f].fragOff = off
    BY <1>1, <1>6 DEF AddTail, TypeOK, InodeType, NewRef
  <2>4. \A ii \in Nat, oo \in Nat, tt \in Seq(Byte) :
          ii = i /\ oo = off /\ tt = t => HeldAt(ii, oo, tt)'
    BY <1>6, AddedTailHolds
  <2>5. TailOf(got'[f]) = t
    BY <2>1
  <2> HIDE DEF i, off, t
  <2> QED
    BY <2>1, <2>2, <2>3, <2>4, <2>5
<1> QED
  BY <1>2, <1>3, <1>4, <1>5, <1>6, PackedNext

(* Between files the fragment block is not full. *)
LEMMA RoomStep ==
  ASSUME TypeOK, [Next]_vars, BufferHasRoom
  PROVE  BufferHasRoom'
<1>1. Len(<<>>) < BlockSize
  BY PackerAssumption
<1>2. CASE AddTail
  BY <1>1, <1>2 DEF AddTail, BufferHasRoom, NextFile
<1>3. CASE Finish
  BY <1>3 DEF Finish, BufferHasRoom
<1>4. CASE UNCHANGED fragBuf /\ (pc' # "done" => pc # "done")
  BY <1>4 DEF BufferHasRoom
<1> QED
  BY <1>2, <1>3, <1>4 DEF Next, Pack, SkipFile, ReadFile, WriteBlock, EndBlocks,
     NoTail, ReuseTail, Rewrite, NextFile, vars

(* A remembered tail is in the block being filled, where it is             *)
(* remembered.                                                             *)
LEMMA DedupStep ==
  ASSUME TypeOK, [Next]_vars, DedupCurrent
  PROVE  DedupCurrent'
<1>1. CASE UNCHANGED <<fragBuf, fragEntries, fragDedup>> /\ (pc' # "done" => pc # "done")
  BY <1>1 DEF DedupCurrent, Holds
<1>2. CASE Finish
  BY <1>2 DEF Finish, DedupCurrent
<1>3. CASE AddTail
  <2> DEFINE t   == TailOf(got[next])
             buf == fragBuf \o t
             ref == NewRef
  <2>1. t \in Seq(Byte) /\ fragBuf \in Seq(Byte) /\ pc # "done"
    BY <1>3, TailType DEF TypeOK, AddTail
  <2>2. CASE fragDedup' = [x \in {} |-> ref]
    BY <2>2 DEF DedupCurrent
  <2>3. CASE /\ fragBuf' = buf
             /\ fragDedup' = Remember(fragDedup, t, ref)
             /\ UNCHANGED <<out, fragEntries>>
    <3> SUFFICES ASSUME NEW x \in DOMAIN fragDedup'
                 PROVE  /\ fragDedup'[x].idx = Len(fragEntries')
                        /\ Holds(fragBuf', fragDedup'[x].off, x)
      BY DEF DedupCurrent, Holds
    <3>1. CASE x = t
      <4>1. fragDedup'[x] = ref
        BY <2>3, <3>1 DEF Remember
      <4>2. Holds(buf, Len(fragBuf), t)
        BY <2>1, HoldsEnd
      <4> QED
        BY <2>3, <3>1, <4>1, <4>2 DEF NewRef
    <3>2. CASE x # t
      <4>1. x \in DOMAIN fragDedup /\ fragDedup'[x] = fragDedup[x]
        BY <2>3, <3>2 DEF Remember
      <4>2. x \in Seq(Byte) /\ fragDedup[x].off \in Nat
        BY <4>1 DEF TypeOK, Ref
      <4>3. fragDedup[x].idx = Len(fragEntries) /\ Holds(fragBuf, fragDedup[x].off, x)
        BY <2>1, <4>1 DEF DedupCurrent
      <4>4. Holds(buf, fragDedup[x].off, x)
        BY <2>1, <4>2, <4>3, HoldsGrow
      <4> QED
        BY <2>3, <4>1, <4>3, <4>4
    <3> QED
      BY <3>1, <3>2
  <2> QED
    BY <1>3, <2>2, <2>3 DEF AddTail
<1> QED
  BY <1>1, <1>2, <1>3 DEF Next, Pack, SkipFile, ReadFile, WriteBlock, EndBlocks,
     NoTail, ReuseTail, Rewrite, NextFile, vars

(* No inode refers to a fragment block that has not been started. *)
LEMMA StartedOnly ==
  ASSUME TypeOK, TailsPlaced, NEW f \in File, f < next
  PROVE  inode[f].fragIdx <= Len(fragEntries)
<1>1. inode[f].fragIdx \in Int /\ Len(fragEntries) \in Nat
  BY DEF TypeOK, InodeType, NoFragment
<1>2. CASE Remainder(got[f]) = 0
  BY <1>1, <1>2 DEF TailsPlaced, Packed, NoFragment
<1>3. CASE Remainder(got[f]) # 0
  BY <1>1, <1>3 DEF TailsPlaced, Packed, HeldAt
<1> QED
  BY <1>2, <1>3

(* Each tail in the block being filled is remembered. *)
LEMMA CompleteStep ==
  ASSUME TypeOK, [Next]_vars, AheadIsFresh, TailsPlaced, DedupComplete
  PROVE  DedupComplete'
<1> SUFFICES ASSUME pc' # "done", NEW f \in File, f < next',
                    inode'[f].fragIdx = Len(fragEntries')
             PROVE  /\ TailOf(got'[f]) \in DOMAIN fragDedup'
                    /\ fragDedup'[TailOf(got'[f])].off = inode'[f].fragOff
  BY DEF DedupComplete, Packed, TailOf, Remainder
<1>1. inode[f] \in InodeType /\ Len(fragEntries) \in Nat /\ next \in Int /\ f \in Int
  BY DEF TypeOK, File
<1>2. CASE f < next
  <2>1. /\ got'[f] = got[f] /\ inode'[f] = inode[f]
        /\ inode[f].fragIdx <= Len(fragEntries)
    BY <1>2, PassedKept, StartedOnly
  <2>2. CASE UNCHANGED <<fragEntries, fragDedup>> /\ pc # "done"
    BY <1>2, <2>1, <2>2 DEF DedupComplete, Packed
  <2>3. CASE AddTail
    <3> DEFINE t == TailOf(got[next])
               ref == NewRef
               buf == fragBuf \o t
    <3>0. buf \in Seq(Byte)
      BY <2>3, TailType DEF TypeOK, AddTail
    <3>1. \/ /\ fragDedup' = Remember(fragDedup, t, ref)
             /\ UNCHANGED fragEntries
          \/ FlushFragments(buf)
      BY <2>3 DEF AddTail
    <3>2. t \notin DOMAIN fragDedup /\ pc # "done"
      BY <2>3 DEF AddTail
    <3> HIDE DEF t, ref, buf
    <3>3. CASE /\ fragDedup' = Remember(fragDedup, t, ref)
               /\ UNCHANGED fragEntries
      <4>1. /\ TailOf(got[f]) \in DOMAIN fragDedup
            /\ fragDedup[TailOf(got[f])].off = inode[f].fragOff
        BY <1>2, <2>1, <3>2, <3>3 DEF DedupComplete, Packed
      <4> QED
        BY <2>1, <3>2, <3>3, <4>1 DEF Remember
    <3>4. CASE FlushFragments(buf)
      <4>1. Len(fragEntries') = Len(fragEntries) + 1
        BY <3>0, <3>4, FlushAppends DEF TypeOK
      <4> QED
        BY <1>1, <2>1, <4>1 DEF InodeType, NoFragment
    <3> QED
      BY <3>1, <3>3, <3>4
  <2> QED
    BY <2>2, <2>3 DEF Next, Pack, SkipFile, ReadFile, WriteBlock, EndBlocks,
       NoTail, ReuseTail, Finish, Rewrite, NextFile, vars
<1>3. CASE f = next /\ (SkipFile \/ NoTail)
  <2>1. inode'[f].fragIdx = NoFragment /\ fragEntries' = fragEntries
    BY <1>1, <1>3 DEF AheadIsFresh, SkipFile, NoTail
  <2>2. NoFragment # Len(fragEntries)
    BY <1>1 DEF NoFragment
  <2> QED
    BY <2>1, <2>2
<1>4. CASE f = next /\ ReuseTail
  <2>1. /\ TailOf(got[f]) \in DOMAIN fragDedup
        /\ inode' = [inode EXCEPT ![f].fragIdx = fragDedup[TailOf(got[f])].idx,
                                  ![f].fragOff = fragDedup[TailOf(got[f])].off]
        /\ got' = got /\ fragDedup' = fragDedup
    BY <1>4 DEF ReuseTail
  <2>2. inode'[f].fragOff = fragDedup[TailOf(got[f])].off
    BY <1>1, <2>1 DEF TypeOK, InodeType
  <2> QED
    BY <2>1, <2>2
<1>5. CASE f = next /\ AddTail
  <2> DEFINE t == TailOf(got[f])
             ref == NewRef
             buf == fragBuf \o t
  <2>1. /\ inode' = [inode EXCEPT ![f].fragIdx = ref.idx, ![f].fragOff = ref.off]
        /\ got' = got
    BY <1>5 DEF AddTail
  <2>2. inode'[f].fragIdx = Len(fragEntries) /\ inode'[f].fragOff = Len(fragBuf)
    BY <1>1, <2>1 DEF TypeOK, InodeType, NewRef
  <2>3. \/ fragDedup' = Remember(fragDedup, t, ref)
        \/ FlushFragments(buf)
    BY <1>5 DEF AddTail
  <2>4. buf \in Seq(Byte)
    BY <1>5, TailType DEF TypeOK, AddTail
  <2> HIDE DEF t, buf
  <2>5. CASE fragDedup' = Remember(fragDedup, t, ref)
    BY <2>1, <2>2, <2>5 DEF Remember, t, NewRef
  <2>6. CASE FlushFragments(buf)
    <3>1. Len(fragEntries') = Len(fragEntries) + 1
      BY <2>4, <2>6, FlushAppends DEF TypeOK
    <3>2. Len(fragEntries) # Len(fragEntries) + 1
      BY <1>1
    <3> QED
      BY <2>2, <3>1, <3>2
  <2> QED
    BY <2>3, <2>5, <2>6
<1> QED
  BY <1>2, <1>3, <1>4, <1>5, PackedNext

(* The reader's limit leaves room for two blocks. *)
LEMMA LimitIsEnough == 2 * BlockSize \in Nat /\ 2 * BlockSize <= DecompressLimit * BlockSize
<1>1. /\ BlockSize \in Nat /\ BlockSize >= 1
      /\ DecompressLimit \in Nat /\ DecompressLimit >= 2
  BY PackerAssumption
<1> QED
  BY <1>1

(* What is written at once fits two blocks: a full block, or a fragment    *)
(* block that one tail took over the block size.                           *)
LEMMA LimitStep ==
  ASSUME TypeOK, [Next]_vars, BufferHasRoom, WithinDecompressLimit
  PROVE  WithinDecompressLimit'
<1>1. out \in Seq(ExtentType) /\ BlockSize \in Nat /\ BlockSize >= 1
  BY PackerAssumption DEF TypeOK
<1>2. ASSUME NEW x \in ExtentType, out' = Append(out, x), Len(x.data) <= 2 * BlockSize
      PROVE  WithinDecompressLimit'
  <2> SUFFICES ASSUME NEW e \in DOMAIN out'
               PROVE  Len(out'[e].data) <= DecompressLimit * BlockSize
    BY DEF WithinDecompressLimit
  <2>1. CASE e \in DOMAIN out
    <3>1. out'[e] = out[e]
      BY <1>1, <1>2, <2>1
    <3> QED
      BY <2>1, <3>1 DEF WithinDecompressLimit
  <2>2. CASE e = Len(out) + 1
    <3>1. out'[e] = x
      BY <1>1, <1>2, <2>2
    <3>2. Len(x.data) \in Nat
      BY <1>2 DEF ExtentType
    <3> QED
      <4> DEFINE m == DecompressLimit * BlockSize
                 n == 2 * BlockSize
      <4>1. n \in Nat /\ n <= m /\ m \in Nat
        BY LimitIsEnough, PackerAssumption
      <4>2. Len(x.data) <= n
        BY <1>2
      <4> HIDE DEF m, n
      <4>3. Len(x.data) <= m
        BY <3>2, <4>1, <4>2
      <4> QED
        BY <3>1, <4>3 DEF m
  <2>3. e \in DOMAIN out \/ e = Len(out) + 1
    <3>1. e \in 1..Len(out) + 1 /\ Len(out) \in Nat /\ DOMAIN out = 1..Len(out)
      BY <1>1, <1>2
    <3> QED
      BY <3>1
  <2> QED
    BY <2>1, <2>2, <2>3
<1>3. ASSUME NEW buf \in Seq(Byte), FlushFragments(buf), Len(buf) <= 2 * BlockSize
      PROVE  WithinDecompressLimit'
  BY <1>2, <1>3, FlushAppends
<1>4. CASE UNCHANGED out
  BY <1>4 DEF WithinDecompressLimit
<1>5. CASE WriteBlock
  <2>1. next \in File /\ got[next] \in Seq(Byte) /\ inode[next].words \in Seq(Word)
    BY <1>5 DEF TypeOK, WriteBlock, InodeType
  <2> DEFINE k == Len(inode[next].words) + 1
             d == Block(got[next], k)
  <2>2. k \in Nat /\ k >= 1 /\ k <= FullBlocks(got[next])
    BY <1>5, <2>1 DEF WriteBlock
  <2>3. d \in Seq(Byte) /\ Len(d) = BlockSize
    BY <2>1, <2>2, Split, BlockType
  <2>4. PICK s \in StoredLengths(d) : out' = Append(out, Extent(out, s, d))
    BY <1>5 DEF WriteBlock
  <2> HIDE DEF k, d
  <2>5. Extent(out, s, d) \in ExtentType /\ Extent(out, s, d).data = d
    BY <1>1, <2>3, ExtentTyped DEF Extent
  <2>6. Len(d) <= 2 * BlockSize
    BY <1>1, <2>3
  <2> QED
    BY <1>2, <2>4, <2>5, <2>6
<1>6. CASE AddTail
  <2> DEFINE t == TailOf(got[next])
             buf == fragBuf \o t
  <2>1. next \in File /\ got[next] \in Seq(Byte) /\ pc # "done"
    BY <1>6 DEF TypeOK, AddTail
  <2>2. /\ t \in Seq(Byte) /\ fragBuf \in Seq(Byte) /\ Len(fragBuf) < BlockSize
        /\ Len(t) = Remainder(got[next]) /\ Remainder(got[next]) \in 0..BlockSize - 1
    BY <2>1, TailType, Split DEF TypeOK, BufferHasRoom
  <2>3. buf \in Seq(Byte) /\ Len(buf) <= 2 * BlockSize
    BY <1>1, <2>2
  <2>4. UNCHANGED out \/ FlushFragments(buf)
    BY <1>6 DEF AddTail
  <2> HIDE DEF t, buf
  <2> QED
    BY <1>3, <1>4, <2>3, <2>4
<1>7. CASE Finish
  <2>1. fragBuf \in Seq(Byte) /\ Len(fragBuf) < BlockSize
    BY <1>7 DEF TypeOK, Finish, BufferHasRoom
  <2>2. Len(fragBuf) <= 2 * BlockSize
    BY <1>1, <2>1
  <2> QED
    BY <1>3, <1>4, <1>7, <2>1, <2>2 DEF Finish
<1> QED
  BY <1>4, <1>5, <1>6, <1>7 DEF Next, Pack, SkipFile, ReadFile, EndBlocks, NoTail,
     ReuseTail, Rewrite, vars

(* The file the loop is at shares its tail with the files before it. *)
LEMMA NewTailShared ==
  ASSUME TypeOK, [Next]_vars, AheadIsFresh, DedupCurrent, DedupComplete,
         NEW f \in File, f = next, f < next',
         NEW g \in File, g < next,
         inode'[f].fragIdx # NoFragment,
         inode'[f].fragIdx = inode[g].fragIdx,
         TailOf(got'[f]) = TailOf(got[g])
  PROVE  inode'[f].fragOff = inode[g].fragOff
<1>1. inode[f] \in InodeType /\ next \in Int /\ inode \in [File -> InodeType]
  BY DEF TypeOK
<1>2. CASE SkipFile \/ NoTail
  BY <1>1, <1>2 DEF AheadIsFresh, SkipFile, NoTail
<1>3. CASE ReuseTail
  <2> DEFINE t == TailOf(got[f])
  <2>1. /\ t \in DOMAIN fragDedup /\ got' = got /\ pc # "done"
        /\ inode' = [inode EXCEPT ![f].fragIdx = fragDedup[t].idx,
                                  ![f].fragOff = fragDedup[t].off]
    BY <1>3 DEF ReuseTail
  <2>2. /\ inode'[f].fragIdx = fragDedup[t].idx
        /\ inode'[f].fragOff = fragDedup[t].off
    BY <1>1, <2>1 DEF InodeType
  <2>3. inode[g].fragIdx = Len(fragEntries)
    BY <2>1, <2>2 DEF DedupCurrent
  <2>4. fragDedup[TailOf(got[g])].off = inode[g].fragOff
    BY <2>1, <2>3 DEF DedupComplete, Packed
  <2> QED
    BY <2>1, <2>2, <2>4
<1>4. CASE AddTail
  <2>1. /\ TailOf(got[f]) \notin DOMAIN fragDedup /\ got' = got /\ pc # "done"
        /\ inode' = [inode EXCEPT ![f].fragIdx = Len(fragEntries),
                                  ![f].fragOff = Len(fragBuf)]
    BY <1>4 DEF AddTail, NewRef
  <2>2. inode[g].fragIdx = Len(fragEntries)
    BY <1>1, <2>1 DEF InodeType
  <2> QED
    BY <2>1, <2>2 DEF DedupComplete, Packed
<1> QED
  BY <1>1, <1>2, <1>3, <1>4, PackedNext

(* Each step keeps equal tails of one fragment block shared. *)
LEMMA SharedStep ==
  ASSUME TypeOK, [Next]_vars, AheadIsFresh, DedupCurrent, DedupComplete,
         EqualTailsShared
  PROVE  EqualTailsShared'
<1> SUFFICES ASSUME NEW f \in File, f < next', NEW g \in File, g < next',
                    inode'[f].fragIdx # NoFragment,
                    inode'[f].fragIdx = inode'[g].fragIdx,
                    TailOf(got'[f]) = TailOf(got'[g])
             PROVE  inode'[f].fragOff = inode'[g].fragOff
  BY DEF EqualTailsShared, Packed, TailOf, Remainder
<1>1. (f < next \/ f = next) /\ (g < next \/ g = next)
  BY PackedNext
<1>2. CASE f < next /\ g < next
  BY <1>2, PassedKept DEF EqualTailsShared, Packed
<1>3. CASE f = next /\ g < next
  BY <1>3, PassedKept, NewTailShared
<1>4. CASE f < next /\ g = next
  BY <1>4, PassedKept, NewTailShared
<1>5. CASE f = next /\ g = next
  BY <1>5
<1> QED
  BY <1>1, <1>2, <1>3, <1>4, <1>5

-----------------------------------------------------------------------------
(* The theorems.                                                           *)

(* The inductive invariant holds at the start. *)
LEMMA IInvInit == Init => IInv
<1> SUFFICES ASSUME Init PROVE IInv
  OBVIOUS
<1>1. TypeOK
  BY TypeInit
<1>2. Packed = {}
  BY DEF Init, Packed, File
<1>3. AheadIsFresh
  BY DEF Init, AheadIsFresh, FreshInode
<1>4. WordPerBlock
  BY DEF Init, WordPerBlock, Cut, File
<1>5. BufferHasRoom /\ WithinDecompressLimit /\ DedupCurrent
  BY PackerAssumption DEF Init, BufferHasRoom, WithinDecompressLimit, DedupCurrent
<1>6. DedupComplete /\ TailsPlaced /\ EqualTailsShared
  BY <1>2 DEF DedupComplete, TailsPlaced, EqualTailsShared
<1> QED
  BY <1>1, <1>3, <1>4, <1>5, <1>6 DEF IInv

(* Each step keeps the inductive invariant. *)
LEMMA IInvStep == IInv /\ [Next]_vars => IInv'
<1> SUFFICES ASSUME IInv, [Next]_vars PROVE IInv'
  OBVIOUS
<1>1. TypeOK'
  BY TypeStep DEF IInv
<1>2. AheadIsFresh' /\ WordPerBlock'
  BY FreshStep, WordStep DEF IInv
<1>3. BufferHasRoom' /\ DedupCurrent' /\ DedupComplete'
  BY RoomStep, DedupStep, CompleteStep DEF IInv
<1>4. TailsPlaced'
  BY <1>1, TailsStep DEF IInv
<1>5. WithinDecompressLimit' /\ EqualTailsShared'
  BY LimitStep, SharedStep DEF IInv
<1> QED
  BY <1>1, <1>2, <1>3, <1>4, <1>5 DEF IInv

(* What the proofs below rest on: the types, the fresh nodes ahead of the  *)
(* loop, the fragment block with the map of its tails, and what follows    *)
(* from them, hold together in every state of phase 1.                     *)
THEOREM Invariance == Spec => []IInv
BY IInvInit, IInvStep, PTL DEF Spec

(* Nothing in the data area exceeds what Reader.decompress lets through    *)
(* (squashfs.go:46, writer.go:271).                                        *)
THEOREM AlwaysWithinLimit == Spec => []WithinDecompressLimit
<1>1. IInv => WithinDecompressLimit
  BY DEF IInv
<1> QED
  BY <1>1, Invariance, PTL

(* Files with equal tails in one fragment block share them                 *)
(* (writer.go:261-264).                                                    *)
THEOREM TailsAlwaysShared == Spec => []EqualTailsShared
<1>1. IInv => EqualTailsShared
  BY DEF IInv
<1> QED
  BY <1>1, Invariance, PTL

(* The reader takes from the inode of a file that was read as long as it   *)
(* had been found as many size words as the writer put there.              *)
LEMMA StattedCounts ==
  ASSUME IInv, NEW f \in File, f < next, Len(got[f]) = fileSize[f], fileSize[f] < LengthLimit
  PROVE  /\ ReaderLength(f) = Len(got[f])
         /\ ReaderBlocks(f) = FullBlocks(got[f])
         /\ Len(inode[f].words) = FullBlocks(got[f])
<1>1. Len(inode[f].words) = FullBlocks(got[f])
  BY DEF IInv, WordPerBlock, Cut
<1>2. ~(inode[f].fragIdx = NoFragment /\ Remainder(got[f]) # 0)
  BY DEF IInv, TailsPlaced, Packed
<1>3. got[f] \in Seq(Byte) /\ fileSize[f] \in Nat
  BY DEF IInv, TypeOK
<1>4. FullBlocks(got[f]) \in Nat
  BY <1>3, Split
<1>5. ReaderLength(f) = Len(got[f])
  <2>1. fileSize[f] % LengthLimit = fileSize[f]
    BY <1>3, PackerAssumption
  <2> QED
    BY <2>1 DEF ReaderLength
<1>6. ReaderBlocks(f) = FullBlocks(got[f]) + 0
  BY <1>2, <1>5 DEF ReaderBlocks, FullBlocks, Remainder
<1> QED
  BY <1>1, <1>4, <1>5, <1>6

(* The reader finds in an inode as many size words as the writer put       *)
(* there, if the length had not changed between Lstat and ReadFile and     *)
(* fits the 32 bits of the inode (writer.go:147, 237, 546,                 *)
(* squashfs.go:459-462).                                                   *)
THEOREM AlwaysReadAsStatted == Spec => []ReadAsStatted
<1>1. IInv => ReadAsStatted
  BY StattedCounts DEF ReadAsStatted, SelfDescribing, Packed
<1> QED
  BY <1>1, Invariance, PTL

-----------------------------------------------------------------------------
(* What the invariant above is strengthened by.                            *)

(* The loop has read f. *)
Begun(f) == f < next \/ (f = next /\ pc \in {"blocks", "tail"})

(* The data area is one extent behind the other, none of them empty.       *)
Ordered ==
  \A d \in DOMAIN out :
    /\ out[d].start >= SuperblockSize /\ out[d].len > 0
    /\ out[d].start + out[d].len <= ImageLen(out)
    /\ \A e \in DOMAIN out : d < e => out[d].start + out[d].len <= out[e].start

(* The blocks of f are the extents behind the e-th, with the size words of *)
(* its inode, and the next one will be behind them.                        *)
InRow(f, e) ==
  LET words == inode[f].words
  IN /\ e + Len(words) <= Len(out)
     /\ \A k \in DOMAIN words :
          /\ out[e + k].word = words[k] /\ out[e + k].len = words[k].size
          /\ out[e + k].data = Block(got[f], k)
          /\ out[e + k].start = IF k = 1 THEN inode[f].start
                                ELSE out[e + k - 1].start + out[e + k - 1].len
     /\ f = next /\ pc = "blocks" =>
          /\ e + Len(words) = Len(out)
          /\ words = <<>> => inode[f].start = ImageLen(out)

BlocksInRow == \A f \in File : Begun(f) => \E e \in 0..Len(out) : InRow(f, e)

(* startBlock is set for the files that were read, and for no other.       *)
StartSet ==
  \A f \in File :
    IF inode[f].start # 0
      THEN Begun(f) /\ fileSize[f] # 0
      ELSE (Begun(f) => f < next) /\ got[f] = <<>>

(* No file begins behind the end of the image.                             *)
StartBelow == \A f \in File : inode[f].start <= ImageLen(out)

(* The size words of the image keep the sizes, if a fragment block that    *)
(* one tail took over the block size is not too long for one.              *)
WordsExact ==
  2 * BlockSize <= SizeLimit => \A e \in DOMAIN out : out[e].len = out[e].word.size

BInv == IInv /\ Ordered /\ BlocksInRow /\ StartSet /\ StartBelow /\ WordsExact

-----------------------------------------------------------------------------
(* The data area.                                                          *)

(* An extent is not empty. *)
LEMMA StoredSome ==
  ASSUME NEW d \in Seq(Byte), Len(d) > 0, NEW s \in StoredLengths(d)
  PROVE  s \in Nat /\ s > 0 /\ s <= Len(d)
BY PackerAssumption DEF StoredLengths

(* A step leaves the data area alone or appends one extent, not empty, and *)
(* shorter than two blocks.                                                *)
LEMMA OutGrows ==
  ASSUME TypeOK, [Next]_vars
  PROVE  \/ out' = out
         \/ \E d \in Seq(Byte) : \E s \in StoredLengths(d) :
              /\ s > 0 /\ out' = Append(out, Extent(out, s, d))
              /\ BufferHasRoom => Len(d) < 2 * BlockSize
<1>1. ASSUME NEW buf \in Seq(Byte), Len(buf) > 0, FlushFragments(buf),
             BufferHasRoom => Len(buf) < 2 * BlockSize
      PROVE  \E d \in Seq(Byte) : \E s \in StoredLengths(d) :
               /\ s > 0 /\ out' = Append(out, Extent(out, s, d))
               /\ BufferHasRoom => Len(d) < 2 * BlockSize
  BY <1>1, StoredSome DEF FlushFragments
<1>2. CASE WriteBlock
  <2> DEFINE k == Len(inode[next].words) + 1
             d == Block(got[next], k)
  <2>1. got[next] \in Seq(Byte) /\ inode[next].words \in Seq(Word)
    BY <1>2 DEF TypeOK, WriteBlock, InodeType
  <2>2. k \in 1..FullBlocks(got[next])
    <3>1. k \in Nat /\ k >= 1
      BY <2>1
    <3>2. k <= FullBlocks(got[next]) /\ FullBlocks(got[next]) \in Nat
      BY <1>2, <2>1, Split DEF WriteBlock
    <3> QED
      BY <3>1, <3>2
  <2>3. d \in Seq(Byte) /\ Len(d) > 0 /\ Len(d) < 2 * BlockSize
    <3>1. d \in Seq(Byte) /\ Len(d) = BlockSize
      BY <2>1, <2>2, BlockType
    <3> HIDE DEF d
    <3> QED
      BY <3>1, PackerAssumption
  <2>4. \E s \in StoredLengths(d) : out' = Append(out, Extent(out, s, d))
    BY <1>2 DEF WriteBlock
  <2> HIDE DEF d
  <2> QED
    BY <2>3, <2>4, StoredSome
<1>3. CASE AddTail
  <2> DEFINE buf == fragBuf \o TailOf(got[next])
  <2>1. got[next] \in Seq(Byte) /\ fragBuf \in Seq(Byte)
    BY <1>3 DEF TypeOK, AddTail
  <2>2. buf \in Seq(Byte)
    BY <2>1, TailType
  <2>3. out' = out \/ (Len(buf) >= BlockSize /\ FlushFragments(buf))
    BY <1>3 DEF AddTail
  <2>4. BufferHasRoom => Len(buf) < 2 * BlockSize
    <3>1. Len(TailOf(got[next])) = Remainder(got[next]) /\ TailOf(got[next]) \in Seq(Byte)
          /\ Remainder(got[next]) \in 0..BlockSize - 1
      BY <2>1, TailType, Split
    <3>2. BufferHasRoom => Len(fragBuf) < BlockSize
      BY <1>3 DEF AddTail, BufferHasRoom
    <3>3. Len(buf) = Len(fragBuf) + Len(TailOf(got[next]))
      BY <2>1, <3>1
    <3> HIDE DEF buf
    <3> QED
      BY <2>1, <3>1, <3>2, <3>3, PackerAssumption
  <2> HIDE DEF buf
  <2>5. Len(buf) >= BlockSize => Len(buf) > 0
    BY <2>2, PackerAssumption
  <2> QED
    BY <1>1, <2>2, <2>3, <2>4, <2>5
<1>4. CASE Finish
  <2>1. fragBuf \in Seq(Byte)
    BY DEF TypeOK
  <2>2. out' = out \/ (fragBuf # <<>> /\ FlushFragments(fragBuf))
    BY <1>4 DEF Finish
  <2>3. fragBuf # <<>> => Len(fragBuf) > 0
    BY <2>1
  <2>4. BufferHasRoom => Len(fragBuf) < 2 * BlockSize
    <3>1. BufferHasRoom => Len(fragBuf) < BlockSize
      BY <1>4 DEF Finish, BufferHasRoom
    <3> QED
      BY <2>1, <3>1, PackerAssumption
  <2> QED
    BY <1>1, <2>1, <2>2, <2>3, <2>4
<1>5. CASE ~(WriteBlock \/ AddTail \/ Finish)
  BY <1>5 DEF Next, Pack, SkipFile, ReadFile, EndBlocks, NoTail, ReuseTail, Rewrite, vars
<1> QED
  BY <1>2, <1>3, <1>4, <1>5

(* What an extent behind the others does to the data area. *)
LEMMA Appended ==
  ASSUME TypeOK, NEW d \in Seq(Byte), NEW s \in StoredLengths(d),
         out' = Append(out, Extent(out, s, d))
  PROVE  /\ Len(out) \in Nat /\ Len(out') = Len(out) + 1
         /\ DOMAIN out = 1..Len(out) /\ DOMAIN out' = 1..Len(out) + 1
         /\ \A i \in 1..Len(out) : out'[i] = out[i] /\ out[i].start \in Nat /\ out[i].len \in Nat
         /\ out'[Len(out) + 1] = [start |-> ImageLen(out), len |-> s,
                                  word |-> SizeWord(s, d), data |-> d]
         /\ ImageLen(out') = ImageLen(out) + s
         /\ ImageLen(out) \in Nat /\ s \in Nat
<1>1. out \in Seq(ExtentType)
  BY DEF TypeOK
<1>2. Extent(out, s, d) \in ExtentType /\ ImageLen(out) \in Nat /\ s \in Nat
  BY <1>1, ExtentTyped, ImageLenType, StoredType
<1>3. /\ Len(out) \in Nat /\ Len(out') = Len(out) + 1
      /\ DOMAIN out = 1..Len(out) /\ DOMAIN out' = 1..Len(out) + 1
      /\ \A i \in 1..Len(out) : out'[i] = out[i]
      /\ out'[Len(out) + 1] = Extent(out, s, d)
  BY <1>1, <1>2
<1>4. \A i \in 1..Len(out) : out[i].start \in Nat /\ out[i].len \in Nat
  <2>1. \A i \in 1..Len(out) : out[i] \in ExtentType
    BY <1>1, ElementOfSeq
  <2> QED
    BY <2>1 DEF ExtentType
<1>5. out' # <<>>
  BY <1>1
<1>6. ImageLen(out)' = out'[Len(out')].start + out'[Len(out')].len
  BY <1>5 DEF ImageLen
<1>7. ImageLen(out') = ImageLen(out) + s
  BY <1>3, <1>5 DEF ImageLen, Extent
<1> QED
  BY <1>2, <1>3, <1>4, <1>7 DEF Extent

(* The image is never shorter than its superblock. *)
LEMMA ImageLenAtLeast ==
  ASSUME TypeOK, Ordered
  PROVE  ImageLen(out) \in Nat /\ ImageLen(out) >= SuperblockSize /\ ImageLen(out) # 0
<1>1. out \in Seq(ExtentType) /\ ImageLen(out) \in Nat
  BY ImageLenType DEF TypeOK
<1>2. CASE out = <<>>
  BY <1>2 DEF ImageLen, SuperblockSize
<1>3. CASE out # <<>>
  <2>1. 1 \in DOMAIN out /\ out[1] \in ExtentType
    BY <1>1, <1>3
  <2>2. out[1].start \in Nat /\ out[1].len \in Nat
    BY <2>1 DEF ExtentType
  <2>3. out[1].start >= SuperblockSize /\ out[1].start + out[1].len <= ImageLen(out)
    BY <2>1 DEF Ordered
  <2> QED
    BY <1>1, <2>2, <2>3 DEF SuperblockSize
<1> QED
  BY <1>2, <1>3

(* The extents stay in order. *)
LEMMA OrderedStep ==
  ASSUME TypeOK, Ordered, [Next]_vars
  PROVE  Ordered'
<1>1. CASE out' = out
  BY <1>1 DEF Ordered, ImageLen
<1>2. ASSUME NEW x \in Seq(Byte), NEW s \in StoredLengths(x), s > 0,
             out' = Append(out, Extent(out, s, x))
      PROVE  Ordered'
  <2> DEFINE n == Len(out)
             old == ImageLen(out)
  <2>1. /\ n \in Nat /\ Len(out') = n + 1
        /\ DOMAIN out = 1..n /\ DOMAIN out' = 1..n + 1
        /\ \A i \in 1..n : out'[i] = out[i] /\ out[i].start \in Nat /\ out[i].len \in Nat
        /\ out'[n + 1].start = old /\ out'[n + 1].len = s
        /\ ImageLen(out') = old + s /\ old \in Nat /\ s \in Nat
    <3>1. out'[n + 1] = [start |-> old, len |-> s, word |-> SizeWord(s, x), data |-> x]
      BY <1>2, Appended
    <3>2. out'[n + 1].start = old /\ out'[n + 1].len = s
      BY <3>1
    <3>3. ImageLen(out') = old + s /\ old \in Nat /\ s \in Nat
      BY <1>2, Appended
    <3>4. /\ n \in Nat /\ Len(out') = n + 1
          /\ DOMAIN out = 1..n /\ DOMAIN out' = 1..n + 1
          /\ \A i \in 1..n : out'[i] = out[i] /\ out[i].start \in Nat /\ out[i].len \in Nat
      BY <1>2, Appended
    <3> QED
      BY <3>2, <3>3, <3>4
  <2>2. old >= SuperblockSize
    BY ImageLenAtLeast
  <2>3. \A d \in 1..n : /\ out[d].start >= SuperblockSize /\ out[d].len > 0
                        /\ out[d].start + out[d].len <= old
                        /\ \A e \in 1..n : d < e => out[d].start + out[d].len <= out[e].start
    BY <2>1 DEF Ordered
  <2> HIDE DEF n, old
  <2> SUFFICES ASSUME NEW d \in 1..n + 1
               PROVE  /\ out'[d].start >= SuperblockSize /\ out'[d].len > 0
                      /\ out'[d].start + out'[d].len <= old + s
                      /\ \A e \in 1..n + 1 : d < e => out'[d].start + out'[d].len <= out'[e].start
    BY <2>1 DEF Ordered
  <2>4. CASE d = n + 1
    BY <1>2, <2>1, <2>2, <2>4 DEF SuperblockSize
  <2>5. CASE d \in 1..n
    <3>1. out'[d] = out[d] /\ out[d].start \in Nat /\ out[d].len \in Nat
      BY <2>1, <2>5
    <3>2. /\ out[d].start >= SuperblockSize /\ out[d].len > 0
          /\ out[d].start + out[d].len <= old
          /\ \A e \in 1..n : d < e => out[d].start + out[d].len <= out[e].start
      BY <2>3, <2>5
    <3>3. \A e \in 1..n + 1 : d < e => out[d].start + out[d].len <= out'[e].start
      <4> SUFFICES ASSUME NEW e \in 1..n + 1, d < e
                   PROVE  out[d].start + out[d].len <= out'[e].start
        OBVIOUS
      <4>1. CASE e \in 1..n
        BY <2>1, <3>2, <4>1
      <4>2. CASE e = n + 1
        BY <2>1, <3>2, <4>2
      <4> QED
        BY <2>1, <4>1, <4>2
    <3> QED
      BY <2>1, <3>1, <3>2, <3>3
  <2> QED
    BY <2>1, <2>4, <2>5
<1> QED
  BY <1>1, <1>2, OutGrows

-----------------------------------------------------------------------------
(* The blocks of a file.                                                   *)

(* A row of blocks stays where it is while the data area grows behind it.  *)
LEMMA RowKept ==
  ASSUME TypeOK, [Next]_vars, NEW f \in File, NEW e \in 0..Len(out), InRow(f, e),
         got'[f] = got[f], inode'[f].words = inode[f].words, inode'[f].start = inode[f].start,
         f = next' /\ pc' = "blocks" => UNCHANGED <<out, next, pc>>
  PROVE  e \in 0..Len(out') /\ InRow(f, e)'
<1> DEFINE w == inode[f].words
<1>1. Len(out) \in Nat /\ w \in Seq(Word) /\ DOMAIN w = 1..Len(w) /\ Len(w) \in Nat
  BY DEF TypeOK, InodeType
<1>2. e \in Nat /\ e + Len(w) <= Len(out)
  BY <1>1 DEF InRow
<1>3. Len(out) <= Len(out') /\ Len(out') \in Nat /\ \A i \in 1..Len(out) : out'[i] = out[i]
  <2>1. CASE out' = out
    BY <1>1, <2>1
  <2>2. ASSUME NEW d \in Seq(Byte), NEW s \in StoredLengths(d),
               out' = Append(out, Extent(out, s, d))
        PROVE  Len(out) <= Len(out') /\ Len(out') \in Nat /\ \A i \in 1..Len(out) : out'[i] = out[i]
    <3>1. Len(out') = Len(out) + 1 /\ \A i \in 1..Len(out) : out'[i] = out[i]
      BY <2>2, Appended
    <3> QED
      BY <1>1, <3>1
  <2> QED
    BY <2>1, <2>2, OutGrows
<1>4. \A k \in DOMAIN w : out'[e + k] = out[e + k] /\ (k # 1 => out'[e + k - 1] = out[e + k - 1])
  <2> SUFFICES ASSUME NEW k \in 1..Len(w)
               PROVE  out'[e + k] = out[e + k] /\ (k # 1 => out'[e + k - 1] = out[e + k - 1])
    BY <1>1
  <2>1. e + k \in 1..Len(out) /\ (k # 1 => e + k - 1 \in 1..Len(out))
    BY <1>1, <1>2
  <2> QED
    BY <1>3, <2>1
<1>5. \A k \in DOMAIN w :
        /\ out[e + k].word = w[k] /\ out[e + k].len = w[k].size
        /\ out[e + k].data = Block(got[f], k)
        /\ out[e + k].start = IF k = 1 THEN inode[f].start
                              ELSE out[e + k - 1].start + out[e + k - 1].len
  BY DEF InRow
<1>6. f = next /\ pc = "blocks" =>
        e + Len(w) = Len(out) /\ (w = <<>> => inode[f].start = ImageLen(out))
  BY DEF InRow
<1>7. e + Len(w) <= Len(out')
  BY <1>1, <1>2, <1>3
<1>8. \A k \in DOMAIN w :
        /\ out'[e + k].word = w[k] /\ out'[e + k].len = w[k].size
        /\ out'[e + k].data = Block(got'[f], k)
        /\ out'[e + k].start = IF k = 1 THEN inode'[f].start
                               ELSE out'[e + k - 1].start + out'[e + k - 1].len
  <2> SUFFICES ASSUME NEW k \in DOMAIN w
               PROVE  /\ out'[e + k].word = w[k] /\ out'[e + k].len = w[k].size
                      /\ out'[e + k].data = Block(got'[f], k)
                      /\ out'[e + k].start = IF k = 1 THEN inode'[f].start
                                             ELSE out'[e + k - 1].start + out'[e + k - 1].len
    OBVIOUS
  <2>1. out'[e + k] = out[e + k] /\ (k # 1 => out'[e + k - 1] = out[e + k - 1])
    BY <1>4
  <2>2. /\ out[e + k].word = w[k] /\ out[e + k].len = w[k].size
        /\ out[e + k].data = Block(got[f], k)
        /\ out[e + k].start = IF k = 1 THEN inode[f].start
                              ELSE out[e + k - 1].start + out[e + k - 1].len
    BY <1>5
  <2> HIDE DEF w
  <2> QED
    BY <2>1, <2>2
<1>9. f = next' /\ pc' = "blocks" =>
        e + Len(w) = Len(out') /\ (w = <<>> => inode'[f].start = ImageLen(out)')
  BY <1>6 DEF ImageLen
<1>10. inode'[f].words = w
  OBVIOUS
<1>11. Block(got'[f], 1) = Block(got'[f], 1)
  OBVIOUS
<1> HIDE DEF w
<1>12. InRow(f, e)'
  BY <1>7, <1>8, <1>9, <1>10 DEF InRow, Block, ImageLen
<1> QED
  BY <1>1, <1>2, <1>3, <1>12

(* A size word keeps the size of a block.                                  *)
LEMMA SizeKept ==
  ASSUME NEW s \in Nat, NEW d \in Seq(Byte), s < SizeLimit
  PROVE  SizeWord(s, d).size = s
<1>1. s % SizeLimit = s
  BY PackerAssumption
<1> QED
  BY <1>1 DEF SizeWord

(* The next block of a file comes right behind the ones before it.         *)
LEMMA RowGrows ==
  ASSUME BlockSize < SizeLimit, TypeOK, WriteBlock, NEW e \in 0..Len(out), InRow(next, e)
  PROVE  e \in 0..Len(out') /\ InRow(next, e)'
<1> DEFINE f == next
           w == inode[f].words
           n == Len(w)
           k == n + 1
           d == Block(got[f], k)
           o == Len(out)
<1>1. /\ f \in File /\ got[f] \in Seq(Byte) /\ w \in Seq(Word) /\ out \in Seq(ExtentType)
      /\ n \in Nat /\ o \in Nat /\ inode[f] \in InodeType /\ pc = "blocks"
  BY DEF TypeOK, InodeType, WriteBlock
<1>2. k \in 1..FullBlocks(got[f])
  BY <1>1, Split DEF WriteBlock
<1>3. d \in Seq(Byte) /\ Len(d) = BlockSize
  BY <1>1, <1>2, BlockType
<1>4. PICK s \in StoredLengths(d) :
        /\ out' = Append(out, Extent(out, s, d))
        /\ inode' = [inode EXCEPT ![f].words = Append(@, SizeWord(s, d))]
  BY DEF WriteBlock
<1>5. got' = got /\ pc' = pc /\ next' = next
  BY DEF WriteBlock
<1>6. inode'[f].words = Append(w, SizeWord(s, d)) /\ inode'[f].start = inode[f].start
  BY <1>1, <1>4 DEF TypeOK, InodeType
<1> DEFINE v == inode'[f].words
<1>7. Len(v) = k /\ DOMAIN v = 1..k /\ v[k] = SizeWord(s, d) /\ \A j \in 1..n : v[j] = w[j]
  <2>1. SizeWord(s, d) \in Word
    BY <1>3, StoredType
  <2> HIDE DEF w
  <2> QED
    BY <1>1, <1>6, <2>1
<1>8. s \in Nat /\ s < SizeLimit
  <2>1. s \in Nat /\ s <= Len(d)
    BY <1>3, PackerAssumption, StoredSome
  <2> QED
    BY <1>3, <2>1, PackerAssumption
<1>9. v[k].size = s
  BY <1>3, <1>7, <1>8, SizeKept
<1>10. e \in Nat /\ e + n = o /\ (w = <<>> => inode[f].start = ImageLen(out))
  BY <1>1 DEF InRow
<1>11. \A j \in 1..n :
         /\ out[e + j].word = w[j] /\ out[e + j].len = w[j].size
         /\ out[e + j].data = Block(got[f], j)
         /\ out[e + j].start = IF j = 1 THEN inode[f].start
                               ELSE out[e + j - 1].start + out[e + j - 1].len
  <2>1. DOMAIN w = 1..n
    BY <1>1
  <2>2. \A j \in DOMAIN w :
          /\ out[e + j].word = w[j] /\ out[e + j].len = w[j].size
          /\ out[e + j].data = Block(got[f], j)
          /\ out[e + j].start = IF j = 1 THEN inode[f].start
                                ELSE out[e + j - 1].start + out[e + j - 1].len
    BY DEF InRow
  <2> HIDE DEF w, n
  <2> QED
    BY <2>1, <2>2
<1>12. /\ Len(out') = o + 1
       /\ \A i \in 1..o : out'[i] = out[i]
       /\ out'[o + 1] = [start |-> ImageLen(out), len |-> s, word |-> SizeWord(s, d), data |-> d]
  BY <1>3, <1>4, Appended
<1>13. ImageLen(out) = IF k = 1 THEN inode[f].start ELSE out[o].start + out[o].len
  <2>1. CASE k = 1
    BY <1>1, <1>10, <2>1
  <2>2. CASE k # 1
    <3>1. o # 0 /\ k # 1
      BY <1>1, <1>10, <2>2
    <3>2. out # <<>>
      BY <1>1, <3>1
    <3> HIDE DEF k
    <3> QED
      BY <3>1, <3>2 DEF ImageLen
  <2> QED
    BY <2>1, <2>2
<1>14. \A j \in 1..k :
         /\ out'[e + j].word = v[j] /\ out'[e + j].len = v[j].size
         /\ out'[e + j].data = Block(got[f], j)
         /\ out'[e + j].start = IF j = 1 THEN inode[f].start
                                ELSE out'[e + j - 1].start + out'[e + j - 1].len
  <2> SUFFICES ASSUME NEW j \in 1..k
               PROVE  /\ out'[e + j].word = v[j] /\ out'[e + j].len = v[j].size
                      /\ out'[e + j].data = Block(got[f], j)
                      /\ out'[e + j].start = IF j = 1 THEN inode[f].start
                                             ELSE out'[e + j - 1].start + out'[e + j - 1].len
    OBVIOUS
  <2>1. CASE j \in 1..n
    <3>1. e + j \in 1..o /\ (j # 1 => e + j - 1 \in 1..o)
      BY <1>1, <1>10, <2>1
    <3>2. out'[e + j] = out[e + j] /\ (j # 1 => out'[e + j - 1] = out[e + j - 1]) /\ v[j] = w[j]
      BY <1>7, <1>12, <2>1, <3>1
    <3> HIDE DEF v, w, d, n, k, o, f
    <3> QED
      BY <1>11, <2>1, <3>2
  <2>2. CASE j = k
    <3>1. e + j = o + 1 /\ e + j - 1 = o /\ (j # 1 => o \in 1..o)
      BY <1>1, <1>10, <2>2
    <3>2. out'[e + j] = [start |-> ImageLen(out), len |-> s, word |-> SizeWord(s, d), data |-> d]
      BY <1>12, <3>1
    <3>3. j # 1 => out'[e + j - 1] = out[o]
      BY <1>12, <3>1
    <3>4. /\ out'[e + j].word = v[j] /\ out'[e + j].len = v[j].size
          /\ out'[e + j].data = Block(got[f], j)
      BY <1>7, <1>9, <2>2, <3>2
    <3>5. out'[e + j].start = IF j = 1 THEN inode[f].start ELSE out[o].start + out[o].len
      BY <1>13, <2>2, <3>2
    <3> HIDE DEF v, w, d, n, k, o, f
    <3> QED
      BY <3>3, <3>4, <3>5
  <2>3. j \in 1..n \/ j = k
    BY <1>1
  <2> QED
    BY <2>1, <2>2, <2>3
<1>15. e + k = Len(out') /\ v # <<>>
  <2>1. e + k = Len(out')
    BY <1>1, <1>10, <1>12
  <2>2. v # <<>>
    <3>1. Len(v) # 0
      BY <1>1, <1>7
    <3> HIDE DEF v
    <3> QED
      BY <3>1
  <2> QED
    BY <2>1, <2>2
<1>16. InRow(next, e)'
  <2>1. got'[f] = got[f] /\ inode'[f].start = inode[f].start /\ f = next'
    BY <1>5, <1>6
  <2>2. Len(v) = k /\ DOMAIN v = 1..k
    BY <1>7
  <2>3. e + k <= Len(out')
    BY <1>1, <1>10, <1>12
  <2>4. inode'[next'].words = v
    BY <2>1
  <2>5. \A j \in DOMAIN v :
          /\ out'[e + j].word = v[j] /\ out'[e + j].len = v[j].size
          /\ out'[e + j].data = Block(got'[f], j)
          /\ out'[e + j].start = IF j = 1 THEN inode'[f].start
                                 ELSE out'[e + j - 1].start + out'[e + j - 1].len
    <3> HIDE DEF v, w, d, n, k, o, f
    <3> QED
      BY <1>14, <2>1, <2>2
  <2>6. e + Len(v) = Len(out') /\ e + Len(v) <= Len(out')
    BY <1>15, <2>2, <2>3
  <2> HIDE DEF v, w, d, n, k, o
  <2> QED
    BY <1>15, <2>1, <2>4, <2>5, <2>6 DEF InRow, Block
<1> QED
  BY <1>1, <1>10, <1>12, <1>16

(* What a step does to a file that the loop has begun afterwards.          *)
LEMMA BegunNext ==
  ASSUME TypeOK, [Next]_vars, NEW f \in File, Begun(f)'
  PROVE  \/ /\ Begun(f)
            /\ got'[f] = got[f]
            /\ inode'[f].words = inode[f].words /\ inode'[f].start = inode[f].start
            /\ f = next' /\ pc' = "blocks" => UNCHANGED <<out, next, pc>>
         \/ f = next /\ (WriteBlock \/ ReadFile \/ SkipFile)
<1>1. f \in Int /\ next \in Int
  BY DEF TypeOK, File
<1>2. CASE f < next
  BY <1>1, <1>2, PassedKept DEF Begun
<1>3. CASE ~(f < next)
  <2>1. CASE ReadFile \/ SkipFile
    BY <1>1, <1>3, <2>1 DEF Begun, ReadFile, SkipFile
  <2>2. CASE WriteBlock
    BY <1>1, <1>3, <2>2 DEF Begun, WriteBlock
  <2>3. CASE EndBlocks
    BY <1>1, <1>3, <2>3 DEF Begun, EndBlocks
  <2>4. CASE NoTail
    BY <1>1, <1>3, <2>4 DEF Begun, NoTail, NextFile
  <2>5. CASE ReuseTail
    <3>1. next \in File /\ inode[next] \in InodeType
      BY <2>5 DEF ReuseTail, TypeOK
    <3>2. f = next /\ pc = "tail" /\ pc' = "open" /\ got' = got
      BY <1>1, <1>3, <2>5 DEF Begun, ReuseTail, NextFile
    <3>3. inode'[f].words = inode[f].words /\ inode'[f].start = inode[f].start
      BY <2>5, <3>1, <3>2 DEF ReuseTail, TypeOK, InodeType
    <3> QED
      BY <3>2, <3>3 DEF Begun
  <2>6. CASE AddTail
    <3>1. next \in File /\ inode[next] \in InodeType
      BY <2>6 DEF AddTail, TypeOK
    <3>2. f = next /\ pc = "tail" /\ pc' = "open" /\ got' = got
      BY <1>1, <1>3, <2>6 DEF Begun, AddTail, NextFile
    <3>3. inode'[f].words = inode[f].words /\ inode'[f].start = inode[f].start
      BY <2>6, <3>1, <3>2 DEF AddTail, TypeOK, InodeType
    <3> QED
      BY <3>2, <3>3 DEF Begun
  <2>7. CASE Finish
    BY <1>1, <1>3, <2>7 DEF Begun, Finish
  <2>8. CASE Rewrite
    BY <1>1, <1>3, <2>8 DEF Begun, Rewrite
  <2>9. CASE UNCHANGED vars
    BY <1>1, <1>3, <2>9 DEF Begun, vars
  <2> QED
    BY <2>1, <2>2, <2>3, <2>4, <2>5, <2>6, <2>7, <2>8, <2>9 DEF Next, Pack
<1> QED
  BY <1>2, <1>3

(* Each step keeps the blocks in their rows.                               *)
LEMMA RowStep ==
  ASSUME BlockSize < SizeLimit, TypeOK, AheadIsFresh, BlocksInRow, [Next]_vars
  PROVE  BlocksInRow'
<1> SUFFICES ASSUME NEW f \in File, Begun(f)'
             PROVE  \E e \in 0..Len(out') : InRow(f, e)'
  BY DEF BlocksInRow
<1>1. f \in Int /\ next \in Int /\ Len(out) \in Nat
  BY DEF TypeOK, File
<1>2. CASE /\ Begun(f)
           /\ got'[f] = got[f]
           /\ inode'[f].words = inode[f].words /\ inode'[f].start = inode[f].start
           /\ f = next' /\ pc' = "blocks" => UNCHANGED <<out, next, pc>>
  <2>1. PICK e \in 0..Len(out) : InRow(f, e)
    BY <1>2 DEF BlocksInRow
  <2> QED
    BY <1>2, <2>1, RowKept
<1>3. CASE f = next /\ WriteBlock
  <2>1. PICK e \in 0..Len(out) : InRow(f, e)
    BY <1>3 DEF BlocksInRow, Begun, WriteBlock
  <2>2. InRow(next, e)
    BY <1>3, <2>1
  <2>3. e \in 0..Len(out') /\ InRow(next, e)'
    BY <1>3, <2>2, RowGrows
  <2>4. f = next /\ f = next'
    BY <1>3 DEF WriteBlock
  <2> QED
    BY <2>3, <2>4 DEF InRow
<1>4. CASE f = next /\ ReadFile
  <2>1. inode[f].words = <<>> /\ inode[f] \in InodeType
    BY <1>4 DEF AheadIsFresh, Ahead, ReadFile, TypeOK
  <2>2. inode'[f].words = <<>> /\ inode'[f].start = ImageLen(out) /\ out' = out
    BY <1>4, <2>1 DEF ReadFile, TypeOK, InodeType
  <2>3. InRow(f, Len(out))'
    BY <1>1, <2>2 DEF InRow, ImageLen
  <2> QED
    BY <1>1, <2>2, <2>3
<1>5. CASE f = next /\ SkipFile
  <2>1. inode[f].words = <<>>
    BY <1>5 DEF AheadIsFresh, Ahead, SkipFile
  <2>2. inode'[f].words = <<>> /\ f # next' /\ out' = out
    BY <1>1, <1>5, <2>1 DEF SkipFile
  <2>3. InRow(f, 0)'
    BY <1>1, <2>2 DEF InRow
  <2> QED
    BY <1>1, <2>2, <2>3
<1> QED
  BY <1>2, <1>3, <1>4, <1>5, BegunNext

(* Each step keeps startBlock set for the files that were read only.       *)
LEMMA StartStep ==
  ASSUME TypeOK, Ordered, AheadIsFresh, StartSet, [Next]_vars
  PROVE  StartSet'
<1> SUFFICES ASSUME NEW f \in File
             PROVE  IF inode'[f].start # 0
                      THEN Begun(f)' /\ fileSize'[f] # 0
                      ELSE (Begun(f)' => f < next') /\ got'[f] = <<>>
  <2>1. \A f \in File :
          IF inode'[f].start # 0
            THEN Begun(f)' /\ fileSize'[f] # 0
            ELSE (Begun(f)' => f < next') /\ got'[f] = <<>>
    OBVIOUS
  <2>2. \A f \in File : Begun(f)' <=> f < next' \/ (f = next' /\ pc' \in {"blocks", "tail"})
    BY DEF Begun
  <2> QED
    BY <2>1, <2>2 DEF StartSet, Begun
<1>1. /\ f \in Int /\ next \in Int
      /\ IF inode[f].start # 0
           THEN Begun(f) /\ fileSize[f] # 0
           ELSE (Begun(f) => f < next) /\ got[f] = <<>>
      /\ inode[f] \in InodeType
  <2>1. f \in Int /\ next \in Int /\ inode[f] \in InodeType
    BY DEF TypeOK, File
  <2> QED
    BY <2>1 DEF StartSet
<1>2. fileSize' = fileSize
  BY DEF Next, Pack, SkipFile, ReadFile, WriteBlock, EndBlocks, NoTail, ReuseTail,
         AddTail, Finish, Rewrite, vars
<1>3. CASE ReadFile
  <2>1. ImageLen(out) # 0
    BY ImageLenAtLeast
  <2>2. CASE f = next
    <3>1. inode'[f].start = ImageLen(out)
      BY <1>3, <2>2 DEF ReadFile, TypeOK, InodeType
    <3>2. Begun(f)' /\ fileSize[f] # 0
      BY <1>3, <2>2 DEF ReadFile, Begun
    <3> QED
      BY <1>2, <2>1, <3>1, <3>2
  <2>3. CASE f # next
    BY <1>1, <1>2, <1>3, <2>3 DEF ReadFile, Begun, TypeOK
  <2> QED
    BY <2>2, <2>3
<1>4. CASE SkipFile
  BY <1>1, <1>2, <1>4 DEF SkipFile, Begun
<1>5. CASE WriteBlock
  <2>1. inode'[f].start = inode[f].start
    BY <1>1, <1>5 DEF WriteBlock, TypeOK, InodeType
  <2> QED
    BY <1>1, <1>2, <1>5, <2>1 DEF WriteBlock, Begun
<1>6. CASE EndBlocks
  BY <1>1, <1>2, <1>6 DEF EndBlocks, Begun
<1>7. CASE NoTail
  BY <1>1, <1>2, <1>7 DEF NoTail, NextFile, Begun
<1>8. CASE ReuseTail
  <2>1. inode'[f].start = inode[f].start
    BY <1>1, <1>8 DEF ReuseTail, TypeOK, InodeType
  <2> QED
    BY <1>1, <1>2, <1>8, <2>1 DEF ReuseTail, NextFile, Begun
<1>9. CASE AddTail
  <2>1. inode'[f].start = inode[f].start
    BY <1>1, <1>9 DEF AddTail, TypeOK, InodeType
  <2> QED
    BY <1>1, <1>2, <1>9, <2>1 DEF AddTail, NextFile, Begun
<1>10. CASE Finish
  BY <1>1, <1>2, <1>10 DEF Finish, Begun
<1>11. CASE Rewrite
  BY <1>1, <1>2, <1>11 DEF Rewrite, Begun
<1>12. CASE UNCHANGED vars
  BY <1>1, <1>2, <1>12 DEF vars, Begun
<1> QED
  BY <1>3, <1>4, <1>5, <1>6, <1>7, <1>8, <1>9, <1>10, <1>11, <1>12 DEF Next, Pack

(* Where the writer is with the files: a step that reads no file leaves    *)
(* startBlock and the bytes alone.                                         *)
LEMMA StartKept ==
  ASSUME TypeOK, [Next]_vars, ~ReadFile
  PROVE  got' = got /\ \A f \in File : inode'[f].start = inode[f].start
<1>1. CASE SkipFile \/ EndBlocks \/ NoTail \/ Finish \/ Rewrite \/ UNCHANGED vars
  BY <1>1 DEF SkipFile, EndBlocks, NoTail, Finish, Rewrite, vars
<1>2. CASE WriteBlock
  <2>1. \A f \in File : inode'[f].start = inode[f].start
    BY <1>2 DEF WriteBlock, TypeOK, InodeType
  <2> QED
    BY <1>2, <2>1 DEF WriteBlock
<1>3. CASE ReuseTail
  <2>1. \A f \in File : inode'[f].start = inode[f].start
    BY <1>3 DEF ReuseTail, TypeOK, InodeType
  <2> QED
    BY <1>3, <2>1 DEF ReuseTail
<1>4. CASE AddTail
  <2>1. \A f \in File : inode'[f].start = inode[f].start
    BY <1>4 DEF AddTail, TypeOK, InodeType
  <2> QED
    BY <1>4, <2>1 DEF AddTail
<1> QED
  BY <1>1, <1>2, <1>3, <1>4 DEF Next, Pack

(* The image never becomes shorter.                                        *)
LEMMA ImageGrows ==
  ASSUME TypeOK, [Next]_vars
  PROVE  ImageLen(out) \in Nat /\ ImageLen(out') \in Nat /\ ImageLen(out) <= ImageLen(out')
<1>1. ImageLen(out) \in Nat
  BY ImageLenType DEF TypeOK
<1>2. CASE out' = out
  BY <1>1, <1>2
<1>3. ASSUME NEW d \in Seq(Byte), NEW s \in StoredLengths(d),
             out' = Append(out, Extent(out, s, d))
      PROVE  ImageLen(out') \in Nat /\ ImageLen(out) <= ImageLen(out')
  <2>1. ImageLen(out') = ImageLen(out) + s /\ s \in Nat
    BY <1>3, Appended
  <2> HIDE DEF ImageLen
  <2> QED
    BY <1>1, <2>1
<1> QED
  BY <1>1, <1>2, <1>3, OutGrows

(* Each step keeps the beginnings of the files within the image.           *)
LEMMA BelowStep ==
  ASSUME TypeOK, StartBelow, [Next]_vars
  PROVE  StartBelow'
<1> SUFFICES ASSUME NEW f \in File
             PROVE  inode'[f].start <= ImageLen(out')
  <2>1. ASSUME \A f \in File : inode'[f].start <= ImageLen(out')
        PROVE  StartBelow'
    BY <2>1 DEF StartBelow, ImageLen
  <2> QED
    BY <2>1
<1>1. ImageLen(out) \in Nat /\ ImageLen(out') \in Nat /\ ImageLen(out) <= ImageLen(out')
  BY ImageGrows
<1>2. inode[f].start \in Nat /\ inode[f].start <= ImageLen(out)
  BY DEF TypeOK, InodeType, StartBelow
<1>3. inode'[f].start = inode[f].start \/ inode'[f].start = ImageLen(out)
  <2>1. CASE ReadFile
    BY <2>1 DEF ReadFile, TypeOK, InodeType
  <2>2. CASE ~ReadFile
    BY <2>2, StartKept
  <2> QED
    BY <2>1, <2>2
<1> HIDE DEF ImageLen
<1> QED
  BY <1>1, <1>2, <1>3

(* Each step keeps the size words exact.                                   *)
LEMMA ExactStep ==
  ASSUME TypeOK, BufferHasRoom, WordsExact, [Next]_vars
  PROVE  WordsExact'
<1> SUFFICES ASSUME 2 * BlockSize <= SizeLimit, NEW e \in DOMAIN out'
             PROVE  out'[e].len = out'[e].word.size
  BY DEF WordsExact
<1>1. \A i \in DOMAIN out : out[i].len = out[i].word.size
  BY DEF WordsExact
<1>2. CASE out' = out
  BY <1>1, <1>2
<1>3. ASSUME NEW d \in Seq(Byte), NEW s \in StoredLengths(d), s > 0,
             out' = Append(out, Extent(out, s, d)), Len(d) < 2 * BlockSize
      PROVE  out'[e].len = out'[e].word.size
  <2>1. /\ DOMAIN out = 1..Len(out) /\ DOMAIN out' = 1..Len(out) + 1 /\ Len(out) \in Nat
        /\ \A i \in 1..Len(out) : out'[i] = out[i]
    BY <1>3, Appended
  <2>2. out'[Len(out) + 1] = [start |-> ImageLen(out), len |-> s,
                              word |-> SizeWord(s, d), data |-> d]
    BY <1>3, Appended
  <2>3. SizeWord(s, d).size = s
    <3>1. Len(d) > 0
      BY <1>3, PackerAssumption DEF StoredLengths
    <3>2. s \in Nat /\ s <= Len(d)
      BY <3>1, StoredSome
    <3>3. s < SizeLimit
      BY <1>3, <3>2, PackerAssumption
    <3> QED
      BY <3>2, <3>3, SizeKept
  <2>4. CASE e \in DOMAIN out
    BY <1>1, <2>1, <2>4
  <2>5. CASE e = Len(out) + 1
    BY <2>2, <2>3, <2>5
  <2>6. e \in DOMAIN out \/ e = Len(out) + 1
    BY <2>1
  <2> QED
    BY <2>4, <2>5, <2>6
<1> QED
  BY <1>2, <1>3, OutGrows

(* The strengthened invariant, for block sizes a size word can keep.       *)
LEMMA BInvAlways ==
  ASSUME BlockSize < SizeLimit
  PROVE  Spec => []BInv
<1>1. ASSUME Init PROVE BInv
  <2>1. IInv
    BY <1>1, IInvInit
  <2>2. Ordered
    BY <1>1 DEF Init, Ordered
  <2>3. BlocksInRow /\ StartSet
    BY <1>1 DEF Init, BlocksInRow, StartSet, Begun, File, FreshInode
  <2>4. StartBelow /\ WordsExact
    BY <1>1 DEF Init, StartBelow, WordsExact, FreshInode, ImageLen, SuperblockSize
  <2> QED
    BY <2>1, <2>2, <2>3, <2>4 DEF BInv
<1>2. ASSUME BInv, [Next]_vars PROVE BInv'
  <2>1. IInv' /\ TypeOK /\ AheadIsFresh /\ BufferHasRoom
    BY <1>2, IInvStep DEF BInv, IInv
  <2>2. Ordered' /\ BlocksInRow' /\ StartSet'
    BY <1>2, <2>1, OrderedStep, RowStep, StartStep DEF BInv
  <2>3. StartBelow' /\ WordsExact'
    BY <1>2, <2>1, BelowStep, ExactStep DEF BInv
  <2> QED
    BY <2>1, <2>2, <2>3 DEF BInv
<1> QED
  BY <1>1, <1>2, PTL DEF Spec

(* Block sizes of which two fit a size word are below it.                  *)
LEMMA HalfIsBelow == 2 * BlockSize <= SizeLimit => BlockSize < SizeLimit
BY PackerAssumption

(* With exact size words, what is in a fragment block can be found there.  *)
LEMMA HeldIsFound ==
  ASSUME TypeOK, WordsExact, 2 * BlockSize <= SizeLimit,
         NEW i \in Nat, NEW off \in Nat, NEW t \in Seq(Byte), HeldAt(i, off, t)
  PROVE  FragmentHolds(i, off, t)
<1>1. \A e \in DOMAIN out : out[e].len = out[e].word.size
  BY DEF WordsExact
<1> QED
  BY <1>1 DEF HeldAt, FragmentHolds, Found

(* Whatever the files are and however they change while they are packed,   *)
(* the fragment an inode names holds the tail that was read, where the     *)
(* reader finds it with the size word of the fragment table, if the size   *)
(* word can keep the size of two blocks: a fragment block becomes nearly   *)
(* as long (writer.go:257-284, squashfs.go:711-718).                       *)
THEOREM TailsAlwaysResolve ==
  ASSUME 2 * BlockSize <= SizeLimit
  PROVE  Spec => []TailsResolve
<1>1. BInv => TailsResolve
  <2> SUFFICES ASSUME BInv, NEW f \in File, f < next
               PROVE  IF Remainder(got[f]) = 0
                        THEN inode[f].fragIdx = NoFragment
                        ELSE /\ inode[f].fragIdx # NoFragment
                             /\ FragmentHolds(inode[f].fragIdx, inode[f].fragOff, TailOf(got[f]))
    BY DEF TailsResolve, Packed
  <2>1. TypeOK /\ WordsExact
    BY DEF BInv, IInv
  <2>2. IF Remainder(got[f]) = 0
          THEN inode[f].fragIdx = NoFragment
          ELSE /\ inode[f].fragIdx # NoFragment
               /\ HeldAt(inode[f].fragIdx, inode[f].fragOff, TailOf(got[f]))
    BY DEF BInv, IInv, TailsPlaced, Packed
  <2>3. got[f] \in Seq(Byte) /\ inode[f] \in InodeType
    BY <2>1 DEF TypeOK
  <2>4. TailOf(got[f]) \in Seq(Byte) /\ inode[f].fragOff \in Nat
        /\ (inode[f].fragIdx # NoFragment => inode[f].fragIdx \in Nat)
    BY <2>3, TailType DEF InodeType
  <2> QED
    BY <2>1, <2>2, <2>4, HeldIsFound
<1> QED
  BY <1>1, HalfIsBelow, BInvAlways, PTL

(* What the recursive function of BlockAddress says of a.                  *)
AreAddresses(a, f) ==
  a = [k \in 1..Len(inode[f].words) |->
         IF k = 1 THEN ReaderStart(f) ELSE a[k - 1] + inode[f].words[k - 1].size]

(* The addresses a reader computes are where the blocks of the row start.  *)
LEMMA Addresses ==
  ASSUME TypeOK, NEW f \in File, NEW e \in 0..Len(out), InRow(f, e),
         inode[f].start < AddressLimit
  PROVE  \A k \in DOMAIN inode[f].words : BlockAddress(f)[k] = out[e + k].start
<1> DEFINE w == inode[f].words
           n == Len(w)
           s == ReaderStart(f)
           g == [k \in 1..n |-> out[e + k].start]
           a == BlockAddress(f)
<1>1. n \in Nat /\ DOMAIN w = 1..n /\ e \in Nat
  <2>1. w \in Seq(Word) /\ Len(out) \in Nat
    BY DEF TypeOK, InodeType
  <2> QED
    BY <2>1
<1>2. \A k \in 1..n :
        /\ out[e + k].len = w[k].size
        /\ out[e + k].start = IF k = 1 THEN s ELSE out[e + k - 1].start + out[e + k - 1].len
  <2>0. s = inode[f].start
    <3>1. inode[f].start \in Nat
      BY DEF TypeOK, InodeType
    <3>2. inode[f].start % AddressLimit = inode[f].start
      BY <3>1, PackerAssumption
    <3> QED
      BY <3>2 DEF ReaderStart
  <2>1. \A k \in DOMAIN w :
          /\ out[e + k].len = w[k].size
          /\ out[e + k].start = IF k = 1 THEN s ELSE out[e + k - 1].start + out[e + k - 1].len
    BY <2>0 DEF InRow
  <2> HIDE DEF w, n, s
  <2> QED
    BY <1>1, <2>1
<1>3. \A k \in 1..n : g[k] = IF k = 1 THEN s ELSE g[k - 1] + w[k - 1].size
  <2> SUFFICES ASSUME NEW k \in 1..n
               PROVE  g[k] = IF k = 1 THEN s ELSE g[k - 1] + w[k - 1].size
    OBVIOUS
  <2> HIDE DEF w, n, s
  <2>1. CASE k = 1
    BY <1>2, <2>1
  <2>2. CASE k # 1
    <3>1. k - 1 \in 1..n /\ e + (k - 1) = e + k - 1
      BY <1>1, <2>2
    <3>2. g[k - 1] = out[e + k - 1].start
      BY <3>1
    <3>3. out[e + k - 1].len = w[k - 1].size
      BY <1>2, <3>1
    <3> QED
      BY <1>2, <2>2, <3>2, <3>3
  <2> QED
    BY <2>1, <2>2
<1>4. AreAddresses(a, f)
  <2>1. AreAddresses(g, f)
    <3>1. g = [k \in 1..n |-> IF k = 1 THEN s ELSE g[k - 1] + w[k - 1].size]
      <4>1. DOMAIN g = 1..n /\ g = [k \in 1..n |-> g[k]]
        OBVIOUS
      <4> HIDE DEF g, w, n, s
      <4> QED
        BY <1>3, <4>1
    <3> HIDE DEF g
    <3> QED
      BY <3>1 DEF AreAddresses
  <2>2. \E x : AreAddresses(x, f)
    BY <2>1
  <2>3. a = CHOOSE x : AreAddresses(x, f)
    BY DEF BlockAddress, AreAddresses
  <2> HIDE DEF a, g
  <2> QED
    BY <2>2, <2>3
<1>5. \A k \in 1..n : a[k] = IF k = 1 THEN s ELSE a[k - 1] + w[k - 1].size
  <2> HIDE DEF a
  <2> QED
    BY <1>4 DEF AreAddresses
<1> DEFINE Bad == {k \in 1..n : a[k] # g[k]}
<1>6. ASSUME Bad # {}
      PROVE  FALSE
  <2>1. PICK k \in Bad : \A j \in Bad : k <= j
    <3>1. Bad \subseteq Nat
      BY <1>1
    <3> HIDE DEF Bad
    <3> QED
      BY <1>6, <3>1, HasLeast
  <2> HIDE DEF a, g, w, n, s
  <2>2. k \in 1..n /\ a[k] # g[k]
    OBVIOUS
  <2>3. k # 1
    BY <1>3, <1>5, <2>2
  <2>4. k - 1 \in 1..n /\ a[k - 1] = g[k - 1]
    BY <1>1, <2>1, <2>2, <2>3
  <2> QED
    BY <1>3, <1>5, <2>2, <2>3, <2>4
<1>7. \A k \in 1..n : g[k] = out[e + k].start
  <2> HIDE DEF n
  <2> QED
    OBVIOUS
<1> HIDE DEF a, g, w, n
<1>8. \A k \in 1..n : a[k] = out[e + k].start
  BY <1>6, <1>7
<1> QED
  BY <1>1, <1>8 DEF a, w

(* The blocks of a file the loop has passed: where they are and how many.  *)
LEMMA PassedRow ==
  ASSUME BInv, NEW f \in File, f < next
  PROVE  /\ Len(inode[f].words) = FullBlocks(got[f])
         /\ \E e \in 0..Len(out) :
              /\ InRow(f, e)
              /\ \A k \in DOMAIN inode[f].words :
                   /\ e + k \in DOMAIN out
                   /\ inode[f].start < AddressLimit => BlockAddress(f)[k] = out[e + k].start
                   /\ out[e + k].word = inode[f].words[k]
                   /\ out[e + k].len = inode[f].words[k].size
                   /\ out[e + k].data = Block(got[f], k)
<1> DEFINE w == inode[f].words
<1>1. TypeOK /\ Len(w) = FullBlocks(got[f])
  BY DEF BInv, IInv, WordPerBlock, Cut
<1>2. PICK e \in 0..Len(out) : InRow(f, e)
  BY DEF BInv, BlocksInRow, Begun
<1>3. out \in Seq(ExtentType) /\ w \in Seq(Word)
  BY <1>1 DEF TypeOK, InodeType
<1>4. inode[f].start < AddressLimit =>
        \A k \in DOMAIN w : BlockAddress(f)[k] = out[e + k].start
  BY <1>1, <1>2, Addresses
<1>5. /\ e + Len(w) <= Len(out)
      /\ \A k \in DOMAIN w : /\ out[e + k].word = w[k] /\ out[e + k].len = w[k].size
                             /\ out[e + k].data = Block(got[f], k)
  BY <1>2 DEF InRow
<1>6. \A k \in DOMAIN w : e + k \in DOMAIN out
  <2>1. DOMAIN w = 1..Len(w) /\ DOMAIN out = 1..Len(out) /\ Len(w) \in Nat /\ Len(out) \in Nat
    BY <1>3
  <2> HIDE DEF w
  <2> QED
    BY <1>5, <2>1
<1> QED
  BY <1>1, <1>2, <1>4, <1>5, <1>6

(* Walking the size words from startBlock ends up on the blocks that were  *)
(* read from the file, in order, for every number of files, whatever the   *)
(* compressor reaches, as long as the file begins where a basic inode can  *)
(* say, in the first 4 GiB (writer.go:242-252, 543, squashfs.go:672-708).  *)
THEOREM BlocksAlwaysResolve ==
  ASSUME BlockSize < SizeLimit
  PROVE  Spec => []BlocksResolve
<1>1. BInv => BlocksResolve
  <2> SUFFICES ASSUME BInv, NEW f \in File, f < next
               PROVE  /\ Len(inode[f].words) = FullBlocks(got[f])
                      /\ inode[f].start < AddressLimit =>
                           \A k \in DOMAIN inode[f].words :
                             Yields(BlockAddress(f)[k], inode[f].words[k], Block(got[f], k))
    BY DEF BlocksResolve, Packed
  <2>1. PICK e \in 0..Len(out) :
              \A k \in DOMAIN inode[f].words :
                   /\ e + k \in DOMAIN out
                   /\ inode[f].start < AddressLimit => BlockAddress(f)[k] = out[e + k].start
                   /\ out[e + k].word = inode[f].words[k]
                   /\ out[e + k].len = inode[f].words[k].size
                   /\ out[e + k].data = Block(got[f], k)
    BY PassedRow
  <2>2. inode[f].start < AddressLimit =>
          \A k \in DOMAIN inode[f].words :
            Yields(BlockAddress(f)[k], inode[f].words[k], Block(got[f], k))
    BY <2>1 DEF Yields, Found
  <2> QED
    BY <2>2, PassedRow
<1> QED
  BY <1>1, BInvAlways, PTL

-----------------------------------------------------------------------------
(* What the archive yields.                                                *)

(* No two extents start at the same address: the address finds the data.   *)
LEMMA AddressFinds ==
  ASSUME TypeOK, Ordered, NEW e \in DOMAIN out, NEW addr, NEW word, Found(e, addr, word)
  PROVE  At(addr, word) = out[e].data
<1>1. DOMAIN out = 1..Len(out) /\ Len(out) \in Nat
      /\ \A d \in DOMAIN out : out[d].start \in Nat /\ out[d].len \in Nat
  <2>1. out \in Seq(ExtentType)
    BY DEF TypeOK
  <2>2. \A d \in DOMAIN out : out[d] \in ExtentType
    BY <2>1
  <2> QED
    BY <2>1, <2>2 DEF ExtentType
<1>2. ASSUME NEW d \in DOMAIN out, out[d].start = out[e].start
      PROVE  d = e
  <2>1. out[d].len > 0 /\ out[e].len > 0
    BY DEF Ordered
  <2>2. /\ d < e => out[d].start + out[d].len <= out[e].start
        /\ e < d => out[e].start + out[e].len <= out[d].start
    BY DEF Ordered
  <2>3. d \in Nat /\ e \in Nat
    BY <1>1
  <2>4. ~(d < e) /\ ~(e < d)
    BY <1>1, <1>2, <2>1, <2>2
  <2> QED
    BY <2>3, <2>4
<1>3. (CHOOSE d \in DOMAIN out : Found(d, addr, word)) = e
  BY <1>2 DEF Found
<1> QED
  BY <1>3 DEF At

(* The full blocks of a file.                                              *)
Blocks(c, q) == [k \in 1..q |-> Block(c, k)]

(* The end of a block is at most the end of the full blocks.               *)
LEMMA BlockEnds ==
  ASSUME NEW c \in Seq(Byte), NEW q \in 0..FullBlocks(c)
  PROVE  q * BlockSize \in 0..Len(c)
<1> DEFINE n == FullBlocks(c)
           m == q * BlockSize
           l == BlockSize * n
<1>1. n \in Nat /\ l \in Nat /\ l <= Len(c) /\ Len(c) \in Nat /\ BlockSize \in Nat
  BY Split, PackerAssumption
<1>2. q \in Nat /\ q <= n
  BY <1>1
<1>3. m \in Nat /\ m <= l
  BY <1>1, <1>2
<1> HIDE DEF m, l
<1>4. m \in 0..Len(c)
  BY <1>1, <1>3
<1> QED
  BY <1>4 DEF m

(* The first blocks of a file, joined, are its beginning.                  *)
LEMMA BlocksJoined ==
  ASSUME NEW c \in Seq(Byte)
  PROVE  \A q \in 0..FullBlocks(c) :
           FlattenSeq(Blocks(c, q)) = SubSeq(c, 1, q * BlockSize)
<1> DEFINE Bad == {q \in 0..FullBlocks(c) :
                     FlattenSeq(Blocks(c, q)) # SubSeq(c, 1, q * BlockSize)}
<1>1. FullBlocks(c) \in Nat
  BY Split
<1>2. ASSUME Bad # {}
      PROVE  FALSE
  <2>1. PICK q \in Bad : \A p \in Bad : q <= p
    <3>1. Bad \subseteq Nat
      BY <1>1
    <3> HIDE DEF Bad
    <3> QED
      BY <1>2, <3>1, HasLeast
  <2>2. q \in 0..FullBlocks(c) /\ q \in Nat
        /\ FlattenSeq(Blocks(c, q)) # SubSeq(c, 1, q * BlockSize)
    BY <1>1
  <2>3. CASE q = 0
    <3>1. Blocks(c, 0) = <<>>
      BY DEF Blocks
    <3>2. 0 * BlockSize = 0
      BY PackerAssumption
    <3>3. SubSeq(c, 1, 0) = <<>>
      BY SubSeqEmpty
    <3> QED
      BY <2>2, <2>3, <3>1, <3>2, <3>3, FlattenEmpty
  <2>4. CASE q # 0
    <3> DEFINE p  == q - 1
               lo == p * BlockSize
               hi == q * BlockSize
    <3>1. p \in Nat /\ p + 1 = q /\ p \in 0..FullBlocks(c) /\ q \in 1..FullBlocks(c)
      BY <1>1, <2>2, <2>4
    <3>2. FlattenSeq(Blocks(c, p)) = SubSeq(c, 1, lo)
      <4>1. p \notin Bad
        <5> HIDE DEF Bad
        <5> QED
          BY <2>1, <3>1
      <4> QED
        BY <3>1, <4>1
    <3>3. Block(c, q) \in Seq(Byte) /\ Blocks(c, p) \in Seq(Seq(Byte))
      <4>1. \A k \in 1..p : k \in 1..FullBlocks(c)
        BY <1>1, <3>1
      <4>2. \A k \in 1..FullBlocks(c) : Block(c, k) \in Seq(Byte)
        BY BlockType
      <4>3. Blocks(c, p) \in Seq(Seq(Byte))
        <5> HIDE DEF p
        <5> QED
          BY <3>1, <4>1, <4>2 DEF Blocks
      <4> QED
        BY <3>1, <4>2, <4>3
    <3>4. Blocks(c, q) = Append(Blocks(c, p), Block(c, q))
      <4> DEFINE Longer == Append(Blocks(c, p), Block(c, q))
      <4>1. Len(Blocks(c, p)) = p /\ Len(Blocks(c, q)) = q /\ Blocks(c, q) \in Seq(Seq(Byte))
        <5>1. \A k \in 1..FullBlocks(c) : Block(c, k) \in Seq(Byte)
          BY BlockType
        <5>2. \A k \in 1..q : k \in 1..FullBlocks(c)
          BY <1>1, <3>1
        <5> HIDE DEF p
        <5> QED
          BY <3>1, <5>1, <5>2 DEF Blocks
      <4>2. /\ Longer \in Seq(Seq(Byte)) /\ Len(Longer) = p + 1 /\ Longer[p + 1] = Block(c, q)
            /\ \A k \in 1..p : Longer[k] = Blocks(c, p)[k]
        BY <3>3, <4>1, AppendProperties
      <4>3. \A k \in 1..q : Longer[k] = Blocks(c, q)[k]
        <5>1. \A k \in 1..q : k = p + 1 \/ k \in 1..p
          BY <3>1
        <5>2. \A k \in 1..p : Blocks(c, p)[k] = Block(c, k)
          BY DEF Blocks
        <5>3. \A k \in 1..q : Blocks(c, q)[k] = Block(c, k)
          BY DEF Blocks
        <5> HIDE DEF Longer, p
        <5> QED
          BY <3>1, <4>2, <5>1, <5>2, <5>3
      <4> HIDE DEF Longer, p
      <4>4. Longer = Blocks(c, q)
        BY <3>1, <4>1, <4>2, <4>3, SeqEqual
      <4> QED
        BY <4>4 DEF Longer
    <3>5. FlattenSeq(Blocks(c, q)) = SubSeq(c, 1, lo) \o Block(c, q)
      BY <3>2, <3>3, <3>4, FlattenAppend
    <3>6. lo \in 0..Len(c) /\ hi \in 0..Len(c) /\ hi = lo + BlockSize
      <4>1. lo \in 0..Len(c) /\ hi \in 0..Len(c)
        BY <2>2, <3>1, BlockEnds
      <4>2. hi = lo + BlockSize
        BY <3>1, PackerAssumption
      <4> QED
        BY <4>1, <4>2
    <3>7. Block(c, q) = SubSeq(c, lo + 1, hi)
      BY DEF Block
    <3> HIDE DEF lo, hi
    <3>8. 1 \in 1..Len(c) + 1 /\ lo \in 1 - 1..Len(c) /\ hi \in lo..Len(c)
      BY <3>6, PackerAssumption
    <3>9. SubSeq(c, 1, lo) \o SubSeq(c, lo + 1, hi) = SubSeq(c, 1, hi)
      BY <3>8, ConcatAdjacentSubSeq
    <3> QED
      BY <2>2, <3>5, <3>7, <3>9 DEF hi
  <2> QED
    BY <2>3, <2>4
<1> QED
  BY <1>2

(* As many bytes of a fragment as a tail has are the tail, where the       *)
(* fragment holds it.                                                      *)
LEMMA SliceIsTail ==
  ASSUME NEW d \in Seq(Byte), NEW t \in Seq(Byte), NEW off \in Nat, Holds(d, off, t)
  PROVE  Slice(d, off, Len(t)) = t
<1> DEFINE n == Len(t)
           u == SubSeq(d, off + 1, off + n)
<1>1. n \in Nat /\ Len(d) \in Nat /\ off + n <= Len(d) /\ \A i \in 1..n : d[off + i] = t[i]
  BY DEF Holds
<1>2. Slice(d, off, n) = u
  BY <1>1 DEF Slice
<1>3. u \in Seq(Byte) /\ Len(u) = n /\ \A i \in 1..n : u[i] = d[off + i]
  <2> HIDE DEF n
  <2> DEFINE lo == off + 1
             hi == off + n
  <2>1. lo \in Nat /\ hi \in Nat /\ lo >= 1 /\ hi <= Len(d) /\ hi - lo + 1 = n
    BY <1>1
  <2> HIDE DEF lo, hi
  <2>2. SubSeq(d, lo, hi) \in Seq(Byte) /\ Len(SubSeq(d, lo, hi)) = n
    BY <1>1, <2>1
  <2>3. \A i \in 1..n : SubSeq(d, lo, hi)[i] = d[lo + i - 1]
    BY <1>1, <2>1
  <2>4. \A i \in 1..n : lo + i - 1 = off + i
    BY <1>1 DEF lo
  <2> QED
    BY <2>2, <2>3, <2>4 DEF lo, hi
<1> HIDE DEF u, n
<1>4. u = t
  <2>1. \A i \in 1..Len(u) : u[i] = t[i]
    BY <1>1, <1>3
  <2> QED
    BY <1>3, <2>1, SeqEqual DEF n
<1> QED
  BY <1>2, <1>4 DEF n

(* The fragment that holds the tail of a file yields it.                   *)
LEMMA FragmentYields ==
  ASSUME TypeOK, Ordered, NEW i \in Nat, NEW off \in Nat, NEW t \in Seq(Byte),
         FragmentHolds(i, off, t)
  PROVE  Slice(FragmentData(i), off, Len(t)) = t
<1>1. CASE i < Len(fragEntries)
  <2>1. PICK e \in DOMAIN out :
          /\ Found(e, fragEntries[i + 1].start, fragEntries[i + 1].word)
          /\ Holds(out[e].data, off, t)
    BY <1>1 DEF FragmentHolds
  <2>2. FragmentData(i) = out[e].data
    BY <1>1, <2>1, AddressFinds DEF FragmentData
  <2>3. out[e].data \in Seq(Byte)
    <3>1. out[e] \in ExtentType
      BY DEF TypeOK
    <3> QED
      BY <3>1 DEF ExtentType
  <2> QED
    BY <2>1, <2>2, <2>3, SliceIsTail
<1>2. CASE ~(i < Len(fragEntries))
  <2>1. Holds(fragBuf, off, t) /\ FragmentData(i) = fragBuf
    BY <1>2 DEF FragmentHolds, FragmentData
  <2>2. fragBuf \in Seq(Byte)
    BY DEF TypeOK
  <2> QED
    BY <2>1, <2>2, SliceIsTail
<1> QED
  BY <1>1, <1>2

(* The blocks the reader finds are the full blocks that were read.         *)
LEMMA BodyIsBlocks ==
  ASSUME BInv, NEW f \in File, f < next,
         Len(got[f]) = fileSize[f], fileSize[f] < LengthLimit, inode[f].start < AddressLimit
  PROVE  FlattenSeq(DataBlocks(f)) = SubSeq(got[f], 1, FullBlocks(got[f]) * BlockSize)
<1> DEFINE w == inode[f].words
           c == got[f]
<1>1. TypeOK /\ Ordered /\ Len(w) = FullBlocks(c)
  BY PassedRow DEF BInv, IInv
<1>2. c \in Seq(Byte) /\ w \in Seq(Word)
  BY <1>1 DEF TypeOK, InodeType
<1>3. PICK e \in 0..Len(out) :
         \A k \in DOMAIN w : /\ e + k \in DOMAIN out
                             /\ BlockAddress(f)[k] = out[e + k].start
                             /\ out[e + k].word = w[k] /\ out[e + k].len = w[k].size
                             /\ out[e + k].data = Block(c, k)
  BY PassedRow
<1>4. \A k \in DOMAIN w : At(BlockAddress(f)[k], w[k]) = Block(c, k)
  <2> HIDE DEF w, c
  <2> SUFFICES ASSUME NEW k \in DOMAIN w
               PROVE  At(BlockAddress(f)[k], w[k]) = Block(c, k)
    OBVIOUS
  <2>1. e + k \in DOMAIN out /\ Found(e + k, BlockAddress(f)[k], w[k])
    BY <1>3 DEF Found
  <2>2. At(BlockAddress(f)[k], w[k]) = out[e + k].data
    BY <1>1, <2>1, AddressFinds
  <2> QED
    BY <1>3, <2>2
<1>5. DOMAIN w = 1..FullBlocks(c)
  <2> HIDE DEF w, c
  <2> QED
    BY <1>1, <1>2
<1>6. DataBlocks(f) = Blocks(c, FullBlocks(c))
  <2>1. ReaderBlocks(f) = FullBlocks(c)
    BY StattedCounts DEF BInv
  <2> QED
    BY <1>4, <1>5, <2>1 DEF DataBlocks, Blocks
<1>7. FullBlocks(c) \in Nat
  BY <1>2, Split
<1> HIDE DEF w, c
<1>8. FullBlocks(c) \in 0..FullBlocks(c)
  BY <1>7
<1> QED
  BY <1>2, <1>6, <1>8, BlocksJoined DEF c

(* What the reader writes of a file that was read as long as it was found  *)
(* is what was read.                                                       *)
LEMMA WrittenIsRead ==
  ASSUME BInv, 2 * BlockSize <= SizeLimit, NEW f \in File, f < next,
         Len(got[f]) = fileSize[f], fileSize[f] < LengthLimit, inode[f].start < AddressLimit
  PROVE  Written(f) = got[f]
<1> DEFINE c    == got[f]
           n    == inode[f]
           q    == FullBlocks(c) * BlockSize
           body == FlattenSeq(DataBlocks(f))
           r    == Remainder(c)
<1>1. TypeOK /\ Ordered /\ WordsExact
  BY DEF BInv, IInv
<1>2. c \in Seq(Byte) /\ n \in InodeType
  BY <1>1 DEF TypeOK
<1>3. body = SubSeq(c, 1, q)
  BY BodyIsBlocks
<1>4. q \in 0..Len(c) /\ Len(c) = q + r /\ r \in Nat /\ q \in Nat
  <2>1. FullBlocks(c) \in Nat /\ r \in 0..BlockSize - 1
        /\ Len(c) = (BlockSize * FullBlocks(c)) + r
    BY <1>2, Split
  <2>2. BlockSize * FullBlocks(c) = FullBlocks(c) * BlockSize /\ q \in Nat
    BY <2>1, PackerAssumption
  <2>3. r \in Nat
    BY <2>1, PackerAssumption
  <2> HIDE DEF q, r
  <2>4. Len(c) = q + r
    BY <2>1, <2>2 DEF q
  <2> QED
    BY <2>2, <2>3, <2>4
<1>5. Len(body) = q
  <2> HIDE DEF q, c, body
  <2> QED
    BY <1>2, <1>3, <1>4
<1>6. IF r = 0 THEN n.fragIdx = NoFragment
      ELSE /\ n.fragIdx # NoFragment
           /\ HeldAt(n.fragIdx, n.fragOff, TailOf(c))
  BY DEF BInv, IInv, TailsPlaced, Packed
<1>7. CASE r = 0
  <2>1. Written(f) = body
    BY <1>6, <1>7 DEF Written
  <2>2. q = Len(c)
    BY <1>4, <1>7
  <2> HIDE DEF q, body
  <2> QED
    BY <1>2, <1>3, <2>1, <2>2, SubSeqFull
<1>8. CASE r # 0
  <2> DEFINE t == TailOf(c)
  <2>1. n.fragIdx \in Nat /\ n.fragOff \in Nat /\ n.fragIdx # NoFragment
    BY <1>2, <1>6, <1>8 DEF InodeType
  <2>2. t \in Seq(Byte) /\ Len(t) = r
    BY <1>2, TailType
  <2>3. FragmentHolds(n.fragIdx, n.fragOff, t)
    <3>1. HeldAt(n.fragIdx, n.fragOff, t)
      BY <1>6, <1>8
    <3> HIDE DEF t, n
    <3> QED
      BY <1>1, <2>1, <2>2, <3>1, HeldIsFound
  <2>4. Slice(FragmentData(n.fragIdx), n.fragOff, Len(t)) = t
    <3> HIDE DEF t, n
    <3> QED
      BY <1>1, <2>1, <2>2, <2>3, FragmentYields
  <2>5. ReaderLength(f) - Len(body) = Len(t)
    <3>1. ReaderLength(f) = Len(c)
      BY StattedCounts DEF BInv
    <3> HIDE DEF c, q, r, body, t
    <3> QED
      BY <1>4, <1>5, <2>2, <3>1
  <2>6. Written(f) = body \o t
    <3>1. Written(f) = body \o Slice(FragmentData(n.fragIdx), n.fragOff, ReaderLength(f) - Len(body))
      BY <2>1 DEF Written
    <3> HIDE DEF c, body, t
    <3> QED
      BY <2>4, <2>5, <3>1
  <2>7. t = SubSeq(c, q + 1, Len(c))
    <3>1. Len(c) - r = q
      <4> HIDE DEF c, q, r
      <4> QED
        BY <1>2, <1>4
    <3> HIDE DEF q, c
    <3> QED
      BY <3>1 DEF TailOf
  <2> HIDE DEF c, q, r, body, t
  <2>8. SubSeq(c, 1, q) \o SubSeq(c, q + 1, Len(c)) = SubSeq(c, 1, Len(c))
    <3>1. Len(c) \in Nat
      BY <1>2
    <3>2. 1 \in 1..Len(c) + 1 /\ q \in 1 - 1..Len(c) /\ Len(c) \in q..Len(c)
      BY <1>4, <3>1
    <3> QED
      BY <1>2, <3>2, ConcatAdjacentSubSeq
  <2>9. SubSeq(c, 1, Len(c)) = c
    BY <1>2, SubSeqFull
  <2>10. Written(f) = c
    BY <1>3, <2>6, <2>7, <2>8, <2>9
  <2> QED
    BY <2>10 DEF c
<1> QED
  BY <1>7, <1>8

(* What is said of a file: what was read, or nothing. *)
Said(f) == IF Promised(f) THEN [kept |-> TRUE, data |-> got[f]]
             ELSE [kept |-> FALSE, data |-> <<>>]

(* The image yields each file the loop has passed as it was read, if       *)
(* anything is promised of it.                                             *)
LEMMA YieldIsRead ==
  ASSUME BInv, 2 * BlockSize <= SizeLimit, NEW f \in File, f < next
  PROVE  Yield(f) = Said(f)
<1>1. CASE ~Promised(f)
  BY <1>1 DEF Yield, Said
<1>2. CASE fileSize[f] = 0
  <2>1. got[f] = <<>>
    BY <1>2 DEF BInv, StartSet
  <2>2. ReaderLength(f) = 0
    <3>1. 0 % LengthLimit = 0
      BY PackerAssumption
    <3> QED
      BY <1>2, <3>1 DEF ReaderLength
  <2>3. Written(f) = <<>>
    <3>1. inode[f].fragIdx = NoFragment
      <4>1. Remainder(<<>>) = 0
        BY PackerAssumption, SMT DEF Remainder
      <4> QED
        BY <2>1, <4>1 DEF BInv, IInv, TailsPlaced, Packed
    <3>2. ReaderBlocks(f) = 0
      <4>1. 0 \div BlockSize = 0 /\ 0 % BlockSize = 0
        BY PackerAssumption
      <4> QED
        BY <2>2, <4>1 DEF ReaderBlocks
    <3>3. DataBlocks(f) = <<>>
      BY <3>2 DEF DataBlocks
    <3> QED
      BY <3>1, <3>3, FlattenEmpty DEF Written
  <2>4. Truncated(<<>>, 0) = <<>>
    <3>1. SubSeq(<<>>, 1, 0) = <<>>
      BY SubSeqEmpty
    <3> QED
      BY <3>1 DEF Truncated
  <2>5. Extracted(f) = <<>>
    BY <2>2, <2>3, <2>4 DEF Extracted
  <2> QED
    BY <1>2, <2>1, <2>5 DEF Yield, Said, Promised
<1>3. CASE Promised(f) /\ fileSize[f] # 0
  <2>1. /\ Len(got[f]) = fileSize[f] /\ fileSize[f] < LengthLimit
        /\ inode[f].start < AddressLimit
    BY <1>3 DEF Promised
  <2>2. Written(f) = got[f] /\ ReaderLength(f) = Len(got[f])
    BY <2>1, WrittenIsRead, StattedCounts DEF BInv
  <2>3. got[f] \in Seq(Byte) /\ Len(got[f]) \in Nat
    BY DEF BInv, IInv, TypeOK
  <2>4. Extracted(f) = got[f]
    <3>1. Extracted(f) = Truncated(got[f], Len(got[f]))
      BY <2>2 DEF Extracted
    <3>2. Truncated(got[f], Len(got[f])) = SubSeq(got[f], 1, Len(got[f]))
      BY <2>3 DEF Truncated
    <3> QED
      BY <2>3, <3>1, <3>2, SubSeqFull
  <2> QED
    BY <1>3, <2>4 DEF Yield, Said
<1> QED
  BY <1>1, <1>2, <1>3

-----------------------------------------------------------------------------
(* The refinement.                                                         *)

(* What the archive yields for the files taken so far. *)
Taken == [f \in 1..next - 1 |-> Yield(f)]

(* The same of all the files the loop has passed, now and after a step.    *)
AllRead == \A f \in File : f < next => Yield(f) = Said(f)

LEMMA AllAreRead ==
  ASSUME 2 * BlockSize <= SizeLimit
  PROVE  (BInv => AllRead) /\ (BInv' => AllRead')
<1>1. BInv => AllRead
  BY YieldIsRead DEF AllRead
<1> QED
  BY <1>1, PTL

(* The lengths Lstat reported stay as they are.                            *)
LEMMA SizesKept == [Next]_vars => fileSize' = fileSize
BY DEF Next, Pack, SkipFile, ReadFile, WriteBlock, EndBlocks, NoTail, ReuseTail,
       AddTail, Finish, Rewrite, vars

(* What is said of a file the loop has passed is not unsaid.               *)
LEMMA SaidKept ==
  ASSUME TypeOK, [Next]_vars, NEW f \in File, f < next
  PROVE  Said(f)' = Said(f)
<1>1. got'[f] = got[f] /\ inode'[f] = inode[f] /\ fileSize' = fileSize
  BY PassedKept, SizesKept
<1> QED
  BY <1>1 DEF Said, Promised

(* What has been taken is yielded from then on as it was read.             *)
LEMMA TakenKept ==
  ASSUME BInv, BInv', 2 * BlockSize <= SizeLimit, [Next]_vars, next' = next
  PROVE  Taken' = Taken
<1>1. next \in 1..NumFiles + 1 /\ NumFiles \in Nat /\ TypeOK
  BY PackerAssumption DEF BInv, IInv, TypeOK
<1>2. \A f \in 1..next - 1 : f \in File /\ f < next
  BY <1>1 DEF File
<1>3. \A f \in 1..next - 1 : Yield(f) = Said(f) /\ Said(f)' = Said(f)
  <2>1. \A f \in File : f < next => Said(f)' = Said(f)
    BY <1>1, SaidKept
  <2> QED
    BY <1>2, <2>1, YieldIsRead
<1>4. \A f \in 1..next - 1 : Yield(f)' = Said(f)'
  <2> SUFFICES ASSUME NEW f \in 1..next - 1 PROVE Yield(f)' = Said(f)'
    OBVIOUS
  <2>1. f \in File /\ f < next'
    BY <1>2
  <2>2. AllRead'
    BY AllAreRead
  <2> QED
    BY <2>1, <2>2 DEF AllRead
<1> QED
  BY <1>3, <1>4 DEF Taken

(* Going to the next file is saying something of it.                       *)
LEMMA TakenGrows ==
  ASSUME BInv, BInv', 2 * BlockSize <= SizeLimit, [Next]_vars, next' = next + 1
  PROVE  /\ next \in File /\ Len(Taken) = next - 1
         /\ \A f \in File : f = next => Taken' = Append(Taken, Said(f)')
<1> DEFINE S == [kept : BOOLEAN, data : Seq(Byte)]
           said == [f \in File |-> Said(f)']
<1>1. /\ next \in 1..NumFiles + 1 /\ next' \in 1..NumFiles + 1 /\ NumFiles \in Nat
      /\ TypeOK /\ TypeOK'
  BY PackerAssumption DEF BInv, IInv, TypeOK
<1>2. next \in File /\ \A f \in 1..next - 1 : f \in File /\ f < next
  BY <1>1 DEF File
<1>3. \A f \in 1..next - 1 : Yield(f) = said[f]
  <2>1. \A f \in File : f < next => Said(f)' = Said(f)
    BY <1>1, SaidKept
  <2>2. \A f \in File : said[f] = Said(f)'
    OBVIOUS
  <2> HIDE DEF said
  <2> QED
    BY <1>2, <2>1, <2>2, YieldIsRead
<1>4. \A f \in 1..next : f \in File /\ Yield(f)' = said[f]
  <2> SUFFICES ASSUME NEW f \in 1..next PROVE f \in File /\ Yield(f)' = Said(f)'
    BY DEF File
  <2>1. f \in File /\ f < next'
    BY <1>1, <1>2
  <2>2. AllRead'
    BY AllAreRead
  <2> QED
    BY <2>1, <2>2 DEF AllRead
<1>5. said \in [File -> S] /\ \A f \in File : f = next => said[next] = Said(f)'
  <2> SUFFICES ASSUME NEW f \in File PROVE Said(f)' \in S
    BY <1>2
  <2>1. got'[f] \in Seq(Byte)
    BY <1>1 DEF TypeOK
  <2> QED
    BY <2>1 DEF Said
<1> DEFINE old == Taken
           new == [f \in 1..next |-> said[f]]
<1>6. Taken' = new
  <2>1. Taken' = [f \in 1..next |-> Yield(f)']
    <3>1. 1..next' - 1 = 1..next
      BY <1>1
    <3>2. Taken' = [f \in 1..next' - 1 |-> Yield(f)']
      BY DEF Taken
    <3> QED
      BY <3>1, <3>2
  <2> HIDE DEF said
  <2> QED
    BY <1>4, <2>1
<1> HIDE DEF said, S
<1>7. old = [f \in 1..next - 1 |-> said[f]]
  BY <1>3 DEF Taken
<1>8. \A f \in 1..next : said[f] \in S
  BY <1>4, <1>5
<1> HIDE DEF old
<1>9. old \in Seq(S) /\ Len(old) = next - 1
  <2>1. next - 1 \in Nat /\ \A f \in 1..next - 1 : said[f] \in S
    BY <1>1, <1>8
  <2> QED
    BY <1>7, <2>1
<1>10. new \in Seq(S) /\ Len(new) = next
  <2>1. next \in Nat
    BY <1>1
  <2> QED
    BY <1>8, <2>1
<1> DEFINE grown == Append(old, said[next])
<1>11. /\ grown \in Seq(S) /\ Len(grown) = next - 1 + 1 /\ grown[next - 1 + 1] = said[next]
       /\ \A f \in 1..next - 1 : grown[f] = old[f]
  <2>1. said[next] \in S
    BY <1>1, <1>8
  <2> QED
    BY <1>9, <2>1, AppendProperties
<1>12. \A f \in 1..next : grown[f] = new[f]
  <2> SUFFICES ASSUME NEW f \in 1..next PROVE grown[f] = said[f]
    OBVIOUS
  <2>1. f \in 1..next - 1 \/ f = next
    BY <1>1
  <2>2. next - 1 + 1 = next
    BY <1>1
  <2> HIDE DEF grown
  <2> QED
    BY <1>7, <1>11, <2>1, <2>2
<1>13. grown = new
  <2>1. next - 1 + 1 = next
    BY <1>1
  <2> HIDE DEF grown, new
  <2> QED
    BY <1>10, <1>11, <1>12, <2>1, SeqEqual
<1> QED
  BY <1>2, <1>5, <1>6, <1>9, <1>13 DEF old

(* A step that reads no file and rewrites none leaves the sources alone.   *)
LEMMA SourceKept ==
  ASSUME BInv, [Next]_vars, ~Rewrite
  PROVE  Source' = Source /\ fileSize' = fileSize
<1>1. disk' = disk /\ fileSize' = fileSize
  BY DEF Next, Pack, SkipFile, ReadFile, WriteBlock, EndBlocks, NoTail, ReuseTail,
         AddTail, Finish, vars
<1>2. TypeOK
  BY DEF BInv, IInv
<1>3. CASE ~ReadFile
  BY <1>1, <1>2, <1>3, StartKept DEF Source
<1>4. CASE ReadFile
  <2>1. next \in File /\ inode[next].start = 0
    BY <1>2, <1>4 DEF ReadFile, BInv, StartSet, Begun, TypeOK, File
  <2>2. inode'[next].start # 0
    <3>1. inode'[next].start = ImageLen(out)
      BY <1>2, <1>4, <2>1 DEF ReadFile, TypeOK, InodeType
    <3> QED
      BY <1>2, <3>1, ImageLenAtLeast DEF BInv
  <2>3. disk[next] = [data |-> got'[next], readable |-> TRUE]
    BY <1>2, <1>4, <2>1 DEF ReadFile, TypeOK
  <2>4. \A f \in File \ {next} : inode'[f] = inode[f] /\ got'[f] = got[f]
    BY <1>2, <1>4 DEF ReadFile, TypeOK
  <2>5. \A f \in File : Source'[f] = Source[f]
    <3> SUFFICES ASSUME NEW f \in File PROVE Source'[f] = Source[f]
      OBVIOUS
    <3>1. CASE f = next
      BY <1>1, <2>1, <2>2, <2>3, <3>1 DEF Source
    <3>2. CASE f # next
      BY <1>1, <2>4, <3>2 DEF Source
    <3> QED
      BY <3>1, <3>2
  <2> QED
    BY <1>1, <2>5 DEF Source
<1> QED
  BY <1>3, <1>4

(* The archive, once full, remains full: what a step appends is behind the *)
(* files that were taken.                                                  *)
LEMMA FullKept ==
  ASSUME BInv, BInv', [Next]_vars, Full
  PROVE  Full'
<1>1. TypeOK /\ TypeOK' /\ StartBelow /\ StartBelow'
  BY DEF BInv, IInv
<1>2. ImageLen(out) \in Nat /\ ImageLen(out') \in Nat /\ ImageLen(out) <= ImageLen(out')
  BY <1>1, ImageGrows
<1>3. AddressLimit \in Nat
  BY PackerAssumption
<1>4. CASE pc \in {"blocks", "tail"}
  <2>1. next \in File /\ inode[next].start \in Nat
    BY <1>1, <1>4 DEF TypeOK, InodeType
  <2>2. inode[next].start >= AddressLimit /\ inode[next].start <= ImageLen(out)
    BY <1>1, <1>4, <2>1 DEF Full, StartBelow
  <2>3. inode'[next].start = inode[next].start
    <3>1. ~ReadFile
      BY <1>4 DEF ReadFile
    <3> QED
      BY <1>1, <2>1, <3>1, StartKept
  <2>4. pc' \in {"blocks", "tail"} => next' = next
    BY <1>4 DEF Next, Pack, SkipFile, ReadFile, WriteBlock, EndBlocks, NoTail, ReuseTail,
                AddTail, NextFile, Finish, Rewrite, vars
  <2>5. ImageLen(out') >= AddressLimit
    <3> HIDE DEF ImageLen
    <3> QED
      BY <1>2, <1>3, <2>1, <2>2
  <2> QED
    BY <2>2, <2>3, <2>4, <2>5 DEF Full, ImageLen
<1>5. CASE pc \notin {"blocks", "tail"}
  <2>1. ImageLen(out) >= AddressLimit
    BY <1>5 DEF Full
  <2>2. ImageLen(out') >= AddressLimit
    <3> HIDE DEF ImageLen
    <3> QED
      BY <1>2, <1>3, <2>1
  <2>3. CASE pc' \in {"blocks", "tail"}
    <3>1. ReadFile
      BY <1>5, <2>3 DEF Next, Pack, SkipFile, ReadFile, WriteBlock, EndBlocks, NoTail, ReuseTail,
                AddTail, NextFile, Finish, Rewrite, vars
    <3>2. next' = next /\ inode'[next].start = ImageLen(out)
      BY <1>1, <3>1 DEF ReadFile, TypeOK, InodeType
    <3> QED
      BY <2>1, <2>3, <3>2 DEF Full
  <2>4. CASE pc' \notin {"blocks", "tail"}
    BY <2>2, <2>4 DEF Full, ImageLen
  <2> QED
    BY <2>3, <2>4
<1> QED
  BY <1>4, <1>5

(* The archive is full or it is not, now and after a step. *)
FullIsBoolean == Full \in BOOLEAN

LEMMA FullDecided == TypeOK => FullIsBoolean
<1> SUFFICES ASSUME TypeOK PROVE Full \in BOOLEAN
  BY DEF FullIsBoolean
<1>1. AddressLimit \in Nat /\ ImageLen(out) \in Nat
  BY ImageLenType, PackerAssumption DEF TypeOK
<1>2. CASE pc \in {"blocks", "tail"}
  <2>1. inode[next].start \in Nat
    BY <1>2 DEF TypeOK, InodeType
  <2>2. (inode[next].start >= AddressLimit) \in BOOLEAN
    BY <1>1, <2>1
  <2> QED
    BY <1>2, <2>2 DEF Full
<1>3. CASE pc \notin {"blocks", "tail"}
  <2> HIDE DEF ImageLen
  <2>1. (ImageLen(out) >= AddressLimit) \in BOOLEAN
    BY <1>1
  <2> QED
    BY <1>3, <2>1 DEF Full
<1> QED
  BY <1>2, <1>3

LEMMA FullOrNot == (BInv => FullIsBoolean) /\ (BInv' => FullIsBoolean')
<1>1. BInv => FullIsBoolean
  BY FullDecided DEF BInv, IInv
<1> QED
  BY <1>1, PTL

(* Rewriting a file the writer has not read yet changes the sources, and   *)
(* rewriting the one that it has read makes no difference.                 *)
LEMMA RewriteChanges ==
  ASSUME BInv, BInv', 2 * BlockSize <= SizeLimit, Rewrite
  PROVE  A!Change \/ UNCHANGED <<Source, fileSize, Taken, Full>>
<1>1. /\ UNCHANGED <<fileSize, next, got, inode, pc, out>>
      /\ Taken' = Taken
  <2>1. next' = next /\ [Next]_vars
    BY DEF Rewrite, Next
  <2> QED
    BY <2>1, TakenKept DEF Rewrite
<1>2. PICK f \in Rewritable, c \in Contents, r \in BOOLEAN :
        f >= next /\ disk' = [disk EXCEPT ![f] = [data |-> c, readable |-> r]]
  BY DEF Rewrite
<1>3. f \in File /\ next \in Nat /\ disk \in [File -> [data : Seq(Byte), readable : BOOLEAN]]
  BY <1>2, PackerAssumption DEF BInv, IInv, TypeOK
<1>4. Full' = Full
  BY <1>1 DEF Full, ImageLen
<1>5. CASE inode[f].start # 0
  BY <1>1, <1>2, <1>3, <1>4, <1>5 DEF Source
<1>6. CASE inode[f].start = 0
  <2>1. Source' = [Source EXCEPT ![f] = [data |-> c, readable |-> r]]
    BY <1>1, <1>2, <1>3, <1>6 DEF Source
  <2>2. f > Len(Taken)
    <3>1. Len(Taken) = next - 1
      <4>1. next - 1 \in Nat
        BY DEF BInv, IInv, TypeOK
      <4> QED
        BY <4>1 DEF Taken
    <3> QED
      BY <1>2, <1>3, <3>1 DEF File
  <2> QED
    BY <1>1, <1>2, <1>4, <2>1, <2>2 DEF A!Change, Taken
<1> QED
  BY <1>5, <1>6

(* Each of the actions that go to the next file takes the file.            *)
LEMMA PassTakes ==
  ASSUME BInv, BInv', 2 * BlockSize <= SizeLimit, SkipFile \/ NoTail \/ ReuseTail \/ AddTail
  PROVE  A!Take
<1>1. [Next]_vars /\ ~Rewrite /\ ~ReadFile /\ next' = next + 1 /\ got' = got /\ TypeOK
  <2>1. next \in Nat
    BY DEF BInv, IInv, TypeOK
  <2> QED
    BY <2>1 DEF SkipFile, NoTail, ReuseTail, AddTail, NextFile, Next, Pack, Rewrite, ReadFile,
            BInv, IInv
<1>2. PICK x : /\ next \in File /\ Len(Taken) = next - 1 /\ Taken' = Append(Taken, x)
               /\ \A f \in File : f = next => x = Said(f)'
  <2>1. /\ next \in File /\ Len(Taken) = next - 1
        /\ \A f \in File : f = next => Taken' = Append(Taken, Said(f)')
    BY <1>1, TakenGrows
  <2>2. PICK f \in File : f = next
    BY <2>1
  <2> QED
    BY <2>1, <2>2
<1>3. Source' = Source /\ fileSize' = fileSize
  BY <1>1, SourceKept
<1>4. x = Said(next)
  <2> SUFFICES ASSUME NEW f \in File, f = next PROVE x = Said(f)
    BY <1>2
  <2>1. inode'[f].start = inode[f].start
    BY <1>1, StartKept
  <2>2. Said(f)' = Said(f)
    BY <1>1, <1>3, <2>1 DEF Said, Promised
  <2> QED
    BY <1>2, <2>2
<1>5. x = A!Entry(next)
  <2>1. CASE SkipFile
    <3>1. inode[next].start = 0 /\ got[next] = <<>>
      BY <1>1, <1>2, <2>1 DEF SkipFile, BInv, StartSet, Begun, TypeOK, File
    <3>2. Source[next] = disk[next]
      BY <1>2, <3>1 DEF Source
    <3>3. Promised(next) <=> fileSize[next] = 0
      BY <3>1 DEF Promised
    <3>4. A!Fits(next) <=> fileSize[next] = 0
      BY <2>1, <3>2 DEF SkipFile, A!Fits
    <3> QED
      BY <1>4, <3>1, <3>3, <3>4 DEF A!Entry, Said
  <2>2. CASE NoTail \/ ReuseTail \/ AddTail
    <3>1. pc = "tail" /\ next \in Nat
      BY <1>1, <2>2 DEF NoTail, ReuseTail, AddTail, TypeOK
    <3>2. inode[next].start # 0 /\ fileSize[next] # 0
      BY <1>2, <3>1 DEF BInv, StartSet, Begun
    <3>3. Source[next] = [data |-> got[next], readable |-> TRUE]
      BY <1>2, <3>2 DEF Source
    <3>4. ~Full <=> inode[next].start < AddressLimit
      <4>1. inode[next].start \in Nat /\ AddressLimit \in Nat
        BY <1>1, <1>2, PackerAssumption DEF TypeOK, InodeType
      <4> QED
        BY <3>1, <4>1 DEF Full
    <3>5. A!Fits(next) <=> Promised(next)
      BY <3>2, <3>3, <3>4 DEF A!Fits, Promised
    <3> QED
      BY <1>4, <3>2, <3>3, <3>5 DEF A!Entry, Said
  <2> QED
    BY <2>1, <2>2
<1>6. Len(Taken) + 1 = next
  BY <1>1, <1>2 DEF TypeOK
<1>7. Full' \in {Full, TRUE}
  BY <1>1, FullKept, FullOrNot DEF FullIsBoolean
<1> QED
  BY <1>2, <1>3, <1>5, <1>6, <1>7 DEF A!Take, A!File, File, Taken

(* Packing is archiving, for any number of files, any contents and any     *)
(* sizes the compressor reaches, if a size word can keep the size of two   *)
(* blocks: each file that is as long when it is read as it was found, and  *)
(* within the 32 bits of a basic inode in length and beginning, ends up in *)
(* the image whole and as it was at one moment, and no later block,        *)
(* fragment or reuse of a tail changes what the image yields for the files *)
(* before (writer.go:222-296, 543-546, squashfs.go:672-743).               *)
THEOREM ImplementsArchive ==
  ASSUME 2 * BlockSize <= SizeLimit
  PROVE  Spec => PackingArchives
<1>1. Init => A!Init
  <2> SUFFICES ASSUME Init PROVE A!Init
    OBVIOUS
  <2>1. Source = disk
    BY DEF Init, Source, FreshInode
  <2>2. [f \in 1..next - 1 |-> Yield(f)] = <<>>
    BY DEF Init
  <2>3. Full = FALSE
    <3>1. AddressLimit \in Nat /\ AddressLimit > SuperblockSize
      BY PackerAssumption
    <3> QED
      BY <3>1 DEF Init, Full, ImageLen, SuperblockSize
  <2> QED
    BY <2>1, <2>2, <2>3 DEF Init, A!Init, A!File, File
<1>2. BInv /\ BInv' /\ [Next]_vars =>
        [A!Change \/ A!Take \/ A!Fill]_<<Source, fileSize, Taken, Full>>
  <2> SUFFICES ASSUME BInv, BInv', [Next]_vars
               PROVE  A!Change \/ A!Take \/ A!Fill \/ UNCHANGED <<Source, fileSize, Taken, Full>>
    OBVIOUS
  <2>1. CASE Rewrite
    BY <2>1, RewriteChanges
  <2>2. CASE SkipFile \/ NoTail \/ ReuseTail \/ AddTail
    BY <2>2, PassTakes
  <2>3. CASE ~Rewrite /\ ~(SkipFile \/ NoTail \/ ReuseTail \/ AddTail)
    <3>1. next' = next
      BY <2>3 DEF Next, Pack, ReadFile, WriteBlock, EndBlocks, Finish, vars
    <3>2. UNCHANGED <<Source, fileSize, Taken>>
      BY <2>3, <3>1, TakenKept, SourceKept
    <3>3. Full' = Full \/ Full' = TRUE
      BY FullKept, FullOrNot DEF FullIsBoolean
    <3> QED
      BY <3>2, <3>3 DEF A!Fill, Taken
  <2> QED
    BY <2>1, <2>2, <2>3
<1>3. Taken = [f \in 1..next - 1 |-> Yield(f)]
  BY DEF Taken
<1> QED
  BY <1>1, <1>2, <1>3, HalfIsBelow, BInvAlways, PTL DEF Spec, PackingArchives, A!Spec, Taken

=============================================================================
