------------------------- MODULE FileExtract_proofs -------------------------
(***************************************************************************)
(* Proofs about FileExtract, for any sizes of files, blocks and fragments. *)
(***************************************************************************)
EXTENDS FileExtract, FiniteSetTheorems, SequenceTheorems, TLAPS

-----------------------------------------------------------------------------
(* What fails fails first, and sequences joined.                           *)

(* A set of natural numbers that is not empty has a least element.  A set  *)
(* of numbers at which something fails is what it is used with.            *)
LEMMA HasLeast ==
  ASSUME NEW S \in SUBSET Nat, S # {}
  PROVE  \E m \in S : \A n \in S : m <= n
<1> DEFINE R == {x \in Nat \X Nat : x[1] < x[2]}
<1>1. IsWellFoundedOn(R, Nat)
  BY NatLessThanWellFounded DEF OpToRel
<1>2. \A m, n \in Nat : <<n, m>> \notin R => m <= n
  OBVIOUS
<1> HIDE DEF R
<1> QED
  BY <1>1, <1>2, WFMin

(* f[i] is the first i of n sequences, joined. *)
AreJoins(s, f, n) == f = [i \in 1..n |-> IF i = 1 THEN s[i] ELSE f[i - 1] \o s[i]]

(* There is such a function, for any sequences. *)
LEMMA JoinsExist ==
  ASSUME NEW s
  PROVE  \A n \in Nat : \E f : AreJoins(s, f, n)
<1> DEFINE Bad == {n \in Nat : ~ \E f : AreJoins(s, f, n)}
<1>1. ASSUME Bad # {}
      PROVE  FALSE
  <2>1. PICK n \in Bad : \A m \in Bad : n <= m
    <3>1. Bad \subseteq Nat
      OBVIOUS
    <3> HIDE DEF Bad
    <3> QED
      BY <1>1, <3>1, HasLeast
  <2>2. n \in Nat /\ n # 0
    <3>1. n \in Nat
      OBVIOUS
    <3>2. AreJoins(s, [i \in 1..0 |-> s[i]], 0)
      BY DEF AreJoins
    <3> QED
      BY <3>1, <3>2
  <2>3. n - 1 \in Nat /\ n - 1 \notin Bad
    <3> HIDE DEF Bad
    <3> QED
      BY <2>1, <2>2
  <2>4. PICK f : AreJoins(s, f, n - 1)
    BY <2>3
  <2> DEFINE g == [i \in 1..n |-> IF i = n THEN IF i = 1 THEN s[i] ELSE f[n - 1] \o s[i]
                                          ELSE f[i]]
  <2>5. AreJoins(s, g, n)
    <3> SUFFICES ASSUME NEW i \in 1..n
                 PROVE  g[i] = IF i = 1 THEN s[i] ELSE g[i - 1] \o s[i]
      BY DEF AreJoins
    <3>1. CASE i = n
      BY <2>2, <3>1
    <3>2. CASE i # n
      <4>1. i \in 1..n - 1 /\ (i # 1 => i - 1 \in 1..n - 1)
        BY <2>2, <3>2
      <4>2. g[i] = f[i] /\ (i # 1 => g[i - 1] = f[i - 1])
        BY <2>2, <3>2, <4>1
      <4>3. f[i] = IF i = 1 THEN s[i] ELSE f[i - 1] \o s[i]
        BY <2>4, <4>1 DEF AreJoins
      <4> QED
        BY <4>1, <4>2, <4>3
    <3> QED
      BY <3>1, <3>2
  <2> QED
    BY <2>2, <2>5
<1> QED
  BY <1>1

(* Where two sequences agree, what joins them does. *)
LEMMA JoinsAgree ==
  ASSUME NEW s, NEW t, NEW f, NEW g, NEW n \in Nat, NEW m \in Nat, n <= m,
         \A i \in 1..n : s[i] = t[i],
         AreJoins(s, f, n), AreJoins(t, g, m)
  PROVE  \A i \in 1..n : f[i] = g[i]
<1> DEFINE Bad == {i \in 1..n : f[i] # g[i]}
<1>1. ASSUME Bad # {}
      PROVE  FALSE
  <2>1. PICK i \in Bad : \A j \in Bad : i <= j
    <3>1. Bad \subseteq Nat
      OBVIOUS
    <3> HIDE DEF Bad
    <3> QED
      BY <1>1, <3>1, HasLeast
  <2>2. i \in 1..n /\ f[i] # g[i] /\ s[i] = t[i]
    OBVIOUS
  <2>3. f[i] = IF i = 1 THEN s[i] ELSE f[i - 1] \o s[i]
    BY <2>2 DEF AreJoins
  <2>4. g[i] = IF i = 1 THEN t[i] ELSE g[i - 1] \o t[i]
    <3>1. i \in 1..m
      BY <2>2
    <3> QED
      BY <3>1 DEF AreJoins
  <2>5. i # 1
    BY <2>2, <2>3, <2>4
  <2>6. i - 1 \in 1..n /\ f[i - 1] = g[i - 1]
    BY <2>1, <2>2, <2>5
  <2> QED
    BY <2>2, <2>3, <2>4, <2>6
<1> QED
  BY <1>1

(* FlattenSeq says what such a function does. *)
LEMMA FlattenIsJoin ==
  ASSUME NEW s, Len(s) \in Nat \ {0}
  PROVE  \E f : AreJoins(s, f, Len(s)) /\ FlattenSeq(s) = f[Len(s)]
<1> DEFINE n == Len(s)
           f == CHOOSE f : f = [i \in 1..n |-> IF i = 1 THEN s[i] ELSE f[i - 1] \o s[i]]
<1>1. FlattenSeq(s) = f[n]
  BY DEF FlattenSeq
<1>2. f = CHOOSE g : AreJoins(s, g, n)
  BY DEF AreJoins
<1> QED
  BY <1>1, <1>2, JoinsExist

(* No sequences joined are the empty one.                                  *)
LEMMA FlattenEmpty == FlattenSeq(<<>>) = <<>>
BY DEF FlattenSeq

(* What is joined grows at the end when a sequence comes in there.         *)
LEMMA FlattenAppend ==
  ASSUME NEW S, NEW s \in Seq(Seq(S)), NEW x \in Seq(S)
  PROVE  FlattenSeq(Append(s, x)) = FlattenSeq(s) \o x
<1> DEFINE t == Append(s, x)
           n == Len(s)
           m == n + 1
<1>1. n \in Nat /\ Len(t) = m /\ t[m] = x /\ \A i \in 1..n : s[i] = t[i]
  OBVIOUS
<1>2. m \in Nat \ {0} /\ m - 1 = n /\ m \in 1..m
  BY <1>1
<1> HIDE DEF t, n, m
<1>3. PICK g : AreJoins(t, g, m) /\ FlattenSeq(t) = g[m]
  BY <1>1, <1>2, FlattenIsJoin
<1>4. g[m] = IF m = 1 THEN x ELSE g[n] \o x
  BY <1>1, <1>2, <1>3 DEF AreJoins
<1>5. CASE n = 0
  <2>1. s = <<>>
    BY <1>5 DEF n
  <2>2. FlattenSeq(t) = x
    BY <1>2, <1>3, <1>4, <1>5 DEF m
  <2>3. <<>> \o x = x
    OBVIOUS
  <2> QED
    BY <2>1, <2>2, <2>3, FlattenEmpty DEF t
<1>6. CASE n # 0
  <2>1. PICK f : AreJoins(s, f, n) /\ FlattenSeq(s) = f[n]
    BY <1>1, <1>6, FlattenIsJoin DEF n
  <2>2. n <= m /\ n \in 1..n /\ m # 1
    BY <1>1, <1>2, <1>6
  <2>3. f[n] = g[n]
    <3>1. n \in Nat /\ m \in Nat /\ n <= m /\ \A i \in 1..n : s[i] = t[i]
      BY <1>1, <1>2, <2>2
    <3>2. AreJoins(s, f, n) /\ AreJoins(t, g, m)
      BY <1>3, <2>1
    <3>3. \A i \in 1..n : f[i] = g[i]
      BY <3>1, <3>2, JoinsAgree
    <3> QED
      BY <2>2, <3>3
  <2> QED
    BY <1>3, <1>4, <2>1, <2>2, <2>3 DEF t
<1> QED
  BY <1>5, <1>6

-----------------------------------------------------------------------------
(* What the blocks decompress to, one after the other.                     *)

(* What the blocks before the n-th and the n-th decompress to.             *)
Flat(in, n) == FlattenSeq([b \in 1..n |-> BlockOutput(in, b)])

(* What is proved below about an inode, wherever it comes from. *)
Right(in) == in \in Inode /\ Placed(in)

(* The fields of an inode. *)
LEMMA InodeTyped ==
  ASSUME NEW in, Right(in)
  PROVE  /\ in.fileSize \in Nat /\ in.fragOff \in 0..FragmentSize
         /\ in.fragment \in FragmentKinds \cup {"none"}
         /\ WordCount(in.fileSize, in.fragment) \in Nat
         /\ Len(in.blocks) = WordCount(in.fileSize, in.fragment)
         /\ DOMAIN in.blocks = 1..Len(in.blocks)
         /\ \A b \in DOMAIN in.blocks : in.blocks[b] \in Kinds
<1>1. PICK size \in 0..MaxFileSize, fragment \in FragmentKinds \cup {"none"} :
        in \in [fileSize : {size}, fragment : {fragment}, fragOff : 0..FragmentSize,
                blocks : [1..WordCount(size, fragment) -> BlockKinds]]
  <2> DEFINE all(size, fragment) ==
        [fileSize : {size}, fragment : {fragment}, fragOff : 0..FragmentSize,
         blocks : [1..WordCount(size, fragment) -> BlockKinds]]
  <2>1. Inode = UNION {all(size, fragment) :
                  size \in 0..MaxFileSize, fragment \in FragmentKinds \cup {"none"}}
    BY DEF Inode
  <2> HIDE DEF all
  <2>2. \E size \in 0..MaxFileSize, fragment \in FragmentKinds \cup {"none"} :
          in \in all(size, fragment)
    BY <2>1 DEF Right
  <2> QED
    BY <2>2 DEF all
<1>2. /\ in.fileSize = size /\ in.fragment = fragment /\ in.fragOff \in 0..FragmentSize
      /\ in.blocks \in [1..WordCount(size, fragment) -> BlockKinds]
  BY <1>1
<1>3. size \in Nat
  BY ExtractAssumption
<1>4. WordCount(size, fragment) \in Nat
  BY <1>3, ExtractAssumption DEF WordCount
<1>5. Len(in.blocks) = WordCount(size, fragment)
  BY <1>2, <1>4
<1> QED
  BY <1>2, <1>3, <1>4, <1>5, ExtractAssumption

(* A block yields bytes. *)
LEMMA OutputTyped ==
  ASSUME NEW in, Right(in), NEW b \in DOMAIN in.blocks
  PROVE  BlockOutput(in, b) \in Seq(Int)
<1>1. BlockSize \in Nat /\ in.fileSize \in Nat /\ b \in Nat
  BY InodeTyped, ExtractAssumption
<1> DEFINE from == (b - 1) * BlockSize + 1
           to == Lesser(b * BlockSize, in.fileSize)
<1>2. from \in Int /\ to \in Int
  BY <1>1 DEF Lesser
<1>3. Bytes(from, to) \in Seq(Int)
  <2> HIDE DEF from, to
  <2>1. CASE to - from + 1 \in Nat
    BY <1>2, <2>1 DEF Bytes
  <2>2. CASE to - from + 1 \notin Nat
    <3>1. 1..to - from + 1 = {}
      BY <1>2, <2>2
    <3>2. Bytes(from, to) = <<>>
      BY <3>1 DEF Bytes
    <3> QED
      BY <3>2
  <2> QED
    BY <2>1, <2>2
<1>4. Zeros(BlockSize) \in Seq(Int)
  BY <1>1 DEF Zeros
<1>5. BlockBytes(in, b) \in Seq(Int)
  BY <1>3 DEF BlockBytes
<1>6. Append(BlockBytes(in, b), -b) \in Seq(Int)
  BY <1>1, <1>5
<1>7. SubSeq(BlockBytes(in, b), 1, Len(BlockBytes(in, b)) - Shortfall) \in Seq(Int)
  <2> DEFINE bytes == BlockBytes(in, b)
  <2>1. bytes \in Seq(Int) /\ Shortfall \in Nat \ {0}
    BY <1>5, ExtractAssumption
  <2> HIDE DEF bytes
  <2>2. Len(bytes) - Shortfall \in Int /\ Len(bytes) - Shortfall <= Len(bytes)
    BY <2>1
  <2>3. SubSeq(bytes, 1, Len(bytes) - Shortfall) \in Seq(Int)
    BY <2>1, <2>2
  <2> QED
    BY <2>3 DEF bytes
<1> QED
  BY <1>4, <1>5, <1>6, <1>7 DEF BlockOutput

(* The next block is appended to those before it. *)
LEMMA FlatStep ==
  ASSUME NEW in, Right(in)
  PROVE  /\ Flat(in, 0) = <<>>
         /\ \A n \in Nat : n + 1 \in DOMAIN in.blocks =>
              Flat(in, n + 1) = Flat(in, n) \o BlockOutput(in, n + 1)
<1>1. Flat(in, 0) = <<>>
  <2>1. [b \in 1..0 |-> BlockOutput(in, b)] = <<>>
    OBVIOUS
  <2> QED
    BY <2>1, FlattenEmpty DEF Flat
<1>2. ASSUME NEW n \in Nat, n + 1 \in DOMAIN in.blocks
      PROVE  Flat(in, n + 1) = Flat(in, n) \o BlockOutput(in, n + 1)
  <2> DEFINE out(b) == BlockOutput(in, b)
             s == [b \in 1..n |-> out(b)]
             t == [b \in 1..n + 1 |-> out(b)]
  <2>1. \A b \in 1..n + 1 : out(b) \in Seq(Int)
    <3>1. \A b \in 1..n + 1 : b \in DOMAIN in.blocks
      BY <1>2, InodeTyped
    <3> QED
      BY <3>1, OutputTyped
  <2>2. Flat(in, n) = FlattenSeq(s) /\ Flat(in, n + 1) = FlattenSeq(t)
    BY DEF Flat
  <2> HIDE DEF out
  <2>3. s \in Seq(Seq(Int)) /\ out(n + 1) \in Seq(Int)
    BY <2>1
  <2>4. t = Append(s, out(n + 1))
    OBVIOUS
  <2> HIDE DEF s, t
  <2>5. FlattenSeq(t) = FlattenSeq(s) \o out(n + 1)
    BY <2>3, <2>4, FlattenAppend
  <2> QED
    BY <2>2, <2>5 DEF out
<1> QED
  BY <1>1, <1>2

(* The blocks yield bytes. *)
LEMMA FlatTyped ==
  ASSUME NEW in, Right(in)
  PROVE  \A n \in 0..Len(in.blocks) : Flat(in, n) \in Seq(Int)
<1> DEFINE Bad == {n \in 0..Len(in.blocks) : Flat(in, n) \notin Seq(Int)}
<1>1. ASSUME Bad # {}
      PROVE  FALSE
  <2>1. PICK n \in Bad : \A m \in Bad : n <= m
    <3>1. Bad \subseteq Nat
      BY InodeTyped
    <3> HIDE DEF Bad
    <3> QED
      BY <1>1, <3>1, HasLeast
  <2>2. n \in 0..Len(in.blocks) /\ Flat(in, n) \notin Seq(Int) /\ Len(in.blocks) \in Nat
    BY InodeTyped
  <2>3. n # 0
    <3>1. Flat(in, 0) = <<>> /\ <<>> \in Seq(Int)
      BY FlatStep
    <3> QED
      BY <2>2, <3>1
  <2>4. n - 1 \in 0..Len(in.blocks) /\ Flat(in, n - 1) \in Seq(Int)
    BY <2>1, <2>2, <2>3
  <2>5. n - 1 \in Nat /\ (n - 1) + 1 = n /\ n \in DOMAIN in.blocks
    BY <2>2, <2>3, InodeTyped
  <2>6. Flat(in, n) = Flat(in, n - 1) \o BlockOutput(in, n)
    BY <2>5, FlatStep
  <2> QED
    BY <2>2, <2>4, <2>5, <2>6, OutputTyped
<1> QED
  BY <1>1

-----------------------------------------------------------------------------
(* Where the blocks lie in the file.                                       *)

(* Quotient and remainder. *)
LEMMA Division ==
  ASSUME NEW n \in Nat, NEW m \in Nat \ {0}
  PROVE  /\ n \div m \in Nat /\ n % m \in 0..m - 1
         /\ n = (n \div m) * m + (n % m)
OBVIOUS

(* There is one quotient only. *)
LEMMA OneQuotient ==
  ASSUME NEW n \in Nat, NEW m \in Nat \ {0}, NEW q \in Nat,
         q * m <= n, n < (q + 1) * m
  PROVE  n \div m = q
<1> DEFINE d == n \div m
<1>1. d \in Nat /\ d * m <= n /\ n < (d + 1) * m
  BY Division
<1> HIDE DEF d
<1>2. CASE d < q
  <2>1. (d + 1) * m <= q * m
    BY <1>1, <1>2
  <2> QED
    BY <1>1, <2>1
<1>3. CASE d > q
  <2>1. (q + 1) * m <= d * m
    BY <1>1, <1>3
  <2> QED
    BY <1>1, <2>1
<1>4. d = q
  BY <1>1, <1>2, <1>3
<1> QED
  BY <1>4 DEF d

(* A block begins within the file, the blocks before the last one end in   *)
(* it, and with a fragment all of them do; without one they reach its end. *)
LEMMA Geometry ==
  ASSUME NEW in, Right(in)
  PROVE  /\ \A b \in DOMAIN in.blocks :
              /\ b \in Nat /\ b >= 1
              /\ (b - 1) * BlockSize < in.fileSize
              /\ b < Len(in.blocks) \/ in.fragment # "none" => b * BlockSize <= in.fileSize
         /\ in.fragment # "none" => Len(in.blocks) = in.fileSize \div BlockSize
         /\ in.fragment = "none" => in.fileSize <= Len(in.blocks) * BlockSize
<1> DEFINE q == in.fileSize \div BlockSize
           r == in.fileSize % BlockSize
           n == Len(in.blocks)
<1>1. /\ q \in Nat /\ r \in 0..BlockSize - 1 /\ in.fileSize = q * BlockSize + r
      /\ in.fileSize \in Nat /\ BlockSize \in Nat \ {0}
  BY InodeTyped, Division, ExtractAssumption
<1>2. /\ n = q + (IF in.fragment = "none" /\ r # 0 THEN 1 ELSE 0)
      /\ DOMAIN in.blocks = 1..n
  BY InodeTyped DEF WordCount
<1> HIDE DEF q, r, n
<1>3. ASSUME NEW b \in 1..n
      PROVE  /\ b \in Nat /\ b >= 1
             /\ (b - 1) * BlockSize < in.fileSize
             /\ b < n \/ in.fragment # "none" => b * BlockSize <= in.fileSize
  <2>1. n \in Nat /\ b \in Nat /\ b >= 1 /\ b <= n
    BY <1>1, <1>2
  <2>2. CASE b <= q
    <3>1. b * BlockSize <= q * BlockSize /\ (b - 1) * BlockSize < b * BlockSize
      BY <1>1, <2>1, <2>2
    <3> QED
      BY <1>1, <2>1, <3>1
  <2>3. CASE b > q
    <3>1. b = q + 1 /\ b = n /\ in.fragment = "none" /\ r # 0
      BY <1>1, <1>2, <2>1, <2>3
    <3>2. (b - 1) * BlockSize = q * BlockSize
      BY <1>1, <3>1
    <3> QED
      BY <1>1, <2>1, <3>1, <3>2
  <2> QED
    BY <1>1, <2>1, <2>2, <2>3
<1>4. in.fragment = "none" => in.fileSize <= n * BlockSize
  <2>1. (q + 1) * BlockSize = q * BlockSize + BlockSize
    BY <1>1
  <2> QED
    BY <1>1, <1>2, <2>1
<1>5. in.fragment # "none" => n = q
  BY <1>1, <1>2
<1> QED
  BY <1>2, <1>3, <1>4, <1>5 DEF q, n

(* Byte p belongs to the block it lies in. *)
LEMMA BlockOfByte ==
  ASSUME NEW p \in Nat, NEW b \in Nat \ {0},
         (b - 1) * BlockSize < p, p <= b * BlockSize
  PROVE  ((p - 1) \div BlockSize) + 1 = b
<1>1. BlockSize \in Nat \ {0}
  BY ExtractAssumption
<1>2. (b - 1) * BlockSize \in Nat /\ b - 1 \in Nat
  BY <1>1
<1>3. p - 1 \in Nat /\ (b - 1) * BlockSize <= p - 1 /\ p - 1 < b * BlockSize
  BY <1>1, <1>2
<1>4. (b - 1) + 1 = b
  OBVIOUS
<1>5. (p - 1) \div BlockSize = b - 1
  BY <1>1, <1>2, <1>3, <1>4, OneQuotient
<1> QED
  BY <1>5

(* What BlocksBefore finds: a block of these kinds right behind, and none  *)
(* among those it counts.                                                  *)
LEMMA BeforeFirst ==
  ASSUME NEW in, Right(in), NEW kinds
  PROVE  LET n == BlocksBefore(in, kinds)
         IN /\ n \in 0..Len(in.blocks)
            /\ \A b \in 1..n : in.blocks[b] \notin kinds
            /\ n < Len(in.blocks) => in.blocks[n + 1] \in kinds
<1> DEFINE found == {b \in DOMAIN in.blocks : in.blocks[b] \in kinds}
<1>1. Len(in.blocks) \in Nat /\ DOMAIN in.blocks = 1..Len(in.blocks)
  BY InodeTyped
<1>2. CASE found = {}
  BY <1>1, <1>2 DEF BlocksBefore
<1>3. CASE found # {}
  <2>1. PICK m \in found : \A c \in found : m <= c
    <3>1. found \subseteq Nat
      BY <1>1
    <3> HIDE DEF found
    <3> QED
      BY <1>3, <3>1, HasLeast
  <2> DEFINE First(b) == /\ in.blocks[b] \in kinds
                         /\ \A c \in 1..b - 1 : in.blocks[c] \notin kinds
             first == CHOOSE b \in DOMAIN in.blocks : First(b)
  <2>2. m \in DOMAIN in.blocks /\ First(m)
    BY <1>1, <2>1
  <2>3. first \in DOMAIN in.blocks /\ First(first)
    BY <2>2
  <2>4. BlocksBefore(in, kinds) = first - 1
    BY <1>3 DEF BlocksBefore
  <2> HIDE DEF first
  <2> QED
    BY <1>1, <2>3, <2>4
<1> QED
  BY <1>2, <1>3

(* A count of blocks is what BlocksBefore finds. *)
LEMMA BeforeIs ==
  ASSUME NEW in, Right(in), NEW kinds, NEW n \in 0..Len(in.blocks),
         \A b \in 1..n : in.blocks[b] \notin kinds,
         n < Len(in.blocks) => in.blocks[n + 1] \in kinds
  PROVE  BlocksBefore(in, kinds) = n
<1> DEFINE m == BlocksBefore(in, kinds)
<1>1. /\ m \in 0..Len(in.blocks) /\ Len(in.blocks) \in Nat
      /\ \A b \in 1..m : in.blocks[b] \notin kinds
      /\ m < Len(in.blocks) => in.blocks[m + 1] \in kinds
  BY BeforeFirst, InodeTyped
<1> HIDE DEF m
<1>2. ~ m < n
  <2>1. m < n => m + 1 \in 1..n /\ m < Len(in.blocks)
    BY <1>1
  <2> QED
    BY <1>1, <2>1
<1>3. ~ n < m
  <2>1. n < m => n + 1 \in 1..m /\ n < Len(in.blocks)
    BY <1>1
  <2> QED
    BY <1>1, <2>1
<1>4. m = n
  BY <1>1, <1>2, <1>3
<1> QED
  BY <1>4 DEF m

-----------------------------------------------------------------------------
(* What sound blocks leave in the file.                                    *)

SoundKinds == {"whole", "sparse"}

(* A stretch of bytes. *)
LEMMA BytesTyped ==
  ASSUME NEW from \in Int, NEW to \in Int, to - from + 1 \in Nat
  PROVE  /\ Bytes(from, to) \in Seq(Int) /\ Len(Bytes(from, to)) = to - from + 1
         /\ \A i \in 1..to - from + 1 : Bytes(from, to)[i] = from + i - 1
BY DEF Bytes

LEMMA ZerosTyped ==
  ASSUME NEW n \in Nat
  PROVE  /\ Zeros(n) \in Seq(Int) /\ Len(Zeros(n)) = n
         /\ \A i \in 1..n : Zeros(n)[i] = 0
BY DEF Zeros

(* A sound block yields the bytes of the file that are in it.              *)
LEMMA SoundBlock ==
  ASSUME NEW in, Right(in), NEW b \in DOMAIN in.blocks, in.blocks[b] \in SoundKinds
  PROVE  LET out == BlockOutput(in, b)
         IN /\ Len(out) \in 0..BlockSize
            /\ b < Len(in.blocks) \/ in.fragment # "none" => Len(out) = BlockSize
            /\ \A i \in 1..BlockSize :
                 (b - 1) * BlockSize + i <= in.fileSize =>
                   i <= Len(out) /\ out[i] = Content(in)[(b - 1) * BlockSize + i]
            /\ \A i \in 1..Len(out) : out[i] >= 0
<1> DEFINE base == (b - 1) * BlockSize
           out == BlockOutput(in, b)
           Claim == /\ Len(out) \in 0..BlockSize
                    /\ b < Len(in.blocks) \/ in.fragment # "none" => Len(out) = BlockSize
                    /\ \A i \in 1..BlockSize : base + i <= in.fileSize =>
                         i <= Len(out) /\ out[i] = Content(in)[base + i]
                    /\ \A i \in 1..Len(out) : out[i] >= 0
<1>1. /\ BlockSize \in Nat \ {0} /\ in.fileSize \in Nat
      /\ b \in Nat \ {0} /\ b - 1 \in Nat
  BY Geometry, InodeTyped, ExtractAssumption
<1>2. /\ base \in Nat /\ b * BlockSize = base + BlockSize /\ base < in.fileSize
      /\ b < Len(in.blocks) \/ in.fragment # "none" => base + BlockSize <= in.fileSize
  <2>1. base \in Nat /\ b * BlockSize = base + BlockSize
    BY <1>1
  <2> QED
    BY <2>1, Geometry
<1>3. ASSUME NEW i \in 1..BlockSize, base + i <= in.fileSize
      PROVE  Content(in)[base + i] = IF in.blocks[b] = "sparse" THEN 0 ELSE base + i
  <2> DEFINE p == base + i
  <2>1. p \in Nat /\ p \in 1..in.fileSize /\ base < p /\ p <= b * BlockSize
    <3> HIDE DEF base
    <3> QED
      BY <1>1, <1>2, <1>3
  <2>2. ((p - 1) \div BlockSize) + 1 = b
    BY <1>1, <2>1, BlockOfByte
  <2>3. Content(in)[p] = IF b \in DOMAIN in.blocks /\ in.blocks[b] = "sparse" THEN 0 ELSE p
    <3> HIDE DEF p
    <3> QED
      BY <2>1, <2>2 DEF Content
  <2> QED
    BY <2>3
<1>4. ASSUME in.blocks[b] = "sparse"
      PROVE  Claim
  <2>1. out = Zeros(BlockSize)
    BY <1>4 DEF BlockOutput
  <2>2. Len(out) = BlockSize /\ \A i \in 1..BlockSize : out[i] = 0
    BY <1>1, <2>1, ZerosTyped
  <2> HIDE DEF out, base
  <2>3. \A i \in 1..BlockSize : base + i <= in.fileSize => out[i] = Content(in)[base + i]
    BY <1>3, <1>4, <2>2
  <2>4. Claim
    BY <1>1, <2>2, <2>3
  <2> QED
    BY <2>4
<1>5. ASSUME in.blocks[b] = "whole"
      PROVE  Claim
  <2> DEFINE to == Lesser(b * BlockSize, in.fileSize)
  <2>1. /\ to \in Nat /\ to > base /\ to <= base + BlockSize /\ to <= in.fileSize
        /\ in.fileSize < base + BlockSize => to = in.fileSize
        /\ base + BlockSize <= in.fileSize => to = base + BlockSize
    <3> DEFINE top == b * BlockSize
    <3> HIDE DEF base
    <3>1. top \in Nat /\ top = base + BlockSize
      BY <1>1, <1>2
    <3>2. base \in Nat /\ in.fileSize \in Nat /\ base < in.fileSize
      BY <1>1, <1>2
    <3> HIDE DEF top
    <3>3. to = Lesser(top, in.fileSize)
      BY DEF top
    <3> HIDE DEF to
    <3> QED
      BY <1>1, <3>1, <3>2, <3>3 DEF Lesser
  <2>2. out = Bytes(base + 1, to)
    BY <1>5 DEF BlockOutput, BlockBytes
  <2> HIDE DEF to, base
  <2>3. base + 1 \in Int /\ to \in Int /\ to - (base + 1) + 1 \in Nat /\ to - (base + 1) + 1 = to - base
    BY <1>2, <2>1
  <2>4. Len(out) = to - base /\ \A i \in 1..to - base : out[i] = base + i
    <3>1. /\ Len(out) = to - (base + 1) + 1
          /\ \A i \in 1..to - (base + 1) + 1 : out[i] = base + 1 + i - 1
      BY <2>2, <2>3, BytesTyped
    <3>2. \A i \in Nat : base + 1 + i - 1 = base + i
      BY <1>2
    <3> HIDE DEF out
    <3> QED
      BY <2>3, <3>1, <3>2
  <2> HIDE DEF out
  <2>5. \A i \in 1..BlockSize : base + i <= in.fileSize =>
          i \in 1..to - base /\ out[i] = Content(in)[base + i]
    BY <1>1, <1>2, <1>3, <1>5, <2>1, <2>4
  <2>6. Len(out) \in 0..BlockSize
    BY <1>1, <1>2, <2>1, <2>4
  <2>7. b < Len(in.blocks) \/ in.fragment # "none" => Len(out) = BlockSize
    BY <1>1, <1>2, <2>1, <2>4
  <2>8. \A i \in 1..Len(out) : out[i] >= 0
    BY <1>1, <1>2, <2>1, <2>4
  <2>9. \A i \in 1..BlockSize : base + i <= in.fileSize =>
          i <= Len(out) /\ out[i] = Content(in)[base + i]
    BY <1>1, <1>2, <2>1, <2>4, <2>5
  <2> QED
    BY <2>6, <2>7, <2>8, <2>9
<1>6. Claim
  BY <1>4, <1>5 DEF SoundKinds
<1> QED
  BY <1>6

(* Sound blocks leave the file as it was packed up to where they end.      *)
LEMMA SoundFlat ==
  ASSUME NEW in, Right(in), NEW n \in 0..Len(in.blocks),
         \A b \in 1..n : in.blocks[b] \in SoundKinds
  PROVE  /\ n < Len(in.blocks) \/ in.fragment # "none" => Len(Flat(in, n)) = n * BlockSize
         /\ \A p \in 1..in.fileSize : p <= n * BlockSize =>
              p <= Len(Flat(in, n)) /\ Flat(in, n)[p] = Content(in)[p]
         /\ \A p \in 1..Len(Flat(in, n)) : Flat(in, n)[p] >= 0
<1> DEFINE Claim(m) ==
             /\ m < Len(in.blocks) \/ in.fragment # "none" => Len(Flat(in, m)) = m * BlockSize
             /\ \A p \in 1..in.fileSize : p <= m * BlockSize =>
                  p <= Len(Flat(in, m)) /\ Flat(in, m)[p] = Content(in)[p]
             /\ \A p \in 1..Len(Flat(in, m)) : Flat(in, m)[p] >= 0
           Bad == {m \in 0..n : ~ Claim(m)}
<1>1. /\ Len(in.blocks) \in Nat /\ DOMAIN in.blocks = 1..Len(in.blocks)
      /\ BlockSize \in Nat \ {0} /\ in.fileSize \in Nat
  BY InodeTyped, ExtractAssumption
<1>2. ASSUME Bad # {}
      PROVE  FALSE
  <2>1. PICK m \in Bad : \A c \in Bad : m <= c
    <3>1. Bad \subseteq Nat
      BY <1>1
    <3> HIDE DEF Bad
    <3> QED
      BY <1>2, <3>1, HasLeast
  <2>2. m \in 0..n /\ ~ Claim(m)
    OBVIOUS
  <2>3. m # 0
    <3>1. Flat(in, 0) = <<>>
      BY FlatStep
    <3>2. Claim(0)
      BY <1>1, <3>1
    <3> QED
      BY <2>2, <3>2
  <2> DEFINE j == m - 1
             base == j * BlockSize
             out == BlockOutput(in, m)
  <2>4. /\ j \in 0..n /\ j \in Nat /\ m = j + 1 /\ j < Len(in.blocks)
        /\ m \in DOMAIN in.blocks /\ in.blocks[m] \in SoundKinds
    BY <1>1, <2>2, <2>3
  <2>5. Claim(j)
    BY <2>1, <2>4
  <2>6. Flat(in, m) = Flat(in, j) \o out
    BY <2>4, FlatStep
  <2>7. Flat(in, j) \in Seq(Int) /\ out \in Seq(Int)
    BY <1>1, <2>4, FlatTyped, OutputTyped
  <2>8. /\ Len(out) \in 0..BlockSize
        /\ m < Len(in.blocks) \/ in.fragment # "none" => Len(out) = BlockSize
        /\ \A i \in 1..BlockSize : base + i <= in.fileSize =>
             i <= Len(out) /\ out[i] = Content(in)[base + i]
        /\ \A i \in 1..Len(out) : out[i] >= 0
    BY <2>4, SoundBlock
  <2>9. base \in Nat /\ m * BlockSize = base + BlockSize
    BY <1>1, <2>4
  <2> HIDE DEF out
  <2> DEFINE fj == Flat(in, j)
             fm == Flat(in, m)
  <2>10. /\ Len(fj) = base
         /\ \A p \in 1..in.fileSize : p <= base => fj[p] = Content(in)[p]
         /\ \A p \in 1..base : fj[p] >= 0
    BY <2>4, <2>5
  <2>11. fm = fj \o out /\ fj \in Seq(Int)
    BY <2>6, <2>7
  <2> HIDE DEF Claim, Bad, fj, base
  <2>12. /\ Len(fm) = base + Len(out)
         /\ \A p \in 1..base + Len(out) : fm[p] = IF p <= base THEN fj[p] ELSE out[p - base]
    <3> HIDE DEF fm
    <3>1. Len(fj) = base /\ base \in Nat /\ Len(out) \in Nat /\ fj \in Seq(Int) /\ out \in Seq(Int)
      BY <2>7, <2>8, <2>9, <2>10, <2>11
    <3>2. Len(fm) = base + Len(out)
      BY <2>11, <3>1, ConcatProperties
    <3>3. \A p \in 1..base + Len(out) : fm[p] = IF p <= base THEN fj[p] ELSE out[p - base]
      BY <2>11, <3>1
    <3> QED
      BY <3>2, <3>3
  <2> HIDE DEF fm
  <2>13. m < Len(in.blocks) \/ in.fragment # "none" => Len(fm) = m * BlockSize
    BY <2>8, <2>9, <2>12
  <2>14. ASSUME NEW p \in 1..in.fileSize, p <= m * BlockSize
         PROVE  p <= Len(fm) /\ fm[p] = Content(in)[p]
    <3>1. CASE p <= base
      <4>1. p \in 1..base + Len(out)
        BY <1>1, <2>8, <2>9, <2>14, <3>1
      <4> QED
        BY <2>10, <2>12, <3>1, <4>1
    <3>2. CASE p > base
      <4>1. p - base \in 1..BlockSize /\ base + (p - base) = p /\ p <= in.fileSize
        BY <1>1, <2>9, <2>14, <3>2
      <4>2. p - base <= Len(out) /\ out[p - base] = Content(in)[p]
        BY <2>8, <4>1
      <4>3. p \in 1..base + Len(out)
        BY <1>1, <2>8, <2>9, <4>1, <4>2
      <4> QED
        BY <2>9, <2>12, <3>2, <4>1, <4>2, <4>3
    <3> QED
      BY <1>1, <2>9, <3>1, <3>2
  <2>15. ASSUME NEW p \in 1..Len(fm)
         PROVE  fm[p] >= 0
    <3>1. CASE p <= base
      BY <2>8, <2>9, <2>10, <2>12, <3>1
    <3>2. CASE p > base
      <4>1. p - base \in 1..Len(out)
        BY <2>8, <2>9, <2>12, <3>2
      <4> QED
        BY <2>8, <2>9, <2>12, <3>2, <4>1
    <3> QED
      BY <2>8, <2>9, <2>12, <3>1, <3>2
  <2>16. Claim(m)
    BY <2>13, <2>14, <2>15 DEF Claim, fm
  <2> QED
    BY <2>2, <2>16
<1>3. n \in 0..n /\ n \notin Bad
  BY <1>1, <1>2
<1> QED
  BY <1>3

(* What is behind the first blocks does not change what they left.         *)
LEMMA FlatExtends ==
  ASSUME NEW in, Right(in), NEW m \in Nat, NEW n \in 0..Len(in.blocks), m <= n
  PROVE  /\ Len(Flat(in, m)) <= Len(Flat(in, n))
         /\ \A p \in 1..Len(Flat(in, m)) : Flat(in, n)[p] = Flat(in, m)[p]
<1> DEFINE Claim(c) == /\ Len(Flat(in, m)) <= Len(Flat(in, c))
                       /\ \A p \in 1..Len(Flat(in, m)) : Flat(in, c)[p] = Flat(in, m)[p]
           Bad == {c \in m..n : ~ Claim(c)}
<1>1. Len(in.blocks) \in Nat /\ DOMAIN in.blocks = 1..Len(in.blocks) /\ m \in 0..Len(in.blocks)
  BY InodeTyped
<1>2. ASSUME Bad # {}
      PROVE  FALSE
  <2>1. PICK c \in Bad : \A d \in Bad : c <= d
    <3>1. Bad \subseteq Nat
      BY <1>1
    <3> HIDE DEF Bad
    <3> QED
      BY <1>2, <3>1, HasLeast
  <2>2. c \in m..n /\ ~ Claim(c)
    OBVIOUS
  <2>3. Flat(in, m) \in Seq(Int)
    BY <1>1, FlatTyped
  <2>4. c # m
    BY <2>2, <2>3
  <2> DEFINE j == c - 1
  <2>5. j \in m..n /\ j \in Nat /\ c = j + 1 /\ c \in DOMAIN in.blocks /\ j \in 0..Len(in.blocks)
    BY <1>1, <2>2, <2>4
  <2>6. Claim(j)
    BY <2>1, <2>5
  <2>7. Flat(in, c) = Flat(in, j) \o BlockOutput(in, c)
    BY <2>5, FlatStep
  <2>8. Flat(in, j) \in Seq(Int) /\ BlockOutput(in, c) \in Seq(Int)
    BY <2>5, FlatTyped, OutputTyped
  <2> HIDE DEF Bad, j
  <2>9. Claim(c)
    BY <2>3, <2>6, <2>7, <2>8
  <2> QED
    BY <2>2, <2>9
<1>3. n \in m..n /\ n \notin Bad
  BY <1>1, <1>2
<1> QED
  BY <1>3

-----------------------------------------------------------------------------
(* The inductive invariant.                                                *)

(* What comes out of the fragment behind the first n bytes. *)
FromFragment(in, n) ==
  IF in.fragment \in {"whole", "short"} /\ in.fileSize - n > 0
    THEN Cut(FragmentBytes(in), in.fragOff, in.fileSize - n)
    ELSE <<>>

(* What is saved of the first n blocks and the fragment. *)
Saved(in, n) == Flat(in, n) \o FromFragment(in, Len(Flat(in, n)))

(* The loop is over: at the end, or at a missing block. *)
Ended == k \in DOMAIN inode.blocks => inode.blocks[k] = "missing"

(* The image is one that Init allows, and the variables have their types.  *)
Typed == Right(inode) /\ TypeOK

(* Nothing is done before the file is open, and no error is noted before   *)
(* the call returns; a file of length 0 is done when it is open.           *)
Phases ==
  /\ pc = "open" => k = 1 /\ file = <<>> /\ written = 0
  /\ pc # "done" => ~err
  /\ pc \in {"blocks", "fragment", "truncate"} => inode.fileSize > 0
  /\ pc \in {"fragment", "truncate"} => Ended
  /\ pc = "truncate" => inode.fragment # "corrupt"

(* The loop went past blocks that yield data only. *)
Passed == \A b \in 1..k - 1 : inode.blocks[b] \in {"whole", "sparse", "odd", "scant"}

(* The variable written is the length of what the blocks left in the file, *)
(* also on a disk that is full.                                            *)
WrittenIsLength == pc \in {"open", "blocks", "fragment"} => written = Len(file)

(* On a disk with room: before the last step the file is what the blocks   *)
(* and the fragment yield, one after the other.                            *)
InOrder ==
  ~short => /\ pc \in {"open", "blocks", "fragment"} => file = Flat(inode, k - 1)
            /\ pc = "truncate" => file = Saved(inode, k - 1)

(* How a call ends on a disk with room. *)
Outcome ==
  pc = "done" /\ ~short =>
    IF err \/ inode.fragment = "corrupt"
      THEN file = Flat(inode, k - 1)
      ELSE file = IF stuck THEN Saved(inode, k - 1)
                           ELSE Resized(Saved(inode, k - 1), inode.fileSize)

(* Only the last step can find that f.Truncate fails.                      *)
StuckLast == stuck => pc = "done"

(* Why a call ends, whatever the disk. *)
Reason ==
  pc = "done" =>
    IF err THEN k > 1 => k \in DOMAIN inode.blocks /\ inode.blocks[k] = "corrupt"
           ELSE Ended

IInv == /\ Typed /\ Phases /\ Passed /\ WrittenIsLength
        /\ InOrder /\ Outcome /\ Reason /\ LengthIsExact /\ StuckLast

(* The fragment holds bytes, and a cut out of bytes is bytes. *)
LEMMA FragmentTyped ==
  ASSUME NEW in, Right(in)
  PROVE  FragmentBytes(in) \in Seq(Int)
<1> DEFINE body == (in.fileSize \div BlockSize) * BlockSize
           tail == in.fileSize - body
           size == IF in.fragment = "short" THEN Lesser(in.fragOff + tail - 1, FragmentSize)
                                            ELSE FragmentSize
           byte(j) == IF j - in.fragOff \in 1..tail THEN body + j - in.fragOff ELSE -j
<1>1. body \in Int /\ tail \in Int /\ in.fragOff \in Int /\ FragmentSize \in Int
  <2>1. in.fileSize \div BlockSize \in Nat
    BY InodeTyped, Division, ExtractAssumption
  <2> QED
    BY <2>1, InodeTyped, ExtractAssumption
<1> HIDE DEF body, tail
<1>2. size \in Int
  BY <1>1 DEF Lesser
<1>3. \A j \in Int : byte(j) \in Int
  BY <1>1
<1>4. FragmentBytes(in) = [j \in 1..size |-> byte(j)]
  BY DEF FragmentBytes, body, tail
<1> HIDE DEF size, byte
<1>5. CASE size \in Nat
  <2>1. \A j \in 1..size : byte(j) \in Int
    BY <1>2, <1>3
  <2> QED
    BY <1>4, <1>5, <2>1
<1>6. CASE size \notin Nat
  <2>1. 1..size = {}
    BY <1>2, <1>6
  <2>2. FragmentBytes(in) = <<>>
    BY <1>4, <2>1
  <2> QED
    BY <2>2
<1> QED
  BY <1>5, <1>6

LEMMA CutTyped ==
  ASSUME NEW data \in Seq(Int), NEW off \in Nat, NEW n \in Int
  PROVE  Cut(data, off, n) \in Seq(Int)
<1>1. Lesser(off + n, Len(data)) \in Int /\ Lesser(off + n, Len(data)) <= Len(data)
  BY DEF Lesser
<1> QED
  BY <1>1 DEF Cut

LEMMA ResizedTyped ==
  ASSUME NEW data \in Seq(Int), NEW n \in Nat
  PROVE  /\ Resized(data, n) \in Seq(Int) /\ Len(Resized(data, n)) = n
         /\ \A p \in 1..n : Resized(data, n)[p] = IF p <= Len(data) THEN data[p] ELSE 0
<1>1. \A p \in 1..n : (IF p <= Len(data) THEN data[p] ELSE 0) \in Int
  OBVIOUS
<1> QED
  BY <1>1 DEF Resized

(* A write makes the file longer, and with room on the disk it appends.    *)
LEMMA WriteStep ==
  ASSUME NEW data \in Seq(Int), file \in Seq(Int), short \in BOOLEAN, Write(data)
  PROVE  /\ file' \in Seq(Int) /\ Len(file) <= Len(file') /\ short' \in BOOLEAN
         /\ ~short' => ~short /\ file' = file \o data
<1>1. PICK n \in IF DiskFills THEN 0..Len(data) ELSE {Len(data)} :
        /\ file' = file \o SubSeq(data, 1, n)
        /\ short' = (short \/ n < Len(data))
  BY DEF Write
<1>2. n \in 0..Len(data)
  OBVIOUS
<1>3. SubSeq(data, 1, n) \in Seq(Int) /\ Len(SubSeq(data, 1, n)) = n
  BY <1>2
<1>4. file' \in Seq(Int) /\ Len(file) <= Len(file')
  BY <1>1, <1>2, <1>3, ConcatProperties
<1>5. short' \in BOOLEAN
  BY <1>1
<1>6. ASSUME ~short'
      PROVE  ~short /\ file' = file \o data
  <2>1. ~short /\ n = Len(data)
    <3>1. ~(short \/ n < Len(data))
      BY <1>1, <1>6
    <3>2. ~short /\ ~ n < Len(data)
      BY <3>1
    <3> QED
      BY <1>2, <3>2
  <2>2. SubSeq(data, 1, n) = data
    BY <2>1
  <2> QED
    BY <1>1, <2>1, <2>2
<1> QED
  BY <1>4, <1>5, <1>6

LEMMA Start == Init => IInv
<1> SUFFICES ASSUME Init
             PROVE  IInv
  OBVIOUS
<1>1. Right(inode)
  BY DEF Init, Right
<1>2. Len(inode.blocks) \in Nat
  BY <1>1, InodeTyped
<1>3. Typed
  <2>1. k \in 1..Len(inode.blocks) + 1 /\ written \in 0..Len(file) /\ file \in Seq(Int)
    <3>1. <<>> \in Seq(Int) /\ Len(<<>>) = 0
      OBVIOUS
    <3> QED
      BY <1>2, <3>1 DEF Init
  <2>2. inode \in Inode /\ pc = "open" /\ err = FALSE /\ short = FALSE /\ stuck = FALSE
    BY DEF Init
  <2> QED
    BY <1>1, <2>1, <2>2 DEF Typed, TypeOK
<1>4. Flat(inode, k - 1) = <<>>
  BY <1>1, FlatStep DEF Init
<1> QED
  BY <1>3, <1>4 DEF Init, IInv, Phases, Passed, WrittenIsLength, InOrder, Outcome, Reason,
                    LengthIsExact, Done, StuckLast

(* What the steps below start from. *)
LEMMA Facts ==
  ASSUME Typed
  PROVE  /\ Right(inode) /\ Len(inode.blocks) \in Nat /\ DOMAIN inode.blocks = 1..Len(inode.blocks)
         /\ inode.fileSize \in Nat /\ k \in Nat \ {0} /\ k - 1 \in 0..Len(inode.blocks)
         /\ Flat(inode, k - 1) \in Seq(Int) /\ Saved(inode, k - 1) \in Seq(Int)
<1>1. /\ Right(inode) /\ Len(inode.blocks) \in Nat /\ DOMAIN inode.blocks = 1..Len(inode.blocks)
      /\ inode.fileSize \in Nat /\ inode.fragOff \in Nat
      /\ k \in Nat \ {0} /\ k - 1 \in 0..Len(inode.blocks)
  BY InodeTyped, ExtractAssumption DEF Typed, TypeOK
<1>2. Flat(inode, k - 1) \in Seq(Int)
  BY <1>1, FlatTyped
<1>3. FromFragment(inode, Len(Flat(inode, k - 1))) \in Seq(Int)
  <2> DEFINE n == Len(Flat(inode, k - 1))
             f == FragmentBytes(inode)
             off == inode.fragOff
  <2>1. n \in Int /\ f \in Seq(Int) /\ off \in Nat /\ inode.fileSize - n \in Int
    BY <1>1, <1>2, FragmentTyped
  <2>2. Cut(f, off, inode.fileSize - n) \in Seq(Int)
    <3> HIDE DEF n, f, off
    <3> QED
      BY <2>1, CutTyped
  <2>3. <<>> \in Seq(Int)
    OBVIOUS
  <2> QED
    BY <2>2, <2>3 DEF FromFragment
<1> QED
  BY <1>1, <1>2, <1>3 DEF Saved

(* A block is appended: the loop goes on behind it. *)
LEMMA BlockStep ==
  ASSUME IInv, NEW data, data = BlockOutput(inode, k),
         AtBlock({"sparse", "whole", "odd", "scant"}), Write(data), Count,
         k' = k + 1, UNCHANGED <<inode, pc, err, stuck>>
  PROVE  IInv'
<1>1. /\ Typed /\ Phases /\ Passed /\ WrittenIsLength /\ InOrder
      /\ TypeOK /\ pc = "blocks" /\ pc' = "blocks" /\ inode' = inode /\ err' = err
      /\ StuckLast /\ stuck' = stuck
  BY DEF IInv, Typed, AtBlock
<1>2. /\ k \in DOMAIN inode.blocks /\ inode.blocks[k] \in {"sparse", "whole", "odd", "scant"}
  BY DEF AtBlock
<1>3. data \in Seq(Int)
  BY <1>1, <1>2, Facts, OutputTyped
<1>4. file \in Seq(Int) /\ short \in BOOLEAN
  BY <1>1 DEF TypeOK
<1>5. /\ file' \in Seq(Int) /\ Len(file) <= Len(file') /\ short' \in BOOLEAN
      /\ ~short' => ~short /\ file' = file \o data
  BY <1>3, <1>4, WriteStep
<1>6. written' = Len(file')
  BY <1>1, <1>4, <1>5 DEF Count, WrittenIsLength
<1>7. /\ k \in Nat \ {0} /\ Len(inode.blocks) \in Nat /\ k' \in 1..Len(inode.blocks) + 1
      /\ k' - 1 = k /\ Right(inode)
  BY <1>1, <1>2, Facts
<1>8. Typed'
  <2>1. inode' \in Inode /\ Right(inode')
    BY <1>1 DEF Typed, TypeOK
  <2>2. k' \in 1..Len(inode'.blocks) + 1
    BY <1>1, <1>7
  <2>3. written' \in 0..Len(file') /\ file' \in Seq(Int)
    BY <1>5, <1>6
  <2>4. err' \in BOOLEAN /\ short' \in BOOLEAN /\ stuck' \in BOOLEAN
    BY <1>1, <1>5 DEF TypeOK
  <2> QED
    BY <1>1, <2>1, <2>2, <2>3, <2>4 DEF Typed, TypeOK
<1>9. Phases' /\ Outcome' /\ Reason' /\ LengthIsExact' /\ StuckLast'
  BY <1>1 DEF Phases, Outcome, Reason, LengthIsExact, Done, StuckLast
<1>10. Passed'
  <2>1. \A b \in 1..k' - 1 : b \in 1..k - 1 \/ b = k
    BY <1>7
  <2> QED
    BY <1>1, <1>2, <2>1 DEF Passed
<1>11. WrittenIsLength'
  BY <1>6 DEF WrittenIsLength
<1>12. InOrder'
  <2> SUFFICES ASSUME ~short'
               PROVE  file' = Flat(inode, k)
    BY <1>1, <1>7 DEF InOrder
  <2>1. file = Flat(inode, k - 1) /\ file' = file \o BlockOutput(inode, k)
    BY <1>1, <1>5 DEF InOrder
  <2>2. k - 1 \in Nat /\ (k - 1) + 1 = k
    BY <1>7
  <2>3. Flat(inode, k) = Flat(inode, k - 1) \o BlockOutput(inode, k)
    BY <1>2, <1>7, <2>2, FlatStep
  <2> QED
    BY <2>1, <2>3
<1> QED
  BY <1>8, <1>9, <1>10, <1>11, <1>12 DEF IInv

(* No step leaves the invariant. *)
LEMMA Step == IInv /\ [Next]_vars => IInv'
<1> SUFFICES ASSUME IInv, [Next]_vars
             PROVE  IInv'
  OBVIOUS
<1>1. /\ Typed /\ TypeOK /\ Phases /\ Passed /\ WrittenIsLength
      /\ InOrder /\ Outcome /\ Reason /\ LengthIsExact /\ StuckLast
  BY DEF IInv, Typed
<1>2. /\ Right(inode) /\ Len(inode.blocks) \in Nat /\ DOMAIN inode.blocks = 1..Len(inode.blocks)
      /\ inode.fileSize \in Nat /\ k \in Nat \ {0} /\ k - 1 \in 0..Len(inode.blocks)
      /\ Flat(inode, k - 1) \in Seq(Int) /\ Saved(inode, k - 1) \in Seq(Int)
  BY <1>1, Facts
<1>3. CASE UNCHANGED vars
  <2> USE DEF vars
  <2>1. Typed' = Typed /\ Phases' = Phases /\ Passed' = Passed
    BY <1>3 DEF Typed, TypeOK, Phases, Passed, Ended
  <2>2. WrittenIsLength' = WrittenIsLength /\ InOrder' = InOrder
    BY <1>3 DEF WrittenIsLength, InOrder
  <2>3. /\ Outcome' = Outcome /\ Reason' = Reason /\ LengthIsExact' = LengthIsExact
        /\ StuckLast' = StuckLast
    BY <1>3 DEF Outcome, Reason, Ended, LengthIsExact, Done, StuckLast
  <2> QED
    BY <1>1, <2>1, <2>2, <2>3 DEF IInv
(* The steps that leave the file alone. *)
<1>4. ASSUME pc # "done", UNCHANGED <<inode, k, file, written, short, stuck>>, err' \in BOOLEAN,
             pc' \in {"open", "blocks", "fragment", "truncate", "done"}
      PROVE  Typed' /\ Passed' /\ StuckLast'
  <2>1. Right(inode') /\ inode' \in Inode /\ k' \in 1..Len(inode'.blocks) + 1
    BY <1>1, <1>4 DEF Typed, TypeOK
  <2>2. /\ file' \in Seq(Int) /\ (written' \in 0..Len(file') \/ pc' = "done")
        /\ short' \in BOOLEAN /\ stuck' \in BOOLEAN
    BY <1>1, <1>4 DEF TypeOK
  <2>3. Passed' /\ StuckLast'
    BY <1>1, <1>4 DEF Passed, StuckLast
  <2> QED
    BY <1>4, <2>1, <2>2, <2>3 DEF Typed, TypeOK
<1>5. CASE CannotOpen
  <2>1. Typed' /\ Passed' /\ StuckLast' /\ pc = "open" /\ pc' = "done" /\ err' = TRUE /\ k = 1
    BY <1>1, <1>4, <1>5 DEF CannotOpen, Return, Phases
  <2>2. UNCHANGED <<inode, k, file, written, short, stuck>>
    BY <1>5 DEF CannotOpen
  <2>3. Phases' /\ WrittenIsLength' /\ InOrder' /\ LengthIsExact' /\ Reason'
    BY <2>1, <2>2 DEF Phases, WrittenIsLength, InOrder, LengthIsExact, Done, Reason
  <2>4. Outcome'
    BY <1>1, <2>1, <2>2 DEF Outcome, InOrder
  <2> QED
    BY <2>1, <2>3, <2>4 DEF IInv
<1>6. CASE Open
  <2>1. /\ pc = "open" /\ k = 1 /\ ~err /\ file = <<>> /\ written = 0
        /\ UNCHANGED <<inode, k, file, written, short, stuck>>
    BY <1>1, <1>6 DEF Open, Phases
  <2>2. CASE inode.fileSize = 0
    <3>1. pc' = "done" /\ err' = FALSE
      BY <1>6, <2>2 DEF Open, Return
    <3>2. Typed' /\ Passed' /\ StuckLast'
      BY <1>4, <2>1, <3>1
    <3>3. Phases' /\ WrittenIsLength' /\ InOrder'
      BY <3>1 DEF Phases, WrittenIsLength, InOrder
    <3>4. Reason'
      <4>1. k \notin DOMAIN inode.blocks
        <5>1. ASSUME k \in DOMAIN inode.blocks
              PROVE  FALSE
          <6>1. (k - 1) * BlockSize < inode.fileSize
            BY <1>2, <5>1, Geometry
          <6> QED
            BY <2>1, <2>2, <6>1, ExtractAssumption
        <5> QED
          BY <5>1
      <4> QED
        BY <2>1, <3>1, <4>1 DEF Reason, Ended
    <3>5. Outcome'
      <4>3. ~stuck'
        BY <1>1, <2>1 DEF StuckLast
      <4>1. Resized(Saved(inode, k - 1), 0) = <<>>
        BY DEF Resized
      <4>2. Flat(inode, k - 1) = <<>>
        BY <1>2, <2>1, FlatStep
      <4> QED
        BY <2>1, <2>2, <4>1, <4>2, <4>3 DEF Outcome
    <3>6. LengthIsExact'
      BY <2>1, <2>2 DEF LengthIsExact
    <3> QED
      BY <3>2, <3>3, <3>4, <3>5, <3>6 DEF IInv
  <2>3. CASE inode.fileSize # 0
    <3>1. pc' = "blocks" /\ err' = err
      BY <1>6, <2>3 DEF Open
    <3>2. Typed' /\ Passed' /\ StuckLast'
      BY <1>1, <1>4, <2>1, <3>1 DEF TypeOK
    <3>3. Phases' /\ WrittenIsLength' /\ InOrder'
      BY <1>1, <1>2, <2>1, <2>3, <3>1 DEF Phases, WrittenIsLength, InOrder
    <3>4. Outcome' /\ Reason' /\ LengthIsExact'
      BY <3>1 DEF Outcome, Reason, LengthIsExact, Done
    <3> QED
      BY <3>2, <3>3, <3>4 DEF IInv
  <2> QED
    BY <2>2, <2>3
<1>7. CASE SparseBlock
  <2>1. AtBlock({"sparse"}) /\ inode.blocks[k] = "sparse"
    BY <1>7 DEF SparseBlock, AtBlock
  <2>2. BlockOutput(inode, k) = Zeros(BlockSize)
    BY <2>1 DEF BlockOutput
  <2>3. AtBlock({"sparse", "whole", "odd", "scant"})
    BY <2>1 DEF AtBlock
  <2> QED
    BY <1>7, <2>2, <2>3, BlockStep DEF SparseBlock
<1>8. CASE DataBlock
  <2>1. AtBlock({"sparse", "whole", "odd", "scant"})
    BY <1>8 DEF DataBlock, AtBlock
  <2>2. Write(BlockOutput(inode, k)) /\ Count /\ k' = k + 1 /\ UNCHANGED <<inode, pc, err, stuck>>
    BY <1>8 DEF DataBlock
  <2> QED
    BY <2>1, <2>2, BlockStep
<1>9. CASE MissingBlock \/ EndBlocks
  <2>1. /\ pc = "blocks" /\ pc' = "fragment" /\ Ended
        /\ UNCHANGED <<inode, k, file, written, err, short, stuck>>
    BY <1>9 DEF MissingBlock, EndBlocks, AtBlock, Ended
  <2>2. Typed' /\ Passed' /\ StuckLast'
    BY <1>1, <1>4, <2>1 DEF TypeOK
  <2>3. Phases' /\ WrittenIsLength' /\ InOrder'
    BY <1>1, <2>1 DEF Phases, Ended, WrittenIsLength, InOrder
  <2>4. Outcome' /\ Reason' /\ LengthIsExact'
    BY <2>1 DEF Outcome, Reason, LengthIsExact, Done
  <2> QED
    BY <2>2, <2>3, <2>4 DEF IInv
<1>10. CASE CorruptBlock
  <2>1. /\ pc = "blocks" /\ pc' = "done" /\ err' = TRUE
        /\ k \in DOMAIN inode.blocks /\ inode.blocks[k] = "corrupt"
        /\ UNCHANGED <<inode, k, file, written, short, stuck>>
    BY <1>10 DEF CorruptBlock, AtBlock, Return
  <2>2. Typed' /\ Passed' /\ StuckLast'
    BY <1>4, <2>1
  <2>3. Phases' /\ WrittenIsLength' /\ InOrder' /\ LengthIsExact' /\ Reason'
    BY <2>1 DEF Phases, WrittenIsLength, InOrder, LengthIsExact, Done, Reason
  <2>4. Outcome'
    BY <1>1, <2>1 DEF Outcome, InOrder
  <2> QED
    BY <2>2, <2>3, <2>4 DEF IInv
<1>11. CASE NoFragment
  <2>1. /\ pc = "fragment" /\ pc' = "truncate" /\ inode.fragment \in {"none", "missing"}
        /\ UNCHANGED <<inode, k, file, written, err, short, stuck>>
    BY <1>11 DEF NoFragment
  <2>2. Typed' /\ Passed' /\ StuckLast'
    BY <1>1, <1>4, <2>1 DEF TypeOK
  <2>3. Phases' /\ WrittenIsLength'
    BY <1>1, <2>1 DEF Phases, Ended, WrittenIsLength
  <2>4. Outcome' /\ Reason' /\ LengthIsExact'
    BY <2>1 DEF Outcome, Reason, LengthIsExact, Done
  <2>5. Saved(inode, k - 1) = Flat(inode, k - 1)
    BY <1>2, <2>1, ConcatEmptySeq DEF Saved, FromFragment
  <2>6. InOrder'
    BY <1>1, <2>1, <2>5 DEF InOrder
  <2> QED
    BY <2>2, <2>3, <2>4, <2>6 DEF IInv
<1>12. CASE Fragment
  <2>1. /\ pc = "fragment" /\ pc' = "truncate" /\ inode.fragment \in {"whole", "short"}
        /\ UNCHANGED <<inode, k, written, err, stuck>> /\ written = Len(file)
        /\ file \in Seq(Int) /\ short \in BOOLEAN
    BY <1>1, <1>12 DEF Fragment, WrittenIsLength, TypeOK
  <2> DEFINE cut == Cut(FragmentBytes(inode), inode.fragOff, Remaining)
  <2>2. /\ file' \in Seq(Int) /\ Len(file) <= Len(file') /\ short' \in BOOLEAN
        /\ ~short' => ~short /\ file' = IF Remaining > 0 THEN file \o cut ELSE file
    <3>1. CASE Remaining > 0
      <4>1. Write(cut)
        BY <1>12, <3>1 DEF Fragment
      <4>2. Remaining \in Int /\ inode.fragOff \in Nat /\ FragmentBytes(inode) \in Seq(Int)
        BY <1>2, <2>1, InodeTyped, FragmentTyped, ExtractAssumption DEF Remaining
      <4>3. cut \in Seq(Int)
        BY <4>2, CutTyped
      <4> HIDE DEF cut
      <4> QED
        BY <2>1, <3>1, <4>1, <4>3, WriteStep
    <3>2. CASE ~ Remaining > 0
      BY <1>12, <2>1, <3>2 DEF Fragment
    <3> QED
      BY <3>1, <3>2
  <2>3. Typed'
    <3>1. /\ Right(inode') /\ inode' \in Inode /\ k' \in 1..Len(inode'.blocks) + 1 /\ err' \in BOOLEAN
          /\ stuck' \in BOOLEAN
      BY <1>1, <2>1 DEF Typed, TypeOK
    <3>2. written' \in 0..Len(file')
      BY <2>1, <2>2
    <3> QED
      BY <2>1, <2>2, <3>1, <3>2 DEF Typed, TypeOK
  <2>4. Passed' /\ Phases' /\ WrittenIsLength' /\ StuckLast'
    BY <1>1, <2>1 DEF Passed, Phases, Ended, WrittenIsLength, StuckLast
  <2>5. Outcome' /\ Reason' /\ LengthIsExact'
    BY <2>1 DEF Outcome, Reason, LengthIsExact, Done
  <2>6. InOrder'
    <3> SUFFICES ASSUME ~short'
                 PROVE  file' = Saved(inode, k - 1)
      BY <2>1 DEF InOrder
    <3>1. file = Flat(inode, k - 1) /\ file' = IF Remaining > 0 THEN file \o cut ELSE file
      BY <1>1, <2>1, <2>2 DEF InOrder
    <3>2. Remaining = inode.fileSize - Len(Flat(inode, k - 1))
      BY <2>1, <3>1 DEF Remaining
    <3>3. FromFragment(inode, Len(Flat(inode, k - 1))) = IF Remaining > 0 THEN cut ELSE <<>>
      BY <2>1, <3>2 DEF FromFragment
    <3> HIDE DEF cut
    <3> QED
      BY <2>1, <3>1, <3>3, ConcatEmptySeq DEF Saved
  <2> QED
    BY <2>3, <2>4, <2>5, <2>6 DEF IInv
<1>13. CASE CorruptFragment
  <2>1. /\ pc = "fragment" /\ pc' = "done" /\ err' = FALSE /\ inode.fragment = "corrupt"
        /\ UNCHANGED <<inode, k, file, written, short, stuck>> /\ Ended
    BY <1>1, <1>13 DEF CorruptFragment, Return, Phases
  <2>2. Typed' /\ Passed' /\ StuckLast'
    BY <1>4, <2>1
  <2>3. Phases' /\ WrittenIsLength' /\ InOrder' /\ LengthIsExact' /\ Reason'
    BY <2>1 DEF Phases, WrittenIsLength, InOrder, LengthIsExact, Reason, Ended
  <2>4. Outcome'
    BY <1>1, <2>1 DEF Outcome, InOrder
  <2> QED
    BY <2>2, <2>3, <2>4 DEF IInv
<1>14. CASE Truncate
  <2>1. /\ pc = "truncate" /\ pc' = "done" /\ err' = FALSE /\ inode.fragment # "corrupt"
        /\ UNCHANGED <<inode, k, written, short>> /\ Ended /\ ~stuck
    BY <1>1, <1>14 DEF Truncate, Return, Phases, StuckLast
  <2>2. \/ file' = Resized(file, inode.fileSize) /\ stuck' = FALSE
        \/ file' = file /\ stuck' = TRUE
    BY <1>1, <1>14, <2>1 DEF Truncate, TypeOK
  <2>3. file' \in Seq(Int) /\ (~stuck' => Len(file') = inode.fileSize) /\ stuck' \in BOOLEAN
    BY <1>1, <1>2, <2>2, ResizedTyped DEF TypeOK
  <2>4. Typed'
    <3>1. Right(inode') /\ inode' \in Inode /\ k' \in 1..Len(inode'.blocks) + 1 /\ short' \in BOOLEAN
      BY <1>1, <2>1 DEF Typed, TypeOK
    <3> QED
      BY <2>1, <2>3, <3>1 DEF Typed, TypeOK
  <2>5. Passed' /\ Phases' /\ WrittenIsLength' /\ InOrder' /\ StuckLast'
    BY <1>1, <2>1 DEF Passed, Phases, WrittenIsLength, InOrder, StuckLast
  <2>6. LengthIsExact' /\ Reason'
    BY <2>1, <2>3 DEF LengthIsExact, Reason, Ended
  <2>7. Outcome'
    BY <1>1, <2>1, <2>2 DEF Outcome, InOrder
  <2> QED
    BY <2>4, <2>5, <2>6, <2>7 DEF IInv
<1> QED
  BY <1>3, <1>5, <1>6, <1>7, <1>8, <1>9, <1>10, <1>11, <1>12, <1>13, <1>14 DEF Next

-----------------------------------------------------------------------------
(* What the invariant says of a call that has ended.                       *)

(* The tail, cut out of a fragment behind blocks that are all sound: the   *)
(* bytes from there to the end of the file, or as many as there are.       *)
LEMMA TailCut ==
  ASSUME NEW in, Right(in), in.fragment \in {"whole", "short"},
         NEW body \in Nat, body = Len(in.blocks) * BlockSize, in.fileSize - body > 0
  PROVE  LET cut == Cut(FragmentBytes(in), in.fragOff, in.fileSize - body)
         IN /\ cut \in Seq(Int) /\ Len(cut) <= in.fileSize - body
            /\ \A i \in 1..Len(cut) : cut[i] = body + i
            /\ in.fragment = "whole" => Len(cut) = in.fileSize - body
<1> DEFINE tail == in.fileSize - body
           off == in.fragOff
           f == FragmentBytes(in)
           size == IF in.fragment = "short" THEN Lesser(off + tail - 1, FragmentSize)
                                            ELSE FragmentSize
<1>1. /\ body = (in.fileSize \div BlockSize) * BlockSize /\ in.fileSize \in Nat
      /\ tail \in Nat \ {0} /\ off \in Nat /\ FragmentSize \in Nat
      /\ off + tail <= FragmentSize
  <2>1. body = (in.fileSize \div BlockSize) * BlockSize
    BY Geometry
  <2>2. in.fileSize % BlockSize = in.fileSize - body
    <3> DEFINE r == in.fileSize % BlockSize
    <3>1. in.fileSize \in Nat /\ r \in Nat
      <4>1. in.fileSize \in Nat /\ BlockSize \in Nat \ {0}
        BY InodeTyped, ExtractAssumption
      <4>2. r \in 0..BlockSize - 1
        BY <4>1, Division
      <4> HIDE DEF r
      <4> QED
        BY <4>1, <4>2
    <3>2. in.fileSize = (in.fileSize \div BlockSize) * BlockSize + r
      BY <3>1, Division, ExtractAssumption
    <3> HIDE DEF r
    <3>3. in.fileSize = body + r
      BY <2>1, <3>2
    <3>4. r = in.fileSize - body
      BY <3>1, <3>3
    <3> QED
      BY <3>4 DEF r
  <2>3. off + (in.fileSize % BlockSize) <= FragmentSize
    BY DEF Right, Placed
  <2>4. in.fileSize \in Nat /\ off \in Nat /\ FragmentSize \in Nat
    BY InodeTyped, ExtractAssumption
  <2> HIDE DEF off
  <2>5. off + tail <= FragmentSize
    BY <2>2, <2>3
  <2> QED
    BY <2>1, <2>4, <2>5
<1>2. f = [j \in 1..size |-> IF j - off \in 1..tail THEN body + j - off ELSE -j]
  BY <1>1 DEF FragmentBytes
<1> HIDE DEF f, tail, off
<1>3. /\ size \in Nat /\ off + tail - 1 <= size
      /\ in.fragment = "whole" => off + tail <= size
  BY <1>1 DEF Lesser
<1> HIDE DEF size
<1>4. f \in Seq(Int) /\ Len(f) = size
  BY <1>1, <1>2, <1>3
<1> DEFINE cut == Cut(f, off, tail)
           last == Lesser(off + tail, size)
<1>5. cut = SubSeq(f, off + 1, last)
  BY <1>4 DEF Cut
<1>6. last \in Nat /\ last <= size /\ last <= off + tail /\ off <= last
  BY <1>1, <1>3 DEF Lesser
<1>7. in.fragment = "whole" => last = off + tail
  BY <1>1, <1>3 DEF Lesser
<1> HIDE DEF last
<1>8. cut \in Seq(Int) /\ Len(cut) = last - off /\ \A i \in 1..last - off : cut[i] = f[off + i]
  <2>1. off + 1 \in 1..Len(f) + 1 /\ last \in off..Len(f) /\ off \in Nat /\ last - off \in Nat
    BY <1>1, <1>4, <1>6
  <2> HIDE DEF cut
  <2>2. cut \in Seq(Int)
    BY <1>4, <1>5, <2>1
  <2>3. Len(cut) = last - off
    BY <1>4, <1>5, <2>1
  <2>4. \A i \in 1..last - off : cut[i] = f[off + i]
    BY <1>4, <1>5, <2>1
  <2> QED
    BY <2>2, <2>3, <2>4
<1>9. ASSUME NEW i \in 1..last - off
      PROVE  cut[i] = body + i
  <2>1. off + i \in 1..size /\ (off + i) - off = i /\ i \in 1..tail
    BY <1>1, <1>3, <1>6
  <2>2. f[off + i] = body + (off + i) - off
    BY <1>2, <2>1
  <2>3. body + (off + i) - off = body + i
    BY <1>1, <1>6
  <2> QED
    BY <1>8, <2>2, <2>3
<1>10. Len(cut) <= tail
  BY <1>1, <1>6, <1>8
<1>11. in.fragment = "whole" => Len(cut) = tail
  BY <1>1, <1>7, <1>8
<1>12. \A i \in 1..Len(cut) : cut[i] = body + i
  BY <1>8, <1>9
<1>13. cut \in Seq(Int)
  BY <1>8
<1> QED
  BY <1>10, <1>11, <1>12, <1>13 DEF f, tail, off

(* An intact file is copied.                                               *)
LEMMA IntactLemma == IInv => IntactIsCopied
<1> SUFFICES ASSUME IInv, Done(FALSE), Intact, ~short
             PROVE  /\ \A p \in 1..inode.fileSize : p <= Len(file) /\ file[p] = Content(inode)[p]
                    /\ ~stuck => Len(file) = inode.fileSize
  BY DEF IntactIsCopied
<1> DEFINE n == Len(inode.blocks)
           size == inode.fileSize
           f == Flat(inode, n)
           t == FromFragment(inode, Len(f))
<1>1. /\ Right(inode) /\ n \in Nat /\ DOMAIN inode.blocks = 1..n /\ size \in Nat
      /\ k \in Nat \ {0} /\ k - 1 \in 0..n /\ BlockSize \in Nat \ {0}
  BY Facts, ExtractAssumption DEF IInv
<1>2. \A b \in 1..n : inode.blocks[b] \in SoundKinds
  <2>1. \A b \in 1..n : inode.blocks[b] \notin Kinds \ {"whole", "sparse"}
    BY <1>1, BeforeFirst DEF Intact
  <2>2. \A b \in 1..n : inode.blocks[b] \in Kinds
    BY <1>1, InodeTyped
  <2> QED
    BY <2>1, <2>2 DEF SoundKinds
<1>3. k - 1 = n
  <2>1. k \notin 1..n
    BY <1>1, <1>2 DEF IInv, Reason, Ended, Done, SoundKinds
  <2> QED
    BY <1>1, <2>1
<1>4. file = IF stuck THEN f \o t ELSE Resized(f \o t, size)
  BY <1>3 DEF IInv, Outcome, Done, Intact, Saved
<1>5. f \in Seq(Int) /\ t \in Seq(Int) /\ f \o t \in Seq(Int)
  <2>1. f \in Seq(Int)
    BY <1>1, FlatTyped
  <2>2. t \in Seq(Int)
    <3>1. size - Len(f) \in Int /\ inode.fragOff \in Nat
      BY <1>1, <2>1, InodeTyped, ExtractAssumption
    <3> HIDE DEF f
    <3>2. Cut(FragmentBytes(inode), inode.fragOff, size - Len(f)) \in Seq(Int)
      BY <1>1, <3>1, FragmentTyped, CutTyped
    <3>3. <<>> \in Seq(Int)
      OBVIOUS
    <3> QED
      BY <3>2, <3>3 DEF FromFragment
  <2> QED
    BY <2>1, <2>2, ConcatProperties
<1>6. \A p \in 1..size : p <= n * BlockSize => p <= Len(f) /\ f[p] = Content(inode)[p]
  BY <1>1, <1>2, SoundFlat
<1> DEFINE body == n * BlockSize
<1>7. body \in Nat /\ (inode.fragment # "none" => Len(f) = body)
  BY <1>1, <1>2, SoundFlat
<1>8. inode.fragment = "none" => size <= body
  BY <1>1, Geometry
<1>9. ASSUME NEW p \in 1..size
      PROVE  p <= Len(f \o t) /\ (f \o t)[p] = Content(inode)[p]
  <2>1. Len(f \o t) = Len(f) + Len(t) /\ Len(f) \in Nat /\ Len(t) \in Nat
    BY <1>5
  <2>2. \A i \in 1..Len(f) + Len(t) : (f \o t)[i] = IF i <= Len(f) THEN f[i] ELSE t[i - Len(f)]
    BY <1>5, ConcatProperties
  <2>3. CASE p <= body
    <3>1. p <= Len(f) /\ f[p] = Content(inode)[p]
      BY <1>6, <2>3
    <3> HIDE DEF f, t
    <3> QED
      BY <2>1, <2>2, <3>1
  <2>4. CASE p > body
    <3>1. inode.fragment = "whole" /\ Len(f) = body
      BY <1>1, <1>7, <1>8, <2>4 DEF Intact
    <3> HIDE DEF f, t, body
    <3>2. size - body > 0
      BY <1>1, <1>7, <2>4
    <3>3. t = Cut(FragmentBytes(inode), inode.fragOff, size - body)
      BY <3>1, <3>2 DEF t, FromFragment
    <3>4. /\ Len(t) = size - body
          /\ \A i \in 1..Len(t) : t[i] = body + i
      <4>1. inode.fragment \in {"whole", "short"} /\ body \in Nat
        BY <1>7, <3>1
      <4>2. body = Len(inode.blocks) * BlockSize
        BY DEF body
      <4>3. Right(inode) /\ inode.fileSize - body > 0
        BY <1>1, <3>2
      <4> DEFINE cut == Cut(FragmentBytes(inode), inode.fragOff, inode.fileSize - body)
      <4>4. /\ \A i \in 1..Len(cut) : cut[i] = body + i
            /\ inode.fragment = "whole" => Len(cut) = inode.fileSize - body
        BY <4>1, <4>2, <4>3, TailCut
      <4> HIDE DEF cut
      <4>5. t = cut
        BY <3>3 DEF cut
      <4> QED
        BY <3>1, <4>4, <4>5
    <3>5. p - body \in 1..Len(t) /\ body + (p - body) = p
      BY <1>1, <1>7, <2>4, <3>4
    <3>6. p <= Len(f \o t) /\ (f \o t)[p] = p
      <4>1. p \in 1..Len(f) + Len(t) /\ ~ p <= Len(f)
        BY <1>1, <1>7, <2>1, <2>4, <3>1, <3>5
      <4>2. (f \o t)[p] = t[p - Len(f)]
        BY <2>2, <4>1
      <4>3. t[p - body] = body + (p - body)
        BY <3>4, <3>5
      <4> QED
        BY <2>1, <3>1, <3>5, <4>1, <4>2, <4>3
    <3>7. Content(inode)[p] = p
      <4> DEFINE b == ((p - 1) \div BlockSize) + 1
      <4>1. b \notin DOMAIN inode.blocks
        <5>1. ASSUME b \in 1..n
              PROVE  FALSE
          <6> DEFINE q == (p - 1) \div BlockSize
          <6>1. q \in Nat /\ p - 1 < (q + 1) * BlockSize
            <7>1. p - 1 \in Nat
              OBVIOUS
            <7>2. q \in Nat /\ p - 1 < q * BlockSize + BlockSize
              <8> DEFINE r == (p - 1) % BlockSize
              <8>1. q \in Nat /\ r \in 0..BlockSize - 1 /\ p - 1 = q * BlockSize + r
                BY <1>1, <7>1, Division
              <8> HIDE DEF q, r
              <8>2. q * BlockSize \in Nat
                BY <1>1, <8>1
              <8> QED
                BY <1>1, <8>1, <8>2
            <7> HIDE DEF q
            <7> QED
              BY <1>1, <7>2
          <6>2. q + 1 <= n
            BY <5>1
          <6> HIDE DEF q
          <6>3. (q + 1) * BlockSize <= n * BlockSize
            BY <1>1, <6>1, <6>2
          <6>4. (q + 1) * BlockSize \in Nat
            BY <1>1, <6>1
          <6> QED
            BY <1>1, <1>7, <2>4, <6>1, <6>3, <6>4 DEF body
        <5> QED
          BY <1>1, <5>1
      <4> QED
        BY <4>1 DEF Content
    <3> QED
      BY <3>6, <3>7
  <2> QED
    BY <1>1, <1>7, <2>3, <2>4
<1> DEFINE all == f \o t
<1>10. /\ Resized(all, size) \in Seq(Int) /\ Len(Resized(all, size)) = size
       /\ \A p \in 1..size : Resized(all, size)[p] = all[p]
  <2>1. all \in Seq(Int) /\ \A p \in 1..size : p <= Len(all)
    BY <1>5, <1>9
  <2> HIDE DEF all
  <2> QED
    BY <1>1, <2>1, ResizedTyped
<1>11. \A p \in 1..size : p <= Len(all) /\ all[p] = Content(inode)[p]
  BY <1>9
<1>12. file = IF stuck THEN all ELSE Resized(all, size)
  BY <1>4
<1> HIDE DEF all, f, t
<1>13. CASE stuck
  BY <1>11, <1>12, <1>13
<1>14. CASE ~stuck
  BY <1>10, <1>11, <1>12, <1>14
<1> QED
  BY <1>13, <1>14

(* What comes before the first damage is in the file, at every step.       *)
LEMMA PrefixLemma == IInv => PrefixIsSound
<1> DEFINE s == BlocksBefore(inode, Kinds \ {"whole", "sparse"})
           n == k - 1
           size == inode.fileSize
           f == Flat(inode, n)
           sound == s * BlockSize
<1> SUFFICES ASSUME IInv, ~short,
                    NEW p \in 1..Lesser(Lesser(Len(file), sound), size)
             PROVE  file[p] = Content(inode)[p]
  BY DEF PrefixIsSound
<1>1. /\ Right(inode) /\ Len(inode.blocks) \in Nat /\ DOMAIN inode.blocks = 1..Len(inode.blocks)
      /\ size \in Nat /\ k \in Nat \ {0} /\ n \in 0..Len(inode.blocks) /\ n \in Nat
      /\ f \in Seq(Int) /\ BlockSize \in Nat \ {0} /\ file \in Seq(Int)
  BY Facts, ExtractAssumption DEF IInv, Typed, TypeOK
<1>2. /\ s \in 0..Len(inode.blocks) /\ s \in Nat
      /\ \A b \in 1..s : inode.blocks[b] \in SoundKinds
      /\ s < Len(inode.blocks) => inode.blocks[s + 1] \in Kinds \ {"whole", "sparse"}
  <2>1. /\ s \in 0..Len(inode.blocks)
        /\ \A b \in 1..s : inode.blocks[b] \notin Kinds \ {"whole", "sparse"}
        /\ s < Len(inode.blocks) => inode.blocks[s + 1] \in Kinds \ {"whole", "sparse"}
    BY <1>1, BeforeFirst
  <2> HIDE DEF s
  <2>2. \A b \in 1..s : b \in DOMAIN inode.blocks /\ inode.blocks[b] \in Kinds
    BY <1>1, <2>1, InodeTyped
  <2> QED
    BY <1>1, <2>1, <2>2 DEF SoundKinds
<1> HIDE DEF s
<1>3. sound \in Nat /\ p \in Nat /\ p >= 1 /\ p <= Len(file) /\ p <= sound /\ p <= size
  <2>1. sound \in Nat
    BY <1>1, <1>2
  <2> HIDE DEF sound, size
  <2> QED
    BY <1>1, <2>1 DEF Lesser
(* The blocks that were written already are before the first damage, or    *)
(* reach it.                                                               *)
<1>4. ASSUME n <= s, p <= Len(f)
      PROVE  f[p] = Content(inode)[p]
  <2>1. \A b \in 1..n : inode.blocks[b] \in SoundKinds
    BY <1>1, <1>2, <1>4
  <2>2. \A c \in 1..size : c <= n * BlockSize => c <= Len(f) /\ f[c] = Content(inode)[c]
    BY <1>1, <2>1, SoundFlat
  <2>3. p <= n * BlockSize
    <3>1. CASE n < Len(inode.blocks)
      <4>1. Len(f) = n * BlockSize
        BY <1>1, <2>1, <3>1, SoundFlat
      <4> QED
        BY <1>4, <4>1
    <3>2. CASE ~ n < Len(inode.blocks)
      <4>1. n = s
        BY <1>1, <1>2, <1>4, <3>2
      <4> QED
        BY <1>3, <4>1
    <3> QED
      BY <3>1, <3>2
  <2> QED
    BY <1>3, <2>2, <2>3
<1>5. ASSUME s <= n
      PROVE  p <= Len(f) /\ f[p] = Content(inode)[p]
  <2> DEFINE fs == Flat(inode, s)
  <2>1. p <= Len(fs) /\ fs[p] = Content(inode)[p]
    <3>1. \A c \in 1..size : c <= sound => c <= Len(fs) /\ fs[c] = Content(inode)[c]
      BY <1>1, <1>2, SoundFlat
    <3> HIDE DEF fs, sound
    <3> QED
      BY <1>3, <3>1
  <2>2. Len(fs) <= Len(f) /\ \A c \in 1..Len(fs) : f[c] = fs[c]
    BY <1>1, <1>2, <1>5, FlatExtends
  <2>3. fs \in Seq(Int)
    BY <1>1, <1>2, FlatTyped
  <2> HIDE DEF fs, f, sound
  <2>4. Len(fs) \in Nat /\ Len(f) \in Nat
    BY <1>1, <2>3
  <2>5. p \in 1..Len(fs) /\ p <= Len(f)
    BY <1>3, <2>1, <2>2, <2>4
  <2> QED
    BY <2>1, <2>2, <2>5
<1>6. ASSUME file = f
      PROVE  file[p] = Content(inode)[p]
  <2> HIDE DEF f, sound
  <2> QED
    BY <1>1, <1>2, <1>3, <1>4, <1>5, <1>6
<1>7. ASSUME Ended
      PROVE  s <= n
  <2>1. CASE n < s
    <3>1. k \in 1..s /\ k \in DOMAIN inode.blocks
      BY <1>1, <1>2, <2>1
    <3>2. inode.blocks[k] = "missing"
      BY <1>7, <3>1 DEF Ended
    <3> QED
      BY <1>2, <3>1, <3>2 DEF SoundKinds
  <2> QED
    BY <1>1, <1>2, <2>1
<1> DEFINE all == Saved(inode, n)
<1>8. ASSUME Ended
      PROVE  p <= Len(all) /\ all[p] = Content(inode)[p]
  <2>1. p <= Len(f) /\ f[p] = Content(inode)[p]
    BY <1>5, <1>7, <1>8
  <2> DEFINE t == FromFragment(inode, Len(f))
  <2>2. all = f \o t
    BY DEF Saved
  <2>3. t \in Seq(Int)
    <3>1. size - Len(f) \in Int /\ inode.fragOff \in Nat
      BY <1>1, InodeTyped, ExtractAssumption
    <3> HIDE DEF f
    <3>2. Cut(FragmentBytes(inode), inode.fragOff, size - Len(f)) \in Seq(Int)
      BY <1>1, <3>1, FragmentTyped, CutTyped
    <3>3. <<>> \in Seq(Int)
      OBVIOUS
    <3> QED
      BY <3>2, <3>3 DEF FromFragment
  <2> HIDE DEF t, f, all
  <2>4. Len(all) = Len(f) + Len(t)
    BY <1>1, <2>2, <2>3
  <2>5. \A c \in 1..Len(f) + Len(t) : all[c] = IF c <= Len(f) THEN f[c] ELSE t[c - Len(f)]
    BY <1>1, <2>2, <2>3, ConcatProperties
  <2>6. p \in 1..Len(f) + Len(t)
    BY <1>1, <1>3, <2>1, <2>3
  <2> QED
    BY <2>1, <2>4, <2>5, <2>6
<1>9. CASE pc \in {"open", "blocks", "fragment"}
  BY <1>6, <1>9 DEF IInv, InOrder
<1>10. CASE pc = "truncate"
  <2>1. Ended /\ file = all
    BY <1>10 DEF IInv, InOrder, Phases
  <2> QED
    BY <1>8, <2>1
<1>11. CASE pc = "done"
  <2>1. CASE err \/ inode.fragment = "corrupt"
    BY <1>6, <1>11, <2>1 DEF IInv, Outcome
  <2>2. CASE ~(err \/ inode.fragment = "corrupt")
    <3>1. Ended /\ file = IF stuck THEN all ELSE Resized(all, size)
      BY <1>11, <2>2 DEF IInv, Outcome, Reason
    <3>2. p \in 1..size
      BY <1>1, <1>3
    <3>3. p <= Len(all) /\ all[p] = Content(inode)[p]
      BY <1>8, <3>1
    <3> HIDE DEF all
    <3>4. file[p] = all[p]
      BY <3>1, <3>2, <3>3 DEF Resized
    <3> QED
      BY <3>3, <3>4
  <2> QED
    BY <2>1, <2>2
<1>12. pc \in {"open", "blocks", "fragment", "truncate", "done"}
  BY DEF IInv, Typed, TypeOK
<1> QED
  BY <1>9, <1>10, <1>11, <1>12

(* The bytes are this file's own when no block is missing, too long or too *)
(* short.                                                                  *)
LEMMA ForeignLemma == IInv => ForeignOnlyAfterGap
<1> DEFINE n == Len(inode.blocks)
           size == inode.fileSize
           f == Flat(inode, n)
           t == FromFragment(inode, Len(f))
           all == f \o t
           body == n * BlockSize
<1> SUFFICES ASSUME IInv, Done(FALSE), ~short,
                    BlocksBefore(inode, {"missing", "odd", "scant"}) = n,
                    NEW p \in DOMAIN file
             PROVE  file[p] >= 0
  BY DEF ForeignOnlyAfterGap
<1>1. /\ Right(inode) /\ n \in Nat /\ DOMAIN inode.blocks = 1..n /\ size \in Nat
      /\ k \in Nat \ {0} /\ k - 1 \in 0..n /\ BlockSize \in Nat \ {0}
      /\ pc = "done" /\ ~err
  BY Facts, ExtractAssumption DEF IInv, Done
<1>2. \A b \in 1..n : inode.blocks[b] \notin {"missing", "odd", "scant"}
  BY <1>1, BeforeFirst
<1>3. k - 1 = n
  <2>1. k \notin 1..n
    BY <1>1, <1>2 DEF IInv, Reason, Ended
  <2> QED
    BY <1>1, <2>1
<1>4. \A b \in 1..n : inode.blocks[b] \in SoundKinds
  BY <1>2, <1>3 DEF IInv, Passed, SoundKinds
<1>5. /\ \A c \in 1..Len(f) : f[c] >= 0
      /\ inode.fragment # "none" => Len(f) = body
  <2>1. n \in 0..n
    BY <1>1
  <2> QED
    BY <1>1, <1>4, <2>1, SoundFlat
<1>6. f \in Seq(Int) /\ body \in Nat
  BY <1>1, FlatTyped
<1>7. t \in Seq(Int) /\ \A c \in 1..Len(t) : t[c] >= 0
  <2>1. CASE inode.fragment \in {"whole", "short"} /\ size - Len(f) > 0
    <3>1. Len(f) = body /\ size - body > 0
      BY <1>5, <2>1
    <3> HIDE DEF f, body
    <3>2. t = Cut(FragmentBytes(inode), inode.fragOff, size - body)
      BY <2>1, <3>1 DEF FromFragment
    <3>3. t \in Seq(Int) /\ \A c \in 1..Len(t) : t[c] = body + c
      BY <1>1, <1>6, <2>1, <3>1, <3>2, TailCut DEF body
    <3> HIDE DEF t
    <3> QED
      BY <1>6, <3>3
  <2>2. CASE ~(inode.fragment \in {"whole", "short"} /\ size - Len(f) > 0)
    <3>1. t = <<>>
      BY <2>2 DEF FromFragment
    <3> HIDE DEF t
    <3> QED
      BY <3>1
  <2> QED
    BY <2>1, <2>2
<1> HIDE DEF f, t
<1>8. all \in Seq(Int) /\ \A c \in 1..Len(all) : all[c] >= 0
  <2>1. Len(all) = Len(f) + Len(t) /\ all \in Seq(Int)
    BY <1>6, <1>7
  <2>2. \A c \in 1..Len(f) + Len(t) : all[c] = IF c <= Len(f) THEN f[c] ELSE t[c - Len(f)]
    BY <1>6, <1>7, ConcatProperties
  <2>3. Len(f) \in Nat /\ Len(t) \in Nat
    BY <1>6, <1>7
  <2> HIDE DEF all
  <2>4. ASSUME NEW c \in 1..Len(all)
        PROVE  all[c] >= 0
    <3>1. c \in 1..Len(f) + Len(t)
      BY <2>1
    <3>2. all[c] = IF c <= Len(f) THEN f[c] ELSE t[c - Len(f)]
      BY <2>2, <3>1
    <3>3. CASE c <= Len(f)
      <4>1. c \in 1..Len(f)
        BY <2>3, <3>1, <3>3
      <4> QED
        BY <1>5, <3>2, <3>3, <4>1
    <3>4. CASE ~ c <= Len(f)
      <4>1. c - Len(f) \in 1..Len(t)
        BY <2>3, <3>1, <3>4
      <4> QED
        BY <1>7, <3>2, <3>4, <4>1
    <3> QED
      BY <3>3, <3>4
  <2> QED
    BY <2>1, <2>4
<1>9. CASE inode.fragment = "corrupt"
  <2>1. file = f
    BY <1>1, <1>3, <1>9 DEF IInv, Outcome, f
  <2> QED
    BY <1>5, <1>6, <2>1
<1>10. CASE inode.fragment # "corrupt"
  <2>1. file = IF stuck THEN all ELSE Resized(all, size)
    BY <1>1, <1>3, <1>10 DEF IInv, Outcome, Saved, f, t
  <2> HIDE DEF all
  <2>2. CASE stuck
    <3>1. p \in 1..Len(all)
      BY <1>8, <2>1, <2>2
    <3> QED
      BY <1>8, <2>1, <2>2, <3>1
  <2>3. CASE ~stuck
    <3>1. p \in 1..size /\ file[p] = IF p <= Len(all) THEN all[p] ELSE 0
      BY <2>1, <2>3 DEF Resized
    <3>2. p <= Len(all) => p \in 1..Len(all)
      BY <1>8, <3>1
    <3> QED
      BY <1>8, <3>1, <3>2
  <2> QED
    BY <2>2, <2>3
<1> QED
  BY <1>9, <1>10

(* Cut twice to the same length, or filled up once it is cut. *)
LEMMA ResizedShortened ==
  ASSUME NEW data \in Seq(Int), NEW n \in Nat
  PROVE  /\ Len(Shortened(data, n)) <= n
         /\ Resized(Shortened(data, n), n) = Resized(data, n)
<1> DEFINE m == Lesser(Len(data), n)
           s == SubSeq(data, 1, m)
<1>1. m \in Nat /\ m <= n /\ m <= Len(data) /\ (m < n => m = Len(data)) /\ Len(data) \in Nat
  BY DEF Lesser
<1> HIDE DEF m
<1>2. s \in Seq(Int) /\ Len(s) = m
  BY <1>1
<1>3. \A i \in 1..m : s[i] = data[i]
  BY <1>1
<1> HIDE DEF s
<1>4. \A p \in 1..n : (IF p <= Len(s) THEN s[p] ELSE 0) = IF p <= Len(data) THEN data[p] ELSE 0
  BY <1>1, <1>2, <1>3
<1>5. Resized(s, n) = Resized(data, n)
  BY <1>4 DEF Resized
<1> QED
  BY <1>1, <1>2, <1>5 DEF Shortened, s, m

(* Reading a file into memory and extracting it give the same.             *)
LEMMA AgreesLemma == IInv => InMemoryAgrees
<1> DEFINE r == ReadFileData(inode)
           n == k - 1
           size == inode.fileSize
           missing == BlocksBefore(inode, {"missing"})
           corrupt == BlocksBefore(inode, {"corrupt"})
           body == Flat(inode, missing)
           cut == Cut(FragmentBytes(inode), inode.fragOff, size - Len(body))
<1> SUFFICES ASSUME IInv, pc = "done", ~short, ~stuck, ~Backwards(inode), k > 1 \/ ~err
             PROVE  /\ err = r.err
                    /\ ~err => /\ Len(r.data) <= Len(file)
                               /\ file = Resized(r.data, Len(file))
  BY DEF InMemoryAgrees
<1>1. /\ Right(inode) /\ Len(inode.blocks) \in Nat /\ DOMAIN inode.blocks = 1..Len(inode.blocks)
      /\ size \in Nat /\ k \in Nat \ {0} /\ n \in 0..Len(inode.blocks) /\ k = n + 1
      /\ err \in BOOLEAN /\ file \in Seq(Int) /\ BlockSize \in Nat \ {0}
  BY Facts, ExtractAssumption DEF IInv, Typed, TypeOK
<1>2. /\ missing \in 0..Len(inode.blocks) /\ corrupt \in 0..Len(inode.blocks)
      /\ \A b \in 1..missing : inode.blocks[b] \notin {"missing"}
      /\ missing < Len(inode.blocks) => inode.blocks[missing + 1] \in {"missing"}
      /\ \A b \in 1..corrupt : inode.blocks[b] \notin {"corrupt"}
      /\ corrupt < Len(inode.blocks) => inode.blocks[corrupt + 1] \in {"corrupt"}
  BY <1>1, BeforeFirst
<1>3. r = CASE size = 0 -> [err |-> FALSE, data |-> <<>>]
            [] size > 0 /\ corrupt < missing -> [err |-> TRUE, data |-> <<>>]
            [] OTHER -> [err |-> FALSE, data |->
                 CASE inode.fragment = "corrupt" -> body
                   [] inode.fragment \in {"none", "missing"} -> Shortened(body, size)
                   [] OTHER -> Shortened(body \o cut, size)]
  BY DEF ReadFileData, Flat
<1>4. body \in Seq(Int) /\ cut \in Seq(Int)
  <2>1. body \in Seq(Int)
    BY <1>1, <1>2, FlatTyped
  <2>2. size - Len(body) \in Int /\ inode.fragOff \in Nat
    BY <1>1, <2>1, InodeTyped, ExtractAssumption
  <2> HIDE DEF body
  <2> QED
    BY <1>1, <2>1, <2>2, FragmentTyped, CutTyped
<1>5. inode.fragment \in {"whole", "short"} => Len(body) <= size
  <2>1. inode.fragment \in {"whole", "short"} => ~ size < Len(body)
    BY DEF Backwards, Flat
  <2> HIDE DEF body
  <2> QED
    BY <1>1, <1>4, <2>1
<1> HIDE DEF r, missing, corrupt
<1>6. /\ \A b \in 1..n : inode.blocks[b] \in {"whole", "sparse", "odd", "scant"}
      /\ ~err => Ended
      /\ err /\ k > 1 => k \in DOMAIN inode.blocks /\ inode.blocks[k] = "corrupt"
  BY DEF IInv, Passed, Reason
(* Without an error both stop at the first missing block or at the end.    *)
<1>7. ASSUME ~err
      PROVE  missing = n /\ n <= corrupt
  <2>1. n < Len(inode.blocks) => inode.blocks[n + 1] \in {"missing"}
    BY <1>1, <1>6, <1>7 DEF Ended
  <2>2. BlocksBefore(inode, {"missing"}) = n
    <3>1. \A b \in 1..n : inode.blocks[b] \notin {"missing"}
      BY <1>6
    <3> HIDE DEF n
    <3> QED
      BY <1>1, <2>1, <3>1, BeforeIs
  <2>3. ~ corrupt < n
    <3>1. ASSUME corrupt < n
          PROVE  FALSE
      <4>1. corrupt + 1 \in 1..n /\ corrupt < Len(inode.blocks)
        BY <1>1, <1>2, <3>1
      <4> HIDE DEF n
      <4> QED
        BY <1>2, <1>6, <4>1
    <3> QED
      BY <3>1
  <2> QED
    BY <1>1, <1>2, <2>2, <2>3 DEF missing
(* With one, a corrupt block comes before the first missing one.           *)
<1>8. ASSUME err
      PROVE  size > 0 /\ corrupt < missing
  <2>1. k \in DOMAIN inode.blocks /\ inode.blocks[k] = "corrupt"
    BY <1>6, <1>8
  <2>2. n < Len(inode.blocks) /\ inode.blocks[n + 1] \in {"corrupt"}
    BY <1>1, <2>1
  <2>3. BlocksBefore(inode, {"corrupt"}) = n
    <3>1. \A b \in 1..n : inode.blocks[b] \notin {"corrupt"}
      BY <1>6
    <3> HIDE DEF n
    <3> QED
      BY <1>1, <2>2, <3>1, BeforeIs
  <2>4. n < missing
    <3>1. ASSUME missing <= n
          PROVE  FALSE
      <4>1. missing < Len(inode.blocks) /\ (missing + 1 \in 1..n \/ missing + 1 = k)
        BY <1>1, <1>2, <2>2, <3>1
      <4> HIDE DEF n
      <4> QED
        BY <1>2, <1>6, <2>1, <4>1
    <3> QED
      BY <1>1, <1>2, <3>1
  <2>5. size > 0
    <3>1. (k - 1) * BlockSize < inode.fileSize /\ (k - 1) * BlockSize \in Nat
      BY <1>1, <2>1, Geometry
    <3> QED
      BY <1>1, <3>1
  <2> QED
    BY <2>3, <2>4, <2>5 DEF corrupt
<1>9. CASE err
  <2>1. size # 0 /\ size > 0 /\ corrupt < missing
    BY <1>1, <1>8, <1>9
  <2>2. r = [err |-> TRUE, data |-> <<>>]
    BY <1>3, <2>1
  <2>3. r.err = TRUE
    BY <2>2
  <2> QED
    BY <1>1, <1>9, <2>3
<1>10. CASE ~err
  <2>1. missing = n /\ ~ corrupt < missing
    BY <1>1, <1>2, <1>7, <1>10
  <2>2. body = Flat(inode, n)
    BY <2>1
  <2>3. file = IF inode.fragment = "corrupt" THEN body ELSE Resized(Saved(inode, n), size)
    BY <1>10, <2>2 DEF IInv, Outcome
  <2>4. inode.fragment # "corrupt" => Len(file) = size
    BY <1>10 DEF IInv, LengthIsExact, Done
  <2> HIDE DEF body, cut
  <2>5. CASE size = 0
    <3>1. r.err = FALSE /\ r.data = <<>>
      BY <1>3, <2>5
    <3>2. n = 0
      <4>1. ASSUME n # 0
            PROVE  FALSE
        <5>1. 1 \in DOMAIN inode.blocks
          BY <1>1, <4>1
        <5>2. (1 - 1) * BlockSize < inode.fileSize
          BY <1>1, <5>1, Geometry
        <5> QED
          BY <1>1, <2>5, <5>2
      <4> QED
        BY <4>1
    <3>3. file = <<>>
      <4>1. CASE inode.fragment = "corrupt"
        BY <1>1, <2>2, <2>3, <3>2, <4>1, FlatStep
      <4>2. CASE inode.fragment # "corrupt"
        BY <1>1, <2>4, <2>5, <4>2
      <4> QED
        BY <4>1, <4>2
    <3>4. Len(<<>>) = 0 /\ Resized(<<>>, 0) = <<>>
      BY DEF Resized
    <3>5. Len(r.data) <= Len(file) /\ file = Resized(r.data, Len(file))
      BY <3>1, <3>3, <3>4
    <3> QED
      BY <1>1, <1>10, <3>1, <3>5
  <2>6. CASE size # 0 /\ inode.fragment = "corrupt"
    <3>1. r = [err |-> FALSE, data |-> body]
      BY <1>3, <2>1, <2>6
    <3>2. r.err = FALSE /\ r.data = body /\ file = body
      BY <2>3, <2>6, <3>1
    <3>3. Len(body) \in Nat /\ body = [p \in 1..Len(body) |-> body[p]]
      BY <1>4
    <3>4. Resized(body, Len(body)) = body
      BY <3>3 DEF Resized
    <3>5. Len(r.data) <= Len(file) /\ file = Resized(r.data, Len(file))
      BY <3>2, <3>3, <3>4
    <3> QED
      BY <1>1, <1>10, <3>2, <3>5
  <2>7. CASE size # 0 /\ inode.fragment \in {"none", "missing"}
    <3>1. r = [err |-> FALSE, data |-> Shortened(body, size)]
      BY <1>3, <2>1, <2>7
    <3>2. r.err = FALSE /\ r.data = Shortened(body, size)
      BY <3>1
    <3>3. Saved(inode, n) = body
      BY <1>4, <2>2, <2>7, ConcatEmptySeq DEF Saved, FromFragment
    <3>4. file = Resized(body, size) /\ Len(file) = size
      BY <2>3, <2>4, <2>7, <3>3
    <3>5. Len(Shortened(body, size)) <= size /\ Resized(Shortened(body, size), size) = Resized(body, size)
      BY <1>1, <1>4, ResizedShortened
    <3> QED
      BY <1>1, <1>10, <3>2, <3>4, <3>5
  <2>8. CASE size # 0 /\ inode.fragment \in {"whole", "short"}
    <3> DEFINE all == body \o cut
    <3>1. r = [err |-> FALSE, data |-> Shortened(all, size)]
      BY <1>3, <2>1, <2>8
    <3>2. r.err = FALSE /\ r.data = Shortened(all, size)
      BY <3>1
    <3>3. Saved(inode, n) = all
      <4>1. CASE size - Len(body) > 0
        BY <2>2, <2>8, <4>1 DEF Saved, FromFragment, cut
      <4>2. CASE ~ size - Len(body) > 0
        <5>1. size - Len(body) = 0
          BY <1>1, <1>4, <1>5, <2>8, <4>2
        <5>2. cut = Cut(FragmentBytes(inode), inode.fragOff, 0)
          BY <5>1 DEF cut
        <5>3. /\ inode.fragOff \in Nat /\ FragmentBytes(inode) \in Seq(Int)
          BY <1>1, InodeTyped, FragmentTyped, ExtractAssumption
        <5>4. cut = <<>>
          <6> DEFINE fb == FragmentBytes(inode)
                     last == Lesser(inode.fragOff + 0, Len(fb))
          <6>1. last \in Nat /\ last < inode.fragOff + 1 /\ fb \in Seq(Int)
            BY <5>3 DEF Lesser
          <6>2. cut = SubSeq(fb, inode.fragOff + 1, last)
            BY <5>2 DEF Cut
          <6> HIDE DEF last, fb
          <6> QED
            BY <5>3, <6>1, <6>2
        <5>5. FromFragment(inode, Len(body)) = <<>>
          BY <4>2 DEF FromFragment
        <5> QED
          BY <2>2, <5>4, <5>5 DEF Saved
      <4> QED
        BY <4>1, <4>2
    <3>4. file = Resized(all, size) /\ Len(file) = size
      BY <2>3, <2>4, <2>8, <3>3
    <3>5. Len(Shortened(all, size)) <= size /\ Resized(Shortened(all, size), size) = Resized(all, size)
      <4>1. all \in Seq(Int)
        BY <1>4
      <4> HIDE DEF all
      <4> QED
        BY <1>1, <4>1, ResizedShortened
    <3> HIDE DEF all
    <3> QED
      BY <1>1, <1>10, <3>2, <3>4, <3>5
  <2>9. inode.fragment \in {"none", "whole", "short", "corrupt", "missing"}
    BY <1>1, InodeTyped, ExtractAssumption
  <2> QED
    BY <2>5, <2>6, <2>7, <2>8, <2>9
<1> QED
  BY <1>9, <1>10

-----------------------------------------------------------------------------
(* The theorems.                                                           *)

(* The invariant holds in every state of every call. *)
THEOREM Invariance == Spec => []IInv
<1>1. Init => IInv
  BY Start
<1>2. IInv /\ [Next]_vars => IInv'
  BY Step
<1> QED
  BY <1>1, <1>2, PTL DEF Spec

(* The variables have their types, whatever the disk and the image do.     *)
THEOREM TypeCorrect == Spec => []TypeOK
<1>1. IInv => TypeOK
  BY DEF IInv, Typed
<1> QED
  BY <1>1, Invariance, PTL

(* A call of extractFileToPath that reports success leaves a file of the   *)
(* length in the inode, whatever is damaged and however many writes fell   *)
(* short, unless the fragment could not be decompressed or f.Truncate      *)
(* failed.                                                                 *)
THEOREM LengthAlwaysExact == Spec => []LengthIsExact
<1>1. IInv => LengthIsExact
  BY DEF IInv
<1> QED
  BY <1>1, Invariance, PTL

(* What comes before the first damaged block is saved, at every step and   *)
(* for every way the call ends.                                            *)
THEOREM PrefixAlwaysSound == Spec => []PrefixIsSound
BY PrefixLemma, Invariance, PTL

(* An intact file of any size, for blocks and fragments of any size, is    *)
(* copied byte for byte, and to its length unless f.Truncate failed.       *)
THEOREM IntactAlwaysCopied == Spec => []IntactIsCopied
BY IntactLemma, Invariance, PTL

(* Bytes of other files get into this one only if a block is missing, too  *)
(* long or too short, or when the disk is full.                            *)
THEOREM ForeignNeverWithoutGap == Spec => []ForeignOnlyAfterGap
BY ForeignLemma, Invariance, PTL

(* readFileData and extractFileToPath agree on every file, damaged or not, *)
(* unless readFileData slices the fragment backwards.                      *)
THEOREM InMemoryAlwaysAgrees == Spec => []InMemoryAgrees
BY AgreesLemma, Invariance, PTL

=============================================================================
