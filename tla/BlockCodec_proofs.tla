------------------------- MODULE BlockCodec_proofs -------------------------
(***************************************************************************)
(* Proofs about the codecs as the writer and the reader use them.  That    *)
(* lz4 reads back what it wrote is proved here; what is proved of xz and   *)
(* of LZMA in modules of their own holds of them here; lzo reads back data *)
(* that is too short to be compressed; the states of the tables that       *)
(* zstd's users share stay in range, whoever builds them, and however many *)
(* at a time; and last comes what all codecs promise.                      *)
(***************************************************************************)
EXTENDS BlockCodec, FiniteSetTheorems, SequenceTheorems, TLAPS

-----------------------------------------------------------------------------
(* What fails fails first.                                                 *)

(* A set of natural numbers that is not empty has a least element.  A set  *)
(* of numbers at which something fails is what it is used with.            *)
LEMMA HasLeast ==
  ASSUME NEW S \in SUBSET Nat, S # {}
  PROVE  \E m \in S : \A n \in S : m <= n
<1> DEFINE R == {x \in Nat \X Nat : x[1] < x[2]}
<1>1. IsWellFoundedOn(R, Nat)
  BY NatLessThanWellFounded DEF OpToRel
<1>2. \A m, n \in Nat : <<n, m>> \notin R => m <= n
  OBVIOUS
<1> HIDE DEF R
<1> QED
  BY <1>1, <1>2, WFMin

-----------------------------------------------------------------------------
(* Arithmetic.                                                             *)

LEMMA Division ==
  ASSUME NEW n \in Nat \ {0}, NEW x \in Nat
  PROVE  /\ x = (n * (x \div n)) + (x % n)
         /\ x % n \in 0..n - 1 /\ x \div n \in Nat
OBVIOUS

LEMMA QuotientIsOne ==
  ASSUME NEW n \in Nat \ {0}, NEW q \in Int, NEW r \in 0..n - 1,
         NEW p \in Int, NEW s \in 0..n - 1, (n * q) + r = (n * p) + s
  PROVE  q = p
<1>1. CASE q > p
  <2>1. n * (q - p) >= n
    BY <1>1
  <2> QED
    BY <2>1
<1>2. CASE p > q
  <2>1. n * (p - q) >= n
    BY <1>2
  <2> QED
    BY <2>1
<1> QED
  BY <1>1, <1>2

LEMMA Dividing ==
  ASSUME NEW n \in Nat \ {0}, NEW q \in Nat, NEW r \in 0..n - 1
  PROVE  ((q * n) + r) \div n = q /\ ((q * n) + r) % n = r
<1> DEFINE x == (q * n) + r
<1>1. x \in Nat
  OBVIOUS
<1>2. x = (n * (x \div n)) + (x % n) /\ x % n \in 0..n - 1 /\ x \div n \in Nat
  BY <1>1, Division
<1>3. (n * q) + r = (n * (x \div n)) + (x % n)
  BY <1>2
<1> HIDE DEF x
<1>4. q = x \div n
  <2>1. q \in Int /\ x \div n \in Int
    BY <1>2
  <2> QED
    BY <1>2, <1>3, <2>1, QuotientIsOne
<1> QED
  BY <1>2, <1>3, <1>4 DEF x

LEMMA RemainderStays ==
  ASSUME NEW n \in Nat \ {0}, NEW x \in Nat, x >= n
  PROVE  (x - n) % n = x % n
<1> DEFINE q == x \div n
           m == x % n
<1>1. x = (n * q) + m /\ m \in 0..n - 1 /\ q \in Nat
  BY Division
<1> HIDE DEF q, m
<1>2. q # 0
  <2>1. q = 0 => n * q = 0
    OBVIOUS
  <2> QED
    BY <1>1, <2>1
<1>3. q - 1 \in Nat /\ (q - 1) * n = (n * q) - n /\ n * q \in Nat
  BY <1>1, <1>2
<1>4. x - n = ((q - 1) * n) + m
  BY <1>1, <1>3
<1>5. (((q - 1) * n) + m) % n = m
  BY <1>1, <1>3, Dividing
<1> QED
  BY <1>4, <1>5 DEF m

(* The sizes that bytes and halves of bytes have.                          *)
LEMMA Sizes ==
  ASSUME Lz4!Lz4Assumption
  PROVE  /\ Nibble \in Nat \ {0} /\ Lz4!Base \in Nat /\ Lz4!Base >= 2 * Nibble /\ Lz4!Base >= 4
         /\ Lz4!Full \in Nat \ {0} /\ Lz4!Full = Nibble - 1
         /\ Lz4!Continue \in Nat \ {0} /\ Lz4!Continue = Lz4!Base - 1 /\ Lz4!Continue >= 3
         /\ MinMatch \in Nat \ {0} /\ Lz4!MaxDist \in Nat /\ Lz4!MaxDist = (Lz4!Base * Lz4!Base) - 1
<1>1. Nibble \in Nat /\ Nibble >= 2 /\ MinMatch \in Nat \ {0}
  BY DEF Lz4!Lz4Assumption
<1>2. Lz4!Base \in Nat /\ Lz4!Base >= 2 * Nibble
  BY <1>1 DEF Lz4!Base
<1>3. Lz4!Base * Lz4!Base \in Nat /\ Lz4!Base * Lz4!Base >= 4 * Lz4!Base
  BY <1>1, <1>2
<1> QED
  BY <1>1, <1>2, <1>3 DEF Lz4!Full, Lz4!Continue, Lz4!MaxDist

(* The halves of a token are what it was made of.                          *)
LEMMA TokenHalves ==
  ASSUME Lz4!Lz4Assumption, NEW lit \in Nat, NEW match \in Nat
  PROVE  /\ Lz4!Token(lit, match) \in Lz4!Byte
         /\ Lz4!Token(lit, match) \div Nibble = Lz4!Lesser(lit, Lz4!Full)
         /\ Lz4!Token(lit, match) % Nibble = Lz4!Lesser(match, Lz4!Full)
<1> DEFINE a == Lz4!Lesser(lit, Lz4!Full)
           b == Lz4!Lesser(match, Lz4!Full)
<1>1. a \in 0..Nibble - 1 /\ b \in 0..Nibble - 1
  BY Sizes DEF Lz4!Lesser
<1>2. Lz4!Token(lit, match) = (a * Nibble) + b
  BY DEF Lz4!Token
<1> HIDE DEF a, b
<1>3. Nibble \in Nat \ {0}
  BY Sizes
<1>4. ((a * Nibble) + b) \div Nibble = a /\ ((a * Nibble) + b) % Nibble = b
  BY <1>1, <1>3, Dividing
<1>5. (a * Nibble) + b \in Lz4!Byte
  <2>1. a * Nibble <= (Nibble - 1) * Nibble /\ a * Nibble >= 0 /\ a * Nibble \in Nat
    BY <1>1, <1>3
  <2>2. (Nibble - 1) * Nibble = Lz4!Base - Nibble
    BY <1>3 DEF Lz4!Base
  <2> QED
    BY <1>1, <1>3, <2>1, <2>2, Sizes DEF Lz4!Byte
<1> QED
  BY <1>2, <1>4, <1>5 DEF a, b

(* Every byte has two halves.                                              *)
LEMMA ByteHalves ==
  ASSUME Lz4!Lz4Assumption, NEW b \in Lz4!Byte
  PROVE  b \div Nibble \in 0..Lz4!Full /\ b % Nibble \in 0..Lz4!Full
<1>1. b \in Nat /\ b <= (Nibble * Nibble) - 1 /\ Nibble \in Nat \ {0}
  BY Sizes DEF Lz4!Byte, Lz4!Base
<1>2. b = (Nibble * (b \div Nibble)) + (b % Nibble) /\ b % Nibble \in 0..Nibble - 1 /\ b \div Nibble \in Nat
  BY <1>1, Division
<1>3. b \div Nibble < Nibble
  <2> DEFINE q == b \div Nibble
  <2>1. ASSUME q >= Nibble
        PROVE  FALSE
    <3>1. Nibble * q >= Nibble * Nibble
      BY <1>1, <1>2, <2>1
    <3> QED
      BY <1>1, <1>2, <3>1
  <2> QED
    BY <1>1, <1>2, <2>1
<1> QED
  BY <1>1, <1>2, <1>3 DEF Lz4!Full

(* The two bytes of an offset make it up.                                  *)
LEMMA OffsetBytes ==
  ASSUME Lz4!Lz4Assumption, NEW n \in 0..Lz4!MaxDist
  PROVE  /\ n % Lz4!Base \in Lz4!Byte /\ (n \div Lz4!Base) % Lz4!Base \in Lz4!Byte
         /\ (n % Lz4!Base) + (((n \div Lz4!Base) % Lz4!Base) * Lz4!Base) = n
<1>1. Lz4!Base \in Nat \ {0} /\ n \in Nat /\ n <= (Lz4!Base * Lz4!Base) - 1
  BY Sizes
<1> DEFINE q == n \div Lz4!Base
<1>2. n = (Lz4!Base * q) + (n % Lz4!Base) /\ n % Lz4!Base \in 0..Lz4!Base - 1 /\ q \in Nat
  BY <1>1, Division
<1>3. q < Lz4!Base
  <2>1. ASSUME q >= Lz4!Base
        PROVE  FALSE
    <3>1. Lz4!Base * q >= Lz4!Base * Lz4!Base
      BY <1>1, <1>2, <2>1
    <3> QED
      BY <1>1, <1>2, <3>1
  <2> QED
    BY <1>1, <1>2, <2>1
<1>4. q % Lz4!Base = q
  <2>1. ((0 * Lz4!Base) + q) % Lz4!Base = q
    <3>1. q \in 0..Lz4!Base - 1 /\ 0 \in Nat
      BY <1>1, <1>2, <1>3
    <3> HIDE DEF q
    <3> QED
      BY <1>1, <3>1, Dividing
  <2> QED
    BY <1>1, <1>2, <2>1
<1> QED
  BY <1>1, <1>2, <1>3, <1>4 DEF Lz4!Byte

(* What follows the half of a token: as many bytes as it takes, all but    *)
(* the last saying that the length goes on.                                *)
LEMMA OverflowIs ==
  ASSUME Lz4!Lz4Assumption, NEW n \in Nat
  PROVE  /\ Lz4!Overflow(n) \in Seq(Lz4!Byte) /\ Len(Lz4!Overflow(n)) \in Nat
         /\ n < Lz4!Full => Len(Lz4!Overflow(n)) = 0
         /\ n >= Lz4!Full =>
              \E q \in Nat, r \in 0..Lz4!Continue - 1 :
                /\ n = Lz4!Full + (Lz4!Continue * q) + r
                /\ Len(Lz4!Overflow(n)) = q + 1
                /\ \A k \in 1..q : Lz4!Overflow(n)[k] = Lz4!Continue
                /\ Lz4!Overflow(n)[q + 1] = r
<1>1. CASE n < Lz4!Full
  BY <1>1, Sizes DEF Lz4!Overflow
<1>2. CASE n >= Lz4!Full
  <2> DEFINE q == (n - Lz4!Full) \div Lz4!Continue
             r == (n - Lz4!Full) % Lz4!Continue
             u == [k \in 1..q |-> Lz4!Continue]
  <2>1. n - Lz4!Full \in Nat /\ Lz4!Continue \in Nat \ {0}
    BY <1>2, Sizes
  <2>2. n - Lz4!Full = (Lz4!Continue * q) + r /\ r \in 0..Lz4!Continue - 1 /\ q \in Nat
    BY <2>1, Division
  <2>3. Lz4!Overflow(n) = u \o <<r>>
    <3>1. ~(n < Lz4!Full)
      BY <1>2, Sizes
    <3> QED
      BY <3>1, Zenon DEF Lz4!Overflow
  <2> HIDE DEF q, r
  <2>4. u \in Seq(Lz4!Byte) /\ <<r>> \in Seq(Lz4!Byte) /\ Len(u) = q /\ Len(<<r>>) = 1 /\ <<r>>[1] = r
    <3>1. Lz4!Continue \in Lz4!Byte /\ r \in Lz4!Byte
      BY <2>2, Sizes DEF Lz4!Byte
    <3> QED
      BY <2>2, <3>1
  <2>5. /\ u \o <<r>> \in Seq(Lz4!Byte) /\ Len(u \o <<r>>) = q + 1
        /\ \A k \in 1..q : (u \o <<r>>)[k] = u[k]
        /\ (u \o <<r>>)[q + 1] = r
    <3> HIDE DEF u
    <3> QED
      BY <2>2, <2>4
  <2>6. n = Lz4!Full + (Lz4!Continue * q) + r
    BY <2>1, <2>2, Sizes
  <2>7. Lz4!Overflow(n)[q + 1] = r /\ \A k \in 1..q : Lz4!Overflow(n)[k] = Lz4!Continue
    BY <2>2, <2>3, <2>5
  <2>8. Lz4!Overflow(n) \in Seq(Lz4!Byte) /\ Len(Lz4!Overflow(n)) = q + 1 /\ Len(Lz4!Overflow(n)) \in Nat
    BY <2>2, <2>3, <2>5
  <2>9. ~(n < Lz4!Full)
    BY <1>2, Sizes
  <2> QED
    BY <2>2, <2>6, <2>7, <2>8, <2>9
<1> QED
  BY <1>1, <1>2, Sizes

-----------------------------------------------------------------------------
(* Sequences.                                                              *)

(* d has w behind its first p elements.                                    *)
Holds(d, p, w) == p + Len(w) <= Len(d) /\ \A k \in 1..Len(w) : d[p + k] = w[k]

LEMMA JoinedIs ==
  ASSUME NEW S, NEW u \in Seq(S), NEW v \in Seq(S)
  PROVE  u \o v \in Seq(S) /\ Len(u \o v) = Len(u) + Len(v)
OBVIOUS

LEMMA HoldsJoined ==
  ASSUME NEW S, NEW d \in Seq(S), NEW u \in Seq(S), NEW v \in Seq(S), NEW p \in Nat,
         Holds(d, p, u \o v)
  PROVE  Holds(d, p, u) /\ Holds(d, p + Len(u), v)
<1>1. /\ Len(u \o v) = Len(u) + Len(v) /\ Len(u) \in Nat /\ Len(v) \in Nat /\ Len(d) \in Nat
      /\ \A k \in 1..Len(u) : (u \o v)[k] = u[k]
      /\ \A k \in 1..Len(v) : (u \o v)[Len(u) + k] = v[k]
  OBVIOUS
<1>2. p + (Len(u) + Len(v)) <= Len(d) /\ \A k \in 1..Len(u) + Len(v) : d[p + k] = (u \o v)[k]
  BY <1>1 DEF Holds
<1>3. Holds(d, p, u)
  <2>1. p + Len(u) <= Len(d) /\ \A k \in 1..Len(u) : k \in 1..Len(u) + Len(v)
    BY <1>1, <1>2
  <2> QED
    BY <1>1, <1>2, <2>1 DEF Holds
<1>4. Holds(d, p + Len(u), v)
  <2>1. ASSUME NEW k \in 1..Len(v)
        PROVE  d[(p + Len(u)) + k] = v[k]
    <3>1. Len(u) + k \in 1..Len(u) + Len(v) /\ (p + Len(u)) + k = p + (Len(u) + k)
      BY <1>1
    <3> QED
      BY <1>1, <1>2, <3>1
  <2>2. (p + Len(u)) + Len(v) <= Len(d)
    BY <1>1, <1>2
  <2> QED
    BY <2>1, <2>2 DEF Holds
<1> QED
  BY <1>3, <1>4

LEMMA HoldsAppended ==
  ASSUME NEW S, NEW d \in Seq(S), NEW w \in Seq(S)
  PROVE  Holds(d \o w, Len(d), w)
<1>1. /\ Len(d \o w) = Len(d) + Len(w) /\ Len(d) \in Nat /\ Len(w) \in Nat
      /\ \A k \in 1..Len(w) : (d \o w)[Len(d) + k] = w[k]
  OBVIOUS
<1> QED
  BY <1>1 DEF Holds

LEMMA HoldsStill ==
  ASSUME NEW S, NEW d \in Seq(S), NEW e \in Seq(S), NEW w \in Seq(S), NEW p \in Nat,
         Holds(d, p, w)
  PROVE  Holds(d \o e, p, w)
<1>1. /\ Len(d \o e) = Len(d) + Len(e) /\ Len(d) \in Nat /\ Len(e) \in Nat /\ Len(w) \in Nat
      /\ \A k \in 1..Len(d) : (d \o e)[k] = d[k]
  OBVIOUS
<1>2. p + Len(w) <= Len(d) /\ \A k \in 1..Len(w) : d[p + k] = w[k]
  BY DEF Holds
<1>3. \A k \in 1..Len(w) : p + k \in 1..Len(d)
  BY <1>1, <1>2
<1>4. p + Len(w) <= Len(d \o e)
  BY <1>1, <1>2
<1>5. \A k \in 1..Len(w) : (d \o e)[p + k] = w[k]
  BY <1>1, <1>2, <1>3
<1> QED
  BY <1>4, <1>5 DEF Holds

(* A part of a sequence.                                                   *)
LEMMA SpanIs ==
  ASSUME NEW S, NEW s \in Seq(S), NEW begin \in Nat, NEW to \in Nat, begin <= to, to <= Len(s)
  PROVE  /\ SubSeq(s, begin + 1, to) \in Seq(S)
         /\ Len(SubSeq(s, begin + 1, to)) = to - begin
         /\ \A k \in 1..to - begin : SubSeq(s, begin + 1, to)[k] = s[begin + k]
<1>1. Len(s) \in Nat /\ \A k \in 1..Len(s) : s[k] \in S
  OBVIOUS
<1>2. ASSUME NEW k \in begin + 1..to
      PROVE  s[k] \in S
  <2>1. k \in 1..Len(s)
    BY <1>1
  <2> QED
    BY <1>1, <2>1
<1> QED
  BY <1>1, <1>2, SubSeqProperties

(* s begins with w if it holds it at the beginning.                        *)
LEMMA PrefixIs ==
  ASSUME NEW S, NEW s \in Seq(S), NEW w \in Seq(S)
  PROVE  IsPrefix(w, s) <=> Holds(s, 0, w)
<1>1. Len(s) \in Nat /\ Len(w) \in Nat
  OBVIOUS
<1>2. CASE Len(w) <= Len(s)
  <2>1. /\ SubSeq(s, 1, Len(w)) \in Seq(S) /\ Len(SubSeq(s, 1, Len(w))) = Len(w)
        /\ \A k \in 1..Len(w) : SubSeq(s, 1, Len(w))[k] = s[k]
    <3>1. 0 \in Nat /\ 0 + 1 = 1 /\ Len(w) - 0 = Len(w) /\ \A k \in 1..Len(w) : 0 + k = k
      BY <1>1
    <3> QED
      BY <1>1, <1>2, <3>1, SpanIs
  <2>2. SubSeq(w, 1, Len(w)) = w
    OBVIOUS
  <2>3. Holds(s, 0, w) <=> \A k \in 1..Len(w) : s[k] = w[k]
    BY <1>1, <1>2 DEF Holds
  <2>4. IsPrefix(w, s) <=> w = SubSeq(s, 1, Len(w))
    BY <1>2, <2>2 DEF IsPrefix
  <2>5. (\A k \in 1..Len(w) : s[k] = w[k]) => w = SubSeq(s, 1, Len(w))
    <3> DEFINE u == SubSeq(s, 1, Len(w))
    <3> HIDE DEF u
    <3>1. (\A k \in 1..Len(w) : u[k] = w[k]) => w = u
      BY <2>1, SeqEqual DEF u
    <3> QED
      BY <2>1, <3>1 DEF u
  <2> QED
    BY <2>1, <2>3, <2>4, <2>5
<1>3. CASE ~(Len(w) <= Len(s))
  BY <1>1, <1>3 DEF IsPrefix, Holds
<1> QED
  BY <1>2, <1>3

-----------------------------------------------------------------------------
(* lz4: what the compressor writes.                                        *)

(* The literals that a block ends with.                                    *)
Final(begin) == <<Lz4!Token(Len(src) - begin, 0)>> \o Lz4!Literals(begin, Len(src))

LEMMA LiteralsAre ==
  ASSUME Lz4!Lz4Assumption, src \in Seq(Lz4!Byte),
         NEW begin \in Nat, NEW to \in Nat, begin <= to, to <= Len(src)
  PROVE  /\ Lz4!Bytes(begin, to) \in Seq(Lz4!Byte) /\ Len(Lz4!Bytes(begin, to)) = to - begin
         /\ \A k \in 1..to - begin : Lz4!Bytes(begin, to)[k] = src[begin + k]
         /\ Lz4!Overflow(to - begin) \in Seq(Lz4!Byte) /\ Len(Lz4!Overflow(to - begin)) \in Nat
         /\ Lz4!Literals(begin, to) \in Seq(Lz4!Byte)
         /\ Len(Lz4!Literals(begin, to)) = Len(Lz4!Overflow(to - begin)) + (to - begin)
<1>1. /\ Lz4!Bytes(begin, to) \in Seq(Lz4!Byte) /\ Len(Lz4!Bytes(begin, to)) = to - begin
      /\ \A k \in 1..to - begin : Lz4!Bytes(begin, to)[k] = src[begin + k]
  BY SpanIs DEF Lz4!Bytes
<1>2. Lz4!Overflow(to - begin) \in Seq(Lz4!Byte) /\ Len(Lz4!Overflow(to - begin)) \in Nat
  <2>1. to - begin \in Nat
    OBVIOUS
  <2> QED
    BY <2>1, OverflowIs
<1>3. /\ Lz4!Literals(begin, to) \in Seq(Lz4!Byte)
      /\ Len(Lz4!Literals(begin, to)) = Len(Lz4!Overflow(to - begin)) + Len(Lz4!Bytes(begin, to))
  BY <1>1, <1>2, JoinedIs DEF Lz4!Literals
<1> QED
  BY <1>1, <1>2, <1>3

(* Where the parts of the last literals are.                               *)
LEMMA FinalIs ==
  ASSUME Lz4!Lz4Assumption, src \in Seq(Lz4!Byte), NEW begin \in Nat, begin <= Len(src),
         NEW d \in Seq(Lz4!Byte), NEW p \in Nat
  PROVE  LET lit == Len(src) - begin
             o   == Len(Lz4!Overflow(lit))
         IN /\ Final(begin) \in Seq(Lz4!Byte) /\ Len(Final(begin)) = 1 + o + lit
            /\ Holds(d, p, Final(begin)) =>
                 /\ p + 1 <= Len(d) /\ d[p + 1] = Lz4!Token(lit, 0)
                 /\ Holds(d, p + 1, Lz4!Overflow(lit))
                 /\ Holds(d, p + 1 + o, Lz4!Bytes(begin, Len(src)))
<1> DEFINE lit == Len(src) - begin
           o   == Len(Lz4!Overflow(lit))
           tok == <<Lz4!Token(lit, 0)>>
<1>1. lit \in Nat /\ Len(src) \in Nat /\ Len(src) <= Len(src)
  OBVIOUS
<1>2. /\ Lz4!Bytes(begin, Len(src)) \in Seq(Lz4!Byte) /\ Len(Lz4!Bytes(begin, Len(src))) = lit
      /\ Lz4!Overflow(lit) \in Seq(Lz4!Byte) /\ o \in Nat
      /\ Lz4!Literals(begin, Len(src)) \in Seq(Lz4!Byte) /\ Len(Lz4!Literals(begin, Len(src))) = o + lit
  BY <1>1, LiteralsAre
<1>3. tok \in Seq(Lz4!Byte) /\ Len(tok) = 1 /\ tok[1] = Lz4!Token(lit, 0)
  <2>1. Lz4!Token(lit, 0) \in Lz4!Byte
    BY <1>1, TokenHalves
  <2> QED
    BY <2>1
<1>4. Final(begin) = tok \o Lz4!Literals(begin, Len(src))
  BY DEF Final
<1>5. Lz4!Literals(begin, Len(src)) = Lz4!Overflow(lit) \o Lz4!Bytes(begin, Len(src))
  BY DEF Lz4!Literals
<1> HIDE DEF lit, o, tok
<1>6. Final(begin) \in Seq(Lz4!Byte) /\ Len(Final(begin)) = 1 + o + lit
  <2>1. /\ tok \o Lz4!Literals(begin, Len(src)) \in Seq(Lz4!Byte)
        /\ Len(tok \o Lz4!Literals(begin, Len(src))) = Len(tok) + Len(Lz4!Literals(begin, Len(src)))
    BY <1>2, <1>3, JoinedIs
  <2> QED
    BY <1>1, <1>2, <1>3, <1>4, <2>1
<1>7. ASSUME Holds(d, p, Final(begin))
      PROVE  /\ p + 1 <= Len(d) /\ d[p + 1] = Lz4!Token(lit, 0)
             /\ Holds(d, p + 1, Lz4!Overflow(lit))
             /\ Holds(d, p + 1 + o, Lz4!Bytes(begin, Len(src)))
  <2>1. Holds(d, p, tok) /\ Holds(d, p + 1, Lz4!Literals(begin, Len(src)))
    <3>1. Holds(d, p, tok \o Lz4!Literals(begin, Len(src)))
      BY <1>4, <1>7
    <3>2. Holds(d, p, tok) /\ Holds(d, p + Len(tok), Lz4!Literals(begin, Len(src)))
      BY <1>2, <1>3, <3>1, HoldsJoined
    <3> QED
      BY <1>3, <3>2
  <2>2. Holds(d, p + 1, Lz4!Overflow(lit)) /\ Holds(d, p + 1 + o, Lz4!Bytes(begin, Len(src)))
    <3>1. p + 1 \in Nat
      OBVIOUS
    <3>2. Holds(d, p + 1, Lz4!Overflow(lit) \o Lz4!Bytes(begin, Len(src)))
      BY <1>5, <2>1
    <3> QED
      BY <1>2, <3>1, <3>2, HoldsJoined DEF o
  <2>3. p + 1 <= Len(d) /\ d[p + 1] = Lz4!Token(lit, 0)
    BY <1>3, <2>1 DEF Holds
  <2> QED
    BY <2>2, <2>3
<1> QED
  BY <1>6, <1>7 DEF lit, o

(* Where the parts of a sequence are.                                      *)
LEMMA SequenceIs ==
  ASSUME Lz4!Lz4Assumption, src \in Seq(Lz4!Byte),
         NEW begin \in Nat, NEW to \in Nat, begin <= to, to <= Len(src),
         NEW off \in 1..Lz4!MaxDist, NEW match \in Nat,
         NEW d \in Seq(Lz4!Byte), NEW p \in Nat
  PROVE  LET lit == to - begin
             o   == Len(Lz4!Overflow(lit))
             e   == p + 1 + o + lit
             s   == Lz4!Sequence(begin, to, off, match)
         IN /\ s \in Seq(Lz4!Byte) /\ Len(s) = 1 + o + lit + 2 + Len(Lz4!Overflow(match))
            /\ Holds(d, p, s) =>
                 /\ p + 1 <= Len(d) /\ d[p + 1] = Lz4!Token(lit, match)
                 /\ Holds(d, p + 1, Lz4!Overflow(lit))
                 /\ Holds(d, p + 1 + o, Lz4!Bytes(begin, to))
                 /\ e + 2 <= Len(d) /\ d[e + 1] = off % Lz4!Base /\ d[e + 2] = (off \div Lz4!Base) % Lz4!Base
                 /\ Holds(d, e + 2, Lz4!Overflow(match))
<1> DEFINE lit == to - begin
           o   == Len(Lz4!Overflow(lit))
           e   == p + 1 + o + lit
           s   == Lz4!Sequence(begin, to, off, match)
           tok == <<Lz4!Token(lit, match)>>
           two == <<off % Lz4!Base, (off \div Lz4!Base) % Lz4!Base>>
           all == Lz4!Literals(begin, to)
           v   == Lz4!Overflow(match)
<1>1. lit \in Nat
  OBVIOUS
<1>2. /\ Lz4!Bytes(begin, to) \in Seq(Lz4!Byte) /\ Len(Lz4!Bytes(begin, to)) = lit
      /\ Lz4!Overflow(lit) \in Seq(Lz4!Byte) /\ o \in Nat
      /\ all \in Seq(Lz4!Byte) /\ Len(all) = o + lit
  BY <1>1, LiteralsAre
<1>3. tok \in Seq(Lz4!Byte) /\ Len(tok) = 1 /\ tok[1] = Lz4!Token(lit, match)
  <2>1. Lz4!Token(lit, match) \in Lz4!Byte
    BY <1>1, TokenHalves
  <2> QED
    BY <2>1
<1>4. two \in Seq(Lz4!Byte) /\ Len(two) = 2 /\ two[1] = off % Lz4!Base /\ two[2] = (off \div Lz4!Base) % Lz4!Base
  <2>1. off \in 0..Lz4!MaxDist
    BY Sizes
  <2>2. off % Lz4!Base \in Lz4!Byte /\ (off \div Lz4!Base) % Lz4!Base \in Lz4!Byte
    BY <2>1, OffsetBytes
  <2> QED
    BY <2>2
<1>5. v \in Seq(Lz4!Byte) /\ Len(v) \in Nat
  BY OverflowIs
<1>6. s = ((tok \o all) \o two) \o v
  BY DEF Lz4!Sequence
<1>7. all = Lz4!Overflow(lit) \o Lz4!Bytes(begin, to)
  BY DEF Lz4!Literals
<1>8. e \in Nat /\ e = p + 1 + o + lit
  BY <1>1, <1>2
<1>9. p + 1 \in Nat
  OBVIOUS
<1> HIDE DEF lit, o, e, s, tok, two, all, v
<1>10. tok \o all \in Seq(Lz4!Byte) /\ Len(tok \o all) = 1 + o + lit
  <2>1. tok \o all \in Seq(Lz4!Byte) /\ Len(tok \o all) = Len(tok) + Len(all)
    BY <1>2, <1>3, JoinedIs
  <2> QED
    BY <1>1, <1>2, <1>3, <2>1
<1>11. (tok \o all) \o two \in Seq(Lz4!Byte) /\ Len((tok \o all) \o two) = 1 + o + lit + 2
  <2>1. /\ (tok \o all) \o two \in Seq(Lz4!Byte)
        /\ Len((tok \o all) \o two) = Len(tok \o all) + Len(two)
    BY <1>4, <1>10, JoinedIs
  <2> QED
    BY <1>1, <1>2, <1>4, <1>10, <2>1
<1>12. s \in Seq(Lz4!Byte) /\ Len(s) = 1 + o + lit + 2 + Len(v)
  <2>1. /\ ((tok \o all) \o two) \o v \in Seq(Lz4!Byte)
        /\ Len(((tok \o all) \o two) \o v) = Len((tok \o all) \o two) + Len(v)
    BY <1>5, <1>11, JoinedIs
  <2> QED
    BY <1>1, <1>2, <1>5, <1>6, <1>11, <2>1
<1>13. ASSUME Holds(d, p, s)
       PROVE  /\ p + 1 <= Len(d) /\ d[p + 1] = Lz4!Token(lit, match)
              /\ Holds(d, p + 1, Lz4!Overflow(lit))
              /\ Holds(d, p + 1 + o, Lz4!Bytes(begin, to))
              /\ e + 2 <= Len(d) /\ d[e + 1] = off % Lz4!Base /\ d[e + 2] = (off \div Lz4!Base) % Lz4!Base
              /\ Holds(d, e + 2, v)
  <2>1. Holds(d, p, (tok \o all) \o two) /\ Holds(d, p + (1 + o + lit + 2), v)
    BY <1>5, <1>6, <1>11, <1>13, HoldsJoined
  <2>2. Holds(d, p, tok \o all) /\ Holds(d, p + (1 + o + lit), two)
    BY <1>4, <1>10, <2>1, HoldsJoined
  <2>3. Holds(d, p, tok) /\ Holds(d, p + 1, all)
    BY <1>2, <1>3, <2>2, HoldsJoined
  <2>4. Holds(d, p + 1, Lz4!Overflow(lit)) /\ Holds(d, p + 1 + o, Lz4!Bytes(begin, to))
    <3>1. Holds(d, p + 1, Lz4!Overflow(lit) \o Lz4!Bytes(begin, to))
      BY <1>7, <2>3
    <3> QED
      BY <1>2, <1>9, <3>1, HoldsJoined DEF o
  <2>5. p + 1 <= Len(d) /\ d[p + 1] = Lz4!Token(lit, match)
    BY <1>3, <2>3 DEF Holds
  <2>6. p + (1 + o + lit) = e /\ p + (1 + o + lit + 2) = e + 2
    BY <1>1, <1>2, <1>8
  <2>7. e + 2 <= Len(d) /\ d[e + 1] = off % Lz4!Base /\ d[e + 2] = (off \div Lz4!Base) % Lz4!Base
    BY <1>4, <2>2, <2>6 DEF Holds
  <2> QED
    BY <2>1, <2>4, <2>5, <2>6, <2>7
<1> QED
  BY <1>12, <1>13 DEF lit, o, e, s, v

-----------------------------------------------------------------------------
(* The search of lz4's compressor.                                         *)

(* What the table remembers is behind.                                     *)
Behind == \A h \in 0..HashSize - 1 : hashTable[h] < ip

LEMMA Typed ==
  ASSUME Lz4!Lz4Assumption, Lz4!TypeOK
  PROVE  /\ src \in Seq(Lz4!Byte) /\ Len(src) \in Nat /\ dst \in Seq(Lz4!Byte) /\ Len(dst) \in Nat
         /\ in \in Seq(Lz4!Byte) /\ Len(in) \in Nat /\ out \in Seq(Lz4!Byte) /\ Len(out) \in Nat
         /\ ip \in Nat /\ anchor \in Nat /\ anchor <= ip /\ ip <= Len(src)
         /\ pos \in Nat /\ pos <= Len(in)
<1>1. src \in Seq(Lz4!Byte) /\ dst \in Seq(Lz4!Byte) /\ in \in Seq(Lz4!Byte) /\ out \in Seq(Lz4!Byte)
  BY DEF Lz4!TypeOK, Lz4!Lz4Assumption
<1>2. Len(src) \in Nat /\ Len(dst) \in Nat /\ Len(in) \in Nat /\ Len(out) \in Nat
  BY <1>1
<1>3. ip \in 0..Len(src) /\ anchor \in 0..ip /\ pos \in 0..Len(in)
  BY DEF Lz4!TypeOK
<1> QED
  BY <1>1, <1>2, <1>3

LEMMA WordIs ==
  ASSUME Lz4!Lz4Assumption, Lz4!TypeOK, NEW p \in Nat, p + MinMatch <= Len(src)
  PROVE  Lz4!Word(p) \in Seq(Lz4!Byte) /\ \A k \in 1..MinMatch : Lz4!Word(p)[k] = src[p + k] /\ Lz4!Word(p)[k] \in Lz4!Byte
<1>1. src \in Seq(Lz4!Byte) /\ Len(src) \in Nat /\ MinMatch \in Nat
  BY Typed, Sizes
<1>2. p + MinMatch \in Nat /\ p <= p + MinMatch /\ (p + MinMatch) - p = MinMatch
  BY <1>1
<1>3. /\ Lz4!Word(p) \in Seq(Lz4!Byte) /\ Len(Lz4!Word(p)) = MinMatch
      /\ \A k \in 1..MinMatch : Lz4!Word(p)[k] = src[p + k]
  <2>1. /\ SubSeq(src, p + 1, p + MinMatch) \in Seq(Lz4!Byte)
        /\ Len(SubSeq(src, p + 1, p + MinMatch)) = (p + MinMatch) - p
        /\ \A k \in 1..(p + MinMatch) - p : SubSeq(src, p + 1, p + MinMatch)[k] = src[p + k]
    BY <1>1, <1>2, SpanIs
  <2> QED
    BY <1>2, <2>1 DEF Lz4!Word, Lz4!Bytes
<1>4. \A k \in 1..MinMatch : Lz4!Word(p)[k] \in Lz4!Byte
  BY <1>3
<1> QED
  BY <1>3, <1>4

LEMMA HashIs ==
  ASSUME Lz4!Lz4Assumption, Lz4!TypeOK, Lz4!Searching
  PROVE  Lz4!Hash(Lz4!Word(ip)) \in 0..HashSize - 1
<1>1. Lz4!Word(ip)[1] \in Lz4!Byte /\ Lz4!Word(ip)[MinMatch] \in Lz4!Byte
  <2>1. ip \in Nat /\ ip + MinMatch <= Len(src) /\ 1 \in 1..MinMatch /\ MinMatch \in 1..MinMatch
    <3>1. ip \in Nat /\ Len(src) \in Nat /\ MinMatch \in Nat \ {0}
      BY Typed, Sizes
    <3> QED
      BY <3>1 DEF Lz4!Searching
  <2> QED
    BY <2>1, WordIs
<1>2. HashSize \in Nat \ {0} /\ Lz4!Word(ip)[1] + Lz4!Word(ip)[MinMatch] \in Nat
  BY <1>1 DEF Lz4!Lz4Assumption, Lz4!Byte
<1>3. (Lz4!Word(ip)[1] + Lz4!Word(ip)[MinMatch]) % HashSize \in 0..HashSize - 1
  BY <1>2, Division
<1> QED
  BY <1>3 DEF Lz4!Hash

(* A match is one: as many bytes as it says, the same as before.           *)
LEMMA MatchIs ==
  ASSUME Lz4!Lz4Assumption, Lz4!TypeOK, Behind, Lz4!Searching, Lz4!Matches
  PROVE  /\ Lz4!Candidate \in Nat /\ ip - Lz4!Candidate \in 1..Lz4!MaxDist
         /\ Lz4!MatchLen \in Nat /\ Lz4!MatchLen >= MinMatch /\ ip + Lz4!MatchLen <= Len(src)
         /\ \A i \in 1..Lz4!MatchLen : src[ip + i] = src[Lz4!Candidate + i]
<1> DEFINE Goes(m) == /\ ip + m < Len(src) /\ Lz4!Candidate + m < ip
                      /\ src[ip + m + 1] = src[Lz4!Candidate + m + 1]
           First(n) == ~Goes(n) /\ \A m \in MinMatch..n - 1 : Goes(m)
<1>1. ip \in Nat /\ Len(src) \in Nat /\ MinMatch \in Nat \ {0} /\ Lz4!MaxDist \in Nat /\ ip + MinMatch < Len(src)
  BY Typed, Sizes DEF Lz4!Searching
<1>2. Lz4!Candidate \in Nat /\ Lz4!Candidate < ip /\ ip - Lz4!Candidate \in 1..Lz4!MaxDist
  <2>1. Lz4!Candidate < ip /\ Lz4!Candidate \in -1..Len(src)
    BY HashIs DEF Lz4!Candidate, Behind, Lz4!TypeOK
  <2>2. Lz4!Candidate >= 0 /\ ip - Lz4!Candidate <= Lz4!MaxDist
    BY DEF Lz4!Matches
  <2> QED
    BY <1>1, <2>1, <2>2
<1>3. \A i \in 1..MinMatch : src[ip + i] = src[Lz4!Candidate + i]
  <2>1. Lz4!Word(ip) = Lz4!Word(Lz4!Candidate)
    BY DEF Lz4!Matches
  <2>2. ip + MinMatch <= Len(src) /\ Lz4!Candidate + MinMatch <= Len(src)
    BY <1>1, <1>2
  <2>3. \A k \in 1..MinMatch : Lz4!Word(ip)[k] = src[ip + k]
    BY <1>1, <2>2, WordIs
  <2>4. \A k \in 1..MinMatch : Lz4!Word(Lz4!Candidate)[k] = src[Lz4!Candidate + k]
    BY <1>2, <2>2, WordIs
  <2> QED
    BY <2>1, <2>3, <2>4
<1>4. \E n \in MinMatch..Len(src) : First(n)
  <2> DEFINE Stops == {n \in Nat : n >= MinMatch /\ ~Goes(n)}
  <2>1. Len(src) - ip \in Stops /\ Stops \subseteq Nat
    BY <1>1
  <2>2. PICK n \in Stops : \A m \in Stops : n <= m
    <3> HIDE DEF Stops
    <3> QED
      BY <2>1, HasLeast
  <2>3. n \in MinMatch..Len(src)
    BY <1>1, <2>1, <2>2
  <2>4. ~Goes(n)
    OBVIOUS
  <2>5. ASSUME NEW m \in MinMatch..n - 1
        PROVE  Goes(m)
    <3>1. m \in Nat /\ m >= MinMatch /\ ~(n <= m)
      BY <1>1, <2>3
    <3>2. m \notin Stops
      <4> HIDE DEF Stops
      <4> QED
        BY <2>2, <3>1
    <3> HIDE DEF Goes
    <3> QED
      BY <3>1, <3>2
  <2> HIDE DEF Goes
  <2> QED
    BY <2>3, <2>4, <2>5
<1>5. Lz4!MatchLen \in MinMatch..Len(src) /\ First(Lz4!MatchLen)
  <2>1. Lz4!MatchLen = CHOOSE n \in MinMatch..Len(src) : First(n)
    BY DEF Lz4!MatchLen
  <2> HIDE DEF First
  <2> QED
    BY <1>4, <2>1
<1>6. Lz4!MatchLen \in Nat /\ Lz4!MatchLen >= MinMatch /\ \A m \in MinMatch..Lz4!MatchLen - 1 : Goes(m)
  <2> HIDE DEF Goes
  <2> QED
    BY <1>1, <1>5
<1>7. ip + Lz4!MatchLen <= Len(src)
  <2>1. CASE Lz4!MatchLen = MinMatch
    BY <1>1, <2>1
  <2>2. CASE Lz4!MatchLen # MinMatch
    <3>1. Lz4!MatchLen - 1 \in MinMatch..Lz4!MatchLen - 1
      BY <1>1, <1>6, <2>2
    <3>2. ip + (Lz4!MatchLen - 1) < Len(src)
      BY <1>6, <3>1
    <3> QED
      BY <1>1, <1>6, <3>2
  <2> QED
    BY <2>1, <2>2
<1>8. ASSUME NEW i \in 1..Lz4!MatchLen
      PROVE  src[ip + i] = src[Lz4!Candidate + i]
  <2>1. CASE i \in 1..MinMatch
    BY <1>3, <2>1
  <2>2. CASE i \notin 1..MinMatch
    <3>1. i - 1 \in MinMatch..Lz4!MatchLen - 1
      BY <1>1, <1>6, <2>2
    <3>2. src[ip + (i - 1) + 1] = src[Lz4!Candidate + (i - 1) + 1]
      BY <1>6, <3>1
    <3>3. ip + (i - 1) + 1 = ip + i /\ Lz4!Candidate + (i - 1) + 1 = Lz4!Candidate + i
      BY <1>1, <1>2, <1>6
    <3> QED
      BY <3>2, <3>3
  <2> QED
    BY <2>1, <2>2
<1> QED
  BY <1>2, <1>6, <1>7, <1>8

-----------------------------------------------------------------------------
(* What holds of lz4.  A mark is a position in the block and one in the    *)
(* data: what is before the one stands for what is before the other.       *)

(* From to on, s has n elements again that it has off elements before.     *)
Repeats(s, to, off, n) == \A i \in 1..n : s[to + i] = s[(to - off) + i]

(* A sequence leads from one mark to another, and its match repeats what   *)
(* is as far back as it says.                                              *)
Leads(m, k) ==
  \E to \in m[2]..Len(src), off \in 1..Lz4!MaxDist, n \in Nat :
    /\ off <= to
    /\ k[2] = to + n + MinMatch /\ k[2] <= Len(src)
    /\ Repeats(src, to, off, n + MinMatch)
    /\ Holds(dst, m[1], Lz4!Sequence(m[2], to, off, n))
    /\ k[1] = m[1] + Len(Lz4!Sequence(m[2], to, off, n))

(* From the last mark on, the data is not written yet; or it is written as *)
(* literals; or there is no more of it.                                    *)
Ends(m) ==
  IF pc = "compress"
    THEN m = <<Len(dst), anchor>>
    ELSE \/ m = <<Len(dst), Len(src)>>
         \/ /\ m[2] < Len(src)
            /\ Holds(dst, m[1], Final(m[2])) /\ Len(dst) = m[1] + Len(Final(m[2]))

Marked(M) ==
  /\ M \subseteq (0..Len(dst)) \X (0..Len(src))
  /\ <<0, 0>> \in M
  /\ pc = "compress" => <<Len(dst), anchor>> \in M
  /\ \A m \in M : Ends(m) \/ \E k \in M : Leads(m, k)

(* The decompressor has not begun.                                         *)
Waiting == pc \in {"compress", "compressed"} => in = <<>> /\ pos = 0 /\ out = <<>> /\ ~err

(* Of a block that nothing happened to but a cut, the decompressor has     *)
(* read up to a mark, or up to the cut.                                    *)
Follows(M) ==
  IsPrefix(in, dst) /\ pc \in {"decompress", "done"} =>
    /\ ~err
    /\ \/ /\ pc = "decompress"
          /\ \E m \in M : m[1] = pos /\ out = Lz4!Bytes(0, m[2])
       \/ /\ pc = "decompress" /\ pos = Len(in)
          /\ in # dst /\ IsPrefix(out, src)
       \/ /\ pc = "done"
          /\ IsPrefix(out, src) /\ (in = dst => out = src)

Lz4Sound == Lz4!TypeOK /\ Behind /\ Waiting /\ \E M : Marked(M) /\ Follows(M)

-----------------------------------------------------------------------------
(* The steps of lz4's compressor.                                          *)

LEMMA LeadsStill ==
  ASSUME Lz4!Lz4Assumption, Lz4!TypeOK, NEW w \in Seq(Lz4!Byte), dst' = dst \o w, src' = src,
         NEW m \in Nat \X Nat, NEW k, Leads(m, k)
  PROVE  Leads(m, k)'
<1>1. PICK to \in m[2]..Len(src), off \in 1..Lz4!MaxDist, n \in Nat :
        /\ off <= to
        /\ k[2] = to + n + MinMatch /\ k[2] <= Len(src)
        /\ Repeats(src, to, off, n + MinMatch)
        /\ Holds(dst, m[1], Lz4!Sequence(m[2], to, off, n))
        /\ k[1] = m[1] + Len(Lz4!Sequence(m[2], to, off, n))
  BY DEF Leads
<1>2. /\ src \in Seq(Lz4!Byte) /\ dst \in Seq(Lz4!Byte) /\ Len(src) \in Nat
      /\ m[1] \in Nat /\ m[2] \in Nat /\ to \in Nat /\ m[2] <= to /\ to <= Len(src)
  BY Typed
<1>3. Lz4!Sequence(m[2], to, off, n) \in Seq(Lz4!Byte)
  BY <1>2, SequenceIs
<1>4. Holds(dst \o w, m[1], Lz4!Sequence(m[2], to, off, n))
  BY <1>1, <1>2, <1>3, HoldsStill
<1>5. Lz4!Sequence(m[2], to, off, n)' = Lz4!Sequence(m[2], to, off, n)
  BY DEF Lz4!Sequence, Lz4!Literals, Lz4!Bytes
<1>6. Holds(dst', m[1], Lz4!Sequence(m[2], to, off, n)')
  BY <1>4, <1>5
<1>7. /\ off <= to /\ k[2] = to + n + MinMatch /\ k[2] <= Len(src')
      /\ to \in m[2]..Len(src')
      /\ k[1] = m[1] + Len(Lz4!Sequence(m[2], to, off, n)')
  BY <1>1, <1>5
<1>8. Repeats(src', to, off, n + MinMatch)
  BY <1>1
<1> QED
  BY <1>6, <1>7, <1>8 DEF Leads, Holds, Repeats

LEMMA NoMatchSteps ==
  ASSUME Lz4!Lz4Assumption, Lz4!TypeOK, Behind, Lz4!NoMatch, NEW M, Marked(M)
  PROVE  Lz4!TypeOK' /\ Behind' /\ Marked(M)'
<1>1. /\ Lz4!Searching /\ ip' = ip + 1 /\ pc = "compress"
      /\ UNCHANGED <<src, pc, anchor, dst, in, pos, out, err>>
      /\ hashTable' = [hashTable EXCEPT ![Lz4!Hash(Lz4!Word(ip))] = ip]
  BY DEF Lz4!NoMatch, Lz4!Remember, Lz4!decompressor, Lz4!Searching
<1>2. /\ ip \in Nat /\ anchor \in Nat /\ anchor <= ip /\ Len(src) \in Nat /\ ip + 1 <= Len(src)
      /\ HashSize \in Nat \ {0}
  <2>1. ip \in Nat /\ anchor \in Nat /\ anchor <= ip /\ Len(src) \in Nat /\ MinMatch \in Nat \ {0}
    BY Typed, Sizes
  <2> QED
    BY <1>1, <2>1 DEF Lz4!Searching, Lz4!Lz4Assumption
<1>3. hashTable' \in [0..HashSize - 1 -> -1..Len(src)] /\ Behind'
  <2>1. hashTable \in [0..HashSize - 1 -> -1..Len(src)]
    BY DEF Lz4!TypeOK
  <2>2. ip \in -1..Len(src)
    BY <1>2
  <2>3. ASSUME NEW h \in 0..HashSize - 1
        PROVE  hashTable'[h] < ip'
    <3>1. hashTable'[h] = ip \/ hashTable'[h] = hashTable[h]
      BY <1>1, <2>1
    <3>2. hashTable[h] < ip /\ hashTable[h] \in -1..Len(src)
      BY <2>1 DEF Behind
    <3> QED
      BY <1>1, <1>2, <3>1, <3>2
  <2> QED
    BY <1>1, <2>1, <2>2, <2>3 DEF Behind
<1>4. Lz4!TypeOK'
  BY <1>1, <1>2, <1>3 DEF Lz4!TypeOK
<1>5. Marked(M)'
  <2>1. <<>> \in Seq(Lz4!Byte) /\ dst' = dst \o <<>>
    <3>1. dst \in Seq(Lz4!Byte)
      BY Typed
    <3> QED
      BY <1>1, <3>1
  <2>2. M \subseteq (0..Len(dst)) \X (0..Len(src))
    BY DEF Marked
  <2>3. ASSUME NEW m \in M, NEW k \in M, Leads(m, k)
        PROVE  Leads(m, k)'
    <3>1. m \in Nat \X Nat
      BY <2>2
    <3> QED
      BY <1>1, <2>1, <2>3, <3>1, LeadsStill
  <2>4. \A m : Ends(m) => Ends(m)'
    BY <1>1 DEF Ends
  <2> QED
    BY <1>1, <2>3, <2>4 DEF Marked
<1> QED
  BY <1>3, <1>4, <1>5

LEMMA MatchSteps ==
  ASSUME Lz4!Lz4Assumption, Lz4!TypeOK, Behind, Lz4!Match, NEW M, Marked(M)
  PROVE  Lz4!TypeOK' /\ Behind' /\ \E N : Marked(N)'
<1> DEFINE w == Lz4!Sequence(anchor, ip, ip - Lz4!Candidate, Lz4!MatchLen - MinMatch)
<1>1. /\ Lz4!Searching /\ Lz4!Matches /\ pc = "compress"
      /\ ip' = ip + Lz4!MatchLen /\ anchor' = ip' /\ dst' = dst \o w
      /\ UNCHANGED <<src, pc, in, pos, out, err>>
      /\ hashTable' = [hashTable EXCEPT ![Lz4!Hash(Lz4!Word(ip))] = ip]
  BY DEF Lz4!Match, Lz4!Remember, Lz4!Anchor, Lz4!decompressor, Lz4!Searching
<1>2. /\ Lz4!Candidate \in Nat /\ ip - Lz4!Candidate \in 1..Lz4!MaxDist
      /\ Lz4!MatchLen \in Nat /\ Lz4!MatchLen >= MinMatch /\ ip + Lz4!MatchLen <= Len(src)
      /\ \A i \in 1..Lz4!MatchLen : src[ip + i] = src[Lz4!Candidate + i]
  BY <1>1, MatchIs
<1>3. /\ ip \in Nat /\ anchor \in Nat /\ anchor <= ip /\ ip <= Len(src) /\ Len(src) \in Nat
      /\ src \in Seq(Lz4!Byte) /\ dst \in Seq(Lz4!Byte) /\ Len(dst) \in Nat
      /\ HashSize \in Nat \ {0} /\ MinMatch \in Nat \ {0}
  BY Typed, Sizes DEF Lz4!Lz4Assumption
<1>4. Lz4!MatchLen - MinMatch \in Nat
  BY <1>2, <1>3
<1>5. w \in Seq(Lz4!Byte) /\ Len(w) \in Nat
  <2>1. w \in Seq(Lz4!Byte)
    BY <1>2, <1>3, <1>4, SequenceIs
  <2> HIDE DEF w
  <2> QED
    BY <2>1
<1> HIDE DEF w
<1>6. hashTable' \in [0..HashSize - 1 -> -1..Len(src)] /\ Behind'
  <2>1. hashTable \in [0..HashSize - 1 -> -1..Len(src)]
    BY DEF Lz4!TypeOK
  <2>2. ip \in -1..Len(src)
    BY <1>3
  <2>3. ASSUME NEW h \in 0..HashSize - 1
        PROVE  hashTable'[h] < ip'
    <3>1. hashTable'[h] = ip \/ hashTable'[h] = hashTable[h]
      BY <1>1, <2>1
    <3>2. hashTable[h] < ip /\ hashTable[h] \in -1..Len(src)
      BY <2>1 DEF Behind
    <3> QED
      BY <1>1, <1>2, <1>3, <3>1, <3>2
  <2> QED
    BY <1>1, <2>1, <2>2, <2>3 DEF Behind
<1>7. dst' \in Seq(Lz4!Byte) /\ Len(dst') = Len(dst) + Len(w) /\ Len(dst') \in Nat
  BY <1>1, <1>3, <1>5, JoinedIs
<1>8. ip' \in 0..Len(src) /\ anchor' \in 0..ip' /\ anchor' \in Nat
  BY <1>1, <1>2, <1>3
<1>9. Lz4!TypeOK'
  BY <1>1, <1>6, <1>7, <1>8 DEF Lz4!TypeOK
<1>10. PICK k \in Nat \X Nat : k = <<Len(dst'), anchor'>>
  BY <1>7, <1>8
<1>11. k[1] = Len(dst') /\ k[2] = ip + Lz4!MatchLen /\ k[1] \in Nat /\ k[2] \in 0..Len(src)
  BY <1>1, <1>7, <1>8, <1>10
<1>12. ASSUME NEW m \in M, m = <<Len(dst), anchor>>
       PROVE  Leads(m, k)'
  <2>1. PICK to, off, n : to = ip /\ off = ip - Lz4!Candidate /\ n = Lz4!MatchLen - MinMatch
    OBVIOUS
  <2>2. m[1] = Len(dst) /\ m[2] = anchor
    BY <1>12
  <2>3. to \in m[2]..Len(src) /\ off \in 1..Lz4!MaxDist /\ n \in Nat /\ off <= to
    BY <1>2, <1>3, <1>4, <2>1, <2>2
  <2>4. n + MinMatch = Lz4!MatchLen /\ to + n + MinMatch = ip + Lz4!MatchLen /\ to - off = Lz4!Candidate
    BY <1>2, <1>3, <2>1
  <2>5. Repeats(src, to, off, n + MinMatch)
    BY <1>2, <2>1, <2>4 DEF Repeats
  <2>6. w = Lz4!Sequence(m[2], to, off, n)
    BY <2>1, <2>2 DEF w
  <2>7. Lz4!Sequence(m[2], to, off, n)' = Lz4!Sequence(m[2], to, off, n)
    BY <1>1 DEF Lz4!Sequence, Lz4!Literals, Lz4!Bytes
  <2>8. Holds(dst', m[1], w)
    BY <1>1, <1>3, <1>5, <2>2, HoldsAppended
  <2>9. Holds(dst', m[1], Lz4!Sequence(m[2], to, off, n)')
    BY <2>6, <2>7, <2>8
  <2>10. k[1] = m[1] + Len(Lz4!Sequence(m[2], to, off, n)')
    BY <1>7, <1>11, <2>2, <2>6, <2>7
  <2>11. k[2] = to + n + MinMatch /\ k[2] <= Len(src)
    BY <1>11, <1>3, <2>4
  <2> QED
    BY <1>1, <2>3, <2>5, <2>9, <2>10, <2>11 DEF Leads, Holds, Repeats
<1>13. M \subseteq (0..Len(dst)) \X (0..Len(src)) /\ <<0, 0>> \in M
  BY DEF Marked
<1>14. ASSUME NEW m \in M
       PROVE  \E j \in M \cup {k} : Leads(m, j)'
  <2>1. CASE m = <<Len(dst), anchor>>
    BY <1>12, <2>1
  <2>2. CASE m # <<Len(dst), anchor>>
    <3>1. PICK j \in M : Leads(m, j)
      BY <1>1, <2>2 DEF Marked, Ends
    <3>2. m \in Nat \X Nat
      BY <1>13
    <3>3. Leads(m, j)'
      BY <1>1, <1>5, <3>1, <3>2, LeadsStill
    <3> QED
      BY <3>3
  <2> QED
    BY <2>1, <2>2
<1>15. PICK N : N = M \cup {k}
  OBVIOUS
<1>16. Marked(N)'
  <2>1. N \subseteq (0..Len(dst')) \X (0..Len(src'))
    <3>1. k \in (0..Len(dst')) \X (0..Len(src'))
      BY <1>1, <1>7, <1>10, <1>11
    <3>2. 0..Len(dst) \subseteq 0..Len(dst')
      BY <1>3, <1>5, <1>7
    <3> QED
      BY <1>1, <1>13, <1>15, <3>1, <3>2
  <2>2. <<0, 0>> \in N /\ <<Len(dst'), anchor'>> \in N
    BY <1>10, <1>13, <1>15
  <2>3. \A m \in N : Ends(m)' \/ \E j \in N : Leads(m, j)'
    <3>1. Ends(k)'
      BY <1>1, <1>10 DEF Ends
    <3> QED
      BY <1>14, <1>15, <3>1
  <2> QED
    BY <2>1, <2>2, <2>3 DEF Marked
<1> QED
  BY <1>6, <1>9, <1>16

LEMMA LastLiteralsSteps ==
  ASSUME Lz4!Lz4Assumption, Lz4!TypeOK, Behind, Lz4!LastLiterals, NEW M, Marked(M)
  PROVE  Lz4!TypeOK' /\ Behind' /\ Marked(M)'
<1> DEFINE lits == Lz4!Literals(anchor, Len(src))
           tok  == <<Lz4!Token(Len(src) - anchor, 0)>>
           w    == IF anchor < Len(src) THEN tok \o lits ELSE <<>>
<1>1. /\ pc = "compress" /\ pc' = "compressed"
      /\ dst' = IF anchor < Len(src) THEN (dst \o tok) \o lits ELSE dst
      /\ UNCHANGED <<src, hashTable, ip, anchor, in, pos, out, err>>
  BY DEF Lz4!LastLiterals, Lz4!decompressor
<1>2. /\ anchor \in Nat /\ anchor <= Len(src) /\ Len(src) \in Nat
      /\ src \in Seq(Lz4!Byte) /\ dst \in Seq(Lz4!Byte) /\ Len(dst) \in Nat
  <2>1. /\ anchor \in Nat /\ anchor <= ip /\ ip \in Nat /\ ip <= Len(src) /\ Len(src) \in Nat
        /\ src \in Seq(Lz4!Byte) /\ dst \in Seq(Lz4!Byte) /\ Len(dst) \in Nat
    BY Typed
  <2> QED
    BY <2>1
<1>3. tok \in Seq(Lz4!Byte) /\ lits \in Seq(Lz4!Byte)
  <2>1. Len(src) - anchor \in Nat /\ Len(src) <= Len(src)
    BY <1>2
  <2>2. Lz4!Token(Len(src) - anchor, 0) \in Lz4!Byte
    BY <2>1, TokenHalves
  <2> QED
    BY <1>2, <2>1, <2>2, LiteralsAre
<1> HIDE DEF lits, tok
<1>4. w \in Seq(Lz4!Byte)
  <2>1. tok \o lits \in Seq(Lz4!Byte) /\ <<>> \in Seq(Lz4!Byte)
    BY <1>3, JoinedIs
  <2> QED
    BY <2>1
<1>5. dst' = dst \o w
  <2>1. dst \o <<>> = dst
    BY <1>2
  <2>2. (dst \o tok) \o lits = dst \o (tok \o lits)
    BY <1>2, <1>3, ConcatAssociative
  <2> QED
    BY <1>1, <2>1, <2>2
<1>6. dst' \in Seq(Lz4!Byte) /\ Len(dst') = Len(dst) + Len(w) /\ Len(w) \in Nat
  <2> HIDE DEF w
  <2>1. dst \o w \in Seq(Lz4!Byte) /\ Len(dst \o w) = Len(dst) + Len(w)
    BY <1>2, <1>4, JoinedIs
  <2> QED
    BY <1>4, <1>5, <2>1
<1>7. Lz4!TypeOK' /\ Behind'
  BY <1>1, <1>6 DEF Lz4!TypeOK, Behind
<1>8. M \subseteq (0..Len(dst)) \X (0..Len(src)) /\ <<0, 0>> \in M
  BY DEF Marked
<1>9. ASSUME NEW m \in M, m = <<Len(dst), anchor>>
      PROVE  Ends(m)'
  <2>1. m[1] = Len(dst) /\ m[2] = anchor
    BY <1>9
  <2>2. CASE anchor < Len(src)
    <3>1. w = Final(m[2])
      BY <2>1, <2>2 DEF Final, tok, lits
    <3>2. Final(m[2])' = Final(m[2])
      BY <1>1 DEF Final, Lz4!Literals, Lz4!Bytes
    <3>3. Holds(dst', m[1], w) /\ Len(dst') = m[1] + Len(w)
      <4> HIDE DEF w
      <4> QED
        BY <1>2, <1>4, <1>5, <1>6, <2>1, HoldsAppended
    <3>4. Holds(dst', m[1], Final(m[2])') /\ Len(dst') = m[1] + Len(Final(m[2])')
      BY <3>1, <3>2, <3>3
    <3>5. m[2] < Len(src') /\ pc' # "compress"
      BY <1>1, <2>1, <2>2
    <3> QED
      BY <3>4, <3>5 DEF Ends, Holds
  <2>3. CASE ~(anchor < Len(src))
    <3>1. anchor = Len(src) /\ dst' = dst
      BY <1>1, <1>2, <2>3
    <3> QED
      BY <1>1, <1>9, <3>1 DEF Ends
  <2> QED
    BY <2>2, <2>3
<1>10. ASSUME NEW m \in M
       PROVE  Ends(m)' \/ \E k \in M : Leads(m, k)'
  <2>1. CASE m = <<Len(dst), anchor>>
    BY <1>9, <2>1
  <2>2. CASE m # <<Len(dst), anchor>>
    <3>1. PICK k \in M : Leads(m, k)
      BY <1>1, <2>2 DEF Marked, Ends
    <3>2. m \in Nat \X Nat
      BY <1>8
    <3>3. Leads(m, k)'
      <4> HIDE DEF w
      <4> QED
        BY <1>1, <1>4, <1>5, <3>1, <3>2, LeadsStill
    <3> QED
      BY <3>3
  <2> QED
    BY <2>1, <2>2
<1>11. M \subseteq (0..Len(dst')) \X (0..Len(src'))
  <2>1. 0..Len(dst) \subseteq 0..Len(dst')
    BY <1>2, <1>6
  <2> QED
    BY <1>1, <1>8, <2>1
<1>12. Marked(M)'
  BY <1>1, <1>8, <1>10, <1>11 DEF Marked
<1> QED
  BY <1>7, <1>12

(* The decompressor leaves the block and its marks as they are.            *)
LEMMA MarkedStill ==
  ASSUME Lz4!Lz4Assumption, Lz4!TypeOK, pc # "compress", pc' # "compress", src' = src, dst' = dst,
         NEW M, Marked(M)
  PROVE  Marked(M)'
<1>1. <<>> \in Seq(Lz4!Byte) /\ dst' = dst \o <<>>
  <2>1. dst \in Seq(Lz4!Byte)
    BY Typed
  <2> QED
    BY <2>1
<1>2. M \subseteq (0..Len(dst)) \X (0..Len(src)) /\ <<0, 0>> \in M
  BY DEF Marked
<1>3. ASSUME NEW m \in M, NEW k \in M, Leads(m, k)
      PROVE  Leads(m, k)'
  <2>1. m \in Nat \X Nat
    BY <1>2
  <2> QED
    BY <1>1, <1>3, <2>1, LeadsStill
<1>4. ASSUME NEW m \in M, Ends(m)
      PROVE  Ends(m)'
  <2>1. Final(m[2])' = Final(m[2])
    BY DEF Final, Lz4!Literals, Lz4!Bytes
  <2>2. CASE m = <<Len(dst), Len(src)>>
    BY <2>2 DEF Ends
  <2>3. CASE /\ m[2] < Len(src)
             /\ Holds(dst, m[1], Final(m[2])) /\ Len(dst) = m[1] + Len(Final(m[2]))
    BY <2>1, <2>3 DEF Ends, Holds
  <2> QED
    BY <1>4, <2>2, <2>3 DEF Ends
<1> QED
  BY <1>2, <1>3, <1>4 DEF Marked

(* What is delivered, of all that was written or of a part of it, begins   *)
(* at the first mark.                                                      *)
LEMMA DeliverSteps ==
  ASSUME Lz4!Lz4Assumption, Lz4!TypeOK, Behind, Waiting, Lz4!Deliver, NEW M, Marked(M)
  PROVE  Lz4!TypeOK' /\ Behind' /\ Marked(M)' /\ Follows(M)'
<1>1. /\ pc = "compressed" /\ pc' = "decompress"
      /\ \/ \E n \in 0..Len(dst) : in' = SubSeq(dst, 1, n)
         \/ \E n \in DOMAIN dst, b \in Damage : in' = [dst EXCEPT ![n] = b]
      /\ UNCHANGED <<src, hashTable, ip, anchor, dst, pos, out, err>>
  BY DEF Lz4!Deliver, Lz4!compressor
<1>2. src \in Seq(Lz4!Byte) /\ dst \in Seq(Lz4!Byte) /\ Len(dst) \in Nat /\ Damage \subseteq Lz4!Byte
  BY Typed DEF Lz4!Lz4Assumption
<1>3. pos = 0 /\ out = <<>> /\ ~err
  BY <1>1 DEF Waiting
<1>4. in' \in Seq(Lz4!Byte)
  <2>1. ASSUME NEW n \in 0..Len(dst), in' = SubSeq(dst, 1, n)
        PROVE  in' \in Seq(Lz4!Byte)
    <3>1. n \in Nat /\ 0 \in Nat /\ 0 <= n /\ n <= Len(dst) /\ 0 + 1 = 1
      BY <1>2
    <3> QED
      BY <1>2, <2>1, <3>1, SpanIs
  <2>2. ASSUME NEW n \in DOMAIN dst, NEW b \in Damage, in' = [dst EXCEPT ![n] = b]
        PROVE  in' \in Seq(Lz4!Byte)
    BY <1>2, <2>2
  <2> QED
    BY <1>1, <2>1, <2>2
<1>5. Len(in') \in Nat
  BY <1>4
<1>6. Lz4!TypeOK' /\ Behind'
  BY <1>1, <1>3, <1>4, <1>5 DEF Lz4!TypeOK, Behind
<1>7. Marked(M)'
  BY <1>1, MarkedStill
<1>8. Follows(M)'
  <2>1. PICK m \in M : m = <<0, 0>>
    BY DEF Marked
  <2>2. m[1] = pos' /\ out' = Lz4!Bytes(0, m[2])'
    <3>1. SubSeq(src, 1, 0) = <<>>
      BY <1>2
    <3>2. m[1] = 0 /\ m[2] = 0
      BY <2>1
    <3> QED
      BY <1>1, <1>3, <3>1, <3>2 DEF Lz4!Bytes
  <2> QED
    BY <1>1, <1>3, <2>2 DEF Follows
<1> QED
  BY <1>6, <1>7, <1>8

-----------------------------------------------------------------------------
(* What lz4's decompressor reads.                                          *)

LEMMA RunIs ==
  ASSUME Lz4!Lz4Assumption, in \in Seq(Lz4!Byte), NEW p \in Nat, p <= Len(in)
  PROVE  /\ Lz4!Run(p) \in Nat /\ p + Lz4!Run(p) <= Len(in)
         /\ \A k \in 1..Lz4!Run(p) : in[p + k] = Lz4!Continue
         /\ p + Lz4!Run(p) < Len(in) => in[p + Lz4!Run(p) + 1] # Lz4!Continue
<1> DEFINE Goes(n) == p + n + 1 <= Len(in) /\ in[p + n + 1] = Lz4!Continue
           Is(n) == /\ \A k \in 1..n : p + k <= Len(in) /\ in[p + k] = Lz4!Continue
                    /\ ~Goes(n)
           Stops == {n \in Nat : ~Goes(n)}
<1>1. Len(in) \in Nat
  OBVIOUS
<1>2. Len(in) - p \in Stops /\ Stops \subseteq Nat
  BY <1>1
<1>3. PICK n \in Stops : \A m \in Stops : n <= m
  <2> HIDE DEF Stops
  <2> QED
    BY <1>2, HasLeast
<1>4. n \in Nat /\ ~Goes(n) /\ n <= Len(in) - p
  <2>1. n <= Len(in) - p
    <3> HIDE DEF Stops
    <3> QED
      BY <1>2, <1>3
  <2> QED
    BY <2>1
<1>5. \A k \in 1..n : Goes(k - 1)
  <2> SUFFICES ASSUME NEW k \in 1..n
               PROVE  Goes(k - 1)
    OBVIOUS
  <2>1. k - 1 \in Nat /\ ~(n <= k - 1)
    BY <1>4
  <2>2. k - 1 \notin Stops
    <3> HIDE DEF Stops
    <3> QED
      BY <1>3, <2>1
  <2> HIDE DEF Goes
  <2> QED
    BY <2>1, <2>2
<1>6. \A k \in 1..n : p + k <= Len(in) /\ in[p + k] = Lz4!Continue
  <2> SUFFICES ASSUME NEW k \in 1..n
               PROVE  p + k <= Len(in) /\ in[p + k] = Lz4!Continue
    OBVIOUS
  <2>1. p + (k - 1) + 1 = p + k
    BY <1>4
  <2> QED
    BY <1>5, <2>1
<1>7. n \in 0..Len(in) /\ Is(n)
  BY <1>1, <1>4, <1>6
<1>8. Lz4!Run(p) = CHOOSE i \in 0..Len(in) : Is(i)
  BY DEF Lz4!Run
<1>9. Lz4!Run(p) \in 0..Len(in) /\ Is(Lz4!Run(p))
  <2> HIDE DEF Is
  <2> QED
    BY <1>7, <1>8
<1>10. p + Lz4!Run(p) <= Len(in)
  <2>1. CASE Lz4!Run(p) = 0
    BY <1>1, <2>1
  <2>2. CASE Lz4!Run(p) # 0
    <3>1. Lz4!Run(p) \in 1..Lz4!Run(p)
      BY <1>1, <1>9, <2>2
    <3> QED
      BY <1>9, <3>1
  <2> QED
    BY <2>1, <2>2
<1>11. p + Lz4!Run(p) < Len(in) => in[p + Lz4!Run(p) + 1] # Lz4!Continue
  BY <1>1, <1>9
<1> QED
  BY <1>9, <1>10, <1>11

(* Whatever the bytes are, a length ends inside the block.                 *)
LEMMA ReadLengthTyped ==
  ASSUME Lz4!Lz4Assumption, in \in Seq(Lz4!Byte), NEW p \in Nat, p <= Len(in), NEW half \in 0..Lz4!Full
  PROVE  /\ Lz4!ReadLength(p, half).len \in Nat /\ Lz4!ReadLength(p, half).pos \in Nat
         /\ p <= Lz4!ReadLength(p, half).pos /\ Lz4!ReadLength(p, half).pos <= Len(in)
<1>1. Len(in) \in Nat /\ Lz4!Full \in Nat /\ Lz4!Continue \in Nat
  BY Sizes
<1>2. Lz4!Run(p) \in Nat /\ p + Lz4!Run(p) <= Len(in) /\ Lz4!Continue * Lz4!Run(p) \in Nat
  BY <1>1, RunIs
<1>3. CASE half < Lz4!Full
  BY <1>1, <1>3 DEF Lz4!ReadLength
<1>4. CASE ~(half < Lz4!Full) /\ p + Lz4!Run(p) < Len(in)
  <2>1. Lz4!ReadLength(p, half) = [len |-> Lz4!Full + (Lz4!Continue * Lz4!Run(p)) + in[p + Lz4!Run(p) + 1], pos |-> p + Lz4!Run(p) + 1]
    BY <1>4 DEF Lz4!ReadLength
  <2>2. in[p + Lz4!Run(p) + 1] \in Nat
    <3>1. p + Lz4!Run(p) + 1 \in 1..Len(in)
      BY <1>1, <1>2, <1>4
    <3>2. in[p + Lz4!Run(p) + 1] \in Lz4!Byte
      BY <3>1
    <3> QED
      BY <3>2 DEF Lz4!Byte
  <2> QED
    BY <1>1, <1>2, <1>4, <2>1, <2>2
<1>5. CASE ~(half < Lz4!Full) /\ ~(p + Lz4!Run(p) < Len(in))
  <2>1. Lz4!ReadLength(p, half) = [len |-> Lz4!Full + (Lz4!Continue * Lz4!Run(p)), pos |-> p + Lz4!Run(p)]
    BY <1>5 DEF Lz4!ReadLength
  <2> QED
    BY <1>1, <1>2, <1>5, <2>1
<1> QED
  BY <1>3, <1>4, <1>5

(* A length that was written is read, or, if it is cut, one that is not    *)
(* longer, up to the end.                                                  *)
LEMMA ReadsLength ==
  ASSUME Lz4!Lz4Assumption, in \in Seq(Lz4!Byte), NEW p \in Nat, p <= Len(in), NEW n \in Nat,
         \A k \in 1..Len(Lz4!Overflow(n)) : p + k <= Len(in) => in[p + k] = Lz4!Overflow(n)[k]
  PROVE  LET r == Lz4!ReadLength(p, Lz4!Lesser(n, Lz4!Full))
         IN /\ p + Len(Lz4!Overflow(n)) <= Len(in) =>
                 r.len = n /\ r.pos = p + Len(Lz4!Overflow(n))
            /\ p + Len(Lz4!Overflow(n)) > Len(in) =>
                 r.len \in Nat /\ r.len <= n /\ r.pos = Len(in)
<1> DEFINE r == Lz4!ReadLength(p, Lz4!Lesser(n, Lz4!Full))
<1>1. Len(in) \in Nat /\ Lz4!Full \in Nat \ {0} /\ Lz4!Continue \in Nat \ {0}
  BY Sizes
<1>2. CASE n < Lz4!Full
  <2>1. Len(Lz4!Overflow(n)) = 0
    BY <1>2, OverflowIs
  <2>2. Lz4!Lesser(n, Lz4!Full) = n
    BY <1>1, <1>2 DEF Lz4!Lesser
  <2>3. r = [len |-> n, pos |-> p]
    BY <1>2, <2>2 DEF Lz4!ReadLength
  <2> QED
    BY <1>1, <2>1, <2>3
<1>3. CASE ~(n < Lz4!Full)
  <2>1. PICK q \in Nat, b \in 0..Lz4!Continue - 1 :
          /\ n = Lz4!Full + (Lz4!Continue * q) + b
          /\ Len(Lz4!Overflow(n)) = q + 1
          /\ \A k \in 1..q : Lz4!Overflow(n)[k] = Lz4!Continue
          /\ Lz4!Overflow(n)[q + 1] = b
    <3>1. n >= Lz4!Full
      BY <1>1, <1>3
    <3> QED
      BY <3>1, OverflowIs
  <2>2. Lz4!Lesser(n, Lz4!Full) = Lz4!Full /\ ~(Lz4!Full < Lz4!Full)
    BY <1>1, <1>3 DEF Lz4!Lesser
  <2>3. /\ Lz4!Run(p) \in Nat /\ p + Lz4!Run(p) <= Len(in)
        /\ \A k \in 1..Lz4!Run(p) : in[p + k] = Lz4!Continue
        /\ p + Lz4!Run(p) < Len(in) => in[p + Lz4!Run(p) + 1] # Lz4!Continue
    BY RunIs
  <2>4. \A k \in 1..q : p + k <= Len(in) => in[p + k] = Lz4!Continue
    <3>1. \A k \in 1..q : k \in 1..Len(Lz4!Overflow(n))
      BY <2>1
    <3> QED
      BY <2>1, <3>1
  <2>5. p + q + 1 <= Len(in) => in[p + q + 1] = b
    <3>1. q + 1 \in 1..Len(Lz4!Overflow(n)) /\ p + (q + 1) = p + q + 1
      BY <2>1
    <3> QED
      BY <2>1, <3>1
  <2>6. ASSUME Lz4!Run(p) < q
        PROVE  p + Lz4!Run(p) = Len(in)
    <3>1. Lz4!Run(p) + 1 \in 1..q /\ p + (Lz4!Run(p) + 1) = p + Lz4!Run(p) + 1
      BY <2>3, <2>6
    <3>2. p + Lz4!Run(p) + 1 <= Len(in) => in[p + Lz4!Run(p) + 1] = Lz4!Continue
      BY <2>4, <3>1
    <3> QED
      BY <1>1, <2>3, <3>2
  <2>7. CASE p + q + 1 <= Len(in)
    <3>1. Lz4!Run(p) = q
      <4>1. ~(Lz4!Run(p) < q)
        BY <1>1, <2>1, <2>3, <2>6, <2>7
      <4>2. ~(q < Lz4!Run(p))
        <5>1. ASSUME q < Lz4!Run(p)
              PROVE  FALSE
          <6>1. q + 1 \in 1..Lz4!Run(p) /\ p + (q + 1) = p + q + 1
            BY <2>1, <2>3, <5>1
          <6>2. in[p + q + 1] = Lz4!Continue
            BY <2>3, <6>1
          <6> QED
            BY <1>1, <2>1, <2>5, <2>7, <6>2
        <5> QED
          BY <5>1
      <4> QED
        BY <2>1, <2>3, <4>1, <4>2
    <3>2. p + Lz4!Run(p) < Len(in)
      BY <1>1, <2>1, <2>7, <3>1
    <3>3. r = [len |-> Lz4!Full + (Lz4!Continue * Lz4!Run(p)) + in[p + Lz4!Run(p) + 1], pos |-> p + Lz4!Run(p) + 1]
      BY <2>2, <3>2 DEF Lz4!ReadLength
    <3>4. r.len = n /\ r.pos = p + (q + 1)
      BY <2>1, <2>5, <2>7, <3>1, <3>3
    <3>5. p + Len(Lz4!Overflow(n)) = p + (q + 1) /\ ~(p + Len(Lz4!Overflow(n)) > Len(in))
      BY <1>1, <2>1, <2>7
    <3> QED
      BY <3>4, <3>5
  <2>8. CASE ~(p + q + 1 <= Len(in))
    <3>1. p + Lz4!Run(p) = Len(in) /\ Lz4!Run(p) <= q
      <4>1. CASE Lz4!Run(p) < q
        BY <2>1, <2>3, <2>6, <4>1
      <4>2. CASE ~(Lz4!Run(p) < q)
        BY <1>1, <2>1, <2>3, <2>8, <4>2
      <4> QED
        BY <4>1, <4>2
    <3>2. r = [len |-> Lz4!Full + (Lz4!Continue * Lz4!Run(p)), pos |-> p + Lz4!Run(p)]
      <4>1. ~(p + Lz4!Run(p) < Len(in))
        BY <1>1, <3>1
      <4> QED
        BY <2>2, <4>1 DEF Lz4!ReadLength
    <3>3. Lz4!Continue * Lz4!Run(p) <= Lz4!Continue * q /\ Lz4!Continue * Lz4!Run(p) \in Nat /\ Lz4!Continue * q \in Nat
      BY <1>1, <2>1, <2>3, <3>1
    <3>4. r.len \in Nat /\ r.len <= n /\ r.pos = Len(in)
      BY <1>1, <2>1, <3>1, <3>2, <3>3
    <3>5. ~(p + Len(Lz4!Overflow(n)) <= Len(in))
      BY <1>1, <2>1, <2>8
    <3> QED
      BY <3>4, <3>5
  <2> QED
    BY <2>7, <2>8
<1> QED
  BY <1>2, <1>3

(* What repeats itself from off bytes back repeats those off bytes.        *)
LEMMA Periodic ==
  ASSUME NEW s, NEW to \in Nat, NEW off \in Nat \ {0}, off <= to, NEW n \in Nat,
         Repeats(s, to, off, n)
  PROVE  \A i \in 1..n : s[to + i] = s[(to - off) + 1 + ((i - 1) % off)]
<1> DEFINE Back(i) == s[(to - off) + 1 + ((i - 1) % off)]
           Bad == {i \in 1..n : s[to + i] # Back(i)}
<1>1. ASSUME Bad # {}
      PROVE  FALSE
  <2>1. PICK i \in Bad : \A j \in Bad : i <= j
    <3>1. Bad \subseteq Nat
      OBVIOUS
    <3> HIDE DEF Bad
    <3> QED
      BY <1>1, <3>1, HasLeast
  <2>2. i \in 1..n /\ s[to + i] # Back(i) /\ s[to + i] = s[(to - off) + i]
    BY DEF Repeats
  <2>3. i - 1 \in Nat
    BY <2>2
  <2>4. /\ i - 1 = (off * ((i - 1) \div off)) + ((i - 1) % off)
        /\ (i - 1) % off \in 0..off - 1 /\ (i - 1) \div off \in Nat
    BY <2>3, Division
  <2>5. CASE i <= off
    <3>1. ((0 * off) + (i - 1)) % off = i - 1
      <4>1. i - 1 \in 0..off - 1 /\ 0 \in Nat
        BY <2>2, <2>5
      <4> QED
        BY <4>1, Dividing
    <3>2. (i - 1) % off = i - 1
      BY <2>3, <3>1
    <3>3. (to - off) + 1 + (i - 1) = (to - off) + i
      BY <2>2
    <3> QED
      BY <2>2, <3>2, <3>3
  <2>6. CASE ~(i <= off)
    <3> DEFINE j == i - off
    <3>1. j \in 1..n /\ j < i /\ j \in Nat /\ to + j = (to - off) + i
      BY <2>2, <2>6
    <3>2. j - 1 = (i - 1) - off /\ i - 1 >= off
      BY <2>2, <2>6
    <3>3. (j - 1) % off = (i - 1) % off
      BY <2>3, <3>2, RemainderStays
    <3>4. s[to + j] = Back(j)
      <4>1. j \notin Bad
        <5> HIDE DEF Bad
        <5> QED
          BY <2>1, <2>2, <3>1
      <4> QED
        BY <3>1, <4>1
    <3>5. Back(j) = Back(i)
      BY <3>3
    <3> QED
      BY <2>2, <3>1, <3>4, <3>5
  <2> QED
    BY <2>5, <2>6
<1> QED
  BY <1>1

LEMMA BeginningIs ==
  ASSUME src \in Seq(Lz4!Byte), NEW b \in Nat, b <= Len(src)
  PROVE  /\ Lz4!Bytes(0, b) \in Seq(Lz4!Byte) /\ Len(Lz4!Bytes(0, b)) = b
         /\ \A k \in 1..b : Lz4!Bytes(0, b)[k] = src[k]
         /\ IsPrefix(Lz4!Bytes(0, b), src)
         /\ b = Len(src) => Lz4!Bytes(0, b) = src
<1>1. Len(src) \in Nat
  OBVIOUS
<1>2. /\ Lz4!Bytes(0, b) \in Seq(Lz4!Byte) /\ Len(Lz4!Bytes(0, b)) = b
      /\ \A k \in 1..b : Lz4!Bytes(0, b)[k] = src[k]
  <2>1. 0 \in Nat /\ 0 <= b /\ b - 0 = b /\ \A k \in 1..b : 0 + k = k
    OBVIOUS
  <2> QED
    BY <2>1, SpanIs DEF Lz4!Bytes
<1>3. Holds(src, 0, Lz4!Bytes(0, b))
  <2>1. 0 + b <= Len(src) /\ \A k \in 1..b : 0 + k = k
    OBVIOUS
  <2> QED
    BY <1>2, <2>1 DEF Holds
<1>4. IsPrefix(Lz4!Bytes(0, b), src)
  BY <1>2, <1>3, PrefixIs
<1>5. ASSUME b = Len(src)
      PROVE  Lz4!Bytes(0, b) = src
  <2> DEFINE u == Lz4!Bytes(0, b)
  <2>1. u \in Seq(Lz4!Byte) /\ Len(u) = Len(src) /\ \A k \in 1..Len(u) : u[k] = src[k]
    BY <1>2, <1>5
  <2> HIDE DEF u
  <2>2. u = src
    BY <2>1, SeqEqual
  <2> QED
    BY <2>2 DEF u
<1> QED
  BY <1>2, <1>4, <1>5

(* More of the data behind a beginning of it is a beginning of it.         *)
LEMMA BeginningGrows ==
  ASSUME src \in Seq(Lz4!Byte), NEW a \in Nat, NEW u \in Seq(Lz4!Byte), a + Len(u) <= Len(src),
         \A k \in 1..Len(u) : u[k] = src[a + k]
  PROVE  Lz4!Bytes(0, a) \o u = Lz4!Bytes(0, a + Len(u))
<1> DEFINE o == Lz4!Bytes(0, a)
           b == a + Len(u)
           w == Lz4!Bytes(0, b)
<1>1. Len(u) \in Nat /\ Len(src) \in Nat /\ b \in Nat /\ b <= Len(src) /\ a <= Len(src)
  OBVIOUS
<1>2. o \in Seq(Lz4!Byte) /\ Len(o) = a /\ \A k \in 1..a : o[k] = src[k]
  BY <1>1, BeginningIs
<1>3. w \in Seq(Lz4!Byte) /\ Len(w) = b /\ \A k \in 1..b : w[k] = src[k]
  <2> HIDE DEF b
  <2> QED
    BY <1>1, BeginningIs
<1> HIDE DEF o, w
<1>4. /\ o \o u \in Seq(Lz4!Byte) /\ Len(o \o u) = b
      /\ \A k \in 1..a : (o \o u)[k] = o[k]
      /\ \A k \in 1..Len(u) : (o \o u)[a + k] = u[k]
  <2>1. o \o u \in Seq(Lz4!Byte) /\ Len(o \o u) = Len(o) + Len(u)
    BY <1>2, JoinedIs
  <2>2. \A k \in 1..a : (o \o u)[k] = o[k]
    BY <1>2
  <2>3. \A k \in 1..Len(u) : (o \o u)[a + k] = u[k]
    BY <1>2
  <2> QED
    BY <1>2, <2>1, <2>2, <2>3
<1>5. ASSUME NEW k \in 1..b
      PROVE  (o \o u)[k] = w[k]
  <2>1. CASE k \in 1..a
    BY <1>2, <1>3, <1>4, <2>1
  <2>2. CASE k \notin 1..a
    <3>1. k - a \in 1..Len(u) /\ a + (k - a) = k
      BY <1>1, <2>2
    <3>2. (o \o u)[k] = u[k - a] /\ u[k - a] = src[k]
      BY <1>4, <3>1
    <3> QED
      BY <1>3, <3>2
  <2> QED
    BY <2>1, <2>2
<1>6. o \o u = w
  <2> DEFINE v == o \o u
  <2>1. v \in Seq(Lz4!Byte) /\ Len(v) = Len(w) /\ \A k \in 1..Len(v) : v[k] = w[k]
    BY <1>3, <1>4, <1>5
  <2> HIDE DEF v
  <2>2. v = w
    BY <1>3, <2>1, SeqEqual
  <2> QED
    BY <2>2 DEF v
<1> QED
  BY <1>6 DEF o, w

(* What Copied adds.                                                       *)
Added(o, off, n) == [i \in 1..n |-> o[Len(o) - off + 1 + ((i - 1) % off)]]

LEMMA CopiedIs ==
  ASSUME NEW S, NEW o \in Seq(S), NEW off \in 1..Len(o), NEW n \in Nat
  PROVE  /\ Lz4!Copied(o, off, n) = o \o Added(o, off, n)
         /\ Added(o, off, n) \in Seq(S) /\ Len(Added(o, off, n)) = n
<1>1. Lz4!Copied(o, off, n) = o \o Added(o, off, n)
  BY DEF Lz4!Copied, Added
<1>2. \A i \in 1..n : o[Len(o) - off + 1 + ((i - 1) % off)] \in S
  <2> SUFFICES ASSUME NEW i \in 1..n
               PROVE  o[Len(o) - off + 1 + ((i - 1) % off)] \in S
    OBVIOUS
  <2>1. i - 1 \in Nat /\ off \in Nat \ {0} /\ Len(o) \in Nat
    OBVIOUS
  <2>2. (i - 1) % off \in 0..off - 1
    BY <2>1, Division
  <2>3. Len(o) - off + 1 + ((i - 1) % off) \in 1..Len(o)
    BY <2>1, <2>2
  <2> QED
    BY <2>3
<1>3. Added(o, off, n) \in Seq(S) /\ Len(Added(o, off, n)) = n
  BY <1>2 DEF Added
<1> QED
  BY <1>1, <1>3

(* Whatever the bytes are, the literals and lengths that are read are in   *)
(* the block.                                                              *)
LEMMA SequenceTyped ==
  ASSUME Lz4!Lz4Assumption, Lz4!TypeOK, Lz4!AtSequence
  PROVE  /\ Lz4!Half \in Lz4!Byte
         /\ Lz4!LitLen.len \in Nat /\ Lz4!LitLen.pos \in Nat /\ Lz4!LitLen.pos <= Lz4!LitEnd
         /\ Lz4!LitEnd \in Nat /\ Lz4!LitEnd <= Len(in) /\ pos < Lz4!LitLen.pos
         /\ Lz4!WithLiterals \in Seq(Lz4!Byte)
         /\ Lz4!LitEnd + 2 <= Len(in) =>
              /\ Lz4!Offset \in Nat
              /\ Lz4!MatchRead.len \in Nat /\ Lz4!MatchRead.pos \in Nat /\ Lz4!MatchRead.pos <= Len(in)
<1>1. in \in Seq(Lz4!Byte) /\ Len(in) \in Nat /\ out \in Seq(Lz4!Byte) /\ pos \in Nat /\ pos < Len(in)
  BY Typed DEF Lz4!AtSequence
<1>2. Lz4!Half \in Lz4!Byte
  BY <1>1 DEF Lz4!Half
<1>3. Lz4!Half \div Nibble \in 0..Lz4!Full /\ Lz4!Half % Nibble \in 0..Lz4!Full
  BY <1>2, ByteHalves
<1>4. /\ Lz4!LitLen.len \in Nat /\ Lz4!LitLen.pos \in Nat
      /\ pos + 1 <= Lz4!LitLen.pos /\ Lz4!LitLen.pos <= Len(in)
  <2>1. pos + 1 \in Nat /\ pos + 1 <= Len(in)
    BY <1>1
  <2> QED
    BY <1>1, <1>3, <2>1, ReadLengthTyped DEF Lz4!LitLen
<1>5. Lz4!LitEnd \in Nat /\ Lz4!LitEnd <= Len(in) /\ Lz4!LitLen.pos <= Lz4!LitEnd
  BY <1>1, <1>4 DEF Lz4!LitEnd, Lz4!Lesser
<1>6. Lz4!WithLiterals \in Seq(Lz4!Byte)
  <2>1. SubSeq(in, Lz4!LitLen.pos + 1, Lz4!LitEnd) \in Seq(Lz4!Byte)
    BY <1>1, <1>4, <1>5, SpanIs
  <2> QED
    BY <1>1, <2>1, JoinedIs DEF Lz4!WithLiterals
<1>7. ASSUME Lz4!LitEnd + 2 <= Len(in)
      PROVE  /\ Lz4!Offset \in Nat
             /\ Lz4!MatchRead.len \in Nat /\ Lz4!MatchRead.pos \in Nat /\ Lz4!MatchRead.pos <= Len(in)
  <2>1. Lz4!LitEnd + 1 \in 1..Len(in) /\ Lz4!LitEnd + 2 \in 1..Len(in) /\ Lz4!LitEnd + 2 \in Nat
    BY <1>1, <1>5, <1>7
  <2>2. in[Lz4!LitEnd + 1] \in Nat /\ in[Lz4!LitEnd + 2] \in Nat
    <3>1. in[Lz4!LitEnd + 1] \in Lz4!Byte /\ in[Lz4!LitEnd + 2] \in Lz4!Byte
      BY <1>1, <2>1
    <3> QED
      BY <3>1 DEF Lz4!Byte
  <2>3. in[Lz4!LitEnd + 2] * Lz4!Base \in Nat
    BY <2>2, Sizes
  <2>4. Lz4!Offset \in Nat
    BY <2>2, <2>3 DEF Lz4!Offset
  <2>5. Lz4!MatchRead.len \in Nat /\ Lz4!MatchRead.pos \in Nat /\ Lz4!MatchRead.pos <= Len(in)
    BY <1>1, <1>3, <1>7, <2>1, ReadLengthTyped DEF Lz4!MatchRead
  <2> QED
    BY <2>4, <2>5
<1> QED
  BY <1>1, <1>2, <1>4, <1>5, <1>6, <1>7

(* A block that was only cut holds what was written, as far as it goes.    *)
LEMMA CutHolds ==
  ASSUME Lz4!Lz4Assumption, Lz4!TypeOK, IsPrefix(in, dst),
         NEW w \in Seq(Lz4!Byte), NEW p \in Nat, Holds(dst, p, w)
  PROVE  /\ Len(in) <= Len(dst) /\ p + Len(w) <= Len(dst)
         /\ \A k \in 1..Len(w) : p + k <= Len(in) => in[p + k] = w[k]
<1>1. /\ in \in Seq(Lz4!Byte) /\ dst \in Seq(Lz4!Byte) /\ Len(in) \in Nat /\ Len(dst) \in Nat
      /\ Len(w) \in Nat
  BY Typed
<1>2. Len(in) <= Len(dst) /\ \A k \in 1..Len(in) : dst[k] = in[k]
  <2>1. Holds(dst, 0, in)
    BY <1>1, PrefixIs
  <2>2. \A k \in 1..Len(in) : 0 + k = k
    BY <1>1
  <2> QED
    BY <1>1, <2>1, <2>2 DEF Holds
<1>3. p + Len(w) <= Len(dst) /\ \A k \in 1..Len(w) : dst[p + k] = w[k]
  BY DEF Holds
<1>4. \A k \in 1..Len(w) : p + k <= Len(in) => p + k \in 1..Len(in)
  BY <1>1
<1> QED
  BY <1>2, <1>3, <1>4

(* Literals that were written are read, as many as are there.              *)
LEMMA LiteralsRead ==
  ASSUME Lz4!Lz4Assumption, Lz4!TypeOK, Lz4!AtSequence, IsPrefix(in, dst),
         NEW a \in Nat, NEW lit \in Nat, a + lit <= Len(src), out = Lz4!Bytes(0, a),
         Lz4!Half \div Nibble = Lz4!Lesser(lit, Lz4!Full),
         Holds(dst, pos + 1, Lz4!Overflow(lit)),
         Holds(dst, pos + 1 + Len(Lz4!Overflow(lit)), Lz4!Bytes(a, a + lit))
  PROVE  LET e == pos + 1 + Len(Lz4!Overflow(lit)) + lit
         IN /\ IsPrefix(Lz4!WithLiterals, src)
            /\ e <= Len(in) => Lz4!LitEnd = e /\ Lz4!WithLiterals = Lz4!Bytes(0, a + lit)
            /\ e > Len(in) => Lz4!LitEnd = Len(in)
<1> DEFINE o == Len(Lz4!Overflow(lit))
           p == pos + 1 + o
           e == p + lit
           u == SubSeq(in, Lz4!LitLen.pos + 1, Lz4!LitEnd)
<1>1. /\ in \in Seq(Lz4!Byte) /\ Len(in) \in Nat /\ src \in Seq(Lz4!Byte) /\ Len(src) \in Nat
      /\ pos \in Nat /\ pos < Len(in)
  BY Typed DEF Lz4!AtSequence
<1>2. o \in Nat /\ Lz4!Overflow(lit) \in Seq(Lz4!Byte)
  BY OverflowIs
<1>3. /\ Lz4!Bytes(a, a + lit) \in Seq(Lz4!Byte) /\ Len(Lz4!Bytes(a, a + lit)) = lit
      /\ \A k \in 1..lit : Lz4!Bytes(a, a + lit)[k] = src[a + k]
  <2>1. PICK to \in Nat : to = a + lit
    OBVIOUS
  <2>2. a <= to /\ to <= Len(src) /\ to - a = lit
    BY <2>1
  <2>3. /\ Lz4!Bytes(a, to) \in Seq(Lz4!Byte) /\ Len(Lz4!Bytes(a, to)) = to - a
        /\ \A k \in 1..to - a : Lz4!Bytes(a, to)[k] = src[a + k]
    BY <1>1, <2>2, LiteralsAre
  <2> QED
    BY <2>1, <2>2, <2>3
<1>4. \A k \in 1..o : pos + 1 + k <= Len(in) => in[pos + 1 + k] = Lz4!Overflow(lit)[k]
  <2>1. pos + 1 \in Nat
    BY <1>1
  <2> QED
    BY <1>2, <2>1, CutHolds
<1>5. \A k \in 1..lit : p + k <= Len(in) => in[p + k] = src[a + k]
  <2>1. p \in Nat
    BY <1>1, <1>2
  <2>2. Holds(dst, p, Lz4!Bytes(a, a + lit))
    OBVIOUS
  <2> HIDE DEF p
  <2> QED
    BY <1>3, <2>1, <2>2, CutHolds
<1>6. Lz4!LitLen = Lz4!ReadLength(pos + 1, Lz4!Lesser(lit, Lz4!Full))
  BY DEF Lz4!LitLen
<1>7. /\ p <= Len(in) => Lz4!LitLen.len = lit /\ Lz4!LitLen.pos = p
      /\ p > Len(in) => Lz4!LitLen.pos = Len(in)
  <2>1. pos + 1 \in Nat /\ pos + 1 <= Len(in)
    BY <1>1
  <2> QED
    BY <1>1, <1>4, <1>6, <2>1, ReadsLength
<1>8. /\ Lz4!LitLen.len \in Nat /\ Lz4!LitLen.pos \in Nat /\ Lz4!LitLen.pos <= Lz4!LitEnd
      /\ Lz4!LitEnd \in Nat /\ Lz4!LitEnd <= Len(in)
  BY SequenceTyped
<1>9. u \in Seq(Lz4!Byte) /\ Len(u) = Lz4!LitEnd - Lz4!LitLen.pos /\ \A k \in 1..Lz4!LitEnd - Lz4!LitLen.pos : u[k] = in[Lz4!LitLen.pos + k]
  <2> HIDE DEF o, p, e
  <2>1. PICK begin, to : begin = Lz4!LitLen.pos /\ to = Lz4!LitEnd
    OBVIOUS
  <2>2. begin \in Nat /\ to \in Nat /\ begin <= to /\ to <= Len(in)
    BY <1>8, <2>1
  <2>3. /\ SubSeq(in, begin + 1, to) \in Seq(Lz4!Byte)
        /\ Len(SubSeq(in, begin + 1, to)) = to - begin
        /\ \A k \in 1..to - begin : SubSeq(in, begin + 1, to)[k] = in[begin + k]
    <3>1. in \in Seq(Lz4!Byte)
      BY <1>1
    <3> QED
      BY <2>2, <3>1, SpanIs, Zenon
  <2>4. u = SubSeq(in, begin + 1, to)
    BY <2>1
  <2> HIDE DEF u
  <2>5. u \in Seq(Lz4!Byte) /\ Len(u) = to - begin /\ \A k \in 1..to - begin : u[k] = in[begin + k]
    BY <2>3, <2>4, Zenon
  <2> QED
    BY <2>1, <2>5, Zenon
<1>10. Lz4!WithLiterals = Lz4!Bytes(0, a) \o u
  BY DEF Lz4!WithLiterals
<1>11. o = Len(Lz4!Overflow(lit)) /\ p = pos + 1 + o /\ e = p + lit
  OBVIOUS
<1> HIDE DEF o, p, e, u
<1>12. p \in Nat /\ e \in Nat /\ p <= e
  BY <1>1, <1>2, <1>11
<1>13. Lz4!LitEnd = IF p <= Len(in) THEN (IF e <= Len(in) THEN e ELSE Len(in)) ELSE Len(in)
  <2>1. CASE p <= Len(in)
    BY <1>1, <1>7, <1>11, <1>12, <2>1 DEF Lz4!LitEnd, Lz4!Lesser
  <2>2. CASE ~(p <= Len(in))
    BY <1>1, <1>7, <1>8, <1>12, <2>2 DEF Lz4!LitEnd, Lz4!Lesser
  <2> QED
    BY <2>1, <2>2
<1>14. Len(u) \in Nat /\ Len(u) <= lit /\ \A k \in 1..Len(u) : u[k] = src[a + k]
  <2>1. CASE p <= Len(in)
    <3>1. Len(u) = Lz4!LitEnd - p /\ Lz4!LitLen.pos = p /\ Lz4!LitEnd <= e
      BY <1>1, <1>7, <1>9, <1>12, <1>13, <2>1
    <3>2. \A k \in 1..Len(u) : k \in 1..lit /\ p + k <= Len(in)
      BY <1>1, <1>8, <1>11, <1>12, <3>1
    <3>3. Len(u) \in Nat /\ Len(u) <= lit
      BY <1>8, <1>11, <1>12, <3>1
    <3>4. \A k \in 1..Len(u) : u[k] = in[p + k]
      BY <1>9, <3>1
    <3> QED
      BY <1>5, <3>2, <3>3, <3>4
  <2>2. CASE ~(p <= Len(in))
    <3>1. Len(u) = 0
      BY <1>1, <1>7, <1>9, <1>12, <1>13, <2>2
    <3> QED
      BY <3>1
  <2> QED
    BY <2>1, <2>2
<1>15. Lz4!WithLiterals = Lz4!Bytes(0, a + Len(u)) /\ a + Len(u) \in Nat /\ a + Len(u) <= Len(src)
  <2>1. a + Len(u) <= Len(src)
    BY <1>1, <1>14
  <2>2. Lz4!Bytes(0, a) \o u = Lz4!Bytes(0, a + Len(u))
    BY <1>1, <1>9, <1>14, <2>1, BeginningGrows
  <2> QED
    BY <1>10, <1>14, <2>1, <2>2
<1>16. IsPrefix(Lz4!WithLiterals, src)
  BY <1>1, <1>15, BeginningIs
<1>17. e <= Len(in) => Lz4!LitEnd = e /\ Lz4!WithLiterals = Lz4!Bytes(0, a + lit)
  <2>1. ASSUME e <= Len(in)
        PROVE  Lz4!LitEnd = e /\ Len(u) = lit
    <3>1. p <= Len(in) /\ Lz4!LitEnd = e
      BY <1>1, <1>12, <1>13, <2>1
    <3> QED
      BY <1>7, <1>9, <1>11, <1>12, <3>1
  <2> QED
    BY <1>15, <2>1
<1>18. e > Len(in) => Lz4!LitEnd = Len(in)
  BY <1>1, <1>12, <1>13
<1> QED
  BY <1>16, <1>17, <1>18 DEF e, p, o

(* The last literals are read to the end, or up to a cut.                  *)
LEMMA FinalRead ==
  ASSUME Lz4!Lz4Assumption, Lz4!TypeOK, Lz4!AtSequence, IsPrefix(in, dst),
         NEW a \in Nat, a <= Len(src), out = Lz4!Bytes(0, a),
         Holds(dst, pos, Final(a)), Len(dst) = pos + Len(Final(a))
  PROVE  /\ Lz4!LitEnd + 2 > Len(in)
         /\ IsPrefix(Lz4!WithLiterals, src) /\ (in = dst => Lz4!WithLiterals = src)
<1> DEFINE lit == Len(src) - a
           o   == Len(Lz4!Overflow(lit))
           e   == pos + 1 + o + lit
<1>1. /\ in \in Seq(Lz4!Byte) /\ Len(in) \in Nat /\ src \in Seq(Lz4!Byte) /\ Len(src) \in Nat
      /\ dst \in Seq(Lz4!Byte) /\ Len(dst) \in Nat /\ pos \in Nat /\ pos < Len(in)
  BY Typed DEF Lz4!AtSequence
<1>2. lit \in Nat /\ a + lit = Len(src)
  BY <1>1
<1>3. /\ Final(a) \in Seq(Lz4!Byte) /\ Len(Final(a)) = 1 + o + lit
      /\ pos + 1 <= Len(dst) /\ dst[pos + 1] = Lz4!Token(lit, 0)
      /\ Holds(dst, pos + 1, Lz4!Overflow(lit))
      /\ Holds(dst, pos + 1 + o, Lz4!Bytes(a, Len(src)))
  BY <1>1, FinalIs
<1>4. o \in Nat
  BY <1>2, OverflowIs
<1> HIDE DEF lit, o
<1>5. Len(in) <= Len(dst) /\ in[pos + 1] = dst[pos + 1] /\ Len(dst) = e
  <2>1. /\ Len(in) <= Len(dst) /\ pos + Len(Final(a)) <= Len(dst)
        /\ \A k \in 1..Len(Final(a)) : pos + k <= Len(in) => in[pos + k] = Final(a)[k]
    BY <1>1, <1>3, CutHolds
  <2>2. 1 \in 1..Len(Final(a)) /\ pos + 1 <= Len(in)
    BY <1>1, <1>2, <1>3, <1>4
  <2>3. dst[pos + 1] = Final(a)[1]
    BY <2>2 DEF Holds
  <2>4. Len(dst) = e
    BY <1>1, <1>2, <1>3, <1>4
  <2> QED
    BY <2>1, <2>2, <2>3, <2>4
<1>6. Lz4!Half \div Nibble = Lz4!Lesser(lit, Lz4!Full)
  BY <1>2, <1>3, <1>5, TokenHalves DEF Lz4!Half
<1>7. /\ IsPrefix(Lz4!WithLiterals, src)
      /\ e <= Len(in) => Lz4!LitEnd = e /\ Lz4!WithLiterals = Lz4!Bytes(0, a + lit)
      /\ e > Len(in) => Lz4!LitEnd = Len(in)
  <2>1. Holds(dst, pos + 1 + Len(Lz4!Overflow(lit)), Lz4!Bytes(a, a + lit))
    BY <1>2, <1>3 DEF o
  <2>2. a + lit <= Len(src)
    BY <1>1, <1>2
  <2> QED
    BY <1>2, <1>3, <1>6, <2>1, <2>2, LiteralsRead DEF o
<1>8. Lz4!LitEnd + 2 > Len(in)
  <2>1. e \in Nat
    BY <1>1, <1>2, <1>4
  <2> HIDE DEF e
  <2> QED
    BY <1>1, <1>5, <1>7, <2>1
<1>9. in = dst => Lz4!WithLiterals = src
  <2>1. Lz4!Bytes(0, a + lit) = src
    BY <1>1, <1>2, BeginningIs
  <2>2. in = dst => e <= Len(in)
    <3> HIDE DEF e
    <3> QED
      BY <1>1, <1>5
  <2> QED
    BY <1>7, <2>1, <2>2
<1> QED
  BY <1>7, <1>8, <1>9

LEMMA CutIs ==
  ASSUME Lz4!Lz4Assumption, Lz4!TypeOK, IsPrefix(in, dst)
  PROVE  Len(in) <= Len(dst) /\ \A k \in 1..Len(in) : in[k] = dst[k]
<1>1. in \in Seq(Lz4!Byte) /\ dst \in Seq(Lz4!Byte) /\ Len(in) \in Nat /\ Len(dst) \in Nat
  BY Typed
<1>2. Holds(dst, 0, in)
  BY <1>1, PrefixIs
<1>3. \A k \in 1..Len(in) : 0 + k = k
  BY <1>1
<1> QED
  BY <1>1, <1>2, <1>3 DEF Holds

(* A match is copied from where it was found, or, if its length is cut, as *)
(* much of it as is left of the length.                                    *)
LEMMA MatchCopied ==
  ASSUME Lz4!Lz4Assumption, src \in Seq(Lz4!Byte),
         NEW to \in Nat, to <= Len(src), NEW off \in Nat \ {0}, off <= to,
         NEW n \in Nat, NEW j \in Nat, j <= n, to + n <= Len(src),
         Repeats(src, to, off, n)
  PROVE  Lz4!Copied(Lz4!Bytes(0, to), off, j) = Lz4!Bytes(0, to + j)
<1> DEFINE o == Lz4!Bytes(0, to)
           v == Added(o, off, j)
<1>1. Len(src) \in Nat
  OBVIOUS
<1>2. o \in Seq(Lz4!Byte) /\ Len(o) = to /\ \A k \in 1..to : o[k] = src[k]
  BY BeginningIs
<1> HIDE DEF o
<1>3. Lz4!Copied(o, off, j) = o \o v /\ v \in Seq(Lz4!Byte) /\ Len(v) = j
  <2>1. off \in 1..Len(o)
    BY <1>2
  <2> QED
    BY <1>2, <2>1, CopiedIs
<1>4. ASSUME NEW i \in 1..j
      PROVE  v[i] = src[to + i]
  <2>1. i \in 1..n /\ i - 1 \in Nat
    OBVIOUS
  <2>2. (i - 1) % off \in 0..off - 1
    BY <2>1, Division
  <2>3. to - off + 1 + ((i - 1) % off) \in 1..to
    BY <2>2
  <2>4. v[i] = src[to - off + 1 + ((i - 1) % off)]
    BY <1>2, <2>3 DEF Added
  <2>5. src[to + i] = src[(to - off) + 1 + ((i - 1) % off)]
    <3>1. \A k \in 1..n : src[to + k] = src[(to - off) + 1 + ((k - 1) % off)]
      BY Periodic
    <3> QED
      BY <2>1, <3>1
  <2> QED
    BY <2>4, <2>5
<1>5. to + Len(v) <= Len(src) /\ \A k \in 1..Len(v) : v[k] = src[to + k]
  BY <1>1, <1>3, <1>4
<1> HIDE DEF v
<1>6. Lz4!Bytes(0, to) \o v = Lz4!Bytes(0, to + Len(v))
  BY <1>3, <1>5, BeginningGrows
<1> QED
  BY <1>3, <1>6 DEF o

(* A sequence that was written is read, or as much of it as there is.      *)
LEMMA SequenceRead ==
  ASSUME Lz4!Lz4Assumption, Lz4!TypeOK, Lz4!AtSequence, IsPrefix(in, dst),
         NEW a \in Nat, NEW to \in Nat, a <= to, to <= Len(src), out = Lz4!Bytes(0, a),
         NEW off \in 1..Lz4!MaxDist, off <= to, NEW n \in Nat, to + n + MinMatch <= Len(src),
         Repeats(src, to, off, n + MinMatch),
         Holds(dst, pos, Lz4!Sequence(a, to, off, n))
  PROVE  LET q == pos + Len(Lz4!Sequence(a, to, off, n))
             c == Lz4!Copied(Lz4!WithLiterals, Lz4!Offset, Lz4!MatchRead.len + MinMatch)
         IN /\ IsPrefix(Lz4!WithLiterals, src)
            /\ in = dst => Lz4!LitEnd + 2 <= Len(in)
            /\ Lz4!LitEnd + 2 <= Len(in) =>
                 /\ Lz4!Offset \in 1..Len(Lz4!WithLiterals)
                 /\ q <= Len(in) => c = Lz4!Bytes(0, to + n + MinMatch) /\ Lz4!MatchRead.pos = q
                 /\ q > Len(in) => IsPrefix(c, src) /\ Lz4!MatchRead.pos = Len(in) /\ in # dst
<1> DEFINE lit == to - a
           o   == Len(Lz4!Overflow(lit))
           e   == pos + 1 + o + lit
           s   == Lz4!Sequence(a, to, off, n)
           m   == Len(Lz4!Overflow(n))
           q   == pos + Len(s)
           c   == Lz4!Copied(Lz4!WithLiterals, Lz4!Offset, Lz4!MatchRead.len + MinMatch)
<1>1. /\ in \in Seq(Lz4!Byte) /\ Len(in) \in Nat /\ src \in Seq(Lz4!Byte) /\ Len(src) \in Nat
      /\ dst \in Seq(Lz4!Byte) /\ Len(dst) \in Nat /\ pos \in Nat /\ pos < Len(in)
      /\ MinMatch \in Nat \ {0} /\ Lz4!MaxDist \in Nat
  BY Typed, Sizes DEF Lz4!AtSequence
<1>2. lit \in Nat /\ a + lit = to
  OBVIOUS
<1>3. /\ Len(s) = 1 + o + lit + 2 + m
      /\ pos + 1 <= Len(dst) /\ dst[pos + 1] = Lz4!Token(lit, n)
      /\ Holds(dst, pos + 1, Lz4!Overflow(lit))
      /\ Holds(dst, pos + 1 + o, Lz4!Bytes(a, to))
      /\ e + 2 <= Len(dst) /\ dst[e + 1] = off % Lz4!Base /\ dst[e + 2] = (off \div Lz4!Base) % Lz4!Base
      /\ Holds(dst, e + 2, Lz4!Overflow(n))
  BY <1>1, SequenceIs
<1>4. o \in Nat /\ m \in Nat /\ Lz4!Overflow(n) \in Seq(Lz4!Byte)
  BY <1>2, OverflowIs
<1>5. pos + Len(s) <= Len(dst)
  BY DEF Holds
<1>6. Len(in) <= Len(dst) /\ \A k \in 1..Len(in) : in[k] = dst[k]
  BY CutIs
<1>7. o = Len(Lz4!Overflow(lit)) /\ m = Len(Lz4!Overflow(n)) /\ q = pos + Len(s) /\ e = pos + 1 + o + lit
  OBVIOUS
<1> HIDE DEF lit, o, s, e, m, q, c
<1>8. e \in Nat /\ q \in Nat /\ q = e + 2 + m /\ q <= Len(dst)
  <2>1. e \in Nat
    BY <1>1, <1>2, <1>4, <1>7
  <2>2. Len(s) = 1 + o + lit + 2 + m /\ q = pos + Len(s) /\ e = pos + 1 + o + lit
    BY <1>3, <1>7
  <2>3. q = e + 2 + m
    BY <1>1, <1>2, <1>4, <2>2
  <2> QED
    BY <1>4, <1>5, <1>7, <2>1, <2>3
<1>9. Lz4!Half = Lz4!Token(lit, n)
  <2>1. pos + 1 \in 1..Len(in)
    BY <1>1
  <2> QED
    BY <1>3, <1>6, <2>1 DEF Lz4!Half
<1>10. Lz4!Half \div Nibble = Lz4!Lesser(lit, Lz4!Full) /\ Lz4!Half % Nibble = Lz4!Lesser(n, Lz4!Full)
  BY <1>2, <1>9, TokenHalves
<1>11. /\ IsPrefix(Lz4!WithLiterals, src)
       /\ e <= Len(in) => Lz4!LitEnd = e /\ Lz4!WithLiterals = Lz4!Bytes(0, to)
       /\ e > Len(in) => Lz4!LitEnd = Len(in)
  <2>1. Holds(dst, pos + 1 + Len(Lz4!Overflow(lit)), Lz4!Bytes(a, a + lit)) /\ a + lit <= Len(src)
    BY <1>2, <1>3, <1>7
  <2>2. Holds(dst, pos + 1, Lz4!Overflow(lit)) /\ Lz4!Half \div Nibble = Lz4!Lesser(lit, Lz4!Full)
    BY <1>3, <1>10
  <2>3. LET e1 == pos + 1 + Len(Lz4!Overflow(lit)) + lit
        IN /\ IsPrefix(Lz4!WithLiterals, src)
           /\ e1 <= Len(in) => Lz4!LitEnd = e1 /\ Lz4!WithLiterals = Lz4!Bytes(0, a + lit)
           /\ e1 > Len(in) => Lz4!LitEnd = Len(in)
    BY <1>2, <2>1, <2>2, LiteralsRead
  <2> QED
    BY <1>2, <1>7, <2>3
<1>12. in = dst => Lz4!LitEnd + 2 <= Len(in)
  BY <1>1, <1>4, <1>8, <1>11
<1>13. ASSUME Lz4!LitEnd + 2 <= Len(in)
       PROVE  /\ Lz4!Offset \in 1..Len(Lz4!WithLiterals)
              /\ q <= Len(in) => c = Lz4!Bytes(0, to + n + MinMatch) /\ Lz4!MatchRead.pos = q
              /\ q > Len(in) => IsPrefix(c, src) /\ Lz4!MatchRead.pos = Len(in) /\ in # dst
  <2>1. Lz4!LitEnd = e /\ Lz4!WithLiterals = Lz4!Bytes(0, to) /\ e + 2 <= Len(in)
    BY <1>1, <1>8, <1>11, <1>13
  <2>2. Len(Lz4!WithLiterals) = to
    BY <1>1, <2>1, BeginningIs
  <2>3. Lz4!Offset = off
    <3>1. e + 1 \in 1..Len(in) /\ e + 2 \in 1..Len(in)
      BY <1>1, <1>8, <2>1
    <3>2. in[e + 1] = off % Lz4!Base /\ in[e + 2] = (off \div Lz4!Base) % Lz4!Base
      BY <1>3, <1>6, <3>1
    <3>3. off \in 0..Lz4!MaxDist
      BY <1>1
    <3>4. (off % Lz4!Base) + (((off \div Lz4!Base) % Lz4!Base) * Lz4!Base) = off
      BY <3>3, OffsetBytes
    <3> QED
      BY <2>1, <3>2, <3>4 DEF Lz4!Offset
  <2>4. Lz4!Offset \in 1..Len(Lz4!WithLiterals)
    BY <1>1, <2>2, <2>3
  <2>5. Lz4!MatchRead = Lz4!ReadLength(e + 2, Lz4!Lesser(n, Lz4!Full))
    BY <1>10, <2>1 DEF Lz4!MatchRead
  <2>6. \A k \in 1..m : e + 2 + k <= Len(in) => in[e + 2 + k] = Lz4!Overflow(n)[k]
    <3>1. e + 2 \in Nat
      BY <1>8
    <3> QED
      BY <1>3, <1>4, <1>7, <3>1, CutHolds
  <2>7. /\ e + 2 + m <= Len(in) => Lz4!MatchRead.len = n /\ Lz4!MatchRead.pos = e + 2 + m
        /\ e + 2 + m > Len(in) => Lz4!MatchRead.len \in Nat /\ Lz4!MatchRead.len <= n /\ Lz4!MatchRead.pos = Len(in)
    <3>1. e + 2 \in Nat
      BY <1>8
    <3>2. \A k \in 1..Len(Lz4!Overflow(n)) : e + 2 + k <= Len(in) => in[e + 2 + k] = Lz4!Overflow(n)[k]
      BY <1>7, <2>6
    <3>3. LET r == Lz4!ReadLength(e + 2, Lz4!Lesser(n, Lz4!Full))
          IN /\ e + 2 + Len(Lz4!Overflow(n)) <= Len(in) => r.len = n /\ r.pos = e + 2 + Len(Lz4!Overflow(n))
             /\ e + 2 + Len(Lz4!Overflow(n)) > Len(in) => r.len \in Nat /\ r.len <= n /\ r.pos = Len(in)
      BY <1>1, <2>1, <3>1, <3>2, ReadsLength
    <3> QED
      BY <1>7, <2>5, <3>3
  <2>8. Lz4!MatchRead.len \in Nat /\ Lz4!MatchRead.len <= n
    BY <1>1, <1>4, <1>8, <2>7
  <2>9. c = Lz4!Bytes(0, to + (Lz4!MatchRead.len + MinMatch))
    <3>1. PICK j, k : j = Lz4!MatchRead.len + MinMatch /\ k = n + MinMatch
      OBVIOUS
    <3>2. j \in Nat /\ k \in Nat /\ j <= k /\ to + k <= Len(src) /\ off \in Nat \ {0}
      BY <1>1, <2>8, <3>1
    <3>3. Repeats(src, to, off, k)
      BY <3>1
    <3>4. Lz4!Copied(Lz4!Bytes(0, to), off, j) = Lz4!Bytes(0, to + j)
      BY <1>1, <3>2, <3>3, MatchCopied
    <3> QED
      BY <2>1, <2>3, <3>1, <3>4 DEF c
  <2>10. CASE q <= Len(in)
    <3>1. Lz4!MatchRead.len = n /\ Lz4!MatchRead.pos = q
      BY <1>8, <2>7, <2>10
    <3>2. to + (n + MinMatch) = to + n + MinMatch
      BY <1>1
    <3> QED
      BY <1>1, <1>8, <2>4, <2>9, <2>10, <3>1, <3>2
  <2>11. CASE ~(q <= Len(in))
    <3>1. Lz4!MatchRead.pos = Len(in) /\ in # dst
      BY <1>1, <1>8, <2>7, <2>11
    <3>2. to + (Lz4!MatchRead.len + MinMatch) \in Nat /\ to + (Lz4!MatchRead.len + MinMatch) <= Len(src)
      BY <1>1, <2>8
    <3>3. IsPrefix(c, src)
      BY <1>1, <2>9, <3>2, BeginningIs
    <3> QED
      BY <2>4, <2>11, <3>1, <3>3
  <2> QED
    BY <2>10, <2>11
<1> QED
  BY <1>11, <1>12, <1>13 DEF q, c, s

-----------------------------------------------------------------------------
(* The steps of lz4's decompressor.                                        *)

(* Where a sequence begins, in a block that was only cut, it is the last   *)
(* literals or one that leads to another mark.                             *)
LEMMA AtMark ==
  ASSUME Lz4!Lz4Assumption, Lz4!TypeOK, Lz4!AtSequence, IsPrefix(in, dst), NEW M, Marked(M), Follows(M)
  PROVE  /\ ~err
         /\ \E m \in M :
              /\ m \in (0..Len(dst)) \X (0..Len(src)) /\ m[1] = pos /\ out = Lz4!Bytes(0, m[2])
              /\ \/ Holds(dst, pos, Final(m[2])) /\ Len(dst) = pos + Len(Final(m[2]))
                 \/ \E k \in M : Leads(m, k)
<1>1. pc = "decompress" /\ pos < Len(in) /\ pos \in Nat /\ Len(in) \in Nat /\ Len(dst) \in Nat
  BY Typed DEF Lz4!AtSequence
<1>2. ~err /\ \E m \in M : m[1] = pos /\ out = Lz4!Bytes(0, m[2])
  BY <1>1 DEF Follows
<1>3. PICK m \in M : m[1] = pos /\ out = Lz4!Bytes(0, m[2])
  BY <1>2
<1>4. m \in (0..Len(dst)) \X (0..Len(src)) /\ (Ends(m) \/ \E k \in M : Leads(m, k))
  BY DEF Marked
<1>5. Ends(m) => Holds(dst, pos, Final(m[2])) /\ Len(dst) = pos + Len(Final(m[2]))
  <2>1. m # <<Len(dst), Len(src)>>
    <3>1. Len(in) <= Len(dst)
      BY CutIs
    <3> QED
      BY <1>1, <1>3, <3>1
  <2> QED
    BY <1>1, <1>3, <2>1 DEF Ends
<1> QED
  BY <1>2, <1>3, <1>4, <1>5

LEMMA EndLiteralsSteps ==
  ASSUME Lz4!Lz4Assumption, Lz4!TypeOK, Behind, Lz4!EndLiterals, NEW M, Marked(M), Follows(M)
  PROVE  Lz4!TypeOK' /\ Behind' /\ Marked(M)' /\ Follows(M)'
<1>1. /\ Lz4!AtSequence /\ Lz4!LitEnd + 2 > Len(in)
      /\ out' = Lz4!WithLiterals /\ pc' = "done" /\ err' = FALSE /\ pc = "decompress"
      /\ UNCHANGED <<src, hashTable, ip, anchor, dst, in, pos>>
  BY DEF Lz4!EndLiterals, Lz4!Finish, Lz4!compressor, Lz4!AtSequence
<1>2. /\ Lz4!WithLiterals \in Seq(Lz4!Byte) /\ Lz4!LitEnd \in Nat
      /\ Len(in) \in Nat /\ src \in Seq(Lz4!Byte) /\ Len(src) \in Nat
  BY <1>1, SequenceTyped, Typed
<1>3. Lz4!TypeOK' /\ Behind'
  BY <1>1, <1>2 DEF Lz4!TypeOK, Behind
<1>4. Marked(M)'
  BY <1>1, MarkedStill
<1>5. ASSUME IsPrefix(in, dst)
      PROVE  IsPrefix(Lz4!WithLiterals, src) /\ (in = dst => Lz4!WithLiterals = src)
  <2>1. PICK m \in M :
          /\ m \in (0..Len(dst)) \X (0..Len(src)) /\ m[1] = pos /\ out = Lz4!Bytes(0, m[2])
          /\ \/ Holds(dst, pos, Final(m[2])) /\ Len(dst) = pos + Len(Final(m[2]))
             \/ \E k \in M : Leads(m, k)
    BY <1>1, <1>5, AtMark
  <2>2. m[2] \in Nat /\ m[2] <= Len(src)
    BY <1>2, <2>1
  <2>3. CASE Holds(dst, pos, Final(m[2])) /\ Len(dst) = pos + Len(Final(m[2]))
    BY <1>1, <1>5, <2>1, <2>2, <2>3, FinalRead
  <2>4. CASE \E k \in M : Leads(m, k)
    <3>1. PICK to \in m[2]..Len(src), off \in 1..Lz4!MaxDist, n \in Nat :
            /\ off <= to /\ to + n + MinMatch <= Len(src)
            /\ Repeats(src, to, off, n + MinMatch)
            /\ Holds(dst, pos, Lz4!Sequence(m[2], to, off, n))
      BY <2>1, <2>4 DEF Leads
    <3>2. to \in Nat /\ m[2] <= to /\ to <= Len(src)
      BY <1>2, <2>2
    <3>3. IsPrefix(Lz4!WithLiterals, src) /\ (in = dst => Lz4!LitEnd + 2 <= Len(in))
      BY <1>1, <1>5, <2>1, <2>2, <3>1, <3>2, SequenceRead
    <3> QED
      BY <1>1, <1>2, <3>3
  <2> QED
    BY <2>1, <2>3, <2>4
<1>6. Follows(M)'
  BY <1>1, <1>5 DEF Follows
<1> QED
  BY <1>3, <1>4, <1>6

LEMMA CopyMatchSteps ==
  ASSUME Lz4!Lz4Assumption, Lz4!TypeOK, Behind, Lz4!CopyMatch, NEW M, Marked(M), Follows(M)
  PROVE  Lz4!TypeOK' /\ Behind' /\ Marked(M)' /\ Follows(M)'
<1> DEFINE c == Lz4!Copied(Lz4!WithLiterals, Lz4!Offset, Lz4!MatchRead.len + MinMatch)
<1>1. /\ Lz4!AtSequence /\ Lz4!LitEnd + 2 <= Len(in) /\ Lz4!Offset \in 1..Len(Lz4!WithLiterals)
      /\ out' = c /\ pos' = Lz4!MatchRead.pos /\ pc = "decompress"
      /\ UNCHANGED <<src, pc, hashTable, ip, anchor, dst, in, err>>
  BY DEF Lz4!CopyMatch, Lz4!compressor, Lz4!AtSequence
<1>2. /\ Lz4!WithLiterals \in Seq(Lz4!Byte) /\ Lz4!LitEnd \in Nat
      /\ Lz4!MatchRead.len \in Nat /\ Lz4!MatchRead.pos \in Nat /\ Lz4!MatchRead.pos <= Len(in)
      /\ Len(in) \in Nat /\ src \in Seq(Lz4!Byte) /\ Len(src) \in Nat /\ MinMatch \in Nat
  BY <1>1, SequenceTyped, Typed, Sizes
<1>3. c \in Seq(Lz4!Byte)
  <2>1. Lz4!MatchRead.len + MinMatch \in Nat
    BY <1>2
  <2>2. LET v == Added(Lz4!WithLiterals, Lz4!Offset, Lz4!MatchRead.len + MinMatch)
        IN c = Lz4!WithLiterals \o v /\ v \in Seq(Lz4!Byte)
    BY <1>1, <1>2, <2>1, CopiedIs
  <2> HIDE DEF c
  <2> QED
    BY <1>2, <2>2, JoinedIs
<1> HIDE DEF c
<1>4. Lz4!TypeOK' /\ Behind'
  BY <1>1, <1>2, <1>3 DEF Lz4!TypeOK, Behind
<1>5. Marked(M)'
  BY <1>1, MarkedStill
<1>6. ASSUME IsPrefix(in, dst)
      PROVE  /\ ~err
             /\ \/ \E m \in M : m[1] = pos' /\ out' = Lz4!Bytes(0, m[2])
                \/ pos' = Len(in) /\ in # dst /\ IsPrefix(out', src)
  <2>1. PICK m \in M :
          /\ m \in (0..Len(dst)) \X (0..Len(src)) /\ m[1] = pos /\ out = Lz4!Bytes(0, m[2])
          /\ \/ Holds(dst, pos, Final(m[2])) /\ Len(dst) = pos + Len(Final(m[2]))
             \/ \E k \in M : Leads(m, k)
    BY <1>1, <1>6, AtMark
  <2>2. ~err
    BY <1>1, <1>6, AtMark
  <2>3. m[2] \in Nat /\ m[2] <= Len(src)
    BY <1>2, <2>1
  <2>4. CASE Holds(dst, pos, Final(m[2])) /\ Len(dst) = pos + Len(Final(m[2]))
    <3>1. Lz4!LitEnd + 2 > Len(in)
      BY <1>1, <1>6, <2>1, <2>3, <2>4, FinalRead
    <3> QED
      BY <1>1, <1>2, <3>1
  <2>5. CASE \E k \in M : Leads(m, k)
    <3>1. PICK k \in M : Leads(m, k)
      BY <2>5
    <3>2. PICK to \in m[2]..Len(src), off \in 1..Lz4!MaxDist, n \in Nat :
            /\ off <= to /\ k[2] = to + n + MinMatch /\ k[2] <= Len(src)
            /\ Repeats(src, to, off, n + MinMatch)
            /\ Holds(dst, pos, Lz4!Sequence(m[2], to, off, n))
            /\ k[1] = pos + Len(Lz4!Sequence(m[2], to, off, n))
      BY <2>1, <3>1 DEF Leads
    <3>3. to \in Nat /\ m[2] <= to /\ to <= Len(src) /\ to + n + MinMatch <= Len(src)
      BY <1>2, <2>3, <3>2
    <3>4. /\ k[1] <= Len(in) => c = Lz4!Bytes(0, k[2]) /\ Lz4!MatchRead.pos = k[1]
          /\ k[1] > Len(in) => IsPrefix(c, src) /\ Lz4!MatchRead.pos = Len(in) /\ in # dst
      <4>1. LET q == pos + Len(Lz4!Sequence(m[2], to, off, n))
            IN /\ q <= Len(in) => c = Lz4!Bytes(0, to + n + MinMatch) /\ Lz4!MatchRead.pos = q
               /\ q > Len(in) => IsPrefix(c, src) /\ Lz4!MatchRead.pos = Len(in) /\ in # dst
        BY <1>1, <1>6, <2>1, <2>3, <3>2, <3>3, SequenceRead DEF c
      <4> QED
        BY <3>2, <4>1
    <3>5. k[1] \in Nat
      BY DEF Marked
    <3>6. CASE k[1] <= Len(in)
      BY <1>1, <2>2, <3>4, <3>6
    <3>7. CASE k[1] > Len(in)
      BY <1>1, <2>2, <3>4, <3>7
    <3> QED
      BY <1>2, <3>5, <3>6, <3>7
  <2> QED
    BY <2>1, <2>4, <2>5
<1>7. Follows(M)'
  <2>1. \A b : Lz4!Bytes(0, b)' = Lz4!Bytes(0, b)
    BY <1>1 DEF Lz4!Bytes
  <2> QED
    BY <1>1, <1>6, <2>1 DEF Follows
<1> QED
  BY <1>4, <1>5, <1>7

LEMMA BadOffsetSteps ==
  ASSUME Lz4!Lz4Assumption, Lz4!TypeOK, Behind, Lz4!BadOffset, NEW M, Marked(M), Follows(M)
  PROVE  Lz4!TypeOK' /\ Behind' /\ Marked(M)' /\ Follows(M)'
<1>1. /\ Lz4!AtSequence /\ Lz4!LitEnd + 2 <= Len(in) /\ (Lz4!Offset = 0 \/ Lz4!Offset > Len(Lz4!WithLiterals))
      /\ pc' = "done" /\ err' = TRUE /\ pc = "decompress"
      /\ UNCHANGED <<src, hashTable, ip, anchor, dst, in, pos, out>>
  BY DEF Lz4!BadOffset, Lz4!Finish, Lz4!compressor, Lz4!AtSequence
<1>2. /\ Lz4!WithLiterals \in Seq(Lz4!Byte) /\ Len(Lz4!WithLiterals) \in Nat /\ Lz4!LitEnd \in Nat
      /\ Len(in) \in Nat /\ src \in Seq(Lz4!Byte) /\ Len(src) \in Nat
  BY <1>1, SequenceTyped, Typed
<1>3. Lz4!TypeOK' /\ Behind'
  BY <1>1 DEF Lz4!TypeOK, Behind
<1>4. Marked(M)'
  BY <1>1, MarkedStill
<1>5. ~IsPrefix(in, dst)
  <2>1. SUFFICES ASSUME IsPrefix(in, dst)
                 PROVE  FALSE
    OBVIOUS
  <2>2. PICK m \in M :
          /\ m \in (0..Len(dst)) \X (0..Len(src)) /\ m[1] = pos /\ out = Lz4!Bytes(0, m[2])
          /\ \/ Holds(dst, pos, Final(m[2])) /\ Len(dst) = pos + Len(Final(m[2]))
             \/ \E k \in M : Leads(m, k)
    BY <1>1, <2>1, AtMark
  <2>3. m[2] \in Nat /\ m[2] <= Len(src)
    BY <1>2, <2>2
  <2>4. CASE Holds(dst, pos, Final(m[2])) /\ Len(dst) = pos + Len(Final(m[2]))
    <3>1. Lz4!LitEnd + 2 > Len(in)
      BY <1>1, <2>1, <2>2, <2>3, <2>4, FinalRead
    <3> QED
      BY <1>1, <1>2, <3>1
  <2>5. CASE \E k \in M : Leads(m, k)
    <3>1. PICK to \in m[2]..Len(src), off \in 1..Lz4!MaxDist, n \in Nat :
            /\ off <= to /\ to + n + MinMatch <= Len(src)
            /\ Repeats(src, to, off, n + MinMatch)
            /\ Holds(dst, pos, Lz4!Sequence(m[2], to, off, n))
      BY <2>2, <2>5 DEF Leads
    <3>2. to \in Nat /\ m[2] <= to /\ to <= Len(src)
      BY <1>2, <2>3
    <3>3. Lz4!Offset \in 1..Len(Lz4!WithLiterals)
      BY <1>1, <2>1, <2>2, <2>3, <3>1, <3>2, SequenceRead
    <3> QED
      BY <1>1, <1>2, <3>3
  <2> QED
    BY <2>2, <2>4, <2>5
<1>6. Follows(M)'
  BY <1>1, <1>5 DEF Follows
<1> QED
  BY <1>3, <1>4, <1>6

LEMMA EndBlockSteps ==
  ASSUME Lz4!Lz4Assumption, Lz4!TypeOK, Behind, Lz4!EndBlock, NEW M, Marked(M), Follows(M)
  PROVE  Lz4!TypeOK' /\ Behind' /\ Marked(M)' /\ Follows(M)'
<1>1. /\ pos >= Len(in) /\ pc' = "done" /\ err' = FALSE /\ pc = "decompress"
      /\ UNCHANGED <<src, hashTable, ip, anchor, dst, in, pos, out>>
  BY DEF Lz4!EndBlock, Lz4!Finish, Lz4!compressor
<1>2. /\ pos = Len(in) /\ Len(in) \in Nat /\ src \in Seq(Lz4!Byte) /\ Len(src) \in Nat
      /\ dst \in Seq(Lz4!Byte) /\ Len(dst) \in Nat
  BY <1>1, Typed
<1>3. Lz4!TypeOK' /\ Behind'
  BY <1>1 DEF Lz4!TypeOK, Behind
<1>4. Marked(M)'
  BY <1>1, MarkedStill
<1>5. ASSUME IsPrefix(in, dst)
      PROVE  IsPrefix(out, src) /\ (in = dst => out = src)
  <2>1. \/ \E m \in M : m[1] = pos /\ out = Lz4!Bytes(0, m[2])
        \/ in # dst /\ IsPrefix(out, src)
    BY <1>1, <1>5 DEF Follows
  <2>2. CASE \E m \in M : m[1] = pos /\ out = Lz4!Bytes(0, m[2])
    <3>1. PICK m \in M : m[1] = pos /\ out = Lz4!Bytes(0, m[2])
      BY <2>2
    <3>2. /\ m \in (0..Len(dst)) \X (0..Len(src))
          /\ Ends(m) \/ \E k \in M : Leads(m, k)
      BY DEF Marked
    <3>3. m[2] \in Nat /\ m[2] <= Len(src)
      BY <1>2, <3>2
    <3>4. IsPrefix(out, src) /\ (m[2] = Len(src) => out = src)
      BY <1>2, <3>1, <3>3, BeginningIs
    <3>5. ASSUME in = dst
          PROVE  m[2] = Len(src)
      <4>1. m[1] = Len(dst)
        BY <1>2, <3>1, <3>5
      <4>2. ASSUME Holds(dst, m[1], Final(m[2])), Len(dst) = m[1] + Len(Final(m[2]))
            PROVE  FALSE
        <5>1. Len(Final(m[2])) = 1 + Len(Lz4!Overflow(Len(src) - m[2])) + (Len(src) - m[2])
          BY <1>2, <3>3, FinalIs
        <5>2. Len(src) - m[2] \in Nat
          BY <1>2, <3>3
        <5>3. Len(Lz4!Overflow(Len(src) - m[2])) \in Nat
          BY <5>2, OverflowIs
        <5> QED
          BY <1>2, <4>1, <4>2, <5>1, <5>2, <5>3
      <4>3. ASSUME NEW k \in M, Leads(m, k)
            PROVE  FALSE
        <5>1. PICK to \in m[2]..Len(src), off \in 1..Lz4!MaxDist, n \in Nat :
                Holds(dst, m[1], Lz4!Sequence(m[2], to, off, n))
          BY <4>3 DEF Leads
        <5>2. to \in Nat /\ m[2] <= to /\ to <= Len(src) /\ to - m[2] \in Nat
          BY <1>2, <3>3
        <5>3. Len(Lz4!Sequence(m[2], to, off, n)) = 1 + Len(Lz4!Overflow(to - m[2])) + (to - m[2]) + 2 + Len(Lz4!Overflow(n))
          <6>1. PICK p \in Nat, a \in Nat : p = m[1] /\ a = m[2]
            BY <1>2, <3>3, <4>1
          <6>2. Holds(dst, p, Lz4!Sequence(a, to, off, n)) /\ a <= to
            BY <5>1, <5>2, <6>1
          <6>3. LET s == Lz4!Sequence(a, to, off, n)
                IN Len(s) = 1 + Len(Lz4!Overflow(to - a)) + (to - a) + 2 + Len(Lz4!Overflow(n))
            BY <1>2, <5>2, <6>2, SequenceIs
          <6> QED
            BY <6>1, <6>3
        <5>4. Len(Lz4!Overflow(to - m[2])) \in Nat /\ Len(Lz4!Overflow(n)) \in Nat
          BY <5>2, OverflowIs
        <5>5. m[1] + Len(Lz4!Sequence(m[2], to, off, n)) <= Len(dst)
          BY <5>1 DEF Holds
        <5> QED
          BY <1>2, <4>1, <5>2, <5>3, <5>4, <5>5
      <4>4. m = <<Len(dst), Len(src)>>
        BY <1>1, <3>2, <4>2, <4>3 DEF Ends
      <4> QED
        BY <4>4
    <3> QED
      BY <3>4, <3>5
  <2>3. CASE in # dst /\ IsPrefix(out, src)
    BY <2>3
  <2> QED
    BY <2>1, <2>2, <2>3
<1>6. Follows(M)'
  BY <1>1, <1>5 DEF Follows
<1> QED
  BY <1>3, <1>4, <1>6

-----------------------------------------------------------------------------
(* The invariant holds at first, and every step keeps it.                  *)
LEMMA Lz4First ==
  ASSUME Lz4!Lz4Assumption, Lz4!Init
  PROVE  Lz4Sound
<1>1. /\ src \in Lz4Inputs /\ pc = "compress" /\ hashTable = [h \in 0..HashSize - 1 |-> -1]
      /\ ip = 0 /\ anchor = 0 /\ dst = <<>> /\ in = <<>> /\ pos = 0 /\ out = <<>> /\ err = FALSE
  BY DEF Lz4!Init
<1>2. src \in Seq(Lz4!Byte) /\ Len(src) \in Nat
  <2>1. src \in Seq(Lz4!Byte)
    BY <1>1 DEF Lz4!Lz4Assumption
  <2> QED
    BY <2>1
<1>3. <<>> \in Seq(Lz4!Byte) /\ Len(<<>>) = 0
  OBVIOUS
<1>4. Lz4!TypeOK
  <2>1. -1 \in -1..Len(src)
    BY <1>2
  <2>2. hashTable \in [0..HashSize - 1 -> -1..Len(src)]
    BY <1>1, <2>1
  <2> QED
    <3>1. ip \in 0..Len(src) /\ anchor \in 0..ip /\ pos \in 0..Len(in)
      BY <1>1, <1>2, <1>3
    <3>2. src \in Lz4Inputs /\ dst \in Seq(Lz4!Byte) /\ in \in Seq(Lz4!Byte) /\ out \in Seq(Lz4!Byte)
      BY <1>1, <1>3
    <3> QED
      BY <1>1, <2>2, <3>1, <3>2 DEF Lz4!TypeOK
<1>5. Behind /\ Waiting
  BY <1>1 DEF Behind, Waiting
<1>6. PICK M : M = {<<0, 0>>}
  OBVIOUS
<1>7. Marked(M)
  BY <1>1, <1>2, <1>3, <1>6 DEF Marked, Ends
<1>8. Follows(M)
  BY <1>1 DEF Follows
<1> QED
  BY <1>4, <1>5, <1>7, <1>8 DEF Lz4Sound

LEMMA Lz4Kept ==
  ASSUME Lz4!Lz4Assumption, Lz4Sound, [Lz4!Next]_(Lz4!vars)
  PROVE  Lz4Sound'
<1>1. PICK M : Marked(M) /\ Follows(M)
  BY DEF Lz4Sound
<1>2. Lz4!TypeOK /\ Behind /\ Waiting
  BY DEF Lz4Sound
<1>3. CASE Lz4!NoMatch
  <2>1. Lz4!TypeOK' /\ Behind' /\ Marked(M)'
    BY <1>1, <1>2, <1>3, NoMatchSteps
  <2>2. Waiting' /\ Follows(M)'
    BY <1>2, <1>3 DEF Lz4!NoMatch, Lz4!Searching, Lz4!decompressor, Waiting, Follows
  <2> QED
    BY <2>1, <2>2 DEF Lz4Sound
<1>4. CASE Lz4!Match
  <2>1. Lz4!TypeOK' /\ Behind'
    BY <1>1, <1>2, <1>4, MatchSteps
  <2>2. PICK N : Marked(N)'
    BY <1>1, <1>2, <1>4, MatchSteps
  <2>3. Waiting' /\ Follows(N)'
    BY <1>2, <1>4 DEF Lz4!Match, Lz4!Searching, Lz4!decompressor, Waiting, Follows
  <2> QED
    BY <2>1, <2>2, <2>3 DEF Lz4Sound
<1>5. CASE Lz4!LastLiterals
  <2>1. Lz4!TypeOK' /\ Behind' /\ Marked(M)'
    BY <1>1, <1>2, <1>5, LastLiteralsSteps
  <2>2. Waiting' /\ Follows(M)'
    BY <1>2, <1>5 DEF Lz4!LastLiterals, Lz4!decompressor, Waiting, Follows
  <2> QED
    BY <2>1, <2>2 DEF Lz4Sound
<1>6. CASE Lz4!Deliver
  <2>1. Lz4!TypeOK' /\ Behind' /\ Marked(M)' /\ Follows(M)'
    BY <1>1, <1>2, <1>6, DeliverSteps
  <2>2. Waiting'
    BY <1>6 DEF Lz4!Deliver, Waiting
  <2> QED
    BY <2>1, <2>2 DEF Lz4Sound
<1>7. CASE Lz4!EndLiterals \/ Lz4!BadOffset \/ Lz4!CopyMatch \/ Lz4!EndBlock
  <2>1. Lz4!TypeOK' /\ Behind' /\ Marked(M)' /\ Follows(M)'
    BY <1>1, <1>2, <1>7, EndLiteralsSteps, BadOffsetSteps, CopyMatchSteps, EndBlockSteps
  <2>2. pc' = "decompress" \/ pc' = "done"
    BY <1>7 DEF Lz4!EndLiterals, Lz4!BadOffset, Lz4!CopyMatch, Lz4!EndBlock, Lz4!AtSequence, Lz4!Finish
  <2>3. Waiting'
    BY <2>2 DEF Waiting
  <2> QED
    BY <2>1, <2>3 DEF Lz4Sound
<1>8. CASE UNCHANGED Lz4!vars
  <2>1. UNCHANGED <<src, pc, hashTable, ip, anchor, dst, in, pos, out, err>>
    BY <1>8 DEF Lz4!vars
  <2>2. Lz4!TypeOK' /\ Behind' /\ Waiting'
    BY <1>2, <2>1 DEF Lz4!TypeOK, Behind, Waiting
  <2>3. Marked(M)'
    <3>1. CASE pc # "compress"
      BY <1>1, <1>2, <2>1, <3>1, MarkedStill
    <3>2. CASE pc = "compress"
      <4>1. <<>> \in Seq(Lz4!Byte) /\ dst' = dst \o <<>>
        <5>1. dst \in Seq(Lz4!Byte)
          BY <1>2, Typed
        <5> QED
          BY <2>1, <5>1
      <4>2. M \subseteq (0..Len(dst)) \X (0..Len(src))
        BY <1>1 DEF Marked
      <4>3. ASSUME NEW m \in M, NEW k \in M, Leads(m, k)
            PROVE  Leads(m, k)'
        <5>1. m \in Nat \X Nat
          BY <4>2
        <5> QED
          BY <1>2, <2>1, <4>1, <4>3, <5>1, LeadsStill
      <4>4. \A m : Ends(m) => Ends(m)'
        BY <2>1, <3>2 DEF Ends
      <4> QED
        BY <1>1, <2>1, <4>3, <4>4 DEF Marked
    <3> QED
      BY <3>1, <3>2
  <2>4. Follows(M)'
    <3>1. \A b : Lz4!Bytes(0, b)' = Lz4!Bytes(0, b)
      BY <2>1 DEF Lz4!Bytes
    <3> QED
      BY <1>1, <2>1, <3>1 DEF Follows
  <2> QED
    BY <2>2, <2>3, <2>4 DEF Lz4Sound
<1> QED
  BY <1>3, <1>4, <1>5, <1>6, <1>7, <1>8 DEF Lz4!Next

LEMMA Lz4Holds ==
  ASSUME Lz4!Lz4Assumption, Lz4Sound
  PROVE  Lz4!TypeOK /\ Lz4!RoundTrip /\ Lz4!CutGivesPrefix
<1>1. PICK M : Marked(M) /\ Follows(M)
  BY DEF Lz4Sound
<1>2. Lz4!TypeOK /\ Waiting
  BY DEF Lz4Sound
<1>3. src \in Seq(Lz4!Byte) /\ dst \in Seq(Lz4!Byte) /\ Len(src) \in Nat /\ Len(dst) \in Nat
  BY <1>2, Typed
<1>4. Lz4!RoundTrip
  <2>1. SUFFICES ASSUME pc = "done", in = dst
                 PROVE  out = src /\ ~err
    BY DEF Lz4!RoundTrip
  <2>2. IsPrefix(in, dst)
    BY <1>3, <2>1 DEF IsPrefix
  <2> QED
    BY <1>1, <2>1, <2>2 DEF Follows
<1>5. Lz4!CutGivesPrefix
  <2>1. SUFFICES ASSUME IsPrefix(in, dst)
                 PROVE  IsPrefix(out, src) /\ ~err
    BY DEF Lz4!CutGivesPrefix, Lz4!IsPrefix, IsPrefix
  <2>2. CASE pc \in {"compress", "compressed"}
    <3>1. out = <<>> /\ ~err
      BY <1>2, <2>2 DEF Waiting
    <3>2. Lz4!Bytes(0, 0) = <<>>
      BY <1>3 DEF Lz4!Bytes
    <3>3. IsPrefix(Lz4!Bytes(0, 0), src)
      BY <1>3, BeginningIs
    <3> QED
      BY <3>1, <3>2, <3>3
  <2>3. CASE pc \in {"decompress", "done"}
    <3>1. ~err /\ (IsPrefix(out, src) \/ \E m \in M : out = Lz4!Bytes(0, m[2]))
      BY <1>1, <2>1, <2>3 DEF Follows
    <3>2. \A m \in M : m[2] \in Nat /\ m[2] <= Len(src)
      BY <1>1, <1>3 DEF Marked
    <3> QED
      BY <1>3, <3>1, <3>2, BeginningIs
  <2> QED
    BY <1>2, <2>2, <2>3 DEF Lz4!TypeOK
<1> QED
  BY <1>2, <1>4, <1>5

(* Data of any length and content is compressed to bytes, and lz4 reads    *)
(* back what it wrote (lz4_compress.go, lz4_decompress.go).                *)
THEOREM Lz4ReadsBack ==
  ASSUME Lz4!Lz4Assumption
  PROVE  Lz4!Spec => [](Lz4!TypeOK /\ Lz4!RoundTrip)
<1>1. Lz4!Init => Lz4Sound
  BY Lz4First
<1>2. Lz4Sound /\ [Lz4!Next]_(Lz4!vars) => Lz4Sound'
  BY Lz4Kept
<1>3. Lz4Sound => Lz4!TypeOK /\ Lz4!RoundTrip
  BY Lz4Holds
<1> QED
  BY <1>1, <1>2, <1>3, PTL DEF Lz4!Spec

(* A block that was cut anywhere decompresses, without an error, to a      *)
(* beginning of the data (lz4_decompress.go:134).                          *)
THEOREM Lz4CutAlwaysPrefix ==
  ASSUME Lz4!Lz4Assumption
  PROVE  Lz4!Spec => []Lz4!CutGivesPrefix
<1>1. Lz4!Init => Lz4Sound
  BY Lz4First
<1>2. Lz4Sound /\ [Lz4!Next]_(Lz4!vars) => Lz4Sound'
  BY Lz4Kept
<1>3. Lz4Sound => Lz4!CutGivesPrefix
  BY Lz4Holds
<1> QED
  BY <1>1, <1>2, <1>3, PTL DEF Lz4!Spec

-----------------------------------------------------------------------------
(* The size of a block.                                                    *)

(* While it is written, it is longer than the data that it stands for by   *)
(* at most a byte in 255; the last literals may need two more.             *)
Roomy ==
  IF pc = "compress"
    THEN Len(dst) <= anchor + (anchor \div Lz4!Continue)
    ELSE Lz4!OverheadBounded

LEMMA QuotientAtLeast ==
  ASSUME NEW n \in Nat \ {0}, NEW x \in Nat, NEW q \in Nat, n * q <= x
  PROVE  q <= x \div n
<1> DEFINE p == x \div n
           r == x % n
<1>1. x = (n * p) + r /\ r \in 0..n - 1 /\ p \in Nat
  BY Division
<1> HIDE DEF p, r
<1>2. ASSUME p < q
      PROVE  FALSE
  <2>1. n * (q - p) >= n
    BY <1>1, <1>2
  <2>2. n * (q - p) = (n * q) - (n * p) /\ n * q \in Nat /\ n * p \in Nat
    BY <1>1
  <2> QED
    BY <1>1, <2>1, <2>2
<1> QED
  BY <1>1, <1>2 DEF p

(* The bytes that a length needs besides its half of a token.              *)
LEMMA OverflowShort ==
  ASSUME Lz4!Lz4Assumption, NEW n \in Nat
  PROVE  /\ Len(Lz4!Overflow(n)) \in Nat /\ Len(Lz4!Overflow(n)) <= n
         /\ \E q \in Nat : Lz4!Continue * q <= n /\ Len(Lz4!Overflow(n)) <= q + 1
<1>1. Lz4!Full \in Nat \ {0} /\ Lz4!Continue \in Nat \ {0}
  BY Sizes
<1>2. CASE n < Lz4!Full
  <2>1. Len(Lz4!Overflow(n)) = 0
    BY <1>2, OverflowIs
  <2>2. Lz4!Continue * 0 <= n
    BY <1>1
  <2> QED
    BY <2>1, <2>2
<1>3. CASE ~(n < Lz4!Full)
  <2>1. PICK q \in Nat, b \in 0..Lz4!Continue - 1 :
          n = Lz4!Full + (Lz4!Continue * q) + b /\ Len(Lz4!Overflow(n)) = q + 1
    <3>1. n >= Lz4!Full
      BY <1>1, <1>3
    <3> QED
      BY <3>1, OverflowIs
  <2>2. Lz4!Continue * q >= q /\ Lz4!Continue * q \in Nat
    BY <1>1, <2>1
  <2>3. q + 1 <= n /\ Lz4!Continue * q <= n
    BY <1>1, <2>1, <2>2
  <2> QED
    BY <2>1, <2>3
<1> QED
  BY <1>2, <1>3

(* Data that is put behind other data has room for the bytes of its length.*)
LEMMA RoomGrows ==
  ASSUME Lz4!Lz4Assumption, NEW a \in Nat, NEW lit \in Nat, NEW b \in Nat, a + lit <= b
  PROVE  /\ Len(Lz4!Overflow(lit)) \in Nat
         /\ a \div Lz4!Continue \in Nat /\ b \div Lz4!Continue \in Nat
         /\ (a \div Lz4!Continue) + Len(Lz4!Overflow(lit)) <= (b \div Lz4!Continue) + 1
<1>1. Lz4!Continue \in Nat \ {0}
  BY Sizes
<1>2. PICK q \in Nat : Lz4!Continue * q <= lit /\ Len(Lz4!Overflow(lit)) <= q + 1
  BY OverflowShort
<1>3. Len(Lz4!Overflow(lit)) \in Nat
  BY OverflowShort
<1> DEFINE p == a \div Lz4!Continue
           c == b \div Lz4!Continue
<1>4. a = (Lz4!Continue * p) + (a % Lz4!Continue) /\ a % Lz4!Continue \in 0..Lz4!Continue - 1 /\ p \in Nat /\ c \in Nat
  BY <1>1, Division
<1>5. p + q <= c
  <2> HIDE DEF p
  <2>1. Lz4!Continue * (p + q) = (Lz4!Continue * p) + (Lz4!Continue * q) /\ Lz4!Continue * p \in Nat /\ Lz4!Continue * q \in Nat
    BY <1>1, <1>2, <1>4
  <2>2. Lz4!Continue * (p + q) <= b /\ p + q \in Nat
    BY <1>1, <1>2, <1>4, <2>1
  <2> QED
    BY <1>1, <2>2, QuotientAtLeast
<1> HIDE DEF p, c
<1>6. p + Len(Lz4!Overflow(lit)) <= c + 1
  BY <1>2, <1>3, <1>4, <1>5
<1> QED
  BY <1>3, <1>4, <1>6 DEF p, c

LEMMA RoomAtFirst ==
  ASSUME Lz4!Lz4Assumption, Lz4!Init
  PROVE  Roomy
<1>1. Len(dst) = 0 /\ anchor = 0 /\ pc = "compress"
  BY DEF Lz4!Init
<1>2. 0 \div Lz4!Continue \in Nat
  BY Sizes, Division
<1> QED
  BY <1>1, <1>2 DEF Roomy

LEMMA RoomKept ==
  ASSUME Lz4!Lz4Assumption, MinMatch >= 4, Lz4Sound, Roomy, [Lz4!Next]_(Lz4!vars)
  PROVE  Roomy'
<1> USE DEF Lz4Sound
<1>1. /\ src \in Seq(Lz4!Byte) /\ Len(src) \in Nat /\ dst \in Seq(Lz4!Byte) /\ Len(dst) \in Nat
      /\ ip \in Nat /\ anchor \in Nat /\ anchor <= ip /\ ip <= Len(src) /\ MinMatch \in Nat
  BY Typed, Sizes
<1>2. CASE Lz4!Match
  <2> DEFINE lit == ip - anchor
             n   == Lz4!MatchLen - MinMatch
             off == ip - Lz4!Candidate
             w   == Lz4!Sequence(anchor, ip, off, n)
  <2>1. /\ Lz4!Searching /\ Lz4!Matches /\ pc = "compress" /\ pc' = pc
        /\ anchor' = ip + Lz4!MatchLen /\ dst' = dst \o w
    BY <1>2 DEF Lz4!Match, Lz4!Anchor, Lz4!Searching
  <2>2. off \in 1..Lz4!MaxDist /\ Lz4!MatchLen \in Nat /\ Lz4!MatchLen >= MinMatch
    BY <2>1, MatchIs
  <2>3. lit \in Nat /\ n \in Nat
    BY <1>1, <2>2
  <2>4. w \in Seq(Lz4!Byte) /\ Len(w) = 1 + Len(Lz4!Overflow(lit)) + lit + 2 + Len(Lz4!Overflow(n))
    <3>1. 0 \in Nat /\ <<>> \in Seq(Lz4!Byte)
      OBVIOUS
    <3>2. LET s == Lz4!Sequence(anchor, ip, off, n)
          IN s \in Seq(Lz4!Byte) /\ Len(s) = 1 + Len(Lz4!Overflow(lit)) + lit + 2 + Len(Lz4!Overflow(n))
      <4> HIDE DEF off, n
      <4>1. PICK d \in Seq(Lz4!Byte), p \in Nat : d = <<>> /\ p = 0
        BY <3>1
      <4>2. Holds(d, p, Lz4!Sequence(anchor, ip, off, n)) \in BOOLEAN
        BY DEF Holds
      <4> QED
        BY <1>1, <2>2, <2>3, <4>1, <4>2, SequenceIs
    <3> QED
      BY <3>2
  <2> HIDE DEF w
  <2>5. Len(dst') = Len(dst) + Len(w)
    BY <1>1, <2>1, <2>4, JoinedIs
  <2>6. Len(Lz4!Overflow(n)) \in Nat /\ Len(Lz4!Overflow(n)) <= n
    BY <2>3, OverflowShort
  <2>7. /\ Len(Lz4!Overflow(lit)) \in Nat
        /\ anchor \div Lz4!Continue \in Nat /\ anchor' \div Lz4!Continue \in Nat
        /\ (anchor \div Lz4!Continue) + Len(Lz4!Overflow(lit)) <= (anchor' \div Lz4!Continue) + 1
    <3>1. anchor' \in Nat /\ anchor + lit <= anchor'
      BY <1>1, <2>1, <2>2
    <3> QED
      BY <1>1, <2>3, <3>1, RoomGrows
  <2>8. Len(dst) <= anchor + (anchor \div Lz4!Continue)
    BY <2>1 DEF Roomy
  <2>9. anchor' = anchor + lit + n + MinMatch
    BY <1>1, <2>1, <2>2
  <2> HIDE DEF lit, n, off
  <2>10. Len(dst') <= anchor' + (anchor' \div Lz4!Continue)
    BY <1>1, <2>3, <2>4, <2>5, <2>6, <2>7, <2>8, <2>9
  <2> QED
    BY <2>1, <2>10 DEF Roomy
<1>3. CASE Lz4!LastLiterals
  <2> DEFINE lit == Len(src) - anchor
  <2>1. /\ pc = "compress" /\ pc' = "compressed" /\ src' = src
        /\ dst' = IF anchor < Len(src)
                    THEN dst \o <<Lz4!Token(lit, 0)>> \o Lz4!Literals(anchor, Len(src)) ELSE dst
    BY <1>3 DEF Lz4!LastLiterals
  <2>2. lit \in Nat /\ anchor + lit = Len(src) /\ anchor <= Len(src) /\ Len(src) <= Len(src)
    BY <1>1
  <2>3. Len(Lz4!Literals(anchor, Len(src))) = Len(Lz4!Overflow(lit)) + lit /\ Lz4!Literals(anchor, Len(src)) \in Seq(Lz4!Byte)
    BY <1>1, <2>2, LiteralsAre
  <2>4. /\ Len(Lz4!Overflow(lit)) \in Nat
        /\ anchor \div Lz4!Continue \in Nat /\ Len(src) \div Lz4!Continue \in Nat
        /\ (anchor \div Lz4!Continue) + Len(Lz4!Overflow(lit)) <= (Len(src) \div Lz4!Continue) + 1
    BY <1>1, <2>2, RoomGrows
  <2>5. <<Lz4!Token(lit, 0)>> \in Seq(Lz4!Byte) /\ Len(<<Lz4!Token(lit, 0)>>) = 1
    BY <2>2, TokenHalves
  <2>6. Len(dst') \in Nat /\ Len(dst') <= Len(dst) + 1 + Len(Lz4!Overflow(lit)) + lit
    <3>1. PICK tok \in Seq(Lz4!Byte) : tok = <<Lz4!Token(lit, 0)>>
      BY <2>5
    <3>2. dst \o tok \in Seq(Lz4!Byte) /\ Len(dst \o tok) = Len(dst) + Len(tok)
      BY <1>1, JoinedIs
    <3>3. Len((dst \o tok) \o Lz4!Literals(anchor, Len(src))) = Len(dst \o tok) + Len(Lz4!Literals(anchor, Len(src)))
      <4>1. PICK begun \in Seq(Lz4!Byte), rest \in Seq(Lz4!Byte) :
              begun = dst \o tok /\ rest = Lz4!Literals(anchor, Len(src))
        BY <2>3, <3>2
      <4>2. Len(begun \o rest) = Len(begun) + Len(rest)
        BY JoinedIs
      <4> QED
        BY <4>1, <4>2
    <3>4. dst' \in {dst, (dst \o tok) \o Lz4!Literals(anchor, Len(src))}
      BY <2>1, <3>1
    <3>5. Len(dst) \in Nat
      BY <1>1
    <3> HIDE DEF lit
    <3>6. CASE dst' = dst
      BY <2>2, <2>4, <3>5, <3>6
    <3>7. CASE dst' = (dst \o tok) \o Lz4!Literals(anchor, Len(src))
      BY <2>2, <2>3, <2>4, <2>5, <3>1, <3>2, <3>3, <3>5, <3>7
    <3> QED
      BY <3>4, <3>6, <3>7
  <2>7. Len(dst) <= anchor + (anchor \div Lz4!Continue)
    BY <2>1 DEF Roomy
  <2> HIDE DEF lit
  <2>8. Len(dst') <= Len(src) + (Len(src) \div Lz4!Continue) + 2
    BY <1>1, <2>2, <2>4, <2>6, <2>7
  <2> QED
    BY <2>1, <2>8 DEF Roomy, Lz4!OverheadBounded
<1>4. CASE Lz4!NoMatch \/ Lz4!Deliver \/ Lz4!EndLiterals \/ Lz4!BadOffset \/ Lz4!CopyMatch \/ Lz4!EndBlock \/ UNCHANGED Lz4!vars
  <2>1. UNCHANGED <<src, dst, anchor>> /\ (pc = "compress" <=> pc' = "compress")
    BY <1>4 DEF Lz4!NoMatch, Lz4!Deliver, Lz4!EndLiterals, Lz4!BadOffset, Lz4!CopyMatch, Lz4!EndBlock, Lz4!vars, Lz4!Searching, Lz4!AtSequence,
                Lz4!Finish, Lz4!compressor
  <2> QED
    BY <2>1 DEF Roomy, Lz4!OverheadBounded
<1> QED
  BY <1>2, <1>3, <1>4 DEF Lz4!Next

LEMMA RoomSuffices ==
  ASSUME Lz4!Lz4Assumption, Lz4Sound, Roomy
  PROVE  Lz4!OverheadBounded
<1>1. /\ Len(src) \in Nat /\ Len(dst) \in Nat /\ anchor \in Nat /\ anchor <= Len(src)
      /\ Lz4!Continue \in Nat \ {0}
  <2>1. /\ Len(src) \in Nat /\ Len(dst) \in Nat /\ anchor \in Nat /\ anchor <= ip
        /\ ip \in Nat /\ ip <= Len(src) /\ Lz4!Continue \in Nat \ {0}
    BY Typed, Sizes DEF Lz4Sound
  <2> QED
    BY <2>1
<1>2. CASE pc = "compress"
  <2>1. Len(dst) <= anchor + (anchor \div Lz4!Continue)
    BY <1>2 DEF Roomy
  <2>2. /\ anchor \div Lz4!Continue \in Nat /\ Len(src) \div Lz4!Continue \in Nat
        /\ (anchor \div Lz4!Continue) + Len(Lz4!Overflow(0)) <= (Len(src) \div Lz4!Continue) + 1
        /\ Len(Lz4!Overflow(0)) \in Nat
    <3>1. 0 \in Nat /\ anchor + 0 <= Len(src)
      BY <1>1
    <3> QED
      BY <1>1, <3>1, RoomGrows
  <2> QED
    BY <1>1, <2>1, <2>2 DEF Lz4!OverheadBounded
<1>3. CASE pc # "compress"
  BY <1>3 DEF Roomy
<1> QED
  BY <1>2, <1>3

(* No block outgrows what is set aside for it (lz4_compress.go:34): here,  *)
(* that a match is of at least four bytes is what makes up for its offset, *)
(* its token and the rest of a length.                                     *)
THEOREM Lz4OverheadAlwaysBounded ==
  ASSUME Lz4!Lz4Assumption, MinMatch >= 4
  PROVE  Lz4!Spec => []Lz4!OverheadBounded
<1>1. Lz4!Init => Lz4Sound /\ Roomy
  BY Lz4First, RoomAtFirst
<1>2. (Lz4Sound /\ Roomy) /\ [Lz4!Next]_(Lz4!vars) => (Lz4Sound /\ Roomy)'
  BY Lz4Kept, RoomKept
<1>3. Lz4Sound /\ Roomy => Lz4!OverheadBounded
  BY RoomSuffices
<1> QED
  BY <1>1, <1>2, <1>3, PTL DEF Lz4!Spec

(* What holds of lz4 while it is what the image is compressed with.        *)
Lz4Inv == codec = "lz4" => Lz4Sound

Lz4Room == codec = "lz4" => Roomy

LEMMA Lz4Begins ==
  ASSUME Init
  PROVE  Lz4Inv /\ Lz4Room
<1> SUFFICES ASSUME codec = "lz4"
             PROVE  Lz4Sound /\ Roomy
  BY DEF Lz4Inv, Lz4Room
<1>1. Lz4!Init
  BY DEF Init
<1>2. Lz4!Lz4Assumption
  BY CodecAssumption DEF CodecAssumption
<1> QED
  BY <1>1, <1>2, Lz4First, RoomAtFirst

LEMMA Lz4Steps ==
  ASSUME Lz4Inv, [Next]_vars
  PROVE  Lz4Inv' /\ (MinMatch >= 4 /\ Lz4Room => Lz4Room')
<1> SUFFICES ASSUME codec' = "lz4"
             PROVE  (Lz4Sound)' /\ (MinMatch >= 4 /\ Lz4Room => (Roomy)')
  BY DEF Lz4Inv, Lz4Room
<1>1. codec = "lz4"
  BY DEF Next, vars
<1>2. [Lz4!Next]_(Lz4!vars)
  <2>1. CASE Next
    BY <1>1, <2>1 DEF Next
  <2>2. CASE UNCHANGED vars
    BY <2>2 DEF vars, common, lzVars, Lz4!vars
  <2> QED
    BY <2>1, <2>2
<1>3. Lz4!Lz4Assumption /\ Lz4Sound
  BY <1>1, CodecAssumption DEF CodecAssumption, Lz4Inv
<1> QED
  BY <1>1, <1>2, <1>3, Lz4Kept, RoomKept DEF Lz4Room

(* No block of lz4 outgrows what is set aside for it (lz4_compress.go:34). *)
(* That a match is of at least four bytes makes up for its offset, its     *)
(* token and the rest of a length.                                         *)
THEOREM OverheadAlwaysBounded ==
  ASSUME MinMatch >= 4
  PROVE  Spec => []OverheadBounded
<1>1. Init => Lz4Inv /\ Lz4Room
  BY Lz4Begins
<1>2. (Lz4Inv /\ Lz4Room) /\ [Next]_vars => (Lz4Inv /\ Lz4Room)'
  BY Lz4Steps
<1>3. Lz4Inv /\ Lz4Room => OverheadBounded
  BY CodecAssumption, RoomSuffices
     DEF CodecAssumption, Lz4Inv, Lz4Room, OverheadBounded
<1> QED
  BY <1>1, <1>2, <1>3, PTL DEF Spec

(* With lz4, what was compressed is read back, and from a block that is    *)
(* cut the beginning of it, without an error (lz4_decompress.go:134).      *)
THEOREM Lz4AlwaysReadsBack ==
  Spec => [](codec = "lz4" => TypeOK /\ RoundTrip /\ CutGivesPrefix)
<1>1. Init => Lz4Inv
  BY Lz4Begins
<1>2. Lz4Inv /\ [Next]_vars => Lz4Inv'
  BY Lz4Steps
<1>3. Lz4Inv => (codec = "lz4" => TypeOK /\ RoundTrip /\ CutGivesPrefix)
  BY CodecAssumption, Lz4Holds
     DEF CodecAssumption, Lz4Inv, TypeOK, RoundTrip, CutGivesPrefix
<1> QED
  BY <1>1, <1>2, <1>3, PTL DEF Spec

-----------------------------------------------------------------------------
(* lzo, with data of at most 13 bytes.                                     *)

(* What it is compressed to.                                               *)
ShortBlock == <<17 + Len(src)>> \o src \o <<17, 0, 0>>

(* A block that is delivered whole gives the data with its first run; the  *)
(* decompressor then stands before the end marker or, if there is no data, *)
(* takes that for a match of what it has not.                              *)
LzoShort ==
  /\ src \in Seq(Lzo!Byte)
  /\ Lzo!TooShort =>
       /\ pc # "compress" => dst = ShortBlock
       /\ pc \in {"decompress", "done"} /\ in = dst =>
            out = src /\ t = 17 /\ pos = IF src = <<>> THEN 1 ELSE Len(src) + 2

LzoInv == codec = "lzo" => LzoShort

(* A part of a sequence that begins with its second element.               *)
LEMMA PartIs ==
  ASSUME NEW S, NEW s \in Seq(S), NEW n \in Nat, n < Len(s)
  PROVE  /\ SubSeq(s, 2, n + 1) \in Seq(S) /\ Len(SubSeq(s, 2, n + 1)) = n
         /\ \A k \in 1..n : SubSeq(s, 2, n + 1)[k] = s[k + 1]
<1>1. Len(s) \in Nat /\ \A k \in 1..Len(s) : s[k] \in S
  OBVIOUS
<1>2. ASSUME NEW k \in 2..n + 1
      PROVE  s[k] \in S
  BY <1>1
<1> QED
  BY <1>1, <1>2, SubSeqProperties

LEMMA ShortBlockIs ==
  ASSUME NEW S, src \in Seq(S)
  PROVE  /\ Len(src) \in Nat /\ Len(ShortBlock) = Len(src) + 4
         /\ ShortBlock[1] = 17 + Len(src)
         /\ \A k \in 1..Len(src) : ShortBlock[k + 1] = src[k]
         /\ ShortBlock[Len(src) + 2] = 17
         /\ ShortBlock[Len(src) + 3] = 0 /\ ShortBlock[Len(src) + 4] = 0
         /\ \E T : ShortBlock \in Seq(T)
<1>1. PICK n \in Nat : n = Len(src)
  OBVIOUS
<1>2. PICK T : T = S \cup {17, 0, 17 + n}
  OBVIOUS
<1>3. src \in Seq(T)
  BY <1>2
<1>4. PICK a \in Seq(T), e \in Seq(T) : a = <<17 + n>> /\ e = <<17, 0, 0>>
  <2>1. 17 \in T /\ 0 \in T /\ 17 + n \in T
    BY <1>2
  <2>2. <<17 + n>> \in Seq(T) /\ <<17, 0, 0>> \in Seq(T)
    BY <2>1
  <2> QED
    BY <2>2
<1>5. Len(a) = 1 /\ a[1] = 17 + n /\ Len(e) = 3 /\ e[1] = 17 /\ e[2] = 0 /\ e[3] = 0
  BY <1>4
<1>6. PICK s \in Seq(T) : s = a \o src
  <2>1. a \o src \in Seq(T)
    BY <1>3
  <2> QED
    BY <2>1
<1>7. /\ Len(s) = n + 1 /\ s[1] = 17 + n
      /\ \A k \in 1..n : s[k + 1] = src[k]
  <2>1. Len(s) = Len(a) + Len(src) /\ \A k \in 1..Len(a) : s[k] = a[k]
    BY <1>3, <1>6
  <2>2. \A k \in 1..Len(src) : s[Len(a) + k] = src[k]
    BY <1>3, <1>6
  <2> QED
    BY <1>1, <1>5, <2>1, <2>2
<1>8. PICK d \in Seq(T) : d = s \o e
  <2>1. s \o e \in Seq(T)
    OBVIOUS
  <2> QED
    BY <2>1
<1>9. /\ Len(d) = n + 4
      /\ \A k \in 1..n + 1 : d[k] = s[k]
      /\ d[n + 2] = 17 /\ d[n + 3] = 0 /\ d[n + 4] = 0
  <2>1. Len(d) = Len(s) + Len(e) /\ \A k \in 1..Len(s) : d[k] = s[k]
    BY <1>8
  <2>2. \A k \in 1..Len(e) : d[Len(s) + k] = e[k]
    BY <1>8
  <2>3. d[n + 1 + 1] = e[1] /\ d[n + 1 + 2] = e[2] /\ d[n + 1 + 3] = e[3]
    BY <1>5, <1>7, <2>2
  <2>4. n + 1 + 1 = n + 2 /\ n + 1 + 2 = n + 3 /\ n + 1 + 3 = n + 4
    OBVIOUS
  <2> QED
    BY <1>5, <1>7, <2>1, <2>3, <2>4
<1>10. ShortBlock = d
  BY <1>1, <1>4, <1>6, <1>8 DEF ShortBlock
<1>11. ASSUME NEW k \in 1..n
       PROVE  d[k + 1] = src[k]
  <2>1. k + 1 \in 1..n + 1
    OBVIOUS
  <2> QED
    BY <1>7, <1>9, <2>1
<1>12. d[1] = 17 + n
  BY <1>7, <1>9
<1> QED
  BY <1>1, <1>9, <1>10, <1>11, <1>12

LEMMA ShortFirst ==
  ASSUME NEW S, src \in Seq(S), in = ShortBlock, Lzo!First
  PROVE  out' = src /\ t' = 17 /\ pos' = IF src = <<>> THEN 1 ELSE Len(src) + 2
<1>1. PICK n \in Nat : n = Len(src)
  OBVIOUS
<1>2. /\ Len(in) = n + 4 /\ in[1] = 17 + n
      /\ \A k \in 1..n : in[k + 1] = src[k]
      /\ in[n + 2] = 17
  BY <1>1, ShortBlockIs
<1>3. CASE src = <<>>
  <2>1. n = 0 /\ in[1] = 17
    BY <1>1, <1>2, <1>3
  <2>2. Lzo!FirstEnd = 1
    BY <2>1 DEF Lzo!FirstEnd
  <2>3. SubSeq(in, 2, 1) = <<>>
    OBVIOUS
  <2> QED
    BY <1>3, <2>1, <2>2, <2>3 DEF Lzo!First
<1>4. CASE src # <<>>
  <2>1. n > 0
    BY <1>1, <1>4
  <2>2. Lzo!FirstEnd = n + 1 /\ in[1] > 17
    BY <1>2, <2>1 DEF Lzo!FirstEnd, Lzo!Lesser
  <2>3. SubSeq(in, 2, n + 1) = src
    <3>1. PICK u : u = SubSeq(in, 2, n + 1)
      OBVIOUS
    <3>2. PICK T : in \in Seq(T)
      BY ShortBlockIs
    <3>3. u \in Seq(T) /\ Len(u) = n /\ \A k \in 1..n : u[k] = in[k + 1]
      BY <1>2, <3>1, <3>2, PartIs
    <3> QED
      BY <1>1, <1>2, <3>1, <3>3, SeqEqual
  <2> QED
    BY <1>1, <1>2, <1>4, <2>1, <2>2, <2>3 DEF Lzo!First
<1> QED
  BY <1>3, <1>4

(* The end marker is no match: its distance is 0.                          *)
LEMMA ShortEnds ==
  ASSUME NEW S, src \in Seq(S), in = ShortBlock, out = src, t = 17,
         pos = IF src = <<>> THEN 1 ELSE Len(src) + 2
  PROVE  ~Lzo!CanCopy
<1>1. PICK n \in Nat : n = Len(src)
  OBVIOUS
<1>2. CASE src = <<>>
  BY <1>2 DEF Lzo!CanCopy
<1>3. CASE src # <<>>
  <2>1. /\ Len(in) = n + 4 /\ in[n + 3] = 0 /\ in[n + 4] = 0 /\ pos = n + 2
    BY <1>1, <1>3, ShortBlockIs
  <2>2. Lzo!Length(8) = [len |-> 1, pos |-> n + 2]
    BY <2>1 DEF Lzo!Length
  <2>3. Lzo!Offset14(n + 2) = 0
    <3>1. n + 2 + 1 = n + 3 /\ n + 2 + 2 = n + 4
      OBVIOUS
    <3> QED
      BY <2>1, <3>1 DEF Lzo!Offset14
  <2>4. Lzo!Behind(Lzo!Length(8), 0).dist = 0
    BY <2>1, <2>2, <2>3 DEF Lzo!Behind, Lzo!None
  <2>5. Lzo!MatchRead = Lzo!None
    BY <2>4 DEF Lzo!MatchRead
  <2> QED
    BY <2>5 DEF Lzo!CanCopy, Lzo!None
<1> QED
  BY <1>2, <1>3

LEMMA LzoBegins ==
  ASSUME Init
  PROVE  LzoInv
<1> SUFFICES ASSUME codec = "lzo"
             PROVE  LzoShort
  BY DEF LzoInv
<1>1. Lzo!Init
  BY DEF Init
<1>2. src \in Seq(Lzo!Byte)
  BY <1>1, CodecAssumption DEF CodecAssumption, Lzo!LzoAssumption, Lzo!Init
<1> QED
  BY <1>1, <1>2 DEF LzoShort, Lzo!Init

LEMMA LzoSteps ==
  ASSUME LzoInv, [Next]_vars
  PROVE  LzoInv'
<1> SUFFICES ASSUME codec' = "lzo"
             PROVE  LzoShort'
  BY DEF LzoInv
<1>1. codec = "lzo" /\ LzoShort
  BY DEF Next, vars, LzoInv
<1>2. CASE UNCHANGED vars
  BY <1>1, <1>2 DEF vars, common, LzoShort, Lzo!TooShort, ShortBlock
<1>3. CASE Lzo!Next
  <2>1. src' = src
    BY <1>3 DEF Lzo!Next, Lzo!CompressShort, Lzo!NoMatch, Lzo!Match, Lzo!LastLiterals, Lzo!Deliver, Lzo!First,
                Lzo!Empty, Lzo!Decode, Lzo!End, Lzo!Stop, Lzo!vars
  <2>2. SUFFICES ASSUME Lzo!TooShort
                 PROVE  /\ pc' # "compress" => dst' = ShortBlock
                        /\ pc' \in {"decompress", "done"} /\ in' = dst' =>
                             out' = src /\ t' = 17 /\ pos' = IF src = <<>> THEN 1 ELSE Len(src) + 2
    BY <1>1, <2>1 DEF LzoShort, Lzo!TooShort, ShortBlock
  <2>3. src \in Seq(Lzo!Byte)
    BY <1>1 DEF LzoShort
  <2>4. CASE Lzo!CompressShort
    BY <2>4 DEF Lzo!CompressShort, ShortBlock, Lzo!EndMarker
  <2>5. CASE Lzo!NoMatch \/ Lzo!Match \/ Lzo!LastLiterals
    BY <2>2, <2>5 DEF Lzo!NoMatch, Lzo!Match, Lzo!LastLiterals, Lzo!Searching
  <2>6. CASE Lzo!Deliver
    BY <1>1, <2>2, <2>6 DEF Lzo!Deliver, LzoShort, Lzo!compressor
  <2>7. CASE Lzo!First
    <3>1. pc = "first" /\ dst' = dst /\ in' = in
      BY <2>7 DEF Lzo!First, Lzo!compressor
    <3>2. dst = ShortBlock
      BY <1>1, <2>2, <3>1 DEF LzoShort
    <3> QED
      BY <2>3, <2>7, <3>1, <3>2, ShortFirst
  <2>8. CASE Lzo!Empty
    <3>1. pc = "first" /\ dst' = dst /\ in' = in /\ in = <<>>
      BY <2>8 DEF Lzo!Empty, Lzo!Stop, Lzo!compressor
    <3>2. dst = ShortBlock
      BY <1>1, <2>2, <3>1 DEF LzoShort
    <3>3. in # ShortBlock
      <4>1. Len(src) \in Nat /\ Len(ShortBlock) = Len(src) + 4
        BY <2>3, ShortBlockIs
      <4> QED
        BY <3>1, <4>1
    <3> QED
      BY <3>1, <3>2, <3>3
  <2>9. CASE Lzo!Decode
    <3>1. pc = "decompress" /\ dst' = dst /\ in' = in /\ Lzo!CanCopy
      BY <2>9 DEF Lzo!Decode, Lzo!compressor
    <3>2. dst = ShortBlock /\ (in = dst => out = src /\ t = 17 /\ pos = IF src = <<>> THEN 1 ELSE Len(src) + 2)
      BY <1>1, <2>2, <3>1 DEF LzoShort
    <3> QED
      BY <2>3, <3>1, <3>2, ShortEnds
  <2>10. CASE Lzo!End
    <3>1. pc = "decompress" /\ UNCHANGED <<dst, in, out, t, pos>>
      BY <2>10 DEF Lzo!End, Lzo!Stop, Lzo!compressor
    <3> QED
      BY <1>1, <2>2, <3>1 DEF LzoShort
  <2>11. CASE UNCHANGED Lzo!vars
    BY <1>1, <2>2, <2>11 DEF Lzo!vars, LzoShort
  <2> QED
    BY <1>3, <2>4, <2>5, <2>6, <2>7, <2>8, <2>9, <2>10, <2>11 DEF Lzo!Next
<1> QED
  BY <1>1, <1>2, <1>3 DEF Next

(* Data of at most 13 bytes, which LzoCompress does not search, is one run *)
(* of literals, and lzoDecompress reads it back (lzo_compress.go:26-37,    *)
(* lzo_decompress.go).                                                     *)
THEOREM ShortAlwaysReadBack == Spec => []ShortRoundTrip
<1>1. LzoInv => ShortRoundTrip
  BY DEF LzoInv, LzoShort, ShortRoundTrip, Lzo!ShortRoundTrip
<1> QED
  BY <1>1, LzoBegins, LzoSteps, PTL DEF Spec

-----------------------------------------------------------------------------
(* The tables that zstd's users share.                                     *)

(* What the provers do not know of powers.                                 *)
PowersOfTwo == \A n \in Nat : 2^n \in Nat \ {0}

Fields == {"pc", "i", "sym", "first", "symNext", "stale"}

HasTable == DOMAIN numBits = 0..Tables!Size - 1 /\ DOMAIN newState = 0..Tables!Size - 1

HasMap == sym2state \in [Tables!Symbols -> -1..Tables!Size - 1]

(* A goroutine that has begun to fill the table or the map has put one     *)
(* there, as has whoever said that they are ready; what it is going to     *)
(* keep of a symbol is a place in the table.                               *)
InPlace(g) ==
  LET me == thread[g]
  IN /\ DOMAIN me = Fields
     /\ me.pc \notin {"check", "fresh"} => HasTable
     /\ me.pc \in {"look", "load", "collect", "ready", "use"} => HasMap
     /\ me.pc \in {"look", "load", "collect"} => me.i \in 0..Tables!Size - 1
     /\ me.pc = "collect" /\ me.sym \in Tables!Symbols => me.first \in -1..Tables!Size - 1

AllInPlace ==
  /\ job \in Cases
  /\ DOMAIN thread = Tables!Threads
  /\ \A g \in Tables!Threads : InPlace(g)
  /\ ready => HasTable /\ HasMap

TablesInv == codec = "tables" => AllInPlace

LEMMA SizeIs ==
  ASSUME PowersOfTwo, job \in Cases
  PROVE  Tables!Size \in Nat \ {0}
BY CodecAssumption DEF CodecAssumption, Tables!PredAssumption, PowersOfTwo, Tables!Size

(* A goroutine goes on; the others stay where they are.                    *)
LEMMA GoesOn ==
  ASSUME DOMAIN thread = Tables!Threads, NEW g \in Tables!Threads, job' = job,
         NEW there, DOMAIN there = Fields, Tables!GoOn(g, there)
  PROVE  /\ DOMAIN thread' = Tables!Threads /\ DOMAIN thread'[g] = Fields
         /\ thread'[g].pc = there.pc /\ thread'[g].i = there.i
         /\ thread'[g].sym = there.sym /\ thread'[g].first = there.first
         /\ \A o \in Tables!Threads : o # g => thread'[o] = thread[o]
BY DEF Tables!GoOn, Fields

LEMMA GoesOnFresh ==
  ASSUME DOMAIN thread = Tables!Threads, NEW g \in Tables!Threads, job' = job,
         \A o \in Tables!Threads : DOMAIN thread[o] = Fields,
         NEW pcNext, Tables!GoOnFresh(g, pcNext)
  PROVE  /\ DOMAIN thread' = Tables!Threads
         /\ \A o \in Tables!Threads : DOMAIN thread'[o] = Fields
         /\ thread'[g].pc = pcNext /\ thread'[g].i = 0
         /\ \A o \in Tables!Threads : o # g =>
              /\ thread'[o].pc = thread[o].pc /\ thread'[o].i = thread[o].i
              /\ thread'[o].sym = thread[o].sym /\ thread'[o].first = thread[o].first
BY DEF Tables!GoOnFresh, Fields

(* What is in place stays there, as long as there is a table and a map,    *)
(* for a goroutine that does not move.                                     *)
LEMMA StaysInPlace ==
  ASSUME NEW o, InPlace(o), job' = job, HasTable => HasTable', HasMap => HasMap',
         DOMAIN thread'[o] = Fields,
         thread'[o].pc = thread[o].pc, thread'[o].i = thread[o].i,
         thread'[o].sym = thread[o].sym, thread'[o].first = thread[o].first
  PROVE  InPlace(o)'
BY DEF InPlace, Tables!Size, Tables!Symbols

(* After a step of g it is enough to look at g.                            *)
LEMMA OneMoves ==
  ASSUME AllInPlace, NEW g \in Tables!Threads, job' = job,
         NEW there, DOMAIN there = Fields, Tables!GoOn(g, there),
         HasTable => HasTable', HasMap => HasMap', ready' => (HasTable /\ HasMap)',
         there.pc \notin {"check", "fresh"} => HasTable',
         there.pc \in {"look", "load", "collect", "ready", "use"} => HasMap',
         there.pc \in {"look", "load", "collect"} => there.i \in 0..Tables!Size - 1,
         there.pc = "collect" /\ there.sym \in Tables!Symbols => there.first \in -1..Tables!Size - 1
  PROVE  AllInPlace'
<1>1. /\ DOMAIN thread' = Tables!Threads /\ DOMAIN thread'[g] = Fields
      /\ thread'[g].pc = there.pc /\ thread'[g].i = there.i
      /\ thread'[g].sym = there.sym /\ thread'[g].first = there.first
      /\ \A o \in Tables!Threads : o # g => thread'[o] = thread[o]
  BY GoesOn DEF AllInPlace
<1>2. InPlace(g)'
  BY <1>1 DEF InPlace, Tables!Size, Tables!Symbols
<1>3. ASSUME NEW o \in Tables!Threads, o # g
      PROVE  InPlace(o)'
  <2>1. InPlace(o) /\ DOMAIN thread[o] = Fields
    BY DEF AllInPlace, InPlace
  <2>2. thread'[o] = thread[o]
    BY <1>1, <1>3
  <2> QED
    BY <2>1, <2>2, StaysInPlace
<1>4. Tables!Threads' = Tables!Threads
  BY DEF Tables!Threads
<1> QED
  BY <1>1, <1>2, <1>3, <1>4 DEF AllInPlace

LEMMA FreshMoves ==
  ASSUME AllInPlace, NEW g \in Tables!Threads, job' = job,
         NEW pcNext, pcNext \notin {"load", "collect", "ready", "use"}, Tables!GoOnFresh(g, pcNext),
         PowersOfTwo, ready' => (HasTable /\ HasMap)',
         HasTable', HasMap => HasMap', pcNext = "look" => HasMap'
  PROVE  AllInPlace'
<1>1. \A o \in Tables!Threads : InPlace(o) /\ DOMAIN thread[o] = Fields
  BY DEF AllInPlace, InPlace
<1>2. /\ DOMAIN thread' = Tables!Threads
      /\ \A o \in Tables!Threads : DOMAIN thread'[o] = Fields
      /\ thread'[g].pc = pcNext /\ thread'[g].i = 0
      /\ \A o \in Tables!Threads : o # g =>
           /\ thread'[o].pc = thread[o].pc /\ thread'[o].i = thread[o].i
           /\ thread'[o].sym = thread[o].sym /\ thread'[o].first = thread[o].first
  BY <1>1, GoesOnFresh DEF AllInPlace
<1>3. Tables!Size' = Tables!Size /\ Tables!Size \in Nat \ {0} /\ Tables!Threads' = Tables!Threads
  BY SizeIs DEF Tables!Size, Tables!Threads, AllInPlace
<1>4. InPlace(g)'
  <2>1. 0 \in 0..Tables!Size - 1
    BY <1>3
  <2> QED
    BY <1>2, <1>3, <2>1 DEF InPlace
<1>5. ASSUME NEW o \in Tables!Threads, o # g
      PROVE  InPlace(o)'
  BY <1>1, <1>2, <1>5, StaysInPlace
<1> QED
  BY <1>2, <1>3, <1>4, <1>5 DEF AllInPlace

LEMMA TablesStep ==
  ASSUME PowersOfTwo, AllInPlace, NEW g \in Tables!Threads, Tables!Step(g)
  PROVE  AllInPlace'
<1>1. /\ job \in Cases /\ InPlace(g) /\ DOMAIN thread[g] = Fields
      /\ ready => HasTable /\ HasMap
  BY DEF AllInPlace, InPlace
<1>2. Tables!Size \in Nat \ {0}
  BY <1>1, SizeIs
<1>3. CASE Tables!IsReady(g)
  <2> DEFINE there == [thread[g] EXCEPT !.pc = "use", !.i = 0]
  <2>1. /\ UNCHANGED <<job, ready, numBits, newState, sym2state>> /\ ready
        /\ Tables!GoOn(g, there)
    BY <1>3 DEF Tables!IsReady, Tables!Goto, Tables!table
  <2>2. DOMAIN there = Fields /\ there.pc = "use"
    BY <1>1 DEF Fields
  <2>3. (HasTable <=> HasTable') /\ (HasMap <=> HasMap')
    BY <2>1 DEF HasTable, HasMap, Tables!Size, Tables!Symbols
  <2> HIDE DEF there
  <2> QED
    BY <1>1, <2>1, <2>2, <2>3, OneMoves
<1>4. CASE Tables!NotReady(g)
  <2> DEFINE there == [thread[g] EXCEPT !.pc = "fresh", !.i = 0]
  <2>1. UNCHANGED <<job, ready, numBits, newState, sym2state>> /\ Tables!GoOn(g, there)
    BY <1>4 DEF Tables!NotReady, Tables!Goto, Tables!table
  <2>2. DOMAIN there = Fields /\ there.pc = "fresh"
    BY <1>1 DEF Fields
  <2>3. (HasTable <=> HasTable') /\ (HasMap <=> HasMap')
    BY <2>1 DEF HasTable, HasMap, Tables!Size, Tables!Symbols
  <2> HIDE DEF there
  <2> QED
    BY <1>1, <2>1, <2>2, <2>3, OneMoves
<1>5. CASE Tables!Fresh(g)
  <2>1. /\ UNCHANGED <<job, ready, sym2state>> /\ Tables!GoOnFresh(g, "place")
        /\ numBits' = [i \in 0..Tables!Size - 1 |-> 0] /\ newState' = [i \in 0..Tables!Size - 1 |-> 0]
    BY <1>5 DEF Tables!Fresh
  <2>2. HasTable' /\ (HasMap <=> HasMap')
    BY <2>1 DEF HasTable, HasMap, Tables!Size, Tables!Symbols
  <2> QED
    BY <1>1, <2>1, <2>2, FreshMoves
<1>6. CASE Tables!Place(g)
  <2>1. UNCHANGED <<job, ready, numBits, newState, sym2state>> /\ thread[g].pc = "place"
    BY <1>6 DEF Tables!Place, Tables!At
  <2>2. (HasTable <=> HasTable') /\ (HasMap <=> HasMap') /\ HasTable
    BY <1>1, <2>1 DEF HasTable, HasMap, Tables!Size, Tables!Symbols, InPlace
  <2>3. PICK there : /\ Tables!GoOn(g, there) /\ DOMAIN there = Fields
                     /\ there.pc \in {"place", "read"}
    <3> DEFINE k == thread[g].i + 1
               filled == [Tables!Idle EXCEPT !.pc = "read",
                            !.symNext = [s \in Tables!Symbols |-> Tables!Weight(job.probs[s + 1])]]
               more == [thread[g] EXCEPT !.i = k]
    <3>1. Tables!GoOn(g, more) \/ Tables!GoOn(g, filled)
      BY <1>6 DEF Tables!Place
    <3>2. DOMAIN more = Fields /\ more.pc = "place"
      BY <1>1, <2>1 DEF Fields
    <3>3. DOMAIN filled = Fields /\ filled.pc = "read"
      BY DEF Fields, Tables!Idle
    <3> QED
      BY <3>1, <3>2, <3>3
  <2> QED
    BY <1>1, <2>1, <2>2, <2>3, OneMoves
<1>7. CASE Tables!ReadSymbol(g)
  <2>1. UNCHANGED <<job, ready, numBits, newState, sym2state>> /\ thread[g].pc = "read"
    BY <1>7 DEF Tables!ReadSymbol, Tables!At, Tables!table
  <2>2. (HasTable <=> HasTable') /\ (HasMap <=> HasMap') /\ HasTable
    BY <1>1, <2>1 DEF HasTable, HasMap, Tables!Size, Tables!Symbols, InPlace
  <2>3. PICK s : Tables!GoOn(g, [thread[g] EXCEPT !.sym = s, !.pc = "number"])
    BY <1>7 DEF Tables!ReadSymbol
  <2> DEFINE there == [thread[g] EXCEPT !.sym = s, !.pc = "number"]
  <2>4. DOMAIN there = Fields /\ there.pc = "number" /\ Tables!GoOn(g, there)
    BY <1>1, <2>3 DEF Fields
  <2> HIDE DEF there
  <2> QED
    BY <1>1, <2>1, <2>2, <2>4, OneMoves
<1>8. CASE Tables!StoreBits(g)
  <2> DEFINE there == [thread[g] EXCEPT !.pc = "next"]
  <2>1. UNCHANGED <<job, ready, newState, sym2state>> /\ thread[g].pc = "number" /\ Tables!GoOn(g, there)
    BY <1>8 DEF Tables!StoreBits, Tables!At
  <2>2. DOMAIN numBits' = DOMAIN numBits
    BY <1>8 DEF Tables!StoreBits, Tables!OrLost
  <2>3. (HasTable <=> HasTable') /\ (HasMap <=> HasMap') /\ HasTable
    BY <1>1, <2>1, <2>2 DEF HasTable, HasMap, Tables!Size, Tables!Symbols, InPlace
  <2>4. DOMAIN there = Fields /\ there.pc = "next"
    BY <1>1 DEF Fields
  <2> HIDE DEF there
  <2> QED
    BY <1>1, <2>1, <2>3, <2>4, OneMoves
<1>9. CASE Tables!StoreNext(g)
  <2> DEFINE me == thread[g]
             there == [Tables!Counted(me) EXCEPT !.i = @ + 1,
                         !.pc = IF me.i + 1 = Tables!Size THEN "map" ELSE "read"]
  <2>1. UNCHANGED <<job, ready, numBits, sym2state>> /\ thread[g].pc = "next" /\ Tables!GoOn(g, there)
    BY <1>9 DEF Tables!StoreNext, Tables!At
  <2>2. DOMAIN newState' = DOMAIN newState
    BY <1>9 DEF Tables!StoreNext, Tables!OrLost
  <2>3. (HasTable <=> HasTable') /\ (HasMap <=> HasMap') /\ HasTable
    BY <1>1, <2>1, <2>2 DEF HasTable, HasMap, Tables!Size, Tables!Symbols, InPlace
  <2>4. DOMAIN there = Fields /\ there.pc \in {"map", "read"}
    BY <1>1 DEF Fields, Tables!Counted
  <2> HIDE DEF there
  <2> QED
    BY <1>1, <2>1, <2>3, <2>4, OneMoves
<1>10. CASE Tables!FreshMap(g)
  <2>1. /\ UNCHANGED <<job, ready, numBits, newState>> /\ Tables!GoOnFresh(g, "look")
        /\ sym2state' = [s \in Tables!Symbols |-> -1] /\ thread[g].pc = "map"
    BY <1>10 DEF Tables!FreshMap, Tables!At, Tables!table, Tables!None
  <2>2. HasTable' /\ HasMap'
    <3>1. -1 \in -1..Tables!Size - 1
      BY <1>2
    <3> QED
      BY <1>1, <2>1, <3>1 DEF HasTable, HasMap, Tables!Size, Tables!Symbols, InPlace
  <2> QED
    BY <1>1, <2>1, <2>2, FreshMoves
<1>11. CASE Tables!Look(g)
  <2>1. UNCHANGED <<job, ready, numBits, newState, sym2state>> /\ thread[g].pc = "look"
    BY <1>11 DEF Tables!Look, Tables!At, Tables!table
  <2>2. (HasTable <=> HasTable') /\ (HasMap <=> HasMap') /\ HasTable /\ HasMap
    BY <1>1, <2>1 DEF HasTable, HasMap, Tables!Size, Tables!Symbols, InPlace
  <2>3. PICK s : Tables!GoOn(g, [thread[g] EXCEPT !.sym = s, !.pc = "load"])
    BY <1>11 DEF Tables!Look
  <2> DEFINE there == [thread[g] EXCEPT !.sym = s, !.pc = "load"]
  <2>4. DOMAIN there = Fields /\ there.pc = "load" /\ there.i = thread[g].i /\ Tables!GoOn(g, there)
    BY <1>1, <2>3 DEF Fields
  <2>5. thread[g].i \in 0..Tables!Size - 1
    BY <1>1, <2>1 DEF InPlace
  <2> HIDE DEF there
  <2> QED
    BY <1>1, <2>1, <2>2, <2>4, <2>5, OneMoves
<1>12. CASE Tables!Load(g)
  <2>1. UNCHANGED <<job, ready, numBits, newState, sym2state>> /\ thread[g].pc = "load"
    BY <1>12 DEF Tables!Load, Tables!At, Tables!table
  <2>2. (HasTable <=> HasTable') /\ (HasMap <=> HasMap') /\ HasTable /\ HasMap
    BY <1>1, <2>1 DEF HasTable, HasMap, Tables!Size, Tables!Symbols, InPlace
  <2>3. PICK f : /\ f \in {sym2state[thread[g].sym], -1}
                 /\ Tables!GoOn(g, [thread[g] EXCEPT !.first = f, !.pc = "collect"])
    BY <1>12 DEF Tables!Load, Tables!OrLost, Tables!None
  <2> DEFINE there == [thread[g] EXCEPT !.first = f, !.pc = "collect"]
  <2>4. /\ DOMAIN there = Fields /\ there.pc = "collect" /\ there.i = thread[g].i
        /\ there.sym = thread[g].sym /\ there.first = f /\ Tables!GoOn(g, there)
    BY <1>1, <2>3 DEF Fields
  <2>5. thread[g].i \in 0..Tables!Size - 1
    BY <1>1, <2>1 DEF InPlace
  <2>6. thread[g].sym \in Tables!Symbols => f \in -1..Tables!Size - 1
    BY <1>2, <2>2, <2>3 DEF HasMap
  <2> HIDE DEF there
  <2> QED
    BY <1>1, <2>1, <2>2, <2>4, <2>5, <2>6, OneMoves
<1>13. CASE Tables!Collect(g)
  <2> DEFINE me == thread[g]
             kept == IF me.first = -1 THEN me.i ELSE me.first
             there == [me EXCEPT !.i = @ + 1, !.first = -1,
                         !.pc = IF me.i + 1 = Tables!Size THEN "ready" ELSE "look"]
  <2>1. /\ UNCHANGED <<job, ready, numBits, newState>> /\ thread[g].pc = "collect" /\ Tables!GoOn(g, there)
        /\ sym2state' \in {[sym2state EXCEPT ![me.sym] = kept], sym2state}
    BY <1>13 DEF Tables!Collect, Tables!At, Tables!table, Tables!OrLost, Tables!None
  <2>2. HasTable /\ HasMap /\ me.i \in 0..Tables!Size - 1
        /\ (me.sym \in Tables!Symbols => kept \in -1..Tables!Size - 1)
    BY <1>1, <1>2, <2>1 DEF InPlace
  <2>3. HasMap'
    BY <2>1, <2>2 DEF HasMap, Tables!Size, Tables!Symbols
  <2>4. HasTable'
    BY <2>1, <2>2 DEF HasTable, Tables!Size
  <2>5. /\ DOMAIN there = Fields /\ there.pc \in {"ready", "look"} /\ there.i = me.i + 1
        /\ there.pc = "look" => me.i + 1 # Tables!Size
    BY <1>1 DEF Fields
  <2> HIDE DEF there
  <2>6. there.pc = "look" => there.i \in 0..Tables!Size - 1
    BY <1>2, <2>2, <2>5
  <2> QED
    BY <1>1, <2>1, <2>3, <2>4, <2>5, <2>6, OneMoves
<1>14. CASE Tables!Ready(g)
  <2> DEFINE there == [Tables!Idle EXCEPT !.pc = "use"]
  <2>1. UNCHANGED <<job, numBits, newState, sym2state>> /\ thread[g].pc = "ready" /\ Tables!GoOn(g, there)
    BY <1>14 DEF Tables!Ready, Tables!At, Tables!table
  <2>2. HasTable' /\ HasMap'
    BY <1>1, <2>1 DEF HasTable, HasMap, Tables!Size, Tables!Symbols, InPlace
  <2>3. DOMAIN there = Fields /\ there.pc = "use"
    BY DEF Fields, Tables!Idle
  <2> HIDE DEF there
  <2> QED
    BY <1>1, <2>1, <2>2, <2>3, OneMoves
<1> QED
  BY <1>3, <1>4, <1>5, <1>6, <1>7, <1>8, <1>9, <1>10, <1>11, <1>12, <1>13, <1>14 DEF Tables!Step

LEMMA TablesBegin ==
  ASSUME Init
  PROVE  TablesInv
<1> SUFFICES ASSUME codec = "tables"
             PROVE  AllInPlace
  BY DEF TablesInv
<1>1. Tables!Init
  BY DEF Init
<1>2. /\ job \in Cases /\ ready = FALSE
      /\ thread = [g \in Tables!Threads |-> Tables!Idle]
  BY <1>1 DEF Tables!Init
<1>3. DOMAIN Tables!Idle = Fields /\ Tables!Idle.pc = "check"
  BY DEF Tables!Idle, Fields
<1> QED
  BY <1>2, <1>3 DEF AllInPlace, InPlace

LEMMA TablesSteps ==
  ASSUME PowersOfTwo, TablesInv, [Next]_vars
  PROVE  TablesInv'
<1> SUFFICES ASSUME codec' = "tables"
             PROVE  AllInPlace'
  BY DEF TablesInv
<1>1. codec = "tables" /\ AllInPlace
  BY DEF Next, vars, TablesInv
<1>2. CASE UNCHANGED <<job, ready, numBits, newState, sym2state, thread>>
  BY <1>1, <1>2 DEF AllInPlace, InPlace, HasTable, HasMap, Tables!Size, Tables!Symbols, Tables!Threads
<1>3. CASE \E g \in Tables!Threads : Tables!Step(g)
  BY <1>1, <1>3, TablesStep
<1> QED
  BY <1>1, <1>2, <1>3 DEF Next, Tables!Next, vars, predVars, Tables!vars, Tables!table

(* However many goroutines build the shared tables at the same time, no    *)
(* state leaves them, while they are built or after (zstd_compress.go:454, *)
(* 567, 642).                                                              *)
THEOREM RacersAlwaysStayInRange ==
  ASSUME PowersOfTwo
  PROVE  Spec => []RacersStayInRange
<1>1. TablesInv => RacersStayInRange
  <2> SUFFICES ASSUME AllInPlace, NEW g \in Tables!Threads, Tables!At(g, "use")
               PROVE  /\ Tables!Symbols \subseteq DOMAIN sym2state
                      /\ DOMAIN numBits = 0..Tables!Size - 1 /\ DOMAIN newState = 0..Tables!Size - 1
                      /\ \A s \in Tables!Symbols : Tables!Found(s) \in 0..Tables!Size - 1
    BY DEF TablesInv, RacersStayInRange, Tables!RacersStayInRange, Tables!InUse
  <2>1. HasTable /\ HasMap
    BY DEF AllInPlace, InPlace, Tables!At
  <2>2. Tables!Size \in Nat \ {0}
    BY SizeIs DEF AllInPlace
  <2>3. ASSUME NEW s \in Tables!Symbols
        PROVE  Tables!Found(s) \in 0..Tables!Size - 1
    BY <2>1, <2>2 DEF HasMap, Tables!Found, Tables!None
  <2> QED
    BY <2>1, <2>3 DEF HasTable, HasMap
<1> QED
  BY <1>1, TablesBegin, TablesSteps, PTL DEF Spec

-----------------------------------------------------------------------------
(* xz.  XzStream_proofs is about the module XzStream itself.  Q is that    *)
(* module with this one's data; its definitions are those of Xz.           *)

Q == INSTANCE XzStream_proofs WITH Inputs <- XzInputs

LEMMA XzUnits ==
  Xz!Byte = Q!Byte /\ Xz!Operations = Q!Operations /\ Xz!Units = Q!Units
BY DEF Xz!Byte, Q!Byte, Xz!Operations, Q!Operations, Xz!Units, Q!Units

LEMMA XzOrder ==
  ASSUME NEW u PROVE Xz!InOrder(u) <=> Q!InOrder(u)
BY DEF Xz!InOrder, Q!InOrder, Xz!After, Q!After

LEMMA XzAssumed ==
  Xz!XzAssumption <=> Q!XzAssumption
BY XzUnits, XzOrder DEF Xz!XzAssumption, Q!XzAssumption

LEMMA XzInit ==
  Xz!Init <=> Q!Init
BY DEF Xz!Init, Q!Init, Xz!NoDec, Q!NoDec

LEMMA XzStored ==
  ASSUME NEW d PROVE Xz!XzCompress(d) = Q!XzCompress(d)
BY DEF Xz!XzCompress, Q!XzCompress, Xz!Chunks, Q!Chunks, Xz!Raw, Q!Raw, Xz!Header, Q!Header,
   Xz!Block, Q!Block, Xz!End, Q!End, Xz!Check, Q!Check, Xz!Index, Q!Index, Xz!Lesser, Q!Lesser

LEMMA XzWritten ==
  (Xz!Compress <=> Q!Compress) /\ (Xz!Deliver <=> Q!Deliver)
BY XzStored DEF Xz!Compress, Q!Compress, Xz!Deliver, Q!Deliver, Xz!Parts, Q!Parts

LEMMA XzUnit ==
  (Xz!Missing <=> Q!Missing) /\ Xz!Unit = Q!Unit /\ Xz!Stream = Q!Stream /\ Xz!NoDec = Q!NoDec
BY DEF Xz!Missing, Q!Missing, Xz!Unit, Q!Unit, Xz!Stream, Q!Stream, Xz!NoDec, Q!NoDec

LEMMA XzHas ==
  ASSUME NEW u PROVE Xz!Has(u) <=> Q!Has(u)
BY DEF Xz!Has, Q!Has

LEMMA XzAdvance ==
  ASSUME NEW u PROVE (Xz!Advance(u) <=> Q!Advance(u)) /\ (Xz!Return(u) <=> Q!Return(u))
BY DEF Xz!Advance, Q!Advance, Xz!Return, Q!Return, Xz!Stream, Q!Stream

LEMMA XzHeaders ==
  (Xz!ReadHeader <=> Q!ReadHeader) /\ (Xz!ReadBlockHeader <=> Q!ReadBlockHeader) /\ (Xz!SkipIndex <=> Q!SkipIndex) /\ (Xz!NoBlock <=> Q!NoBlock)
BY XzUnit, XzHas, XzAdvance DEF Xz!ReadHeader, Q!ReadHeader, Xz!ReadBlockHeader,
   Q!ReadBlockHeader, Xz!SkipIndex, Q!SkipIndex, Xz!NoBlock, Q!NoBlock

LEMMA XzEnds ==
  (Xz!Read <=> Q!Read) /\ (Xz!EndBlock <=> Q!EndBlock) /\ (Xz!NoChunk <=> Q!NoChunk)
BY XzUnit, XzHas, XzAdvance DEF Xz!Read, Q!Read, Xz!EndBlock, Q!EndBlock, Xz!NoChunk,
   Q!NoChunk, Xz!DecodeChunk, Q!DecodeChunk, Xz!Stream, Q!Stream

LEMMA XzNewDec ==
  Xz!NewDec(DictSize) = Q!NewDec(DictSize)
BY DEF Xz!NewDec, Q!NewDec

LEMMA XzPut ==
  ASSUME NEW s, NEW w PROVE Xz!PutBytes(s, w) = Q!PutBytes(s, w)
BY DEF Xz!PutBytes, Q!PutBytes, Xz!PutByte, Q!PutByte, Xz!NextPlace, Q!NextPlace,
   Xz!FoldLeft, Q!FoldLeft, Xz!MapThenFoldSet, Q!MapThenFoldSet, Xz!Max, Q!Max

LEMMA XzRaw ==
  (Xz!ReadUncompressed <=> Q!ReadUncompressed)
BY XzUnit, XzHas, XzAdvance, XzNewDec, XzPut DEF Xz!ReadUncompressed, Q!ReadUncompressed,
   Xz!DecodeChunk, Q!DecodeChunk

LEMMA XzLzma == (Xz!ReadLzma <=> Q!ReadLzma) /\ (Xz!Misunderstand <=> Q!Misunderstand)
<1>1. (Xz!Misunderstood <=> Q!Misunderstood) /\ (Xz!Resets <=> Q!Resets)
  BY XzUnit DEF Xz!Misunderstood, Q!Misunderstood, Xz!Resets, Q!Resets
<1>2. Xz!ChunkDec = Q!ChunkDec
  BY <1>1, XzNewDec DEF Xz!ChunkDec, Q!ChunkDec
<1>3. Xz!ReadLzma <=> Q!ReadLzma
  BY <1>1, <1>2, XzUnit, XzHas, XzAdvance
     DEF Xz!ReadLzma, Q!ReadLzma, Xz!DecodeChunk, Q!DecodeChunk
<1>4. Xz!Misunderstand <=> Q!Misunderstand
  BY <1>1, XzHas, Zenon
     DEF Xz!Misunderstand, Q!Misunderstand, Xz!DecodeChunk, Q!DecodeChunk, Xz!Stream, Q!Stream
<1> QED
  BY <1>3, <1>4

LEMMA XzCopied ==
  ASSUME NEW s, NEW d, NEW n PROVE Xz!CopyMatch(s, d, n) = Q!CopyMatch(s, d, n)
BY DEF Xz!CopyMatch, Q!CopyMatch, Xz!GetByte, Q!GetByte, Xz!PutBytes, Q!PutBytes,
   Xz!PutByte, Q!PutByte, Xz!NextPlace, Q!NextPlace,
   Xz!FoldLeft, Q!FoldLeft, Xz!MapThenFoldSet, Q!MapThenFoldSet, Xz!Max, Q!Max

LEMMA XzOp ==
  ASSUME NEW n PROVE Xz!Op(n) <=> Q!Op(n)
BY DEF Xz!Op, Q!Op, Xz!Decoding, Q!Decoding

LEMMA XzDecoded ==
  ASSUME NEW s PROVE (Xz!Decoded(s) <=> Q!Decoded(s)) /\ (Xz!EndChunk(s) <=> Q!EndChunk(s))
BY DEF Xz!Decoded, Q!Decoded, Xz!EndChunk, Q!EndChunk, Xz!Stream, Q!Stream

LEMMA XzReused ==
  ASSUME NEW r, NEW i PROVE Xz!Reused(r, i) = Q!Reused(r, i) /\ (Xz!Invalid(r, i) <=> Q!Invalid(r, i))
BY DEF Xz!Reused, Q!Reused, Xz!Invalid, Q!Invalid

LEMMA XzOperations ==
  (Xz!Enough <=> Q!Enough) /\ (Xz!EndMarker <=> Q!EndMarker) /\ (Xz!RunsOut <=> Q!RunsOut) /\ (Xz!Literal <=> Q!Literal)
BY XzOp, XzDecoded, XzPut, XzAdvance DEF Xz!Enough, Q!Enough, Xz!EndMarker, Q!EndMarker,
   Xz!RunsOut, Q!RunsOut, Xz!Literal, Q!Literal, Xz!Decoding, Q!Decoding, Xz!State, Q!State

LEMMA XzMatches ==
  (Xz!Match <=> Q!Match) /\ (Xz!Rep <=> Q!Rep)
BY XzOp, XzDecoded, XzCopied, XzReused, XzAdvance DEF Xz!Match, Q!Match, Xz!Rep, Q!Rep,
   Xz!State, Q!State

LEMMA XzVars ==
  UNCHANGED Xz!vars <=> UNCHANGED Q!vars
BY DEF Xz!vars, Q!vars

LEMMA XzNext ==
  Xz!Next <=> Q!Next
BY XzWritten, XzHeaders, XzEnds, XzRaw, XzLzma, XzOperations, XzMatches, XzVars DEF Xz!Next,
   Q!Next

LEMMA XzMeaning ==
  ASSUME NEW w PROVE Xz!Meaning(w) = Q!Meaning(w)
BY DEF Xz!Meaning, Q!Meaning, Xz!UnitMeaning, Q!UnitMeaning, Xz!LzmaMeaning, Q!LzmaMeaning,
   Xz!Followed, Q!Followed, Xz!Operated, Q!Operated, Xz!Repeated, Q!Repeated, Xz!Extended,
   Q!Extended, Xz!Forget, Q!Forget, Xz!Go, Q!Go, Xz!Start, Q!Start,
   Xz!FoldLeft, Q!FoldLeft, Xz!MapThenFoldSet, Q!MapThenFoldSet, Xz!Max, Q!Max,
   Xz!RemoveAt, Q!RemoveAt

LEMMA XzUnderstood ==
  ASSUME NEW w PROVE Xz!Understood(w) <=> Q!Understood(w)
BY DEF Xz!Understood, Q!Understood

LEMMA XzProperties ==
  /\ Q!TypeOK <=> Xz!TypeOK
  /\ Q!RoundTrip <=> Xz!RoundTrip
  /\ Q!ReadsItsMeaning <=> Xz!ReadsItsMeaning
  /\ Q!SoundIsRead <=> Xz!SoundIsRead
  /\ Q!TornIsReported <=> Xz!TornIsReported
<1>1. Xz!TypeOK <=> Q!TypeOK
  BY XzUnit DEF Xz!TypeOK, Q!TypeOK
<1>2. Xz!RoundTrip <=> Q!RoundTrip
  BY XzStored, Zenon DEF Xz!RoundTrip, Q!RoundTrip
<1>3. Xz!ReadsItsMeaning <=> Q!ReadsItsMeaning
  BY XzMeaning, XzUnderstood DEF Xz!ReadsItsMeaning, Q!ReadsItsMeaning, Xz!IsPrefix, Q!IsPrefix
<1>4. Xz!SoundIsRead <=> Q!SoundIsRead
  BY XzMeaning, XzUnderstood, Zenon DEF Xz!SoundIsRead, Q!SoundIsRead
<1>5. Xz!TornIsReported <=> Q!TornIsReported
  BY XzMeaning, XzUnderstood, Zenon DEF Xz!TornIsReported, Q!TornIsReported
<1> QED
  BY <1>1, <1>2, <1>3, <1>4, <1>5

(* What holds of xz while it is what the image is compressed with.         *)
XzInv == codec = "xz" => Q!XzInv

LEMMA XzBegins ==
  ASSUME Init
  PROVE  XzInv
<1> SUFFICES ASSUME codec = "xz"
             PROVE  Q!XzInv
  BY DEF XzInv
<1>1. Q!Init
  BY XzInit DEF Init
<1>2. Q!XzAssumption
  BY CodecAssumption, XzAssumed DEF CodecAssumption
<1> QED
  BY <1>1, <1>2, Q!XzBegins

LEMMA XzSteps ==
  ASSUME XzInv, [Next]_vars
  PROVE  XzInv'
<1> SUFFICES ASSUME codec' = "xz"
             PROVE  (Q!XzInv)'
  BY DEF XzInv
<1>1. codec = "xz"
  BY DEF Next, vars
<1>2. [Q!Next]_(Q!vars)
  <2>1. CASE Next
    BY <1>1, <2>1, XzNext DEF Next
  <2>2. CASE UNCHANGED vars
    BY <2>2 DEF vars, common, xzVars, Q!vars
  <2> QED
    BY <2>1, <2>2
<1>3. Q!XzAssumption /\ Q!XzInv
  BY <1>1, CodecAssumption, XzAssumed DEF CodecAssumption, XzInv
<1> QED
  BY <1>2, <1>3, Q!XzSteps

LEMMA XzImplies ==
  ASSUME XzInv
  PROVE  /\ codec = "xz" => TypeOK /\ RoundTrip /\ CutGivesPrefix
         /\ SoundIsRead /\ TornIsReported
<1>1. Q!XzAssumption
  BY CodecAssumption, XzAssumed DEF CodecAssumption
<1>2. codec = "xz" => /\ Xz!TypeOK /\ Xz!RoundTrip /\ Xz!ReadsItsMeaning
                      /\ Xz!SoundIsRead /\ Xz!TornIsReported
  <2> SUFFICES ASSUME codec = "xz"
               PROVE  /\ Q!TypeOK /\ Q!RoundTrip /\ Q!ReadsItsMeaning
                      /\ Q!SoundIsRead /\ Q!TornIsReported
    BY XzProperties
  <2> QED
    BY <1>1, Q!XzImplies DEF XzInv
<1>3. codec = "xz" => TypeOK /\ RoundTrip /\ CutGivesPrefix
  BY <1>2 DEF TypeOK, RoundTrip, CutGivesPrefix
<1> QED
  BY <1>2, <1>3 DEF SoundIsRead, TornIsReported

(* A reader of xz keeps its types, and the ring's place is that of as many *)
(* bytes as went into it (xz_decompress.go:368); what was stored is read   *)
(* back; and what is read of a stream, whole or cut, that resets nothing   *)
(* or everything and brings properties of the format, is the beginning of  *)
(* what it means (xz_decompress.go:528, 588, 668, 697).                    *)
THEOREM XzAlwaysReadsItsMeaning ==
  Spec => [](codec = "xz" => TypeOK /\ RoundTrip /\ CutGivesPrefix)
<1>1. Init => XzInv
  BY XzBegins
<1>2. XzInv /\ [Next]_vars => XzInv'
  BY XzSteps
<1>3. XzInv => (codec = "xz" => TypeOK /\ RoundTrip /\ CutGivesPrefix)
  BY XzImplies
<1> QED
  BY <1>1, <1>2, <1>3, PTL DEF Spec

(* A stream whose first block is sound, of whatever chunks and operations, *)
(* is read up to that block's end, and without an error.                   *)
THEOREM SoundIsAlwaysRead == Spec => []SoundIsRead
<1>1. Init => XzInv
  BY XzBegins
<1>2. XzInv /\ [Next]_vars => XzInv'
  BY XzSteps
<1>3. XzInv => SoundIsRead
  BY XzImplies
<1> QED
  BY <1>1, <1>2, <1>3, PTL DEF Spec

(* A stream that is cut inside a read, before the end of its first block,  *)
(* is not taken for a whole one (xz_decompress.go:643, 685, 721).          *)
THEOREM TornIsAlwaysReported == Spec => []TornIsReported
<1>1. Init => XzInv
  BY XzBegins
<1>2. XzInv /\ [Next]_vars => XzInv'
  BY XzSteps
<1>3. XzInv => TornIsReported
  BY XzImplies
<1> QED
  BY <1>1, <1>2, <1>3, PTL DEF Spec

-----------------------------------------------------------------------------
(* LZMA.  L is the module about LzmaStream, with this one's streams.       *)
L == INSTANCE LzmaStream_proofs WITH Streams <- LzmaStreams

LEMMA LzmaAssumed ==
  Lzma!LzmaAssumption <=> L!LzmaAssumption
BY DEF Lzma!LzmaAssumption, L!LzmaAssumption, Lzma!Headers, L!Headers,
   Lzma!Operations, L!Operations, Lzma!Byte, L!Byte

LEMMA LzmaMeaning ==
  ASSUME NEW h, NEW w
  PROVE  Lzma!Meaning(h, w) = L!Meaning(h, w)
BY DEF Lzma!Meaning, L!Meaning, Lzma!Followed, L!Followed, Lzma!Operated, L!Operated,
   Lzma!Repeated, L!Repeated, Lzma!Extended, L!Extended, Lzma!Start, L!Start,
   Lzma!Capacity, L!Capacity, Lzma!RemoveAt, L!RemoveAt, Lzma!FoldLeft, L!FoldLeft,
   Lzma!MapThenFoldSet, L!MapThenFoldSet, Lzma!Max, L!Max

LEMMA LzmaUncoded ==
  ASSUME NEW h, NEW w
  PROVE  Lzma!Uncoded(h, w) = L!Uncoded(h, w)
BY LzmaMeaning DEF Lzma!Uncoded, L!Uncoded, Lzma!Sound, L!Sound, Lzma!Fresh, L!Fresh,
   Lzma!Full, L!Full, Lzma!Top, L!Top, Lzma!Start, L!Start, Lzma!Capacity, L!Capacity

LEMMA LzmaInit ==
  Lzma!Init <=> L!Init
BY LzmaMeaning, LzmaUncoded DEF Lzma!Init, L!Init

(* The encoder.                                                            *)
LEMMA LzmaLength ==
  ASSUME NEW n, NEW r, NEW v
  PROVE  Lzma!LengthBits(n, r, v) = L!LengthBits(n, r, v)
BY DEF Lzma!LengthBits, L!LengthBits, Lzma!Bit, L!Bit, Lzma!TreeBits, L!TreeBits

LEMMA LzmaDistance ==
  ASSUME NEW d, NEW n
  PROVE  Lzma!DistanceBits(d, n) = L!DistanceBits(d, n)
BY DEF Lzma!DistanceBits, L!DistanceBits, Lzma!Slot, L!Slot, Lzma!TreeBits,
   L!TreeBits, Lzma!ReverseBits, L!ReverseBits, Lzma!DirectBits, L!DirectBits,
   Lzma!Reversed, L!Reversed, Lzma!Count, L!Count, Lzma!FoldLeft, L!FoldLeft,
   Lzma!MapThenFoldSet, L!MapThenFoldSet, Lzma!Max, L!Max

LEMMA LzmaOpBits ==
  ASSUME NEW h, NEW s, NEW q, NEW o
  PROVE  Lzma!OpBits(h, s, q, o) = L!OpBits(h, s, q, o)
BY LzmaLength, LzmaDistance DEF Lzma!OpBits, L!OpBits, Lzma!Bit, L!Bit,
   Lzma!LiteralBits, L!LiteralBits, Lzma!LiteralRow, L!LiteralRow

LEMMA LzmaEncode ==
  ASSUME NEW e, NEW d
  PROVE  Lzma!Encode(e, d) = L!Encode(e, d)
BY DEF Lzma!Encode, L!Encode, Lzma!EncodeBit, L!EncodeBit, Lzma!EncodeHalf,
   L!EncodeHalf, Lzma!Shifted, L!Shifted, Lzma!Raised, L!Raised, Lzma!Carried,
   L!Carried, Lzma!Probability, L!Probability, Lzma!WithProbability,
   L!WithProbability, Lzma!Likelier, L!Likelier, Lzma!Rarer, L!Rarer, Lzma!Full,
   L!Full, Lzma!Top, L!Top

LEMMA LzmaFlushed ==
  ASSUME NEW e
  PROVE  Lzma!Flushed(e) = L!Flushed(e)
BY DEF Lzma!Flushed, L!Flushed

LEMMA LzmaDone ==
  ASSUME NEW s, NEW o, NEW q
  PROVE  Lzma!Operated(s, o) = L!Operated(s, o) /\ Lzma!StateAfter(o, q) = L!StateAfter(o, q)
BY DEF Lzma!Operated, L!Operated, Lzma!Repeated, L!Repeated, Lzma!Extended,
   L!Extended, Lzma!RemoveAt, L!RemoveAt, Lzma!StateAfter, L!StateAfter

LEMMA LzmaEncoding ==
  /\ Lzma!EncodeOp <=> L!EncodeOp
  /\ Lzma!EncodeNext <=> L!EncodeNext
  /\ Lzma!EndStream <=> L!EndStream
<1>1. (Lzma!Encoding <=> L!Encoding) /\ (Lzma!Complete <=> L!Complete)
  BY DEF Lzma!Encoding, L!Encoding, Lzma!Complete, L!Complete
<1>2. Lzma!EncodeOp <=> L!EncodeOp
  <2>1. PICK o : o = Head(dst.ops)
    OBVIOUS
  <2>2. /\ Lzma!Operated(dst.s, o) = L!Operated(dst.s, o)
        /\ Lzma!StateAfter(o, dst.state) = L!StateAfter(o, dst.state)
        /\ Lzma!OpBits(dst.header, dst.s, dst.state, o) = L!OpBits(dst.header, dst.s, dst.state, o)
    BY LzmaOpBits, LzmaDone
  <2> QED
    BY <1>1, <2>1, <2>2, Zenon DEF Lzma!EncodeOp, L!EncodeOp
<1>3. Lzma!EncodeNext <=> L!EncodeNext
  BY LzmaEncode DEF Lzma!EncodeNext, L!EncodeNext
<1>4. Lzma!EndStream <=> L!EndStream
  BY <1>1, LzmaFlushed DEF Lzma!EndStream, L!EndStream
<1> QED
  BY <1>2, <1>3, <1>4

(* The decoder.                                                            *)
LEMMA LzmaBegun ==
  /\ Lzma!Deliver <=> L!Deliver
  /\ Lzma!Fail <=> L!Fail
  /\ Lzma!ReadHeader <=> L!ReadHeader
  /\ Lzma!NewRangeDecoder <=> L!NewRangeDecoder
<1>1. Lzma!Deliver <=> L!Deliver
  BY DEF Lzma!Deliver, L!Deliver, Lzma!Torn, L!Torn
<1>2. Lzma!Fail <=> L!Fail
  BY DEF Lzma!Fail, L!Fail
<1>3. Lzma!ReadHeader <=> L!ReadHeader
  BY <1>2 DEF Lzma!ReadHeader, L!ReadHeader, Lzma!Torn, L!Torn, Lzma!Header, L!Header,
     Lzma!NewDec, L!NewDec, Lzma!Capacity, L!Capacity
<1>4. ASSUME NEW b
      PROVE  (Lzma!CanBegin(b) <=> L!CanBegin(b)) /\ Lzma!Initial(b) = L!Initial(b)
  BY DEF Lzma!CanBegin, L!CanBegin, Lzma!Initial, L!Initial, Lzma!CodeOf, L!CodeOf,
     Lzma!Full, L!Full, Lzma!Top, L!Top, Lzma!FoldLeft, L!FoldLeft,
     Lzma!MapThenFoldSet, L!MapThenFoldSet, Lzma!Max, L!Max
<1>5. Lzma!NewRangeDecoder <=> L!NewRangeDecoder
  BY <1>2, <1>4 DEF Lzma!NewRangeDecoder, L!NewRangeDecoder
<1> QED
  BY <1>1, <1>2, <1>3, <1>5

LEMMA LzmaOne ==
  ASSUME NEW s, NEW key
  PROVE  Lzma!One(s, key) = L!One(s, key)
BY DEF Lzma!One, L!One, Lzma!DecodeBit, L!DecodeBit, Lzma!AtProbability,
   L!AtProbability, Lzma!Decided, L!Decided, Lzma!Normalized, L!Normalized,
   Lzma!Probability, L!Probability, Lzma!WithProbability, L!WithProbability,
   Lzma!Likelier, L!Likelier, Lzma!Rarer, L!Rarer, Lzma!Top, L!Top

LEMMA LzmaTree ==
  ASSUME NEW s, NEW a, NEW r, NEW b, NEW n
  PROVE  Lzma!DecodeTree(s, a, r, b, n) = L!DecodeTree(s, a, r, b, n)
BY DEF Lzma!DecodeTree, L!DecodeTree, Lzma!Count, L!Count, Lzma!DecodeBit,
   L!DecodeBit, Lzma!AtProbability, L!AtProbability, Lzma!Decided, L!Decided,
   Lzma!Normalized, L!Normalized, Lzma!Probability, L!Probability,
   Lzma!WithProbability, L!WithProbability, Lzma!Likelier, L!Likelier, Lzma!Rarer,
   L!Rarer, Lzma!Top, L!Top, Lzma!FoldLeft, L!FoldLeft, Lzma!MapThenFoldSet,
   L!MapThenFoldSet, Lzma!Max, L!Max

LEMMA LzmaLengthRead ==
  ASSUME NEW s, NEW a, NEW r, NEW n, NEW b
  PROVE  Lzma!LengthRead(s, a, r, n, b) = L!LengthRead(s, a, r, n, b)
BY LzmaTree DEF Lzma!LengthRead, L!LengthRead, Lzma!Symbol, L!Symbol

LEMMA LzmaDecodeLength ==
  ASSUME NEW s, NEW n, NEW r
  PROVE  Lzma!DecodeLength(s, n, r) = L!DecodeLength(s, n, r)
BY LzmaOne, LzmaLengthRead DEF Lzma!DecodeLength, L!DecodeLength, Lzma!FirstChoice,
   L!FirstChoice, Lzma!SecondChoice, L!SecondChoice

LEMMA LzmaReversed ==
  ASSUME NEW v, NEW n
  PROVE  Lzma!Reversed(v, n) = L!Reversed(v, n)
BY DEF Lzma!Reversed, L!Reversed, Lzma!Count, L!Count, Lzma!FoldLeft, L!FoldLeft,
   Lzma!MapThenFoldSet, L!MapThenFoldSet, Lzma!Max, L!Max

LEMMA LzmaDirect ==
  ASSUME NEW s, NEW n
  PROVE  Lzma!DecodeDirect(s, n) = L!DecodeDirect(s, n)
BY DEF Lzma!DecodeDirect, L!DecodeDirect, Lzma!Halved, L!Halved, Lzma!Normalized,
   L!Normalized, Lzma!Top, L!Top, Lzma!Count, L!Count, Lzma!FoldLeft, L!FoldLeft,
   Lzma!MapThenFoldSet, L!MapThenFoldSet, Lzma!Max, L!Max

LEMMA LzmaBehind ==
  ASSUME NEW s, NEW v
  PROVE  Lzma!BehindSlot(s, v) = L!BehindSlot(s, v)
BY LzmaTree, LzmaReversed, LzmaDirect DEF Lzma!BehindSlot, L!BehindSlot, Lzma!Near,
   L!Near, Lzma!Far, L!Far, Lzma!Aligned, L!Aligned, Lzma!Base, L!Base, Lzma!Symbol,
   L!Symbol

LEMMA LzmaDecodeDistance ==
  ASSUME NEW s, NEW r
  PROVE  Lzma!DecodeDistance(s, r) = L!DecodeDistance(s, r)
BY LzmaTree, LzmaBehind DEF Lzma!DecodeDistance, L!DecodeDistance, Lzma!Symbol,
   L!Symbol

LEMMA LzmaDecodeLiteral ==
  ASSUME NEW s, NEW r, NEW b
  PROVE  Lzma!DecodeLiteral(s, r, b) = L!DecodeLiteral(s, r, b)
BY DEF Lzma!DecodeLiteral, L!DecodeLiteral, Lzma!LiteralBit, L!LiteralBit,
   Lzma!MatchedBit, L!MatchedBit, Lzma!Count, L!Count, Lzma!DecodeBit, L!DecodeBit,
   Lzma!AtProbability, L!AtProbability, Lzma!Decided, L!Decided, Lzma!Normalized,
   L!Normalized, Lzma!Probability, L!Probability, Lzma!WithProbability,
   L!WithProbability, Lzma!Likelier, L!Likelier, Lzma!Rarer, L!Rarer, Lzma!Top, L!Top,
   Lzma!FoldLeft, L!FoldLeft, Lzma!MapThenFoldSet, L!MapThenFoldSet, Lzma!Max, L!Max

LEMMA LzmaDictionary ==
  ASSUME NEW s, NEW w, NEW d, NEW n
  PROVE  /\ Lzma!PutBytes(s, w) = L!PutBytes(s, w) /\ Lzma!GetByte(d, n) = L!GetByte(d, n)
         /\ Lzma!Invalid(d, n) <=> L!Invalid(d, n)
BY DEF Lzma!PutBytes, L!PutBytes, Lzma!PutByte, L!PutByte, Lzma!NextPlace,
   L!NextPlace, Lzma!GetByte, L!GetByte, Lzma!Invalid, L!Invalid, Lzma!FoldLeft,
   L!FoldLeft, Lzma!MapThenFoldSet, L!MapThenFoldSet, Lzma!Max, L!Max

LEMMA LzmaCopyMatch ==
  ASSUME NEW s, NEW d, NEW n
  PROVE  Lzma!CopyMatch(s, d, n) = L!CopyMatch(s, d, n)
BY DEF Lzma!CopyMatch, L!CopyMatch, Lzma!PutBytes, L!PutBytes, Lzma!PutByte,
   L!PutByte, Lzma!NextPlace, L!NextPlace, Lzma!GetByte, L!GetByte, Lzma!FoldLeft,
   L!FoldLeft, Lzma!MapThenFoldSet, L!MapThenFoldSet, Lzma!Max, L!Max

LEMMA LzmaAfter ==
  ASSUME NEW s, NEW zero, NEW one, NEW kind, NEW r, NEW i
  PROVE  /\ Lzma!Branch(s, zero, one) <=> L!Branch(s, zero, one)
         /\ Lzma!Operation(s, kind, r) <=> L!Operation(s, kind, r)
         /\ Lzma!Reuse(s, i) <=> L!Reuse(s, i)
<1>1. Lzma!Branch(s, zero, one) <=> L!Branch(s, zero, one)
  BY LzmaBegun DEF Lzma!Branch, L!Branch
<1>2. Lzma!Operation(s, kind, r) <=> L!Operation(s, kind, r)
  BY DEF Lzma!Operation, L!Operation, Lzma!NextState, L!NextState
<1>3. Lzma!Reuse(s, i) <=> L!Reuse(s, i)
  BY DEF Lzma!Reuse, L!Reuse, Lzma!Reused, L!Reused
<1> QED
  BY <1>1, <1>2, <1>3

LEMMA LzmaBits ==
  /\ Lzma!EndDecode <=> L!EndDecode
  /\ Lzma!IsMatch <=> L!IsMatch
  /\ Lzma!IsRep <=> L!IsRep
  /\ Lzma!IsRepG0 <=> L!IsRepG0
  /\ Lzma!IsRep0Long <=> L!IsRep0Long
  /\ Lzma!IsRepG1 <=> L!IsRepG1
  /\ Lzma!IsRepG2 <=> L!IsRepG2
  /\ Lzma!Read <=> L!Read
<1>1. (Lzma!Enough <=> L!Enough) /\ Lzma!PosState = L!PosState
  BY DEF Lzma!Enough, L!Enough, Lzma!PosState, L!PosState, Lzma!Header, L!Header
<1>2. (Lzma!EndDecode <=> L!EndDecode) /\ (Lzma!Read <=> L!Read)
  BY <1>1 DEF Lzma!EndDecode, L!EndDecode, Lzma!Read, L!Read
<1>3. (Lzma!IsMatch <=> L!IsMatch) /\ (Lzma!IsRep <=> L!IsRep)
  BY <1>1, LzmaOne, LzmaAfter DEF Lzma!IsMatch, L!IsMatch, Lzma!IsRep, L!IsRep
<1>4. (Lzma!IsRepG0 <=> L!IsRepG0) /\ (Lzma!IsRep0Long <=> L!IsRep0Long)
  BY <1>1, LzmaOne, LzmaAfter DEF Lzma!IsRepG0, L!IsRepG0, Lzma!IsRep0Long, L!IsRep0Long
<1>5. Lzma!IsRepG1 <=> L!IsRepG1
  BY LzmaOne, LzmaAfter DEF Lzma!IsRepG1, L!IsRepG1
<1>6. Lzma!IsRepG2 <=> L!IsRepG2
  BY LzmaOne, LzmaAfter, LzmaBegun DEF Lzma!IsRepG2, L!IsRepG2
<1> QED
  BY <1>2, <1>3, <1>4, <1>5, <1>6

LEMMA LzmaOperations ==
  /\ Lzma!Literal <=> L!Literal
  /\ Lzma!Match <=> L!Match
  /\ Lzma!ShortRep <=> L!ShortRep
  /\ Lzma!RepLen <=> L!RepLen
<1>1. Lzma!Now = L!Now /\ Lzma!Header = L!Header /\ Lzma!PosState = L!PosState
  BY DEF Lzma!Now, L!Now, Lzma!PosState, L!PosState, Lzma!Header, L!Header
<1>2. Lzma!Literal <=> L!Literal
  BY <1>1, LzmaDecodeLiteral, LzmaDictionary, LzmaAfter, LzmaBegun
     DEF Lzma!Literal, L!Literal, Lzma!LiteralRow, L!LiteralRow, Lzma!Symbol, L!Symbol
<1>3. Lzma!Match <=> L!Match
  <2>1. Lzma!DecodeLength(rc.coder, "matchLen", Lzma!PosState)
          = L!DecodeLength(rc.coder, "matchLen", L!PosState)
    BY <1>1, LzmaDecodeLength
  <2>2. ASSUME NEW l
        PROVE  Lzma!DecodeDistance(l, Lzma!LenToPosState(l.m + 2))
                 = L!DecodeDistance(l, L!LenToPosState(l.m + 2))
    BY LzmaDecodeDistance DEF Lzma!LenToPosState, L!LenToPosState
  <2> DEFINE A(l, s) ==
               CASE ~s.ok -> Lzma!Fail
                 [] s.ok /\ s.m = -1 ->
                      /\ pc' = "read"
                      /\ rc' = [rc EXCEPT !.coder = s]
                      /\ UNCHANGED <<src, dst, in, dec, limit, buf, out, err>>
                 [] s.ok /\ s.m # -1 ->
                      IF Lzma!Invalid(dec, s.m) THEN Lzma!Fail
                        ELSE Lzma!Operation(s, "Match",
                               Lzma!CopyMatch([Lzma!Now EXCEPT !.dec.reps = <<s.m, @[1], @[2], @[3]>>], s.m, l.m + 2))
             B(l, s) ==
               CASE ~s.ok -> L!Fail
                 [] s.ok /\ s.m = -1 ->
                      /\ pc' = "read"
                      /\ rc' = [rc EXCEPT !.coder = s]
                      /\ UNCHANGED <<src, dst, in, dec, limit, buf, out, err>>
                 [] s.ok /\ s.m # -1 ->
                      IF L!Invalid(dec, s.m) THEN L!Fail
                        ELSE L!Operation(s, "Match",
                               L!CopyMatch([L!Now EXCEPT !.dec.reps = <<s.m, @[1], @[2], @[3]>>], s.m, l.m + 2))
  <2>3. ASSUME NEW l, NEW s
        PROVE  A(l, s) <=> B(l, s)
    <3>1. [Lzma!Now EXCEPT !.dec.reps = <<s.m, @[1], @[2], @[3]>>]
            = [L!Now EXCEPT !.dec.reps = <<s.m, @[1], @[2], @[3]>>]
      BY <1>1
    <3>2. Lzma!Operation(s, "Match",
            Lzma!CopyMatch([Lzma!Now EXCEPT !.dec.reps = <<s.m, @[1], @[2], @[3]>>], s.m, l.m + 2))
          <=> L!Operation(s, "Match",
                L!CopyMatch([L!Now EXCEPT !.dec.reps = <<s.m, @[1], @[2], @[3]>>], s.m, l.m + 2))
      BY <3>1, LzmaCopyMatch, LzmaAfter
    <3>3. (Lzma!Invalid(dec, s.m) <=> L!Invalid(dec, s.m)) /\ (Lzma!Fail <=> L!Fail)
      BY LzmaDictionary, LzmaBegun
    <3> QED
      BY <3>2, <3>3
  <2>4. Lzma!Match <=> /\ pc = "match"
                       /\ \E l \in {Lzma!DecodeLength(rc.coder, "matchLen", Lzma!PosState)} :
                            \E s \in {Lzma!DecodeDistance(l, Lzma!LenToPosState(l.m + 2))} : A(l, s)
    BY DEF Lzma!Match
  <2>5. L!Match <=> /\ pc = "match"
                    /\ \E l \in {L!DecodeLength(rc.coder, "matchLen", L!PosState)} :
                         \E s \in {L!DecodeDistance(l, L!LenToPosState(l.m + 2))} : B(l, s)
    BY DEF L!Match
  <2> HIDE DEF A, B
  <2> QED
    BY <2>1, <2>2, <2>3, <2>4, <2>5
<1>4. Lzma!ShortRep <=> L!ShortRep
  BY <1>1, LzmaDictionary, LzmaAfter, LzmaBegun DEF Lzma!ShortRep, L!ShortRep
<1>5. Lzma!RepLen <=> L!RepLen
  BY <1>1, LzmaDecodeLength, LzmaDictionary, LzmaCopyMatch, LzmaAfter, LzmaBegun
     DEF Lzma!RepLen, L!RepLen
<1> QED
  BY <1>2, <1>3, <1>4, <1>5

LEMMA LzmaNext ==
  Lzma!Next <=> L!Next
<1>1. UNCHANGED Lzma!vars <=> UNCHANGED L!vars
  BY DEF Lzma!vars, L!vars
<1> QED
  BY <1>1, LzmaEncoding, LzmaBegun, LzmaBits, LzmaOperations DEF Lzma!Next, L!Next

LEMMA LzmaProperties ==
  /\ L!RoundTrip <=> Lzma!RoundTrip
  /\ L!AllOrNothing <=> Lzma!AllOrNothing
BY DEF Lzma!RoundTrip, L!RoundTrip, Lzma!AllOrNothing, L!AllOrNothing

(* What holds of a stream of LZMA while it is what is read.                *)
LzmaInv == codec = "lzma" => L!LzmaSound

LEMMA LzmaBegins ==
  ASSUME Init
  PROVE  LzmaInv
<1> SUFFICES ASSUME codec = "lzma"
             PROVE  L!LzmaSound
  BY DEF LzmaInv
<1>1. L!Init
  BY LzmaInit DEF Init
<1>2. L!LzmaAssumption
  BY CodecAssumption, LzmaAssumed DEF CodecAssumption
<1> QED
  BY <1>1, <1>2, L!LzmaFirst

LEMMA LzmaSteps ==
  ASSUME LzmaInv, [Next]_vars
  PROVE  LzmaInv'
<1> SUFFICES ASSUME codec' = "lzma"
             PROVE  (L!LzmaSound)'
  BY DEF LzmaInv
<1>1. codec = "lzma"
  BY DEF Next, vars
<1>2. [L!Next]_(L!vars)
  <2>1. CASE Next
    BY <1>1, <2>1, LzmaNext DEF Next
  <2>2. CASE UNCHANGED vars
    BY <2>2 DEF vars, common, xzVars, L!vars
  <2> QED
    BY <2>1, <2>2
<1>3. L!LzmaAssumption /\ L!LzmaSound
  BY <1>1, CodecAssumption, LzmaAssumed DEF CodecAssumption, LzmaInv
<1> QED
  BY <1>2, <1>3, L!LzmaKept

LEMMA LzmaImplies ==
  ASSUME LzmaInv, codec = "lzma"
  PROVE  Lzma!RoundTrip /\ Lzma!AllOrNothing
<1>1. L!LzmaSound
  BY DEF LzmaInv
<1>2. L!RoundTrip /\ L!AllOrNothing
  BY <1>1, L!LzmaReads
<1> QED
  BY <1>2, LzmaProperties

-----------------------------------------------------------------------------
(* What all codecs promise.                                                *)

(* What lz4 compressed (lz4_compress.go:34) and xz stored                  *)
(* (xz_compress.go:166) is read back, and what another encoder wrote with  *)
(* LZMA, with whatever properties and of whatever operations, is read to   *)
(* what it means (xz_decompress.go:446, 1046), unless what was stored was  *)
(* damaged.                                                                *)
THEOREM RoundTripAlways == Spec => []RoundTrip
<1> DEFINE Inv == Lz4Inv /\ XzInv /\ LzmaInv
<1>1. Init => Inv
  BY Lz4Begins, XzBegins, LzmaBegins
<1>2. Inv /\ [Next]_vars => Inv'
  BY Lz4Steps, XzSteps, LzmaSteps
<1>3. Inv => RoundTrip
  <2> SUFFICES ASSUME Inv
               PROVE  RoundTrip
    OBVIOUS
  <2>1. codec = "lz4" => Lz4!RoundTrip
    BY CodecAssumption, Lz4Holds DEF CodecAssumption, Lz4Inv
  <2>2. codec = "xz" => RoundTrip
    BY XzImplies
  <2>3. codec = "xz" => Xz!RoundTrip
    BY <2>2 DEF RoundTrip
  <2>4. codec = "lzma" => Lzma!RoundTrip
    BY LzmaImplies
  <2> QED
    BY <2>1, <2>3, <2>4 DEF RoundTrip
<1> QED
  BY <1>1, <1>2, <1>3, PTL DEF Spec

(* Of a block that is cut, lz4 gives the beginning, without an error       *)
(* (lz4_decompress.go:134); of an xz stream, whole or cut, that resets     *)
(* nothing or everything and brings properties of the format, what is read *)
(* is the beginning of what it means (xz_decompress.go:668, 697); and an   *)
(* LZMA stream that is cut gives all of its data or, with an error, none   *)
(* (xz_decompress.go:1085).                                                *)
THEOREM CutAlwaysGivesPrefix == Spec => []CutGivesPrefix
<1> DEFINE Inv == Lz4Inv /\ XzInv /\ LzmaInv
<1>1. Init => Inv
  BY Lz4Begins, XzBegins, LzmaBegins
<1>2. Inv /\ [Next]_vars => Inv'
  BY Lz4Steps, XzSteps, LzmaSteps
<1>3. Inv => CutGivesPrefix
  <2> SUFFICES ASSUME Inv
               PROVE  CutGivesPrefix
    OBVIOUS
  <2>1. codec = "lz4" => Lz4!CutGivesPrefix
    BY CodecAssumption, Lz4Holds DEF CodecAssumption, Lz4Inv
  <2>2. codec = "xz" => CutGivesPrefix
    BY XzImplies
  <2>3. codec = "xz" => Xz!ReadsItsMeaning
    BY <2>2 DEF CutGivesPrefix
  <2>4. codec = "lzma" => Lzma!AllOrNothing
    BY LzmaImplies
  <2> QED
    BY <2>1, <2>3, <2>4 DEF CutGivesPrefix
<1> QED
  BY <1>1, <1>2, <1>3, PTL DEF Spec
=============================================================================
