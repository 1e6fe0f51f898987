-------------------------- MODULE XzStream_proofs --------------------------
(***************************************************************************)
(* Proofs about XzStream, for streams of any units, of any encoder, whole  *)
(* or cut anywhere: what is read is the beginning of what the stream       *)
(* means, what was stored is read back, a first block that is sound is     *)
(* read to its end, and a stream torn inside a read is reported.           *)
(***************************************************************************)
EXTENDS XzStream, FiniteSetTheorems, SequenceTheorems, TLAPS

-----------------------------------------------------------------------------
(* Numbers and sequences.                                                  *)

(* A set of natural numbers that is not empty has a least element.  A set  *)
(* of numbers at which something fails is what it is used with.            *)
LEMMA HasLeast ==
  ASSUME NEW S \in SUBSET Nat, S # {}
  PROVE  \E m \in S : \A n \in S : m <= n
<1> DEFINE R == {x \in Nat \X Nat : x[1] < x[2]}
<1>1. IsWellFoundedOn(R, Nat)
  BY NatLessThanWellFounded DEF OpToRel
<1>2. \A m, n \in Nat : <<n, m>> \notin R => m <= n
  OBVIOUS
<1> HIDE DEF R
<1> QED
  BY <1>1, <1>2, WFMin

LEMMA Division ==
  ASSUME NEW n \in Nat \ {0}, NEW x \in Nat
  PROVE  /\ x = (n * (x \div n)) + (x % n)
         /\ x % n \in 0..n - 1 /\ x \div n \in Nat
OBVIOUS

LEMMA QuotientIsOne ==
  ASSUME NEW n \in Nat \ {0}, NEW q \in Int, NEW r \in 0..n - 1,
         NEW p \in Int, NEW s \in 0..n - 1, (n * q) + r = (n * p) + s
  PROVE  q = p
<1>1. CASE q > p
  <2>1. n * (q - p) >= n
    BY <1>1
  <2> QED
    BY <2>1
<1>2. CASE p > q
  <2>1. n * (p - q) >= n
    BY <1>2
  <2> QED
    BY <2>1
<1> QED
  BY <1>1, <1>2

LEMMA Dividing ==
  ASSUME NEW n \in Nat \ {0}, NEW q \in Nat, NEW r \in 0..n - 1
  PROVE  ((q * n) + r) \div n = q /\ ((q * n) + r) % n = r
<1> DEFINE x == (q * n) + r
<1>1. x \in Nat
  OBVIOUS
<1>2. x = (n * (x \div n)) + (x % n) /\ x % n \in 0..n - 1 /\ x \div n \in Nat
  BY <1>1, Division
<1>3. (n * q) + r = (n * (x \div n)) + (x % n)
  BY <1>2
<1> HIDE DEF x
<1>4. q = x \div n
  <2>1. q \in Int /\ x \div n \in Int
    BY <1>2
  <2> QED
    BY <1>2, <1>3, <2>1, QuotientIsOne
<1> QED
  BY <1>2, <1>3, <1>4 DEF x

LEMMA RemainderStays ==
  ASSUME NEW n \in Nat \ {0}, NEW x \in Nat, x >= n
  PROVE  (x - n) % n = x % n
<1> DEFINE q == x \div n
           m == x % n
<1>1. x = (n * q) + m /\ m \in 0..n - 1 /\ q \in Nat
  BY Division
<1> HIDE DEF q, m
<1>2. q # 0
  <2>1. q = 0 => n * q = 0
    OBVIOUS
  <2> QED
    BY <1>1, <2>1
<1>3. q - 1 \in Nat /\ (q - 1) * n = (n * q) - n /\ n * q \in Nat
  BY <1>1, <1>2
<1>4. x - n = ((q - 1) * n) + m
  BY <1>1, <1>3
<1>5. (((q - 1) * n) + m) % n = m
  BY <1>1, <1>3, Dividing
<1> QED
  BY <1>4, <1>5 DEF m

(* d has w behind its first p elements. *)
Holds(d, p, w) == p + Len(w) <= Len(d) /\ \A k \in 1..Len(w) : d[p + k] = w[k]

(* A part of a sequence. *)
LEMMA PartIs ==
  ASSUME NEW S, NEW s \in Seq(S), NEW from \in Nat, NEW to \in Nat, from <= to, to <= Len(s)
  PROVE  /\ SubSeq(s, from + 1, to) \in Seq(S)
         /\ Len(SubSeq(s, from + 1, to)) = to - from
         /\ \A k \in 1..to - from : SubSeq(s, from + 1, to)[k] = s[from + k]
<1>1. Len(s) \in Nat /\ \A k \in 1..Len(s) : s[k] \in S
  OBVIOUS
<1>2. ASSUME NEW k \in from + 1..to
      PROVE  s[k] \in S
  <2>1. k \in 1..Len(s)
    BY <1>1
  <2> QED
    BY <1>1, <2>1
<1> QED
  BY <1>1, <1>2, SubSeqProperties

(* s begins with w if it holds it at the beginning. *)
LEMMA PrefixIs ==
  ASSUME NEW S, NEW s \in Seq(S), NEW w \in Seq(S)
  PROVE  IsPrefix(w, s) <=> Holds(s, 0, w)
<1>1. Len(s) \in Nat /\ Len(w) \in Nat
  OBVIOUS
<1>2. CASE Len(w) <= Len(s)
  <2>1. /\ SubSeq(s, 1, Len(w)) \in Seq(S) /\ Len(SubSeq(s, 1, Len(w))) = Len(w)
        /\ \A k \in 1..Len(w) : SubSeq(s, 1, Len(w))[k] = s[k]
    <3>1. 0 \in Nat /\ 0 + 1 = 1 /\ Len(w) - 0 = Len(w) /\ \A k \in 1..Len(w) : 0 + k = k
      BY <1>1
    <3> QED
      BY <1>1, <1>2, <3>1, PartIs
  <2>2. SubSeq(w, 1, Len(w)) = w
    OBVIOUS
  <2>3. Holds(s, 0, w) <=> \A k \in 1..Len(w) : s[k] = w[k]
    BY <1>1, <1>2 DEF Holds
  <2>4. IsPrefix(w, s) <=> w = SubSeq(s, 1, Len(w))
    BY <1>2, <2>2 DEF IsPrefix
  <2>5. (\A k \in 1..Len(w) : s[k] = w[k]) => w = SubSeq(s, 1, Len(w))
    <3> DEFINE u == SubSeq(s, 1, Len(w))
    <3> HIDE DEF u
    <3>1. (\A k \in 1..Len(w) : u[k] = w[k]) => w = u
      BY <2>1, SeqEqual DEF u
    <3> QED
      BY <2>1, <3>1 DEF u
  <2> QED
    BY <2>1, <2>3, <2>4, <2>5
<1>3. CASE ~(Len(w) <= Len(s))
  BY <1>1, <1>3 DEF IsPrefix, Holds
<1> QED
  BY <1>2, <1>3

-----------------------------------------------------------------------------
(* Folds.  FoldLeft of the community modules takes its operator as a       *)
(* parameter, and goes through the set of all places of a sequence; the    *)
(* four that are folded with here are steps of four kinds.                 *)

Step(kind, p, x, y) ==
  CASE kind = "byte" -> PutByte(x, y)
    [] kind = "copy" -> PutBytes(x, <<GetByte(x.dec, p)>>)
    [] kind = "op"   -> IF x.state # "go" \/ (p >= 0 /\ Len(x.out) >= p) THEN x
                          ELSE Operated(x, y)
    [] kind = "unit" -> UnitMeaning(x, y)

(* f[s] is what the elements of w at the places s make of x.               *)
Folds(kind, p, x, w, n, f) ==
  f = [s \in SUBSET (1..n) |->
         IF s = {} THEN x ELSE Step(kind, p, f[s \ {Max(s)}], w[Max(s)])]

LEMMA Greatest ==
  ASSUME NEW n \in Nat, NEW s \in SUBSET (1..n), n \in s
  PROVE  Max(s) = n
<1>1. \A y \in s : n >= y
  OBVIOUS
<1>2. PICK m : m = Max(s)
  OBVIOUS
<1>3. m \in s /\ \A y \in s : m >= y
  BY <1>1, <1>2 DEF Max
<1> QED
  BY <1>1, <1>2, <1>3

LEMMA FoldGrows ==
  ASSUME NEW kind, NEW p, NEW x, NEW w, NEW n \in Nat, NEW f, Folds(kind, p, x, w, n, f)
  PROVE  \E g : Folds(kind, p, x, w, n + 1, g)
<1> DEFINE g == [s \in SUBSET (1..n + 1) |->
                   IF n + 1 \in s THEN Step(kind, p, f[s \ {n + 1}], w[n + 1]) ELSE f[s]]
<1>1. ASSUME NEW s \in SUBSET (1..n + 1)
      PROVE  g[s] = IF s = {} THEN x ELSE Step(kind, p, g[s \ {Max(s)}], w[Max(s)])
  <2>1. CASE n + 1 \in s
    <3>1. Max(s) = n + 1
      BY <2>1, Greatest
    <3>2. s \ {n + 1} \in SUBSET (1..n + 1) /\ n + 1 \notin s \ {n + 1}
      OBVIOUS
    <3>3. g[s \ {n + 1}] = f[s \ {n + 1}]
      BY <3>2
    <3>4. g[s] = Step(kind, p, f[s \ {n + 1}], w[n + 1])
      BY <2>1
    <3> HIDE DEF g
    <3> QED
      BY <2>1, <3>1, <3>3, <3>4
  <2>2. CASE n + 1 \notin s
    <3>1. s \in SUBSET (1..n)
      <4>1. ASSUME NEW y \in s
            PROVE  y \in 1..n
        BY <2>2
      <4> QED
        BY <4>1
    <3>2. s \ {Max(s)} \in SUBSET (1..n + 1) /\ n + 1 \notin s \ {Max(s)}
      BY <2>2
    <3>3. g[s \ {Max(s)}] = f[s \ {Max(s)}] /\ g[s] = f[s]
      BY <2>2, <3>2
    <3>4. f[s] = IF s = {} THEN x ELSE Step(kind, p, f[s \ {Max(s)}], w[Max(s)])
      BY <3>1 DEF Folds
    <3> HIDE DEF g
    <3> QED
      BY <3>3, <3>4
  <2> QED
    BY <2>1, <2>2
<1>2. g = [s \in SUBSET (1..n + 1) |-> g[s]]
  OBVIOUS
<1> HIDE DEF g
<1>3. Folds(kind, p, x, w, n + 1, g)
  BY <1>1, <1>2 DEF Folds
<1> QED
  BY <1>3

LEMMA FoldExists ==
  ASSUME NEW kind, NEW p, NEW x, NEW w, NEW n \in Nat
  PROVE  \E f : Folds(kind, p, x, w, n, f)
<1> DEFINE Bad == {m \in Nat : ~ \E f : Folds(kind, p, x, w, m, f)}
<1>1. SUFFICES ASSUME Bad # {}
               PROVE  FALSE
  OBVIOUS
<1>2. PICK m \in Bad : \A k \in Bad : m <= k
  <2>1. Bad \subseteq Nat
    OBVIOUS
  <2> HIDE DEF Bad
  <2> QED
    BY <1>1, <2>1, HasLeast
<1>3. m # 0
  <2> DEFINE f == [s \in SUBSET (1..0) |-> x]
  <2>1. ASSUME NEW s \in SUBSET (1..0)
        PROVE  s = {}
    OBVIOUS
  <2>2. Folds(kind, p, x, w, 0, f)
    BY <2>1 DEF Folds
  <2> HIDE DEF f
  <2> QED
    BY <2>2
<1>4. m - 1 \in Nat /\ m - 1 \notin Bad /\ (m - 1) + 1 = m
  BY <1>2, <1>3
<1>5. PICK f : Folds(kind, p, x, w, m - 1, f)
  BY <1>4
<1>6. \E g : Folds(kind, p, x, w, m, g)
  BY <1>4, <1>5, FoldGrows
<1> QED
  BY <1>6

(* r[k] is what the first k elements of w make of x.                       *)
Runs(kind, p, x, w, r) ==
  r[0] = x /\ \A k \in 1..Len(w) : r[k] = Step(kind, p, r[k - 1], w[k])

LEMMA FoldRuns ==
  ASSUME NEW kind, NEW p, NEW x, NEW w, NEW n \in Nat, Len(w) = n,
         NEW f, Folds(kind, p, x, w, n, f)
  PROVE  \E r : Runs(kind, p, x, w, r) /\ f[1..n] = r[n]
<1> DEFINE r == [k \in 0..n |-> f[1..k]]
<1>1. ASSUME NEW k \in 1..n
      PROVE  r[k] = Step(kind, p, r[k - 1], w[k])
  <2>1. 1..k \in SUBSET (1..n) /\ k \in 1..k /\ k - 1 \in 0..n /\ k \in Nat
    OBVIOUS
  <2>2. Max(1..k) = k
    BY <2>1, Greatest
  <2>3. (1..k) \ {k} = 1..k - 1 /\ 1..k # {}
    OBVIOUS
  <2>4. f[1..k] = Step(kind, p, f[1..k - 1], w[k])
    BY <2>1, <2>2, <2>3 DEF Folds
  <2> QED
    BY <2>1, <2>4
<1>2. r[0] = x
  <2>1. 1..0 = {} /\ {} \in SUBSET (1..n)
    OBVIOUS
  <2> QED
    BY <2>1 DEF Folds
<1>3. r[n] = f[1..n]
  OBVIOUS
<1> HIDE DEF r
<1> QED
  BY <1>1, <1>2, <1>3 DEF Runs

LEMMA ByteRuns ==
  ASSUME NEW d, NEW S, NEW w \in Seq(S)
  PROVE  \E r : Runs("byte", 0, d, w, r) /\ FoldLeft(PutByte, d, w) = r[Len(w)]
<1> DEFINE Body(f) == f = [s \in SUBSET DOMAIN w |->
                            IF s = {} THEN d ELSE PutByte(f[s \ {Max(s)}], w[Max(s)])]
           g == CHOOSE f : Body(f)
<1>1. PICK n \in Nat : n = Len(w)
  OBVIOUS
<1>2. DOMAIN w = 1..n
  BY <1>1
<1>3. ASSUME NEW f
      PROVE  Body(f) <=> Folds("byte", 0, d, w, n, f)
  BY <1>2 DEF Folds, Step
<1>4. FoldLeft(PutByte, d, w) = g[1..n]
  BY <1>2 DEF FoldLeft, MapThenFoldSet
<1> HIDE DEF Body
<1>5. \E f : Body(f)
  BY <1>3, FoldExists
<1>6. Folds("byte", 0, d, w, n, g)
  BY <1>3, <1>5
<1> HIDE DEF g
<1>7. \E r : Runs("byte", 0, d, w, r) /\ g[1..n] = r[n]
  BY <1>1, <1>6, FoldRuns
<1> QED
  BY <1>1, <1>4, <1>7

LEMMA CopyRuns ==
  ASSUME NEW x, NEW dist, NEW len \in Nat
  PROVE  \E r : /\ Runs("copy", dist, x, [i \in 1..len |-> i], r)
                /\ CopyMatch(x, dist, len) = r[Len([i \in 1..len |-> i])]
<1> DEFINE Body(f) == f = [s \in SUBSET DOMAIN [i \in 1..len |-> i] |->
                            IF s = {} THEN x
                              ELSE PutBytes(f[s \ {Max(s)}],
                                               <<GetByte(f[s \ {Max(s)}].dec, dist)>>)]
           g == CHOOSE f : Body(f)
<1>1. PICK n \in Nat : n = Len([i \in 1..len |-> i])
  OBVIOUS
<1>2. DOMAIN [i \in 1..len |-> i] = 1..n
  BY <1>1
<1>3. ASSUME NEW f
      PROVE  Body(f) <=> Folds("copy", dist, x, [i \in 1..len |-> i], n, f)
  BY <1>2 DEF Folds, Step
<1>4. CopyMatch(x, dist, len) = g[1..n]
  BY <1>2 DEF FoldLeft, MapThenFoldSet, CopyMatch
<1> HIDE DEF Body
<1>5. \E f : Body(f)
  BY <1>3, FoldExists
<1>6. Folds("copy", dist, x, [i \in 1..len |-> i], n, g)
  BY <1>3, <1>5
<1> HIDE DEF g
<1>7. \E r : Runs("copy", dist, x, [i \in 1..len |-> i], r) /\ g[1..n] = r[n]
  BY <1>1, <1>6, FoldRuns
<1> QED
  BY <1>1, <1>4, <1>7

LEMMA OpRuns ==
  ASSUME NEW x, NEW to, NEW S, NEW w \in Seq(S)
  PROVE  \E r : Runs("op", to, x, w, r) /\ Followed(x, w, to) = r[Len(w)]
<1> DEFINE Body(f) == f = [s \in SUBSET DOMAIN w |->
                            IF s = {} THEN x
                              ELSE IF \/ f[s \ {Max(s)}].state # "go"
                                      \/ to >= 0 /\ Len(f[s \ {Max(s)}].out) >= to
                                THEN f[s \ {Max(s)}]
                                ELSE Operated(f[s \ {Max(s)}], w[Max(s)])]
           g == CHOOSE f : Body(f)
<1>1. PICK n \in Nat : n = Len(w)
  OBVIOUS
<1>2. DOMAIN w = 1..n
  BY <1>1
<1>3. ASSUME NEW f
      PROVE  Body(f) <=> Folds("op", to, x, w, n, f)
  BY <1>2 DEF Folds, Step
<1>4. Followed(x, w, to) = g[1..n]
  BY <1>2 DEF FoldLeft, MapThenFoldSet, Followed
<1> HIDE DEF Body
<1>5. \E f : Body(f)
  BY <1>3, FoldExists
<1>6. Folds("op", to, x, w, n, g)
  BY <1>3, <1>5
<1> HIDE DEF g
<1>7. \E r : Runs("op", to, x, w, r) /\ g[1..n] = r[n]
  BY <1>1, <1>6, FoldRuns
<1> QED
  BY <1>1, <1>4, <1>7

Fresh == [Start(DictSize) EXCEPT !.state = "fresh"]

LEMMA UnitRuns ==
  ASSUME NEW S, NEW w \in Seq(S)
  PROVE  \E r : Runs("unit", 0, Fresh, w, r) /\ Meaning(w) = r[Len(w)]
<1> DEFINE Body(f) == f = [s \in SUBSET DOMAIN w |->
                            IF s = {} THEN Fresh ELSE UnitMeaning(f[s \ {Max(s)}], w[Max(s)])]
           g == CHOOSE f : Body(f)
<1>1. PICK n \in Nat : n = Len(w)
  OBVIOUS
<1>2. DOMAIN w = 1..n
  BY <1>1
<1>3. ASSUME NEW f
      PROVE  Body(f) <=> Folds("unit", 0, Fresh, w, n, f)
  BY <1>2 DEF Folds, Step
<1>4. Meaning(w) = g[1..n]
  BY <1>2 DEF FoldLeft, MapThenFoldSet, Meaning, Fresh
<1> HIDE DEF Body
<1>5. \E f : Body(f)
  BY <1>3, FoldExists
<1>6. Folds("unit", 0, Fresh, w, n, g)
  BY <1>3, <1>5
<1> HIDE DEF g
<1>7. \E r : Runs("unit", 0, Fresh, w, r) /\ g[1..n] = r[n]
  BY <1>1, <1>6, FoldRuns
<1> QED
  BY <1>1, <1>4, <1>7

-----------------------------------------------------------------------------
(* The ring of the last size bytes. *)

DecFields == {"dict", "dPos", "dSize", "pos", "reps"}

(* Decoder d has gone through h since its dictionary was new.              *)
Ring(size, d, h) ==
  /\ DOMAIN d = DecFields
  /\ d.dSize = size /\ DOMAIN d.dict = 0..size - 1
  /\ d.pos = Len(h) /\ d.dPos = Len(h) % size
  /\ \A j \in 1..Len(h) : Len(h) - j < size => d.dict[(j - 1) % size] = h[j]

LEMMA NextRemainder ==
  ASSUME NEW n \in Nat \ {0}, NEW x \in Nat
  PROVE  (x + 1) % n = IF (x % n) + 1 >= n THEN 0 ELSE (x % n) + 1
<1> DEFINE q == x \div n
           r == x % n
<1>1. x = (n * q) + r /\ r \in 0..n - 1 /\ q \in Nat
  BY Division
<1> HIDE DEF q, r
<1>2. CASE r + 1 >= n
  <2>1. r + 1 = n /\ (q + 1) * n = (n * q) + n /\ q + 1 \in Nat /\ 0 \in 0..n - 1
    BY <1>1, <1>2
  <2>2. x + 1 = ((q + 1) * n) + 0
    BY <1>1, <2>1
  <2>3. (((q + 1) * n) + 0) % n = 0
    BY <2>1, Dividing
  <2> QED
    BY <1>2, <2>2, <2>3 DEF r
<1>3. CASE ~(r + 1 >= n)
  <2>1. r + 1 \in 0..n - 1
    BY <1>1, <1>3
  <2>2. x + 1 = (q * n) + (r + 1)
    BY <1>1
  <2>3. ((q * n) + (r + 1)) % n = r + 1
    BY <1>1, <2>1, Dividing
  <2> QED
    BY <1>3, <2>2, <2>3 DEF r
<1> QED
  BY <1>2, <1>3

(* Numbers that are less than n apart have different remainders.           *)
LEMMA RemaindersDiffer ==
  ASSUME NEW n \in Nat \ {0}, NEW x \in Nat, NEW y \in Nat, x < y, y - x < n
  PROVE  x % n # y % n
<1> DEFINE q == x \div n
           r == x % n
           p == y \div n
           s == y % n
<1>1. x = (n * q) + r /\ r \in 0..n - 1 /\ q \in Nat
  BY Division
<1>2. y = (n * p) + s /\ s \in 0..n - 1 /\ p \in Nat
  BY Division
<1> HIDE DEF q, r, p, s
<1>3. ASSUME r = s
      PROVE  FALSE
  <2>1. y - x = n * (p - q)
    BY <1>1, <1>2, <1>3
  <2>2. p - q \in Int
    BY <1>1, <1>2
  <2>3. CASE p - q >= 1
    <3>1. n * (p - q) >= n
      BY <2>2, <2>3
    <3> QED
      BY <2>1, <3>1
  <2>4. CASE p - q < 1
    <3>1. n * (p - q) <= 0
      BY <2>2, <2>4
    <3> QED
      BY <2>1, <3>1
  <2> QED
    BY <2>2, <2>3, <2>4
<1> QED
  BY <1>3 DEF r, s

(* Going back from a place on the ring.                                    *)
LEMMA RemainderBack ==
  ASSUME NEW n \in Nat \ {0}, NEW x \in Nat, NEW b \in 1..n, b <= x
  PROVE  /\ (x - b) % n = IF (x % n) - b < 0 THEN ((x % n) - b) + n ELSE (x % n) - b
         /\ x % n \in 0..n - 1
<1> DEFINE q == x \div n
           r == x % n
<1>1. x = (n * q) + r /\ r \in 0..n - 1 /\ q \in Nat
  BY Division
<1> HIDE DEF q, r
<1>2. CASE r - b < 0
  <2>1. (r - b) + n \in 0..n - 1
    BY <1>1, <1>2
  <2>2. q # 0
    <3>1. q = 0 => n * q = 0
      OBVIOUS
    <3> QED
      BY <1>1, <1>2, <3>1
  <2>3. q - 1 \in Nat /\ (q - 1) * n = (n * q) - n
    BY <1>1, <2>2
  <2>4. x - b = ((q - 1) * n) + ((r - b) + n)
    BY <1>1, <2>3
  <2>5. (((q - 1) * n) + ((r - b) + n)) % n = (r - b) + n
    BY <2>1, <2>3, Dividing
  <2> QED
    BY <1>1, <1>2, <2>4, <2>5 DEF r
<1>3. CASE ~(r - b < 0)
  <2>1. r - b \in 0..n - 1
    BY <1>1, <1>3
  <2>2. x - b = (q * n) + (r - b)
    BY <1>1
  <2>3. ((q * n) + (r - b)) % n = r - b
    BY <1>1, <2>1, Dividing
  <2> QED
    BY <1>1, <1>3, <2>2, <2>3 DEF r
<1> QED
  BY <1>2, <1>3

LEMMA NewRing ==
  ASSUME NEW size \in Nat \ {0}
  PROVE  Ring(size, NewDec(size), <<>>) /\ NewDec(size).reps = <<0, 0, 0, 0>>
<1>1. 0 % size = 0
  <2>1. 0 \in Nat /\ 0 \in 0..size - 1 /\ (0 * size) + 0 = 0
    OBVIOUS
  <2>2. ((0 * size) + 0) % size = 0
    BY <2>1, Dividing
  <2> QED
    BY <2>1, <2>2
<1> QED
  BY <1>1 DEF Ring, DecFields, NewDec

LEMMA OneMore ==
  ASSUME NEW S, NEW h \in Seq(S), NEW b \in S
  PROVE  /\ h \o <<b>> \in Seq(S) /\ Len(h \o <<b>>) = Len(h) + 1
         /\ \A k \in 1..Len(h) : (h \o <<b>>)[k] = h[k]
         /\ (h \o <<b>>)[Len(h) + 1] = b
<1>1. PICK w \in Seq(S) : w = <<b>> /\ Len(w) = 1 /\ w[1] = b
  <2>1. <<b>> \in Seq(S) /\ Len(<<b>>) = 1 /\ <<b>>[1] = b
    OBVIOUS
  <2> QED
    BY <2>1, Zenon
<1>2. /\ h \o w \in Seq(S) /\ Len(h \o w) = Len(h) + Len(w)
      /\ \A k \in 1..Len(h) : (h \o w)[k] = h[k]
      /\ \A k \in 1..Len(w) : (h \o w)[Len(h) + k] = w[k]
  OBVIOUS
<1> QED
  BY <1>1, <1>2

(* putByte *)
LEMMA PutRing ==
  ASSUME NEW size \in Nat \ {0}, NEW S, NEW h \in Seq(S), NEW b \in S, NEW d, Ring(size, d, h)
  PROVE  Ring(size, PutByte(d, b), h \o <<b>>) /\ PutByte(d, b).reps = d.reps
<1> DEFINE e == PutByte(d, b)
           g == h \o <<b>>
<1>1. PICK n \in Nat : n = Len(h)
  OBVIOUS
<1>2. n % size \in 0..size - 1
  BY Division
<1>3. /\ DOMAIN e = DecFields /\ e.dSize = size /\ e.reps = d.reps
      /\ e.pos = n + 1 /\ e.dPos = NextPlace(d)
      /\ e.dict = [d.dict EXCEPT ![d.dPos] = b]
  BY <1>1 DEF Ring, DecFields, PutByte
<1>4. e.dPos = (n + 1) % size
  <2>1. (n + 1) % size = IF (n % size) + 1 >= size THEN 0 ELSE (n % size) + 1
    BY NextRemainder
  <2> QED
    BY <1>1, <1>3, <2>1 DEF Ring, NextPlace
<1>5. /\ Len(g) = n + 1 /\ \A j \in 1..n : g[j] = h[j]
      /\ g[n + 1] = b
  BY <1>1, OneMore
<1>6. /\ DOMAIN e.dict = 0..size - 1
      /\ \A i \in 0..size - 1 : e.dict[i] = IF i = n % size THEN b ELSE d.dict[i]
  BY <1>1, <1>3 DEF Ring
<1>7. ASSUME NEW j \in 1..n + 1, (n + 1) - j < size
      PROVE  e.dict[(j - 1) % size] = g[j]
  <2>1. j - 1 \in Nat /\ (j - 1) % size \in 0..size - 1
    <3>1. j - 1 \in Nat
      OBVIOUS
    <3> QED
      BY <3>1, Division
  <2>2. CASE j = n + 1
    <3>1. (j - 1) % size = n % size
      BY <2>2
    <3> QED
      BY <1>5, <1>6, <2>1, <2>2, <3>1
  <2>3. CASE j # n + 1
    <3>1. j \in 1..n /\ n - j < size /\ j - 1 < n /\ n - (j - 1) < size
      BY <1>7, <2>3
    <3>2. (j - 1) % size # n % size
      BY <2>1, <3>1, RemaindersDiffer
    <3>3. d.dict[(j - 1) % size] = h[j]
      BY <1>1, <3>1 DEF Ring
    <3> QED
      BY <1>5, <1>6, <2>1, <3>1, <3>2, <3>3
  <2> QED
    BY <2>2, <2>3
<1> HIDE DEF e, g
<1>8. Ring(size, e, g)
  BY <1>3, <1>4, <1>5, <1>6, <1>7 DEF Ring
<1> QED
  BY <1>3, <1>8 DEF e, g

(* getByte *)
LEMMA GetRing ==
  ASSUME NEW size \in Nat \ {0}, NEW h, NEW d, Ring(size, d, h), Len(h) \in Nat,
         NEW dist \in Nat, dist < Len(h), dist < size
  PROVE  GetByte(d, dist) = h[Len(h) - dist]
<1>1. PICK n \in Nat : n = Len(h)
  OBVIOUS
<1>2. dist + 1 \in 1..size /\ dist + 1 <= n
  BY <1>1
<1>3. /\ n % size \in 0..size - 1
      /\ (n - (dist + 1)) % size =
           IF (n % size) - (dist + 1) < 0 THEN ((n % size) - (dist + 1)) + size
             ELSE (n % size) - (dist + 1)
  BY <1>2, RemainderBack
<1>4. d.dPos - dist - 1 = (n % size) - (dist + 1)
  BY <1>1, <1>3 DEF Ring
<1>5. GetByte(d, dist) = d.dict[(n - (dist + 1)) % size]
  BY <1>3, <1>4 DEF Ring, GetByte
<1>6. n - dist \in 1..n /\ (n - dist) - 1 = n - (dist + 1) /\ n - (n - dist) < size
  BY <1>1
<1> QED
  BY <1>1, <1>5, <1>6 DEF Ring

LEMMA PartGrows ==
  ASSUME NEW S, NEW w \in Seq(S), NEW k \in 1..Len(w)
  PROVE  /\ SubSeq(w, 1, k - 1) \in Seq(S) /\ Len(SubSeq(w, 1, k - 1)) = k - 1 /\ w[k] \in S
         /\ SubSeq(w, 1, k) = SubSeq(w, 1, k - 1) \o <<w[k]>>
<1>1. k - 1 \in Nat /\ k - 1 <= Len(w) /\ w[k] \in S
  OBVIOUS
<1>2. SubSeq(w, 1, k - 1) \in Seq(S) /\ Len(SubSeq(w, 1, k - 1)) = k - 1
  <2>1. 0 \in Nat /\ 0 + 1 = 1 /\ 0 <= k - 1 /\ (k - 1) - 0 = k - 1
    BY <1>1
  <2> QED
    BY <1>1, <2>1, PartIs
<1>3. SubSeq(w, 1, k) = SubSeq(w, 1, k - 1) \o <<w[k]>>
  <2>1. 1 \in 1..Len(w) /\ k \in 1..Len(w)
    OBVIOUS
  <2> QED
    BY <2>1, SubSeqRecursiveSecond
<1> QED
  BY <1>1, <1>2, <1>3

(* What holds at 0 and, with each number, at the next, holds up to n.      *)
Climbs(G, n) == \A k \in 1..n : k - 1 \in G => k \in G

LEMMA Climbing ==
  ASSUME NEW n \in Nat, NEW G, 0 \in G, Climbs(G, n)
  PROVE  \A k \in 0..n : k \in G
<1> DEFINE Bad == {k \in 0..n : k \notin G}
<1>1. ASSUME Bad # {}
      PROVE  FALSE
  <2>1. PICK k \in Bad : \A j \in Bad : k <= j
    <3>1. Bad \subseteq Nat
      OBVIOUS
    <3> HIDE DEF Bad
    <3> QED
      BY <1>1, <3>1, HasLeast
  <2>2. k \in 1..n /\ k \notin G
    OBVIOUS
  <2>3. k - 1 \in 0..n /\ k - 1 < k
    BY <2>2
  <2>4. k - 1 \in G
    <3>1. k - 1 \notin Bad
      <4> HIDE DEF Bad
      <4> QED
        BY <2>1, <2>2, <2>3
    <3> QED
      BY <2>3, <3>1
  <2> QED
    BY <2>2, <2>4 DEF Climbs
<1> QED
  BY <1>1

LEMMA Joined ==
  ASSUME NEW S, NEW u \in Seq(S), NEW v \in Seq(S)
  PROVE  /\ u \o v \in Seq(S) /\ Len(u \o v) = Len(u) + Len(v)
         /\ \A k \in 1..Len(u) : (u \o v)[k] = u[k]
         /\ \A k \in 1..Len(v) : (u \o v)[Len(u) + k] = v[k]
OBVIOUS

LEMMA JoinedLater ==
  ASSUME NEW S, NEW u \in Seq(S), NEW v \in Seq(S), NEW w \in Seq(S)
  PROVE  (u \o v) \o w = u \o (v \o w)
BY ConcatAssociative

LEMMA JoinedPart ==
  ASSUME NEW S, NEW h \in Seq(S), NEW w \in Seq(S), NEW k \in 1..Len(w)
  PROVE  h \o SubSeq(w, 1, k) = (h \o SubSeq(w, 1, k - 1)) \o <<w[k]>>
<1>1. PICK u \in Seq(S) : u = SubSeq(w, 1, k - 1)
  <2>1. SubSeq(w, 1, k - 1) \in Seq(S)
    BY PartGrows
  <2> QED
    BY <2>1, Zenon
<1>2. PICK v \in Seq(S) : v = <<w[k]>>
  <2>1. <<w[k]>> \in Seq(S)
    OBVIOUS
  <2> QED
    BY <2>1, Zenon
<1>3. SubSeq(w, 1, k) = u \o v
  BY <1>1, <1>2, PartGrows
<1>4. (h \o u) \o v = h \o (u \o v)
  BY ConcatAssociative
<1> QED
  BY <1>1, <1>2, <1>3, <1>4, Zenon

(* Bytes one by one. *)
LEMMA BytesRing ==
  ASSUME NEW size \in Nat \ {0}, NEW S, NEW h \in Seq(S), NEW w \in Seq(S),
         NEW x, Ring(size, x.dec, h)
  PROVE  /\ Ring(size, PutBytes(x, w).dec, h \o w)
         /\ PutBytes(x, w).dec.reps = x.dec.reps
         /\ PutBytes(x, w).buf = x.buf \o w
<1>1. PICK r : Runs("byte", 0, x.dec, w, r) /\ FoldLeft(PutByte, x.dec, w) = r[Len(w)]
  BY ByteRuns
<1>2. PICK n \in Nat : n = Len(w)
  OBVIOUS
<1>3. r[0] = x.dec /\ \A k \in 1..n : r[k] = PutByte(r[k - 1], w[k])
  BY <1>1, <1>2 DEF Runs, Step
<1> DEFINE Good(k) == Ring(size, r[k], h \o SubSeq(w, 1, k)) /\ r[k].reps = x.dec.reps
           G == {k \in 0..n : Good(k)}
<1>4. 0 \in G
  <2>1. h \o SubSeq(w, 1, 0) = h
    OBVIOUS
  <2>2. Good(0)
    BY <1>3, <2>1, Zenon
  <2> QED
    BY <2>2
<1>5. ASSUME NEW k \in 1..n, k - 1 \in G
      PROVE  k \in G
  <2> DEFINE u == SubSeq(w, 1, k - 1)
  <2>1. u \in Seq(S) /\ w[k] \in S /\ k \in 1..Len(w)
    BY <1>2, PartGrows
  <2>2. Ring(size, r[k - 1], h \o u) /\ r[k - 1].reps = x.dec.reps
    BY <1>5
  <2> HIDE DEF u
  <2>3. h \o u \in Seq(S) /\ <<w[k]>> \in Seq(S)
    BY <2>1
  <2>4. PICK v \in Seq(S) : v = h \o u
    BY <2>3
  <2>5. Ring(size, r[k], v \o <<w[k]>>) /\ r[k].reps = r[k - 1].reps
    <3>1. Ring(size, r[k - 1], v)
      BY <2>2, <2>4
    <3>2. Ring(size, PutByte(r[k - 1], w[k]), v \o <<w[k]>>)
          /\ PutByte(r[k - 1], w[k]).reps = r[k - 1].reps
      BY <2>1, <3>1, PutRing
    <3> QED
      BY <1>3, <3>2
  <2>6. v \o <<w[k]>> = h \o SubSeq(w, 1, k)
    <3>1. h \o SubSeq(w, 1, k) = (h \o SubSeq(w, 1, k - 1)) \o <<w[k]>>
      BY <2>1, JoinedPart
    <3> QED
      BY <2>4, <3>1, Zenon DEF u
  <2>7. Good(k)
    BY <2>2, <2>5, <2>6
  <2> QED
    BY <2>7
<1> HIDE DEF G
<1>6. n \in G
  <2>1. Climbs(G, n)
    BY <1>5 DEF Climbs
  <2> QED
    BY <1>4, <2>1, Climbing
<1>7. Ring(size, r[n], h \o w) /\ r[n].reps = x.dec.reps
  <2>1. SubSeq(w, 1, n) = w
    BY <1>2
  <2> QED
    BY <1>6, <2>1 DEF G
<1>8. PutBytes(x, w).dec = r[n] /\ PutBytes(x, w).buf = x.buf \o w
  BY <1>1, <1>2 DEF PutBytes
<1> QED
  BY <1>7, <1>8

(* What a match of n bytes from dist back adds. *)
Copy(h, dist, n) == [k \in 1..n |-> h[Len(h) - dist + ((k - 1) % (dist + 1))]]

LEMMA CopyTyped ==
  ASSUME NEW S, NEW h \in Seq(S), NEW dist \in Nat, dist < Len(h), NEW n \in Nat
  PROVE  Copy(h, dist, n) \in Seq(S) /\ Len(Copy(h, dist, n)) = n
<1>1. ASSUME NEW k \in 1..n
      PROVE  h[Len(h) - dist + ((k - 1) % (dist + 1))] \in S
  <2>1. k - 1 \in Nat /\ dist + 1 \in Nat \ {0} /\ Len(h) \in Nat
    OBVIOUS
  <2>2. (k - 1) % (dist + 1) \in 0..dist
    <3>1. (k - 1) % (dist + 1) \in 0..(dist + 1) - 1
      BY <2>1, Division
    <3> QED
      BY <3>1
  <2>3. Len(h) - dist + ((k - 1) % (dist + 1)) \in 1..Len(h)
    BY <2>1, <2>2
  <2> QED
    BY <2>3
<1> QED
  BY <1>1 DEF Copy

(* A byte of a match is one from dist back, which may be of the match.     *)
LEMMA CopiedByte ==
  ASSUME NEW S, NEW h \in Seq(S), NEW dist \in Nat, dist < Len(h), NEW n \in Nat, NEW k \in 1..n,
         NEW u \in Seq(S), Len(u) = k - 1, \A j \in 1..k - 1 : u[j] = Copy(h, dist, n)[j]
  PROVE  /\ h \o u \in Seq(S) /\ Len(h \o u) = Len(h) + (k - 1)
         /\ (h \o u)[Len(h \o u) - dist] = Copy(h, dist, n)[k]
<1> DEFINE m == Copy(h, dist, n)
           off == dist + 1
<1>1. m \in Seq(S) /\ Len(m) = n
  BY CopyTyped
<1>2. \A j \in 1..n : m[j] = h[Len(h) - dist + ((j - 1) % off)]
  BY DEF Copy
<1>3. PICK L \in Nat : L = Len(h)
  OBVIOUS
<1>4. \A j \in 1..k - 1 : u[j] = m[j]
  OBVIOUS
<1> HIDE DEF m
<1>5. PICK g \in Seq(S) : /\ g = h \o u /\ Len(g) = L + (k - 1)
                          /\ \A j \in 1..L : g[j] = h[j]
                          /\ \A j \in 1..k - 1 : g[L + j] = u[j]
  <2>1. /\ h \o u \in Seq(S) /\ Len(h \o u) = Len(h) + Len(u)
        /\ \A j \in 1..Len(h) : (h \o u)[j] = h[j]
        /\ \A j \in 1..Len(u) : (h \o u)[Len(h) + j] = u[j]
    <3>1. u \in Seq(S) /\ h \in Seq(S)
      OBVIOUS
    <3>2. h \o u \in Seq(S)
      BY <3>1
    <3>3. Len(h \o u) = Len(h) + Len(u)
      BY <3>1
    <3>4. \A j \in 1..Len(h) : (h \o u)[j] = h[j]
      BY <3>1, Joined
    <3>5. \A j \in 1..Len(u) : (h \o u)[Len(h) + j] = u[j]
      BY <3>1, Joined
    <3> QED
      BY <3>2, <3>3, <3>4, <3>5
  <2> QED
    BY <1>3, <2>1, Zenon
<1>6. k - 1 \in Nat /\ off \in Nat \ {0}
  OBVIOUS
<1>7. CASE k <= off
  <2>1. (k - 1) % off = k - 1
    <3>1. k - 1 \in 0..off - 1 /\ 0 \in Nat /\ (0 * off) + (k - 1) = k - 1
      BY <1>6, <1>7
    <3>2. ((0 * off) + (k - 1)) % off = k - 1
      BY <1>6, <3>1, Dividing
    <3> QED
      BY <3>1, <3>2
  <2>2. Len(g) - dist = L - dist + (k - 1) /\ Len(g) - dist \in 1..L
    <3>1. Len(g) = L + (k - 1) /\ dist < L
      BY <1>3, <1>5
    <3> QED
      BY <1>6, <1>7, <3>1
  <2>3. m[k] = h[L - dist + (k - 1)]
    BY <1>2, <1>3, <2>1
  <2> QED
    BY <1>3, <1>5, <2>2, <2>3 DEF m
<1>8. CASE ~(k <= off)
  <2> DEFINE j == k - off
  <2>1. j \in 1..k - 1 /\ j \in 1..n /\ Len(g) - dist = L + j
    <3>1. Len(g) = L + (k - 1)
      BY <1>5
    <3> QED
      BY <1>6, <1>8, <3>1
  <2>2. (j - 1) % off = (k - 1) % off
    <3>1. j - 1 = (k - 1) - off /\ k - 1 >= off
      BY <1>6, <1>8
    <3> HIDE DEF j
    <3>2. ((k - 1) - off) % off = (k - 1) % off
      BY <1>6, <3>1, RemainderStays
    <3> QED
      BY <3>1, <3>2
  <2> HIDE DEF j
  <2>3. m[j] = m[k]
    BY <1>2, <2>1, <2>2
  <2>4. g[L + j] = m[j]
    BY <1>4, <1>5, <2>1
  <2> QED
    BY <1>3, <1>5, <2>1, <2>3, <2>4 DEF m
<1> QED
  BY <1>7, <1>8

(* copyMatch *)
LEMMA CopyRing ==
  ASSUME NEW size \in Nat \ {0}, NEW S, NEW h \in Seq(S),
         NEW x, Ring(size, x.dec, h), x.buf \in Seq(S),
         NEW dist \in Nat, dist < Len(h), dist < size, NEW n \in Nat
  PROVE  /\ Ring(size, CopyMatch(x, dist, n).dec, h \o Copy(h, dist, n))
         /\ CopyMatch(x, dist, n).dec.reps = x.dec.reps
         /\ CopyMatch(x, dist, n).buf = x.buf \o Copy(h, dist, n)
<1>0. PICK b \in Seq(S) : x.buf = b
  OBVIOUS
<1> DEFINE m == Copy(h, dist, n)
<1>1. PICK r : /\ Runs("copy", dist, x, [i \in 1..n |-> i], r)
               /\ CopyMatch(x, dist, n) = r[Len([i \in 1..n |-> i])]
  BY CopyRuns
<1>2. Len([i \in 1..n |-> i]) = n
  OBVIOUS
<1>3. r[0] = x /\ \A k \in 1..n : r[k] = PutBytes(r[k - 1], <<GetByte(r[k - 1].dec, dist)>>)
  BY <1>1, <1>2 DEF Runs, Step
<1>4. m \in Seq(S) /\ Len(m) = n
  BY CopyTyped
<1> DEFINE Good(k) == /\ Ring(size, r[k].dec, h \o SubSeq(m, 1, k)) /\ r[k].dec.reps = x.dec.reps
                      /\ r[k].buf = b \o SubSeq(m, 1, k)
           G == {k \in 0..n : Good(k)}
<1>5. 0 \in G
  <2>1. h \o SubSeq(m, 1, 0) = h /\ b \o SubSeq(m, 1, 0) = b
    OBVIOUS
  <2>2. Good(0)
    BY <1>0, <1>3, <2>1, Zenon
  <2> QED
    BY <2>2
<1>6. ASSUME NEW k \in 1..n, k - 1 \in G
      PROVE  k \in G
  <2> DEFINE u == SubSeq(m, 1, k - 1)
             g == h \o u
  <2>1. u \in Seq(S) /\ m[k] \in S /\ k \in 1..Len(m)
    <3> HIDE DEF m
    <3> QED
      BY <1>4, PartGrows
  <2>2. Ring(size, r[k - 1].dec, g) /\ r[k - 1].dec.reps = x.dec.reps /\ r[k - 1].buf = b \o u
    BY <1>6
  <2>3. g \in Seq(S) /\ Len(g) = Len(h) + (k - 1) /\ g[Len(g) - dist] = m[k]
    <3>1. u \in Seq(S) /\ Len(u) = k - 1 /\ \A j \in 1..k - 1 : u[j] = m[j]
      <4>1. 0 \in Nat /\ 0 + 1 = 1 /\ k - 1 \in Nat /\ 0 <= k - 1 /\ (k - 1) - 0 = k - 1
            /\ k - 1 <= Len(m) /\ \A j \in 1..k - 1 : 0 + j = j
        BY <1>4
      <4> HIDE DEF m
      <4> QED
        BY <1>4, <4>1, PartIs
    <3> HIDE DEF u
    <3>2. /\ h \o u \in Seq(S) /\ Len(h \o u) = Len(h) + (k - 1)
          /\ (h \o u)[Len(h \o u) - dist] = Copy(h, dist, n)[k]
      BY <3>1, CopiedByte
    <3> QED
      BY <3>2
  <2> HIDE DEF u, g, m
  <2>4. GetByte(r[k - 1].dec, dist) = m[k]
    <3>1. Len(g) \in Nat /\ dist < Len(g)
      BY <2>3
    <3> QED
      BY <2>2, <2>3, <3>1, GetRing
  <2>5. <<m[k]>> \in Seq(S)
    BY <2>1
  <2>6. PICK v \in Seq(S) : v = <<m[k]>>
    BY <2>5
  <2>7. /\ Ring(size, r[k].dec, g \o v) /\ r[k].dec.reps = r[k - 1].dec.reps
        /\ r[k].buf = r[k - 1].buf \o v
    <3>1. PICK y : y = r[k - 1]
      OBVIOUS
    <3>2. r[k] = PutBytes(y, v) /\ Ring(size, y.dec, g)
      BY <1>3, <2>2, <2>4, <2>6, <3>1
    <3>3. Ring(size, PutBytes(y, v).dec, g \o v) /\ PutBytes(y, v).dec.reps = y.dec.reps
          /\ PutBytes(y, v).buf = y.buf \o v
      BY <2>3, <3>2, BytesRing
    <3> QED
      BY <3>1, <3>2, <3>3
  <2>8. g \o v = h \o SubSeq(m, 1, k) /\ (b \o u) \o v = b \o SubSeq(m, 1, k)
    BY <1>4, <2>1, <2>6, JoinedPart DEF g, u
  <2>9. Good(k)
    BY <2>2, <2>7, <2>8
  <2> QED
    BY <2>9
<1> HIDE DEF G
<1>7. n \in G
  <2>1. Climbs(G, n)
    BY <1>6 DEF Climbs
  <2> QED
    BY <1>5, <2>1, Climbing
<1>8. SubSeq(m, 1, n) = m
  <2> HIDE DEF m
  <2> QED
    BY <1>4
<1> QED
  BY <1>0, <1>1, <1>2, <1>7, <1>8 DEF G

-----------------------------------------------------------------------------
(* What operations mean, and what the decoder does with them.              *)

Bytes == Seq(Byte)

Reps == {r \in Seq(Nat) : Len(r) = 4}

Meanings(size) ==
  [hist : Bytes, reps : Reps, out : Bytes,
   state : {"fresh", "go", "eos", "bad", "end"}, size : {size}]

Extends(a, b) == \E w \in Bytes : b = a \o w

LEMMA JoinedRight ==
  ASSUME NEW u \in Seq(Nat), NEW v \in Seq(Nat)
  PROVE  \A k \in 1..Len(v) : (u \o v)[Len(u) + k] = v[k]
OBVIOUS

LEMMA HandedOn ==
  ASSUME NEW o \in Bytes, NEW c \in Bytes, NEW w \in Bytes
  PROVE  c \o w \in Bytes /\ o \o (c \o w) = (o \o c) \o w
<1>1. o \in Seq(Byte) /\ c \in Seq(Byte) /\ w \in Seq(Byte)
  BY DEF Bytes
<1>2. (o \o c) \o w = o \o (c \o w)
  BY <1>1, JoinedLater
<1>3. c \o w \in Bytes
  BY <1>1 DEF Bytes
<1> QED
  BY <1>2, <1>3

LEMMA ExtendsSelf ==
  ASSUME NEW a \in Bytes
  PROVE  Extends(a, a)
<1>1. <<>> \in Bytes /\ a = a \o <<>>
  BY DEF Bytes
<1> QED
  BY <1>1 DEF Extends

LEMMA ExtendsOn ==
  ASSUME NEW a \in Bytes, NEW b \in Bytes, NEW c \in Bytes, Extends(a, b), Extends(b, c)
  PROVE  Extends(a, c)
<1>1. PICK u \in Bytes : b = a \o u
  BY DEF Extends
<1>2. PICK v \in Bytes : c = b \o v
  BY DEF Extends
<1>3. (a \o u) \o v = a \o (u \o v)
  BY JoinedLater DEF Bytes
<1>4. u \o v \in Bytes
  BY DEF Bytes
<1> QED
  BY <1>1, <1>2, <1>3, <1>4 DEF Extends

LEMMA ExtendsIsPrefix ==
  ASSUME NEW a \in Bytes, NEW b \in Bytes, Extends(a, b)
  PROVE  IsPrefix(a, b)
<1>1. PICK w \in Seq(Byte) : b = a \o w
  BY DEF Extends, Bytes
<1>2. a \in Seq(Byte) /\ b \in Seq(Byte)
  BY DEF Bytes
<1>3. /\ Len(b) = Len(a) + Len(w)
      /\ \A k \in 1..Len(a) : b[k] = a[k]
  BY <1>1, <1>2, Joined, Zenon
<1>4. Holds(b, 0, a)
  <2>1. Len(a) \in Nat /\ Len(w) \in Nat /\ 0 + Len(a) <= Len(b) /\ \A k \in 1..Len(a) : 0 + k = k
    BY <1>2, <1>3
  <2> QED
    BY <1>3, <2>1 DEF Holds
<1>5. IsPrefix(a, b)
  BY <1>2, <1>4, PrefixIs
<1> QED
  BY <1>5, Zenon DEF IsPrefix, IsPrefix

LEMMA RepsAre ==
  ASSUME NEW size, NEW s \in Meanings(size), NEW p \in Reps
  PROVE  LET x == [s EXCEPT !.reps = p]
         IN /\ x \in Meanings(size) /\ x.state = s.state /\ x.reps = p
            /\ x.hist = s.hist /\ x.out = s.out
BY DEF Meanings

(* x is s after bytes w and with distances p. *)
Gained(size, s, w, p, x) ==
  /\ x \in Meanings(size) /\ x.state = s.state /\ x.reps = p
  /\ x.hist = s.hist \o w /\ x.out = s.out \o w
  /\ Extends(s.out, x.out)

LEMMA ExtendedIs ==
  ASSUME NEW size, NEW s \in Meanings(size), NEW w \in Bytes, NEW p \in Reps
  PROVE  Gained(size, s, w, p, Extended([s EXCEPT !.reps = p], w))
<1>1. PICK y \in Meanings(size) : /\ y = [s EXCEPT !.reps = p]
                                  /\ y.state = s.state /\ y.reps = p /\ y.hist = s.hist /\ y.out = s.out
  BY RepsAre
<1>2. s.hist \in Bytes /\ s.out \in Bytes
  BY DEF Meanings
<1>3. s.hist \o w \in Bytes /\ s.out \o w \in Bytes
  BY <1>2 DEF Bytes
<1>4. PICK g \in Bytes : g = s.hist \o w
  BY <1>3, Zenon
<1>5. PICK q \in Bytes : q = s.out \o w
  BY <1>3, Zenon
<1>6. PICK x : x = [y EXCEPT !.hist = g, !.out = q]
  OBVIOUS
<1>7. x \in Meanings(size) /\ x.state = y.state /\ x.reps = y.reps /\ x.hist = g /\ x.out = q
  BY <1>6 DEF Meanings
<1>8. Extended(y, w) = x
  BY <1>1, <1>4, <1>5, <1>6, Zenon DEF Extended
<1>9. Extended([s EXCEPT !.reps = p], w) = x
  BY <1>1, <1>8
<1>10. Extends(s.out, x.out)
  BY <1>5, <1>7 DEF Extends
<1> QED
  BY <1>1, <1>4, <1>5, <1>7, <1>9, <1>10, Zenon DEF Gained

LEMMA ExtendedSame ==
  ASSUME NEW size, NEW s \in Meanings(size), NEW w \in Bytes
  PROVE  Gained(size, s, w, s.reps, Extended(s, w))
<1>1. s.reps \in Reps /\ [s EXCEPT !.reps = s.reps] = s
  BY DEF Meanings
<1>2. PICK p \in Reps : p = s.reps
  BY <1>1
<1>3. Gained(size, s, w, p, Extended([s EXCEPT !.reps = p], w))
  BY ExtendedIs, Zenon
<1> QED
  BY <1>1, <1>2, <1>3, Zenon

LEMMA LiteralIs ==
  ASSUME NEW size, NEW s \in Meanings(size), NEW b \in Byte
  PROVE  Gained(size, s, <<b>>, s.reps, Extended(s, <<b>>))
<1>1. <<b>> \in Bytes
  BY DEF Bytes
<1> QED
  BY <1>1, ExtendedSame, Zenon

LEMMA ElementsAre ==
  ASSUME NEW S, NEW r \in Seq(S), NEW n \in Nat, Len(r) = n
  PROVE  \A k \in 1..n : r[k] \in S
OBVIOUS

(* The distances after a match, and after a repetition. *)
LEMMA FourAre ==
  ASSUME NEW r \in Reps
  PROVE  /\ r \in Seq(Nat) /\ Len(r) = 4
         /\ r[1] \in Nat /\ r[2] \in Nat /\ r[3] \in Nat /\ r[4] \in Nat
<1>1. r \in Seq(Nat) /\ Len(r) = 4
  BY DEF Reps
<1>2. \A k \in 1..4 : r[k] \in Nat
  <2>1. 4 \in Nat
    OBVIOUS
  <2> QED
    BY <1>1, <2>1, ElementsAre
<1>3. 1 \in 1..4 /\ 2 \in 1..4 /\ 3 \in 1..4 /\ 4 \in 1..4
  OBVIOUS
<1> QED
  BY <1>1, <1>2, <1>3

LEMMA FourMake ==
  ASSUME NEW a \in Nat, NEW b \in Nat, NEW c \in Nat, NEW e \in Nat
  PROVE  <<a, b, c, e>> \in Reps
<1>1. <<a, b, c, e>> \in Seq(Nat) /\ Len(<<a, b, c, e>>) = 4
  OBVIOUS
<1> QED
  BY <1>1 DEF Reps

(* A distance in front of three. *)
LEMMA FrontIs ==
  ASSUME NEW v \in Nat, NEW w \in Seq(Nat), Len(w) = 3
  PROVE  <<v>> \o w = <<v, w[1], w[2], w[3]>> /\ <<v>> \o w \in Reps
<1>1. PICK f \in Seq(Nat) : f = <<v>> /\ Len(f) = 1 /\ f[1] = v
  <2>1. <<v>> \in Seq(Nat) /\ Len(<<v>>) = 1 /\ <<v>>[1] = v
    OBVIOUS
  <2> QED
    BY <2>1, Zenon
<1>2. PICK x : x = f \o w
  OBVIOUS
<1>3. /\ x \in Seq(Nat) /\ Len(x) = Len(f) + Len(w)
      /\ \A k \in 1..Len(f) : x[k] = f[k]
      /\ \A k \in 1..Len(w) : x[Len(f) + k] = w[k]
  <2> f \in Seq(Nat) /\ w \in Seq(Nat)
    BY <1>1
  <2>1. f \o w \in Seq(Nat) /\ Len(f \o w) = Len(f) + Len(w)
    BY Joined
  <2>2. \A k \in 1..Len(f) : (f \o w)[k] = f[k]
    BY Joined
  <2>3. \A k \in 1..Len(w) : (f \o w)[Len(f) + k] = w[k]
    BY JoinedRight
  <2> QED
    BY <1>2, <2>1, <2>2, <2>3, Zenon
<1>4. Len(x) = 4 /\ x[1] = v /\ \A k \in 1..3 : x[1 + k] = w[k]
  BY <1>1, <1>3
<1>5. x[2] = w[1] /\ x[3] = w[2] /\ x[4] = w[3]
  <2>1. x[1 + 1] = w[1] /\ x[1 + 2] = w[2] /\ x[1 + 3] = w[3]
    BY <1>4
  <2> QED
    BY <2>1
<1>6. x = <<v, w[1], w[2], w[3]>>
  <2>1. w[1] \in Nat /\ w[2] \in Nat /\ w[3] \in Nat
    <3>1. \A k \in 1..3 : w[k] \in Nat
      <4>1. 3 \in Nat
        OBVIOUS
      <4> QED
        BY <4>1, ElementsAre
    <3>2. 1 \in 1..3 /\ 2 \in 1..3 /\ 3 \in 1..3
      OBVIOUS
    <3> QED
      BY <3>1, <3>2
  <2>2. PICK y : y = <<v, w[1], w[2], w[3]>>
    OBVIOUS
  <2>3. y \in Seq(Nat) /\ Len(y) = 4 /\ y[1] = v /\ y[2] = w[1] /\ y[3] = w[2] /\ y[4] = w[3]
    BY <2>1, <2>2
  <2>4. \A k \in 1..4 : x[k] = y[k]
    BY <1>4, <1>5, <2>3
  <2>5. x = y
    BY <1>3, <1>4, <2>3, <2>4, SeqEqual
  <2> QED
    BY <2>2, <2>5
<1> QED
  BY <1>1, <1>2, <1>3, <1>4, <1>6 DEF Reps

LEMMA RepsShifted ==
  ASSUME NEW r \in Reps, NEW dist \in Nat
  PROVE  /\ <<dist, r[1], r[2], r[3]>> \in Reps
         /\ <<dist>> \o SubSeq(r, 1, 3) = <<dist, r[1], r[2], r[3]>>
<1>1. /\ r \in Seq(Nat) /\ Len(r) = 4
      /\ r[1] \in Nat /\ r[2] \in Nat /\ r[3] \in Nat /\ r[4] \in Nat
  BY FourAre
<1>2. PICK w : w = SubSeq(r, 1, 3)
  OBVIOUS
<1>3. w \in Seq(Nat) /\ Len(w) = 3 /\ w[1] = r[1] /\ w[2] = r[2] /\ w[3] = r[3]
  <2>1. 0 \in Nat /\ 3 \in Nat /\ 0 <= 3 /\ 3 <= Len(r) /\ 0 + 1 = 1 /\ 3 - 0 = 3
    BY <1>1
  <2>2. w \in Seq(Nat) /\ Len(w) = 3 /\ \A k \in 1..3 : w[k] = r[0 + k]
    BY <1>1, <1>2, <2>1, PartIs
  <2>3. w[1] = r[0 + 1] /\ w[2] = r[0 + 2] /\ w[3] = r[0 + 3]
    BY <2>2
  <2> QED
    BY <2>2, <2>3
<1>4. <<dist>> \o w = <<dist, w[1], w[2], w[3]>> /\ <<dist>> \o w \in Reps
  BY <1>3, FrontIs
<1> QED
  BY <1>2, <1>3, <1>4

LEMMA RemovedIs ==
  ASSUME NEW r \in Reps, NEW i \in 1..4
  PROVE  /\ RemoveAt(r, i) \in Seq(Nat) /\ Len(RemoveAt(r, i)) = 3
         /\ \A k \in 1..3 : RemoveAt(r, i)[k] = IF k < i THEN r[k] ELSE r[k + 1]
<1>1. r \in Seq(Nat) /\ Len(r) = 4
  BY FourAre
<1>2. PICK u : u = SubSeq(r, 1, i - 1)
  OBVIOUS
<1>3. PICK v : v = SubSeq(r, i + 1, 4)
  OBVIOUS
<1>4. u \in Seq(Nat) /\ Len(u) = i - 1 /\ \A k \in 1..i - 1 : u[k] = r[k]
  <2>1. 0 \in Nat /\ i - 1 \in Nat /\ 0 <= i - 1 /\ i - 1 <= Len(r) /\ 0 + 1 = 1 /\ (i - 1) - 0 = i - 1
        /\ \A k \in 1..i - 1 : 0 + k = k
    BY <1>1
  <2> QED
    BY <1>1, <1>2, <2>1, PartIs
<1>5. v \in Seq(Nat) /\ Len(v) = 4 - i /\ \A k \in 1..4 - i : v[k] = r[i + k]
  <2>1. i \in Nat /\ 4 \in Nat /\ i <= 4 /\ 4 <= Len(r)
    BY <1>1
  <2> QED
    BY <1>1, <1>3, <2>1, PartIs
<1>6. PICK x : x = u \o v
  OBVIOUS
<1>7. /\ x \in Seq(Nat) /\ Len(x) = Len(u) + Len(v)
      /\ \A k \in 1..Len(u) : x[k] = u[k]
      /\ \A k \in 1..Len(v) : x[Len(u) + k] = v[k]
  <2> u \in Seq(Nat) /\ v \in Seq(Nat)
    BY <1>4, <1>5
  <2>1. u \o v \in Seq(Nat) /\ Len(u \o v) = Len(u) + Len(v)
    BY Joined
  <2>2. \A k \in 1..Len(u) : (u \o v)[k] = u[k]
    BY Joined
  <2>3. \A k \in 1..Len(v) : (u \o v)[Len(u) + k] = v[k]
    BY Joined
  <2> QED
    BY <1>6, <2>1, <2>2, <2>3, Zenon
<1>8. ASSUME NEW k \in 1..3
      PROVE  x[k] = IF k < i THEN r[k] ELSE r[k + 1]
  <2>1. CASE k < i
    <3>1. k \in 1..i - 1
      BY <2>1
    <3> QED
      BY <1>4, <1>7, <2>1, <3>1
  <2>2. CASE ~(k < i)
    <3> DEFINE j == k - (i - 1)
    <3>1. j \in 1..4 - i /\ (i - 1) + j = k /\ i + j = k + 1
      BY <2>2
    <3> HIDE DEF j
    <3>2. x[k] = v[j] /\ v[j] = r[k + 1]
      BY <1>4, <1>5, <1>7, <3>1
    <3> QED
      BY <2>2, <3>2
  <2> QED
    BY <2>1, <2>2
<1>9. RemoveAt(r, i) = x
  BY <1>1, <1>2, <1>3, <1>6 DEF RemoveAt
<1>10. Len(x) = 3
  BY <1>4, <1>5, <1>7
<1> QED
  BY <1>7, <1>8, <1>9, <1>10

LEMMA RepsReused ==
  ASSUME NEW r \in Reps, NEW i \in 1..4
  PROVE  /\ Reused(r, i) \in Reps /\ Reused(r, i)[1] = r[i] /\ r[i] \in Nat
         /\ <<r[i]>> \o RemoveAt(r, i) = Reused(r, i)
<1>1. /\ r \in Seq(Nat) /\ Len(r) = 4
      /\ r[1] \in Nat /\ r[2] \in Nat /\ r[3] \in Nat /\ r[4] \in Nat
  BY FourAre
<1>2. PICK w \in Seq(Nat) : /\ w = RemoveAt(r, i) /\ Len(w) = 3
                            /\ \A k \in 1..3 : w[k] = IF k < i THEN r[k] ELSE r[k + 1]
  BY RemovedIs
<1>3. /\ w[1] = IF 1 < i THEN r[1] ELSE r[2]
      /\ w[2] = IF 2 < i THEN r[2] ELSE r[3]
      /\ w[3] = IF 3 < i THEN r[3] ELSE r[4]
  <2>1. 1 \in 1..3 /\ 2 \in 1..3 /\ 3 \in 1..3 /\ 1 + 1 = 2 /\ 2 + 1 = 3 /\ 3 + 1 = 4
    OBVIOUS
  <2> QED
    BY <1>2, <2>1
<1>4. r[i] \in Nat
  BY <1>1
<1>5. <<r[i]>> \o w = <<r[i], w[1], w[2], w[3]>> /\ <<r[i]>> \o w \in Reps
  BY <1>2, <1>4, FrontIs
<1>6. r = <<r[1], r[2], r[3], r[4]>>
  <2>1. PICK y : y = <<r[1], r[2], r[3], r[4]>>
    OBVIOUS
  <2>2. y \in Seq(Nat) /\ Len(y) = 4 /\ y[1] = r[1] /\ y[2] = r[2] /\ y[3] = r[3] /\ y[4] = r[4]
    BY <1>1, <2>1
  <2>3. \A k \in 1..4 : r[k] = y[k]
    BY <2>2
  <2>4. r = y
    BY <1>1, <2>2, <2>3, SeqEqual
  <2> QED
    BY <2>1, <2>4
<1>7. Reused(r, i) = <<r[i], w[1], w[2], w[3]>>
  <2>1. CASE i = 1
    BY <1>3, <1>6, <2>1 DEF Reused
  <2>2. CASE i = 2
    BY <1>3, <2>2 DEF Reused
  <2>3. CASE i = 3
    BY <1>3, <2>3 DEF Reused
  <2>4. CASE i = 4
    BY <1>3, <2>4 DEF Reused
  <2> QED
    BY <2>1, <2>2, <2>3, <2>4
<1>8. Reused(r, i)[1] = r[i]
  BY <1>7
<1>9. <<r[i]>> \o RemoveAt(r, i) = Reused(r, i)
  BY <1>2, <1>5, <1>7, Zenon
<1> QED
  BY <1>4, <1>5, <1>7, <1>8, <1>9, <1>2, Zenon

-----------------------------------------------------------------------------
(* The decoder and what the operations mean, side by side.                 *)

(* Decoder d is where the meaning s is. *)
Follows(size, d, s) == Ring(size, d, s.hist) /\ d.reps = s.reps

LEMMA RingIsDec ==
  ASSUME NEW size, NEW d, NEW h, Ring(size, d, h)
  PROVE  d # NoDec
<1>1. "pos" \in DOMAIN d /\ "pos" \notin DOMAIN NoDec
  BY DEF Ring, DecFields, NoDec
<1> QED
  BY <1>1, Zenon

LEMMA RepsRing ==
  ASSUME NEW size, NEW d, NEW h, Ring(size, d, h), NEW q
  PROVE  Ring(size, [d EXCEPT !.reps = q], h) /\ [d EXCEPT !.reps = q].reps = q
<1> DEFINE e == [d EXCEPT !.reps = q]
<1>1. DOMAIN d = DecFields
  BY DEF Ring
<1>2. DOMAIN e = DecFields
  BY <1>1
<1>3. e.dict = d.dict /\ e.dPos = d.dPos /\ e.dSize = d.dSize /\ e.pos = d.pos /\ e.reps = q
  BY <1>1 DEF DecFields
<1> HIDE DEF e
<1>4. Ring(size, e, h)
  BY <1>2, <1>3 DEF Ring
<1> QED
  BY <1>3, <1>4 DEF e

(* The check of a distance. *)
LEMMA InvalidIs ==
  ASSUME NEW size \in Nat \ {0}, NEW s \in Meanings(size), NEW d, Follows(size, d, s), NEW dist \in Nat
  PROVE  Invalid(d, dist) <=> dist >= Len(s.hist) \/ dist >= size
<1>1. d.pos = Len(s.hist) /\ d.dSize = size
  BY DEF Follows, Ring
<1> QED
  BY <1>1 DEF Invalid

LEMMA PutFollows ==
  ASSUME NEW size \in Nat \ {0}, NEW h \in Bytes, NEW w \in Bytes, NEW x, Ring(size, x.dec, h)
  PROVE  /\ Ring(size, PutBytes(x, w).dec, h \o w)
         /\ PutBytes(x, w).dec.reps = x.dec.reps
         /\ PutBytes(x, w).buf = x.buf \o w
<1>1. h \in Seq(Byte) /\ w \in Seq(Byte)
  BY DEF Bytes
<1> QED
  BY <1>1, BytesRing

LEMMA CopyByte ==
  ASSUME NEW size \in Nat \ {0}, NEW h \in Bytes, NEW x, Ring(size, x.dec, h), x.buf \in Bytes,
         NEW dist \in Nat, dist < Len(h), dist < size, NEW n \in Nat
  PROVE  /\ Ring(size, CopyMatch(x, dist, n).dec, h \o Copy(h, dist, n))
         /\ CopyMatch(x, dist, n).dec.reps = x.dec.reps
         /\ CopyMatch(x, dist, n).buf = x.buf \o Copy(h, dist, n)
<1>1. h \in Seq(Byte) /\ x.buf \in Seq(Byte)
  BY DEF Bytes
<1> QED
  BY <1>1, CopyRing

(* z is s with bytes w more. *)
Grown(size, s, w, z) ==
  /\ s \in Meanings(size) /\ z \in Meanings(size) /\ w \in Bytes
  /\ z.hist = s.hist \o w /\ z.out = s.out \o w /\ z.state = s.state

(* Of bytes b, o were handed out and c are in the buffer. *)
Handed(o, c, b) == o \in Bytes /\ c \in Bytes /\ o \o c = b

LEMMA LiteralFollows ==
  ASSUME NEW size \in Nat \ {0}, NEW s \in Meanings(size), NEW d, Follows(size, d, s),
         NEW o, NEW c, Handed(o, c, s.out), NEW w \in Bytes,
         NEW z, Grown(size, s, w, z), z.reps = s.reps
  PROVE  LET x == PutBytes([dec |-> d, buf |-> c], w)
         IN Follows(size, x.dec, z) /\ Handed(o, x.buf, z.out)
<1>1. PICK y : y = [dec |-> d, buf |-> c]
  OBVIOUS
<1>2. y.dec = d /\ y.buf = c /\ Ring(size, y.dec, s.hist) /\ d.reps = s.reps
  BY <1>1 DEF Follows
<1>3. PICK x : x = PutBytes(y, w)
  OBVIOUS
<1>4. Ring(size, x.dec, s.hist \o w) /\ x.dec.reps = y.dec.reps /\ x.buf = y.buf \o w
  <2>1. PICK h \in Bytes : h = s.hist
    <3>1. s.hist \in Bytes
      BY DEF Meanings
    <3> QED
      BY <3>1, Zenon
  <2>2. Ring(size, y.dec, h)
    BY <1>2, <2>1, Zenon
  <2>3. /\ Ring(size, PutBytes(y, w).dec, h \o w)
        /\ PutBytes(y, w).dec.reps = y.dec.reps
        /\ PutBytes(y, w).buf = y.buf \o w
    BY <2>2, PutFollows
  <2> QED
    BY <1>3, <2>1, <2>3, Zenon
<1>5. Follows(size, x.dec, z)
  BY <1>2, <1>4 DEF Follows, Grown
<1>6. Handed(o, x.buf, z.out)
  <2>1. o \in Bytes /\ c \in Bytes /\ o \o c = s.out
    BY DEF Handed
  <2>2. w \in Bytes /\ z.out = s.out \o w
    BY DEF Grown
  <2>3. c \o w \in Bytes /\ o \o (c \o w) = (o \o c) \o w
    BY <2>1, HandedOn
  <2> QED
    BY <1>2, <1>4, <2>1, <2>2, <2>3, Zenon DEF Handed
<1> QED
  BY <1>1, <1>3, <1>5, <1>6, Zenon

LEMMA CopyFollows ==
  ASSUME NEW size \in Nat \ {0}, NEW s \in Meanings(size), NEW d, Ring(size, d, s.hist),
         NEW o, NEW c, Handed(o, c, s.out),
         NEW dist \in Nat, dist < Len(s.hist), dist < size, NEW n \in Nat,
         NEW z, Grown(size, s, Copy(s.hist, dist, n), z), z.reps = d.reps
  PROVE  LET x == CopyMatch([dec |-> d, buf |-> c], dist, n)
         IN Follows(size, x.dec, z) /\ Handed(o, x.buf, z.out)
<1> DEFINE w == Copy(s.hist, dist, n)
<1>1. PICK y : y = [dec |-> d, buf |-> c]
  OBVIOUS
<1>2. y.dec = d /\ y.buf = c /\ Ring(size, y.dec, s.hist)
  BY <1>1
<1>3. PICK x : x = CopyMatch(y, dist, n)
  OBVIOUS
<1>4. Ring(size, x.dec, s.hist \o w) /\ x.dec.reps = y.dec.reps /\ x.buf = y.buf \o w
  <2>2. PICK h \in Bytes : h = s.hist
    <3>1. s.hist \in Bytes
      BY DEF Meanings
    <3> QED
      BY <3>1, Zenon
  <2>3. Ring(size, y.dec, h) /\ y.buf \in Bytes /\ dist < Len(h)
    BY <1>2, <2>2, Zenon DEF Handed
  <2>4. Ring(size, CopyMatch(y, dist, n).dec, h \o Copy(h, dist, n))
    BY <2>3, CopyByte
  <2>5. CopyMatch(y, dist, n).dec.reps = y.dec.reps
    BY <2>3, CopyByte
  <2>6. CopyMatch(y, dist, n).buf = y.buf \o Copy(h, dist, n)
    BY <2>3, CopyByte
  <2> QED
    BY <1>2, <1>3, <2>2, <2>4, <2>5, <2>6, Zenon
<1>5. Follows(size, x.dec, z)
  BY <1>2, <1>4 DEF Follows, Grown
<1> HIDE DEF w
<1>6. Handed(o, x.buf, z.out)
  <2>1. w \in Bytes /\ z.out = s.out \o w
    BY DEF w, Grown
  <2>2. o \in Bytes /\ c \in Bytes /\ o \o c = s.out
    BY DEF Handed
  <2>3. c \o w \in Bytes /\ o \o (c \o w) = (o \o c) \o w
    BY <2>1, <2>2, HandedOn
  <2> QED
    BY <1>2, <1>4, <2>1, <2>2, <2>3, Zenon DEF Handed
<1> QED
  BY <1>1, <1>3, <1>5, <1>6, Zenon

-----------------------------------------------------------------------------
(* An operation.                                                           *)

LEMMA OperationIs ==
  ASSUME NEW p \in Operations
  PROVE  /\ p.op \in {"literal", "match", "rep", "eos"}
         /\ p.op = "literal" => p.byte \in Byte
         /\ p.op = "match" => p.dist \in Nat /\ p.len \in Nat
         /\ p.op = "rep" => p.i \in 1..4 /\ p.len \in Nat
<1>1. CASE p \in [op : {"literal"}, byte : Byte]
  BY <1>1
<1>2. CASE p \in [op : {"match"}, dist : Nat, len : Nat]
  BY <1>2
<1>3. CASE p \in [op : {"rep"}, i : 1..4, len : Nat]
  BY <1>3
<1>4. CASE p \in [op : {"eos"}]
  BY <1>4
<1> QED
  BY <1>1, <1>2, <1>3, <1>4 DEF Operations

(* Only the state is another. *)
Turned(size, s, z, state) ==
  /\ z \in Meanings(size) /\ z.state = state
  /\ z.hist = s.hist /\ z.reps = s.reps /\ z.out = s.out

LEMMA TurnedIs ==
  ASSUME NEW size, NEW s \in Meanings(size), NEW state \in {"fresh", "go", "eos", "bad", "end"}
  PROVE  Turned(size, s, [s EXCEPT !.state = state], state)
<1>1. PICK z : z = [s EXCEPT !.state = state]
  OBVIOUS
<1>2. z \in Meanings(size)
  BY <1>1 DEF Meanings
<1>3. z.state = state /\ z.hist = s.hist /\ z.reps = s.reps /\ z.out = s.out
  BY <1>1 DEF Meanings
<1> QED
  BY <1>1, <1>2, <1>3, Zenon DEF Turned

(* What an operation with s does to the meaning.                           *)
LEMMA LiteralMeans ==
  ASSUME NEW size, NEW s \in Meanings(size), NEW p \in Operations, p.op = "literal"
  PROVE  Grown(size, s, <<p.byte>>, Operated(s, p)) /\ Operated(s, p).reps = s.reps
<1>1. p.byte \in Byte
  BY OperationIs
<1>2. PICK b \in Byte : b = p.byte
  BY <1>1
<1>3. PICK z : z = Extended(s, <<b>>)
  OBVIOUS
<1>4. Operated(s, p) = z
  BY <1>2, <1>3 DEF Operated
<1>5. /\ z \in Meanings(size) /\ z.state = s.state /\ z.reps = s.reps
      /\ z.hist = s.hist \o <<b>> /\ z.out = s.out \o <<b>>
  BY <1>3, LiteralIs, Zenon DEF Gained
<1>6. <<b>> \in Bytes
  BY DEF Bytes
<1>7. Grown(size, s, <<b>>, z)
  BY <1>5, <1>6, Zenon DEF Grown
<1> QED
  BY <1>2, <1>4, <1>5, <1>7, Zenon

(* q are the distances that dist leaves. *)
Leads(dist, others, q) == q \in Reps /\ q = <<dist>> \o others

LEMMA RepeatedMeans ==
  ASSUME NEW size, NEW s \in Meanings(size), NEW dist \in Nat, NEW others, NEW q, Leads(dist, others, q),
         NEW n \in Nat
  PROVE  IF dist >= Len(s.hist) \/ dist >= size
           THEN Turned(size, s, Repeated(s, dist, others, n), "bad")
           ELSE /\ Grown(size, s, Copy(s.hist, dist, n), Repeated(s, dist, others, n))
                /\ Repeated(s, dist, others, n).reps = q
<1>1. s.size = size /\ s.hist \in Bytes
  BY DEF Meanings
<1>2. PICK z : z = Repeated(s, dist, others, n)
  OBVIOUS
<1>3. CASE dist >= Len(s.hist) \/ dist >= size
  <2>1. z = [s EXCEPT !.state = "bad"]
    BY <1>1, <1>2, <1>3 DEF Repeated
  <2>2. Turned(size, s, z, "bad")
    BY <2>1, TurnedIs, Zenon
  <2> QED
    BY <1>2, <1>3, <2>2
<1>4. CASE ~(dist >= Len(s.hist) \/ dist >= size)
  <2>1. dist < Len(s.hist) /\ s.hist \in Seq(Byte)
    BY <1>1, <1>4 DEF Bytes
  <2>2. Copy(s.hist, dist, n) \in Bytes
    BY <2>1, CopyTyped DEF Bytes
  <2>3. PICK w \in Bytes : w = Copy(s.hist, dist, n)
    BY <2>2, Zenon
  <2>4. z = Extended([s EXCEPT !.reps = q], w)
    BY <1>1, <1>2, <1>4, <2>3 DEF Repeated, Copy, Leads
  <2>5. /\ z \in Meanings(size) /\ z.state = s.state /\ z.reps = q
        /\ z.hist = s.hist \o w /\ z.out = s.out \o w
    <3>1. q \in Reps
      BY DEF Leads
    <3>2. Gained(size, s, w, q, Extended([s EXCEPT !.reps = q], w))
      BY <3>1, ExtendedIs, Zenon
    <3> QED
      BY <2>4, <3>2, Zenon DEF Gained
  <2>6. Grown(size, s, w, z) /\ z.reps = q
    BY <2>5, Zenon DEF Grown
  <2> QED
    BY <1>2, <1>4, <2>3, <2>6
<1> QED
  BY <1>3, <1>4

LEMMA MatchMeans ==
  ASSUME NEW size, NEW s \in Meanings(size), NEW p \in Operations, p.op = "match"
  PROVE  LET q == <<p.dist, s.reps[1], s.reps[2], s.reps[3]>>
         IN /\ q \in Reps
            /\ IF p.dist >= Len(s.hist) \/ p.dist >= size THEN Turned(size, s, Operated(s, p), "bad")
                 ELSE /\ Grown(size, s, Copy(s.hist, p.dist, p.len), Operated(s, p))
                      /\ Operated(s, p).reps = q
<1>1. p.dist \in Nat /\ p.len \in Nat
  BY OperationIs
<1>2. PICK dist \in Nat : dist = p.dist
  BY <1>1
<1>3. PICK n \in Nat : n = p.len
  BY <1>1
<1>4. s.reps \in Reps
  BY DEF Meanings
<1>5. PICK r \in Reps : r = s.reps
  BY <1>4
<1>6. <<dist, r[1], r[2], r[3]>> \in Reps /\ <<dist>> \o SubSeq(r, 1, 3) = <<dist, r[1], r[2], r[3]>>
  BY RepsShifted
<1>7. PICK q \in Reps : q = <<dist, r[1], r[2], r[3]>>
  BY <1>6, Zenon
<1>8. PICK others : others = SubSeq(r, 1, 3)
  OBVIOUS
<1>9. PICK z : z = Repeated(s, dist, others, n)
  OBVIOUS
<1>10. Operated(s, p) = z
  BY <1>2, <1>3, <1>5, <1>8, <1>9 DEF Operated
<1>11. Leads(dist, others, q)
  BY <1>6, <1>7, <1>8, Zenon DEF Leads
<1>12. IF dist >= Len(s.hist) \/ dist >= size THEN Turned(size, s, z, "bad")
         ELSE Grown(size, s, Copy(s.hist, dist, n), z) /\ z.reps = q
  <2>1. IF dist >= Len(s.hist) \/ dist >= size
          THEN Turned(size, s, Repeated(s, dist, others, n), "bad")
          ELSE /\ Grown(size, s, Copy(s.hist, dist, n), Repeated(s, dist, others, n))
               /\ Repeated(s, dist, others, n).reps = q
    BY <1>11, RepeatedMeans
  <2> QED
    BY <1>9, <2>1, Zenon
<1> QED
  BY <1>2, <1>3, <1>5, <1>7, <1>10, <1>12, Zenon

LEMMA RepMeans ==
  ASSUME NEW size, NEW s \in Meanings(size), NEW p \in Operations, p.op = "rep"
  PROVE  LET q == Reused(s.reps, p.i)
         IN /\ q \in Reps /\ q[1] \in Nat
            /\ IF q[1] >= Len(s.hist) \/ q[1] >= size THEN Turned(size, s, Operated(s, p), "bad")
                 ELSE /\ Grown(size, s, Copy(s.hist, q[1], p.len), Operated(s, p))
                      /\ Operated(s, p).reps = q
<1>1. p.i \in 1..4 /\ p.len \in Nat
  BY OperationIs
<1>2. PICK k \in 1..4 : k = p.i
  BY <1>1
<1>3. PICK n \in Nat : n = p.len
  BY <1>1
<1>4. s.reps \in Reps
  BY DEF Meanings
<1>5. PICK r \in Reps : r = s.reps
  BY <1>4
<1>6. /\ Reused(r, k) \in Reps /\ Reused(r, k)[1] = r[k] /\ r[k] \in Nat
      /\ <<r[k]>> \o RemoveAt(r, k) = Reused(r, k)
  BY RepsReused
<1>7. PICK q \in Reps : q = Reused(r, k)
  BY <1>6, Zenon
<1>8. PICK others : others = RemoveAt(r, k)
  OBVIOUS
<1>9. PICK dist \in Nat : dist = r[k]
  BY <1>6, Zenon
<1>10. PICK z : z = Repeated(s, dist, others, n)
  OBVIOUS
<1>11. Operated(s, p) = z
  BY <1>2, <1>3, <1>5, <1>8, <1>9, <1>10 DEF Operated
<1>12. Leads(dist, others, q) /\ q[1] = dist
  BY <1>6, <1>7, <1>8, <1>9, Zenon DEF Leads
<1>13. IF dist >= Len(s.hist) \/ dist >= size THEN Turned(size, s, z, "bad")
         ELSE Grown(size, s, Copy(s.hist, dist, n), z) /\ z.reps = q
  <2>1. IF dist >= Len(s.hist) \/ dist >= size
          THEN Turned(size, s, Repeated(s, dist, others, n), "bad")
          ELSE /\ Grown(size, s, Copy(s.hist, dist, n), Repeated(s, dist, others, n))
               /\ Repeated(s, dist, others, n).reps = q
    BY <1>12, RepeatedMeans
  <2> QED
    BY <1>10, <2>1, Zenon
<1>14. q = Reused(s.reps, p.i) /\ q[1] = dist
  BY <1>2, <1>5, <1>7, <1>12, Zenon
<1> QED
  BY <1>3, <1>11, <1>13, <1>14, Zenon

LEMMA EosMeans ==
  ASSUME NEW size, NEW s \in Meanings(size), NEW p \in Operations, p.op = "eos"
  PROVE  Turned(size, s, Operated(s, p), "eos")
<1>1. Operated(s, p) = [s EXCEPT !.state = "eos"]
  BY DEF Operated
<1>2. Turned(size, s, [s EXCEPT !.state = "eos"], "eos")
  BY TurnedIs
<1> QED
  BY <1>1, <1>2, Zenon

(* The meaning goes on from s to z. *)
GoesOn(size, s, z) == z \in Meanings(size) /\ Extends(s.out, z.out)

LEMMA GrownGoesOn ==
  ASSUME NEW size, NEW s, NEW w, NEW z, Grown(size, s, w, z)
  PROVE  GoesOn(size, s, z)
BY DEF Grown, GoesOn, Extends

LEMMA TurnedGoesOn ==
  ASSUME NEW size, NEW s \in Meanings(size), NEW z, NEW state, Turned(size, s, z, state)
  PROVE  GoesOn(size, s, z)
<1>1. s.out \in Bytes
  BY DEF Meanings
<1> QED
  BY <1>1, ExtendsSelf DEF Turned, GoesOn

LEMMA GoesOnAgain ==
  ASSUME NEW size, NEW s \in Meanings(size), NEW x, NEW z, GoesOn(size, s, x), GoesOn(size, x, z)
  PROVE  GoesOn(size, s, z)
<1>1. s.out \in Bytes /\ x.out \in Bytes /\ z.out \in Bytes
  BY DEF Meanings, GoesOn
<1>2. Extends(s.out, z.out)
  BY <1>1, ExtendsOn DEF GoesOn
<1> QED
  BY <1>2 DEF GoesOn

LEMMA OperatedGoesOn ==
  ASSUME NEW size, NEW s \in Meanings(size), s.state = "go", NEW p \in Operations
  PROVE  GoesOn(size, s, Operated(s, p)) /\ Operated(s, p).state \in {"go", "eos", "bad"}
<1> DEFINE z == Operated(s, p)
<1>1. \/ \E w : Grown(size, s, w, z)
      \/ \E state \in {"bad", "eos"} : Turned(size, s, z, state)
  <2>1. CASE p.op = "literal"
    BY <2>1, LiteralMeans
  <2>2. CASE p.op = "match"
    BY <2>2, MatchMeans
  <2>3. CASE p.op = "rep"
    BY <2>3, RepMeans
  <2>4. CASE p.op = "eos"
    BY <2>4, EosMeans
  <2> QED
    BY <2>1, <2>2, <2>3, <2>4, OperationIs
<1> HIDE DEF z
<1>2. ASSUME NEW w, Grown(size, s, w, z)
      PROVE  GoesOn(size, s, z) /\ z.state \in {"go", "eos", "bad"}
  <2>1. z.state = s.state
    BY <1>2 DEF Grown
  <2> QED
    BY <1>2, <2>1, GrownGoesOn
<1>3. ASSUME NEW state \in {"bad", "eos"}, Turned(size, s, z, state)
      PROVE  GoesOn(size, s, z) /\ z.state \in {"go", "eos", "bad"}
  <2>1. z.state = state
    BY <1>3 DEF Turned
  <2> QED
    BY <1>3, <2>1, TurnedGoesOn
<1> QED
  BY <1>1, <1>2, <1>3 DEF z

(* State x of the decoder, with o handed out, is where the meaning z is.   *)
Moved(size, o, x, z) == Follows(size, x.dec, z) /\ Handed(o, x.buf, z.out)

LEMMA LiteralStep ==
  ASSUME NEW size \in Nat \ {0}, NEW s \in Meanings(size), NEW d, Follows(size, d, s),
         NEW o, NEW c, Handed(o, c, s.out), NEW p \in Operations, p.op = "literal"
  PROVE  /\ Moved(size, o, PutBytes([dec |-> d, buf |-> c], <<p.byte>>), Operated(s, p))
         /\ Operated(s, p).state = s.state
<1>1. PICK z : z = Operated(s, p)
  OBVIOUS
<1>2. PICK w : w = <<p.byte>>
  OBVIOUS
<1>3. Grown(size, s, w, z) /\ z.reps = s.reps
  BY <1>1, <1>2, LiteralMeans, Zenon
<1>4. w \in Bytes /\ z.state = s.state
  BY <1>3 DEF Grown
<1>5. LET x == PutBytes([dec |-> d, buf |-> c], w)
      IN Follows(size, x.dec, z) /\ Handed(o, x.buf, z.out)
  BY <1>3, <1>4, LiteralFollows
<1> QED
  BY <1>1, <1>2, <1>4, <1>5, Zenon DEF Moved

LEMMA CopyStep ==
  ASSUME NEW size \in Nat \ {0}, NEW s \in Meanings(size), NEW d, Follows(size, d, s),
         NEW o, NEW c, Handed(o, c, s.out), NEW dist \in Nat, NEW n \in Nat, NEW q,
         ~Invalid(d, dist), NEW z, Grown(size, s, Copy(s.hist, dist, n), z), z.reps = q
  PROVE  Moved(size, o, CopyMatch([dec |-> [d EXCEPT !.reps = q], buf |-> c], dist, n), z)
<1>1. PICK e : e = [d EXCEPT !.reps = q]
  OBVIOUS
<1>2. Ring(size, e, s.hist) /\ e.reps = q
  <2>1. Ring(size, d, s.hist)
    BY DEF Follows
  <2>2. Ring(size, [d EXCEPT !.reps = q], s.hist) /\ [d EXCEPT !.reps = q].reps = q
    BY <2>1, RepsRing, Zenon
  <2> QED
    BY <1>1, <2>2, Zenon
<1>3. dist < Len(s.hist) /\ dist < size
  <2>1. Invalid(d, dist) <=> dist >= Len(s.hist) \/ dist >= size
    BY InvalidIs
  <2>2. s.hist \in Seq(Byte)
    BY DEF Meanings, Bytes
  <2> QED
    BY <2>1, <2>2
<1>4. z.reps = e.reps
  BY <1>2
<1>5. LET x == CopyMatch([dec |-> e, buf |-> c], dist, n)
      IN Follows(size, x.dec, z) /\ Handed(o, x.buf, z.out)
  <2>1. Ring(size, e, s.hist)
    BY <1>2
  <2> QED
    BY <1>3, <1>4, <2>1, CopyFollows, Zenon
<1> QED
  BY <1>1, <1>5, Zenon DEF Moved

(* Where dist may be gone back with d, x is where p leads to from s, and   *)
(* otherwise p leads nowhere.                                              *)
Copied(size, s, d, o, p, dist, x) ==
  IF Invalid(d, dist) THEN Turned(size, s, Operated(s, p), "bad")
    ELSE Moved(size, o, x, Operated(s, p)) /\ Operated(s, p).state = s.state

LEMMA MatchStep ==
  ASSUME NEW size \in Nat \ {0}, NEW s \in Meanings(size), NEW d, Follows(size, d, s),
         NEW o, NEW c, Handed(o, c, s.out), NEW p \in Operations, p.op = "match",
         NEW e, e = [d EXCEPT !.reps = <<p.dist, @[1], @[2], @[3]>>]
  PROVE  Copied(size, s, d, o, p, p.dist, CopyMatch([dec |-> e, buf |-> c], p.dist, p.len))
<1>1. PICK q : q = <<p.dist, s.reps[1], s.reps[2], s.reps[3]>>
  OBVIOUS
<1>2. PICK z : z = Operated(s, p)
  OBVIOUS
<1>3. PICK n \in Nat : n = p.len
  BY OperationIs
<1>4. PICK dist \in Nat : dist = p.dist
  BY OperationIs
<1>5. IF dist >= Len(s.hist) \/ dist >= size THEN Turned(size, s, z, "bad")
        ELSE Grown(size, s, Copy(s.hist, dist, n), z) /\ z.reps = q
  BY <1>1, <1>2, <1>3, <1>4, MatchMeans, Zenon
<1>6. Invalid(d, dist) <=> dist >= Len(s.hist) \/ dist >= size
  BY InvalidIs
<1>7. d.reps = s.reps
  BY DEF Follows
<1>8. e = [d EXCEPT !.reps = q]
  BY <1>1, <1>7
<1>9. CASE Invalid(d, dist)
  BY <1>2, <1>4, <1>5, <1>6, <1>9, Zenon DEF Copied
<1>10. CASE ~Invalid(d, dist)
  <2>1. Grown(size, s, Copy(s.hist, dist, n), z) /\ z.reps = q
    BY <1>5, <1>6, <1>10, Zenon
  <2>2. Moved(size, o, CopyMatch([dec |-> [d EXCEPT !.reps = q], buf |-> c], dist, n), z)
    BY <1>10, <2>1, CopyStep, Zenon
  <2>3. z.state = s.state
    BY <2>1 DEF Grown
  <2> QED
    BY <1>2, <1>3, <1>4, <1>8, <1>10, <2>2, <2>3, Zenon DEF Copied
<1> QED
  BY <1>9, <1>10

LEMMA RepStep ==
  ASSUME NEW size \in Nat \ {0}, NEW s \in Meanings(size), NEW d, Follows(size, d, s),
         NEW o, NEW c, Handed(o, c, s.out), NEW p \in Operations, p.op = "rep",
         NEW e, e = [d EXCEPT !.reps = Reused(@, p.i)]
  PROVE  Copied(size, s, d, o, p, e.reps[1], CopyMatch([dec |-> e, buf |-> c], e.reps[1], p.len))
<1>1. PICK q : q = Reused(s.reps, p.i)
  OBVIOUS
<1>2. PICK z : z = Operated(s, p)
  OBVIOUS
<1>3. PICK n \in Nat : n = p.len
  BY OperationIs
<1>4. q[1] \in Nat
  BY <1>1, RepMeans, Zenon
<1>5. PICK dist \in Nat : dist = q[1]
  BY <1>4, Zenon
<1>6. IF dist >= Len(s.hist) \/ dist >= size THEN Turned(size, s, z, "bad")
        ELSE Grown(size, s, Copy(s.hist, dist, n), z) /\ z.reps = q
  BY <1>1, <1>2, <1>3, <1>5, RepMeans, Zenon
<1>7. Invalid(d, dist) <=> dist >= Len(s.hist) \/ dist >= size
  BY InvalidIs
<1>8. d.reps = s.reps /\ Ring(size, d, s.hist)
  BY DEF Follows
<1>9. e = [d EXCEPT !.reps = q]
  BY <1>1, <1>8
<1>10. e.reps[1] = dist
  <2>1. [d EXCEPT !.reps = q].reps = q
    BY <1>8, RepsRing
  <2> QED
    BY <1>5, <1>9, <2>1, Zenon
<1>11. CASE Invalid(d, dist)
  BY <1>2, <1>6, <1>7, <1>10, <1>11, Zenon DEF Copied
<1>12. CASE ~Invalid(d, dist)
  <2>1. Grown(size, s, Copy(s.hist, dist, n), z) /\ z.reps = q
    BY <1>6, <1>7, <1>12, Zenon
  <2>2. Moved(size, o, CopyMatch([dec |-> [d EXCEPT !.reps = q], buf |-> c], dist, n), z)
    BY <1>12, <2>1, CopyStep, Zenon
  <2>3. z.state = s.state
    BY <2>1 DEF Grown
  <2> QED
    BY <1>2, <1>3, <1>9, <1>10, <1>12, <2>2, <2>3, Zenon DEF Copied
<1> QED
  BY <1>11, <1>12

-----------------------------------------------------------------------------
(* The operations of a chunk.                                              *)

LEMMA OpsRun ==
  ASSUME NEW s \in Meanings(DictSize), s.state = "go", NEW to \in Nat, NEW w \in Seq(Operations),
         NEW r, Runs("op", to, s, w, r)
  PROVE  \A k \in 0..Len(w) : GoesOn(DictSize, s, r[k]) /\ r[k].state \in {"go", "eos", "bad"}
<1>1. PICK n \in Nat : n = Len(w)
  OBVIOUS
<1> DEFINE Good(k) == GoesOn(DictSize, s, r[k]) /\ r[k].state \in {"go", "eos", "bad"}
           G == {k \in 0..n : Good(k)}
<1>2. r[0] = s /\ \A k \in 1..n : r[k] = Step("op", to, r[k - 1], w[k])
  BY <1>1 DEF Runs
<1>3. 0 \in G
  <2>1. s.out \in Bytes
    BY DEF Meanings
  <2>2. GoesOn(DictSize, s, s)
    BY <2>1, ExtendsSelf DEF GoesOn
  <2>3. Good(0)
    BY <1>2, <2>2
  <2> QED
    BY <2>3
<1>4. ASSUME NEW k \in 1..n, k - 1 \in G
      PROVE  k \in G
  <2>1. PICK x : x = r[k - 1]
    OBVIOUS
  <2>2. GoesOn(DictSize, s, x) /\ x.state \in {"go", "eos", "bad"}
    BY <1>4, <2>1
  <2>3. w[k] \in Operations
    BY <1>1
  <2>4. r[k] = x \/ (x.state = "go" /\ r[k] = Operated(x, w[k]))
    BY <1>2, <2>1, Zenon DEF Step
  <2>5. CASE r[k] = x
    BY <2>2, <2>5
  <2>6. CASE x.state = "go" /\ r[k] = Operated(x, w[k])
    <3>1. x \in Meanings(DictSize)
      BY <2>2 DEF GoesOn
    <3>2. GoesOn(DictSize, x, r[k]) /\ r[k].state \in {"go", "eos", "bad"}
      BY <2>3, <2>6, <3>1, OperatedGoesOn
    <3> QED
      BY <2>2, <3>2, GoesOnAgain
  <2> QED
    BY <2>4, <2>5, <2>6
<1> HIDE DEF G
<1>5. \A k \in 0..n : k \in G
  <2>1. Climbs(G, n)
    BY <1>4 DEF Climbs
  <2> QED
    BY <1>3, <2>1, Climbing
<1> QED
  BY <1>1, <1>5 DEF G

(* No operation is followed any more. *)
Over(x, to) == x.state # "go" \/ Len(x.out) >= to

(* What is behind the end is not needed. *)
LEMMA OpsStay ==
  ASSUME NEW s, NEW to \in Nat, NEW w, NEW n \in Nat, Len(w) = n, NEW r, Runs("op", to, s, w, r),
         NEW j \in 0..n, Over(r[j], to)
  PROVE  r[n] = r[j]
<1> DEFINE G == {k \in 0..n : k >= j => r[k] = r[j]}
<1>1. 0 \in G
  OBVIOUS
<1>2. ASSUME NEW k \in 1..n, k - 1 \in G
      PROVE  k \in G
  <2>1. r[k] = Step("op", to, r[k - 1], w[k])
    BY DEF Runs
  <2>2. CASE k > j
    <3>1. r[k - 1] = r[j]
      BY <1>2, <2>2
    <3>2. r[k] = r[j]
      BY <2>1, <3>1 DEF Step, Over
    <3> QED
      BY <3>2
  <2>3. CASE ~(k > j)
    BY <2>3
  <2> QED
    BY <2>2, <2>3
<1> HIDE DEF G
<1>3. n \in G
  <2>1. Climbs(G, n)
    BY <1>2 DEF Climbs
  <2> QED
    BY <1>1, <2>1, Climbing
<1> QED
  BY <1>3 DEF G

-----------------------------------------------------------------------------
(* What units mean.                                                        *)

LEMMA UnitIs ==
  ASSUME NEW u \in Units
  PROVE  /\ u.unit \in {"header", "block", "raw", "lzma", "end", "check", "index"}
         /\ u.unit \in {"header", "block"} => u.ok \in BOOLEAN
         /\ u.unit = "raw" => u.data \in Bytes
         /\ u.unit = "lzma" => /\ u.control \in {"none", "state", "props", "all"}
                               /\ u.size \in Nat /\ u.ops \in Seq(Operations)
<1>1. CASE u \in [unit : {"header", "block"}, ok : BOOLEAN]
  BY <1>1
<1>2. CASE u \in [unit : {"raw"}, reset : BOOLEAN, data : Seq(Byte)]
  BY <1>2 DEF Bytes
<1>3. CASE u \in [unit : {"lzma"}, control : {"none", "state", "props", "all"}, props : {"plain", "context", "bad"},
                  size : Nat, ok : BOOLEAN, ops : Seq(Operations)]
  BY <1>3
<1>4. CASE u \in [unit : {"end", "check", "index"}]
  BY <1>4
<1> QED
  BY <1>1, <1>2, <1>3, <1>4 DEF Units

Zeros == <<0, 0, 0, 0>>

LEMMA FreshIs ==
  /\ Fresh \in Meanings(DictSize) /\ Fresh.state = "fresh" /\ Fresh.hist = <<>> /\ Fresh.out = <<>>
  /\ Fresh.reps = Zeros
<1>1. Fresh = [hist |-> <<>>, reps |-> <<0, 0, 0, 0>>, out |-> <<>>, state |-> "fresh", size |-> DictSize]
  BY DEF Fresh, Start
<1>2. <<0, 0, 0, 0>> \in Reps /\ <<>> \in Bytes
  BY FourMake DEF Bytes
<1> QED
  BY <1>1, <1>2 DEF Meanings, Zeros

(* The history begins again. *)
LEMMA ForgetIs ==
  ASSUME NEW s \in Meanings(DictSize)
  PROVE  LET z == Forget(s)
         IN /\ z \in Meanings(DictSize) /\ z.hist = <<>> /\ z.reps = Zeros
            /\ z.out = s.out /\ z.state = s.state
<1>1. PICK a \in Bytes : a = <<>>
  <2>1. <<>> \in Bytes
    BY DEF Bytes
  <2> QED
    BY <2>1
<1>2. PICK q \in Reps : q = Zeros
  <2>1. Zeros \in Reps
    BY FourMake DEF Zeros
  <2> QED
    BY <2>1
<1>3. PICK z : z = [s EXCEPT !.hist = a, !.reps = q]
  OBVIOUS
<1>4. z \in Meanings(DictSize) /\ z.hist = a /\ z.reps = q /\ z.out = s.out /\ z.state = s.state
  BY <1>3 DEF Meanings
<1>5. Forget(s) = z
  BY <1>1, <1>2, <1>3, Zenon DEF Forget, Zeros
<1> QED
  BY <1>1, <1>2, <1>4, <1>5, Zenon

(* What a chunk of operations begins with. *)
Begun(s, u) ==
  Go(CASE u.control = "all"  -> Forget(s)
          [] u.control = "none" -> s
          [] OTHER              -> [s EXCEPT !.reps = <<0, 0, 0, 0>>])

(* z is s where the chunk of u begins. *)
Begins(s, u, z) ==
  /\ z \in Meanings(DictSize) /\ z.state = "go" /\ z.out = s.out
  /\ u.control = "none" => z.hist = s.hist /\ z.reps = s.reps
  /\ u.control = "all" => z.hist = <<>> /\ z.reps = Zeros

LEMMA BegunIs ==
  ASSUME NEW s \in Meanings(DictSize), NEW u
  PROVE  Begins(s, u, Begun(s, u))
<1>1. PICK x : x = CASE u.control = "all"  -> Forget(s)
                     [] u.control = "none" -> s
                     [] OTHER              -> [s EXCEPT !.reps = <<0, 0, 0, 0>>]
  OBVIOUS
<1>2. /\ x \in Meanings(DictSize) /\ x.out = s.out
      /\ u.control = "none" => x.hist = s.hist /\ x.reps = s.reps
      /\ u.control = "all" => x.hist = <<>> /\ x.reps = Zeros
  <2>1. CASE u.control = "all"
    <3>1. x = Forget(s)
      BY <1>1, <2>1
    <3> QED
      BY <2>1, <3>1, ForgetIs
  <2>2. CASE u.control = "none"
    <3>1. x = s
      BY <1>1, <2>2
    <3> QED
      BY <2>2, <3>1
  <2>3. CASE u.control # "all" /\ u.control # "none"
    <3>1. x = [s EXCEPT !.reps = <<0, 0, 0, 0>>]
      BY <1>1, <2>3
    <3>2. Zeros \in Reps
      BY FourMake DEF Zeros
    <3>3. x \in Meanings(DictSize) /\ x.out = s.out
      BY <3>1, <3>2, RepsAre DEF Zeros
    <3> QED
      BY <2>3, <3>3
  <2> QED
    BY <2>1, <2>2, <2>3
<1>3. PICK z : z = [x EXCEPT !.state = "go"]
  OBVIOUS
<1>4. Turned(DictSize, x, z, "go")
  BY <1>2, <1>3, TurnedIs
<1>5. Begun(s, u) = z
  BY <1>1, <1>3, Zenon DEF Begun, Go
<1> QED
  BY <1>2, <1>4, <1>5, Zenon DEF Turned, Begins

(* A chunk of operations means what they do, if it is well formed and they *)
(* are as many as it says.                                                 *)
ChunkMeaning(s, u, s1) ==
  IF ~u.ok \/ (s.state = "fresh" /\ u.control = "none") THEN [s EXCEPT !.state = "bad"]
    ELSE CASE s1.state = "eos" -> Go(s1)
           [] s1.state = "go" /\ Len(s1.out) < Len(s.out) + u.size -> [s1 EXCEPT !.state = "bad"]
           [] OTHER -> s1

LEMMA LzmaIs ==
  ASSUME NEW s, NEW u
  PROVE  LzmaMeaning(s, u) = ChunkMeaning(s, u, Followed(Begun(s, u), u.ops, Len(s.out) + u.size))
BY DEF LzmaMeaning, ChunkMeaning, Begun

(* All that the meaning can be between units. *)
Between ==
  {s \in Meanings(DictSize) : /\ s.state \in {"fresh", "go", "bad", "end"}
                             /\ s.state = "fresh" => s = Fresh}

LEMMA LzmaGoesOn ==
  ASSUME NEW s \in Between, s.state \in {"fresh", "go"}, NEW u \in Units, u.unit = "lzma"
  PROVE  GoesOn(DictSize, s, LzmaMeaning(s, u)) /\ LzmaMeaning(s, u).state \in {"go", "bad"}
<1>1. u.size \in Nat /\ u.ops \in Seq(Operations)
  BY UnitIs
<1>2. s \in Meanings(DictSize) /\ s.out \in Bytes
  BY DEF Between, Meanings
<1>3. Len(s.out) + u.size \in Nat
  BY <1>1, <1>2 DEF Bytes
<1>4. PICK x \in Meanings(DictSize) : x = Begun(s, u) /\ x.state = "go" /\ x.out = s.out
  <2>1. LET z == Begun(s, u)
        IN z \in Meanings(DictSize) /\ z.state = "go" /\ z.out = s.out
    BY <1>2, BegunIs DEF Begins
  <2> QED
    BY <2>1
<1>5. PICK to \in Nat : to = Len(s.out) + u.size
  BY <1>3
<1>6. PICK w \in Seq(Operations) : w = u.ops
  BY <1>1, Zenon
<1>7. PICK r : Runs("op", to, x, w, r) /\ Followed(x, w, to) = r[Len(w)]
  BY OpRuns
<1>8. PICK s1 : s1 = r[Len(w)]
  OBVIOUS
<1>9. GoesOn(DictSize, x, s1) /\ s1.state \in {"go", "eos", "bad"}
  <2>1. Len(w) \in 0..Len(w)
    OBVIOUS
  <2> QED
    BY <1>4, <1>7, <1>8, <2>1, OpsRun
<1>10. GoesOn(DictSize, s, s1) /\ s1 \in Meanings(DictSize)
  BY <1>4, <1>9 DEF GoesOn
<1>11. LzmaMeaning(s, u) = ChunkMeaning(s, u, s1)
  <2>1. Followed(Begun(s, u), u.ops, Len(s.out) + u.size) = s1
    BY <1>4, <1>5, <1>6, <1>7, <1>8, Zenon
  <2> QED
    BY <2>1, LzmaIs
<1>12. ASSUME NEW a \in Meanings(DictSize), GoesOn(DictSize, s, a), NEW state \in {"go", "bad"}
       PROVE  GoesOn(DictSize, s, [a EXCEPT !.state = state]) /\ [a EXCEPT !.state = state].state = state
  <2>1. Turned(DictSize, a, [a EXCEPT !.state = state], state)
    BY TurnedIs
  <2>2. GoesOn(DictSize, a, [a EXCEPT !.state = state])
    BY <2>1, TurnedGoesOn
  <2>3. GoesOn(DictSize, s, [a EXCEPT !.state = state])
    BY <1>2, <1>12, <2>2, GoesOnAgain
  <2> QED
    BY <2>1, <2>3 DEF Turned
<1>13. GoesOn(DictSize, s, s)
  BY <1>2, ExtendsSelf DEF GoesOn
<1>14. \/ ChunkMeaning(s, u, s1) = [s EXCEPT !.state = "bad"]
       \/ ChunkMeaning(s, u, s1) = [s1 EXCEPT !.state = "go"]
       \/ ChunkMeaning(s, u, s1) = [s1 EXCEPT !.state = "bad"]
       \/ ChunkMeaning(s, u, s1) = s1 /\ s1.state \in {"go", "bad"}
  BY <1>9, Zenon DEF ChunkMeaning, Go
<1> DEFINE Fine(z) == GoesOn(DictSize, s, z) /\ z.state \in {"go", "bad"}
<1>15. /\ Fine([s EXCEPT !.state = "bad"])
       /\ Fine([s1 EXCEPT !.state = "go"]) /\ Fine([s1 EXCEPT !.state = "bad"])
  BY <1>2, <1>10, <1>12, <1>13
<1>16. s1.state \in {"go", "bad"} => Fine(s1)
  BY <1>10
<1> HIDE DEF Fine
<1>17. Fine(ChunkMeaning(s, u, s1))
  BY <1>14, <1>15, <1>16, Zenon
<1> QED
  BY <1>11, <1>17 DEF Fine

LEMMA UnitGoesOn ==
  ASSUME NEW s \in Between, NEW u \in Units
  PROVE  /\ GoesOn(DictSize, s, UnitMeaning(s, u)) /\ UnitMeaning(s, u) \in Between
         /\ s.state \notin {"fresh", "go"} => UnitMeaning(s, u) = s
<1> DEFINE z == UnitMeaning(s, u)
<1>1. s \in Meanings(DictSize) /\ s.out \in Bytes
  BY DEF Between, Meanings
<1>2. GoesOn(DictSize, s, s)
  BY <1>1, ExtendsSelf DEF GoesOn
<1>3. ASSUME NEW x \in Meanings(DictSize), GoesOn(DictSize, s, x), x.state \in {"go", "bad", "end"}
      PROVE  x \in Between
  BY <1>3 DEF Between
<1>4. ASSUME NEW state \in {"go", "bad", "end"}
      PROVE  /\ GoesOn(DictSize, s, [s EXCEPT !.state = state])
             /\ [s EXCEPT !.state = state] \in Between
  <2>1. Turned(DictSize, s, [s EXCEPT !.state = state], state)
    BY <1>1, TurnedIs
  <2>2. GoesOn(DictSize, s, [s EXCEPT !.state = state])
    BY <1>1, <2>1, TurnedGoesOn
  <2> QED
    BY <2>1, <2>2, <1>3 DEF Turned
<1>5. CASE s.state \notin {"fresh", "go"}
  <2>1. z = s
    BY <1>5 DEF UnitMeaning
  <2> QED
    BY <1>2, <1>5, <2>1
<1>6. CASE s.state \in {"fresh", "go"} /\ u.unit \in {"header", "block"}
  <2>1. z = IF u.ok THEN s ELSE [s EXCEPT !.state = "bad"]
    BY <1>6 DEF UnitMeaning
  <2> QED
    BY <1>2, <1>4, <1>6, <2>1
<1>7. CASE s.state \in {"fresh", "go"} /\ u.unit = "raw"
  <2>1. PICK x : x = IF u.reset THEN Forget(s) ELSE s
    OBVIOUS
  <2>2. x \in Meanings(DictSize) /\ x.out = s.out /\ x.reps \in Reps
    <3>1. x \in Meanings(DictSize) /\ x.out = s.out
      BY <1>1, <2>1, ForgetIs
    <3> QED
      BY <3>1 DEF Meanings
  <2>3. PICK w \in Bytes : w = u.data
    BY <1>7, UnitIs
  <2>4. PICK y : y = Extended(x, w)
    OBVIOUS
  <2>5. y \in Meanings(DictSize) /\ Extends(x.out, y.out)
    <3>1. Gained(DictSize, x, w, x.reps, y)
      BY <2>2, <2>4, ExtendedSame, Zenon
    <3> QED
      BY <3>1 DEF Gained
  <2>6. Turned(DictSize, y, [y EXCEPT !.state = "go"], "go")
    BY <2>5, TurnedIs
  <2>7. z = [y EXCEPT !.state = "go"]
    BY <1>7, <2>1, <2>3, <2>4 DEF UnitMeaning, Go
  <2> HIDE DEF z
  <2>8. GoesOn(DictSize, s, z) /\ z \in Meanings(DictSize) /\ z.state = "go"
    BY <2>2, <2>5, <2>6, <2>7 DEF GoesOn, Turned
  <2> QED
    BY <1>3, <1>7, <2>8 DEF z
<1>8. CASE s.state \in {"fresh", "go"} /\ u.unit = "lzma"
  <2>1. z = LzmaMeaning(s, u)
    BY <1>8 DEF UnitMeaning
  <2>2. GoesOn(DictSize, s, z) /\ z.state \in {"go", "bad"}
    BY <1>8, <2>1, LzmaGoesOn
  <2>3. z \in Between
    BY <1>3, <2>2 DEF GoesOn
  <2> QED
    BY <1>8, <2>2, <2>3
<1>9. CASE s.state \in {"fresh", "go"} /\ u.unit \in {"end", "check", "index"}
  <2>1. z = [s EXCEPT !.state = "end"]
    BY <1>9 DEF UnitMeaning
  <2> QED
    BY <1>4, <1>9, <2>1
<1> QED
  BY <1>5, <1>6, <1>7, <1>8, <1>9, UnitIs

(* Along a stream. *)
LEMMA UnitsRun ==
  ASSUME NEW units \in Seq(Units), NEW m, Runs("unit", 0, Fresh, units, m)
  PROVE  \A k \in 0..Len(units) : m[k] \in Between
<1>1. PICK n \in Nat : n = Len(units)
  OBVIOUS
<1> DEFINE G == {k \in 0..n : m[k] \in Between}
<1>2. 0 \in G
  <2>1. m[0] = Fresh
    BY DEF Runs
  <2>2. Fresh \in Between
    BY FreshIs DEF Between
  <2> QED
    BY <2>1, <2>2
<1>3. ASSUME NEW k \in 1..n, k - 1 \in G
      PROVE  k \in G
  <2>1. m[k] = UnitMeaning(m[k - 1], units[k])
    BY <1>1 DEF Runs, Step
  <2>2. units[k] \in Units
    BY <1>1
  <2> QED
    BY <1>3, <2>1, <2>2, UnitGoesOn
<1> HIDE DEF G
<1>4. \A k \in 0..n : k \in G
  <2>1. Climbs(G, n)
    BY <1>3 DEF Climbs
  <2> QED
    BY <1>2, <2>1, Climbing
<1> QED
  BY <1>1, <1>4 DEF G

(* What a stream means so far it also means in the end; behind its end it  *)
(* means nothing more.                                                     *)
LEMMA UnitsGoOn ==
  ASSUME NEW units \in Seq(Units), NEW m, Runs("unit", 0, Fresh, units, m),
         NEW n \in Nat, n = Len(units), NEW j \in 0..n
  PROVE  /\ GoesOn(DictSize, m[j], m[n])
         /\ m[j].state \notin {"fresh", "go"} => m[n] = m[j]
<1> DEFINE G == {k \in 0..n : k >= j => /\ GoesOn(DictSize, m[j], m[k])
                                        /\ m[j].state \notin {"fresh", "go"} => m[k] = m[j]}
<1>1. \A k \in 0..n : m[k] \in Between
  BY UnitsRun
<1>2. m[j] \in Meanings(DictSize) /\ m[j] \in Between
  BY <1>1 DEF Between
<1>3. GoesOn(DictSize, m[j], m[j])
  <2>1. m[j].out \in Bytes
    BY <1>2 DEF Meanings
  <2> QED
    BY <1>2, <2>1, ExtendsSelf DEF GoesOn
<1>4. 0 \in G
  BY <1>3
<1>5. ASSUME NEW k \in 1..n, k - 1 \in G
      PROVE  k \in G
  <2>1. m[k] = UnitMeaning(m[k - 1], units[k])
    BY DEF Runs, Step
  <2>2. units[k] \in Units
    OBVIOUS
  <2>3. m[k - 1] \in Between
    BY <1>1
  <2>4. GoesOn(DictSize, m[k - 1], m[k]) /\ (m[k - 1].state \notin {"fresh", "go"} => m[k] = m[k - 1])
    BY <2>1, <2>2, <2>3, UnitGoesOn
  <2>5. CASE k > j
    <3>1. k - 1 >= j
      BY <2>5
    <3>2. GoesOn(DictSize, m[j], m[k - 1]) /\ (m[j].state \notin {"fresh", "go"} => m[k - 1] = m[j])
      BY <1>5, <3>1
    <3>3. GoesOn(DictSize, m[j], m[k])
      BY <1>2, <2>4, <3>2, GoesOnAgain
    <3> QED
      BY <2>4, <3>2, <3>3
  <2>6. CASE k = j
    BY <1>3, <2>6
  <2>7. CASE k < j
    BY <2>7
  <2> QED
    BY <2>5, <2>6, <2>7
<1> HIDE DEF G
<1>6. n \in G
  <2>1. Climbs(G, n)
    BY <1>5 DEF Climbs
  <2> QED
    BY <1>4, <2>1, Climbing
<1> QED
  BY <1>6 DEF G

-----------------------------------------------------------------------------
(* The types of the reader.                                                *)

Ringed(d) == d.reps \in Reps /\ \E h \in Bytes : Ring(DictSize, d, h)

LEMMA NewRinged ==
  ASSUME DictSize \in Nat \ {0}
  PROVE  Ringed(NewDec(DictSize)) /\ Follows(DictSize, NewDec(DictSize), Fresh)
<1>1. Ring(DictSize, NewDec(DictSize), <<>>) /\ NewDec(DictSize).reps = Zeros
  BY NewRing DEF Zeros
<1>2. Zeros \in Reps /\ <<>> \in Bytes
  BY FourMake DEF Zeros, Bytes
<1>3. Follows(DictSize, NewDec(DictSize), Fresh)
  BY <1>1, FreshIs DEF Follows
<1> QED
  BY <1>1, <1>2, <1>3 DEF Ringed

LEMMA PutRinged ==
  ASSUME DictSize \in Nat \ {0}, NEW d, Ringed(d), NEW c \in Bytes, NEW w \in Bytes,
         NEW x, x = PutBytes([dec |-> d, buf |-> c], w)
  PROVE  Ringed(x.dec) /\ x.buf \in Bytes
<1>1. PICK h \in Bytes : Ring(DictSize, d, h)
  BY DEF Ringed
<1>2. PICK y : y = [dec |-> d, buf |-> c]
  OBVIOUS
<1>3. Ring(DictSize, y.dec, h) /\ y.dec = d
  BY <1>1, <1>2
<1>4. /\ Ring(DictSize, PutBytes(y, w).dec, h \o w)
      /\ PutBytes(y, w).dec.reps = y.dec.reps
      /\ PutBytes(y, w).buf = y.buf \o w
  <2>1. Ring(DictSize, y.dec, h)
    BY <1>3
  <2> QED
    BY <2>1, PutFollows
<1>5. h \o w \in Bytes /\ c \o w \in Bytes
  BY HandedOn
<1>6. x = PutBytes(y, w) /\ y.buf = c
  BY <1>2
<1>7. x.dec.reps \in Reps
  BY <1>3, <1>4, <1>6, Zenon DEF Ringed
<1>8. Ring(DictSize, x.dec, h \o w) /\ x.buf = c \o w
  BY <1>4, <1>6, Zenon
<1> QED
  BY <1>5, <1>7, <1>8, Zenon DEF Ringed

LEMMA CopyRinged ==
  ASSUME DictSize \in Nat \ {0}, NEW d, Ringed(d), NEW c \in Bytes, NEW q \in Reps,
         NEW dist \in Nat, ~Invalid(d, dist), NEW n \in Nat
  PROVE  LET x == CopyMatch([dec |-> [d EXCEPT !.reps = q], buf |-> c], dist, n)
         IN Ringed(x.dec) /\ x.buf \in Bytes
<1>1. PICK h \in Bytes : Ring(DictSize, d, h)
  BY DEF Ringed
<1>2. PICK e : e = [d EXCEPT !.reps = q]
  OBVIOUS
<1>3. Ring(DictSize, e, h) /\ e.reps = q
  BY <1>1, <1>2, RepsRing
<1>4. PICK y : y = [dec |-> e, buf |-> c]
  OBVIOUS
<1>5. y.dec = e /\ y.buf = c
  BY <1>4
<1>6. dist < Len(h) /\ dist < DictSize
  <2>1. d.pos = Len(h) /\ d.dSize = DictSize
    BY <1>1 DEF Ring
  <2>2. Len(h) \in Nat
    BY DEF Bytes
  <2> QED
    BY <2>1, <2>2 DEF Invalid
<1>7. PICK m : m = Copy(h, dist, n)
  OBVIOUS
<1>8. m \in Bytes
  <2>1. h \in Seq(Byte)
    BY DEF Bytes
  <2> QED
    BY <1>6, <1>7, <2>1, CopyTyped DEF Bytes
<1>9. /\ Ring(DictSize, CopyMatch(y, dist, n).dec, h \o Copy(h, dist, n))
      /\ CopyMatch(y, dist, n).dec.reps = y.dec.reps
      /\ CopyMatch(y, dist, n).buf = y.buf \o Copy(h, dist, n)
  <2>1. Ring(DictSize, y.dec, h) /\ y.buf \in Bytes
    BY <1>3, <1>5
  <2>2. Ring(DictSize, CopyMatch(y, dist, n).dec, h \o Copy(h, dist, n))
    BY <1>6, <2>1, CopyByte
  <2>3. CopyMatch(y, dist, n).dec.reps = y.dec.reps
    BY <1>6, <2>1, CopyByte
  <2>4. CopyMatch(y, dist, n).buf = y.buf \o Copy(h, dist, n)
    BY <1>6, <2>1, CopyByte
  <2> QED
    BY <2>2, <2>3, <2>4
<1>10. h \o m \in Bytes /\ c \o m \in Bytes
  BY <1>8, HandedOn
<1>11. PICK x : x = CopyMatch(y, dist, n)
  OBVIOUS
<1>12. Ring(DictSize, x.dec, h \o m) /\ x.dec.reps = q /\ x.buf = c \o m
  BY <1>3, <1>5, <1>7, <1>9, <1>11, Zenon
<1>13. Ringed(x.dec) /\ x.buf \in Bytes
  BY <1>10, <1>12, Zenon DEF Ringed
<1> QED
  BY <1>2, <1>4, <1>11, <1>13, Zenon

(* A stream begins with a header. *)
Headed(units) == units \in Seq(Units) /\ (units # <<>> => units[1].unit = "header")

Typed ==
  /\ src \in Bytes
  /\ pc \in {"compress", "compressed", "header", "block", "chunk", "decode", "done"}
  /\ pc # "compress" => Headed(dst)
  /\ Headed(in.units)
  /\ pos \in 0..Len(in.units)
  /\ pc \in {"compress", "compressed", "header"} => pos = 0
  /\ dec = NoDec \/ Ringed(dec)
  /\ pc = "decode" => Ringed(dec)
  /\ buf \in Bytes /\ ops \in Seq(Operations) /\ limit \in Nat /\ err \in BOOLEAN

LEMMA TypedInit ==
  ASSUME XzAssumption, Init
  PROVE  Typed
<1>1. src \in Bytes /\ (pc # "compress" => Headed(dst)) /\ pc \in {"compress", "compressed"}
  <2>1. CASE src \in Inputs /\ dst = <<>> /\ pc = "compress"
    BY <2>1 DEF XzAssumption, Bytes
  <2>2. CASE src = <<>> /\ dst \in Foreign /\ pc = "compressed"
    <3>1. dst \in Seq(Units) /\ InOrder(dst)
      BY <2>2 DEF XzAssumption
    <3>2. ASSUME dst # <<>>
          PROVE  dst[1].unit = "header"
      <4>1. 1 \in DOMAIN dst
        BY <3>1, <3>2
      <4>2. dst[1].unit \in {"header"}
        BY <3>1, <4>1 DEF InOrder
      <4> QED
        BY <4>2
    <3>3. <<>> \in Bytes
      BY DEF Bytes
    <3> QED
      BY <2>2, <3>1, <3>2, <3>3 DEF Headed
  <2> QED
    BY <2>1, <2>2 DEF Init
<1>2. /\ in = [units |-> <<>>, part |-> "none"] /\ pos = 0 /\ dec = NoDec
      /\ buf = <<>> /\ ops = <<>> /\ limit = 0 /\ err = FALSE
  BY DEF Init
<1>3. in.units = <<>>
  BY <1>2
<1>4. Headed(in.units) /\ pos \in 0..Len(in.units)
  BY <1>2, <1>3 DEF Headed
<1>5. buf \in Bytes /\ ops \in Seq(Operations) /\ limit \in Nat /\ err \in BOOLEAN
  <2>1. buf \in Bytes /\ ops \in Seq(Operations) /\ limit \in Nat
    BY <1>2 DEF Bytes
  <2>2. err \in BOOLEAN
    BY <1>2
  <2> QED
    BY <2>1, <2>2
<1> QED
  BY <1>1, <1>2, <1>4, <1>5 DEF Typed

(* What is stored is a stream. *)
LEMMA StoredIsStream ==
  ASSUME MaxChunk \in Nat \ {0}, NEW data \in Bytes
  PROVE  /\ Headed(XzCompress(data)) /\ Chunks(data) \in Seq(Units)
         /\ (Len(data) + MaxChunk - 1) \div MaxChunk \in Nat
         /\ Len(Chunks(data)) = (Len(data) + MaxChunk - 1) \div MaxChunk
<1>1. PICK n \in Nat : n = Len(data)
  <2>1. Len(data) \in Nat
    BY DEF Bytes
  <2> QED
    BY <2>1
<1>2. (n + MaxChunk - 1) \div MaxChunk \in Nat
  <2>1. n + MaxChunk - 1 \in Nat
    OBVIOUS
  <2> QED
    BY <2>1, Division
<1>3. PICK c \in Nat : c = (n + MaxChunk - 1) \div MaxChunk
  BY <1>2
<1>4. ASSUME NEW k \in 1..c
      PROVE  Raw(k = 1, SubSeq(data, ((k - 1) * MaxChunk) + 1, Lesser(k * MaxChunk, n))) \in Units
  <2>1. data \in Seq(Byte)
    BY DEF Bytes
  <2>2. k * MaxChunk \in Nat /\ (k - 1) * MaxChunk \in Nat
    <3>1. k \in Nat /\ k - 1 \in Nat
      OBVIOUS
    <3> QED
      BY <3>1
  <2>3. PICK a \in Nat : a = (k - 1) * MaxChunk
    BY <2>2
  <2>4. PICK e \in Nat : e = Lesser(k * MaxChunk, n) /\ e <= n
    BY <2>2 DEF Lesser
  <2>5. SubSeq(data, a + 1, e) \in Seq(Byte)
    BY <1>1, <2>1, <2>4
  <2>6. [unit |-> "raw", reset |-> k = 1, data |-> SubSeq(data, a + 1, e)]
          \in [unit : {"raw"}, reset : BOOLEAN, data : Seq(Byte)]
    BY <2>5
  <2> QED
    BY <2>3, <2>4, <2>6 DEF Units, Raw
<1>5. Chunks(data) = [k \in 1..c |->
         Raw(k = 1, SubSeq(data, ((k - 1) * MaxChunk) + 1, Lesser(k * MaxChunk, n)))]
  BY <1>1, <1>3 DEF Chunks
<1>6. Chunks(data) \in Seq(Units) /\ Len(Chunks(data)) = c
  BY <1>4, <1>5
<1>7. PICK mid \in Seq(Units) : mid = Chunks(data)
  BY <1>6, Zenon
<1>8. /\ Header \in Units /\ Block \in Units
      /\ End \in Units /\ Check \in Units /\ Index \in Units
      /\ Header.unit = "header"
  BY DEF Units, Header, Block, End, Check, Index
<1>9. /\ <<Header, Index>> \in Seq(Units) /\ <<Header, Index>>[1] = Header
      /\ <<Header, Block>> \in Seq(Units) /\ <<Header, Block>>[1] = Header
      /\ Len(<<Header, Block>>) = 2
      /\ <<End, Check, Index>> \in Seq(Units)
  BY <1>8
<1>10. Headed(XzCompress(data))
  <2>1. CASE data = <<>>
    BY <1>8, <1>9, <2>1 DEF XzCompress, Headed
  <2>2. CASE data # <<>>
    <3>1. PICK f \in Seq(Units) : f = <<Header, Block>> /\ f[1] = Header /\ Len(f) = 2
      BY <1>9, Zenon
    <3>2. PICK g \in Seq(Units) : g = <<End, Check, Index>>
      BY <1>9, Zenon
    <3>3. XzCompress(data) = (f \o mid) \o g
      BY <1>7, <2>2, <3>1, <3>2 DEF XzCompress
    <3>4. f \o mid \in Seq(Units) /\ Len(f \o mid) = Len(f) + Len(mid) /\ (f \o mid)[1] = f[1]
      <4>1. 1 \in 1..Len(f)
        BY <3>1
      <4> QED
        BY <4>1, Joined
    <3>5. PICK e \in Seq(Units) : e = f \o mid /\ e[1] = f[1] /\ 1 \in 1..Len(e)
      <4>1. 1 \in 1..Len(f \o mid)
        BY <3>1, <3>4
      <4> QED
        BY <3>4, <4>1
    <3>6. e \o g \in Seq(Units) /\ (e \o g)[1] = e[1]
      BY <3>5, Joined
    <3>7. e \o g \in Seq(Units) /\ (e \o g)[1].unit = "header"
      BY <1>8, <3>1, <3>5, <3>6
    <3> QED
      BY <3>3, <3>5, <3>7 DEF Headed
  <2> QED
    BY <2>1, <2>2
<1> QED
  BY <1>1, <1>2, <1>3, <1>6, <1>10

(* Those of the types that a step has to keep. *)
LEMMA TypedWhen ==
  ASSUME /\ pc' \in {"compress", "compressed", "header", "block", "chunk", "decode", "done"}
         /\ pc' \in {"compress", "compressed", "header"} => pos' = 0,
         src' \in Bytes /\ Headed(in'.units) /\ pos' \in 0..Len(in'.units), Headed(dst'),
         dec' = NoDec \/ Ringed(dec'), pc' = "decode" => Ringed(dec'),
         buf' \in Bytes, ops' \in Seq(Operations), limit' \in Nat, err' \in BOOLEAN
  PROVE  Typed'
BY Zenon DEF Typed

LEMMA TypedAgain ==
  ASSUME Typed, src' = src, dst' = dst, in' = in,
         pc' \in {"compressed", "header", "block", "chunk", "decode", "done"}, pc # "compress",
         pos' \in 0..Len(in.units), pc' \in {"compressed", "header"} => pos' = 0,
         dec' = NoDec \/ Ringed(dec'), pc' = "decode" => Ringed(dec'),
         buf' \in Bytes, ops' \in Seq(Operations), limit' \in Nat, err' \in BOOLEAN
  PROVE  Typed'
<1>1. in'.units = in.units
  OBVIOUS
<1>2. src' \in Bytes /\ Headed(in'.units) /\ pos' \in 0..Len(in'.units)
  BY <1>1 DEF Typed
<1>3. Headed(dst')
  BY DEF Typed
<1>4. /\ pc' \in {"compress", "compressed", "header", "block", "chunk", "decode", "done"}
      /\ pc' \in {"compress", "compressed", "header"} => pos' = 0
  OBVIOUS
<1> QED
  BY <1>2, <1>3, <1>4, TypedWhen

LEMMA XzReturned ==
  ASSUME Typed, pc # "compress", NEW e \in BOOLEAN, Return(e)
  PROVE  Typed'
<1>1. /\ pc' = "done" /\ err' = e
      /\ src' = src /\ dst' = dst /\ in' = in /\ pos' = pos /\ dec' = dec /\ buf' = buf
      /\ ops' = ops /\ limit' = limit
  BY DEF Return, Stream
<1>2. err' \in BOOLEAN
  BY <1>1, Zenon
<1>3. pos' \in 0..Len(in.units) /\ (dec' = NoDec \/ Ringed(dec'))
      /\ buf' \in Bytes /\ ops' \in Seq(Operations) /\ limit' \in Nat
  BY <1>1 DEF Typed
<1> QED
  BY <1>1, <1>2, <1>3, TypedAgain

(* The unit that is next. *)
LEMMA NextUnit ==
  ASSUME Typed, NEW u, Has(u)
  PROVE  /\ Unit \in Units /\ Unit.unit = u /\ Unit = in.units[pos + 1]
         /\ pos + 1 \in 0..Len(in.units) /\ pos \in Nat /\ pos + 1 \in 1..Len(in.units)
<1>1. in.units \in Seq(Units) /\ pos \in 0..Len(in.units) /\ pos < Len(in.units)
      /\ in.units[pos + 1].unit = u
  BY DEF Typed, Headed, Has
<1>2. pos + 1 \in 1..Len(in.units) /\ pos + 1 \in 0..Len(in.units) /\ pos \in Nat
  <2>1. Len(in.units) \in Nat
    BY <1>1
  <2> QED
    BY <1>1, <2>1
<1>3. in.units[pos + 1] \in Units
  BY <1>1, <1>2
<1> QED
  BY <1>1, <1>2, <1>3 DEF Unit

LEMMA XzAdvanced ==
  ASSUME Typed, pc # "compress", NEW u, Has(u),
         NEW where \in {"block", "chunk", "decode"}, Advance(where),
         dec' = NoDec \/ Ringed(dec'), where = "decode" => Ringed(dec'),
         buf' \in Bytes, ops' \in Seq(Operations), limit' \in Nat
  PROVE  Typed'
<1>1. /\ pc' = where /\ pos' = pos + 1
      /\ src' = src /\ dst' = dst /\ in' = in /\ err' = err
  BY DEF Advance, Stream
<1>2. pos' \in 0..Len(in.units)
  BY <1>1, NextUnit
<1>3. err' \in BOOLEAN
  BY <1>1, Zenon DEF Typed
<1>4. pc' \in {"block", "chunk", "decode"} /\ (pc' = "decode" => Ringed(dec'))
  BY <1>1
<1> QED
  BY <1>1, <1>2, <1>3, <1>4, TypedAgain

LEMMA TypedStart ==
  ASSUME XzAssumption, Typed, Compress \/ Deliver \/ ReadHeader \/ ReadBlockHeader
                                     \/ SkipIndex \/ NoBlock
  PROVE  Typed'
<1>1. CASE Compress
  <2>1. /\ pc' = "compressed" /\ dst' = XzCompress(src)
        /\ src' = src /\ in' = in /\ pos' = pos /\ dec' = dec /\ buf' = buf
        /\ ops' = ops /\ limit' = limit /\ err' = err /\ pc = "compress"
    BY <1>1 DEF Compress
  <2>2. Headed(XzCompress(src))
    <3>1. src \in Bytes /\ MaxChunk \in Nat \ {0}
      BY DEF Typed, XzAssumption
    <3> QED
      BY <3>1, StoredIsStream
  <2> QED
    BY <2>1, <2>2 DEF Typed
<1>2. CASE Deliver
  <2>1. /\ pc' = "header" /\ pc = "compressed"
        /\ src' = src /\ dst' = dst /\ pos' = pos /\ dec' = dec /\ buf' = buf
        /\ ops' = ops /\ limit' = limit /\ err' = err
    BY <1>2 DEF Deliver
  <2>2. Headed(dst)
    BY <2>1 DEF Typed
  <2>3. \/ in'.units = dst
        \/ \E n \in 0..Len(dst) - 1 : in'.units = SubSeq(dst, 1, n)
    BY <1>2 DEF Deliver
  <2>4. Headed(in'.units)
    <3>1. CASE in'.units = dst
      BY <2>2, <3>1
    <3>2. CASE \E n \in 0..Len(dst) - 1 : in'.units = SubSeq(dst, 1, n)
      <4>1. PICK n \in 0..Len(dst) - 1 : in'.units = SubSeq(dst, 1, n)
        BY <3>2
      <4>2. dst \in Seq(Units) /\ Len(dst) \in Nat
        BY <2>2 DEF Headed
      <4>3. n \in Nat /\ n <= Len(dst) /\ (n # 0 => dst # <<>>)
        BY <4>2
      <4>4. SubSeq(dst, 1, n) \in Seq(Units)
        BY <4>2, <4>3
      <4>5. SubSeq(dst, 1, n) # <<>> => n # 0 /\ SubSeq(dst, 1, n)[1] = dst[1]
        BY <4>2, <4>3
      <4> QED
        BY <2>2, <4>1, <4>3, <4>4, <4>5 DEF Headed
    <3> QED
      BY <2>3, <3>1, <3>2
  <2>5. pos = 0
    BY <2>1 DEF Typed
  <2>6. Len(in'.units) \in Nat
    BY <2>4 DEF Headed
  <2> QED
    BY <2>1, <2>2, <2>4, <2>5, <2>6 DEF Typed
<1>3. CASE ReadHeader
  <2>0. pc # "compress"
    BY <1>3 DEF ReadHeader, DecodeChunk, Op, Decoding
  <2>1. CASE Has("header") /\ Unit.ok
    <3>1. /\ Advance("block") /\ dec' = dec /\ buf' = buf /\ ops' = ops /\ limit' = limit
      BY <1>3, <2>1 DEF ReadHeader
    <3>2. /\ dec' = NoDec \/ Ringed(dec')
          /\ buf' \in Bytes /\ ops' \in Seq(Operations) /\ limit' \in Nat
      BY <3>1 DEF Typed
    <3> QED
      BY <2>1, <3>1, <3>2, <2>0, XzAdvanced
  <2>2. CASE ~(Has("header") /\ Unit.ok)
    <3>1. Return(TRUE)
      BY <1>3, <2>2 DEF ReadHeader
    <3> QED
      BY <3>1, <2>0, XzReturned
  <2> QED
    BY <2>1, <2>2
<1>4. CASE ReadBlockHeader
  <2>0. pc # "compress"
    BY <1>4 DEF ReadBlockHeader, DecodeChunk, Op, Decoding
  <2>1. CASE Unit.ok
    <3>1. /\ Has("block") /\ Advance("chunk") /\ dec' = NoDec /\ buf' = buf
          /\ ops' = ops /\ limit' = limit
      BY <1>4, <2>1 DEF ReadBlockHeader
    <3>2. /\ buf' \in Bytes /\ ops' \in Seq(Operations) /\ limit' \in Nat
      BY <3>1 DEF Typed
    <3> QED
      BY <3>1, <3>2, <2>0, XzAdvanced
  <2>2. CASE ~Unit.ok
    <3>1. Return(TRUE)
      BY <1>4, <2>2 DEF ReadBlockHeader
    <3> QED
      BY <3>1, <2>0, XzReturned
  <2> QED
    BY <2>1, <2>2
<1>5. CASE SkipIndex
  <2>0. pc # "compress"
    BY <1>5 DEF SkipIndex, DecodeChunk, Op, Decoding
  <2>1. Return(FALSE)
    BY <1>5 DEF SkipIndex
  <2> QED
    BY <2>1, <2>0, XzReturned
<1>6. CASE NoBlock
  <2>0. pc # "compress"
    BY <1>6 DEF NoBlock, DecodeChunk, Op, Decoding
  <2>1. Return(in.part # "between")
    BY <1>6 DEF NoBlock
  <2>2. (in.part # "between") \in BOOLEAN
    OBVIOUS
  <2> QED
    BY <2>1, <2>2, <2>0, XzReturned
<1> QED
  BY <1>1, <1>2, <1>3, <1>4, <1>5, <1>6

LEMMA TypedChunk ==
  ASSUME XzAssumption, Typed,
         Read \/ EndBlock \/ NoChunk \/ ReadUncompressed \/ ReadLzma \/ Misunderstand
  PROVE  Typed'
<1> DictSize \in Nat \ {0}
  BY DEF XzAssumption
<1>1. CASE Read
  <2>1. /\ pc' = pc /\ src' = src /\ dst' = dst /\ in' = in /\ pos' = pos /\ dec' = dec
        /\ ops' = ops /\ limit' = limit /\ err' = err
        /\ \E n \in 1..Len(buf) : buf' = SubSeq(buf, n + 1, Len(buf))
    BY <1>1 DEF Read, Stream
  <2>2. buf' \in Bytes
    <3>1. buf \in Seq(Byte)
      BY DEF Typed, Bytes
    <3>2. ASSUME NEW n \in 1..Len(buf)
          PROVE  SubSeq(buf, n + 1, Len(buf)) \in Seq(Byte)
      BY <3>1
    <3> QED
      BY <2>1, <3>2 DEF Bytes
  <2>3. pc = "chunk"
    BY <1>1 DEF Read
  <2>4. err' \in BOOLEAN
    BY <2>1, Zenon DEF Typed
  <2>5. pos' \in 0..Len(in.units) /\ (dec' = NoDec \/ Ringed(dec'))
        /\ ops' \in Seq(Operations) /\ limit' \in Nat
    BY <2>1 DEF Typed
  <2> QED
    BY <2>1, <2>2, <2>3, <2>4, <2>5, TypedAgain
<1>2. CASE EndBlock
  <2>0. pc # "compress"
    BY <1>2 DEF EndBlock, DecodeChunk, Op, Decoding
  <2>1. Return(FALSE)
    BY <1>2 DEF EndBlock
  <2> QED
    BY <2>1, <2>0, XzReturned
<1>3. CASE NoChunk
  <2>0. pc # "compress"
    BY <1>3 DEF NoChunk, DecodeChunk, Op, Decoding
  <2>1. Return(in.part = "inside")
    BY <1>3 DEF NoChunk
  <2>2. (in.part = "inside") \in BOOLEAN
    OBVIOUS
  <2> QED
    BY <2>1, <2>2, <2>0, XzReturned
<1>4. CASE ReadUncompressed
  <2>0. pc # "compress"
    BY <1>4 DEF ReadUncompressed, DecodeChunk, Op, Decoding
  <2> DEFINE e == IF Unit.reset \/ dec = NoDec THEN NewDec(DictSize) ELSE dec
             x == PutBytes([dec |-> e, buf |-> buf], Unit.data)
  <2>1. /\ Has("raw") /\ dec' = x.dec /\ buf' = x.buf /\ Advance("chunk")
        /\ ops' = ops /\ limit' = limit
    BY <1>4 DEF ReadUncompressed
  <2>2. Ringed(e)
    BY NewRinged DEF Typed
  <2>3. Unit.data \in Bytes
    BY <2>1, NextUnit, UnitIs
  <2> HIDE DEF e
  <2>4. buf \in Bytes
    BY DEF Typed
  <2>5. Ringed(x.dec) /\ x.buf \in Bytes
    BY <2>2, <2>3, <2>4, PutRinged
  <2> HIDE DEF x
  <2>6. /\ Ringed(dec') /\ buf' \in Bytes /\ ops' \in Seq(Operations) /\ limit' \in Nat
    BY <2>1, <2>5 DEF Typed
  <2> QED
    BY <2>1, <2>6, <2>0, XzAdvanced
<1>5. CASE ReadLzma
  <2>0. pc # "compress"
    BY <1>5 DEF ReadLzma, DecodeChunk, Op, Decoding
  <2>1. CASE Unit.ok /\ (Resets \/ dec # NoDec)
    <3>1. /\ Has("lzma") /\ dec' = ChunkDec /\ ops' = Unit.ops /\ limit' = Unit.size
          /\ Advance("decode") /\ buf' = buf
      BY <1>5, <2>1 DEF ReadLzma
    <3>2. Ringed(dec')
      BY <2>1, <3>1, NewRinged DEF ChunkDec, Typed
    <3>3. Unit.ops \in Seq(Operations) /\ Unit.size \in Nat
      BY <3>1, NextUnit, UnitIs
    <3>4. buf' \in Bytes
      BY <3>1 DEF Typed
    <3> QED
      BY <3>1, <3>2, <3>3, <3>4, <2>0, XzAdvanced
  <2>2. CASE ~(Unit.ok /\ (Resets \/ dec # NoDec))
    <3>1. Return(TRUE)
      BY <1>5, <2>2 DEF ReadLzma
    <3> QED
      BY <3>1, <2>0, XzReturned
  <2> QED
    BY <2>1, <2>2
<1>6. CASE Misunderstand
  <2>1. /\ pc' = "done" /\ err' \in BOOLEAN /\ src' = src /\ dst' = dst /\ in' = in /\ pos' = pos
        /\ dec' = dec /\ buf' = buf /\ ops' = ops /\ limit' = limit /\ pc = "chunk"
    BY <1>6 DEF Misunderstand, DecodeChunk, Stream
  <2>2. pos' \in 0..Len(in.units) /\ (dec' = NoDec \/ Ringed(dec'))
        /\ buf' \in Bytes /\ ops' \in Seq(Operations) /\ limit' \in Nat
    BY <2>1 DEF Typed
  <2> QED
    BY <2>1, <2>2, TypedAgain
<1> QED
  BY <1>1, <1>2, <1>3, <1>4, <1>5, <1>6

(* The next operation of a chunk. *)
LEMMA NextOp ==
  ASSUME Typed, NEW name, Op(name)
  PROVE  /\ Head(ops) \in Operations /\ Head(ops).op = name /\ Tail(ops) \in Seq(Operations)
         /\ ops # <<>> /\ pc = "decode" /\ Len(buf) < limit
<1>1. ops \in Seq(Operations) /\ ops # <<>> /\ Head(ops).op = name /\ pc = "decode" /\ Len(buf) < limit
  BY DEF Typed, Op, Decoding
<1>2. Head(ops) \in Operations /\ Tail(ops) \in Seq(Operations)
  BY <1>1
<1> QED
  BY <1>1, <1>2

LEMMA XzDecoded ==
  ASSUME Typed, NEW name, Op(name), NEW x, Decoded(x), Ringed(x.dec), x.buf \in Bytes
  PROVE  Typed'
<1>1. /\ dec' = x.dec /\ buf' = x.buf /\ ops' = Tail(ops)
      /\ src' = src /\ dst' = dst /\ in' = in /\ pc' = pc /\ pos' = pos /\ limit' = limit /\ err' = err
  BY DEF Decoded, Stream
<1>2. ops' \in Seq(Operations) /\ pc = "decode"
  BY <1>1, NextOp
<1>3. err' \in BOOLEAN
  BY <1>1, Zenon DEF Typed
<1>4. Ringed(dec') /\ buf' \in Bytes
  BY <1>1
<1>5. pos' \in 0..Len(in.units) /\ limit' \in Nat
  BY <1>1 DEF Typed
<1> QED
  BY <1>1, <1>2, <1>3, <1>4, <1>5, TypedAgain

LEMMA TypedDecode ==
  ASSUME XzAssumption, Typed,
         Enough \/ EndMarker \/ RunsOut \/ Literal \/ Match \/ Rep
  PROVE  Typed'
<1> DictSize \in Nat \ {0}
  BY DEF XzAssumption
<1>1. CASE Enough \/ EndMarker
  <2>1. /\ pc' = "chunk" /\ ops' = <<>> /\ src' = src /\ dst' = dst /\ in' = in /\ pos' = pos
        /\ dec' = dec /\ buf' = buf /\ limit' = limit /\ err' = err
    BY <1>1 DEF Enough, EndMarker, EndChunk, Stream
  <2>2. pc = "decode"
    BY <1>1 DEF Enough, EndMarker, EndChunk, Op, Decoding
  <2>3. err' \in BOOLEAN
    BY <2>1, Zenon DEF Typed
  <2>4. pos' \in 0..Len(in.units) /\ Ringed(dec') /\ buf' \in Bytes /\ limit' \in Nat
    BY <2>1, <2>2 DEF Typed
  <2>5. ops' \in Seq(Operations)
    BY <2>1
  <2> QED
    BY <2>1, <2>2, <2>3, <2>4, <2>5, TypedAgain
<1>2. CASE RunsOut
  <2>0. pc # "compress"
    BY <1>2 DEF RunsOut, DecodeChunk, Op, Decoding
  <2>1. Return(FALSE)
    BY <1>2 DEF RunsOut
  <2> QED
    BY <2>1, <2>0, XzReturned
<1>3. CASE Literal
  <2>1. PICK w : w = <<Head(ops).byte>>
    OBVIOUS
  <2>2. PICK x : x = PutBytes([dec |-> dec, buf |-> buf], w)
    OBVIOUS
  <2>3. Op("literal") /\ Decoded(x)
    BY <1>3, <2>1, <2>2 DEF Literal, State
  <2>4. w \in Bytes
    <3>1. Head(ops).byte \in Byte
      BY <2>3, NextOp, OperationIs
    <3> QED
      BY <2>1, <3>1 DEF Bytes
  <2>5. Ringed(dec) /\ buf \in Bytes
    <3>1. pc = "decode"
      BY <2>3, NextOp
    <3> QED
      BY <3>1 DEF Typed
  <2>6. Ringed(x.dec) /\ x.buf \in Bytes
    BY <2>2, <2>4, <2>5, PutRinged
  <2> QED
    BY <2>3, <2>6, XzDecoded
<1>4. CASE Match
  <2>0. pc # "compress"
    BY <1>4 DEF Match, DecodeChunk, Op, Decoding
  <2>1. Op("match")
    BY <1>4 DEF Match
  <2>2. Ringed(dec) /\ buf \in Bytes
    <3>1. pc = "decode"
      BY <2>1, NextOp
    <3> QED
      BY <3>1 DEF Typed
  <2>3. PICK dist \in Nat : dist = Head(ops).dist
    BY <2>1, NextOp, OperationIs
  <2>4. PICK n \in Nat : n = Head(ops).len
    BY <2>1, NextOp, OperationIs
  <2>5. PICK r \in Reps : r = dec.reps
    BY <2>2 DEF Ringed
  <2>6. <<dist, r[1], r[2], r[3]>> \in Reps
    BY RepsShifted
  <2>7. PICK q \in Reps : q = <<dist, r[1], r[2], r[3]>>
    BY <2>6, Zenon
  <2>8. PICK x : x = CopyMatch([dec |-> [dec EXCEPT !.reps = q], buf |-> buf], dist, n)
    OBVIOUS
  <2>9. [dec EXCEPT !.reps = <<Head(ops).dist, @[1], @[2], @[3]>>] = [dec EXCEPT !.reps = q]
    BY <2>3, <2>5, <2>7
  <2>10. \A e : [[dec |-> dec, buf |-> buf] EXCEPT !.dec = e] = [dec |-> e, buf |-> buf]
    OBVIOUS
  <2>11. IF Invalid(dec, dist) THEN Return(TRUE) ELSE Decoded(x)
    BY <1>4, <2>3, <2>4, <2>8, <2>9, <2>10, Zenon DEF Match, State
  <2>12. CASE Invalid(dec, dist)
    BY <2>11, <2>12, <2>0, XzReturned
  <2>13. CASE ~Invalid(dec, dist)
    <3>1. LET y == CopyMatch([dec |-> [dec EXCEPT !.reps = q], buf |-> buf], dist, n)
          IN Ringed(y.dec) /\ y.buf \in Bytes
      BY <2>2, <2>13, CopyRinged
    <3>2. Ringed(x.dec) /\ x.buf \in Bytes
      BY <2>8, <3>1, Zenon
    <3> QED
      BY <2>1, <2>11, <2>13, <3>2, XzDecoded
  <2> QED
    BY <2>12, <2>13
<1>5. CASE Rep
  <2>0. pc # "compress"
    BY <1>5 DEF Rep, DecodeChunk, Op, Decoding
  <2>1. Op("rep")
    BY <1>5 DEF Rep
  <2>2. Ringed(dec) /\ buf \in Bytes
    <3>1. pc = "decode"
      BY <2>1, NextOp
    <3> QED
      BY <3>1 DEF Typed
  <2>3. PICK k \in 1..4 : k = Head(ops).i
    BY <2>1, NextOp, OperationIs
  <2>4. PICK n \in Nat : n = Head(ops).len
    BY <2>1, NextOp, OperationIs
  <2>5. PICK r \in Reps : r = dec.reps
    BY <2>2 DEF Ringed
  <2>6. Reused(r, k) \in Reps /\ Reused(r, k)[1] = r[k] /\ r[k] \in Nat
    BY RepsReused
  <2>7. PICK q \in Reps : q = Reused(r, k) /\ q[1] \in Nat
    BY <2>6, Zenon
  <2>8. PICK dist \in Nat : dist = q[1]
    BY <2>7, Zenon
  <2>9. PICK x : x = CopyMatch([dec |-> [dec EXCEPT !.reps = q], buf |-> buf], dist, n)
    OBVIOUS
  <2>10. [dec EXCEPT !.reps = Reused(@, Head(ops).i)] = [dec EXCEPT !.reps = q]
    BY <2>3, <2>5, <2>7
  <2>11. [dec EXCEPT !.reps = Reused(@, Head(ops).i)].reps[1] = dist
    <3>1. PICK h : Ring(DictSize, dec, h)
      BY <2>2 DEF Ringed
    <3> QED
      BY <2>8, <2>10, <3>1, RepsRing, Zenon
  <2>12. \A e : [[dec |-> dec, buf |-> buf] EXCEPT !.dec = e] = [dec |-> e, buf |-> buf]
    OBVIOUS
  <2>13. IF Invalid(dec, dist) THEN Return(TRUE) ELSE Decoded(x)
    BY <1>5, <2>4, <2>9, <2>10, <2>11, <2>12, Zenon DEF Rep, State
  <2>14. CASE Invalid(dec, dist)
    BY <2>13, <2>14, <2>0, XzReturned
  <2>15. CASE ~Invalid(dec, dist)
    <3>1. LET y == CopyMatch([dec |-> [dec EXCEPT !.reps = q], buf |-> buf], dist, n)
          IN Ringed(y.dec) /\ y.buf \in Bytes
      BY <2>2, <2>15, CopyRinged
    <3>2. Ringed(x.dec) /\ x.buf \in Bytes
      BY <2>9, <3>1, Zenon
    <3> QED
      BY <2>1, <2>13, <2>15, <3>2, XzDecoded
  <2> QED
    BY <2>14, <2>15
<1> QED
  BY <1>1, <1>2, <1>3, <1>4, <1>5

LEMMA TypedNext ==
  ASSUME XzAssumption, Typed, Next
  PROVE  Typed'
<1>1. CASE pc = "done" /\ UNCHANGED vars
  BY <1>1 DEF Typed, vars
<1> QED
  BY <1>1, TypedStart, TypedChunk, TypedDecode DEF Next

-----------------------------------------------------------------------------
(* What a stream means, unit by unit, and a chunk, operation by operation. *)

Along(units) ==
  CHOOSE m : Runs("unit", 0, Fresh, units, m) /\ Meaning(units) = m[Len(units)]

OpsAlong(s, u) ==
  CHOOSE r : /\ Runs("op", Len(s.out) + u.size, Begun(s, u), u.ops, r)
             /\ Followed(Begun(s, u), u.ops, Len(s.out) + u.size) = r[Len(u.ops)]

LEMMA AlongIs ==
  ASSUME NEW units \in Seq(Units)
  PROVE  Runs("unit", 0, Fresh, units, Along(units)) /\ Meaning(units) = Along(units)[Len(units)]
<1>1. \E m : Runs("unit", 0, Fresh, units, m) /\ Meaning(units) = m[Len(units)]
  BY UnitRuns
<1> QED
  BY <1>1, Zenon DEF Along

LEMMA OpsAlongIs ==
  ASSUME NEW s, NEW u, u.ops \in Seq(Operations)
  PROVE  /\ Runs("op", Len(s.out) + u.size, Begun(s, u), u.ops, OpsAlong(s, u))
         /\ Followed(Begun(s, u), u.ops, Len(s.out) + u.size) = OpsAlong(s, u)[Len(u.ops)]
<1>1. \A x, to : \E r : Runs("op", to, x, u.ops, r) /\ Followed(x, u.ops, to) = r[Len(u.ops)]
  BY OpRuns
<1>2. \E r : /\ Runs("op", Len(s.out) + u.size, Begun(s, u), u.ops, r)
             /\ Followed(Begun(s, u), u.ops, Len(s.out) + u.size) = r[Len(u.ops)]
  BY <1>1, Zenon
<1> QED
  BY <1>2, Zenon DEF OpsAlong

LEMMA AlongNext ==
  ASSUME NEW units \in Seq(Units), NEW k \in 1..Len(units)
  PROVE  /\ Along(units)[k] = UnitMeaning(Along(units)[k - 1], units[k])
         /\ Along(units)[k - 1] \in Between /\ Along(units)[k] \in Between
<1>1. Runs("unit", 0, Fresh, units, Along(units))
  BY AlongIs
<1>2. \A i \in 0..Len(units) : Along(units)[i] \in Between
  BY <1>1, UnitsRun
<1>3. k - 1 \in 0..Len(units) /\ k \in 0..Len(units)
  OBVIOUS
<1>4. Along(units)[k] = Step("unit", 0, Along(units)[k - 1], units[k])
  BY <1>1 DEF Runs
<1> QED
  BY <1>2, <1>3, <1>4 DEF Step

LEMMA AlongEnds ==
  ASSUME NEW units \in Seq(Units), NEW k \in 0..Len(units)
  PROVE  /\ Along(units)[0] = Fresh /\ Along(units)[k] \in Between
         /\ GoesOn(DictSize, Along(units)[k], Along(units)[Len(units)])
         /\ Along(units)[k].state \notin {"fresh", "go"} => Along(units)[Len(units)] = Along(units)[k]
<1>1. Runs("unit", 0, Fresh, units, Along(units))
  BY AlongIs
<1>2. \A i \in 0..Len(units) : Along(units)[i] \in Between
  BY <1>1, UnitsRun
<1>3. Len(units) \in Nat
  OBVIOUS
<1>4. /\ GoesOn(DictSize, Along(units)[k], Along(units)[Len(units)])
      /\ Along(units)[k].state \notin {"fresh", "go"} => Along(units)[Len(units)] = Along(units)[k]
  BY <1>1, <1>3, UnitsGoOn
<1> QED
  BY <1>1, <1>2, <1>4 DEF Runs

LEMMA OpsStopped ==
  ASSUME NEW x, NEW to \in Nat, NEW w \in Seq(Operations), NEW r, Runs("op", to, x, w, r),
         NEW j \in 0..Len(w), Over(r[j], to)
  PROVE  r[Len(w)] = r[j]
<1>1. PICK n \in Nat : n = Len(w)
  OBVIOUS
<1>2. j \in 0..n /\ Len(w) = n
  BY <1>1
<1>3. r[n] = r[j]
  BY <1>2, OpsStay
<1> QED
  BY <1>1, <1>3

LEMMA OpsOver ==
  ASSUME NEW s, NEW u, u.ops \in Seq(Operations), Len(s.out) + u.size \in Nat,
         NEW j \in 0..Len(u.ops), Over(OpsAlong(s, u)[j], Len(s.out) + u.size)
  PROVE  OpsAlong(s, u)[Len(u.ops)] = OpsAlong(s, u)[j]
<1>1. Runs("op", Len(s.out) + u.size, Begun(s, u), u.ops, OpsAlong(s, u))
  BY OpsAlongIs
<1> QED
  BY <1>1, OpsStopped

(* A chunk after which operations that are left matter no more.            *)
LEMMA ChunkEnds ==
  ASSUME NEW s \in Between, s.state \in {"fresh", "go"}, NEW u \in Units, u.unit = "lzma",
         NEW j \in 0..Len(u.ops),
         \/ OpsAlong(s, u)[j].state # "go"
         \/ Len(OpsAlong(s, u)[j].out) >= Len(s.out) + u.size
         \/ j = Len(u.ops)
  PROVE  UnitMeaning(s, u) = ChunkMeaning(s, u, OpsAlong(s, u)[j])
<1>1. u.ops \in Seq(Operations) /\ u.size \in Nat
  BY UnitIs
<1>2. PICK n \in Nat : n = Len(u.ops)
  BY <1>1
<1>3. PICK to \in Nat : to = Len(s.out) + u.size
  <2>1. Len(s.out) \in Nat
    BY DEF Between, Meanings, Bytes
  <2> QED
    BY <1>1, <2>1
<1>4. /\ Runs("op", to, Begun(s, u), u.ops, OpsAlong(s, u))
      /\ Followed(Begun(s, u), u.ops, to) = OpsAlong(s, u)[n]
  BY <1>1, <1>2, <1>3, OpsAlongIs
<1>5. OpsAlong(s, u)[n] = OpsAlong(s, u)[j]
  <2>1. CASE j = n
    BY <2>1
  <2>2. CASE j # n
    <3>1. Over(OpsAlong(s, u)[j], Len(s.out) + u.size)
      BY <1>2, <2>2 DEF Over
    <3>2. Len(s.out) + u.size \in Nat
      BY <1>3
    <3>3. OpsAlong(s, u)[Len(u.ops)] = OpsAlong(s, u)[j]
      BY <1>1, <3>1, <3>2, OpsOver, Zenon
    <3> QED
      BY <1>2, <3>3
  <2> QED
    BY <2>1, <2>2
<1>6. UnitMeaning(s, u) = LzmaMeaning(s, u)
  BY DEF UnitMeaning
<1>7. LzmaMeaning(s, u) = ChunkMeaning(s, u, Followed(Begun(s, u), u.ops, to))
  BY <1>3, LzmaIs
<1> QED
  BY <1>4, <1>5, <1>6, <1>7, Zenon

(* The next operation of a chunk that has not ended.                       *)
LEMMA OpsNext ==
  ASSUME NEW s \in Between, NEW u \in Units, u.unit = "lzma",
         NEW j \in 0..Len(u.ops), OpsAlong(s, u)[j].state = "go",
         Len(OpsAlong(s, u)[j].out) < Len(s.out) + u.size, j < Len(u.ops)
  PROVE  OpsAlong(s, u)[j + 1] = Operated(OpsAlong(s, u)[j], u.ops[j + 1])
<1>1. u.ops \in Seq(Operations) /\ u.size \in Nat
  BY UnitIs
<1>2. PICK to \in Nat : to = Len(s.out) + u.size
  <2>1. Len(s.out) \in Nat
    BY DEF Between, Meanings, Bytes
  <2> QED
    BY <1>1, <2>1
<1>3. Runs("op", to, Begun(s, u), u.ops, OpsAlong(s, u))
  BY <1>1, <1>2, OpsAlongIs
<1>4. j + 1 \in 1..Len(u.ops) /\ (j + 1) - 1 = j
  BY <1>1
<1>5. OpsAlong(s, u)[j + 1] = Step("op", to, OpsAlong(s, u)[j], u.ops[j + 1])
  BY <1>3, <1>4 DEF Runs
<1>6. PICK x : x = OpsAlong(s, u)[j]
  OBVIOUS
<1>7. x.state = "go" /\ Len(x.out) < to
  BY <1>2, <1>6
<1>8. Len(x.out) \in Nat
  <2>1. Begun(s, u) \in Meanings(DictSize) /\ Begun(s, u).state = "go"
    BY BegunIs DEF Between, Begins
  <2>2. \A k \in 0..Len(u.ops) : GoesOn(DictSize, Begun(s, u), OpsAlong(s, u)[k])
    BY <1>1, <1>3, <2>1, OpsRun
  <2>3. x \in Meanings(DictSize)
    BY <1>6, <2>2 DEF GoesOn
  <2> QED
    BY <2>3 DEF Meanings, Bytes
<1>9. Step("op", to, x, u.ops[j + 1]) = Operated(x, u.ops[j + 1])
  BY <1>7, <1>8 DEF Step
<1> QED
  BY <1>5, <1>6, <1>9

(* Along the operations of a chunk. *)
LEMMA OpsAlongRun ==
  ASSUME NEW s \in Between, NEW u \in Units, u.unit = "lzma"
  PROVE  /\ OpsAlong(s, u)[0] = Begun(s, u)
         /\ \A j \in 0..Len(u.ops) : OpsAlong(s, u)[j] \in Meanings(DictSize)
<1>1. u.ops \in Seq(Operations) /\ u.size \in Nat
  BY UnitIs
<1>2. PICK to \in Nat : to = Len(s.out) + u.size
  <2>1. Len(s.out) \in Nat
    BY DEF Between, Meanings, Bytes
  <2> QED
    BY <1>1, <2>1
<1>3. Runs("op", to, Begun(s, u), u.ops, OpsAlong(s, u))
  BY <1>1, <1>2, OpsAlongIs
<1>4. Begun(s, u) \in Meanings(DictSize) /\ Begun(s, u).state = "go"
  BY BegunIs DEF Between, Begins
<1>5. \A k \in 0..Len(u.ops) : GoesOn(DictSize, Begun(s, u), OpsAlong(s, u)[k])
  BY <1>1, <1>3, <1>4, OpsRun
<1> QED
  BY <1>3, <1>5 DEF GoesOn, Runs

-----------------------------------------------------------------------------
(* Where the reader is along the meaning. *)

(* Between chunks. *)
Chunked(s, o, b, d) ==
  /\ Handed(o, b, s.out)
  /\ IF d = NoDec THEN s = Fresh ELSE s.state = "go" /\ Follows(DictSize, d, s)

(* A chunk of operations that can be read in front of s. *)
Opens(s, u) ==
  /\ u.unit = "lzma" /\ u.ok /\ u.control \in {"none", "all"}
  /\ s.state \in {"fresh", "go"} /\ ~(s.state = "fresh" /\ u.control = "none")

(* w is what is left of v behind j. *)
Rest(w, v, j) == w = SubSeq(v, j + 1, Len(v))

(* In chunk u behind j operations, of which w are left. *)
InChunk(s, u, j, o, b, d, w) ==
  /\ Opens(s, u) /\ o = s.out /\ j \in 0..Len(u.ops) /\ Rest(w, u.ops, j)
  /\ OpsAlong(s, u)[j].state = "go"
  /\ Moved(DictSize, o, [dec |-> d, buf |-> b], OpsAlong(s, u)[j])

(* Where reading ends. *)
Ended(z, o, e, part) ==
  /\ o \in Bytes /\ Extends(o, z.out)
  /\ z.state = "end" => o = z.out /\ ~e
  /\ part = "inside" /\ z.state \in {"fresh", "go"} => e

AtStart == out = <<>> /\ buf = <<>> /\ dec = NoDec

Reads ==
  /\ pc \in {"compress", "compressed"} => AtStart
  /\ Understood(in.units) =>
    /\ pc \in {"compress", "compressed", "header", "block"} =>
         Along(in.units)[pos] = Fresh /\ AtStart
    /\ pc = "chunk" => Chunked(Along(in.units)[pos], out, buf, dec)
    /\ pc = "decode" =>
         /\ pos # 0 /\ limit = in.units[pos].size
         /\ \E j \in Nat : InChunk(Along(in.units)[pos - 1], in.units[pos], j, out, buf, dec, ops)
    /\ pc = "done" => Ended(Along(in.units)[Len(in.units)], out, err, in.part)

(* What has been handed out is where the meaning leads to. *)
LEMMA HandedLeads ==
  ASSUME NEW s \in Meanings(DictSize), NEW z, GoesOn(DictSize, s, z), NEW o, NEW c, Handed(o, c, s.out)
  PROVE  o \in Bytes /\ Extends(o, z.out)
<1>1. o \in Bytes /\ c \in Bytes /\ s.out \in Bytes /\ z.out \in Bytes /\ Extends(s.out, z.out)
  BY DEF Handed, GoesOn, Meanings
<1>2. Extends(o, s.out)
  BY <1>1 DEF Extends, Handed
<1> QED
  BY <1>1, <1>2, ExtendsOn

(* Nothing is left to hand out. *)
LEMMA HandedAll ==
  ASSUME NEW o, NEW b, Handed(o, <<>>, b)
  PROVE  o = b
<1>1. o \in Seq(Byte)
  BY DEF Handed, Bytes
<1>2. o \o <<>> = o
  BY <1>1
<1> QED
  BY <1>2 DEF Handed

LEMMA HandedSome ==
  ASSUME NEW o, NEW c, NEW b, Handed(o, c, b), NEW n \in 1..Len(c)
  PROVE  Handed(o \o SubSeq(c, 1, n), SubSeq(c, n + 1, Len(c)), b)
<1>1. o \in Seq(Byte) /\ c \in Seq(Byte) /\ o \o c = b
  BY DEF Handed, Bytes
<1>2. PICK x : x = SubSeq(c, 1, n)
  OBVIOUS
<1>3. PICK y : y = SubSeq(c, n + 1, Len(c))
  OBVIOUS
<1>4. x \in Seq(Byte) /\ y \in Seq(Byte) /\ c = x \o y
  BY <1>1, <1>2, <1>3
<1>5. o \o x \in Seq(Byte)
  BY <1>1, <1>4
<1>6. (o \o x) \o y = o \o (x \o y)
  BY <1>1, <1>4, JoinedLater
<1> QED
  BY <1>1, <1>2, <1>3, <1>4, <1>5, <1>6 DEF Handed, Bytes

(* Behind a chunk of stored bytes. *)
LEMMA RawStep ==
  ASSUME DictSize \in Nat \ {0}, NEW s \in Between, s.state \in {"fresh", "go"},
         NEW u \in Units, u.unit = "raw", NEW o, NEW d, Chunked(s, o, <<>>, d)
  PROVE  LET x == PutBytes([dec |-> IF u.reset \/ d = NoDec THEN NewDec(DictSize) ELSE d,
                               buf |-> <<>>], u.data)
         IN Chunked(UnitMeaning(s, u), o, x.buf, x.dec)
<1>1. PICK w \in Bytes : w = u.data
  BY UnitIs
<1>2. PICK e : e = IF u.reset \/ d = NoDec THEN NewDec(DictSize) ELSE d
  OBVIOUS
<1>3. PICK f : f = IF u.reset THEN Forget(s) ELSE s
  OBVIOUS
<1>4. s \in Meanings(DictSize) /\ Handed(o, <<>>, s.out)
  BY DEF Between, Chunked
<1>5. f \in Meanings(DictSize) /\ f.state = s.state /\ f.out = s.out
      /\ (u.reset => f.hist = <<>> /\ f.reps = Zeros) /\ (~u.reset => f = s)
  BY <1>3, <1>4, ForgetIs
<1>6. Follows(DictSize, e, f)
  <2>1. CASE u.reset
    <3>1. Ring(DictSize, e, <<>>) /\ e.reps = Zeros
      BY <1>2, <2>1, NewRing DEF Zeros
    <3> QED
      BY <1>5, <2>1, <3>1 DEF Follows
  <2>2. CASE ~u.reset /\ d = NoDec
    <3>1. f = Fresh
      BY <1>5, <2>2 DEF Chunked
    <3> QED
      BY <1>2, <2>2, <3>1, NewRinged
  <2>3. CASE ~u.reset /\ d # NoDec
    BY <1>2, <1>5, <2>3 DEF Chunked
  <2> QED
    BY <2>1, <2>2, <2>3
<1>7. PICK g : g = Extended(f, w)
  OBVIOUS
<1>8. Grown(DictSize, f, w, g) /\ g.reps = f.reps
  <2>1. Gained(DictSize, f, w, f.reps, g)
    BY <1>1, <1>5, <1>7, ExtendedSame, Zenon
  <2> QED
    BY <1>1, <1>5, <2>1, Zenon DEF Grown, Gained
<1>9. Handed(o, <<>>, f.out)
  BY <1>4, <1>5
<1>10. PICK x : x = PutBytes([dec |-> e, buf |-> <<>>], w)
  OBVIOUS
<1>11. Follows(DictSize, x.dec, g) /\ Handed(o, x.buf, g.out)
  <2>1. LET y == PutBytes([dec |-> e, buf |-> <<>>], w)
        IN Follows(DictSize, y.dec, g) /\ Handed(o, y.buf, g.out)
    BY <1>5, <1>6, <1>8, <1>9, LiteralFollows
  <2> QED
    BY <1>10, <2>1, Zenon
<1>12. PICK z : z = Go(g)
  OBVIOUS
<1>13. Turned(DictSize, g, z, "go")
  <2>1. g \in Meanings(DictSize)
    BY <1>8 DEF Grown
  <2> QED
    BY <1>12, <2>1, TurnedIs DEF Go
<1>14. Follows(DictSize, x.dec, z) /\ Handed(o, x.buf, z.out) /\ z.state = "go"
  BY <1>11, <1>13 DEF Turned, Follows
<1>15. UnitMeaning(s, u) = z
  BY <1>1, <1>3, <1>7, <1>12 DEF UnitMeaning
<1>16. x.dec # NoDec
  BY <1>14, RingIsDec DEF Follows
<1>17. Chunked(z, o, x.buf, x.dec)
  BY <1>14, <1>16 DEF Chunked
<1> QED
  BY <1>1, <1>2, <1>10, <1>15, <1>17, Zenon

-----------------------------------------------------------------------------
(* In a chunk of operations. *)

LEMMA TailRest ==
  ASSUME NEW S, NEW v \in Seq(S), NEW i \in Nat, i < Len(v)
  PROVE  Tail(SubSeq(v, i + 1, Len(v))) = SubSeq(v, i + 2, Len(v))
<1> DEFINE n == Len(v)
           w == SubSeq(v, i + 1, n)
           x == Tail(w)
           y == SubSeq(v, i + 2, n)
<1>1. n \in Nat /\ i < n
  OBVIOUS
<1>2. w \in Seq(S) /\ Len(w) = n - i
  OBVIOUS
<1>3. \A k \in 1..n - i : w[k] = v[k + i]
  OBVIOUS
<1>4. y \in Seq(S) /\ Len(y) = n - (i + 1)
  OBVIOUS
<1>5. \A k \in 1..n - (i + 1) : y[k] = v[k + (i + 1)]
  OBVIOUS
<1> HIDE DEF w, y
<1>6. x \in Seq(S) /\ Len(x) = n - (i + 1) /\ \A k \in 1..n - (i + 1) : x[k] = w[k + 1]
  BY <1>1, <1>2
<1> HIDE DEF n, x
<1>7. ASSUME NEW k \in 1..n - (i + 1)
      PROVE  x[k] = y[k]
  <2>1. k + 1 \in 1..n - i /\ (k + 1) + i = k + (i + 1)
    BY <1>1
  <2>2. x[k] = w[k + 1] /\ w[k + 1] = v[(k + 1) + i] /\ y[k] = v[k + (i + 1)]
    BY <1>3, <1>5, <1>6, <2>1
  <2> QED
    BY <2>1, <2>2
<1>8. x = y
  BY <1>1, <1>4, <1>6, <1>7
<1> QED
  BY <1>8 DEF n, w, x, y

LEMMA RestIs ==
  ASSUME NEW S, NEW v \in Seq(S), NEW j \in 0..Len(v), NEW w, Rest(w, v, j)
  PROVE  /\ w \in Seq(S) /\ (w = <<>> <=> j = Len(v))
         /\ w # <<>> => /\ j < Len(v) /\ j + 1 \in 1..Len(v) /\ j + 1 \in 0..Len(v)
                        /\ Head(w) = v[j + 1] /\ v[j + 1] \in S
                        /\ Tail(w) = SubSeq(v, j + 2, Len(v))
<1>1. w \in Seq(S) /\ Len(w) = Len(v) - j
  BY DEF Rest
<1>2. w = <<>> <=> j = Len(v)
  <2>1. w = <<>> <=> Len(w) = 0
    BY <1>1, EmptySeq
  <2> QED
    BY <1>1, <2>1
<1>3. CASE w = <<>>
  BY <1>1, <1>2, <1>3
<1>4. CASE w # <<>>
  <2>1. /\ j < Len(v) /\ j + 1 \in 1..Len(v) /\ j + 1 \in 0..Len(v)
        /\ Head(w) = v[j + 1] /\ v[j + 1] \in S
    BY <1>1, <1>4 DEF Rest
  <2>2. Tail(w) = SubSeq(v, j + 2, Len(v))
    BY <2>1, TailRest DEF Rest
  <2> QED
    BY <1>1, <1>2, <2>1, <2>2
<1> QED
  BY <1>3, <1>4

(* What is known there. *)
LEMMA InChunkIs ==
  ASSUME NEW s \in Between, NEW u \in Units, NEW j, NEW o, NEW b, NEW d, NEW w,
         InChunk(s, u, j, o, b, d, w)
  PROVE  LET r == OpsAlong(s, u)
         IN /\ r[j] \in Meanings(DictSize) /\ r[j].state = "go" /\ Follows(DictSize, d, r[j]) /\ Handed(o, b, r[j].out)
            /\ Len(r[j].out) = Len(s.out) + Len(b) /\ Len(b) \in Nat /\ Len(s.out) \in Nat
            /\ u.size \in Nat /\ u.ops \in Seq(Operations) /\ u.unit = "lzma" /\ j \in 0..Len(u.ops)
            /\ s \in Meanings(DictSize) /\ s.state \in {"fresh", "go"}
<1>1. /\ u.unit = "lzma" /\ j \in 0..Len(u.ops) /\ OpsAlong(s, u)[j].state = "go" /\ o = s.out
      /\ s.state \in {"fresh", "go"}
  BY DEF InChunk, Opens
<1>2. Follows(DictSize, d, OpsAlong(s, u)[j]) /\ Handed(o, b, OpsAlong(s, u)[j].out)
  <2>1. PICK x : x = [dec |-> d, buf |-> b]
    OBVIOUS
  <2>2. Moved(DictSize, o, x, OpsAlong(s, u)[j]) /\ x.dec = d /\ x.buf = b
    BY <2>1 DEF InChunk
  <2> QED
    BY <2>2 DEF Moved
<1>3. OpsAlong(s, u)[j] \in Meanings(DictSize)
  BY <1>1, OpsAlongRun
<1>4. u.size \in Nat /\ u.ops \in Seq(Operations)
  BY <1>1, UnitIs
<1>5. o \in Seq(Byte) /\ b \in Seq(Byte) /\ o \o b = OpsAlong(s, u)[j].out
  BY <1>2 DEF Handed, Bytes
<1>6. Len(o \o b) = Len(o) + Len(b) /\ Len(o) \in Nat /\ Len(b) \in Nat
  <2>1. o \in Seq(Byte) /\ b \in Seq(Byte)
    BY <1>5
  <2> QED
    BY <2>1, Joined
<1> QED
  BY <1>1, <1>2, <1>3, <1>4, <1>5, <1>6 DEF Between

(* A chunk is begun. *)
LEMMA ChunkOpened ==
  ASSUME DictSize \in Nat \ {0}, NEW s \in Between, NEW u \in Units, Opens(s, u),
         NEW o, NEW d, Chunked(s, o, <<>>, d)
  PROVE  InChunk(s, u, 0, o, <<>>, IF u.control = "all" THEN NewDec(DictSize) ELSE d, u.ops)
<1>1. u.unit = "lzma" /\ u.control \in {"none", "all"} /\ (u.control = "none" => s.state = "go")
  BY DEF Opens
<1>2. u.ops \in Seq(Operations)
  BY <1>1, UnitIs
<1>3. PICK z : z = Begun(s, u) /\ Begins(s, u, z)
  <2>1. s \in Meanings(DictSize)
    BY DEF Between
  <2> QED
    BY <2>1, BegunIs
<1>4. PICK e : e = IF u.control = "all" THEN NewDec(DictSize) ELSE d
  OBVIOUS
<1>5. Follows(DictSize, e, z)
  <2>1. CASE u.control = "all"
    <3>1. Ring(DictSize, e, <<>>) /\ e.reps = Zeros
      BY <1>4, <2>1, NewRing DEF Zeros
    <3> QED
      BY <1>3, <2>1, <3>1 DEF Follows, Begins
  <2>2. CASE u.control = "none"
    <3>1. s.state = "go" /\ s # Fresh
      BY <1>1, <2>2, FreshIs
    <3>2. Follows(DictSize, d, s)
      BY <3>1 DEF Chunked
    <3> QED
      BY <1>3, <1>4, <2>2, <3>2 DEF Follows, Begins
  <2> QED
    BY <1>1, <2>1, <2>2
<1>6. Handed(o, <<>>, s.out) /\ o = s.out
  BY HandedAll DEF Chunked
<1>7. OpsAlong(s, u)[0] = z
  BY <1>1, <1>3, OpsAlongRun
<1>8. Moved(DictSize, o, [dec |-> e, buf |-> <<>>], z)
  BY <1>3, <1>5, <1>6 DEF Moved, Begins
<1>9. Rest(u.ops, u.ops, 0) /\ 0 \in 0..Len(u.ops)
  BY <1>2 DEF Rest
<1>10. OpsAlong(s, u)[0].state = "go" /\ Moved(DictSize, o, [dec |-> e, buf |-> <<>>], OpsAlong(s, u)[0])
  BY <1>3, <1>7, <1>8 DEF Begins
<1>11. InChunk(s, u, 0, o, <<>>, e, u.ops)
  BY <1>6, <1>9, <1>10 DEF InChunk
<1> QED
  BY <1>4, <1>11

(* One is not. *)
LEMMA ChunkRefused ==
  ASSUME NEW s \in Between, s.state \in {"fresh", "go"}, NEW u \in Units, u.unit = "lzma",
         ~u.ok \/ (s.state = "fresh" /\ u.control = "none")
  PROVE  UnitMeaning(s, u).state = "bad"
<1>1. PICK y : y = Followed(Begun(s, u), u.ops, Len(s.out) + u.size)
  OBVIOUS
<1>2. UnitMeaning(s, u) = LzmaMeaning(s, u)
  BY DEF UnitMeaning
<1>3. LzmaMeaning(s, u) = ChunkMeaning(s, u, y)
  BY <1>1, LzmaIs
<1>4. ChunkMeaning(s, u, y) = [s EXCEPT !.state = "bad"]
  BY DEF ChunkMeaning
<1>5. [s EXCEPT !.state = "bad"].state = "bad"
  BY DEF Between, Meanings
<1> QED
  BY <1>2, <1>3, <1>4, <1>5

(* The chunk's bytes are there. *)
LEMMA ChunkDone ==
  ASSUME NEW s \in Between, NEW u \in Units, NEW j, NEW o, NEW b, NEW d, NEW w,
         InChunk(s, u, j, o, b, d, w), Len(b) >= u.size
  PROVE  Chunked(UnitMeaning(s, u), o, b, d)
<1>1. PICK z \in Meanings(DictSize) : /\ z = OpsAlong(s, u)[j] /\ z.state = "go" /\ Follows(DictSize, d, z)
                                      /\ Handed(o, b, z.out) /\ Len(z.out) = Len(s.out) + Len(b)
  BY InChunkIs
<1>2. /\ Len(b) \in Nat /\ Len(s.out) \in Nat /\ u.size \in Nat /\ u.unit = "lzma"
      /\ j \in 0..Len(u.ops) /\ s.state \in {"fresh", "go"}
  BY InChunkIs
<1>3. Len(z.out) >= Len(s.out) + u.size
  BY <1>1, <1>2
<1>4. Len(OpsAlong(s, u)[j].out) >= Len(s.out) + u.size
  BY <1>1, <1>3
<1>5. UnitMeaning(s, u) = ChunkMeaning(s, u, OpsAlong(s, u)[j])
  BY <1>2, <1>4, ChunkEnds
<1>6. u.ok /\ ~(s.state = "fresh" /\ u.control = "none")
  BY DEF InChunk, Opens
<1>7. ~(Len(z.out) < Len(s.out) + u.size)
  BY <1>1, <1>2
<1>8. ChunkMeaning(s, u, z) = z
  BY <1>1, <1>6, <1>7 DEF ChunkMeaning
<1>9. d # NoDec
  BY <1>1, RingIsDec DEF Follows
<1> QED
  BY <1>1, <1>5, <1>8, <1>9 DEF Chunked

(* The next operation is followed. *)
LEMMA ChunkNext ==
  ASSUME NEW s \in Between, NEW u \in Units, NEW j, NEW o, NEW b, NEW d, NEW w,
         InChunk(s, u, j, o, b, d, w), Len(b) < u.size, w # <<>>
  PROVE  /\ j + 1 \in 0..Len(u.ops) /\ Head(w) \in Operations
         /\ Rest(Tail(w), u.ops, j + 1)
         /\ OpsAlong(s, u)[j + 1] = Operated(OpsAlong(s, u)[j], Head(w))
<1>1. /\ Len(b) \in Nat /\ Len(s.out) \in Nat /\ u.size \in Nat /\ u.unit = "lzma"
      /\ j \in 0..Len(u.ops) /\ u.ops \in Seq(Operations)
      /\ OpsAlong(s, u)[j].state = "go"
      /\ Len(OpsAlong(s, u)[j].out) = Len(s.out) + Len(b)
  BY InChunkIs
<1>2. Rest(w, u.ops, j)
  BY DEF InChunk
<1>3. /\ j < Len(u.ops) /\ j + 1 \in 0..Len(u.ops)
      /\ Head(w) = u.ops[j + 1] /\ u.ops[j + 1] \in Operations
      /\ Tail(w) = SubSeq(u.ops, j + 2, Len(u.ops))
  BY <1>1, <1>2, RestIs
<1>4. Len(OpsAlong(s, u)[j].out) < Len(s.out) + u.size
  BY <1>1
<1>5. OpsAlong(s, u)[j + 1] = Operated(OpsAlong(s, u)[j], u.ops[j + 1])
  BY <1>1, <1>3, <1>4, OpsNext
<1>6. Rest(Tail(w), u.ops, j + 1)
  <2>1. (j + 1) + 1 = j + 2
    BY <1>1
  <2> QED
    BY <1>3, <2>1 DEF Rest
<1> QED
  BY <1>3, <1>5, <1>6

GoesWell(s, o) == Operated(s, o).state = s.state

LEMMA ChunkOn ==
  ASSUME NEW s \in Between, NEW u \in Units, NEW j, NEW o, NEW b, NEW d, NEW w,
         InChunk(s, u, j, o, b, d, w), Len(b) < u.size, w # <<>>,
         NEW x, Moved(DictSize, o, x, Operated(OpsAlong(s, u)[j], Head(w))),
         GoesWell(OpsAlong(s, u)[j], Head(w))
  PROVE  InChunk(s, u, j + 1, o, x.buf, x.dec, Tail(w)) /\ j + 1 \in Nat
<1>1. /\ j + 1 \in 0..Len(u.ops) /\ Rest(Tail(w), u.ops, j + 1)
      /\ OpsAlong(s, u)[j + 1] = Operated(OpsAlong(s, u)[j], Head(w))
  BY ChunkNext
<1>2. Opens(s, u) /\ o = s.out /\ OpsAlong(s, u)[j].state = "go"
  BY DEF InChunk
<1>3. OpsAlong(s, u)[j + 1].state = "go" /\ Moved(DictSize, o, x, OpsAlong(s, u)[j + 1])
  BY <1>1, <1>2 DEF GoesWell
<1>4. Moved(DictSize, o, [dec |-> x.dec, buf |-> x.buf], OpsAlong(s, u)[j + 1])
  BY <1>3 DEF Moved
<1>5. j + 1 \in Nat
  <2>1. j \in 0..Len(u.ops)
    BY InChunkIs
  <2> QED
    BY <2>1
<1> QED
  BY <1>1, <1>2, <1>3, <1>4, <1>5 DEF InChunk

(* A distance is refused. *)
LEMMA ChunkBad ==
  ASSUME NEW s \in Between, NEW u \in Units, NEW j, NEW o, NEW b, NEW d, NEW w,
         InChunk(s, u, j, o, b, d, w), Len(b) < u.size, w # <<>>,
         Operated(OpsAlong(s, u)[j], Head(w)).state = "bad"
  PROVE  UnitMeaning(s, u).state = "bad"
<1>1. j + 1 \in 0..Len(u.ops) /\ OpsAlong(s, u)[j + 1].state = "bad"
  BY ChunkNext
<1>2. u.unit = "lzma" /\ s.state \in {"fresh", "go"}
  BY InChunkIs
<1>3. OpsAlong(s, u)[j + 1].state # "go"
  BY <1>1
<1>4. UnitMeaning(s, u) = ChunkMeaning(s, u, OpsAlong(s, u)[j + 1])
  BY <1>1, <1>2, <1>3, ChunkEnds
<1>5. u.ok /\ ~(s.state = "fresh" /\ u.control = "none")
  BY DEF InChunk, Opens
<1>6. PICK z : z = OpsAlong(s, u)[j + 1]
  OBVIOUS
<1>7. ChunkMeaning(s, u, z) = z /\ z.state = "bad"
  <2>1. z.state = "bad"
    BY <1>1, <1>6
  <2> QED
    BY <1>5, <2>1 DEF ChunkMeaning
<1> QED
  BY <1>4, <1>6, <1>7

(* An end marker ends it. *)
LEMMA ChunkMarked ==
  ASSUME NEW s \in Between, NEW u \in Units, NEW j, NEW o, NEW b, NEW d, NEW w,
         InChunk(s, u, j, o, b, d, w), Len(b) < u.size, w # <<>>, Head(w).op = "eos"
  PROVE  Chunked(UnitMeaning(s, u), o, b, d)
<1>1. /\ j + 1 \in 0..Len(u.ops) /\ Head(w) \in Operations
      /\ OpsAlong(s, u)[j + 1] = Operated(OpsAlong(s, u)[j], Head(w))
  BY ChunkNext
<1>2. PICK y \in Meanings(DictSize) : y = OpsAlong(s, u)[j] /\ Follows(DictSize, d, y) /\ Handed(o, b, y.out)
  BY InChunkIs
<1>3. PICK z : z = Operated(y, Head(w))
  OBVIOUS
<1>4. Turned(DictSize, y, z, "eos")
  BY <1>1, <1>3, EosMeans
<1>5. PICK x : x = Go(z)
  OBVIOUS
<1>6. Turned(DictSize, z, x, "go")
  <2>1. z \in Meanings(DictSize)
    BY <1>4 DEF Turned
  <2> QED
    BY <1>5, <2>1, TurnedIs DEF Go
<1>7. Follows(DictSize, d, x) /\ Handed(o, b, x.out) /\ x.state = "go"
  BY <1>2, <1>4, <1>6 DEF Turned, Follows
<1>8. OpsAlong(s, u)[j + 1] = z
  BY <1>1, <1>2, <1>3
<1>9. u.unit = "lzma" /\ s.state \in {"fresh", "go"}
  BY InChunkIs
<1>10. OpsAlong(s, u)[j + 1].state # "go"
  BY <1>4, <1>8 DEF Turned
<1>11. UnitMeaning(s, u) = ChunkMeaning(s, u, OpsAlong(s, u)[j + 1])
  BY <1>1, <1>9, <1>10, ChunkEnds
<1>12. u.ok /\ ~(s.state = "fresh" /\ u.control = "none")
  BY DEF InChunk, Opens
<1>13. ChunkMeaning(s, u, z) = x
  <2>1. z.state = "eos"
    BY <1>4 DEF Turned
  <2> QED
    BY <1>5, <1>12, <2>1 DEF ChunkMeaning
<1>14. d # NoDec
  BY <1>7, RingIsDec DEF Follows
<1> QED
  BY <1>7, <1>8, <1>11, <1>13, <1>14 DEF Chunked

(* Its bytes end too early. *)
LEMMA ChunkShort ==
  ASSUME NEW s \in Between, NEW u \in Units, NEW j, NEW o, NEW b, NEW d,
         InChunk(s, u, j, o, b, d, <<>>), Len(b) < u.size
  PROVE  UnitMeaning(s, u).state = "bad"
<1>1. /\ Len(b) \in Nat /\ Len(s.out) \in Nat /\ u.size \in Nat /\ u.unit = "lzma"
      /\ j \in 0..Len(u.ops) /\ u.ops \in Seq(Operations) /\ s.state \in {"fresh", "go"}
  BY InChunkIs
<1>2. PICK z \in Meanings(DictSize) : /\ z = OpsAlong(s, u)[j] /\ z.state = "go"
                                      /\ Len(z.out) = Len(s.out) + Len(b)
  BY InChunkIs
<1>3. j = Len(u.ops)
  <2>1. Rest(<<>>, u.ops, j)
    BY DEF InChunk
  <2> QED
    BY <1>1, <2>1, RestIs
<1>4. UnitMeaning(s, u) = ChunkMeaning(s, u, OpsAlong(s, u)[j])
  BY <1>1, <1>3, ChunkEnds
<1>5. u.ok /\ ~(s.state = "fresh" /\ u.control = "none")
  BY DEF InChunk, Opens
<1>6. Len(z.out) < Len(s.out) + u.size
  BY <1>1, <1>2
<1>7. ChunkMeaning(s, u, z) = [z EXCEPT !.state = "bad"]
  BY <1>2, <1>5, <1>6 DEF ChunkMeaning
<1>8. [z EXCEPT !.state = "bad"].state = "bad"
  BY DEF Meanings
<1> QED
  BY <1>2, <1>4, <1>7, <1>8

-----------------------------------------------------------------------------
(* Where reading ends. *)

LEMMA EndsBadly ==
  ASSUME NEW units \in Seq(Units), NEW k \in 1..Len(units),
         NEW o, NEW b, Handed(o, b, Along(units)[k - 1].out), Along(units)[k].state = "bad",
         NEW e, NEW part
  PROVE  Ended(Along(units)[Len(units)], o, e, part)
<1>1. k - 1 \in 0..Len(units) /\ k \in 0..Len(units)
  OBVIOUS
<1>2. PICK s : s = Along(units)[k - 1]
  OBVIOUS
<1>3. PICK z : z = Along(units)[Len(units)]
  OBVIOUS
<1>4. s \in Meanings(DictSize) /\ GoesOn(DictSize, s, z)
  BY <1>1, <1>2, <1>3, AlongEnds DEF Between
<1>5. z.state = "bad"
  <2>1. Along(units)[Len(units)] = Along(units)[k]
    BY <1>1, AlongEnds
  <2> QED
    BY <1>3, <2>1
<1>6. Handed(o, b, s.out)
  BY <1>2
<1>7. o \in Bytes /\ Extends(o, z.out)
  BY <1>4, <1>6, HandedLeads
<1>8. Ended(z, o, e, part)
  BY <1>5, <1>7 DEF Ended
<1> QED
  BY <1>3, <1>8

LEMMA EndsWell ==
  ASSUME NEW units \in Seq(Units), NEW k \in 1..Len(units),
         NEW o, Handed(o, <<>>, Along(units)[k - 1].out), Along(units)[k].state = "end",
         Along(units)[k].out = Along(units)[k - 1].out, NEW part
  PROVE  Ended(Along(units)[Len(units)], o, FALSE, part)
<1>1. k \in 0..Len(units)
  OBVIOUS
<1>2. PICK z : z = Along(units)[Len(units)]
  OBVIOUS
<1>3. Along(units)[Len(units)] = Along(units)[k]
  BY <1>1, AlongEnds
<1>4. z.state = "end" /\ z.out = Along(units)[k - 1].out
  BY <1>2, <1>3
<1>5. o = z.out
  BY <1>4, HandedAll
<1>6. o \in Bytes /\ Extends(o, z.out)
  <2>1. o \in Bytes
    BY DEF Handed
  <2> QED
    BY <1>5, <2>1, ExtendsSelf
<1>7. Ended(z, o, FALSE, part)
  BY <1>4, <1>5, <1>6 DEF Ended
<1> QED
  BY <1>2, <1>7

LEMMA DoneWhen ==
  ASSUME /\ ~(pc' \in {"compress", "compressed", "header", "block"}) /\ ~(pc' = "chunk")
         /\ ~(pc' = "decode") /\ ~(pc' \in {"compress", "compressed"}),
         Understood(in'.units) => Ended(Along(in'.units)[Len(in'.units)], out', err', in'.part)
  PROVE  Reads'
BY Zenon DEF Reads

LEMMA ChunkWhen ==
  ASSUME /\ ~(pc' \in {"compress", "compressed", "header", "block"}) /\ ~(pc' = "done")
         /\ ~(pc' = "decode") /\ ~(pc' \in {"compress", "compressed"}),
         Understood(in'.units) => Chunked(Along(in'.units)[pos'], out', buf', dec')
  PROVE  Reads'
BY Zenon DEF Reads

LEMMA DecodeWhen ==
  ASSUME /\ ~(pc' \in {"compress", "compressed", "header", "block"}) /\ ~(pc' = "done")
         /\ ~(pc' = "chunk") /\ ~(pc' \in {"compress", "compressed"}),
         Understood(in'.units) =>
           /\ pos' # 0 /\ limit' = in'.units[pos'].size
           /\ \E j \in Nat : InChunk(Along(in'.units)[pos' - 1], in'.units[pos'], j,
                                   out', buf', dec', ops')
  PROVE  Reads'
BY Zenon DEF Reads

(* What is behind a step. *)
LEMMA ReadsDone ==
  ASSUME pc' = "done", in' = in,
         Understood(in.units) => Ended(Along(in.units)[Len(in.units)], out', err', in.part)
  PROVE  Reads'
<1>1. Understood(in'.units) => Ended(Along(in'.units)[Len(in'.units)], out', err', in'.part)
  OBVIOUS
<1>2. /\ ~(pc' \in {"compress", "compressed", "header", "block"}) /\ ~(pc' = "chunk")
      /\ ~(pc' = "decode") /\ ~(pc' \in {"compress", "compressed"})
  OBVIOUS
<1> QED
  BY <1>1, <1>2, DoneWhen

LEMMA ReadsChunk ==
  ASSUME pc' = "chunk", in' = in,
         Understood(in.units) => Chunked(Along(in.units)[pos'], out', buf', dec')
  PROVE  Reads'
<1>1. Understood(in'.units) => Chunked(Along(in'.units)[pos'], out', buf', dec')
  OBVIOUS
<1>2. /\ ~(pc' \in {"compress", "compressed", "header", "block"}) /\ ~(pc' = "done")
      /\ ~(pc' = "decode") /\ ~(pc' \in {"compress", "compressed"})
  OBVIOUS
<1> QED
  BY <1>1, <1>2, ChunkWhen

LEMMA ReadsFirst ==
  ASSUME pc' \in {"compressed", "header", "block"},
         pc' = "compressed" => AtStart',
         Understood(in'.units) => Along(in'.units)[pos'] = Fresh /\ AtStart'
  PROVE  Reads'
<1>1. /\ ~(pc' = "chunk") /\ ~(pc' = "done") /\ ~(pc' = "decode")
      /\ pc' \in {"compress", "compressed"} => AtStart'
  OBVIOUS
<1> QED
  BY <1>1, Zenon DEF Reads

LEMMA ReadsDecode ==
  ASSUME pc' = "decode", in' = in,
         Understood(in.units) =>
           /\ pos' # 0 /\ limit' = in.units[pos'].size
           /\ \E j \in Nat : InChunk(Along(in.units)[pos' - 1], in.units[pos'], j, out', buf', dec', ops')
  PROVE  Reads'
<1>1. Understood(in'.units) =>
           /\ pos' # 0 /\ limit' = in'.units[pos'].size
           /\ \E j \in Nat : InChunk(Along(in'.units)[pos' - 1], in'.units[pos'], j, out', buf', dec', ops')
  OBVIOUS
<1>2. /\ ~(pc' \in {"compress", "compressed", "header", "block"}) /\ ~(pc' = "done")
      /\ ~(pc' = "chunk") /\ ~(pc' \in {"compress", "compressed"})
  OBVIOUS
<1> QED
  BY <1>1, <1>2, DecodeWhen

-----------------------------------------------------------------------------
(* Steps of the reader. *)

LEMMA ReadsReturned ==
  ASSUME NEW e, Return(e),
         Understood(in.units) => Ended(Along(in.units)[Len(in.units)], out, e, in.part)
  PROVE  Reads'
<1>1. pc' = "done" /\ in' = in /\ out' = out
  BY DEF Return, Stream
<1>2. err' = e
  BY Zenon DEF Return
<1>3. Ended(Along(in.units)[Len(in.units)], out, e, in.part)
        => Ended(Along(in.units)[Len(in.units)], out', err', in.part)
  BY <1>1, <1>2, Zenon
<1> QED
  BY <1>1, <1>3, ReadsDone

LEMMA HandedNothing ==
  Handed(<<>>, <<>>, Fresh.out)
<1>1. <<>> \in Seq(Byte) /\ <<>> \o <<>> = <<>>
  OBVIOUS
<1> QED
  BY <1>1, FreshIs DEF Handed, Bytes

LEMMA ReadsInit ==
  ASSUME Init
  PROVE  Reads
<1>1. /\ pc \in {"compress", "compressed"} /\ in.units = <<>> /\ pos = 0
      /\ dec = NoDec /\ buf = <<>> /\ out = <<>>
  BY DEF Init
<1>2. <<>> \in Seq(Units) /\ 0 \in 0..Len(<<>>)
  OBVIOUS
<1>3. Along(<<>>)[0] = Fresh
  BY <1>2, AlongEnds
<1>4. Along(in.units)[pos] = Fresh /\ AtStart
  BY <1>1, <1>3 DEF AtStart
<1>5. ~(pc = "chunk") /\ ~(pc = "decode") /\ ~(pc = "done") /\ AtStart
  BY <1>1, <1>4
<1> QED
  BY <1>4, <1>5, Zenon DEF Reads

LEMMA ReadsDeliver ==
  ASSUME Typed, Typed', Reads, Compress \/ Deliver
  PROVE  Reads'
<1>1. CASE Compress
  <2>1. /\ pc = "compress" /\ pc' = "compressed" /\ in' = in /\ pos' = pos
        /\ dec' = dec /\ buf' = buf /\ out' = out
    BY <1>1 DEF Compress
  <2>2. Understood(in.units) => Along(in.units)[pos] = Fresh /\ AtStart
    BY <2>1 DEF Reads
  <2>3. Understood(in'.units) => Along(in'.units)[pos'] = Fresh /\ AtStart'
    BY <2>1, <2>2 DEF AtStart
  <2>4. AtStart'
    BY <2>1 DEF Reads, AtStart
  <2> QED
    BY <2>1, <2>3, <2>4, ReadsFirst
<1>2. CASE Deliver
  <2>1. /\ pc = "compressed" /\ pc' = "header" /\ pos' = pos
        /\ dec' = dec /\ buf' = buf /\ out' = out
    BY <1>2 DEF Deliver
  <2>2. pos' = 0 /\ in'.units \in Seq(Units)
    BY <2>1 DEF Typed, Headed
  <2>3. PICK units \in Seq(Units) : units = in'.units
    BY <2>2
  <2>4. 0 \in 0..Len(units)
    BY <2>3
  <2>5. Along(units)[0] = Fresh
    BY <2>4, AlongEnds
  <2>6. AtStart'
    BY <2>1 DEF Reads, AtStart
  <2>7. Understood(in'.units) => Along(in'.units)[pos'] = Fresh /\ AtStart'
    BY <2>2, <2>3, <2>5, <2>6
  <2> QED
    BY <2>1, <2>6, <2>7, ReadsFirst
<1> QED
  BY <1>1, <1>2

(* A unit is taken. *)
LEMMA UnitTaken ==
  ASSUME Typed, NEW u, Has(u)
  PROVE  /\ in.units \in Seq(Units) /\ pos + 1 \in 1..Len(in.units) /\ (pos + 1) - 1 = pos
         /\ Along(in.units)[pos + 1] = UnitMeaning(Along(in.units)[pos], Unit)
         /\ Along(in.units)[pos] \in Between /\ Unit \in Units /\ Unit.unit = u
<1>1. /\ Unit \in Units /\ Unit.unit = u /\ Unit = in.units[pos + 1]
      /\ pos \in Nat /\ pos + 1 \in 1..Len(in.units)
  BY NextUnit
<1>2. in.units \in Seq(Units)
  BY DEF Typed, Headed
<1>3. (pos + 1) - 1 = pos
  BY <1>1
<1>4. /\ Along(in.units)[pos + 1] = UnitMeaning(Along(in.units)[(pos + 1) - 1], in.units[pos + 1])
      /\ Along(in.units)[(pos + 1) - 1] \in Between
  BY <1>1, <1>2, AlongNext
<1> QED
  BY <1>1, <1>2, <1>3, <1>4

LEMMA ReadsHeader ==
  ASSUME Typed, Reads, ReadHeader
  PROVE  Reads'
<1>1. pc = "header" /\ pos = 0 /\ in.units \in Seq(Units)
  BY DEF ReadHeader, Typed, Headed
<1>2. Understood(in.units) => Along(in.units)[pos] = Fresh /\ AtStart
  BY <1>1 DEF Reads
<1>3. CASE Has("header") /\ Unit.ok
  <2>1. /\ pc' = "block" /\ in' = in /\ pos' = pos + 1 /\ dec' = dec /\ buf' = buf /\ out' = out
    BY <1>3 DEF ReadHeader, Advance, Stream
  <2>2. ASSUME Understood(in.units)
        PROVE  Along(in.units)[pos + 1] = Fresh /\ AtStart
    <3>1. Along(in.units)[pos + 1] = UnitMeaning(Fresh, Unit) /\ Unit.unit = "header"
      BY <1>2, <1>3, <2>2, UnitTaken
    <3>2. UnitMeaning(Fresh, Unit) = Fresh
      BY <1>3, <3>1, FreshIs DEF UnitMeaning
    <3> QED
      BY <1>2, <2>2, <3>1, <3>2
  <2>3. Understood(in'.units) => Along(in'.units)[pos'] = Fresh /\ AtStart'
    BY <2>1, <2>2 DEF AtStart
  <2> QED
    BY <2>1, <2>3, ReadsFirst
<1>4. CASE Has("header") /\ ~Unit.ok
  <2>1. Return(TRUE)
    BY <1>4 DEF ReadHeader
  <2>2. ASSUME Understood(in.units)
        PROVE  Ended(Along(in.units)[Len(in.units)], out, TRUE, in.part)
    <3>1. PICK k \in 1..Len(in.units) : k = pos + 1 /\ k - 1 = pos
      BY <1>4, UnitTaken
    <3>2. Along(in.units)[k] = UnitMeaning(Fresh, Unit) /\ Unit.unit = "header"
      BY <1>2, <1>4, <2>2, <3>1, UnitTaken
    <3>3. Along(in.units)[k].state = "bad"
      <4>1. UnitMeaning(Fresh, Unit) = [Fresh EXCEPT !.state = "bad"]
        BY <1>4, <3>2, FreshIs DEF UnitMeaning
      <4>2. [Fresh EXCEPT !.state = "bad"].state = "bad"
        BY FreshIs DEF Meanings
      <4> QED
        BY <3>2, <4>1, <4>2
    <3>4. Handed(out, buf, Along(in.units)[k - 1].out)
      BY <1>2, <2>2, <3>1, HandedNothing DEF AtStart
    <3> QED
      BY <1>1, <3>3, <3>4, EndsBadly
  <2> QED
    BY <2>1, <2>2, ReadsReturned
<1>5. CASE ~Has("header")
  <2>1. Return(TRUE)
    BY <1>5 DEF ReadHeader
  <2>2. ASSUME Understood(in.units)
        PROVE  Ended(Along(in.units)[Len(in.units)], out, TRUE, in.part)
    <3>1. Len(in.units) = 0
      BY <1>1, <1>5 DEF Has, Typed, Headed
    <3>2. PICK z : z = Along(in.units)[Len(in.units)]
      OBVIOUS
    <3>3. z = Fresh /\ AtStart
      BY <1>1, <1>2, <2>2, <3>1, <3>2
    <3>4. z.state \in {"fresh", "go"} /\ Handed(out, <<>>, z.out)
      BY <3>3, FreshIs, HandedNothing DEF AtStart
    <3>5. out = z.out /\ out \in Bytes
      BY <3>4, HandedAll DEF Handed
    <3>6. out \in Bytes /\ Extends(out, z.out)
      BY <3>5, ExtendsSelf
    <3>7. Ended(z, out, TRUE, in.part)
      BY <3>4, <3>6 DEF Ended
    <3> QED
      BY <3>2, <3>7
  <2> QED
    BY <2>1, <2>2, ReadsReturned
<1> QED
  BY <1>3, <1>4, <1>5

(* A unit that ends the reading. *)
LEMMA EndUnit ==
  ASSUME NEW s \in Between, s.state \in {"fresh", "go"},
         NEW u \in Units, u.unit \in {"end", "check", "index"}
  PROVE  UnitMeaning(s, u).state = "end" /\ UnitMeaning(s, u).out = s.out
<1>1. UnitMeaning(s, u) = [s EXCEPT !.state = "end"]
  BY DEF UnitMeaning
<1>2. [s EXCEPT !.state = "end"].state = "end" /\ [s EXCEPT !.state = "end"].out = s.out
  BY DEF Between, Meanings
<1> QED
  BY <1>1, <1>2

LEMMA ReadsBlock ==
  ASSUME Typed, Reads, ReadBlockHeader \/ SkipIndex \/ NoBlock
  PROVE  Reads'
<1>1. pc = "block" /\ in.units \in Seq(Units)
  <2>1. pc = "block"
    BY DEF ReadBlockHeader, SkipIndex, NoBlock
  <2> QED
    BY <2>1 DEF Typed, Headed
<1>2. Understood(in.units) => Along(in.units)[pos] = Fresh /\ AtStart
  BY <1>1 DEF Reads
<1>3. CASE ReadBlockHeader /\ Unit.ok
  <2>1. /\ pc' = "chunk" /\ in' = in /\ pos' = pos + 1 /\ dec' = NoDec /\ buf' = buf /\ out' = out
        /\ Has("block")
    BY <1>3 DEF ReadBlockHeader, Advance, Stream
  <2>2. ASSUME Understood(in.units)
        PROVE  Chunked(Along(in.units)[pos'], out', buf', dec')
    <3>1. Along(in.units)[pos + 1] = UnitMeaning(Fresh, Unit) /\ Unit.unit = "block"
      BY <1>2, <2>1, <2>2, UnitTaken
    <3>2. UnitMeaning(Fresh, Unit) = Fresh
      BY <1>3, <3>1, FreshIs DEF UnitMeaning
    <3>3. Along(in.units)[pos'] = Fresh /\ out' = <<>> /\ buf' = <<>> /\ dec' = NoDec
      BY <1>2, <2>1, <2>2, <3>1, <3>2 DEF AtStart
    <3>4. Chunked(Fresh, <<>>, <<>>, NoDec)
      BY HandedNothing DEF Chunked
    <3> QED
      BY <3>3, <3>4
  <2> QED
    BY <2>1, <2>2, ReadsChunk
<1>4. CASE ReadBlockHeader /\ ~Unit.ok
  <2>1. Return(TRUE) /\ Has("block")
    BY <1>4 DEF ReadBlockHeader
  <2>2. ASSUME Understood(in.units)
        PROVE  Ended(Along(in.units)[Len(in.units)], out, TRUE, in.part)
    <3>1. PICK k \in 1..Len(in.units) : k = pos + 1 /\ k - 1 = pos
      BY <2>1, UnitTaken
    <3>2. Along(in.units)[k] = UnitMeaning(Fresh, Unit) /\ Unit.unit = "block"
      BY <1>2, <2>1, <2>2, <3>1, UnitTaken
    <3>3. Along(in.units)[k].state = "bad"
      <4>1. UnitMeaning(Fresh, Unit) = [Fresh EXCEPT !.state = "bad"]
        BY <1>4, <3>2, FreshIs DEF UnitMeaning
      <4>2. [Fresh EXCEPT !.state = "bad"].state = "bad"
        BY FreshIs DEF Meanings
      <4> QED
        BY <3>2, <4>1, <4>2
    <3>4. Handed(out, buf, Along(in.units)[k - 1].out)
      BY <1>2, <2>2, <3>1, HandedNothing DEF AtStart
    <3> QED
      BY <1>1, <3>3, <3>4, EndsBadly
  <2> QED
    BY <2>1, <2>2, ReadsReturned
<1>5. CASE SkipIndex
  <2>1. Return(FALSE) /\ Has("index")
    BY <1>5 DEF SkipIndex
  <2>2. ASSUME Understood(in.units)
        PROVE  Ended(Along(in.units)[Len(in.units)], out, FALSE, in.part)
    <3>1. PICK k \in 1..Len(in.units) : k = pos + 1 /\ k - 1 = pos
      BY <2>1, UnitTaken
    <3>2. Along(in.units)[k] = UnitMeaning(Fresh, Unit) /\ Unit.unit = "index"
          /\ Unit \in Units /\ Fresh \in Between /\ Along(in.units)[k - 1] = Fresh
      BY <1>2, <2>1, <2>2, <3>1, UnitTaken
    <3>3. Along(in.units)[k].state = "end" /\ Along(in.units)[k].out = Along(in.units)[k - 1].out
      BY <3>2, FreshIs, EndUnit
    <3>4. Handed(out, <<>>, Along(in.units)[k - 1].out)
      BY <1>2, <2>2, <3>1, HandedNothing DEF AtStart
    <3> QED
      BY <1>1, <3>3, <3>4, EndsWell
  <2> QED
    BY <2>1, <2>2, ReadsReturned
<1>6. CASE NoBlock
  <2>1. Return(in.part # "between") /\ pos = Len(in.units)
    BY <1>6 DEF NoBlock, Missing
  <2>2. ASSUME Understood(in.units)
        PROVE  Ended(Along(in.units)[Len(in.units)], out, in.part # "between", in.part)
    <3>1. PICK z : z = Along(in.units)[Len(in.units)]
      OBVIOUS
    <3>2. z.state \in {"fresh", "go"} /\ Handed(out, <<>>, z.out)
      BY <1>2, <2>1, <2>2, <3>1, FreshIs, HandedNothing DEF AtStart
    <3>3. out = z.out /\ out \in Bytes /\ Extends(out, z.out) /\ ~(z.state = "end")
      <4>1. out = z.out /\ out \in Bytes
        BY <3>2, HandedAll DEF Handed
      <4> QED
        BY <3>2, <4>1, ExtendsSelf
    <3>4. in.part = "inside" => in.part # "between"
      OBVIOUS
    <3>5. Ended(z, out, in.part # "between", in.part)
      BY <3>3, <3>4, Zenon DEF Ended
    <3> QED
      BY <3>1, <3>5, Zenon
  <2> QED
    BY <2>1, <2>2, ReadsReturned, Zenon
<1> QED
  BY <1>3, <1>4, <1>5, <1>6

(* The state along the meaning when the next chunk is read. *)
LEMMA AtChunk ==
  ASSUME Typed, Reads, pc = "chunk", Understood(in.units)
  PROVE  /\ Chunked(Along(in.units)[pos], out, buf, dec)
         /\ Along(in.units)[pos] \in Between /\ Along(in.units)[pos].state \in {"fresh", "go"}
         /\ Handed(out, buf, Along(in.units)[pos].out)
<1>1. pos \in 0..Len(in.units) /\ in.units \in Seq(Units)
  BY DEF Typed, Headed
<1>2. Along(in.units)[pos] \in Between
  BY <1>1, AlongEnds
<1>3. Chunked(Along(in.units)[pos], out, buf, dec)
  BY DEF Reads
<1>4. PICK s : s = Along(in.units)[pos]
  OBVIOUS
<1>5. Chunked(s, out, buf, dec)
  BY <1>3, <1>4
<1>6. s.state \in {"fresh", "go"} /\ Handed(out, buf, s.out)
  BY <1>5, FreshIs DEF Chunked
<1> QED
  BY <1>2, <1>3, <1>4, <1>6

LEMMA ReadsEnd ==
  ASSUME Typed, Reads, Read \/ EndBlock \/ NoChunk
  PROVE  Reads'
<1>1. in.units \in Seq(Units)
  BY DEF Typed, Headed
<1>2. CASE Read
  <2>1. /\ pc = "chunk" /\ pc' = "chunk" /\ in' = in /\ pos' = pos /\ dec' = dec
    BY <1>2 DEF Read, Stream
  <2>2. PICK n \in 1..Len(buf) : /\ out' = out \o SubSeq(buf, 1, n)
                                 /\ buf' = SubSeq(buf, n + 1, Len(buf))
    BY <1>2 DEF Read
  <2>3. ASSUME Understood(in.units)
        PROVE  Chunked(Along(in.units)[pos'], out', buf', dec')
    <3>1. PICK s : s = Along(in.units)[pos]
      OBVIOUS
    <3>2. Chunked(s, out, buf, dec)
      BY <2>1, <2>3, <3>1, AtChunk
    <3>3. Handed(out, buf, s.out)
      BY <3>2 DEF Chunked
    <3>4. Handed(out \o SubSeq(buf, 1, n), SubSeq(buf, n + 1, Len(buf)), s.out)
      BY <3>3, HandedSome
    <3>5. Chunked(s, out \o SubSeq(buf, 1, n), SubSeq(buf, n + 1, Len(buf)), dec)
      BY <3>2, <3>4 DEF Chunked
    <3> QED
      BY <2>1, <2>2, <3>1, <3>5
  <2> QED
    BY <2>1, <2>3, ReadsChunk
<1>3. CASE EndBlock
  <2>1. Return(FALSE) /\ Has("end") /\ pc = "chunk" /\ buf = <<>>
    BY <1>3 DEF EndBlock, DecodeChunk
  <2>2. ASSUME Understood(in.units)
        PROVE  Ended(Along(in.units)[Len(in.units)], out, FALSE, in.part)
    <3>1. PICK k \in 1..Len(in.units) : k = pos + 1 /\ k - 1 = pos
      BY <2>1, UnitTaken
    <3>2. PICK s \in Between : s = Along(in.units)[pos] /\ s.state \in {"fresh", "go"}
                               /\ Handed(out, buf, s.out)
      BY <2>1, <2>2, AtChunk
    <3>3. PICK u \in Units : u = Unit /\ u.unit = "end"
      BY <2>1, UnitTaken
    <3>4. UnitMeaning(s, u).state = "end" /\ UnitMeaning(s, u).out = s.out
      BY <3>2, <3>3, EndUnit
    <3>5. Along(in.units)[k] = UnitMeaning(s, u) /\ Along(in.units)[k - 1] = s
      BY <2>1, <3>1, <3>2, <3>3, UnitTaken
    <3>6. Along(in.units)[k].state = "end" /\ Along(in.units)[k].out = Along(in.units)[k - 1].out
      BY <3>4, <3>5
    <3>7. Handed(out, <<>>, Along(in.units)[k - 1].out)
      BY <2>1, <3>2, <3>5
    <3> QED
      BY <1>1, <3>6, <3>7, EndsWell
  <2> QED
    BY <2>1, <2>2, ReadsReturned
<1>4. CASE NoChunk
  <2>1. Return(in.part = "inside") /\ pos = Len(in.units) /\ pc = "chunk" /\ buf = <<>>
    BY <1>4 DEF NoChunk, Missing, DecodeChunk
  <2>2. ASSUME Understood(in.units)
        PROVE  Ended(Along(in.units)[Len(in.units)], out, in.part = "inside", in.part)
    <3>1. PICK z : z = Along(in.units)[Len(in.units)]
      OBVIOUS
    <3>2. z.state \in {"fresh", "go"} /\ Handed(out, <<>>, z.out)
      BY <2>1, <2>2, <3>1, AtChunk
    <3>3. out = z.out /\ out \in Bytes /\ Extends(out, z.out) /\ ~(z.state = "end")
      <4>1. out = z.out /\ out \in Bytes
        BY <3>2, HandedAll DEF Handed
      <4> QED
        BY <3>2, <4>1, ExtendsSelf
    <3>4. in.part = "inside" => in.part = "inside"
      OBVIOUS
    <3>5. Ended(z, out, in.part = "inside", in.part)
      BY <3>3, <3>4, Zenon DEF Ended
    <3> QED
      BY <3>1, <3>5, Zenon
  <2> QED
    BY <2>1, <2>2, ReadsReturned, Zenon
<1> QED
  BY <1>2, <1>3, <1>4

LEMMA ReadsRaw ==
  ASSUME DictSize \in Nat \ {0}, Typed, Reads, ReadUncompressed
  PROVE  Reads'
<1>1. PICK x : x = PutBytes([dec |-> IF Unit.reset \/ dec = NoDec THEN NewDec(DictSize)
                                          ELSE dec, buf |-> <<>>], Unit.data)
  OBVIOUS
<1>2. /\ pc = "chunk" /\ buf = <<>> /\ Has("raw") /\ dec' = x.dec /\ buf' = x.buf
      /\ pc' = "chunk" /\ in' = in /\ pos' = pos + 1 /\ out' = out
  BY <1>1 DEF ReadUncompressed, DecodeChunk, Advance, Stream
<1>3. ASSUME Understood(in.units)
      PROVE  Chunked(Along(in.units)[pos'], out', buf', dec')
  <2>1. PICK s \in Between : s = Along(in.units)[pos] /\ s.state \in {"fresh", "go"}
                             /\ Chunked(s, out, buf, dec)
    BY <1>2, <1>3, AtChunk
  <2>2. PICK u \in Units : u = Unit /\ u.unit = "raw"
    BY <1>2, UnitTaken
  <2>3. Chunked(s, out, <<>>, dec)
    BY <1>2, <2>1
  <2>4. LET y == PutBytes([dec |-> IF u.reset \/ dec = NoDec THEN NewDec(DictSize) ELSE dec,
                              buf |-> <<>>], u.data)
        IN Chunked(UnitMeaning(s, u), out, y.buf, y.dec)
    BY <2>1, <2>2, <2>3, RawStep
  <2>5. Chunked(UnitMeaning(s, u), out, x.buf, x.dec)
    BY <1>1, <2>2, <2>4, Zenon
  <2>6. Along(in.units)[pos + 1] = UnitMeaning(s, u)
    BY <1>2, <2>1, <2>2, UnitTaken
  <2> QED
    BY <1>2, <2>5, <2>6
<1> QED
  BY <1>2, <1>3, ReadsChunk

LEMMA ReadsLzma ==
  ASSUME DictSize \in Nat \ {0}, Typed, Reads, ReadLzma
  PROVE  Reads'
<1>1. pc = "chunk" /\ buf = <<>> /\ Has("lzma") /\ in.units \in Seq(Units)
  <2>1. pc = "chunk" /\ buf = <<>> /\ Has("lzma")
    BY DEF ReadLzma, DecodeChunk
  <2> QED
    BY <2>1 DEF Typed, Headed
<1>2. PICK u \in Units : u = Unit /\ u.unit = "lzma"
  BY <1>1, UnitTaken
<1>3. ASSUME Understood(in.units)
      PROVE  u.control \in {"none", "all"}
  <2>1. pos + 1 \in 1..Len(in.units) /\ in.units[pos + 1] = u
    BY <1>1, <1>2, UnitTaken DEF Unit
  <2>2. DOMAIN in.units = 1..Len(in.units)
    BY <1>1
  <2> QED
    BY <1>2, <1>3, <2>1, <2>2 DEF Understood
<1>4. Resets <=> u.control \in {"props", "all"}
  BY <1>2 DEF Resets
<1>5. CASE Unit.ok /\ (Resets \/ dec # NoDec)
  <2>1. /\ pc' = "decode" /\ in' = in /\ pos' = pos + 1 /\ out' = out /\ buf' = <<>>
        /\ dec' = ChunkDec /\ ops' = u.ops /\ limit' = u.size
    BY <1>1, <1>2, <1>5 DEF ReadLzma, Advance, Stream
  <2>2. ASSUME Understood(in.units)
        PROVE  /\ pos' # 0 /\ limit' = in.units[pos'].size
               /\ \E j \in Nat : InChunk(Along(in.units)[pos' - 1], in.units[pos'], j,
                                         out', buf', dec', ops')
    <3>1. PICK s \in Between : s = Along(in.units)[pos] /\ s.state \in {"fresh", "go"}
                               /\ Chunked(s, out, buf, dec)
      BY <1>1, <2>2, AtChunk
    <3>2. Chunked(s, out, <<>>, dec)
      BY <1>1, <3>1
    <3>3. u.control \in {"none", "all"}
      BY <1>3, <2>2
    <3>4. ~(s.state = "fresh" /\ u.control = "none")
      <4>1. ASSUME s.state = "fresh", u.control = "none"
            PROVE  FALSE
        <5>1. dec # NoDec
          BY <1>4, <1>5, <4>1
        <5>2. s.state = "go"
          BY <3>2, <5>1 DEF Chunked
        <5> QED
          BY <4>1, <5>2
      <4> QED
        BY <4>1
    <3>5. u.ok
      BY <1>2, <1>5
    <3>6. Opens(s, u)
      BY <1>2, <3>1, <3>3, <3>4, <3>5 DEF Opens
    <3>7. InChunk(s, u, 0, out, <<>>, IF u.control = "all" THEN NewDec(DictSize) ELSE dec, u.ops)
      BY <3>2, <3>6, ChunkOpened
    <3>8. ChunkDec = IF u.control = "all" THEN NewDec(DictSize) ELSE dec
      BY <1>4, <3>3 DEF ChunkDec
    <3>9. InChunk(s, u, 0, out', buf', dec', ops')
      BY <2>1, <3>7, <3>8
    <3>10. pos \in Nat /\ pos + 1 # 0 /\ (pos + 1) - 1 = pos
      <4>1. pos \in 0..Len(in.units)
        BY DEF Typed
      <4> QED
        BY <4>1
    <3>11. in.units[pos + 1] = u
      BY <1>2 DEF Unit
    <3>12. InChunk(Along(in.units)[pos' - 1], in.units[pos'], 0, out', buf', dec', ops')
      BY <2>1, <3>1, <3>9, <3>10, <3>11, Zenon
    <3> QED
      BY <2>1, <3>10, <3>11, <3>12
  <2> QED
    BY <2>1, <2>2, ReadsDecode
<1>6. CASE ~(Unit.ok /\ (Resets \/ dec # NoDec))
  <2>1. Return(TRUE)
    BY <1>6 DEF ReadLzma
  <2>2. ASSUME Understood(in.units)
        PROVE  Ended(Along(in.units)[Len(in.units)], out, TRUE, in.part)
    <3>1. PICK k \in 1..Len(in.units) : k = pos + 1 /\ k - 1 = pos
      BY <1>1, UnitTaken
    <3>2. PICK s \in Between : s = Along(in.units)[pos] /\ s.state \in {"fresh", "go"}
                               /\ Chunked(s, out, buf, dec)
      BY <1>1, <2>2, AtChunk
    <3>3. ~u.ok \/ (s.state = "fresh" /\ u.control = "none")
      <4>1. ASSUME u.ok
            PROVE  s.state = "fresh" /\ u.control = "none"
        <5>1. u.control \notin {"props", "all"} /\ dec = NoDec
          BY <1>2, <1>4, <1>6, <4>1
        <5>2. s = Fresh
          BY <3>2, <5>1 DEF Chunked
        <5> QED
          BY <1>3, <2>2, <5>1, <5>2, FreshIs
      <4> QED
        BY <4>1
    <3>4. UnitMeaning(s, u).state = "bad"
      BY <1>2, <3>2, <3>3, ChunkRefused
    <3>5. Along(in.units)[k] = UnitMeaning(s, u) /\ Along(in.units)[k - 1] = s
      BY <1>1, <1>2, <3>1, <3>2, UnitTaken
    <3>6. Along(in.units)[k].state = "bad" /\ Handed(out, buf, Along(in.units)[k - 1].out)
      BY <3>2, <3>4, <3>5 DEF Chunked
    <3> QED
      BY <1>1, <3>6, EndsBadly
  <2> QED
    BY <2>1, <2>2, ReadsReturned
<1> QED
  BY <1>5, <1>6

LEMMA ReadsLost ==
  ASSUME Typed, Reads, Misunderstand
  PROVE  Reads'
<1>1. Has("lzma") /\ Misunderstood /\ pc' = "done" /\ in' = in
  BY DEF Misunderstand, Stream
<1>2. ~Understood(in.units)
  <2>1. /\ in.units \in Seq(Units) /\ pos + 1 \in 1..Len(in.units)
        /\ Unit.unit = "lzma" /\ Unit = in.units[pos + 1]
    BY <1>1, UnitTaken DEF Unit
  <2>2. pos + 1 \in DOMAIN in.units
    BY <2>1
  <2>3. ~(Unit.control = "none" \/ (Unit.control = "all" /\ Unit.props # "bad"))
    BY <1>1 DEF Misunderstood, Resets
  <2> QED
    BY <2>1, <2>2, <2>3 DEF Understood
<1> QED
  BY <1>1, <1>2, ReadsDone

(* The state along the meaning in a chunk. *)
LEMMA AtDecode ==
  ASSUME Typed, Reads, pc = "decode", Understood(in.units)
  PROVE  /\ pos \in 1..Len(in.units) /\ in.units \in Seq(Units)
         /\ \E s \in Between, u \in Units, j \in Nat :
              /\ s = Along(in.units)[pos - 1] /\ u = in.units[pos] /\ limit = u.size
              /\ Along(in.units)[pos] = UnitMeaning(s, u)
              /\ InChunk(s, u, j, out, buf, dec, ops)
<1>1. in.units \in Seq(Units) /\ pos \in 0..Len(in.units)
  BY DEF Typed, Headed
<1>2. /\ pos # 0 /\ limit = in.units[pos].size
      /\ \E j \in Nat : InChunk(Along(in.units)[pos - 1], in.units[pos], j, out, buf, dec, ops)
  BY DEF Reads
<1>3. pos \in 1..Len(in.units) /\ in.units[pos] \in Units
  <2>1. pos \in 1..Len(in.units)
    BY <1>1, <1>2
  <2> QED
    BY <1>1, <2>1
<1>4. Along(in.units)[pos] = UnitMeaning(Along(in.units)[pos - 1], in.units[pos])
      /\ Along(in.units)[pos - 1] \in Between
  BY <1>1, <1>3, AlongNext
<1> QED
  BY <1>1, <1>2, <1>3, <1>4

(* A chunk cannot be decoded to its end. *)
LEMMA ChunkFails ==
  ASSUME Typed, Reads, pc = "decode", Understood(in.units),
         \A s \in Between, u \in Units, j \in Nat :
           s = Along(in.units)[pos - 1] /\ u = in.units[pos] /\ limit = u.size
             /\ InChunk(s, u, j, out, buf, dec, ops) => UnitMeaning(s, u).state = "bad",
         NEW e
  PROVE  Ended(Along(in.units)[Len(in.units)], out, e, in.part)
<1>1. pos \in 1..Len(in.units) /\ in.units \in Seq(Units)
  BY AtDecode
<1>2. PICK s \in Between, u \in Units, j \in Nat :
              /\ s = Along(in.units)[pos - 1] /\ u = in.units[pos] /\ limit = u.size
              /\ Along(in.units)[pos] = UnitMeaning(s, u)
              /\ InChunk(s, u, j, out, buf, dec, ops)
  BY AtDecode
<1>3. Along(in.units)[pos].state = "bad"
  BY <1>2
<1>4. Handed(out, <<>>, s.out)
  <2>1. out = s.out /\ s.out \in Seq(Byte)
    BY <1>2 DEF InChunk, Between, Meanings, Bytes
  <2>2. s.out \o <<>> = s.out /\ <<>> \in Seq(Byte)
    BY <2>1
  <2> QED
    BY <2>1, <2>2 DEF Handed, Bytes
<1>5. Handed(out, <<>>, Along(in.units)[pos - 1].out)
  BY <1>2, <1>4
<1> QED
  BY <1>1, <1>3, <1>5, EndsBadly

LEMMA ReadsChunkEnd ==
  ASSUME Typed, Reads, Enough \/ EndMarker \/ RunsOut
  PROVE  Reads'
<1>1. CASE Enough \/ EndMarker
  <2>1. /\ pc = "decode" /\ pc' = "chunk" /\ in' = in /\ pos' = pos /\ dec' = dec /\ buf' = buf
        /\ out' = out
    BY <1>1 DEF Enough, EndMarker, EndChunk, Op, Decoding, Stream
  <2>2. \/ Len(buf) >= limit
        \/ Len(buf) < limit /\ ops # <<>> /\ Head(ops).op = "eos"
    BY <1>1 DEF Enough, EndMarker, EndChunk, Op, Decoding
  <2>3. ASSUME Understood(in.units)
        PROVE  Chunked(Along(in.units)[pos'], out', buf', dec')
    <3>1. PICK s \in Between, u \in Units, j \in Nat :
              /\ s = Along(in.units)[pos - 1] /\ u = in.units[pos] /\ limit = u.size
              /\ Along(in.units)[pos] = UnitMeaning(s, u)
              /\ InChunk(s, u, j, out, buf, dec, ops)
      BY <2>1, <2>3, AtDecode
    <3>2. CASE Len(buf) >= limit
      <4>1. Len(buf) >= u.size /\ InChunk(s, u, j, out, buf, dec, ops)
        BY <3>1, <3>2
      <4>2. Chunked(UnitMeaning(s, u), out, buf, dec)
        BY <4>1, ChunkDone
      <4> QED
        BY <2>1, <3>1, <4>2
    <3>3. CASE Len(buf) < limit /\ ops # <<>> /\ Head(ops).op = "eos"
      <4>1. Len(buf) < u.size /\ ops # <<>> /\ Head(ops).op = "eos"
            /\ InChunk(s, u, j, out, buf, dec, ops)
        BY <3>1, <3>3
      <4>2. Chunked(UnitMeaning(s, u), out, buf, dec)
        BY <4>1, ChunkMarked
      <4> QED
        BY <2>1, <3>1, <4>2
    <3> QED
      BY <2>2, <3>2, <3>3
  <2> QED
    BY <2>1, <2>3, ReadsChunk
<1>2. CASE RunsOut
  <2>1. Return(FALSE) /\ pc = "decode" /\ Len(buf) < limit /\ ops = <<>>
    BY <1>2 DEF RunsOut, Decoding
  <2>2. ASSUME NEW s \in Between, NEW u \in Units, NEW j \in Nat,
               limit = u.size, InChunk(s, u, j, out, buf, dec, ops)
        PROVE  UnitMeaning(s, u).state = "bad"
    <3>1. InChunk(s, u, j, out, buf, dec, <<>>) /\ Len(buf) < u.size
      BY <2>1, <2>2
    <3> QED
      BY <3>1, ChunkShort
  <2>3. ASSUME Understood(in.units)
        PROVE  Ended(Along(in.units)[Len(in.units)], out, FALSE, in.part)
    BY <2>1, <2>2, <2>3, ChunkFails
  <2> QED
    BY <2>1, <2>3, ReadsReturned
<1> QED
  BY <1>1, <1>2

(* An operation goes well. *)
LEMMA OperationRead ==
  ASSUME Typed, Reads, NEW name, Op(name), NEW x, Decoded(x),
         \A s \in Between, u \in Units, j \in Nat :
           InChunk(s, u, j, out, buf, dec, ops) =>
             /\ Moved(DictSize, out, x, Operated(OpsAlong(s, u)[j], Head(ops)))
             /\ Operated(OpsAlong(s, u)[j], Head(ops)).state = OpsAlong(s, u)[j].state
  PROVE  Reads'
<1>1. /\ pc = "decode" /\ Len(buf) < limit /\ ops # <<>>
      /\ dec' = x.dec /\ buf' = x.buf /\ ops' = Tail(ops)
      /\ in' = in /\ pc' = pc /\ pos' = pos /\ limit' = limit /\ out' = out
  BY DEF Decoded, Stream, Op, Decoding
<1>2. ASSUME Understood(in.units)
      PROVE  /\ pos' # 0 /\ limit' = in.units[pos'].size
             /\ \E j \in Nat : InChunk(Along(in.units)[pos' - 1], in.units[pos'], j,
                                       out', buf', dec', ops')
  <2>1. pos # 0
    BY <1>1, <1>2 DEF Reads
  <2>2. PICK s \in Between, u \in Units, j \in Nat :
              /\ s = Along(in.units)[pos - 1] /\ u = in.units[pos] /\ limit = u.size
              /\ InChunk(s, u, j, out, buf, dec, ops)
    BY <1>1, <1>2, AtDecode
  <2>3. /\ Moved(DictSize, out, x, Operated(OpsAlong(s, u)[j], Head(ops)))
        /\ Operated(OpsAlong(s, u)[j], Head(ops)).state = OpsAlong(s, u)[j].state
    BY <2>2
  <2>4. Len(buf) < u.size /\ ops # <<>> /\ InChunk(s, u, j, out, buf, dec, ops)
    BY <1>1, <2>2
  <2>0. Moved(DictSize, out, x, Operated(OpsAlong(s, u)[j], Head(ops))) /\ GoesWell(OpsAlong(s, u)[j], Head(ops))
    BY <2>3 DEF GoesWell
  <2>5. InChunk(s, u, j + 1, out, x.buf, x.dec, Tail(ops)) /\ j + 1 \in Nat
    BY <2>0, <2>4, ChunkOn
  <2>6. InChunk(Along(in.units)[pos' - 1], in.units[pos'], j + 1, out', buf', dec', ops')
    BY <1>1, <2>2, <2>5
  <2>7. limit' = in.units[pos'].size /\ pos' # 0
    BY <1>1, <2>1, <2>2
  <2> QED
    BY <2>5, <2>6, <2>7
<1> QED
  BY <1>1, <1>2, ReadsDecode

(* An operation's distance is refused. *)
LEMMA OperationRefused ==
  ASSUME Typed, Reads, NEW name, Op(name), Return(TRUE),
         \A s \in Between, u \in Units, j \in Nat :
           InChunk(s, u, j, out, buf, dec, ops) =>
             Turned(DictSize, OpsAlong(s, u)[j], Operated(OpsAlong(s, u)[j], Head(ops)), "bad")
  PROVE  Reads'
<1>1. pc = "decode" /\ Len(buf) < limit /\ ops # <<>>
  BY DEF Op, Decoding
<1>2. ASSUME NEW s \in Between, NEW u \in Units, NEW j \in Nat,
             limit = u.size, InChunk(s, u, j, out, buf, dec, ops)
      PROVE  UnitMeaning(s, u).state = "bad"
  <2>1. Operated(OpsAlong(s, u)[j], Head(ops)).state = "bad"
    BY <1>2 DEF Turned
  <2>2. Len(buf) < u.size
    BY <1>1, <1>2
  <2> QED
    BY <1>1, <1>2, <2>1, <2>2, ChunkBad
<1>3. ASSUME Understood(in.units)
      PROVE  Ended(Along(in.units)[Len(in.units)], out, TRUE, in.part)
  BY <1>1, <1>2, <1>3, ChunkFails
<1> QED
  BY <1>3, ReadsReturned

LEMMA ReadsLiteral ==
  ASSUME DictSize \in Nat \ {0}, Typed, Reads, Literal
  PROVE  Reads'
<1>1. PICK x : x = PutBytes([dec |-> dec, buf |-> buf], <<Head(ops).byte>>)
  OBVIOUS
<1>2. Op("literal") /\ Decoded(x)
  BY <1>1 DEF Literal, State
<1>3. PICK p \in Operations : p = Head(ops) /\ p.op = "literal"
  BY <1>2, NextOp
<1>4. ASSUME NEW s \in Between, NEW u \in Units, NEW j \in Nat,
             InChunk(s, u, j, out, buf, dec, ops)
      PROVE  /\ Moved(DictSize, out, x, Operated(OpsAlong(s, u)[j], Head(ops)))
             /\ Operated(OpsAlong(s, u)[j], Head(ops)).state = OpsAlong(s, u)[j].state
  <2>1. PICK r \in Meanings(DictSize) : r = OpsAlong(s, u)[j] /\ Follows(DictSize, dec, r) /\ Handed(out, buf, r.out)
    BY <1>4, InChunkIs
  <2>2. Moved(DictSize, out, PutBytes([dec |-> dec, buf |-> buf], <<p.byte>>), Operated(r, p))
        /\ Operated(r, p).state = r.state
    BY <1>3, <2>1, LiteralStep
  <2> QED
    BY <1>1, <1>3, <2>1, <2>2, Zenon
<1> QED
  BY <1>2, <1>4, OperationRead

LEMMA ReadsMatch ==
  ASSUME DictSize \in Nat \ {0}, Typed, Reads, Match
  PROVE  Reads'
<1>1. PICK e : e = [dec EXCEPT !.reps = <<Head(ops).dist, @[1], @[2], @[3]>>]
  OBVIOUS
<1>2. PICK x : x = CopyMatch([dec |-> e, buf |-> buf], Head(ops).dist, Head(ops).len)
  OBVIOUS
<1>3. \A f : [[dec |-> dec, buf |-> buf] EXCEPT !.dec = f] = [dec |-> f, buf |-> buf]
  OBVIOUS
<1>4. /\ Op("match")
      /\ IF Invalid(dec, Head(ops).dist) THEN Return(TRUE) ELSE Decoded(x)
  BY <1>1, <1>2, <1>3, Zenon DEF Match, State
<1>5. PICK p \in Operations : p = Head(ops) /\ p.op = "match"
  BY <1>4, NextOp
<1>6. ASSUME NEW s \in Between, NEW u \in Units, NEW j \in Nat,
             InChunk(s, u, j, out, buf, dec, ops)
      PROVE  IF Invalid(dec, Head(ops).dist)
               THEN Turned(DictSize, OpsAlong(s, u)[j], Operated(OpsAlong(s, u)[j], Head(ops)), "bad")
               ELSE /\ Moved(DictSize, out, x, Operated(OpsAlong(s, u)[j], Head(ops)))
                    /\ Operated(OpsAlong(s, u)[j], Head(ops)).state = OpsAlong(s, u)[j].state
  <2>1. PICK r \in Meanings(DictSize) : r = OpsAlong(s, u)[j] /\ Follows(DictSize, dec, r) /\ Handed(out, buf, r.out)
    BY <1>6, InChunkIs
  <2>2. e = [dec EXCEPT !.reps = <<p.dist, @[1], @[2], @[3]>>]
    BY <1>1, <1>5
  <2>3. Copied(DictSize, r, dec, out, p, p.dist, x)
    BY <1>2, <1>5, <2>1, <2>2, MatchStep, Zenon
  <2> QED
    BY <1>5, <2>1, <2>3, Zenon DEF Copied
<1>7. CASE Invalid(dec, Head(ops).dist)
  BY <1>4, <1>6, <1>7, OperationRefused
<1>8. CASE ~Invalid(dec, Head(ops).dist)
  BY <1>4, <1>6, <1>8, OperationRead
<1> QED
  BY <1>7, <1>8

LEMMA ReadsRep ==
  ASSUME DictSize \in Nat \ {0}, Typed, Reads, Rep
  PROVE  Reads'
<1>1. PICK e : e = [dec EXCEPT !.reps = Reused(@, Head(ops).i)]
  OBVIOUS
<1>2. PICK x : x = CopyMatch([dec |-> e, buf |-> buf], e.reps[1], Head(ops).len)
  OBVIOUS
<1>3. \A f : [[dec |-> dec, buf |-> buf] EXCEPT !.dec = f] = [dec |-> f, buf |-> buf]
  OBVIOUS
<1>4. /\ Op("rep")
      /\ IF Invalid(dec, e.reps[1]) THEN Return(TRUE) ELSE Decoded(x)
  BY <1>1, <1>2, <1>3, Zenon DEF Rep, State
<1>5. PICK p \in Operations : p = Head(ops) /\ p.op = "rep"
  BY <1>4, NextOp
<1>6. ASSUME NEW s \in Between, NEW u \in Units, NEW j \in Nat,
             InChunk(s, u, j, out, buf, dec, ops)
      PROVE  IF Invalid(dec, e.reps[1])
               THEN Turned(DictSize, OpsAlong(s, u)[j], Operated(OpsAlong(s, u)[j], Head(ops)), "bad")
               ELSE /\ Moved(DictSize, out, x, Operated(OpsAlong(s, u)[j], Head(ops)))
                    /\ Operated(OpsAlong(s, u)[j], Head(ops)).state = OpsAlong(s, u)[j].state
  <2>1. PICK r \in Meanings(DictSize) : r = OpsAlong(s, u)[j] /\ Follows(DictSize, dec, r) /\ Handed(out, buf, r.out)
    BY <1>6, InChunkIs
  <2>2. e = [dec EXCEPT !.reps = Reused(@, p.i)]
    BY <1>1, <1>5
  <2>3. Copied(DictSize, r, dec, out, p, e.reps[1], x)
    BY <1>2, <1>5, <2>1, <2>2, RepStep, Zenon
  <2> QED
    BY <1>5, <2>1, <2>3, Zenon DEF Copied
<1>7. CASE Invalid(dec, e.reps[1])
  BY <1>4, <1>6, <1>7, OperationRefused
<1>8. CASE ~Invalid(dec, e.reps[1])
  BY <1>4, <1>6, <1>8, OperationRead
<1> QED
  BY <1>7, <1>8

LEMMA ReadsNext ==
  ASSUME XzAssumption, Typed, Typed', Reads, Next
  PROVE  Reads'
<1>1. DictSize \in Nat \ {0}
  BY DEF XzAssumption
<1>2. CASE pc = "done" /\ UNCHANGED vars
  <2>1. pc' = "done" /\ in' = in /\ out' = out
    BY <1>2 DEF vars
  <2>2. err' = err
    BY <1>2, Zenon DEF vars
  <2>3. Understood(in.units) => Ended(Along(in.units)[Len(in.units)], out, err, in.part)
    BY <1>2 DEF Reads
  <2>4. Understood(in.units) => Ended(Along(in.units)[Len(in.units)], out', err', in.part)
    BY <2>1, <2>2, <2>3, Zenon
  <2> QED
    BY <2>1, <2>4, ReadsDone
<1>3. CASE Compress \/ Deliver \/ ReadHeader \/ ReadBlockHeader \/ SkipIndex \/ NoBlock
  BY <1>3, ReadsDeliver, ReadsHeader, ReadsBlock
<1>4. CASE Read \/ EndBlock \/ NoChunk \/ ReadUncompressed \/ ReadLzma \/ Misunderstand
  BY <1>1, <1>4, ReadsEnd, ReadsRaw, ReadsLzma, ReadsLost
<1>5. CASE Enough \/ EndMarker \/ RunsOut \/ Literal \/ Match \/ Rep
  BY <1>1, <1>5, ReadsChunkEnd, ReadsLiteral, ReadsMatch, ReadsRep
<1> QED
  BY <1>2, <1>3, <1>4, <1>5 DEF Next

-----------------------------------------------------------------------------
(* What is stored means the data. *)

LEMMA RawMeans ==
  ASSUME NEW s \in Between, s.state \in {"fresh", "go"},
         NEW u \in Units, u.unit = "raw"
  PROVE  UnitMeaning(s, u).state = "go" /\ UnitMeaning(s, u).out = s.out \o u.data
<1>1. PICK w \in Bytes : w = u.data
  BY UnitIs
<1>2. PICK f : f = IF u.reset THEN Forget(s) ELSE s
  OBVIOUS
<1>3. s \in Meanings(DictSize)
  BY DEF Between
<1>4. f \in Meanings(DictSize) /\ f.out = s.out
  BY <1>2, <1>3, ForgetIs
<1>5. PICK g : g = Extended(f, w)
  OBVIOUS
<1>6. g \in Meanings(DictSize) /\ g.out = s.out \o w
  <2>1. Gained(DictSize, f, w, f.reps, g)
    BY <1>1, <1>4, <1>5, ExtendedSame, Zenon
  <2> QED
    BY <1>4, <2>1 DEF Gained
<1>7. PICK z : z = Go(g)
  OBVIOUS
<1>8. Turned(DictSize, g, z, "go")
  BY <1>6, <1>7, TurnedIs DEF Go
<1>9. UnitMeaning(s, u) = z
  BY <1>1, <1>2, <1>5, <1>7 DEF UnitMeaning
<1> QED
  BY <1>1, <1>6, <1>8, <1>9 DEF Turned

LEMMA HeadMeans ==
  ASSUME NEW u, u.unit \in {"header", "block"}, u.ok
  PROVE  UnitMeaning(Fresh, u) = Fresh
BY FreshIs DEF UnitMeaning

LEMMA TimesGrows ==
  ASSUME NEW a \in Nat, NEW b \in Nat, a <= b, NEW c \in Nat
  PROVE  a * c <= b * c
<1>1. PICK d \in Nat : b = a + d
  <2>1. b - a \in Nat /\ b = a + (b - a)
    OBVIOUS
  <2> QED
    BY <2>1
<1>2. b * c = a * c + d * c
  BY <1>1
<1>3. d * c \in Nat /\ a * c \in Nat
  OBVIOUS
<1> QED
  BY <1>2, <1>3

(* So many chunks are what the data takes. *)
LEMMA ChunksTaken ==
  ASSUME NEW len \in Nat \ {0}, NEW max \in Nat \ {0}
  PROVE  LET n == (len + max - 1) \div max
         IN n \in Nat \ {0} /\ (n - 1) * max < len /\ n * max >= len
<1> DEFINE x == len + max - 1
           n == x \div max
           r == x % max
<1>1. x \in Nat /\ n \in Nat /\ r \in 0..max - 1 /\ x = n * max + r
  OBVIOUS
<1> HIDE DEF n, r
<1>2. n # 0
  <2>1. n = 0 => n * max = 0
    OBVIOUS
  <2> QED
    BY <1>1, <2>1
<1>3. n * max \in Nat
  BY <1>1
<1>4. (n - 1) * max = n * max - max
  BY <1>1
<1> QED
  BY <1>1, <1>2, <1>3, <1>4 DEF n

LEMMA PartJoined ==
  ASSUME NEW v \in Bytes, NEW a \in Nat, NEW b \in Nat, a <= b, b <= Len(v)
  PROVE  SubSeq(v, 1, a) \o SubSeq(v, a + 1, b) = SubSeq(v, 1, b)
BY DEF Bytes

(* Chunk k and those before it. *)
LEMMA ChunkStored ==
  ASSUME MaxChunk \in Nat \ {0}, NEW data \in Bytes, data # <<>>,
         NEW k \in 1..(Len(data) + MaxChunk - 1) \div MaxChunk
  PROVE  LET a == (k - 1) * MaxChunk
             b == Lesser(k * MaxChunk, Len(data))
         IN /\ Chunks(data)[k] = Raw(k = 1, SubSeq(data, a + 1, b))
            /\ a = Lesser((k - 1) * MaxChunk, Len(data))
            /\ SubSeq(data, 1, a) \o SubSeq(data, a + 1, b) = SubSeq(data, 1, b)
            /\ k = (Len(data) + MaxChunk - 1) \div MaxChunk => b = Len(data)
<1>1. PICK n \in Nat : n = (Len(data) + MaxChunk - 1) \div MaxChunk
  BY StoredIsStream
<1>2. Len(data) \in Nat \ {0}
  BY EmptySeq DEF Bytes
<1>3. (n - 1) * MaxChunk < Len(data) /\ n * MaxChunk >= Len(data) /\ n # 0
  BY <1>1, <1>2, ChunksTaken
<1>4. k \in 1..n /\ k - 1 \in Nat /\ n - 1 \in Nat /\ k - 1 <= n - 1 /\ k \in Nat
  BY <1>1
<1>5. (k - 1) * MaxChunk <= (n - 1) * MaxChunk
  BY <1>4, TimesGrows
<1>6. PICK a \in Nat : a = (k - 1) * MaxChunk
  BY <1>4
<1>7. PICK c \in Nat : c = k * MaxChunk
  BY <1>4
<1>8. a < Len(data)
  <2>1. (n - 1) * MaxChunk \in Nat
    BY <1>4
  <2> QED
    BY <1>2, <1>3, <1>5, <1>6, <2>1
<1>9. a <= c
  <2>1. k - 1 <= k
    BY <1>4
  <2> QED
    BY <1>4, <1>6, <1>7, <2>1, TimesGrows
<1>10. PICK b \in Nat : b = Lesser(c, Len(data)) /\ a <= b /\ b <= Len(data)
  BY <1>2, <1>8, <1>9 DEF Lesser
<1>11. SubSeq(data, 1, a) \o SubSeq(data, a + 1, b) = SubSeq(data, 1, b)
  BY <1>10, PartJoined
<1>12. a = Lesser(a, Len(data))
  BY <1>8 DEF Lesser
<1>13. k = n => b = Len(data)
  <2>1. k = n => c >= Len(data)
    BY <1>3, <1>7
  <2> QED
    BY <1>2, <1>10, <2>1 DEF Lesser
<1>14. Chunks(data)[k] = Raw(k = 1, SubSeq(data, a + 1, b))
  <2>1. Chunks(data)[k] =
          Raw(k = 1, SubSeq(data, ((k - 1) * MaxChunk) + 1, Lesser(k * MaxChunk, Len(data))))
    BY DEF Chunks
  <2> QED
    BY <1>6, <1>7, <1>10, <2>1
<1> QED
  BY <1>1, <1>6, <1>7, <1>10, <1>11, <1>12, <1>13, <1>14, Zenon

(* Where the units of a stored stream are. *)
LEMMA StoredUnits ==
  ASSUME MaxChunk \in Nat \ {0}, NEW data \in Bytes, data # <<>>,
         NEW n \in Nat, n = (Len(data) + MaxChunk - 1) \div MaxChunk
  PROVE  LET w == XzCompress(data)
         IN /\ Len(w) = n + 5 /\ w[1] = Header /\ w[2] = Block
            /\ \A k \in 1..n : w[k + 2] = Chunks(data)[k]
            /\ w[n + 3] = End /\ w[n + 4] = Check /\ w[n + 5] = Index
<1> DEFINE h == <<Header, Block>>
           c == Chunks(data)
           e == <<End, Check, Index>>
           w == XzCompress(data)
<1>1. c \in Seq(Units) /\ Len(c) = n
  BY StoredIsStream
<1>2. w = (h \o c) \o e
  BY DEF XzCompress
<1>3. /\ Header \in Units /\ Block \in Units
      /\ End \in Units /\ Check \in Units /\ Index \in Units
  BY DEF Header, Block, End, Check, Index, Units
<1>4. h \in Seq(Units) /\ Len(h) = 2 /\ h[1] = Header /\ h[2] = Block
  BY <1>3
<1>5. e \in Seq(Units) /\ Len(e) = 3 /\ e[1] = End /\ e[2] = Check /\ e[3] = Index
  BY <1>3
<1>6. h \in Seq(Units) /\ c \in Seq(Units) /\ e \in Seq(Units)
  BY <1>1, <1>4, <1>5
<1> DEFINE g == h \o c
<1> HIDE DEF h, c, e, w
<1>7. /\ g \in Seq(Units) /\ Len(g) = n + 2 /\ g[1] = Header /\ g[2] = Block
      /\ \A k \in 1..n : g[k + 2] = c[k]
  <2>1. /\ g \in Seq(Units) /\ Len(g) = Len(h) + Len(c)
        /\ \A k \in 1..Len(h) : g[k] = h[k]
        /\ \A k \in 1..Len(c) : g[Len(h) + k] = c[k]
    BY <1>6, Joined
  <2> HIDE DEF g
  <2>2. Len(g) = n + 2
    BY <1>1, <1>4, <2>1
  <2>3. g[1] = Header /\ g[2] = Block
    BY <1>4, <2>1
  <2>4. \A k \in 1..n : g[k + 2] = c[k]
    BY <1>1, <1>4, <2>1
  <2> QED
    BY <2>1, <2>2, <2>3, <2>4
<1> HIDE DEF g
<1>8. /\ Len(w) = Len(g) + Len(e)
      /\ \A k \in 1..Len(g) : w[k] = g[k]
      /\ \A k \in 1..Len(e) : w[Len(g) + k] = e[k]
  <2>1. /\ Len(g \o e) = Len(g) + Len(e)
        /\ \A k \in 1..Len(g) : (g \o e)[k] = g[k]
        /\ \A k \in 1..Len(e) : (g \o e)[Len(g) + k] = e[k]
    <3>1. g \in Seq(Units)
      BY <1>7
    <3> QED
      BY <1>6, <3>1, Joined
  <2>2. w = g \o e
    BY <1>2 DEF g
  <2> QED
    BY <2>1, <2>2, Zenon
<1>9. Len(w) = n + 5
  BY <1>5, <1>7, <1>8
<1>10. w[1] = Header /\ w[2] = Block
  BY <1>7, <1>8
<1>11. \A k \in 1..n : w[k + 2] = c[k]
  <2>1. \A k \in 1..n : k + 2 \in 1..Len(g)
    BY <1>7
  <2> QED
    BY <1>7, <1>8, <2>1
<1>12. w[n + 3] = End /\ w[n + 4] = Check /\ w[n + 5] = Index
  <2>1. w[Len(g) + 1] = End /\ w[Len(g) + 2] = Check /\ w[Len(g) + 3] = Index
    BY <1>5, <1>8
  <2>2. Len(g) + 1 = n + 3 /\ Len(g) + 2 = n + 4 /\ Len(g) + 3 = n + 5
    BY <1>7
  <2> QED
    BY <2>1, <2>2
<1> QED
  BY <1>9, <1>10, <1>11, <1>12 DEF c, w

LEMMA StoredUnderstood ==
  ASSUME MaxChunk \in Nat \ {0}, NEW data \in Bytes
  PROVE  Understood(XzCompress(data))
<1>1. CASE data = <<>>
  <2>1. XzCompress(data) = <<Header, Index>>
    BY <1>1 DEF XzCompress
  <2>2. \A k \in DOMAIN <<Header, Index>> : <<Header, Index>>[k].unit # "lzma"
    BY DEF Header, Index
  <2> QED
    BY <2>1, <2>2 DEF Understood
<1>2. CASE data # <<>>
  <2>1. PICK n \in Nat : n = (Len(data) + MaxChunk - 1) \div MaxChunk
    BY StoredIsStream
  <2>2. PICK w : w = XzCompress(data)
    OBVIOUS
  <2>3. /\ Len(w) = n + 5 /\ w[1] = Header /\ w[2] = Block
        /\ \A k \in 1..n : w[k + 2] = Chunks(data)[k]
        /\ w[n + 3] = End /\ w[n + 4] = Check /\ w[n + 5] = Index
    BY <1>2, <2>1, <2>2, StoredUnits, Zenon
  <2>4. w \in Seq(Units)
    BY <2>2, StoredIsStream DEF Headed
  <2>5. ASSUME NEW k \in 1..n + 5
        PROVE  w[k].unit # "lzma"
    <3>1. CASE k \in 1..2
      BY <2>3, <3>1 DEF Header, Block
    <3>2. CASE k \in 3..n + 2
      <4>1. k - 2 \in 1..n /\ (k - 2) + 2 = k
        BY <3>2
      <4>2. w[k] = Chunks(data)[k - 2]
        BY <2>3, <4>1
      <4>3. \E r, b : Chunks(data)[k - 2] = Raw(r, b)
        BY <2>1, <4>1 DEF Chunks
      <4> QED
        BY <4>2, <4>3 DEF Raw
    <3>3. CASE k \in n + 3..n + 5
      BY <2>3, <3>3 DEF End, Check, Index
    <3> QED
      BY <3>1, <3>2, <3>3
  <2>6. DOMAIN w = 1..n + 5
    BY <2>3, <2>4
  <2>7. \A k \in DOMAIN w : w[k].unit # "lzma"
    BY <2>5, <2>6
  <2> QED
    BY <2>2, <2>7 DEF Understood
<1> QED
  BY <1>1, <1>2

(* XzCompress: the stream that it writes means the data. *)
LEMMA StoredMeans ==
  ASSUME MaxChunk \in Nat \ {0}, NEW data \in Bytes
  PROVE  Meaning(XzCompress(data)).state = "end" /\ Meaning(XzCompress(data)).out = data
<1>1. PICK w \in Seq(Units) : w = XzCompress(data)
  BY StoredIsStream DEF Headed
<1>2. PICK m : m = Along(w)
  OBVIOUS
<1>3. m[0] = Fresh /\ Meaning(w) = m[Len(w)]
  <2>1. 0 \in 0..Len(w)
    OBVIOUS
  <2> QED
    BY <1>2, <2>1, AlongEnds, AlongIs
<1>4. \A k \in 1..Len(w) : m[k] = UnitMeaning(m[k - 1], w[k]) /\ m[k - 1] \in Between
  BY <1>2, AlongNext
<1>5. \A k \in 0..Len(w) : m[k].state = "end" => m[Len(w)] = m[k]
  BY <1>2, AlongEnds
<1>6. \A k \in 1..Len(w) : w[k] \in Units
  OBVIOUS
<1>7. CASE data = <<>>
  <2>1. w = <<Header, Index>>
    BY <1>1, <1>7 DEF XzCompress
  <2>2. Len(w) = 2 /\ w[1] = Header /\ w[2] = Index
    BY <2>1
  <2>3. m[1] = Fresh
    <3>1. m[1] = UnitMeaning(m[0], w[1])
      BY <1>4, <2>2
    <3>2. w[1].unit \in {"header", "block"} /\ w[1].ok
      BY <2>2 DEF Header
    <3> QED
      BY <1>3, <3>1, <3>2, HeadMeans
  <2>4. m[2] = UnitMeaning(Fresh, w[2]) /\ Fresh \in Between
    BY <1>4, <2>2, <2>3
  <2>5. m[2].state = "end" /\ m[2].out = Fresh.out
    <3>1. w[2] \in Units /\ w[2].unit \in {"end", "check", "index"}
      BY <1>6, <2>2 DEF Index
    <3> QED
      BY <2>4, <3>1, EndUnit, FreshIs
  <2> QED
    BY <1>1, <1>3, <1>7, <2>2, <2>5, FreshIs
<1>8. CASE data # <<>>
  <2>1. PICK n \in Nat : n = (Len(data) + MaxChunk - 1) \div MaxChunk
    BY StoredIsStream
  <2>2. /\ Len(w) = n + 5 /\ w[1] = Header /\ w[2] = Block
        /\ \A k \in 1..n : w[k + 2] = Chunks(data)[k]
        /\ w[n + 3] = End
    BY <1>1, <1>8, <2>1, StoredUnits, Zenon
  <2>3. n # 0 /\ Len(data) \in Nat \ {0}
    <3>1. Len(data) \in Nat \ {0}
      BY <1>8, EmptySeq DEF Bytes
    <3> QED
      BY <2>1, <3>1, ChunksTaken
  <2>4. m[1] = Fresh
    <3>1. m[1] = UnitMeaning(m[0], w[1])
      BY <1>4, <2>2
    <3>2. w[1].unit \in {"header", "block"} /\ w[1].ok
      BY <2>2 DEF Header
    <3> QED
      BY <1>3, <3>1, <3>2, HeadMeans
  <2>5. m[2] = Fresh
    <3>1. m[2] = UnitMeaning(m[1], w[2])
      BY <1>4, <2>2
    <3>2. w[2].unit \in {"header", "block"} /\ w[2].ok
      BY <2>2 DEF Block
    <3> QED
      BY <2>4, <3>1, <3>2, HeadMeans
  <2> DEFINE Upto(k) == SubSeq(data, 1, Lesser(k * MaxChunk, Len(data)))
             Good(k) == m[k + 2].state \in {"fresh", "go"} /\ m[k + 2].out = Upto(k)
             G == {k \in 0..n : Good(k)}
  <2>6. 0 \in G
    <3>1. 0 * MaxChunk = 0 /\ Lesser(0, Len(data)) = 0
      BY <2>3 DEF Lesser
    <3>2. SubSeq(data, 1, 0) = <<>>
      BY DEF Bytes
    <3>3. Upto(0) = <<>>
      BY <3>1, <3>2
    <3> HIDE DEF Upto
    <3>4. 0 + 2 = 2 /\ 0 \in 0..n
      OBVIOUS
    <3>5. Good(0)
      BY <2>5, <3>3, <3>4, FreshIs
    <3> QED
      BY <3>4, <3>5
  <2> HIDE DEF Upto
  <2>7. ASSUME NEW k \in 1..n, k - 1 \in G
        PROVE  k \in G
    <3>1. PICK b : b = SubSeq(data, ((k - 1) * MaxChunk) + 1, Lesser(k * MaxChunk, Len(data)))
      OBVIOUS
    <3>2. Chunks(data)[k] = Raw(k = 1, b) /\ Upto(k - 1) \o b = Upto(k)
      BY <1>8, <2>1, <3>1, ChunkStored, Zenon DEF Upto
    <3>3. k + 2 \in 1..Len(w) /\ (k + 2) - 1 = (k - 1) + 2 /\ k \in 0..n
      BY <2>2
    <3>4. PICK s \in Between : s = m[(k - 1) + 2]
      BY <1>4, <3>3
    <3>5. s.state \in {"fresh", "go"} /\ s.out = Upto(k - 1)
      BY <2>7, <3>4
    <3>6. PICK u \in Units : u = w[k + 2]
      BY <1>6, <3>3
    <3>7. u.unit = "raw" /\ u.data = b
      BY <2>2, <3>2, <3>6 DEF Raw
    <3>8. m[k + 2] = UnitMeaning(s, u)
      BY <1>4, <3>3, <3>4, <3>6
    <3>9. UnitMeaning(s, u).state = "go" /\ UnitMeaning(s, u).out = s.out \o u.data
      BY <3>5, <3>7, RawMeans
    <3>10. UnitMeaning(s, u).out = Upto(k)
      BY <3>2, <3>5, <3>7, <3>9
    <3> QED
      BY <3>3, <3>8, <3>9, <3>10
  <2>8. n \in G
    <3>1. Climbs(G, n)
      BY <2>7 DEF Climbs
    <3> HIDE DEF G
    <3> QED
      BY <2>6, <3>1, Climbing
  <2>9. Upto(n) = data
    <3>1. n \in 1..(Len(data) + MaxChunk - 1) \div MaxChunk
      BY <2>1, <2>3
    <3>2. Lesser(n * MaxChunk, Len(data)) = Len(data)
      BY <1>8, <2>1, <3>1, ChunkStored, Zenon
    <3>3. SubSeq(data, 1, Len(data)) = data
      BY DEF Bytes
    <3> QED
      BY <3>2, <3>3 DEF Upto
  <2>10. m[n + 2].state \in {"fresh", "go"} /\ m[n + 2].out = data
    BY <2>8, <2>9
  <2>11. n + 3 \in 1..Len(w) /\ (n + 3) - 1 = n + 2 /\ n + 3 \in 0..Len(w)
    BY <2>2
  <2>12. m[n + 3].state = "end" /\ m[n + 3].out = data
    <3>1. PICK s \in Between : s = m[n + 2]
      BY <1>4, <2>11
    <3>2. PICK u \in Units : u = w[n + 3]
      BY <1>6, <2>11
    <3>3. u.unit = "end"
      BY <2>2, <3>2 DEF End
    <3>4. UnitMeaning(s, u).state = "end" /\ UnitMeaning(s, u).out = s.out
      BY <2>10, <3>1, <3>3, EndUnit
    <3>5. m[n + 3] = UnitMeaning(s, u)
      BY <1>4, <2>11, <3>1, <3>2
    <3> QED
      BY <2>10, <3>1, <3>4, <3>5
  <2>13. m[Len(w)] = m[n + 3]
    BY <1>5, <2>11, <2>12
  <2> QED
    BY <1>1, <1>3, <2>12, <2>13
<1> QED
  BY <1>7, <1>8

-----------------------------------------------------------------------------
(* What follows for the reader. *)

LEMMA RingTyped ==
  ASSUME DictSize \in Nat \ {0}, NEW d, Ringed(d)
  PROVE  d.dPos \in DOMAIN d.dict /\ d.dPos = d.pos % DictSize /\ Len(d.reps) = 4
<1>1. PICK h \in Bytes : Ring(DictSize, d, h)
  BY DEF Ringed
<1>2. Len(h) \in Nat
  BY DEF Bytes
<1>3. d.dPos = d.pos % DictSize /\ DOMAIN d.dict = 0..DictSize - 1 /\ d.pos \in Nat
  BY <1>1, <1>2 DEF Ring
<1>4. d.pos % DictSize \in 0..DictSize - 1
  BY <1>3
<1>5. Len(d.reps) = 4
  BY DEF Ringed, Reps
<1> QED
  BY <1>3, <1>4, <1>5

LEMMA XzTypes ==
  ASSUME XzAssumption, Typed
  PROVE  TypeOK
<1>1. DictSize \in Nat \ {0}
  BY DEF XzAssumption
<1>2. dec # NoDec => /\ dec.dPos \in DOMAIN dec.dict
                        /\ dec.dPos = dec.pos % DictSize
                        /\ Len(dec.reps) = 4
  BY <1>1, RingTyped DEF Typed
<1>3. err \in BOOLEAN
  BY Zenon DEF Typed
<1>4. /\ pc \in {"compress", "compressed", "header", "block", "chunk", "decode", "done"}
      /\ pos \in 0..Len(in.units) /\ limit \in Nat
  BY DEF Typed
<1> QED
  BY <1>2, <1>3, <1>4, Zenon DEF TypeOK

(* What has been handed out so far. *)
LEMMA OutLeads ==
  ASSUME Typed, Reads, Understood(in.units)
  PROVE  out \in Bytes /\ Extends(out, Along(in.units)[Len(in.units)].out)
<1>1. in.units \in Seq(Units) /\ pos \in 0..Len(in.units)
  BY DEF Typed, Headed
<1>2. PICK z : z = Along(in.units)[Len(in.units)]
  OBVIOUS
<1>3. CASE pc = "done"
  BY <1>3 DEF Reads, Ended
<1>4. CASE pc \in {"compress", "compressed", "header", "block"}
  <2>1. PICK s \in Meanings(DictSize) : s = Along(in.units)[pos] /\ GoesOn(DictSize, s, z)
    BY <1>1, <1>2, AlongEnds DEF Between
  <2>2. s = Fresh /\ out = <<>>
    BY <1>4, <2>1 DEF Reads, AtStart
  <2>3. Handed(out, <<>>, s.out)
    BY <2>2, HandedNothing
  <2> QED
    BY <1>2, <2>1, <2>3, HandedLeads
<1>5. CASE pc = "chunk"
  <2>1. PICK s \in Meanings(DictSize) : s = Along(in.units)[pos] /\ GoesOn(DictSize, s, z)
    BY <1>1, <1>2, AlongEnds DEF Between
  <2>2. Handed(out, buf, s.out)
    BY <1>5, <2>1, AtChunk
  <2> QED
    BY <1>2, <2>1, <2>2, HandedLeads
<1>6. CASE pc = "decode"
  <2>1. pos \in 1..Len(in.units)
    BY <1>6, AtDecode
  <2>2. pos - 1 \in 0..Len(in.units)
    BY <2>1
  <2>3. PICK s \in Meanings(DictSize) : s = Along(in.units)[pos - 1] /\ GoesOn(DictSize, s, z)
    BY <1>1, <1>2, <2>2, AlongEnds DEF Between
  <2>4. out = s.out
    BY <1>6, <2>3, AtDecode DEF InChunk
  <2> QED
    BY <1>2, <2>3, <2>4 DEF GoesOn, Meanings
<1> QED
  BY <1>3, <1>4, <1>5, <1>6 DEF Typed

LEMMA XzMeant ==
  ASSUME Typed, Reads
  PROVE  ReadsItsMeaning
<1>1. ASSUME Understood(in.units)
      PROVE  IsPrefix(out, Meaning(in.units).out)
  <2>1. in.units \in Seq(Units) /\ Len(in.units) \in 0..Len(in.units)
    BY DEF Typed, Headed
  <2>2. PICK z \in Meanings(DictSize) : z = Along(in.units)[Len(in.units)]
    BY <2>1, AlongEnds DEF Between
  <2>3. Extends(out, z.out)
    BY <1>1, <2>2, OutLeads
  <2>4. out \in Bytes /\ z.out \in Bytes
    <3>1. z.out \in Bytes
      BY DEF Meanings
    <3>2. out \in Bytes
      BY <1>1, OutLeads
    <3> QED
      BY <3>1, <3>2
  <2>5. IsPrefix(out, z.out)
    BY <2>3, <2>4, ExtendsIsPrefix
  <2>6. Meaning(in.units) = z
    BY <2>1, <2>2, AlongIs
  <2> QED
    BY <2>5, <2>6
<1> QED
  BY <1>1 DEF ReadsItsMeaning

LEMMA XzEnded ==
  ASSUME Typed, Reads, pc = "done", Understood(in.units)
  PROVE  /\ Meaning(in.units).state = "end" => out = Meaning(in.units).out /\ ~err
         /\ in.part = "inside" /\ Meaning(in.units).state \in {"fresh", "go"} => err
<1>1. PICK z : z = Along(in.units)[Len(in.units)]
  OBVIOUS
<1>2. Ended(z, out, err, in.part)
  BY <1>1, Zenon DEF Reads
<1>3. Meaning(in.units) = z
  BY <1>1, AlongIs DEF Typed, Headed
<1>4. /\ z.state = "end" => out = z.out /\ ~err
      /\ in.part = "inside" /\ z.state \in {"fresh", "go"} => err
  BY <1>2, Zenon DEF Ended
<1> QED
  BY <1>3, <1>4, Zenon

LEMMA ReadsBack ==
  ASSUME XzAssumption, Typed, Reads
  PROVE  RoundTrip
<1> SUFFICES ASSUME pc = "done", in.units = XzCompress(src)
             PROVE  out = src /\ ~err
  BY Zenon DEF RoundTrip
<1>1. MaxChunk \in Nat \ {0} /\ src \in Bytes
  BY DEF XzAssumption, Typed
<1>2. Understood(in.units)
  BY <1>1, StoredUnderstood
<1>3. Meaning(in.units).state = "end" /\ Meaning(in.units).out = src
  BY <1>1, StoredMeans
<1>4. out = Meaning(in.units).out /\ ~err
  BY <1>2, <1>3, XzEnded, Zenon
<1> QED
  BY <1>3, <1>4, Zenon

(* The invariant, in BlockCodec. *)

XzInv == Typed /\ Reads

LEMMA XzBegins ==
  ASSUME XzAssumption, Init
  PROVE  XzInv
BY TypedInit, ReadsInit DEF XzInv

LEMMA XzSteps ==
  ASSUME XzAssumption, XzInv, [Next]_vars
  PROVE  XzInv'
<1>1. Typed /\ Reads
  BY DEF XzInv
<1>2. CASE Next
  BY <1>1, <1>2, TypedNext, ReadsNext DEF XzInv
<1>3. CASE UNCHANGED vars
  <2>1. /\ src' = src /\ dst' = dst /\ pc' = pc /\ in' = in /\ pos' = pos /\ dec' = dec
        /\ buf' = buf /\ ops' = ops /\ limit' = limit /\ out' = out /\ err' = err
    BY <1>3, Zenon DEF vars
  <2>2. Typed'
    BY <1>1, <2>1, Zenon DEF Typed
  <2>3. Reads'
    BY <1>1, <2>1, Zenon DEF Reads, AtStart
  <2> QED
    BY <2>2, <2>3 DEF XzInv
<1> QED
  BY <1>2, <1>3

LEMMA XzImplies ==
  ASSUME XzAssumption, XzInv
  PROVE  TypeOK /\ RoundTrip /\ ReadsItsMeaning /\ SoundIsRead /\ TornIsReported
<1>1. Typed /\ Reads
  BY DEF XzInv
<1>2. TypeOK /\ RoundTrip /\ ReadsItsMeaning
  BY <1>1, XzTypes, ReadsBack, XzMeant
<1>3. SoundIsRead /\ TornIsReported
  BY <1>1, XzEnded, Zenon DEF SoundIsRead, TornIsReported
<1> QED
  BY <1>2, <1>3

(* The reader keeps its types, and the ring's place is that of as many     *)
(* bytes as went into it (xz_decompress.go:368); what was stored is read   *)
(* back; and what is read of a stream, whole or cut, that resets nothing   *)
(* or everything and brings properties of the format, is the beginning of  *)
(* what it means (xz_decompress.go:528, 588, 668, 697).                    *)
THEOREM XzReadsItsMeaning ==
  ASSUME XzAssumption
  PROVE  Spec => [](TypeOK /\ RoundTrip /\ ReadsItsMeaning)
<1>1. XzInv => TypeOK /\ RoundTrip /\ ReadsItsMeaning
  BY XzImplies
<1>2. Init => XzInv
  BY XzBegins
<1>3. XzInv /\ [Next]_vars => XzInv'
  BY XzSteps
<1> QED
  BY <1>1, <1>2, <1>3, PTL DEF Spec

(* A stream whose first block is sound is read up to that block's end and  *)
(* without an error; one that is cut inside a read, before that, is not    *)
(* taken for a whole one (xz_decompress.go:643, 685, 721).                 *)
THEOREM XzSoundOrReported ==
  ASSUME XzAssumption
  PROVE  Spec => [](SoundIsRead /\ TornIsReported)
<1>1. XzInv => SoundIsRead /\ TornIsReported
  BY XzImplies
<1>2. Init => XzInv
  BY XzBegins
<1>3. XzInv /\ [Next]_vars => XzInv'
  BY XzSteps
<1> QED
  BY <1>1, <1>2, <1>3, PTL DEF Spec

=============================================================================
