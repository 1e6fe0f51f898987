------------------------- MODULE LzmaStream_proofs -------------------------
(***************************************************************************)
(* Proofs about LzmaStream: that a stream the format allows, of any        *)
(* header and any operations, is read to what it means, and that of one    *)
(* that is cut everything is read or nothing.                              *)
(*                                                                         *)
(* The bytes of a stream, as a number, are in every interval that the      *)
(* encoder went through (Inside); so the decoder, which narrows the same   *)
(* interval, decides as the encoder did (Reads).  The decisions are those  *)
(* of the operations, one after the other (Written); within an operation,  *)
(* each step of the decoder takes those that belong to it (Amid).  What    *)
(* operations do to the dictionary is as for xz.                           *)
(***************************************************************************)
EXTENDS LzmaStream, FiniteSetTheorems, SequenceTheorems, TLAPS

(* The dictionary, and what operations mean, are those of xz; of its       *)
(* streams nothing is said here.                                           *)
Q == INSTANCE XzStream_proofs
       WITH Inputs <- {}, Foreign <- {}, Misread <- {}, MaxChunk <- 1, DictSize <- 1,
            pos <- 0, ops <- <<>>

-----------------------------------------------------------------------------
(* Folds, as for xz: what is folded with here are six steps.               *)

FoldStep(kind, p, x, y) ==
  CASE kind = "code"     -> (256 * x) + y
    [] kind = "tree"     -> DecodeBit(x, <<p[1], p[2], p[3] + x.m>>)
    [] kind = "direct"   -> Halved(Normalized(x))
    [] kind = "literal"  -> LiteralBit(x, p[1], (p[2] \div 2^(8 - y)) % 2)
    [] kind = "reversed" -> (2 * x) + ((p \div 2^(y - 1)) % 2)
    [] kind = "op"       -> IF x.state # "go" \/ (p >= 0 /\ Len(x.out) >= p) THEN x
                              ELSE Operated(x, y)

(* f[s] is what the elements of w at the places s make of x.               *)
Folds(kind, p, x, w, n, f) ==
  f = [s \in SUBSET (1..n) |->
         IF s = {} THEN x ELSE FoldStep(kind, p, f[s \ {Max(s)}], w[Max(s)])]

LEMMA Greatest ==
  ASSUME NEW n \in Nat, NEW s \in SUBSET (1..n), n \in s
  PROVE  Max(s) = n
<1>1. \A y \in s : n >= y
  OBVIOUS
<1>2. PICK m : m = Max(s)
  OBVIOUS
<1>3. m \in s /\ \A y \in s : m >= y
  BY <1>1, <1>2 DEF Max
<1> QED
  BY <1>1, <1>2, <1>3

LEMMA FoldGrows ==
  ASSUME NEW kind, NEW p, NEW x, NEW w, NEW n \in Nat, NEW f, Folds(kind, p, x, w, n, f)
  PROVE  \E g : Folds(kind, p, x, w, n + 1, g)
<1> DEFINE g == [s \in SUBSET (1..n + 1) |->
                   IF n + 1 \in s THEN FoldStep(kind, p, f[s \ {n + 1}], w[n + 1]) ELSE f[s]]
<1>1. ASSUME NEW s \in SUBSET (1..n + 1)
      PROVE  g[s] = IF s = {} THEN x ELSE FoldStep(kind, p, g[s \ {Max(s)}], w[Max(s)])
  <2>1. CASE n + 1 \in s
    <3>1. Max(s) = n + 1
      BY <2>1, Greatest
    <3>2. s \ {n + 1} \in SUBSET (1..n + 1) /\ n + 1 \notin s \ {n + 1}
      OBVIOUS
    <3>3. g[s \ {n + 1}] = f[s \ {n + 1}]
      BY <3>2
    <3>4. g[s] = FoldStep(kind, p, f[s \ {n + 1}], w[n + 1])
      BY <2>1
    <3> HIDE DEF g
    <3> QED
      BY <2>1, <3>1, <3>3, <3>4
  <2>2. CASE n + 1 \notin s
    <3>1. s \in SUBSET (1..n)
      <4>1. ASSUME NEW y \in s
            PROVE  y \in 1..n
        BY <2>2
      <4> QED
        BY <4>1
    <3>2. s \ {Max(s)} \in SUBSET (1..n + 1) /\ n + 1 \notin s \ {Max(s)}
      BY <2>2
    <3>3. g[s \ {Max(s)}] = f[s \ {Max(s)}] /\ g[s] = f[s]
      BY <2>2, <3>2
    <3>4. f[s] = IF s = {} THEN x ELSE FoldStep(kind, p, f[s \ {Max(s)}], w[Max(s)])
      BY <3>1 DEF Folds
    <3> HIDE DEF g
    <3> QED
      BY <3>3, <3>4
  <2> QED
    BY <2>1, <2>2
<1>2. g = [s \in SUBSET (1..n + 1) |-> g[s]]
  OBVIOUS
<1> HIDE DEF g
<1>3. Folds(kind, p, x, w, n + 1, g)
  BY <1>1, <1>2 DEF Folds
<1> QED
  BY <1>3

LEMMA FoldExists ==
  ASSUME NEW kind, NEW p, NEW x, NEW w, NEW n \in Nat
  PROVE  \E f : Folds(kind, p, x, w, n, f)
<1> DEFINE Bad == {m \in Nat : ~ \E f : Folds(kind, p, x, w, m, f)}
<1>1. SUFFICES ASSUME Bad # {}
               PROVE  FALSE
  OBVIOUS
<1>2. PICK m \in Bad : \A k \in Bad : m <= k
  <2>1. Bad \subseteq Nat
    OBVIOUS
  <2> HIDE DEF Bad
  <2> QED
    BY <1>1, <2>1, Q!HasLeast
<1>3. m # 0
  <2> DEFINE f == [s \in SUBSET (1..0) |-> x]
  <2>1. ASSUME NEW s \in SUBSET (1..0)
        PROVE  s = {}
    OBVIOUS
  <2>2. Folds(kind, p, x, w, 0, f)
    BY <2>1 DEF Folds
  <2> HIDE DEF f
  <2> QED
    BY <2>2
<1>4. m - 1 \in Nat /\ m - 1 \notin Bad /\ (m - 1) + 1 = m
  BY <1>2, <1>3
<1>5. PICK f : Folds(kind, p, x, w, m - 1, f)
  BY <1>4
<1>6. \E g : Folds(kind, p, x, w, m, g)
  BY <1>4, <1>5, FoldGrows
<1> QED
  BY <1>6

(* r[k] is what the first k elements of w make of x.                       *)
Runs(kind, p, x, w, r) ==
  r[0] = x /\ \A k \in 1..Len(w) : r[k] = FoldStep(kind, p, r[k - 1], w[k])

LEMMA FoldRuns ==
  ASSUME NEW kind, NEW p, NEW x, NEW w, NEW n \in Nat, Len(w) = n,
         NEW f, Folds(kind, p, x, w, n, f)
  PROVE  \E r : Runs(kind, p, x, w, r) /\ f[1..n] = r[n]
<1> DEFINE r == [k \in 0..n |-> f[1..k]]
<1>1. ASSUME NEW k \in 1..n
      PROVE  r[k] = FoldStep(kind, p, r[k - 1], w[k])
  <2>1. 1..k \in SUBSET (1..n) /\ k \in 1..k /\ k - 1 \in 0..n /\ k \in Nat
    OBVIOUS
  <2>2. Max(1..k) = k
    BY <2>1, Greatest
  <2>3. (1..k) \ {k} = 1..k - 1 /\ 1..k # {}
    OBVIOUS
  <2>4. f[1..k] = FoldStep(kind, p, f[1..k - 1], w[k])
    BY <2>1, <2>2, <2>3 DEF Folds
  <2> QED
    BY <2>1, <2>4
<1>2. r[0] = x
  <2>1. 1..0 = {} /\ {} \in SUBSET (1..n)
    OBVIOUS
  <2> QED
    BY <2>1 DEF Folds
<1>3. r[n] = f[1..n]
  OBVIOUS
<1> HIDE DEF r
<1> QED
  BY <1>1, <1>2, <1>3 DEF Runs

(* What is folded with, and what it comes to.                              *)
LEMMA CodeRuns ==
  ASSUME NEW S, NEW w \in Seq(S)
  PROVE  \E r : Runs("code", 0, 0, w, r) /\ CodeOf(w) = r[Len(w)]
<1> DEFINE Body(f) == f = [s \in SUBSET DOMAIN w |->
                            IF s = {} THEN 0
                              ELSE (256 * f[s \ {Max(s)}]) + w[Max(s)]]
           g == CHOOSE f : Body(f)
<1>1. PICK n \in Nat : n = Len(w)
  OBVIOUS
<1>2. DOMAIN w = 1..n
  BY <1>1
<1>3. ASSUME NEW f
      PROVE  Body(f) <=> Folds("code", 0, 0, w, n, f)
  BY <1>2 DEF Folds, FoldStep
<1>4. CodeOf(w) = g[1..n]
  BY <1>2 DEF FoldLeft, MapThenFoldSet, CodeOf
<1> HIDE DEF Body
<1>5. \E f : Body(f)
  BY <1>3, FoldExists
<1>6. Folds("code", 0, 0, w, n, g)
  BY <1>3, <1>5
<1> HIDE DEF g
<1>7. \E r : Runs("code", 0, 0, w, r) /\ g[1..n] = r[n]
  BY <1>1, <1>6, FoldRuns
<1> QED
  BY <1>1, <1>4, <1>7

TreeRun(z, p, l, x, w) ==
  \E r : Runs("tree", p, x, w, r) /\ DecodeTree(z, p[1], p[2], p[3], l) = r[Len(w)]

LEMMA TreeRuns ==
  ASSUME NEW z, NEW p, NEW l, NEW S, NEW w \in Seq(S), w = Count(l), NEW x, x = [z EXCEPT !.m = 1]
  PROVE  TreeRun(z, p, l, x, w)
<1> DEFINE Body(f) == f = [s \in SUBSET DOMAIN w |->
                            IF s = {} THEN x
                              ELSE DecodeBit(f[s \ {Max(s)}], <<p[1], p[2], p[3] + f[s \ {Max(s)}].m>>)]
           g == CHOOSE f : Body(f)
<1>1. PICK n \in Nat : n = Len(w)
  OBVIOUS
<1>2. DOMAIN w = 1..n
  BY <1>1
<1>3. ASSUME NEW f
      PROVE  Body(f) <=> Folds("tree", p, x, w, n, f)
  BY <1>2 DEF Folds, FoldStep
<1>4. DecodeTree(z, p[1], p[2], p[3], l) = g[1..n]
  BY <1>2 DEF FoldLeft, MapThenFoldSet, DecodeTree
<1> HIDE DEF Body
<1>5. \E f : Body(f)
  BY <1>3, FoldExists
<1>6. Folds("tree", p, x, w, n, g)
  BY <1>3, <1>5
<1> HIDE DEF g
<1>7. \E r : Runs("tree", p, x, w, r) /\ g[1..n] = r[n]
  BY <1>1, <1>6, FoldRuns
<1> QED
  BY <1>1, <1>4, <1>7 DEF TreeRun

LEMMA DirectRuns ==
  ASSUME NEW z, NEW l, NEW S, NEW w \in Seq(S), w = Count(l), NEW x, x = [z EXCEPT !.m = 0]
  PROVE  \E r : Runs("direct", 0, x, w, r) /\ DecodeDirect(z, l) = r[Len(w)]
<1> DEFINE Body(f) == f = [s \in SUBSET DOMAIN w |->
                            IF s = {} THEN x
                              ELSE Halved(Normalized(f[s \ {Max(s)}]))]
           g == CHOOSE f : Body(f)
<1>1. PICK n \in Nat : n = Len(w)
  OBVIOUS
<1>2. DOMAIN w = 1..n
  BY <1>1
<1>3. ASSUME NEW f
      PROVE  Body(f) <=> Folds("direct", 0, x, w, n, f)
  BY <1>2 DEF Folds, FoldStep
<1>4. DecodeDirect(z, l) = g[1..n]
  BY <1>2 DEF FoldLeft, MapThenFoldSet, DecodeDirect
<1> HIDE DEF Body
<1>5. \E f : Body(f)
  BY <1>3, FoldExists
<1>6. Folds("direct", 0, x, w, n, g)
  BY <1>3, <1>5
<1> HIDE DEF g
<1>7. \E r : Runs("direct", 0, x, w, r) /\ g[1..n] = r[n]
  BY <1>1, <1>6, FoldRuns
<1> QED
  BY <1>1, <1>4, <1>7

LiteralRun(z, p, x, w) ==
  \E r : Runs("literal", p, x, w, r) /\ DecodeLiteral(z, p[1], p[2]) = r[Len(w)]

LiteralBegins(z) == [z EXCEPT !.m = 1, !.same = rc.state >= 7]

LEMMA LiteralRuns ==
  ASSUME NEW z, NEW p, NEW S, Count(8) \in Seq(S)
  PROVE  LiteralRun(z, p, LiteralBegins(z), Count(8))
<1>0. PICK w \in Seq(S) : w = Count(8)
  OBVIOUS
<1>9. PICK x : x = LiteralBegins(z)
  OBVIOUS
<1> DEFINE Body(f) == f = [s \in SUBSET DOMAIN w |->
                            IF s = {} THEN x
                              ELSE LiteralBit(f[s \ {Max(s)}], p[1], (p[2] \div 2^(8 - w[Max(s)])) % 2)]
           g == CHOOSE f : Body(f)
<1>1. PICK n \in Nat : n = Len(w)
  OBVIOUS
<1>2. DOMAIN w = 1..n
  BY <1>1
<1>3. ASSUME NEW f
      PROVE  Body(f) <=> Folds("literal", p, x, w, n, f)
  BY <1>2 DEF Folds, FoldStep
<1>4. DecodeLiteral(z, p[1], p[2]) = g[1..n]
  BY <1>0, <1>2, <1>9 DEF FoldLeft, MapThenFoldSet, DecodeLiteral, LiteralBegins
<1> HIDE DEF Body
<1>5. \E f : Body(f)
  BY <1>3, FoldExists
<1>6. Folds("literal", p, x, w, n, g)
  BY <1>3, <1>5
<1> HIDE DEF g
<1>7. \E r : Runs("literal", p, x, w, r) /\ g[1..n] = r[n]
  BY <1>1, <1>6, FoldRuns
<1> QED
  BY <1>0, <1>1, <1>4, <1>7, <1>9 DEF LiteralRun

LEMMA ReversedRuns ==
  ASSUME NEW v, NEW l, NEW S, NEW w \in Seq(S), w = Count(l)
  PROVE  \E r : Runs("reversed", v, 0, w, r) /\ Reversed(v, l) = r[Len(w)]
<1> DEFINE Body(f) == f = [s \in SUBSET DOMAIN w |->
                            IF s = {} THEN 0
                              ELSE (2 * f[s \ {Max(s)}]) + ((v \div 2^(w[Max(s)] - 1)) % 2)]
           g == CHOOSE f : Body(f)
<1>1. PICK n \in Nat : n = Len(w)
  OBVIOUS
<1>2. DOMAIN w = 1..n
  BY <1>1
<1>3. ASSUME NEW f
      PROVE  Body(f) <=> Folds("reversed", v, 0, w, n, f)
  BY <1>2 DEF Folds, FoldStep
<1>4. Reversed(v, l) = g[1..n]
  BY <1>2 DEF FoldLeft, MapThenFoldSet, Reversed
<1> HIDE DEF Body
<1>5. \E f : Body(f)
  BY <1>3, FoldExists
<1>6. Folds("reversed", v, 0, w, n, g)
  BY <1>3, <1>5
<1> HIDE DEF g
<1>7. \E r : Runs("reversed", v, 0, w, r) /\ g[1..n] = r[n]
  BY <1>1, <1>6, FoldRuns
<1> QED
  BY <1>1, <1>4, <1>7

LEMMA OpRuns ==
  ASSUME NEW x, NEW to, NEW S, NEW w \in Seq(S)
  PROVE  \E r : Runs("op", to, x, w, r) /\ Followed(x, w, to) = r[Len(w)]
<1> DEFINE Body(f) == f = [s \in SUBSET DOMAIN w |->
                            IF s = {} THEN x
                              ELSE IF \/ f[s \ {Max(s)}].state # "go"
                                      \/ to >= 0 /\ Len(f[s \ {Max(s)}].out) >= to
                                THEN f[s \ {Max(s)}]
                                ELSE Operated(f[s \ {Max(s)}], w[Max(s)])]
           g == CHOOSE f : Body(f)
<1>1. PICK n \in Nat : n = Len(w)
  OBVIOUS
<1>2. DOMAIN w = 1..n
  BY <1>1
<1>3. ASSUME NEW f
      PROVE  Body(f) <=> Folds("op", to, x, w, n, f)
  BY <1>2 DEF Folds, FoldStep
<1>4. Followed(x, w, to) = g[1..n]
  BY <1>2 DEF FoldLeft, MapThenFoldSet, Followed
<1> HIDE DEF Body
<1>5. \E f : Body(f)
  BY <1>3, FoldExists
<1>6. Folds("op", to, x, w, n, g)
  BY <1>3, <1>5
<1> HIDE DEF g
<1>7. \E r : Runs("op", to, x, w, r) /\ g[1..n] = r[n]
  BY <1>1, <1>6, FoldRuns
<1> QED
  BY <1>1, <1>4, <1>7

LEMMA CountIs ==
  ASSUME NEW n \in Nat
  PROVE  /\ Count(n) \in Seq(Nat) /\ Len(Count(n)) = n
         /\ \A i \in 1..n : Count(n)[i] = i
<1>1. [i \in 1..n |-> i] \in Seq(Nat)
  OBVIOUS
<1> QED
  BY <1>1 DEF Count

(* Two folds of which the one goes through the beginning of the other's.   *)
LEMMA RunsAgree ==
  ASSUME NEW kind, NEW p, NEW x, NEW w, NEW r, Runs(kind, p, x, w, r),
         NEW v, NEW q, Runs(kind, p, x, v, q), Len(w) \in Nat, Len(v) \in Nat,
         NEW n \in Nat, n <= Len(w), n <= Len(v), \A k \in 1..n : w[k] = v[k]
  PROVE  r[n] = q[n]
<1> DEFINE G == {k \in 0..n : r[k] = q[k]}
<1>1. 0 \in G
  BY DEF Runs
<1>2. ASSUME NEW k \in 1..n, k - 1 \in G
      PROVE  k \in G
  <2>1. k \in 1..Len(w) /\ k \in 1..Len(v)
    OBVIOUS
  <2>2. r[k] = FoldStep(kind, p, r[k - 1], w[k]) /\ q[k] = FoldStep(kind, p, q[k - 1], v[k])
    BY <2>1 DEF Runs
  <2> QED
    BY <1>2, <2>2
<1>3. Q!Climbs(G, n)
  BY <1>2 DEF Q!Climbs
<1> HIDE DEF G
<1>4. \A k \in 0..n : k \in G
  BY <1>1, <1>3, Q!Climbing
<1> QED
  BY <1>4 DEF G

-----------------------------------------------------------------------------
(* Numbers that bytes are the digits of.                                   *)

Octets == Seq(Byte)

LEMMA OctetsAre ==
  ASSUME NEW w \in Octets
  PROVE  /\ w \in Seq(Byte) /\ w \in Seq(0..255) /\ Len(w) \in Nat
         /\ DOMAIN w = 1..Len(w) /\ \A k \in 1..Len(w) : w[k] \in 0..255
<1>1. w \in Seq(Byte) /\ Byte = 0..255
  BY DEF Octets, Byte
<1>2. w \in Seq(0..255)
  BY <1>1, Zenon
<1>3. PICK S : S = 0..255
  OBVIOUS
<1>4. w \in Seq(S)
  BY <1>2, <1>3, Zenon
<1>5. Len(w) \in Nat /\ DOMAIN w = 1..Len(w) /\ \A k \in 1..Len(w) : w[k] \in S
  BY <1>4
<1> QED
  BY <1>1, <1>2, <1>3, <1>5, Zenon

(* The number of the first n bytes of w.                                   *)
Upto(w, n) == CodeOf(SubSeq(w, 1, n))

LEMMA CodeRunsOn ==
  ASSUME NEW w \in Octets, NEW r, Runs("code", 0, 0, w, r)
  PROVE  \A k \in 0..Len(w) : r[k] = Upto(w, k)
<1>1. w \in Seq(Byte) /\ Len(w) \in Nat
  BY DEF Octets
<1>2. ASSUME NEW k \in 0..Len(w)
      PROVE  r[k] = Upto(w, k)
  <2>1. PICK v \in Seq(Byte) : v = SubSeq(w, 1, k)
    <3>1. SubSeq(w, 0 + 1, k) \in Seq(Byte)
      <4>1. 0 \in Nat /\ k \in Nat /\ 0 <= k /\ k <= Len(w)
        BY <1>1
      <4> QED
        BY <1>1, <4>1, Q!PartIs
    <3>2. 0 + 1 = 1
      OBVIOUS
    <3> QED
      BY <3>1, <3>2, Zenon
  <2>2. Len(v) = k /\ \A i \in 1..k : v[i] = w[i]
    <3>1. 0 \in Nat /\ k \in Nat /\ 0 <= k /\ k <= Len(w) /\ 0 + 1 = 1 /\ k - 0 = k
      BY <1>1
    <3>2. \A i \in 1..k : 0 + i = i
      OBVIOUS
    <3> QED
      BY <1>1, <2>1, <3>1, <3>2, Q!PartIs
  <2>3. PICK q : Runs("code", 0, 0, v, q) /\ CodeOf(v) = q[Len(v)]
    BY <2>1, CodeRuns
  <2>4. r[k] = q[k]
    BY <1>1, <2>2, <2>3, RunsAgree
  <2> QED
    BY <2>1, <2>2, <2>3, <2>4 DEF Upto
<1> QED
  BY <1>2

LEMMA CodeIs ==
  ASSUME NEW w \in Octets
  PROVE  /\ Upto(w, 0) = 0 /\ CodeOf(w) = Upto(w, Len(w))
         /\ \A k \in 0..Len(w) : Upto(w, k) \in Nat
         /\ \A k \in 1..Len(w) : Upto(w, k) = (256 * Upto(w, k - 1)) + w[k]
<1>1. w \in Seq(Byte) /\ Len(w) \in Nat
  BY DEF Octets
<1>2. PICK r : Runs("code", 0, 0, w, r) /\ CodeOf(w) = r[Len(w)]
  BY <1>1, CodeRuns
<1>3. \A k \in 0..Len(w) : r[k] = Upto(w, k)
  BY <1>2, CodeRunsOn
<1>4. Upto(w, 0) = 0 /\ CodeOf(w) = Upto(w, Len(w))
  BY <1>1, <1>2, <1>3 DEF Runs
<1>5. ASSUME NEW k \in 1..Len(w)
      PROVE  Upto(w, k) = (256 * Upto(w, k - 1)) + w[k]
  <2>1. k \in 0..Len(w) /\ k - 1 \in 0..Len(w)
    BY <1>1
  <2>2. r[k] = (256 * r[k - 1]) + w[k]
    BY <1>2 DEF Runs, FoldStep
  <2> QED
    BY <1>3, <2>1, <2>2
<1> DEFINE G == {k \in 0..Len(w) : Upto(w, k) \in Nat}
<1>6. ASSUME NEW k \in 1..Len(w), k - 1 \in G
      PROVE  k \in G
  <2>1. w[k] \in Nat
    <3>1. w[k] \in 0..255
      BY OctetsAre
    <3>2. 0..255 \subseteq Nat
      OBVIOUS
    <3> QED
      BY <3>1, <3>2, Zenon
  <2> QED
    BY <1>5, <1>6, <2>1
<1>7. 0 \in G /\ Q!Climbs(G, Len(w))
  BY <1>1, <1>4, <1>6 DEF Q!Climbs
<1> HIDE DEF G
<1>8. \A k \in 0..Len(w) : k \in G
  BY <1>1, <1>7, Q!Climbing
<1> QED
  BY <1>4, <1>5, <1>8 DEF G

(* The beginning is all that counts.                                       *)
LEMMA SameUpto ==
  ASSUME NEW w \in Octets, NEW v \in Octets, NEW n \in Nat, n <= Len(w), n <= Len(v),
         \A k \in 1..n : w[k] = v[k]
  PROVE  Upto(w, n) = Upto(v, n)
<1>1. Len(w) \in Nat /\ Len(v) \in Nat
  BY DEF Octets
<1>2. PICK r : Runs("code", 0, 0, w, r)
  BY CodeRuns DEF Octets
<1>3. PICK q : Runs("code", 0, 0, v, q)
  BY CodeRuns DEF Octets
<1>4. r[n] = Upto(w, n) /\ q[n] = Upto(v, n)
  <2>1. n \in 0..Len(w) /\ n \in 0..Len(v)
    BY <1>1
  <2> QED
    BY <1>2, <1>3, <2>1, CodeRunsOn
<1>5. r[n] = q[n]
  BY <1>1, <1>2, <1>3, RunsAgree
<1> QED
  BY <1>4, <1>5

LEMMA CodeMore ==
  ASSUME NEW w \in Octets, NEW b \in Byte
  PROVE  /\ Append(w, b) \in Octets /\ Len(Append(w, b)) = Len(w) + 1
         /\ CodeOf(w) \in Nat
         /\ CodeOf(Append(w, b)) = (256 * CodeOf(w)) + b
<1>1. PICK n \in Nat : n = Len(w)
  BY DEF Octets
<1>2. PICK v \in Octets : v = Append(w, b)
  <2>1. Append(w, b) \in Octets
    BY DEF Octets
  <2> QED
    BY <2>1, Zenon
<1>3. Len(v) = n + 1 /\ v[n + 1] = b /\ \A k \in 1..n : v[k] = w[k]
  BY <1>1, <1>2 DEF Octets
<1>4. Upto(v, n) = Upto(w, n)
  BY <1>1, <1>3, SameUpto
<1>5. Upto(v, n + 1) = (256 * Upto(v, (n + 1) - 1)) + v[n + 1]
  <2>1. n + 1 \in 1..Len(v)
    BY <1>3
  <2> QED
    BY <2>1, CodeIs
<1>6. (n + 1) - 1 = n
  OBVIOUS
<1>7. CodeOf(v) = Upto(v, n + 1) /\ CodeOf(w) = Upto(w, n) /\ Upto(w, n) \in Nat
  <2>1. n \in 0..Len(w)
    BY <1>1
  <2> QED
    BY <1>1, <1>3, <2>1, CodeIs
<1> QED
  BY <1>1, <1>2, <1>3, <1>4, <1>5, <1>6, <1>7

-----------------------------------------------------------------------------
(* A carry.                                                                *)

(* k is the last place in w that is not 255.                               *)
Lasting(w, k) == k \in 1..Len(w) /\ w[k] # 255 /\ \A j \in k + 1..Len(w) : w[j] = 255

LEMMA LastExists ==
  ASSUME NEW w \in Octets, NEW i \in 1..Len(w), w[i] # 255
  PROVE  \E k : Lasting(w, k)
<1>1. PICK n \in Nat : n = Len(w)
  BY DEF Octets
<1> DEFINE S == {m \in Nat : m < n /\ w[n - m] # 255}
<1>2. n - i \in S
  <2>1. n - i \in Nat /\ n - i < n /\ n - (n - i) = i
    BY <1>1
  <2> QED
    BY <2>1
<1>3. S \subseteq Nat
  OBVIOUS
<1>4. PICK m \in S : \A j \in S : m <= j
  <2> HIDE DEF S
  <2> QED
    BY <1>2, <1>3, Q!HasLeast
<1>5. m \in Nat /\ m < n /\ w[n - m] # 255
  BY <1>4
<1>6. ASSUME NEW j \in (n - m) + 1..n, w[j] # 255
      PROVE  FALSE
  <2>1. n - j \in Nat /\ n - j < n /\ n - (n - j) = j /\ n - j < m
    BY <1>5, <1>6
  <2>2. n - j \in S
    BY <1>6, <2>1
  <2> HIDE DEF S
  <2> QED
    BY <1>4, <1>5, <2>1, <2>2
<1>7. n - m \in 1..n
  BY <1>5
<1> QED
  BY <1>1, <1>5, <1>6, <1>7 DEF Lasting

LEMMA LastIsOne ==
  ASSUME NEW w \in Octets, NEW k, NEW j, Lasting(w, k), Lasting(w, j)
  PROVE  k = j
<1>1. Len(w) \in Nat
  BY DEF Octets
<1> QED
  BY <1>1 DEF Lasting

LEMMA CarriedIs ==
  ASSUME NEW w \in Octets, NEW k, Lasting(w, k)
  PROVE  /\ Carried(w) \in Octets /\ Len(Carried(w)) = Len(w)
         /\ \A j \in 1..Len(w) : Carried(w)[j] = IF j < k THEN w[j] ELSE IF j = k THEN w[j] + 1 ELSE 0
<1>1. PICK n \in Nat : n = Len(w)
  BY DEF Octets
<1>2. DOMAIN w = 1..n /\ \A j \in 1..n : w[j] \in 0..255
  BY <1>1, OctetsAre, Zenon
<1>3. k = CHOOSE k_1 \in DOMAIN w : w[k_1] # 255 /\ \A j \in k_1 + 1..Len(w) : w[j] = 255
  <2> DEFINE c == CHOOSE k_1 \in DOMAIN w : w[k_1] # 255 /\ \A j \in k_1 + 1..Len(w) : w[j] = 255
  <2>1. c \in DOMAIN w /\ w[c] # 255 /\ \A j \in c + 1..Len(w) : w[j] = 255
    BY <1>1, <1>2 DEF Lasting
  <2> HIDE DEF c
  <2>2. Lasting(w, c)
    BY <1>1, <1>2, <2>1 DEF Lasting
  <2>3. c = k
    BY <2>2, LastIsOne
  <2> QED
    BY <2>3 DEF c
<1>4. Carried(w) = [j \in 1..n |-> IF j < k THEN w[j] ELSE IF j = k THEN w[j] + 1 ELSE 0]
  BY <1>2, <1>3 DEF Carried
<1>5. k \in 1..n /\ w[k] # 255
  BY <1>1 DEF Lasting
<1>8. w[k] + 1 \in 0..255
  <2>1. w[k] \in 0..255
    BY <1>2, <1>5
  <2>2. PICK b \in 0..255 : b = w[k]
    BY <2>1
  <2>3. b + 1 \in 0..255
    BY <1>5, <2>2
  <2> QED
    BY <2>2, <2>3
<1>6. ASSUME NEW j \in 1..n
      PROVE  (IF j < k THEN w[j] ELSE IF j = k THEN w[j] + 1 ELSE 0) \in 0..255
  <2>1. w[j] \in 0..255 /\ 0 \in 0..255
    BY <1>2
  <2> QED
    BY <1>8, <2>1, Zenon
<1>7. [j \in 1..n |-> IF j < k THEN w[j] ELSE IF j = k THEN w[j] + 1 ELSE 0] \in Seq(0..255)
  BY <1>6
<1> QED
  BY <1>1, <1>4, <1>7 DEF Octets, Byte

LEMMA CarriedCode ==
  ASSUME NEW w \in Octets, NEW i \in 1..Len(w), w[i] # 255
  PROVE  /\ Carried(w) \in Octets /\ Len(Carried(w)) = Len(w)
         /\ CodeOf(Carried(w)) = CodeOf(w) + 1
<1>1. PICK n \in Nat : n = Len(w)
  BY DEF Octets
<1>2. PICK k : Lasting(w, k)
  BY LastExists
<1>3. k \in 1..n /\ \A j \in k + 1..n : w[j] = 255
  BY <1>1, <1>2 DEF Lasting
<1>4. PICK c \in Octets : c = Carried(w)
  BY <1>2, CarriedIs
<1>5. /\ Len(c) = n
      /\ \A j \in 1..n : c[j] = IF j < k THEN w[j] ELSE IF j = k THEN w[j] + 1 ELSE 0
  BY <1>1, <1>2, <1>4, CarriedIs
<1>6. /\ Upto(w, 0) = 0 /\ Upto(c, 0) = 0
      /\ \A j \in 0..n : Upto(w, j) \in Nat /\ Upto(c, j) \in Nat
      /\ \A j \in 1..n : /\ Upto(w, j) = (256 * Upto(w, j - 1)) + w[j]
                         /\ Upto(c, j) = (256 * Upto(c, j - 1)) + c[j]
      /\ CodeOf(w) = Upto(w, n) /\ CodeOf(c) = Upto(c, n)
  BY <1>1, <1>5, CodeIs
<1> DEFINE G == {j \in 0..n : Upto(c, j) = Upto(w, j) + (IF j < k THEN 0 ELSE 1)}
<1>7. 0 \in G
  BY <1>3, <1>6
<1>8. ASSUME NEW j \in 1..n, j - 1 \in G
      PROVE  j \in G
  <2>1. w[j] \in Nat
    <3>1. w[j] \in 0..255
      BY <1>1, OctetsAre
    <3>2. 0..255 \subseteq Nat
      OBVIOUS
    <3> QED
      BY <3>1, <3>2, Zenon
  <2>2. PICK a \in Nat : a = Upto(w, j - 1)
    BY <1>6
  <2>3. Upto(w, j) = (256 * a) + w[j]
    BY <1>6, <2>2
  <2>4. CASE j < k
    <3>1. Upto(c, j - 1) = a /\ c[j] = w[j]
      <4>1. Upto(c, j - 1) = Upto(w, j - 1) + (IF j - 1 < k THEN 0 ELSE 1)
        BY <1>8
      <4>2. j - 1 < k
        BY <1>3, <2>4
      <4>3. Upto(c, j - 1) = a
        BY <2>2, <4>1, <4>2
      <4> QED
        BY <1>5, <2>4, <4>3
    <3>2. Upto(c, j) = (256 * a) + w[j]
      BY <1>6, <3>1
    <3> QED
      BY <2>3, <2>1, <2>4, <3>2
  <2>5. CASE j = k
    <3>1. Upto(c, j - 1) = a /\ c[j] = w[j] + 1
      BY <1>5, <1>8, <2>2, <2>5
    <3>2. Upto(c, j) = (256 * a) + (w[j] + 1)
      BY <1>6, <3>1
    <3> QED
      BY <1>3, <2>1, <2>3, <2>5, <3>2
  <2>6. CASE j > k
    <3>1. Upto(c, j - 1) = a + 1 /\ c[j] = 0 /\ w[j] = 255
      BY <1>3, <1>5, <1>8, <2>2, <2>6
    <3>2. Upto(c, j) = (256 * (a + 1)) + 0
      <4>1. Upto(c, j) = (256 * Upto(c, j - 1)) + c[j]
        BY <1>6
      <4> QED
        BY <3>1, <4>1, Zenon
    <3> QED
      BY <1>3, <2>3, <2>6, <3>1, <3>2
  <2> QED
    BY <1>3, <2>4, <2>5, <2>6
<1>9. Q!Climbs(G, n)
  BY <1>8 DEF Q!Climbs
<1> HIDE DEF G
<1>10. n \in G
  BY <1>7, <1>9, Q!Climbing
<1>11. Upto(c, n) = Upto(w, n) + 1
  BY <1>3, <1>10 DEF G
<1> QED
  BY <1>1, <1>4, <1>5, <1>6, <1>11

-----------------------------------------------------------------------------
(* The encoder.                                                            *)

Wide == 256 * Top

Tops == {65536, 16777216}

LEMMA Widths ==
  ASSUME LzmaAssumption
  PROVE  /\ Top \in Tops /\ Top \in Nat \ {0}
         /\ Full = Wide - 1 /\ Wide = 256 * Top /\ Wide \in Nat
<1>2. PICK n \in {2, 3} : n = RangeBytes - 1
  BY DEF LzmaAssumption
<1>3. Top = 256^n
  BY <1>2, Zenon DEF Top
<1>4. PICK a : a = 256^n
  OBVIOUS
<1>5. a \in Tops /\ a \in Nat \ {0}
  <2>1. CASE n = 2
    BY <1>4, <2>1 DEF Tops
  <2>2. CASE n = 3
    BY <1>4, <2>2 DEF Tops
  <2> QED
    BY <2>1, <2>2
<1>6. Top = a
  BY <1>3, <1>4, Zenon
<1> QED
  BY <1>5, <1>6 DEF Wide, Full

(* A one and zeros behind it, and their number.                            *)
Ones(n) == [i \in 1..n |-> IF i = 1 THEN 1 ELSE 0]

Lead(n) == CodeOf(Ones(n))

LEMMA OnesAre ==
  ASSUME NEW n \in Nat
  PROVE  Ones(n) \in Octets /\ Len(Ones(n)) = n
BY DEF Ones, Octets, Byte

LEMMA LeadIs ==
  /\ Lead(1) = 1
  /\ \A n \in Nat \ {0} : Lead(n) \in Nat /\ Lead(n + 1) = 256 * Lead(n)
<1>1. ASSUME NEW n \in Nat
      PROVE  /\ Lead(n) = Upto(Ones(n), n) /\ Lead(n) \in Nat
             /\ Lead(n + 1) = (256 * Lead(n)) + (IF n = 0 THEN 1 ELSE 0)
  <2>1. PICK v \in Octets : v = Ones(n) /\ Len(v) = n
    BY OnesAre
  <2>2. PICK w \in Octets : w = Ones(n + 1) /\ Len(w) = n + 1
    BY OnesAre
  <2>3. Lead(n) = Upto(v, n) /\ Lead(n + 1) = Upto(w, n + 1) /\ Upto(v, n) \in Nat
    <3>1. n \in 0..n
      OBVIOUS
    <3> QED
      BY <2>1, <2>2, <3>1, CodeIs DEF Lead
  <2>4. Upto(w, n + 1) = (256 * Upto(w, (n + 1) - 1)) + w[n + 1]
    <3>1. n + 1 \in 1..n + 1
      OBVIOUS
    <3> QED
      BY <2>2, <3>1, CodeIs
  <2>5. (n + 1) - 1 = n /\ w[n + 1] = (IF n = 0 THEN 1 ELSE 0)
    BY <2>2 DEF Ones
  <2>6. Upto(w, n) = Upto(v, n)
    <3>1. n <= n + 1 /\ n <= n /\ \A k \in 1..n : k \in 1..n + 1
      OBVIOUS
    <3>2. \A k \in 1..n : w[k] = v[k]
      BY <2>1, <2>2, <3>1 DEF Ones
    <3> QED
      BY <2>1, <2>2, <3>1, <3>2, SameUpto
  <2> QED
    BY <2>1, <2>3, <2>4, <2>5, <2>6, Zenon
<1>2. Lead(0) = 0
  <2>1. PICK v \in Octets : v = Ones(0)
    BY OnesAre
  <2>2. Upto(v, 0) = 0
    BY CodeIs
  <2> QED
    BY <1>1, <2>1, <2>2
<1>3. Lead(1) = 1
  <2>1. Lead(0 + 1) = (256 * Lead(0)) + (IF 0 = 0 THEN 1 ELSE 0)
    BY <1>1
  <2>2. 0 + 1 = 1
    OBVIOUS
  <2> QED
    BY <1>2, <2>1, <2>2
<1>4. ASSUME NEW n \in Nat \ {0}
      PROVE  Lead(n) \in Nat /\ Lead(n + 1) = 256 * Lead(n)
  <2>1. n \in Nat /\ n # 0
    OBVIOUS
  <2>2. PICK a \in Nat : a = Lead(n)
    BY <1>1, <2>1
  <2>3. Lead(n + 1) = (256 * a) + 0
    BY <1>1, <2>1, <2>2, Zenon
  <2> QED
    BY <2>2, <2>3
<1> QED
  BY <1>3, <1>4

LEMMA FirstIsZero ==
  ASSUME NEW w \in Octets, Len(w) >= 1, CodeOf(w) < Lead(Len(w))
  PROVE  w[1] = 0
<1>1. PICK n \in Nat \ {0} : n = Len(w)
  BY OctetsAre
<1>2. PICK v \in Octets : v = Ones(n) /\ Len(v) = n
  BY OnesAre
<1>3. SUFFICES ASSUME w[1] # 0
               PROVE  FALSE
  OBVIOUS
<1>4. \A k \in 1..n : w[k] \in 0..255
  BY <1>1, OctetsAre
<1>5. /\ \A k \in 0..n : Upto(w, k) \in Nat /\ Upto(v, k) \in Nat
      /\ \A k \in 1..n : /\ Upto(w, k) = (256 * Upto(w, k - 1)) + w[k]
                         /\ Upto(v, k) = (256 * Upto(v, k - 1)) + v[k]
      /\ CodeOf(w) = Upto(w, n) /\ CodeOf(v) = Upto(v, n)
      /\ Upto(w, 0) = 0 /\ Upto(v, 0) = 0
  BY <1>1, <1>2, CodeIs
<1> DEFINE G == {k \in 0..n : Upto(w, k) >= Upto(v, k)}
<1>6. 0 \in G
  BY <1>5
<1>7. ASSUME NEW k \in 1..n, k - 1 \in G
      PROVE  k \in G
  <2>1. PICK a \in Nat, b \in Nat : a = Upto(w, k - 1) /\ b = Upto(v, k - 1) /\ a >= b
    BY <1>5, <1>7
  <2>2. PICK c \in 0..255 : c = w[k]
    BY <1>4
  <2>3. v[k] = (IF k = 1 THEN 1 ELSE 0)
    BY <1>2 DEF Ones
  <2>4. k = 1 => c # 0
    BY <1>3, <2>2
  <2>5. (256 * a) + c >= (256 * b) + (IF k = 1 THEN 1 ELSE 0)
    <3>1. 256 * a >= 256 * b
      BY <2>1
    <3>2. c >= (IF k = 1 THEN 1 ELSE 0)
      BY <2>4
    <3> QED
      BY <3>1, <3>2
  <2>6. Upto(w, k) = (256 * a) + c /\ Upto(v, k) = (256 * b) + (IF k = 1 THEN 1 ELSE 0)
    BY <1>5, <2>1, <2>2, <2>3
  <2> QED
    BY <2>5, <2>6
<1>8. Q!Climbs(G, n)
  BY <1>7 DEF Q!Climbs
<1> HIDE DEF G
<1>9. n \in G
  BY <1>6, <1>8, Q!Climbing
<1>10. Upto(w, n) >= Upto(v, n)
  BY <1>9 DEF G
<1>11. CodeOf(w) < CodeOf(v)
  BY <1>1, <1>2 DEF Lead
<1> QED
  BY <1>1, <1>5, <1>10, <1>11

-----------------------------------------------------------------------------
(* The number at which the encoder's interval begins.                      *)
Value(e) == (Wide * CodeOf(e.bytes)) + e.low

Chance == 31..2017

Chances(f) == \A k \in DOMAIN f : f[k] \in Chance

(* An encoder; the interval ends where there would be a byte before the    *)
(* first one.                                                              *)
Coder(e) ==
  /\ e = [low |-> e.low, rng |-> e.rng, bytes |-> e.bytes, probs |-> e.probs]
  /\ e.low \in 0..Full /\ e.rng \in 1..Full
  /\ e.bytes \in Octets /\ Len(e.bytes) >= 1
  /\ Chances(e.probs)
  /\ Value(e) + e.rng <= Wide * Lead(Len(e.bytes))

LEMMA ValueIs ==
  ASSUME LzmaAssumption, NEW e, Coder(e)
  PROVE  Value(e) \in Nat /\ CodeOf(e.bytes) \in Nat /\ Len(e.bytes) \in Nat \ {0}
<1>1. e.bytes \in Octets /\ Len(e.bytes) >= 1
  BY DEF Coder
<1>2. 0 \in Byte
  BY DEF Byte
<1>3. CodeOf(e.bytes) \in Nat
  BY <1>1, <1>2, CodeMore
<1>4. Len(e.bytes) \in Nat \ {0}
  BY <1>1, OctetsAre
<1>5. PICK c \in Nat : c = CodeOf(e.bytes)
  BY <1>3
<1>6. PICK l \in Nat : l = e.low
  BY Widths DEF Coder
<1>7. Wide * c \in Nat
  BY Widths
<1> QED
  BY <1>3, <1>4, <1>5, <1>6, <1>7 DEF Value

LEMMA FreshIs ==
  ASSUME LzmaAssumption
  PROVE  Coder(Fresh) /\ Fresh.rng >= Top /\ Value(Fresh) = 0
<1>1. PICK w \in Octets : w = <<0>> /\ Len(w) = 1 /\ w[1] = 0
  <2>1. <<0>> \in Octets /\ Len(<<0>>) = 1 /\ <<0>>[1] = 0
    BY DEF Octets, Byte
  <2> QED
    BY <2>1, Zenon
<1>2. CodeOf(w) = 0
  <2>1. 1 \in 1..Len(w) /\ 1 - 1 = 0
    BY <1>1
  <2>2. Upto(w, 0) = 0 /\ Upto(w, 1) = (256 * Upto(w, 1 - 1)) + w[1]
    BY <2>1, CodeIs
  <2>3. Upto(w, 1) = (256 * 0) + 0 /\ CodeOf(w) = Upto(w, 1)
    BY <1>1, <2>1, <2>2, CodeIs, Zenon
  <2> QED
    BY <2>3
<1>3. PICK e : e = Fresh
  OBVIOUS
<1>4. /\ e = [low |-> 0, rng |-> Full, bytes |-> w, probs |-> <<>>]
      /\ e.low = 0 /\ e.rng = Full /\ e.bytes = w /\ e.probs = <<>>
  BY <1>1, <1>3 DEF Fresh
<1>5. Value(e) = 0
  BY <1>2, <1>4, Widths DEF Value
<1>6. Chances(e.probs)
  <2>1. DOMAIN <<>> = {}
    OBVIOUS
  <2>2. DOMAIN e.probs = {}
    BY <1>4, <2>1, Zenon
  <2>3. ASSUME NEW k \in DOMAIN e.probs
        PROVE  FALSE
    BY <2>2
  <2> QED
    BY <2>3 DEF Chances
<1>7. e.low \in 0..Full /\ e.rng \in 1..Full /\ e.rng >= Top
  BY <1>4, Widths
<1>8. Value(e) + e.rng <= Wide * Lead(Len(e.bytes))
  BY <1>1, <1>4, <1>5, LeadIs, Widths
<1>9. Coder(e)
  BY <1>1, <1>4, <1>6, <1>7, <1>8 DEF Coder
<1> QED
  BY <1>3, <1>5, <1>7, <1>9

(* The interval begins by so much later.                                   *)
Lifted(e, by, x) ==
  /\ x = [low |-> x.low, rng |-> e.rng, bytes |-> x.bytes, probs |-> e.probs]
  /\ x.low \in 0..Full /\ x.bytes \in Octets /\ Len(x.bytes) = Len(e.bytes)
  /\ Value(x) = Value(e) + by

LEMMA RaisedIs ==
  ASSUME LzmaAssumption, NEW e, Coder(e), NEW by \in Nat, by < e.rng
  PROVE  Lifted(e, by, Raised(e, by))
<1>1. PICK x : x = Raised(e, by)
  OBVIOUS
<1>2. /\ e = [low |-> e.low, rng |-> e.rng, bytes |-> e.bytes, probs |-> e.probs]
      /\ e.bytes \in Octets /\ Len(e.bytes) >= 1
  BY DEF Coder
<1>3. PICK c \in Nat : c = CodeOf(e.bytes)
  BY ValueIs
<1>4. PICK l \in Nat : l = e.low /\ l <= Full
  BY Widths DEF Coder
<1>5. PICK g \in Nat : g = e.rng
  BY Widths DEF Coder
<1>6. PICK W \in Nat : W = Wide /\ Full = W - 1 /\ W > 0
  BY Widths
<1>7. Value(e) = (W * c) + l
  BY <1>3, <1>4, <1>6 DEF Value
<1>8. CASE l + by <= Full
  <2>1. x = [low |-> l + by, rng |-> e.rng, bytes |-> e.bytes, probs |-> e.probs]
    BY <1>1, <1>2, <1>4, <1>8 DEF Raised
  <2>2. x.low = l + by /\ x.bytes = e.bytes
    BY <2>1
  <2>3. Value(x) = (W * c) + (l + by)
    BY <1>3, <1>6, <2>2 DEF Value
  <2>4. Value(x) = Value(e) + by
    BY <1>7, <2>3
  <2>5. l + by \in 0..Full
    BY <1>4, <1>6, <1>8
  <2> QED
    BY <1>1, <1>2, <2>1, <2>2, <2>4, <2>5 DEF Lifted
<1>9. CASE ~(l + by <= Full)
  <2>1. x = [low |-> l + by - Full - 1, rng |-> e.rng, bytes |-> Carried(e.bytes),
             probs |-> e.probs]
    BY <1>1, <1>2, <1>4, <1>9 DEF Raised
  <2>2. x.low = l + by - Full - 1 /\ x.bytes = Carried(e.bytes)
    BY <2>1
  <2>3. e.bytes[1] = 0
    <3>1. PICK m \in Nat : m = Lead(Len(e.bytes))
      BY ValueIs, LeadIs
    <3>2. ((W * c) + l) + g <= W * m
      BY <1>5, <1>6, <1>7, <3>1 DEF Coder
    <3>3. l + g > W
      BY <1>5, <1>6, <1>9
    <3>4. W * (c + 1) = (W * c) + W /\ W * c \in Nat /\ W * m \in Nat
      OBVIOUS
    <3>5. W * (c + 1) < W * m
      BY <3>2, <3>3, <3>4
    <3>6. c < m
      <4>1. CASE m <= c
        <5>1. W * m <= W * c
          BY <4>1
        <5> QED
          BY <3>4, <3>5, <5>1
      <4> QED
        BY <4>1
    <3> QED
      BY <1>2, <1>3, <3>1, <3>6, FirstIsZero
  <2>4. /\ x.bytes \in Octets /\ Len(x.bytes) = Len(e.bytes)
        /\ CodeOf(x.bytes) = c + 1
    <3>1. 1 \in 1..Len(e.bytes) /\ e.bytes[1] # 255
      BY <2>3, ValueIs
    <3> QED
      BY <1>2, <1>3, <2>2, <3>1, CarriedCode
  <2>5. x.low = l + by - W /\ l + by - W \in Nat /\ l + by - W <= Full
    <3>1. by <= Full
      BY <1>5, <1>6 DEF Coder
    <3> QED
      BY <1>4, <1>6, <1>9, <2>2, <3>1
  <2>6. Value(x) = (W * (c + 1)) + (l + by - W)
    BY <1>6, <2>4, <2>5 DEF Value
  <2>7. W * (c + 1) = (W * c) + W /\ W * c \in Nat
    OBVIOUS
  <2>8. Value(x) = Value(e) + by
    BY <1>7, <2>6, <2>7
  <2> QED
    BY <1>1, <1>6, <2>1, <2>2, <2>4, <2>5, <2>8 DEF Lifted
<1> QED
  BY <1>8, <1>9

-----------------------------------------------------------------------------
(* A decision narrows the interval.                                        *)

Bound(e, key) ==
  IF key = <<>> THEN e.rng \div 2 ELSE (e.rng \div 2048) * Probability(e.probs, key)

Learnt(f, d) ==
  LET p == Probability(f, d.key)
  IN IF d.key = <<>> THEN f
       ELSE WithProbability(f, d.key, IF d.bit = 0 THEN Likelier(p) ELSE Rarer(p))

Width(e, d) ==
  IF d.key = <<>> \/ d.bit = 0 THEN Bound(e, d.key) ELSE e.rng - Bound(e, d.key)

(* What the encoder is before bytes are shifted out.                       *)
Narrowed(e, d) ==
  LET x == Raised(e, d.bit * Bound(e, d.key))
  IN [low |-> x.low, rng |-> Width(e, d), bytes |-> x.bytes, probs |-> Learnt(e.probs, d)]

LEMMA RaisedByNone ==
  ASSUME LzmaAssumption, NEW e, Coder(e)
  PROVE  Raised(e, 0) = e
<1>1. e.low + 0 = e.low /\ e.low + 0 <= Full
  BY Widths DEF Coder
<1>2. Raised(e, 0) = [e EXCEPT !.low = e.low]
  BY <1>1 DEF Raised
<1>3. e = [low |-> e.low, rng |-> e.rng, bytes |-> e.bytes, probs |-> e.probs]
  BY DEF Coder
<1>4. [e EXCEPT !.low = e.low] = [low |-> e.low, rng |-> e.rng, bytes |-> e.bytes, probs |-> e.probs]
  BY <1>3
<1> QED
  BY <1>2, <1>3, <1>4, Zenon

LEMMA BothSet ==
  ASSUME NEW e, e = [low |-> e.low, rng |-> e.rng, bytes |-> e.bytes, probs |-> e.probs],
         NEW b, NEW f
  PROVE  [e EXCEPT !.rng = b, !.probs = f] = [low |-> e.low, rng |-> b, bytes |-> e.bytes, probs |-> f]
<1> DEFINE K == {"low", "rng", "bytes", "probs"}
           a == [e EXCEPT !.rng = b, !.probs = f]
           z == [low |-> e.low, rng |-> b, bytes |-> e.bytes, probs |-> f]
<1>1. a = [k \in K |-> a[k]] /\ z = [k \in K |-> z[k]]
  OBVIOUS
<1>2. a.low = e.low /\ a.rng = b /\ a.bytes = e.bytes /\ a.probs = f
  OBVIOUS
<1>3. z.low = e.low /\ z.rng = b /\ z.bytes = e.bytes /\ z.probs = f
  OBVIOUS
<1> HIDE DEF a, z
<1>4. \A k \in K : a[k] = z[k]
  BY <1>2, <1>3
<1>5. a = z
  BY <1>1, <1>4
<1> QED
  BY <1>5 DEF a, z

LEMMA BoundIs ==
  ASSUME LzmaAssumption, NEW e, Coder(e), e.rng >= Top, NEW key
  PROVE  /\ Bound(e, key) \in Nat /\ Bound(e, key) < e.rng
         /\ 256 * Bound(e, key) >= Top
         /\ Bound(e, key) + Bound(e, key) <= e.rng \/ 256 * (e.rng - Bound(e, key)) >= Top
         /\ key = <<>> => Bound(e, key) + Bound(e, key) <= e.rng
         /\ key # <<>> => 256 * (e.rng - Bound(e, key)) >= Top
         /\ Probability(e.probs, key) \in Chance
<1>1. PICK g \in Nat : g = e.rng /\ g >= Top
  BY Widths DEF Coder
<1>2. PICK T \in Tops : T = Top
  BY Widths
<1>3. PICK p \in Chance : p = Probability(e.probs, key)
  <2>1. Probability(e.probs, key) \in Chance
    <3>1. CASE key \in DOMAIN e.probs
      BY <3>1, Zenon DEF Probability, Coder, Chances
    <3>2. CASE key \notin DOMAIN e.probs
      <4>1. 1024 \in Chance
        BY DEF Chance
      <4> QED
        BY <3>2, <4>1, Zenon DEF Probability
    <3> QED
      BY <3>1, <3>2
  <2> QED
    BY <2>1, Zenon
<1>4. CASE key = <<>>
  <2>1. PICK b \in Nat : b = g \div 2 /\ b + b <= g /\ g <= b + b + 1
    BY <1>1
  <2>2. Bound(e, key) = b
    BY <1>1, <1>4, <2>1 DEF Bound
  <2>3. b < g /\ 256 * b >= T
    BY <1>1, <1>2, <2>1 DEF Tops
  <2> QED
    BY <1>1, <1>2, <1>3, <1>4, <2>1, <2>2, <2>3 DEF Tops
<1>5. CASE key # <<>>
  <2>1. PICK q \in Nat : q = g \div 2048 /\ 2048 * q <= g /\ g <= (2048 * q) + 2047
    BY <1>1
  <2>2. Bound(e, key) = q * p
    BY <1>1, <1>3, <1>5, <2>1 DEF Bound
  <2>3. PICK b \in Nat : b = q * p
    BY DEF Chance
  <2>4. b >= 31 * q /\ b <= 2017 * q
    <3>1. q * (p - 31) >= 0 /\ q * (2017 - p) >= 0
      BY DEF Chance
    <3>2. q * (p - 31) = b - (31 * q) /\ q * (2017 - p) = (2017 * q) - b
      BY <2>3 DEF Chance
    <3> QED
      BY <3>1, <3>2
  <2>5. 256 * (31 * q) >= T
    BY <1>1, <1>2, <2>1 DEF Tops
  <2>6. q >= 1
    BY <1>1, <1>2, <2>1 DEF Tops
  <2>7. b < g /\ 256 * b >= T /\ 256 * (g - b) >= T
    BY <1>1, <1>2, <2>1, <2>4, <2>5, <2>6 DEF Tops
  <2> QED
    BY <1>1, <1>2, <1>3, <1>5, <2>2, <2>3, <2>7
<1> QED
  BY <1>4, <1>5

LEMMA EncodeIs ==
  ASSUME LzmaAssumption, NEW e, Coder(e), e.rng >= Top, NEW d, d.bit \in {0, 1}
  PROVE  Encode(e, d) = Shifted(Narrowed(e, d))
<1>1. PICK b \in Nat : b = Bound(e, d.key) /\ b < e.rng
  BY BoundIs
<1>2. e = [low |-> e.low, rng |-> e.rng, bytes |-> e.bytes, probs |-> e.probs]
  BY Zenon DEF Coder
<1>3. PICK x : x = Raised(e, b)
  OBVIOUS
<1>4. x = [low |-> x.low, rng |-> e.rng, bytes |-> x.bytes, probs |-> e.probs]
  BY <1>1, <1>3, RaisedIs DEF Lifted
<1>5. Raised(e, 0) = e
  BY RaisedByNone
<1>6. CASE d.bit = 0
  <2>1. d.bit * b = 0
    BY <1>1, <1>6
  <2>2. Narrowed(e, d) = [low |-> e.low, rng |-> b, bytes |-> e.bytes, probs |-> Learnt(e.probs, d)]
    BY <1>1, <1>5, <1>6, <2>1, Zenon DEF Narrowed, Width
  <2>3. CASE d.key = <<>>
    <3>1. d.bit * (e.rng \div 2) = 0 /\ b = e.rng \div 2
      <4>1. b = e.rng \div 2
        BY <1>1, <2>3 DEF Bound
      <4> QED
        BY <2>1, <4>1, Zenon
    <3>2. Encode(e, d) = Shifted([e EXCEPT !.rng = b])
      BY <1>5, <2>3, <3>1, Zenon DEF Encode, EncodeHalf
    <3>3. [e EXCEPT !.rng = b] = [low |-> e.low, rng |-> b, bytes |-> e.bytes, probs |-> e.probs]
      BY <1>2
    <3>4. Learnt(e.probs, d) = e.probs
      BY <2>3 DEF Learnt
    <3> QED
      BY <2>2, <3>2, <3>3, <3>4, Zenon
  <2>4. CASE d.key # <<>>
    <3>1. b = (e.rng \div 2048) * Probability(e.probs, d.key)
      BY <1>1, <2>4 DEF Bound
    <3>2. PICK f : f = Learnt(e.probs, d)
      OBVIOUS
    <3>3. f = WithProbability(e.probs, d.key, Likelier(Probability(e.probs, d.key)))
      BY <1>6, <2>4, <3>2, Zenon DEF Learnt
    <3>4. Encode(e, d) = Shifted([e EXCEPT !.rng = b, !.probs = f])
      BY <1>6, <2>4, <3>1, <3>3 DEF Encode, EncodeBit
    <3>5. [e EXCEPT !.rng = b, !.probs = f] = [low |-> e.low, rng |-> b, bytes |-> e.bytes, probs |-> f]
      BY <1>2, BothSet
    <3> QED
      BY <2>2, <3>2, <3>4, <3>5, Zenon
  <2> QED
    BY <2>3, <2>4
<1>7. CASE d.bit = 1
  <2>1. d.bit * b = b
    BY <1>1, <1>7
  <2>2. Narrowed(e, d) = [low |-> x.low, rng |-> Width(e, d), bytes |-> x.bytes, probs |-> Learnt(e.probs, d)]
    BY <1>1, <1>3, <2>1, Zenon DEF Narrowed
  <2>3. CASE d.key = <<>>
    <3>1. d.bit * (e.rng \div 2) = b /\ b = e.rng \div 2
      <4>1. b = e.rng \div 2
        BY <1>1, <2>3 DEF Bound
      <4> QED
        BY <2>1, <4>1, Zenon
    <3>2. Encode(e, d) = Shifted([x EXCEPT !.rng = b])
      BY <1>3, <2>3, <3>1, Zenon DEF Encode, EncodeHalf
    <3>3. [x EXCEPT !.rng = b] = [low |-> x.low, rng |-> b, bytes |-> x.bytes, probs |-> e.probs]
      BY <1>4
    <3>4. Learnt(e.probs, d) = e.probs /\ Width(e, d) = b
      BY <1>1, <2>3 DEF Learnt, Width
    <3> QED
      BY <2>2, <3>2, <3>3, <3>4, Zenon
  <2>4. CASE d.key # <<>>
    <3>1. b = (e.rng \div 2048) * Probability(e.probs, d.key)
      BY <1>1, <2>4 DEF Bound
    <3>2. PICK f : f = Learnt(e.probs, d)
      OBVIOUS
    <3>3. f = WithProbability(e.probs, d.key, Rarer(Probability(e.probs, d.key)))
      BY <1>7, <2>4, <3>2 DEF Learnt
    <3>4. Encode(e, d) = Shifted([x EXCEPT !.rng = @ - b, !.probs = f])
      <4>1. x.probs = e.probs /\ d.bit # 0
        BY <1>4, <1>7
      <4>3. Encode(e, d) = EncodeBit(e, d.key, d.bit)
        BY <2>4 DEF Encode
      <4>4. PICK p : p = Probability(e.probs, d.key)
        OBVIOUS
      <4>5. EncodeBit(e, d.key, d.bit) =
              Shifted([x EXCEPT !.rng = @ - b,
                                     !.probs = WithProbability(@, d.key, Rarer(p))])
        <5>1. b = (e.rng \div 2048) * p /\ d.bit # 0
          BY <3>1, <4>1, <4>4
        <5> QED
          BY <1>3, <4>4, <5>1 DEF EncodeBit
      <4>6. WithProbability(x.probs, d.key, Rarer(p)) = f
        BY <3>3, <4>1, <4>4, Zenon
      <4> QED
        BY <4>3, <4>5, <4>6, Zenon
    <3>5. [x EXCEPT !.rng = @ - b, !.probs = f] =
            [low |-> x.low, rng |-> e.rng - b, bytes |-> x.bytes, probs |-> f]
      <4>1. x.rng = e.rng
        BY <1>4
      <4>2. [x EXCEPT !.rng = e.rng - b, !.probs = f] =
              [low |-> x.low, rng |-> e.rng - b, bytes |-> x.bytes, probs |-> f]
        <5>1. x = [low |-> x.low, rng |-> x.rng, bytes |-> x.bytes, probs |-> x.probs]
          BY <1>4
        <5> QED
          BY <5>1, BothSet
      <4> QED
        BY <4>1, <4>2, Zenon
    <3>6. Width(e, d) = e.rng - b
      BY <1>1, <1>7, <2>4 DEF Width
    <3> QED
      BY <2>2, <3>2, <3>4, <3>5, <3>6, Zenon
  <2> QED
    BY <2>3, <2>4
<1> QED
  BY <1>6, <1>7

(* w is e after decision d, before bytes are shifted out.                  *)
Narrower(e, d, w) ==
  /\ Coder(w) /\ 256 * w.rng >= Top
  /\ Len(w.bytes) = Len(e.bytes)
  /\ w.rng = Width(e, d) /\ w.probs = Learnt(e.probs, d)
  /\ Value(w) = Value(e) + (d.bit * Bound(e, d.key))
  /\ (d.bit * Bound(e, d.key)) + w.rng <= e.rng

LEMMA LearntIs ==
  ASSUME NEW f, Chances(f), NEW d, d.bit \in {0, 1}, Probability(f, d.key) \in Chance
  PROVE  Chances(Learnt(f, d))
<1>1. PICK p \in Chance : p = Probability(f, d.key)
  BY Zenon
<1>2. Likelier(p) \in Chance /\ Rarer(p) \in Chance
  BY DEF Likelier, Rarer, Chance
<1>3. ASSUME NEW c \in Chance, NEW key
      PROVE  Chances(WithProbability(f, key, c))
  <2>1. PICK h : h = WithProbability(f, key, c)
    OBVIOUS
  <2>2. /\ DOMAIN h = DOMAIN f \cup {key}
        /\ \A k \in DOMAIN h : h[k] = IF k = key THEN c ELSE f[k]
    BY <2>1 DEF WithProbability
  <2>3. ASSUME NEW k \in DOMAIN h
        PROVE  h[k] \in Chance
    BY <2>2, Zenon DEF Chances
  <2> QED
    BY <2>1, <2>3, Zenon DEF Chances
<1>4. PICK c \in Chance : c = IF d.bit = 0 THEN Likelier(p) ELSE Rarer(p)
  BY <1>2, Zenon
<1>5. CASE d.key = <<>>
  BY <1>5 DEF Learnt
<1>6. CASE d.key # <<>>
  <2>1. Learnt(f, d) = WithProbability(f, d.key, c)
    BY <1>1, <1>4, <1>6 DEF Learnt
  <2> QED
    BY <1>3, <2>1
<1> QED
  BY <1>5, <1>6

LEMMA NarrowedIs ==
  ASSUME LzmaAssumption, NEW e, Coder(e), e.rng >= Top, NEW d, d.bit \in {0, 1}
  PROVE  Narrower(e, d, Narrowed(e, d))
<1>1. PICK b \in Nat : b = Bound(e, d.key) /\ b < e.rng
  BY BoundIs
<1>2. PICK g \in Nat : g = e.rng /\ g <= Full
  BY Widths DEF Coder
<1>3. PICK by \in Nat : by = d.bit * b /\ (d.bit = 0 => by = 0) /\ (d.bit = 1 => by = b)
  BY <1>1
<1>4. by < e.rng
  BY <1>1, <1>2, <1>3
<1>5. PICK x : x = Raised(e, by)
  OBVIOUS
<1>6. Lifted(e, by, x)
  BY <1>4, <1>5, RaisedIs
<1>7. PICK w : w = Narrowed(e, d)
  OBVIOUS
<1>8. /\ w = [low |-> x.low, rng |-> Width(e, d), bytes |-> x.bytes, probs |-> Learnt(e.probs, d)]
      /\ w.low = x.low /\ w.rng = Width(e, d) /\ w.bytes = x.bytes /\ w.probs = Learnt(e.probs, d)
  BY <1>1, <1>3, <1>5, <1>7 DEF Narrowed
<1>9. PICK l \in Nat : l = w.rng /\ by + l <= g /\ 256 * l >= Top /\ l >= 1
  <2>1. PICK T \in Tops : T = Top
    BY Widths
  <2>2. 256 * b >= T /\ (d.key = <<>> => b + b <= g) /\ (d.key # <<>> => 256 * (g - b) >= T)
    BY <1>1, <1>2, <2>1, BoundIs
  <2>3. CASE d.key = <<>> \/ d.bit = 0
    <3>1. w.rng = b
      BY <1>1, <1>8, <2>3 DEF Width
    <3>2. by + b <= g
      BY <1>1, <1>2, <1>3, <2>2, <2>3
    <3> QED
      BY <2>1, <2>2, <3>1, <3>2 DEF Tops
  <2>4. CASE d.key # <<>> /\ d.bit # 0
    <3>1. w.rng = g - b
      BY <1>1, <1>2, <1>8, <2>4 DEF Width
    <3>2. by + (g - b) <= g /\ 256 * (g - b) >= T /\ g - b \in Nat
      BY <1>1, <1>2, <1>3, <2>1, <2>2, <2>4 DEF Tops
    <3> QED
      BY <2>1, <3>1, <3>2 DEF Tops
  <2> QED
    BY <2>3, <2>4
<1>10. Value(w) = Value(e) + by
  <2>1. Value(w) = Value(x)
    BY <1>8 DEF Value
  <2> QED
    BY <1>6, <2>1 DEF Lifted
<1>11. /\ w.low \in 0..Full /\ w.bytes \in Octets /\ Len(w.bytes) = Len(e.bytes)
       /\ Len(w.bytes) >= 1
  BY <1>6, <1>8 DEF Lifted, Coder
<1>12. Chances(w.probs)
  <2>1. Chances(e.probs)
    BY DEF Coder
  <2>2. Probability(e.probs, d.key) \in Chance
    BY BoundIs, Zenon
  <2>3. Chances(Learnt(e.probs, d))
    BY <2>1, <2>2, LearntIs
  <2> QED
    BY <1>8, <2>3, Zenon
<1>13. w.rng \in 1..Full
  BY <1>2, <1>9, Widths
<1>14. Value(w) + w.rng <= Wide * Lead(Len(w.bytes))
  <2>1. PICK v \in Nat : v = Value(e)
    BY ValueIs
  <2>2. PICK m \in Nat : m = Wide * Lead(Len(e.bytes))
    <3>1. PICK a \in Nat : a = Lead(Len(e.bytes))
      BY ValueIs, LeadIs
    <3>2. PICK W \in Nat : W = Wide
      BY Widths
    <3>3. W * a \in Nat
      OBVIOUS
    <3> QED
      BY <3>1, <3>2, <3>3
  <2>3. v + g <= m
    BY <1>2, <2>1, <2>2 DEF Coder
  <2>4. (v + by) + l <= m
    BY <1>9, <2>3
  <2> QED
    BY <1>9, <1>10, <1>11, <2>1, <2>2, <2>4
<1>15. Coder(w)
  <2>1. w = [low |-> w.low, rng |-> w.rng, bytes |-> w.bytes, probs |-> w.probs]
    BY <1>8, Zenon
  <2> QED
    BY <1>11, <1>12, <1>13, <1>14, <2>1 DEF Coder
<1> QED
  BY <1>1, <1>2, <1>3, <1>7, <1>8, <1>9, <1>10, <1>11, <1>15 DEF Narrower

-----------------------------------------------------------------------------
(* A byte is shifted out where the range has become too narrow.            *)

(* w is wide enough to be shifted once.                                    *)
Wider(w) == Coder(w) /\ 256 * w.rng >= Top

ShiftedTo(w, e) ==
  /\ Coder(e) /\ e.rng >= Top /\ e.probs = w.probs
  /\ w.rng >= Top => e = w
  /\ w.rng < Top => /\ e.rng = 256 * w.rng /\ Len(e.bytes) = Len(w.bytes) + 1
                         /\ Value(e) = 256 * Value(w)

LEMMA ShiftedIs ==
  ASSUME LzmaAssumption, NEW w, Wider(w)
  PROVE  ShiftedTo(w, Shifted(w))
<1>1. PICK e : e = Shifted(w)
  OBVIOUS
<1>2. PICK T \in Tops : T = Top /\ T \in Nat \ {0}
  BY Widths
<1>3. PICK g \in Nat : g = w.rng /\ g >= 1 /\ 256 * g >= T
  BY <1>2, Widths DEF Coder, Wider
<1>4. CASE g >= T
  <2>1. e = w
    BY <1>1, <1>2, <1>3, <1>4 DEF Shifted
  <2> QED
    BY <1>1, <1>2, <1>3, <1>4, <2>1 DEF ShiftedTo, Wider
<1>5. CASE g < T
  <2>1. PICK l \in Nat : l = w.low /\ l < 256 * T
    BY <1>2, Widths DEF Coder, Wider
  <2>2. PICK q \in Nat, r \in Nat : q = l \div T /\ r = l % T /\ l = (T * q) + r /\ r < T /\ q <= 255
    <3>1. l \div T \in Nat /\ l % T \in Nat /\ l = (T * (l \div T)) + (l % T) /\ l % T < T
      BY <1>2 DEF Tops
    <3>2. l \div T <= 255
      BY <1>2, <2>1 DEF Tops
    <3> QED
      BY <3>1, <3>2
  <2>3. PICK b \in Byte : b = q
    BY <2>2 DEF Byte
  <2>4. w = [low |-> w.low, rng |-> w.rng, bytes |-> w.bytes, probs |-> w.probs] /\ w.bytes \in Octets
        /\ Chances(w.probs)
    BY DEF Coder, Wider
  <2>5. e = [w EXCEPT !.rng = 256 * @, !.bytes = Append(@, w.low \div Top),
                      !.low = 256 * (@ % Top)]
    BY <1>1, <1>2, <1>3, <1>5 DEF Shifted
  <2>6. /\ e.rng = 256 * g /\ e.bytes = Append(w.bytes, b) /\ e.low = 256 * r /\ e.probs = w.probs
        /\ e = [low |-> e.low, rng |-> e.rng, bytes |-> e.bytes, probs |-> e.probs]
    <3>1. /\ DOMAIN e = {"low", "rng", "bytes", "probs"}
          /\ e = [k \in {"low", "rng", "bytes", "probs"} |-> e[k]]
      BY <2>4, <2>5
    <3>2. e.rng = 256 * w.rng /\ e.bytes = Append(w.bytes, w.low \div Top)
          /\ e.low = 256 * (w.low % Top) /\ e.probs = w.probs
      BY <2>4, <2>5
    <3>3. w.low \div Top = b /\ w.low % Top = r
      BY <1>2, <2>1, <2>2, <2>3
    <3>4. e = [low |-> e.low, rng |-> e.rng, bytes |-> e.bytes, probs |-> e.probs]
      BY <3>1
    <3> QED
      BY <1>3, <3>2, <3>3, <3>4, Zenon
  <2>7. PICK c \in Nat : c = CodeOf(w.bytes)
    BY ValueIs DEF Wider
  <2>8. PICK n \in Nat \ {0} : n = Len(w.bytes)
    BY ValueIs DEF Wider
  <2>9. /\ e.bytes \in Octets /\ Len(e.bytes) = n + 1
        /\ CodeOf(e.bytes) = (256 * c) + b
    BY <2>4, <2>6, <2>7, <2>8, CodeMore
  <2>10. PICK W \in Nat : W = Wide /\ W = 256 * T /\ Full = W - 1
    BY <1>2, Widths
  <2>11. PICK v \in Nat : v = Value(w) /\ v = (W * c) + l
    <3>1. Value(w) = (W * c) + l
      BY <2>1, <2>7, <2>10 DEF Value
    <3>2. W * c \in Nat
      OBVIOUS
    <3> QED
      BY <3>1, <3>2
  <2>12. Value(e) = 256 * v
    <3>1. Value(e) = (W * ((256 * c) + q)) + (256 * r)
      BY <2>3, <2>6, <2>9, <2>10 DEF Value
    <3>2. W * ((256 * c) + q) = (256 * (W * c)) + (W * q)
      OBVIOUS
    <3>3. W * q = 256 * (T * q)
      BY <1>2, <2>10
    <3>4. PICK x \in Nat, y \in Nat : x = T * q /\ y = W * c
      BY <1>2
    <3>5. Value(e) = (256 * y) + (256 * x) + (256 * r)
      BY <3>1, <3>2, <3>3, <3>4
    <3>6. v = y + (x + r)
      BY <2>2, <2>11, <3>4
    <3> QED
      BY <3>4, <3>5, <3>6
  <2>13. e.low \in 0..Full /\ e.rng \in 1..Full /\ e.rng >= T
    <3>1. 256 * r <= (256 * T) - 1 /\ 256 * g <= (256 * T) - 1
      BY <1>2, <1>5, <2>2
    <3>2. Full = (256 * T) - 1
      BY <2>10
    <3>3. 256 * r \in 0..Full /\ 256 * g \in 1..Full /\ 256 * g >= T
      BY <1>3, <3>1, <3>2
    <3> QED
      BY <2>6, <3>3, Zenon
  <2>14. Value(e) + e.rng <= Wide * Lead(Len(e.bytes))
    <3>1. PICK m \in Nat : m = Lead(n)
      BY <2>8, LeadIs
    <3>2. Lead(n + 1) = 256 * m
      BY <2>8, <3>1, LeadIs
    <3>3. v + g <= W * m
      BY <1>3, <2>8, <2>10, <2>11, <3>1 DEF Coder, Wider
    <3>4. W * (256 * m) = 256 * (W * m) /\ W * m \in Nat
      OBVIOUS
    <3>5. (256 * v) + (256 * g) <= W * (256 * m)
      BY <3>3, <3>4
    <3> QED
      BY <2>6, <2>9, <2>10, <2>12, <3>2, <3>5
  <2>15. Len(e.bytes) >= 1
    BY <2>9
  <2>16. Coder(e)
    BY <2>4, <2>6, <2>9, <2>13, <2>14, <2>15, Zenon DEF Coder
  <2> QED
    BY <1>1, <1>2, <1>3, <1>5, <2>6, <2>8, <2>9, <2>11, <2>12, <2>13, <2>16 DEF ShiftedTo
<1> QED
  BY <1>2, <1>3, <1>4, <1>5

-----------------------------------------------------------------------------
(* The bytes that are written, as a number, are in the encoder's interval. *)

Reach(e) == Len(e.bytes) + RangeBytes

Inside(e, all) ==
  /\ Reach(e) <= Len(all)
  /\ Upto(all, Reach(e)) - Value(e) \in 0..e.rng - 1

LEMMA ReachIs ==
  ASSUME LzmaAssumption, NEW e, Coder(e)
  PROVE  Reach(e) \in Nat /\ Reach(e) >= 1 + RangeBytes /\ RangeBytes \in Nat
<1>1. RangeBytes \in {3, 4}
  BY DEF LzmaAssumption
<1> QED
  BY <1>1, ValueIs DEF Reach

Sunk(low, q) == q \in Nat /\ low = (256 * q) + (low % 256) /\ low % 256 \in 0..255

LEMMA SunkIs ==
  ASSUME NEW low \in Nat
  PROVE  /\ Sunk(low, low \div 256) /\ Sunk(low \div 256, low \div 65536)
         /\ Sunk(low \div 65536, low \div 16777216)
         /\ low < 16777216 => low \div 65536 < 256
         /\ low < 4294967296 => low \div 16777216 < 256
<1>1. PICK q \in Nat, z \in 0..255 : q = low \div 256 /\ z = low % 256 /\ low = (256 * q) + z
  BY SMT
<1>2. PICK p \in Nat, y \in 0..255 : p = q \div 256 /\ y = q % 256 /\ q = (256 * p) + y
  BY SMT
<1>3. PICK o \in Nat, x \in 0..255 : o = p \div 256 /\ x = p % 256 /\ p = (256 * o) + x
  BY SMT
<1>4. low \div 65536 = p
  BY <1>1, <1>2, SMT
<1>5. low \div 16777216 = o
  BY <1>1, <1>2, <1>3, SMT
<1> QED
  BY <1>1, <1>2, <1>3, <1>4, <1>5, SMT DEF Sunk

LEMMA InsideNarrowed ==
  ASSUME LzmaAssumption,
         NEW e, Coder(e), e.rng >= Top, NEW d, d.bit \in {0, 1}, NEW w, Narrower(e, d, w),
         NEW all \in Octets, Inside(w, all)
  PROVE  Inside(e, all)
<1>1. PICK b \in Nat : b = d.bit * Bound(e, d.key)
  <2>1. PICK c \in Nat : c = Bound(e, d.key)
    BY BoundIs
  <2>2. d.bit * c \in Nat
    OBVIOUS
  <2> QED
    BY <2>1, <2>2
<1>2. PICK g \in Nat : g = e.rng
  BY Widths DEF Coder
<1>3. PICK h \in Nat : h = w.rng /\ b + h <= g
  BY <1>1, <1>2, Widths DEF Narrower, Coder
<1>4. PICK v \in Nat : v = Value(e) /\ Value(w) = v + b
  BY <1>1, ValueIs DEF Narrower
<1>5. Reach(w) = Reach(e) /\ Reach(e) \in Nat
  BY ReachIs DEF Narrower, Reach
<1>6. PICK u \in Nat : u = Upto(all, Reach(e))
  BY <1>5, CodeIs, OctetsAre DEF Inside
<1>7. u - (v + b) \in 0..h - 1
  BY <1>3, <1>4, <1>5, <1>6 DEF Inside
<1>8. u - v \in 0..g - 1
  BY <1>3, <1>7
<1> QED
  BY <1>2, <1>4, <1>5, <1>6, <1>8 DEF Inside

LEMMA InsideShifted ==
  ASSUME LzmaAssumption, NEW w, Wider(w), NEW all \in Octets, NEW e, ShiftedTo(w, e), Inside(e, all)
  PROVE  Inside(w, all)
<1>1. PICK g \in Nat : g = w.rng
  BY Widths DEF Wider, Coder
<1>2. PICK T \in Nat : T = Top
  BY Widths
<1>3. CASE g >= T
  BY <1>1, <1>2, <1>3 DEF ShiftedTo
<1>4. CASE ~(g >= T)
  <2>1. PICK n \in Nat : n = Reach(w) /\ n >= 1
    BY ReachIs DEF Wider
  <2>2. Reach(e) = n + 1 /\ e.rng = 256 * g /\ Value(e) = 256 * Value(w)
    <3>1. g < T
      BY <1>4
    <3> QED
      BY <1>1, <1>2, <2>1, <3>1, ValueIs, ReachIs DEF ShiftedTo, Reach, Wider
  <2>3. PICK v \in Nat : v = Value(w)
    BY ValueIs DEF Wider
  <2>4. n + 1 <= Len(all) /\ Len(all) \in Nat
    BY <2>2, OctetsAre DEF Inside
  <2>5. PICK u \in Nat : u = Upto(all, n)
    BY <2>4, CodeIs
  <2>6. PICK b \in 0..255 : b = all[n + 1]
    BY <2>4, OctetsAre
  <2>7. Upto(all, n + 1) = (256 * u) + b
    <3>1. Upto(all, n + 1) = (256 * Upto(all, (n + 1) - 1)) + all[n + 1] /\ (n + 1) - 1 = n
      BY <2>4, CodeIs
    <3> QED
      BY <2>5, <2>6, <3>1
  <2>8. ((256 * u) + b) - (256 * v) \in 0..(256 * g) - 1
    BY <2>2, <2>3, <2>7 DEF Inside
  <2>9. u - v \in 0..g - 1
    BY <2>8
  <2> QED
    BY <1>1, <2>1, <2>3, <2>4, <2>5, <2>9 DEF Inside
<1> QED
  BY <1>3, <1>4

-----------------------------------------------------------------------------
(* The bytes of the end.                                                   *)

Place(low, i) == (low \div 256^(RangeBytes - i)) % 256

LEMMA PlaceIs ==
  ASSUME LzmaAssumption, NEW low \in 0..Full
  PROVE  /\ \A i \in 1..RangeBytes : Place(low, i) \in 0..255
         /\ RangeBytes = 3 => low = 256 * (256 * Place(low, 1) + Place(low, 2)) + Place(low, 3)
         /\ RangeBytes = 4 =>
              low = 256 * (256 * (256 * Place(low, 1) + Place(low, 2)) + Place(low, 3)) + Place(low, 4)
<1>1. RangeBytes \in {3, 4}
  BY DEF LzmaAssumption
<1>2. low \in Nat
  BY Widths
<1>3. PICK p, q, r : p = low \div 256 /\ q = low \div 65536 /\ r = low \div 16777216
  OBVIOUS
<1>4. Sunk(low, p) /\ Sunk(p, q) /\ Sunk(q, r)
  BY <1>2, <1>3, SunkIs, SMT
<1>5. CASE RangeBytes = 3
  <2>1. q < 256
    <3>1. low < 16777216
      BY <1>2, <1>5, SMT DEF Full, Top
    <3> QED
      BY <1>2, <1>3, <3>1, SunkIs, SMT
  <2>2. Place(low, 1) = q % 256 /\ Place(low, 2) = p % 256 /\ Place(low, 3) = low % 256
    <3>1. 256^(3 - 1) = 65536 /\ 256^(3 - 2) = 256 /\ 256^(3 - 3) = 1
      BY SMT
    <3> QED
      BY <1>2, <1>3, <1>5, <3>1, SMT DEF Place
  <2>3. \A i \in 1..RangeBytes : i = 1 \/ i = 2 \/ i = 3
    BY <1>5
  <2>4. Place(low, 1) = q /\ q \in 0..255 /\ p % 256 \in 0..255 /\ low % 256 \in 0..255
    BY <1>2, <1>4, <2>1, <2>2 DEF Sunk
  <2>5. low = 256 * (256 * Place(low, 1) + Place(low, 2)) + Place(low, 3)
    <3>1. PICK x, y, z : x = Place(low, 1) /\ y = Place(low, 2) /\ z = Place(low, 3)
      OBVIOUS
    <3>2. low = 256 * (256 * x + y) + z
      BY <1>2, <1>4, <2>2, <2>4, <3>1, SMT DEF Sunk
    <3> QED
      BY <3>1, <3>2, Zenon
  <2>6. \A i \in 1..RangeBytes : Place(low, i) \in 0..255
    BY <2>2, <2>3, <2>4, Zenon
  <2> QED
    <3>1. RangeBytes # 4
      BY <1>5
    <3> QED
      BY <2>5, <2>6, <3>1, Zenon
<1>6. CASE RangeBytes = 4
  <2>1. r < 256
    <3>1. low < 4294967296
      BY <1>2, <1>6, SMT DEF Full, Top
    <3> QED
      BY <1>2, <1>3, <3>1, SunkIs, SMT
  <2>2. /\ Place(low, 1) = r % 256 /\ Place(low, 2) = q % 256 /\ Place(low, 3) = p % 256
        /\ Place(low, 4) = low % 256
    <3>1. 256^(4 - 1) = 16777216 /\ 256^(4 - 2) = 65536 /\ 256^(4 - 3) = 256 /\ 256^(4 - 4) = 1
      BY SMT
    <3> QED
      BY <1>2, <1>3, <1>6, <3>1, SMT DEF Place
  <2>3. \A i \in 1..RangeBytes : i = 1 \/ i = 2 \/ i = 3 \/ i = 4
    BY <1>6
  <2>4. /\ Place(low, 1) = r /\ r \in 0..255 /\ q % 256 \in 0..255 /\ p % 256 \in 0..255
        /\ low % 256 \in 0..255
    BY <1>2, <1>4, <2>1, <2>2 DEF Sunk
  <2>5. low = 256 * (256 * (256 * Place(low, 1) + Place(low, 2)) + Place(low, 3)) + Place(low, 4)
    <3>1. PICK w, x, y, z : w = Place(low, 1) /\ x = Place(low, 2) /\ y = Place(low, 3) /\ z = Place(low, 4)
      OBVIOUS
    <3>2. q \in Nat /\ p \in Nat /\ w \in Nat /\ x \in Nat /\ y \in Nat /\ z \in Nat
      BY <1>4, <2>2, <2>4, <3>1, SMT DEF Sunk
    <3>3. q = 256 * w + x
      BY <1>4, <2>2, <2>4, <3>1 DEF Sunk
    <3>4. p = 256 * q + y
      BY <1>4, <2>2, <3>1 DEF Sunk
    <3>5. low = 256 * p + z
      BY <1>4, <2>2, <3>1 DEF Sunk
    <3>6. low = 256 * (256 * (256 * w + x) + y) + z
      BY <3>3, <3>4, <3>5, Zenon
    <3> QED
      BY <3>1, <3>6, Zenon
  <2>6. \A i \in 1..RangeBytes : Place(low, i) \in 0..255
    BY <2>2, <2>3, <2>4, Zenon
  <2> QED
    <3>1. RangeBytes # 3
      BY <1>6
    <3> QED
      BY <2>5, <2>6, <3>1, Zenon
<1> QED
  BY <1>1, <1>5, <1>6

LEMMA FlushedIs ==
  ASSUME LzmaAssumption, NEW e, Coder(e)
  PROVE  /\ Flushed(e) \in Octets /\ Len(Flushed(e)) = Reach(e)
         /\ Inside(e, Flushed(e))
<1>1. RangeBytes \in {3, 4} /\ RangeBytes \in Nat
  BY DEF LzmaAssumption
<1>2. PICK low \in 0..Full : low = e.low
  BY DEF Coder
<1>3. PICK n \in Nat : n = Len(e.bytes) /\ n >= 1
  BY ValueIs
<1>4. PICK all : all = Flushed(e)
  OBVIOUS
<1>5. PICK tail : tail = [i \in 1..RangeBytes |-> Place(low, i)]
  OBVIOUS
<1>6. tail \in Octets /\ Len(tail) = RangeBytes
  <2>1. \A i \in 1..RangeBytes : Place(low, i) \in Byte
    BY PlaceIs DEF Byte
  <2>2. tail \in [1..RangeBytes -> Byte]
    BY <1>5, <2>1
  <2> QED
    BY <1>1, <2>2 DEF Octets
<1>7. all = e.bytes \o tail
  BY <1>2, <1>4, <1>5 DEF Flushed, Place
<1>8. e.bytes \in Octets
  BY DEF Coder
<1>9. /\ all \in Octets /\ Len(all) = n + RangeBytes
      /\ \A k \in 1..n : all[k] = e.bytes[k]
      /\ \A i \in 1..RangeBytes : all[n + i] = tail[i]
  <2>1. e.bytes \in Seq(Byte) /\ tail \in Seq(Byte)
    BY <1>6, <1>8 DEF Octets
  <2>2. all \in Seq(Byte) /\ Len(all) = n + RangeBytes
    <3>1. e.bytes \o tail \in Seq(Byte) /\ Len(e.bytes \o tail) = Len(e.bytes) + Len(tail)
      BY <2>1, Q!Joined
    <3> QED
      BY <1>3, <1>6, <1>7, <3>1
  <2>3. \A k \in 1..n : all[k] = e.bytes[k]
    BY <1>3, <1>6, <1>7, <2>1
  <2>4. \A i \in 1..RangeBytes : all[n + i] = tail[i]
    BY <1>1, <1>3, <1>6, <1>7, <2>1
  <2> QED
    BY <2>2, <2>3, <2>4 DEF Octets
<1>10. PICK c \in Nat : c = CodeOf(e.bytes)
  BY ValueIs
<1>11. Upto(all, n) = c
  <2>1. Upto(all, n) = Upto(e.bytes, n)
    BY <1>1, <1>3, <1>8, <1>9, SameUpto
  <2> QED
    BY <1>3, <1>8, <1>10, <2>1, CodeIs
<1>12. \A i \in 1..RangeBytes : Upto(all, n + i) = (256 * Upto(all, (n + i) - 1)) + Place(low, i)
  <2> TAKE i \in 1..RangeBytes
  <2>1. n + i \in 1..Len(all)
    BY <1>1, <1>3, <1>9
  <2>2. Upto(all, n + i) = (256 * Upto(all, (n + i) - 1)) + all[n + i]
    BY <1>9, <2>1, CodeIs
  <2> QED
    BY <1>5, <1>9, <2>2
<1>13. Upto(all, n + RangeBytes) = (Wide * c) + low
  <2>1. CASE RangeBytes = 3
    <3>1. PICK a \in 0..255, b \in 0..255, d \in 0..255 :
             a = Place(low, 1) /\ b = Place(low, 2) /\ d = Place(low, 3)
      <4>1. 1 \in 1..RangeBytes /\ 2 \in 1..RangeBytes /\ 3 \in 1..RangeBytes
        BY <2>1
      <4> QED
        BY <4>1, PlaceIs, Zenon
    <3>2. low = 256 * (256 * a + b) + d
      BY <2>1, <3>1, PlaceIs
    <3>3. Upto(all, n + 1) = (256 * c) + a
      <4>1. 1 \in 1..RangeBytes /\ (n + 1) - 1 = n
        BY <2>1
      <4> QED
        BY <1>11, <1>12, <3>1, <4>1
    <3>4. Upto(all, n + 2) = (256 * ((256 * c) + a)) + b
      <4>1. 2 \in 1..RangeBytes /\ (n + 2) - 1 = n + 1
        BY <2>1
      <4> QED
        BY <1>12, <3>1, <3>3, <4>1
    <3>5. Upto(all, n + 3) = (256 * ((256 * ((256 * c) + a)) + b)) + d
      <4>1. 3 \in 1..RangeBytes /\ (n + 3) - 1 = n + 2
        BY <2>1
      <4> QED
        BY <1>12, <3>1, <3>4, <4>1
    <3>6. Wide = 16777216
      BY <2>1, SMT DEF Wide, Top
    <3> QED
      BY <2>1, <3>2, <3>5, <3>6, SMT
  <2>2. CASE RangeBytes = 4
    <3>1. PICK a \in 0..255, b \in 0..255, d \in 0..255, g \in 0..255 :
             a = Place(low, 1) /\ b = Place(low, 2) /\ d = Place(low, 3) /\ g = Place(low, 4)
      <4>1. /\ 1 \in 1..RangeBytes /\ 2 \in 1..RangeBytes /\ 3 \in 1..RangeBytes
            /\ 4 \in 1..RangeBytes
        BY <2>2
      <4> QED
        BY <4>1, PlaceIs, Zenon
    <3>2. low = 256 * (256 * (256 * a + b) + d) + g
      BY <2>2, <3>1, PlaceIs
    <3>3. Upto(all, n + 1) = (256 * c) + a
      <4>1. 1 \in 1..RangeBytes /\ (n + 1) - 1 = n
        BY <2>2
      <4> QED
        BY <1>11, <1>12, <3>1, <4>1
    <3>4. Upto(all, n + 2) = (256 * ((256 * c) + a)) + b
      <4>1. 2 \in 1..RangeBytes /\ (n + 2) - 1 = n + 1
        BY <2>2
      <4> QED
        BY <1>12, <3>1, <3>3, <4>1
    <3>5. Upto(all, n + 3) = (256 * ((256 * ((256 * c) + a)) + b)) + d
      <4>1. 3 \in 1..RangeBytes /\ (n + 3) - 1 = n + 2
        BY <2>2
      <4> QED
        BY <1>12, <3>1, <3>4, <4>1
    <3>6. Upto(all, n + 4) = (256 * ((256 * ((256 * ((256 * c) + a)) + b)) + d)) + g
      <4>1. 4 \in 1..RangeBytes /\ (n + 4) - 1 = n + 3
        BY <2>2
      <4> QED
        BY <1>12, <3>1, <3>5, <4>1
    <3>7. Wide = 4294967296
      BY <2>2, SMT DEF Wide, Top
    <3> QED
      BY <2>2, <3>2, <3>6, <3>7, SMT
  <2> QED
    BY <1>1, <2>1, <2>2
<1>14. Value(e) = (Wide * c) + low /\ Reach(e) = n + RangeBytes
  BY <1>2, <1>3, <1>10 DEF Value, Reach
<1>15. Upto(all, Reach(e)) - Value(e) \in 0..e.rng - 1
  <2>1. PICK x \in Nat : x = (Wide * c) + low
    BY <1>14, ValueIs
  <2>2. x - x \in 0..e.rng - 1
    BY Widths DEF Coder
  <2> QED
    BY <1>13, <1>14, <2>1, <2>2
<1> QED
  BY <1>1, <1>3, <1>4, <1>9, <1>14, <1>15 DEF Inside

-----------------------------------------------------------------------------
(* Decisions, and the encoders that they lead to.                          *)

(* u[k] is the encoder after k decisions, before bytes are shifted out.    *)
Coding(ds, u, n) ==
  /\ u[0] = Fresh
  /\ \A k \in 1..n : ds[k].bit \in {0, 1} /\ u[k] = Narrowed(Shifted(u[k - 1]), ds[k])

LEMMA CodingIs ==
  ASSUME LzmaAssumption, NEW ds, NEW u, NEW n \in Nat, Coding(ds, u, n)
  PROVE  /\ \A k \in 0..n : Wider(u[k]) /\ ShiftedTo(u[k], Shifted(u[k]))
         /\ \A k \in 1..n : Narrower(Shifted(u[k - 1]), ds[k], u[k])
<1>1. Wider(u[0])
  <2>1. PICK T \in Nat, g \in Nat : T = Top /\ g = Fresh.rng /\ g >= T
    BY FreshIs, Widths DEF Coder
  <2> QED
    BY <2>1, FreshIs DEF Coding, Wider
<1>2. ASSUME NEW k \in 1..n, Wider(u[k - 1])
      PROVE  Wider(u[k]) /\ Narrower(Shifted(u[k - 1]), ds[k], u[k])
  <2>1. ShiftedTo(u[k - 1], Shifted(u[k - 1]))
    BY <1>2, ShiftedIs
  <2>2. Narrower(Shifted(u[k - 1]), ds[k], u[k])
    BY <2>1, NarrowedIs DEF ShiftedTo, Coding
  <2> QED
    BY <2>2 DEF Narrower, Wider
<1> DEFINE G == {k \in 0..n : Wider(u[k])}
<1>3. 0 \in G /\ Q!Climbs(G, n)
  BY <1>1, <1>2 DEF Q!Climbs
<1> HIDE DEF G
<1>4. \A k \in 0..n : k \in G
  BY <1>3, Q!Climbing
<1>5. \A k \in 0..n : Wider(u[k])
  BY <1>4 DEF G
<1>6. \A k \in 1..n : k - 1 \in 0..n
  OBVIOUS
<1> QED
  BY <1>2, <1>5, <1>6, ShiftedIs

(* What is written at the end is in all of their intervals.                *)
LEMMA CodingInside ==
  ASSUME LzmaAssumption, NEW ds, NEW u, NEW n \in Nat, Coding(ds, u, n),
         NEW all, all = Flushed(Shifted(u[n]))
  PROVE  /\ all \in Octets
         /\ \A k \in 0..n : Inside(u[k], all) /\ Inside(Shifted(u[k]), all)
<1>1. /\ \A k \in 0..n : Wider(u[k]) /\ ShiftedTo(u[k], Shifted(u[k]))
      /\ \A k \in 1..n : Narrower(Shifted(u[k - 1]), ds[k], u[k])
  BY CodingIs
<1>2. all \in Octets /\ Inside(Shifted(u[n]), all)
  BY <1>1, FlushedIs DEF ShiftedTo
<1>3. ASSUME NEW k \in 0..n, Inside(Shifted(u[k]), all)
      PROVE  Inside(u[k], all)
  BY <1>1, <1>2, <1>3, InsideShifted
<1>4. ASSUME NEW k \in 1..n, Inside(u[k], all)
      PROVE  Inside(Shifted(u[k - 1]), all)
  <2>1. Narrower(Shifted(u[k - 1]), ds[k], u[k]) /\ ds[k].bit \in {0, 1}
    BY <1>1 DEF Coding
  <2>2. ShiftedTo(u[k - 1], Shifted(u[k - 1]))
    BY <1>1
  <2> QED
    BY <1>2, <1>4, <2>1, <2>2, InsideNarrowed DEF ShiftedTo
<1> DEFINE G == {j \in 0..n : Inside(Shifted(u[n - j]), all)}
<1>5. ASSUME NEW j \in 1..n, j - 1 \in G
      PROVE  j \in G
  <2>1. n - (j - 1) \in 1..n /\ (n - (j - 1)) - 1 = n - j /\ n - (j - 1) \in 0..n
    OBVIOUS
  <2> QED
    BY <1>3, <1>4, <1>5, <2>1
<1>6. 0 \in G /\ Q!Climbs(G, n)
  BY <1>2, <1>5 DEF Q!Climbs
<1> HIDE DEF G
<1>7. \A j \in 0..n : j \in G
  BY <1>6, Q!Climbing
<1>8. ASSUME NEW k \in 0..n
      PROVE  Inside(Shifted(u[k]), all)
  <2>1. n - k \in 0..n /\ n - (n - k) = k
    OBVIOUS
  <2> QED
    BY <1>7, <2>1 DEF G
<1> QED
  BY <1>2, <1>3, <1>8

-----------------------------------------------------------------------------
(* The decoder.  A tape t has decisions ds, as many as m, the encoders u   *)
(* that they lead to, all bytes and how many of them there are.            *)

Tape(t) ==
  /\ t.m \in Nat /\ t.n \in 0..Len(t.all)
  /\ Coding(t.ds, t.u, t.m) /\ t.all = Flushed(Shifted(t.u[t.m]))

CoderFields == {"rng", "code", "rest", "probs", "m", "same", "ok"}

Shape(d) == d = [f \in CoderFields |-> d[f]] /\ d.ok \in BOOLEAN

(* The decoder is where the encoder was when it was w.                     *)
At(t, d, w) ==
  /\ d.rng = w.rng /\ d.probs = w.probs
  /\ d.code = Upto(t.all, Reach(w)) - Value(w)
  /\ Reach(w) <= t.n /\ d.rest = SubSeq(t.all, Reach(w) + 1, t.n)

Gets(t, d, w) == Shape(d) /\ (d.ok => At(t, d, w)) /\ (~d.ok => t.n < Len(t.all))

(* It has read k decisions, or a byte was missing.                         *)
Reads(t, d, k) == Gets(t, d, t.u[k])

LEMMA TapeIs ==
  ASSUME LzmaAssumption, NEW t, Tape(t)
  PROVE  /\ t.all \in Octets /\ Len(t.all) \in Nat /\ t.n \in Nat /\ t.n <= Len(t.all)
         /\ \A k \in 0..t.m :
              /\ Wider(t.u[k]) /\ ShiftedTo(t.u[k], Shifted(t.u[k]))
              /\ Inside(t.u[k], t.all) /\ Inside(Shifted(t.u[k]), t.all)
         /\ \A k \in 1..t.m : /\ Narrower(Shifted(t.u[k - 1]), t.ds[k], t.u[k])
                              /\ t.ds[k].bit \in {0, 1}
<1>1. /\ t.m \in Nat /\ t.n \in 0..Len(t.all) /\ Coding(t.ds, t.u, t.m)
      /\ t.all = Flushed(Shifted(t.u[t.m]))
  BY DEF Tape
<1>2. /\ t.all \in Octets
      /\ \A k \in 0..t.m : Inside(t.u[k], t.all) /\ Inside(Shifted(t.u[k]), t.all)
  BY <1>1, CodingInside
<1>3. Len(t.all) \in Nat
  BY <1>2, OctetsAre
<1>4. t.n \in Nat /\ t.n <= Len(t.all)
  BY <1>1, <1>3
<1>5. /\ \A k \in 0..t.m : Wider(t.u[k]) /\ ShiftedTo(t.u[k], Shifted(t.u[k]))
      /\ \A k \in 1..t.m : Narrower(Shifted(t.u[k - 1]), t.ds[k], t.u[k])
  BY <1>1, CodingIs
<1>6. \A k \in 1..t.m : t.ds[k].bit \in {0, 1}
  BY <1>1 DEF Coding
<1> QED
  BY <1>2, <1>3, <1>4, <1>5, <1>6

(* The part of w behind k, of which there may be none.                     *)
Behind(w, n, k, r) ==
  /\ r = <<>> <=> k = n
  /\ k < n => Head(r) = w[k + 1] /\ Tail(r) = SubSeq(w, k + 2, n)

LEMMA TailIs ==
  ASSUME NEW w \in Octets, NEW n \in Nat, n <= Len(w), NEW k \in Nat, k <= n,
         NEW r, r = SubSeq(w, k + 1, n)
  PROVE  Behind(w, n, k, r)
<1>1. w \in Seq(Byte)
  BY DEF Octets
<1>2. CASE k = n
  BY <1>1, <1>2 DEF Behind
<1>3. CASE k < n
  <2>1. r \in Seq(Byte) /\ Len(r) = n - k /\ \A i \in 1..n - k : r[i] = w[k + i]
    BY <1>1, <1>3
  <2>2. r # <<>> /\ Head(r) = w[k + 1]
    BY <1>3, <2>1
  <2>3. Tail(r) = SubSeq(w, k + 2, n)
    <3> DEFINE a == Tail(r)
               z == SubSeq(w, k + 2, n)
    <3>1. a \in Seq(Byte) /\ Len(a) = (n - k) - 1 /\ \A i \in 1..(n - k) - 1 : a[i] = w[(k + 1) + i]
      <4>1. /\ a \in Seq(Byte) /\ Len(a) = (n - k) - 1
            /\ \A i \in 1..(n - k) - 1 : a[i] = r[i + 1]
        BY <2>1, <2>2
      <4>2. ASSUME NEW i \in 1..(n - k) - 1
            PROVE  r[i + 1] = w[(k + 1) + i]
        <5>1. i + 1 \in 1..n - k /\ k + (i + 1) = (k + 1) + i
          BY <1>3
        <5> QED
          BY <2>1, <5>1
      <4> QED
        BY <4>1, <4>2
    <3>2. z \in Seq(Byte) /\ Len(z) = (n - k) - 1 /\ \A i \in 1..(n - k) - 1 : z[i] = w[(k + 1) + i]
      BY <1>1, <1>3
    <3> HIDE DEF a, z
    <3>3. a = z
      BY <3>1, <3>2, SeqEqual
    <3> QED
      BY <3>3 DEF a, z
  <2> QED
    BY <1>3, <2>2, <2>3 DEF Behind
<1> QED
  BY <1>2, <1>3

-----------------------------------------------------------------------------
(* A byte is taken in where one was shifted out.                           *)

TakenIn(t, d, k, e) ==
  /\ Gets(t, e, Shifted(t.u[k]))
  /\ e.m = d.m /\ e.same = d.same /\ e.probs = d.probs

LEMMA NormalizedIs ==
  ASSUME LzmaAssumption, NEW t, Tape(t), NEW k \in 0..t.m, NEW d, Reads(t, d, k), d.ok
  PROVE  TakenIn(t, d, k, Normalized(d))
<1>1. PICK w, v, e : w = t.u[k] /\ v = Shifted(w) /\ e = Normalized(d)
  OBVIOUS
<1>2. Wider(w) /\ ShiftedTo(w, v) /\ Inside(w, t.all) /\ Inside(v, t.all)
  BY <1>1, TapeIs
<1>3. t.all \in Octets /\ t.n \in Nat /\ t.n <= Len(t.all) /\ Len(t.all) \in Nat
  BY TapeIs
<1>4. Shape(d) /\ At(t, d, w)
  BY <1>1 DEF Reads, Gets
<1>5. PICK T \in Nat, g \in Nat : T = Top /\ g = w.rng
  BY <1>2, Widths DEF Wider, Coder
<1>6. CASE g >= T
  <2>1. v = w /\ e = d
    BY <1>1, <1>2, <1>4, <1>5, <1>6 DEF ShiftedTo, Normalized, At
  <2> QED
    BY <1>1, <1>4, <2>1 DEF TakenIn, Gets
<1>7. CASE ~(g >= T)
  <2>1. PICK n \in Nat : n = Reach(w) /\ n >= 1
    BY <1>2, ReachIs DEF Wider
  <2>2. Reach(v) = n + 1 /\ v.rng = 256 * g /\ v.probs = w.probs /\ Value(v) = 256 * Value(w)
    <3>1. g < T
      BY <1>7
    <3> QED
      BY <1>2, <1>5, <2>1, <3>1, ValueIs, ReachIs DEF ShiftedTo, Reach, Wider
  <2>3. n + 1 <= Len(t.all)
    BY <1>2, <2>2 DEF Inside
  <2>4. n <= t.n /\ d.rest = SubSeq(t.all, n + 1, t.n)
    BY <1>4, <2>1 DEF At
  <2>8. Behind(t.all, t.n, n, d.rest)
    BY <1>3, <2>4, TailIs
  <2>5. e = IF d.rest = <<>> THEN [d EXCEPT !.ok = FALSE]
              ELSE [d EXCEPT !.rng = 256 * @, !.code = (256 * @) + Head(d.rest), !.rest = Tail(@)]
    BY <1>1, <1>4, <1>5, <1>7 DEF Normalized, At
  <2>6. CASE n = t.n
    <3>1. d.rest = <<>>
      BY <2>6, <2>8 DEF Behind
    <3>2. e = [d EXCEPT !.ok = FALSE]
      BY <2>5, <3>1
    <3>3. Shape(e) /\ ~e.ok /\ e.m = d.m /\ e.same = d.same /\ e.probs = d.probs
      BY <1>4, <3>2 DEF Shape, CoderFields
    <3>4. t.n < Len(t.all)
      BY <1>3, <2>3, <2>6
    <3> QED
      BY <1>1, <3>3, <3>4 DEF TakenIn, Gets
  <2>7. CASE n < t.n
    <3>1. d.rest # <<>> /\ Head(d.rest) = t.all[n + 1] /\ Tail(d.rest) = SubSeq(t.all, n + 2, t.n)
      <4>1. n # t.n
        BY <1>3, <2>7
      <4> QED
        BY <2>7, <2>8, <4>1, Zenon DEF Behind
    <3>2. e = [d EXCEPT !.rng = 256 * @, !.code = (256 * @) + Head(d.rest), !.rest = Tail(@)]
      BY <2>5, <3>1
    <3>3. /\ Shape(e) /\ e.ok /\ e.m = d.m /\ e.same = d.same /\ e.probs = d.probs
          /\ e.rng = 256 * d.rng /\ e.code = (256 * d.code) + t.all[n + 1]
          /\ e.rest = SubSeq(t.all, n + 2, t.n)
      BY <1>4, <3>1, <3>2 DEF Shape, CoderFields
    <3>4. PICK a \in Nat : a = Value(w)
      BY <1>2, ValueIs DEF Wider
    <3>9. n \in 0..Len(t.all) /\ n + 1 \in 1..Len(t.all) /\ (n + 1) - 1 = n
      BY <1>3, <2>1, <2>3
    <3>5. PICK b \in 0..255 : b = t.all[n + 1]
      BY <1>3, <3>9, OctetsAre, Zenon
    <3>6. PICK x \in Nat : x = Upto(t.all, n) /\ Upto(t.all, n + 1) = (256 * x) + b
      <4>1. Upto(t.all, n) \in Nat
        BY <1>3, <3>9, CodeIs
      <4>2. Upto(t.all, n + 1) = (256 * Upto(t.all, (n + 1) - 1)) + t.all[n + 1]
        BY <1>3, <3>9, CodeIs
      <4> QED
        BY <3>5, <3>9, <4>1, <4>2
    <3>7. e.code = Upto(t.all, n + 1) - (256 * a)
      <4>1. d.code = x - a
        BY <1>4, <2>1, <3>4, <3>6 DEF At
      <4> QED
        BY <3>3, <3>5, <3>6, <4>1
    <3>8. At(t, e, v)
      <4>1. e.rng = v.rng /\ e.probs = v.probs
        BY <1>4, <1>5, <2>2, <3>3 DEF At
      <4>2. (n + 1) + 1 = n + 2 /\ n + 1 <= t.n
        BY <1>3, <2>7
      <4> QED
        BY <2>2, <3>3, <3>4, <3>7, <4>1, <4>2 DEF At
    <3> QED
      BY <1>1, <3>3, <3>8 DEF TakenIn, Gets
  <2> QED
    BY <1>3, <2>4, <2>6, <2>7
<1> QED
  BY <1>5, <1>6, <1>7

-----------------------------------------------------------------------------
(* A decision is read.                                                     *)

(* r is what d becomes with decision k.                                    *)
BitOf(t, d, k, r) ==
  /\ Reads(t, r, k) /\ r.same = d.same
  /\ r.ok => d.ok /\ r.m = (2 * d.m) + t.ds[k].bit
  /\ ~d.ok => r = d

LEMMA LostStays ==
  ASSUME NEW t, NEW d, NEW w, Gets(t, d, w), ~d.ok, NEW x
  PROVE  Gets(t, d, x)
BY DEF Gets

(* What the decoder tells the bits apart by.                               *)
LEMMA SideIs ==
  ASSUME LzmaAssumption,
         NEW t, Tape(t), NEW k \in 1..t.m, NEW d, d.ok, Gets(t, d, Shifted(t.u[k - 1])),
         NEW by, by = Bound(Shifted(t.u[k - 1]), t.ds[k].key)
  PROVE  /\ d.rng \in Nat /\ d.code \in Nat /\ by \in Nat
         /\ t.u[k].rng = IF t.ds[k].key = <<>> \/ t.ds[k].bit = 0 THEN by ELSE d.rng - by
         /\ t.u[k].probs = Learnt(d.probs, t.ds[k])
         /\ t.ds[k].bit = 0 => d.code < by /\ d.code = Upto(t.all, Reach(t.u[k])) - Value(t.u[k])
         /\ t.ds[k].bit = 1 =>
              d.code >= by /\ d.code - by = Upto(t.all, Reach(t.u[k])) - Value(t.u[k])
         /\ Reach(t.u[k]) <= t.n /\ d.rest = SubSeq(t.all, Reach(t.u[k]) + 1, t.n)
<1>1. PICK v, w, b : v = Shifted(t.u[k - 1]) /\ w = t.u[k] /\ b = t.ds[k]
  OBVIOUS
<1>2. k - 1 \in 0..t.m /\ k \in 0..t.m
  BY DEF Tape
<1>3. /\ ShiftedTo(t.u[k - 1], v) /\ Inside(v, t.all) /\ Inside(w, t.all) /\ Wider(w)
      /\ Narrower(v, b, w) /\ b.bit \in {0, 1} /\ t.all \in Octets
  BY <1>1, <1>2, TapeIs
<1>4. At(t, d, v) /\ Coder(v) /\ v.rng >= Top
  BY <1>1, <1>3 DEF Gets, ShiftedTo
<1>5. PICK g \in Nat : g = v.rng /\ g = d.rng
  BY <1>4, Widths DEF Coder, At
<1>6. by \in Nat /\ by = Bound(v, b.key)
  BY <1>1, <1>4, BoundIs
<1>7. PICK a \in Nat : a = Value(v)
  BY <1>4, ValueIs
<1>8. PICK n \in Nat : n = Reach(v) /\ n = Reach(w) /\ n <= Len(t.all)
  BY <1>3, <1>4, ReachIs DEF Narrower, Reach, Inside
<1>9. PICK x \in Nat : x = Upto(t.all, n)
  BY <1>3, <1>8, CodeIs, OctetsAre
<1>10. d.code = x - a /\ x - a \in Nat
  <2>1. d.code = x - a
    BY <1>4, <1>7, <1>8, <1>9 DEF At
  <2>2. x - a \in 0..g - 1
    BY <1>3, <1>5, <1>7, <1>8, <1>9 DEF Inside
  <2> QED
    BY <2>1, <2>2
<1>11. PICK h : h = w.rng /\ h = IF b.key = <<>> \/ b.bit = 0 THEN by ELSE g - by
  BY <1>3, <1>5, <1>6 DEF Narrower, Width
<1>12. Value(w) = a + (b.bit * by)
  BY <1>3, <1>6, <1>7 DEF Narrower
<1>13. x - Value(w) \in 0..h - 1 /\ h \in Nat
  BY <1>3, <1>8, <1>9, <1>11, Widths DEF Inside, Wider, Coder
<1>14. CASE b.bit = 0
  <2>1. Value(w) = a /\ h = by
    BY <1>6, <1>7, <1>11, <1>12, <1>14
  <2>2. d.code < by
    BY <1>6, <1>7, <1>9, <1>10, <1>13, <2>1
  <2> QED
    BY <1>1, <1>3, <1>4, <1>5, <1>6, <1>8, <1>9, <1>10, <1>11, <1>14, <2>1, <2>2 DEF Narrower, At
<1>15. CASE b.bit = 1
  <2>1. Value(w) = a + by
    BY <1>6, <1>7, <1>12, <1>15
  <2>2. d.code >= by /\ d.code - by = x - Value(w)
    BY <1>6, <1>7, <1>9, <1>10, <1>13, <2>1
  <2> QED
    BY <1>1, <1>3, <1>4, <1>5, <1>6, <1>8, <1>9, <1>10, <1>11, <1>15, <2>1, <2>2 DEF Narrower, At
<1> QED
  BY <1>1, <1>3, <1>14, <1>15

LEMMA BitRead ==
  ASSUME LzmaAssumption, NEW t, Tape(t), NEW k \in 1..t.m, NEW d, Reads(t, d, k - 1),
         d.ok => d.m \in Nat, NEW key, key # <<>>, d.ok => t.ds[k].key = key
  PROVE  BitOf(t, d, k, DecodeBit(d, key))
<1>1. PICK r, e, p : /\ r = DecodeBit(d, key) /\ e = Normalized(d)
                     /\ p = Probability(d.probs, key)
  OBVIOUS
<1>2. r = AtProbability(e, key, p)
  BY <1>1 DEF DecodeBit
<1>3. CASE ~d.ok
  <2>1. e = d
    BY <1>1, <1>3 DEF Normalized
  <2>2. r = d
    BY <1>2, <1>3, <2>1 DEF AtProbability
  <2> QED
    BY <1>1, <1>3, <2>2, LostStays DEF BitOf, Reads
<1>4. CASE d.ok
  <2>1. k - 1 \in 0..t.m
    BY DEF Tape
  <2>2. TakenIn(t, d, k - 1, e)
    BY <1>1, <1>4, <2>1, NormalizedIs
  <2>3. CASE ~e.ok
    <3>1. r = e
      BY <1>2, <2>3 DEF AtProbability
    <3> QED
      BY <1>1, <1>4, <2>2, <2>3, <3>1, LostStays DEF BitOf, Reads, TakenIn
  <2>4. CASE e.ok
    <3>1. PICK v, w, b : v = Shifted(t.u[k - 1]) /\ w = t.u[k] /\ b = t.ds[k]
      OBVIOUS
    <3>2. Gets(t, e, v) /\ e.m = d.m /\ e.same = d.same /\ e.probs = d.probs /\ b.key = key
      BY <1>4, <2>2, <3>1 DEF TakenIn
    <3>3. e.rng = v.rng /\ e.probs = v.probs
      BY <2>4, <3>2 DEF Gets, At
    <3>4. PICK by : by = Bound(v, b.key)
      OBVIOUS
    <3>5. by = (e.rng \div 2048) * p
      BY <1>1, <3>2, <3>3, <3>4, SMT DEF Bound
    <3>6. /\ e.rng \in Nat /\ e.code \in Nat /\ by \in Nat
          /\ w.rng = IF b.key = <<>> \/ b.bit = 0 THEN by ELSE e.rng - by
          /\ w.probs = Learnt(e.probs, b)
          /\ b.bit = 0 => e.code < by /\ e.code = Upto(t.all, Reach(w)) - Value(w)
          /\ b.bit = 1 => e.code >= by /\ e.code - by = Upto(t.all, Reach(w)) - Value(w)
          /\ Reach(w) <= t.n /\ e.rest = SubSeq(t.all, Reach(w) + 1, t.n)
      BY <2>4, <3>1, <3>2, <3>4, SideIs
    <3>7. b.bit \in {0, 1}
      BY <3>1, TapeIs
    <3>8. /\ r = Decided(e, key, p, by)
      BY <1>2, <2>4, <3>5 DEF AtProbability
    <3>9. Shape(e)
      BY <3>2 DEF Gets
    <3>10. CASE b.bit = 0
      <4>1. r = [e EXCEPT !.rng = by, !.m = 2 * @,
                          !.probs = WithProbability(@, key, Likelier(p))]
        BY <3>6, <3>8, <3>10 DEF Decided
      <4>2. /\ Shape(r) /\ r.ok = e.ok /\ r.rng = by /\ r.code = e.code /\ r.rest = e.rest
            /\ r.m = 2 * e.m /\ r.same = e.same
            /\ r.probs = WithProbability(e.probs, key, Likelier(p))
        BY <3>9, <4>1 DEF Shape, CoderFields
      <4>3. w.rng = by
        BY <3>6, <3>10
      <4>4. w.probs = r.probs
        BY <1>1, <3>2, <3>6, <3>10, <4>2 DEF Learnt
      <4>5. At(t, r, w)
        BY <3>6, <3>10, <4>2, <4>3, <4>4 DEF At
      <4>6. r.m = (2 * d.m) + b.bit
        BY <1>4, <3>2, <3>10, <4>2
      <4> QED
        BY <1>1, <1>4, <2>4, <3>1, <3>2, <4>2, <4>5, <4>6 DEF BitOf, Reads, Gets
    <3>11. CASE b.bit = 1
      <4>1. r = [e EXCEPT !.rng = @ - by, !.code = @ - by, !.m = (2 * @) + 1,
                          !.probs = WithProbability(@, key, Rarer(p))]
        BY <3>6, <3>8, <3>11 DEF Decided
      <4>2. /\ Shape(r) /\ r.ok = e.ok /\ r.rng = e.rng - by /\ r.code = e.code - by /\ r.rest = e.rest
            /\ r.m = (2 * e.m) + 1 /\ r.same = e.same
            /\ r.probs = WithProbability(e.probs, key, Rarer(p))
        BY <3>9, <4>1 DEF Shape, CoderFields
      <4>3. w.rng = e.rng - by
        BY <3>2, <3>6, <3>11
      <4>4. w.probs = r.probs
        BY <1>1, <3>2, <3>6, <3>11, <4>2 DEF Learnt
      <4>5. At(t, r, w)
        BY <3>6, <3>11, <4>2, <4>3, <4>4 DEF At
      <4> QED
        BY <1>1, <1>4, <2>4, <3>1, <3>2, <3>11, <4>2, <4>5 DEF BitOf, Reads, Gets
    <3> QED
      BY <3>7, <3>10, <3>11
  <2> QED
    BY <2>3, <2>4
<1> QED
  BY <1>3, <1>4

(* A bit that is read without a probability.                               *)
HalfOf(t, d, k, r) ==
  /\ Reads(t, r, k) /\ r.same = d.same
  /\ r.ok => d.ok /\ r.m = (2 * d.m) + t.ds[k].bit

LEMMA HalfRead ==
  ASSUME LzmaAssumption, NEW t, Tape(t), NEW k \in 1..t.m, NEW d, Reads(t, d, k - 1),
         d.ok => d.m \in Nat, d.ok => t.ds[k].key = <<>>
  PROVE  HalfOf(t, d, k, Halved(Normalized(d)))
<1>1. PICK r, e, half : /\ r = Halved(e) /\ e = Normalized(d) /\ half = e.rng \div 2
  OBVIOUS
<1>2. r = IF e.code >= half THEN [e EXCEPT !.rng = half, !.code = @ - half, !.m = (2 * @) + 1]
            ELSE [e EXCEPT !.rng = half, !.m = 2 * @]
  BY <1>1 DEF Halved
<1>3. ASSUME Shape(e)
      PROVE  /\ Shape(r) /\ r.ok = e.ok /\ r.same = e.same /\ r.rest = e.rest /\ r.probs = e.probs
             /\ r.rng = half
             /\ e.code >= half => r.code = e.code - half /\ r.m = (2 * e.m) + 1
             /\ ~(e.code >= half) => r.code = e.code /\ r.m = 2 * e.m
  BY <1>2, <1>3 DEF Shape, CoderFields
<1>4. CASE ~d.ok
  <2>1. e = d
    BY <1>1, <1>4 DEF Normalized
  <2> QED
    BY <1>1, <1>3, <1>4, <2>1 DEF HalfOf, Reads, Gets
<1>5. CASE d.ok
  <2>1. k - 1 \in 0..t.m
    BY DEF Tape
  <2>2. TakenIn(t, d, k - 1, e)
    BY <1>1, <1>5, <2>1, NormalizedIs
  <2>3. CASE ~e.ok
    BY <1>1, <1>3, <1>5, <2>2, <2>3 DEF HalfOf, Reads, Gets, TakenIn
  <2>4. CASE e.ok
    <3>1. PICK v, w, b : v = Shifted(t.u[k - 1]) /\ w = t.u[k] /\ b = t.ds[k]
      OBVIOUS
    <3>2. Gets(t, e, v) /\ e.m = d.m /\ e.same = d.same /\ b.key = <<>>
      BY <1>5, <2>2, <3>1 DEF TakenIn
    <3>3. e.rng = v.rng
      BY <2>4, <3>2 DEF Gets, At
    <3>4. half = Bound(v, b.key)
      BY <1>1, <3>2, <3>3 DEF Bound
    <3>5. /\ e.rng \in Nat /\ e.code \in Nat /\ half \in Nat
          /\ w.rng = half /\ w.probs = Learnt(e.probs, b)
          /\ b.bit = 0 => e.code < half /\ e.code = Upto(t.all, Reach(w)) - Value(w)
          /\ b.bit = 1 => e.code >= half /\ e.code - half = Upto(t.all, Reach(w)) - Value(w)
          /\ Reach(w) <= t.n /\ e.rest = SubSeq(t.all, Reach(w) + 1, t.n)
      BY <2>4, <3>1, <3>2, <3>4, SideIs
    <3>6. w.probs = e.probs
      BY <3>2, <3>5 DEF Learnt
    <3>7. b.bit \in {0, 1} /\ d.m \in Nat
      BY <1>5, <3>1, TapeIs
    <3>8. Shape(e)
      BY <3>2 DEF Gets
    <3>9. /\ Shape(r) /\ r.ok /\ r.same = d.same /\ r.rest = e.rest /\ r.probs = w.probs /\ r.rng = w.rng
      BY <1>3, <2>4, <3>2, <3>5, <3>6, <3>8
    <3>10. r.code = Upto(t.all, Reach(w)) - Value(w) /\ r.m = (2 * d.m) + b.bit
      <4>1. CASE b.bit = 0
        BY <1>3, <3>2, <3>5, <3>7, <3>8, <4>1
      <4>2. CASE b.bit = 1
        BY <1>3, <3>2, <3>5, <3>8, <4>2
      <4> QED
        BY <3>7, <4>1, <4>2
    <3>11. At(t, r, w)
      BY <3>5, <3>9, <3>10 DEF At
    <3> QED
      BY <1>1, <1>5, <3>1, <3>9, <3>10, <3>11 DEF HalfOf, Reads, Gets
  <2> QED
    BY <2>3, <2>4
<1> QED
  BY <1>4, <1>5

-----------------------------------------------------------------------------
(* How the decoder begins.                                                 *)

LEMMA LeadIsWide ==
  ASSUME LzmaAssumption
  PROVE  Lead(1 + RangeBytes) = Wide
<1>1. RangeBytes \in {3, 4}
  BY DEF LzmaAssumption
<1>2. Lead(1) = 1 /\ Lead(1 + 1) = 256 * Lead(1) /\ Lead(2 + 1) = 256 * Lead(2)
        /\ Lead(3 + 1) = 256 * Lead(3) /\ Lead(4 + 1) = 256 * Lead(4)
  BY LeadIs
<1>3. CASE RangeBytes = 3
  BY <1>2, <1>3, SMT DEF Wide, Top
<1>4. CASE RangeBytes = 4
  BY <1>2, <1>4, SMT DEF Wide, Top
<1> QED
  BY <1>1, <1>3, <1>4

(* What the first bytes are, where all that was written lies behind them.  *)
LEMMA FirstBytes ==
  ASSUME LzmaAssumption, NEW all \in Octets, Inside(Fresh, all)
  PROVE  /\ 1 + RangeBytes <= Len(all) /\ all[1] = 0
         /\ Upto(all, 1 + RangeBytes) \in 0..Full - 1
<1>1. RangeBytes \in {3, 4} /\ RangeBytes \in Nat
  BY DEF LzmaAssumption
<1>2. Reach(Fresh) = 1 + RangeBytes /\ Fresh.rng = Full
  BY DEF Reach, Fresh
<1>3. PICK k \in Nat : k = 1 + RangeBytes /\ k >= 1
  BY <1>1
<1>4. k <= Len(all) /\ Len(all) \in Nat
  BY <1>2, <1>3, OctetsAre DEF Inside
<1>5. PICK x \in Nat : x = Upto(all, k)
  BY <1>4, CodeIs
<1>6. x \in 0..Full - 1
  BY <1>2, <1>3, <1>5, FreshIs DEF Inside
<1>7. PICK w : w = SubSeq(all, 1, k)
  OBVIOUS
<1>8. w \in Octets /\ Len(w) = k /\ w[1] = all[1]
  BY <1>3, <1>4, <1>7 DEF Octets
<1>9. CodeOf(w) < Lead(Len(w))
  BY <1>3, <1>5, <1>6, <1>7, <1>8, LeadIsWide, Widths DEF Upto
<1>10. w[1] = 0
  BY <1>3, <1>8, <1>9, FirstIsZero
<1> QED
  BY <1>3, <1>4, <1>5, <1>6, <1>8, <1>10

(* The first byte, which is 0, is passed over.                             *)
LEMMA CodeBehind ==
  ASSUME NEW all \in Octets, NEW n \in Nat, n + 1 <= Len(all), all[1] = 0,
         NEW w, w = SubSeq(all, 2, n + 1)
  PROVE  w \in Octets /\ Len(w) = n /\ CodeOf(w) = Upto(all, n + 1)
<1>1. all \in Seq(Byte) /\ Len(all) \in Nat
  BY DEF Octets
<1>2. w \in Seq(Byte) /\ Len(w) = n /\ \A i \in 1..n : w[i] = all[i + 1]
  <2>1. \A i \in 2..n + 1 : all[i] \in Byte
    BY <1>1
  <2>2. (n + 1) - 1 = n /\ (n + 1) - 2 + 1 = n
    OBVIOUS
  <2> QED
    BY <1>1, <2>1, <2>2
<1>3. w \in Octets
  BY <1>2 DEF Octets
<1> DEFINE G == {i \in 0..n : Upto(w, i) = Upto(all, i + 1)}
<1>4. 0 \in G
  <2>3. 1 \in 1..Len(all) /\ 1 - 1 = 0
    BY <1>1
  <2>1. Upto(all, 1) = (256 * Upto(all, 1 - 1)) + all[1]
    BY <2>3, CodeIs
  <2>2. Upto(all, 0) = 0 /\ Upto(w, 0) = 0
    BY <1>3, CodeIs
  <2> QED
    BY <2>1, <2>2, <2>3
<1>5. ASSUME NEW i \in 1..n, i - 1 \in G
      PROVE  i \in G
  <2>1. i \in 1..Len(w) /\ i + 1 \in 1..Len(all) /\ (i + 1) - 1 = i /\ (i - 1) + 1 = i
    BY <1>1, <1>2
  <2>2. Upto(w, i) = (256 * Upto(w, i - 1)) + w[i]
    BY <1>3, <2>1, CodeIs
  <2>3. Upto(all, i + 1) = (256 * Upto(all, i)) + all[i + 1]
    <3>1. Upto(all, i + 1) = (256 * Upto(all, (i + 1) - 1)) + all[i + 1]
      BY <2>1, CodeIs
    <3> QED
      BY <2>1, <3>1
  <2>4. Upto(w, i - 1) = Upto(all, i) /\ w[i] = all[i + 1]
    BY <1>2, <1>5, <2>1
  <2> QED
    BY <2>2, <2>3, <2>4
<1>6. Q!Climbs(G, n)
  BY <1>5 DEF Q!Climbs
<1> HIDE DEF G
<1>7. n \in 0..n
  OBVIOUS
<1>8. n \in G
  BY <1>4, <1>6, <1>7, Q!Climbing
<1>9. Upto(w, n) = Upto(all, n + 1)
  BY <1>8 DEF G
<1> QED
  BY <1>2, <1>3, <1>9, CodeIs

(* b is what is delivered.                                                 *)
Begun(t, b) ==
  /\ CanBegin(b) => Reads(t, Initial(b), 0) /\ ~Initial(b).same
  /\ ~CanBegin(b) => t.n < Len(t.all)

LEMMA BeginIs ==
  ASSUME LzmaAssumption, NEW t, Tape(t), NEW b, b = SubSeq(t.all, 1, t.n)
  PROVE  Begun(t, b)
<1>1. PICK R \in Nat : R = RangeBytes /\ R >= 3
  BY DEF LzmaAssumption
<1>2. PICK all \in Octets : all = t.all /\ Inside(Fresh, all) /\ t.u[0] = Fresh
  <2>1. 0 \in 0..t.m
    BY DEF Tape
  <2> QED
    BY <2>1, TapeIs DEF Tape, Coding
<1>3. PICK n \in Nat : n = t.n /\ n <= Len(all) /\ Len(all) \in Nat
  BY <1>2, TapeIs
<1>4. 1 + R <= Len(all) /\ all[1] = 0 /\ Upto(all, 1 + R) \in 0..Full - 1
  BY <1>1, <1>2, FirstBytes
<1>5. PICK c \in Octets : c = b /\ Len(c) = n /\ \A i \in 1..n : c[i] = all[i]
  <2>1. b = SubSeq(all, 1, n)
    BY <1>2, <1>3
  <2>2. SubSeq(all, 1, n) \in Seq(Byte) /\ Len(SubSeq(all, 1, n)) = n
        /\ \A i \in 1..n : SubSeq(all, 1, n)[i] = all[i]
    BY <1>3 DEF Octets
  <2> QED
    BY <2>1, <2>2 DEF Octets
<1>9. Len(c) = n /\ \A i \in 1..n : c[i] = all[i]
  BY <1>5
<1> SUFFICES Begun(t, c)
  BY <1>5
<1>6. CASE n < 1 + R
  <2>1. ~CanBegin(c)
    BY <1>1, <1>9, <1>6 DEF CanBegin
  <2> QED
    BY <1>2, <1>3, <1>4, <1>6, <2>1 DEF Begun
<1>7. CASE n >= 1 + R
  <2>1. PICK w : w = SubSeq(c, 2, 1 + R)
    OBVIOUS
  <2>2. CodeOf(w) = Upto(all, 1 + R)
    <3>1. c[1] = 0
      BY <1>4, <1>9, <1>7
    <3>2. R + 1 <= Len(c) /\ R + 1 = 1 + R
      BY <1>9, <1>7
    <3>3. CodeOf(w) = Upto(c, R + 1)
      BY <1>9, <2>1, <3>1, <3>2, CodeBehind
    <3>4. Upto(c, R + 1) = Upto(all, R + 1)
      <4>1. R + 1 \in Nat /\ R + 1 <= Len(all) /\ \A i \in 1..R + 1 : c[i] = all[i]
        BY <1>3, <1>9, <1>7
      <4> QED
        BY <1>9, <3>2, <4>1, SameUpto
    <3> QED
      BY <3>2, <3>3, <3>4
  <2>3. CanBegin(c)
    <3>1. c[1] = 0 /\ Len(c) >= 1 + R
      BY <1>4, <1>9, <1>7
    <3>2. Upto(all, 1 + R) # Full
      BY <1>4, Widths
    <3> QED
      BY <1>1, <2>1, <2>2, <3>1, <3>2 DEF CanBegin
  <2>4. PICK d : d = Initial(c)
    OBVIOUS
  <2>5. /\ d = [rng |-> Full, code |-> CodeOf(w), rest |-> SubSeq(c, 2 + R, Len(c)),
                probs |-> <<>>, m |-> 0, same |-> FALSE, ok |-> TRUE]
    BY <1>1, <2>1, <2>4 DEF Initial
  <2>6. Shape(d) /\ d.ok /\ ~d.same /\ d.rng = Full /\ d.probs = <<>>
          /\ d.code = Upto(all, 1 + R) /\ d.rest = SubSeq(c, 2 + R, Len(c))
    BY <2>2, <2>5 DEF Shape, CoderFields
  <2>7. Reach(Fresh) = 1 + R /\ Fresh.rng = Full /\ Fresh.probs = <<>>
    BY <1>1 DEF Reach, Fresh
  <2>8. d.rest = SubSeq(all, (1 + R) + 1, n)
    <3> DEFINE x == SubSeq(c, 2 + R, n)
               y == SubSeq(all, 2 + R, n)
    <3>1. all \in Seq(Byte) /\ c \in Seq(Byte)
      BY <1>2, <1>9 DEF Octets
    <3>2. x \in Seq(Byte) /\ Len(x) = n - (1 + R) /\ \A i \in 1..n - (1 + R) : x[i] = c[(1 + R) + i]
      BY <1>3, <1>9, <1>7, <3>1
    <3>3. y \in Seq(Byte) /\ Len(y) = n - (1 + R) /\ \A i \in 1..n - (1 + R) : y[i] = all[(1 + R) + i]
      BY <1>3, <1>9, <1>7, <3>1
    <3>4. \A i \in 1..n - (1 + R) : c[(1 + R) + i] = all[(1 + R) + i]
      <4> TAKE i \in 1..n - (1 + R)
      <4>1. (1 + R) + i \in 1..n
        BY <1>7
      <4> QED
        BY <1>9, <4>1
    <3> HIDE DEF x, y
    <3>5. x = y
      BY <3>2, <3>3, <3>4, SeqEqual
    <3>6. (1 + R) + 1 = 2 + R
      OBVIOUS
    <3> QED
      BY <1>9, <2>6, <3>5, <3>6 DEF x, y
  <2>9. At(t, d, Fresh)
    <3>1. Upto(all, 1 + R) - 0 = Upto(all, 1 + R)
      BY <1>4, Widths
    <3> QED
      BY <1>2, <1>3, <1>7, <2>6, <2>7, <2>8, <3>1, FreshIs DEF At
  <2> QED
    BY <1>2, <2>3, <2>4, <2>6, <2>9 DEF Begun, Reads, Gets
<1> QED
  BY <1>6, <1>7

(* Where the first bytes are others, it does not begin.                    *)
LEMMA SevensCode ==
  ASSUME LzmaAssumption, NEW w \in Octets, Len(w) = RangeBytes, \A i \in 1..Len(w) : w[i] = 255
  PROVE  CodeOf(w) = Full
<1>1. RangeBytes \in {3, 4}
  BY DEF LzmaAssumption
<1>2. Upto(w, 0) = 0 /\ CodeOf(w) = Upto(w, RangeBytes)
  BY CodeIs
<1>3. \A k \in 1..RangeBytes : Upto(w, k) = (256 * Upto(w, k - 1)) + 255
  BY CodeIs
<1>4. Upto(w, 1) = 255 /\ Upto(w, 2) = 65535 /\ Upto(w, 3) = 16777215
  <2>1. 1 \in 1..RangeBytes /\ 2 \in 1..RangeBytes /\ 3 \in 1..RangeBytes /\ 1 - 1 = 0 /\ 2 - 1 = 1 /\ 3 - 1 = 2
    BY <1>1
  <2>2. Upto(w, 1) = (256 * Upto(w, 0)) + 255
    BY <1>3, <2>1, SMT
  <2>3. Upto(w, 2) = (256 * Upto(w, 1)) + 255
    BY <1>3, <2>1, SMT
  <2>4. Upto(w, 3) = (256 * Upto(w, 2)) + 255
    BY <1>3, <2>1, SMT
  <2> QED
    BY <1>2, <2>2, <2>3, <2>4, SMT
<1>5. CASE RangeBytes = 3
  BY <1>2, <1>4, <1>5, SMT DEF Full, Top
<1>6. CASE RangeBytes = 4
  <2>1. 4 \in 1..RangeBytes /\ 4 - 1 = 3
    BY <1>6
  <2>2. Upto(w, 4) = (256 * Upto(w, 3)) + 255
    BY <1>3, <2>1, SMT
  <2> QED
    BY <1>2, <1>4, <1>6, <2>2, SMT DEF Full, Top
<1> QED
  BY <1>1, <1>5, <1>6

LEMMA DamagedIs ==
  ASSUME LzmaAssumption, NEW rest \in Octets,
         NEW first \in {<< 1 >>, << 0 >> \o [i \in 1..RangeBytes |-> 255]}
  PROVE  ~CanBegin(first \o rest)
<1>1. PICK R \in Nat : R = RangeBytes /\ R >= 3
  BY DEF LzmaAssumption
<1>2. CASE first = <<1>>
  <2>1. rest \in Seq(Byte) /\ <<1>> \in Seq(Byte)
    BY DEF Octets, Byte
  <2>2. (<<1>> \o rest)[1] = 1
    BY <2>1
  <2> QED
    BY <1>2, <2>2 DEF CanBegin
<1>3. CASE first = <<0>> \o [i \in 1..RangeBytes |-> 255]
  <2>1. PICK f, b : f = [i \in 1..R |-> 255] /\ b = first \o rest
    OBVIOUS
  <2>2. /\ rest \in Seq(Byte) /\ <<0>> \in Seq(Byte) /\ f \in Seq(Byte)
        /\ Len(f) = R /\ \A i \in 1..R : f[i] = 255
    BY <2>1 DEF Octets, Byte
  <2>3. /\ first \in Seq(Byte) /\ Len(first) = 1 + R
        /\ \A i \in 1..R : first[i + 1] = 255
    <3>1. first = <<0>> \o f
      BY <1>1, <1>3, <2>1
    <3>2. <<0>> \o f \in Seq(Byte) /\ Len(<<0>> \o f) = 1 + R
      BY <2>2
    <3>3. \A i \in 1..R : (<<0>> \o f)[1 + i] = f[i]
      BY <2>2
    <3> QED
      BY <2>2, <3>1, <3>2, <3>3
  <2>4. /\ b \in Seq(Byte) /\ Len(b) \in Nat /\ Len(b) >= 1 + R
        /\ \A i \in 1..1 + R : b[i] = first[i]
    <3>1. PICK x \in Seq(Byte) : x = first /\ Len(x) = 1 + R
      BY <2>3
    <3>2. PICK y \in Seq(Byte) : y = rest
      BY <2>2
    <3>3. x \o y \in Seq(Byte) /\ Len(x \o y) = Len(x) + Len(y)
          /\ \A i \in 1..Len(x) : (x \o y)[i] = x[i]
      BY Q!Joined
    <3>4. Len(y) \in Nat
      OBVIOUS
    <3>5. b = x \o y
      BY <2>1, <3>1, <3>2
    <3> QED
      BY <3>1, <3>3, <3>4, <3>5
  <2>5. PICK w : w = SubSeq(b, 2, 1 + R)
    OBVIOUS
  <2>6. w \in Seq(Byte) /\ Len(w) = R /\ \A i \in 1..R : w[i] = b[i + 1]
    BY <2>4, <2>5
  <2>7. \A i \in 1..R : w[i] = 255
    <3> TAKE i \in 1..R
    <3>1. i + 1 \in 1..1 + R
      OBVIOUS
    <3> QED
      BY <2>3, <2>4, <2>6, <3>1
  <2>8. CodeOf(w) = Full
    BY <1>1, <2>6, <2>7, SevensCode DEF Octets
  <2> QED
    BY <1>1, <2>1, <2>5, <2>8 DEF CanBegin
<1> QED
  BY <1>2, <1>3

LEMMA Doubling ==
  ASSUME NEW n \in 0..30
  PROVE  2^n \in Nat \ {0} /\ 2^(n + 1) = 2 * 2^n
<1> DEFINE Two(k) == 2^k
<1>1. /\ Two(0) = 1 /\ Two(1) = 2 /\ Two(2) = 4 /\ Two(3) = 8 /\ Two(4) = 16 /\ Two(5) = 32
      /\ Two(6) = 64 /\ Two(7) = 128 /\ Two(8) = 256 /\ Two(9) = 512 /\ Two(10) = 1024 /\ Two(11) = 2048
      /\ Two(12) = 4096 /\ Two(13) = 8192 /\ Two(14) = 16384 /\ Two(15) = 32768 /\ Two(16) = 65536 /\ Two(17) = 131072
      /\ Two(18) = 262144 /\ Two(19) = 524288 /\ Two(20) = 1048576 /\ Two(21) = 2097152 /\ Two(22) = 4194304 /\ Two(23) = 8388608
      /\ Two(24) = 16777216 /\ Two(25) = 33554432 /\ Two(26) = 67108864 /\ Two(27) = 134217728 /\ Two(28) = 268435456 /\ Two(29) = 536870912
      /\ Two(30) = 1073741824 /\ Two(31) = 2147483648
  OBVIOUS
<1> HIDE DEF Two
<1>2. n \in 0..10 \/ n \in 11..20 \/ n \in 21..30
  OBVIOUS
<1>3. Two(n) \in Nat \ {0} /\ Two(n + 1) = 2 * Two(n)
  <2>1. CASE n \in 0..10
    BY <1>1, <2>1
  <2>2. CASE n \in 11..20
    BY <1>1, <2>2
  <2>3. CASE n \in 21..30
    BY <1>1, <2>3
  <2> QED
    BY <1>2, <2>1, <2>2, <2>3
<1> QED
  BY <1>3 DEF Two

LEMMA Quotient ==
  ASSUME NEW p \in Nat \ {0}, NEW q \in Nat, NEW r \in Nat, r < p,
         NEW x, x = (p * q) + r
  PROVE  x \in Nat /\ x \div p = q
<1>1. PICK a \in Nat : a = p * q /\ a = q * p
  OBVIOUS
<1>2. r \in 0..p - 1
  OBVIOUS
<1>3. ((q * p) + r) \div p = q
  BY <1>2, Q!Dividing
<1> QED
  BY <1>1, <1>3

Halves(x, p) ==
  /\ x \div p \in Nat /\ x \div (2 * p) \in Nat /\ (x \div p) % 2 \in {0, 1}
  /\ x \div p = (2 * (x \div (2 * p))) + ((x \div p) % 2)

LEMMA HalvesIs ==
  ASSUME NEW x \in Nat, NEW p \in Nat \ {0}
  PROVE  Halves(x, p)
<1>1. PICK q \in Nat, r \in Nat : q = x \div p /\ r < p /\ x = (p * q) + r
  <2>1. x \div p \in Nat /\ x % p \in Nat /\ x % p < p /\ x = (p * (x \div p)) + (x % p)
    OBVIOUS
  <2> QED
    BY <2>1
<1>2. PICK s \in Nat, b \in {0, 1} : q = (2 * s) + b /\ b = q % 2
  <2>1. q \div 2 \in Nat /\ q % 2 \in {0, 1} /\ q = (2 * (q \div 2)) + (q % 2)
    OBVIOUS
  <2> QED
    BY <2>1
<1>3. PICK g \in Nat \ {0}, h \in Nat : g = 2 * p /\ h = (p * b) + r /\ h < g
  <2>1. CASE b = 0
    BY <1>1, <2>1
  <2>2. CASE b = 1
    BY <1>1, <2>2
  <2> QED
    BY <2>1, <2>2
<1>4. x = (g * s) + h
  <2>1. p * ((2 * s) + b) = ((2 * p) * s) + (p * b)
    OBVIOUS
  <2>2. PICK y \in Nat, z \in Nat : y = (2 * p) * s /\ z = p * b
    OBVIOUS
  <2>3. x = (y + z) + r
    BY <1>1, <1>2, <2>1, <2>2
  <2> QED
    BY <1>3, <2>2, <2>3
<1>5. x \div g = s
  BY <1>3, <1>4, Quotient
<1> QED
  BY <1>1, <1>2, <1>3, <1>5 DEF Halves

Shares(n, i) == 2^n = 2^(n - i) * 2^i

LEMMA SharesAre ==
  ASSUME NEW n \in 0..30
  PROVE  \A i \in 0..n : Shares(n, i)
<1> DEFINE G == {i \in 0..n : Shares(n, i)}
<1>1. 0 \in G
  <2>1. PICK a \in Nat : a = 2^n
    BY Doubling
  <2>2. 2^0 = 1 /\ n - 0 = n /\ a * 1 = a
    OBVIOUS
  <2> QED
    BY <2>1, <2>2 DEF Shares
<1>2. ASSUME NEW i \in 1..n, i - 1 \in G
      PROVE  i \in G
  <2>1. n - i \in 0..30 /\ i - 1 \in 0..30 /\ (n - i) + 1 = n - (i - 1) /\ (i - 1) + 1 = i
    OBVIOUS
  <2>2. PICK a \in Nat, b \in Nat : a = 2^(n - i) /\ b = 2^(i - 1) /\ 2^(n - (i - 1)) = 2 * a /\ 2^i = 2 * b
    <3>1. 2^(n - i) \in Nat /\ 2^((n - i) + 1) = 2 * 2^(n - i)
      BY <2>1, Doubling
    <3>2. 2^(i - 1) \in Nat /\ 2^((i - 1) + 1) = 2 * 2^(i - 1)
      BY <2>1, Doubling
    <3> QED
      BY <2>1, <3>1, <3>2
  <2>3. 2^n = (2 * a) * b
    BY <1>2, <2>2 DEF Shares
  <2>4. (2 * a) * b = a * (2 * b)
    OBVIOUS
  <2> QED
    BY <2>2, <2>3, <2>4 DEF Shares
<1>3. Q!Climbs(G, n)
  BY <1>2 DEF Q!Climbs
<1> HIDE DEF G
<1>4. n \in Nat /\ \A i \in 0..n : i \in G
  BY <1>1, <1>3, Q!Climbing
<1> QED
  BY <1>4 DEF G

-----------------------------------------------------------------------------
(* The first i of the n bits of v, behind a 1.                             *)
Prefix(v, n, i) == 2^i + (v \div 2^(n - i))

Prefixed(v, n, i) ==
  /\ Prefix(v, n, i - 1) \in Nat
  /\ Prefix(v, n, i) = (2 * Prefix(v, n, i - 1)) + ((v \div 2^(n - i)) % 2)
  /\ Prefix(v, n, i - 1) = (2^n + v) \div 2^((n + 1) - i)

LEMMA PrefixIs ==
  ASSUME NEW n \in 0..30, NEW v \in Nat, v < 2^n
  PROVE  /\ Prefix(v, n, 0) = 1 /\ Prefix(v, n, n) = 2^n + v
         /\ \A i \in 1..n : Prefixed(v, n, i)
<1>1. PICK a \in Nat \ {0} : a = 2^n
  BY Doubling
<1>2. v \div a = 0
  <2>1. v = (a * 0) + v
    OBVIOUS
  <2> QED
    BY <1>1, <2>1, Quotient
<1>3. Prefix(v, n, 0) = 1
  <2>1. 2^0 = 1 /\ n - 0 = n
    OBVIOUS
  <2> QED
    BY <1>1, <1>2, <2>1 DEF Prefix
<1>4. Prefix(v, n, n) = 2^n + v
  <2>1. 2^0 = 1 /\ n - n = 0 /\ v \div 1 = v
    OBVIOUS
  <2> QED
    BY <1>1, <2>1 DEF Prefix
<1>5. ASSUME NEW i \in 1..n
      PROVE  Prefixed(v, n, i)
  <2>1. n - i \in 0..30 /\ i - 1 \in 0..30 /\ (n - i) + 1 = n - (i - 1) /\ (i - 1) + 1 = i
        /\ (n + 1) - i = n - (i - 1)
    OBVIOUS
  <2>2. PICK p \in Nat \ {0}, g \in Nat \ {0} : p = 2^(n - i) /\ g = 2 * p /\ g = 2^(n - (i - 1))
    <3>1. 2^(n - i) \in Nat \ {0} /\ 2^((n - i) + 1) = 2 * 2^(n - i)
      BY <2>1, Doubling
    <3> QED
      BY <2>1, <3>1
  <2>3. PICK b \in Nat : b = 2^(i - 1) /\ 2^i = 2 * b
    <3>1. 2^(i - 1) \in Nat /\ 2^((i - 1) + 1) = 2 * 2^(i - 1)
      BY <2>1, Doubling
    <3> QED
      BY <2>1, <3>1
  <2>4. Halves(v, p)
    BY <2>2, HalvesIs
  <2>5. PICK s \in Nat, q \in Nat, c \in {0, 1} :
           s = v \div g /\ q = v \div p /\ c = q % 2 /\ q = (2 * s) + c
    BY <2>2, <2>4 DEF Halves
  <2>6. Prefix(v, n, i) = (2 * b) + q /\ Prefix(v, n, i - 1) = b + s
    BY <2>2, <2>3, <2>5 DEF Prefix
  <2>7. (a + v) \div g = b + s
    <3>1. i - 1 \in 0..n
      OBVIOUS
    <3>2. a = g * b
      BY <1>1, <2>2, <2>3, <3>1, SharesAre DEF Shares
    <3>3. PICK r \in Nat : r < g /\ v = (g * s) + r
      <4>1. v % g \in Nat /\ v % g < g /\ v = (g * (v \div g)) + (v % g)
        OBVIOUS
      <4> QED
        BY <2>5, <4>1
    <3>4. a + v = (g * (b + s)) + r
      <4>1. PICK x \in Nat, y \in Nat : x = g * b /\ y = g * s /\ g * (b + s) = x + y
        OBVIOUS
      <4> QED
        BY <3>2, <3>3, <4>1
    <3> QED
      BY <3>3, <3>4, Quotient
  <2>8. Prefix(v, n, i - 1) \in Nat /\ Prefix(v, n, i) = (2 * Prefix(v, n, i - 1)) + c
    <3>1. PICK x, y : x = Prefix(v, n, i) /\ y = Prefix(v, n, i - 1)
      OBVIOUS
    <3>2. q = (2 * s) + c
      BY <2>5
    <3>3. x = (2 * b) + q /\ y = b + s
      BY <2>6, <3>1
    <3>4. y \in Nat /\ x = (2 * y) + c
      BY <3>2, <3>3
    <3> QED
      BY <3>1, <3>4
  <2>9. (v \div 2^(n - i)) % 2 = c
    BY <2>2, <2>5
  <2>10. Prefix(v, n, i - 1) = (2^n + v) \div 2^((n + 1) - i)
    BY <1>1, <2>1, <2>2, <2>6, <2>7
  <2> QED
    BY <2>8, <2>9, <2>10 DEF Prefixed
<1> QED
  BY <1>3, <1>4, <1>5

-----------------------------------------------------------------------------
(* Decisions that are on the tape behind the first k.                      *)

Listed(a, n) == n \in Nat /\ a = [i \in 1..n |-> a[i]]

Says(t, k, a, n) ==
  Listed(a, n) /\ k \in Nat /\ k + n <= t.m /\ \A i \in 1..n : t.ds[k + i] = a[i]

LEMMA ListIs ==
  ASSUME NEW a, NEW n, Listed(a, n)
  PROVE  Len(a) = n /\ \A S : (\A i \in 1..n : a[i] \in S) => a \in Seq(S)
<1>1. PICK l \in Nat : l = n /\ a = [i \in 1..l |-> a[i]]
  BY DEF Listed
<1>2. ASSUME NEW S, \A i \in 1..n : a[i] \in S
      PROVE  a \in Seq(S) /\ Len(a) = n
  <2>1. a \in [1..l -> S]
    BY <1>1, <1>2
  <2> QED
    BY <1>1, <2>1
<1>3. Len(a) = n
  <2> DEFINE S == {a[i] : i \in 1..n}
  <2>1. \A i \in 1..n : a[i] \in S
    OBVIOUS
  <2> QED
    BY <1>2, <2>1
<1> QED
  BY <1>2, <1>3

BothListed(a, n, b, l, c) ==
  Listed(c, n + l) /\ (\A i \in 1..n : c[i] = a[i]) /\ (\A i \in 1..l : c[n + i] = b[i])

LEMMA ListsJoined ==
  ASSUME NEW a, NEW n, Listed(a, n), NEW b, NEW l, Listed(b, l)
  PROVE  BothListed(a, n, b, l, a \o b)
<1>1. n \in Nat /\ l \in Nat
  BY DEF Listed
<1> DEFINE S == {a[i] : i \in 1..n} \cup {b[i] : i \in 1..l}
<1>2. (\A i \in 1..n : a[i] \in S) /\ (\A i \in 1..l : b[i] \in S)
  OBVIOUS
<1> HIDE DEF S
<1>3. a \in Seq(S) /\ b \in Seq(S) /\ Len(a) = n /\ Len(b) = l
  BY <1>2, ListIs
<1>4. PICK c : c = a \o b
  OBVIOUS
<1>5. /\ c \in Seq(S) /\ Len(c) = n + l /\ \A i \in 1..n : c[i] = a[i]
      /\ \A i \in 1..l : c[n + i] = b[i]
  <2>1. PICK x \in Seq(S), y \in Seq(S) : x = a /\ y = b
    BY <1>3
  <2>2. /\ x \o y \in Seq(S) /\ Len(x \o y) = Len(x) + Len(y)
        /\ \A i \in 1..Len(x) : (x \o y)[i] = x[i]
        /\ \A i \in 1..Len(y) : (x \o y)[Len(x) + i] = y[i]
    BY Q!Joined
  <2>3. Len(x) = n /\ Len(y) = l /\ c = x \o y
    BY <1>3, <1>4, <2>1
  <2> QED
    BY <2>1, <2>2, <2>3
<1>6. c = [i \in 1..n + l |-> c[i]]
  BY <1>1, <1>5
<1> QED
  BY <1>1, <1>4, <1>5, <1>6 DEF Listed, BothListed

SaysBoth(t, k, a, n, b, l) == Says(t, k, a, n) /\ Says(t, k + n, b, l)

LEMMA SaysParts ==
  ASSUME NEW t, NEW k, NEW a, NEW n, Listed(a, n), NEW b, NEW l, Listed(b, l), t.m \in Nat,
         Says(t, k, a \o b, n + l)
  PROVE  SaysBoth(t, k, a, n, b, l)
<1>1. n \in Nat /\ l \in Nat /\ k \in Nat /\ k + (n + l) <= t.m
  BY DEF Listed, Says
<1>2. PICK c : c = a \o b
  OBVIOUS
<1>8. BothListed(a, n, b, l, c)
  BY <1>2, ListsJoined
<1>3. (\A i \in 1..n : c[i] = a[i]) /\ (\A i \in 1..l : c[n + i] = b[i])
  BY <1>8 DEF BothListed
<1>4. \A i \in 1..n + l : t.ds[k + i] = c[i]
  BY <1>2 DEF Says
<1>5. \A i \in 1..n : t.ds[k + i] = a[i]
  BY <1>1, <1>3, <1>4
<1>6. \A i \in 1..l : t.ds[(k + n) + i] = b[i]
  <2> TAKE i \in 1..l
  <2>1. n + i \in 1..n + l /\ (k + n) + i = k + (n + i)
    BY <1>1
  <2> QED
    BY <1>3, <1>4, <2>1
<1>7. k + n \in Nat /\ k + n <= t.m /\ (k + n) + l <= t.m
  BY <1>1
<1> QED
  BY <1>1, <1>5, <1>6, <1>7 DEF SaysBoth, Says

-----------------------------------------------------------------------------
(* A symbol v is read, with k decisions.                                   *)

Took(t, k, r, v) == Reads(t, r, k) /\ (r.ok => r.m = v)

(* Whatever comes behind a byte that was missing.                          *)
Lost(t, d) == Shape(d) /\ ~d.ok /\ t.n < Len(t.all)

LEMMA LostIs ==
  ASSUME NEW t, NEW d
  PROVE  /\ \A k : Reads(t, d, k) => Shape(d) /\ (d.ok \/ Lost(t, d))
         /\ Lost(t, d) => \A k : Reads(t, d, k)
BY DEF Reads, Gets, Lost

Reset(t, d, v, r) ==
  /\ Shape(r) /\ r.m = v /\ r.ok = d.ok /\ r.same = d.same
  /\ \A k : Reads(t, d, k) => Reads(t, r, k)
  /\ Lost(t, d) => Lost(t, r)

LEMMA ResetIs ==
  ASSUME NEW t, NEW d, Shape(d), NEW v
  PROVE  Reset(t, d, v, [d EXCEPT !.m = v])
<1> DEFINE r == [d EXCEPT !.m = v]
<1>1. /\ Shape(r) /\ r.m = v /\ r.ok = d.ok /\ r.same = d.same /\ r.rng = d.rng
      /\ r.code = d.code /\ r.rest = d.rest /\ r.probs = d.probs
  BY DEF Shape, CoderFields
<1> HIDE DEF r
<1>2. Reset(t, d, v, r)
  BY <1>1 DEF Reset, Reads, Gets, At, Lost
<1> QED
  BY <1>2 DEF r

LEMMA LostBit ==
  ASSUME NEW t, NEW d, Lost(t, d), NEW key
  PROVE  DecodeBit(d, key) = d
BY DEF Lost, DecodeBit, AtProbability, Normalized

LEMMA OneRead ==
  ASSUME LzmaAssumption, NEW t, Tape(t), NEW k \in Nat, NEW d, Reads(t, d, k), NEW key, key # <<>>,
         d.ok => k + 1 <= t.m /\ t.ds[k + 1].key = key
  PROVE  Took(t, k + 1, One(d, key), t.ds[k + 1].bit)
<1>1. PICK e, r : e = [d EXCEPT !.m = 0] /\ r = One(d, key)
  OBVIOUS
<1>2. r = DecodeBit(e, key)
  BY <1>1 DEF One
<1>3. Shape(d) /\ (d.ok \/ Lost(t, d))
  BY LostIs
<1>4. Shape(e) /\ e.m = 0 /\ e.ok = d.ok /\ e.same = d.same /\ Reads(t, e, k) /\ (Lost(t, d) => Lost(t, e))
  BY <1>1, <1>3, ResetIs DEF Reset
<1>5. CASE ~d.ok
  <2>1. Lost(t, e) /\ r = e
    BY <1>2, <1>3, <1>4, <1>5, LostBit
  <2> QED
    BY <1>1, <1>4, <1>5, <2>1, LostIs DEF Took
<1>6. CASE d.ok
  <2>1. k + 1 \in 1..t.m /\ (k + 1) - 1 = k
    BY <1>6 DEF Tape
  <2>2. BitOf(t, e, k + 1, r)
    BY <1>2, <1>4, <1>6, <2>1, BitRead
  <2>3. t.ds[k + 1].bit \in {0, 1}
    BY <2>1, TapeIs
  <2> QED
    BY <1>1, <1>4, <1>6, <2>2, <2>3 DEF BitOf, Took
<1> QED
  BY <1>5, <1>6

(* mu[i] is the symbol after i bits.                                       *)
LEMMA TreeRead ==
  ASSUME LzmaAssumption, NEW t, Tape(t), NEW k \in Nat, NEW n \in Nat, k + n <= t.m,
         NEW d, Reads(t, d, k), d.ok, NEW array, NEW row, NEW base, NEW mu, mu[0] = 1,
         \A i \in 1..n :
           /\ mu[i - 1] \in Nat /\ mu[i] = (2 * mu[i - 1]) + t.ds[k + i].bit
           /\ t.ds[k + i].key = <<array, row, base + mu[i - 1]>>
  PROVE  Took(t, k + n, DecodeTree(d, array, row, base, n), mu[n])
<1>1. PICK w \in Seq(Nat) : w = Count(n) /\ Len(w) = n
  BY CountIs
<1>2. PICK p : p = <<array, row, base>>
  OBVIOUS
<1>3. PICK e : e = [d EXCEPT !.m = 1]
  OBVIOUS
<1>4. PICK r : Runs("tree", p, e, w, r) /\ DecodeTree(d, p[1], p[2], p[3], n) = r[Len(w)]
  <2>1. TreeRun(d, p, n, e, w)
    BY <1>1, <1>3, TreeRuns
  <2> QED
    BY <2>1 DEF TreeRun
<1>5. DecodeTree(d, array, row, base, n) = r[n]
  BY <1>1, <1>2, <1>4
<1>6. Shape(d)
  BY LostIs
<1>7. Reads(t, e, k) /\ e.m = 1 /\ e.ok /\ e.same = d.same
  BY <1>3, <1>6, ResetIs DEF Reset
<1>8. t.m \in Nat
  BY DEF Tape
<1> DEFINE G == {i \in 0..n : Took(t, k + i, r[i], mu[i])}
<1>9. 0 \in G
  <2>1. r[0] = e /\ k + 0 = k
    BY <1>4 DEF Runs
  <2>2. Took(t, k, e, 1)
    BY <1>7 DEF Took
  <2> QED
    BY <2>1, <2>2
<1>10. ASSUME NEW i \in 1..n, i - 1 \in G
       PROVE  i \in G
  <2>1. PICK a, b : a = r[i - 1] /\ b = r[i]
    OBVIOUS
  <2>2. k + i \in 1..t.m /\ (k + i) - 1 = k + (i - 1)
    BY <1>8
  <2>3. Took(t, (k + i) - 1, a, mu[i - 1])
    BY <1>10, <2>1, <2>2
  <2>4. b = DecodeBit(a, <<array, row, base + a.m>>)
    BY <1>1, <1>2, <1>4, <2>1 DEF Runs, FoldStep
  <2>5. CASE ~a.ok
    <3>1. Lost(t, a)
      BY <2>3, <2>5, LostIs DEF Took
    <3>2. b = a
      BY <2>4, <3>1, LostBit
    <3>3. Reads(t, b, k + i)
      BY <3>1, <3>2, LostIs
    <3>4. Took(t, k + i, b, mu[i])
      BY <2>3, <2>5, <3>2, <3>3 DEF Took
    <3> QED
      BY <2>1, <3>4
  <2>6. CASE a.ok
    <3>1. PICK key : key = <<array, row, base + a.m>> /\ key # <<>>
      <4>1. <<array, row, base + a.m>> # <<>>
        OBVIOUS
      <4> QED
        BY <4>1
    <3>2. a.m = mu[i - 1] /\ a.m \in Nat /\ t.ds[k + i].key = key
      BY <2>3, <2>6, <3>1 DEF Took
    <3>3. BitOf(t, a, k + i, b)
      BY <2>2, <2>3, <2>4, <3>1, <3>2, BitRead DEF Took
    <3>4. mu[i] = (2 * a.m) + t.ds[k + i].bit
      BY <3>2
    <3>5. Took(t, k + i, b, mu[i])
      BY <2>3, <3>3, <3>4 DEF BitOf, Took
    <3> QED
      BY <2>1, <3>5
  <2> QED
    BY <2>5, <2>6
<1>11. Q!Climbs(G, n)
  BY <1>10 DEF Q!Climbs
<1> HIDE DEF G
<1>12. n \in 0..n
  OBVIOUS
<1>13. n \in G
  BY <1>9, <1>11, <1>12, Q!Climbing
<1> QED
  BY <1>5, <1>13 DEF G

LEMMA DirectRead ==
  ASSUME LzmaAssumption, NEW t, Tape(t), NEW k \in Nat, NEW n \in Nat, k + n <= t.m,
         NEW d, Reads(t, d, k), d.ok, NEW mu, mu[0] = 0,
         \A i \in 1..n :
           /\ mu[i - 1] \in Nat /\ mu[i] = (2 * mu[i - 1]) + t.ds[k + i].bit
           /\ t.ds[k + i].key = <<>>
  PROVE  Took(t, k + n, DecodeDirect(d, n), mu[n])
<1>1. PICK w \in Seq(Nat) : w = Count(n) /\ Len(w) = n
  BY CountIs
<1>3. PICK e : e = [d EXCEPT !.m = 0]
  OBVIOUS
<1>4. PICK r : Runs("direct", 0, e, w, r) /\ DecodeDirect(d, n) = r[Len(w)]
  BY <1>1, <1>3, DirectRuns
<1>5. DecodeDirect(d, n) = r[n]
  BY <1>1, <1>4
<1>6. Shape(d)
  BY LostIs
<1>7. Reads(t, e, k) /\ e.m = 0 /\ e.ok /\ e.same = d.same
  BY <1>3, <1>6, ResetIs DEF Reset
<1>8. t.m \in Nat
  BY DEF Tape
<1> DEFINE G == {i \in 0..n : Took(t, k + i, r[i], mu[i])}
<1>9. 0 \in G
  <2>1. r[0] = e /\ k + 0 = k
    BY <1>4 DEF Runs
  <2>2. Took(t, k, e, 0)
    BY <1>7 DEF Took
  <2> QED
    BY <2>1, <2>2
<1>10. ASSUME NEW i \in 1..n, i - 1 \in G
       PROVE  i \in G
  <2>1. PICK a, b : a = r[i - 1] /\ b = r[i]
    OBVIOUS
  <2>2. k + i \in 1..t.m /\ (k + i) - 1 = k + (i - 1)
    BY <1>8
  <2>3. Took(t, (k + i) - 1, a, mu[i - 1])
    BY <1>10, <2>1, <2>2
  <2>4. b = Halved(Normalized(a))
    BY <1>1, <1>4, <2>1 DEF Runs, FoldStep
  <2>5. a.ok => a.m = mu[i - 1] /\ a.m \in Nat /\ t.ds[k + i].key = <<>>
    BY <2>3 DEF Took
  <2>6. HalfOf(t, a, k + i, b)
    BY <2>2, <2>3, <2>4, <2>5, HalfRead DEF Took
  <2> QED
    BY <2>1, <2>3, <2>5, <2>6 DEF HalfOf, Took
<1>11. Q!Climbs(G, n)
  BY <1>10 DEF Q!Climbs
<1> HIDE DEF G
<1>12. n \in 0..n
  OBVIOUS
<1>13. n \in G
  BY <1>9, <1>11, <1>12, Q!Climbing
<1> QED
  BY <1>5, <1>13 DEF G

(* Nothing is found again.                                                 *)
LEMMA LostTree ==
  ASSUME NEW t, NEW d, Lost(t, d), NEW array, NEW row, NEW base, NEW n \in Nat
  PROVE  Lost(t, DecodeTree(d, array, row, base, n))
<1>1. PICK w \in Seq(Nat) : w = Count(n) /\ Len(w) = n
  BY CountIs
<1>2. PICK p : p = <<array, row, base>>
  OBVIOUS
<1>3. PICK e : e = [d EXCEPT !.m = 1]
  OBVIOUS
<1>4. PICK r : Runs("tree", p, e, w, r) /\ DecodeTree(d, p[1], p[2], p[3], n) = r[Len(w)]
  <2>1. TreeRun(d, p, n, e, w)
    BY <1>1, <1>3, TreeRuns
  <2> QED
    BY <2>1 DEF TreeRun
<1>5. DecodeTree(d, array, row, base, n) = r[n]
  BY <1>1, <1>2, <1>4
<1>6. Lost(t, e)
  BY <1>3, ResetIs DEF Reset, Lost
<1> DEFINE G == {i \in 0..n : Lost(t, r[i])}
<1>7. 0 \in G
  BY <1>4, <1>6 DEF Runs
<1>8. ASSUME NEW i \in 1..n, i - 1 \in G
      PROVE  i \in G
  <2>1. PICK a : a = r[i - 1] /\ Lost(t, a)
    BY <1>8
  <2>2. PICK key : r[i] = DecodeBit(a, key)
    BY <1>1, <1>4, <2>1 DEF Runs, FoldStep
  <2> QED
    BY <2>1, <2>2, LostBit
<1>9. Q!Climbs(G, n)
  BY <1>8 DEF Q!Climbs
<1> HIDE DEF G
<1>10. n \in 0..n
  OBVIOUS
<1>11. n \in G
  BY <1>7, <1>9, <1>10, Q!Climbing
<1> QED
  BY <1>5, <1>11 DEF G

LEMMA LostHalf ==
  ASSUME NEW t, NEW d, Lost(t, d)
  PROVE  Lost(t, Halved(Normalized(d)))
<1>1. Normalized(d) = d
  BY DEF Lost, Normalized
<1>2. PICK r, half : r = Halved(d) /\ half = d.rng \div 2
  OBVIOUS
<1>3. r = IF d.code >= half THEN [d EXCEPT !.rng = half, !.code = @ - half, !.m = (2 * @) + 1]
            ELSE [d EXCEPT !.rng = half, !.m = 2 * @]
  BY <1>2 DEF Halved
<1>4. Shape(d)
  BY DEF Lost
<1>5. Shape(r) /\ r.ok = d.ok
  BY <1>3, <1>4 DEF Shape, CoderFields
<1> QED
  BY <1>1, <1>2, <1>5 DEF Lost

LEMMA LostDirect ==
  ASSUME NEW t, NEW d, Lost(t, d), NEW n \in Nat
  PROVE  Lost(t, DecodeDirect(d, n))
<1>1. PICK w \in Seq(Nat) : w = Count(n) /\ Len(w) = n
  BY CountIs
<1>3. PICK e : e = [d EXCEPT !.m = 0]
  OBVIOUS
<1>4. PICK r : Runs("direct", 0, e, w, r) /\ DecodeDirect(d, n) = r[Len(w)]
  BY <1>1, <1>3, DirectRuns
<1>5. DecodeDirect(d, n) = r[n]
  BY <1>1, <1>4
<1>6. Lost(t, e)
  BY <1>3, ResetIs DEF Reset, Lost
<1> DEFINE G == {i \in 0..n : Lost(t, r[i])}
<1>7. 0 \in G
  BY <1>4, <1>6 DEF Runs
<1>8. ASSUME NEW i \in 1..n, i - 1 \in G
      PROVE  i \in G
  <2>1. PICK a : a = r[i - 1] /\ Lost(t, a)
    BY <1>8
  <2>2. r[i] = Halved(Normalized(a))
    BY <1>1, <1>4, <2>1 DEF Runs, FoldStep
  <2> QED
    BY <2>1, <2>2, LostHalf
<1>9. Q!Climbs(G, n)
  BY <1>8 DEF Q!Climbs
<1> HIDE DEF G
<1>10. n \in 0..n
  OBVIOUS
<1>11. n \in G
  BY <1>7, <1>9, <1>10, Q!Climbing
<1> QED
  BY <1>5, <1>11 DEF G

-----------------------------------------------------------------------------
(* Trees.                                                                  *)

LEMMA TreeListed ==
  ASSUME NEW array, NEW row, NEW v, NEW n \in Nat
  PROVE  /\ Listed(TreeBits(array, row, v, n), n)
         /\ \A i \in 1..n : TreeBits(array, row, v, n)[i] =
              [key |-> <<array, row, (2^n + v) \div 2^((n + 1) - i)>>, bit |-> (v \div 2^(n - i)) % 2]
<1>1. PICK f : f = [i \in 1..n |-> [key |-> <<array, row, (2^n + v) \div 2^((n + 1) - i)>>,
                                    bit |-> (v \div 2^(n - i)) % 2]]
  OBVIOUS
<1>2. TreeBits(array, row, v, n) = f
  BY <1>1 DEF TreeBits
<1>3. f = [i \in 1..n |-> f[i]]
  BY <1>1
<1>4. \A i \in 1..n : f[i] = [key |-> <<array, row, (2^n + v) \div 2^((n + 1) - i)>>,
                              bit |-> (v \div 2^(n - i)) % 2]
  BY <1>1
<1> QED
  BY <1>2, <1>3, <1>4 DEF Listed

LEMMA TreeSays ==
  ASSUME LzmaAssumption, NEW t, Tape(t), NEW k, NEW n \in 0..30, NEW v \in Nat, v < 2^n,
         NEW d, Reads(t, d, k), d.ok, NEW array, NEW row,
         Says(t, k, TreeBits(array, row, v, n), n)
  PROVE  Took(t, k + n, DecodeTree(d, array, row, 0, n), 2^n + v)
<1>1. PICK a : a = TreeBits(array, row, v, n)
  OBVIOUS
<1>2. k \in Nat /\ k + n <= t.m /\ \A i \in 1..n : t.ds[k + i] = a[i]
  BY <1>1 DEF Says
<1>3. PICK mu : mu = [i \in 0..n |-> Prefix(v, n, i)]
  OBVIOUS
<1>4. mu[0] = 1 /\ mu[n] = 2^n + v
  <2>1. 0 \in 0..n /\ n \in 0..n
    OBVIOUS
  <2> QED
    BY <1>3, <2>1, PrefixIs
<1>5. ASSUME NEW i \in 1..n
      PROVE  /\ mu[i - 1] \in Nat /\ mu[i] = (2 * mu[i - 1]) + t.ds[k + i].bit
             /\ t.ds[k + i].key = <<array, row, 0 + mu[i - 1]>>
  <2>1. i \in 0..n /\ i - 1 \in 0..n
    OBVIOUS
  <2>2. mu[i] = Prefix(v, n, i) /\ mu[i - 1] = Prefix(v, n, i - 1)
    BY <1>3, <2>1
  <2>3. Prefixed(v, n, i)
    BY PrefixIs
  <2>4. t.ds[k + i] = [key |-> <<array, row, (2^n + v) \div 2^((n + 1) - i)>>,
                       bit |-> (v \div 2^(n - i)) % 2]
    <3>1. a[i] = [key |-> <<array, row, (2^n + v) \div 2^((n + 1) - i)>>,
                  bit |-> (v \div 2^(n - i)) % 2]
      BY <1>1 DEF TreeBits
    <3> QED
      BY <1>2, <3>1
  <2>5. PICK x, y, b : x = mu[i - 1] /\ y = mu[i] /\ b = (v \div 2^(n - i)) % 2
    OBVIOUS
  <2>6. x \in Nat /\ y = (2 * x) + b /\ x = (2^n + v) \div 2^((n + 1) - i)
    BY <2>2, <2>3, <2>5 DEF Prefixed
  <2>7. t.ds[k + i].bit = b /\ t.ds[k + i].key = <<array, row, x>>
    BY <2>4, <2>5, <2>6
  <2>8. 0 + x = x
    BY <2>6
  <2> QED
    BY <2>5, <2>6, <2>7, <2>8
<1>6. Took(t, k + n, DecodeTree(d, array, row, 0, n), mu[n])
  <2>1. PICK base : base = 0
    OBVIOUS
  <2>2. \A i \in 1..n :
          /\ mu[i - 1] \in Nat /\ mu[i] = (2 * mu[i - 1]) + t.ds[k + i].bit
          /\ t.ds[k + i].key = <<array, row, base + mu[i - 1]>>
    BY <1>5, <2>1
  <2>3. n \in Nat
    OBVIOUS
  <2>4. Took(t, k + n, DecodeTree(d, array, row, base, n), mu[n])
    BY <1>2, <1>4, <2>2, <2>3, TreeRead
  <2> QED
    BY <2>1, <2>4
<1> QED
  BY <1>4, <1>6

-----------------------------------------------------------------------------
(* A single decision.                                                      *)

LEMMA BitListed ==
  ASSUME NEW array, NEW row, NEW place, NEW bit
  PROVE  /\ Listed(Bit(array, row, place, bit), 1)
         /\ Bit(array, row, place, bit)[1] = [key |-> <<array, row, place>>, bit |-> bit]
BY DEF Bit, Listed

LEMMA BitSays ==
  ASSUME LzmaAssumption, NEW t, Tape(t), NEW k, NEW d, Reads(t, d, k), d.ok,
         NEW array, NEW row, NEW place, NEW bit,
         Says(t, k, Bit(array, row, place, bit), 1)
  PROVE  Took(t, k + 1, One(d, <<array, row, place>>), bit)
<1>1. PICK key : key = <<array, row, place>> /\ key # <<>>
  <2>1. <<array, row, place>> # <<>>
    OBVIOUS
  <2> QED
    BY <2>1
<1>2. k \in Nat /\ k + 1 <= t.m /\ t.ds[k + 1] = [key |-> key, bit |-> bit]
  <2>1. 1 \in 1..1
    OBVIOUS
  <2> QED
    BY <1>1, <2>1, BitListed DEF Says
<1>3. t.ds[k + 1].key = key /\ t.ds[k + 1].bit = bit
  BY <1>2
<1> QED
  BY <1>1, <1>2, <1>3, OneRead

LEMMA LostOne ==
  ASSUME NEW t, NEW d, Lost(t, d), NEW key
  PROVE  Lost(t, One(d, key))
<1>1. PICK e : e = [d EXCEPT !.m = 0]
  OBVIOUS
<1>2. Lost(t, e)
  <2>1. Reset(t, d, 0, e)
    BY <1>1, ResetIs DEF Lost
  <2> QED
    BY <2>1 DEF Reset
<1> QED
  BY <1>1, <1>2, LostBit DEF One

(* r takes the place of d, which has read as much and has another symbol.  *)
LEMMA TookOther ==
  ASSUME NEW t, NEW k, NEW d, Reads(t, d, k), NEW v
  PROVE  Took(t, k, [d EXCEPT !.m = v], v) /\ (Lost(t, d) => Lost(t, [d EXCEPT !.m = v]))
<1>1. PICK r : r = [d EXCEPT !.m = v]
  OBVIOUS
<1>2. Reset(t, d, v, r)
  BY <1>1, ResetIs, LostIs
<1> QED
  BY <1>1, <1>2 DEF Reset, Took

-----------------------------------------------------------------------------
(* Lengths.                                                                *)

LEMMA LengthReadIs ==
  ASSUME LzmaAssumption, NEW t, Tape(t), NEW k, NEW n \in 0..30, NEW v \in Nat, v < 2^n,
         NEW d, Reads(t, d, k), d.ok, NEW tree, NEW row, NEW before \in Nat,
         Says(t, k, TreeBits(tree, row, v, n), n)
  PROVE  Took(t, k + n, LengthRead(d, tree, row, n, before), before + v)
<1>1. PICK r : r = DecodeTree(d, tree, row, 0, n)
  OBVIOUS
<1>2. Took(t, k + n, r, 2^n + v)
  BY <1>1, TreeSays
<1>3. PICK x : x = before + Symbol(r, n)
  OBVIOUS
<1>4. PICK e : e = LengthRead(d, tree, row, n, before) /\ e = [r EXCEPT !.m = x]
  BY <1>1, <1>3 DEF LengthRead
<1>5. Reset(t, r, x, e)
  <2>1. Reads(t, r, k + n)
    BY <1>2 DEF Took
  <2>2. Shape(r)
    BY <2>1, LostIs
  <2> QED
    BY <1>4, <2>2, ResetIs
<1>6. r.ok => x = before + v
  <2>1. PICK p \in Nat : p = 2^n
    BY Doubling
  <2>2. (p + v) - p = v
    OBVIOUS
  <2> QED
    BY <1>2, <1>3, <2>1, <2>2 DEF Took, Symbol
<1> QED
  BY <1>2, <1>4, <1>5, <1>6 DEF Took, Reset

LEMMA LostLength ==
  ASSUME NEW t, NEW d, Lost(t, d), NEW tree, NEW row, NEW before, NEW n \in Nat
  PROVE  Lost(t, LengthRead(d, tree, row, n, before))
<1>1. PICK r : r = DecodeTree(d, tree, row, 0, n) /\ Lost(t, r)
  BY LostTree
<1>2. PICK x : x = before + Symbol(r, n)
  OBVIOUS
<1>3. Reset(t, r, x, [r EXCEPT !.m = x])
  BY <1>1, ResetIs DEF Lost
<1> QED
  BY <1>1, <1>2, <1>3 DEF LengthRead, Reset

LEMMA LostChoice ==
  ASSUME NEW t, NEW d, Lost(t, d), NEW name, NEW row
  PROVE  Lost(t, FirstChoice(d, name, row)) /\ Lost(t, SecondChoice(d, name, row))
<1>1. \A tree, r, before : Lost(t, LengthRead(d, tree, r, 3, before))
  BY LostLength
<1>2. \A e, tree, r, before : Lost(t, e) => Lost(t, LengthRead(e, tree, r, 8, before))
  BY LostLength
<1>3. \A e, tree, r, before : Lost(t, e) => Lost(t, LengthRead(e, tree, r, 3, before))
  BY LostLength
<1>4. \A e : Lost(t, e) => Lost(t, SecondChoice(e, name, row))
  BY <1>2, <1>3 DEF SecondChoice
<1>5. Lost(t, One(d, <<name \o "Choice", 0, 2>>))
  BY LostOne
<1> QED
  BY <1>3, <1>4, <1>5 DEF FirstChoice

LengthSize(v) == IF v < 8 THEN 4 ELSE IF v \in 8..15 THEN 5 ELSE 10

-----------------------------------------------------------------------------
LEMMA LengthSays ==
  ASSUME LzmaAssumption,
         NEW t, Tape(t), NEW k, NEW d, Reads(t, d, k), d.ok, NEW name, NEW row, NEW v \in 0..271,
         Says(t, k, LengthBits(name, row, v), LengthSize(v))
  PROVE  Took(t, k + LengthSize(v), DecodeLength(d, name, row), v)
<1>1. k \in Nat /\ t.m \in Nat
  BY DEF Says, Tape
<1>2. PICK s : s = One(d, <<name \o "Choice", 0, 1>>)
  OBVIOUS
<1>3. DecodeLength(d, name, row) = FirstChoice(s, name, row)
  BY <1>2 DEF DecodeLength
<1>4. ASSUME Lost(t, s)
      PROVE  Took(t, k + LengthSize(v), DecodeLength(d, name, row), v)
  <2>1. PICK r : r = DecodeLength(d, name, row) /\ Lost(t, r)
    BY <1>3, <1>4, LostChoice
  <2> QED
    BY <2>1, LostIs DEF Took, Lost
<1>5. CASE v < 8
  <2>1. PICK a, c : /\ a = Bit(name \o "Choice", 0, 1, 0) /\ c = TreeBits(name \o "Low", row, v, 3)
                    /\ Listed(a, 1) /\ Listed(c, 3)
    BY BitListed, TreeListed
  <2>2. LengthBits(name, row, v) = a \o c /\ LengthSize(v) = 1 + 3
    BY <1>5, <2>1 DEF LengthBits, LengthSize
  <2>3. SaysBoth(t, k, a, 1, c, 3)
    BY <1>1, <2>1, <2>2, SaysParts
  <2>4. Took(t, k + 1, s, 0)
    BY <1>2, <2>1, <2>3, BitSays DEF SaysBoth
  <2>5. CASE ~s.ok
    BY <1>4, <2>4, <2>5, LostIs DEF Took
  <2>6. CASE s.ok
    <3>1. FirstChoice(s, name, row) = LengthRead(s, name \o "Low", row, 3, 0)
      BY <2>4, <2>6 DEF Took, FirstChoice
    <3>2. v < 2^3 /\ 3 \in 0..30 /\ v \in Nat /\ 0 \in Nat
      BY <1>5
    <3>3. Took(t, (k + 1) + 3, LengthRead(s, name \o "Low", row, 3, 0), 0 + v)
      <4>1. Says(t, k + 1, TreeBits(name \o "Low", row, v, 3), 3)
        BY <2>1, <2>3 DEF SaysBoth
      <4>2. Reads(t, s, k + 1)
        BY <2>4 DEF Took
      <4> QED
        BY <2>6, <3>2, <4>1, <4>2, LengthReadIs
    <3>4. (k + 1) + 3 = k + (1 + 3) /\ 0 + v = v
      BY <1>1
    <3> QED
      BY <1>3, <2>2, <3>1, <3>3, <3>4
  <2> QED
    BY <2>5, <2>6
<1>6. ASSUME NEW bit, NEW l, NEW b, b = Bit(name \o "Choice", 0, 1, 1),
             NEW e, e = Bit(name \o "Choice", 0, 2, bit), NEW f, Listed(f, l),
             NEW q, q = One(s, <<name \o "Choice", 0, 2>>), LengthSize(v) = (1 + 1) + l,
             LengthBits(name, row, v) = (b \o e) \o f
      PROVE  /\ s.ok => s.m = 1 /\ Took(t, k + 2, q, bit)
             /\ Says(t, k + 2, f, l) /\ l \in Nat
             /\ ~s.ok => Lost(t, s)
             /\ ~q.ok /\ s.ok => Lost(t, q)
  <2>1. Listed(b, 1) /\ Listed(e, 1) /\ l \in Nat
    <3>1. Listed(b, 1)
      BY <1>6, BitListed
    <3>2. Listed(e, 1)
      BY <1>6, BitListed
    <3>3. l \in Nat
      BY <1>6 DEF Listed
    <3> QED
      BY <3>1, <3>2, <3>3
  <2>2. Listed(b \o e, 1 + 1)
    BY <2>1, ListsJoined DEF BothListed
  <2>3. SaysBoth(t, k, b \o e, 1 + 1, f, l)
    BY <1>1, <1>6, <2>2, SaysParts
  <2>4. SaysBoth(t, k, b, 1, e, 1)
    BY <1>1, <2>1, <2>3, SaysParts DEF SaysBoth
  <2>5. Took(t, k + 1, s, 1)
    BY <1>2, <1>6, <2>4, BitSays DEF SaysBoth
  <2>6. (k + 1) + 1 = k + 2 /\ k + (1 + 1) = k + 2
    BY <1>1
  <2>7. ASSUME s.ok
        PROVE  Took(t, k + 2, q, bit)
    <3>1. Took(t, (k + 1) + 1, q, bit)
      BY <1>6, <2>4, <2>5, <2>7, BitSays DEF SaysBoth, Took
    <3> QED
      BY <2>6, <3>1
  <2> QED
    BY <2>1, <2>3, <2>5, <2>6, <2>7, LostIs DEF Took, SaysBoth
<1>7. CASE v \in 8..15
  <2>1. PICK b, e : /\ b = Bit(name \o "Choice", 0, 1, 1) /\ e = Bit(name \o "Choice", 0, 2, 0)
    OBVIOUS
  <2>2. PICK f : f = TreeBits(name \o "Mid", row, v - 8, 3) /\ Listed(f, 3)
    BY TreeListed
  <2>3. PICK q : q = One(s, <<name \o "Choice", 0, 2>>)
    OBVIOUS
  <2>4. ~(v < 8)
    BY <1>7
  <2>5. LengthBits(name, row, v) = (b \o e) \o f
    BY <1>7, <2>1, <2>2, <2>4 DEF LengthBits
  <2>6. LengthSize(v) = (1 + 1) + 3
    BY <1>7, <2>4 DEF LengthSize
  <2>7. /\ s.ok => s.m = 1 /\ Took(t, k + 2, q, 0)
        /\ Says(t, k + 2, f, 3)
        /\ ~s.ok => Lost(t, s)
        /\ ~q.ok /\ s.ok => Lost(t, q)
    BY <1>6, <2>1, <2>2, <2>3, <2>5, <2>6
  <2>8. CASE ~s.ok
    BY <1>4, <2>7, <2>8
  <2>9. CASE s.ok
    <3>1. FirstChoice(s, name, row) = SecondChoice(q, name, row)
      BY <2>3, <2>7, <2>9 DEF FirstChoice
    <3>2. CASE ~q.ok
      <4>1. Lost(t, SecondChoice(q, name, row))
        BY <2>7, <2>9, <3>2, LostChoice
      <4> QED
        BY <1>3, <3>1, <4>1, LostIs DEF Took, Lost
    <3>3. CASE q.ok
      <4>1. SecondChoice(q, name, row) = LengthRead(q, name \o "Mid", row, 3, 8)
        BY <2>7, <2>9, <3>3 DEF Took, SecondChoice
      <4>2. v - 8 < 2^3 /\ 3 \in 0..30 /\ v - 8 \in Nat /\ 8 \in Nat
        BY <1>7
      <4>3. Took(t, (k + 2) + 3, LengthRead(q, name \o "Mid", row, 3, 8), 8 + (v - 8))
        <5>1. Reads(t, q, k + 2)
          BY <2>7, <2>9 DEF Took
        <5>2. Says(t, k + 2, TreeBits(name \o "Mid", row, v - 8, 3), 3)
          BY <2>2, <2>7
        <5> QED
          BY <3>3, <4>2, <5>1, <5>2, LengthReadIs
      <4>4. (k + 2) + 3 = k + ((1 + 1) + 3) /\ 8 + (v - 8) = v
        BY <1>1
      <4> QED
        BY <1>3, <2>6, <3>1, <4>1, <4>3, <4>4
    <3> QED
      BY <3>2, <3>3
  <2> QED
    BY <2>8, <2>9
<1>8. CASE ~(v < 8) /\ v \notin 8..15
  <2>1. PICK b, e : /\ b = Bit(name \o "Choice", 0, 1, 1) /\ e = Bit(name \o "Choice", 0, 2, 1)
    OBVIOUS
  <2>2. PICK f : f = TreeBits(name \o "High", 0, v - 16, 8) /\ Listed(f, 8)
    BY TreeListed
  <2>3. PICK q : q = One(s, <<name \o "Choice", 0, 2>>)
    OBVIOUS
  <2>5. LengthBits(name, row, v) = (b \o e) \o f
    BY <1>8, <2>1, <2>2 DEF LengthBits
  <2>6. LengthSize(v) = (1 + 1) + 8
    BY <1>8 DEF LengthSize
  <2>7. /\ s.ok => s.m = 1 /\ Took(t, k + 2, q, 1)
        /\ Says(t, k + 2, f, 8)
        /\ ~s.ok => Lost(t, s)
        /\ ~q.ok /\ s.ok => Lost(t, q)
    BY <1>6, <2>1, <2>2, <2>3, <2>5, <2>6
  <2>8. CASE ~s.ok
    BY <1>4, <2>7, <2>8
  <2>9. CASE s.ok
    <3>1. FirstChoice(s, name, row) = SecondChoice(q, name, row)
      BY <2>3, <2>7, <2>9 DEF FirstChoice
    <3>2. CASE ~q.ok
      <4>1. Lost(t, SecondChoice(q, name, row))
        BY <2>7, <2>9, <3>2, LostChoice
      <4> QED
        BY <1>3, <3>1, <4>1, LostIs DEF Took, Lost
    <3>3. CASE q.ok
      <4>1. SecondChoice(q, name, row) = LengthRead(q, name \o "High", 0, 8, 16)
        BY <2>7, <2>9, <3>3 DEF Took, SecondChoice
      <4>2. v - 16 < 2^8 /\ 8 \in 0..30 /\ v - 16 \in Nat /\ 16 \in Nat
        BY <1>8
      <4>3. Took(t, (k + 2) + 8, LengthRead(q, name \o "High", 0, 8, 16), 16 + (v - 16))
        <5>1. Reads(t, q, k + 2)
          BY <2>7, <2>9 DEF Took
        <5>2. Says(t, k + 2, TreeBits(name \o "High", 0, v - 16, 8), 8)
          BY <2>2, <2>7
        <5> QED
          BY <3>3, <4>2, <5>1, <5>2, LengthReadIs
      <4>4. (k + 2) + 8 = k + ((1 + 1) + 8) /\ 16 + (v - 16) = v
        BY <1>1
      <4> QED
        BY <1>3, <2>6, <3>1, <4>1, <4>3, <4>4
    <3> QED
      BY <3>2, <3>3
  <2> QED
    BY <2>8, <2>9
<1> QED
  BY <1>5, <1>7, <1>8

-----------------------------------------------------------------------------
(* Bits without probabilities.                                             *)

LEMMA DirectListed ==
  ASSUME NEW v, NEW n \in Nat
  PROVE  /\ Listed(DirectBits(v, n), n)
         /\ \A i \in 1..n : DirectBits(v, n)[i] = [key |-> <<>>, bit |-> (v \div 2^(n - i)) % 2]
<1>1. PICK f : f = [i \in 1..n |-> [key |-> <<>>, bit |-> (v \div 2^(n - i)) % 2]]
  OBVIOUS
<1>2. DirectBits(v, n) = f
  BY <1>1 DEF DirectBits
<1>3. f = [i \in 1..n |-> f[i]]
  BY <1>1
<1>4. \A i \in 1..n : f[i] = [key |-> <<>>, bit |-> (v \div 2^(n - i)) % 2]
  BY <1>1
<1> QED
  BY <1>2, <1>3, <1>4 DEF Listed

LEMMA DirectSays ==
  ASSUME LzmaAssumption, NEW t, Tape(t), NEW k, NEW n \in 0..30, NEW v \in Nat, v < 2^n,
         NEW d, Reads(t, d, k), d.ok, Says(t, k, DirectBits(v, n), n)
  PROVE  Took(t, k + n, DecodeDirect(d, n), v)
<1>1. PICK a : a = DirectBits(v, n)
  OBVIOUS
<1>2. k \in Nat /\ k + n <= t.m /\ \A i \in 1..n : t.ds[k + i] = a[i]
  BY <1>1 DEF Says
<1>3. PICK mu : mu = [i \in 0..n |-> v \div 2^(n - i)]
  OBVIOUS
<1>4. mu[0] = 0 /\ mu[n] = v
  <2>1. PICK p \in Nat \ {0} : p = 2^n
    BY Doubling
  <2>2. v \div p = 0
    <3>1. v = (p * 0) + v
      OBVIOUS
    <3> QED
      BY <2>1, <3>1, Quotient
  <2>3. n - 0 = n /\ n - n = 0 /\ 2^0 = 1 /\ v \div 1 = v /\ 0 \in 0..n /\ n \in 0..n
    OBVIOUS
  <2> QED
    BY <1>3, <2>1, <2>2, <2>3
<1>5. ASSUME NEW i \in 1..n
      PROVE  /\ mu[i - 1] \in Nat /\ mu[i] = (2 * mu[i - 1]) + t.ds[k + i].bit
             /\ t.ds[k + i].key = <<>>
  <2>1. i \in 0..n /\ i - 1 \in 0..n /\ n - i \in 0..30 /\ (n - i) + 1 = n - (i - 1)
    OBVIOUS
  <2>2. PICK p \in Nat \ {0} : p = 2^(n - i) /\ 2^(n - (i - 1)) = 2 * p
    <3>1. 2^(n - i) \in Nat \ {0} /\ 2^((n - i) + 1) = 2 * 2^(n - i)
      BY <2>1, Doubling
    <3> QED
      BY <2>1, <3>1
  <2>3. Halves(v, p)
    BY HalvesIs
  <2>4. mu[i] = v \div p /\ mu[i - 1] = v \div (2 * p)
    BY <1>3, <2>1, <2>2
  <2>5. t.ds[k + i] = [key |-> <<>>, bit |-> (v \div p) % 2]
    <3>1. a[i] = [key |-> <<>>, bit |-> (v \div 2^(n - i)) % 2]
      BY <1>1 DEF DirectBits
    <3> QED
      BY <1>2, <2>2, <3>1
  <2>6. t.ds[k + i].key = <<>> /\ t.ds[k + i].bit = (v \div p) % 2
    BY <2>5
  <2> QED
    BY <2>3, <2>4, <2>6, Zenon DEF Halves
<1>6. \A i \in 1..n :
        /\ mu[i - 1] \in Nat /\ mu[i] = (2 * mu[i - 1]) + t.ds[k + i].bit
        /\ t.ds[k + i].key = <<>>
  BY <1>5
<1>7. n \in Nat
  OBVIOUS
<1>8. Took(t, k + n, DecodeDirect(d, n), mu[n])
  BY <1>2, <1>4, <1>6, <1>7, DirectRead
<1> QED
  BY <1>4, <1>8

-----------------------------------------------------------------------------
(* Bits in the reverse order.                                              *)

BitAt(v, i) == (v \div 2^(i - 1)) % 2

ReversedTo(v, n) ==
  /\ Reversed(v, 0) = 0
  /\ \A i \in 1..n : Reversed(v, i) = (2 * Reversed(v, i - 1)) + BitAt(v, i)

LEMMA ReversedOne ==
  ASSUME NEW v, NEW n \in Nat
  PROVE  Reversed(v, n + 1) = (2 * Reversed(v, n)) + BitAt(v, n + 1)
<1>1. PICK w : w = Count(n) /\ w \in Seq(Nat) /\ Len(w) = n /\ \A i \in 1..n : w[i] = i
  BY CountIs
<1>2. PICK x : /\ x = Count(n + 1) /\ x \in Seq(Nat) /\ Len(x) = n + 1
               /\ \A i \in 1..n + 1 : x[i] = i
  <2>1. n + 1 \in Nat
    OBVIOUS
  <2> QED
    BY <2>1, CountIs
<1>3. PICK r : Runs("reversed", v, 0, w, r) /\ Reversed(v, n) = r[n]
  BY <1>1, ReversedRuns
<1>4. PICK q : Runs("reversed", v, 0, x, q) /\ Reversed(v, n + 1) = q[n + 1]
  BY <1>2, ReversedRuns
<1>5. \A k \in 1..n : w[k] = x[k]
  BY <1>1, <1>2
<1>6. r[n] = q[n]
  BY <1>1, <1>2, <1>3, <1>4, <1>5, RunsAgree
<1>7. q[n + 1] = FoldStep("reversed", v, q[(n + 1) - 1], x[n + 1])
  BY <1>2, <1>4 DEF Runs
<1>8. (n + 1) - 1 = n /\ x[n + 1] = n + 1
  BY <1>2
<1> QED
  BY <1>3, <1>4, <1>6, <1>7, <1>8 DEF FoldStep, BitAt

LEMMA ReversedIs ==
  ASSUME NEW v, NEW n \in Nat
  PROVE  ReversedTo(v, n)
<1>1. Reversed(v, 0) = 0
  <2>1. PICK w : w = Count(0) /\ w \in Seq(Nat) /\ Len(w) = 0
    BY CountIs
  <2>2. PICK r : Runs("reversed", v, 0, w, r) /\ Reversed(v, 0) = r[0]
    BY <2>1, ReversedRuns
  <2> QED
    BY <2>2 DEF Runs
<1>2. ASSUME NEW i \in 1..n
      PROVE  Reversed(v, i) = (2 * Reversed(v, i - 1)) + BitAt(v, i)
  <2>1. i - 1 \in Nat /\ (i - 1) + 1 = i
    OBVIOUS
  <2> QED
    BY <2>1, ReversedOne
<1> QED
  BY <1>1, <1>2 DEF ReversedTo

(* What there is behind the first i bits, and the bit in front of it.      *)
Rests(v, n, q) ==
  /\ q[0] = v /\ q[n] = 0
  /\ \A i \in 1..n : q[i] \in Nat /\ BitAt(v, i) \in {0, 1} /\ q[i - 1] = (2 * q[i]) + BitAt(v, i)

LEMMA RestsAre ==
  ASSUME NEW n \in 0..30, NEW v \in Nat, v < 2^n
  PROVE  \E q : Rests(v, n, q)
<1>1. PICK q : q = [i \in 0..n |-> v \div 2^i]
  OBVIOUS
<1>2. q[0] = v /\ q[n] = 0
  <2>1. PICK p \in Nat \ {0} : p = 2^n
    BY Doubling
  <2>2. v \div p = 0
    <3>1. v = (p * 0) + v
      OBVIOUS
    <3> QED
      BY <2>1, <3>1, Quotient
  <2>3. 2^0 = 1 /\ v \div 1 = v /\ 0 \in 0..n /\ n \in 0..n
    OBVIOUS
  <2> QED
    BY <1>1, <2>1, <2>2, <2>3
<1>3. ASSUME NEW i \in 1..n
      PROVE  q[i] \in Nat /\ BitAt(v, i) \in {0, 1} /\ q[i - 1] = (2 * q[i]) + BitAt(v, i)
  <2>1. i - 1 \in 0..30 /\ (i - 1) + 1 = i /\ i - 1 \in 0..n /\ i \in 0..n
    OBVIOUS
  <2>2. 2^(i - 1) \in Nat \ {0} /\ 2^((i - 1) + 1) = 2 * 2^(i - 1)
    BY <2>1, Doubling
  <2>3. PICK p \in Nat \ {0} : p = 2^(i - 1) /\ 2^i = 2 * p
    BY <2>1, <2>2
  <2>4. Halves(v, p)
    BY HalvesIs
  <2>5. q[i] = v \div (2 * p) /\ q[i - 1] = v \div p /\ BitAt(v, i) = (v \div p) % 2
    BY <1>1, <2>1, <2>3 DEF BitAt
  <2> QED
    BY <2>4, <2>5, Zenon DEF Halves
<1> QED
  BY <1>2, <1>3 DEF Rests

(* Twice reversed, n bits are what they were.                              *)
Mirrors(v, n) ==
  /\ Reversed(v, n) \in Nat /\ Reversed(v, n) < 2^n
  /\ Reversed(Reversed(v, n), n) = v

LEMMA OneBits ==
  ASSUME NEW v \in Nat, v < 2^1
  PROVE  \E b1 \in {0, 1} :
           v = b1 /\ Reversed(v, 1) = b1
<1>1. PICK q : Rests(v, 1, q)
  <2>1. 1 \in 0..30
    OBVIOUS
  <2> QED
    BY <2>1, RestsAre
<1>2. ReversedTo(v, 1)
  <2>1. 1 \in Nat
    OBVIOUS
  <2> QED
    BY <2>1, ReversedIs
<1>3. \A i \in 1..1 : BitAt(v, i) \in {0, 1}
  BY <1>1 DEF Rests
<1>4. PICK b1 \in {0, 1} : b1 = BitAt(v, 1)
  BY <1>3
<1>5. Reversed(v, 0) = 0
  BY <1>2 DEF ReversedTo
<1>6. Reversed(v, 1) = b1
  <2>1. 1 \in 1..1 /\ 1 - 1 = 0
    OBVIOUS
  <2>2. Reversed(v, 1) = (2 * Reversed(v, 0)) + b1
    BY <1>2, <1>4, <2>1 DEF ReversedTo
  <2> QED
    BY <1>5, <2>2
<1>7. q[1] = 0
  BY <1>1 DEF Rests
<1>8. q[0] = b1
  <2>1. 1 \in 1..1 /\ 1 - 1 = 0
    OBVIOUS
  <2>2. q[0] = (2 * q[1]) + b1
    BY <1>1, <1>4, <2>1 DEF Rests
  <2> QED
    BY <1>7, <2>2
<1>9. v = b1 /\ Reversed(v, 1) = b1
  BY <1>1, <1>8, <1>6 DEF Rests
<1> QED
  BY <1>9

LEMMA TwoBits ==
  ASSUME NEW v \in Nat, v < 2^2
  PROVE  \E b1, b2 \in {0, 1} :
           v = b1 + (2 * b2) /\ Reversed(v, 2) = (2 * b1) + b2
<1>1. PICK q : Rests(v, 2, q)
  <2>1. 2 \in 0..30
    OBVIOUS
  <2> QED
    BY <2>1, RestsAre
<1>2. ReversedTo(v, 2)
  <2>1. 2 \in Nat
    OBVIOUS
  <2> QED
    BY <2>1, ReversedIs
<1>3. \A i \in 1..2 : BitAt(v, i) \in {0, 1}
  BY <1>1 DEF Rests
<1>4. PICK b1, b2 \in {0, 1} : b1 = BitAt(v, 1) /\ b2 = BitAt(v, 2)
  BY <1>3
<1>5. Reversed(v, 0) = 0
  BY <1>2 DEF ReversedTo
<1>6. Reversed(v, 1) = b1
  <2>1. 1 \in 1..2 /\ 1 - 1 = 0
    OBVIOUS
  <2>2. Reversed(v, 1) = (2 * Reversed(v, 0)) + b1
    BY <1>2, <1>4, <2>1 DEF ReversedTo
  <2> QED
    BY <1>5, <2>2
<1>7. Reversed(v, 2) = (2 * b1) + b2
  <2>1. 2 \in 1..2 /\ 2 - 1 = 1
    OBVIOUS
  <2>2. Reversed(v, 2) = (2 * Reversed(v, 1)) + b2
    BY <1>2, <1>4, <2>1 DEF ReversedTo
  <2> QED
    BY <1>6, <2>2
<1>8. q[2] = 0
  BY <1>1 DEF Rests
<1>9. q[1] = b2
  <2>1. 2 \in 1..2 /\ 2 - 1 = 1
    OBVIOUS
  <2>2. q[1] = (2 * q[2]) + b2
    BY <1>1, <1>4, <2>1 DEF Rests
  <2> QED
    BY <1>8, <2>2
<1>10. q[0] = b1 + (2 * b2)
  <2>1. 1 \in 1..2 /\ 1 - 1 = 0
    OBVIOUS
  <2>2. q[0] = (2 * q[1]) + b1
    BY <1>1, <1>4, <2>1 DEF Rests
  <2> QED
    BY <1>9, <2>2
<1>11. v = b1 + (2 * b2) /\ Reversed(v, 2) = (2 * b1) + b2
  BY <1>1, <1>10, <1>7 DEF Rests
<1> QED
  BY <1>11

LEMMA ThreeBits ==
  ASSUME NEW v \in Nat, v < 2^3
  PROVE  \E b1, b2, b3 \in {0, 1} :
           v = b1 + (2 * b2) + (4 * b3) /\ Reversed(v, 3) = (4 * b1) + (2 * b2) + b3
<1>1. PICK q : Rests(v, 3, q)
  <2>1. 3 \in 0..30
    OBVIOUS
  <2> QED
    BY <2>1, RestsAre
<1>2. ReversedTo(v, 3)
  <2>1. 3 \in Nat
    OBVIOUS
  <2> QED
    BY <2>1, ReversedIs
<1>3. \A i \in 1..3 : BitAt(v, i) \in {0, 1}
  BY <1>1 DEF Rests
<1>4. PICK b1, b2, b3 \in {0, 1} : b1 = BitAt(v, 1) /\ b2 = BitAt(v, 2) /\ b3 = BitAt(v, 3)
  BY <1>3
<1>5. Reversed(v, 0) = 0
  BY <1>2 DEF ReversedTo
<1>6. Reversed(v, 1) = b1
  <2>1. 1 \in 1..3 /\ 1 - 1 = 0
    OBVIOUS
  <2>2. Reversed(v, 1) = (2 * Reversed(v, 0)) + b1
    BY <1>2, <1>4, <2>1 DEF ReversedTo
  <2> QED
    BY <1>5, <2>2
<1>7. Reversed(v, 2) = (2 * b1) + b2
  <2>1. 2 \in 1..3 /\ 2 - 1 = 1
    OBVIOUS
  <2>2. Reversed(v, 2) = (2 * Reversed(v, 1)) + b2
    BY <1>2, <1>4, <2>1 DEF ReversedTo
  <2> QED
    BY <1>6, <2>2
<1>8. Reversed(v, 3) = (4 * b1) + (2 * b2) + b3
  <2>1. 3 \in 1..3 /\ 3 - 1 = 2
    OBVIOUS
  <2>2. Reversed(v, 3) = (2 * Reversed(v, 2)) + b3
    BY <1>2, <1>4, <2>1 DEF ReversedTo
  <2> QED
    BY <1>7, <2>2
<1>9. q[3] = 0
  BY <1>1 DEF Rests
<1>10. q[2] = b3
  <2>1. 3 \in 1..3 /\ 3 - 1 = 2
    OBVIOUS
  <2>2. q[2] = (2 * q[3]) + b3
    BY <1>1, <1>4, <2>1 DEF Rests
  <2> QED
    BY <1>9, <2>2
<1>11. q[1] = b2 + (2 * b3)
  <2>1. 2 \in 1..3 /\ 2 - 1 = 1
    OBVIOUS
  <2>2. q[1] = (2 * q[2]) + b2
    BY <1>1, <1>4, <2>1 DEF Rests
  <2> QED
    BY <1>10, <2>2
<1>12. q[0] = b1 + (2 * b2) + (4 * b3)
  <2>1. 1 \in 1..3 /\ 1 - 1 = 0
    OBVIOUS
  <2>2. q[0] = (2 * q[1]) + b1
    BY <1>1, <1>4, <2>1 DEF Rests
  <2> QED
    BY <1>11, <2>2
<1>13. v = b1 + (2 * b2) + (4 * b3) /\ Reversed(v, 3) = (4 * b1) + (2 * b2) + b3
  BY <1>1, <1>12, <1>8 DEF Rests
<1> QED
  BY <1>13

LEMMA FourBits ==
  ASSUME NEW v \in Nat, v < 2^4
  PROVE  \E b1, b2, b3, b4 \in {0, 1} :
           v = b1 + (2 * b2) + (4 * b3) + (8 * b4) /\ Reversed(v, 4) = (8 * b1) + (4 * b2) + (2 * b3) + b4
<1>1. PICK q : Rests(v, 4, q)
  <2>1. 4 \in 0..30
    OBVIOUS
  <2> QED
    BY <2>1, RestsAre
<1>2. ReversedTo(v, 4)
  <2>1. 4 \in Nat
    OBVIOUS
  <2> QED
    BY <2>1, ReversedIs
<1>3. \A i \in 1..4 : BitAt(v, i) \in {0, 1}
  BY <1>1 DEF Rests
<1>4. PICK b1, b2, b3, b4 \in {0, 1} : b1 = BitAt(v, 1) /\ b2 = BitAt(v, 2) /\ b3 = BitAt(v, 3) /\ b4 = BitAt(v, 4)
  BY <1>3
<1>5. Reversed(v, 0) = 0
  BY <1>2 DEF ReversedTo
<1>6. Reversed(v, 1) = b1
  <2>1. 1 \in 1..4 /\ 1 - 1 = 0
    OBVIOUS
  <2>2. Reversed(v, 1) = (2 * Reversed(v, 0)) + b1
    BY <1>2, <1>4, <2>1 DEF ReversedTo
  <2> QED
    BY <1>5, <2>2
<1>7. Reversed(v, 2) = (2 * b1) + b2
  <2>1. 2 \in 1..4 /\ 2 - 1 = 1
    OBVIOUS
  <2>2. Reversed(v, 2) = (2 * Reversed(v, 1)) + b2
    BY <1>2, <1>4, <2>1 DEF ReversedTo
  <2> QED
    BY <1>6, <2>2
<1>8. Reversed(v, 3) = (4 * b1) + (2 * b2) + b3
  <2>1. 3 \in 1..4 /\ 3 - 1 = 2
    OBVIOUS
  <2>2. Reversed(v, 3) = (2 * Reversed(v, 2)) + b3
    BY <1>2, <1>4, <2>1 DEF ReversedTo
  <2> QED
    BY <1>7, <2>2
<1>9. Reversed(v, 4) = (8 * b1) + (4 * b2) + (2 * b3) + b4
  <2>1. 4 \in 1..4 /\ 4 - 1 = 3
    OBVIOUS
  <2>2. Reversed(v, 4) = (2 * Reversed(v, 3)) + b4
    BY <1>2, <1>4, <2>1 DEF ReversedTo
  <2> QED
    BY <1>8, <2>2
<1>10. q[4] = 0
  BY <1>1 DEF Rests
<1>11. q[3] = b4
  <2>1. 4 \in 1..4 /\ 4 - 1 = 3
    OBVIOUS
  <2>2. q[3] = (2 * q[4]) + b4
    BY <1>1, <1>4, <2>1 DEF Rests
  <2> QED
    BY <1>10, <2>2
<1>12. q[2] = b3 + (2 * b4)
  <2>1. 3 \in 1..4 /\ 3 - 1 = 2
    OBVIOUS
  <2>2. q[2] = (2 * q[3]) + b3
    BY <1>1, <1>4, <2>1 DEF Rests
  <2> QED
    BY <1>11, <2>2
<1>13. q[1] = b2 + (2 * b3) + (4 * b4)
  <2>1. 2 \in 1..4 /\ 2 - 1 = 1
    OBVIOUS
  <2>2. q[1] = (2 * q[2]) + b2
    BY <1>1, <1>4, <2>1 DEF Rests
  <2> QED
    BY <1>12, <2>2
<1>14. q[0] = b1 + (2 * b2) + (4 * b3) + (8 * b4)
  <2>1. 1 \in 1..4 /\ 1 - 1 = 0
    OBVIOUS
  <2>2. q[0] = (2 * q[1]) + b1
    BY <1>1, <1>4, <2>1 DEF Rests
  <2> QED
    BY <1>13, <2>2
<1>15. v = b1 + (2 * b2) + (4 * b3) + (8 * b4) /\ Reversed(v, 4) = (8 * b1) + (4 * b2) + (2 * b3) + b4
  BY <1>1, <1>14, <1>9 DEF Rests
<1> QED
  BY <1>15

LEMMA FiveBits ==
  ASSUME NEW v \in Nat, v < 2^5
  PROVE  \E b1, b2, b3, b4, b5 \in {0, 1} :
           v = b1 + (2 * b2) + (4 * b3) + (8 * b4) + (16 * b5) /\ Reversed(v, 5) = (16 * b1) + (8 * b2) + (4 * b3) + (2 * b4) + b5
<1>1. PICK q : Rests(v, 5, q)
  <2>1. 5 \in 0..30
    OBVIOUS
  <2> QED
    BY <2>1, RestsAre
<1>2. ReversedTo(v, 5)
  <2>1. 5 \in Nat
    OBVIOUS
  <2> QED
    BY <2>1, ReversedIs
<1>3. \A i \in 1..5 : BitAt(v, i) \in {0, 1}
  BY <1>1 DEF Rests
<1>4. PICK b1, b2, b3, b4, b5 \in {0, 1} : b1 = BitAt(v, 1) /\ b2 = BitAt(v, 2) /\ b3 = BitAt(v, 3) /\ b4 = BitAt(v, 4) /\ b5 = BitAt(v, 5)
  BY <1>3
<1>5. Reversed(v, 0) = 0
  BY <1>2 DEF ReversedTo
<1>6. Reversed(v, 1) = b1
  <2>1. 1 \in 1..5 /\ 1 - 1 = 0
    OBVIOUS
  <2>2. Reversed(v, 1) = (2 * Reversed(v, 0)) + b1
    BY <1>2, <1>4, <2>1 DEF ReversedTo
  <2> QED
    BY <1>5, <2>2
<1>7. Reversed(v, 2) = (2 * b1) + b2
  <2>1. 2 \in 1..5 /\ 2 - 1 = 1
    OBVIOUS
  <2>2. Reversed(v, 2) = (2 * Reversed(v, 1)) + b2
    BY <1>2, <1>4, <2>1 DEF ReversedTo
  <2> QED
    BY <1>6, <2>2
<1>8. Reversed(v, 3) = (4 * b1) + (2 * b2) + b3
  <2>1. 3 \in 1..5 /\ 3 - 1 = 2
    OBVIOUS
  <2>2. Reversed(v, 3) = (2 * Reversed(v, 2)) + b3
    BY <1>2, <1>4, <2>1 DEF ReversedTo
  <2> QED
    BY <1>7, <2>2
<1>9. Reversed(v, 4) = (8 * b1) + (4 * b2) + (2 * b3) + b4
  <2>1. 4 \in 1..5 /\ 4 - 1 = 3
    OBVIOUS
  <2>2. Reversed(v, 4) = (2 * Reversed(v, 3)) + b4
    BY <1>2, <1>4, <2>1 DEF ReversedTo
  <2> QED
    BY <1>8, <2>2
<1>10. Reversed(v, 5) = (16 * b1) + (8 * b2) + (4 * b3) + (2 * b4) + b5
  <2>1. 5 \in 1..5 /\ 5 - 1 = 4
    OBVIOUS
  <2>2. Reversed(v, 5) = (2 * Reversed(v, 4)) + b5
    BY <1>2, <1>4, <2>1 DEF ReversedTo
  <2> QED
    BY <1>9, <2>2
<1>11. q[5] = 0
  BY <1>1 DEF Rests
<1>12. q[4] = b5
  <2>1. 5 \in 1..5 /\ 5 - 1 = 4
    OBVIOUS
  <2>2. q[4] = (2 * q[5]) + b5
    BY <1>1, <1>4, <2>1 DEF Rests
  <2> QED
    BY <1>11, <2>2
<1>13. q[3] = b4 + (2 * b5)
  <2>1. 4 \in 1..5 /\ 4 - 1 = 3
    OBVIOUS
  <2>2. q[3] = (2 * q[4]) + b4
    BY <1>1, <1>4, <2>1 DEF Rests
  <2> QED
    BY <1>12, <2>2
<1>14. q[2] = b3 + (2 * b4) + (4 * b5)
  <2>1. 3 \in 1..5 /\ 3 - 1 = 2
    OBVIOUS
  <2>2. q[2] = (2 * q[3]) + b3
    BY <1>1, <1>4, <2>1 DEF Rests
  <2> QED
    BY <1>13, <2>2
<1>15. q[1] = b2 + (2 * b3) + (4 * b4) + (8 * b5)
  <2>1. 2 \in 1..5 /\ 2 - 1 = 1
    OBVIOUS
  <2>2. q[1] = (2 * q[2]) + b2
    BY <1>1, <1>4, <2>1 DEF Rests
  <2> QED
    BY <1>14, <2>2
<1>16. q[0] = b1 + (2 * b2) + (4 * b3) + (8 * b4) + (16 * b5)
  <2>1. 1 \in 1..5 /\ 1 - 1 = 0
    OBVIOUS
  <2>2. q[0] = (2 * q[1]) + b1
    BY <1>1, <1>4, <2>1 DEF Rests
  <2> QED
    BY <1>15, <2>2
<1>17. v = b1 + (2 * b2) + (4 * b3) + (8 * b4) + (16 * b5) /\ Reversed(v, 5) = (16 * b1) + (8 * b2) + (4 * b3) + (2 * b4) + b5
  BY <1>1, <1>16, <1>10 DEF Rests
<1> QED
  BY <1>17

LEMMA MirrorsIs ==
  ASSUME NEW n \in 1..5, NEW v \in Nat, v < 2^n
  PROVE  Mirrors(v, n)
<1>1. CASE n = 1
  <2>1. v < 2^1 /\ 2^1 = 2
    BY <1>1
  <2>2. PICK b1 \in {0, 1} :
          v = b1 /\ Reversed(v, 1) = b1
    BY <2>1, OneBits
  <2>3. PICK x : x = Reversed(v, 1) /\ x = b1
    BY <2>2
  <2>4. x \in Nat /\ x < 2^1
    BY <2>1, <2>3
  <2>5. PICK c1 \in {0, 1} :
          x = c1 /\ Reversed(x, 1) = c1
    BY <2>4, OneBits
  <2>6. c1 = b1
    BY <2>3, <2>5
  <2>7. Reversed(x, 1) = v
    BY <2>2, <2>5, <2>6
  <2> QED
    BY <1>1, <2>3, <2>4, <2>7 DEF Mirrors
<1>2. CASE n = 2
  <2>1. v < 2^2 /\ 2^2 = 4
    BY <1>2
  <2>2. PICK b1, b2 \in {0, 1} :
          v = b1 + (2 * b2) /\ Reversed(v, 2) = (2 * b1) + b2
    BY <2>1, TwoBits
  <2>3. PICK x : x = Reversed(v, 2) /\ x = (2 * b1) + b2
    BY <2>2
  <2>4. x \in Nat /\ x < 2^2
    BY <2>1, <2>3
  <2>5. PICK c1, c2 \in {0, 1} :
          x = c1 + (2 * c2) /\ Reversed(x, 2) = (2 * c1) + c2
    BY <2>4, TwoBits
  <2>6. c1 = b2 /\ c2 = b1
    BY <2>3, <2>5
  <2>7. Reversed(x, 2) = v
    BY <2>2, <2>5, <2>6
  <2> QED
    BY <1>2, <2>3, <2>4, <2>7 DEF Mirrors
<1>3. CASE n = 3
  <2>1. v < 2^3 /\ 2^3 = 8
    BY <1>3
  <2>2. PICK b1, b2, b3 \in {0, 1} :
          v = b1 + (2 * b2) + (4 * b3) /\ Reversed(v, 3) = (4 * b1) + (2 * b2) + b3
    BY <2>1, ThreeBits
  <2>3. PICK x : x = Reversed(v, 3) /\ x = (4 * b1) + (2 * b2) + b3
    BY <2>2
  <2>4. x \in Nat /\ x < 2^3
    BY <2>1, <2>3
  <2>5. PICK c1, c2, c3 \in {0, 1} :
          x = c1 + (2 * c2) + (4 * c3) /\ Reversed(x, 3) = (4 * c1) + (2 * c2) + c3
    BY <2>4, ThreeBits
  <2>6. c1 = b3 /\ c2 = b2 /\ c3 = b1
    BY <2>3, <2>5
  <2>7. Reversed(x, 3) = v
    BY <2>2, <2>5, <2>6
  <2> QED
    BY <1>3, <2>3, <2>4, <2>7 DEF Mirrors
<1>4. CASE n = 4
  <2>1. v < 2^4 /\ 2^4 = 16
    BY <1>4
  <2>2. PICK b1, b2, b3, b4 \in {0, 1} :
          v = b1 + (2 * b2) + (4 * b3) + (8 * b4) /\ Reversed(v, 4) = (8 * b1) + (4 * b2) + (2 * b3) + b4
    BY <2>1, FourBits
  <2>3. PICK x : x = Reversed(v, 4) /\ x = (8 * b1) + (4 * b2) + (2 * b3) + b4
    BY <2>2
  <2>4. x \in Nat /\ x < 2^4
    BY <2>1, <2>3
  <2>5. PICK c1, c2, c3, c4 \in {0, 1} :
          x = c1 + (2 * c2) + (4 * c3) + (8 * c4) /\ Reversed(x, 4) = (8 * c1) + (4 * c2) + (2 * c3) + c4
    BY <2>4, FourBits
  <2>6. c1 = b4 /\ c2 = b3 /\ c3 = b2 /\ c4 = b1
    BY <2>3, <2>5
  <2>7. Reversed(x, 4) = v
    BY <2>2, <2>5, <2>6
  <2> QED
    BY <1>4, <2>3, <2>4, <2>7 DEF Mirrors
<1>5. CASE n = 5
  <2>1. v < 2^5 /\ 2^5 = 32
    BY <1>5
  <2>2. PICK b1, b2, b3, b4, b5 \in {0, 1} :
          v = b1 + (2 * b2) + (4 * b3) + (8 * b4) + (16 * b5) /\ Reversed(v, 5) = (16 * b1) + (8 * b2) + (4 * b3) + (2 * b4) + b5
    BY <2>1, FiveBits
  <2>3. PICK x : x = Reversed(v, 5) /\ x = (16 * b1) + (8 * b2) + (4 * b3) + (2 * b4) + b5
    BY <2>2
  <2>4. x \in Nat /\ x < 2^5
    BY <2>1, <2>3
  <2>5. PICK c1, c2, c3, c4, c5 \in {0, 1} :
          x = c1 + (2 * c2) + (4 * c3) + (8 * c4) + (16 * c5) /\ Reversed(x, 5) = (16 * c1) + (8 * c2) + (4 * c3) + (2 * c4) + c5
    BY <2>4, FiveBits
  <2>6. c1 = b5 /\ c2 = b4 /\ c3 = b3 /\ c4 = b2 /\ c5 = b1
    BY <2>3, <2>5
  <2>7. Reversed(x, 5) = v
    BY <2>2, <2>5, <2>6
  <2> QED
    BY <1>5, <2>3, <2>4, <2>7 DEF Mirrors
<1> QED
  BY <1>1, <1>2, <1>3, <1>4, <1>5

-----------------------------------------------------------------------------
LEMMA ReversedNat ==
  ASSUME NEW n \in 0..30, NEW v \in Nat, v < 2^n
  PROVE  \A i \in 0..n : Reversed(v, i) \in Nat
<1>1. PICK q : Rests(v, n, q)
  BY RestsAre
<1>2. ReversedTo(v, n)
  <2>1. n \in Nat
    OBVIOUS
  <2> QED
    BY <2>1, ReversedIs
<1> DEFINE G == {i \in 0..n : Reversed(v, i) \in Nat}
<1>3. 0 \in G
  BY <1>2 DEF ReversedTo
<1>4. ASSUME NEW i \in 1..n, i - 1 \in G
      PROVE  i \in G
  <2>1. PICK b \in {0, 1} : b = BitAt(v, i)
    BY <1>1 DEF Rests
  <2>2. PICK x \in Nat : x = Reversed(v, i - 1)
    BY <1>4
  <2>3. Reversed(v, i) = (2 * x) + b
    BY <1>2, <2>1, <2>2 DEF ReversedTo
  <2> QED
    BY <2>3
<1>5. Q!Climbs(G, n)
  BY <1>4 DEF Q!Climbs
<1> HIDE DEF G
<1>6. n \in Nat
  OBVIOUS
<1>7. \A i \in 0..n : i \in G
  BY <1>3, <1>5, <1>6, Q!Climbing
<1> QED
  BY <1>7 DEF G

LEMMA ReverseListed ==
  ASSUME NEW array, NEW base, NEW v, NEW n \in Nat
  PROVE  /\ Listed(ReverseBits(array, base, v, n), n)
         /\ \A i \in 1..n : ReverseBits(array, base, v, n)[i] =
              [key |-> <<array, 0, base + 2^(i - 1) + Reversed(v, i - 1)>>, bit |-> BitAt(v, i)]
<1>1. PICK f : f = [i \in 1..n |->
                     [key |-> <<array, 0, base + 2^(i - 1) + Reversed(v, i - 1)>>, bit |-> BitAt(v, i)]]
  OBVIOUS
<1>2. ReverseBits(array, base, v, n) = f
  BY <1>1 DEF ReverseBits, BitAt
<1>3. f = [i \in 1..n |-> f[i]]
  BY <1>1
<1>4. \A i \in 1..n :
        f[i] = [key |-> <<array, 0, base + 2^(i - 1) + Reversed(v, i - 1)>>, bit |-> BitAt(v, i)]
  BY <1>1
<1> QED
  BY <1>2, <1>3, <1>4 DEF Listed

LEMMA ReverseSays ==
  ASSUME LzmaAssumption, NEW t, Tape(t), NEW k, NEW n \in 0..30, NEW v \in Nat, v < 2^n,
         NEW d, Reads(t, d, k), d.ok, NEW array, NEW base \in Int,
         Says(t, k, ReverseBits(array, base, v, n), n)
  PROVE  Took(t, k + n, DecodeTree(d, array, 0, base, n), 2^n + Reversed(v, n))
<1>1. PICK a : a = ReverseBits(array, base, v, n)
  OBVIOUS
<1>2. k \in Nat /\ k + n <= t.m /\ \A i \in 1..n : t.ds[k + i] = a[i]
  BY <1>1 DEF Says
<1>3. PICK mu : mu = [i \in 0..n |-> 2^i + Reversed(v, i)]
  OBVIOUS
<1>4. n \in Nat /\ 0 \in 0..n /\ n \in 0..n /\ 2^0 = 1
  OBVIOUS
<1>5. ReversedTo(v, n)
  BY <1>4, ReversedIs
<1>6. mu[0] = 1 /\ mu[n] = 2^n + Reversed(v, n)
  BY <1>3, <1>4, <1>5 DEF ReversedTo
<1>7. ASSUME NEW i \in 1..n
      PROVE  /\ mu[i - 1] \in Nat /\ mu[i] = (2 * mu[i - 1]) + t.ds[k + i].bit
             /\ t.ds[k + i].key = <<array, 0, base + mu[i - 1]>>
  <2>1. i \in 0..n /\ i - 1 \in 0..n /\ i - 1 \in 0..30 /\ (i - 1) + 1 = i
    OBVIOUS
  <2>2. PICK p \in Nat : p = 2^(i - 1) /\ 2^i = 2 * p
    <3>1. 2^(i - 1) \in Nat \ {0} /\ 2^((i - 1) + 1) = 2 * 2^(i - 1)
      BY <2>1, Doubling
    <3> QED
      BY <2>1, <3>1
  <2>3. PICK x \in Nat : x = Reversed(v, i - 1)
    BY <2>1, ReversedNat
  <2>4. PICK b : b = BitAt(v, i) /\ b \in {0, 1}
    <3>1. PICK q : Rests(v, n, q)
      BY RestsAre
    <3> QED
      BY <3>1 DEF Rests
  <2>5. Reversed(v, i) = (2 * x) + b
    BY <1>5, <2>3, <2>4 DEF ReversedTo
  <2>6. mu[i - 1] = p + x /\ mu[i] = (2 * p) + ((2 * x) + b)
    BY <1>3, <2>1, <2>2, <2>3, <2>5
  <2>7. t.ds[k + i] = [key |-> <<array, 0, (base + p) + x>>, bit |-> b]
    <3>1. a[i] = [key |-> <<array, 0, (base + p) + x>>, bit |-> b]
      BY <1>1, <1>4, <2>2, <2>3, <2>4, ReverseListed
    <3> QED
      BY <1>2, <3>1
  <2>8. (base + p) + x = base + mu[i - 1]
    BY <2>6
  <2>9. t.ds[k + i].key = <<array, 0, base + mu[i - 1]>> /\ t.ds[k + i].bit = b
    BY <2>7, <2>8
  <2> QED
    BY <2>4, <2>6, <2>9
<1>8. \A i \in 1..n :
        /\ mu[i - 1] \in Nat /\ mu[i] = (2 * mu[i - 1]) + t.ds[k + i].bit
        /\ t.ds[k + i].key = <<array, 0, base + mu[i - 1]>>
  BY <1>7
<1>9. Took(t, k + n, DecodeTree(d, array, 0, base, n), mu[n])
  BY <1>2, <1>4, <1>6, <1>8, TreeRead
<1> QED
  BY <1>6, <1>9

(* A symbol that was written in the reverse order.                         *)
LEMMA MirrorRead ==
  ASSUME LzmaAssumption, NEW t, Tape(t), NEW k, NEW n \in 1..5, NEW v \in Nat, v < 2^n,
         NEW d, Reads(t, d, k), d.ok, NEW array, NEW base \in Int, NEW high \in Int,
         Says(t, k, ReverseBits(array, base, v, n), n),
         NEW r, r = DecodeTree(d, array, 0, base, n),
         NEW e, e = [r EXCEPT !.m = high + Reversed(Symbol(r, n), n)]
  PROVE  Took(t, k + n, e, high + v)
<1>1. n \in 0..30
  OBVIOUS
<1>2. Took(t, k + n, r, 2^n + Reversed(v, n))
  BY <1>1, ReverseSays
<1>3. PICK x : x = high + Reversed(Symbol(r, n), n)
  OBVIOUS
<1>4. Reset(t, r, x, e)
  BY <1>2, <1>3, ResetIs, LostIs DEF Took
<1>5. r.ok => x = high + v
  <2>1. PICK p \in Nat : p = 2^n
    BY <1>1, Doubling
  <2>2. Mirrors(v, n)
    BY MirrorsIs
  <2>3. PICK y \in Nat : y = Reversed(v, n) /\ Reversed(y, n) = v
    BY <2>2 DEF Mirrors
  <2>4. (p + y) - p = y
    OBVIOUS
  <2>5. r.ok => Symbol(r, n) = y
    BY <1>2, <2>1, <2>3, <2>4 DEF Took, Symbol
  <2> QED
    BY <1>3, <2>3, <2>5
<1> QED
  BY <1>2, <1>4, <1>5 DEF Took, Reset

LEMMA LostMirror ==
  ASSUME NEW t, NEW d, Lost(t, d), NEW array, NEW base, NEW n \in Nat,
         NEW r, r = DecodeTree(d, array, 0, base, n), NEW x
  PROVE  Lost(t, [r EXCEPT !.m = x])
<1>1. Lost(t, r)
  BY LostTree
<1>2. Reset(t, r, x, [r EXCEPT !.m = x])
  BY <1>1, ResetIs DEF Lost
<1> QED
  BY <1>1, <1>2 DEF Reset

-----------------------------------------------------------------------------
(* Distances.  A distance of which n bits come behind its slot.            *)
Parted(dist, slot, n) ==
  /\ slot = Slot(dist) /\ slot \in 4..61 /\ n \in 1..29 /\ n = (slot \div 2) - 1
  /\ dist % 2^n \in Nat /\ dist % 2^n < 2^n
  /\ Base(slot) \in Int /\ dist = Base(slot) + (dist % 2^n)
  /\ slot \in 4..13 <=> n <= 5

(* n + 1 is the place of the highest bit.                                  *)
Highest(dist, n) == n \in 2..30 /\ 2^n <= dist /\ dist < 2^(n + 1)

LEMMA HighestIs ==
  ASSUME NEW dist \in 4..(2^30 - 1) + 2^30
  PROVE  \E n \in 2..30 : Highest(dist, n)
<1>1. PICK S \in SUBSET Nat : S = {n \in 2..30 : dist < 2^(n + 1)}
  <2>1. {n \in 2..30 : dist < 2^(n + 1)} \in SUBSET Nat
    OBVIOUS
  <2> QED
    BY <2>1
<1>2. 30 \in S
  <2>1. 30 \in 0..30 /\ 30 \in 2..30
    OBVIOUS
  <2>2. 2^30 \in Nat \ {0} /\ 2^(30 + 1) = 2 * 2^30
    BY <2>1, Doubling
  <2>3. PICK g \in Nat : g = 2^30 /\ 2^(30 + 1) = 2 * g
    BY <2>2
  <2>4. dist \in 4..(g - 1) + g
    BY <2>3
  <2>5. dist < 2^(30 + 1)
    BY <2>3, <2>4
  <2> QED
    BY <1>1, <2>1, <2>5
<1>3. PICK m \in S : \A n \in S : m <= n
  BY <1>2, Q!HasLeast
<1>4. m \in 2..30 /\ dist < 2^(m + 1)
  BY <1>1, <1>3
<1>5. 2^m <= dist
  <2>1. CASE m = 2
    <3>1. 2^2 = 4
      OBVIOUS
    <3>2. dist >= 4
      OBVIOUS
    <3> QED
      BY <2>1, <3>1, <3>2
  <2>2. CASE m # 2
    <3>1. m - 1 \in 2..30 /\ (m - 1) + 1 = m /\ ~(m <= m - 1)
      BY <1>4, <2>2
    <3>2. m - 1 \notin S
      BY <1>3, <3>1
    <3>3. ~(dist < 2^((m - 1) + 1))
      BY <1>1, <3>1, <3>2
    <3>4. PICK p \in Nat : p = 2^m
      <4>1. m \in 0..30
        BY <1>4
      <4> QED
        BY <4>1, Doubling
    <3>5. dist \in Int
      OBVIOUS
    <3> QED
      BY <3>1, <3>3, <3>4, <3>5
  <2> QED
    BY <2>1, <2>2
<1> QED
  BY <1>4, <1>5 DEF Highest

LEMMA SlotIs ==
  ASSUME NEW dist \in 4..(2^30 - 1) + 2^30
  PROVE  \E n \in 1..29 : Parted(dist, Slot(dist), n)
<1>1. PICK h : h = (CHOOSE n \in 2..30 : 2^n <= dist /\ dist < 2^(n + 1))
  OBVIOUS
<1>2. Highest(dist, h)
  <2>1. \E n \in 2..30 : 2^n <= dist /\ dist < 2^(n + 1)
    BY HighestIs DEF Highest
  <2> QED
    BY <1>1, <2>1, Zenon DEF Highest
<1>3. h \in 2..30
  BY <1>2 DEF Highest
<1>4. dist \in Nat /\ ~(dist < 0) /\ ~(dist < 4)
  OBVIOUS
<1>5. PICK n : n = h - 1 /\ n \in 1..29 /\ n \in 0..30 /\ n + 1 = h /\ n + 1 \in 0..30
  BY <1>3
<1>6. PICK p \in Nat \ {0} : p = 2^n /\ 2^h = 2 * p /\ 2^(h + 1) = 4 * p
  <2>1. 2^n \in Nat \ {0} /\ 2^(n + 1) = 2 * 2^n /\ 2^((n + 1) + 1) = 2 * 2^(n + 1)
    BY <1>5, Doubling
  <2> QED
    BY <1>5, <2>1
<1>7. 2 * p <= dist /\ dist < 4 * p
  BY <1>2, <1>6 DEF Highest
<1>8. PICK q \in Nat, r \in Nat : q = dist \div p /\ r = dist % p /\ dist = (p * q) + r /\ r < p
  BY <1>4, Q!Division
<1>9. q \in {2, 3}
  <2>1. q < 2 => dist < 2 * p
    BY <1>8
  <2>2. q >= 4 => dist >= 4 * p
    <3>1. q >= 4 => p * q >= p * 4
      BY <1>8
    <3> QED
      BY <1>8, <3>1
  <2>3. ~(q < 2) /\ ~(q >= 4)
    BY <1>4, <1>7, <2>1, <2>2
  <2> QED
    BY <1>8, <2>3
<1>10. PICK slot : slot = (2 * h) + (q % 2)
  OBVIOUS
<1>11. Slot(dist) = slot
  BY <1>1, <1>4, <1>5, <1>6, <1>8, <1>10 DEF Slot
<1>12. /\ slot \in 4..61 /\ slot < 62 /\ n = (slot \div 2) - 1 /\ q = 2 + (slot % 2)
       /\ slot \in 4..13 <=> n <= 5
  <2>1. CASE q = 2
    <3>1. slot = 2 * h
      BY <1>3, <1>10, <2>1
    <3> QED
      BY <1>3, <1>5, <2>1, <3>1
  <2>2. CASE q = 3
    <3>1. slot = (2 * h) + 1
      BY <1>3, <1>10, <2>2
    <3> QED
      BY <1>3, <1>5, <2>2, <3>1
  <2> QED
    BY <1>9, <2>1, <2>2
<1>13. Base(slot) = q * p
  BY <1>6, <1>12 DEF Base
<1>14. Base(slot) \in Int /\ dist = Base(slot) + r
  <2>1. CASE q = 2
    BY <1>8, <1>13, <2>1
  <2>2. CASE q = 3
    BY <1>8, <1>13, <2>2
  <2> QED
    BY <1>9, <2>1, <2>2
<1>15. Parted(dist, Slot(dist), n)
  BY <1>5, <1>6, <1>8, <1>11, <1>12, <1>14 DEF Parted
<1> QED
  BY <1>5, <1>15

-----------------------------------------------------------------------------
(* What comes behind a slot.                                               *)
Extra(dist) == (Slot(dist) \div 2) - 1

More(dist) == IF dist < 0 THEN 2^30 - 1 ELSE dist % 2^Extra(dist)

RestBits(dist) ==
  CASE Slot(dist) < 4 -> <<>>
    [] Slot(dist) \in 4..13 ->
         ReverseBits("posSpecial", dist - More(dist) - Slot(dist), More(dist), Extra(dist))
    [] OTHER -> DirectBits(More(dist) \div 16, Extra(dist) - 4)
                  \o ReverseBits("posAlign", 0, More(dist) % 16, 4)

RestSize(dist) ==
  IF Slot(dist) < 4 THEN 0
    ELSE IF Slot(dist) \in 4..13 THEN Extra(dist) ELSE (Extra(dist) - 4) + 4

LEMMA DistanceBitsAre ==
  ASSUME NEW dist, NEW len \in Int
  PROVE  DistanceBits(dist, len) =
           TreeBits("posSlot", LenToPosState(len), Slot(dist), 6) \o RestBits(dist)
<1>1. PICK row : row = LenToPosState(len) /\ row = IF len > 5 THEN 3 ELSE len - 2
  BY DEF LenToPosState
<1>2. PICK slot : slot = Slot(dist)
  OBVIOUS
<1>3. PICK n : n = (slot \div 2) - 1 /\ n = Extra(dist)
  BY <1>2 DEF Extra
<1>4. PICK more : more = (IF dist < 0 THEN 2^30 - 1 ELSE dist % 2^n) /\ more = More(dist)
  BY <1>3 DEF More
<1> QED
  BY <1>1, <1>2, <1>3, <1>4, Zenon DEF DistanceBits, RestBits

(* How a slot and a distance belong together.                              *)
Split(dist) ==
  \/ Slot(dist) = dist /\ dist \in 0..3
  \/ /\ Slot(dist) \in 4..13 /\ Extra(dist) \in 1..5
     /\ More(dist) \in Nat /\ More(dist) < 2^Extra(dist)
     /\ Base(Slot(dist)) \in Int /\ dist = Base(Slot(dist)) + More(dist)
  \/ /\ Slot(dist) \in 14..63 /\ Extra(dist) \in 6..30
     /\ More(dist) \in Nat /\ More(dist) < 2^Extra(dist)
     /\ Base(Slot(dist)) \in Int /\ dist = Base(Slot(dist)) + More(dist)

Distances == {-1} \cup 0..(2^30 - 1) + 2^30

LEMMA SplitIs ==
  ASSUME NEW dist \in Distances
  PROVE  Split(dist)
<1>1. CASE dist = -1
  <2>1. Slot(dist) = 63
    BY <1>1 DEF Slot
  <2>2. Extra(dist) = 30
    BY <2>1 DEF Extra
  <2>3. PICK g \in Nat : g = 2^30 /\ g > 0
    <3>1. 30 \in 0..30
      OBVIOUS
    <3>2. 2^30 \in Nat \ {0}
      BY <3>1, Doubling
    <3>3. PICK g : g = 2^30 /\ g \in Nat \ {0}
      BY <3>2
    <3> QED
      BY <3>3
  <2>4. More(dist) = g - 1
    BY <1>1, <2>3 DEF More
  <2>5. Base(63) = -g
    <3>1. 63 % 2 = 1 /\ (63 \div 2) - 1 = 30 /\ ~(63 < 62)
      OBVIOUS
    <3>2. Base(63) = ((2 + 1) - 4) * g
      BY <2>3, <3>1 DEF Base
    <3> QED
      BY <3>2
  <2>6. More(dist) \in Nat /\ More(dist) < 2^Extra(dist)
    BY <2>2, <2>3, <2>4
  <2>7. Base(Slot(dist)) \in Int /\ dist = Base(Slot(dist)) + More(dist)
    BY <1>1, <2>1, <2>3, <2>4, <2>5
  <2>8. Slot(dist) \in 14..63 /\ Extra(dist) \in 6..30
    BY <2>1, <2>2
  <2> QED
    BY <2>6, <2>7, <2>8 DEF Split
<1>2. CASE dist \in 0..3
  <2>1. Slot(dist) = dist
    BY <1>2 DEF Slot
  <2> QED
    BY <1>2, <2>1 DEF Split
<1>3. CASE dist \in 4..(2^30 - 1) + 2^30
  <2>1. PICK n \in 1..29 : Parted(dist, Slot(dist), n)
    BY <1>3, SlotIs
  <2>2. Extra(dist) = n
    BY <2>1 DEF Parted, Extra
  <2>3. More(dist) = dist % 2^n
    <3>1. ~(dist < 0)
      BY <1>3
    <3> QED
      BY <2>2, <3>1 DEF More
  <2>4. More(dist) \in Nat /\ More(dist) < 2^Extra(dist)
    BY <2>1, <2>2, <2>3 DEF Parted
  <2>5. Base(Slot(dist)) \in Int /\ dist = Base(Slot(dist)) + More(dist)
    BY <2>1, <2>3 DEF Parted
  <2>6. Slot(dist) \in 4..61 /\ (Slot(dist) \in 4..13 <=> Extra(dist) <= 5)
    BY <2>1, <2>2 DEF Parted
  <2>7. CASE Slot(dist) \in 4..13
    <3>1. Extra(dist) \in 1..5
      BY <2>2, <2>6, <2>7
    <3> QED
      BY <2>4, <2>5, <2>7, <3>1 DEF Split
  <2>8. CASE Slot(dist) \notin 4..13
    <3>1. Extra(dist) \in 6..30 /\ Slot(dist) \in 14..63
      BY <2>2, <2>6, <2>8
    <3> QED
      BY <2>4, <2>5, <3>1 DEF Split
  <2> QED
    BY <2>7, <2>8
<1>4. dist = -1 \/ dist \in 0..3 \/ dist \in 4..(2^30 - 1) + 2^30
  <2>1. PICK g : g = (2^30 - 1) + 2^30
    OBVIOUS
  <2>2. dist = -1 \/ dist \in 0..g
    BY <2>1 DEF Distances
  <2>3. dist = -1 \/ dist \in 0..3 \/ dist \in 4..g
    BY <2>2
  <2> QED
    BY <2>1, <2>3
<1> QED
  BY <1>1, <1>2, <1>3, <1>4

LEMMA RestListed ==
  ASSUME NEW dist \in Distances
  PROVE  Listed(RestBits(dist), RestSize(dist)) /\ RestSize(dist) \in Nat
<1>1. Split(dist)
  BY SplitIs
<1>2. CASE Slot(dist) < 4
  <2>1. RestBits(dist) = <<>> /\ RestSize(dist) = 0
    BY <1>2 DEF RestBits, RestSize
  <2>2. PICK a : a = <<>> /\ a = [i \in 1..0 |-> a[i]]
    OBVIOUS
  <2> QED
    BY <2>1, <2>2 DEF Listed
<1>3. CASE Slot(dist) \in 4..13
  <2>1. ~(Slot(dist) < 4)
    BY <1>3
  <2>2. Extra(dist) \in Nat
    BY <1>1, <1>3 DEF Split
  <2>3. PICK a : a = ReverseBits("posSpecial", dist - More(dist) - Slot(dist), More(dist), Extra(dist))
                 /\ Listed(a, Extra(dist))
    BY <2>2, ReverseListed
  <2>4. RestBits(dist) = a
    BY <1>3, <2>1, <2>3 DEF RestBits
  <2>5. RestSize(dist) = Extra(dist)
    BY <1>3, <2>1 DEF RestSize
  <2> QED
    BY <2>2, <2>3, <2>4, <2>5
<1>4. CASE Slot(dist) \in 14..63
  <2>1. ~(Slot(dist) < 4) /\ Slot(dist) \notin 4..13
    BY <1>4
  <2>2. Extra(dist) - 4 \in Nat
    BY <1>1, <1>4 DEF Split
  <2>3. PICK a, b, l : /\ a = DirectBits(More(dist) \div 16, Extra(dist) - 4)
                       /\ b = ReverseBits("posAlign", 0, More(dist) % 16, 4)
                       /\ l = Extra(dist) - 4
    OBVIOUS
  <2>4. Listed(a, l)
    BY <2>2, <2>3, DirectListed
  <2>5. Listed(b, 4)
    BY <2>3, ReverseListed
  <2>6. BothListed(a, l, b, 4, a \o b)
    BY <2>4, <2>5, ListsJoined
  <2>7. Listed(a \o b, l + 4) /\ l + 4 \in Nat
    BY <2>2, <2>3, <2>6 DEF BothListed
  <2>8. RestBits(dist) = a \o b
    BY <2>1, <2>3 DEF RestBits
  <2>9. RestSize(dist) = l + 4
    BY <2>1, <2>3 DEF RestSize
  <2> QED
    BY <2>7, <2>8, <2>9
<1>5. Slot(dist) < 4 \/ Slot(dist) \in 4..13 \/ Slot(dist) \in 14..63
  BY <1>1 DEF Split
<1> QED
  BY <1>2, <1>3, <1>4, <1>5

-----------------------------------------------------------------------------
LEMMA LostFar ==
  ASSUME NEW t, NEW d, Lost(t, d), NEW high
  PROVE  Lost(t, Aligned(d, high))
<1>1. PICK r : r = DecodeTree(d, "posAlign", 0, 0, 4)
  OBVIOUS
<1>2. PICK x : x = high + Reversed(Symbol(r, 4), 4)
  OBVIOUS
<1>3. 4 \in Nat
  OBVIOUS
<1>4. Lost(t, [r EXCEPT !.m = x])
  BY <1>1, <1>3, LostMirror
<1> QED
  BY <1>1, <1>2, <1>4 DEF Aligned

LEMMA LostBehind ==
  ASSUME NEW t, NEW d, Lost(t, d), NEW slot \in Int
  PROVE  Lost(t, BehindSlot(d, slot))
<1>1. CASE slot < 4
  <2>1. PICK e : e = [d EXCEPT !.m = slot]
    OBVIOUS
  <2>2. Reset(t, d, slot, e)
    BY <2>1, ResetIs DEF Lost
  <2> QED
    BY <1>1, <2>1, <2>2 DEF BehindSlot, Reset
<1>2. CASE slot \in 4..13
  <2>1. PICK n \in Nat : n = (slot \div 2) - 1
    <3>1. (slot \div 2) - 1 \in Nat
      BY <1>2
    <3> QED
      BY <3>1
  <2>2. PICK r, x : /\ r = DecodeTree(d, "posSpecial", 0, Base(slot) - slot, n)
                    /\ x = Base(slot) + Reversed(Symbol(r, n), n)
    OBVIOUS
  <2>3. Lost(t, [r EXCEPT !.m = x])
    BY <2>2, LostMirror
  <2>4. Lost(t, Near(d, slot, n))
    BY <2>2, <2>3 DEF Near
  <2>5. ~(slot < 4)
    BY <1>2
  <2> QED
    BY <1>2, <2>1, <2>4, <2>5 DEF BehindSlot
<1>3. CASE ~(slot < 4) /\ slot \notin 4..13
  <2>1. PICK n : n = (slot \div 2) - 1
    OBVIOUS
  <2>2. n - 4 \in Nat
    <3>1. slot >= 14
      BY <1>3
    <3> QED
      BY <2>1, <3>1
  <2>3. PICK r : r = DecodeDirect(d, n - 4) /\ Lost(t, r)
    BY <2>2, LostDirect
  <2>4. PICK high : high = Base(slot) + (16 * r.m)
    OBVIOUS
  <2>5. Lost(t, Aligned(r, high))
    BY <2>3, LostFar
  <2>6. Lost(t, Far(d, slot, n))
    BY <2>3, <2>4, <2>5 DEF Far
  <2> QED
    BY <1>3, <2>1, <2>6 DEF BehindSlot
<1> QED
  BY <1>1, <1>2, <1>3

LEMMA FarSays ==
  ASSUME LzmaAssumption, NEW t, Tape(t), NEW k, NEW n \in 6..30, NEW more \in Nat, more < 2^n,
         NEW d, Reads(t, d, k), d.ok, NEW slot, Base(slot) \in Int,
         Says(t, k, DirectBits(more \div 16, n - 4)
                      \o ReverseBits("posAlign", 0, more % 16, 4), (n - 4) + 4)
  PROVE  Took(t, k + ((n - 4) + 4), Far(d, slot, n), Base(slot) + more)
<1>1. PICK l : l = n - 4 /\ l \in 0..30 /\ l \in Nat
  OBVIOUS
<1>2. PICK q \in Nat, y \in Nat : /\ q = more \div 16 /\ y = more % 16 /\ more = (16 * q) + y /\ y < 16
  OBVIOUS
<1>3. q < 2^l
  <2>1. /\ l + 1 = n - 3 /\ (n - 3) + 1 = n - 2 /\ (n - 2) + 1 = n - 1 /\ (n - 1) + 1 = n
        /\ n - 3 \in 0..30 /\ n - 2 \in 0..30 /\ n - 1 \in 0..30
    BY <1>1
  <2>2. PICK p \in Nat : p = 2^l /\ 2^(l + 1) = 2 * p
    BY <1>1, Doubling
  <2>3. 2^((n - 3) + 1) = 2 * 2^(n - 3) /\ 2^((n - 2) + 1) = 2 * 2^(n - 2) /\ 2^((n - 1) + 1) = 2 * 2^(n - 1)
    BY <2>1, Doubling
  <2>4. 2^n = 16 * p
    <3>1. 2^(n - 3) = 2 * p
      BY <2>1, <2>2
    <3>2. 2^(n - 2) = 4 * p
      BY <2>1, <2>3, <3>1
    <3>3. 2^(n - 1) = 8 * p
      BY <2>1, <2>3, <3>2
    <3> QED
      BY <2>1, <2>3, <3>3
  <2>5. more < 16 * p
    BY <2>4
  <2> QED
    BY <1>2, <2>2, <2>5
<1>4. PICK a, b : /\ a = DirectBits(q, l) /\ Listed(a, l)
                  /\ b = ReverseBits("posAlign", 0, y, 4) /\ Listed(b, 4)
  <2>1. PICK a : a = DirectBits(q, l) /\ Listed(a, l)
    BY <1>1, DirectListed
  <2>2. PICK b : b = ReverseBits("posAlign", 0, y, 4) /\ Listed(b, 4)
    <3>1. 4 \in Nat
      OBVIOUS
    <3> QED
      BY <3>1, ReverseListed
  <2> QED
    BY <2>1, <2>2
<1>5. Says(t, k, a \o b, l + 4)
  BY <1>1, <1>2, <1>4
<1>6. k \in Nat /\ t.m \in Nat
  BY DEF Says, Tape
<1>7. SaysBoth(t, k, a, l, b, 4)
  BY <1>4, <1>5, <1>6, SaysParts
<1>8. PICK r : r = DecodeDirect(d, l) /\ Took(t, k + l, r, q)
  <2>1. Says(t, k, DirectBits(q, l), l)
    BY <1>4, <1>7 DEF SaysBoth
  <2> QED
    BY <1>1, <1>3, <2>1, DirectSays
<1>9. PICK high : high = Base(slot) + (16 * r.m)
  OBVIOUS
<1>10. Far(d, slot, n) = Aligned(r, high)
  BY <1>1, <1>8, <1>9 DEF Far
<1>11. CASE ~r.ok
  <2>1. Lost(t, r)
    BY <1>8, <1>11, LostIs DEF Took
  <2>2. Lost(t, Aligned(r, high))
    BY <2>1, LostFar
  <2> QED
    BY <1>10, <2>2, LostIs DEF Took, Lost
<1>12. CASE r.ok
  <2>1. high \in Int /\ high + y = Base(slot) + more
    BY <1>2, <1>8, <1>9, <1>12 DEF Took
  <2>2. PICK x, e : /\ x = DecodeTree(r, "posAlign", 0, 0, 4)
                    /\ e = [x EXCEPT !.m = high + Reversed(Symbol(x, 4), 4)]
    OBVIOUS
  <2>3. Aligned(r, high) = e
    BY <2>2 DEF Aligned
  <2>4. 4 \in 1..5 /\ y < 2^4 /\ 0 \in Int
    BY <1>2
  <2>5. Says(t, k + l, ReverseBits("posAlign", 0, y, 4), 4)
    BY <1>4, <1>7 DEF SaysBoth
  <2>6. Reads(t, r, k + l)
    BY <1>8 DEF Took
  <2>7. Took(t, (k + l) + 4, e, high + y)
    BY <1>12, <2>1, <2>2, <2>4, <2>5, <2>6, MirrorRead
  <2>8. (k + l) + 4 = k + ((n - 4) + 4)
    BY <1>1, <1>6
  <2> QED
    BY <1>10, <2>1, <2>3, <2>7, <2>8
<1> QED
  BY <1>11, <1>12

LEMMA RestSays ==
  ASSUME LzmaAssumption, NEW t, Tape(t), NEW k, NEW dist \in Distances, NEW d, Reads(t, d, k), d.ok,
         Says(t, k, RestBits(dist), RestSize(dist))
  PROVE  Took(t, k + RestSize(dist), BehindSlot(d, Slot(dist)), dist)
<1>1. PICK slot, n, more : slot = Slot(dist) /\ n = Extra(dist) /\ more = More(dist)
  OBVIOUS
<1>2. \/ slot = dist /\ dist \in 0..3
      \/ /\ slot \in 4..13 /\ n \in 1..5 /\ more \in Nat /\ more < 2^n
         /\ Base(slot) \in Int /\ dist = Base(slot) + more
      \/ /\ slot \in 14..63 /\ n \in 6..30 /\ more \in Nat /\ more < 2^n
         /\ Base(slot) \in Int /\ dist = Base(slot) + more
  BY <1>1, SplitIs DEF Split
<1>3. k \in Nat
  BY DEF Says
<1>4. CASE slot = dist /\ dist \in 0..3
  <2>1. slot < 4
    BY <1>4
  <2>2. RestSize(dist) = 0 /\ k + 0 = k
    BY <1>1, <1>3, <2>1 DEF RestSize
  <2>3. Took(t, k, [d EXCEPT !.m = slot], slot)
    BY TookOther
  <2>4. BehindSlot(d, slot) = [d EXCEPT !.m = slot]
    BY <2>1 DEF BehindSlot
  <2> QED
    BY <1>1, <1>4, <2>2, <2>3, <2>4
<1>5. CASE slot \in 4..13
  <2>1. ~(slot < 4) /\ slot \notin 14..63 /\ (slot # dist \/ dist \notin 0..3)
    BY <1>5
  <2>2. /\ n \in 1..5 /\ more \in Nat /\ more < 2^n
        /\ Base(slot) \in Int /\ dist = Base(slot) + more
    BY <1>2, <1>5
  <2>3. RestSize(dist) = n
    BY <1>1, <1>5 DEF RestSize
  <2>4. PICK base : base = Base(slot) - slot /\ base \in Int /\ base = dist - more - slot
    BY <1>5, <2>2
  <2>5. RestBits(dist) = ReverseBits("posSpecial", base, more, n)
    BY <1>1, <1>5, <2>4 DEF RestBits
  <2>6. Says(t, k, ReverseBits("posSpecial", base, more, n), n)
    BY <2>3, <2>5
  <2>7. PICK r, e : /\ r = DecodeTree(d, "posSpecial", 0, base, n)
                    /\ e = [r EXCEPT !.m = Base(slot) + Reversed(Symbol(r, n), n)]
    OBVIOUS
  <2>8. Took(t, k + n, e, Base(slot) + more)
    BY <2>2, <2>4, <2>6, <2>7, MirrorRead
  <2>9. Near(d, slot, n) = e
    BY <2>4, <2>7 DEF Near
  <2>10. n = (slot \div 2) - 1 /\ ~(slot < 4)
    BY <1>1, <1>5 DEF Extra
  <2>11. BehindSlot(d, slot) = Near(d, slot, n)
    BY <1>5, <2>10 DEF BehindSlot
  <2> QED
    BY <1>1, <2>2, <2>3, <2>8, <2>9, <2>11
<1>6. CASE slot \in 14..63
  <2>1. ~(slot < 4) /\ slot \notin 4..13
    BY <1>6
  <2>2. /\ n \in 6..30 /\ more \in Nat /\ more < 2^n
        /\ Base(slot) \in Int /\ dist = Base(slot) + more
    BY <1>2, <1>6
  <2>3. RestSize(dist) = (n - 4) + 4
    BY <1>1, <2>1 DEF RestSize
  <2>4. RestBits(dist) = DirectBits(more \div 16, n - 4)
                           \o ReverseBits("posAlign", 0, more % 16, 4)
    BY <1>1, <2>1 DEF RestBits
  <2>5. Took(t, k + ((n - 4) + 4), Far(d, slot, n), Base(slot) + more)
    BY <2>2, <2>3, <2>4, FarSays
  <2>6. n = (slot \div 2) - 1
    BY <1>1 DEF Extra
  <2>7. BehindSlot(d, slot) = Far(d, slot, n)
    BY <2>1, <2>6 DEF BehindSlot
  <2> QED
    BY <1>1, <2>2, <2>3, <2>5, <2>7
<1> QED
  BY <1>2, <1>4, <1>5, <1>6

-----------------------------------------------------------------------------
(* A symbol is a number whether or not a byte was missing.                 *)
Whole(d) == Shape(d) /\ d.m \in Nat

LEMMA NormalizedWhole ==
  ASSUME NEW d, Whole(d)
  PROVE  Whole(Normalized(d))
<1>1. CASE d.rng >= Top \/ ~d.ok
  BY <1>1 DEF Normalized
<1>2. CASE ~(d.rng >= Top \/ ~d.ok) /\ d.rest = <<>>
  <2>1. PICK r : r = [d EXCEPT !.ok = FALSE]
    OBVIOUS
  <2>2. Whole(r)
    BY <2>1 DEF Whole, Shape, CoderFields
  <2> QED
    BY <1>2, <2>1, <2>2 DEF Normalized
<1>3. CASE ~(d.rng >= Top \/ ~d.ok) /\ d.rest # <<>>
  <2>1. PICK a, b, c : a = 256 * d.rng /\ b = (256 * d.code) + Head(d.rest) /\ c = Tail(d.rest)
    OBVIOUS
  <2>2. PICK r : r = [d EXCEPT !.rng = a, !.code = b, !.rest = c]
    OBVIOUS
  <2>3. Whole(r)
    BY <2>2 DEF Whole, Shape, CoderFields
  <2>4. Normalized(d) = r
    BY <1>3, <2>1, <2>2 DEF Normalized
  <2> QED
    BY <2>3, <2>4
<1> QED
  BY <1>1, <1>2, <1>3

LEMMA BitWhole ==
  ASSUME NEW d, Whole(d), NEW key
  PROVE  Whole(DecodeBit(d, key))
<1>1. PICK e, p : e = Normalized(d) /\ p = Probability(d.probs, key)
  OBVIOUS
<1>2. PICK p1 : p1 = Probability(e.probs, key)
  OBVIOUS
<1>3. Whole(e)
  BY <1>1, NormalizedWhole
<1>4. PICK by : by = (e.rng \div 2048) * p
  OBVIOUS
<1>5. CASE ~e.ok
  BY <1>1, <1>3, <1>5 DEF DecodeBit, AtProbability
<1>6. CASE e.ok /\ e.code < by
  <2>1. PICK f : f = WithProbability(e.probs, key, Likelier(p))
    OBVIOUS
  <2>2. PICK m \in Nat : m = 2 * e.m
    <3>1. 2 * e.m \in Nat
      BY <1>3 DEF Whole
    <3> QED
      BY <3>1
  <2>3. PICK r : r = [e EXCEPT !.rng = by, !.m = m, !.probs = f]
    OBVIOUS
  <2>4. Whole(r)
    BY <1>3, <2>3 DEF Whole, Shape, CoderFields
  <2>5. DecodeBit(d, key) = r
    BY <1>1, <1>4, <1>6, <2>1, <2>2, <2>3 DEF DecodeBit, AtProbability, Decided
  <2> QED
    BY <2>4, <2>5
<1>7. CASE e.ok /\ ~(e.code < by)
  <2>1. PICK f : f = WithProbability(e.probs, key, Rarer(p))
    OBVIOUS
  <2>2. PICK m \in Nat : m = (2 * e.m) + 1
    <3>1. (2 * e.m) + 1 \in Nat
      BY <1>3 DEF Whole
    <3> QED
      BY <3>1
  <2>3. PICK a, b : a = e.rng - by /\ b = e.code - by
    OBVIOUS
  <2>4. PICK r : r = [e EXCEPT !.rng = a, !.code = b, !.m = m, !.probs = f]
    OBVIOUS
  <2>5. Whole(r)
    BY <1>3, <2>4 DEF Whole, Shape, CoderFields
  <2>6. DecodeBit(d, key) = r
    BY <1>1, <1>4, <1>7, <2>1, <2>2, <2>3, <2>4 DEF DecodeBit, AtProbability, Decided
  <2> QED
    BY <2>5, <2>6
<1> QED
  BY <1>5, <1>6, <1>7

LEMMA TreeWhole ==
  ASSUME NEW d, Shape(d), NEW array, NEW row, NEW base, NEW n \in Nat
  PROVE  Whole(DecodeTree(d, array, row, base, n))
<1>1. PICK w \in Seq(Nat) : w = Count(n) /\ Len(w) = n
  BY CountIs
<1>2. PICK p : p = <<array, row, base>>
  OBVIOUS
<1>3. PICK e : e = [d EXCEPT !.m = 1]
  OBVIOUS
<1>4. PICK r : Runs("tree", p, e, w, r) /\ DecodeTree(d, p[1], p[2], p[3], n) = r[Len(w)]
  <2>1. TreeRun(d, p, n, e, w)
    BY <1>1, <1>3, TreeRuns
  <2> QED
    BY <2>1 DEF TreeRun
<1>5. DecodeTree(d, array, row, base, n) = r[n]
  BY <1>1, <1>2, <1>4
<1>6. Whole(e)
  BY <1>3 DEF Whole, Shape, CoderFields
<1> DEFINE G == {i \in 0..n : Whole(r[i])}
<1>7. 0 \in G
  BY <1>4, <1>6 DEF Runs
<1>8. ASSUME NEW i \in 1..n, i - 1 \in G
      PROVE  i \in G
  <2>1. PICK a : a = r[i - 1] /\ Whole(a)
    BY <1>8
  <2>2. PICK key : r[i] = DecodeBit(a, key)
    BY <1>1, <1>4, <2>1 DEF Runs, FoldStep
  <2> QED
    BY <2>1, <2>2, BitWhole
<1>9. Q!Climbs(G, n)
  BY <1>8 DEF Q!Climbs
<1> HIDE DEF G
<1>10. n \in 0..n
  OBVIOUS
<1>11. n \in G
  BY <1>7, <1>9, <1>10, Q!Climbing
<1> QED
  BY <1>5, <1>11 DEF G
-----------------------------------------------------------------------------
LEMMA LostDistance ==
  ASSUME NEW t, NEW d, Lost(t, d), NEW row
  PROVE  Lost(t, DecodeDistance(d, row))
<1>1. 6 \in Nat
  OBVIOUS
<1>2. PICK r : r = DecodeTree(d, "posSlot", row, 0, 6) /\ Lost(t, r)
  BY <1>1, LostTree
<1>3. Whole(r)
  BY <1>1, <1>2, TreeWhole DEF Lost
<1>4. PICK slot \in Int : slot = Symbol(r, 6)
  <2>1. PICK m \in Nat : m = r.m
    BY <1>3 DEF Whole
  <2>2. m - 2^6 \in Int
    OBVIOUS
  <2> QED
    BY <2>1, <2>2 DEF Symbol
<1>5. Lost(t, BehindSlot(r, slot))
  BY <1>2, LostBehind
<1> QED
  BY <1>2, <1>4, <1>5 DEF DecodeDistance

LEMMA DistanceSays ==
  ASSUME LzmaAssumption, NEW t, Tape(t), NEW k, NEW dist \in Distances, NEW len \in Int,
         NEW d, Reads(t, d, k), d.ok,
         Says(t, k, DistanceBits(dist, len), 6 + RestSize(dist))
  PROVE  Took(t, k + (6 + RestSize(dist)), DecodeDistance(d, LenToPosState(len)), dist)
<1>1. PICK row, slot : row = LenToPosState(len) /\ slot = Slot(dist)
  OBVIOUS
<1>2. PICK a, b, l : a = TreeBits("posSlot", row, slot, 6) /\ b = RestBits(dist) /\ l = RestSize(dist)
  OBVIOUS
<1>3. slot \in 0..63
  BY <1>1, SplitIs DEF Split
<1>4. Listed(a, 6) /\ Listed(b, l) /\ l \in Nat
  <2>1. 6 \in Nat
    OBVIOUS
  <2>2. Listed(a, 6)
    BY <1>2, <2>1, TreeListed
  <2> QED
    BY <1>2, <2>2, RestListed
<1>5. k \in Nat /\ t.m \in Nat
  BY DEF Says, Tape
<1>6. SaysBoth(t, k, a, 6, b, l)
  <2>1. Says(t, k, a \o b, 6 + l)
    BY <1>1, <1>2, DistanceBitsAre
  <2> QED
    BY <1>4, <1>5, <2>1, SaysParts
<1>7. PICK r : r = DecodeTree(d, "posSlot", row, 0, 6)
  OBVIOUS
<1>8. Took(t, k + 6, r, 2^6 + slot)
  <2>1. 6 \in 0..30 /\ slot \in Nat /\ slot < 2^6
    BY <1>3
  <2>2. Says(t, k, TreeBits("posSlot", row, slot, 6), 6)
    BY <1>2, <1>6 DEF SaysBoth
  <2> QED
    BY <1>7, <2>1, <2>2, TreeSays
<1>9. DecodeDistance(d, row) = BehindSlot(r, Symbol(r, 6))
  BY <1>7 DEF DecodeDistance
<1>10. CASE ~r.ok
  <2>1. Lost(t, r)
    BY <1>8, <1>10, LostIs DEF Took
  <2>2. PICK x \in Int : x = Symbol(r, 6)
    <3>1. 6 \in Nat
      OBVIOUS
    <3>2. Whole(r)
      BY <1>7, <3>1, TreeWhole, LostIs
    <3>3. PICK m \in Nat : m = r.m
      BY <3>2 DEF Whole
    <3>4. m - 2^6 \in Int
      OBVIOUS
    <3> QED
      BY <3>3, <3>4 DEF Symbol
  <2>3. Lost(t, BehindSlot(r, x))
    BY <2>1, LostBehind
  <2>4. PICK z : z = DecodeDistance(d, row) /\ Lost(t, z)
    BY <1>9, <2>2, <2>3
  <2> QED
    BY <1>1, <2>4, LostIs DEF Took, Lost
<1>11. CASE r.ok
  <2>1. Symbol(r, 6) = slot
    <3>1. r.m = 64 + slot
      BY <1>8, <1>11 DEF Took
    <3> QED
      BY <1>3, <3>1 DEF Symbol
  <2>2. Reads(t, r, k + 6)
    BY <1>8 DEF Took
  <2>3. Says(t, k + 6, RestBits(dist), RestSize(dist))
    BY <1>2, <1>6 DEF SaysBoth
  <2>4. Took(t, (k + 6) + RestSize(dist), BehindSlot(r, slot), dist)
    BY <1>1, <1>11, <2>2, <2>3, RestSays
  <2>5. (k + 6) + l = k + (6 + l)
    BY <1>4, <1>5
  <2> QED
    BY <1>1, <1>2, <1>9, <2>1, <2>4, <2>5
<1> QED
  BY <1>10, <1>11

-----------------------------------------------------------------------------
(* A match: a length, and a distance.                                      *)

(* l is what a length was read to, s a distance.                           *)
MatchTook(t, k, v, dist, l, s) ==
  Took(t, k + (LengthSize(v) + (6 + RestSize(dist))), s, dist) /\ (s.ok => l.ok /\ l.m = v)

LEMMA MatchSays ==
  ASSUME LzmaAssumption, NEW t, Tape(t), NEW k, NEW row, NEW v \in 0..271, NEW dist \in Distances,
         NEW d, Reads(t, d, k), d.ok,
         SaysBoth(t, k, LengthBits("matchLen", row, v), LengthSize(v),
                        DistanceBits(dist, v + 2), 6 + RestSize(dist)),
         NEW l, l = DecodeLength(d, "matchLen", row),
         NEW s, s = DecodeDistance(l, LenToPosState(l.m + 2))
  PROVE  MatchTook(t, k, v, dist, l, s)
<1>1. PICK a, b, n, m : /\ a = LengthBits("matchLen", row, v) /\ b = DistanceBits(dist, v + 2)
                        /\ n = LengthSize(v) /\ m = 6 + RestSize(dist)
  OBVIOUS
<1>2. n \in Nat /\ m \in Nat /\ k \in Nat
  BY <1>1 DEF SaysBoth, Says, Listed
<1>5. SaysBoth(t, k, a, n, b, m)
  BY <1>1
<1>6. Took(t, k + n, l, v)
  <2>1. Says(t, k, LengthBits("matchLen", row, v), LengthSize(v))
    BY <1>1, <1>5 DEF SaysBoth
  <2> QED
    BY <1>1, <2>1, LengthSays
<1>7. CASE ~l.ok
  <2>1. Lost(t, l)
    BY <1>6, <1>7, LostIs DEF Took
  <2>2. Lost(t, s)
    BY <2>1, LostDistance
  <2> QED
    BY <2>2, LostIs DEF MatchTook, Took, Lost
<1>8. CASE l.ok
  <2>1. l.m = v /\ Reads(t, l, k + n)
    BY <1>6, <1>8 DEF Took
  <2>2. Says(t, k + n, DistanceBits(dist, v + 2), 6 + RestSize(dist))
    BY <1>1, <1>5 DEF SaysBoth
  <2>3. v + 2 \in Int
    OBVIOUS
  <2>4. Took(t, (k + n) + (6 + RestSize(dist)), DecodeDistance(l, LenToPosState(v + 2)), dist)
    BY <1>8, <2>1, <2>2, <2>3, DistanceSays
  <2>5. (k + n) + m = k + (n + m)
    BY <1>2
  <2> QED
    BY <1>1, <1>8, <2>1, <2>4, <2>5 DEF MatchTook
<1> QED
  BY <1>7, <1>8
-----------------------------------------------------------------------------
(* Literals.                                                               *)

LiteralPlace(byte, matched, match, i) ==
  IF matched /\ byte \div 2^(9 - i) = match \div 2^(9 - i)
    THEN 256 + (256 * ((match \div 2^(8 - i)) % 2)) + Prefix(byte, 8, i - 1)
    ELSE Prefix(byte, 8, i - 1)

LEMMA LiteralListed ==
  ASSUME NEW row, NEW byte, NEW matched, NEW match
  PROVE  /\ Listed(LiteralBits(row, byte, matched, match), 8)
         /\ \A i \in 1..8 : LiteralBits(row, byte, matched, match)[i] =
              [key |-> <<"literal", row, LiteralPlace(byte, matched, match, i)>>,
               bit |-> (byte \div 2^(8 - i)) % 2]
<1>1. PICK f : f = [i \in 1..8 |->
                     [key |-> <<"literal", row, LiteralPlace(byte, matched, match, i)>>,
                      bit |-> (byte \div 2^(8 - i)) % 2]]
  OBVIOUS
<1>2. LiteralBits(row, byte, matched, match) = f
  <2>1. \A i \in 1..8 : 8 - (i - 1) = 9 - i
    OBVIOUS
  <2> QED
    BY <1>1, <2>1 DEF LiteralBits, LiteralPlace, Prefix
<1>3. f = [i \in 1..8 |-> f[i]]
  BY <1>1
<1>4. \A i \in 1..8 :
        f[i] = [key |-> <<"literal", row, LiteralPlace(byte, matched, match, i)>>,
                bit |-> (byte \div 2^(8 - i)) % 2]
  BY <1>1
<1>5. 8 \in Nat
  OBVIOUS
<1> QED
  BY <1>2, <1>3, <1>4, <1>5 DEF Listed

(* Only that is another, whether the bits are those of the other byte.     *)
Marked(t, d, v, r) ==
  /\ Shape(r) /\ r.m = d.m /\ r.ok = d.ok /\ r.same = v
  /\ \A k : Reads(t, d, k) => Reads(t, r, k)
  /\ Lost(t, d) => Lost(t, r)

LEMMA MarkedIs ==
  ASSUME NEW t, NEW d, Shape(d), NEW v
  PROVE  Marked(t, d, v, [d EXCEPT !.same = v])
<1> DEFINE r == [d EXCEPT !.same = v]
<1>1. /\ Shape(r) /\ r.m = d.m /\ r.ok = d.ok /\ r.same = v /\ r.rng = d.rng
      /\ r.code = d.code /\ r.rest = d.rest /\ r.probs = d.probs
  BY DEF Shape, CoderFields
<1> HIDE DEF r
<1>2. Marked(t, d, v, r)
  BY <1>1 DEF Marked, Reads, Gets, At, Lost
<1> QED
  BY <1>2 DEF r

(* Whether the first i bits of two bytes are the same.                     *)
Agree(byte, match, i) == byte \div 2^(8 - i) = match \div 2^(8 - i)

LEMMA AgreeOn ==
  ASSUME NEW byte \in 0..255, NEW match \in 0..255, NEW i \in 1..8
  PROVE  /\ Agree(byte, match, 0)
         /\ Agree(byte, match, i) <=>
              Agree(byte, match, i - 1) /\ (byte \div 2^(8 - i)) % 2 = (match \div 2^(8 - i)) % 2
<1>1. 8 - i \in 0..30 /\ (8 - i) + 1 = 8 - (i - 1)
  OBVIOUS
<1>2. PICK p \in Nat \ {0} : p = 2^(8 - i) /\ 2^(8 - (i - 1)) = 2 * p
  <2>1. 2^(8 - i) \in Nat \ {0} /\ 2^((8 - i) + 1) = 2 * 2^(8 - i)
    BY <1>1, Doubling
  <2> QED
    BY <1>1, <2>1
<1>3. Halves(byte, p) /\ Halves(match, p)
  BY <1>2, HalvesIs
<1>4. PICK a \in Nat, b \in Nat, c \in {0, 1}, e \in Nat, f \in Nat, g \in {0, 1} :
         /\ a = byte \div p /\ b = byte \div (2 * p) /\ c = (byte \div p) % 2 /\ a = (2 * b) + c
         /\ e = match \div p /\ f = match \div (2 * p) /\ g = (match \div p) % 2 /\ e = (2 * f) + g
  BY <1>3 DEF Halves
<1>5. a = e <=> b = f /\ c = g
  <2>1. a = (2 * b) + c /\ e = (2 * f) + g
    BY <1>4
  <2> QED
    BY <2>1
<1>6. Agree(byte, match, i) <=> a = e
  BY <1>2, <1>4 DEF Agree
<1>7. Agree(byte, match, i - 1) <=> b = f
  BY <1>2, <1>4 DEF Agree
<1>8. Agree(byte, match, 0)
  <2>1. 2^(8 - 0) = 256 /\ byte \div 256 = 0 /\ match \div 256 = 0
    OBVIOUS
  <2> QED
    BY <2>1 DEF Agree
<1> QED
  BY <1>2, <1>4, <1>5, <1>6, <1>7, <1>8

-----------------------------------------------------------------------------
LEMMA LostLiteralBit ==
  ASSUME NEW t, NEW d, Lost(t, d), NEW row, NEW bit
  PROVE  Lost(t, LiteralBit(d, row, bit))
<1>1. CASE ~d.same
  <2>1. PICK key : LiteralBit(d, row, bit) = DecodeBit(d, key)
    BY <1>1 DEF LiteralBit
  <2> QED
    BY <2>1, LostBit
<1>2. CASE d.same
  <2>1. PICK key : key = <<"literal", row, (256 * (1 + bit)) + d.m>>
    OBVIOUS
  <2>2. DecodeBit(d, key) = d
    BY LostBit
  <2>3. PICK v : v = (d.m % 2 = bit)
    OBVIOUS
  <2>4. LiteralBit(d, row, bit) = [d EXCEPT !.same = v]
    BY <1>2, <2>1, <2>2, <2>3 DEF LiteralBit, MatchedBit
  <2>5. Marked(t, d, v, [d EXCEPT !.same = v])
    BY MarkedIs DEF Lost
  <2> QED
    BY <2>4, <2>5 DEF Marked
<1> QED
  BY <1>1, <1>2

(* A literal after i bits.                                                 *)
Partly(t, k, byte, matched, match, i, r) ==
  /\ Took(t, k + i, r, Prefix(byte, 8, i))
  /\ r.ok => (r.same <=> matched /\ Agree(byte, match, i))

LEMMA LiteralBitSays ==
  ASSUME LzmaAssumption,
         NEW t, Tape(t), NEW k, NEW byte \in 0..255, NEW match \in 0..255, NEW row, NEW matched,
         Says(t, k, LiteralBits(row, byte, matched, match), 8),
         NEW i \in 1..8, NEW a, Partly(t, k, byte, matched, match, i - 1, a)
  PROVE  Partly(t, k, byte, matched, match, i, LiteralBit(a, row, (match \div 2^(8 - i)) % 2))
<1>1. PICK c, g : /\ c = (byte \div 2^(8 - i)) % 2 /\ g = (match \div 2^(8 - i)) % 2
                  /\ c \in {0, 1} /\ g \in {0, 1}
  <2>1. PICK p \in Nat \ {0} : p = 2^(8 - i)
    <3>1. 8 - i \in 0..30
      OBVIOUS
    <3> QED
      BY <3>1, Doubling
  <2>2. (byte \div p) % 2 \in {0, 1} /\ (match \div p) % 2 \in {0, 1}
    <3>1. byte \in Nat /\ match \in Nat
      OBVIOUS
    <3>2. Halves(byte, p) /\ Halves(match, p)
      BY <3>1, HalvesIs
    <3> QED
      BY <3>2 DEF Halves
  <2> QED
    BY <2>1, <2>2
<1>2. PICK b : b = LiteralBit(a, row, g)
  OBVIOUS
<1>3. k \in Nat /\ t.m \in Nat /\ k + 8 <= t.m
  BY DEF Says, Tape
<1>4. k + i \in 1..t.m /\ (k + i) - 1 = k + (i - 1)
  BY <1>3
<1>5. Took(t, (k + i) - 1, a, Prefix(byte, 8, i - 1))
  BY <1>4 DEF Partly
<1>6. PICK x \in Nat : x = Prefix(byte, 8, i - 1) /\ Prefix(byte, 8, i) = (2 * x) + c
  <2>1. 8 \in 0..30 /\ byte < 2^8 /\ byte \in Nat
    OBVIOUS
  <2>2. Prefixed(byte, 8, i)
    BY <2>1, PrefixIs
  <2> QED
    BY <1>1, <2>2 DEF Prefixed
<1>7. t.ds[k + i] = [key |-> <<"literal", row, LiteralPlace(byte, matched, match, i)>>, bit |-> c]
  <2>1. t.ds[k + i] = LiteralBits(row, byte, matched, match)[i]
    BY DEF Says
  <2>2. LiteralBits(row, byte, matched, match)[i] =
          [key |-> <<"literal", row, LiteralPlace(byte, matched, match, i)>>,
           bit |-> (byte \div 2^(8 - i)) % 2]
    BY LiteralListed
  <2> QED
    BY <1>1, <2>1, <2>2
<1>8. t.ds[k + i].key = <<"literal", row, LiteralPlace(byte, matched, match, i)>> /\ t.ds[k + i].bit = c
  BY <1>7
<1>9. Agree(byte, match, i) <=> Agree(byte, match, i - 1) /\ c = g
  BY <1>1, AgreeOn
<1>10. CASE ~a.ok
  <2>1. Lost(t, a)
    BY <1>5, <1>10, LostIs DEF Took
  <2>2. Lost(t, b)
    BY <1>2, <2>1, LostLiteralBit
  <2> QED
    BY <1>1, <1>2, <2>2, LostIs DEF Partly, Took, Lost
<1>11. CASE a.ok
  <2>1. a.m = x /\ Reads(t, a, (k + i) - 1)
    BY <1>5, <1>6, <1>11 DEF Took
  <2>2. a.same <=> matched /\ Agree(byte, match, i - 1)
    BY <1>11 DEF Partly
  <2>3. LiteralPlace(byte, matched, match, i) = IF a.same THEN 256 + (256 * g) + x ELSE x
    <3>1. Agree(byte, match, i - 1) <=> byte \div 2^(9 - i) = match \div 2^(9 - i)
      <4>1. 8 - (i - 1) = 9 - i
        OBVIOUS
      <4> QED
        BY <4>1 DEF Agree
    <3> QED
      BY <1>1, <1>6, <2>2, <3>1 DEF LiteralPlace
  <2>4. CASE ~a.same
    <3>1. PICK key : key = <<"literal", row, x>> /\ key # <<>>
      <4>1. <<"literal", row, x>> # <<>>
        OBVIOUS
      <4> QED
        BY <4>1
    <3>2. b = DecodeBit(a, key)
      BY <1>2, <2>1, <2>4, <3>1 DEF LiteralBit
    <3>3. t.ds[k + i].key = key
      BY <1>8, <2>3, <2>4, <3>1
    <3>4. BitOf(t, a, k + i, b)
      BY <1>4, <2>1, <3>1, <3>2, <3>3, BitRead
    <3>5. Reads(t, b, k + i) /\ b.same = a.same /\ (b.ok => b.m = (2 * x) + c)
      BY <1>8, <2>1, <3>4 DEF BitOf
    <3> QED
      BY <1>1, <1>2, <1>6, <1>9, <2>2, <2>4, <3>5 DEF Partly, Took
  <2>5. CASE a.same
    <3>1. PICK key : key = <<"literal", row, (256 * (1 + g)) + x>> /\ key # <<>>
      <4>1. <<"literal", row, (256 * (1 + g)) + x>> # <<>>
        OBVIOUS
      <4> QED
        BY <4>1
    <3>2. PICK e : e = DecodeBit(a, key)
      OBVIOUS
    <3>3. PICK v : v = (e.m % 2 = g) /\ b = [e EXCEPT !.same = v]
      <4>1. b = [e EXCEPT !.same = (e.m % 2 = g)]
        BY <1>2, <2>1, <2>5, <3>1, <3>2 DEF LiteralBit, MatchedBit
      <4> QED
        BY <4>1, Zenon
    <3>4. t.ds[k + i].key = key
      <4>1. 256 + (256 * g) + x = (256 * (1 + g)) + x
        BY <1>1
      <4> QED
        BY <1>8, <2>3, <2>5, <3>1, <4>1
    <3>5. BitOf(t, a, k + i, e)
      BY <1>4, <2>1, <3>1, <3>2, <3>4, BitRead
    <3>6. Reads(t, e, k + i) /\ (e.ok => e.m = (2 * x) + c)
      BY <1>8, <2>1, <3>5 DEF BitOf
    <3>7. Marked(t, e, v, b)
      BY <3>3, <3>6, MarkedIs, LostIs
    <3>8. Reads(t, b, k + i) /\ b.ok = e.ok /\ b.m = e.m /\ b.same = v
      BY <3>6, <3>7 DEF Marked
    <3>9. e.ok => (v <=> c = g)
      <4>1. ((2 * x) + c) % 2 = c
        BY <1>1
      <4> QED
        BY <3>3, <3>6, <4>1
    <3> QED
      BY <1>1, <1>2, <1>6, <1>9, <2>2, <2>5, <3>6, <3>8, <3>9 DEF Partly, Took
  <2> QED
    BY <2>4, <2>5
<1> QED
  BY <1>10, <1>11

LEMMA LiteralSays ==
  ASSUME LzmaAssumption, NEW t, Tape(t), NEW k, NEW byte \in 0..255, NEW match \in 0..255, NEW row,
         NEW matched, matched <=> rc.state >= 7,
         NEW d, Reads(t, d, k), d.ok,
         Says(t, k, LiteralBits(row, byte, matched, match), 8)
  PROVE  Took(t, k + 8, DecodeLiteral(d, row, match), 256 + byte)
<1>1. PICK w \in Seq(Nat) : w = Count(8) /\ Len(w) = 8 /\ \A i \in 1..8 : w[i] = i
  <2>1. 8 \in Nat
    OBVIOUS
  <2>2. Count(8) \in Seq(Nat) /\ Len(Count(8)) = 8 /\ \A i \in 1..8 : Count(8)[i] = i
    BY <2>1, CountIs
  <2> QED
    BY <2>2
<1>2. PICK p : p = <<row, match>>
  OBVIOUS
<1>3. PICK f, e : f = [d EXCEPT !.m = 1] /\ e = [f EXCEPT !.same = rc.state >= 7]
  OBVIOUS
<1>4. e = LiteralBegins(d)
  BY <1>3 DEF LiteralBegins
<1>5. PICK r : Runs("literal", p, e, w, r) /\ DecodeLiteral(d, p[1], p[2]) = r[Len(w)]
  <2>1. LiteralRun(d, p, LiteralBegins(d), Count(8))
    BY <1>1, LiteralRuns
  <2> QED
    BY <1>1, <1>4, <2>1 DEF LiteralRun
<1>6. DecodeLiteral(d, row, match) = r[8]
  BY <1>1, <1>2, <1>5
<1>7. Reads(t, e, k) /\ e.m = 1 /\ e.ok /\ (e.same <=> matched)
  <2>1. Shape(d)
    BY LostIs
  <2>2. Reset(t, d, 1, f)
    BY <1>3, <2>1, ResetIs
  <2>3. Shape(f) /\ Reads(t, f, k) /\ f.m = 1 /\ f.ok
    BY <2>2 DEF Reset
  <2>4. Marked(t, f, rc.state >= 7, e)
    BY <1>3, <2>3, MarkedIs
  <2> QED
    BY <2>3, <2>4 DEF Marked
<1>8. k \in Nat
  BY DEF Says
<1> DEFINE G == {i \in 0..8 : Partly(t, k, byte, matched, match, i, r[i])}
<1>9. 0 \in G
  <2>1. Prefix(byte, 8, 0) = 1
    <3>1. 8 \in 0..30 /\ byte < 2^8 /\ byte \in Nat
      OBVIOUS
    <3> QED
      BY <3>1, PrefixIs
  <2>2. Agree(byte, match, 0)
    <3>1. 1 \in 1..8
      OBVIOUS
    <3> QED
      BY <3>1, AgreeOn
  <2>3. r[0] = e /\ k + 0 = k
    BY <1>5, <1>8 DEF Runs
  <2>4. Partly(t, k, byte, matched, match, 0, e)
    BY <1>7, <2>1, <2>2, <2>3 DEF Partly, Took
  <2> QED
    BY <2>3, <2>4
<1>10. ASSUME NEW i \in 1..8, i - 1 \in G
       PROVE  i \in G
  <2>1. PICK a : a = r[i - 1] /\ Partly(t, k, byte, matched, match, i - 1, a)
    BY <1>10
  <2>2. r[i] = LiteralBit(a, row, (match \div 2^(8 - i)) % 2)
    <3>1. r[i] = FoldStep("literal", p, a, i)
      <4>1. \A j \in 1..Len(w) : r[j] = FoldStep("literal", p, r[j - 1], w[j])
        BY <1>5 DEF Runs
      <4>2. r[i] = FoldStep("literal", p, r[i - 1], w[i]) /\ w[i] = i
        BY <1>1, <4>1
      <4> QED
        BY <2>1, <4>2
    <3>2. p[1] = row /\ p[2] = match
      BY <1>2
    <3> QED
      BY <3>1, <3>2, Zenon DEF FoldStep
  <2>3. Partly(t, k, byte, matched, match, i, LiteralBit(a, row, (match \div 2^(8 - i)) % 2))
    BY <2>1, LiteralBitSays
  <2> QED
    BY <2>2, <2>3
<1>11. Q!Climbs(G, 8)
  BY <1>10 DEF Q!Climbs
<1> HIDE DEF G
<1>12. 8 \in 0..8 /\ 8 \in Nat
  OBVIOUS
<1>13. 8 \in G
  BY <1>9, <1>11, <1>12, Q!Climbing
<1>14. Partly(t, k, byte, matched, match, 8, r[8])
  BY <1>13 DEF G
<1>15. Prefix(byte, 8, 8) = 256 + byte
  <2>1. 8 \in 0..30 /\ byte < 2^8 /\ byte \in Nat
    OBVIOUS
  <2>2. Prefix(byte, 8, 8) = 2^8 + byte
    BY <2>1, PrefixIs
  <2>3. 2^8 = 256
    OBVIOUS
  <2> QED
    BY <2>2, <2>3
<1> QED
  BY <1>6, <1>14, <1>15 DEF Partly

-----------------------------------------------------------------------------
(* Decisions that can be encoded.                                          *)
Fits(a, n) == Listed(a, n) /\ \A i \in 1..n : a[i].bit \in {0, 1}

LEMMA BitOfNumber ==
  ASSUME NEW v \in Int, NEW n \in 0..30
  PROVE  (v \div 2^n) % 2 \in {0, 1}
<1>1. PICK p \in Nat \ {0} : p = 2^n
  BY Doubling
<1>2. PICK q \in Int : q = v \div p
  OBVIOUS
<1>3. q % 2 \in {0, 1}
  OBVIOUS
<1> QED
  BY <1>1, <1>2, <1>3

LEMMA BitFits ==
  ASSUME NEW array, NEW row, NEW place, NEW bit \in {0, 1}
  PROVE  Fits(Bit(array, row, place, bit), 1)
<1>1. PICK a : a = Bit(array, row, place, bit)
  OBVIOUS
<1>2. Listed(a, 1) /\ a[1] = [key |-> <<array, row, place>>, bit |-> bit]
  BY <1>1, BitListed
<1>3. \A i \in 1..1 : i = 1
  OBVIOUS
<1>4. a[1].bit = bit
  BY <1>2
<1> QED
  BY <1>1, <1>2, <1>3, <1>4 DEF Fits

LEMMA TreeFits ==
  ASSUME NEW array, NEW row, NEW v \in Int, NEW n \in 0..30
  PROVE  Fits(TreeBits(array, row, v, n), n)
<1>1. PICK a : a = TreeBits(array, row, v, n)
  OBVIOUS
<1>2. n \in Nat
  OBVIOUS
<1>3. Listed(TreeBits(array, row, v, n), n)
  BY <1>2, TreeListed
<1>4. ASSUME NEW i \in 1..n PROVE a[i].bit \in {0, 1}
  <2>1. PICK w : w = <<array, row, (2^n + v) \div 2^((n + 1) - i)>>
    OBVIOUS
  <2>2. a[i] = [key |-> <<array, row, (2^n + v) \div 2^((n + 1) - i)>>, bit |-> (v \div 2^(n - i)) % 2]
    BY <1>1 DEF TreeBits
  <2>3. a[i] = [key |-> w, bit |-> (v \div 2^(n - i)) % 2]
    BY <2>1, <2>2
  <2>4. a[i].bit = (v \div 2^(n - i)) % 2
    BY <2>3
  <2>5. n - i \in 0..30
    OBVIOUS
  <2> QED
    BY <2>4, <2>5, BitOfNumber
<1> QED
  BY <1>1, <1>3, <1>4 DEF Fits

LEMMA DirectFits ==
  ASSUME NEW v \in Int, NEW n \in 0..30
  PROVE  Fits(DirectBits(v, n), n)
<1>1. PICK a : a = DirectBits(v, n)
  OBVIOUS
<1>2. n \in Nat
  OBVIOUS
<1>3. Listed(a, n) /\ \A i \in 1..n : a[i] = [key |-> <<>>, bit |-> (v \div 2^(n - i)) % 2]
  BY <1>1, <1>2, DirectListed
<1>4. ASSUME NEW i \in 1..n PROVE a[i].bit \in {0, 1}
  <2>3. a[i] = [key |-> <<>>, bit |-> (v \div 2^(n - i)) % 2]
    BY <1>3
  <2>1. a[i].bit = (v \div 2^(n - i)) % 2
    BY <2>3
  <2>2. n - i \in 0..30
    OBVIOUS
  <2> QED
    BY <2>1, <2>2, BitOfNumber
<1> QED
  BY <1>1, <1>3, <1>4 DEF Fits

LEMMA ReverseFits ==
  ASSUME NEW array, NEW base, NEW v \in Int, NEW n \in 0..30
  PROVE  Fits(ReverseBits(array, base, v, n), n)
<1>1. PICK a : a = ReverseBits(array, base, v, n)
  OBVIOUS
<1>2. n \in Nat
  OBVIOUS
<1>3. /\ Listed(a, n)
      /\ \A i \in 1..n : a[i] =
           [key |-> <<array, 0, base + 2^(i - 1) + Reversed(v, i - 1)>>, bit |-> BitAt(v, i)]
  BY <1>1, <1>2, ReverseListed
<1>4. ASSUME NEW i \in 1..n PROVE a[i].bit \in {0, 1}
  <2>0. PICK w : w = <<array, 0, base + 2^(i - 1) + Reversed(v, i - 1)>>
    OBVIOUS
  <2>3. a[i] = [key |-> w, bit |-> BitAt(v, i)]
    BY <1>3, <2>0
  <2>1. a[i].bit = BitAt(v, i)
    BY <2>3
  <2>2. i - 1 \in 0..30
    OBVIOUS
  <2> QED
    BY <2>1, <2>2, BitOfNumber DEF BitAt
<1> QED
  BY <1>1, <1>3, <1>4 DEF Fits

LEMMA LiteralFits ==
  ASSUME NEW row, NEW byte \in Int, NEW matched, NEW match
  PROVE  Fits(LiteralBits(row, byte, matched, match), 8)
<1>1. PICK a : a = LiteralBits(row, byte, matched, match)
  OBVIOUS
<1>2. /\ Listed(a, 8)
      /\ \A i \in 1..8 : a[i] =
           [key |-> <<"literal", row, LiteralPlace(byte, matched, match, i)>>,
            bit |-> (byte \div 2^(8 - i)) % 2]
  BY <1>1, LiteralListed
<1>3. ASSUME NEW i \in 1..8 PROVE a[i].bit \in {0, 1}
  <2>0. PICK w : w = <<"literal", row, LiteralPlace(byte, matched, match, i)>>
    OBVIOUS
  <2>3. a[i] = [key |-> w, bit |-> (byte \div 2^(8 - i)) % 2]
    BY <1>2, <2>0
  <2>1. a[i].bit = (byte \div 2^(8 - i)) % 2
    BY <2>3
  <2>2. 8 - i \in 0..30
    OBVIOUS
  <2> QED
    BY <2>1, <2>2, BitOfNumber
<1> QED
  BY <1>1, <1>2, <1>3 DEF Fits

LEMMA FitsJoined ==
  ASSUME NEW a, NEW n, Fits(a, n), NEW b, NEW l, Fits(b, l)
  PROVE  Fits(a \o b, n + l)
<1>1. PICK c : c = a \o b
  OBVIOUS
<1>2. n \in Nat /\ l \in Nat /\ Listed(a, n) /\ Listed(b, l)
  BY DEF Fits, Listed
<1>3. BothListed(a, n, b, l, c)
  BY <1>1, <1>2, ListsJoined
<1>4. ASSUME NEW i \in 1..n + l PROVE c[i].bit \in {0, 1}
  <2>1. CASE i \in 1..n
    BY <1>3, <2>1 DEF BothListed, Fits
  <2>2. CASE i \notin 1..n
    <3>1. i - n \in 1..l /\ n + (i - n) = i
      BY <1>2, <2>2
    <3>2. c[n + (i - n)] = b[i - n]
      BY <1>3, <3>1 DEF BothListed
    <3> QED
      BY <3>1, <3>2 DEF Fits
  <2> QED
    BY <2>1, <2>2
<1> QED
  BY <1>1, <1>3, <1>4 DEF Fits, BothListed

LEMMA LengthFits ==
  ASSUME NEW name, NEW row, NEW v \in 0..271
  PROVE  Fits(LengthBits(name, row, v), LengthSize(v))
<1>1. \A array, place : \A bit \in {0, 1} : Fits(Bit(array, 0, place, bit), 1)
  BY BitFits
<1>2. PICK a, b, e, g : /\ a = Bit(name \o "Choice", 0, 1, 0) /\ b = Bit(name \o "Choice", 0, 1, 1)
                        /\ e = Bit(name \o "Choice", 0, 2, 0) /\ g = Bit(name \o "Choice", 0, 2, 1)
                        /\ Fits(a, 1) /\ Fits(b, 1) /\ Fits(e, 1) /\ Fits(g, 1)
  BY <1>1
<1>3. Fits(b \o e, 2) /\ Fits(b \o g, 2)
  <2>1. Fits(b \o e, 1 + 1) /\ Fits(b \o g, 1 + 1)
    BY <1>2, FitsJoined
  <2> QED
    BY <2>1
<1>4. v \in Int /\ v - 8 \in Int /\ v - 16 \in Int /\ 3 \in 0..30 /\ 8 \in 0..30
  OBVIOUS
<1>5. PICK c, f, h : /\ c = TreeBits(name \o "Low", row, v, 3) /\ Fits(c, 3)
                     /\ f = TreeBits(name \o "Mid", row, v - 8, 3) /\ Fits(f, 3)
                     /\ h = TreeBits(name \o "High", 0, v - 16, 8) /\ Fits(h, 8)
  <2>1. Fits(TreeBits(name \o "Low", row, v, 3), 3)
    BY <1>4, TreeFits
  <2>2. Fits(TreeBits(name \o "Mid", row, v - 8, 3), 3)
    BY <1>4, TreeFits
  <2>3. Fits(TreeBits(name \o "High", 0, v - 16, 8), 8)
    BY <1>4, TreeFits
  <2> QED
    BY <2>1, <2>2, <2>3
<1>6. CASE v < 8
  <2>1. LengthBits(name, row, v) = a \o c
    BY <1>2, <1>5, <1>6 DEF LengthBits
  <2>2. Fits(a \o c, 1 + 3) /\ LengthSize(v) = 1 + 3
    BY <1>2, <1>5, <1>6, FitsJoined DEF LengthSize
  <2> QED
    BY <2>1, <2>2
<1>7. CASE v \in 8..15
  <2>1. LengthBits(name, row, v) = (b \o e) \o f
    <3>1. ~(v < 8)
      BY <1>7
    <3> QED
      BY <1>2, <1>5, <1>7, <3>1 DEF LengthBits
  <2>2. LengthSize(v) = 2 + 3
    BY <1>7 DEF LengthSize
  <2>3. Fits((b \o e) \o f, 2 + 3)
    BY <1>3, <1>5, FitsJoined
  <2> QED
    BY <2>1, <2>2, <2>3
<1>8. CASE ~(v < 8) /\ v \notin 8..15
  <2>1. LengthBits(name, row, v) = (b \o g) \o h
    BY <1>2, <1>5, <1>8 DEF LengthBits
  <2>2. LengthSize(v) = 2 + 8
    BY <1>8 DEF LengthSize
  <2>3. Fits((b \o g) \o h, 2 + 8)
    BY <1>3, <1>5, FitsJoined
  <2> QED
    BY <2>1, <2>2, <2>3
<1> QED
  BY <1>6, <1>7, <1>8

-----------------------------------------------------------------------------
LEMMA NoneFits == Fits(<<>>, 0)
<1>1. PICK a : a = <<>> /\ a = [i \in 1..0 |-> a[i]]
  OBVIOUS
<1>2. 0 \in Nat /\ \A i \in 1..0 : FALSE
  OBVIOUS
<1> QED
  BY <1>1, <1>2 DEF Fits, Listed

LEMMA RestFits ==
  ASSUME NEW dist \in Distances
  PROVE  Fits(RestBits(dist), RestSize(dist))
<1>1. Split(dist)
  BY SplitIs
<1>2. CASE Slot(dist) < 4
  BY <1>2, NoneFits DEF RestBits, RestSize
<1>3. CASE Slot(dist) \in 4..13
  <2>1. ~(Slot(dist) < 4)
    BY <1>3
  <2>2. Extra(dist) \in 0..30 /\ More(dist) \in Int
    BY <1>1, <1>3 DEF Split
  <2>3. PICK a : a = ReverseBits("posSpecial", dist - More(dist) - Slot(dist), More(dist), Extra(dist))
                 /\ Fits(a, Extra(dist))
    BY <2>2, ReverseFits
  <2>4. RestBits(dist) = a
    BY <1>3, <2>1, <2>3 DEF RestBits
  <2>5. RestSize(dist) = Extra(dist)
    BY <1>3, <2>1 DEF RestSize
  <2> QED
    BY <2>3, <2>4, <2>5
<1>4. CASE Slot(dist) \in 14..63
  <2>1. ~(Slot(dist) < 4) /\ Slot(dist) \notin 4..13
    BY <1>4
  <2>2. Extra(dist) - 4 \in 0..30 /\ More(dist) \in Int
    BY <1>1, <1>4 DEF Split
  <2>3. PICK a, b, l : /\ a = DirectBits(More(dist) \div 16, Extra(dist) - 4)
                       /\ b = ReverseBits("posAlign", 0, More(dist) % 16, 4)
                       /\ l = Extra(dist) - 4
    OBVIOUS
  <2>4. More(dist) \div 16 \in Int /\ More(dist) % 16 \in Int /\ 4 \in 0..30
    BY <2>2
  <2>5. Fits(a, l)
    BY <2>2, <2>3, <2>4, DirectFits
  <2>6. Fits(b, 4)
    BY <2>3, <2>4, ReverseFits
  <2>7. Fits(a \o b, l + 4)
    BY <2>5, <2>6, FitsJoined
  <2>8. RestBits(dist) = a \o b
    BY <2>1, <2>3 DEF RestBits
  <2>9. RestSize(dist) = l + 4
    BY <2>1, <2>3 DEF RestSize
  <2> QED
    BY <2>7, <2>8, <2>9
<1>5. Slot(dist) < 4 \/ Slot(dist) \in 4..13 \/ Slot(dist) \in 14..63
  BY <1>1 DEF Split
<1> QED
  BY <1>2, <1>3, <1>4, <1>5

LEMMA DistanceFits ==
  ASSUME NEW dist \in Distances, NEW len \in Int
  PROVE  Fits(DistanceBits(dist, len), 6 + RestSize(dist))
<1>1. PICK a, b, l : /\ a = TreeBits("posSlot", LenToPosState(len), Slot(dist), 6)
                     /\ b = RestBits(dist) /\ l = RestSize(dist)
  OBVIOUS
<1>2. Slot(dist) \in Int /\ 6 \in 0..30
  BY SplitIs DEF Split
<1>3. Fits(a, 6)
  BY <1>1, <1>2, TreeFits
<1>4. Fits(b, l)
  BY <1>1, RestFits
<1>5. Fits(a \o b, 6 + l)
  BY <1>3, <1>4, FitsJoined
<1> QED
  BY <1>1, <1>5, DistanceBitsAre

-----------------------------------------------------------------------------
(* The decisions of an operation, one part after the other.                *)
LEMMA SaysThree ==
  ASSUME NEW t, NEW k, NEW a, Listed(a, 1), NEW b, Listed(b, 1), NEW c, NEW l, Listed(c, l),
         t.m \in Nat, Says(t, k, (a \o b) \o c, (1 + 1) + l)
  PROVE  Says(t, k, a, 1) /\ Says(t, k + 1, b, 1) /\ Says(t, k + 2, c, l)
<1>1. PICK p : p = a \o b
  OBVIOUS
<1>2. Listed(p, 1 + 1)
  BY <1>1, ListsJoined DEF BothListed
<1>3. Says(t, k, p, 1 + 1) /\ Says(t, k + (1 + 1), c, l)
  BY <1>1, <1>2, SaysParts DEF SaysBoth
<1>4. Says(t, k, a, 1) /\ Says(t, k + 1, b, 1)
  BY <1>1, <1>3, SaysParts DEF SaysBoth
<1>5. k \in Nat
  BY <1>3 DEF Says
<1>6. k + (1 + 1) = k + 2
  BY <1>5
<1> QED
  BY <1>3, <1>4, <1>6

LEMMA ThreeFit ==
  ASSUME NEW a, Fits(a, 1), NEW b, Fits(b, 1), NEW c, NEW l, Fits(c, l)
  PROVE  /\ Listed(a, 1) /\ Listed(b, 1) /\ Listed(c, l)
         /\ Fits((a \o b) \o c, (1 + 1) + l)
<1>1. Fits(a \o b, 1 + 1)
  BY FitsJoined
<1>2. Fits((a \o b) \o c, (1 + 1) + l)
  BY <1>1, FitsJoined
<1> QED
  BY <1>2 DEF Fits

(* What is encoded at a meaning s in state q; h is the header.             *)
Row(h, s) == Len(s.hist) % 2^h.pb
Pos(h, s, q) == (16 * q) + Row(h, s)
LastByte(s) == IF Len(s.hist) = 0 THEN 0 ELSE s.hist[Len(s.hist)]
OtherByte(s, q) == IF q >= 7 THEN s.hist[Len(s.hist) - s.reps[1]] ELSE 0
LiteralOf(h, s, q, o) ==
  LiteralBits(LiteralRow(h, Len(s.hist), LastByte(s)), o.byte, q >= 7, OtherByte(s, q))

LEMMA LiteralOpBits ==
  ASSUME NEW h, NEW s, NEW q, NEW o, o.op = "literal"
  PROVE  OpBits(h, s, q, o) = Bit("isMatch", 0, Pos(h, s, q), 0) \o LiteralOf(h, s, q, o)
BY DEF OpBits, Pos, Row, LastByte, OtherByte, LiteralOf

LengthOf(name, h, s, len) == LengthBits(name, Row(h, s), len - 2)

MatchBits(h, s, q, dist, len) ==
  ((Bit("isMatch", 0, Pos(h, s, q), 1) \o Bit("isRep", 0, q, 0))
      \o LengthOf("matchLen", h, s, len)) \o DistanceBits(dist, len)

LEMMA MatchOpBits ==
  ASSUME NEW h, NEW s, NEW q, NEW o
  PROVE  /\ o.op = "match" => OpBits(h, s, q, o) = MatchBits(h, s, q, o.dist, o.len)
         /\ o.op = "eos" => OpBits(h, s, q, o) = MatchBits(h, s, q, -1, 2)
<1>1. CASE o.op = "match"
  <2>1. o.op # "literal" /\ o.op # "rep" /\ o.op # "eos"
    BY <1>1
  <2> QED
    BY <1>1, <2>1 DEF OpBits, Pos, Row, MatchBits, LengthOf
<1>2. CASE o.op = "eos"
  <2>1. o.op # "literal" /\ o.op # "rep" /\ o.op # "match"
    BY <1>2
  <2> QED
    BY <1>2, <2>1 DEF OpBits, Pos, Row, MatchBits, LengthOf
<1> QED
  BY <1>1, <1>2

RepBits(h, s, q, first, bits) ==
  ((Bit("isMatch", 0, Pos(h, s, q), 1) \o Bit("isRep", 0, q, 1))
      \o Bit("isRepG0", 0, q, first)) \o bits

LEMMA RepOpBits ==
  ASSUME NEW h, NEW s, NEW q, NEW o, o.op = "rep"
  PROVE  /\ o.i = 1 /\ o.len = 1 => OpBits(h, s, q, o) =
              RepBits(h, s, q, 0, Bit("isRep0Long", 0, Pos(h, s, q), 0) \o <<>>)
         /\ o.i = 1 /\ o.len # 1 => OpBits(h, s, q, o) =
              RepBits(h, s, q, 0, Bit("isRep0Long", 0, Pos(h, s, q), 1)
                                    \o LengthOf("repLen", h, s, o.len))
         /\ o.i = 2 => OpBits(h, s, q, o) =
              RepBits(h, s, q, 1, Bit("isRepG1", 0, q, 0) \o LengthOf("repLen", h, s, o.len))
         /\ o.i \in {3, 4} => OpBits(h, s, q, o) =
              RepBits(h, s, q, 1, (Bit("isRepG1", 0, q, 1) \o Bit("isRepG2", 0, q, o.i - 3))
                                    \o LengthOf("repLen", h, s, o.len))
<1>0. o.op # "literal" /\ o.op # "match" /\ o.op # "eos"
  OBVIOUS
<1>1. CASE o.i = 1
  <2>1. CASE o.len = 1
    BY <1>0, <1>1, <2>1 DEF OpBits, Pos, Row, RepBits, LengthOf
  <2>2. CASE o.len # 1
    BY <1>0, <1>1, <2>2 DEF OpBits, Pos, Row, RepBits, LengthOf
  <2> QED
    BY <1>1, <2>1, <2>2
<1>2. CASE o.i = 2
  <2>1. o.i # 1
    BY <1>2
  <2> QED
    BY <1>0, <1>2, <2>1 DEF OpBits, Pos, Row, RepBits, LengthOf
<1>3. CASE o.i \in {3, 4}
  <2>1. o.i # 1 /\ o.i # 2
    BY <1>3
  <2> QED
    BY <1>0, <1>3, <2>1 DEF OpBits, Pos, Row, RepBits, LengthOf
<1> QED
  BY <1>1, <1>2, <1>3

-----------------------------------------------------------------------------
Told(t, k, b) == Says(t, k, b, Len(b))

(* That b has n decisions, which are told from k on.                       *)
LEMMA ToldIs ==
  ASSUME NEW b, NEW n, Fits(b, n)
  PROVE  /\ n \in Nat /\ Len(b) = n /\ Fits(b, Len(b))
         /\ \A t, k : Told(t, k, b) => Says(t, k, b, n) /\ k \in Nat
<1>1. Len(b) = n /\ n \in Nat
  BY ListIs DEF Fits, Listed
<1> QED
  BY <1>1 DEF Told, Says

(* A decision, and then a.                                                 *)
LEMMA OneThen ==
  ASSUME NEW t, t.m \in Nat, NEW k, NEW a, Fits(a, 1), NEW b, NEW l, Fits(b, l), Says(t, k, a \o b, 1 + l)
  PROVE  Says(t, k, a, 1) /\ Says(t, k + 1, b, l)
<1>1. Listed(a, 1) /\ Listed(b, l)
  BY DEF Fits
<1> QED
  BY <1>1, SaysParts DEF SaysBoth

LiteralTold(t, k, h, s, q, o) ==
  Says(t, k, Bit("isMatch", 0, Pos(h, s, q), 0), 1) /\ Says(t, k + 1, LiteralOf(h, s, q, o), 8)

LEMMA LiteralOp ==
  ASSUME NEW h, NEW s, NEW q, NEW o, o.op = "literal", o.byte \in Byte,
         NEW B, B = OpBits(h, s, q, o), NEW t, NEW k
  PROVE  /\ Fits(B, Len(B)) /\ Len(B) = 9
         /\ t.m \in Nat /\ Told(t, k, B) => LiteralTold(t, k, h, s, q, o)
<1>1. PICK a : a = Bit("isMatch", 0, Pos(h, s, q), 0) /\ Fits(a, 1)
  BY BitFits
<1>2. o.byte \in Int
  BY DEF Byte
<1>3. PICK b : b = LiteralOf(h, s, q, o) /\ Fits(b, 8)
  BY <1>2, LiteralFits DEF LiteralOf
<1>4. B = a \o b
  BY <1>1, <1>3, LiteralOpBits
<1>5. Fits(B, 1 + 8)
  BY <1>1, <1>3, <1>4, FitsJoined
<1>6. ASSUME t.m \in Nat, Told(t, k, B)
      PROVE  LiteralTold(t, k, h, s, q, o)
  <2>1. Says(t, k, a \o b, 1 + 8)
    BY <1>4, <1>5, <1>6, ToldIs
  <2>2. Says(t, k, a, 1) /\ Says(t, k + 1, b, 8)
    BY <1>1, <1>3, <1>6, <2>1, OneThen
  <2> QED
    BY <1>1, <1>3, <2>2 DEF LiteralTold
<1>7. Fits(B, Len(B)) /\ Len(B) = 1 + 8
  BY <1>5, ToldIs
<1> QED
  BY <1>6, <1>7

MatchTold(t, k, h, s, q, dist, len) ==
  /\ Says(t, k, Bit("isMatch", 0, Pos(h, s, q), 1), 1)
  /\ Says(t, k + 1, Bit("isRep", 0, q, 0), 1)
  /\ SaysBoth(t, k + 2, LengthOf("matchLen", h, s, len), LengthSize(len - 2),
                        DistanceBits(dist, len), 6 + RestSize(dist))

LEMMA MatchOp ==
  ASSUME NEW h, NEW s, NEW q, NEW dist \in Distances, NEW len \in 2..273,
         NEW B, B = MatchBits(h, s, q, dist, len), NEW t, NEW k
  PROVE  /\ Fits(B, Len(B)) /\ Len(B) = 2 + (LengthSize(len - 2) + (6 + RestSize(dist)))
         /\ t.m \in Nat /\ Told(t, k, B) => MatchTold(t, k, h, s, q, dist, len)
<1>1. PICK a, b : /\ a = Bit("isMatch", 0, Pos(h, s, q), 1) /\ Fits(a, 1)
                  /\ b = Bit("isRep", 0, q, 0) /\ Fits(b, 1)
  <2>1. Fits(Bit("isMatch", 0, Pos(h, s, q), 1), 1) /\ Fits(Bit("isRep", 0, q, 0), 1)
    BY BitFits
  <2> QED
    BY <2>1
<1>2. PICK c, l : c = LengthOf("matchLen", h, s, len) /\ l = LengthSize(len - 2) /\ Fits(c, l)
  <2>1. len - 2 \in 0..271
    OBVIOUS
  <2>2. Fits(LengthOf("matchLen", h, s, len), LengthSize(len - 2))
    BY <2>1, LengthFits DEF LengthOf
  <2> QED
    BY <2>2
<1>3. PICK e, r : e = DistanceBits(dist, len) /\ r = 6 + RestSize(dist) /\ Fits(e, r)
  <2>1. len \in Int
    OBVIOUS
  <2>2. Fits(DistanceBits(dist, len), 6 + RestSize(dist))
    BY <2>1, DistanceFits
  <2> QED
    BY <2>2
<1>4. B = ((a \o b) \o c) \o e
  BY <1>1, <1>2, <1>3 DEF MatchBits
<1>5. PICK p : p = (a \o b) \o c
  OBVIOUS
<1>6. Listed(a, 1) /\ Listed(b, 1) /\ Listed(c, l) /\ Fits(p, (1 + 1) + l)
  BY <1>1, <1>2, <1>5, ThreeFit
<1>7. Fits(B, ((1 + 1) + l) + r)
  BY <1>3, <1>4, <1>5, <1>6, FitsJoined
<1>8. l \in Nat /\ r \in Nat
  BY <1>2, <1>3 DEF Fits, Listed
<1>9. ASSUME t.m \in Nat, Told(t, k, B)
      PROVE  MatchTold(t, k, h, s, q, dist, len)
  <2>1. Says(t, k, p \o e, ((1 + 1) + l) + r) /\ k \in Nat
    BY <1>4, <1>5, <1>7, <1>9, ToldIs
  <2>2. Listed(p, (1 + 1) + l) /\ Listed(e, r)
    BY <1>3, <1>6 DEF Fits
  <2>3. Says(t, k, p, (1 + 1) + l) /\ Says(t, k + ((1 + 1) + l), e, r)
    BY <1>9, <2>1, <2>2, SaysParts DEF SaysBoth
  <2>4. Says(t, k, a, 1) /\ Says(t, k + 1, b, 1) /\ Says(t, k + 2, c, l)
    BY <1>5, <1>6, <1>9, <2>3, SaysThree
  <2>5. k + ((1 + 1) + l) = (k + 2) + l
    BY <1>8, <2>1
  <2>6. SaysBoth(t, k + 2, c, l, e, r)
    BY <2>3, <2>4, <2>5 DEF SaysBoth
  <2> QED
    BY <1>1, <1>2, <1>3, <2>4, <2>6 DEF MatchTold
<1>10. Fits(B, Len(B)) /\ Len(B) = ((1 + 1) + l) + r
  BY <1>7, ToldIs
<1>11. ((1 + 1) + l) + r = 2 + (l + r)
  BY <1>8
<1> QED
  BY <1>2, <1>3, <1>9, <1>10, <1>11

RepTold(t, k, h, s, q, first) ==
  /\ Says(t, k, Bit("isMatch", 0, Pos(h, s, q), 1), 1)
  /\ Says(t, k + 1, Bit("isRep", 0, q, 1), 1)
  /\ Says(t, k + 2, Bit("isRepG0", 0, q, first), 1)

(* B are those three, and then the l of b.                                 *)
RepHas(t, k, h, s, q, first, b, l, B) ==
  /\ Fits(B, Len(B)) /\ Len(B) = 3 + l
  /\ t.m \in Nat /\ Told(t, k, B) => RepTold(t, k, h, s, q, first) /\ Says(t, k + 3, b, l)

LEMMA RepOp ==
  ASSUME NEW h, NEW s, NEW q, NEW first \in {0, 1}, NEW b, NEW l, Fits(b, l),
         NEW B, B = RepBits(h, s, q, first, b), NEW t, NEW k
  PROVE  RepHas(t, k, h, s, q, first, b, l, B)
<1>1. PICK a, c, e : /\ a = Bit("isMatch", 0, Pos(h, s, q), 1) /\ Fits(a, 1)
                     /\ c = Bit("isRep", 0, q, 1) /\ Fits(c, 1)
                     /\ e = Bit("isRepG0", 0, q, first) /\ Fits(e, 1)
  <2>1. /\ Fits(Bit("isMatch", 0, Pos(h, s, q), 1), 1) /\ Fits(Bit("isRep", 0, q, 1), 1)
        /\ Fits(Bit("isRepG0", 0, q, first), 1)
    BY BitFits
  <2> QED
    BY <2>1
<1>2. B = ((a \o c) \o e) \o b
  BY <1>1 DEF RepBits
<1>3. PICK p : p = (a \o c) \o e
  OBVIOUS
<1>4. Listed(a, 1) /\ Listed(c, 1) /\ Listed(e, 1) /\ Fits(p, (1 + 1) + 1)
  BY <1>1, <1>3, ThreeFit
<1>5. Fits(B, ((1 + 1) + 1) + l)
  BY <1>2, <1>3, <1>4, FitsJoined
<1>6. l \in Nat /\ Listed(b, l) /\ Listed(p, (1 + 1) + 1)
  BY <1>4 DEF Fits, Listed
<1>7. ASSUME t.m \in Nat, Told(t, k, B)
      PROVE  RepTold(t, k, h, s, q, first) /\ Says(t, k + 3, b, l)
  <2>1. Says(t, k, p \o b, ((1 + 1) + 1) + l) /\ k \in Nat
    BY <1>2, <1>3, <1>5, <1>7, ToldIs
  <2>2. Says(t, k, p, (1 + 1) + 1) /\ Says(t, k + ((1 + 1) + 1), b, l)
    BY <1>6, <1>7, <2>1, SaysParts DEF SaysBoth
  <2>3. Says(t, k, a, 1) /\ Says(t, k + 1, c, 1) /\ Says(t, k + 2, e, 1)
    BY <1>3, <1>4, <1>7, <2>2, SaysThree
  <2>4. k + ((1 + 1) + 1) = k + 3
    BY <2>1
  <2> QED
    BY <1>1, <2>2, <2>3, <2>4 DEF RepTold
<1>8. Fits(B, Len(B)) /\ Len(B) = ((1 + 1) + 1) + l
  BY <1>5, ToldIs
<1>9. ((1 + 1) + 1) + l = 3 + l
  BY <1>6
<1> QED
  BY <1>7, <1>8, <1>9 DEF RepHas

-----------------------------------------------------------------------------
Longer(o) == o.i = 1 /\ o.len = 1
RepSize(o) ==
  IF Longer(o) THEN 3 + (1 + 0)
    ELSE IF o.i \in {3, 4} THEN 3 + ((1 + 1) + LengthSize(o.len - 2)) ELSE 3 + (1 + LengthSize(o.len - 2))

(* What comes behind the first three decisions of a repetition.            *)
RepRest(t, k, h, s, q, o) ==
  /\ o.i = 1 /\ o.len = 1 => Says(t, k + 3, Bit("isRep0Long", 0, Pos(h, s, q), 0), 1)
  /\ o.i = 1 /\ o.len # 1 => Says(t, k + 3, Bit("isRep0Long", 0, Pos(h, s, q), 1), 1)
  /\ o.i = 2 => Says(t, k + 3, Bit("isRepG1", 0, q, 0), 1)
  /\ o.i \in {3, 4} => /\ Says(t, k + 3, Bit("isRepG1", 0, q, 1), 1)
                       /\ Says(t, k + 4, Bit("isRepG2", 0, q, o.i - 3), 1)
                       /\ Says(t, k + 5, LengthOf("repLen", h, s, o.len), LengthSize(o.len - 2))
  /\ o.i \in {1, 2} /\ o.len # 1 =>
       Says(t, k + 4, LengthOf("repLen", h, s, o.len), LengthSize(o.len - 2))

First(o) == IF o.i = 1 THEN 0 ELSE 1

(* B is how many decisions a repetition takes, and what they are.          *)
RepGives(t, k, h, s, q, o, B) ==
  /\ Fits(B, Len(B)) /\ Len(B) = RepSize(o)
  /\ t.m \in Nat /\ Told(t, k, B) => RepTold(t, k, h, s, q, First(o)) /\ RepRest(t, k, h, s, q, o)

LEMMA ShortOp ==
  ASSUME NEW h, NEW s, NEW q, NEW o, o.op = "rep", o.i = 1, o.len = 1,
         NEW B, B = OpBits(h, s, q, o), NEW t, NEW k
  PROVE  RepGives(t, k, h, s, q, o, B)
<1>1. PICK a : a = Bit("isRep0Long", 0, Pos(h, s, q), 0) /\ Fits(a, 1)
  BY BitFits
<1>2. PICK b : b = a \o <<>> /\ Fits(b, 1 + 0)
  BY <1>1, NoneFits, FitsJoined
<1>3. B = RepBits(h, s, q, 0, b)
  BY <1>1, <1>2, RepOpBits
<1>4. RepHas(t, k, h, s, q, 0, b, 1 + 0, B)
  <2>1. 0 \in {0, 1}
    OBVIOUS
  <2> QED
    BY <1>2, <1>3, <2>1, RepOp
<1>5. t.m \in Nat /\ Says(t, k + 3, b, 1 + 0) => Says(t, k + 3, a, 1)
  BY <1>1, <1>2, NoneFits, OneThen
<1>6. RepSize(o) = 3 + (1 + 0) /\ First(o) = 0
  BY DEF RepSize, First, Longer
<1> QED
  BY <1>1, <1>4, <1>5, <1>6 DEF RepGives, RepRest, RepHas

LEMMA LengthOfFits ==
  ASSUME NEW h, NEW s, NEW name, NEW len \in 2..273
  PROVE  Fits(LengthOf(name, h, s, len), LengthSize(len - 2))
<1>1. len - 2 \in 0..271
  OBVIOUS
<1> QED
  BY <1>1, LengthFits DEF LengthOf

(* B are the first three, a decision, and a length.                        *)
LengthHas(t, k, h, s, q, first, a, len, B) ==
  /\ Fits(B, Len(B)) /\ Len(B) = 3 + (1 + LengthSize(len - 2))
  /\ t.m \in Nat /\ Told(t, k, B) =>
       /\ RepTold(t, k, h, s, q, first) /\ Says(t, k + 3, a, 1)
       /\ Says(t, k + 4, LengthOf("repLen", h, s, len), LengthSize(len - 2))

LEMMA OneAndLength ==
  ASSUME NEW h, NEW s, NEW q, NEW o, o.len \in 2..273, NEW first \in {0, 1}, NEW a, Fits(a, 1),
         NEW B, B = RepBits(h, s, q, first, a \o LengthOf("repLen", h, s, o.len)), NEW t, NEW k
  PROVE  LengthHas(t, k, h, s, q, first, a, o.len, B)
<1>1. PICK c, l : c = LengthOf("repLen", h, s, o.len) /\ l = LengthSize(o.len - 2) /\ Fits(c, l)
  BY LengthOfFits
<1>2. PICK b : b = a \o c /\ Fits(b, 1 + l)
  BY <1>1, FitsJoined
<1>3. B = RepBits(h, s, q, first, b)
  BY <1>1, <1>2
<1>4. RepHas(t, k, h, s, q, first, b, 1 + l, B)
  BY <1>2, <1>3, RepOp
<1>5. ASSUME t.m \in Nat, Told(t, k, B)
      PROVE  Says(t, k + 3, a, 1) /\ Says(t, k + 4, c, l)
  <2>1. Says(t, k + 3, a \o c, 1 + l)
    BY <1>2, <1>4, <1>5 DEF RepHas
  <2>2. Says(t, k + 3, a, 1) /\ Says(t, (k + 3) + 1, c, l)
    BY <1>1, <1>5, <2>1, OneThen
  <2>3. k \in Nat
    BY <1>5 DEF Told, Says
  <2>4. (k + 3) + 1 = k + 4
    BY <2>3
  <2> QED
    BY <2>2, <2>4
<1> QED
  BY <1>1, <1>4, <1>5 DEF LengthHas, RepHas

LEMMA LongOp ==
  ASSUME NEW h, NEW s, NEW q, NEW o, o.op = "rep", o.i = 1, o.len \in 2..273,
         NEW B, B = OpBits(h, s, q, o), NEW t, NEW k
  PROVE  RepGives(t, k, h, s, q, o, B)
<1>0. o.len # 1
  OBVIOUS
<1>1. PICK a : a = Bit("isRep0Long", 0, Pos(h, s, q), 1) /\ Fits(a, 1)
  BY BitFits
<1>2. B = RepBits(h, s, q, 0, a \o LengthOf("repLen", h, s, o.len))
  BY <1>0, <1>1, RepOpBits
<1>3. LengthHas(t, k, h, s, q, 0, a, o.len, B)
  <2>1. 0 \in {0, 1}
    OBVIOUS
  <2> QED
    BY <1>1, <1>2, <2>1, OneAndLength
<1>4. RepSize(o) = 3 + (1 + LengthSize(o.len - 2)) /\ First(o) = 0
  BY <1>0 DEF RepSize, First, Longer
<1> QED
  BY <1>0, <1>1, <1>3, <1>4 DEF RepGives, RepRest, LengthHas

LEMMA SecondOp ==
  ASSUME NEW h, NEW s, NEW q, NEW o, o.op = "rep", o.i = 2, o.len \in 2..273,
         NEW B, B = OpBits(h, s, q, o), NEW t, NEW k
  PROVE  RepGives(t, k, h, s, q, o, B)
<1>0. o.len # 1 /\ o.i # 1
  OBVIOUS
<1>1. PICK a : a = Bit("isRepG1", 0, q, 0) /\ Fits(a, 1)
  BY BitFits
<1>2. B = RepBits(h, s, q, 1, a \o LengthOf("repLen", h, s, o.len))
  BY <1>0, <1>1, RepOpBits
<1>3. LengthHas(t, k, h, s, q, 1, a, o.len, B)
  <2>1. 1 \in {0, 1}
    OBVIOUS
  <2> QED
    BY <1>1, <1>2, <2>1, OneAndLength
<1>4. RepSize(o) = 3 + (1 + LengthSize(o.len - 2)) /\ First(o) = 1
  BY <1>0 DEF RepSize, First, Longer
<1> QED
  BY <1>0, <1>1, <1>3, <1>4 DEF RepGives, RepRest, LengthHas

LEMMA LaterOp ==
  ASSUME NEW h, NEW s, NEW q, NEW o, o.op = "rep", o.i \in {3, 4}, o.len \in 2..273,
         NEW B, B = OpBits(h, s, q, o), NEW t, NEW k
  PROVE  RepGives(t, k, h, s, q, o, B)
<1>0. o.len # 1 /\ o.i # 1 /\ o.i # 2 /\ o.i - 3 \in {0, 1}
  OBVIOUS
<1>1. PICK a, e : /\ a = Bit("isRepG1", 0, q, 1) /\ Fits(a, 1)
                  /\ e = Bit("isRepG2", 0, q, o.i - 3) /\ Fits(e, 1)
  <2>1. Fits(Bit("isRepG1", 0, q, 1), 1) /\ Fits(Bit("isRepG2", 0, q, o.i - 3), 1)
    BY <1>0, BitFits
  <2> QED
    BY <2>1
<1>2. PICK c, l : c = LengthOf("repLen", h, s, o.len) /\ l = LengthSize(o.len - 2) /\ Fits(c, l)
  BY LengthOfFits
<1>3. PICK b : b = (a \o e) \o c
  OBVIOUS
<1>4. Listed(a, 1) /\ Listed(e, 1) /\ Listed(c, l) /\ Fits(b, (1 + 1) + l)
  BY <1>1, <1>2, <1>3, ThreeFit
<1>5. B = RepBits(h, s, q, 1, b)
  BY <1>1, <1>2, <1>3, RepOpBits
<1>6. RepHas(t, k, h, s, q, 1, b, (1 + 1) + l, B)
  <2>1. 1 \in {0, 1}
    OBVIOUS
  <2> QED
    BY <1>4, <1>5, <2>1, RepOp
<1>7. ASSUME t.m \in Nat, Told(t, k, B)
      PROVE  Says(t, k + 3, a, 1) /\ Says(t, k + 4, e, 1) /\ Says(t, k + 5, c, l)
  <2>1. Says(t, k + 3, (a \o e) \o c, (1 + 1) + l)
    BY <1>3, <1>6, <1>7 DEF RepHas
  <2>2. Says(t, k + 3, a, 1) /\ Says(t, (k + 3) + 1, e, 1) /\ Says(t, (k + 3) + 2, c, l)
    BY <1>4, <1>7, <2>1, SaysThree
  <2>3. k \in Nat
    BY <1>7 DEF Told, Says
  <2>4. (k + 3) + 1 = k + 4 /\ (k + 3) + 2 = k + 5
    BY <2>3
  <2> QED
    BY <2>2, <2>4
<1>8. RepSize(o) = 3 + ((1 + 1) + l) /\ First(o) = 1
  BY <1>0, <1>2 DEF RepSize, First, Longer
<1> QED
  BY <1>0, <1>1, <1>2, <1>6, <1>7, <1>8 DEF RepGives, RepRest, RepHas

(* What an operation is, by its kind.                                      *)
LEMMA LzmaOpIs ==
  ASSUME NEW o \in Operations
  PROVE  /\ o.op \in {"literal", "match", "rep", "eos"}
         /\ o.op = "literal" => o.byte \in Byte
         /\ o.op = "match" => o.dist \in 0..(2^30 - 1) + 2^30 /\ o.len \in 2..273
         /\ o.op = "rep" => o.i \in 1..4 /\ (o.len \in 2..273 \/ Longer(o))
<1>1. PICK far : far = (2^30 - 1) + 2^30
  OBVIOUS
<1>2. \/ o \in [op : {"literal"}, byte : Byte]
      \/ o \in [op : {"match"}, dist : 0..far, len : 2..273]
      \/ o \in [op : {"rep"}, i : 1..4, len : 2..273]
      \/ o \in [op : {"rep"}, i : {1}, len : {1}]
      \/ o \in [op : {"eos"}]
  BY <1>1, Zenon DEF Operations
<1>3. \/ o.op = "literal" /\ o.byte \in Byte
      \/ o.op = "match" /\ o.dist \in 0..far /\ o.len \in 2..273
      \/ o.op = "rep" /\ o.i \in 1..4 /\ o.len \in 2..273
      \/ o.op = "rep" /\ o.i = 1 /\ o.len = 1
      \/ o.op = "eos"
  BY <1>2
<1>4. 1 \in 1..4
  OBVIOUS
<1> QED
  BY <1>1, <1>3, <1>4, Zenon DEF Longer

LEMMA RepeatOp ==
  ASSUME NEW h, NEW s, NEW q, NEW o \in Operations, o.op = "rep",
         NEW B, B = OpBits(h, s, q, o), NEW t, NEW k
  PROVE  RepGives(t, k, h, s, q, o, B)
<1>1. o.i \in 1..4 /\ (o.len \in 2..273 \/ Longer(o))
  BY LzmaOpIs
<1>2. CASE Longer(o)
  BY <1>2, ShortOp DEF Longer
<1>3. CASE o.len \in 2..273 /\ o.i = 1
  BY <1>3, LongOp
<1>4. CASE o.len \in 2..273 /\ o.i = 2
  BY <1>4, SecondOp
<1>5. CASE o.len \in 2..273 /\ o.i \in {3, 4}
  BY <1>5, LaterOp
<1> QED
  BY <1>1, <1>2, <1>3, <1>4, <1>5

-----------------------------------------------------------------------------
(* The dictionary is that of xz.                                           *)
LEMMA LzmaByte == Byte = Q!Byte
BY DEF Byte, Q!Byte

LEMMA LzmaIsOperation ==
  ASSUME NEW o \in Operations
  PROVE  o \in Q!Operations
<1>1. PICK far : far = (2^30 - 1) + 2^30
  OBVIOUS
<1>2. \/ o \in [op : {"literal"}, byte : Byte]
      \/ o \in [op : {"match"}, dist : 0..far, len : 2..273]
      \/ o \in [op : {"rep"}, i : 1..4, len : 2..273]
      \/ o \in [op : {"rep"}, i : {1}, len : {1}]
      \/ o \in [op : {"eos"}]
  BY <1>1, Zenon DEF Operations
<1>3. CASE o \in [op : {"literal"}, byte : Byte]
  BY <1>3, LzmaByte DEF Q!Operations
<1>4. CASE o \in [op : {"match"}, dist : 0..far, len : 2..273]
  <2>1. o \in [op : {"match"}, dist : Nat, len : Nat]
    BY <1>4
  <2> QED
    BY <2>1 DEF Q!Operations
<1>5. CASE o \in [op : {"rep"}, i : 1..4, len : 2..273] \/ o \in [op : {"rep"}, i : {1}, len : {1}]
  <2>1. o \in [op : {"rep"}, i : 1..4, len : Nat]
    BY <1>5
  <2> QED
    BY <2>1 DEF Q!Operations
<1>6. CASE o \in [op : {"eos"}]
  BY <1>6 DEF Q!Operations
<1> QED
  BY <1>2, <1>3, <1>4, <1>5, <1>6

LEMMA LzmaNewDec ==
  ASSUME NEW n PROVE NewDec(n) = Q!NewDec(n) /\ Start(n) = Q!Start(n)
BY DEF NewDec, Q!NewDec, Start, Q!Start

LEMMA LzmaPut ==
  ASSUME NEW s, NEW w PROVE PutBytes(s, w) = Q!PutBytes(s, w)
BY DEF PutBytes, Q!PutBytes, PutByte, Q!PutByte, NextPlace, Q!NextPlace,
   FoldLeft, Q!FoldLeft, MapThenFoldSet, Q!MapThenFoldSet, Max, Q!Max

LEMMA LzmaGet ==
  ASSUME NEW d, NEW n PROVE GetByte(d, n) = Q!GetByte(d, n) /\ (Invalid(d, n) <=> Q!Invalid(d, n))
BY DEF GetByte, Q!GetByte, Invalid, Q!Invalid

LEMMA LzmaCopied ==
  ASSUME NEW s, NEW d, NEW n PROVE CopyMatch(s, d, n) = Q!CopyMatch(s, d, n)
BY DEF CopyMatch, Q!CopyMatch, GetByte, Q!GetByte, PutBytes, Q!PutBytes,
   PutByte, Q!PutByte, NextPlace, Q!NextPlace,
   FoldLeft, Q!FoldLeft, MapThenFoldSet, Q!MapThenFoldSet, Max, Q!Max

LEMMA LzmaReused ==
  ASSUME NEW r, NEW i PROVE Reused(r, i) = Q!Reused(r, i)
BY DEF Reused, Q!Reused

LEMMA LzmaOperated ==
  ASSUME NEW s, NEW o PROVE Operated(s, o) = Q!Operated(s, o)
BY DEF Operated, Q!Operated, Repeated, Q!Repeated, Extended, Q!Extended,
   RemoveAt, Q!RemoveAt

-----------------------------------------------------------------------------
(* What is written: operations w.seq under the header w.h.  Of the first   *)
(* w.n, w.s[i] is what i of them mean, w.q[i] the state behind them, and   *)
(* the decisions w.ds behind place w.at[i] are those of the next.          *)
Cap(w) == Capacity(w.h)

LEMMA CapIs ==
  ASSUME LzmaAssumption, NEW w, w.h \in Headers
  PROVE  Cap(w) \in Nat \ {0} /\ w.h.size \in Int /\ w.h.pb \in Int
<1>1. MinDict \in Nat \ {0}
  BY DEF LzmaAssumption
<1>2. w.h.dict \in Nat /\ w.h.size \in Nat \cup {-1} /\ w.h.pb \in 0..5
  BY DEF Headers
<1> QED
  BY <1>1, <1>2 DEF Cap, Capacity

(* The last distance can be gone back.                                     *)
Reaches(size, s) == s.reps[1] \in Nat /\ s.reps[1] < Len(s.hist) /\ s.reps[1] < size

Placed(w, i) ==
  /\ w.s[i] \in Q!Meanings(Cap(w)) /\ w.s[i].hist = w.s[i].out
  /\ w.s[i].state \in {"go", "eos", "bad"}
  /\ w.q[i] \in 0..11 /\ w.at[i] \in Nat /\ w.at[i] <= w.at[w.n]
  /\ w.s[i].state = "go" /\ w.q[i] >= 7 => Reaches(Cap(w), w.s[i])

OpOf(w, i) == OpBits(w.h, w.s[i - 1], w.q[i - 1], w.seq[i])

Stepped(w, i) ==
  /\ w.s[i - 1].state = "go" /\ w.s[i] = Operated(w.s[i - 1], w.seq[i])
  /\ w.q[i] = StateAfter(w.seq[i], w.q[i - 1])
  /\ Fits(OpOf(w, i), Len(OpOf(w, i))) /\ w.at[i] = w.at[i - 1] + Len(OpOf(w, i))
  /\ \A j \in 1..Len(OpOf(w, i)) : w.ds[w.at[i - 1] + j] = OpOf(w, i)[j]

Written(w) ==
  /\ w.h \in Headers /\ w.seq \in Seq(Operations) /\ w.n \in 0..Len(w.seq)
  /\ w.s[0] = Start(Cap(w)) /\ w.q[0] = 0 /\ w.at[0] = 0
  /\ \A i \in 0..w.n : Placed(w, i)
  /\ \A i \in 1..w.n : Stepped(w, i)

-----------------------------------------------------------------------------
(* An operation more.                                                      *)

LEMMA StateIs ==
  ASSUME NEW o, NEW q \in 0..11
  PROVE  StateAfter(o, q) \in 0..11
BY DEF StateAfter

(* What an operation leads to.                                             *)
Led(size, s, q, o, z) ==
  /\ z \in Q!Meanings(size) /\ z.hist = z.out /\ z.state \in {"go", "eos", "bad"}
  /\ z.state = "go" /\ StateAfter(o, q) >= 7 => Reaches(size, z)

LEMMA OperationLeads ==
  ASSUME NEW size \in Nat \ {0}, NEW s \in Q!Meanings(size), s.hist = s.out, s.state = "go",
         NEW q \in 0..11, q >= 7 => Reaches(size, s),
         NEW o \in Operations, NEW z, z = Operated(s, o)
  PROVE  Led(size, s, q, o, z)
<1>1. o \in Q!Operations /\ z = Q!Operated(s, o)
  BY LzmaIsOperation, LzmaOperated
<1>2. s.hist \in Q!Bytes /\ s.reps \in Q!Reps /\ Len(s.hist) \in Nat
  <2>1. s.hist \in Q!Bytes /\ s.reps \in Q!Reps
    BY DEF Q!Meanings
  <2>2. Len(s.hist) \in Nat
    BY <2>1 DEF Q!Bytes
  <2> QED
    BY <2>1, <2>2
<1>3. CASE o.op = "literal"
  <2>1. Q!Grown(size, s, <<o.byte>>, z) /\ z.reps = s.reps
    BY <1>1, <1>3, Q!LiteralMeans
  <2>2. z \in Q!Meanings(size) /\ z.hist = z.out /\ z.state = "go"
    BY <2>1 DEF Q!Grown
  <2>3. Len(z.hist) = Len(s.hist) + 1
    <3>1. o.byte \in Q!Byte
      BY <1>3, LzmaOpIs, LzmaByte
    <3>2. z.hist = s.hist \o <<o.byte>>
      BY <2>1 DEF Q!Grown
    <3> QED
      BY <1>2, <3>1, <3>2, Q!OneMore DEF Q!Bytes
  <2>4. StateAfter(o, q) >= 7 => q >= 7
    BY <1>3 DEF StateAfter
  <2> QED
    BY <1>2, <2>1, <2>2, <2>3, <2>4 DEF Led, Reaches
<1>4. CASE o.op = "match"
  <2>1. PICK p : /\ p = <<o.dist, s.reps[1], s.reps[2], s.reps[3]>> /\ p \in Q!Reps
                 /\ IF o.dist >= Len(s.hist) \/ o.dist >= size THEN Q!Turned(size, s, z, "bad")
                      ELSE Q!Grown(size, s, Q!Copy(s.hist, o.dist, o.len), z) /\ z.reps = p
    BY <1>1, <1>4, Q!MatchMeans
  <2>2. CASE o.dist >= Len(s.hist) \/ o.dist >= size
    BY <2>1, <2>2 DEF Led, Q!Turned
  <2>3. CASE ~(o.dist >= Len(s.hist) \/ o.dist >= size)
    <3>1. Q!Grown(size, s, Q!Copy(s.hist, o.dist, o.len), z) /\ z.reps = p
      BY <2>1, <2>3
    <3>2. z.reps[1] = o.dist /\ o.dist \in Nat
      BY <1>4, <2>1, <3>1, LzmaOpIs
    <3>3. Len(z.hist) >= Len(s.hist)
      <4>1. Q!Copy(s.hist, o.dist, o.len) \in Q!Bytes /\ z.hist = s.hist \o Q!Copy(s.hist, o.dist, o.len)
        BY <3>1 DEF Q!Grown
      <4>2. PICK c : c = Q!Copy(s.hist, o.dist, o.len)
        OBVIOUS
      <4>3. c \in Q!Bytes /\ z.hist = s.hist \o c
        BY <4>1, <4>2
      <4> QED
        BY <1>2, <4>3 DEF Q!Bytes
    <3>4. z \in Q!Meanings(size) /\ z.hist = z.out /\ z.state = "go"
      BY <3>1 DEF Q!Grown
    <3>5. o.dist < Len(z.hist) /\ o.dist < size
      <4>1. Len(z.hist) \in Nat
        BY <3>4 DEF Q!Meanings, Q!Bytes
      <4> QED
        BY <1>2, <2>3, <3>2, <3>3, <4>1
    <3> QED
      BY <3>2, <3>4, <3>5 DEF Led, Reaches
  <2> QED
    BY <2>2, <2>3
<1>5. CASE o.op = "rep"
  <2>1. PICK p : /\ p = Q!Reused(s.reps, o.i) /\ p \in Q!Reps /\ p[1] \in Nat
                 /\ IF p[1] >= Len(s.hist) \/ p[1] >= size THEN Q!Turned(size, s, z, "bad")
                      ELSE Q!Grown(size, s, Q!Copy(s.hist, p[1], o.len), z) /\ z.reps = p
    BY <1>1, <1>5, Q!RepMeans
  <2>2. CASE p[1] >= Len(s.hist) \/ p[1] >= size
    BY <2>1, <2>2 DEF Led, Q!Turned
  <2>3. CASE ~(p[1] >= Len(s.hist) \/ p[1] >= size)
    <3>1. Q!Grown(size, s, Q!Copy(s.hist, p[1], o.len), z) /\ z.reps = p
      BY <2>1, <2>3
    <3>3. Len(z.hist) >= Len(s.hist)
      <4>1. Q!Copy(s.hist, p[1], o.len) \in Q!Bytes /\ z.hist = s.hist \o Q!Copy(s.hist, p[1], o.len)
        BY <3>1 DEF Q!Grown
      <4>2. PICK c : c = Q!Copy(s.hist, p[1], o.len)
        OBVIOUS
      <4>3. c \in Q!Bytes /\ z.hist = s.hist \o c
        BY <4>1, <4>2
      <4> QED
        BY <1>2, <4>3 DEF Q!Bytes
    <3>4. z \in Q!Meanings(size) /\ z.hist = z.out /\ z.state = "go"
      BY <3>1 DEF Q!Grown
    <3>5. p[1] < Len(z.hist) /\ p[1] < size
      <4>1. Len(z.hist) \in Nat
        BY <3>4 DEF Q!Meanings, Q!Bytes
      <4> QED
        BY <1>2, <2>1, <2>3, <3>3, <4>1
    <3> QED
      BY <2>1, <3>1, <3>4, <3>5 DEF Led, Reaches
  <2> QED
    BY <2>2, <2>3
<1>6. CASE o.op = "eos"
  <2>1. Q!Turned(size, s, z, "eos")
    BY <1>1, <1>6, Q!EosMeans
  <2> QED
    BY <2>1 DEF Led, Q!Turned
<1> QED
  BY <1>3, <1>4, <1>5, <1>6, LzmaOpIs

-----------------------------------------------------------------------------
LEMMA OpFits ==
  ASSUME NEW h, NEW s, NEW q, NEW o \in Operations, NEW B, B = OpBits(h, s, q, o)
  PROVE  Fits(B, Len(B))
<1>1. CASE o.op = "literal"
  BY <1>1, LzmaOpIs, LiteralOp
<1>2. CASE o.op = "match"
  <2>1. PICK dist, len : dist = o.dist /\ len = o.len /\ B = MatchBits(h, s, q, dist, len)
    BY <1>2, MatchOpBits
  <2>2. dist \in 0..(2^30 - 1) + 2^30 /\ len \in 2..273
    BY <1>2, <2>1, LzmaOpIs
  <2>3. dist \in Distances
    BY <2>2, Zenon DEF Distances
  <2> QED
    BY <2>1, <2>2, <2>3, MatchOp
<1>3. CASE o.op = "eos"
  <2>1. PICK dist, len : dist = -1 /\ len = 2 /\ B = MatchBits(h, s, q, dist, len)
    BY <1>3, MatchOpBits
  <2>2. dist \in {-1} /\ len \in 2..273
    BY <2>1
  <2>3. dist \in Distances
    BY <2>2, Zenon DEF Distances
  <2> QED
    BY <2>1, <2>2, <2>3, MatchOp
<1>4. CASE o.op = "rep"
  BY <1>4, RepeatOp DEF RepGives
<1> QED
  BY <1>1, <1>2, <1>3, <1>4, LzmaOpIs

(* x is w with an operation more.                                          *)
OneMoreOp(w, x) ==
  LET B == OpBits(w.h, w.s[w.n], w.q[w.n], w.seq[w.n + 1])
  IN /\ Written(x) /\ x.h = w.h /\ x.seq = w.seq /\ x.n = w.n + 1
     /\ x.s[x.n] = Operated(w.s[w.n], w.seq[w.n + 1])
     /\ x.q[x.n] = StateAfter(w.seq[w.n + 1], w.q[w.n])
     /\ Fits(B, Len(B)) /\ x.at[x.n] = w.at[w.n] + Len(B)
     /\ \A j \in 1..w.at[w.n] : x.ds[j] = w.ds[j]
     /\ \A j \in 1..Len(B) : x.ds[w.at[w.n] + j] = B[j]

LEMMA WrittenOn ==
  ASSUME LzmaAssumption, NEW w, Written(w), w.n < Len(w.seq), w.s[w.n].state = "go"
  PROVE  \E x : OneMoreOp(w, x)
<1>1. PICK n \in Nat : n = w.n /\ n + 1 \in 1..Len(w.seq) /\ n \in 0..n
  <2>1. Len(w.seq) \in Nat /\ w.n \in 0..Len(w.seq)
    BY DEF Written
  <2> QED
    BY <2>1
<1>2. PICK o \in Operations : o = w.seq[n + 1]
  <2>1. w.seq \in Seq(Operations)
    BY DEF Written
  <2>2. w.seq[n + 1] \in Operations
    BY <1>1, <2>1
  <2> QED
    BY <2>2
<1>3. PICK s, q, k : s = w.s[n] /\ q = w.q[n] /\ k = w.at[n]
  OBVIOUS
<1>4. Placed(w, n) /\ \A i \in 0..n : Placed(w, i)
  BY <1>1 DEF Written
<1>5. PICK B : B = OpBits(w.h, s, q, o) /\ Fits(B, Len(B)) /\ Len(B) \in Nat
  <2>1. Fits(OpBits(w.h, s, q, o), Len(OpBits(w.h, s, q, o)))
    BY OpFits
  <2> QED
    BY <2>1 DEF Fits, Listed
<1>6. PICK z : z = Operated(s, o)
  OBVIOUS
<1>7. Led(Cap(w), s, q, o, z)
  <2>1. Cap(w) \in Nat \ {0}
    BY CapIs DEF Written
  <2>2. s \in Q!Meanings(Cap(w)) /\ s.hist = s.out /\ s.state = "go" /\ q \in 0..11
        /\ (q >= 7 => Reaches(Cap(w), s))
    BY <1>1, <1>3, <1>4 DEF Placed
  <2> QED
    BY <1>6, <2>1, <2>2, OperationLeads
<1>8. PICK p : p = StateAfter(o, q) /\ p \in 0..11
  <2>1. q \in 0..11
    BY <1>3, <1>4 DEF Placed
  <2> QED
    BY <2>1, StateIs
<1>9. PICK ss, qs, as, ds :
        /\ ss = [i \in 0..n + 1 |-> IF i <= n THEN w.s[i] ELSE z]
        /\ qs = [i \in 0..n + 1 |-> IF i <= n THEN w.q[i] ELSE p]
        /\ as = [i \in 0..n + 1 |-> IF i <= n THEN w.at[i] ELSE k + Len(B)]
        /\ ds = [j \in 1..k + Len(B) |-> IF j <= k THEN w.ds[j] ELSE B[j - k]]
  OBVIOUS
<1>10. PICK x : x = [h |-> w.h, seq |-> w.seq, n |-> n + 1, s |-> ss, q |-> qs, at |-> as, ds |-> ds]
  OBVIOUS
<1>11. /\ x.h = w.h /\ x.seq = w.seq /\ x.n = n + 1 /\ x.s = ss /\ x.q = qs /\ x.at = as /\ x.ds = ds
       /\ Cap(x) = Cap(w)
  BY <1>10 DEF Cap
<1>12. k \in Nat /\ \A i \in 0..n : w.at[i] \in Nat /\ w.at[i] <= k
  BY <1>1, <1>3, <1>4 DEF Placed
<1>13. /\ \A i \in 0..n : x.s[i] = w.s[i] /\ x.q[i] = w.q[i] /\ x.at[i] = w.at[i]
       /\ x.s[n + 1] = z /\ x.q[n + 1] = p /\ x.at[n + 1] = k + Len(B)
  BY <1>9, <1>11
<1>14. /\ \A j \in 1..k : x.ds[j] = w.ds[j]
       /\ \A j \in 1..Len(B) : x.ds[k + j] = B[j]
  <2>1. \A j \in 1..k : x.ds[j] = w.ds[j]
    BY <1>5, <1>9, <1>11, <1>12
  <2>2. ASSUME NEW j \in 1..Len(B) PROVE x.ds[k + j] = B[j]
    <3>1. k + j \in 1..k + Len(B) /\ ~(k + j <= k) /\ (k + j) - k = j
      BY <1>5, <1>12
    <3> QED
      BY <1>9, <1>11, <3>1
  <2> QED
    BY <2>1, <2>2
<1>15. ASSUME NEW i \in 0..n + 1 PROVE Placed(x, i)
  <2>1. x.at[x.n] = k + Len(B) /\ k + Len(B) \in Nat /\ k <= k + Len(B)
    BY <1>5, <1>11, <1>12, <1>13
  <2>2. CASE i \in 0..n
    <3>1. Placed(w, i) /\ x.s[i] = w.s[i] /\ x.q[i] = w.q[i] /\ x.at[i] = w.at[i]
      BY <1>4, <1>13, <2>2
    <3>2. x.at[i] <= x.at[x.n]
      BY <1>5, <1>12, <2>1, <2>2, <3>1
    <3> QED
      BY <1>11, <3>1, <3>2 DEF Placed
  <2>3. CASE i = n + 1
    <3>1. x.s[i] = z /\ x.q[i] = p /\ x.at[i] = k + Len(B)
      BY <1>13, <2>3
    <3> QED
      BY <1>7, <1>8, <1>11, <2>1, <3>1 DEF Placed, Led
  <2> QED
    BY <1>1, <2>2, <2>3
<1>16. ASSUME NEW i \in 1..n + 1 PROVE Stepped(x, i)
  <2>1. CASE i \in 1..n
    <3>1. i \in 0..n /\ i - 1 \in 0..n /\ Stepped(w, i)
      BY <1>1, <2>1 DEF Written
    <3>2. x.s[i] = w.s[i] /\ x.q[i] = w.q[i] /\ x.at[i] = w.at[i]
          /\ x.s[i - 1] = w.s[i - 1] /\ x.q[i - 1] = w.q[i - 1] /\ x.at[i - 1] = w.at[i - 1]
      BY <1>13, <3>1
    <3>3. OpOf(x, i) = OpOf(w, i)
      BY <1>11, <3>2 DEF OpOf
    <3>4. PICK A : A = OpOf(w, i) /\ Len(A) \in Nat
      BY <3>1 DEF Stepped, Fits, Listed
    <3>5. w.at[i] <= k /\ w.at[i] = w.at[i - 1] + Len(A) /\ w.at[i - 1] \in Nat
      BY <1>12, <3>1, <3>4 DEF Stepped
    <3>6. ASSUME NEW j \in 1..Len(A) PROVE x.ds[w.at[i - 1] + j] = A[j]
      <4>1. w.at[i - 1] + j \in 1..k
        BY <1>12, <3>4, <3>5
      <4>2. x.ds[w.at[i - 1] + j] = w.ds[w.at[i - 1] + j]
        BY <1>14, <4>1
      <4> QED
        BY <3>1, <3>4, <4>2 DEF Stepped
    <3> QED
      BY <1>11, <3>1, <3>2, <3>3, <3>4, <3>6 DEF Stepped
  <2>2. CASE i = n + 1
    <3>1. i - 1 = n /\ n \in 0..n
      BY <1>1, <2>2
    <3>2. x.s[i - 1] = s /\ x.q[i - 1] = q /\ x.at[i - 1] = k
      BY <1>3, <1>13, <3>1
    <3>3. x.s[i] = z /\ x.q[i] = p /\ x.at[i] = k + Len(B) /\ x.seq[i] = o
      BY <1>2, <1>11, <1>13, <2>2
    <3>4. OpOf(x, i) = B
      BY <1>5, <1>11, <3>2, <3>3 DEF OpOf
    <3>5. s.state = "go"
      BY <1>1, <1>3
    <3> QED
      BY <1>5, <1>6, <1>8, <1>14, <3>2, <3>3, <3>4, <3>5 DEF Stepped
  <2> QED
    BY <1>1, <2>1, <2>2
<1>17. Written(x)
  <2>1. x.s[0] = w.s[0] /\ x.q[0] = w.q[0] /\ x.at[0] = w.at[0]
    BY <1>1, <1>13
  <2>2. w.s[0] = Start(Cap(w)) /\ w.q[0] = 0 /\ w.at[0] = 0
    BY DEF Written
  <2>3. w.h \in Headers /\ w.seq \in Seq(Operations)
    BY DEF Written
  <2>4. n + 1 \in 0..Len(w.seq)
    BY <1>1
  <2> QED
    BY <1>11, <1>15, <1>16, <2>1, <2>2, <2>3, <2>4 DEF Written
<1>18. OneMoreOp(w, x)
  BY <1>1, <1>2, <1>3, <1>5, <1>6, <1>8, <1>11, <1>13, <1>14, <1>17 DEF OneMoreOp
<1> QED
  BY <1>18

(* Nothing is written yet.                                                 *)
LEMMA WrittenNone ==
  ASSUME LzmaAssumption, NEW h \in Headers, NEW seq \in Seq(Operations)
  PROVE  \E w : /\ Written(w) /\ w.h = h /\ w.seq = seq /\ w.n = 0
                /\ w.s[0] = Start(Cap(w)) /\ w.q[0] = 0 /\ w.at[0] = 0
<1>1. PICK z : z = Start(Capacity(h))
  OBVIOUS
<1>2. PICK w : w = [h |-> h, seq |-> seq, n |-> 0, s |-> [i \in {0} |-> z], q |-> [i \in {0} |-> 0],
                    at |-> [i \in {0} |-> 0], ds |-> <<>>]
  OBVIOUS
<1>3. w.h = h /\ w.seq = seq /\ w.n = 0 /\ w.s[0] = z /\ w.q[0] = 0 /\ w.at[0] = 0 /\ Cap(w) = Capacity(h)
  BY <1>2 DEF Cap
<1>4. Cap(w) \in Nat \ {0}
  BY <1>3, CapIs
<1>5. /\ z.hist = <<>> /\ z.out = <<>> /\ z.state = "go" /\ z.reps = <<0, 0, 0, 0>>
      /\ z.size = Cap(w) /\ DOMAIN z = {"hist", "reps", "out", "state", "size"}
      /\ z = [hist |-> <<>>, reps |-> <<0, 0, 0, 0>>, out |-> <<>>, state |-> "go", size |-> Cap(w)]
  BY <1>1, <1>3 DEF Start
<1>6. z \in Q!Meanings(Cap(w))
  <2>1. <<>> \in Q!Bytes /\ <<0, 0, 0, 0>> \in Q!Reps
    <3>1. <<0, 0, 0, 0>> \in Q!Reps
      BY Q!FourMake
    <3> QED
      BY <3>1 DEF Q!Bytes
  <2> QED
    BY <1>5, <2>1 DEF Q!Meanings
<1>7. Placed(w, 0)
  BY <1>3, <1>5, <1>6 DEF Placed
<1>8. \A i \in 0..0 : i = 0
  OBVIOUS
<1>9. 0 \in 0..Len(seq)
  OBVIOUS
<1>10. Written(w)
  BY <1>1, <1>3, <1>7, <1>8, <1>9 DEF Written
<1> QED
  BY <1>1, <1>3, <1>10

-----------------------------------------------------------------------------
(* Where the meaning of all operations is among what was written.          *)
Stops(w, j) == w.s[j].state # "go" \/ (w.h.size >= 0 /\ Len(w.s[j].out) >= w.h.size)

Ended(w) == w.n = Len(w.seq) \/ w.s[w.n].state # "go"

Goal(w, g) ==
  /\ g \in 0..w.n /\ Meaning(w.h, w.seq) = w.s[g]
  /\ \A j \in 0..g - 1 : ~Stops(w, j)
  /\ IF w.h.size < 0 THEN w.s[g].state = "eos"
       ELSE w.s[g].state = "go" /\ Len(w.s[g].out) = w.h.size

OpFold(w, r) == Runs("op", w.h.size, Start(Cap(w)), w.seq, r)

LEMMA FoldFollows ==
  ASSUME NEW w, Written(w), NEW r, OpFold(w, r), NEW m \in 0..w.n, \A j \in 0..m - 1 : ~Stops(w, j)
  PROVE  r[m] = w.s[m]
<1>0. m \in Nat /\ Len(w.seq) \in Nat /\ w.n \in 0..Len(w.seq)
  BY DEF Written
<1>1. PICK G : G = {k \in 0..m : r[k] = w.s[k]}
  OBVIOUS
<1>2. 0 \in G
  BY <1>0, <1>1 DEF Written, OpFold, Runs
<1>3. ASSUME NEW k \in 1..m, k - 1 \in G PROVE k \in G
  <2>1. r[k - 1] = w.s[k - 1] /\ k - 1 \in 0..m - 1 /\ k \in 1..w.n /\ k \in 1..Len(w.seq) /\ k \in 0..m
    BY <1>0, <1>1, <1>3
  <2>2. r[k] = FoldStep("op", w.h.size, r[k - 1], w.seq[k])
    BY <2>1 DEF OpFold, Runs
  <2>3. ~Stops(w, k - 1) /\ Stepped(w, k)
    BY <2>1 DEF Written
  <2>4. r[k] = Operated(r[k - 1], w.seq[k])
    BY <2>1, <2>2, <2>3 DEF FoldStep, Stops
  <2>5. r[k] = w.s[k]
    BY <2>1, <2>3, <2>4 DEF Stepped
  <2> QED
    BY <1>1, <2>1, <2>5
<1>4. Q!Climbs(G, m)
  BY <1>3 DEF Q!Climbs
<1>5. m \in G
  <2>1. \A k \in 0..m : k \in G
    BY <1>0, <1>2, <1>4, Q!Climbing
  <2> QED
    BY <1>0, <2>1
<1> QED
  BY <1>1, <1>5

LEMMA FoldStays ==
  ASSUME NEW w, Written(w), NEW r, OpFold(w, r), NEW g \in 0..w.n, r[g] = w.s[g], Stops(w, g)
  PROVE  r[Len(w.seq)] = w.s[g]
<1>0. PICK m \in Nat : g + m = Len(w.seq) /\ g \in Nat
  <2>1. g \in Nat /\ Len(w.seq) \in Nat /\ w.n \in 0..Len(w.seq)
    BY DEF Written
  <2>2. Len(w.seq) - g \in Nat /\ g + (Len(w.seq) - g) = Len(w.seq)
    BY <2>1
  <2> QED
    BY <2>1, <2>2
<1>1. PICK G : G = {k \in 0..m : r[g + k] = w.s[g]}
  OBVIOUS
<1>2. 0 \in G
  BY <1>0, <1>1
<1>3. ASSUME NEW k \in 1..m, k - 1 \in G PROVE k \in G
  <2>1. r[g + (k - 1)] = w.s[g] /\ g + (k - 1) = (g + k) - 1 /\ g + k \in 1..Len(w.seq) /\ k \in 0..m
    BY <1>0, <1>1, <1>3
  <2>2. r[g + k] = FoldStep("op", w.h.size, r[(g + k) - 1], w.seq[g + k])
    BY <2>1 DEF OpFold, Runs
  <2>3. r[g + k] = r[(g + k) - 1]
    BY <2>1, <2>2 DEF FoldStep, Stops
  <2> QED
    BY <1>1, <2>1, <2>3
<1>4. Q!Climbs(G, m)
  BY <1>3 DEF Q!Climbs
<1>5. m \in G
  <2>1. \A k \in 0..m : k \in G
    BY <1>2, <1>4, Q!Climbing
  <2> QED
    BY <2>1
<1> QED
  BY <1>0, <1>1, <1>5

LEMMA GoalIs ==
  ASSUME LzmaAssumption, NEW w, Written(w), Ended(w), Sound(w.h, Meaning(w.h, w.seq))
  PROVE  \E g : Goal(w, g)
<1>1. w.seq \in Seq(Operations) /\ w.n \in 0..Len(w.seq) /\ Len(w.seq) \in Nat
  BY DEF Written
<1>2. PICK r : OpFold(w, r) /\ Meaning(w.h, w.seq) = r[Len(w.seq)]
  <2>1. PICK r : /\ Runs("op", w.h.size, Start(Cap(w)), w.seq, r)
                 /\ Followed(Start(Cap(w)), w.seq, w.h.size) = r[Len(w.seq)]
    BY <1>1, OpRuns
  <2> QED
    BY <2>1 DEF OpFold, Meaning, Cap
<1>3. PICK m : m = r[Len(w.seq)] /\ m = Meaning(w.h, w.seq)
  BY <1>2
<1>4. IF w.h.size < 0 THEN m.state = "eos" ELSE m.state = "go" /\ Len(m.out) = w.h.size
  BY <1>3 DEF Sound
<1>5. w.h.size \in Int
  BY CapIs DEF Written
<1>6. PICK S : S = {j \in 0..w.n : Stops(w, j)}
  OBVIOUS
<1>7. CASE S = {}
  <2>1. \A j \in 0..w.n : ~Stops(w, j)
    BY <1>6, <1>7
  <2>2. w.n \in 0..w.n /\ \A j \in 0..w.n - 1 : ~Stops(w, j)
    BY <1>1, <2>1
  <2>3. ~Stops(w, w.n) /\ w.n = Len(w.seq)
    BY <2>1, <2>2 DEF Ended, Stops
  <2>4. m = w.s[w.n]
    BY <1>2, <1>3, <2>2, <2>3, FoldFollows
  <2> QED
    BY <1>4, <1>5, <2>3, <2>4 DEF Stops
<1>8. CASE S # {}
  <2>1. S \in SUBSET Nat
    BY <1>1, <1>6
  <2>2. PICK g \in S : \A j \in S : g <= j
    BY <1>8, <2>1, Q!HasLeast
  <2>3. g \in 0..w.n /\ Stops(w, g)
    BY <1>6, <2>2
  <2>4. ASSUME NEW j \in 0..g - 1 PROVE ~Stops(w, j)
    <3>1. j \in 0..w.n /\ ~(g <= j)
      BY <1>1, <2>3
    <3> QED
      BY <1>6, <2>2, <3>1
  <2>5. r[g] = w.s[g]
    BY <1>2, <2>3, <2>4, FoldFollows
  <2>6. m = w.s[g]
    BY <1>2, <1>3, <2>3, <2>5, FoldStays
  <2> QED
    BY <1>3, <1>4, <2>3, <2>4, <2>6 DEF Goal
<1> QED
  BY <1>7, <1>8

-----------------------------------------------------------------------------
(* While the stream is written.                                            *)

LEMMA RestIs ==
  ASSUME NEW S, NEW w \in Seq(S), NEW k \in 0..Len(w), NEW r, r = SubSeq(w, k + 1, Len(w))
  PROVE  /\ r = <<>> <=> k = Len(w)
         /\ k < Len(w) => Head(r) = w[k + 1] /\ Tail(r) = SubSeq(w, (k + 1) + 1, Len(w))
<1>1. PICK n \in Nat : n = Len(w)
  OBVIOUS
<1>2. r \in Seq(S) /\ Len(r) = n - k /\ \A i \in 1..n - k : r[i] = w[k + i]
  BY <1>1
<1>3. CASE k = n
  BY <1>1, <1>2, <1>3
<1>4. CASE k < n
  <2>1. r # <<>> /\ Head(r) = w[k + 1]
    <3>1. n - k \in Nat /\ n - k >= 1 /\ 1 \in 1..n - k /\ k \in Nat
      BY <1>1, <1>4
    <3>2. r[1] = w[k + 1]
      BY <1>2, <3>1
    <3>3. r \in Seq(S) /\ Len(r) >= 1
      BY <1>2, <3>1
    <3>4. r # <<>>
      <4>1. Len(<<>>) = 0
        OBVIOUS
      <4> QED
        BY <3>3, <4>1
    <3>5. Head(r) = r[1]
      BY <3>3, <3>4
    <3> QED
      BY <3>2, <3>4, <3>5
  <2>2. Tail(r) = SubSeq(w, (k + 1) + 1, n)
    <3>1. PICK a, z : a = Tail(r) /\ z = SubSeq(w, (k + 1) + 1, n)
      OBVIOUS
    <3>2. a \in Seq(S) /\ Len(a) = (n - k) - 1 /\ \A i \in 1..(n - k) - 1 : a[i] = w[(k + 1) + i]
      <4>1. /\ a \in Seq(S) /\ Len(a) = (n - k) - 1
            /\ \A i \in 1..(n - k) - 1 : a[i] = r[i + 1]
        BY <1>1, <1>2, <2>1, <3>1
      <4>2. ASSUME NEW i \in 1..(n - k) - 1
            PROVE  r[i + 1] = w[(k + 1) + i]
        <5>1. i + 1 \in 1..n - k /\ k + (i + 1) = (k + 1) + i
          BY <1>1, <1>4
        <5> QED
          BY <1>2, <5>1
      <4> QED
        BY <4>1, <4>2
    <3>3. z \in Seq(S) /\ Len(z) = (n - k) - 1 /\ \A i \in 1..(n - k) - 1 : z[i] = w[(k + 1) + i]
      BY <1>1, <1>4, <3>1
    <3>4. a = z
      BY <3>2, <3>3, SeqEqual
    <3> QED
      BY <3>1, <3>4
  <2> QED
    BY <1>1, <1>4, <2>1, <2>2
<1> QED
  BY <1>1, <1>3, <1>4

(* What the stream means, and whether the format allows it.                *)
Meant(w) ==
  /\ src = Meaning(w.h, w.seq).out
  /\ dst.sound = Sound(w.h, Meaning(w.h, w.seq))

(* c decisions are encoded; the encoders were u.                           *)
Encoded(w, u, c) ==
  /\ Written(w) /\ c \in Nat /\ c <= w.at[w.n] /\ Coding(w.ds, u, c)
  /\ dst = [header |-> w.h, ops |-> dst.ops, bits |-> dst.bits, sound |-> dst.sound,
            coder |-> Shifted(u[c]), s |-> w.s[w.n], state |-> w.q[w.n]]
  /\ dst.ops = SubSeq(w.seq, w.n + 1, Len(w.seq))
  /\ Listed(dst.bits, w.at[w.n] - c)
  /\ \A j \in 1..w.at[w.n] - c : dst.bits[j] = w.ds[c + j] /\ dst.bits[j].bit \in {0, 1}

Idle == buf = <<>> /\ out = <<>> /\ err = FALSE

Encodes == pc = "encode" /\ Idle /\ \E w, u, c : Encoded(w, u, c) /\ Meant(w)

LEMMA EncodedIs ==
  ASSUME NEW w, NEW u, NEW c, Encoded(w, u, c)
  PROVE  /\ dst.header = w.h /\ dst.coder = Shifted(u[c]) /\ dst.s = w.s[w.n] /\ dst.state = w.q[w.n]
         /\ w.at[w.n] \in Nat /\ Len(dst.bits) = w.at[w.n] - c
         /\ dst.bits = <<>> <=> c = w.at[w.n]
<1>1. w.n \in 0..w.n
  BY DEF Encoded, Written
<1>2. w.at[w.n] \in Nat
  BY <1>1 DEF Encoded, Written, Placed
<1>3. PICK b, m : b = dst.bits /\ m = w.at[w.n] - c /\ m \in Nat
  BY <1>2 DEF Encoded
<1>4. Listed(b, m)
  BY <1>3 DEF Encoded
<1>5. Len(b) = m
  BY <1>4, ListIs
<1>6. b = <<>> <=> m = 0
  <2>1. m = 0 => b = <<>>
    BY <1>4 DEF Listed
  <2>2. b = <<>> => m = 0
    BY <1>5
  <2> QED
    BY <2>1, <2>2
<1>7. m = 0 <=> c = w.at[w.n]
  BY <1>2, <1>3 DEF Encoded
<1> QED
  BY <1>2, <1>3, <1>5, <1>6, <1>7 DEF Encoded

LEMMA LzmaStarts ==
  ASSUME LzmaAssumption, Init
  PROVE  Encodes
<1>1. PICK st \in Streams : dst = Uncoded(st.header, st.ops) /\ src = Meaning(st.header, st.ops).out
  BY DEF Init
<1>2. st.header \in Headers /\ st.ops \in Seq(Operations)
  BY DEF LzmaAssumption
<1>3. PICK w : /\ Written(w) /\ w.h = st.header /\ w.seq = st.ops /\ w.n = 0
               /\ w.s[0] = Start(Cap(w)) /\ w.q[0] = 0 /\ w.at[0] = 0
  BY <1>2, WrittenNone
<1>4. PICK u : u[0] = Fresh
  <2>1. PICK e : e = Fresh
    OBVIOUS
  <2>2. PICK u : u = [k \in {0} |-> e]
    OBVIOUS
  <2>3. u[0] = e
    BY <2>2
  <2> QED
    BY <2>1, <2>3
<1>5. Coding(w.ds, u, 0)
  BY <1>4 DEF Coding
<1>6. Shifted(u[0]) = Fresh
  BY <1>4, FreshIs DEF Shifted
<1>7. dst = [header |-> w.h, ops |-> w.seq, bits |-> <<>>,
             sound |-> Sound(w.h, Meaning(w.h, w.seq)),
             coder |-> Fresh, s |-> w.s[w.n], state |-> w.q[w.n]]
  BY <1>1, <1>3 DEF Uncoded, Cap
<1>8. /\ dst.ops = w.seq /\ dst.bits = <<>> /\ dst.sound = Sound(w.h, Meaning(w.h, w.seq))
      /\ dst = [header |-> w.h, ops |-> dst.ops, bits |-> dst.bits, sound |-> dst.sound,
                coder |-> Shifted(u[0]), s |-> w.s[w.n], state |-> w.q[w.n]]
  BY <1>6, <1>7
<1>9. w.seq = SubSeq(w.seq, w.n + 1, Len(w.seq))
  BY <1>2, <1>3
<1>10. Listed(<<>>, 0)
  BY NoneFits DEF Fits
<1>11. Encoded(w, u, 0)
  <2>1. w.at[w.n] - 0 = 0 /\ w.at[w.n] = 0 /\ 0 \in Nat
    BY <1>3
  <2> QED
    BY <1>3, <1>5, <1>8, <1>9, <1>10, <2>1 DEF Encoded
<1>12. Meant(w)
  BY <1>1, <1>3, <1>8 DEF Meant
<1> QED
  BY <1>11, <1>12 DEF Init, Encodes, Idle

LEMMA EncodeOpStep ==
  ASSUME LzmaAssumption, Encodes, EncodeOp
  PROVE  Encodes'
<1>1. PICK w, u, c : Encoded(w, u, c) /\ Meant(w)
  BY DEF Encodes
<1>2. dst.bits = <<>> /\ dst.ops # <<>> /\ dst.s.state = "go" /\ pc = "encode"
  BY DEF EncodeOp, Encoding, Complete
<1>3. /\ dst.header = w.h /\ dst.s = w.s[w.n] /\ dst.state = w.q[w.n]
      /\ w.at[w.n] \in Nat /\ c = w.at[w.n]
  BY <1>1, <1>2, EncodedIs
<1>4. w.seq \in Seq(Operations) /\ w.n \in 0..Len(w.seq) /\ Len(w.seq) \in Nat
  BY <1>1 DEF Encoded, Written
<1>5. PICK r : r = dst.ops /\ r = SubSeq(w.seq, w.n + 1, Len(w.seq))
  BY <1>1 DEF Encoded
<1>6. w.n < Len(w.seq) /\ Head(r) = w.seq[w.n + 1] /\ Tail(r) = SubSeq(w.seq, (w.n + 1) + 1, Len(w.seq))
  <2>1. w.n # Len(w.seq)
    BY <1>2, <1>4, <1>5, RestIs
  <2>2. w.n < Len(w.seq)
    BY <1>4, <2>1
  <2> QED
    BY <1>4, <1>5, <2>2, RestIs
<1>7. PICK x : OneMoreOp(w, x)
  BY <1>1, <1>2, <1>3, <1>6, WrittenOn DEF Encoded
<1>8. PICK B : B = OpBits(w.h, w.s[w.n], w.q[w.n], w.seq[w.n + 1])
  OBVIOUS
<1>9. /\ Written(x) /\ x.h = w.h /\ x.seq = w.seq /\ x.n = w.n + 1
      /\ x.s[x.n] = Operated(w.s[w.n], w.seq[w.n + 1])
      /\ x.q[x.n] = StateAfter(w.seq[w.n + 1], w.q[w.n])
      /\ Fits(B, Len(B)) /\ x.at[x.n] = w.at[w.n] + Len(B)
      /\ \A j \in 1..w.at[w.n] : x.ds[j] = w.ds[j]
      /\ \A j \in 1..Len(B) : x.ds[w.at[w.n] + j] = B[j]
  BY <1>7, <1>8 DEF OneMoreOp
<1>10. dst' = [dst EXCEPT !.ops = Tail(r), !.s = x.s[x.n], !.state = x.q[x.n], !.bits = B]
  <2>1. Head(dst.ops) = w.seq[w.n + 1]
    BY <1>5, <1>6
  <2>2. dst' = [dst EXCEPT !.ops = Tail(@), !.s = Operated(@, w.seq[w.n + 1]),
                           !.state = StateAfter(w.seq[w.n + 1], @),
                           !.bits = OpBits(dst.header, dst.s, dst.state, w.seq[w.n + 1])]
    BY <2>1 DEF EncodeOp
  <2> QED
    BY <1>3, <1>5, <1>8, <1>9, <2>2
<1>11. dst' = [header |-> w.h, ops |-> Tail(r), bits |-> B, sound |-> dst.sound,
               coder |-> Shifted(u[c]), s |-> x.s[x.n], state |-> x.q[x.n]]
  <2>1. PICK e : e = Shifted(u[c])
    OBVIOUS
  <2>2. dst = [header |-> w.h, ops |-> dst.ops, bits |-> dst.bits, sound |-> dst.sound,
               coder |-> e, s |-> w.s[w.n], state |-> w.q[w.n]]
    BY <1>1, <2>1 DEF Encoded
  <2>3. PICK h, b, p, f, s, q : dst = [header |-> h, ops |-> b, bits |-> p, sound |-> f,
                                       coder |-> e, s |-> s, state |-> q]
                                 /\ h = w.h /\ f = dst.sound
    BY <2>2
  <2>4. PICK z, y, v : z = x.s[x.n] /\ y = x.q[x.n] /\ v = Tail(r)
    OBVIOUS
  <2>5. dst' = [dst EXCEPT !.ops = v, !.s = z, !.state = y, !.bits = B]
    BY <1>10, <2>4
  <2>6. dst' = [header |-> h, ops |-> v, bits |-> B, sound |-> f, coder |-> e, s |-> z, state |-> y]
    BY <2>3, <2>5
  <2> QED
    BY <2>1, <2>3, <2>4, <2>6
<1>12. dst'.ops = Tail(r) /\ dst'.bits = B /\ dst'.sound = dst.sound
  BY <1>11
<1>13. Len(B) \in Nat /\ Listed(B, Len(B)) /\ \A j \in 1..Len(B) : B[j].bit \in {0, 1}
  BY <1>9 DEF Fits, Listed
<1>14. Coding(x.ds, u, c)
  <2>1. Coding(w.ds, u, c)
    BY <1>1 DEF Encoded
  <2> QED
    BY <1>3, <1>9, <2>1 DEF Coding
<1>15. x.at[x.n] - c = Len(B) /\ c <= x.at[x.n] /\ c \in Nat
  BY <1>3, <1>9, <1>13
<1>16. Encoded(x, u, c)'
  BY <1>3, <1>6, <1>9, <1>11, <1>12, <1>13, <1>14, <1>15 DEF Encoded
<1>17. Meant(x)'
  <2>1. src' = src
    BY DEF EncodeOp
  <2> QED
    BY <1>1, <1>9, <1>12, <2>1 DEF Meant
<1>18. (pc = "encode" /\ Idle)'
  BY <1>2 DEF EncodeOp, Idle, Encodes
<1> QED
  BY <1>16, <1>17, <1>18 DEF Encodes

-----------------------------------------------------------------------------
(* The next decision is encoded.                                           *)
LEMMA ListRest ==
  ASSUME NEW b, NEW m, Listed(b, m), m >= 1
  PROVE  /\ Head(b) = b[1] /\ Listed(Tail(b), m - 1)
         /\ \A j \in 1..m - 1 : Tail(b)[j] = b[j + 1]
<1>1. m \in Nat /\ Len(b) = m
  BY ListIs DEF Listed
<1>2. PICK S : S = {b[i] : i \in 1..m}
  OBVIOUS
<1>3. b \in Seq(S)
  <2>1. \A i \in 1..m : b[i] \in S
    BY <1>2
  <2> QED
    BY <2>1, ListIs
<1>4. b # <<>>
  <2>1. Len(<<>>) = 0
    OBVIOUS
  <2> QED
    BY <1>1, <2>1
<1>5. Head(b) = b[1]
  BY <1>3, <1>4
<1>6. PICK r : r = Tail(b)
  OBVIOUS
<1>7. r \in Seq(S) /\ Len(r) = m - 1
  BY <1>1, <1>3, <1>4, <1>6
<1>8. \A j \in 1..m - 1 : r[j] = b[j + 1]
  BY <1>1, <1>3, <1>4, <1>6
<1>9. r = [j \in 1..m - 1 |-> r[j]]
  BY <1>7
<1>10. Listed(r, m - 1)
  BY <1>1, <1>9 DEF Listed
<1> QED
  BY <1>5, <1>6, <1>8, <1>10

LEMMA CodingOn ==
  ASSUME LzmaAssumption, NEW ds, NEW u, NEW c \in Nat, Coding(ds, u, c), ds[c + 1].bit \in {0, 1}
  PROVE  \E x : Coding(ds, x, c + 1) /\ Shifted(x[c + 1]) = Encode(Shifted(u[c]), ds[c + 1])
<1>1. PICK e, d : e = Shifted(u[c]) /\ d = ds[c + 1]
  OBVIOUS
<1>2. PICK v : v = Narrowed(e, d)
  OBVIOUS
<1>3. PICK x : x = [k \in Nat |-> IF k <= c THEN u[k] ELSE v]
  OBVIOUS
<1>4. (\A k \in 0..c : x[k] = u[k]) /\ x[c + 1] = v
  BY <1>3
<1>5. Encode(e, d) = Shifted(v)
  <2>1. ShiftedTo(u[c], e)
    <3>1. c \in 0..c
      OBVIOUS
    <3> QED
      BY <1>1, <3>1, CodingIs
  <2>2. Coder(e) /\ e.rng >= Top
    BY <2>1 DEF ShiftedTo
  <2> QED
    BY <1>1, <1>2, <2>2, EncodeIs
<1>6. Coding(ds, x, c + 1)
  <2>1. x[0] = Fresh
    <3>1. 0 \in 0..c
      OBVIOUS
    <3> QED
      BY <1>4, <3>1 DEF Coding
  <2>2. ASSUME NEW k \in 1..c + 1
        PROVE  ds[k].bit \in {0, 1} /\ x[k] = Narrowed(Shifted(x[k - 1]), ds[k])
    <3>1. CASE k \in 1..c
      <4>1. k \in 0..c /\ k - 1 \in 0..c
        BY <3>1
      <4>2. ds[k].bit \in {0, 1} /\ u[k] = Narrowed(Shifted(u[k - 1]), ds[k])
        BY <3>1 DEF Coding
      <4> QED
        BY <1>4, <4>1, <4>2
    <3>2. CASE k = c + 1
      <4>1. k - 1 = c /\ c \in 0..c
        BY <3>2
      <4> QED
        BY <1>1, <1>2, <1>4, <3>2, <4>1
    <3> QED
      BY <3>1, <3>2
  <2> QED
    BY <2>1, <2>2 DEF Coding
<1>7. Shifted(x[c + 1]) = Encode(Shifted(u[c]), ds[c + 1])
  BY <1>1, <1>4, <1>5
<1> QED
  BY <1>6, <1>7

LEMMA EncodeNextStep ==
  ASSUME LzmaAssumption, Encodes, EncodeNext
  PROVE  Encodes'
<1>1. PICK w, u, c : Encoded(w, u, c) /\ Meant(w)
  BY DEF Encodes
<1>2. dst.bits # <<>> /\ pc = "encode"
  BY DEF EncodeNext
<1>3. PICK a \in Nat : a = w.at[w.n]
  BY <1>1, EncodedIs
<1>4. c \in Nat /\ c <= a /\ c # a
  BY <1>1, <1>2, <1>3, EncodedIs DEF Encoded
<1>5. PICK b : b = dst.bits
  OBVIOUS
<1>6. /\ Listed(b, a - c)
      /\ \A j \in 1..a - c : b[j] = w.ds[c + j] /\ b[j].bit \in {0, 1}
  BY <1>1, <1>3, <1>5 DEF Encoded
<1>7. a - c \in Nat /\ a - c >= 1 /\ 1 \in 1..a - c
  BY <1>4
<1>8. Head(b) = w.ds[c + 1] /\ w.ds[c + 1].bit \in {0, 1}
  BY <1>6, <1>7, ListRest
<1>9. PICK x : Coding(w.ds, x, c + 1)
                /\ Shifted(x[c + 1]) = Encode(Shifted(u[c]), w.ds[c + 1])
  <2>1. Coding(w.ds, u, c)
    BY <1>1 DEF Encoded
  <2> QED
    BY <1>4, <1>8, <2>1, CodingOn
<1>10. /\ Listed(Tail(b), a - (c + 1))
       /\ \A j \in 1..a - (c + 1) : Tail(b)[j] = w.ds[(c + 1) + j] /\ Tail(b)[j].bit \in {0, 1}
  <2>1. PICK v : v = Tail(b)
    OBVIOUS
  <2>2. Listed(v, (a - c) - 1) /\ \A j \in 1..(a - c) - 1 : v[j] = b[j + 1]
    BY <1>6, <1>7, <2>1, ListRest
  <2>3. (a - c) - 1 = a - (c + 1)
    BY <1>4
  <2>4. ASSUME NEW j \in 1..a - (c + 1)
        PROVE  v[j] = w.ds[(c + 1) + j] /\ v[j].bit \in {0, 1}
    <3>1. j + 1 \in 1..a - c /\ c + (j + 1) = (c + 1) + j
      BY <1>4
    <3>2. v[j] = b[j + 1]
      BY <2>2, <2>3
    <3> QED
      BY <1>6, <3>1, <3>2
  <2> QED
    BY <2>1, <2>2, <2>3, <2>4
<1>11. PICK e, f, v : e = Shifted(u[c]) /\ f = Shifted(x[c + 1]) /\ v = Tail(b)
  OBVIOUS
<1>12. PICK h, o, g, s, q : /\ dst = [header |-> h, ops |-> o, bits |-> b, sound |-> g,
                                      coder |-> e, s |-> s, state |-> q]
                            /\ h = w.h /\ o = dst.ops /\ g = dst.sound /\ s = w.s[w.n] /\ q = w.q[w.n]
  BY <1>1, <1>5, <1>11 DEF Encoded
<1>13. dst' = [dst EXCEPT !.coder = f, !.bits = v]
  <2>1. dst.coder = e
    BY <1>12
  <2>2. Encode(dst.coder, Head(dst.bits)) = f
    BY <1>5, <1>8, <1>9, <1>11, <2>1
  <2> QED
    BY <1>5, <1>11, <2>2 DEF EncodeNext
<1>14. dst' = [header |-> h, ops |-> o, bits |-> v, sound |-> g, coder |-> f, s |-> s, state |-> q]
  BY <1>12, <1>13
<1>15. dst'.ops = o /\ dst'.bits = v /\ dst'.sound = g
  BY <1>14
<1>16. c + 1 \in Nat /\ c + 1 <= a
  BY <1>4
<1>17. Encoded(w, x, c + 1)'
  <2>1. dst' = [header |-> w.h, ops |-> dst'.ops, bits |-> dst'.bits, sound |-> dst'.sound,
                coder |-> Shifted(x[c + 1]), s |-> w.s[w.n], state |-> w.q[w.n]]
    BY <1>11, <1>12, <1>14, <1>15
  <2>2. Written(w) /\ dst'.ops = SubSeq(w.seq, w.n + 1, Len(w.seq))
    BY <1>1, <1>12, <1>15 DEF Encoded
  <2>3. Listed(dst'.bits, w.at[w.n] - (c + 1))
    BY <1>3, <1>10, <1>11, <1>15
  <2>4. \A j \in 1..w.at[w.n] - (c + 1) : dst'.bits[j] = w.ds[(c + 1) + j] /\ dst'.bits[j].bit \in {0, 1}
    BY <1>3, <1>10, <1>11, <1>15
  <2> QED
    BY <1>3, <1>9, <1>16, <2>1, <2>2, <2>3, <2>4 DEF Encoded
<1>18. Meant(w)'
  <2>1. src' = src
    BY DEF EncodeNext
  <2> QED
    BY <1>1, <1>12, <1>15, <2>1 DEF Meant
<1>19. (pc = "encode" /\ Idle)'
  BY <1>2 DEF EncodeNext, Idle, Encodes
<1> QED
  BY <1>17, <1>18, <1>19 DEF Encodes

-----------------------------------------------------------------------------
(* All is written: t is the tape with the decisions of w.                  *)
Sealed(t, w) == Tape(t) /\ Written(w) /\ Ended(w) /\ t.ds = w.ds /\ t.m = w.at[w.n]

Stored(t, w) == Sealed(t, w) /\ Meant(w) /\ dst = [header |-> w.h, bytes |-> t.all, sound |-> dst.sound]

LEMMA EndStreamStep ==
  ASSUME LzmaAssumption, Encodes, EndStream
  PROVE  (pc = "deliver" /\ Idle /\ \E t, w : Stored(t, w))'
<1>1. PICK w, u, c : Encoded(w, u, c) /\ Meant(w)
  BY DEF Encodes
<1>2. dst.bits = <<>> /\ (dst.ops = <<>> \/ dst.s.state # "go") /\ pc' = "deliver"
  BY DEF EndStream, Encoding, Complete
<1>3. /\ dst.header = w.h /\ dst.coder = Shifted(u[c]) /\ dst.s = w.s[w.n]
      /\ w.at[w.n] \in Nat /\ c = w.at[w.n]
  BY <1>1, <1>2, EncodedIs
<1>4. Ended(w)
  <2>1. CASE dst.ops = <<>>
    <3>1. w.seq \in Seq(Operations) /\ w.n \in 0..Len(w.seq) /\ dst.ops = SubSeq(w.seq, w.n + 1, Len(w.seq))
      BY <1>1 DEF Encoded, Written
    <3>2. w.n = Len(w.seq)
      BY <2>1, <3>1, RestIs
    <3> QED
      BY <3>2 DEF Ended
  <2>2. CASE dst.s.state # "go"
    BY <1>3, <2>2 DEF Ended
  <2> QED
    BY <1>2, <2>1, <2>2
<1>5. PICK all : all = Flushed(Shifted(u[c]))
  OBVIOUS
<1>6. Coding(w.ds, u, c) /\ c \in Nat
  BY <1>1 DEF Encoded
<1>7. all \in Octets
  BY <1>5, <1>6, CodingInside
<1>8. PICK t : t = [ds |-> w.ds, u |-> u, m |-> c, all |-> all, n |-> Len(all)]
  OBVIOUS
<1>9. t.ds = w.ds /\ t.u = u /\ t.m = c /\ t.all = all /\ t.n = Len(all)
  BY <1>8
<1>10. Tape(t)
  <2>1. Len(all) \in 0..Len(all)
    BY <1>7
  <2> QED
    BY <1>5, <1>6, <1>9, <2>1 DEF Tape
<1>11. Sealed(t, w)
  BY <1>1, <1>3, <1>4, <1>9, <1>10 DEF Sealed, Encoded
<1>12. dst' = [header |-> w.h, bytes |-> t.all, sound |-> dst.sound]
  BY <1>3, <1>5, <1>9 DEF EndStream
<1>13. dst'.sound = dst.sound
  BY <1>12
<1>14. Meant(w)' /\ Idle'
  <2>1. src' = src /\ UNCHANGED <<buf, out, err>>
    BY DEF EndStream
  <2> QED
    BY <1>1, <1>13, <2>1 DEF Meant, Idle, Encodes
<1>15. Stored(t, w)'
  BY <1>11, <1>12, <1>13, <1>14 DEF Stored
<1> QED
  BY <1>2, <1>14, <1>15

-----------------------------------------------------------------------------
(* What comes back: the beginning of what was stored, or what no reader    *)
(* begins with.                                                            *)
Came(t, w) == in = [header |-> w.h, bytes |-> SubSeq(t.all, 1, t.n), sound |-> dst.sound]

Spoilt(w) == in # dst /\ (in = Torn \/ (in.header = w.h /\ ~CanBegin(in.bytes)))

Failed == pc = "done" /\ out = <<>> /\ err = TRUE /\ in # dst

LEMMA CameIs ==
  ASSUME LzmaAssumption, NEW t, NEW w, Stored(t, w), Came(t, w)
  PROVE  /\ in # Torn /\ in.header = w.h /\ in.bytes = SubSeq(t.all, 1, t.n)
         /\ t.n < Len(t.all) => in # dst
<1>1. in.header = w.h /\ in.bytes = SubSeq(t.all, 1, t.n) /\ "bytes" \in DOMAIN in
  BY DEF Came
<1>2. "bytes" \notin DOMAIN Torn
  BY DEF Torn
<1>3. dst.bytes = t.all
  BY DEF Stored
<1>4. t.n < Len(t.all) => in.bytes # dst.bytes
  <2>1. t.all \in Octets /\ t.n \in Nat /\ t.n <= Len(t.all)
    BY TapeIs DEF Stored, Sealed
  <2>2. PICK b : b = SubSeq(t.all, 1, t.n)
    OBVIOUS
  <2>3. Len(b) = t.n
    BY <2>1, <2>2, OctetsAre
  <2>4. t.n < Len(t.all) => b # t.all
    BY <2>1, <2>3
  <2> QED
    BY <1>1, <1>3, <2>2, <2>4
<1> QED
  BY <1>1, <1>2, <1>4

(* Of a tape only so much.                                                 *)
LEMMA TapeCut ==
  ASSUME NEW t, NEW w, Sealed(t, w), NEW n \in 0..Len(t.all)
  PROVE  \E x : Sealed(x, w) /\ x.all = t.all /\ x.n = n
<1>1. PICK x : x = [ds |-> t.ds, u |-> t.u, m |-> t.m, all |-> t.all, n |-> n]
  OBVIOUS
<1>2. x.ds = t.ds /\ x.u = t.u /\ x.m = t.m /\ x.all = t.all /\ x.n = n
  BY <1>1
<1>3. Tape(x)
  BY <1>2 DEF Sealed, Tape
<1> QED
  BY <1>2, <1>3 DEF Sealed

LEMMA WholeBegins ==
  ASSUME LzmaAssumption, NEW t, NEW w, Sealed(t, w)
  PROVE  t.all \in Octets /\ Len(t.all) \in Nat /\ CanBegin(t.all)
<1>1. t.all \in Octets /\ Len(t.all) \in Nat
  BY TapeIs DEF Sealed
<1>2. Len(t.all) \in 0..Len(t.all)
  BY <1>1
<1>3. PICK x : Sealed(x, w) /\ x.all = t.all /\ x.n = Len(t.all)
  BY <1>2, TapeCut
<1>4. t.all = SubSeq(x.all, 1, x.n)
  BY <1>1, <1>3, OctetsAre
<1>5. Begun(x, t.all)
  BY <1>3, <1>4, BeginIs DEF Sealed
<1> QED
  BY <1>1, <1>3, <1>5 DEF Begun

Arrived == Idle /\ \E t, w : Stored(t, w) /\ (Came(t, w) \/ Spoilt(w))

LEMMA DeliverStep ==
  ASSUME LzmaAssumption, pc = "deliver", Idle, NEW t, NEW w, Stored(t, w), Deliver
  PROVE  (pc = "header" /\ Arrived)'
<1>1. pc' = "header" /\ UNCHANGED <<src, dst, rc, dec, limit, buf, out, err>> /\ Idle'
  BY DEF Deliver, Idle
<1>2. /\ Sealed(t, w) /\ t.all \in Octets /\ Len(t.all) \in Nat /\ CanBegin(t.all)
      /\ dst = [header |-> w.h, bytes |-> t.all, sound |-> dst.sound]
  BY WholeBegins DEF Stored
<1>3. PICK h, b, f : h = w.h /\ b = t.all /\ f = dst.sound /\ dst = [header |-> h, bytes |-> b, sound |-> f]
  BY <1>2
<1>4. ASSUME NEW n \in 0..Len(t.all), in' = [header |-> w.h, bytes |-> SubSeq(t.all, 1, n), sound |-> dst.sound]
      PROVE  Arrived'
  <2>1. PICK x : Sealed(x, w) /\ x.all = t.all /\ x.n = n
    BY <1>2, TapeCut
  <2>2. Stored(x, w)'
    BY <1>1, <1>2, <2>1 DEF Stored, Meant
  <2>3. Came(x, w)'
    BY <1>1, <1>4, <2>1 DEF Came
  <2> QED
    BY <1>1, <2>2, <2>3 DEF Arrived
<1>5. ASSUME Spoilt(w)'
      PROVE  Arrived'
  <2>1. Stored(t, w)'
    BY <1>1, <1>2 DEF Stored, Meant
  <2> QED
    BY <1>1, <1>5, <2>1 DEF Arrived
<1>6. CASE in' = dst
  <2>1. t.all = SubSeq(t.all, 1, Len(t.all)) /\ Len(t.all) \in 0..Len(t.all)
    BY <1>2, OctetsAre
  <2> QED
    BY <1>2, <1>4, <1>6, <2>1, <1>1
<1>7. CASE in' = Torn
  <2>1. dst # Torn
    <3>1. "bytes" \in DOMAIN dst
      BY <1>3
    <3>2. "bytes" \notin DOMAIN Torn
      BY DEF Torn
    <3> QED
      BY <3>1, <3>2
  <2>2. Spoilt(w)'
    <3>1. PICK v : v = Torn
      OBVIOUS
    <3>2. in' # dst' /\ in' = v
      BY <1>1, <1>7, <2>1, <3>1
    <3>3. v = [header |-> "torn"]
      BY <3>1 DEF Torn
    <3> QED
      BY <3>2, <3>3 DEF Spoilt, Torn
  <2> QED
    BY <1>1, <1>5, <2>2
<1>8. CASE \E n \in 0..Len(dst.bytes) - 1 : in' = [dst EXCEPT !.bytes = SubSeq(@, 1, n)]
  <2>1. dst.bytes = b
    BY <1>3
  <2>2. PICK n \in 0..Len(b) - 1 : in' = [dst EXCEPT !.bytes = SubSeq(b, 1, n)]
    BY <1>8, <2>1
  <2>3. in' = [header |-> h, bytes |-> SubSeq(b, 1, n), sound |-> f]
    <3>1. PICK v : v = SubSeq(b, 1, n)
      OBVIOUS
    <3>2. in' = [dst EXCEPT !.bytes = v]
      BY <2>2, <3>1
    <3>3. in' = [header |-> h, bytes |-> v, sound |-> f]
      BY <1>3, <3>2
    <3> QED
      BY <3>1, <3>3
  <2>4. n \in 0..Len(b)
    BY <1>2, <1>3
  <2> QED
    BY <1>1, <1>3, <1>4, <2>3, <2>4
<1>9. CASE \E first \in {<<1>>, <<0>> \o [i \in 1..RangeBytes |-> 255]} :
             in' = [dst EXCEPT !.bytes = first \o SubSeq(@, Len(first) + 1, Len(@))]
  <2>1. dst.bytes = b
    BY <1>3
  <2>2. PICK first \in {<<1>>, <<0>> \o [i \in 1..RangeBytes |-> 255]} :
               in' = [dst EXCEPT !.bytes = first \o SubSeq(b, Len(first) + 1, Len(b))]
    BY <1>9, <2>1
  <2>3. PICK rest : rest = SubSeq(b, Len(first) + 1, Len(b))
    OBVIOUS
  <2>4. rest \in Octets
    <3>1. Len(first) \in Nat
      <4>1. RangeBytes \in {3, 4}
        BY DEF LzmaAssumption
      <4>2. CASE first = <<1>>
        BY <4>2
      <4>3. CASE first = <<0>> \o [i \in 1..RangeBytes |-> 255]
        <5>1. PICK v : v = [i \in 1..RangeBytes |-> 255]
          OBVIOUS
        <5>2. v \in Seq(Int) /\ <<0>> \in Seq(Int)
          BY <4>1, <5>1
        <5>3. first = <<0>> \o v
          BY <4>3, <5>1
        <5>4. first \in Seq(Int)
          BY <5>2, <5>3
        <5> QED
          BY <5>4
      <4> QED
        BY <4>2, <4>3
    <3>2. b \in Seq(Byte)
      BY <1>2, <1>3 DEF Octets
    <3>3. Len(first) + 1 \in Nat /\ Len(first) + 1 >= 1 /\ Len(b) \in Nat
      BY <1>2, <1>3, <3>1
    <3>4. SubSeq(b, Len(first) + 1, Len(b)) \in Seq(Byte)
      BY <3>2, <3>3
    <3> QED
      BY <2>3, <3>4 DEF Octets
  <2>5. ~CanBegin(first \o rest)
    BY <2>4, DamagedIs
  <2>6. PICK v : v = first \o rest
    OBVIOUS
  <2>7. in' = [header |-> h, bytes |-> v, sound |-> f]
    <3>1. in' = [dst EXCEPT !.bytes = v]
      BY <2>2, <2>3, <2>6
    <3> QED
      BY <1>3, <3>1
  <2>8. in'.header = h /\ in'.bytes = v
    BY <2>7
  <2>9. v # b
    BY <1>2, <1>3, <2>5, <2>6
  <2>10. in' # dst
    BY <2>1, <2>8, <2>9
  <2>11. Spoilt(w)'
    BY <1>1, <1>3, <2>5, <2>6, <2>8, <2>10 DEF Spoilt
  <2> QED
    BY <1>1, <1>5, <2>11
<1> QED
  BY <1>1, <1>6, <1>7, <1>8, <1>9 DEF Deliver

-----------------------------------------------------------------------------
(* The reader begins.                                                      *)
Ready(w) == in # Torn /\ dec = NewDec(Cap(w)) /\ limit = w.h.size

Opened == Idle /\ \E t, w : Stored(t, w) /\ (Came(t, w) \/ Spoilt(w)) /\ Ready(w)

LEMMA StoredSound ==
  ASSUME LzmaAssumption, NEW t, NEW w, Stored(t, w), dst.sound
  PROVE  w.h.pb <= 4 /\ \E g : Goal(w, g) /\ src = w.s[g].out
<1>1. Sound(w.h, Meaning(w.h, w.seq)) /\ Written(w) /\ Ended(w)
  BY DEF Stored, Sealed, Meant
<1>2. PICK g : Goal(w, g)
  BY <1>1, GoalIs
<1>3. src = w.s[g].out
  BY <1>2 DEF Stored, Meant, Goal
<1>4. w.h.pb <= 4
  BY <1>1 DEF Sound
<1> QED
  BY <1>2, <1>3, <1>4

LEMMA ReadHeaderStep ==
  ASSUME LzmaAssumption, Arrived, dst.sound, ReadHeader
  PROVE  Failed' \/ (pc = "range" /\ Opened)'
<1>1. PICK t, w : Stored(t, w) /\ (Came(t, w) \/ Spoilt(w))
  BY DEF Arrived
<1>2. CASE in = Torn
  <2>1. in # dst
    BY <1>1, <1>2, CameIs DEF Spoilt
  <2>2. Fail
    BY <1>2 DEF ReadHeader
  <2> QED
    BY <2>1, <2>2 DEF Fail, Failed, Arrived, Idle
<1>3. CASE in # Torn
  <2>1. in.header = w.h
    BY <1>1, <1>3, CameIs DEF Spoilt
  <2>2. w.h.pb <= 4 /\ w.h.pb \in Int
    <3>1. w.h \in Headers
      BY <1>1 DEF Stored, Sealed, Written
    <3> QED
      BY <1>1, <3>1, StoredSound, CapIs
  <2>3. ~(w.h.pb > 4)
    BY <2>2
  <2>4. ~(in = Torn \/ (in # Torn /\ Header.pb > 4))
    BY <1>3, <2>1, <2>3 DEF Header
  <2>5. /\ dec' = NewDec(Capacity(Header)) /\ limit' = Header.size /\ pc' = "range"
        /\ UNCHANGED <<src, dst, in, rc, buf, out, err>>
    BY <2>4 DEF ReadHeader
  <2>6. dec' = NewDec(Cap(w)) /\ limit' = w.h.size
    BY <2>1, <2>5 DEF Header, Cap
  <2>7. Ready(w)'
    <3>1. PICK v : v = Torn
      OBVIOUS
    <3>2. in' # v
      BY <1>3, <2>5, <3>1
    <3>3. v = [header |-> "torn"]
      BY <3>1 DEF Torn
    <3>4. (in # Torn)'
      BY <3>2, <3>3 DEF Torn
    <3>5. PICK e : e = NewDec(Cap(w))
      OBVIOUS
    <3>6. (dec = NewDec(Cap(w)))'
      BY <2>6 DEF Cap, NewDec, Capacity
    <3> QED
      BY <2>6, <3>4, <3>6 DEF Ready
  <2>8. Stored(t, w)' /\ Idle'
    BY <1>1, <2>5 DEF Stored, Meant, Arrived, Idle
  <2>9. (Came(t, w) \/ Spoilt(w))'
    BY <1>1, <2>5 DEF Came, Spoilt, Torn
  <2> QED
    BY <2>5, <2>7, <2>8, <2>9 DEF Opened
<1> QED
  BY <1>2, <1>3

(* Operations are decoded.  i of them were, and k decisions; the ring and  *)
(* what is in the buffer are what they mean.                               *)
Where(t, w, i, k) ==
  /\ rc = [coder |-> rc.coder, state |-> w.q[i]]
  /\ Reads(t, rc.coder, k) /\ rc.coder.ok
  /\ buf = w.s[i].out /\ limit = w.h.size /\ out = <<>> /\ err = FALSE

Working(t, w, g) == Stored(t, w) /\ Came(t, w) /\ Goal(w, g) /\ src = w.s[g].out

Between(t, w, g, i) ==
  /\ i \in 0..g /\ w.s[i].state = "go" /\ Where(t, w, i, w.at[i])
  /\ Q!Follows(Cap(w), dec, w.s[i])

Decodes == pc = "decode" /\ \E t, w, g, i : Working(t, w, g) /\ Between(t, w, g, i)

LEMMA NewRangeDecoderStep ==
  ASSUME LzmaAssumption, Opened, dst.sound, NewRangeDecoder
  PROVE  Failed' \/ Decodes'
<1>1. PICK t, w : Stored(t, w) /\ (Came(t, w) \/ Spoilt(w)) /\ Ready(w)
  BY DEF Opened
<1>2. buf = <<>> /\ out = <<>> /\ err = FALSE
  BY DEF Opened, Idle
<1>3. Came(t, w) => Begun(t, in.bytes)
  <2>1. Tape(t)
    BY <1>1 DEF Stored, Sealed
  <2> QED
    BY <1>1, <2>1, CameIs, BeginIs
<1>4. CASE ~CanBegin(in.bytes)
  <2>1. in # dst
    <3>1. CASE Came(t, w)
      BY <1>1, <1>3, <1>4, <3>1, CameIs DEF Begun
    <3>2. CASE Spoilt(w)
      BY <3>2 DEF Spoilt
    <3> QED
      BY <1>1, <3>1, <3>2
  <2>2. Fail
    BY <1>4 DEF NewRangeDecoder
  <2> QED
    BY <1>2, <2>1, <2>2 DEF Fail, Failed
<1>5. CASE CanBegin(in.bytes)
  <2>1. Came(t, w)
    BY <1>1, <1>5 DEF Spoilt, Ready
  <2>2. /\ rc' = [coder |-> Initial(in.bytes), state |-> 0] /\ pc' = "decode"
        /\ UNCHANGED <<src, dst, in, dec, limit, buf, out, err>>
    BY <1>5 DEF NewRangeDecoder
  <2>3. PICK e : e = Initial(in.bytes)
    OBVIOUS
  <2>4. Reads(t, e, 0) /\ e.ok
    BY <1>3, <1>5, <2>1, <2>3 DEF Begun, Initial
  <2>5. PICK g : Goal(w, g) /\ src = w.s[g].out
    BY <1>1, StoredSound
  <2>6. /\ w.s[0] = Q!Start(Cap(w)) /\ w.q[0] = 0 /\ w.at[0] = 0 /\ Cap(w) \in Nat \ {0}
    BY <1>1, LzmaNewDec, CapIs DEF Stored, Sealed, Written
  <2>7. w.s[0].hist = <<>> /\ w.s[0].out = <<>> /\ w.s[0].state = "go" /\ w.s[0].reps = <<0, 0, 0, 0>>
    BY <2>6 DEF Q!Start
  <2>8. Q!Follows(Cap(w), dec, w.s[0])
    <3>1. dec = Q!NewDec(Cap(w))
      BY <1>1, LzmaNewDec DEF Ready
    <3>2. Q!Ring(Cap(w), Q!NewDec(Cap(w)), <<>>) /\ Q!NewDec(Cap(w)).reps = <<0, 0, 0, 0>>
      BY <2>6, Q!NewRing
    <3> QED
      BY <2>7, <3>1, <3>2 DEF Q!Follows
  <2>9. rc'.coder = e /\ rc' = [coder |-> rc'.coder, state |-> w.q[0]]
    BY <2>2, <2>3, <2>6
  <2>10. Where(t, w, 0, w.at[0])'
    BY <1>1, <1>2, <2>2, <2>4, <2>6, <2>7, <2>9 DEF Where, Ready
  <2>11. 0 \in 0..g
    BY <2>5 DEF Goal
  <2>12. Between(t, w, g, 0)'
    <3>1. dec' = dec
      BY <2>2
    <3>2. Q!Follows(Cap(w), dec', w.s[0])
      BY <2>8, <3>1
    <3> QED
      BY <2>7, <2>10, <2>11, <3>2 DEF Between
  <2>13. Working(t, w, g)'
    BY <1>1, <2>1, <2>2, <2>5 DEF Working, Stored, Meant, Came
  <2> QED
    BY <2>2, <2>12, <2>13 DEF Decodes
<1> QED
  BY <1>4, <1>5

-----------------------------------------------------------------------------
(* What is told of the next operation, o.                                  *)
DistOf(o) == IF o.op = "eos" THEN -1 ELSE o.dist

LenOf(o) == IF o.op = "eos" THEN 2 ELSE o.len

OpTold(t, k, h, s, q, o) ==
  /\ o.op = "literal" => LiteralTold(t, k, h, s, q, o)
  /\ o.op \in {"match", "eos"} =>
       /\ DistOf(o) \in Distances /\ LenOf(o) \in 2..273
       /\ MatchTold(t, k, h, s, q, DistOf(o), LenOf(o))
  /\ o.op = "rep" => RepTold(t, k, h, s, q, First(o)) /\ RepRest(t, k, h, s, q, o)

OpSize(o) ==
  CASE o.op = "literal" -> 9
    [] o.op \in {"match", "eos"} -> 2 + (LengthSize(LenOf(o) - 2) + (6 + RestSize(DistOf(o))))
    [] o.op = "rep" -> RepSize(o)

LEMMA OpTells ==
  ASSUME NEW h, NEW s, NEW q, NEW o \in Operations,
         NEW B, B = OpBits(h, s, q, o), NEW t, t.m \in Nat, NEW k, Told(t, k, B)
  PROVE  OpTold(t, k, h, s, q, o) /\ Len(B) = OpSize(o)
<1>1. /\ o.op \in {"literal", "match", "rep", "eos"}
      /\ o.op = "literal" => o.byte \in Byte
      /\ o.op = "match" => o.dist \in 0..(2^30 - 1) + 2^30 /\ o.len \in 2..273
  BY LzmaOpIs
<1>2. CASE o.op = "literal"
  <2>1. Len(B) = 9 /\ LiteralTold(t, k, h, s, q, o)
    BY <1>1, <1>2, LiteralOp
  <2> QED
    BY <1>2, <2>1 DEF OpTold, OpSize
<1>3. CASE o.op \in {"match", "eos"}
  <2>1. PICK dist, len : dist = DistOf(o) /\ len = LenOf(o)
    OBVIOUS
  <2>2. dist \in Distances
    <3>1. CASE o.op = "eos"
      BY <2>1, <3>1, Zenon DEF DistOf, Distances
    <3>2. CASE o.op = "match"
      <4>1. dist \in 0..(2^30 - 1) + 2^30
        <5>1. dist = o.dist
          BY <2>1, <3>2 DEF DistOf
        <5> QED
          BY <1>1, <3>2, <5>1, Zenon
      <4> QED
        BY <4>1, Zenon DEF Distances
    <3> QED
      BY <1>3, <3>1, <3>2
  <2>3. len \in 2..273
    <3>1. CASE o.op = "eos"
      BY <2>1, <3>1 DEF LenOf
    <3>2. CASE o.op = "match"
      <4>1. len = o.len
        BY <2>1, <3>2 DEF LenOf
      <4> QED
        BY <1>1, <3>2, <4>1, Zenon
    <3> QED
      BY <1>3, <3>1, <3>2
  <2>4. B = MatchBits(h, s, q, dist, len)
    BY <1>3, <2>1, MatchOpBits DEF DistOf, LenOf
  <2>5. Len(B) = 2 + (LengthSize(len - 2) + (6 + RestSize(dist))) /\ MatchTold(t, k, h, s, q, dist, len)
    <3>1. /\ Fits(B, Len(B)) /\ Len(B) = 2 + (LengthSize(len - 2) + (6 + RestSize(dist)))
          /\ t.m \in Nat /\ Told(t, k, B) => MatchTold(t, k, h, s, q, dist, len)
      BY <2>2, <2>3, <2>4, MatchOp, Zenon
    <3> QED
      BY <3>1, Zenon
  <2>6. OpTold(t, k, h, s, q, o)
    <3>1. o.op # "literal" /\ o.op # "rep"
      BY <1>3
    <3> QED
      BY <2>1, <2>2, <2>3, <2>5, <3>1 DEF OpTold
  <2>7. Len(B) = OpSize(o)
    <3>1. o.op # "literal" /\ o.op # "rep"
      BY <1>3
    <3> QED
      BY <1>3, <2>1, <2>5, <3>1 DEF OpSize
  <2> QED
    BY <2>6, <2>7
<1>4. CASE o.op = "rep"
  <2>1. RepGives(t, k, h, s, q, o, B)
    BY <1>4, RepeatOp
  <2> QED
    BY <1>4, <2>1 DEF RepGives, OpTold, OpSize
<1> QED
  BY <1>1, <1>2, <1>3, <1>4

(* Operation i + 1 comes before the goal g; z is what it leads to.         *)
Ahead(t, w, g, i, s, q, o, z) ==
  /\ i \in Nat /\ i + 1 \in 0..g /\ s = w.s[i] /\ q = w.q[i] /\ z = w.s[i + 1]
  /\ s \in Q!Meanings(Cap(w)) /\ z \in Q!Meanings(Cap(w)) /\ s.hist = s.out
  /\ s.state = "go" /\ z.state \in {"go", "eos"} /\ z = Operated(s, o)
  /\ q \in 0..11 /\ w.q[i + 1] = StateAfter(o, q) /\ (q >= 7 => Reaches(Cap(w), s))
  /\ o \in Operations /\ OpTold(t, w.at[i], w.h, s, q, o)
  /\ w.at[i] \in Nat /\ w.at[i + 1] = w.at[i] + OpSize(o) /\ w.at[i + 1] \in Nat
  /\ z.state = "eos" => i + 1 = g /\ w.h.size < 0

Coming(t, w, g, i) == \E s, q, o, z : o = w.seq[i + 1] /\ Ahead(t, w, g, i, s, q, o, z)

LEMMA OpAhead ==
  ASSUME NEW t, NEW w, Sealed(t, w), NEW g, Goal(w, g), NEW i \in Nat, i < g
  PROVE  Coming(t, w, g, i)
<1>1. w.n \in Nat /\ Len(w.seq) \in Nat /\ w.n <= Len(w.seq) /\ g \in Nat /\ g <= w.n
  BY DEF Sealed, Written, Goal
<1>2. i \in 0..g - 1 /\ i + 1 \in 1..w.n /\ i \in 0..w.n /\ i + 1 \in 0..w.n /\ (i + 1) - 1 = i
      /\ i + 1 \in 0..g /\ i + 1 \in 1..Len(w.seq)
  BY <1>1
<1>3. PICK s, q, o, z : s = w.s[i] /\ q = w.q[i] /\ o = w.seq[i + 1] /\ z = w.s[i + 1]
  OBVIOUS
<1>4. PICK a, e \in Nat : a = w.at[i] /\ e = w.at[i + 1] /\ a \in Nat /\ w.at[w.n] \in Nat /\ e <= w.at[w.n]
  <2>1. Placed(w, i) /\ Placed(w, i + 1) /\ Placed(w, w.n)
    <3>1. w.n \in 0..w.n
      BY <1>1
    <3> QED
      BY <1>2, <3>1 DEF Sealed, Written
  <2> QED
    BY <2>1 DEF Placed
<1>5. /\ s \in Q!Meanings(Cap(w)) /\ s.hist = s.out /\ q \in 0..11
      /\ z \in Q!Meanings(Cap(w)) /\ z.state \in {"go", "eos", "bad"}
      /\ s.state = "go" /\ q >= 7 => Reaches(Cap(w), s)
  <2>1. Placed(w, i) /\ Placed(w, i + 1)
    BY <1>2 DEF Sealed, Written
  <2> QED
    BY <1>3, <2>1 DEF Placed
<1>6. PICK B : B = OpBits(w.h, s, q, o)
  OBVIOUS
<1>7. /\ s.state = "go" /\ z = Operated(s, o) /\ w.q[i + 1] = StateAfter(o, q)
      /\ Fits(B, Len(B)) /\ e = a + Len(B) /\ \A j \in 1..Len(B) : w.ds[a + j] = B[j]
  <2>1. Stepped(w, i + 1)
    BY <1>2 DEF Sealed, Written
  <2> QED
    BY <1>2, <1>3, <1>4, <1>6, <2>1 DEF Stepped, OpOf
<1>8. o \in Operations
  <2>1. w.seq \in Seq(Operations)
    BY DEF Sealed, Written
  <2> QED
    BY <1>2, <1>3, <2>1
<1>9. Len(B) \in Nat /\ Listed(B, Len(B))
  BY <1>7 DEF Fits, Listed
<1>10. Told(t, a, B) /\ t.m \in Nat
  <2>1. t.m = w.at[w.n] /\ t.ds = w.ds
    BY DEF Sealed
  <2>2. a + Len(B) <= t.m
    BY <1>4, <1>7, <2>1
  <2> QED
    BY <1>4, <1>7, <1>9, <2>1, <2>2 DEF Told, Says
<1>11. OpTold(t, a, w.h, s, q, o) /\ Len(B) = OpSize(o)
  BY <1>6, <1>8, <1>10, OpTells
<1>12. z.state # "bad" /\ (z.state = "eos" => i + 1 = g /\ w.h.size < 0)
  <2>1. CASE i + 1 = g
    <3>1. CASE w.h.size < 0
      BY <1>3, <2>1, <3>1 DEF Goal
    <3>2. CASE ~(w.h.size < 0)
      BY <1>3, <2>1, <3>2 DEF Goal
    <3> QED
      BY <3>1, <3>2
  <2>2. CASE i + 1 # g
    <3>1. i + 1 \in 0..g - 1
      BY <1>1, <1>2, <2>2
    <3>2. ~Stops(w, i + 1)
      BY <3>1 DEF Goal
    <3> QED
      BY <1>3, <3>2 DEF Stops
  <2> QED
    BY <2>1, <2>2
<1>13. Ahead(t, w, g, i, s, q, o, z)
  BY <1>2, <1>3, <1>4, <1>5, <1>7, <1>8, <1>11, <1>12 DEF Ahead
<1> QED
  BY <1>3, <1>13 DEF Coming

-----------------------------------------------------------------------------
LEMMA WorkingStays ==
  ASSUME NEW t, NEW w, NEW g, Working(t, w, g), UNCHANGED <<src, dst, in>>
  PROVE  Working(t, w, g)'
BY DEF Working, Stored, Meant, Came

(* A byte is missing.                                                      *)
LEMMA FailStep ==
  ASSUME LzmaAssumption,
         NEW t, NEW w, NEW g, Working(t, w, g), out = <<>>, NEW d, NEW k, Reads(t, d, k), ~d.ok, Fail
  PROVE  Failed'
<1>1. t.n < Len(t.all)
  BY DEF Reads, Gets
<1>2. in # dst
  BY <1>1, CameIs DEF Working
<1> QED
  BY <1>2 DEF Fail, Failed

(* A bit is read, and decides what comes next.                             *)
Went(t, w, i, k, p) == Where(t, w, i, k)' /\ pc' = p /\ UNCHANGED <<src, dst, in, dec>>

LEMMA BranchStep ==
  ASSUME LzmaAssumption, NEW t, NEW w, NEW g, Working(t, w, g), NEW i, NEW k, Where(t, w, i, k),
         NEW array, NEW row, NEW place, NEW bit,
         Says(t, k, Bit(array, row, place, bit), 1), NEW zero, NEW one,
         Branch(One(rc.coder, <<array, row, place>>), zero, one)
  PROVE  Failed' \/ Went(t, w, i, k + 1, IF bit = 0 THEN zero ELSE one)
<1>1. PICK d : d = One(rc.coder, <<array, row, place>>)
  OBVIOUS
<1>2. Tape(t)
  BY DEF Working, Stored, Sealed
<1>3. Took(t, k + 1, d, bit)
  BY <1>1, <1>2, BitSays DEF Where
<1>4. CASE ~d.ok
  <2>1. Fail
    BY <1>1, <1>4 DEF Branch
  <2> QED
    BY <1>3, <1>4, <2>1, FailStep DEF Took, Where
<1>5. CASE d.ok
  <2>1. /\ rc' = [rc EXCEPT !.coder = d] /\ pc' = IF d.m = 0 THEN zero ELSE one
        /\ UNCHANGED <<src, dst, in, dec, limit, buf, out, err>>
    BY <1>1, <1>5 DEF Branch
  <2>2. d.m = bit /\ Reads(t, d, k + 1)
    BY <1>3, <1>5 DEF Took
  <2>3. PICK c, q : rc = [coder |-> c, state |-> q] /\ q = w.q[i]
    BY DEF Where
  <2>4. rc' = [coder |-> d, state |-> q]
    BY <2>1, <2>3
  <2>5. rc'.coder = d /\ rc' = [coder |-> rc'.coder, state |-> w.q[i]]
    BY <2>3, <2>4
  <2>6. Where(t, w, i, k + 1)'
    BY <1>5, <2>1, <2>2, <2>5 DEF Where
  <2> QED
    BY <2>1, <2>2, <2>6 DEF Went
<1> QED
  BY <1>4, <1>5

(* An operation is done.                                                   *)
LEMMA NextStateIs ==
  ASSUME NEW q \in 0..11, NEW o
  PROVE  /\ o.op = "literal" => NextState["Literal"][q + 1] = StateAfter(o, q)
         /\ o.op = "match" => NextState["Match"][q + 1] = StateAfter(o, q)
         /\ o.op = "rep" /\ o.len = 1 => NextState["ShortRep"][q + 1] = StateAfter(o, q)
         /\ o.op = "rep" /\ o.len # 1 => NextState["LongRep"][q + 1] = StateAfter(o, q)
<1>1. /\ NextState["Literal"] = <<0, 0, 0, 0, 1, 2, 3, 4, 5, 6, 4, 5>>
      /\ NextState["Match"] = <<7, 7, 7, 7, 7, 7, 7, 10, 10, 10, 10, 10>>
      /\ NextState["LongRep"] = <<8, 8, 8, 8, 8, 8, 8, 11, 11, 11, 11, 11>>
      /\ NextState["ShortRep"] = <<9, 9, 9, 9, 9, 9, 9, 11, 11, 11, 11, 11>>
  BY DEF NextState
<1>2. q \in {0, 1, 2, 3, 4, 5, 6, 7, 8, 9, 10, 11}
  OBVIOUS
<1>3. ASSUME o.op = "literal"
      PROVE  NextState["Literal"][q + 1] = StateAfter(o, q)
  <2>1. StateAfter(o, q) = IF q < 4 THEN 0 ELSE IF q < 10 THEN q - 3 ELSE q - 6
    BY <1>3 DEF StateAfter
  <2> QED
    BY <1>1, <1>2, <2>1
<1>4. ASSUME o.op = "match"
      PROVE  NextState["Match"][q + 1] = StateAfter(o, q)
  <2>1. StateAfter(o, q) = IF q < 7 THEN 7 ELSE 10
    BY <1>4 DEF StateAfter
  <2> QED
    BY <1>1, <1>2, <2>1
<1>5. ASSUME o.op = "rep", o.len = 1
      PROVE  NextState["ShortRep"][q + 1] = StateAfter(o, q)
  <2>1. StateAfter(o, q) = IF q < 7 THEN 9 ELSE 11
    BY <1>5 DEF StateAfter
  <2> QED
    BY <1>1, <1>2, <2>1
<1>6. ASSUME o.op = "rep", o.len # 1
      PROVE  NextState["LongRep"][q + 1] = StateAfter(o, q)
  <2>1. StateAfter(o, q) = IF q < 7 THEN 8 ELSE 11
    BY <1>6 DEF StateAfter
  <2> QED
    BY <1>1, <1>2, <2>1
<1> QED
  BY <1>3, <1>4, <1>5, <1>6

(* r is where z is, and all of it is in the buffer.                        *)
Reached(w, r, z) == Q!Follows(Cap(w), r.dec, z) /\ r.buf = z.out

LEMMA OperationStep ==
  ASSUME NEW t, NEW w, NEW g, Working(t, w, g), NEW i, NEW k, Where(t, w, i, k),
         NEW s, NEW q, NEW o, NEW z, Ahead(t, w, g, i, s, q, o, z), z.state = "go",
         NEW d, Reads(t, d, w.at[i + 1]), d.ok, NEW r, Reached(w, r, z),
         NEW kind, NextState[kind][q + 1] = StateAfter(o, q), Operation(d, kind, r)
  PROVE  Decodes'
<1>1. /\ rc' = [coder |-> d, state |-> NextState[kind][rc.state + 1]]
      /\ dec' = r.dec /\ buf' = r.buf /\ pc' = "decode"
      /\ UNCHANGED <<src, dst, in, limit, out, err>>
  BY DEF Operation
<1>2. rc.state = q
  BY DEF Where, Ahead
<1>3. rc' = [coder |-> d, state |-> w.q[i + 1]]
  BY <1>1, <1>2 DEF Ahead
<1>4. rc'.coder = d /\ rc' = [coder |-> rc'.coder, state |-> w.q[i + 1]]
  BY <1>3
<1>5. z = w.s[i + 1] /\ i + 1 \in 0..g
  BY DEF Ahead
<1>6. Where(t, w, i + 1, w.at[i + 1])'
  BY <1>1, <1>4, <1>5 DEF Where, Reached
<1>7. Between(t, w, g, i + 1)'
  BY <1>1, <1>5, <1>6 DEF Between, Reached
<1>8. Working(t, w, g)'
  BY <1>1, WorkingStays
<1> QED
  BY <1>1, <1>7, <1>8 DEF Decodes

(* What is handed out is nothing, as everything is in the buffer.          *)
LEMMA HandedAll ==
  ASSUME NEW c, NEW b
  PROVE  /\ c \in Q!Bytes => Q!Handed(<<>>, c, c)
         /\ Q!Handed(<<>>, c, b) => c = b
<1>1. c \in Q!Bytes => <<>> \o c = c /\ <<>> \in Q!Bytes
  BY DEF Q!Bytes
<1> QED
  BY <1>1 DEF Q!Handed

-----------------------------------------------------------------------------
(* Within an operation o: j decisions of it were read.                     *)
Stage(p, o, j) ==
  \/ p = "literal"    /\ o.op = "literal" /\ j = 1
  \/ p = "isRep"      /\ o.op # "literal" /\ j = 1
  \/ p = "match"      /\ o.op \in {"match", "eos"} /\ j = 2
  \/ p = "isRepG0"    /\ o.op = "rep" /\ j = 2
  \/ p = "isRep0Long" /\ o.op = "rep" /\ o.i = 1 /\ j = 3
  \/ p = "isRepG1"    /\ o.op = "rep" /\ o.i \in 2..4 /\ j = 3
  \/ p = "isRepG2"    /\ o.op = "rep" /\ o.i \in {3, 4} /\ j = 4
  \/ p = "shortRep"   /\ o.op = "rep" /\ Longer(o) /\ j = 4

AmidAt(t, w, g, i, s, q, o, z, j) ==
  /\ Working(t, w, g) /\ Ahead(t, w, g, i, s, q, o, z)
  /\ j \in Nat /\ Where(t, w, i, w.at[i] + j) /\ Q!Follows(Cap(w), dec, s)

Amid == \E t, w, g, i, s, q, o, z, j : AmidAt(t, w, g, i, s, q, o, z, j) /\ Stage(pc, o, j)

(* What is left of a repetition is its length; its distance has come to    *)
(* the front.                                                              *)
RepStart(o) == IF o.i \in {1, 2} THEN 4 ELSE 5

LengthAt(t, w, g, i, s, q, o, z) ==
  /\ Working(t, w, g) /\ Ahead(t, w, g, i, s, q, o, z) /\ o.op = "rep" /\ ~Longer(o)
  /\ Where(t, w, i, w.at[i] + RepStart(o))
  /\ Q!Ring(Cap(w), dec, s.hist) /\ dec.reps = Q!Reused(s.reps, o.i)

LengthDue == pc = "repLen" /\ \E t, w, g, i, s, q, o, z : LengthAt(t, w, g, i, s, q, o, z)

Taken == pc = "read" /\ out = <<>> /\ err = FALSE /\ buf = src

LEMMA EndDecodeStep ==
  ASSUME Decodes, EndDecode
  PROVE  Taken'
<1>1. PICK t, w, g, i : Working(t, w, g) /\ Between(t, w, g, i)
  BY DEF Decodes
<1>2. limit >= 0 /\ Len(buf) >= limit
  BY DEF EndDecode, Enough
<1>3. buf = w.s[i].out /\ limit = w.h.size /\ out = <<>> /\ err = FALSE
  BY <1>1 DEF Between, Where
<1>4. Stops(w, i)
  BY <1>2, <1>3 DEF Stops
<1>5. g \in Nat /\ i \in 0..g
  <2>1. g \in 0..w.n /\ w.n \in 0..Len(w.seq)
    BY <1>1 DEF Working, Stored, Sealed, Goal, Written
  <2> QED
    BY <1>1, <2>1 DEF Between
<1>6. i = g
  <2>1. i \notin 0..g - 1
    BY <1>1, <1>4 DEF Working, Goal
  <2> QED
    BY <1>5, <2>1
<1>7. buf = src
  BY <1>1, <1>3, <1>6 DEF Working
<1> QED
  BY <1>3, <1>7 DEF EndDecode, Taken

LEMMA NotEnough ==
  ASSUME LzmaAssumption, ~Enough, NEW t, NEW w, NEW g, NEW i, Working(t, w, g), Between(t, w, g, i)
  PROVE  \E s, q, o, z : AmidAt(t, w, g, i, s, q, o, z, 0)
<1>1. /\ g \in Nat /\ i \in 0..g /\ w.s[i].state = "go" /\ Where(t, w, i, w.at[i])
      /\ Sealed(t, w) /\ Goal(w, g) /\ w.h \in Headers
  <2>1. g \in 0..w.n /\ w.n \in 0..Len(w.seq) /\ w.h \in Headers
    BY DEF Working, Stored, Sealed, Goal, Written
  <2> QED
    BY <2>1 DEF Working, Stored, Between
<1>2. i # g
  <2>1. SUFFICES ASSUME i = g
                 PROVE  FALSE
    OBVIOUS
  <2>2. w.h.size \in Int
    BY <1>1, CapIs
  <2>3. ~(w.h.size < 0)
    BY <1>1, <2>1 DEF Goal
  <2>4. Len(w.s[g].out) = w.h.size
    BY <1>1, <2>3 DEF Goal
  <2>5. limit = w.h.size /\ buf = w.s[g].out
    BY <1>1, <2>1 DEF Where
  <2>6. limit >= 0 /\ Len(buf) >= limit
    BY <2>2, <2>3, <2>4, <2>5
  <2> QED
    BY <2>6 DEF Enough
<1>3. i \in Nat /\ i < g
  BY <1>1, <1>2
<1>4. PICK s, q, o, z : Ahead(t, w, g, i, s, q, o, z)
  BY <1>1, <1>3, OpAhead DEF Coming
<1>5. w.at[i] + 0 = w.at[i] /\ s = w.s[i]
  BY <1>4 DEF Ahead
<1>6. AmidAt(t, w, g, i, s, q, o, z, 0)
  BY <1>1, <1>4, <1>5 DEF AmidAt, Between
<1> QED
  BY <1>6

(* Where a bit is looked for.                                              *)
LEMMA PlaceOfBit ==
  ASSUME LzmaAssumption,
         NEW t, NEW w, NEW g, NEW i, NEW s, NEW q, NEW o, NEW z, NEW j, AmidAt(t, w, g, i, s, q, o, z, j)
  PROVE  /\ rc.state = q /\ PosState = Row(w.h, s) /\ Header = w.h
         /\ (16 * rc.state) + PosState = Pos(w.h, s, q)
<1>1. rc.state = q
  BY DEF AmidAt, Where, Ahead
<1>2. Header = w.h
  BY CameIs DEF AmidAt, Working, Header
<1>3. dec.pos = Len(s.hist)
  BY DEF AmidAt, Q!Follows, Q!Ring
<1> QED
  BY <1>1, <1>2, <1>3 DEF PosState, Row, Pos

(* The next bit of an operation is read.                                   *)
LEMMA NextBit ==
  ASSUME LzmaAssumption,
         NEW t, NEW w, NEW g, NEW i, NEW s, NEW q, NEW o, NEW z, NEW j, AmidAt(t, w, g, i, s, q, o, z, j),
         NEW array, NEW place, NEW bit, NEW k, k = w.at[i] + j,
         Says(t, k, Bit(array, 0, place, bit), 1), NEW zero, NEW one,
         Branch(One(rc.coder, <<array, 0, place>>), zero, one)
  PROVE  Failed' \/ /\ AmidAt(t, w, g, i, s, q, o, z, j + 1)'
                    /\ pc' = IF bit = 0 THEN zero ELSE one
<1>1. Working(t, w, g) /\ Where(t, w, i, k) /\ j \in Nat /\ w.at[i] \in Nat /\ Ahead(t, w, g, i, s, q, o, z)
  BY DEF AmidAt, Ahead
<1>2. CASE Failed'
  BY <1>2
<1>3. CASE ~Failed'
  <2>1. Went(t, w, i, k + 1, IF bit = 0 THEN zero ELSE one)
    BY <1>1, <1>3, BranchStep
  <2>2. k + 1 = w.at[i] + (j + 1) /\ j + 1 \in Nat
    BY <1>1
  <2>3. Working(t, w, g)'
    BY <1>1, <2>1, WorkingStays DEF Went
  <2>4. Where(t, w, i, w.at[i] + (j + 1))' /\ dec' = dec
    BY <2>1, <2>2 DEF Went
  <2>5. Q!Follows(Cap(w), dec', s)
    BY <2>4 DEF AmidAt
  <2>6. AmidAt(t, w, g, i, s, q, o, z, j + 1)'
    BY <1>1, <2>2, <2>3, <2>4, <2>5 DEF AmidAt
  <2> QED
    BY <2>1, <2>6 DEF Went
<1> QED
  BY <1>2, <1>3

LEMMA AmidNow ==
  ASSUME NEW t, NEW w, NEW g, NEW i, NEW s, NEW q, NEW o, NEW z, NEW j,
         AmidAt(t, w, g, i, s, q, o, z, j)', Stage(pc', o, j)
  PROVE  Amid'
BY DEF Amid

LEMMA IsMatchStep ==
  ASSUME LzmaAssumption, Decodes, IsMatch
  PROVE  Failed' \/ Amid'
<1>1. PICK t, w, g, i : Working(t, w, g) /\ Between(t, w, g, i)
  BY DEF Decodes
<1>2. PICK s, q, o, z : AmidAt(t, w, g, i, s, q, o, z, 0)
  BY <1>1, NotEnough DEF IsMatch
<1>3. Branch(One(rc.coder, <<"isMatch", 0, Pos(w.h, s, q)>>), "literal", "isRep")
  BY <1>2, PlaceOfBit DEF IsMatch
<1>4. /\ OpTold(t, w.at[i], w.h, s, q, o) /\ o \in Operations /\ w.at[i] \in Nat
      /\ w.at[i] = w.at[i] + 0
  BY <1>2 DEF AmidAt, Ahead
<1>5. o.op \in {"literal", "match", "rep", "eos"}
  BY <1>4, LzmaOpIs
<1>6. CASE o.op = "literal"
  <2>1. Says(t, w.at[i], Bit("isMatch", 0, Pos(w.h, s, q), 0), 1)
    BY <1>4, <1>6 DEF OpTold, LiteralTold
  <2>2. Failed' \/ (AmidAt(t, w, g, i, s, q, o, z, 0 + 1)' /\ pc' = "literal")
    BY <1>2, <1>3, <1>4, <2>1, NextBit
  <2>3. Stage("literal", o, 0 + 1)
    BY <1>6 DEF Stage
  <2> QED
    BY <2>2, <2>3, AmidNow
<1>7. CASE o.op # "literal"
  <2>1. Says(t, w.at[i], Bit("isMatch", 0, Pos(w.h, s, q), 1), 1)
    <3>1. CASE o.op \in {"match", "eos"}
      BY <1>4, <3>1 DEF OpTold, MatchTold
    <3>2. CASE o.op = "rep"
      BY <1>4, <3>2 DEF OpTold, RepTold
    <3> QED
      BY <1>5, <1>7, <3>1, <3>2
  <2>2. Failed' \/ (AmidAt(t, w, g, i, s, q, o, z, 0 + 1)' /\ pc' = "isRep")
    BY <1>2, <1>3, <1>4, <2>1, NextBit
  <2>3. Stage("isRep", o, 0 + 1)
    BY <1>7 DEF Stage
  <2> QED
    BY <2>2, <2>3, AmidNow
<1> QED
  BY <1>6, <1>7

-----------------------------------------------------------------------------
LEMMA IsRepStep ==
  ASSUME LzmaAssumption, Amid, IsRep
  PROVE  Failed' \/ Amid'
<1>1. PICK t, w, g, i, s, q, o, z, j : AmidAt(t, w, g, i, s, q, o, z, j) /\ Stage(pc, o, j)
  BY DEF Amid
<1>2. o.op # "literal" /\ j = 1
  BY <1>1 DEF IsRep, Stage
<1>3. Branch(One(rc.coder, <<"isRep", 0, q>>), "match", "isRepG0")
  BY <1>1, PlaceOfBit DEF IsRep
<1>4. OpTold(t, w.at[i], w.h, s, q, o) /\ o.op \in {"literal", "match", "rep", "eos"}
  BY <1>1, LzmaOpIs DEF AmidAt, Ahead
<1>5. CASE o.op \in {"match", "eos"}
  <2>1. Says(t, w.at[i] + 1, Bit("isRep", 0, q, 0), 1)
    BY <1>4, <1>5 DEF OpTold, MatchTold
  <2>2. Failed' \/ (AmidAt(t, w, g, i, s, q, o, z, 1 + 1)' /\ pc' = "match")
    BY <1>1, <1>2, <1>3, <2>1, NextBit
  <2>3. Stage("match", o, 1 + 1)
    BY <1>5 DEF Stage
  <2> QED
    BY <2>2, <2>3, AmidNow
<1>6. CASE o.op = "rep"
  <2>1. Says(t, w.at[i] + 1, Bit("isRep", 0, q, 1), 1)
    BY <1>4, <1>6 DEF OpTold, RepTold
  <2>2. Failed' \/ (AmidAt(t, w, g, i, s, q, o, z, 1 + 1)' /\ pc' = "isRepG0")
    BY <1>1, <1>2, <1>3, <2>1, NextBit
  <2>3. Stage("isRepG0", o, 1 + 1)
    BY <1>6 DEF Stage
  <2> QED
    BY <2>2, <2>3, AmidNow
<1> QED
  BY <1>2, <1>4, <1>5, <1>6

LEMMA IsRepG0Step ==
  ASSUME LzmaAssumption, Amid, IsRepG0
  PROVE  Failed' \/ Amid'
<1>1. PICK t, w, g, i, s, q, o, z, j : AmidAt(t, w, g, i, s, q, o, z, j) /\ Stage(pc, o, j)
  BY DEF Amid
<1>2. o.op = "rep" /\ j = 2
  BY <1>1 DEF IsRepG0, Stage
<1>3. Branch(One(rc.coder, <<"isRepG0", 0, q>>), "isRep0Long", "isRepG1")
  BY <1>1, PlaceOfBit DEF IsRepG0
<1>4. OpTold(t, w.at[i], w.h, s, q, o) /\ o.i \in 1..4
  BY <1>1, <1>2, LzmaOpIs DEF AmidAt, Ahead
<1>5. Says(t, w.at[i] + 2, Bit("isRepG0", 0, q, First(o)), 1)
  BY <1>2, <1>4 DEF OpTold, RepTold
<1>6. Failed' \/ /\ AmidAt(t, w, g, i, s, q, o, z, 2 + 1)'
                 /\ pc' = IF First(o) = 0 THEN "isRep0Long" ELSE "isRepG1"
  BY <1>1, <1>2, <1>3, <1>5, NextBit
<1>7. CASE o.i = 1
  <2>1. Stage("isRep0Long", o, 2 + 1) /\ First(o) = 0
    BY <1>2, <1>7 DEF Stage, First
  <2> QED
    BY <1>6, <2>1, AmidNow
<1>8. CASE o.i # 1
  <2>1. Stage("isRepG1", o, 2 + 1) /\ First(o) = 1
    BY <1>2, <1>4, <1>8 DEF Stage, First
  <2> QED
    BY <1>6, <2>1, AmidNow
<1> QED
  BY <1>7, <1>8

LEMMA IsRep0LongStep ==
  ASSUME LzmaAssumption, Amid, IsRep0Long
  PROVE  Failed' \/ Amid' \/ LengthDue'
<1>1. PICK t, w, g, i, s, q, o, z, j : AmidAt(t, w, g, i, s, q, o, z, j) /\ Stage(pc, o, j)
  BY DEF Amid
<1>2. o.op = "rep" /\ o.i = 1 /\ j = 3
  BY <1>1 DEF IsRep0Long, Stage
<1>3. Branch(One(rc.coder, <<"isRep0Long", 0, Pos(w.h, s, q)>>), "shortRep", "repLen")
  BY <1>1, PlaceOfBit DEF IsRep0Long
<1>4. RepRest(t, w.at[i], w.h, s, q, o)
  BY <1>1, <1>2 DEF AmidAt, Ahead, OpTold
<1>5. CASE o.len = 1
  <2>1. Says(t, w.at[i] + 3, Bit("isRep0Long", 0, Pos(w.h, s, q), 0), 1)
    BY <1>2, <1>4, <1>5 DEF RepRest
  <2>2. Failed' \/ (AmidAt(t, w, g, i, s, q, o, z, 3 + 1)' /\ pc' = "shortRep")
    BY <1>1, <1>2, <1>3, <2>1, NextBit
  <2>3. Stage("shortRep", o, 3 + 1)
    BY <1>2, <1>5 DEF Stage, Longer
  <2> QED
    BY <2>2, <2>3, AmidNow
<1>6. CASE o.len # 1
  <2>1. Says(t, w.at[i] + 3, Bit("isRep0Long", 0, Pos(w.h, s, q), 1), 1)
    BY <1>2, <1>4, <1>6 DEF RepRest
  <2>2. Failed' \/ (AmidAt(t, w, g, i, s, q, o, z, 3 + 1)' /\ pc' = "repLen")
    BY <1>1, <1>2, <1>3, <2>1, NextBit
  <2>3. RepStart(o) = 3 + 1 /\ ~Longer(o)
    BY <1>2, <1>6 DEF RepStart, Longer
  <2>4. ASSUME AmidAt(t, w, g, i, s, q, o, z, 3 + 1)', pc' = "repLen"
        PROVE  LengthDue'
    <3>1. /\ Working(t, w, g)' /\ Ahead(t, w, g, i, s, q, o, z)
          /\ Where(t, w, i, w.at[i] + RepStart(o))'
          /\ Q!Follows(Cap(w), dec', s)
      BY <2>3, <2>4 DEF AmidAt
    <3>2. Q!Ring(Cap(w), dec', s.hist) /\ dec'.reps = s.reps
      BY <3>1 DEF Q!Follows
    <3>3. Q!Reused(s.reps, o.i) = s.reps
      BY <1>2 DEF Q!Reused
    <3>4. LengthAt(t, w, g, i, s, q, o, z)'
      BY <1>2, <2>3, <3>1, <3>2, <3>3 DEF LengthAt
    <3> QED
      BY <2>4, <3>4 DEF LengthDue
  <2> QED
    BY <2>2, <2>4
<1> QED
  BY <1>5, <1>6

(* The distance at o.i is used again.                                      *)
LEMMA ReuseStep ==
  ASSUME NEW t, NEW w, NEW g, NEW i, NEW s, NEW q, NEW o, NEW z, NEW j, AmidAt(t, w, g, i, s, q, o, z, j),
         o.op = "rep", ~Longer(o), j + 1 = RepStart(o),
         NEW d, Reads(t, d, (w.at[i] + j) + 1), d.ok, Reuse(d, o.i)
  PROVE  LengthDue'
<1>1. /\ rc' = [rc EXCEPT !.coder = d] /\ dec' = [dec EXCEPT !.reps = Reused(@, o.i)]
      /\ pc' = "repLen" /\ UNCHANGED <<src, dst, in, limit, buf, out, err>>
  BY DEF Reuse
<1>2. Working(t, w, g) /\ Where(t, w, i, w.at[i] + j) /\ j \in Nat /\ w.at[i] \in Nat /\ Ahead(t, w, g, i, s, q, o, z)
  BY DEF AmidAt, Ahead
<1>3. Q!Ring(Cap(w), dec, s.hist) /\ dec.reps = s.reps
  BY DEF AmidAt, Q!Follows
<1>4. PICK p : p = Q!Reused(s.reps, o.i)
  OBVIOUS
<1>5. dec' = [dec EXCEPT !.reps = p]
  BY <1>1, <1>3, <1>4, LzmaReused
<1>6. Q!Ring(Cap(w), dec', s.hist) /\ dec'.reps = p
  <2>1. Q!Ring(Cap(w), [dec EXCEPT !.reps = p], s.hist) /\ [dec EXCEPT !.reps = p].reps = p
    BY <1>3, Q!RepsRing
  <2> QED
    BY <1>5, <2>1
<1>7. PICK c, y : rc = [coder |-> c, state |-> y] /\ y = w.q[i]
  BY <1>2 DEF Where
<1>8. rc' = [coder |-> d, state |-> y]
  BY <1>1, <1>7
<1>9. rc'.coder = d /\ rc' = [coder |-> rc'.coder, state |-> w.q[i]]
  BY <1>7, <1>8
<1>10. (w.at[i] + j) + 1 = w.at[i] + RepStart(o)
  <2>1. PICK k \in Nat : k = w.at[i]
    BY <1>2
  <2>2. (k + j) + 1 = k + (j + 1)
    BY <1>2, <2>1
  <2> QED
    BY <2>1, <2>2
<1>11. Where(t, w, i, w.at[i] + RepStart(o))'
  BY <1>1, <1>2, <1>9, <1>10 DEF Where
<1>12. Working(t, w, g)'
  BY <1>1, <1>2, WorkingStays
<1>13. LengthAt(t, w, g, i, s, q, o, z)'
  BY <1>2, <1>4, <1>6, <1>11, <1>12 DEF LengthAt
<1> QED
  BY <1>1, <1>13 DEF LengthDue

LEMMA IsRepG1Step ==
  ASSUME LzmaAssumption, Amid, IsRepG1
  PROVE  Failed' \/ Amid' \/ LengthDue'
<1>1. PICK t, w, g, i, s, q, o, z, j : AmidAt(t, w, g, i, s, q, o, z, j) /\ Stage(pc, o, j)
  BY DEF Amid
<1>2. o.op = "rep" /\ o.i \in 2..4 /\ j = 3
  BY <1>1 DEF IsRepG1, Stage
<1>3. PICK d : /\ d = One(rc.coder, <<"isRepG1", 0, q>>)
               /\ IF d.ok /\ d.m = 0 THEN Reuse(d, 2) ELSE Branch(d, "repLen", "isRepG2")
  BY <1>1, PlaceOfBit DEF IsRepG1
<1>4. RepRest(t, w.at[i], w.h, s, q, o) /\ Tape(t) /\ Working(t, w, g) /\ Where(t, w, i, w.at[i] + 3)
  BY <1>1, <1>2 DEF AmidAt, Ahead, OpTold, Working, Stored, Sealed
<1>5. CASE o.i = 2
  <2>1. Says(t, w.at[i] + 3, Bit("isRepG1", 0, q, 0), 1)
    BY <1>4, <1>5 DEF RepRest
  <2>2. Took(t, (w.at[i] + 3) + 1, d, 0)
    BY <1>3, <1>4, <2>1, BitSays DEF Where
  <2>3. CASE d.ok
    <3>1. Reads(t, d, (w.at[i] + 3) + 1) /\ Reuse(d, o.i)
      BY <1>3, <1>5, <2>2, <2>3 DEF Took
    <3>2. 3 + 1 = RepStart(o) /\ ~Longer(o)
      BY <1>5 DEF RepStart, Longer
    <3> QED
      BY <1>1, <1>2, <2>3, <3>1, <3>2, ReuseStep
  <2>4. CASE ~d.ok
    <3>1. Fail
      BY <1>3, <2>4 DEF Branch
    <3> QED
      BY <1>4, <2>2, <2>4, <3>1, FailStep DEF Took, Where
  <2> QED
    BY <2>3, <2>4
<1>6. CASE o.i \in {3, 4}
  <2>1. Says(t, w.at[i] + 3, Bit("isRepG1", 0, q, 1), 1)
    BY <1>4, <1>6 DEF RepRest
  <2>2. Took(t, (w.at[i] + 3) + 1, d, 1)
    BY <1>3, <1>4, <2>1, BitSays DEF Where
  <2>3. Branch(One(rc.coder, <<"isRepG1", 0, q>>), "repLen", "isRepG2")
    BY <1>3, <2>2 DEF Took
  <2>4. Failed' \/ (AmidAt(t, w, g, i, s, q, o, z, 3 + 1)' /\ pc' = "isRepG2")
    BY <1>1, <1>2, <2>1, <2>3, NextBit
  <2>5. Stage("isRepG2", o, 3 + 1)
    BY <1>2, <1>6 DEF Stage
  <2> QED
    BY <2>4, <2>5, AmidNow
<1> QED
  BY <1>2, <1>5, <1>6

LEMMA IsRepG2Step ==
  ASSUME LzmaAssumption, Amid, IsRepG2
  PROVE  Failed' \/ LengthDue'
<1>1. PICK t, w, g, i, s, q, o, z, j : AmidAt(t, w, g, i, s, q, o, z, j) /\ Stage(pc, o, j)
  BY DEF Amid
<1>2. o.op = "rep" /\ o.i \in {3, 4} /\ j = 4
  BY <1>1 DEF IsRepG2, Stage
<1>3. PICK d : /\ d = One(rc.coder, <<"isRepG2", 0, q>>)
               /\ IF d.ok THEN Reuse(d, 3 + d.m) ELSE Fail
  BY <1>1, PlaceOfBit DEF IsRepG2
<1>4. RepRest(t, w.at[i], w.h, s, q, o) /\ Tape(t) /\ Working(t, w, g) /\ Where(t, w, i, w.at[i] + 4)
  BY <1>1, <1>2 DEF AmidAt, Ahead, OpTold, Working, Stored, Sealed
<1>5. Says(t, w.at[i] + 4, Bit("isRepG2", 0, q, o.i - 3), 1)
  BY <1>2, <1>4 DEF RepRest
<1>6. Took(t, (w.at[i] + 4) + 1, d, o.i - 3)
  BY <1>3, <1>4, <1>5, BitSays DEF Where
<1>7. CASE d.ok
  <2>1. Reads(t, d, (w.at[i] + 4) + 1) /\ 3 + d.m = o.i
    BY <1>2, <1>6, <1>7 DEF Took
  <2>2. Reuse(d, o.i)
    BY <1>3, <1>7, <2>1
  <2>3. 4 + 1 = RepStart(o) /\ ~Longer(o)
    BY <1>2 DEF RepStart, Longer
  <2> QED
    BY <1>1, <1>2, <1>7, <2>1, <2>2, <2>3, ReuseStep
<1>8. CASE ~d.ok
  BY <1>3, <1>4, <1>6, <1>8, FailStep DEF Took, Where
<1> QED
  BY <1>7, <1>8

-----------------------------------------------------------------------------
(* What the decoder has of the bytes before.                               *)
LEMMA AmidIs ==
  ASSUME LzmaAssumption,
         NEW t, NEW w, NEW g, NEW i, NEW s, NEW q, NEW o, NEW z, NEW j, AmidAt(t, w, g, i, s, q, o, z, j)
  PROVE  /\ Cap(w) \in Nat \ {0} /\ s \in Q!Meanings(Cap(w)) /\ s.hist \in Q!Bytes /\ Len(s.hist) \in Nat
         /\ \A n \in 1..Len(s.hist) : s.hist[n] \in 0..255
         /\ Q!Ring(Cap(w), dec, s.hist) /\ dec.reps = s.reps /\ dec.pos = Len(s.hist)
         /\ s.reps \in Q!Reps /\ s.reps[1] \in Nat
         /\ Q!Handed(<<>>, buf, s.out) /\ Tape(t) /\ out = <<>>
<1>1. w.h \in Headers /\ Tape(t)
  BY DEF AmidAt, Working, Stored, Sealed, Written
<1>2. Cap(w) \in Nat \ {0}
  BY <1>1, CapIs
<1>3. s \in Q!Meanings(Cap(w)) /\ s.hist \in Q!Bytes /\ s.reps \in Q!Reps /\ s.out \in Q!Bytes
  BY DEF AmidAt, Ahead, Q!Meanings
<1>4. Len(s.hist) \in Nat /\ \A n \in 1..Len(s.hist) : s.hist[n] \in 0..255
  <2>1. PICK h : h = s.hist
    OBVIOUS
  <2>2. h \in Seq(0..255)
    BY <1>3, <2>1 DEF Q!Bytes, Q!Byte
  <2>3. Len(h) \in Nat
    BY <2>2
  <2>4. \A n \in 1..Len(h) : h[n] \in 0..255
    <3>1. PICK m \in Nat : m = Len(h)
      BY <2>3
    <3> QED
      BY <2>2, <3>1, Q!ElementsAre
  <2> QED
    BY <2>1, <2>3, <2>4
<1>5. Q!Ring(Cap(w), dec, s.hist) /\ dec.reps = s.reps
  BY DEF AmidAt, Q!Follows
<1>6. dec.pos = Len(s.hist)
  BY <1>5 DEF Q!Ring
<1>7. buf = s.out /\ out = <<>>
  BY DEF AmidAt, Where, Ahead
<1> QED
  BY <1>1, <1>2, <1>3, <1>4, <1>5, <1>6, <1>7, HandedAll, Q!FourAre

LEMMA BytesBefore ==
  ASSUME LzmaAssumption,
         NEW t, NEW w, NEW g, NEW i, NEW s, NEW q, NEW o, NEW z, NEW j, AmidAt(t, w, g, i, s, q, o, z, j)
  PROVE  /\ (IF dec.pos > 0 THEN GetByte(dec, 0) ELSE 0) = LastByte(s)
         /\ (IF rc.state >= 7 THEN GetByte(dec, dec.reps[1]) ELSE 0) = OtherByte(s, q)
         /\ OtherByte(s, q) \in 0..255
<1>1. /\ Cap(w) \in Nat \ {0} /\ Len(s.hist) \in Nat /\ Q!Ring(Cap(w), dec, s.hist) /\ dec.reps = s.reps
      /\ dec.pos = Len(s.hist) /\ \A n \in 1..Len(s.hist) : s.hist[n] \in 0..255
  BY AmidIs
<1>2. PICK n \in Nat : n = Len(s.hist)
  BY <1>1
<1>3. rc.state = q /\ q \in 0..11 /\ (q >= 7 => Reaches(Cap(w), s))
  <2>1. rc.state = q
    BY PlaceOfBit
  <2>2. Ahead(t, w, g, i, s, q, o, z)
    BY DEF AmidAt
  <2>3. q \in 0..11 /\ (q >= 7 => Reaches(Cap(w), s))
    BY <2>2, Zenon DEF Ahead
  <2> QED
    BY <2>1, <2>3
<1>4. (IF dec.pos > 0 THEN GetByte(dec, 0) ELSE 0) = LastByte(s)
  <2>1. CASE n = 0
    BY <1>1, <1>2, <2>1 DEF LastByte
  <2>2. CASE n # 0
    <3>1. 0 \in Nat /\ 0 < Len(s.hist) /\ 0 < Cap(w) /\ n - 0 = n
      BY <1>1, <1>2, <2>2
    <3>2. Q!GetByte(dec, 0) = s.hist[Len(s.hist) - 0]
      BY <1>1, <3>1, Q!GetRing
    <3> QED
      BY <1>1, <1>2, <2>2, <3>1, <3>2, LzmaGet DEF LastByte
  <2> QED
    BY <2>1, <2>2
<1>5. CASE q >= 7
  <2>1. PICK dist \in Nat : dist = s.reps[1] /\ dist < n /\ dist < Cap(w)
    BY <1>2, <1>3, <1>5 DEF Reaches
  <2>2. Q!GetByte(dec, dist) = s.hist[Len(s.hist) - dist]
    BY <1>1, <1>2, <2>1, Q!GetRing
  <2>3. n - dist \in 1..n
    BY <2>1
  <2>4. OtherByte(s, q) = s.hist[n - dist]
    BY <1>2, <1>5, <2>1 DEF OtherByte
  <2> QED
    BY <1>1, <1>2, <1>3, <1>4, <1>5, <2>1, <2>2, <2>3, <2>4, LzmaGet
<1>6. CASE ~(q >= 7)
  BY <1>3, <1>4, <1>6 DEF OtherByte
<1> QED
  BY <1>5, <1>6

LEMMA MovedReached ==
  ASSUME NEW w, NEW x, NEW z, Q!Moved(Cap(w), <<>>, x, z)
  PROVE  Reached(w, x, z)
BY HandedAll DEF Q!Moved, Reached

LEMMA LiteralOpStep ==
  ASSUME LzmaAssumption, Amid, Literal
  PROVE  Failed' \/ Decodes'
<1>1. PICK t, w, g, i, s, q, o, z, j : AmidAt(t, w, g, i, s, q, o, z, j) /\ Stage(pc, o, j)
  BY DEF Amid
<1>2. o.op = "literal" /\ j = 1
  BY <1>1 DEF Literal, Stage
<1>3. PICK row, match : row = LiteralRow(w.h, Len(s.hist), LastByte(s)) /\ match = OtherByte(s, q)
  OBVIOUS
<1>4. match \in 0..255 /\ Header = w.h /\ dec.pos = Len(s.hist) /\ rc.state = q
  BY <1>1, <1>3, BytesBefore, PlaceOfBit, AmidIs
<1>5. PICK d : /\ d = DecodeLiteral(rc.coder, row, match)
               /\ IF d.ok THEN Operation(d, "Literal", PutBytes(Now, <<Symbol(d, 8)>>))
                    ELSE Fail
  <2>1. PICK prev, other :
             /\ prev = (IF dec.pos > 0 THEN GetByte(dec, 0) ELSE 0)
             /\ other = (IF rc.state >= 7 THEN GetByte(dec, dec.reps[1]) ELSE 0)
    OBVIOUS
  <2>2. prev = LastByte(s) /\ other = match
    BY <1>1, <1>3, <2>1, BytesBefore
  <2>3. \E d \in {DecodeLiteral(rc.coder, LiteralRow(Header, dec.pos, prev), other)} :
          IF d.ok THEN Operation(d, "Literal", PutBytes(Now, <<Symbol(d, 8)>>))
            ELSE Fail
    BY <2>1 DEF Literal
  <2> QED
    BY <1>3, <1>4, <2>2, <2>3
<1>6. /\ Ahead(t, w, g, i, s, q, o, z) /\ Working(t, w, g) /\ Where(t, w, i, w.at[i] + 1)
      /\ w.at[i] \in Nat /\ o \in Operations /\ q \in 0..11
  BY <1>1, <1>2 DEF AmidAt, Ahead
<1>7. o.byte \in 0..255 /\ o.byte \in Byte
  BY <1>2, <1>6, LzmaOpIs DEF Byte
<1>8. Says(t, w.at[i] + 1, LiteralBits(row, o.byte, q >= 7, match), 8)
  BY <1>2, <1>3, <1>6 DEF Ahead, OpTold, LiteralTold, LiteralOf
<1>9. Took(t, (w.at[i] + 1) + 8, d, 256 + o.byte)
  <2>1. Reads(t, rc.coder, w.at[i] + 1) /\ rc.coder.ok /\ Tape(t)
    BY <1>1, <1>6, AmidIs DEF Where
  <2>2. PICK m : m = (q >= 7)
    OBVIOUS
  <2>3. m <=> rc.state >= 7
    BY <1>4, <2>2
  <2> QED
    BY <1>4, <1>5, <1>7, <1>8, <2>1, <2>2, <2>3, LiteralSays
<1>10. CASE ~d.ok
  BY <1>5, <1>6, <1>9, <1>10, FailStep DEF Took, Where
<1>11. CASE d.ok
  <2>1. Symbol(d, 8) = o.byte
    BY <1>7, <1>9, <1>11 DEF Took, Symbol
  <2>2. Reads(t, d, w.at[i + 1])
    <3>1. OpSize(o) = 9
      BY <1>2 DEF OpSize
    <3>2. w.at[i + 1] = (w.at[i] + 1) + 8
      BY <1>6, <3>1 DEF Ahead
    <3> QED
      BY <1>9, <3>2 DEF Took
  <2>3. PICK r : r = PutBytes(Now, <<o.byte>>)
    OBVIOUS
  <2>4. Reached(w, r, z) /\ z.state = "go"
    <3>1. r = Q!PutBytes([dec |-> dec, buf |-> buf], <<o.byte>>)
      BY <2>3, LzmaPut DEF Now
    <3>2. z = Q!Operated(s, o) /\ s.state = "go" /\ o \in Q!Operations
      BY <1>6, LzmaOperated, LzmaIsOperation DEF Ahead
    <3>3. /\ Q!Moved(Cap(w), <<>>, Q!PutBytes([dec |-> dec, buf |-> buf], <<o.byte>>), Q!Operated(s, o))
          /\ Q!Operated(s, o).state = s.state
      <4>1. /\ Cap(w) \in Nat \ {0} /\ s \in Q!Meanings(Cap(w)) /\ Q!Follows(Cap(w), dec, s)
            /\ Q!Handed(<<>>, buf, s.out)
        BY <1>1, AmidIs DEF AmidAt
      <4> QED
        BY <1>2, <3>2, <4>1, Q!LiteralStep
    <3> QED
      BY <3>1, <3>2, <3>3, MovedReached
  <2>5. NextState["Literal"][q + 1] = StateAfter(o, q)
    BY <1>2, <1>6, NextStateIs
  <2>6. Operation(d, "Literal", r)
    BY <1>5, <1>11, <2>1, <2>3
  <2> QED
    BY <1>6, <1>11, <2>2, <2>4, <2>5, <2>6, OperationStep
<1> QED
  BY <1>10, <1>11

-----------------------------------------------------------------------------
LEMMA MatchOpStep ==
  ASSUME LzmaAssumption, Amid, Match
  PROVE  Failed' \/ Decodes' \/ Taken'
<1>1. PICK t, w, g, i, s, q, o, z, j : AmidAt(t, w, g, i, s, q, o, z, j) /\ Stage(pc, o, j)
  BY DEF Amid
<1>2. o.op \in {"match", "eos"} /\ j = 2
  BY <1>1 DEF Match, Stage
<1>3. PosState = Row(w.h, s)
  BY <1>1, PlaceOfBit
<1>4. PICK l, d : /\ l = DecodeLength(rc.coder, "matchLen", Row(w.h, s))
                  /\ d = DecodeDistance(l, LenToPosState(l.m + 2))
                  /\ ~d.ok => Fail
                  /\ d.ok /\ d.m = -1 => /\ pc' = "read" /\ rc' = [rc EXCEPT !.coder = d]
                                         /\ UNCHANGED <<src, dst, in, dec, limit, buf, out, err>>
                  /\ d.ok /\ d.m # -1 =>
                       IF Invalid(dec, d.m) THEN Fail
                         ELSE Operation(d, "Match",
                                CopyMatch([Now EXCEPT !.dec.reps = <<d.m, @[1], @[2], @[3]>>],
                                               d.m, l.m + 2))
  BY <1>3 DEF Match
<1>5. /\ Ahead(t, w, g, i, s, q, o, z) /\ Working(t, w, g) /\ Where(t, w, i, w.at[i] + 2)
      /\ w.at[i] \in Nat /\ o \in Operations /\ q \in 0..11
  BY <1>1, <1>2 DEF AmidAt, Ahead
<1>6. PICK dist, len : dist = DistOf(o) /\ len = LenOf(o)
  OBVIOUS
<1>7. /\ dist \in Distances /\ len \in 2..273 /\ MatchTold(t, w.at[i], w.h, s, q, dist, len)
  BY <1>2, <1>5, <1>6, Zenon DEF Ahead, OpTold
<1>8. PICK v : v = len - 2
  OBVIOUS
<1>9. v \in 0..271 /\ v + 2 = len
  BY <1>7, <1>8
<1>10. MatchTook(t, w.at[i] + 2, v, dist, l, d)
  <2>1. SaysBoth(t, w.at[i] + 2, LengthBits("matchLen", Row(w.h, s), v), LengthSize(v),
                                 DistanceBits(dist, v + 2), 6 + RestSize(dist))
    BY <1>7, <1>8, <1>9 DEF MatchTold, LengthOf
  <2>2. Reads(t, rc.coder, w.at[i] + 2) /\ rc.coder.ok /\ Tape(t)
    BY <1>1, <1>5, AmidIs DEF Where
  <2> QED
    BY <1>4, <1>7, <1>9, <2>1, <2>2, MatchSays
<1>11. PICK n : n = (w.at[i] + 2) + (LengthSize(v) + (6 + RestSize(dist)))
  OBVIOUS
<1>12. Took(t, n, d, dist) /\ (d.ok => l.m = v)
  BY <1>10, <1>11 DEF MatchTook
<1>13. CASE ~d.ok
  BY <1>4, <1>5, <1>12, <1>13, FailStep DEF Took, Where
<1>14. CASE d.ok /\ o.op = "eos"
  <2>1. d.m = -1
    BY <1>6, <1>12, <1>14 DEF Took, DistOf
  <2>2. pc' = "read" /\ UNCHANGED <<src, dst, in, dec, limit, buf, out, err>>
    BY <1>4, <1>14, <2>1
  <2>3. z = Q!Operated(s, o) /\ o \in Q!Operations
    BY <1>5, LzmaOperated, LzmaIsOperation DEF Ahead
  <2>4. Q!Turned(Cap(w), s, z, "eos")
    <3>1. s \in Q!Meanings(Cap(w))
      BY <1>1, AmidIs
    <3> QED
      BY <1>14, <2>3, <3>1, Q!EosMeans
  <2>5. z.state = "eos" /\ z.out = s.out
    BY <2>4 DEF Q!Turned
  <2>6. i + 1 = g /\ z = w.s[g] /\ s = w.s[i]
    BY <1>5, <2>5 DEF Ahead
  <2>7. buf = src
    BY <1>5, <2>5, <2>6 DEF Working, Where
  <2> QED
    BY <1>5, <2>2, <2>7 DEF Taken, Where
<1>15. CASE d.ok /\ o.op = "match"
  <2>1. d.m = dist /\ dist = o.dist /\ len = o.len /\ l.m + 2 = o.len
    BY <1>6, <1>8, <1>9, <1>12, <1>15 DEF Took, DistOf, LenOf
  <2>2. o \in Q!Operations /\ z = Q!Operated(s, o) /\ s.state = "go" /\ z.state # "bad"
    BY <1>5, LzmaOperated, LzmaIsOperation DEF Ahead
  <2>3. dist \in Nat
    BY <1>15, <2>1, <2>2, Q!OperationIs
  <2>4. PICK e : e = [dec EXCEPT !.reps = <<dist, @[1], @[2], @[3]>>]
    OBVIOUS
  <2>5. PICK x : x = Q!CopyMatch([dec |-> e, buf |-> buf], dist, o.len)
    OBVIOUS
  <2>6. Q!Copied(Cap(w), s, dec, <<>>, o, dist, x)
    <3>1. /\ Cap(w) \in Nat \ {0} /\ s \in Q!Meanings(Cap(w)) /\ Q!Follows(Cap(w), dec, s)
          /\ Q!Handed(<<>>, buf, s.out)
      BY <1>1, AmidIs DEF AmidAt
    <3>2. e = [dec EXCEPT !.reps = <<o.dist, @[1], @[2], @[3]>>]
      BY <2>1, <2>4
    <3> QED
      BY <1>15, <2>1, <2>2, <2>5, <3>1, <3>2, Q!MatchStep
  <2>7. ~Q!Invalid(dec, dist)
    BY <2>2, <2>6 DEF Q!Copied, Q!Turned
  <2>8. Reached(w, x, z) /\ z.state = "go"
    BY <2>2, <2>6, <2>7, MovedReached DEF Q!Copied
  <2>9. d.m # -1
    BY <2>1, <2>3
  <2>10. Operation(d, "Match", x)
    <3>1. ~Invalid(dec, d.m)
      BY <2>1, <2>7, LzmaGet
    <3>2. [Now EXCEPT !.dec.reps = <<d.m, @[1], @[2], @[3]>>] = [dec |-> e, buf |-> buf]
      <4>1. [dec |-> dec, buf |-> buf].dec = dec
        OBVIOUS
      <4> QED
        BY <2>1, <2>4, <4>1 DEF Now
    <3>3. Operation(d, "Match", CopyMatch([dec |-> e, buf |-> buf], d.m, l.m + 2))
      BY <1>4, <1>15, <2>9, <3>1, <3>2
    <3> QED
      BY <2>1, <2>5, <3>3, LzmaCopied
  <2>11. Reads(t, d, w.at[i + 1])
    <3>1. OpSize(o) = 2 + (LengthSize(v) + (6 + RestSize(dist)))
      BY <1>6, <1>8, <1>15 DEF OpSize
    <3>2. PICK k, b : k = w.at[i] /\ b = LengthSize(v) + (6 + RestSize(dist))
      OBVIOUS
    <3>3. k \in Nat
      BY <1>5, <3>2
    <3>4. b \in Nat
      <4>1. LengthSize(v) \in Nat
        BY DEF LengthSize
      <4>2. RestSize(dist) \in Nat
        BY <1>7, RestListed
      <4> QED
        BY <3>2, <4>1, <4>2
    <3>5. w.at[i + 1] = k + (2 + b)
      BY <1>5, <3>1, <3>2 DEF Ahead
    <3>6. n = w.at[i + 1]
      BY <1>11, <3>2, <3>4, <3>5, <3>3
    <3> QED
      BY <1>12, <3>6 DEF Took
  <2>12. NextState["Match"][q + 1] = StateAfter(o, q)
    BY <1>5, <1>15, NextStateIs
  <2> QED
    BY <1>5, <1>15, <2>8, <2>10, <2>11, <2>12, OperationStep
<1> QED
  BY <1>2, <1>13, <1>14, <1>15

(* A match of one byte.                                                    *)
LEMMA CopyOne ==
  ASSUME NEW size \in Nat \ {0}, NEW h \in Q!Bytes, NEW d, Q!Ring(size, d, h),
         NEW dist \in Nat, dist < Len(h), dist < size
  PROVE  Q!Copy(h, dist, 1) = <<Q!GetByte(d, dist)>> /\ <<Q!GetByte(d, dist)>> \in Q!Bytes
<1>1. PICK n \in Nat : n = Len(h)
  BY DEF Q!Bytes
<1>2. Q!GetByte(d, dist) = h[n - dist]
  BY <1>1, Q!GetRing
<1>3. n - dist \in 1..n
  BY <1>1
<1>4. h[n - dist] \in Q!Byte
  BY <1>1, <1>3, Q!ElementsAre DEF Q!Bytes
<1>5. Q!Copy(h, dist, 1) = <<h[n - dist]>>
  <2>1. PICK b : b = h[n - dist]
    OBVIOUS
  <2>2. 0 % (dist + 1) = 0
    OBVIOUS
  <2>3. \A k \in 1..1 : h[(Len(h) - dist) + ((k - 1) % (dist + 1))] = b
    <3>1. (n - dist) + 0 = n - dist
      BY <1>1
    <3>2. \A k \in 1..1 : k - 1 = 0
      OBVIOUS
    <3> QED
      BY <1>1, <2>1, <2>2, <3>1, <3>2
  <2>4. Q!Copy(h, dist, 1) = [k \in 1..1 |-> b]
    BY <2>3 DEF Q!Copy
  <2>5. [k \in 1..1 |-> b] = <<b>>
    OBVIOUS
  <2> QED
    BY <2>1, <2>4, <2>5
<1> QED
  BY <1>2, <1>4, <1>5 DEF Q!Bytes

LEMMA ShortRepStep ==
  ASSUME LzmaAssumption, Amid, ShortRep
  PROVE  Decodes'
<1>1. PICK t, w, g, i, s, q, o, z, j : AmidAt(t, w, g, i, s, q, o, z, j) /\ Stage(pc, o, j)
  BY DEF Amid
<1>2. o.op = "rep" /\ o.i = 1 /\ o.len = 1 /\ j = 4
  BY <1>1 DEF ShortRep, Stage, Longer
<1>3. /\ Cap(w) \in Nat \ {0} /\ s \in Q!Meanings(Cap(w)) /\ s.hist \in Q!Bytes
      /\ Q!Ring(Cap(w), dec, s.hist) /\ dec.reps = s.reps /\ s.reps \in Q!Reps
      /\ Q!Handed(<<>>, buf, s.out) /\ Q!Follows(Cap(w), dec, s)
  BY <1>1, AmidIs DEF AmidAt
<1>4. /\ Ahead(t, w, g, i, s, q, o, z) /\ Working(t, w, g) /\ Where(t, w, i, w.at[i] + 4)
      /\ w.at[i] \in Nat /\ q \in 0..11
  BY <1>1, <1>2 DEF AmidAt, Ahead
<1>5. o \in Q!Operations /\ z = Q!Operated(s, o) /\ s.state = "go" /\ z.state # "bad"
  BY <1>4, LzmaOperated, LzmaIsOperation DEF Ahead
<1>6. PICK dist : dist = s.reps[1]
  OBVIOUS
<1>7. Q!Reused(s.reps, o.i) = s.reps
  BY <1>2 DEF Q!Reused
<1>8. /\ dist \in Nat
      /\ IF dist >= Len(s.hist) \/ dist >= Cap(w) THEN Q!Turned(Cap(w), s, z, "bad")
           ELSE Q!Grown(Cap(w), s, Q!Copy(s.hist, dist, o.len), z) /\ z.reps = s.reps
  BY <1>2, <1>3, <1>5, <1>6, <1>7, Q!RepMeans
<1>9. ~(dist >= Len(s.hist) \/ dist >= Cap(w))
  BY <1>5, <1>8 DEF Q!Turned
<1>10. ~Invalid(dec, dec.reps[1])
  BY <1>3, <1>6, <1>8, <1>9, Q!InvalidIs, LzmaGet
<1>11. PICK b : b = Q!GetByte(dec, dist)
  OBVIOUS
<1>12. Q!Copy(s.hist, dist, 1) = <<b>> /\ <<b>> \in Q!Bytes
  <2>1. dist < Len(s.hist) /\ dist < Cap(w)
    <3>1. Len(s.hist) \in Nat
      BY <1>3 DEF Q!Bytes
    <3> QED
      BY <1>3, <1>8, <1>9, <3>1
  <2> QED
    BY <1>3, <1>8, <1>11, <2>1, CopyOne
<1>13. Q!Grown(Cap(w), s, <<b>>, z) /\ z.reps = s.reps
  BY <1>2, <1>8, <1>9, <1>12
<1>14. PICK x : x = Q!PutBytes([dec |-> dec, buf |-> buf], <<b>>)
  OBVIOUS
<1>15. Q!Moved(Cap(w), <<>>, x, z)
  <2>1. Q!Follows(Cap(w), x.dec, z) /\ Q!Handed(<<>>, x.buf, z.out)
    BY <1>3, <1>12, <1>13, <1>14, Q!LiteralFollows
  <2> QED
    BY <2>1 DEF Q!Moved
<1>16. Reached(w, x, z) /\ z.state = "go"
  BY <1>5, <1>13, <1>15, MovedReached DEF Q!Grown
<1>17. Operation(rc.coder, "ShortRep", x)
  <2>1. Operation(rc.coder, "ShortRep", PutBytes(Now, <<GetByte(dec, dec.reps[1])>>))
    BY <1>10 DEF ShortRep
  <2>2. GetByte(dec, dec.reps[1]) = b
    BY <1>3, <1>6, <1>11, LzmaGet
  <2>3. PutBytes(Now, <<b>>) = x
    BY <1>14, LzmaPut DEF Now
  <2> QED
    BY <2>1, <2>2, <2>3
<1>18. Reads(t, rc.coder, w.at[i + 1]) /\ rc.coder.ok
  <2>1. OpSize(o) = 4
    BY <1>2 DEF OpSize, RepSize, Longer
  <2>2. w.at[i + 1] = w.at[i] + 4
    BY <1>4, <2>1 DEF Ahead
  <2> QED
    BY <1>4, <2>2 DEF Where
<1>19. NextState["ShortRep"][q + 1] = StateAfter(o, q)
  BY <1>2, <1>4, NextStateIs
<1> QED
  BY <1>4, <1>16, <1>17, <1>18, <1>19, OperationStep

-----------------------------------------------------------------------------
LEMMA RepLenStep ==
  ASSUME LzmaAssumption, LengthDue, RepLen
  PROVE  Failed' \/ Decodes'
<1>1. PICK t, w, g, i, s, q, o, z : LengthAt(t, w, g, i, s, q, o, z)
  BY DEF LengthDue
<1>2. /\ Working(t, w, g) /\ Ahead(t, w, g, i, s, q, o, z) /\ o.op = "rep" /\ ~Longer(o)
      /\ Where(t, w, i, w.at[i] + RepStart(o)) /\ Q!Ring(Cap(w), dec, s.hist)
      /\ w.at[i] \in Nat /\ q \in 0..11 /\ o \in Operations /\ Tape(t)
  BY <1>1 DEF LengthAt, Ahead, Working, Stored, Sealed
<1>3. o.i \in 1..4 /\ o.len \in 2..273
  BY <1>2, LzmaOpIs
<1>4. PICK v : v = o.len - 2 /\ v \in 0..271
  BY <1>3
<1>5. /\ Cap(w) \in Nat \ {0} /\ s \in Q!Meanings(Cap(w)) /\ s.reps \in Q!Reps
      /\ Q!Handed(<<>>, buf, s.out) /\ out = <<>>
  <2>1. Cap(w) \in Nat \ {0}
    BY <1>2, CapIs DEF Working, Stored, Sealed, Written
  <2>2. s \in Q!Meanings(Cap(w)) /\ s = w.s[i]
    BY <1>2 DEF Ahead
  <2>3. s.reps \in Q!Reps /\ s.out \in Q!Bytes
    BY <2>2 DEF Q!Meanings
  <2>4. buf = s.out /\ out = <<>>
    BY <1>2, <2>2 DEF Where
  <2> QED
    BY <2>1, <2>2, <2>3, <2>4, HandedAll
<1>6. PosState = Row(w.h, s)
  <2>1. Header = w.h
    BY <1>2, CameIs DEF Working, Header
  <2>2. dec.pos = Len(s.hist)
    BY <1>2 DEF Q!Ring
  <2> QED
    BY <2>1, <2>2 DEF PosState, Row
<1>7. PICK d : /\ d = DecodeLength(rc.coder, "repLen", Row(w.h, s))
               /\ IF ~d.ok \/ Invalid(dec, dec.reps[1]) THEN Fail
                    ELSE Operation(d, "LongRep", CopyMatch(Now, dec.reps[1], d.m + 2))
  BY <1>6 DEF RepLen
<1>8. PICK k : k = w.at[i] + RepStart(o)
  OBVIOUS
<1>9. Says(t, k, LengthBits("repLen", Row(w.h, s), v), LengthSize(v))
  <2>1. RepRest(t, w.at[i], w.h, s, q, o)
    BY <1>2 DEF Ahead, OpTold
  <2>2. o.len # 1
    BY <1>3
  <2>3. CASE o.i \in {1, 2}
    BY <1>4, <1>8, <2>1, <2>2, <2>3 DEF RepRest, RepStart, LengthOf
  <2>4. CASE o.i \in {3, 4}
    <3>1. RepStart(o) = 5
      BY <2>4 DEF RepStart
    <3>2. Says(t, w.at[i] + 5, LengthOf("repLen", w.h, s, o.len), LengthSize(o.len - 2))
      BY <2>1, <2>4 DEF RepRest
    <3> QED
      BY <1>4, <1>8, <3>1, <3>2 DEF LengthOf
  <2> QED
    BY <1>3, <2>3, <2>4
<1>10. Took(t, k + LengthSize(v), d, v)
  <2>1. Reads(t, rc.coder, k) /\ rc.coder.ok
    BY <1>2, <1>8 DEF Where
  <2> QED
    BY <1>2, <1>4, <1>7, <1>9, <2>1, LengthSays
<1>11. CASE ~d.ok
  BY <1>2, <1>5, <1>7, <1>10, <1>11, FailStep DEF Took
<1>12. CASE d.ok
  <2>1. PICK p : p = Q!Reused(s.reps, o.i) /\ dec.reps = p
    BY <1>1 DEF LengthAt
  <2>2. o \in Q!Operations /\ z = Q!Operated(s, o) /\ s.state = "go" /\ z.state # "bad"
    BY <1>2, LzmaOperated, LzmaIsOperation DEF Ahead
  <2>3. PICK dist \in Nat : dist = p[1]
    BY <1>2, <1>5, <2>1, <2>2, Q!RepMeans
  <2>4. /\ p \in Q!Reps
        /\ IF dist >= Len(s.hist) \/ dist >= Cap(w) THEN Q!Turned(Cap(w), s, z, "bad")
             ELSE Q!Grown(Cap(w), s, Q!Copy(s.hist, dist, o.len), z) /\ z.reps = p
    BY <1>2, <1>5, <2>1, <2>2, <2>3, Q!RepMeans
  <2>5. ~(dist >= Len(s.hist) \/ dist >= Cap(w))
    BY <2>2, <2>4 DEF Q!Turned
  <2>6. ~Invalid(dec, dist)
    <3>1. PICK y : y = [s EXCEPT !.reps = p]
      OBVIOUS
    <3>2. y \in Q!Meanings(Cap(w)) /\ y.reps = p /\ y.hist = s.hist
      BY <1>5, <2>4, <3>1, Q!RepsAre
    <3>3. Q!Follows(Cap(w), dec, y)
      BY <1>2, <2>1, <3>2 DEF Q!Follows
    <3>4. Q!Invalid(dec, dist) <=> dist >= Len(y.hist) \/ dist >= Cap(w)
      BY <1>5, <2>3, <3>2, <3>3, Q!InvalidIs
    <3> QED
      BY <2>5, <3>2, <3>4, LzmaGet
  <2>7. PICK x : x = Q!CopyMatch([dec |-> dec, buf |-> buf], dist, o.len)
    OBVIOUS
  <2>8. Q!Moved(Cap(w), <<>>, x, z) /\ z.state = "go"
    <3>1. Q!Grown(Cap(w), s, Q!Copy(s.hist, dist, o.len), z) /\ z.reps = dec.reps
      BY <2>1, <2>4, <2>5
    <3>2. dist < Len(s.hist) /\ dist < Cap(w) /\ o.len \in Nat
      <4>1. Len(s.hist) \in Nat
        BY <1>5 DEF Q!Meanings, Q!Bytes
      <4>2. PICK n \in Nat : n = Len(s.hist)
        BY <4>1
      <4>3. PICK c \in Nat : c = Cap(w)
        BY <1>5
      <4>4. o.len \in Nat
        BY <1>3
      <4>5. dist < n /\ dist < c
        BY <2>5, <4>2, <4>3
      <4> QED
        BY <4>2, <4>3, <4>4, <4>5
    <3>3. Q!Follows(Cap(w), x.dec, z) /\ Q!Handed(<<>>, x.buf, z.out)
      BY <1>2, <1>5, <2>3, <2>7, <3>1, <3>2, Q!CopyFollows
    <3> QED
      BY <2>2, <3>1, <3>3 DEF Q!Moved, Q!Grown
  <2>9. Reached(w, x, z)
    BY <2>8, MovedReached
  <2>10. Operation(d, "LongRep", x)
    <3>1. d.m + 2 = o.len
      BY <1>3, <1>4, <1>10, <1>12 DEF Took
    <3>2. Operation(d, "LongRep", CopyMatch(Now, dist, o.len))
      BY <1>7, <1>12, <2>1, <2>3, <2>6, <3>1
    <3> QED
      BY <2>7, <3>2, LzmaCopied DEF Now
  <2>11. Reads(t, d, w.at[i + 1])
    <3>1. PICK b \in Nat, a \in Nat : b = LengthSize(v) /\ a = w.at[i]
      <4>1. LengthSize(v) \in Nat
        BY DEF LengthSize
      <4> QED
        BY <1>2, <4>1
    <3>2. OpSize(o) = RepStart(o) + b
      <4>1. OpSize(o) = RepSize(o)
        BY <1>2 DEF OpSize
      <4>2. CASE o.i \in {1, 2}
        <5>1. RepSize(o) = 3 + (1 + b) /\ RepStart(o) = 4
          BY <1>2, <1>4, <3>1, <4>2 DEF RepSize, RepStart
        <5> QED
          BY <4>1, <5>1
      <4>3. CASE o.i \in {3, 4}
        <5>1. RepSize(o) = 3 + ((1 + 1) + b) /\ RepStart(o) = 5
          BY <1>2, <1>4, <3>1, <4>3 DEF RepSize, RepStart
        <5> QED
          BY <4>1, <5>1
      <4> QED
        BY <1>3, <4>2, <4>3
    <3>3. w.at[i + 1] = k + LengthSize(v)
      <4>1. RepStart(o) \in Nat
        BY DEF RepStart
      <4>2. w.at[i + 1] = a + (RepStart(o) + b)
        BY <1>2, <3>1, <3>2 DEF Ahead
      <4> QED
        BY <1>8, <3>1, <4>1, <4>2
    <3> QED
      BY <1>10, <3>3 DEF Took
  <2>12. NextState["LongRep"][q + 1] = StateAfter(o, q)
    BY <1>2, <1>3, NextStateIs
  <2> QED
    BY <1>2, <1>12, <2>8, <2>9, <2>10, <2>11, <2>12, OperationStep
<1> QED
  BY <1>11, <1>12

-----------------------------------------------------------------------------
(* All of it: where a stream is that the format allows.                    *)
AllWritten == pc = "deliver" /\ Idle /\ \E t, w : Stored(t, w)

Given == pc = "done" /\ out = src /\ err = FALSE

Allowed ==
  \/ AllWritten \/ (pc = "header" /\ Arrived) \/ (pc = "range" /\ Opened)
  \/ Decodes \/ Amid \/ LengthDue \/ Taken \/ Given \/ Failed

LzmaSound == Encodes \/ (pc # "encode" /\ (dst.sound => Allowed))

LEMMA LzmaFirst ==
  ASSUME LzmaAssumption, Init
  PROVE  LzmaSound
BY LzmaStarts DEF LzmaSound

(* No step but those of the encoder changes the stream.                    *)
LEMMA LaterKeeps ==
  ASSUME pc # "encode", Next
  PROVE  dst' = dst /\ pc' # "encode"
BY DEF Next, EncodeOp, EncodeNext, EndStream, Encoding, Deliver, ReadHeader,
       NewRangeDecoder, EndDecode, IsMatch, Literal, IsRep, Match,
       IsRepG0, IsRep0Long, ShortRep, IsRepG1, IsRepG2, RepLen,
       Read, Fail, Branch, Operation, Reuse, vars

LEMMA AllowedStep ==
  ASSUME LzmaAssumption, pc # "encode", Allowed, dst.sound, Next
  PROVE  Allowed'
<1>1. CASE AllWritten
  <2>1. Deliver
    BY <1>1 DEF AllWritten, Next, EncodeOp, EncodeNext, EndStream, Encoding, ReadHeader,
         NewRangeDecoder, EndDecode, IsMatch, Literal, IsRep, Match,
         IsRepG0, IsRep0Long, ShortRep, IsRepG1, IsRepG2, RepLen, Read
  <2> QED
    BY <1>1, <2>1, DeliverStep DEF AllWritten, Allowed
<1>2. CASE pc = "header" /\ Arrived
  <2>1. ReadHeader
    BY <1>2 DEF Next, EncodeOp, EncodeNext, EndStream, Encoding, Deliver,
         NewRangeDecoder, EndDecode, IsMatch, Literal, IsRep, Match,
         IsRepG0, IsRep0Long, ShortRep, IsRepG1, IsRepG2, RepLen, Read
  <2> QED
    BY <1>2, <2>1, ReadHeaderStep DEF Allowed
<1>3. CASE pc = "range" /\ Opened
  <2>1. NewRangeDecoder
    BY <1>3 DEF Next, EncodeOp, EncodeNext, EndStream, Encoding, Deliver, ReadHeader,
         EndDecode, IsMatch, Literal, IsRep, Match,
         IsRepG0, IsRep0Long, ShortRep, IsRepG1, IsRepG2, RepLen, Read
  <2> QED
    BY <1>3, <2>1, NewRangeDecoderStep DEF Allowed
<1>4. CASE Decodes
  <2>1. EndDecode \/ IsMatch
    BY <1>4 DEF Decodes, Next, EncodeOp, EncodeNext, EndStream, Encoding, Deliver,
         ReadHeader, NewRangeDecoder, Literal, IsRep, Match,
         IsRepG0, IsRep0Long, ShortRep, IsRepG1, IsRepG2, RepLen, Read
  <2> QED
    BY <1>4, <2>1, EndDecodeStep, IsMatchStep DEF Allowed
<1>5. CASE Amid
  <2>1. PICK o, j : Stage(pc, o, j)
    BY <1>5 DEF Amid
  <2>2. \/ Literal \/ IsRep \/ Match \/ IsRepG0 \/ IsRep0Long
        \/ ShortRep \/ IsRepG1 \/ IsRepG2
    BY <2>1 DEF Stage, Next, EncodeOp, EncodeNext, EndStream, Encoding, Deliver,
         ReadHeader, NewRangeDecoder, EndDecode, IsMatch, RepLen, Read
  <2> QED
    BY <1>5, <2>2, LiteralOpStep, IsRepStep, MatchOpStep, IsRepG0Step, IsRep0LongStep, ShortRepStep,
       IsRepG1Step, IsRepG2Step DEF Allowed
<1>6. CASE LengthDue
  <2>1. RepLen
    BY <1>6 DEF LengthDue, Next, EncodeOp, EncodeNext, EndStream, Encoding, Deliver,
         ReadHeader, NewRangeDecoder, EndDecode, IsMatch, Literal, IsRep, Match,
         IsRepG0, IsRep0Long, ShortRep, IsRepG1, IsRepG2, Read
  <2> QED
    BY <1>6, <2>1, RepLenStep DEF Allowed
<1>7. CASE Taken
  <2>1. Read
    BY <1>7 DEF Taken, Next, EncodeOp, EncodeNext, EndStream, Encoding, Deliver,
         ReadHeader, NewRangeDecoder, EndDecode, IsMatch, Literal, IsRep, Match,
         IsRepG0, IsRep0Long, ShortRep, IsRepG1, IsRepG2, RepLen
  <2> QED
    BY <1>7, <2>1 DEF Read, Taken, Given, Allowed
<1>8. CASE Given \/ Failed
  <2>1. UNCHANGED vars
    BY <1>8 DEF Given, Failed, Next, EncodeOp, EncodeNext, EndStream, Encoding, Deliver,
         ReadHeader, NewRangeDecoder, EndDecode, IsMatch, Literal, IsRep, Match,
         IsRepG0, IsRep0Long, ShortRep, IsRepG1, IsRepG2, RepLen, Read
  <2> QED
    BY <1>8, <2>1 DEF vars, Given, Failed, Allowed
<1> QED
  BY <1>1, <1>2, <1>3, <1>4, <1>5, <1>6, <1>7, <1>8 DEF Allowed

LEMMA LzmaOn ==
  ASSUME LzmaAssumption, LzmaSound, Next
  PROVE  LzmaSound'
<1>1. CASE Encodes
  <2>1. EncodeOp \/ EncodeNext \/ EndStream
    BY <1>1 DEF Encodes, Next, Deliver, ReadHeader,
         NewRangeDecoder, EndDecode, IsMatch, Literal, IsRep, Match,
         IsRepG0, IsRep0Long, ShortRep, IsRepG1, IsRepG2, RepLen, Read
  <2>2. CASE EndStream
    <3>1. AllWritten'
      BY <1>1, <2>2, EndStreamStep DEF AllWritten
    <3>2. (pc # "encode" /\ (dst.sound => Allowed))'
      BY <3>1 DEF AllWritten, Allowed
    <3> QED
      BY <3>2 DEF LzmaSound
  <2> QED
    BY <1>1, <2>1, <2>2, EncodeOpStep, EncodeNextStep DEF LzmaSound
<1>2. CASE pc # "encode" /\ (dst.sound => Allowed)
  <2>1. dst' = dst /\ pc' # "encode"
    BY <1>2, LaterKeeps
  <2>2. dst'.sound => Allowed'
    BY <1>2, <2>1, AllowedStep
  <2> QED
    BY <2>1, <2>2 DEF LzmaSound
<1> QED
  BY <1>1, <1>2 DEF LzmaSound

LEMMA LzmaReads ==
  ASSUME LzmaSound
  PROVE  RoundTrip /\ AllOrNothing
<1>1. ASSUME pc = "done", dst.sound
      PROVE  (out = src /\ err = FALSE) \/ (out = <<>> /\ err = TRUE /\ in # dst)
  <2>1. Allowed
    BY <1>1 DEF LzmaSound, Encodes
  <2>2. Given \/ Failed
    <3>1. \A o, j : ~Stage(pc, o, j)
      BY <1>1 DEF Stage
    <3> QED
      BY <1>1, <2>1, <3>1 DEF Allowed, AllWritten, Decodes, Amid, LengthDue, Taken
  <2> QED
    BY <2>2 DEF Given, Failed
<1>2. RoundTrip
  BY <1>1 DEF RoundTrip
<1>3. AllOrNothing
  BY <1>1 DEF AllOrNothing
<1> QED
  BY <1>2, <1>3

(* Nothing is lost while nothing happens.                                  *)
LEMMA LzmaStays ==
  ASSUME LzmaSound, UNCHANGED vars
  PROVE  LzmaSound'
<1>1. /\ src' = src /\ dst' = dst /\ in' = in /\ pc' = pc /\ rc' = rc
      /\ dec' = dec /\ limit' = limit /\ buf' = buf /\ out' = out /\ err' = err
  BY DEF vars
<1>2. Idle <=> Idle'
  BY <1>1 DEF Idle
<1>3. ASSUME NEW w
      PROVE  Meant(w) <=> Meant(w)'
  BY <1>1 DEF Meant
<1>4. Encodes <=> Encodes'
  BY <1>1, <1>2, <1>3 DEF Encodes, Encoded
<1>5. ASSUME NEW t, NEW w
      PROVE  Stored(t, w) <=> Stored(t, w)'
  BY <1>1, <1>3 DEF Stored
<1>6. ASSUME NEW t, NEW w
      PROVE  (Came(t, w) <=> Came(t, w)') /\ (Spoilt(w) <=> Spoilt(w)')
  BY <1>1 DEF Came, Spoilt
<1>7. (AllWritten <=> AllWritten') /\ (Arrived <=> Arrived') /\ (Opened <=> Opened')
  <2>1. AllWritten <=> AllWritten'
    BY <1>1, <1>2, <1>5 DEF AllWritten
  <2>2. Arrived <=> Arrived'
    BY <1>2, <1>5, <1>6 DEF Arrived
  <2>3. Opened <=> Opened'
    <3>1. ASSUME NEW w
          PROVE  Ready(w) <=> Ready(w)'
      BY <1>1 DEF Ready
    <3> QED
      BY <1>2, <1>5, <1>6, <3>1 DEF Opened
  <2> QED
    BY <2>1, <2>2, <2>3
<1>8. ASSUME NEW t, NEW w, NEW g
      PROVE  Working(t, w, g) <=> Working(t, w, g)'
  BY <1>1, <1>5, <1>6 DEF Working
<1>9. ASSUME NEW t, NEW w, NEW i, NEW k
      PROVE  Where(t, w, i, k) <=> Where(t, w, i, k)'
  BY <1>1 DEF Where
<1>10. Decodes <=> Decodes'
  BY <1>1, <1>8, <1>9 DEF Decodes, Between
<1>11. Amid <=> Amid'
  <2>1. ASSUME NEW t, NEW w, NEW g, NEW i, NEW s, NEW q, NEW o, NEW z, NEW j
        PROVE  AmidAt(t, w, g, i, s, q, o, z, j) <=> AmidAt(t, w, g, i, s, q, o, z, j)'
    BY <1>1, <1>8, <1>9 DEF AmidAt
  <2>2. ASSUME NEW o, NEW j
        PROVE  Stage(pc, o, j) <=> Stage(pc, o, j)'
    BY <1>1
  <2> QED
    BY <2>1, <2>2 DEF Amid
<1>12. LengthDue <=> LengthDue'
  BY <1>1, <1>8, <1>9 DEF LengthDue, LengthAt
<1>13. (Taken <=> Taken') /\ (Given <=> Given') /\ (Failed <=> Failed')
  BY <1>1 DEF Taken, Given, Failed
<1>14. Allowed <=> Allowed'
  BY <1>1, <1>7, <1>10, <1>11, <1>12, <1>13 DEF Allowed
<1> QED
  BY <1>1, <1>4, <1>14 DEF LzmaSound

LEMMA LzmaKept ==
  ASSUME LzmaAssumption, LzmaSound, [Next]_vars
  PROVE  LzmaSound'
BY LzmaOn, LzmaStays

(* A stream that the format allows, of whatever properties and operations, *)
(* is read to what it means; of one that is cut, or that does not begin as *)
(* it must, everything is read or, with an error, nothing                  *)
(* (xz_decompress.go:446, 1046).                                           *)
THEOREM LzmaReadsBack ==
  ASSUME LzmaAssumption
  PROVE  Spec => [](RoundTrip /\ AllOrNothing)
<1>1. Init => LzmaSound
  BY LzmaFirst
<1>2. LzmaSound /\ [Next]_vars => LzmaSound'
  BY LzmaKept
<1>3. LzmaSound => RoundTrip /\ AllOrNothing
  BY LzmaReads
<1> QED
  BY <1>1, <1>2, <1>3, PTL DEF Spec
=============================================================================
