------------------------- MODULE ExtractTree_proofs -------------------------
(***************************************************************************)
(* Proofs about ExtractTree, for any images and any limits.                *)
(***************************************************************************)
EXTENDS ExtractTree, FiniteSetTheorems, SequenceTheorems, TLAPS

-----------------------------------------------------------------------------
(* What fails fails first.                                                 *)

(* A set of natural numbers that is not empty has a least element.  A set  *)
(* of numbers at which something fails is what it is used with.            *)
LEMMA HasLeast ==
  ASSUME NEW S \in SUBSET Nat, S # {}
  PROVE  \E m \in S : \A n \in S : m <= n
<1> DEFINE R == {x \in Nat \X Nat : x[1] < x[2]}
<1>1. IsWellFoundedOn(R, Nat)
  BY NatLessThanWellFounded DEF OpToRel
<1>2. \A m, n \in Nat : <<n, m>> \notin R => m <= n
  OBVIOUS
<1> HIDE DEF R
<1> QED
  BY <1>1, <1>2, WFMin

-----------------------------------------------------------------------------
(* The inductive invariant.                                                *)

Call == [path : Seq(STRING), ref : DOMAIN image.node, i : Nat \ {0}]
List(r) == Node(r).entries

(* The types, with what is on disk and on the stack in the image. *)
Typed ==
  /\ image \in Images
  /\ pc \in {"start", "walk", "done"}
  /\ stack \in Seq(Call)
  /\ count \in Nat
  /\ seen \in SUBSET Nat
  /\ \A p \in DOMAIN made : p \in Seq(STRING) /\ made[p] \in DOMAIN image.node
  /\ strayed \in BOOLEAN
  /\ err \in BOOLEAN

(* Before the walk there is nothing, from then on the root is there, and   *)
(* no call is left at the end.  Only a root that cannot be listed is an    *)
(* error, and there is no walk then.                                       *)
Phases ==
  /\ pc = "start" => /\ stack = <<>> /\ count = 0 /\ seen = {}
                     /\ DOMAIN made = {} /\ ~strayed /\ ~err
  /\ pc # "start" /\ ~err => <<>> \in DOMAIN made /\ made[<<>>] = image.root
  /\ pc = "walk" => ~err
  /\ pc = "done" => stack = <<>>
  /\ pc # "start" /\ err => Node(image.root).type # "dir"

(* Each call is for a directory of the image, not too deep. *)
CallsInTree ==
  \A k \in DOMAIN stack :
    /\ [path |-> stack[k].path, ref |-> stack[k].ref] \in Tree
    /\ Len(stack[k].path) <= MaxDepth
    /\ stack[k].path = <<>> \/ IsDir(stack[k].ref)

(* What is on disk is in a directory on disk. *)
InDirs == \A p \in DOMAIN made \ {<<>>} : At(ButLast(p)) = "dir"

(* What is on disk is in the tree of the image. *)
InTree == OnDisk \subseteq Tree

(* The directories on disk. *)
Entered == {p \in DOMAIN made : p = <<>> \/ IsDir(made[p])}
Numbers == {Node(made[p]).number : p \in Entered} \ {0}

(* seen has their numbers. *)
SeenHas == Numbers \subseteq seen

(* No two directories on disk have a number in common. *)
NumbersOnce ==
  \A p, q \in Entered :
    Node(made[p]).number > 0 /\ Node(made[p]).number = Node(made[q]).number => p = q

(* Files and links on disk are counted. *)
Counted == {p \in DOMAIN made : p # <<>> /\ Node(made[p]).type \in {"file", "link"}}
CountCovers == IsFiniteSet(Counted) /\ Cardinality(Counted) <= count

(* The files on disk are within the limit. *)
Files == Made({"file"})
FilesFit == Cardinality(Files) <= MaxFiles

(* What holds on any image. *)
Base ==
  /\ Typed
  /\ Phases
  /\ CallsInTree
  /\ InDirs
  /\ InTree
  /\ SeenHas
  /\ NumbersOnce
  /\ CountCovers
  /\ FilesFit

(* Each call is for a directory on disk, and no two are for the same one.  *)
CallsMade ==
  /\ \A k \in DOMAIN stack :
       /\ stack[k].path \in DOMAIN made
       /\ made[stack[k].path] = stack[k].ref
  /\ \A j, k \in DOMAIN stack : stack[j].path = stack[k].path => j = k

(* What is on disk was made from an entry of its directory that the call   *)
(* for that directory has passed.                                          *)
Passed ==
  \A p \in DOMAIN made \ {<<>>} : \A k \in DOMAIN stack :
    stack[k].path = ButLast(p) =>
      \E j \in DOMAIN List(stack[k].ref) :
        j < stack[k].i /\ p[Len(p)] = List(stack[k].ref)[j].name

(* seen has no other numbers, and nothing else is counted. *)
SeenExact == seen = Numbers
CountExact == count = Cardinality(Counted)

(* Of a directory of a well-formed image, everything is on disk but what   *)
(* the call for it has still ahead.                                        *)
NothingMissed ==
  WellFormed =>
    \A p \in DOMAIN made :
      Node(made[p]).type = "dir" =>
        \A j \in DOMAIN List(made[p]) :
          LET e == List(made[p])[j]
          IN \/ Append(p, e.name) \in DOMAIN made /\ made[Append(p, e.name)] = e.ref
             \/ \E k \in DOMAIN stack : stack[k].path = p /\ stack[k].i <= j

(* What holds if no listing has a name twice. *)
Clean ==
  /\ ~strayed
  /\ CallsMade
  /\ Passed
  /\ SeenExact
  /\ CountExact
  /\ NothingMissed

IInv == Base /\ (DistinctNames => Clean)

-----------------------------------------------------------------------------
(* The levels of the tree of an image.                                     *)

(* What the levels up to the N-th have to be. *)
AreLevels(im, f, N) ==
  f = [n \in 0..N |-> IF n = 0 THEN {[path |-> <<>>, ref |-> im.root]}
                               ELSE UNION {Below(im, x) : x \in f[n - 1]}]

(* There are such levels, up to any. *)
LEMMA LevelsExist ==
  ASSUME NEW im
  PROVE  \A N \in Nat : \E f : AreLevels(im, f, N)
<1> DEFINE root == {[path |-> <<>>, ref |-> im.root]}
           next(S) == UNION {Below(im, x) : x \in S}
           Sol(f, m) == f = [n \in 0..m |-> IF n = 0 THEN root ELSE next(f[n - 1])]
           Bad == {m \in Nat : ~ \E f : Sol(f, m)}
<1>1. ASSUME Bad # {}
      PROVE  FALSE
  <2>1. PICK m \in Bad : \A n \in Bad : m <= n
    <3>1. Bad \subseteq Nat
      OBVIOUS
    <3> HIDE DEF Bad
    <3> QED
      BY <1>1, <3>1, HasLeast
  <2>2. m # 0
    <3> SUFFICES ASSUME m = 0 PROVE FALSE
      OBVIOUS
    <3>1. Sol([n \in 0..0 |-> root], 0)
      OBVIOUS
    <3> QED
      BY <3>1
  <2>3. m - 1 \in Nat /\ m - 1 \notin Bad
    <3>1. m \in Nat
      OBVIOUS
    <3> HIDE DEF Bad
    <3> QED
      BY <2>1, <2>2, <3>1
  <2>4. PICK f : Sol(f, m - 1)
    BY <2>3
  <2> DEFINE g == [n \in 0..m |-> IF n = m THEN next(f[m - 1]) ELSE f[n]]
  <2>5. Sol(g, m)
    <3> SUFFICES ASSUME NEW n \in 0..m
                 PROVE  g[n] = IF n = 0 THEN root ELSE next(g[n - 1])
      OBVIOUS
    <3> HIDE DEF root, next
    <3>1. n \in Nat /\ m \in Nat /\ n <= m
      BY <2>1
    <3>2. CASE n = m
      <4>1. g[n - 1] = f[m - 1] /\ g[n] = next(f[m - 1])
        BY <2>2, <3>1, <3>2
      <4> QED
        BY <2>2, <3>2, <4>1
    <3>3. CASE n # m
      <4>1. n \in 0..m - 1 /\ (n # 0 => n - 1 \in 0..m - 1)
        BY <3>1, <3>3
      <4>2. g[n] = f[n] /\ (n # 0 => g[n - 1] = f[n - 1])
        BY <3>1, <3>3, <4>1
      <4> QED
        BY <2>4, <4>1, <4>2
    <3> QED
      BY <3>2, <3>3
  <2> QED
    BY <2>5
<1> QED
  BY <1>1 DEF AreLevels

(* The first level is the root, each other one what is below the one       *)
(* before it.                                                              *)
LEMMA LevelEquations ==
  ASSUME NEW im
  PROVE  /\ DOMAIN Level(im) = 0..MaxDepth + 2
         /\ Level(im)[0] = {[path |-> <<>>, ref |-> im.root]}
         /\ \A n \in 0..MaxDepth + 1 :
              Level(im)[n + 1] = UNION {Below(im, x) : x \in Level(im)[n]}
<1>1. Level(im) = CHOOSE f : AreLevels(im, f, MaxDepth + 2)
  BY DEF Level, AreLevels
<1>2. MaxDepth + 2 \in Nat
  BY LimitAssumption
<1> DEFINE L == Level(im)
           root == {[path |-> <<>>, ref |-> im.root]}
           next(s) == UNION {Below(im, x) : x \in s}
<1>3. L = [n \in 0..MaxDepth + 2 |-> IF n = 0 THEN root ELSE next(L[n - 1])]
  <2>1. \E f : AreLevels(im, f, MaxDepth + 2)
    BY <1>2, LevelsExist
  <2> HIDE DEF L, root, next
  <2>2. AreLevels(im, L, MaxDepth + 2)
    BY <1>1, <2>1, Zenon DEF L
  <2> QED
    BY <2>2 DEF AreLevels, root, next
<1> HIDE DEF L, root, next
<1>4. DOMAIN L = 0..MaxDepth + 2 /\ L[0] = root
  BY <1>2, <1>3
<1>5. ASSUME NEW n \in 0..MaxDepth + 1
      PROVE  L[n + 1] = next(L[n])
  <2>1. n + 1 \in 0..MaxDepth + 2 /\ n + 1 # 0 /\ (n + 1) - 1 = n
    BY LimitAssumption
  <2> DEFINE m == n + 1
  <2>2. m \in 0..MaxDepth + 2 /\ m # 0 /\ m - 1 = n
    BY <2>1
  <2> HIDE DEF m
  <2>3. L[m] = next(L[m - 1])
    BY <1>3, <2>2
  <2> QED
    BY <2>2, <2>3 DEF m
<1> QED
  BY <1>4, <1>5 DEF L, root, next

(* An entry on a level has a path as long as the level is deep. *)
LEMMA LevelTyped ==
  ASSUME NEW im \in Images, NEW n \in 0..MaxDepth + 2, NEW x \in Level(im)[n]
  PROVE  /\ x \in [path : Seq(STRING), ref : DOMAIN im.node]
         /\ Len(x.path) = n
<1> DEFINE Right(m) == \A y \in Level(im)[m] : /\ y \in [path : Seq(STRING), ref : DOMAIN im.node]
                                               /\ Len(y.path) = m
           Bad == {m \in 0..MaxDepth + 2 : ~Right(m)}
<1>1. ASSUME Bad # {}
      PROVE  FALSE
  <2>1. PICK m \in Bad : \A k \in Bad : m <= k
    <3>1. Bad \subseteq Nat
      OBVIOUS
    <3> HIDE DEF Bad
    <3> QED
      BY <1>1, <3>1, HasLeast
  <2>2. m \in 0..MaxDepth + 2 /\ ~Right(m)
    OBVIOUS
  <2>3. m # 0
    <3>1. Right(0)
      <4>1. Level(im)[0] = {[path |-> <<>>, ref |-> im.root]}
        BY LevelEquations
      <4>2. <<>> \in Seq(STRING) /\ Len(<<>>) = 0
        BY EmptySeq
      <4>3. im.root \in DOMAIN im.node
        BY ImageAssumption, Zenon
      <4>4. ASSUME NEW y \in Level(im)[0]
            PROVE  y \in [path : Seq(STRING), ref : DOMAIN im.node] /\ Len(y.path) = 0
        <5>1. y = [path |-> <<>>, ref |-> im.root]
          BY <4>1
        <5> QED
          BY <4>2, <4>3, <5>1
      <4> QED
        BY <4>4
    <3> QED
      BY <2>2, <3>1
  <2>4. m - 1 \in 0..MaxDepth + 1 /\ Right(m - 1)
    <3> HIDE DEF Right
    <3> QED
      BY <2>1, <2>2, <2>3, LimitAssumption
  <2>5. Level(im)[m] = UNION {Below(im, y) : y \in Level(im)[m - 1]}
    BY <2>2, <2>4, LevelEquations
  <2>6. ASSUME NEW y \in Level(im)[m - 1], NEW z \in Below(im, y)
        PROVE  z \in [path : Seq(STRING), ref : DOMAIN im.node] /\ Len(z.path) = m
    <3>1. y.path \in Seq(STRING) /\ y.ref \in DOMAIN im.node /\ Len(y.path) = m - 1
      BY <2>4
    <3> DEFINE list == im.node[y.ref].entries
    <3>2. list \in Seq([name : STRING, ref : DOMAIN im.node])
      BY <3>1, ImageAssumption
    <3>3. PICK i \in DOMAIN list :
            z = [path |-> Append(y.path, list[i].name), ref |-> list[i].ref]
      BY DEF Below
    <3> HIDE DEF list
    <3>4. list[i].name \in STRING /\ list[i].ref \in DOMAIN im.node
      <4>1. list[i] \in [name : STRING, ref : DOMAIN im.node]
        <5> DEFINE E == [name : STRING, ref : DOMAIN im.node]
        <5>1. i \in 1..Len(list)
          BY <3>2, <3>3
        <5>2. list \in Seq(E)
          BY <3>2
        <5> HIDE DEF E
        <5>3. list[i] \in E
          BY <5>1, <5>2, ElementOfSeq
        <5> QED
          BY <5>3 DEF E
      <4> QED
        BY <4>1
    <3>5. Append(y.path, list[i].name) \in Seq(STRING) /\ Len(Append(y.path, list[i].name)) = m
      BY <2>2, <3>1, <3>4
    <3> QED
      BY <3>3, <3>4, <3>5
  <2>7. Right(m)
    BY <2>5, <2>6
  <2> QED
    BY <2>2, <2>7
<1> QED
  <2>1. Right(n)
    <3> HIDE DEF Right
    <3> QED
      BY <1>1
  <2> QED
    BY <2>1

(* Every entry of the tree is on the level of its path's length. *)
LEMMA TreeTyped ==
  ASSUME image \in Images, NEW x \in Tree
  PROVE  /\ x \in [path : Seq(STRING), ref : DOMAIN image.node]
         /\ x \in Level(image)[Len(x.path)]
<1>1. PICK n \in 0..MaxDepth + 2 : x \in Level(image)[n]
  BY LevelEquations DEF Tree
<1> QED
  BY <1>1, LevelTyped

(* The root is in the tree. *)
LEMMA TreeRoot == [path |-> <<>>, ref |-> image.root] \in Tree
<1>1. 0 \in 0..MaxDepth + 2
  BY LimitAssumption
<1> QED
  BY <1>1, LevelEquations DEF Tree

(* What a directory lists is in the tree, unless it is on the last level.  *)
LEMMA TreeBelow ==
  ASSUME image \in Images, NEW x \in Tree, Len(x.path) <= MaxDepth + 1
  PROVE  Below(image, x) \subseteq Tree
<1>1. x \in Level(image)[Len(x.path)] /\ Len(x.path) \in 0..MaxDepth + 1
  BY TreeTyped, LimitAssumption
<1>2. Len(x.path) + 1 \in 0..MaxDepth + 2
  BY <1>1, LimitAssumption
<1>3. Below(image, x) \subseteq Level(image)[Len(x.path) + 1]
  <2>1. Level(image)[Len(x.path) + 1] = UNION {Below(image, y) : y \in Level(image)[Len(x.path)]}
    BY <1>1, LevelEquations
  <2> QED
    BY <1>1, <2>1
<1> QED
  BY <1>2, <1>3, LevelEquations DEF Tree

(* A set that has the root, and with an entry of the tree what is below    *)
(* it, has the whole tree.                                                 *)
LEMMA TreeClosed ==
  ASSUME NEW S, [path |-> <<>>, ref |-> image.root] \in S,
         \A x \in S \cap Tree : Below(image, x) \subseteq S
  PROVE  Tree \subseteq S
<1> DEFINE L(n) == Level(image)[n]
           Bad == {n \in 0..MaxDepth + 2 : ~(L(n) \subseteq S)}
<1>1. ASSUME Bad # {}
      PROVE  FALSE
  <2>1. PICK m \in Bad : \A k \in Bad : m <= k
    <3>1. Bad \subseteq Nat
      OBVIOUS
    <3> HIDE DEF Bad
    <3> QED
      BY <1>1, <3>1, HasLeast
  <2>2. m \in 0..MaxDepth + 2 /\ ~(L(m) \subseteq S)
    OBVIOUS
  <2>3. m # 0
    BY <2>2, LevelEquations
  <2>4. m - 1 \in 0..MaxDepth + 1 /\ m - 1 \in 0..MaxDepth + 2 /\ L(m - 1) \subseteq S
    <3> HIDE DEF L
    <3> QED
      BY <2>1, <2>2, <2>3, LimitAssumption
  <2>5. L(m) = UNION {Below(image, y) : y \in L(m - 1)}
    BY <2>2, <2>4, LevelEquations
  <2>6. L(m - 1) \subseteq Tree
    BY <2>4, LevelEquations DEF Tree
  <2> QED
    <3> HIDE DEF L
    <3> QED
      BY <2>2, <2>4, <2>5, <2>6
<1>2. \A n \in 0..MaxDepth + 2 : L(n) \subseteq S
  BY <1>1
<1>3. Tree = UNION {L(n) : n \in 0..MaxDepth + 2}
  BY LevelEquations DEF Tree
<1> QED
  <2> HIDE DEF L
  <2> QED
    BY <1>2, <1>3

(* What a function yields on a finite set is a finite set. *)
LEMMA FiniteImage ==
  ASSUME NEW S, IsFiniteSet(S), NEW f, DOMAIN f = S, f = [x \in S |-> f[x]]
  PROVE  IsFiniteSet({f[x] : x \in S})
<1> DEFINE T == {f[x] : x \in S}
<1>1. f \in Surjection(S, T)
  BY DEF Surjection
<1> QED
  BY <1>1, FS_Surjection

(* A level is finite, as listings are. *)
LEMMA LevelFinite ==
  ASSUME NEW im \in Images, NEW n \in 0..MaxDepth + 2
  PROVE  IsFiniteSet(Level(im)[n])
<1> DEFINE Bad == {m \in 0..MaxDepth + 2 : ~IsFiniteSet(Level(im)[m])}
<1>1. ASSUME Bad # {}
      PROVE  FALSE
  <2>1. PICK m \in Bad : \A k \in Bad : m <= k
    <3>1. Bad \subseteq Nat
      OBVIOUS
    <3> HIDE DEF Bad
    <3> QED
      BY <1>1, <3>1, HasLeast
  <2>2. m \in 0..MaxDepth + 2 /\ ~IsFiniteSet(Level(im)[m])
    OBVIOUS
  <2>3. m # 0
    <3>1. IsFiniteSet(Level(im)[0])
      <4>1. Level(im)[0] = {[path |-> <<>>, ref |-> im.root]}
        BY LevelEquations
      <4> QED
        BY <4>1, FS_Singleton
    <3> QED
      BY <2>2, <3>1
  <2>4. m - 1 \in 0..MaxDepth + 1 /\ m - 1 \in 0..MaxDepth + 2 /\ IsFiniteSet(Level(im)[m - 1])
    BY <2>1, <2>2, <2>3, LimitAssumption
  <2> DEFINE L == Level(im)[m - 1]
             f == [y \in L |-> Below(im, y)]
  <2>5. Level(im)[m] = UNION {f[y] : y \in L}
    <3>1. Level(im)[m] = UNION {Below(im, y) : y \in L}
      BY <2>2, <2>4, LevelEquations
    <3> QED
      BY <3>1
  <2>6. IsFiniteSet({f[y] : y \in L})
    <3>1. DOMAIN f = L /\ f = [y \in L |-> f[y]] /\ IsFiniteSet(L)
      BY <2>4
    <3> HIDE DEF f, L
    <3> QED
      BY <3>1, FiniteImage
  <2>7. ASSUME NEW y \in L
        PROVE  IsFiniteSet(Below(im, y))
    <3> DEFINE list == im.node[y.ref].entries
               g == [i \in DOMAIN list |->
                       [path |-> Append(y.path, list[i].name), ref |-> list[i].ref]]
    <3>1. list \in Seq([name : STRING, ref : DOMAIN im.node])
      BY <2>4, LevelTyped, ImageAssumption
    <3>2. IsFiniteSet(DOMAIN list)
      <4>1. DOMAIN list = 1..Len(list) /\ Len(list) \in Nat
        BY <3>1
      <4>2. IsFiniteSet(1..Len(list))
        <5> HIDE DEF list
        <5> QED
          BY <4>1, FS_Interval
      <4> QED
        BY <4>1, <4>2
    <3>3. Below(im, y) = {g[i] : i \in DOMAIN list}
      BY DEF Below
    <3>4. DOMAIN g = DOMAIN list /\ g = [i \in DOMAIN list |-> g[i]]
      OBVIOUS
    <3> HIDE DEF g, list
    <3> QED
      BY <3>2, <3>3, <3>4, FiniteImage
  <2>8. \A T \in {f[y] : y \in L} : IsFiniteSet(T)
    BY <2>7
  <2>9. IsFiniteSet(UNION {f[y] : y \in L})
    <3> HIDE DEF f, L
    <3> QED
      BY <2>6, <2>8, FS_UNION
  <2> QED
    BY <2>2, <2>5, <2>9
<1> QED
  BY <1>1

(* The tree is finite. *)
LEMMA TreeFinite ==
  ASSUME image \in Images
  PROVE  IsFiniteSet(Tree)
<1> DEFINE f == Level(image)
           S == 0..MaxDepth + 2
           g == [n \in S |-> f[n]]
<1>1. IsFiniteSet(S)
  BY LimitAssumption, FS_Interval
<1>2. IsFiniteSet({g[n] : n \in S})
  <2>1. DOMAIN g = S /\ g = [n \in S |-> g[n]]
    OBVIOUS
  <2> HIDE DEF g, S
  <2> QED
    BY <1>1, <2>1, FiniteImage
<1>3. \A T \in {g[n] : n \in S} : IsFiniteSet(T)
  BY LevelFinite
<1>4. Tree = UNION {g[n] : n \in S}
  BY LevelEquations DEF Tree
<1> QED
  <2> HIDE DEF g, S
  <2> QED
    BY <1>2, <1>3, <1>4, FS_UNION

-----------------------------------------------------------------------------
(* Paths.                                                                  *)

(* Adding a name at the end leaves what comes before it. *)
LEMMA PrefixOfAppend ==
  ASSUME NEW S, NEW s \in Seq(S), NEW e \in S, NEW n \in 0..Len(s)
  PROVE  SubSeq(Append(s, e), 1, n) = SubSeq(s, 1, n)
<1> DEFINE a == Append(s, e)
           f == SubSeq(a, 1, n)
           g == SubSeq(s, 1, n)
<1>1. /\ a \in Seq(S) /\ Len(a) = Len(s) + 1 /\ Len(s) \in Nat
      /\ \A i \in 1..Len(s) : a[i] = s[i] /\ s[i] \in S
  BY AppendProperties, ElementOfSeq, LenProperties
<1> HIDE DEF a
<1>2. f \in Seq(S) /\ Len(f) = n /\ \A i \in 1..n : f[i] = a[i]
  BY <1>1
<1>3. g \in Seq(S) /\ Len(g) = n /\ \A i \in 1..n : g[i] = s[i]
  BY <1>1
<1>4. \A i \in 1..n : f[i] = g[i]
  BY <1>1, <1>2, <1>3
<1>5. f = g
  <2> HIDE DEF f, g
  <2> QED
    BY <1>2, <1>3, <1>4, SeqEqual
<1> QED
  BY <1>5 DEF a

(* A prefix of a prefix is one. *)
LEMMA PrefixOfPrefix ==
  ASSUME NEW S, NEW s \in Seq(S), NEW m \in 0..Len(s), NEW n \in 0..m
  PROVE  /\ SubSeq(SubSeq(s, 1, m), 1, n) = SubSeq(s, 1, n)
         /\ SubSeq(s, 1, m) \in Seq(S) /\ Len(SubSeq(s, 1, m)) = m
         /\ SubSeq(s, 1, Len(s)) = s
<1> DEFINE a == SubSeq(s, 1, m)
           f == SubSeq(a, 1, n)
           g == SubSeq(s, 1, n)
           h == SubSeq(s, 1, Len(s))
<1>1. Len(s) \in Nat /\ \A i \in 1..Len(s) : s[i] \in S
  BY ElementOfSeq, LenProperties
<1>2. a \in Seq(S) /\ Len(a) = m /\ \A i \in 1..m : a[i] = s[i]
  BY <1>1
<1>3. g \in Seq(S) /\ Len(g) = n /\ \A i \in 1..n : g[i] = s[i]
  BY <1>1
<1>4. h \in Seq(S) /\ Len(h) = Len(s) /\ \A i \in 1..Len(s) : h[i] = s[i]
  BY <1>1
<1> HIDE DEF a
<1>5. f \in Seq(S) /\ Len(f) = n /\ \A i \in 1..n : f[i] = a[i]
  <2>1. \A i \in 1..n : a[i] \in S
    BY <1>1, <1>2
  <2> QED
    BY <1>2, <2>1
<1>6. f = g
  <2>1. \A i \in 1..n : f[i] = g[i]
    BY <1>2, <1>3, <1>5
  <2> HIDE DEF f, g
  <2> QED
    BY <1>3, <1>5, <2>1, SeqEqual
<1>7. h = s
  <2> HIDE DEF h
  <2> QED
    BY <1>4, SeqEqual
<1> QED
  BY <1>2, <1>6, <1>7 DEF a

(* Above an entry of the tree there are directories, at every step of its  *)
(* path.                                                                   *)
LEMMA TreeAncestors ==
  ASSUME image \in Images, NEW x \in Tree, NEW n \in Nat, n < Len(x.path)
  PROVE  \E y \in Tree : y.path = SubSeq(x.path, 1, n) /\ IsDir(y.ref)
<1> DEFINE Above(z, k) == \E y \in Tree : y.path = SubSeq(z.path, 1, k) /\ IsDir(y.ref)
           Right(m) == \A z \in Level(image)[m] : \A k \in 0..m - 1 : Above(z, k)
           Bad == {m \in 0..MaxDepth + 2 : ~Right(m)}
<1>1. ASSUME Bad # {}
      PROVE  FALSE
  <2>1. PICK m \in Bad : \A k \in Bad : m <= k
    <3>1. Bad \subseteq Nat
      OBVIOUS
    <3> HIDE DEF Bad
    <3> QED
      BY <1>1, <3>1, HasLeast
  <2>2. m \in 0..MaxDepth + 2 /\ ~Right(m)
    OBVIOUS
  <2> HIDE DEF Above
  <2>3. m # 0
    BY <2>2
  <2>4. m - 1 \in 0..MaxDepth + 1 /\ m - 1 \in 0..MaxDepth + 2 /\ Right(m - 1)
    <3> HIDE DEF Right
    <3> QED
      BY <2>1, <2>2, <2>3, LimitAssumption
  <2>5. Level(image)[m] = UNION {Below(image, y) : y \in Level(image)[m - 1]}
    BY <2>2, <2>4, LevelEquations
  <2>6. ASSUME NEW w \in Level(image)[m - 1], NEW z \in Below(image, w), NEW k \in 0..m - 1
        PROVE  Above(z, k)
    <3>1. w.path \in Seq(STRING) /\ w.ref \in DOMAIN image.node /\ Len(w.path) = m - 1
      BY <2>4, LevelTyped
    <3> DEFINE list == image.node[w.ref].entries
               E == [name : STRING, ref : DOMAIN image.node]
    <3>2. list \in Seq(E)
      BY <3>1, ImageAssumption
    <3>3. PICK i \in DOMAIN list :
            z = [path |-> Append(w.path, list[i].name), ref |-> list[i].ref]
      BY DEF Below
    <3>4. list[i].name \in STRING
      <4>1. list[i] \in E
        <5> HIDE DEF E, list
        <5> QED
          BY <3>2, <3>3, ElementOfSeq, LenProperties
      <4> QED
        BY <4>1
    <3>5. SubSeq(z.path, 1, k) = SubSeq(w.path, 1, k)
      <4>1. k \in 0..Len(w.path)
        BY <3>1
      <4> HIDE DEF list
      <4> QED
        BY <3>1, <3>3, <3>4, <4>1, PrefixOfAppend
    <3>6. CASE k = m - 1
      <4>1. SubSeq(w.path, 1, k) = w.path
        <5>1. 0 \in 0..Len(w.path) /\ 0 \in 0..0
          BY <3>1, <2>4
        <5> QED
          BY <3>1, <3>6, <5>1, PrefixOfPrefix
      <4>2. IsDir(w.ref)
        <5>1. list # <<>>
          BY <3>3
        <5> QED
          BY <3>1, <5>1, ImageAssumption DEF IsDir, Node
      <4>3. w \in Tree
        BY <2>4, LevelEquations DEF Tree
      <4> QED
        BY <3>5, <4>1, <4>2, <4>3 DEF Above
    <3>7. CASE k # m - 1
      <4>1. k \in 0..(m - 1) - 1
        BY <2>4, <3>7
      <4>2. Above(w, k)
        BY <2>4, <4>1
      <4> QED
        BY <3>5, <4>2 DEF Above
    <3> QED
      BY <3>6, <3>7
  <2>7. Right(m)
    BY <2>5, <2>6
  <2> QED
    BY <2>2, <2>7
<1>2. /\ x.path \in Seq(STRING) /\ x \in Level(image)[Len(x.path)]
      /\ Len(x.path) \in 0..MaxDepth + 2
  <2>1. PICK m \in 0..MaxDepth + 2 : x \in Level(image)[m]
    BY LevelEquations DEF Tree
  <2> QED
    BY <2>1, LevelTyped
<1>3. Right(Len(x.path))
  <2> HIDE DEF Right
  <2> QED
    BY <1>1, <1>2
<1>4. n \in 0..Len(x.path) - 1
  BY <1>2
<1> QED
  BY <1>2, <1>3, <1>4

(* Above a directory on disk there are directories on disk, and no links.  *)
LEMMA NoLinkAbove ==
  ASSUME Typed, InDirs, NEW p \in Seq(STRING), At(p) = "dir"
  PROVE  /\ \A n \in 0..Len(p) : At(SubSeq(p, 1, n)) = "dir"
         /\ ~Linked(p)
<1> DEFINE Bad == {m \in 0..Len(p) : At(SubSeq(p, 1, Len(p) - m)) # "dir"}
<1>0. Len(p) \in Nat
  BY LenProperties
<1>1. ASSUME Bad # {}
      PROVE  FALSE
  <2>1. PICK m \in Bad : \A k \in Bad : m <= k
    <3>1. Bad \subseteq Nat
      OBVIOUS
    <3> HIDE DEF Bad
    <3> QED
      BY <1>1, <3>1, HasLeast
  <2>2. m \in 0..Len(p) /\ At(SubSeq(p, 1, Len(p) - m)) # "dir"
    OBVIOUS
  <2>3. SubSeq(p, 1, Len(p)) = p
    BY <1>0, PrefixOfPrefix
  <2>4. m # 0
    <3> SUFFICES ASSUME m = 0 PROVE FALSE
      OBVIOUS
    <3>1. Len(p) - m = Len(p)
      BY <1>0
    <3> QED
      BY <2>2, <2>3, <3>1
  <2> DEFINE q == SubSeq(p, 1, Len(p) - (m - 1))
  <2>5. At(q) = "dir"
    <3>1. m - 1 \in 0..Len(p) /\ m - 1 \notin Bad
      <4> HIDE DEF Bad
      <4> QED
        BY <1>0, <2>1, <2>2, <2>4
    <3> QED
      BY <3>1
  <2>6. /\ Len(q) = Len(p) - (m - 1)
        /\ SubSeq(q, 1, Len(p) - m) = SubSeq(p, 1, Len(p) - m)
    <3> DEFINE j == Len(p) - (m - 1)
               k == Len(p) - m
    <3>1. j \in 0..Len(p) /\ k \in 0..j
      BY <1>0, <2>2, <2>4
    <3> HIDE DEF j, k
    <3>2. Len(SubSeq(p, 1, j)) = j /\ SubSeq(SubSeq(p, 1, j), 1, k) = SubSeq(p, 1, k)
      BY <3>1, PrefixOfPrefix
    <3> QED
      BY <3>2 DEF j, k
  <2>7. ButLast(q) = SubSeq(p, 1, Len(p) - m)
    <3>1. Len(q) - 1 = Len(p) - m
      BY <1>0, <2>2, <2>6
    <3> QED
      BY <2>6, <3>1 DEF ButLast
  <2>8. q \in DOMAIN made \ {<<>>}
    <3>1. Len(q) # 0
      BY <1>0, <2>2, <2>6
    <3>2. q # <<>>
      BY <3>1, EmptySeq
    <3> QED
      BY <2>5, <3>2 DEF At
  <2>9. At(ButLast(q)) = "dir"
    BY <2>8 DEF InDirs
  <2> QED
    BY <2>2, <2>7, <2>9
<1>2. ASSUME NEW n \in 0..Len(p)
      PROVE  At(SubSeq(p, 1, n)) = "dir"
  <2>1. Len(p) - n \in 0..Len(p) /\ Len(p) - (Len(p) - n) = n
    BY <1>0
  <2> DEFINE m == Len(p) - n
  <2>2. m \in 0..Len(p) /\ Len(p) - m = n
    BY <2>1
  <2> HIDE DEF m
  <2> QED
    BY <1>1, <2>2
<1>3. ~Linked(p)
  <2>1. ASSUME NEW n \in 1..Len(p)
        PROVE  At(SubSeq(p, 1, n)) # "link"
    <3>1. At(SubSeq(p, 1, n)) = "dir"
      BY <1>0, <1>2
    <3> QED
      BY <3>1
  <2> QED
    BY <2>1 DEF Linked
<1> QED
  BY <1>2, <1>3

-----------------------------------------------------------------------------
(* The call at work and its entry.                                         *)

(* Without its last name, a path is what it was. *)
LEMMA FrontOfAppend ==
  ASSUME NEW S, NEW s \in Seq(S), NEW e \in S
  PROVE  ButLast(Append(s, e)) = s
<1> DEFINE a == Append(s, e)
           f == SubSeq(a, 1, Len(s))
<1>1. /\ a \in Seq(S) /\ Len(a) = Len(s) + 1 /\ Len(s) \in Nat
      /\ \A i \in 1..Len(s) : a[i] = s[i] /\ s[i] \in S
  BY AppendProperties, ElementOfSeq, LenProperties
<1> HIDE DEF a
<1>2. f \in Seq(S) /\ Len(f) = Len(s) /\ \A i \in 1..Len(s) : f[i] = a[i]
  BY <1>1
<1>3. f = s
  <2> HIDE DEF f
  <2> QED
    BY <1>1, <1>2, SeqEqual
<1>4. Len(a) - 1 = Len(s)
  BY <1>1
<1> QED
  BY <1>3, <1>4 DEF ButLast, a

(* The innermost call is one. *)
LEMMA TopTyped ==
  ASSUME Typed, stack # <<>>
  PROVE  /\ Len(stack) \in Nat \ {0}
         /\ DOMAIN stack = 1..Len(stack)
         /\ Top \in Call
<1>1. stack \in Seq(Call)
  BY DEF Typed
<1>2. Len(stack) \in Nat /\ DOMAIN stack = 1..Len(stack)
  BY <1>1
<1>3. Len(stack) # 0
  BY <1>1, EmptySeq
<1>4. stack[Len(stack)] \in Call
  BY <1>1, <1>2, <1>3, ElementOfSeq
<1> QED
  BY <1>2, <1>3, <1>4 DEF Top

(* Its entry leads to an inode, along a path one name longer. *)
LEMMA EntryTyped ==
  ASSUME Typed, AtEntry
  PROVE  /\ Top.i \in DOMAIN Entries
         /\ Entry.name \in STRING /\ Entry.ref \in DOMAIN image.node
         /\ EntryPath \in Seq(STRING)
         /\ EntryPath # <<>>
         /\ Len(EntryPath) = Len(Top.path) + 1
         /\ ButLast(EntryPath) = Top.path
         /\ EntryPath[Len(EntryPath)] = Entry.name
<1>1. Top \in Call /\ Top.i <= Len(Entries)
  BY TopTyped DEF AtEntry
<1>2. Top.path \in Seq(STRING) /\ Top.ref \in DOMAIN image.node /\ Top.i \in Nat \ {0}
  BY <1>1 DEF Call
<1>3. Entries \in Seq([name : STRING, ref : DOMAIN image.node])
  BY <1>2, ImageAssumption DEF Entries, Node, Typed
<1> DEFINE list == Entries
           path == Top.path
           R == [name : STRING, ref : DOMAIN image.node]
<1>4. Top.i \in 1..Len(list) /\ DOMAIN list = 1..Len(list)
  <2> HIDE DEF list, R
  <2>1. Len(list) \in Nat /\ DOMAIN list = 1..Len(list)
    BY <1>3, LenProperties DEF list, R
  <2> QED
    BY <1>1, <1>2, <2>1 DEF list
<1>5. list[Top.i] \in R
  <2> HIDE DEF list, R
  <2> QED
    BY <1>3, <1>4, ElementOfSeq DEF list, R
<1>6. Entry.name \in STRING /\ Entry.ref \in DOMAIN image.node
  BY <1>5 DEF Entry
<1> DEFINE name == Entry.name
<1>7. /\ Append(path, name) \in Seq(STRING)
      /\ Append(path, name) # <<>>
      /\ Len(Append(path, name)) = Len(path) + 1
      /\ ButLast(Append(path, name)) = path
      /\ Append(path, name)[Len(path) + 1] = name
      /\ Len(path) \in Nat
  <2>1. path \in Seq(STRING) /\ name \in STRING
    BY <1>2, <1>6
  <2> HIDE DEF path, name
  <2>2. ButLast(Append(path, name)) = path
    BY <2>1, FrontOfAppend
  <2>3. Len(path) \in Nat
    BY <2>1
  <2>4. /\ Append(path, name) \in Seq(STRING)
        /\ Append(path, name) # <<>>
        /\ Len(Append(path, name)) = Len(path) + 1
        /\ Append(path, name)[Len(path) + 1] = name
    BY <2>1, AppendProperties, Zenon
  <2> QED
    BY <2>2, <2>3, <2>4
<1> QED
  BY <1>4, <1>6, <1>7 DEF EntryPath

(* The entry is in the tree of the image. *)
LEMMA EntryInTree ==
  ASSUME Typed, CallsInTree, AtEntry
  PROVE  [path |-> EntryPath, ref |-> Entry.ref] \in Tree
<1> DEFINE x == [path |-> Top.path, ref |-> Top.ref]
<1>1. x \in Tree /\ Len(Top.path) <= MaxDepth /\ Top \in Call
  BY TopTyped DEF AtEntry, Top, CallsInTree
<1>2. Below(image, x) \subseteq Tree
  <2>1. x.path = Top.path /\ Len(Top.path) \in Nat
    BY <1>1 DEF Call
  <2>2. Len(x.path) <= MaxDepth + 1
    BY <1>1, <2>1, LimitAssumption
  <2> HIDE DEF x
  <2> QED
    BY <1>1, <2>2, TreeBelow DEF Typed
<1>3. [path |-> EntryPath, ref |-> Entry.ref] \in Below(image, x)
  BY EntryTyped DEF Below, EntryPath, Entry, Entries, Node
<1> QED
  BY <1>2, <1>3

(* Going on to the next entry changes nothing else in the calls. *)
LEMMA AdvancedTyped ==
  ASSUME Typed, stack # <<>>
  PROVE  /\ Advanced \in Seq(Call)
         /\ Len(Advanced) = Len(stack)
         /\ DOMAIN Advanced = DOMAIN stack
         /\ \A k \in DOMAIN stack :
              /\ Advanced[k].path = stack[k].path
              /\ Advanced[k].ref = stack[k].ref
              /\ Advanced[k].i = IF k = Len(stack) THEN stack[k].i + 1 ELSE stack[k].i
<1> DEFINE n == Len(stack)
           e == [stack[n] EXCEPT !.i = @ + 1]
<1>1. n \in DOMAIN stack /\ DOMAIN stack = 1..n /\ stack \in Seq(Call) /\ stack[n] \in Call
  BY TopTyped DEF Typed, Top
<1>2. /\ e \in Call
      /\ e.path = stack[n].path /\ e.ref = stack[n].ref /\ e.i = stack[n].i + 1
  <2> DEFINE c == stack[n]
  <2>1. c.i + 1 \in Nat \ {0} /\ c.path \in Seq(STRING) /\ c.ref \in DOMAIN image.node
    BY <1>1 DEF Call
  <2>2. c = [path |-> c.path, ref |-> c.ref, i |-> c.i]
    BY <1>1 DEF Call
  <2> HIDE DEF c
  <2>3. e = [path |-> c.path, ref |-> c.ref, i |-> c.i + 1]
    BY <2>2 DEF c
  <2> QED
    BY <2>1, <2>3 DEF Call, c
<1>3. Advanced = [stack EXCEPT ![n] = e]
  BY DEF Advanced
<1> HIDE DEF e
<1>4. Advanced \in Seq(Call) /\ Len(Advanced) = n
  BY <1>1, <1>2, <1>3, ExceptSeq
<1>5. \A k \in DOMAIN stack : Advanced[k] = IF k = n THEN e ELSE stack[k]
  BY <1>1, <1>2, <1>3, ExceptSeq
<1>6. DOMAIN Advanced = DOMAIN stack
  BY <1>1, <1>4
<1> QED
  BY <1>2, <1>4, <1>5, <1>6

(* Returning from a call leaves the others as they are. *)
LEMMA FrontTyped ==
  ASSUME Typed, stack # <<>>
  PROVE  /\ ButLast(stack) \in Seq(Call)
         /\ DOMAIN ButLast(stack) = DOMAIN stack \ {Len(stack)}
         /\ \A k \in DOMAIN ButLast(stack) : ButLast(stack)[k] = stack[k]
<1> DEFINE n == Len(stack)
           f == SubSeq(stack, 1, n - 1)
<1>1. n \in Nat \ {0} /\ DOMAIN stack = 1..n /\ stack \in Seq(Call)
  BY TopTyped DEF Typed
<1>2. \A k \in 1..n - 1 : stack[k] \in Call
  BY <1>1, ElementOfSeq
<1>3. /\ f \in Seq(Call)
      /\ Len(f) = n - 1
      /\ \A k \in 1..n - 1 : f[k] = stack[k]
  BY <1>1
<1>4. DOMAIN f = 1..n - 1
  BY <1>3
<1> HIDE DEF f
<1> QED
  BY <1>1, <1>3, <1>4 DEF ButLast, f

-----------------------------------------------------------------------------
(* What the steps have in common.                                          *)

(* The tree and what is asked of it belong to the image. *)
LEMMA SameImage ==
  ASSUME image' = image
  PROVE  /\ Tree' = Tree
         /\ DistinctNames' = DistinctNames
         /\ WellFormed' = WellFormed
         /\ Call' = Call
<1>1. Tree' = Tree
  BY DEF Tree
<1>2. DistinctNames' = DistinctNames
  BY DEF DistinctNames, Node
<1> QED
  BY <1>1, <1>2 DEF WellFormed, Call, Nodes, Type, Node

(* A listing is a sequence of names and inodes. *)
LEMMA ListTyped ==
  ASSUME Typed, NEW r \in DOMAIN image.node
  PROVE  /\ List(r) \in Seq([name : STRING, ref : DOMAIN image.node])
         /\ DOMAIN List(r) = 1..Len(List(r))
         /\ DOMAIN List(r) \subseteq Nat
         /\ \A j \in DOMAIN List(r) :
              List(r)[j].name \in STRING /\ List(r)[j].ref \in DOMAIN image.node
<1> DEFINE R == [name : STRING, ref : DOMAIN image.node]
<1>1. List(r) \in Seq(R)
  BY ImageAssumption DEF Typed, List, Node
<1>2. DOMAIN List(r) = 1..Len(List(r)) /\ Len(List(r)) \in Nat
  <2> HIDE DEF R
  <2> QED
    BY <1>1, LenProperties
<1>3. \A j \in DOMAIN List(r) : List(r)[j] \in R
  <2> HIDE DEF R
  <2> QED
    BY <1>1, <1>2, ElementOfSeq
<1> QED
  BY <1>1, <1>2, <1>3

(* A step that leaves the disk and the counts as they are keeps what       *)
(* depends on nothing else.                                                *)
LEMMA DiskKept ==
  ASSUME IInv, UNCHANGED <<image, count, seen, made, strayed>>
  PROVE  /\ InDirs' /\ InTree' /\ SeenHas' /\ NumbersOnce' /\ CountCovers' /\ FilesFit'
         /\ DistinctNames => SeenExact' /\ CountExact' /\ ~strayed'
<1> USE DEF IInv, Base, Clean
<1>1. InDirs'
  BY DEF InDirs, At, IsDir, Node, ButLast
<1>2. InTree'
  BY SameImage DEF InTree, OnDisk
<1>3. Entered' = Entered /\ Numbers' = Numbers /\ Counted' = Counted
  BY DEF Entered, Numbers, Counted, IsDir, Node
<1>4. SeenHas'
  BY <1>3 DEF SeenHas
<1>5. NumbersOnce'
  BY <1>3 DEF NumbersOnce, Node
<1>6. CountCovers'
  BY <1>3 DEF CountCovers
<1>7. FilesFit'
  <2>1. Files' = Files
    BY DEF Files, Made, Nodes, OnDisk, Type, Node
  <2> QED
    BY <2>1 DEF FilesFit
<1>8. ASSUME DistinctNames
      PROVE  SeenExact' /\ CountExact' /\ ~strayed'
  BY <1>3, <1>8 DEF SeenExact, CountExact
<1> QED
  BY <1>1, <1>2, <1>4, <1>5, <1>6, <1>7, <1>8

(* A step that touches nothing but the calls, and only goes on in them or  *)
(* leaves some, keeps all but NothingMissed.                               *)
LEMMA MoveKeeps ==
  ASSUME IInv, pc = "walk",
         UNCHANGED <<image, pc, count, seen, made, strayed, err>>,
         stack' \in Seq(Call),
         DOMAIN stack' \subseteq DOMAIN stack,
         \A k \in DOMAIN stack' : /\ stack'[k].path = stack[k].path
                                  /\ stack'[k].ref = stack[k].ref
                                  /\ stack'[k].i >= stack[k].i
  PROVE  /\ Base'
         /\ DistinctNames => ~strayed' /\ CallsMade' /\ Passed' /\ SeenExact' /\ CountExact'
<1>1. Typed'
  BY SameImage DEF IInv, Base, Typed
<1>2. Phases'
  BY DEF IInv, Base, Phases, Node
<1>3. CallsInTree'
  BY SameImage DEF IInv, Base, CallsInTree, IsDir, Node
<1>4. ASSUME DistinctNames
      PROVE  CallsMade'
  BY <1>4 DEF IInv, Clean, CallsMade
<1>5. ASSUME DistinctNames
      PROVE  Passed'
  <2> SUFFICES ASSUME NEW p \in DOMAIN made \ {<<>>}, NEW k \in DOMAIN stack',
                      stack'[k].path = ButLast(p)
               PROVE  \E j \in DOMAIN List(stack'[k].ref) :
                        /\ j < stack'[k].i
                        /\ p[Len(p)] = List(stack'[k].ref)[j].name
    BY DEF Passed, List, Node, ButLast
  <2>1. PICK j \in DOMAIN List(stack[k].ref) :
          j < stack[k].i /\ p[Len(p)] = List(stack[k].ref)[j].name
    BY <1>5 DEF IInv, Clean, Passed
  <2>2. stack[k] \in Call /\ stack'[k] \in Call
    BY ElementOfSeq, LenProperties DEF IInv, Base, Typed
  <2>3. j \in Int /\ stack[k].i \in Int /\ stack'[k].i \in Int /\ stack[k].ref \in DOMAIN image.node
    <3>1. stack[k].ref \in DOMAIN image.node /\ stack[k].i \in Int /\ stack'[k].i \in Int
      BY <2>2 DEF Call
    <3> QED
      BY <3>1, ListTyped DEF IInv, Base
  <2>4. j < stack'[k].i
    BY <2>1, <2>3
  <2> QED
    BY <2>1, <2>4
<1> QED
  BY <1>1, <1>2, <1>3, <1>4, <1>5, DiskKept DEF Base

(* The calls after the entry has been dealt with: the innermost has gone   *)
(* on, and a call for a directory may have been added.                     *)
Grown ==
  \/ stack' = Advanced
  \/ /\ stack' = Append(Advanced, [path |-> EntryPath, ref |-> Entry.ref, i |-> 1])
     /\ Len(EntryPath) <= MaxDepth
     /\ IsDir(Entry.ref)

(* What Grown says of each of the calls. *)
LEMMA GrownTyped ==
  ASSUME Typed, AtEntry, Grown, image' = image
  PROVE  /\ stack' \in Seq(Call)
         /\ DOMAIN stack \subseteq DOMAIN stack'
         /\ \A k \in DOMAIN stack :
              /\ stack'[k].path = stack[k].path
              /\ stack'[k].ref = stack[k].ref
              /\ stack'[k].i = IF k = Len(stack) THEN stack[k].i + 1 ELSE stack[k].i
         /\ \A k \in DOMAIN stack' \ DOMAIN stack :
              /\ k = Len(stack) + 1
              /\ stack'[k] = [path |-> EntryPath, ref |-> Entry.ref, i |-> 1]
              /\ Len(EntryPath) <= MaxDepth
              /\ IsDir(Entry.ref)
<1>1. stack # <<>> /\ Len(stack) \in Nat \ {0} /\ DOMAIN stack = 1..Len(stack)
  BY TopTyped DEF AtEntry
<1> DEFINE new == [path |-> EntryPath, ref |-> Entry.ref, i |-> 1]
<1>2. CASE stack' = Advanced
  BY <1>1, <1>2, AdvancedTyped
<1>3. CASE /\ stack' = Append(Advanced, new)
           /\ Len(EntryPath) <= MaxDepth /\ IsDir(Entry.ref)
  <2>1. new \in Call
    BY EntryTyped DEF Call
  <2> HIDE DEF new
  <2>2. Advanced \in Seq(Call) /\ Len(Advanced) = Len(stack) /\ DOMAIN Advanced = DOMAIN stack
    BY <1>1, AdvancedTyped
  <2>3. /\ stack' \in Seq(Call) /\ Len(stack') = Len(stack) + 1
        /\ \A k \in DOMAIN stack : stack'[k] = Advanced[k]
        /\ stack'[Len(stack) + 1] = new
    BY <1>1, <1>3, <2>1, <2>2, AppendProperties
  <2>4. DOMAIN stack' = 1..Len(stack) + 1
    BY <2>3, LenProperties
  <2>5. \A k \in DOMAIN stack' \ DOMAIN stack : k = Len(stack) + 1
    BY <1>1, <2>4
  <2>6. DOMAIN stack \subseteq DOMAIN stack'
    BY <1>1, <2>4
  <2> QED
    BY <1>1, <1>3, <2>3, <2>5, <2>6, AdvancedTyped DEF new
<1> QED
  BY <1>2, <1>3 DEF Grown

(* What becomes of the disk: the entry is put in a free place, or a file   *)
(* in that of a file, or everything stays as it is.                        *)
Placed ==
  /\ Put(EntryPath, Entry.ref)
  /\ At(ButLast(EntryPath)) = "dir"
  /\ \/ At(EntryPath) = "nothing"
     \/ At(EntryPath) = "file" /\ Node(Entry.ref).type \in {"file", "badFile"}

(* That is what MkdirAll and Symlink, and opening a file, come to. *)
LEMMA OutcomeTyped ==
  ASSUME Base, AtEntry,
         \/ Make(EntryPath, Entry.ref)
         \/ /\ Open(EntryPath, Entry.ref) \/ Untouched
            /\ Node(Entry.ref).type \in {"file", "badFile"}
  PROVE  /\ Placed \/ made' = made
         /\ strayed' \in BOOLEAN
<1>1. /\ EntryPath # <<>>
      /\ strayed \in BOOLEAN
  BY EntryTyped DEF Base, Typed
<1>2. ASSUME Free(EntryPath), Put(EntryPath, Entry.ref)
      PROVE  Placed
  BY <1>1, <1>2 DEF Free, Placed
<1>3. ASSUME At(EntryPath) = "file", Put(EntryPath, Entry.ref),
             Node(Entry.ref).type \in {"file", "badFile"}
      PROVE  Placed
  <2>1. EntryPath \in DOMAIN made \ {<<>>}
    BY <1>1, <1>3 DEF At
  <2>2. At(ButLast(EntryPath)) = "dir"
    BY <2>1 DEF Base, InDirs
  <2> QED
    BY <1>3, <2>2 DEF Placed
<1>4. Placed \/ made' = made
  BY <1>2, <1>3 DEF Make, Open, Untouched, Elsewhere
<1>5. strayed' \in BOOLEAN
  BY <1>1 DEF Make, Open, Untouched, Elsewhere, Put
<1> QED
  BY <1>4, <1>5

(* What is on disk after the entry was put there. *)
LEMMA PlacedMade ==
  ASSUME Base, AtEntry, Placed
  PROVE  /\ EntryPath # <<>> /\ EntryPath \notin Entered
         /\ At(EntryPath) # "dir"
         /\ At(EntryPath) = "nothing" <=> EntryPath \notin DOMAIN made
         /\ DOMAIN made' = DOMAIN made \cup {EntryPath}
         /\ made'[EntryPath] = Entry.ref
         /\ \A p \in DOMAIN made : p # EntryPath => made'[p] = made[p]
         /\ OnDisk' \subseteq OnDisk \cup {[path |-> EntryPath, ref |-> Entry.ref]}
<1>1. EntryPath # <<>>
  BY EntryTyped DEF Base
<1>2. At(EntryPath) # "dir"
  BY DEF Placed
<1>3. EntryPath \notin Entered
  BY <1>2 DEF Entered, At
<1>4. At(EntryPath) = "nothing" <=> EntryPath \notin DOMAIN made
  BY DEF At
<1>5. /\ DOMAIN made' = DOMAIN made \cup {EntryPath}
      /\ made'[EntryPath] = Entry.ref
      /\ \A p \in DOMAIN made : p # EntryPath => made'[p] = made[p]
  BY DEF Placed, Put
<1>6. OnDisk' \subseteq OnDisk \cup {[path |-> EntryPath, ref |-> Entry.ref]}
  BY <1>5 DEF OnDisk
<1> QED
  BY <1>1, <1>2, <1>3, <1>4, <1>5, <1>6

(* What a step that deals with an entry keeps, whatever its type.          *)
LEMMA StepKeeps ==
  ASSUME Base, AtEntry, Grown, Placed \/ made' = made,
         UNCHANGED <<image, pc, err>>,
         count' \in Nat, seen' \in SUBSET Nat, strayed' \in BOOLEAN
  PROVE  Typed' /\ Phases' /\ CallsInTree' /\ InDirs' /\ InTree'
<1> USE DEF Base
<1>1. /\ EntryPath \in Seq(STRING) /\ EntryPath # <<>>
      /\ Entry.ref \in DOMAIN image.node
      /\ pc = "walk"
  BY EntryTyped DEF AtEntry
<1>2. Typed'
  <2>1. \A p \in DOMAIN made' : p \in Seq(STRING) /\ made'[p] \in DOMAIN image.node
    BY <1>1, PlacedMade DEF Typed
  <2> QED
    BY <2>1, GrownTyped, SameImage DEF Typed
<1>3. Phases'
  <2>1. <<>> \in DOMAIN made => <<>> \in DOMAIN made' /\ made'[<<>>] = made[<<>>]
    BY PlacedMade
  <2> QED
    BY <1>1, <2>1 DEF Phases, Node
<1>4. CallsInTree'
  <2> SUFFICES ASSUME NEW k \in DOMAIN stack'
               PROVE  /\ [path |-> stack'[k].path, ref |-> stack'[k].ref] \in Tree
                      /\ Len(stack'[k].path) <= MaxDepth
                      /\ stack'[k].path = <<>> \/ IsDir(stack'[k].ref)
    BY SameImage DEF CallsInTree, IsDir, Node
  <2>1. CASE k \in DOMAIN stack
    BY <2>1, GrownTyped DEF CallsInTree
  <2>2. CASE k \notin DOMAIN stack
    BY <2>2, GrownTyped, EntryInTree
  <2> QED
    BY <2>1, <2>2
<1>5. CASE made' = made
  <2>1. InDirs'
    BY <1>5 DEF InDirs, At, IsDir, Node, ButLast
  <2>2. InTree'
    BY <1>5, SameImage DEF InTree, OnDisk
  <2> QED
    BY <1>2, <1>3, <1>4, <2>1, <2>2
<1>6. CASE Placed
  <2>1. ASSUME NEW q, At(q) = "dir"
        PROVE  At(q)' = "dir"
    <3>1. q \in DOMAIN made /\ q # EntryPath
      BY <1>6, <2>1, PlacedMade DEF At
    <3>2. q \in DOMAIN made' /\ made'[q] = made[q]
      BY <1>6, <3>1, PlacedMade
    <3> QED
      BY <2>1, <3>1, <3>2 DEF At, IsDir, Node
  <2>2. ASSUME NEW p \in DOMAIN made' \ {<<>>}
        PROVE  At(ButLast(p)) = "dir"
    BY <1>6, PlacedMade DEF InDirs, Placed
  <2>3. InDirs'
    <3> SUFFICES ASSUME NEW p \in DOMAIN made' \ {<<>>}
                 PROVE  At(ButLast(p))' = "dir"
      BY DEF InDirs
    <3>1. At(ButLast(p)) = "dir"
      BY <2>2
    <3> DEFINE q == ButLast(p)
    <3>2. At(q)' = "dir"
      <4>1. At(q) = "dir"
        BY <3>1
      <4> HIDE DEF q
      <4> QED
        BY <2>1, <4>1
    <3> QED
      BY <3>2
  <2>4. InTree'
    BY <1>6, PlacedMade, EntryInTree, SameImage DEF InTree
  <2> QED
    BY <1>2, <1>3, <1>4, <2>3, <2>4
<1> QED
  BY <1>5, <1>6

(* What puts no directory on disk leaves the directories there and their   *)
(* numbers as they are.                                                    *)
LEMMA NoDirPlaced ==
  ASSUME Base, AtEntry, image' = image, seen \subseteq seen',
         made' = made \/ (Placed /\ ~IsDir(Entry.ref))
  PROVE  Numbers' = Numbers /\ SeenHas' /\ NumbersOnce'
<1> USE DEF Base
<1>1. Entered' = Entered /\ \A p \in Entered : made'[p] = made[p]
  BY PlacedMade DEF Entered, IsDir, Node
<1>2. Numbers' = Numbers
  BY <1>1 DEF Numbers, Node
<1>3. SeenHas'
  BY <1>2 DEF SeenHas
<1>4. NumbersOnce'
  BY <1>1 DEF NumbersOnce, Node
<1> QED
  BY <1>2, <1>3, <1>4

(* A directory whose number has not been seen. *)
LEMMA DirPlaced ==
  ASSUME Base, AtEntry, image' = image, Placed, IsDir(Entry.ref),
         ~Refuses(EntryPath, Entry.ref),
         seen' = IF Node(Entry.ref).number > 0 THEN seen \cup {Node(Entry.ref).number} ELSE seen
  PROVE  /\ SeenHas' /\ NumbersOnce'
         /\ SeenExact => SeenExact'
<1> USE DEF Base
<1> DEFINE num == Node(Entry.ref).number
<1>1. num \in Nat
  BY EntryTyped, ImageAssumption DEF Typed, Node
<1>2. /\ Entered' = Entered \cup {EntryPath}
      /\ made'[EntryPath] = Entry.ref
      /\ \A p \in Entered : made'[p] = made[p] /\ p # EntryPath
      /\ \A r : Node(r)' = Node(r)
  BY PlacedMade DEF Entered, IsDir, Node
<1>3. Numbers' = IF num > 0 THEN Numbers \cup {num} ELSE Numbers
  <2> DEFINE S == {Node(made[p]).number : p \in Entered}
  <2>1. Numbers' = (S \cup {num}) \ {0}
    BY <1>2 DEF Numbers
  <2>2. (S \cup {num}) \ {0} = IF num > 0 THEN (S \ {0}) \cup {num} ELSE S \ {0}
    <3> HIDE DEF S, num
    <3> QED
      BY <1>1
  <2>3. Numbers = S \ {0}
    BY DEF Numbers
  <2> HIDE DEF S, num
  <2> QED
    BY <2>1, <2>2, <2>3
<1>4. SeenHas'
  BY <1>3 DEF SeenHas
<1>5. SeenExact => SeenExact'
  BY <1>3 DEF SeenExact
<1>6. NumbersOnce'
  <2>1. ASSUME NEW p \in Entered, num > 0
        PROVE  Node(made[p]).number # num
    BY <2>1 DEF SeenHas, Numbers, Refuses
  <2>2. ASSUME NEW p \in Entered', NEW q \in Entered', Node(made'[p]).number > 0,
               Node(made'[p]).number = Node(made'[q]).number
        PROVE  p = q
    BY <1>2, <2>1, <2>2 DEF NumbersOnce
  <2> QED
    BY <1>2, <2>2 DEF NumbersOnce
<1> QED
  BY <1>4, <1>5, <1>6

(* Entries that differ in their paths are no more than the paths. *)
LEMMA PathsBound ==
  ASSUME NEW S, NEW C, IsFiniteSet(C), \A x \in S : x.path \in C,
         \A x, y \in S : x.path = y.path => x = y
  PROVE  IsFiniteSet(S) /\ Cardinality(S) <= Cardinality(C)
<1> DEFINE f == [x \in S |-> x.path]
<1>1. f \in [S -> C]
  OBVIOUS
<1>2. \A x, y \in S : f[x] = f[y] => x = y
  OBVIOUS
<1>3. f \in Injection(S, C)
  BY <1>1, <1>2 DEF Injection, IsInjective
<1> HIDE DEF f
<1> QED
  BY <1>3, FS_Injection

(* The files on disk are among what is counted. *)
LEMMA FilesAreCounted ==
  ASSUME IsFiniteSet(Counted)
  PROVE  IsFiniteSet(Files) /\ Cardinality(Files) <= Cardinality(Counted)
<1>1. \A x \in Files : x.path \in Counted
  BY DEF Files, Made, Nodes, OnDisk, Type, Counted
<1>2. \A x, y \in Files : x.path = y.path => x = y
  BY DEF Files, Made, Nodes, OnDisk
<1> QED
  BY <1>1, <1>2, PathsBound

(* Counting what is put on disk, or more, keeps the files within the       *)
(* limit.                                                                  *)
LEMMA CountKeeps ==
  ASSUME Base, AtEntry, image' = image, Placed \/ made' = made,
         count' = count \/ count' = count + 1,
         Placed /\ Node(Entry.ref).type \in {"file", "link"} => count' = count + 1,
         Placed /\ Node(Entry.ref).type = "file" => count < MaxFiles
  PROVE  CountCovers' /\ FilesFit'
<1> USE DEF Base
<1>1. /\ count \in Nat /\ MaxFiles \in Nat
      /\ IsFiniteSet(Counted) /\ Cardinality(Counted) \in Nat /\ Cardinality(Counted) <= count
      /\ IsFiniteSet(Files) /\ Cardinality(Files) \in Nat /\ Cardinality(Files) <= MaxFiles
  BY LimitAssumption, FilesAreCounted, FS_CardinalityType DEF Typed, CountCovers, FilesFit
<1>2. CASE made' = made
  <2>1. Counted' = Counted /\ Files' = Files
    BY <1>2 DEF Counted, Files, Made, Nodes, OnDisk, Type, Node
  <2> QED
    BY <1>1, <2>1 DEF CountCovers, FilesFit
<1>3. CASE Placed /\ Node(Entry.ref).type \notin {"file", "link"}
  <2>1. Counted' \subseteq Counted
    BY <1>3, PlacedMade DEF Counted, Node
  <2>2. Files' \subseteq Files
    <3> DEFINE x == [path |-> EntryPath, ref |-> Entry.ref]
    <3>1. Files' = {y \in OnDisk' : Node(y.ref).type = "file" /\ y.path # <<>>}
      BY DEF Files, Made, Nodes, Type, Node
    <3>2. Files = {y \in OnDisk : Node(y.ref).type = "file" /\ y.path # <<>>}
      BY DEF Files, Made, Nodes, Type
    <3>3. OnDisk' \subseteq OnDisk \cup {x} /\ Node(x.ref).type # "file"
      BY <1>3, PlacedMade
    <3> HIDE DEF x
    <3> QED
      BY <3>1, <3>2, <3>3
  <2>3. IsFiniteSet(Counted') /\ Cardinality(Counted') <= Cardinality(Counted)
    BY <1>1, <2>1, FS_Subset
  <2>4. Cardinality(Files') <= Cardinality(Files) /\ IsFiniteSet(Files')
    BY <1>1, <2>2, FS_Subset
  <2>5. Cardinality(Files') \in Nat /\ Cardinality(Counted') \in Nat
    BY <2>3, <2>4, FS_CardinalityType
  <2>6. CountCovers'
    BY <1>1, <2>3, <2>5 DEF CountCovers
  <2>7. Cardinality(Files') <= MaxFiles
    BY <1>1, <2>4, <2>5
  <2> QED
    BY <2>6, <2>7 DEF FilesFit
<1>4. CASE Placed /\ Node(Entry.ref).type \in {"file", "link"}
  <2>1. Counted' \subseteq Counted \cup {EntryPath}
    BY <1>4, PlacedMade DEF Counted, Node
  <2>2. /\ IsFiniteSet(Counted \cup {EntryPath})
        /\ Cardinality(Counted \cup {EntryPath}) <= Cardinality(Counted) + 1
        /\ Cardinality(Counted \cup {EntryPath}) \in Nat
    <3>1. IsFiniteSet(Counted \cup {EntryPath})
      BY <1>1, FS_AddElement
    <3> QED
      BY <1>1, <3>1, FS_AddElement, FS_CardinalityType
  <2>3. IsFiniteSet(Counted') /\ Cardinality(Counted') <= Cardinality(Counted \cup {EntryPath})
    BY <2>1, <2>2, FS_Subset
  <2>4. Cardinality(Counted') \in Nat
    BY <2>3, FS_CardinalityType
  <2>5. count' = count + 1 /\ Cardinality(Counted') <= count + 1
    BY <1>1, <1>4, <2>2, <2>3, <2>4
  <2>6. CountCovers'
    BY <2>3, <2>5 DEF CountCovers
  <2>7. Cardinality(Files') <= MaxFiles
    <3>1. CASE Node(Entry.ref).type = "file"
      <4>1. IsFiniteSet(Files') /\ Cardinality(Files') <= Cardinality(Counted')
        <5>1. \A x \in Files' : x.path \in Counted'
          BY DEF Files, Made, Nodes, OnDisk, Type, Counted
        <5>2. \A x, y \in Files' : x.path = y.path => x = y
          BY DEF Files, Made, Nodes, OnDisk
        <5> QED
          BY <2>3, <5>1, <5>2, PathsBound
      <4>2. Cardinality(Files') \in Nat
        BY <4>1, FS_CardinalityType
      <4> QED
        BY <1>1, <1>4, <2>4, <2>5, <3>1, <4>1, <4>2
    <3>2. CASE Node(Entry.ref).type # "file"
      <4> DEFINE x == [path |-> EntryPath, ref |-> Entry.ref]
      <4>1. Files' = {y \in OnDisk' : Node(y.ref).type = "file" /\ y.path # <<>>}
        BY DEF Files, Made, Nodes, Type, Node
      <4>2. Files = {y \in OnDisk : Node(y.ref).type = "file" /\ y.path # <<>>}
        BY DEF Files, Made, Nodes, Type
      <4>3. OnDisk' \subseteq OnDisk \cup {x} /\ Node(x.ref).type # "file"
        BY <1>4, <3>2, PlacedMade
      <4> HIDE DEF x
      <4>4. Files' \subseteq Files
        BY <4>1, <4>2, <4>3
      <4>5. IsFiniteSet(Files') /\ Cardinality(Files') <= Cardinality(Files)
        BY <1>1, <4>4, FS_Subset
      <4>6. Cardinality(Files') \in Nat
        BY <4>5, FS_CardinalityType
      <4> QED
        BY <1>1, <4>5, <4>6
    <3> QED
      BY <3>1, <3>2
  <2> QED
    BY <2>6, <2>7 DEF FilesFit
<1> QED
  BY <1>2, <1>3, <1>4

-----------------------------------------------------------------------------
(* Images that list no name twice.                                         *)

(* Nothing is in the way of the entry, nor is there a link on the way.     *)
LEMMA EntryFree ==
  ASSUME Base, Clean, DistinctNames, AtEntry
  PROVE  /\ Free(EntryPath)
         /\ EntryPath \notin DOMAIN made
         /\ ~Linked(ButLast(EntryPath)) /\ ~Linked(EntryPath)
<1> USE DEF Base, Clean
<1> DEFINE n == Len(stack)
<1>1. n \in DOMAIN stack /\ stack[n] = Top /\ Top \in Call
  BY TopTyped DEF AtEntry, Top
<1>2. /\ EntryPath # <<>>
      /\ ButLast(EntryPath) = Top.path
      /\ EntryPath[Len(EntryPath)] = Entry.name
      /\ Top.i \in DOMAIN List(Top.ref)
      /\ Entry = List(Top.ref)[Top.i]
      /\ Entry.name \in STRING
      /\ Len(EntryPath) = Len(Top.path) + 1
  BY <1>1, EntryTyped DEF Entries, Entry, List
<1>3. Top.path \in Seq(STRING) /\ Len(Top.path) \in Nat /\ Top.ref \in DOMAIN image.node /\ Top.i \in Nat
  BY <1>1 DEF Call
<1>4. EntryPath \notin DOMAIN made
  <2> SUFFICES ASSUME EntryPath \in DOMAIN made PROVE FALSE
    OBVIOUS
  <2>1. PICK j \in DOMAIN List(Top.ref) : j < Top.i /\ Entry.name = List(Top.ref)[j].name
    BY <1>1, <1>2 DEF Passed
  <2>2. j = Top.i
    BY <1>2, <1>3, <2>1 DEF DistinctNames, List, Node
  <2> QED
    BY <1>3, <2>1, <2>2
<1>5. At(Top.path) = "dir"
  <2>1. Top.path \in DOMAIN made /\ made[Top.path] = Top.ref
    BY <1>1 DEF CallsMade
  <2>2. Top.path = <<>> \/ IsDir(Top.ref)
    BY <1>1 DEF CallsInTree
  <2> QED
    BY <2>1, <2>2 DEF At
<1>6. At(EntryPath) = "nothing"
  BY <1>4 DEF At
<1>7. Free(EntryPath)
  BY <1>2, <1>5, <1>6 DEF Free
<1>8. ~Linked(Top.path)
  BY <1>3, <1>5, NoLinkAbove
<1>9. ~Linked(EntryPath)
  <2> SUFFICES ASSUME NEW m \in 1..Len(EntryPath)
               PROVE  At(SubSeq(EntryPath, 1, m)) # "link"
    BY DEF Linked
  <2>1. CASE m = Len(EntryPath)
    <3>1. SubSeq(EntryPath, 1, Len(EntryPath)) = EntryPath
      <4>1. EntryPath \in Seq(STRING) /\ 0 \in 0..Len(EntryPath) /\ 0 \in 0..0
        BY <1>2, <1>3, EntryTyped
      <4> QED
        BY <4>1, PrefixOfPrefix
    <3> QED
      BY <1>6, <2>1, <3>1
  <2>2. CASE m # Len(EntryPath)
    <3>1. m \in 0..Len(Top.path)
      BY <1>2, <1>3, <2>2
    <3>2. SubSeq(EntryPath, 1, m) = SubSeq(Top.path, 1, m)
      <4> DEFINE path == Top.path
                 name == Entry.name
      <4>1. path \in Seq(STRING) /\ name \in STRING /\ m \in 0..Len(path)
        BY <1>2, <1>3, <3>1
      <4> HIDE DEF path, name
      <4>2. SubSeq(Append(path, name), 1, m) = SubSeq(path, 1, m)
        BY <4>1, PrefixOfAppend
      <4> QED
        BY <4>2 DEF EntryPath, path, name
    <3>3. At(SubSeq(Top.path, 1, m)) = "dir"
      BY <1>3, <1>5, <3>1, NoLinkAbove
    <3> QED
      BY <3>2, <3>3
  <2> QED
    BY <2>1, <2>2
<1> QED
  BY <1>2, <1>4, <1>7, <1>8, <1>9

(* So it is put in its place, by whatever puts it there. *)
LEMMA CleanPut ==
  ASSUME Base, Clean, DistinctNames, AtEntry,
         \/ Make(EntryPath, Entry.ref)
         \/ Open(EntryPath, Entry.ref)
         \/ ~Free(EntryPath) /\ Untouched
  PROVE  /\ Put(EntryPath, Entry.ref)
         /\ ~strayed'
         /\ DOMAIN made' = DOMAIN made \cup {EntryPath}
         /\ made'[EntryPath] = Entry.ref
         /\ \A p \in DOMAIN made : p # EntryPath /\ made'[p] = made[p]
<1>1. Put(EntryPath, Entry.ref)
  BY EntryFree DEF Make, Open, Elsewhere, Clean
<1> QED
  BY <1>1, EntryFree DEF Put, Clean

(* Putting it there keeps the calls and what they have passed. *)
LEMMA PutKeeps ==
  ASSUME Base, Clean, DistinctNames, AtEntry, Put(EntryPath, Entry.ref), Grown,
         image' = image
  PROVE  CallsMade' /\ Passed'
<1> USE DEF Base, Clean
<1>1. /\ DOMAIN made' = DOMAIN made \cup {EntryPath}
      /\ made'[EntryPath] = Entry.ref
      /\ \A p \in DOMAIN made : p # EntryPath /\ made'[p] = made[p]
  BY EntryFree DEF Put
<1>2. /\ EntryPath \in Seq(STRING) /\ EntryPath # <<>>
      /\ Entry.ref \in DOMAIN image.node
      /\ ButLast(EntryPath) = Top.path
  BY EntryTyped
<1> DEFINE n == Len(stack)
<1>3. n \in DOMAIN stack /\ stack[n] = Top /\ Top \in Call
  BY TopTyped DEF AtEntry, Top
<1>7. CallsMade'
  <2>1. ASSUME NEW k \in DOMAIN stack'
        PROVE  /\ stack'[k].path \in DOMAIN made'
               /\ made'[stack'[k].path] = stack'[k].ref
    <3>1. CASE k \in DOMAIN stack
      BY <1>1, <3>1, GrownTyped DEF CallsMade
    <3>2. CASE k \notin DOMAIN stack
      BY <1>1, <3>2, GrownTyped
    <3> QED
      BY <3>1, <3>2
  <2>2. ASSUME NEW j \in DOMAIN stack', NEW k \in DOMAIN stack', stack'[j].path = stack'[k].path
        PROVE  j = k
    <3>1. CASE j \in DOMAIN stack /\ k \in DOMAIN stack
      BY <2>2, <3>1, GrownTyped DEF CallsMade
    <3>2. CASE j \in DOMAIN stack /\ k \notin DOMAIN stack
      BY <1>1, <2>2, <3>2, GrownTyped DEF CallsMade
    <3>3. CASE j \notin DOMAIN stack /\ k \in DOMAIN stack
      BY <1>1, <2>2, <3>3, GrownTyped DEF CallsMade
    <3>4. CASE j \notin DOMAIN stack /\ k \notin DOMAIN stack
      BY <3>4, GrownTyped
    <3> QED
      BY <3>1, <3>2, <3>3, <3>4
  <2> QED
    BY <2>1, <2>2 DEF CallsMade
<1>8. Passed'
  <2> SUFFICES ASSUME NEW p \in DOMAIN made' \ {<<>>}, NEW k \in DOMAIN stack',
                      stack'[k].path = ButLast(p)
               PROVE  \E j \in DOMAIN List(stack'[k].ref) :
                        /\ j < stack'[k].i
                        /\ p[Len(p)] = List(stack'[k].ref)[j].name
    BY DEF Passed, List, Node, ButLast
  <2>1. CASE p = EntryPath
    <3>1. ButLast(p) \in DOMAIN made
      BY <1>2, <1>3, <2>1 DEF CallsMade
    <3>2. k = n
      <4>1. k \in DOMAIN stack
        BY <1>1, <3>1, GrownTyped
      <4>2. stack[k].path = stack[n].path
        BY <1>2, <1>3, <2>1, <4>1, GrownTyped
      <4> QED
        BY <1>3, <4>1, <4>2 DEF CallsMade
    <3>3. stack'[k].ref = Top.ref /\ stack'[k].i = Top.i + 1 /\ Top.i \in Nat
      BY <1>3, <3>2, GrownTyped DEF Call
    <3>4. Top.i \in DOMAIN List(Top.ref) /\ p[Len(p)] = List(Top.ref)[Top.i].name
      BY <2>1, EntryTyped DEF Entries, Entry, List
    <3>5. Top.i < Top.i + 1
      BY <3>3
    <3> QED
      BY <3>3, <3>4, <3>5
  <2>2. CASE p # EntryPath
    <3>1. p \in DOMAIN made \ {<<>>} /\ ButLast(p) \in DOMAIN made
      BY <1>1, <2>2 DEF InDirs, At
    <3>2. k \in DOMAIN stack
      BY <1>1, <3>1, GrownTyped
    <3>3. stack'[k].ref = stack[k].ref /\ stack[k].path = ButLast(p)
      BY <3>2, GrownTyped
    <3>4. PICK j \in DOMAIN List(stack[k].ref) :
            j < stack[k].i /\ p[Len(p)] = List(stack[k].ref)[j].name
      BY <3>1, <3>2, <3>3 DEF Passed
    <3>5. stack[k] \in Call
      BY <3>2, ElementOfSeq, LenProperties DEF Typed
    <3>6. stack[k].ref \in DOMAIN image.node /\ stack[k].i \in Nat
      BY <3>5 DEF Call
    <3>7. j \in Nat
      BY <3>6, ListTyped
    <3>8. stack'[k].i = stack[k].i \/ stack'[k].i = stack[k].i + 1
      BY <3>2, GrownTyped
    <3>9. j < stack'[k].i
      BY <3>4, <3>6, <3>7, <3>8
    <3> QED
      BY <3>3, <3>4, <3>9
  <2> QED
    BY <2>1, <2>2
<1> QED
  BY <1>7, <1>8

(* Such a step misses nothing, if it calls for a directory. *)
LEMMA PutMissesNothing ==
  ASSUME Base, Clean, DistinctNames, AtEntry, Put(EntryPath, Entry.ref), Grown, image' = image,
         Node(Entry.ref).type = "dir" =>
           stack' = Append(Advanced, [path |-> EntryPath, ref |-> Entry.ref, i |-> 1])
  PROVE  NothingMissed'
<1> USE DEF Base, Clean
<1>1. /\ DOMAIN made' = DOMAIN made \cup {EntryPath}
      /\ made'[EntryPath] = Entry.ref
      /\ \A p \in DOMAIN made : p # EntryPath /\ made'[p] = made[p]
  BY EntryFree DEF Put
<1> DEFINE n == Len(stack)
<1>2. /\ n \in DOMAIN stack /\ DOMAIN stack = 1..n
      /\ stack[n] = Top /\ Top \in Call
  BY TopTyped DEF AtEntry, Top
<1>3. SUFFICES ASSUME WellFormed,
                      NEW p \in DOMAIN made', Node(made'[p]).type = "dir",
                      NEW j \in DOMAIN List(made'[p])
               PROVE  LET e == List(made'[p])[j]
                      IN \/ /\ Append(p, e.name) \in DOMAIN made'
                            /\ made'[Append(p, e.name)] = e.ref
                         \/ \E k \in DOMAIN stack' : stack'[k].path = p /\ stack'[k].i <= j
  BY SameImage DEF NothingMissed, List, Node
<1>4. made'[p] \in DOMAIN image.node
  BY <1>1, EntryTyped DEF Typed
<1>5. j \in Nat /\ j >= 1
  BY <1>4, ListTyped
<1>6. CASE p = EntryPath
  <2>1. n + 1 \in DOMAIN stack' /\ stack'[n + 1].path = p /\ stack'[n + 1].i = 1
    <3> DEFINE new == [path |-> EntryPath, ref |-> Entry.ref, i |-> 1]
    <3>1. stack' = Append(Advanced, new)
      BY <1>1, <1>3, <1>6
    <3>2. new \in Call /\ Advanced \in Seq(Call) /\ Len(Advanced) = n
      BY EntryTyped, AdvancedTyped DEF Call, AtEntry
    <3> HIDE DEF new
    <3>3. /\ stack' \in Seq(Call) /\ Len(stack') = n + 1 /\ stack'[n + 1] = new
      BY <3>1, <3>2, AppendProperties
    <3>4. n + 1 \in DOMAIN stack'
      BY <1>2, <3>3, LenProperties
    <3> QED
      BY <1>6, <3>3, <3>4 DEF new
  <2> QED
    BY <1>5, <2>1
<1>7. CASE p # EntryPath
  <2>1. p \in DOMAIN made /\ made'[p] = made[p]
    BY <1>1, <1>7
  <2> DEFINE e == List(made[p])[j]
  <2>2. CASE Append(p, e.name) \in DOMAIN made /\ made[Append(p, e.name)] = e.ref
    BY <1>1, <2>1, <2>2
  <2>3. CASE \E k \in DOMAIN stack : stack[k].path = p /\ stack[k].i <= j
    <3>1. PICK k \in DOMAIN stack : stack[k].path = p /\ stack[k].i <= j
      BY <2>3
    <3>2. k \in DOMAIN stack' /\ stack'[k].path = p
      BY <3>1, GrownTyped
    <3>3. stack[k] \in Call
      BY ElementOfSeq, LenProperties DEF Typed
    <3>4. stack[k].i \in Nat
      BY <3>3 DEF Call
    <3>5. CASE k # n \/ stack[k].i # j
      <4>1. stack'[k].i <= j
        BY <1>5, <3>1, <3>4, <3>5, GrownTyped
      <4> QED
        BY <2>1, <3>2, <4>1
    <3>6. CASE k = n /\ stack[k].i = j
      <4>1. made[p] = Top.ref /\ p = Top.path /\ j = Top.i
        BY <1>2, <3>1, <3>6 DEF CallsMade
      <4>2. e = Entry /\ EntryPath = Append(p, e.name)
        BY <4>1 DEF List, Entry, Entries, EntryPath
      <4> QED
        BY <1>1, <2>1, <4>2
    <3> QED
      BY <3>5, <3>6
  <2> QED
    BY <1>3, <2>1, <2>2, <2>3 DEF NothingMissed
<1> QED
  BY <1>6, <1>7

-----------------------------------------------------------------------------
(* Well-formed images.                                                     *)

(* The files and links of the tree. *)
Leaves == Nodes(Tree, {"file", "link"})

(* Paths that lead to files and links of the tree are no more than those.  *)
LEMMA PathsFit ==
  ASSUME image \in Images, NEW f, NEW C, DOMAIN f = C,
         \A p \in C : [path |-> p, ref |-> f[p]] \in Leaves
  PROVE  IsFiniteSet(C) /\ Cardinality(C) <= Cardinality(Leaves)
<1> DEFINE g == [p \in C |-> [path |-> p, ref |-> f[p]]]
<1>1. g \in Injection(C, Leaves)
  <2>1. g \in [C -> Leaves]
    OBVIOUS
  <2>2. \A p, q \in C : g[p] = g[q] => p = q
    OBVIOUS
  <2> QED
    BY <2>1, <2>2 DEF Injection, IsInjective
<1>2. IsFiniteSet(Leaves)
  BY TreeFinite, FS_Subset DEF Leaves, Nodes
<1> HIDE DEF g
<1> QED
  BY <1>1, <1>2, FS_Injection

(* What is counted is in the tree. *)
LEMMA CountedInTree ==
  ASSUME InTree
  PROVE  \A p \in Counted : [path |-> p, ref |-> made[p]] \in Leaves
BY DEF InTree, OnDisk, Counted, Leaves, Nodes, Type

(* No entry of a well-formed image is rejected or too deep, a directory    *)
(* not entered before, and a file or a link not over the limit.            *)
LEMMA WellFormedEntry ==
  ASSUME IInv, AtEntry, WellFormed
  PROVE  /\ ~Rejected
         /\ Node(Entry.ref).type \in {"dir", "file", "link"}
         /\ Node(Entry.ref).type = "dir" => ~Refuses(EntryPath, Entry.ref)
         /\ Node(Entry.ref).type # "dir" => count < MaxFiles
<1>0. DistinctNames /\ Base /\ Clean
  BY DEF WellFormed, IInv
<1> USE <1>0 DEF Base, Clean
<1> DEFINE x == [path |-> EntryPath, ref |-> Entry.ref]
<1>1. /\ EntryPath \in Seq(STRING) /\ EntryPath # <<>>
      /\ Len(EntryPath) \in DOMAIN EntryPath
      /\ EntryPath[Len(EntryPath)] = Entry.name
      /\ Entry.ref \in DOMAIN image.node
  <2>1. Len(EntryPath) \in DOMAIN EntryPath
    BY EntryTyped, EmptySeq, LenProperties
  <2> QED
    BY <2>1, EntryTyped
<1>2. x \in Tree
  BY EntryInTree
<1>3. /\ Node(Entry.ref).type \in {"dir", "file", "link"}
      /\ Len(EntryPath) <= MaxPath
      /\ \A i \in DOMAIN EntryPath : EntryPath[i] \in Plain
      /\ Cardinality(Leaves) <= MaxFiles
  BY <1>2 DEF WellFormed, Type, Leaves
<1>4. MaxFiles \in Nat /\ MaxDepth \in Nat /\ MaxPath \in Nat /\ count \in Nat /\ Len(EntryPath) \in Nat
  BY <1>1, LimitAssumption DEF Typed
<1>5. Cardinality(Leaves) \in Nat
  <2>1. IsFiniteSet(Leaves)
    BY TreeFinite, FS_Subset DEF Leaves, Nodes, Typed
  <2> QED
    BY <2>1, FS_CardinalityType
<1>6. ~Rejected
  BY <1>1, <1>3, <1>4 DEF Rejected
<1>7. count <= MaxFiles
  <2> DEFINE f == [p \in Counted |-> made[p]]
  <2>1. DOMAIN f = Counted /\ \A p \in Counted : [path |-> p, ref |-> f[p]] \in Leaves
    BY CountedInTree
  <2> HIDE DEF f
  <2>2. Cardinality(Counted) <= Cardinality(Leaves)
    BY <2>1, PathsFit DEF Typed
  <2> QED
    BY <1>3, <1>4, <1>5, <2>2 DEF CountExact
<1>8. ASSUME Node(Entry.ref).type = "dir"
      PROVE  ~Refuses(EntryPath, Entry.ref)
  <2>1. x \in Nodes(Tree, {"dir"})
    BY <1>2, <1>8 DEF Nodes, Type
  <2>2. Len(EntryPath) <= MaxDepth
    BY <2>1 DEF WellFormed
  <2>3. ASSUME Node(Entry.ref).number > 0, Node(Entry.ref).number \in seen
        PROVE  FALSE
    <3>1. PICK p \in Entered : Node(made[p]).number = Node(Entry.ref).number
      BY <2>3 DEF SeenExact, Numbers
    <3> DEFINE y == [path |-> p, ref |-> made[p]]
    <3>2. y \in Tree /\ p # EntryPath
      BY <3>1, EntryFree DEF Entered, InTree, OnDisk
    <3>3. Node(made[p]).type = "dir"
      <4>1. CASE p = <<>>
        BY <4>1, <3>1 DEF Entered, Phases, WellFormed, AtEntry
      <4>2. CASE p # <<>>
        BY <3>1, <3>2, <4>2 DEF Entered, IsDir, WellFormed, Type
      <4> QED
        BY <4>1, <4>2
    <3>4. y \in Nodes(Tree, {"dir"})
      BY <3>2, <3>3 DEF Nodes, Type
    <3>5. x = y \/ Node(Entry.ref).number = 0
      BY <2>1, <3>1, <3>4 DEF WellFormed
    <3>6. Node(Entry.ref).number \in Nat
      BY <1>1, ImageAssumption DEF Typed, Node
    <3> QED
      BY <2>3, <3>2, <3>5, <3>6
  <2> QED
    BY <1>3, <1>4, <1>7, <2>2, <2>3 DEF Refuses
<1>9. ASSUME Node(Entry.ref).type # "dir"
      PROVE  count < MaxFiles
  <2> DEFINE C == Counted \cup {EntryPath}
             f == [p \in C |-> IF p = EntryPath THEN Entry.ref ELSE made[p]]
  <2>1. EntryPath \notin Counted
    BY EntryFree DEF Counted
  <2>2. x \in Leaves
    BY <1>2, <1>3, <1>9 DEF Leaves, Nodes, Type
  <2>3. DOMAIN f = C /\ \A p \in C : [path |-> p, ref |-> f[p]] \in Leaves
    BY <2>1, <2>2, CountedInTree
  <2>4. Cardinality(C) = count + 1
    BY <2>1, FS_AddElement DEF CountExact, CountCovers
  <2> HIDE DEF f, C
  <2>5. Cardinality(C) <= Cardinality(Leaves)
    BY <2>3, PathsFit DEF Typed
  <2> QED
    BY <1>3, <1>4, <1>5, <2>4, <2>5
<1> QED
  BY <1>3, <1>6, <1>8, <1>9

-----------------------------------------------------------------------------
(* The invariant holds.                                                    *)

(* It holds when ExtractTo is called. *)
LEMMA InitHolds == Init => IInv
<1> SUFFICES ASSUME Init PROVE IInv
  OBVIOUS
<1> USE DEF Init
<1>1. Typed
  BY EmptySeq DEF Typed
<1>2. /\ DOMAIN stack = {} /\ DOMAIN made = {} /\ OnDisk = {}
      /\ Entered = {} /\ Numbers = {} /\ Counted = {} /\ Files = {}
  BY DEF OnDisk, Entered, Numbers, Counted, Files, Made, Nodes
<1>3. /\ IsFiniteSet({}) /\ Cardinality({}) = 0 /\ 0 <= MaxFiles
      /\ CountCovers /\ CountExact /\ FilesFit
  BY <1>2, FS_EmptySet, LimitAssumption DEF CountCovers, CountExact, FilesFit
<1>4. /\ Phases /\ CallsInTree /\ InDirs /\ InTree /\ SeenHas /\ NumbersOnce
      /\ CallsMade /\ Passed /\ SeenExact /\ NothingMissed
  BY <1>2 DEF Phases, CallsInTree, InDirs, InTree, SeenHas, NumbersOnce,
              CallsMade, Passed, SeenExact, NothingMissed
<1> QED
  BY <1>1, <1>3, <1>4 DEF IInv, Base, Clean

(* A directory is entered. *)
LEMMA EnterDirKeeps ==
  ASSUME IInv, EnterDir
  PROVE  IInv'
<1> DEFINE num == Node(Entry.ref).number
           new == [path |-> EntryPath, ref |-> Entry.ref, i |-> 1]
<1>1. /\ Base /\ AtEntry /\ IsDir(Entry.ref) /\ ~Refuses(EntryPath, Entry.ref)
      /\ Make(EntryPath, Entry.ref)
      /\ UNCHANGED <<image, pc, count, err>>
      /\ seen' = IF num > 0 THEN seen \cup {num} ELSE seen
      /\ stack' = IF Node(Entry.ref).type = "badDir" THEN Advanced ELSE Append(Advanced, new)
  BY DEF EnterDir, Enter, IInv
<1>2. /\ Entry.ref \in DOMAIN image.node /\ Len(EntryPath) \in Nat
      /\ num \in Nat /\ count \in Nat
  <2>1. Entry.ref \in DOMAIN image.node /\ EntryPath \in Seq(STRING) /\ image \in Images
    BY <1>1, EntryTyped DEF Base, Typed
  <2>2. Len(EntryPath) \in Nat
    BY <2>1, LenProperties
  <2>3. num \in Nat
    BY <2>1, ImageAssumption DEF Node
  <2> QED
    BY <1>1, <2>1, <2>2, <2>3 DEF Base, Typed
<1>3. Grown
  <2>1. Len(EntryPath) <= MaxDepth
    BY <1>1, <1>2, LimitAssumption DEF Refuses
  <2> QED
    BY <1>1, <2>1 DEF Grown
<1>4. count' \in Nat /\ seen' \in SUBSET Nat /\ seen \subseteq seen'
  BY <1>1, <1>2 DEF Base, Typed
<1>5. (Placed \/ made' = made) /\ strayed' \in BOOLEAN
  BY <1>1, OutcomeTyped
<1>6. Typed' /\ Phases' /\ CallsInTree' /\ InDirs' /\ InTree'
  BY <1>1, <1>3, <1>4, <1>5, StepKeeps
<1>7. SeenHas' /\ NumbersOnce'
  <2>1. CASE made' = made
    BY <1>1, <1>4, <2>1, NoDirPlaced
  <2>2. CASE Placed
    BY <1>1, <2>2, DirPlaced
  <2> QED
    BY <1>5, <2>1, <2>2
<1>8. CountCovers' /\ FilesFit'
  BY <1>1, <1>5, CountKeeps DEF IsDir
<1>9. ASSUME DistinctNames
      PROVE  Clean'
  <2>1. Clean
    BY <1>9 DEF IInv
  <2>2. /\ Put(EntryPath, Entry.ref) /\ ~strayed'
        /\ DOMAIN made' = DOMAIN made \cup {EntryPath}
        /\ made'[EntryPath] = Entry.ref
        /\ \A p \in DOMAIN made : p # EntryPath /\ made'[p] = made[p]
    BY <1>1, <1>9, <2>1, CleanPut
  <2>3. CallsMade' /\ Passed'
    BY <1>1, <1>3, <1>9, <2>1, <2>2, PutKeeps
  <2>4. SeenExact'
    <3>1. Placed
      <4>1. At(ButLast(EntryPath)) = "dir" /\ At(EntryPath) = "nothing"
        BY <1>1, <1>9, <2>1, EntryFree, EntryTyped DEF Free, Base
      <4> QED
        BY <2>2, <4>1 DEF Placed
    <3> QED
      BY <1>1, <2>1, <3>1, DirPlaced DEF Clean
  <2>5. CountExact'
    <3>1. Counted' = Counted
      BY <1>1, <2>2 DEF Counted, IsDir, Node
    <3> QED
      BY <1>1, <2>1, <3>1 DEF Clean, CountExact
  <2>6. NothingMissed'
    BY <1>1, <1>3, <1>9, <2>1, <2>2, PutMissesNothing
  <2> QED
    BY <2>2, <2>3, <2>4, <2>5, <2>6 DEF Clean
<1> QED
  BY <1>1, <1>6, <1>7, <1>8, <1>9, SameImage DEF IInv, Base

(* ExtractTo reads the root and enters it. *)
LEMMA StartKeeps ==
  ASSUME IInv, Start
  PROVE  IInv'
<1> USE DEF IInv, Base
<1> DEFINE root == image.root
           call == [path |-> <<>>, ref |-> root, i |-> 1]
<1>1. /\ pc = "start" /\ stack = <<>> /\ count = 0 /\ seen = {} /\ DOMAIN made = {}
      /\ ~err /\ ~strayed
      /\ image' = image /\ count' = count
  BY DEF Start, Phases, Typed
<1>2. root \in DOMAIN image.node /\ Node(root).number \in Nat /\ image \in Images
  BY ImageAssumption DEF Typed, Node
<1>3. <<>> \in Seq(STRING) /\ <<>> \in Seq(Call) /\ Len(<<>>) = 0 /\ DOMAIN <<>> = {}
  BY EmptySeq
<1>4. call \in Call
  BY <1>2, <1>3 DEF Call
<1>5. CASE Node(root).type = "none" /\ UNCHANGED <<stack, seen, made, strayed>> /\ Finish(TRUE)
  <2>1. pc' = "done" /\ err' = TRUE
    BY <1>5 DEF Finish
  <2>2. Typed'
    BY <1>1, <1>5, <2>1, SameImage DEF Typed
  <2>3. Phases'
    BY <1>1, <1>5, <2>1 DEF Phases, Node
  <2>4. /\ OnDisk' = {} /\ Entered' = {} /\ Numbers' = {} /\ Counted' = {} /\ Files' = {}
        /\ DOMAIN stack' = {} /\ DOMAIN made' = {} /\ seen' = {} /\ count' = 0
    BY <1>1, <1>3, <1>5 DEF OnDisk, Entered, Numbers, Counted, Files, Made, Nodes
  <2>5. CountCovers' /\ CountExact' /\ FilesFit'
    BY <2>4, FS_EmptySet, LimitAssumption DEF CountCovers, CountExact, FilesFit
  <2>6. /\ CallsInTree' /\ InDirs' /\ InTree' /\ SeenHas' /\ NumbersOnce'
        /\ CallsMade' /\ Passed' /\ SeenExact' /\ NothingMissed'
    BY <2>4 DEF CallsInTree, InDirs, InTree, SeenHas, NumbersOnce,
                CallsMade, Passed, SeenExact, NothingMissed
  <2>7. ~strayed'
    BY <1>1, <1>5
  <2> QED
    BY <2>2, <2>3, <2>5, <2>6, <2>7 DEF Clean
<1>6. CASE /\ Node(root).type # "none"
           /\ Enter(<<>>, root, <<>>)
           /\ IF Node(root).type = "badDir" THEN Finish(TRUE)
                                            ELSE pc' = "walk" /\ err' = err
  <2>0. Put(<<>>, root)
    <3>1. Free(<<>>)
      BY <1>1 DEF Free, At
    <3>2. ~Elsewhere(ButLast(<<>>))
      <4>1. ~Linked(ButLast(<<>>))
        BY <1>1 DEF Linked, At
      <4> QED
        BY <1>1, <4>1 DEF Elsewhere
    <3>3. Make(<<>>, root)
      BY <1>6 DEF Enter
    <3> QED
      BY <3>1, <3>2, <3>3 DEF Make
  <2>1. /\ DOMAIN made' = {<<>>} /\ made'[<<>>] = root /\ strayed' = strayed
        /\ seen' = IF Node(root).number > 0 THEN {Node(root).number} ELSE {}
        /\ stack' = IF Node(root).type = "badDir" THEN <<>> ELSE <<call>>
        /\ IF Node(root).type = "badDir" THEN pc' = "done" /\ err' = TRUE
                                         ELSE pc' = "walk" /\ err' = FALSE
    <3>1. /\ DOMAIN made' = {<<>>} /\ made'[<<>>] = root /\ strayed' = strayed
      BY <1>1, <2>0 DEF Put
    <3>2. seen' = IF Node(root).number > 0 THEN {Node(root).number} ELSE {}
      BY <1>1, <1>6 DEF Enter
    <3>3. stack' = IF Node(root).type = "badDir" THEN <<>> ELSE <<call>>
      BY <1>6 DEF Enter
    <3>4. IF Node(root).type = "badDir" THEN pc' = "done" /\ err' = TRUE
                                       ELSE pc' = "walk" /\ err' = FALSE
      <4>1. err = FALSE
        BY <1>1 DEF Typed
      <4> QED
        BY <1>6, <4>1 DEF Finish
    <3> QED
      BY <3>1, <3>2, <3>3, <3>4, Zenon
  <2>2. stack' \in Seq(Call) /\ \A k \in DOMAIN stack' : k = 1 /\ stack'[k] = call
    BY <1>3, <1>4, <2>1
  <2>3. Typed'
    BY <1>1, <1>2, <1>3, <2>1, <2>2, SameImage DEF Typed
  <2>4. Phases'
    BY <1>1, <2>1 DEF Phases, Node
  <2>5. CallsMade'
    BY <1>3, <2>1, <2>2 DEF CallsMade
  <2>6. Passed' /\ InDirs'
    BY <2>1 DEF Passed, InDirs
  <2>7. OnDisk' = {[path |-> <<>>, ref |-> root]}
    BY <2>1 DEF OnDisk
  <2>8. InTree'
    BY <1>1, <2>7, TreeRoot, SameImage DEF InTree
  <2>9. CallsInTree'
    <3> SUFFICES ASSUME NEW k \in DOMAIN stack'
                 PROVE  /\ [path |-> stack'[k].path, ref |-> stack'[k].ref] \in Tree
                        /\ Len(stack'[k].path) <= MaxDepth
                        /\ stack'[k].path = <<>>
      BY <1>1, SameImage DEF CallsInTree
    <3> QED
      BY <1>3, <2>2, TreeRoot, LimitAssumption
  <2>10. Entered' = {<<>>} /\ Counted' = {} /\ Files' = {}
    BY <2>1, <2>7 DEF Entered, Counted, Files, Made, Nodes
  <2>11. SeenExact' /\ SeenHas'
    <3>1. {Node(made'[p]).number : p \in Entered'} = {Node(root).number}
      BY <2>1, <2>10
    <3>2. Numbers' = {Node(root).number} \ {0}
      BY <1>1, <3>1 DEF Numbers, Node
    <3> QED
      BY <1>2, <2>1, <3>2 DEF SeenExact, SeenHas
  <2>12. NumbersOnce'
    BY <2>10 DEF NumbersOnce
  <2>13. CountCovers' /\ CountExact' /\ FilesFit'
    BY <1>1, <2>10, FS_EmptySet, LimitAssumption DEF CountCovers, CountExact, FilesFit
  <2>14. NothingMissed'
    <3> SUFFICES ASSUME Node(root).type = "dir", NEW j \in DOMAIN List(root)
                 PROVE  \E k \in DOMAIN stack' : stack'[k].path = <<>> /\ stack'[k].i <= j
      BY <1>1, <2>1 DEF NothingMissed, List, Node
    <3>1. j \in Nat /\ j >= 1
      BY <1>2, ListTyped
    <3>2. 1 \in DOMAIN stack' /\ stack'[1] = call
      BY <2>1
    <3> QED
      BY <3>1, <3>2
  <2>15. ~strayed'
    BY <1>1, <2>1
  <2> QED
    BY <2>15, <2>3, <2>4, <2>5, <2>6, <2>8, <2>9, <2>11, <2>12, <2>13, <2>14 DEF Clean
<1> QED
  BY <1>5, <1>6 DEF Start

(* An entry is skipped: in a well-formed image there is none to skip. *)
LEMMA SkipEntryKeeps ==
  ASSUME IInv, SkipEntry
  PROVE  IInv'
<1>1. /\ AtEntry /\ pc = "walk" /\ stack # <<>> /\ stack' = Advanced
      /\ UNCHANGED <<image, pc, count, seen, made, strayed, err>>
  BY DEF SkipEntry, AtEntry
<1>2. /\ Base'
      /\ DistinctNames => ~strayed' /\ CallsMade' /\ Passed' /\ SeenExact' /\ CountExact'
  <2>1. \A k \in DOMAIN stack : stack[k].i \in Nat
    <3>1. \A k \in DOMAIN stack : stack[k] \in Call
      BY ElementOfSeq, LenProperties DEF IInv, Base, Typed
    <3> QED
      BY <3>1 DEF Call
  <2>2. /\ stack' \in Seq(Call) /\ DOMAIN stack' \subseteq DOMAIN stack
        /\ \A k \in DOMAIN stack' : /\ stack'[k].path = stack[k].path
                                    /\ stack'[k].ref = stack[k].ref
                                    /\ stack'[k].i >= stack[k].i
    BY <1>1, <2>1, AdvancedTyped DEF IInv, Base
  <2> QED
    BY <1>1, <2>2, MoveKeeps
<1>3. ~WellFormed'
  BY <1>1, WellFormedEntry, SameImage DEF SkipEntry, IsDir
<1>4. NothingMissed'
  BY <1>3 DEF NothingMissed
<1> QED
  BY <1>1, <1>2, <1>4, SameImage DEF IInv, Clean

(* A call returns: only at the end of its listing, if the image is         *)
(* well-formed.                                                            *)
LEMMA CallReturnKeeps ==
  ASSUME IInv, FileLimit \/ EndDir
  PROVE  IInv'
<1>1. /\ pc = "walk" /\ stack # <<>> /\ stack' = ButLast(stack)
      /\ UNCHANGED <<image, pc, count, seen, made, strayed, err>>
      /\ Typed
  BY DEF FileLimit, EndDir, AtFile, AtEntry, IInv, Base
<1>2. \A k \in DOMAIN stack : stack[k].i \in Nat
  <2>1. \A k \in DOMAIN stack : stack[k] \in Call
    BY <1>1, ElementOfSeq, LenProperties DEF Typed
  <2> QED
    BY <2>1 DEF Call
<1>3. /\ Base'
      /\ DistinctNames => ~strayed' /\ CallsMade' /\ Passed' /\ SeenExact' /\ CountExact'
  <2>1. /\ stack' \in Seq(Call) /\ DOMAIN stack' \subseteq DOMAIN stack
        /\ \A k \in DOMAIN stack' : /\ stack'[k].path = stack[k].path
                                    /\ stack'[k].ref = stack[k].ref
                                    /\ stack'[k].i >= stack[k].i
    BY <1>1, <1>2, FrontTyped
  <2> QED
    BY <1>1, <2>1, MoveKeeps
<1>4. CASE FileLimit
  <2>1. AtEntry /\ Node(Entry.ref).type \in {"file", "badFile"} /\ count >= MaxFiles
    BY <1>4 DEF FileLimit, AtFile
  <2>2. count \in Nat /\ MaxFiles \in Nat
    BY <1>1, LimitAssumption DEF Typed
  <2>3. ~WellFormed'
    BY <1>1, <2>1, <2>2, WellFormedEntry, SameImage
  <2>4. NothingMissed'
    BY <2>3 DEF NothingMissed
  <2> QED
    BY <1>1, <1>3, <2>4, SameImage DEF IInv, Clean
<1>5. CASE EndDir
  <2> DEFINE n == Len(stack)
  <2>1. n \in DOMAIN stack /\ stack[n] = Top /\ Top \in Call /\ Top.i > Len(Entries)
    BY <1>1, <1>5, TopTyped DEF EndDir, Top
  <2>2. ASSUME WellFormed, NEW p \in DOMAIN made, Node(made[p]).type = "dir",
               NEW j \in DOMAIN List(made[p]),
               ~ \E k \in DOMAIN stack' : stack'[k].path = p /\ stack'[k].i <= j
        PROVE  LET e == List(made[p])[j]
               IN Append(p, e.name) \in DOMAIN made /\ made[Append(p, e.name)] = e.ref
    <3>0. Clean
      BY <2>2 DEF WellFormed, IInv
    <3>1. SUFFICES ASSUME NEW k \in DOMAIN stack, stack[k].path = p, stack[k].i <= j
                   PROVE  FALSE
      BY <2>2, <3>0 DEF NothingMissed, Clean
    <3>2. k = n
      BY <1>1, <2>2, <3>1, FrontTyped
    <3>3. made[p] = Top.ref /\ Top.i <= j
      BY <2>1, <3>0, <3>1, <3>2 DEF CallsMade, Clean
    <3>4. Top.ref \in DOMAIN image.node /\ Top.i \in Nat
      BY <2>1 DEF Call
    <3>5. DOMAIN List(Top.ref) = 1..Len(List(Top.ref)) /\ Entries = List(Top.ref)
      BY <1>1, <3>4, ListTyped DEF Entries, List
    <3>6. Len(List(Top.ref)) \in Nat
      BY <1>1, <3>4, ListTyped, LenProperties
    <3> QED
      BY <2>1, <2>2, <3>3, <3>4, <3>5, <3>6
  <2>3. NothingMissed'
    <3> SUFFICES ASSUME WellFormed,
                        NEW p \in DOMAIN made, Node(made[p]).type = "dir",
                        NEW j \in DOMAIN List(made[p])
                 PROVE  LET e == List(made[p])[j]
                        IN \/ /\ Append(p, e.name) \in DOMAIN made
                              /\ made[Append(p, e.name)] = e.ref
                           \/ \E k \in DOMAIN stack' : stack'[k].path = p /\ stack'[k].i <= j
      <4>1. WellFormed' = WellFormed /\ image' = image /\ made' = made
        BY <1>1, SameImage
      <4> QED
        BY <4>1 DEF NothingMissed, List, Node
    <3> QED
      BY <2>2
  <2> QED
    BY <1>1, <1>3, <2>3, SameImage DEF IInv, Clean
<1> QED
  BY <1>4, <1>5

(* What is not a directory is put on disk and counted, or neither, unless  *)
(* it is a link.                                                           *)
LEMMA LeafKeeps ==
  ASSUME IInv, AtEntry, stack' = Advanced, UNCHANGED <<image, pc, seen, err>>,
         Node(Entry.ref).type \in {"file", "badFile", "link"},
         Placed \/ made' = made, strayed' \in BOOLEAN,
         count' = count \/ count' = count + 1,
         Placed => count' = IF Node(Entry.ref).type \in {"file", "link"} THEN count + 1 ELSE count,
         Node(Entry.ref).type # "link" => count < MaxFiles,
         DistinctNames => Put(EntryPath, Entry.ref) /\ ~strayed'
  PROVE  IInv'
<1>1. /\ Base /\ ~IsDir(Entry.ref) /\ Grown
      /\ count' \in Nat /\ seen' \in SUBSET Nat /\ seen \subseteq seen'
  BY DEF IInv, Base, Typed, IsDir, Grown
<1>2. Typed' /\ Phases' /\ CallsInTree' /\ InDirs' /\ InTree'
  BY <1>1, StepKeeps
<1>3. Numbers' = Numbers /\ SeenHas' /\ NumbersOnce'
  BY <1>1, NoDirPlaced
<1>4. CountCovers' /\ FilesFit'
  BY <1>1, CountKeeps
<1>5. ASSUME DistinctNames
      PROVE  Clean'
  <2>1. /\ Clean /\ Put(EntryPath, Entry.ref) /\ ~strayed'
        /\ EntryPath \notin DOMAIN made /\ EntryPath # <<>>
        /\ At(ButLast(EntryPath)) = "dir" /\ At(EntryPath) = "nothing"
    BY <1>1, <1>5, EntryFree, EntryTyped DEF IInv, Base, Free
  <2>2. Placed
    BY <2>1 DEF Placed
  <2>3. /\ DOMAIN made' = DOMAIN made \cup {EntryPath}
        /\ made'[EntryPath] = Entry.ref
        /\ \A p \in DOMAIN made : p # EntryPath /\ made'[p] = made[p]
    BY <2>1 DEF Put
  <2>4. CallsMade' /\ Passed'
    BY <1>1, <1>5, <2>1, PutKeeps
  <2>5. SeenExact'
    BY <1>3, <2>1 DEF Clean, SeenExact
  <2>6. CountExact'
    <3>1. IsFiniteSet(Counted) /\ count = Cardinality(Counted)
      BY <1>1, <2>1 DEF Base, CountCovers, Clean, CountExact
    <3>2. CASE Node(Entry.ref).type \in {"file", "link"}
      <4>1. Counted' = Counted \cup {EntryPath} /\ EntryPath \notin Counted
        BY <2>1, <2>3, <3>2 DEF Counted, Node
      <4> QED
        BY <2>2, <3>1, <3>2, <4>1, FS_AddElement DEF CountExact
    <3>3. CASE Node(Entry.ref).type \notin {"file", "link"}
      <4>1. Counted' = Counted
        BY <2>3, <3>3 DEF Counted, Node
      <4> QED
        BY <2>2, <3>1, <3>3, <4>1 DEF CountExact
    <3> QED
      BY <3>2, <3>3
  <2>7. NothingMissed'
    BY <1>1, <1>5, <2>1, PutMissesNothing
  <2> QED
    BY <2>1, <2>4, <2>5, <2>6, <2>7 DEF Clean
<1> QED
  BY <1>2, <1>3, <1>4, <1>5, SameImage DEF IInv, Base

(* A file is extracted. *)
LEMMA ExtractFileKeeps ==
  ASSUME IInv, ExtractFile
  PROVE  IInv'
<1>1. /\ Base /\ AtEntry /\ stack' = Advanced
      /\ UNCHANGED <<image, pc, seen, err>>
      /\ Node(Entry.ref).type \in {"file", "badFile"}
      /\ count < MaxFiles /\ count \in Nat
  BY DEF ExtractFile, AtFile, IInv, Base, Typed
<1>2. \/ /\ Open(EntryPath, Entry.ref)
         /\ count' = IF Node(Entry.ref).type = "file" THEN count + 1 ELSE count
      \/ ~Free(EntryPath) /\ Untouched /\ count' = count
  BY DEF ExtractFile
<1>3. (Placed \/ made' = made) /\ strayed' \in BOOLEAN
  BY <1>1, <1>2, OutcomeTyped
<1>4. CASE Open(EntryPath, Entry.ref) /\ count' = IF Node(Entry.ref).type = "file" THEN count + 1 ELSE count
  <2>1. DistinctNames => Put(EntryPath, Entry.ref) /\ ~strayed'
    BY <1>1, <1>4, CleanPut DEF IInv
  <2> QED
    BY <1>1, <1>3, <1>4, <2>1, LeafKeeps
<1>5. CASE ~Free(EntryPath) /\ Untouched /\ count' = count
  <2>1. ~DistinctNames
    BY <1>1, <1>5, EntryFree DEF IInv
  <2>2. made' = made
    BY <1>5 DEF Untouched
  <2>3. Typed' /\ Phases' /\ CallsInTree' /\ InDirs' /\ InTree'
    BY <1>1, <1>3, <1>5, StepKeeps DEF Grown, Base, Typed
  <2>4. SeenHas' /\ NumbersOnce'
    BY <1>1, <2>2, NoDirPlaced
  <2>5. CountCovers' /\ FilesFit'
    <3>1. Counted' = Counted /\ Files' = Files
      BY <1>1, <2>2 DEF Counted, Files, Made, Nodes, OnDisk, Type, Node
    <3> QED
      BY <1>1, <1>5, <3>1 DEF Base, CountCovers, FilesFit
  <2> QED
    BY <1>1, <2>1, <2>3, <2>4, <2>5, SameImage DEF IInv, Base
<1> QED
  BY <1>2, <1>4, <1>5

(* A link is made. *)
LEMMA MakeLinkKeeps ==
  ASSUME IInv, MakeLink
  PROVE  IInv'
<1>1. /\ Base /\ AtEntry /\ stack' = Advanced
      /\ UNCHANGED <<image, pc, seen, err>>
      /\ Node(Entry.ref).type = "link"
      /\ Make(EntryPath, Entry.ref) /\ count' = count + 1
  BY DEF MakeLink, IInv
<1>2. (Placed \/ made' = made) /\ strayed' \in BOOLEAN
  BY <1>1, OutcomeTyped
<1>3. DistinctNames => Put(EntryPath, Entry.ref) /\ ~strayed'
  BY <1>1, CleanPut DEF IInv
<1> QED
  BY <1>1, <1>2, <1>3, LeafKeeps

(* A step in which neither the disk nor the calls change, but the walk may *)
(* be over.                                                                *)
LEMMA StillKeeps ==
  ASSUME IInv, Typed', Phases',
         UNCHANGED <<image, stack, count, seen, made, strayed>>
  PROVE  IInv'
<1>1. CallsInTree'
  BY SameImage DEF IInv, Base, CallsInTree, IsDir, Node
<1>2. Base'
  BY <1>1, DiskKept DEF Base
<1>3. ASSUME DistinctNames
      PROVE  CallsMade' /\ Passed' /\ NothingMissed'
  <2>1. Clean
    BY <1>3 DEF IInv
  <2>2. CallsMade'
    BY <2>1 DEF Clean, CallsMade
  <2>4. Passed'
    <3>1. Passed /\ image' = image /\ stack' = stack /\ made' = made
      BY <2>1 DEF Clean
    <3> QED
      BY <3>1, Zenon DEF Passed, List, Node, ButLast
  <2>3. NothingMissed'
    <3>1. NothingMissed /\ WellFormed' = WellFormed
      BY <2>1, SameImage DEF Clean
    <3> SUFFICES ASSUME WellFormed,
                        NEW p \in DOMAIN made, Node(made[p]).type = "dir",
                        NEW j \in DOMAIN List(made[p])
                 PROVE  LET e == List(made[p])[j]
                        IN \/ /\ Append(p, e.name) \in DOMAIN made
                              /\ made[Append(p, e.name)] = e.ref
                           \/ \E k \in DOMAIN stack : stack[k].path = p /\ stack[k].i <= j
      BY <3>1 DEF NothingMissed, List, Node
    <3> QED
      BY <3>1 DEF NothingMissed
  <2> QED
    BY <2>2, <2>3, <2>4
<1> QED
  BY <1>2, <1>3, DiskKept, SameImage DEF IInv, Clean

(* The walk is over. *)
LEMMA ReturnKeeps ==
  ASSUME IInv, Return
  PROVE  IInv'
<1>1. /\ pc = "walk" /\ stack = <<>> /\ pc' = "done" /\ err' = FALSE
      /\ UNCHANGED <<image, stack, count, seen, made, strayed>>
      /\ Typed /\ Phases
  BY DEF Return, Finish, IInv, Base
<1>2. Typed'
  BY <1>1, SameImage DEF Typed
<1>3. Phases'
  BY <1>1 DEF Phases, Node
<1> QED
  BY <1>1, <1>2, <1>3, StillKeeps

(* Nothing happens. *)
LEMMA StutterKeeps ==
  ASSUME IInv, UNCHANGED vars
  PROVE  IInv'
<1>1. /\ UNCHANGED <<image, pc, stack, count, seen, made, strayed, err>>
      /\ Typed /\ Phases
  BY DEF vars, IInv, Base
<1>2. Typed'
  BY <1>1, SameImage DEF Typed
<1>3. Phases'
  BY <1>1, Zenon DEF Phases, Node
<1> QED
  BY <1>1, <1>2, <1>3, StillKeeps

(* The invariant holds in every state of every walk. *)
THEOREM Invariance == Spec => []IInv
<1>1. Init => IInv
  BY InitHolds
<1>2. IInv /\ [Next]_vars => IInv'
  <2> SUFFICES ASSUME IInv, [Next]_vars PROVE IInv'
    OBVIOUS
  <2>1. CASE Start
    BY <2>1, StartKeeps
  <2>2. CASE SkipEntry
    BY <2>2, SkipEntryKeeps
  <2>3. CASE EnterDir
    BY <2>3, EnterDirKeeps
  <2>4. CASE ExtractFile
    BY <2>4, ExtractFileKeeps
  <2>5. CASE MakeLink
    BY <2>5, MakeLinkKeeps
  <2>6. CASE FileLimit \/ EndDir
    BY <2>6, CallReturnKeeps
  <2>7. CASE Return
    BY <2>7, ReturnKeeps
  <2>8. CASE UNCHANGED vars
    BY <2>8, StutterKeeps
  <2> QED
    BY <2>1, <2>2, <2>3, <2>4, <2>5, <2>6, <2>7, <2>8 DEF Next, Walk
<1> QED
  BY <1>1, <1>2, PTL DEF Spec

-----------------------------------------------------------------------------
(* What follows from the invariant.                                        *)

(* The variables have their types, whatever the image is like.             *)
THEOREM TypeCorrect == Spec => []TypeOK
<1>1. IInv => TypeOK
  <2> SUFFICES ASSUME IInv PROVE TypeOK
    OBVIOUS
  <2> USE DEF IInv, Base, Typed
  <2>1. DOMAIN image.node \subseteq Ref
    BY ImageAssumption
  <2>2. stack \in Seq([path : Seq(STRING), ref : Ref, i : Nat])
    <3>1. Call \subseteq [path : Seq(STRING), ref : Ref, i : Nat]
      BY <2>1 DEF Call
    <3> QED
      BY <3>1, SeqMonotonic
  <2> QED
    BY <2>1, <2>2 DEF TypeOK
<1> QED
  BY <1>1, Invariance, PTL

(* On any image, however it is entangled, no directory with an inode       *)
(* number is on disk twice: the map seen is enough.                        *)
THEOREM DirectoriesAlwaysOnce == Spec => []DirectoryOnce
<1>1. IInv => DirectoryOnce
  BY DEF IInv, Base, NumbersOnce, DirectoryOnce, Nodes, OnDisk, Entered, IsDir, Type
<1> QED
  BY <1>1, Invariance, PTL

(* The files and links on disk are as many as their paths. *)
LEMMA MadeAreCounted ==
  ASSUME IsFiniteSet(Counted)
  PROVE  Cardinality(Made({"file", "link"})) = Cardinality(Counted)
<1> DEFINE S == Made({"file", "link"})
           f == [x \in S |-> x.path]
<1>1. f \in [S -> Counted]
  BY DEF Made, Nodes, OnDisk, Type, Counted
<1>2. \A x, y \in S : f[x] = f[y] => x = y
  BY DEF Made, Nodes, OnDisk
<1>3. \A p \in Counted : \E x \in S : f[x] = p
  <2> SUFFICES ASSUME NEW p \in Counted
               PROVE  [path |-> p, ref |-> made[p]] \in S
    OBVIOUS
  <2> QED
    BY DEF Made, Nodes, OnDisk, Type, Counted
<1>4. f \in Bijection(S, Counted)
  BY <1>1, <1>2, <1>3 DEF Bijection, Injection, IsInjective, Surjection
<1>5. IsFiniteSet(S)
  <2>1. f \in Injection(S, Counted)
    BY <1>4 DEF Bijection
  <2> HIDE DEF f, S
  <2> QED
    BY <2>1, FS_Injection
<1> HIDE DEF f, S
<1>6. ExistsBijection(S, Counted)
  BY <1>4 DEF ExistsBijection
<1>7. Cardinality(S) = Cardinality(Counted)
  BY <1>5, <1>6, FS_Bijection
<1> QED
  BY <1>7 DEF S

(* There are never more than maxExtractFiles files on disk that were       *)
(* extracted whole, and ExtractTo's count is at every step that of these   *)
(* and of the links, unless the image lists a name twice.                  *)
THEOREM FilesAlwaysBounded == Spec => []FilesBounded
<1>1. IInv => FilesBounded
  <2> SUFFICES ASSUME IInv PROVE FilesBounded
    OBVIOUS
  <2>1. Cardinality(Made({"file"})) <= MaxFiles /\ IsFiniteSet(Counted)
    BY DEF IInv, Base, FilesFit, Files, CountCovers
  <2>2. DistinctNames => count = Cardinality(Made({"file", "link"}))
    BY <2>1, MadeAreCounted DEF IInv, Clean, CountExact
  <2> QED
    BY <2>1, <2>2 DEF FilesBounded
<1> QED
  BY <1>1, Invariance, PTL

(* When extractDir has returned to ExtractTo, all of a well-formed image   *)
(* is on disk.                                                             *)
LEMMA NothingLeft ==
  ASSUME IInv, pc = "done", WellFormed
  PROVE  Tree \subseteq OnDisk
<1>0. DistinctNames /\ Base /\ Clean
  BY DEF WellFormed, IInv
<1> USE <1>0 DEF Base, Clean
<1>1. /\ stack = <<>> /\ ~err
      /\ <<>> \in DOMAIN made /\ made[<<>>] = image.root
  BY DEF Phases, WellFormed, Typed
<1>2. [path |-> <<>>, ref |-> image.root] \in OnDisk
  BY <1>1 DEF OnDisk
<1>3. ASSUME NEW x \in OnDisk \cap Tree, NEW y \in Below(image, x)
      PROVE  y \in OnDisk
  <2>1. /\ x.path \in DOMAIN made /\ made[x.path] = x.ref
        /\ Node(x.ref).type \in {"dir", "file", "link"}
    BY DEF OnDisk, WellFormed, Type
  <2>2. PICK j \in DOMAIN List(x.ref) :
          y = [path |-> Append(x.path, List(x.ref)[j].name), ref |-> List(x.ref)[j].ref]
    BY DEF Below, List, Node
  <2>3. CASE Node(x.ref).type = "dir"
    <3>1. /\ Append(x.path, List(x.ref)[j].name) \in DOMAIN made
          /\ made[Append(x.path, List(x.ref)[j].name)] = List(x.ref)[j].ref
      BY <1>1, <2>1, <2>2, <2>3 DEF NothingMissed
    <3> QED
      BY <2>2, <3>1 DEF OnDisk
  <2>4. CASE Node(x.ref).type # "dir"
    <3>1. x.ref \in DOMAIN image.node
      BY <2>1 DEF Typed
    <3>2. List(x.ref) = <<>>
      BY <2>1, <2>4, <3>1, ImageAssumption DEF Typed, List, Node
    <3> QED
      BY <2>2, <3>2
  <2> QED
    BY <2>3, <2>4
<1> QED
  BY <1>2, <1>3, TreeClosed

(* In a well-formed image, what is counted is what the tree has of files   *)
(* and links, once all of it is on disk.                                   *)
LEMMA CountedAll ==
  ASSUME IInv, WellFormed, OnDisk = Tree
  PROVE  count = Cardinality(Leaves)
<1>0. DistinctNames /\ Base /\ Clean
  BY DEF WellFormed, IInv
<1> USE <1>0 DEF Base, Clean
<1> DEFINE f == [x \in Leaves |-> x.path]
<1>1. f \in [Leaves -> Counted]
  <2> SUFFICES ASSUME NEW x \in Leaves PROVE x.path \in Counted
    OBVIOUS
  <2>1. x \in OnDisk /\ Node(x.ref).type \in {"file", "link"}
    BY DEF Leaves, Nodes, Type
  <2>2. x.path \in DOMAIN made /\ made[x.path] = x.ref
    BY <2>1 DEF OnDisk
  <2>3. x.path # <<>>
    <3> SUFFICES ASSUME x.path = <<>> PROVE FALSE
      OBVIOUS
    <3>1. [path |-> <<>>, ref |-> image.root] \in OnDisk
      BY TreeRoot
    <3>2. made[<<>>] = image.root
      BY <3>1 DEF OnDisk
    <3> QED
      BY <2>1, <2>2, <3>2 DEF WellFormed
  <2> QED
    BY <2>1, <2>2, <2>3 DEF Counted
<1>2. \A x, y \in Leaves : f[x] = f[y] => x = y
  BY DEF Leaves, Nodes, OnDisk
<1>3. \A p \in Counted : \E x \in Leaves : f[x] = p
  BY CountedInTree
<1>4. f \in Bijection(Leaves, Counted)
  BY <1>1, <1>2, <1>3 DEF Bijection, Injection, IsInjective, Surjection
<1>5. IsFiniteSet(Leaves)
  BY TreeFinite, FS_Subset DEF Leaves, Nodes, Typed
<1> HIDE DEF f
<1>6. ExistsBijection(Leaves, Counted)
  BY <1>4 DEF ExistsBijection
<1>7. Cardinality(Counted) = Cardinality(Leaves)
  BY <1>5, <1>6, FS_Bijection
<1> QED
  BY <1>7 DEF CountExact

(* A well-formed image, of any size within the limits, is extracted whole, *)
(* without an error, and its files and links are counted exactly.          *)
THEOREM WellFormedAlwaysCopied == Spec => []WellFormedIsCopied
<1>1. IInv => WellFormedIsCopied
  <2> SUFFICES ASSUME IInv, pc = "done", WellFormed
               PROVE  ~err /\ ~strayed /\ OnDisk = Tree /\ count = Cardinality(Leaves)
    BY DEF WellFormedIsCopied, Leaves
  <2>1. ~err /\ ~strayed
    BY DEF IInv, Base, Clean, Phases, WellFormed, Typed
  <2>2. OnDisk = Tree
    BY NothingLeft DEF IInv, Base, InTree
  <2> QED
    BY <2>1, <2>2, CountedAll
<1> QED
  BY <1>1, Invariance, PTL

-----------------------------------------------------------------------------
(* The refinement.                                                         *)

(* Putting the entry on disk, in a free place or in that of a file, is a   *)
(* step of TreeCopy.                                                       *)
LEMMA EntryIsMade ==
  ASSUME IInv, AtEntry, Placed, ~strayed, image' = image
  PROVE  \/ Copy!Make \/ Copy!Replace
         \/ UNCHANGED <<Tree, OnDisk, strayed>>
<1> DEFINE x == [path |-> EntryPath, ref |-> Entry.ref]
<1>1. Base
  BY DEF IInv
<1>2. x \in Tree /\ Tree' = Tree /\ strayed' = strayed /\ x.path = EntryPath
  BY <1>1, EntryInTree, SameImage DEF Base, Placed, Put
<1>3. /\ EntryPath # <<>>
      /\ DOMAIN made' = DOMAIN made \cup {EntryPath}
      /\ made'[EntryPath] = Entry.ref
      /\ \A p \in DOMAIN made : p # EntryPath => made'[p] = made[p]
      /\ At(EntryPath) = "nothing" <=> EntryPath \notin DOMAIN made
  BY <1>1, PlacedMade
<1>4. CASE At(EntryPath) = "nothing"
  <2>1. OnDisk' = OnDisk \cup {x}
    BY <1>3, <1>4 DEF OnDisk
  <2>2. \A y \in OnDisk : y.path # EntryPath
    BY <1>3, <1>4 DEF OnDisk
  <2>3. \E y \in OnDisk : y.path = Copy!Parent(EntryPath)
    <3>1. Copy!Parent(EntryPath) = ButLast(EntryPath)
      BY DEF Copy!Parent, ButLast
    <3>2. ButLast(EntryPath) \in DOMAIN made
      BY DEF Placed, At
    <3>3. [path |-> ButLast(EntryPath), ref |-> made[ButLast(EntryPath)]] \in OnDisk
      BY <3>2 DEF OnDisk
    <3> QED
      BY <3>1, <3>3
  <2>4. x \in Tree \ OnDisk
    BY <1>2, <2>2
  <2>5. Copy!Make
    <3> HIDE DEF x
    <3> QED
      BY <1>2, <2>1, <2>2, <2>3, <2>4 DEF Copy!Make
  <2> QED
    BY <2>5
<1>5. CASE At(EntryPath) = "file"
  <2> DEFINE y == [path |-> EntryPath, ref |-> made[EntryPath]]
  <2>1. EntryPath \in DOMAIN made
    BY <1>5 DEF At
  <2>2. y \in OnDisk /\ y.path = EntryPath
    BY <2>1 DEF OnDisk
  <2>3. OnDisk' = (OnDisk \ {y}) \cup {x}
    BY <1>3, <2>1 DEF OnDisk
  <2>4. \A z \in OnDisk : z.path # <<>> => Copy!Parent(z.path) # EntryPath
    <3> SUFFICES ASSUME NEW z \in OnDisk, z.path # <<>>, ButLast(z.path) = EntryPath
                 PROVE  FALSE
      BY DEF Copy!Parent, ButLast
    <3>1. z.path \in DOMAIN made \ {<<>>}
      BY DEF OnDisk
    <3>2. At(ButLast(z.path)) = "dir"
      BY <1>1, <3>1 DEF Base, InDirs
    <3> QED
      BY <1>5, <3>2
  <2>5. CASE x \in OnDisk
    <3>1. x = y
      BY <2>1, <2>5 DEF OnDisk
    <3>2. OnDisk' = OnDisk
      BY <2>2, <2>3, <3>1
    <3> QED
      BY <1>2, <3>2
  <2>6. CASE x \notin OnDisk
    <3>1. x \in Tree \ OnDisk
      BY <1>2, <2>6
    <3>2. Copy!Replace
      <4> HIDE DEF x, y
      <4> QED
        BY <1>2, <2>2, <2>3, <2>4, <3>1 DEF Copy!Replace
    <3> QED
      BY <3>2
  <2> QED
    BY <2>5, <2>6
<1> QED
  BY <1>4, <1>5 DEF Placed

(* A link on the way to the entry, or in its place if it is a file, shows  *)
(* that two entries of the tree have one path.                             *)
LEMMA LinkIsDouble ==
  ASSUME IInv, AtEntry,
         \/ Linked(ButLast(EntryPath))
         \/ Linked(EntryPath) /\ Node(Entry.ref).type \in {"file", "badFile"}
  PROVE  \E x, y \in Tree : x # y /\ x.path = y.path
<1>1. Base /\ image \in Images
  BY DEF IInv, Base, Typed
<1> DEFINE e == [path |-> EntryPath, ref |-> Entry.ref]
           c == [path |-> Top.path, ref |-> Top.ref]
<1>2. /\ e \in Tree /\ c \in Tree
      /\ Top.path = <<>> \/ IsDir(Top.ref)
      /\ Top.path \in Seq(STRING) /\ EntryPath \in Seq(STRING)
      /\ Len(Top.path) \in Nat
      /\ Len(EntryPath) = Len(Top.path) + 1 /\ ButLast(EntryPath) = Top.path
      /\ SubSeq(EntryPath, 1, Len(EntryPath)) = EntryPath
      /\ SubSeq(Top.path, 1, Len(Top.path)) = Top.path
  <2>1. e \in Tree
    BY <1>1, EntryInTree DEF Base
  <2>2. c \in Tree /\ (Top.path = <<>> \/ IsDir(Top.ref)) /\ Top \in Call
    BY <1>1, TopTyped DEF Base, AtEntry, Top, CallsInTree
  <2>3. /\ Top.path \in Seq(STRING) /\ EntryPath \in Seq(STRING)
        /\ Len(EntryPath) = Len(Top.path) + 1 /\ ButLast(EntryPath) = Top.path
    BY <1>1, <2>2, EntryTyped DEF Base, Call
  <2>4. Len(Top.path) \in Nat /\ Len(EntryPath) \in Nat
    BY <2>3, LenProperties
  <2>5. SubSeq(EntryPath, 1, Len(EntryPath)) = EntryPath
    <3>1. 0 \in 0..Len(EntryPath) /\ 0 \in 0..0
      BY <2>4
    <3> QED
      BY <2>3, <3>1, PrefixOfPrefix
  <2>6. SubSeq(Top.path, 1, Len(Top.path)) = Top.path
    <3>1. 0 \in 0..Len(Top.path) /\ 0 \in 0..0
      BY <2>4
    <3> QED
      BY <2>3, <3>1, PrefixOfPrefix
  <2> QED
    BY <2>1, <2>2, <2>3, <2>4, <2>5, <2>6
<1>3. ASSUME NEW x \in Tree, NEW n \in 1..Len(x.path), Len(x.path) \in Nat,
             At(SubSeq(x.path, 1, n)) = "link",
             n = Len(x.path) => /\ SubSeq(x.path, 1, n) = x.path
                                /\ Node(x.ref).type # "link"
      PROVE  \E y, z \in Tree : y # z /\ y.path = z.path
  <2> DEFINE q == SubSeq(x.path, 1, n)
             z == [path |-> q, ref |-> made[q]]
  <2>1. q \in DOMAIN made /\ Node(made[q]).type = "link"
    BY <1>3 DEF At
  <2>2. z \in Tree /\ z.path = q /\ Node(z.ref).type = "link"
    <3>1. z \in OnDisk
      BY <2>1 DEF OnDisk
    <3> QED
      BY <1>1, <2>1, <3>1 DEF Base, InTree
  <2>3. CASE n = Len(x.path)
    <3>1. x.path = q /\ Node(x.ref).type # "link"
      BY <1>3, <2>3
    <3>2. x # z
      BY <2>2, <3>1
    <3> HIDE DEF z, q
    <3> QED
      BY <2>2, <3>1, <3>2
  <2>4. CASE n # Len(x.path)
    <3>1. n \in Nat /\ n < Len(x.path)
      BY <1>3, <2>4
    <3>2. PICK y \in Tree : y.path = q /\ IsDir(y.ref)
      BY <1>1, <3>1, TreeAncestors
    <3>3. y # z
      BY <2>2, <3>2 DEF IsDir
    <3> HIDE DEF z, q
    <3> QED
      BY <2>2, <3>2, <3>3
  <2> QED
    BY <2>3, <2>4
<1>4. CASE Linked(ButLast(EntryPath))
  <2>1. PICK n \in 1..Len(Top.path) : At(SubSeq(Top.path, 1, n)) = "link"
    BY <1>2, <1>4 DEF Linked
  <2>2. Node(Top.ref).type # "link"
    <3>1. Top.path # <<>>
      BY <1>2, <2>1, EmptySeq
    <3> QED
      BY <1>2, <3>1 DEF IsDir
  <2>3. /\ c \in Tree /\ n \in 1..Len(c.path) /\ Len(c.path) \in Nat
        /\ At(SubSeq(c.path, 1, n)) = "link"
        /\ SubSeq(c.path, 1, Len(c.path)) = c.path
        /\ Node(c.ref).type # "link"
    BY <1>2, <2>1, <2>2
  <2> HIDE DEF c
  <2> QED
    BY <1>3, <2>3
<1>5. CASE Linked(EntryPath) /\ Node(Entry.ref).type \in {"file", "badFile"}
  <2>1. PICK n \in 1..Len(EntryPath) : At(SubSeq(EntryPath, 1, n)) = "link"
    BY <1>5 DEF Linked
  <2>2. /\ e \in Tree /\ n \in 1..Len(e.path) /\ Len(e.path) \in Nat
        /\ At(SubSeq(e.path, 1, n)) = "link"
        /\ SubSeq(e.path, 1, Len(e.path)) = e.path
        /\ Node(e.ref).type # "link"
    BY <1>2, <1>5, <2>1
  <2> HIDE DEF e
  <2> QED
    BY <1>3, <2>2
<1> QED
  BY <1>4, <1>5

(* Whatever becomes of the entry is a step of TreeCopy, or changes nothing *)
(* there.                                                                  *)
LEMMA OutcomeCopies ==
  ASSUME IInv, AtEntry, image' = image,
         \/ Make(EntryPath, Entry.ref)
         \/ /\ Open(EntryPath, Entry.ref) \/ Untouched
            /\ Node(Entry.ref).type \in {"file", "badFile"}
  PROVE  \/ Copy!Make \/ Copy!Replace \/ Copy!Stray
         \/ UNCHANGED <<Tree, OnDisk, strayed>>
<1>1. Base /\ EntryPath # <<>>
  BY EntryTyped DEF IInv, Base
<1>2. Tree' = Tree /\ (made' = made => OnDisk' = OnDisk)
  BY SameImage DEF OnDisk
<1>3. CASE Untouched
  BY <1>2, <1>3 DEF Untouched
<1>4. CASE \/ Free(EntryPath) /\ Put(EntryPath, Entry.ref)
           \/ /\ ~strayed /\ At(EntryPath) = "file" /\ Put(EntryPath, Entry.ref)
              /\ Node(Entry.ref).type \in {"file", "badFile"}
  <2>1. Placed /\ ~strayed
    <3>1. At(EntryPath) = "file" => EntryPath \in DOMAIN made \ {<<>>}
      BY <1>1 DEF At
    <3> QED
      BY <1>1, <1>4, <3>1 DEF Free, Placed, Base, InDirs
  <2> QED
    BY <2>1, EntryIsMade
<1>5. CASE \/ Elsewhere(ButLast(EntryPath))
           \/ Elsewhere(EntryPath) /\ Node(Entry.ref).type \in {"file", "badFile"}
  <2>1. strayed' = TRUE /\ made' = made
    BY <1>5 DEF Elsewhere
  <2>2. CASE strayed
    <3>1. strayed = TRUE
      BY <1>1, <2>2 DEF Base, Typed
    <3> QED
      BY <1>2, <2>1, <3>1
  <2>3. CASE ~strayed
    <3>1. \E x, y \in Tree : x # y /\ x.path = y.path
      BY <1>5, <2>3, LinkIsDouble DEF Elsewhere
    <3>2. Copy!Stray
      BY <1>2, <2>1, <3>1 DEF Copy!Stray
    <3> QED
      BY <3>2
  <2> QED
    BY <2>2, <2>3
<1> QED
  BY <1>3, <1>4, <1>5 DEF Make, Open

(* Extraction implements TreeCopy on any image: each step makes one path   *)
(* of the tree of the image, its directory before it, or leaves the disk   *)
(* as it is; what was made is made again, or a link followed, only where   *)
(* the image leads to two inodes along one path.                           *)
THEOREM ImplementsTreeCopy == Spec => ExtractionCopies
<1>1. Init => Copy!Init
  BY DEF Init, Copy!Init, OnDisk
<1>2. IInv /\ [Next]_vars => [Copy!Make \/ Copy!Replace \/ Copy!Stray]_<<Tree, OnDisk, strayed>>
  <2> SUFFICES ASSUME IInv, [Next]_vars
               PROVE  \/ Copy!Make \/ Copy!Replace \/ Copy!Stray
                      \/ UNCHANGED <<Tree, OnDisk, strayed>>
    OBVIOUS
  <2>1. ASSUME image' = image, made' = made, strayed' = strayed
        PROVE  UNCHANGED <<Tree, OnDisk, strayed>>
    BY <2>1, SameImage DEF OnDisk
  <2>2. CASE EnterDir
    BY <2>2, OutcomeCopies DEF EnterDir, Enter
  <2>3. CASE ExtractFile \/ MakeLink
    BY <2>3, OutcomeCopies DEF ExtractFile, MakeLink, AtFile
  <2>4. CASE Start
    <3> DEFINE x == [path |-> <<>>, ref |-> image.root]
    <3>1. OnDisk = {} /\ DOMAIN made = {} /\ image' = image /\ ~strayed
      BY <2>4 DEF Start, IInv, Base, Phases, OnDisk
    <3>2. CASE Make(<<>>, image.root)
      <4>1. Put(<<>>, image.root)
        <5>1. Free(<<>>)
          BY <3>1 DEF Free, At
        <5>2. ~Elsewhere(ButLast(<<>>))
          <6>1. ~Linked(ButLast(<<>>))
            BY <3>1 DEF Linked, At
          <6> QED
            BY <3>1, <6>1 DEF Elsewhere
        <5> QED
          BY <3>2, <5>1, <5>2 DEF Make
      <4>2. OnDisk' = {x} /\ strayed' = strayed
        BY <3>1, <4>1 DEF Put, OnDisk
      <4>3. x \in Tree /\ Tree' = Tree /\ x.path = <<>>
        BY <3>1, TreeRoot, SameImage
      <4> HIDE DEF x
      <4>4. Copy!Make
        BY <3>1, <4>2, <4>3 DEF Copy!Make
      <4> QED
        BY <4>4
    <3>3. CASE made' = made /\ strayed' = strayed
      BY <2>1, <3>1, <3>3
    <3> QED
      BY <2>4, <3>2, <3>3 DEF Start, Enter
  <2>5. CASE SkipEntry \/ FileLimit \/ EndDir \/ Return \/ UNCHANGED vars
    BY <2>1, <2>5 DEF SkipEntry, FileLimit, EndDir, Return, vars
  <2> QED
    BY <2>2, <2>3, <2>4, <2>5 DEF Next, Walk
<1> QED
  BY <1>1, <1>2, Invariance, PTL DEF Spec, ExtractionCopies, Copy!Spec

=============================================================================
