--------------------------- MODULE DirTree_proofs ---------------------------
(***************************************************************************)
(* Proofs about DirTree, for source trees of any size and shape, names of  *)
(* any length, offsets of any width, and entries that vanish at any point  *)
(* of the walk.                                                            *)
(***************************************************************************)
EXTENDS DirTree, FiniteSetTheorems, TLAPS

-----------------------------------------------------------------------------
(* What fails fails first.                                                 *)

(* A set of natural numbers that is not empty has a least element.  A set  *)
(* of numbers at which something fails is what it is used with.            *)
LEMMA HasLeast ==
  ASSUME NEW S \in SUBSET Nat, S # {}
  PROVE  \E m \in S : \A n \in S : m <= n
<1> DEFINE R == {x \in Nat \X Nat : x[1] < x[2]}
<1>1. IsWellFoundedOn(R, Nat)
  BY NatLessThanWellFounded DEF OpToRel
<1>2. \A m, n \in Nat : <<n, m>> \notin R => m <= n
  OBVIOUS
<1> HIDE DEF R
<1> QED
  BY <1>1, <1>2, WFMin

-----------------------------------------------------------------------------
(* The inductive invariant.                                                *)

(* The nodes whose parent had one when they got theirs.                    *)
ChildrenOf(n) == {m \in AllNodes \ {1} : source.parent[m] = n /\ n \in AllNodes}

(* Each node has a number of its own, in the order of the walk, and is     *)
(* among the children of its parent, if that has a node.                   *)
Nodes ==
  /\ 1 \in AllNodes
  /\ pc = "walk" => \A n \in AllNodes \ {1} : n < at
  /\ \A n \in AllNodes : number[n] \in 1..Cardinality(AllNodes)
  /\ \A m, n \in AllNodes : m < n => number[m] < number[n]
  /\ \A n \in Entry :
       /\ ToSet(children[n]) = ChildrenOf(n)
       /\ \A i, j \in DOMAIN children[n] : i < j => children[n][i] < children[n][j]

Inodes == DOMAIN inodeOff
Open == {calls[k].node : k \in DOMAIN calls}

(* The children of a call's node that the call has dealt with.             *)
Behind(k) == {j \in DOMAIN children[calls[k].node] :
                j < calls[k].i /\ ~(k < Len(calls) /\ j = calls[k].i - 1)}

(* The calls of writeOrder are a path from the root, each at the child     *)
(* behind the one the next call is for; the inodes of the children behind  *)
(* are written, and no other.                                              *)
Path ==
  /\ pc # "inodes" => calls = <<>>
  /\ calls # <<>> => calls[1].node = 1
  /\ \A k \in DOMAIN calls :
       /\ calls[k].i \in 1..Len(children[calls[k].node]) + 1
       /\ calls[k].node \in AllNodes \ Inodes
       /\ \A j \in DOMAIN children[calls[k].node] :
            children[calls[k].node][j] \in Inodes <=> j \in Behind(k)
       /\ k > 1 => /\ calls[k - 1].i > 1
                   /\ calls[k].node = children[calls[k - 1].node][calls[k - 1].i - 1]
  /\ \A k, l \in DOMAIN calls : k < l => calls[k].node < calls[l].node

(* Inodes are written below the root, behind all that is below them.       *)
Below ==
  /\ pc \in {"walk", "listings"} => Inodes = {}
  /\ pc \in {"patch", "done"} \/ (pc = "inodes" /\ calls = <<>>) => 1 \in Inodes
  /\ \A n \in Inodes \ {1} : /\ source.parent[n] \in AllNodes
                             /\ source.parent[n] \in Inodes \cup Open
  /\ \A n \in Inodes : \A m \in ToSet(children[n]) :
       m \in Inodes /\ inodeOff[m] < inodeOff[n]

(* They are behind each other in the table. *)
Rows ==
  /\ \A n \in Inodes : inodeOff[n] \in Nat /\ inodeOff[n] + InodeSize(n) <= inodeLen
  /\ \A m, n \in Inodes :
       m # n => \/ inodeOff[m] + InodeSize(m) <= inodeOff[n]
                \/ inodeOff[n] + InodeSize(n) <= inodeOff[m]

(* What an entry of a listing says. *)
EntryOf(n, i) ==
  [name  |-> children[n][i],
   ref   |-> IF pc \in {"patch", "done"} /\ n < at THEN Offset(children[n][i]) % Width ELSE 0,
   base  |-> Number(children[n][1]),
   delta |-> Signed(Number(children[n][i]) - Number(children[n][1]))]

(* Listings are behind each other too, and have the offsets of the inodes  *)
(* once they are patched.                                                  *)
Listings ==
  /\ pc = "inodes" => at = 1
  /\ pc = "done" => at = N + 1
  /\ DOMAIN listing = IF pc = "walk" THEN {}
                      ELSE IF pc = "listings" THEN {n \in Listed : n < at}
                      ELSE Listed
  /\ \A n \in DOMAIN listing :
       /\ DOMAIN listing[n] = {"start", "size", "entries"}
       /\ listing[n].start \in Nat /\ listing[n].size \in Nat \ {0}
       /\ listing[n].start + listing[n].size <= dirLen
       /\ listing[n].entries = [i \in DOMAIN children[n] |-> EntryOf(n, i)]
  /\ \A m, n \in DOMAIN listing : m # n => listing[m].start # listing[n].start

IInv ==
  /\ TypeOK
  /\ Nodes
  /\ Path
  /\ Below
  /\ Rows
  /\ Listings

-----------------------------------------------------------------------------
(* The source tree and the sizes of things.                                *)

(* Parents come first, and are directories. *)
LEMMA SourceIs ==
  ASSUME source \in Source
  PROVE  /\ N \in Nat /\ N >= 1 /\ 1 \in Entry /\ Entry \subseteq Nat
         /\ IsDir(1)
         /\ \A n \in Entry : source.kind[n] \in {"dir", "file", "link"}
         /\ \A n \in Entry \ {1} : /\ n \in 2..N
                                   /\ source.parent[n] \in Entry
                                   /\ source.parent[n] < n
                                   /\ IsDir(source.parent[n])
<1>1. N \in Nat /\ N >= 1 /\ 1 \in Entry /\ Entry \subseteq Nat
  BY DirTreeAssumption DEF Entry
<1>2. source \in [parent : [2..N -> Entry], kind : [Entry -> Kinds]]
  BY DEF Source
<1>3. \A n \in Entry : source.kind[n] \in {"dir", "file", "link"}
  BY <1>2, DirTreeAssumption
<1>4. \A n \in Entry \ {1} : n \in 2..N
  BY <1>1 DEF Entry
<1>5. \A n \in 2..N : source.parent[n] \in Entry
  BY <1>2
<1>6. source.kind[1] = "dir" /\ \A n \in 2..N : source.parent[n] < n /\ source.kind[source.parent[n]] = "dir"
  BY DEF Source
<1> QED
  BY <1>1, <1>3, <1>4, <1>5, <1>6 DEF IsDir

(* Inodes, headers and entries take up some space. *)
LEMMA SizesAre ==
  ASSUME source \in Source
  PROVE  /\ \A n \in Entry : InodeSize(n) \in Nat /\ InodeSize(n) > 0
         /\ \A k \in Nat : HeaderSize + (k * EntrySize) \in Nat \ {0}
<1>1. NameLength \in Nat
  BY DirTreeAssumption
<1>2. ASSUME NEW n \in Entry
      PROVE  InodeSize(n) \in Nat /\ InodeSize(n) > 0
  <2>1. source.kind[n] = "dir" \/ source.kind[n] = "file" \/ source.kind[n] = "link"
    BY SourceIs
  <2>2. CASE source.kind[n] = "dir"
    BY <2>2 DEF InodeSize
  <2>3. CASE source.kind[n] = "file"
    BY <2>3 DEF InodeSize
  <2>4. CASE source.kind[n] = "link"
    BY <1>1, <2>4 DEF InodeSize
  <2> QED
    BY <2>1, <2>2, <2>3, <2>4
<1>3. ASSUME NEW k \in Nat
      PROVE  HeaderSize + (k * EntrySize) \in Nat \ {0}
  <2>1. k * EntrySize \in Nat
    <3>1. EntrySize \in Nat
      BY <1>1 DEF EntrySize
    <3> HIDE DEF EntrySize
    <3> QED
      BY <3>1
  <2> QED
    BY <2>1 DEF HeaderSize
<1> QED
  BY <1>2, <1>3

(* There are no more nodes than entries. *)
LEMMA NodesCounted ==
  ASSUME TypeOK
  PROVE  IsFiniteSet(AllNodes) /\ Cardinality(AllNodes) \in Nat /\ Cardinality(AllNodes) <= N
<1>1. N \in Nat /\ AllNodes \subseteq 1..N
  BY DirTreeAssumption DEF TypeOK, Entry
<1>2. IsFiniteSet(1..N) /\ Cardinality(1..N) = N
  BY <1>1, FS_Interval
<1>3. IsFiniteSet(AllNodes) /\ Cardinality(AllNodes) <= Cardinality(1..N)
  BY <1>1, <1>2, FS_Subset
<1> QED
  BY <1>2, <1>3, FS_CardinalityType

(* A function with one more argument. *)
LEMMA WithIs ==
  ASSUME NEW f, NEW x, NEW v
  PROVE  /\ DOMAIN With(f, x, v) = DOMAIN f \cup {x}
         /\ With(f, x, v)[x] = v
         /\ \A y \in DOMAIN f : y # x => With(f, x, v)[y] = f[y]
BY DEF With

-----------------------------------------------------------------------------
(* The walk.                                                               *)

(* The invariant holds at the start. *)
LEMMA IInvInit == Init => IInv
<1> SUFFICES ASSUME Init PROVE IInv
  OBVIOUS
<1>1. /\ source \in Source /\ pc = "walk" /\ at = 1 /\ number = [n \in {1} |-> 1]
      /\ children = [n \in Entry |-> <<>>] /\ calls = <<>> /\ Inodes = {} /\ inodeLen = 0
      /\ DOMAIN listing = {} /\ dirLen = 0
  BY DEF Init, Inodes
<1>2. N \in Nat /\ N >= 1 /\ 1 \in Entry
  BY <1>1, SourceIs
<1>3. AllNodes = {1} /\ number[1] = 1
  BY <1>1 DEF AllNodes
<1>4. TypeOK
  <2>1. children \in [Entry -> Seq(Entry)]
    BY <1>1
  <2>2. calls \in Seq([node : Entry, i : Nat])
    BY <1>1
  <2>3. at \in 1..N + 1
    BY <1>1, <1>2
  <2> QED
    BY <1>1, <1>2, <1>3, <2>1, <2>2, <2>3 DEF TypeOK, Inodes
<1>5. Nodes
  <2>1. Cardinality(AllNodes) = 1
    BY <1>3, FS_Singleton
  <2>2. \A n \in Entry : ToSet(children[n]) = {} /\ DOMAIN children[n] = {}
    BY <1>1 DEF ToSet
  <2>3. \A n \in Entry : ChildrenOf(n) = {}
    BY <1>3 DEF ChildrenOf
  <2> QED
    BY <1>3, <2>1, <2>2, <2>3 DEF Nodes
<1>6. Path
  BY <1>1 DEF Path
<1>7. Below
  BY <1>1 DEF Below
<1>8. Rows
  BY <1>1 DEF Rows
<1>9. Listings
  BY <1>1 DEF Listings
<1> QED
  BY <1>4, <1>5, <1>6, <1>7, <1>8, <1>9 DEF IInv

(* What a visit adds. *)
LEMMA Visited ==
  ASSUME TypeOK, Nodes, Visit
  PROVE  /\ at \in Entry \ {1} /\ at \notin AllNodes /\ AllNodes' = AllNodes \cup {at}
         /\ source.parent[at] \in Entry /\ source.parent[at] < at
         /\ Cardinality(AllNodes') = Cardinality(AllNodes) + 1
         /\ Cardinality(AllNodes) \in Nat /\ Cardinality(AllNodes') <= N
         /\ number'[at] = Cardinality(AllNodes')
         /\ \A n \in AllNodes : number'[n] = number[n] /\ n < at
<1>1. /\ pc = "walk" /\ at \in 2..N /\ number' = With(number, at, InodeNum + 1)
  BY DEF Visit
<1>2. source \in Source /\ N \in Nat /\ AllNodes \subseteq Entry
  BY SourceIs DEF TypeOK
<1>3. at \in Entry \ {1}
  BY <1>1, <1>2 DEF Entry
<1>4. source.parent[at] \in Entry /\ source.parent[at] < at
  BY <1>2, <1>3, SourceIs
<1>5. \A n \in AllNodes : n < at
  BY <1>1, <1>2 DEF Nodes
<1>6. at \notin AllNodes
  BY <1>1, <1>5
<1>7. AllNodes' = AllNodes \cup {at}
  BY <1>1, WithIs DEF AllNodes
<1>8. IsFiniteSet(AllNodes) /\ Cardinality(AllNodes) \in Nat
  BY NodesCounted
<1>9. Cardinality(AllNodes') = Cardinality(AllNodes) + 1
  BY <1>6, <1>7, <1>8, FS_AddElement
<1>10. Cardinality(AllNodes') <= N
  <2>1. AllNodes' \subseteq 1..N
    BY <1>2, <1>3, <1>7 DEF Entry
  <2>2. IsFiniteSet(1..N) /\ Cardinality(1..N) = N
    <3>1. 1 \in Int /\ N \in Int /\ 1 <= N /\ (N - 1) + 1 = N
      BY <1>2, SourceIs
    <3> QED
      BY <3>1, FS_Interval
  <2>3. Cardinality(AllNodes') <= Cardinality(1..N)
    BY <2>1, <2>2, FS_Subset, Zenon
  <2> QED
    BY <2>2, <2>3
<1>11. number'[at] = Cardinality(AllNodes')
  <2>1. With(number, at, InodeNum + 1)[at] = InodeNum + 1
    BY DEF With
  <2> QED
    BY <1>1, <1>9, <2>1 DEF InodeNum
<1>12. \A n \in AllNodes : number'[n] = number[n]
  <2>1. \A n \in DOMAIN number : n # at
    BY <1>6 DEF AllNodes
  <2>2. \A n \in DOMAIN number : With(number, at, InodeNum + 1)[n] = number[n]
    BY <2>1 DEF With
  <2> QED
    BY <1>1, <2>2 DEF AllNodes
<1> QED
  BY <1>3, <1>4, <1>5, <1>6, <1>7, <1>8, <1>9, <1>10, <1>11, <1>12

(* Where it is linked. *)
LEMMA VisitLinks ==
  ASSUME TypeOK, Nodes, Visit
  PROVE  /\ children' \in [Entry -> Seq(Entry)]
         /\ \A n \in Entry :
              IF n = source.parent[at] /\ n \in AllNodes
                THEN children'[n] = Append(children[n], at)
                ELSE children'[n] = children[n]
<1>1. at \in Entry /\ source.parent[at] \in Entry /\ children \in [Entry -> Seq(Entry)]
  BY Visited DEF TypeOK
<1>2. CASE source.parent[at] \in AllNodes
  <2>1. children' = [children EXCEPT ![source.parent[at]] = Append(@, at)]
    BY <1>2 DEF Visit
  <2>2. Append(children[source.parent[at]], at) \in Seq(Entry)
    BY <1>1
  <2> QED
    BY <1>1, <1>2, <2>1, <2>2
<1>3. CASE source.parent[at] \notin AllNodes
  <2>1. children' = children
    BY <1>3 DEF Visit
  <2> QED
    BY <1>1, <1>3, <2>1
<1> QED
  BY <1>2, <1>3

(* A visit keeps the types. *)
LEMMA TypeVisit ==
  ASSUME TypeOK, Nodes, Visit
  PROVE  TypeOK'
<1>1. /\ at \in Entry /\ AllNodes' = AllNodes \cup {at}
      /\ Cardinality(AllNodes') = Cardinality(AllNodes) + 1
      /\ Cardinality(AllNodes) \in Nat /\ Cardinality(AllNodes') <= N
      /\ number'[at] = Cardinality(AllNodes')
      /\ \A n \in AllNodes : number'[n] = number[n]
  BY Visited
<1>2. \A n \in AllNodes' : number'[n] \in Entry
  <2>1. Cardinality(AllNodes') \in Entry
    BY <1>1, DirTreeAssumption DEF Entry
  <2> QED
    BY <1>1, <2>1 DEF TypeOK
<1>3. at' \in 1..N + 1
  BY <1>1, DirTreeAssumption DEF Visit, Entry
<1>4. AllNodes' \subseteq Entry
  BY <1>1 DEF TypeOK
<1>5. children' \in [Entry -> Seq(Entry)]
  BY VisitLinks
<1>6. UNCHANGED <<source, pc, written, listed>>
  BY DEF Visit
<1> QED
  BY <1>1, <1>2, <1>3, <1>4, <1>5, <1>6 DEF TypeOK, written, listed

(* A visit keeps nodes in the order of the walk, and linked. *)
LEMMA NodesVisit ==
  ASSUME TypeOK, Nodes, Visit
  PROVE  Nodes'
<1> DEFINE c == Cardinality(AllNodes)
<1>1. /\ at \in Entry \ {1} /\ at \notin AllNodes /\ AllNodes' = AllNodes \cup {at}
      /\ source.parent[at] \in Entry /\ source.parent[at] < at
      /\ Cardinality(AllNodes') = c + 1 /\ c \in Nat
      /\ number'[at] = c + 1
      /\ \A n \in AllNodes : number'[n] = number[n] /\ n < at
  BY Visited
<1>2. UNCHANGED <<source, pc>> /\ at' = at + 1 /\ at \in Nat
  BY DEF Visit, TypeOK
<1>3. \A n \in AllNodes : n \in Nat /\ number[n] \in 1..c
  BY DEF Nodes, TypeOK, Entry
<1> HIDE DEF c
<1>4. 1 \in AllNodes'
  BY <1>1 DEF Nodes
<1>5. \A n \in AllNodes' : n < at'
  BY <1>1, <1>2, <1>3
<1>6. \A n \in AllNodes' : number'[n] \in 1..c + 1
  BY <1>1, <1>3
<1>7. \A m, n \in AllNodes' : m < n => number'[m] < number'[n]
  <2> SUFFICES ASSUME NEW m \in AllNodes', NEW n \in AllNodes', m < n
               PROVE  number'[m] < number'[n]
    OBVIOUS
  <2>1. m \in AllNodes
    BY <1>1, <1>2, <1>3
  <2>2. CASE n = at
    BY <1>1, <1>3, <2>1, <2>2
  <2>3. CASE n \in AllNodes
    BY <1>1, <2>1, <2>3 DEF Nodes
  <2> QED
    BY <1>1, <2>2, <2>3
<1>8. \A n \in Entry : ToSet(children'[n]) = ChildrenOf(n)'
  <2> SUFFICES ASSUME NEW n \in Entry PROVE ToSet(children'[n]) = ChildrenOf(n)'
    OBVIOUS
  <2>1. ToSet(children[n]) = ChildrenOf(n) /\ children[n] \in Seq(Entry)
    BY DEF Nodes, TypeOK
  <2>2. ChildrenOf(n)' = {m \in AllNodes' \ {1} : source.parent[m] = n /\ n \in AllNodes'}
    BY <1>2 DEF ChildrenOf
  <2>3. CASE n = source.parent[at] /\ n \in AllNodes
    <3>1. children'[n] = Append(children[n], at)
      BY <2>3, VisitLinks
    <3>2. ToSet(Append(children[n], at)) = ToSet(children[n]) \cup {at}
      <4> DEFINE s == children[n]
                 u == Append(s, at)
      <4>1. /\ Len(s) \in Nat /\ DOMAIN s = 1..Len(s) /\ DOMAIN u = 1..Len(s) + 1
            /\ u[Len(s) + 1] = at /\ \A i \in 1..Len(s) : u[i] = s[i]
        BY <2>1
      <4>2. 1..Len(s) + 1 = (1..Len(s)) \cup {Len(s) + 1}
        BY <4>1
      <4> HIDE DEF s, u
      <4> QED
        BY <4>1, <4>2 DEF ToSet, s, u
    <3> QED
      BY <1>1, <2>1, <2>2, <2>3, <3>1, <3>2 DEF ChildrenOf
  <2>4. CASE ~(n = source.parent[at] /\ n \in AllNodes)
    <3>1. children'[n] = children[n]
      BY <2>4, VisitLinks
    <3>2. source.parent[at] # at
      BY <1>1, <1>2
    <3>3. \A m \in AllNodes : source.parent[m] = at /\ m # 1 => FALSE
      <4>1. \A m \in AllNodes \ {1} : source.parent[m] < m /\ m < at /\ m \in Nat
                                      /\ source.parent[m] \in Nat
        BY <1>1, <1>3, SourceIs DEF TypeOK
      <4> QED
        BY <1>2, <4>1
    <3> QED
      BY <1>1, <2>1, <2>2, <2>4, <3>1, <3>2, <3>3 DEF ChildrenOf
  <2> QED
    BY <2>3, <2>4
<1>9. \A n \in Entry : \A i, j \in DOMAIN children'[n] :
        i < j => children'[n][i] < children'[n][j]
  <2> SUFFICES ASSUME NEW n \in Entry
               PROVE  \A i, j \in DOMAIN children'[n] :
                        i < j => children'[n][i] < children'[n][j]
    OBVIOUS
  <2>1. \A i, j \in DOMAIN children[n] : i < j => children[n][i] < children[n][j]
    BY DEF Nodes
  <2>2. CASE n = source.parent[at] /\ n \in AllNodes
    <3> DEFINE s == children[n]
               u == children'[n]
    <3>1. u = Append(s, at) /\ s \in Seq(Entry)
      BY <2>2, VisitLinks DEF TypeOK
    <3>2. /\ Len(s) \in Nat /\ DOMAIN s = 1..Len(s) /\ DOMAIN u = 1..Len(s) + 1
          /\ u[Len(s) + 1] = at /\ \A i \in 1..Len(s) : u[i] = s[i]
      <4> HIDE DEF s
      <4> QED
        BY <3>1
    <3>3. \A i \in DOMAIN s : s[i] < at
      <4>1. \A i \in DOMAIN s : s[i] \in ToSet(s)
        BY DEF ToSet
      <4>2. ToSet(s) \subseteq AllNodes
        BY DEF Nodes, ChildrenOf
      <4> QED
        BY <1>1, <4>1, <4>2
    <3> HIDE DEF s, u
    <3> SUFFICES ASSUME NEW i \in DOMAIN u, NEW j \in DOMAIN u, i < j PROVE u[i] < u[j]
      BY DEF u
    <3>4. i \in 1..Len(s)
      BY <3>2
    <3>5. CASE j = Len(s) + 1
      BY <3>2, <3>3, <3>4, <3>5
    <3>6. CASE j # Len(s) + 1
      <4>1. j \in 1..Len(s)
        BY <3>2, <3>6
      <4> QED
        BY <2>1, <3>2, <3>4, <4>1 DEF s
    <3> QED
      BY <3>5, <3>6
  <2>3. CASE ~(n = source.parent[at] /\ n \in AllNodes)
    BY <2>1, <2>3, VisitLinks
  <2> QED
    BY <2>2, <2>3
<1> QED
  BY <1>1, <1>4, <1>5, <1>6, <1>7, <1>8, <1>9 DEF Nodes

-----------------------------------------------------------------------------
(* The inodes.                                                             *)

(* The innermost call of writeOrder. *)
LEMMA CallIs ==
  ASSUME TypeOK, Path, calls # <<>>
  PROVE  /\ Len(calls) \in Nat /\ Len(calls) > 0 /\ DOMAIN calls = 1..Len(calls)
         /\ Len(calls) \in DOMAIN calls
         /\ Call \in [node : Entry, i : Nat]
         /\ Call.node \in AllNodes \ Inodes
         /\ children[Call.node] \in Seq(Entry)
         /\ Call.i \in 1..Len(children[Call.node]) + 1
<1>1. /\ calls \in Seq([node : Entry, i : Nat])
      /\ Len(calls) \in Nat /\ Len(calls) > 0 /\ DOMAIN calls = 1..Len(calls)
  BY DEF TypeOK
<1>2. Len(calls) \in DOMAIN calls
  BY <1>1
<1>3. Call \in [node : Entry, i : Nat]
  <2> DEFINE T == [node : Entry, i : Nat]
  <2>1. \A k \in DOMAIN calls : calls[k] \in T
    <3>1. calls \in Seq(T)
      BY <1>1
    <3> HIDE DEF T
    <3> QED
      BY <3>1
  <2> QED
    BY <1>2, <2>1 DEF Call
<1>4. Call.node \in AllNodes \ Inodes /\ Call.i \in 1..Len(children[Call.node]) + 1
  BY <1>2 DEF Path, Call
<1>5. children[Call.node] \in Seq(Entry)
  BY <1>3 DEF TypeOK
<1> QED
  BY <1>1, <1>2, <1>3, <1>4, <1>5

(* The child it is at. *)
LEMMA ChildIs ==
  ASSUME TypeOK, Nodes, Path, calls # <<>>, Call.i <= Len(children[Call.node])
  PROVE  /\ Call.i \in DOMAIN children[Call.node]
         /\ Child \in AllNodes \ {1} /\ Child \in Entry
         /\ Child \in ToSet(children[Call.node])
         /\ source.parent[Child] = Call.node
         /\ Call.node < Child /\ Child \notin Inodes
<1>1. /\ Call.node \in Entry /\ children[Call.node] \in Seq(Entry)
      /\ Call.i \in 1..Len(children[Call.node]) + 1 /\ Len(calls) \in DOMAIN calls
      /\ calls[Len(calls)] = Call
  BY CallIs DEF Call
<1>2. Call.i \in DOMAIN children[Call.node]
  BY <1>1
<1>3. Child \in ToSet(children[Call.node])
  BY <1>2 DEF ToSet, Child
<1>4. Child \in ChildrenOf(Call.node)
  BY <1>1, <1>3 DEF Nodes
<1>5. Child \in AllNodes \ {1} /\ source.parent[Child] = Call.node /\ Child \in Entry
  BY <1>4 DEF ChildrenOf, TypeOK
<1>6. Call.node < Child
  BY <1>5, SourceIs DEF TypeOK
<1>7. Child \notin Inodes
  <2>1. Child \in Inodes <=> Call.i \in Behind(Len(calls))
    BY <1>1, <1>2 DEF Path, Child
  <2>2. ~(Call.i < Call.i)
    BY <1>1
  <2> QED
    BY <1>1, <2>1, <2>2 DEF Behind
<1> QED
  BY <1>2, <1>3, <1>5, <1>6, <1>7

(* What is changed when the innermost call goes on. *)
LEMMA ResumedIs ==
  ASSUME TypeOK, Path, calls # <<>>
  PROVE  /\ Resumed \in Seq([node : Entry, i : Nat]) /\ Len(Resumed) = Len(calls)
         /\ Resumed[Len(calls)] = [node |-> Call.node, i |-> Call.i + 1]
         /\ \A k \in DOMAIN calls : k # Len(calls) => Resumed[k] = calls[k]
<1> DEFINE T == [node : Entry, i : Nat]
           n == Len(calls)
<1>1. calls \in Seq(T) /\ n \in Nat /\ n > 0 /\ DOMAIN calls = 1..n /\ n \in DOMAIN calls /\ Call \in T
  BY CallIs DEF TypeOK
<1>2. [Call EXCEPT !.i = @ + 1] = [node |-> Call.node, i |-> Call.i + 1]
  BY <1>1
<1>3. [Call EXCEPT !.i = @ + 1] \in T
  BY <1>1, <1>2
<1>4. Resumed = [calls EXCEPT ![n] = [Call EXCEPT !.i = @ + 1]]
  BY DEF Resumed, Call
<1> DEFINE r == [Call EXCEPT !.i = @ + 1]
<1> HIDE DEF T, n, r
<1>5. /\ [calls EXCEPT ![n] = r] \in Seq(T) /\ Len([calls EXCEPT ![n] = r]) = n
      /\ [calls EXCEPT ![n] = r][n] = r
      /\ \A k \in DOMAIN calls : k # n => [calls EXCEPT ![n] = r][k] = calls[k]
  BY <1>1, <1>3 DEF r, n
<1> QED
  BY <1>2, <1>4, <1>5 DEF r, n, T

(* Writing an inode. *)
LEMMA InodeWritten ==
  ASSUME TypeOK, NEW n \in AllNodes, n \notin Inodes, WriteInode(n)
  PROVE  /\ Inodes' = Inodes \cup {n}
         /\ inodeOff'[n] = inodeLen
         /\ \A m \in Inodes : inodeOff'[m] = inodeOff[m]
         /\ inodeLen' = inodeLen + InodeSize(n) /\ inodeLen \in Nat /\ inodeLen' \in Nat
         /\ InodeSize(n) \in Nat /\ InodeSize(n) > 0
<1>1. inodeOff' = With(inodeOff, n, inodeLen)
  BY DEF WriteInode
<1>2. Inodes' = Inodes \cup {n} /\ inodeOff'[n] = inodeLen
  <2>1. /\ DOMAIN With(inodeOff, n, inodeLen) = DOMAIN inodeOff \cup {n}
        /\ With(inodeOff, n, inodeLen)[n] = inodeLen
    BY DEF With
  <2> QED
    BY <1>1, <2>1 DEF Inodes
<1>3. \A m \in Inodes : inodeOff'[m] = inodeOff[m]
  <2>1. \A m \in DOMAIN inodeOff : m # n
    BY DEF Inodes
  <2>2. \A m \in DOMAIN inodeOff : With(inodeOff, n, inodeLen)[m] = inodeOff[m]
    BY <2>1 DEF With
  <2> QED
    BY <1>1, <2>2 DEF Inodes
<1>4. inodeLen \in Nat /\ InodeSize(n) \in Nat /\ InodeSize(n) > 0
  BY SizesAre DEF TypeOK
<1>5. inodeLen' = inodeLen + InodeSize(n)
  BY DEF WriteInode
<1> QED
  BY <1>2, <1>3, <1>4, <1>5

(* The steps of writeOrder keep the types. *)
LEMMA TypeInodes ==
  ASSUME TypeOK, Nodes, Path, ChildDir \/ ChildLeaf \/ Self
  PROVE  TypeOK'
<1> DEFINE T == [node : Entry, i : Nat]
<1>1. calls # <<>> /\ calls \in Seq(T) /\ Resumed \in Seq(T) /\ UNCHANGED <<source, pc, at, walked, listed>>
  BY ResumedIs DEF ChildDir, ChildLeaf, Self, TypeOK
<1>2. ASSUME calls' \in Seq(T), Inodes' \subseteq AllNodes, inodeLen' \in Nat
      PROVE  TypeOK'
  BY <1>1, <1>2 DEF TypeOK, walked, listed, Inodes, AllNodes
<1>3. CASE ChildDir
  <2>1. [node |-> Child, i |-> 1] \in T
    BY <1>1, <1>3, ChildIs DEF ChildDir
  <2>2. calls' = Append(Resumed, [node |-> Child, i |-> 1])
    BY <1>3 DEF ChildDir
  <2>3. calls' \in Seq(T)
    <3> HIDE DEF T
    <3> QED
      BY <1>1, <2>1, <2>2
  <2> QED
    BY <1>2, <1>3, <2>3 DEF ChildDir, TypeOK, Inodes
<1>4. CASE ChildLeaf
  <2>1. Child \in AllNodes /\ Child \notin Inodes /\ WriteInode(Child) /\ calls' = Resumed
    BY <1>1, <1>4, ChildIs DEF ChildLeaf
  <2>2. Inodes' = Inodes \cup {Child} /\ inodeLen' \in Nat
    BY <2>1, InodeWritten
  <2> QED
    BY <1>1, <1>2, <2>1, <2>2 DEF TypeOK, Inodes
<1>5. CASE Self
  <2>1. Call.node \in AllNodes /\ Call.node \notin Inodes /\ WriteInode(Call.node)
        /\ calls' = SubSeq(calls, 1, Len(calls) - 1)
    BY <1>1, <1>5, CallIs DEF Self
  <2>2. Inodes' = Inodes \cup {Call.node} /\ inodeLen' \in Nat
    BY <2>1, InodeWritten
  <2>3. SubSeq(calls, 1, Len(calls) - 1) \in Seq(T)
    <3>1. Len(calls) \in Nat /\ Len(calls) > 0
      BY <1>1, CallIs
    <3> HIDE DEF T
    <3> QED
      BY <1>1, <3>1
  <2> QED
    BY <1>2, <2>1, <2>2, <2>3 DEF TypeOK, Inodes
<1> QED
  BY <1>3, <1>4, <1>5

(* What a step does to the nodes: only a visit changes them.               *)
LEMMA NodesKept ==
  ASSUME TypeOK, [Next]_vars, ~Visit
  PROVE  /\ UNCHANGED <<source, number, children>>
         /\ pc' = "walk" => pc = "walk" /\ at' >= at
<1>0. at \in Nat
  BY SourceIs DEF TypeOK
<1>1. CASE ReadRoot \/ LstatFails \/ WalkFails
  <2>1. at' >= at
    BY <1>0, <1>1, SourceIs DEF ReadRoot, LstatFails, WalkFails, TypeOK
  <2> QED
    BY <1>1, <2>1 DEF ReadRoot, LstatFails, WalkFails, walked
<1>2. CASE EndWalk \/ WriteListing \/ NoListing \/ EndListings
  BY <1>2 DEF EndWalk, WriteListing, NoListing, EndListings, walked
<1>3. CASE ChildDir \/ ChildLeaf \/ Self \/ EndInodes
  BY <1>3 DEF ChildDir, ChildLeaf, Self, EndInodes, walked
<1>4. CASE Patch \/ NoPatch \/ EndPatch
  BY <1>4 DEF Patch, NoPatch, EndPatch, walked
<1>5. CASE UNCHANGED vars
  BY <1>0, <1>5 DEF vars
<1> QED
  BY <1>1, <1>2, <1>3, <1>4, <1>5 DEF Next

(* Each step keeps the nodes. *)
LEMMA NodesStep ==
  ASSUME TypeOK, Nodes, [Next]_vars
  PROVE  Nodes'
<1>1. CASE Visit
  BY <1>1, NodesVisit
<1>2. CASE ~Visit
  <2>1. /\ UNCHANGED <<source, number, children>>
        /\ pc' = "walk" => pc = "walk" /\ at' >= at
    BY <1>2, NodesKept
  <2>2. AllNodes' = AllNodes /\ \A n : ChildrenOf(n)' = ChildrenOf(n)
    BY <2>1 DEF AllNodes, ChildrenOf
  <2>3. pc' = "walk" => \A n \in AllNodes \ {1} : n < at'
    <3> SUFFICES ASSUME pc' = "walk", NEW n \in AllNodes \ {1} PROVE n < at'
      OBVIOUS
    <3>1. n < at /\ at' >= at
      BY <2>1 DEF Nodes
    <3>2. n \in Nat /\ at \in Nat
      BY SourceIs DEF TypeOK
    <3>3. at' \in Int
      BY <1>2, <3>2, <2>1, SourceIs DEF Next, ReadRoot, LstatFails, WalkFails, EndWalk,
         WriteListing, NoListing, EndListings, ChildDir, ChildLeaf, Self, EndInodes,
         Patch, NoPatch, EndPatch, vars, TypeOK
    <3> QED
      BY <3>1, <3>2, <3>3
  <2> QED
    BY <2>1, <2>2, <2>3 DEF Nodes
<1> QED
  BY <1>1, <1>2

(* Writing a listing. *)
LEMMA ListingWritten ==
  ASSUME TypeOK, WriteListing
  PROVE  /\ at \in AllNodes /\ at \in Entry /\ IsDir(at) /\ children[at] # <<>>
         /\ Len(children[at]) \in Nat /\ dirLen \in Nat
         /\ \E size \in Nat \ {0} :
              /\ size = HeaderSize + (Len(children[at]) * EntrySize)
              /\ dirLen' = dirLen + size
              /\ listing' = With(listing, at,
                   [start |-> dirLen, size |-> size,
                    entries |-> [i \in DOMAIN children[at] |->
                       [name |-> children[at][i], ref |-> 0, base |-> Number(children[at][1]),
                        delta |-> Signed(Number(children[at][i]) - Number(children[at][1]))]]])
<1>1. at \in AllNodes /\ at \in Entry /\ IsDir(at) /\ children[at] # <<>>
  BY DEF WriteListing, Listed, TypeOK
<1>2. Len(children[at]) \in Nat /\ dirLen \in Nat
  BY <1>1 DEF TypeOK
<1>3. HeaderSize + (Len(children[at]) * EntrySize) \in Nat \ {0}
  BY <1>2, SizesAre DEF TypeOK
<1> DEFINE s == HeaderSize + (Len(children[at]) * EntrySize)
<1>4. /\ dirLen' = dirLen + s
      /\ listing' = With(listing, at,
           [start |-> dirLen, size |-> s,
            entries |-> [i \in DOMAIN children[at] |->
               [name |-> children[at][i], ref |-> 0, base |-> Number(children[at][1]),
                delta |-> Signed(Number(children[at][i]) - Number(children[at][1]))]]])
  BY DEF WriteListing
<1> HIDE DEF s
<1>5. s \in Nat \ {0}
  BY <1>3 DEF s
<1> QED
  BY <1>1, <1>2, <1>4, <1>5 DEF s

(* Each step keeps the types. *)
LEMMA TypeStep ==
  ASSUME TypeOK, Nodes, Path, [Next]_vars
  PROVE  TypeOK'
<1>1. CASE Visit
  BY <1>1, TypeVisit
<1>2. CASE ChildDir \/ ChildLeaf \/ Self
  BY <1>2, TypeInodes
<1>3. N \in Nat /\ N >= 1 /\ Entry = 1..N /\ 1 \in Entry /\ at \in Nat
  BY SourceIs DEF TypeOK, Entry
<1>4. ASSUME UNCHANGED <<source, number, children, inodeOff, inodeLen>>,
             pc' \in {"walk", "listings", "inodes", "patch", "done"}, at' \in 1..N + 1,
             calls' \in Seq([node : Entry, i : Nat]),
             DOMAIN listing' \subseteq AllNodes, dirLen' \in Nat
      PROVE  TypeOK'
  BY <1>4 DEF TypeOK, AllNodes
<1>5. CASE ReadRoot \/ LstatFails \/ WalkFails \/ EndWalk
  <2>1. at' \in 1..N + 1 /\ pc' \in {"walk", "listings"} /\ UNCHANGED <<source, walked, written, listed>>
    BY <1>3, <1>5 DEF ReadRoot, LstatFails, WalkFails, EndWalk
  <2> QED
    BY <1>4, <2>1 DEF walked, written, listed, TypeOK
<1>6. CASE WriteListing
  <2>1. PICK size \in Nat \ {0} : \E r : dirLen' = dirLen + size /\ listing' = With(listing, at, r)
    BY <1>6, ListingWritten
  <2>2. at \in AllNodes /\ at \in Entry /\ dirLen \in Nat
    BY <1>6, ListingWritten
  <2>3. DOMAIN listing' = DOMAIN listing \cup {at}
    BY <2>1, WithIs
  <2>4. UNCHANGED <<source, pc, walked, written>> /\ at' = at + 1
    BY <1>6 DEF WriteListing
  <2> QED
    BY <1>3, <1>4, <2>1, <2>2, <2>3, <2>4 DEF walked, written, TypeOK
<1>7. CASE NoListing \/ NoPatch
  <2>1. at' \in 1..N + 1 /\ UNCHANGED <<source, pc, walked, written, listed>>
    BY <1>3, <1>7 DEF NoListing, NoPatch
  <2> QED
    BY <1>4, <2>1 DEF walked, written, listed, TypeOK
<1>8. CASE EndListings
  <2>1. [node |-> 1, i |-> 1] \in [node : Entry, i : Nat]
    BY <1>3
  <2>2. <<[node |-> 1, i |-> 1]>> \in Seq([node : Entry, i : Nat])
    BY <2>1
  <2>3. at' = 1 /\ pc' = "inodes" /\ calls' = <<[node |-> 1, i |-> 1]>>
        /\ UNCHANGED <<source, walked, inodeOff, inodeLen, listed>>
    BY <1>8 DEF EndListings
  <2> QED
    BY <1>3, <1>4, <2>2, <2>3 DEF walked, listed, TypeOK
<1>9. CASE EndInodes \/ EndPatch
  <2>1. at' = at /\ pc' \in {"patch", "done"} /\ UNCHANGED <<source, walked, written, listed>>
    BY <1>9 DEF EndInodes, EndPatch
  <2> QED
    BY <1>4, <2>1 DEF walked, written, listed, TypeOK
<1>10. CASE Patch
  <2>1. /\ DOMAIN listing' = DOMAIN listing /\ at' = at + 1 /\ at \in Listed
        /\ UNCHANGED <<source, pc, walked, written, dirLen>>
    BY <1>10 DEF Patch
  <2>2. at \in Entry
    BY <2>1 DEF Listed, TypeOK
  <2> QED
    BY <1>3, <1>4, <2>1, <2>2 DEF walked, written, TypeOK
<1>11. CASE UNCHANGED vars
  BY <1>4, <1>11 DEF vars, TypeOK
<1> QED
  BY <1>1, <1>2, <1>5, <1>6, <1>7, <1>8, <1>9, <1>10, <1>11 DEF Next

(* Each child has its parent, and comes once. *)
LEMMA ChildrenAre ==
  ASSUME TypeOK, Nodes, NEW n \in Entry
  PROVE  /\ children[n] \in Seq(Entry) /\ Len(children[n]) \in Nat
         /\ DOMAIN children[n] = 1..Len(children[n])
         /\ \A j \in DOMAIN children[n] :
              /\ children[n][j] \in AllNodes \ {1} /\ children[n][j] \in Entry
              /\ source.parent[children[n][j]] = n
              /\ n \in AllNodes /\ n < children[n][j] /\ IsDir(n)
         /\ \A i, j \in DOMAIN children[n] : children[n][i] = children[n][j] => i = j
<1>1. /\ children[n] \in Seq(Entry) /\ Len(children[n]) \in Nat
      /\ DOMAIN children[n] = 1..Len(children[n])
  BY DEF TypeOK
<1>2. \A j \in DOMAIN children[n] : children[n][j] \in ChildrenOf(n)
  <2>1. \A j \in DOMAIN children[n] : children[n][j] \in ToSet(children[n])
    BY DEF ToSet
  <2> QED
    BY <2>1 DEF Nodes
<1>3. \A j \in DOMAIN children[n] :
        /\ children[n][j] \in AllNodes \ {1} /\ children[n][j] \in Entry
        /\ source.parent[children[n][j]] = n
        /\ n \in AllNodes
  BY <1>2 DEF ChildrenOf, TypeOK
<1>4. \A j \in DOMAIN children[n] : n < children[n][j] /\ IsDir(n)
  BY <1>3, SourceIs DEF TypeOK
<1>5. \A i, j \in DOMAIN children[n] : children[n][i] = children[n][j] => i = j
  <2> SUFFICES ASSUME NEW i \in DOMAIN children[n], NEW j \in DOMAIN children[n],
                      children[n][i] = children[n][j]
               PROVE  i = j
    OBVIOUS
  <2>1. i \in Nat /\ j \in Nat
    BY <1>1
  <2>2. children[n][i] \in Nat
    BY <1>3, SourceIs DEF TypeOK
  <2>3. ~(i < j) /\ ~(j < i)
    BY <2>2 DEF Nodes
  <2> QED
    BY <2>1, <2>3
<1> QED
  BY <1>1, <1>3, <1>4, <1>5

(* The calls before the innermost are for other nodes. *)
LEMMA OuterCalls ==
  ASSUME TypeOK, Nodes, Path, calls # <<>>
  PROVE  \A k \in DOMAIN calls :
           /\ k \in 1..Len(calls) /\ calls[k].node \in Entry /\ calls[k].i \in Nat
           /\ calls[k].node \in AllNodes \ Inodes
           /\ k # Len(calls) => k < Len(calls) /\ calls[k].node < Call.node
<1> DEFINE T == [node : Entry, i : Nat]
<1>1. DOMAIN calls = 1..Len(calls) /\ Len(calls) \in DOMAIN calls /\ Len(calls) \in Nat
  BY CallIs
<1>2. \A k \in DOMAIN calls : calls[k] \in T
  <2>1. calls \in Seq(T)
    BY DEF TypeOK
  <2> HIDE DEF T
  <2> QED
    BY <2>1
<1>3. \A k \in DOMAIN calls : calls[k].node \in Entry /\ calls[k].i \in Nat
  BY <1>2
<1>4. \A k \in DOMAIN calls : calls[k].node \in AllNodes \ Inodes
  BY DEF Path
<1>5. \A k \in DOMAIN calls : k # Len(calls) => k < Len(calls)
  BY <1>1
<1>6. \A k \in DOMAIN calls : k < Len(calls) => calls[k].node < Call.node
  BY <1>1 DEF Path, Call
<1> QED
  BY <1>1, <1>3, <1>4, <1>5, <1>6

(* Nothing at or below the child the innermost call is at has been dealt   *)
(* with.                                                                   *)
LEMMA ChildIsNew ==
  ASSUME TypeOK, Nodes, Path, Below, calls # <<>>, Call.i <= Len(children[Call.node])
  PROVE  /\ \A k \in DOMAIN calls : calls[k].node < Child
         /\ Child \notin Open /\ Child \notin Inodes
         /\ \A j \in DOMAIN children[Child] : children[Child][j] \notin Inodes
<1>1. Child \in Entry /\ Call.node < Child /\ Child \notin Inodes /\ Call.node \in Entry
  BY ChildIs, CallIs
<1>2. \A k \in DOMAIN calls : calls[k].node < Child
  <2> SUFFICES ASSUME NEW k \in DOMAIN calls PROVE calls[k].node < Child
    OBVIOUS
  <2>1. calls[k].node \in Nat /\ Call.node \in Nat /\ Child \in Nat
    BY <1>1, OuterCalls, SourceIs DEF TypeOK
  <2>2. calls[k].node < Call.node \/ calls[k].node = Call.node
    BY OuterCalls DEF Call
  <2> QED
    BY <1>1, <2>1, <2>2
<1>3. Child \notin Open
  <2> SUFFICES ASSUME NEW k \in DOMAIN calls, Child = calls[k].node PROVE FALSE
    BY DEF Open
  <2>1. Child \in Nat
    BY <1>1, SourceIs DEF TypeOK
  <2> QED
    BY <1>2, <2>1
<1>4. ASSUME NEW j \in DOMAIN children[Child], children[Child][j] \in Inodes
      PROVE  FALSE
  <2>1. children[Child][j] # 1 /\ source.parent[children[Child][j]] = Child
    BY <1>1, ChildrenAre
  <2>2. Child \in Inodes \cup Open
    BY <1>4, <2>1 DEF Below
  <2> QED
    BY <1>1, <1>3, <2>2
<1> QED
  BY <1>1, <1>2, <1>3, <1>4

(* The calls are a path when writeOrder is called for the root. *)
LEMMA PathBegins ==
  ASSUME TypeOK, Nodes, Below, EndListings
  PROVE  Path'
<1>1. /\ calls' = <<[node |-> 1, i |-> 1]>> /\ UNCHANGED <<children, number, inodeOff>>
      /\ pc' = "inodes" /\ Inodes = {}
  BY DEF EndListings, walked, Below
<1>2. /\ DOMAIN calls' = {1} /\ calls'[1].node = 1 /\ calls'[1].i = 1 /\ Len(calls') = 1
  BY <1>1
<1>3. AllNodes' = AllNodes /\ Inodes' = {} /\ 1 \in AllNodes
  BY <1>1 DEF AllNodes, Inodes, Nodes
<1>4. 1 \in Entry /\ DOMAIN children[1] = 1..Len(children[1]) /\ Len(children[1]) \in Nat
  BY SourceIs, ChildrenAre DEF TypeOK
<1>5. Behind(1)' = {}
  <2>1. Behind(1)' = {j \in DOMAIN children[1] : j < 1 /\ ~(1 < 1 /\ j = 1 - 1)}
    BY <1>1, <1>2 DEF Behind
  <2> QED
    BY <1>4, <2>1
<1>6. \A k, l \in DOMAIN calls' : ~(k < l)
  BY <1>2
<1>7. 1 \in 1..Len(children[1]) + 1
  BY <1>4
<1> QED
  BY <1>1, <1>2, <1>3, <1>5, <1>6, <1>7 DEF Path

(* They are when it is called for a child that is a directory.             *)
LEMMA PathDeeper ==
  ASSUME TypeOK, Nodes, Path, Below, ChildDir
  PROVE  Path'
<1>0. PICK n \in Nat : n = Len(calls)
  BY CallIs DEF ChildDir
<1> DEFINE c == children[Call.node]
<1>1. /\ calls # <<>> /\ Call.i <= Len(c) /\ pc' = "inodes"
      /\ calls' = Append(Resumed, [node |-> Child, i |-> 1])
      /\ UNCHANGED <<number, children, inodeOff>>
  BY DEF ChildDir, walked
<1>2. /\ n \in Nat /\ n > 0 /\ DOMAIN calls = 1..n /\ n \in DOMAIN calls
      /\ Call.node \in AllNodes \ Inodes /\ Call.node \in Entry
      /\ Call.i \in 1..Len(c) + 1 /\ Call.i \in Nat
  BY <1>0, <1>1, CallIs
<1>3. /\ DOMAIN calls' = 1..n + 1 /\ Len(calls') = n + 1
      /\ calls'[n + 1] = [node |-> Child, i |-> 1]
      /\ calls'[n] = [node |-> Call.node, i |-> Call.i + 1]
      /\ \A k \in 1..n - 1 : calls'[k] = calls[k]
  <2> DEFINE T == [node : Entry, i : Nat]
             r == Resumed
  <2>1. /\ r \in Seq(T) /\ Len(r) = n
        /\ r[n] = [node |-> Call.node, i |-> Call.i + 1]
        /\ \A k \in DOMAIN calls : k # n => r[k] = calls[k]
    BY <1>0, <1>1, ResumedIs
  <2> HIDE DEF T, r
  <2>2. /\ DOMAIN Append(r, [node |-> Child, i |-> 1]) = 1..n + 1
        /\ Len(Append(r, [node |-> Child, i |-> 1])) = n + 1
        /\ Append(r, [node |-> Child, i |-> 1])[n + 1] = [node |-> Child, i |-> 1]
        /\ \A k \in 1..n : Append(r, [node |-> Child, i |-> 1])[k] = r[k]
    BY <1>2, <2>1
  <2>3. n \in 1..n /\ \A k \in 1..n - 1 : k \in 1..n /\ k # n
    BY <1>2
  <2> QED
    BY <1>1, <1>2, <2>1, <2>2, <2>3 DEF r
<1>4. AllNodes' = AllNodes /\ Inodes' = Inodes
  BY <1>1 DEF AllNodes, Inodes
<1>5. /\ Child \in AllNodes \ Inodes /\ Child \in Entry
      /\ \A k \in DOMAIN calls : calls[k].node < Child
      /\ \A j \in DOMAIN children[Child] : children[Child][j] \notin Inodes
  BY <1>1, ChildIs, ChildIsNew
<1>6. \A k, j : j \in Behind(k)' <=>
                  /\ j \in DOMAIN children[calls'[k].node]
                  /\ j < calls'[k].i /\ ~(k < Len(calls') /\ j = calls'[k].i - 1)
  BY <1>1 DEF Behind
<1>7. \A k, j : j \in Behind(k) <=>
                  /\ j \in DOMAIN children[calls[k].node]
                  /\ j < calls[k].i /\ ~(k < Len(calls) /\ j = calls[k].i - 1)
  BY DEF Behind
<1> DEFINE Right(k) ==
       /\ calls'[k].i \in 1..Len(children[calls'[k].node]) + 1
       /\ calls'[k].node \in AllNodes \ Inodes
       /\ \A j \in DOMAIN children[calls'[k].node] :
            children[calls'[k].node][j] \in Inodes <=> j \in Behind(k)'
       /\ k > 1 => /\ calls'[k - 1].i > 1
                   /\ calls'[k].node = children[calls'[k - 1].node][calls'[k - 1].i - 1]
<1>8. ASSUME NEW k \in 1..n - 1
      PROVE  Right(k)
  <2>1. k \in DOMAIN calls /\ calls'[k] = calls[k] /\ k < n /\ k < n + 1
        /\ (k > 1 => calls'[k - 1] = calls[k - 1])
    BY <1>2, <1>3
  <2>2. Behind(k)' = Behind(k)
    BY <1>0, <1>3, <1>6, <1>7, <2>1
  <2> QED
    BY <2>1, <2>2 DEF Path
<1>9. Right(n)
  <2>1. calls'[n].node = Call.node /\ calls'[n].i = Call.i + 1
    BY <1>3
  <2>2. DOMAIN c = 1..Len(c) /\ Len(c) \in Nat
    BY <1>2, ChildrenAre
  <2>3. \A j \in DOMAIN c : j \in Behind(n)' <=> j \in Behind(n)
    <3>1. calls[n].node = Call.node /\ calls[n].i = Call.i
      BY <1>0 DEF Call
    <3> SUFFICES ASSUME NEW j \in DOMAIN c PROVE j \in Behind(n)' <=> j \in Behind(n)
      OBVIOUS
    <3>2. j \in Nat
      BY <2>2
    <3>3. j \in Behind(n) <=> j < Call.i
      <4>1. ~(n < Len(calls))
        BY <1>0
      <4> QED
        BY <1>7, <3>1, <4>1
    <3>4. j \in Behind(n)' <=> j < calls'[n].i /\ ~(j = calls'[n].i - 1)
      <4>1. n < Len(calls')
        BY <1>3
      <4> QED
        BY <1>6, <2>1, <4>1
    <3> QED
      BY <1>2, <2>1, <3>2, <3>3, <3>4
  <2>4. \A j \in DOMAIN c : c[j] \in Inodes <=> j \in Behind(n)
    BY <1>0, <1>2 DEF Path, Call
  <2>5. Call.i + 1 \in 1..Len(c) + 1
    BY <1>1, <1>2, <2>2
  <2>6. n > 1 => /\ calls'[n - 1].i > 1
                 /\ calls'[n].node = children[calls'[n - 1].node][calls'[n - 1].i - 1]
    <3> SUFFICES ASSUME n > 1 PROVE /\ calls'[n - 1].i > 1
                                    /\ calls'[n].node = children[calls'[n - 1].node][calls'[n - 1].i - 1]
      OBVIOUS
    <3>1. calls'[n - 1] = calls[n - 1]
      BY <1>2, <1>3
    <3>2. /\ calls[n - 1].i > 1
          /\ Call.node = children[calls[n - 1].node][calls[n - 1].i - 1]
      BY <1>0, <1>2 DEF Path, Call
    <3> QED
      BY <2>1, <3>1, <3>2
  <2> QED
    BY <1>2, <2>1, <2>3, <2>4, <2>5, <2>6
<1>10. Right(n + 1)
  <2>1. calls'[n + 1].node = Child /\ calls'[n + 1].i = 1 /\ (n + 1) - 1 = n
    BY <1>2, <1>3
  <2>2. DOMAIN children[Child] = 1..Len(children[Child]) /\ Len(children[Child]) \in Nat
    BY <1>5, ChildrenAre
  <2>3. Behind(n + 1)' = {}
    <3>1. \A j \in DOMAIN children[Child] : ~(j < 1)
      BY <2>2
    <3> QED
      BY <1>6, <2>1, <3>1
  <2>4. calls'[n].i > 1 /\ Child = children[calls'[n].node][calls'[n].i - 1]
    <3>1. calls'[n].i = Call.i + 1 /\ calls'[n].i - 1 = Call.i /\ calls'[n].node = Call.node
      BY <1>2, <1>3
    <3> QED
      BY <1>2, <3>1 DEF Child
  <2>5. 1 \in 1..Len(children[Child]) + 1
    BY <2>2
  <2> QED
    BY <1>5, <2>1, <2>3, <2>4, <2>5
<1>11. \A k \in DOMAIN calls' : Right(k)
  <2>1. \A k \in 1..n + 1 : k \in 1..n - 1 \/ k = n \/ k = n + 1
    BY <1>2
  <2> HIDE DEF Right
  <2> QED
    BY <1>3, <1>8, <1>9, <1>10, <2>1
<1>12. \A k, l \in DOMAIN calls' : k < l => calls'[k].node < calls'[l].node
  <2>1. \A k \in 1..n : calls'[k].node = calls[k].node
    <3>1. calls'[n].node = calls[n].node
      BY <1>0, <1>3 DEF Call
    <3>2. \A k \in 1..n : k = n \/ k \in 1..n - 1
      BY <1>2
    <3> QED
      BY <1>3, <3>1, <3>2
  <2>2. calls'[n + 1].node = Child
    BY <1>3
  <2>3. \A k, l \in DOMAIN calls : k < l => calls[k].node < calls[l].node
    BY DEF Path
  <2>4. \A k, l \in 1..n + 1 : k < l => k \in 1..n /\ (l \in 1..n \/ l = n + 1)
    BY <1>2
  <2> QED
    BY <1>2, <1>3, <1>5, <2>1, <2>2, <2>3, <2>4
<1>13. calls'[1].node = 1
  <2>1. calls[1].node = 1
    BY <1>1 DEF Path
  <2>2. CASE n = 1
    <3>1. calls'[1] = [node |-> Call.node, i |-> Call.i + 1] /\ Call = calls[1]
      BY <1>0, <1>3, <2>2 DEF Call
    <3> QED
      BY <2>1, <3>1
  <2>3. CASE n # 1
    <3>1. 1 \in 1..n - 1
      BY <1>2, <2>3
    <3> QED
      BY <1>3, <2>1, <3>1
  <2> QED
    BY <2>2, <2>3
<1> QED
  BY <1>1, <1>4, <1>11, <1>12, <1>13 DEF Path

(* They are when the inode of a child that is no directory is written.     *)
LEMMA PathLeaf ==
  ASSUME TypeOK, Nodes, Path, Below, ChildLeaf
  PROVE  Path'
<1>0. PICK n \in Nat : n = Len(calls)
  BY CallIs DEF ChildLeaf
<1> DEFINE c == children[Call.node]
<1>1. /\ calls # <<>> /\ Call.i <= Len(c) /\ pc' = "inodes" /\ calls' = Resumed
      /\ WriteInode(Child) /\ UNCHANGED <<number, children, source>>
  BY DEF ChildLeaf, walked
<1>2. /\ n > 0 /\ DOMAIN calls = 1..n /\ n \in DOMAIN calls
      /\ Call.node \in AllNodes \ Inodes /\ Call.node \in Entry
      /\ Call.i \in 1..Len(c) + 1 /\ Call.i \in Nat
      /\ calls[n].node = Call.node /\ calls[n].i = Call.i
  BY <1>0, <1>1, CallIs DEF Call
<1>3. /\ DOMAIN calls' = 1..n /\ Len(calls') = n
      /\ calls'[n] = [node |-> Call.node, i |-> Call.i + 1]
      /\ \A k \in 1..n : k # n => calls'[k] = calls[k]
  <2>1. /\ calls' \in Seq([node : Entry, i : Nat]) /\ Len(calls') = n
        /\ calls'[n] = [node |-> Call.node, i |-> Call.i + 1]
        /\ \A k \in DOMAIN calls : k # n => calls'[k] = calls[k]
    BY <1>0, <1>1, ResumedIs
  <2> QED
    BY <1>2, <2>1
<1>4. /\ Child \in AllNodes \ Inodes /\ Child \in Entry /\ source.parent[Child] = Call.node
      /\ Call.i \in DOMAIN c
      /\ \A k \in DOMAIN calls : calls[k].node < Child
  BY <1>1, ChildIs, ChildIsNew
<1>5. AllNodes' = AllNodes /\ Inodes' = Inodes \cup {Child}
  BY <1>1, <1>4, InodeWritten DEF AllNodes
<1>6. \A k, j : j \in Behind(k)' <=>
                  /\ j \in DOMAIN children[calls'[k].node]
                  /\ j < calls'[k].i /\ ~(k < Len(calls') /\ j = calls'[k].i - 1)
  BY <1>1 DEF Behind
<1>7. \A k, j : j \in Behind(k) <=>
                  /\ j \in DOMAIN children[calls[k].node]
                  /\ j < calls[k].i /\ ~(k < Len(calls) /\ j = calls[k].i - 1)
  BY DEF Behind
<1>8. \A k \in 1..n : /\ calls'[k].node = calls[k].node
                      /\ calls[k].node \in AllNodes \ Inodes' /\ calls[k].node \in Entry
  <2> SUFFICES ASSUME NEW k \in 1..n
               PROVE  /\ calls'[k].node = calls[k].node
                      /\ calls[k].node \in AllNodes \ Inodes' /\ calls[k].node \in Entry
    OBVIOUS
  <2>1. calls'[k].node = calls[k].node
    BY <1>2, <1>3
  <2>2. calls[k].node \in AllNodes \ Inodes /\ calls[k].node \in Entry
    BY <1>1, <1>2, OuterCalls
  <2>3. calls[k].node \in Nat /\ Child \in Nat /\ calls[k].node < Child
    BY <1>2, <1>4, <2>2, SourceIs DEF TypeOK
  <2> QED
    BY <1>5, <2>1, <2>2, <2>3
<1> DEFINE Right(k) ==
       /\ calls'[k].i \in 1..Len(children[calls'[k].node]) + 1
       /\ calls'[k].node \in AllNodes \ Inodes'
       /\ \A j \in DOMAIN children[calls'[k].node] :
            children[calls'[k].node][j] \in Inodes' <=> j \in Behind(k)'
       /\ k > 1 => /\ calls'[k - 1].i > 1
                   /\ calls'[k].node = children[calls'[k - 1].node][calls'[k - 1].i - 1]
<1>9. ASSUME NEW k \in 1..n
      PROVE  Right(k)
  <2>1. k > 1 => /\ calls'[k - 1].i > 1
                 /\ calls'[k].node = children[calls'[k - 1].node][calls'[k - 1].i - 1]
    <3> SUFFICES ASSUME k > 1
                 PROVE  /\ calls'[k - 1].i > 1
                        /\ calls'[k].node = children[calls'[k - 1].node][calls'[k - 1].i - 1]
      OBVIOUS
    <3>1. k - 1 \in 1..n /\ k - 1 # n
      BY <1>0
    <3>2. calls'[k - 1] = calls[k - 1] /\ calls'[k].node = calls[k].node
      BY <1>3, <1>8, <3>1
    <3> QED
      BY <1>2, <3>2 DEF Path
  <2>2. CASE k = n
    <3>1. calls'[k].node = Call.node /\ calls'[k].i = Call.i + 1
      BY <1>3, <2>2
    <3>2. DOMAIN c = 1..Len(c) /\ Len(c) \in Nat
      BY <1>2, ChildrenAre
    <3>3. Call.i + 1 \in 1..Len(c) + 1
      BY <1>1, <1>2, <3>2
    <3>4. ASSUME NEW j \in DOMAIN c
          PROVE  c[j] \in Inodes' <=> j \in Behind(k)'
      <4>1. j \in Nat /\ ~(n < n)
        BY <3>2
      <4>2. c[j] \in Inodes <=> j < Call.i
        BY <1>0, <1>2, <1>7, <4>1 DEF Path
      <4>3. c[j] = Child <=> j = Call.i
        BY <1>2, <1>4, ChildrenAre DEF Child
      <4>4. j \in Behind(k)' <=> j < Call.i + 1
        BY <1>3, <1>6, <2>2, <3>1, <4>1
      <4> QED
        BY <1>2, <1>5, <4>1, <4>2, <4>3, <4>4
    <3> QED
      BY <1>2, <1>8, <2>1, <3>1, <3>3, <3>4
  <2>3. CASE k # n
    <3>1. calls'[k] = calls[k] /\ k < n /\ k \in DOMAIN calls
      BY <1>0, <1>2, <1>3, <2>3
    <3>2. calls[k].node < Call.node
      BY <1>0, <1>1, <3>1, <2>3, OuterCalls
    <3>3. calls[k].node \in Nat /\ Call.node \in Nat
      BY <1>2, <1>8, SourceIs DEF TypeOK
    <3>4. ASSUME NEW j \in DOMAIN children[calls[k].node]
          PROVE  children[calls[k].node][j] \in Inodes' <=> j \in Behind(k)'
      <4>1. source.parent[children[calls[k].node][j]] = calls[k].node
        BY <1>8, ChildrenAre
      <4>2. children[calls[k].node][j] # Child
        BY <1>4, <3>2, <3>3, <4>1
      <4>3. children[calls[k].node][j] \in Inodes <=> j \in Behind(k)
        BY <3>1 DEF Path
      <4>4. j \in Behind(k)' <=> j \in Behind(k)
        BY <1>0, <1>3, <1>6, <1>7, <3>1
      <4> QED
        BY <1>5, <4>2, <4>3, <4>4
    <3>5. calls[k].i \in 1..Len(children[calls[k].node]) + 1
      BY <3>1 DEF Path
    <3> QED
      BY <1>8, <2>1, <3>1, <3>4, <3>5
  <2> QED
    BY <2>2, <2>3
<1>10. \A k, l \in DOMAIN calls' : k < l => calls'[k].node < calls'[l].node
  BY <1>2, <1>3, <1>8 DEF Path
<1>11. calls'[1].node = 1
  <2>1. calls[1].node = 1 /\ 1 \in 1..n
    BY <1>0, <1>1, <1>2 DEF Path
  <2> QED
    BY <1>8, <2>1
<1>12. \A k \in DOMAIN calls' :
         /\ calls'[k].i \in 1..Len(children'[calls'[k].node]) + 1
         /\ calls'[k].node \in AllNodes' \ Inodes'
         /\ \A j \in DOMAIN children'[calls'[k].node] :
              children'[calls'[k].node][j] \in Inodes' <=> j \in Behind(k)'
         /\ k > 1 => /\ calls'[k - 1].i > 1
                     /\ calls'[k].node = children'[calls'[k - 1].node][calls'[k - 1].i - 1]
  <2>1. children' = children /\ AllNodes' = AllNodes /\ DOMAIN calls' = 1..n
    BY <1>1, <1>3, <1>5
  <2> HIDE DEF c
  <2> QED
    BY <1>9, <2>1
<1> HIDE DEF c, Right
<1>13. pc' = "inodes"
  BY <1>1
<1> QED
  BY <1>10, <1>11, <1>12, <1>13 DEF Path

(* They are when the inode of a directory is written, and writeOrder       *)
(* returns.                                                                *)
LEMMA PathReturns ==
  ASSUME TypeOK, Nodes, Path, Below, Self
  PROVE  Path'
<1>0. PICK n \in Nat : n = Len(calls)
  BY CallIs DEF Self
<1>1. /\ calls # <<>> /\ pc' = "inodes" /\ calls' = SubSeq(calls, 1, n - 1)
      /\ WriteInode(Call.node) /\ UNCHANGED <<number, children, source>>
  BY <1>0 DEF Self, walked
<1>2. /\ n > 0 /\ DOMAIN calls = 1..n /\ n \in DOMAIN calls
      /\ Call.node \in AllNodes \ Inodes /\ Call.node \in Entry /\ calls[n] = Call
  BY <1>0, <1>1, CallIs DEF Call
<1>3. /\ DOMAIN calls' = 1..n - 1 /\ Len(calls') = n - 1
      /\ \A k \in 1..n - 1 : calls'[k] = calls[k]
  <2> DEFINE T == [node : Entry, i : Nat]
  <2>1. calls \in Seq(T) /\ Len(calls) = n
    BY <1>0 DEF TypeOK
  <2> HIDE DEF T
  <2>2. /\ SubSeq(calls, 1, n - 1) \in Seq(T) /\ Len(SubSeq(calls, 1, n - 1)) = n - 1
        /\ \A k \in 1..n - 1 : SubSeq(calls, 1, n - 1)[k] = calls[k]
    BY <1>2, <2>1
  <2> QED
    BY <1>1, <2>2
<1>4. AllNodes' = AllNodes /\ Inodes' = Inodes \cup {Call.node}
  BY <1>1, <1>2, InodeWritten DEF AllNodes
<1>5. \A k, j : j \in Behind(k)' <=>
                  /\ j \in DOMAIN children[calls'[k].node]
                  /\ j < calls'[k].i /\ ~(k < Len(calls') /\ j = calls'[k].i - 1)
  BY <1>1 DEF Behind
<1>6. \A k, j : j \in Behind(k) <=>
                  /\ j \in DOMAIN children[calls[k].node]
                  /\ j < calls[k].i /\ ~(k < Len(calls) /\ j = calls[k].i - 1)
  BY DEF Behind
<1>7. \A k \in 1..n - 1 : /\ k \in DOMAIN calls /\ k < n
                          /\ calls[k].node \in AllNodes \ Inodes' /\ calls[k].node \in Entry
  <2> SUFFICES ASSUME NEW k \in 1..n - 1
               PROVE  /\ k \in DOMAIN calls /\ k < n
                      /\ calls[k].node \in AllNodes \ Inodes' /\ calls[k].node \in Entry
    OBVIOUS
  <2>1. k \in DOMAIN calls /\ k < n /\ k # n
    BY <1>2
  <2>2. calls[k].node \in AllNodes \ Inodes /\ calls[k].node \in Entry /\ calls[k].node < Call.node
    BY <1>0, <1>1, <2>1, OuterCalls
  <2>3. calls[k].node \in Nat /\ Call.node \in Nat
    BY <1>2, <2>2, SourceIs DEF TypeOK
  <2> QED
    BY <1>4, <2>1, <2>2, <2>3
<1> DEFINE Right(k) ==
       /\ calls'[k].i \in 1..Len(children[calls'[k].node]) + 1
       /\ calls'[k].node \in AllNodes \ Inodes'
       /\ \A j \in DOMAIN children[calls'[k].node] :
            children[calls'[k].node][j] \in Inodes' <=> j \in Behind(k)'
       /\ k > 1 => /\ calls'[k - 1].i > 1
                   /\ calls'[k].node = children[calls'[k - 1].node][calls'[k - 1].i - 1]
<1>8. ASSUME NEW k \in 1..n - 1
      PROVE  Right(k)
  <2> DEFINE p == calls[k].node
  <2>1. /\ calls'[k] = calls[k] /\ k \in DOMAIN calls /\ k < n /\ p \in Entry
        /\ calls[k].i \in 1..Len(children[p]) + 1 /\ p \in AllNodes \ Inodes'
    BY <1>3, <1>7 DEF Path
  <2>2. k > 1 => /\ calls'[k - 1].i > 1
                 /\ calls'[k].node = children[calls'[k - 1].node][calls'[k - 1].i - 1]
    <3>1. k > 1 => k - 1 \in 1..n - 1
      BY <1>0
    <3> QED
      BY <1>3, <2>1, <3>1 DEF Path
  <2>3. /\ DOMAIN children[p] = 1..Len(children[p]) /\ calls[k].i \in Nat
        /\ \A j \in DOMAIN children[p] : source.parent[children[p][j]] = p
        /\ \A i, j \in DOMAIN children[p] : children[p][i] = children[p][j] => i = j
    BY <1>1, <2>1, ChildrenAre, OuterCalls
  <2>4. ASSUME NEW j \in DOMAIN children[p]
        PROVE  children[p][j] \in Inodes' <=> j \in Behind(k)'
    <3>1. children[p][j] \in Inodes <=> j \in Behind(k)
      BY <2>1 DEF Path
    <3>2. j \in Behind(k) <=> j < calls[k].i /\ j # calls[k].i - 1
      BY <1>0, <1>6, <2>1
    <3>3. j \in Behind(k)' <=> j < calls[k].i /\ ~(k < n - 1 /\ j = calls[k].i - 1)
      BY <1>3, <1>5, <2>1
    <3>4. CASE k = n - 1
      <4>1. n > 1 /\ n - 1 = k
        BY <1>0, <3>4
      <4>2. calls[k].i > 1 /\ Call.node = children[p][calls[k].i - 1]
        BY <1>2, <4>1 DEF Path
      <4>3. calls[k].i - 1 \in DOMAIN children[p]
        BY <2>1, <2>3, <4>2
      <4>4. children[p][j] = Call.node <=> j = calls[k].i - 1
        BY <2>3, <4>2, <4>3
      <4>5. ~(k < n - 1)
        BY <3>4
      <4>6. j \in Nat /\ (j = calls[k].i - 1 => j < calls[k].i)
        BY <2>3
      <4> QED
        BY <1>4, <3>1, <3>2, <3>3, <4>4, <4>5, <4>6
    <3>5. CASE k # n - 1
      <4>1. k < n - 1 /\ n > 1 /\ n - 1 \in 1..n - 1
        BY <1>0, <3>5
      <4>2. /\ calls[n - 1].node \in Entry /\ calls[n - 1].i > 1 /\ n - 1 \in DOMAIN calls
            /\ Call.node = children[calls[n - 1].node][calls[n - 1].i - 1]
            /\ calls[n - 1].i \in 1..Len(children[calls[n - 1].node]) + 1
        BY <1>2, <1>7, <4>1 DEF Path
      <4>3. source.parent[Call.node] = calls[n - 1].node
        <5>1. calls[n - 1].i - 1 \in DOMAIN children[calls[n - 1].node]
          BY <4>2, ChildrenAre
        <5> QED
          BY <4>2, <5>1, ChildrenAre
      <4>4. p < calls[n - 1].node
        BY <2>1, <4>1, <4>2 DEF Path
      <4>5. p \in Nat /\ calls[n - 1].node \in Nat
        BY <2>1, <4>2, SourceIs DEF TypeOK
      <4>6. children[p][j] # Call.node
        BY <2>3, <4>3, <4>4, <4>5
      <4> QED
        BY <1>4, <3>1, <3>2, <3>3, <4>1, <4>6
    <3> QED
      BY <3>4, <3>5
  <2> QED
    BY <2>1, <2>2, <2>4
<1>9. \A k, l \in DOMAIN calls' : k < l => calls'[k].node < calls'[l].node
  BY <1>3, <1>7 DEF Path
<1>10. calls' # <<>> => calls'[1].node = 1
  <2> SUFFICES ASSUME calls' # <<>> PROVE calls'[1].node = 1
    OBVIOUS
  <2>1. 1 \in 1..n - 1
    <3>1. n # 1
      <4> SUFFICES ASSUME n = 1 PROVE calls' = <<>>
        OBVIOUS
      <4>1. SubSeq(calls, 1, 0) = <<>>
        BY DEF TypeOK
      <4>2. n - 1 = 0
        OBVIOUS
      <4> QED
        BY <1>1, <4>1, <4>2
    <3> QED
      BY <1>2, <3>1
  <2> QED
    BY <1>1, <1>3, <2>1 DEF Path
<1> QED
  BY <1>1, <1>3, <1>4, <1>8, <1>9, <1>10 DEF Path

(* Each step keeps the calls a path. *)
LEMMA PathStep ==
  ASSUME TypeOK, Nodes, Path, Below, [Next]_vars
  PROVE  Path'
<1>1. CASE ChildDir \/ ChildLeaf \/ Self
  BY <1>1, PathDeeper, PathLeaf, PathReturns
<1>2. CASE EndListings
  BY <1>2, PathBegins
<1>3. CASE \/ ReadRoot \/ Visit \/ LstatFails \/ WalkFails \/ EndWalk \/ WriteListing \/ NoListing
           \/ EndInodes \/ Patch \/ NoPatch \/ EndPatch
  <2>1. calls' = <<>>
    BY <1>3 DEF Path, ReadRoot, Visit, LstatFails, WalkFails, EndWalk, WriteListing, NoListing,
       EndInodes, Patch, NoPatch, EndPatch, written
  <2>2. DOMAIN calls' = {}
    BY <2>1
  <2> QED
    BY <2>1, <2>2 DEF Path
<1>4. CASE UNCHANGED vars
  BY <1>4 DEF vars, Path, AllNodes, Inodes, Behind
<1> QED
  BY <1>1, <1>2, <1>3, <1>4 DEF Next

(* The nodes with a call after a step of writeOrder. *)
LEMMA OpenStep ==
  ASSUME TypeOK, Nodes, Path, ChildDir \/ ChildLeaf \/ Self
  PROVE  /\ ChildDir \/ ChildLeaf => Open \subseteq Open' /\ calls' # <<>>
         /\ Self => /\ Open \ {Call.node} \subseteq Open'
                    /\ calls' = <<>> => Call.node = 1
                    /\ Call.node # 1 => source.parent[Call.node] \in Open'
<1>0. PICK n \in Nat : n = Len(calls)
  BY CallIs DEF Self, ChildDir, ChildLeaf
<1>1. calls # <<>>
  BY DEF Self, ChildDir, ChildLeaf
<1>2. /\ n > 0 /\ DOMAIN calls = 1..n /\ calls[n] = Call /\ n \in 1..n
  BY <1>0, <1>1, CallIs DEF Call
<1>3. ASSUME \A k \in 1..n : k \in DOMAIN calls' /\ calls'[k].node = calls[k].node
      PROVE  Open \subseteq Open' /\ calls' # <<>>
  BY <1>2, <1>3 DEF Open
<1>4. /\ Resumed \in Seq([node : Entry, i : Nat]) /\ Len(Resumed) = n
      /\ \A k \in 1..n : k \in DOMAIN Resumed /\ Resumed[k].node = calls[k].node
  <2>1. /\ Resumed \in Seq([node : Entry, i : Nat]) /\ Len(Resumed) = n
        /\ Resumed[n] = [node |-> Call.node, i |-> Call.i + 1]
        /\ \A k \in DOMAIN calls : k # n => Resumed[k] = calls[k]
    BY <1>0, <1>1, ResumedIs
  <2>2. DOMAIN Resumed = 1..n
    BY <2>1
  <2> QED
    BY <1>2, <2>1, <2>2
<1>5. Self => ~ChildDir /\ ~ChildLeaf
  <2>1. Call.i \in Nat /\ Len(children[Call.node]) \in Nat
    BY <1>1, CallIs
  <2>2. ~(Call.i > Len(children[Call.node]) /\ Call.i <= Len(children[Call.node]))
    BY <2>1
  <2>3. Self => Call.i > Len(children[Call.node])
    BY DEF Self
  <2>4. ChildDir \/ ChildLeaf => Call.i <= Len(children[Call.node])
    BY DEF ChildDir, ChildLeaf
  <2> QED
    BY <2>2, <2>3, <2>4
<1>6. CASE ChildLeaf
  <2>1. calls' = Resumed
    BY <1>6 DEF ChildLeaf
  <2>2. \A k \in 1..n : k \in DOMAIN calls' /\ calls'[k].node = calls[k].node
    BY <1>4, <2>1
  <2>3. Open \subseteq Open' /\ calls' # <<>>
    BY <1>3, <2>2
  <2> QED
    BY <1>6, <1>5, <2>3
<1>7. CASE ChildDir
  <2>1. calls' = Append(Resumed, [node |-> Child, i |-> 1])
    BY <1>7 DEF ChildDir
  <2> DEFINE r == Resumed
             c == [node |-> Child, i |-> 1]
             T == [node : Entry, i : Nat]
  <2>2. r \in Seq(T) /\ Len(r) = n
    BY <1>4
  <2>3. DOMAIN Append(r, c) = 1..n + 1 /\ \A k \in 1..n : Append(r, c)[k] = r[k]
    <3> HIDE DEF r, c, T
    <3> QED
      BY <2>2
  <2>4. \A k \in 1..n : k \in DOMAIN calls' /\ calls'[k].node = calls[k].node
    <3>1. \A k \in 1..n : k \in 1..n + 1
      OBVIOUS
    <3> QED
      BY <1>4, <2>1, <2>3, <3>1
  <2>5. Open \subseteq Open' /\ calls' # <<>>
    BY <1>3, <2>4
  <2> QED
    BY <1>7, <1>5, <2>5
<1>8. CASE Self
  <2>1. calls' = SubSeq(calls, 1, n - 1)
    BY <1>0, <1>8 DEF Self
  <2>2. /\ DOMAIN calls' = 1..n - 1
        /\ \A k \in 1..n - 1 : calls'[k] = calls[k]
    <3> DEFINE T == [node : Entry, i : Nat]
    <3>1. calls \in Seq(T) /\ Len(calls) = n
      BY <1>0 DEF TypeOK
    <3> HIDE DEF T
    <3> QED
      BY <1>2, <2>1, <3>1
  <2>3. Open \ {Call.node} \subseteq Open'
    <3> SUFFICES ASSUME NEW k \in 1..n, calls[k].node # Call.node
                 PROVE  calls[k].node \in Open'
      BY <1>2 DEF Open
    <3>1. k \in 1..n - 1
      BY <1>2
    <3> QED
      BY <2>2, <3>1 DEF Open
  <2>4. ASSUME n = 1 PROVE Call.node = 1
    BY <1>1, <1>2, <2>4 DEF Path
  <2>5. calls' = <<>> => n = 1
    <3>1. calls' = <<>> => DOMAIN calls' = {}
      OBVIOUS
    <3> QED
      BY <1>2, <2>2, <3>1
  <2>6. ASSUME n # 1 PROVE source.parent[Call.node] \in Open'
    <3>1. n > 1 /\ n - 1 \in 1..n - 1 /\ n - 1 \in 1..n
      BY <1>2, <2>6
    <3>2. /\ calls[n - 1].node \in Entry /\ calls[n - 1].i > 1
          /\ Call.node = children[calls[n - 1].node][calls[n - 1].i - 1]
          /\ calls[n - 1].i \in 1..Len(children[calls[n - 1].node]) + 1
      BY <1>1, <1>2, <3>1, OuterCalls DEF Path
    <3>3. calls[n - 1].i - 1 \in DOMAIN children[calls[n - 1].node]
      BY <3>2, ChildrenAre
    <3>4. source.parent[Call.node] = calls[n - 1].node
      BY <3>2, <3>3, ChildrenAre
    <3> QED
      BY <2>2, <3>1, <3>4 DEF Open
  <2>7. ~ChildDir /\ ~ChildLeaf
    BY <1>8, <1>5
  <2> QED
    BY <2>3, <2>4, <2>5, <2>6, <2>7
<1> QED
  BY <1>6, <1>7, <1>8

(* Inodes are written behind each other. *)
LEMMA RowsStep ==
  ASSUME TypeOK, Nodes, Path, Rows, [Next]_vars
  PROVE  Rows'
<1>1. CASE UNCHANGED <<inodeOff, inodeLen>> /\ source' = source
  <2>1. Inodes' = Inodes /\ \A n : InodeSize(n)' = InodeSize(n)
    BY <1>1 DEF Inodes, InodeSize
  <2> QED
    BY <1>1, <2>1 DEF Rows
<1>2. ASSUME NEW n \in AllNodes, n \notin Inodes, WriteInode(n), source' = source
      PROVE  Rows'
  <2>1. /\ Inodes' = Inodes \cup {n} /\ inodeOff'[n] = inodeLen
        /\ \A m \in Inodes : inodeOff'[m] = inodeOff[m]
        /\ inodeLen' = inodeLen + InodeSize(n) /\ inodeLen \in Nat
        /\ InodeSize(n) \in Nat /\ InodeSize(n) > 0
    BY <1>2, InodeWritten
  <2>2. \A m : InodeSize(m)' = InodeSize(m)
    BY <1>2 DEF InodeSize
  <2>3. \A m \in Inodes : /\ m # n /\ inodeOff[m] \in Nat /\ InodeSize(m) \in Nat
                          /\ inodeOff[m] + InodeSize(m) <= inodeLen
    <3>1. \A m \in Inodes : m \in Entry
      BY DEF Inodes, TypeOK
    <3> QED
      BY <1>2, <3>1, SizesAre DEF Rows, TypeOK
  <2>4. \A m \in Inodes' : inodeOff'[m] \in Nat /\ inodeOff'[m] + InodeSize(m) <= inodeLen'
    <3> SUFFICES ASSUME NEW m \in Inodes'
                 PROVE  inodeOff'[m] \in Nat /\ inodeOff'[m] + InodeSize(m) <= inodeLen'
      OBVIOUS
    <3>1. CASE m = n
      BY <2>1, <3>1
    <3>2. CASE m \in Inodes
      BY <2>1, <2>3, <3>2
    <3> QED
      BY <2>1, <3>1, <3>2
  <2>5. ASSUME NEW k \in Inodes', NEW m \in Inodes', k # m
        PROVE  \/ inodeOff'[k] + InodeSize(k) <= inodeOff'[m]
               \/ inodeOff'[m] + InodeSize(m) <= inodeOff'[k]
    <3>1. CASE k \in Inodes /\ m \in Inodes
      BY <2>1, <2>5, <3>1 DEF Rows
    <3>2. CASE k = n
      BY <2>1, <2>3, <2>5, <3>2
    <3>3. CASE m = n
      BY <2>1, <2>3, <2>5, <3>3
    <3> QED
      BY <2>1, <3>1, <3>2, <3>3
  <2> QED
    BY <2>2, <2>4, <2>5 DEF Rows
<1>3. CASE ChildLeaf
  <2>1. Child \in AllNodes /\ Child \notin Inodes
    BY <1>3, ChildIs DEF ChildLeaf
  <2> QED
    BY <1>2, <1>3, <2>1 DEF ChildLeaf
<1>4. CASE Self
  <2>1. Call.node \in AllNodes /\ Call.node \notin Inodes
    BY <1>4, CallIs DEF Self
  <2> QED
    BY <1>2, <1>4, <2>1 DEF Self
<1>5. CASE ~ChildLeaf /\ ~Self
  BY <1>1, <1>5 DEF Next, ReadRoot, Visit, LstatFails, WalkFails, EndWalk, WriteListing, NoListing,
     EndListings, ChildDir, EndInodes, Patch, NoPatch, EndPatch, vars, written
<1> QED
  BY <1>3, <1>4, <1>5

(* Inodes are written below the root, behind what is below them.           *)
LEMMA BelowStep ==
  ASSUME TypeOK, Nodes, Path, Below, Rows, [Next]_vars
  PROVE  Below'
<1>1. CASE ChildDir
  <2>1. /\ UNCHANGED <<source, pc, number, children, inodeOff>> /\ pc = "inodes"
        /\ Open \subseteq Open' /\ calls' # <<>>
    BY <1>1, OpenStep DEF ChildDir, walked
  <2>2. AllNodes' = AllNodes /\ Inodes' = Inodes
    BY <2>1 DEF AllNodes, Inodes
  <2> QED
    BY <2>1, <2>2 DEF Below
<1>2. ASSUME ChildLeaf \/ Self, NEW n \in AllNodes, n \notin Inodes, WriteInode(n),
             \A m \in ToSet(children[n]) : m \in Inodes,
             n # 1 => source.parent[n] \in AllNodes /\ source.parent[n] \in Open',
             Open \ {n} \subseteq Open', calls' = <<>> => n = 1
      PROVE  Below'
  <2>1. UNCHANGED <<source, pc, number, children>> /\ pc = "inodes"
    BY <1>2 DEF ChildLeaf, Self, walked
  <2>2. /\ Inodes' = Inodes \cup {n} /\ inodeOff'[n] = inodeLen
        /\ \A m \in Inodes : inodeOff'[m] = inodeOff[m]
        /\ inodeLen \in Nat
    BY <1>2, InodeWritten
  <2>3. AllNodes' = AllNodes
    BY <2>1 DEF AllNodes
  <2>4. calls' = <<>> => 1 \in Inodes'
    BY <1>2, <2>2
  <2>5. \A m \in Inodes' \ {1} : /\ source.parent[m] \in AllNodes
                                 /\ source.parent[m] \in Inodes' \cup Open'
    <3> SUFFICES ASSUME NEW m \in Inodes' \ {1}
                 PROVE  source.parent[m] \in AllNodes /\ source.parent[m] \in Inodes' \cup Open'
      OBVIOUS
    <3>1. CASE m = n
      BY <1>2, <3>1
    <3>2. CASE m \in Inodes
      <4>1. source.parent[m] \in AllNodes /\ source.parent[m] \in Inodes \cup Open
        BY <3>2 DEF Below
      <4> QED
        BY <1>2, <2>2, <4>1
    <3> QED
      BY <2>2, <3>1, <3>2
  <2>6. \A k \in Inodes' : \A m \in ToSet(children[k]) :
          m \in Inodes' /\ inodeOff'[m] < inodeOff'[k]
    <3> SUFFICES ASSUME NEW k \in Inodes', NEW m \in ToSet(children[k])
                 PROVE  m \in Inodes' /\ inodeOff'[m] < inodeOff'[k]
      OBVIOUS
    <3>1. CASE k = n
      <4>1. m \in Inodes
        BY <1>2, <3>1
      <4>2. inodeOff[m] \in Nat /\ inodeOff[m] + InodeSize(m) <= inodeLen
        BY <4>1 DEF Rows
      <4>3. InodeSize(m) \in Nat /\ InodeSize(m) > 0
        BY <4>1, SizesAre DEF Inodes, TypeOK
      <4> QED
        BY <2>2, <3>1, <4>1, <4>2, <4>3
    <3>2. CASE k \in Inodes
      <4>1. m \in Inodes /\ inodeOff[m] < inodeOff[k]
        BY <3>2 DEF Below
      <4> QED
        BY <2>2, <3>2, <4>1
    <3> QED
      BY <2>2, <3>1, <3>2
  <2> QED
    BY <2>1, <2>3, <2>4, <2>5, <2>6 DEF Below
<1>3. CASE ChildLeaf
  <2>1. /\ Child \in AllNodes /\ Child \notin Inodes /\ Child \in Entry /\ ~IsDir(Child)
        /\ source.parent[Child] = Call.node /\ WriteInode(Child)
    BY <1>3, ChildIs DEF ChildLeaf
  <2>2. \A m \in ToSet(children[Child]) : FALSE
    BY <2>1, ChildrenAre DEF ToSet
  <2>3. /\ Open \subseteq Open' /\ calls' # <<>>
    BY <1>3, OpenStep
  <2>4. Call.node \in Open /\ Call.node \in AllNodes
    BY <1>3, CallIs DEF Open, Call, ChildLeaf
  <2>5. source.parent[Child] \in AllNodes /\ source.parent[Child] \in Open'
    BY <2>1, <2>3, <2>4
  <2> QED
    BY <1>2, <1>3, <2>1, <2>2, <2>3, <2>5
<1>4. CASE Self
  <2>1. /\ Call.node \in AllNodes /\ Call.node \notin Inodes /\ Call.node \in Entry
        /\ WriteInode(Call.node) /\ calls # <<>> /\ Call.i > Len(children[Call.node])
    BY <1>4, CallIs DEF Self
  <2>2. ASSUME NEW m \in ToSet(children[Call.node]) PROVE m \in Inodes
    <3>1. PICK j \in DOMAIN children[Call.node] : m = children[Call.node][j]
      BY DEF ToSet
    <3>2. /\ Len(calls) \in DOMAIN calls /\ calls[Len(calls)] = Call /\ Call.i \in Nat
          /\ Len(calls) \in Nat
      BY <2>1, CallIs DEF Call
    <3>3. m \in Inodes <=> j \in Behind(Len(calls))
      BY <3>1, <3>2 DEF Path
    <3>4. j < Call.i /\ ~(Len(calls) < Len(calls))
      BY <2>1, <3>1, <3>2, ChildrenAre
    <3> QED
      BY <3>1, <3>2, <3>3, <3>4 DEF Behind
  <2>3. /\ Open \ {Call.node} \subseteq Open'
        /\ calls' = <<>> => Call.node = 1
        /\ Call.node # 1 => source.parent[Call.node] \in Open'
    BY <1>4, OpenStep
  <2>4. Call.node # 1 => source.parent[Call.node] \in AllNodes
    <3> SUFFICES ASSUME Call.node # 1 PROVE source.parent[Call.node] \in AllNodes
      OBVIOUS
    <3>1. source.parent[Call.node] \in Open'
      BY <2>3
    <3>2. Path'
      BY <1>4, PathReturns
    <3>3. UNCHANGED number
      BY <1>4 DEF Self, walked
    <3> QED
      BY <3>1, <3>2, <3>3 DEF Path, Open, AllNodes
  <2> QED
    BY <1>2, <1>4, <2>1, <2>2, <2>3, <2>4
<1>5. CASE ~ChildDir /\ ~ChildLeaf /\ ~Self /\ pc \in {"walk", "listings"}
  <2>1. inodeOff' = inodeOff
    BY <1>5 DEF Next, ReadRoot, Visit, LstatFails, WalkFails, EndWalk, WriteListing, NoListing,
       EndListings, EndInodes, Patch, NoPatch, EndPatch, vars, written
  <2>2. CASE EndListings
    <3>1. pc' = "inodes" /\ calls' = <<[node |-> 1, i |-> 1]>>
      BY <2>2 DEF EndListings
    <3>2. calls' # <<>>
      BY <3>1
    <3>3. pc' \notin {"walk", "listings", "patch", "done"}
      BY <3>1
    <3>4. Inodes' = {}
      BY <1>5, <2>1 DEF Below, Inodes
    <3> QED
      BY <3>2, <3>3, <3>4 DEF Below
  <2>3. CASE ~EndListings
    <3>1. pc' \in {"walk", "listings"}
      BY <1>5, <2>3 DEF Next, ReadRoot, Visit, LstatFails, WalkFails, EndWalk, WriteListing, NoListing,
         EndInodes, Patch, NoPatch, EndPatch, vars
    <3>2. Inodes' = {}
      BY <1>5, <2>1 DEF Below, Inodes
    <3>3. pc' \notin {"inodes", "patch", "done"}
      BY <3>1
    <3> QED
      BY <3>2, <3>3 DEF Below
  <2> QED
    BY <2>2, <2>3
<1>6. CASE ~ChildDir /\ ~ChildLeaf /\ ~Self /\ pc \in {"inodes", "patch", "done"}
  <2>1. UNCHANGED <<source, number, children, inodeOff, calls>>
    BY <1>6 DEF Next, ReadRoot, Visit, LstatFails, WalkFails, EndWalk, WriteListing, NoListing,
       EndListings, EndInodes, Patch, NoPatch, EndPatch, vars, written, walked
  <2>2. \/ pc' = pc
        \/ pc = "inodes" /\ calls = <<>> /\ pc' = "patch"
        \/ pc = "patch" /\ pc' = "done"
    BY <1>6 DEF Next, ReadRoot, Visit, LstatFails, WalkFails, EndWalk, WriteListing, NoListing,
       EndListings, EndInodes, Patch, NoPatch, EndPatch, vars
  <2>3. Inodes' = Inodes /\ Open' = Open /\ AllNodes' = AllNodes
    BY <2>1 DEF Inodes, Open, AllNodes
  <2> QED
    BY <1>6, <2>1, <2>2, <2>3 DEF Below
<1> QED
  BY <1>1, <1>3, <1>4, <1>5, <1>6 DEF TypeOK

(* Listings stay as they are when nothing they say has changed. *)
LEMMA ListingsKept ==
  ASSUME Listings, UNCHANGED <<children, listing, dirLen>>,
         pc' = "inodes" => at' = 1, pc' = "done" => at' = N + 1,
         DOMAIN listing = IF pc' = "walk" THEN {}
                          ELSE IF pc' = "listings" THEN {n \in Listed' : n < at'}
                          ELSE Listed',
         \A n \in DOMAIN listing : \A i \in DOMAIN children[n] : EntryOf(n, i)' = EntryOf(n, i)
  PROVE  Listings'
<1>1. \A n \in DOMAIN listing :
        [i \in DOMAIN children[n] |-> EntryOf(n, i)'] = [i \in DOMAIN children[n] |-> EntryOf(n, i)]
  OBVIOUS
<1> QED
  BY <1>1 DEF Listings

(* A listing goes behind the others, its references still 0. *)
LEMMA ListingAdded ==
  ASSUME TypeOK, Listings, WriteListing
  PROVE  Listings'
<1>1. /\ at \in Entry /\ at \in Listed /\ at \in Nat /\ pc = "listings"
      /\ dirLen \in Nat /\ at' = at + 1 /\ UNCHANGED <<source, pc, number, children>>
  BY ListingWritten, SourceIs DEF WriteListing, TypeOK, walked
<1>2. PICK size \in Nat \ {0} :
        /\ dirLen' = dirLen + size
        /\ listing' = With(listing, at,
             [start |-> dirLen, size |-> size,
              entries |-> [i \in DOMAIN children[at] |->
                 [name |-> children[at][i], ref |-> 0, base |-> Number(children[at][1]),
                  delta |-> Signed(Number(children[at][i]) - Number(children[at][1]))]]])
  BY ListingWritten
<1>3. Listed' = Listed /\ Listed \subseteq Nat
  <2>1. AllNodes' = AllNodes /\ \A n : IsDir(n)' = IsDir(n)
    BY <1>1 DEF AllNodes, IsDir
  <2> QED
    BY <1>1, <2>1, SourceIs DEF Listed, TypeOK
<1>4. DOMAIN listing = {n \in Listed : n < at}
  BY <1>1 DEF Listings
<1>5. at \notin DOMAIN listing
  BY <1>1, <1>4
<1> DEFINE e == [i \in DOMAIN children[at] |->
                   [name |-> children[at][i], ref |-> 0, base |-> Number(children[at][1]),
                    delta |-> Signed(Number(children[at][i]) - Number(children[at][1]))]]
           r == [start |-> dirLen, size |-> size, entries |-> e]
<1>6. /\ DOMAIN listing' = DOMAIN listing \cup {at} /\ listing'[at] = r
      /\ \A n \in DOMAIN listing : listing'[n] = listing[n]
  <2> HIDE DEF e
  <2>1. listing' = With(listing, at, r)
    BY <1>2 DEF e
  <2> HIDE DEF r
  <2> QED
    BY <1>5, <2>1 DEF With
<1>7. DOMAIN listing' = {n \in Listed' : n < at'}
  <2>1. \A n \in Listed : n < at + 1 <=> n < at \/ n = at
    BY <1>1, <1>3
  <2> QED
    BY <1>1, <1>3, <1>4, <1>6, <2>1
<1>8. \A n : \A i \in DOMAIN children[n] :
        EntryOf(n, i)' = [name |-> children[n][i], ref |-> 0, base |-> Number(children[n][1]),
                          delta |-> Signed(Number(children[n][i]) - Number(children[n][1]))]
  BY <1>1 DEF EntryOf, Number, Signed
<1>9. \A n \in DOMAIN listing : \A i \in DOMAIN children[n] : EntryOf(n, i)' = EntryOf(n, i)
  BY <1>1, <1>8 DEF EntryOf
<1> PICK c \in Nat : c = at
  BY <1>1
<1>10. e = [i \in DOMAIN children[c] |-> EntryOf(c, i)']
  BY <1>8
<1>11. DOMAIN r = {"start", "size", "entries"} /\ r.start = dirLen /\ r.size = size /\ r.entries = e
  <2> HIDE DEF e
  <2> QED
    OBVIOUS
<1> HIDE DEF e, r
<1>12. ASSUME NEW n \in DOMAIN listing'
       PROVE  /\ DOMAIN listing'[n] = {"start", "size", "entries"}
              /\ listing'[n].start \in Nat /\ listing'[n].size \in Nat \ {0}
              /\ listing'[n].start + listing'[n].size <= dirLen'
              /\ listing'[n].entries = [i \in DOMAIN children[n] |-> EntryOf(n, i)']
  <2>1. CASE n = at
    <3>1. n = c
      BY <2>1
    <3>2. listing'[n] = r /\ dirLen \in Nat /\ dirLen' = dirLen + size
      BY <1>1, <1>2, <1>6, <2>1
    <3>3. r.start + r.size <= dirLen'
      BY <1>11, <3>2
    <3> QED
      BY <1>10, <1>11, <3>1, <3>2, <3>3
  <2>2. CASE n \in DOMAIN listing
    <3>1. /\ DOMAIN listing[n] = {"start", "size", "entries"}
          /\ listing[n].start \in Nat /\ listing[n].size \in Nat \ {0}
          /\ listing[n].start + listing[n].size <= dirLen
          /\ listing[n].entries = [i \in DOMAIN children[n] |-> EntryOf(n, i)]
      BY <2>2 DEF Listings
    <3>2. [i \in DOMAIN children[n] |-> EntryOf(n, i)'] = [i \in DOMAIN children[n] |-> EntryOf(n, i)]
      BY <1>9, <2>2
    <3>3. listing[n].start + listing[n].size <= dirLen'
      BY <1>1, <1>2, <3>1
    <3> QED
      BY <1>6, <2>2, <3>1, <3>2, <3>3
  <2> QED
    BY <1>6, <2>1, <2>2
<1>13. \A n \in DOMAIN listing : listing[n].start < dirLen
  <2> SUFFICES ASSUME NEW n \in DOMAIN listing PROVE listing[n].start < dirLen
    OBVIOUS
  <2>1. /\ listing[n].start \in Nat /\ listing[n].size \in Nat \ {0}
        /\ listing[n].start + listing[n].size <= dirLen
    BY DEF Listings
  <2> QED
    BY <1>1, <2>1
<1>14. ASSUME NEW m \in DOMAIN listing', NEW n \in DOMAIN listing', m # n
       PROVE  listing'[m].start # listing'[n].start
  <2>1. CASE m \in DOMAIN listing /\ n \in DOMAIN listing
    BY <1>6, <1>14, <2>1 DEF Listings
  <2>2. CASE m = at
    <3>1. n \in DOMAIN listing
      BY <1>6, <1>14, <2>2
    <3>2. listing[n].start < dirLen /\ listing[n].start \in Nat
      BY <1>13, <3>1 DEF Listings
    <3> QED
      BY <1>1, <1>6, <1>11, <2>2, <3>1, <3>2
  <2>3. CASE n = at
    <3>1. m \in DOMAIN listing
      BY <1>6, <1>14, <2>3
    <3>2. listing[m].start < dirLen /\ listing[m].start \in Nat
      BY <1>13, <3>1 DEF Listings
    <3> QED
      BY <1>1, <1>6, <1>11, <2>3, <3>1, <3>2
  <2> QED
    BY <1>6, <2>1, <2>2, <2>3
<1>15. pc' # "inodes" /\ pc' # "done" /\ pc' # "walk" /\ pc' = "listings"
  BY <1>1
<1> QED
  BY <1>1, <1>7, <1>12, <1>14, <1>15 DEF Listings

(* A listing gets the offsets of the inodes. *)
LEMMA ListingPatched ==
  ASSUME TypeOK, Listings, Patch
  PROVE  Listings'
<1>1. /\ at \in Entry /\ at \in Listed /\ at \in Nat /\ pc = "patch" /\ Listed \subseteq Nat
      /\ at' = at + 1 /\ UNCHANGED <<source, pc, number, children, inodeOff, dirLen>>
  BY SourceIs DEF Patch, TypeOK, walked, written, Listed
<1>2. Listed' = Listed
  BY <1>1 DEF Listed, AllNodes, IsDir
<1>3. DOMAIN listing = Listed /\ pc' = "patch"
  BY <1>1 DEF Listings
<1> PICK c \in Nat : c = at
  BY <1>1
<1> DEFINE s == listing[at]
           e == [i \in DOMAIN s.entries |->
                   [s.entries[i] EXCEPT !.ref = Offset(children[at][i]) % Width]]
<1>4. /\ DOMAIN s = {"start", "size", "entries"} /\ at \in DOMAIN listing
      /\ s.entries = [i \in DOMAIN children[at] |-> EntryOf(at, i)]
  BY <1>1, <1>3 DEF Listings
<1>5. listing' = [listing EXCEPT ![at] = [s EXCEPT !.entries = e]]
  BY DEF Patch
<1>6. e = [i \in DOMAIN children[c] |-> EntryOf(c, i)']
  <2>1. DOMAIN s.entries = DOMAIN children[at]
    BY <1>4
  <2>2. ASSUME NEW i \in DOMAIN children[at]
        PROVE  [s.entries[i] EXCEPT !.ref = Offset(children[at][i]) % Width] = EntryOf(c, i)'
    <3>1. s.entries[i] = EntryOf(at, i)
      BY <1>4
    <3>2. EntryOf(at, i) = [name |-> children[at][i], ref |-> 0, base |-> Number(children[at][1]),
                            delta |-> Signed(Number(children[at][i]) - Number(children[at][1]))]
      BY <1>1 DEF EntryOf
    <3>3. pc' \in {"patch", "done"} /\ c < at'
      BY <1>1, <1>3
    <3>4. EntryOf(c, i)' = [name |-> children[at][i], ref |-> Offset(children[at][i]) % Width,
                             base |-> Number(children[at][1]),
                             delta |-> Signed(Number(children[at][i]) - Number(children[at][1]))]
      BY <1>1, <3>3 DEF EntryOf, Number, Signed, Offset
    <3> QED
      BY <3>1, <3>2, <3>4
  <2> QED
    BY <2>1, <2>2
<1> HIDE DEF e
<1>7. /\ DOMAIN listing' = DOMAIN listing
      /\ \A n \in DOMAIN listing : n # at => listing'[n] = listing[n]
      /\ DOMAIN listing'[at] = {"start", "size", "entries"}
      /\ listing'[at].start = s.start /\ listing'[at].size = s.size /\ listing'[at].entries = e
  <2> HIDE DEF s
  <2> QED
    BY <1>4, <1>5
<1>8. \A n \in DOMAIN listing : n # at => \A i \in DOMAIN children[n] : EntryOf(n, i)' = EntryOf(n, i)
  <2> SUFFICES ASSUME NEW n \in DOMAIN listing, n # at, NEW i \in DOMAIN children[n]
               PROVE  EntryOf(n, i)' = EntryOf(n, i)
    OBVIOUS
  <2>1. n < at + 1 <=> n < at
    <3>1. n \in Nat /\ n # at
      BY <1>1, <1>3
    <3> QED
      BY <1>1, <3>1
  <2> QED
    BY <1>1, <2>1 DEF EntryOf, Number, Signed, Offset
<1>9. ASSUME NEW n \in DOMAIN listing'
      PROVE  /\ DOMAIN listing'[n] = {"start", "size", "entries"}
             /\ listing'[n].start = listing[n].start /\ listing'[n].size = listing[n].size
             /\ listing'[n].entries = [i \in DOMAIN children[n] |-> EntryOf(n, i)']
  <2>1. CASE n = at
    BY <1>6, <1>7, <2>1
  <2>2. CASE n # at
    <3>1. n \in DOMAIN listing
      BY <1>7
    <3>2. [i \in DOMAIN children[n] |-> EntryOf(n, i)'] = [i \in DOMAIN children[n] |-> EntryOf(n, i)]
      BY <1>8, <2>2, <3>1
    <3> QED
      BY <1>7, <2>2, <3>1, <3>2 DEF Listings
  <2> QED
    BY <2>1, <2>2
<1> HIDE DEF s
<1>10. \A n \in DOMAIN listing' :
         /\ listing[n].start \in Nat /\ listing[n].size \in Nat \ {0}
         /\ listing[n].start + listing[n].size <= dirLen'
  BY <1>1, <1>7 DEF Listings
<1>11. \A m, n \in DOMAIN listing' : m # n => listing'[m].start # listing'[n].start
  <2> SUFFICES ASSUME NEW m \in DOMAIN listing', NEW n \in DOMAIN listing', m # n
               PROVE  listing'[m].start # listing'[n].start
    OBVIOUS
  <2>1. listing[m].start # listing[n].start
    BY <1>7 DEF Listings
  <2> QED
    BY <1>9, <2>1
<1>12. \A n \in DOMAIN listing' :
         /\ DOMAIN listing'[n] = {"start", "size", "entries"}
         /\ listing'[n].start \in Nat /\ listing'[n].size \in Nat \ {0}
         /\ listing'[n].start + listing'[n].size <= dirLen'
         /\ listing'[n].entries = [i \in DOMAIN children'[n] |-> EntryOf(n, i)']
  BY <1>1, <1>9, <1>10
<1>13. pc' # "inodes" /\ pc' # "done" /\ pc' # "walk" /\ pc' # "listings" /\ DOMAIN listing' = Listed'
  BY <1>2, <1>3, <1>7
<1> QED
  BY <1>11, <1>12, <1>13 DEF Listings

(* Each step keeps the listings. *)
LEMMA ListingsStep ==
  ASSUME TypeOK, Listings, [Next]_vars
  PROVE  Listings'
<1>1. CASE WriteListing
  BY <1>1, ListingAdded
<1>2. CASE Patch
  BY <1>2, ListingPatched
<1>3. N \in Nat /\ at \in Nat /\ Listed \subseteq Nat /\ \A n \in Listed : n >= 1 /\ n <= N
  <2>1. N \in Nat /\ Entry \subseteq Nat /\ Entry = 1..N /\ at \in Nat
    BY SourceIs DEF TypeOK, Entry
  <2>2. Listed \subseteq Entry
    BY DEF TypeOK, Listed
  <2> QED
    BY <2>1, <2>2
<1>4. CASE ReadRoot \/ Visit \/ LstatFails \/ WalkFails
  <2>1. DOMAIN listing' = {} /\ pc' = "walk"
    BY <1>4 DEF Listings, ReadRoot, Visit, LstatFails, WalkFails, listed
  <2> QED
    BY <2>1 DEF Listings
<1>5. CASE EndWalk
  <2>1. DOMAIN listing' = {} /\ pc' = "listings" /\ at' = 1 /\ UNCHANGED <<source, number, children>>
    BY <1>5 DEF Listings, EndWalk, listed, walked
  <2>2. Listed' = Listed
    BY <2>1 DEF Listed, AllNodes, IsDir
  <2>3. {n \in Listed' : n < at'} = {}
    <3>1. \A n \in Listed : ~(n < 1)
      BY <1>3
    <3> QED
      BY <2>1, <2>2, <3>1
  <2> QED
    BY <2>1, <2>3 DEF Listings
<1>6. CASE ~(WriteListing \/ Patch \/ ReadRoot \/ Visit \/ LstatFails \/ WalkFails \/ EndWalk)
  <2>1. UNCHANGED <<source, number, children, listing, dirLen>>
    BY <1>6 DEF Next, NoListing, EndListings, ChildDir, ChildLeaf, Self, EndInodes, NoPatch, EndPatch,
       vars, walked, listed
  <2>2. Listed' = Listed
    BY <2>1 DEF Listed, AllNodes, IsDir
  <2>3. ASSUME pc' = "inodes" => at' = 1, pc' = "done" => at' = N + 1,
               DOMAIN listing = IF pc' = "walk" THEN {}
                                ELSE IF pc' = "listings" THEN {n \in Listed' : n < at'}
                                ELSE Listed',
               \A n \in DOMAIN listing :
                 (pc' \in {"patch", "done"} /\ n < at') <=> (pc \in {"patch", "done"} /\ n < at),
               pc \in {"patch", "done"} => inodeOff' = inodeOff
        PROVE  Listings'
    <3>1. \A n \in DOMAIN listing : \A i \in DOMAIN children[n] : EntryOf(n, i)' = EntryOf(n, i)
      BY <2>1, <2>3 DEF EntryOf, Number, Signed, Offset
    <3> QED
      BY <2>1, <2>3, <3>1, ListingsKept
  <2>4. CASE NoListing
    <3>1. pc = "listings" /\ pc' = "listings" /\ at \notin Listed /\ at' = at + 1
      BY <2>4 DEF NoListing
    <3>2. \A n \in Listed : n < at + 1 <=> n < at
      BY <1>3, <3>1
    <3>3. DOMAIN listing = {n \in Listed' : n < at'}
      BY <2>2, <3>1, <3>2 DEF Listings
    <3> QED
      BY <2>3, <3>1, <3>3
  <2>5. CASE EndListings
    <3>1. pc = "listings" /\ pc' = "inodes" /\ at = N + 1 /\ at' = 1
      BY <2>5 DEF EndListings
    <3>2. \A n \in Listed : n < at
      BY <1>3, <3>1
    <3>3. DOMAIN listing = Listed'
      BY <2>2, <3>1, <3>2 DEF Listings
    <3> QED
      BY <2>3, <3>1, <3>3
  <2>6. CASE ChildDir \/ ChildLeaf \/ Self
    <3>1. pc = "inodes" /\ pc' = "inodes" /\ at' = at
      BY <2>6 DEF ChildDir, ChildLeaf, Self
    <3>2. at = 1 /\ DOMAIN listing = Listed'
      BY <2>2, <3>1 DEF Listings
    <3> QED
      BY <2>3, <3>1, <3>2
  <2>7. CASE EndInodes
    <3>1. pc = "inodes" /\ pc' = "patch" /\ at' = at
      BY <2>7 DEF EndInodes
    <3>2. at = 1 /\ DOMAIN listing = Listed /\ Listed' = Listed
      BY <2>2, <3>1 DEF Listings
    <3>3. \A n \in Listed : ~(n < 1)
      BY <1>3
    <3> QED
      BY <2>3, <3>1, <3>2, <3>3
  <2>8. CASE NoPatch
    <3>1. pc = "patch" /\ pc' = "patch" /\ at' = at + 1 /\ at \notin Listed /\ inodeOff' = inodeOff
      BY <2>8 DEF NoPatch, written
    <3>2. DOMAIN listing = Listed /\ Listed' = Listed
      BY <2>2, <3>1 DEF Listings
    <3>3. \A n \in Listed : n < at + 1 <=> n < at
      BY <1>3, <3>1
    <3> QED
      BY <2>3, <3>1, <3>2, <3>3
  <2>9. CASE EndPatch
    <3>1. pc = "patch" /\ pc' = "done" /\ at' = at /\ at = N + 1 /\ inodeOff' = inodeOff
      BY <2>9 DEF EndPatch, written
    <3>2. DOMAIN listing = Listed /\ Listed' = Listed
      BY <2>2, <3>1 DEF Listings
    <3> QED
      BY <2>3, <3>1, <3>2
  <2>10. CASE UNCHANGED vars
    <3>1. UNCHANGED <<pc, at, inodeOff>>
      BY <2>10 DEF vars
    <3>2. \A n, i : EntryOf(n, i)' = EntryOf(n, i)
      BY <2>1, <3>1 DEF EntryOf, Number, Signed, Offset
    <3>3. /\ pc' = "inodes" => at' = 1
          /\ pc' = "done" => at' = N + 1
          /\ DOMAIN listing = IF pc' = "walk" THEN {}
                              ELSE IF pc' = "listings" THEN {n \in Listed' : n < at'}
                              ELSE Listed'
      BY <2>2, <3>1 DEF Listings
    <3> QED
      BY <2>1, <3>2, <3>3, ListingsKept
  <2> QED
    BY <1>6, <2>4, <2>5, <2>6, <2>7, <2>8, <2>9, <2>10 DEF Next
<1> QED
  BY <1>1, <1>2, <1>4, <1>5, <1>6

(* Each step keeps the invariant. *)
LEMMA IInvStep == IInv /\ [Next]_vars => IInv'
BY TypeStep, NodesStep, PathStep, BelowStep, RowsStep, ListingsStep DEF IInv

(* The inductive invariant holds of every state that is reached. *)
THEOREM Invariance == Spec => []IInv
<1>1. IInv /\ [Next]_vars => IInv'
  BY IInvStep
<1> QED
  BY <1>1, IInvInit, PTL DEF Spec

(* The variables have their types, whatever the source tree and wherever   *)
(* entries vanish: the walk, the listings, writeOrder's calls, the patches *)
(* never leave them (CreateFromDir, phases 0, 3 and 4).                    *)
THEOREM TypeCorrect == Spec => []TypeOK
<1>1. IInv => TypeOK
  BY DEF IInv
<1> QED
  BY <1>1, Invariance, PTL

-----------------------------------------------------------------------------
(* Which inodes are behind which.                                          *)

(* What the ancestors of the first n entries have to be. *)
AreAncestors(s, f, n) ==
  f = [m \in 1..n |-> {m} \cup (IF m = 1 THEN {} ELSE f[s.parent[m]])]

(* There are such sets. *)
LEMMA AncestorsExist ==
  ASSUME source \in Source
  PROVE  \A n \in Entry : \E f : AreAncestors(source, f, n)
<1>0. /\ N \in Nat /\ Entry = 1..N /\ Entry \subseteq Nat
      /\ \A n \in Entry \ {1} : source.parent[n] \in Entry /\ source.parent[n] < n
  BY SourceIs DEF Entry
<1> DEFINE p == source.parent
           Sol(f, n) == f = [m \in 1..n |-> {m} \cup (IF m = 1 THEN {} ELSE f[p[m]])]
           Bad == {n \in Entry : ~ \E f : Sol(f, n)}
<1>1. ASSUME Bad # {}
      PROVE  FALSE
  <2>1. PICK n \in Bad : \A m \in Bad : n <= m
    <3>1. Bad \subseteq Nat
      BY <1>0
    <3> HIDE DEF Bad
    <3> QED
      BY <1>1, <3>1, HasLeast
  <2>2. n \in Entry /\ n \in Nat /\ n >= 1 /\ n <= N
    BY <1>0
  <2>3. n # 1
    <3> SUFFICES ASSUME n = 1 PROVE FALSE
      OBVIOUS
    <3>1. Sol([m \in 1..1 |-> {m}], 1)
      OBVIOUS
    <3> QED
      BY <3>1
  <2>4. n - 1 \in Entry /\ n - 1 \notin Bad
    <3> HIDE DEF Bad
    <3> QED
      BY <1>0, <2>1, <2>2, <2>3
  <2>5. PICK f : Sol(f, n - 1)
    BY <2>4
  <2> DEFINE g == [m \in 1..n |-> IF m = n THEN {n} \cup f[p[n]] ELSE f[m]]
  <2>6. Sol(g, n)
    <3> SUFFICES ASSUME NEW m \in 1..n
                 PROVE  g[m] = {m} \cup (IF m = 1 THEN {} ELSE g[p[m]])
      OBVIOUS
    <3>1. m \in Entry /\ m \in Nat
      BY <1>0, <2>2
    <3>2. m # 1 => p[m] \in 1..m - 1 /\ p[m] \in 1..n /\ p[m] # n
      BY <1>0, <2>2, <3>1
    <3>3. m # 1 => g[p[m]] = f[p[m]]
      BY <3>2
    <3>4. CASE m = n
      BY <2>3, <3>3, <3>4
    <3>5. CASE m # n
      <4>1. m \in 1..n - 1
        BY <2>2, <3>5
      <4> HIDE DEF p
      <4> QED
        BY <2>5, <3>3, <3>5, <4>1
    <3> QED
      BY <3>4, <3>5
  <2> QED
    BY <2>6
<1> QED
  BY <1>1 DEF AreAncestors

(* They do not depend on how many entries there are. *)
LEMMA AncestorsAgree ==
  ASSUME source \in Source, NEW n \in Entry, NEW k \in Entry, n <= k, NEW f, NEW g,
         AreAncestors(source, f, n), AreAncestors(source, g, k)
  PROVE  f[n] = g[n]
<1>0. /\ N \in Nat /\ Entry = 1..N /\ n \in Nat /\ k \in Nat /\ n >= 1
      /\ \A m \in Entry \ {1} : source.parent[m] \in Entry /\ source.parent[m] < m
  BY SourceIs DEF Entry
<1> DEFINE Bad == {m \in 1..n : f[m] # g[m]}
<1>1. ASSUME Bad # {}
      PROVE  FALSE
  <2>1. PICK m \in Bad : \A l \in Bad : m <= l
    <3>1. Bad \subseteq Nat
      OBVIOUS
    <3> HIDE DEF Bad
    <3> QED
      BY <1>1, <3>1, HasLeast
  <2>2. m \in 1..n /\ m \in 1..k /\ f[m] # g[m] /\ m \in Entry
    BY <1>0
  <2>3. /\ f[m] = {m} \cup (IF m = 1 THEN {} ELSE f[source.parent[m]])
        /\ g[m] = {m} \cup (IF m = 1 THEN {} ELSE g[source.parent[m]])
    BY <2>2 DEF AreAncestors
  <2>4. m # 1
    BY <2>2, <2>3
  <2>5. source.parent[m] \in 1..n /\ source.parent[m] < m
    BY <1>0, <2>2, <2>4
  <2>6. source.parent[m] \notin Bad
    <3> HIDE DEF Bad
    <3> QED
      BY <2>1, <2>2, <2>5
  <2> QED
    BY <2>2, <2>3, <2>5, <2>6
<1> QED
  BY <1>0, <1>1

(* An entry's ancestors are those of its parent, and itself. *)
LEMMA AncestorsAre ==
  ASSUME source \in Source
  PROVE  /\ Ancestors(source, 1) = {1}
         /\ \A n \in Entry \ {1} :
              Ancestors(source, n) = {n} \cup Ancestors(source, source.parent[n])
<1>0. /\ 1 \in Entry /\ N \in Nat /\ Entry = 1..N
      /\ \A m \in Entry \ {1} : source.parent[m] \in Entry /\ source.parent[m] < m
  BY SourceIs DEF Entry
<1>1. ASSUME NEW n \in Entry
      PROVE  \E f : AreAncestors(source, f, n) /\ Ancestors(source, n) = f[n]
  <2> DEFINE up == CHOOSE f : f = [m \in 1..n |-> {m} \cup (IF m = 1 THEN {} ELSE f[source.parent[m]])]
  <2>1. Ancestors(source, n) = up[n]
    BY DEF Ancestors
  <2>2. up = CHOOSE f : AreAncestors(source, f, n)
    BY DEF AreAncestors
  <2>3. \E f : AreAncestors(source, f, n)
    BY AncestorsExist
  <2> HIDE DEF up
  <2>4. AreAncestors(source, up, n)
    BY <2>2, <2>3, Zenon
  <2> QED
    BY <2>1, <2>4
<1>2. Ancestors(source, 1) = {1}
  <2>1. PICK f : AreAncestors(source, f, 1) /\ Ancestors(source, 1) = f[1]
    BY <1>0, <1>1
  <2>2. 1 \in 1..1
    OBVIOUS
  <2> QED
    BY <2>1, <2>2 DEF AreAncestors
<1>3. ASSUME NEW n \in Entry \ {1}
      PROVE  Ancestors(source, n) = {n} \cup Ancestors(source, source.parent[n])
  <2> DEFINE p == source.parent[n]
  <2>1. p \in Entry /\ p < n /\ n \in 1..n /\ p <= n
    BY <1>0
  <2>2. PICK f : AreAncestors(source, f, n) /\ Ancestors(source, n) = f[n]
    BY <1>1
  <2>3. PICK g : AreAncestors(source, g, p) /\ Ancestors(source, p) = g[p]
    BY <1>1, <2>1
  <2>4. f[n] = {n} \cup f[p]
    BY <2>1, <2>2 DEF AreAncestors
  <2>5. g[p] = f[p]
    <3> HIDE DEF p
    <3> QED
      BY <2>1, <2>2, <2>3, AncestorsAgree
  <2> QED
    BY <2>2, <2>3, <2>4, <2>5
<1> QED
  BY <1>2, <1>3

(* While a call is open, so are the calls for all that is above.           *)
LEMMA OpenAbove ==
  ASSUME TypeOK, Nodes, Path
  PROVE  \A n \in Open : Ancestors(source, n) \subseteq Open
<1> DEFINE Bad == {k \in DOMAIN calls : ~(Ancestors(source, calls[k].node) \subseteq Open)}
<1>1. ASSUME Bad # {}
      PROVE  FALSE
  <2>0. calls # <<>> /\ DOMAIN calls = 1..Len(calls) /\ Len(calls) \in Nat
    BY <1>1 DEF TypeOK
  <2>1. PICK k \in Bad : \A l \in Bad : k <= l
    <3>1. Bad \subseteq Nat
      BY <2>0
    <3> HIDE DEF Bad
    <3> QED
      BY <1>1, <3>1, HasLeast
  <2>2. /\ k \in 1..Len(calls) /\ k \in DOMAIN calls
        /\ ~(Ancestors(source, calls[k].node) \subseteq Open)
    BY <2>0
  <2>3. calls[k].node \in Open /\ calls[k].node \in Entry
    BY <2>0, <2>2, OuterCalls DEF Open
  <2>4. k # 1
    <3>1. Ancestors(source, 1) = {1}
      BY AncestorsAre DEF TypeOK
    <3> QED
      BY <2>0, <2>2, <2>3, <3>1 DEF Path
  <2>5. k > 1 /\ k - 1 \in DOMAIN calls
    BY <2>0, <2>2, <2>4
  <2>6. /\ calls[k - 1].i > 1 /\ calls[k - 1].node \in Entry
        /\ calls[k].node = children[calls[k - 1].node][calls[k - 1].i - 1]
        /\ calls[k - 1].i \in 1..Len(children[calls[k - 1].node]) + 1
    BY <2>0, <2>2, <2>5, OuterCalls DEF Path
  <2>7. calls[k - 1].i - 1 \in DOMAIN children[calls[k - 1].node]
    BY <2>6, ChildrenAre
  <2>8. source.parent[calls[k].node] = calls[k - 1].node /\ calls[k].node # 1
    <3> DEFINE p == calls[k - 1].node
               j == calls[k - 1].i - 1
    <3>1. p \in Entry /\ j \in DOMAIN children[p] /\ calls[k].node = children[p][j]
      BY <2>6, <2>7
    <3> HIDE DEF p, j
    <3>2. source.parent[children[p][j]] = p /\ children[p][j] \in AllNodes \ {1}
      BY <3>1, ChildrenAre
    <3>3. source.parent[calls[k].node] = p /\ calls[k].node # 1
      BY <3>1, <3>2
    <3> QED
      BY <3>3 DEF p
  <2>9. Ancestors(source, calls[k].node) = {calls[k].node} \cup Ancestors(source, calls[k - 1].node)
    BY <2>3, <2>8, AncestorsAre DEF TypeOK
  <2>10. k - 1 \notin Bad
    <3>1. k - 1 < k /\ k \in Nat
      BY <2>2
    <3> HIDE DEF Bad
    <3> QED
      BY <2>1, <3>1
  <2>11. Ancestors(source, calls[k - 1].node) \subseteq Open
    BY <2>5, <2>10
  <2> QED
    BY <2>2, <2>3, <2>9, <2>11
<1> QED
  BY <1>1 DEF Open

(* An inode is behind all those below it. *)
LEMMA InodesInPostOrder == IInv => PostOrder
<1> SUFFICES ASSUME IInv PROVE PostOrder
  OBVIOUS
<1>0. TypeOK /\ Nodes /\ Path /\ Below /\ Rows /\ source \in Source
  BY DEF IInv, TypeOK
<1>1. Inodes \subseteq AllNodes /\ AllNodes \subseteq Entry /\ Entry \subseteq Nat
  BY <1>0, SourceIs DEF TypeOK, Inodes
<1> DEFINE Bad == {m \in Inodes : \E n \in Inodes : /\ m # n /\ n \in Ancestors(source, m)
                                                    /\ ~(inodeOff[m] < inodeOff[n])}
<1>2. ASSUME Bad # {}
      PROVE  FALSE
  <2>1. PICK m \in Bad : \A l \in Bad : m <= l
    <3>1. Bad \subseteq Nat
      BY <1>1
    <3> HIDE DEF Bad
    <3> QED
      BY <1>2, <3>1, HasLeast
  <2>2. PICK n \in Inodes : /\ m # n /\ n \in Ancestors(source, m)
                            /\ ~(inodeOff[m] < inodeOff[n])
    OBVIOUS
  <2>3. m \in Inodes /\ m \in AllNodes /\ m \in Entry /\ m \in Nat
    BY <1>1
  <2>4. m # 1
    <3>1. Ancestors(source, 1) = {1}
      BY <1>0, AncestorsAre
    <3> QED
      BY <2>2, <3>1
  <2> DEFINE p == source.parent[m]
  <2>5. Ancestors(source, m) = {m} \cup Ancestors(source, p)
    BY <1>0, <2>3, <2>4, AncestorsAre
  <2>6. p \in Entry /\ p < m /\ p \in AllNodes /\ p \in Inodes \cup Open /\ p \in Nat
    BY <1>0, <1>1, <2>3, <2>4, SourceIs DEF Below
  <2>7. CASE p \in Open
    <3>1. n \in Open
      BY <1>0, <2>2, <2>5, <2>7, OpenAbove
    <3> QED
      BY <1>0, <3>1 DEF Path, Open
  <2>8. CASE p \in Inodes
    <3>1. inodeOff[m] < inodeOff[p]
      <4>1. m \in ToSet(children[p])
        BY <1>0, <2>3, <2>4, <2>6 DEF Nodes, ChildrenOf
      <4> QED
        BY <1>0, <2>8, <4>1 DEF Below
    <3>2. p # n
      BY <2>2, <3>1
    <3>3. n \in Ancestors(source, p)
      BY <2>2, <2>5
    <3>4. p \notin Bad
      <4> HIDE DEF Bad, p
      <4> QED
        BY <2>1, <2>3, <2>6
    <3>5. inodeOff[p] < inodeOff[n]
      <4> HIDE DEF p
      <4> QED
        BY <2>2, <2>8, <3>2, <3>3, <3>4
    <3>6. inodeOff[m] \in Nat /\ inodeOff[p] \in Nat /\ inodeOff[n] \in Nat
      BY <1>0, <2>2, <2>3, <2>8 DEF Rows
    <3> HIDE DEF p
    <3> QED
      BY <2>2, <3>1, <3>5, <3>6
  <2> QED
    BY <2>6, <2>7, <2>8
<1> QED
  BY <1>2 DEF PostOrder, Inodes

(* At any time, the inode of a directory is behind all inodes below it:    *)
(* the root's, which the superblock refers to, comes last (writeOrder).    *)
THEOREM InodesAlwaysInPostOrder == Spec => []PostOrder
BY Invariance, InodesInPostOrder, PTL

-----------------------------------------------------------------------------
(* What can be reached from the root.                                      *)

(* What the levels down to the n-th have to be. *)
AreLevels(roots, find, f, n) ==
  f = [d \in 0..n |-> IF d = 0 THEN {[path |-> <<>>, node |-> r, number |-> 1] : r \in roots}
                               ELSE UNION {Down(find, x) : x \in f[d - 1]}]

(* There are such levels, down to any. *)
LEMMA LevelsExist ==
  ASSUME NEW roots, NEW find
  PROVE  \A n \in Nat : \E f : AreLevels(roots, find, f, n)
<1> DEFINE root == {[path |-> <<>>, node |-> r, number |-> 1] : r \in roots}
           next(S) == UNION {Down(find, x) : x \in S}
           Sol(f, m) == f = [d \in 0..m |-> IF d = 0 THEN root ELSE next(f[d - 1])]
           Bad == {m \in Nat : ~ \E f : Sol(f, m)}
<1>1. ASSUME Bad # {}
      PROVE  FALSE
  <2>1. PICK m \in Bad : \A n \in Bad : m <= n
    <3>1. Bad \subseteq Nat
      OBVIOUS
    <3> HIDE DEF Bad
    <3> QED
      BY <1>1, <3>1, HasLeast
  <2>2. m # 0
    <3> SUFFICES ASSUME m = 0 PROVE FALSE
      OBVIOUS
    <3>1. Sol([d \in 0..0 |-> root], 0)
      OBVIOUS
    <3> QED
      BY <3>1
  <2>3. m - 1 \in Nat /\ m - 1 \notin Bad
    <3>1. m \in Nat
      OBVIOUS
    <3> HIDE DEF Bad
    <3> QED
      BY <2>1, <2>2, <3>1
  <2>4. PICK f : Sol(f, m - 1)
    BY <2>3
  <2> DEFINE g == [d \in 0..m |-> IF d = m THEN next(f[m - 1]) ELSE f[d]]
  <2>5. Sol(g, m)
    <3> SUFFICES ASSUME NEW d \in 0..m
                 PROVE  g[d] = IF d = 0 THEN root ELSE next(g[d - 1])
      OBVIOUS
    <3> HIDE DEF root, next
    <3>1. d \in Nat /\ m \in Nat /\ d <= m
      BY <2>1
    <3>2. CASE d = m
      <4>1. g[d - 1] = f[m - 1] /\ g[d] = next(f[m - 1])
        BY <2>2, <3>1, <3>2
      <4> QED
        BY <2>2, <3>2, <4>1
    <3>3. CASE d # m
      <4>1. d \in 0..m - 1 /\ (d # 0 => d - 1 \in 0..m - 1)
        BY <3>1, <3>3
      <4>2. g[d] = f[d] /\ (d # 0 => g[d - 1] = f[d - 1])
        BY <3>1, <3>3, <4>1
      <4> QED
        BY <2>4, <4>1, <4>2
    <3> QED
      BY <3>2, <3>3
  <2> QED
    BY <2>5
<1> QED
  BY <1>1 DEF AreLevels

(* The roots, and below each level what its nodes hold. *)
Descends(roots, find, f) ==
  /\ f[0] = {[path |-> <<>>, node |-> r, number |-> 1] : r \in roots}
  /\ \A d \in 1..N : f[d] = UNION {Down(find, x) : x \in f[d - 1]}

(* Reach collects the levels of a tree. *)
LEMMA ReachIs ==
  ASSUME NEW roots, NEW find
  PROVE  \E f : Reach(roots, find) = UNION {f[d] : d \in 0..N} /\ Descends(roots, find, f)
<1> DEFINE root == {[path |-> <<>>, node |-> r, number |-> 1] : r \in roots}
           next(S) == UNION {Down(find, x) : x \in S}
           level == CHOOSE f : f = [d \in 0..N |-> IF d = 0 THEN root ELSE next(f[d - 1])]
<1>1. Reach(roots, find) = UNION {level[d] : d \in 0..N}
  BY DEF Reach
<1>2. N \in Nat
  BY DirTreeAssumption
<1>3. \E f : AreLevels(roots, find, f, N)
  BY <1>2, LevelsExist
<1>4. level = CHOOSE f : AreLevels(roots, find, f, N)
  BY DEF AreLevels
<1>5. AreLevels(roots, find, level, N)
  <2> HIDE DEF level, root, next
  <2> QED
    BY <1>3, <1>4, Zenon
<1>6. level = [d \in 0..N |-> IF d = 0 THEN root ELSE next(level[d - 1])]
  <2> HIDE DEF level
  <2> QED
    BY <1>5 DEF AreLevels
<1> HIDE DEF level, root, next
<1>7. level[0] = root /\ \A d \in 1..N : level[d] = next(level[d - 1])
  <2>1. 0 \in 0..N /\ \A d \in 1..N : d \in 0..N /\ d # 0
    BY <1>2
  <2> QED
    BY <1>6, <2>1
<1> QED
  BY <1>1, <1>7 DEF Descends, root, next

(* What is reached from the root over what a node lists is in any set that *)
(* has the root and, with a node, what it lists.                           *)
LEMMA ReachStays ==
  ASSUME NEW f, NEW find, NEW S, Descends({1}, find, f), 1 \in S, \A n \in S : \A c \in find[n] : c.node \in S
  PROVE  \A d \in 0..N : \A x \in f[d] : x.node \in S
<1> DEFINE Bad == {d \in 0..N : \E x \in f[d] : x.node \notin S}
<1>0. N \in Nat
  BY DirTreeAssumption
<1>1. ASSUME Bad # {}
      PROVE  FALSE
  <2>1. PICK d \in Bad : \A e \in Bad : d <= e
    <3>1. Bad \subseteq Nat
      OBVIOUS
    <3> HIDE DEF Bad
    <3> QED
      BY <1>1, <3>1, HasLeast
  <2>2. d \in 0..N
    OBVIOUS
  <2>3. PICK x \in f[d] : x.node \notin S
    OBVIOUS
  <2>4. d # 0
    BY <2>3 DEF Descends
  <2>5. d \in 1..N /\ d - 1 \in 0..N
    BY <1>0, <2>2, <2>4
  <2>6. d - 1 \notin Bad
    <3> HIDE DEF Bad
    <3> QED
      BY <2>1, <2>2, <2>4
  <2>7. PICK y \in f[d - 1] : x \in Down(find, y)
    BY <2>3, <2>5 DEF Descends
  <2>8. y.node \in S
    BY <2>5, <2>6
  <2>9. PICK c \in find[y.node] : x.node = c.node
    BY <2>7 DEF Down
  <2> QED
    BY <2>3, <2>8, <2>9
<1> QED
  BY <1>1

(* When all is written, the inodes are the nodes linked below the root.    *)
LEMMA InodesDone ==
  ASSUME IInv, pc = "done"
  PROVE  /\ 1 \in Inodes /\ Inodes \subseteq AllNodes /\ Inodes \subseteq Entry
         /\ \A n \in Inodes \ {1} : /\ source.parent[n] \in Inodes
                                    /\ n \in ToSet(children[source.parent[n]])
         /\ \A n \in Inodes : ToSet(children[n]) \subseteq Inodes
<1>1. TypeOK /\ Nodes /\ Path /\ Below
  BY DEF IInv
<1>2. Inodes \subseteq AllNodes /\ AllNodes \subseteq Entry
  BY <1>1 DEF TypeOK, Inodes
<1>3. calls = <<>> /\ Open = {}
  <2>1. calls = <<>>
    BY <1>1 DEF Path
  <2> QED
    BY <2>1 DEF Open
<1>4. 1 \in Inodes /\ \A n \in Inodes : ToSet(children[n]) \subseteq Inodes
  BY <1>1 DEF Below
<1>5. ASSUME NEW n \in Inodes \ {1}
      PROVE  source.parent[n] \in Inodes /\ n \in ToSet(children[source.parent[n]])
  <2>1. source.parent[n] \in AllNodes /\ source.parent[n] \in Inodes
    BY <1>1, <1>3 DEF Below
  <2> QED
    BY <1>1, <1>2, <2>1 DEF Nodes, ChildrenOf
<1> QED
  BY <1>2, <1>4, <1>5

(* Each of them can be reached. *)
LEMMA InodesReached ==
  ASSUME IInv, pc = "done", NEW f, Descends({1}, FindChildren, f)
  PROVE  \A n \in Inodes : \E d \in 0..N : d < n /\ \E x \in f[d] : x.node = n
<1>0. /\ N \in Nat /\ Entry = 1..N /\ source \in Source
      /\ \A m \in Entry \ {1} : source.parent[m] \in Entry /\ source.parent[m] < m
  BY SourceIs DEF IInv, TypeOK, Entry
<1> DEFINE In(n) == \E d \in 0..N : d < n /\ \E x \in f[d] : x.node = n
           Bad == {n \in Inodes : ~In(n)}
<1>1. ASSUME Bad # {}
      PROVE  FALSE
  <2>1. PICK n \in Bad : \A m \in Bad : n <= m
    <3>1. Bad \subseteq Nat
      BY <1>0, InodesDone
    <3> HIDE DEF Bad
    <3> QED
      BY <1>1, <3>1, HasLeast
  <2>2. n \in Inodes /\ n \in Entry /\ n \in Nat /\ ~In(n)
    BY <1>0, InodesDone
  <2>3. In(1)
    <3>1. 0 \in 0..N /\ 0 < 1
      BY <1>0
    <3>2. [path |-> <<>>, node |-> 1, number |-> 1] \in f[0]
      BY DEF Descends
    <3> QED
      BY <3>1, <3>2
  <2> DEFINE p == source.parent[n]
  <2>4. n # 1
    BY <2>2, <2>3
  <2>5. p \in Inodes /\ p < n /\ p \in Nat /\ n \in ToSet(children[p]) /\ p \in Entry
    BY <1>0, <2>2, <2>4, InodesDone
  <2>6. p \notin Bad
    <3> HIDE DEF Bad, p
    <3> QED
      BY <2>1, <2>2, <2>5
  <2>7. PICK d \in 0..N : d < p /\ \E x \in f[d] : x.node = p
    <3> HIDE DEF p
    <3> QED
      BY <2>5, <2>6
  <2>8. PICK x \in f[d] : x.node = p
    BY <2>7
  <2> HIDE DEF p
  <2>9. d + 1 \in 1..N /\ d + 1 < n /\ (d + 1) - 1 = d /\ d + 1 \in 0..N
    BY <1>0, <2>2, <2>5, <2>7
  <2>10. [name |-> n, node |-> n, number |-> number[n]] \in FindChildren[p]
    BY <2>5 DEF FindChildren
  <2>11. [path |-> Append(x.path, n), node |-> n, number |-> number[n]] \in Down(FindChildren, x)
    <3> DEFINE c == [name |-> n, node |-> n, number |-> number[n]]
    <3>1. c \in FindChildren[x.node] /\ c.name = n /\ c.node = n /\ c.number = number[n]
      BY <2>8, <2>10
    <3> HIDE DEF c
    <3>2. [path |-> Append(x.path, c.name), node |-> c.node, number |-> c.number] \in Down(FindChildren, x)
      BY <3>1 DEF Down
    <3> QED
      BY <3>1, <3>2
  <2>12. [path |-> Append(x.path, n), node |-> n, number |-> number[n]] \in f[d + 1]
    <3> PICK e \in Nat : e = d + 1
      BY <2>9
    <3>1. f[e] = UNION {Down(FindChildren, y) : y \in f[e - 1]} /\ e - 1 = d
      BY <2>9 DEF Descends
    <3> QED
      BY <2>11, <3>1
  <2>13. In(n)
    BY <2>9, <2>12
  <2> QED
    BY <2>2, <2>13
<1> QED
  BY <1>1

(* At the end each linked node has one inode. *)
LEMMA InodesComplete == IInv => OneInodeEach
<1> SUFFICES ASSUME IInv, pc = "done"
             PROVE  /\ DOMAIN inodeOff = {x.node : x \in Linked}
                    /\ \A m, n \in DOMAIN inodeOff :
                         m # n => \/ inodeOff[m] + InodeSize(m) <= inodeOff[n]
                                  \/ inodeOff[n] + InodeSize(n) <= inodeOff[m]
  BY DEF OneInodeEach
<1>1. \A m, n \in DOMAIN inodeOff :
        m # n => \/ inodeOff[m] + InodeSize(m) <= inodeOff[n]
                 \/ inodeOff[n] + InodeSize(n) <= inodeOff[m]
  BY DEF IInv, Rows, Inodes
<1>2. PICK f : Reach({1}, FindChildren) = UNION {f[d] : d \in 0..N} /\ Descends({1}, FindChildren, f)
  BY ReachIs
<1>3. \A n \in Inodes : \A c \in FindChildren[n] : c.node \in Inodes
  BY InodesDone DEF FindChildren
<1>4. \A x \in Linked : x.node \in Inodes
  <2>1. \A d \in 0..N : \A x \in f[d] : x.node \in Inodes
    BY <1>2, <1>3, InodesDone, ReachStays
  <2> QED
    BY <1>2, <2>1 DEF Linked
<1>5. \A n \in Inodes : \E x \in Linked : x.node = n
  <2>1. \A n \in Inodes : \E d \in 0..N : d < n /\ \E x \in f[d] : x.node = n
    BY <1>2, InodesReached
  <2>2. \A d \in 0..N : f[d] \subseteq Linked
    BY <1>2 DEF Linked
  <2> QED
    BY <2>1, <2>2
<1> QED
  BY <1>1, <1>4, <1>5 DEF Inodes

(* When CreateFromDir is through, each node linked below the root has one  *)
(* inode, no other node has any, and inodes do not overlap: whatever the   *)
(* tree, and wherever entries vanished (writeOrder).                       *)
THEOREM OneInodeAlwaysEach == Spec => []OneInodeEach
BY Invariance, InodesComplete, PTL

-----------------------------------------------------------------------------
(* What the reader finds.                                                  *)

(* Differences of inode numbers that fit are stored as they are. *)
LEMMA SignedIs ==
  ASSUME NEW d \in Nat, d < Width \div 2
  PROVE  Signed(d) = d
<1> DEFINE h == Width \div 2
<1>1. Width \in Nat \ {0} /\ h \in Nat /\ 2 * h <= Width
  BY DirTreeAssumption
<1> HIDE DEF h
<1>2. d + h \in Nat /\ d + h < Width
  BY <1>1 DEF h
<1>3. (d + h) % Width = d + h
  BY <1>1, <1>2
<1> QED
  BY <1>1, <1>3 DEF Signed, h

(* An offset within reach leads to the inode. *)
LEMMA InodeFound ==
  ASSUME IInv, inodeLen <= Width, NEW n \in Inodes
  PROVE  InodeAt(inodeOff[n] % Width) = {n}
<1>1. Width \in Nat \ {0} /\ n \in Entry /\ source \in Source /\ inodeLen \in Nat
  BY DirTreeAssumption DEF IInv, TypeOK, Inodes
<1>2. \A m \in Inodes : /\ inodeOff[m] \in Nat /\ InodeSize(m) \in Nat /\ InodeSize(m) > 0
                        /\ inodeOff[m] + InodeSize(m) <= inodeLen
  <2>1. \A m \in Inodes : m \in Entry
    BY DEF IInv, TypeOK, Inodes
  <2> QED
    BY <1>1, <2>1, SizesAre DEF IInv, Rows
<1>3. inodeOff[n] < Width
  BY <1>1, <1>2
<1>4. inodeOff[n] % Width = inodeOff[n]
  BY <1>1, <1>2, <1>3
<1>5. \A m \in Inodes : inodeOff[m] = inodeOff[n] => m = n
  <2> SUFFICES ASSUME NEW m \in Inodes, m # n, inodeOff[m] = inodeOff[n] PROVE FALSE
    OBVIOUS
  <2>1. \/ inodeOff[m] + InodeSize(m) <= inodeOff[n]
        \/ inodeOff[n] + InodeSize(n) <= inodeOff[m]
    BY DEF IInv, Rows
  <2> QED
    BY <1>2, <2>1
<1> QED
  BY <1>4, <1>5 DEF InodeAt, Inodes

(* A directory's inode leads to its listing. *)
LEMMA ListingFound ==
  ASSUME IInv, pc = "done", dirLen < Width, NEW n \in Listed
  PROVE  ReadDirEntries(n) = {EntryOf(n, i) : i \in DOMAIN children[n]}
<1>1. Width \in Nat \ {0} /\ dirLen \in Nat /\ DOMAIN listing = Listed
  BY DirTreeAssumption DEF IInv, TypeOK, Listings
<1>2. /\ listing[n].start \in Nat /\ listing[n].size \in Nat \ {0}
      /\ listing[n].start + listing[n].size <= dirLen
      /\ listing[n].entries = [i \in DOMAIN children[n] |-> EntryOf(n, i)]
  BY <1>1 DEF IInv, Listings
<1>3. listing[n].start < Width /\ listing[n].size < Width
  BY <1>1, <1>2
<1>4. listing[n].start % Width = listing[n].start /\ listing[n].size % Width = listing[n].size
  BY <1>1, <1>2, <1>3
<1>5. DirField(n, "start") = listing[n].start /\ DirField(n, "size") = listing[n].size
  BY <1>1, <1>4 DEF DirField
<1>6. {m \in DOMAIN listing : /\ listing[m].start = listing[n].start
                             /\ listing[n].size > 0
                             /\ listing[n].start + listing[n].size <= dirLen} = {n}
  <2>1. \A m \in DOMAIN listing : listing[m].start = listing[n].start => m = n
    BY <1>1 DEF IInv, Listings
  <2>2. listing[n].size > 0
    BY <1>2
  <2> QED
    BY <1>1, <1>2, <2>1, <2>2
<1>7. ReadDirEntries(n) = ToSet(listing[n].entries)
  <2>1. ReadDirEntries(n) = UNION {ToSet(listing[m].entries) : m \in {n}}
    BY <1>5, <1>6 DEF ReadDirEntries
  <2> QED
    BY <2>1
<1> QED
  BY <1>2, <1>7 DEF ToSet

(* What the reader finds in the inodes is what the writer linked.          *)
LEMMA EntriesFound ==
  ASSUME IInv, pc = "done", Fits, NEW n \in Inodes
  PROVE  FindEntries[n] = FindChildren[n]
<1>0. /\ TypeOK /\ Nodes /\ source \in Source /\ Width \in Nat \ {0} /\ N \in Nat
      /\ inodeLen <= Width /\ dirLen < Width /\ Cardinality(AllNodes) <= Width \div 2
      /\ n \in Entry /\ n \in AllNodes /\ Inodes \subseteq Entry
      /\ DOMAIN listing = Listed /\ at = N + 1
  BY DirTreeAssumption, InodesDone DEF IInv, TypeOK, Fits, Inodes, Listings
<1>1. FindChildren[n] = {[name |-> m, node |-> m, number |-> number[m]] : m \in ToSet(children[n])}
  BY <1>0 DEF FindChildren
<1>2. FindEntries[n] =
        IF ~IsDir(n) THEN {} ELSE
          UNION {{[name |-> e.name, node |-> m, number |-> e.base + e.delta] : m \in InodeAt(e.ref)} :
                   e \in ReadDirEntries(n)}
  BY <1>0 DEF FindEntries
<1>3. CASE children[n] = <<>>
  <2>1. ToSet(children[n]) = {}
    BY <1>3 DEF ToSet
  <2>2. n \notin DOMAIN listing
    BY <1>0, <1>3 DEF Listed
  <2>3. DirField(n, "size") = 0
    BY <2>2 DEF DirField
  <2>4. ReadDirEntries(n) = {}
    BY <2>3 DEF ReadDirEntries
  <2> QED
    BY <1>1, <1>2, <2>1, <2>4
<1>4. CASE children[n] # <<>>
  <2>1. /\ Len(children[n]) \in Nat /\ DOMAIN children[n] = 1..Len(children[n])
        /\ children[n] \in Seq(Entry)
    BY <1>0, ChildrenAre
  <2>2. 1 \in DOMAIN children[n]
    BY <1>4, <2>1
  <2>3. IsDir(n)
    BY <1>0, <2>2, ChildrenAre
  <2>4. n \in Listed
    BY <1>0, <1>4, <2>3 DEF Listed
  <2>5. ReadDirEntries(n) = {EntryOf(n, i) : i \in DOMAIN children[n]}
    BY <1>0, <2>4, ListingFound
  <2>6. ASSUME NEW i \in DOMAIN children[n]
        PROVE  LET e == EntryOf(n, i)
               IN {[name |-> e.name, node |-> m, number |-> e.base + e.delta] : m \in InodeAt(e.ref)}
                  = {[name |-> children[n][i], node |-> children[n][i],
                      number |-> number[children[n][i]]]}
    <3> DEFINE c == children[n][i]
               f == children[n][1]
               e == EntryOf(n, i)
    <3>1. c \in Inodes /\ c \in AllNodes /\ f \in AllNodes /\ c \in Nat /\ f \in Nat
      <4>1. c \in ToSet(children[n])
        BY DEF ToSet
      <4>2. c \in Inodes
        BY <4>1, InodesDone
      <4>3. c \in Entry /\ f \in Entry /\ c \in AllNodes /\ f \in AllNodes
        BY <1>0, <2>2, ChildrenAre
      <4> QED
        BY <1>0, <4>2, <4>3, SourceIs
    <3>2. e.ref = inodeOff[c] % Width
      <4>1. n < at
        BY <1>0 DEF Entry
      <4> QED
        BY <3>1, <4>1 DEF EntryOf, Offset, Inodes
    <3>3. InodeAt(e.ref) = {c}
      BY <1>0, <3>1, <3>2, InodeFound
    <3>4. e.name = c /\ e.base = number[f] /\ e.delta = Signed(number[c] - number[f])
      BY DEF EntryOf, Number
    <3>5. e.base + e.delta = number[c]
      <4>1. /\ number[c] \in Nat /\ number[f] \in Nat /\ number[f] >= 1
            /\ number[c] <= Cardinality(AllNodes) /\ Cardinality(AllNodes) \in Nat
        BY <1>0, <3>1, NodesCounted DEF Nodes
      <4>2. number[f] <= number[c]
        <5>1. i = 1 \/ 1 < i
          BY <2>1
        <5>2. f = c \/ f < c
          BY <1>0, <2>2, <5>1 DEF Nodes
        <5>3. f < c => number[f] < number[c]
          BY <1>0, <3>1 DEF Nodes
        <5> HIDE DEF f, c
        <5> QED
          BY <4>1, <5>2, <5>3
      <4> DEFINE d == number[c] - number[f]
                 h == Width \div 2
      <4>3. d \in Nat /\ d < h
        <5>1. h \in Nat
          BY <1>0
        <5> HIDE DEF c, f, h
        <5>2. Cardinality(AllNodes) <= h
          BY <1>0 DEF h
        <5> QED
          BY <4>1, <4>2, <5>1, <5>2
      <4>4. Signed(d) = d
        <5> HIDE DEF d
        <5> QED
          BY <4>3, SignedIs
      <4> HIDE DEF c, f, e
      <4> QED
        BY <3>4, <4>1, <4>4
    <3> HIDE DEF c, e
    <3>6. {[name |-> e.name, node |-> m, number |-> e.base + e.delta] : m \in InodeAt(e.ref)}
          = {[name |-> c, node |-> c, number |-> number[c]]}
      BY <3>3, <3>4, <3>5
    <3> QED
      BY <3>6 DEF c, e
  <2>7. FindEntries[n] =
          UNION {{[name |-> children[n][i], node |-> children[n][i],
                   number |-> number[children[n][i]]]} : i \in DOMAIN children[n]}
    <3> DEFINE F(e) == {[name |-> e.name, node |-> m, number |-> e.base + e.delta] : m \in InodeAt(e.ref)}
               G(i) == {[name |-> children[n][i], node |-> children[n][i],
                         number |-> number[children[n][i]]]}
    <3>1. FindEntries[n] = UNION {F(e) : e \in ReadDirEntries(n)}
      BY <1>2, <2>3
    <3>2. \A i \in DOMAIN children[n] : F(EntryOf(n, i)) = G(i)
      BY <2>6
    <3> HIDE DEF F, G
    <3>3. FindEntries[n] = UNION {F(EntryOf(n, i)) : i \in DOMAIN children[n]}
      BY <2>5, <3>1
    <3>4. FindEntries[n] = UNION {G(i) : i \in DOMAIN children[n]}
      BY <3>2, <3>3
    <3> QED
      BY <3>4 DEF G
  <2> QED
    BY <1>1, <2>7 DEF ToSet
<1> QED
  BY <1>3, <1>4

(* So it finds the same tree. *)
LEMMA TreeFound == IInv => TreeResolves
<1> SUFFICES ASSUME IInv, pc = "done", Fits
             PROVE  Recovered = Linked
  BY DEF TreeResolves
<1>0. 1 \in Inodes /\ N \in Nat /\ inodeLen <= Width
  BY DirTreeAssumption, InodesDone DEF Fits
<1>1. InodeAt(inodeOff[1] % Width) = {1}
  BY <1>0, InodeFound
<1>2. PICK f : Reach({1}, FindChildren) = UNION {f[d] : d \in 0..N} /\ Descends({1}, FindChildren, f)
  BY ReachIs
<1>3. PICK g : Reach({1}, FindEntries) = UNION {g[d] : d \in 0..N} /\ Descends({1}, FindEntries, g)
  BY ReachIs
<1>4. \A d \in 0..N : \A x \in f[d] : x.node \in Inodes
  <2>1. \A n \in Inodes : \A c \in FindChildren[n] : c.node \in Inodes
    BY InodesDone DEF FindChildren
  <2> QED
    BY <1>2, <2>1, InodesDone, ReachStays
<1>5. \A x : x.node \in Inodes => Down(FindEntries, x) = Down(FindChildren, x)
  BY EntriesFound DEF Down
<1>6. \A d \in 0..N : f[d] = g[d]
  <2> DEFINE Bad == {d \in 0..N : f[d] # g[d]}
  <2>1. ASSUME Bad # {}
        PROVE  FALSE
    <3>1. PICK d \in Bad : \A e \in Bad : d <= e
      <4>1. Bad \subseteq Nat
        OBVIOUS
      <4> HIDE DEF Bad
      <4> QED
        BY <2>1, <4>1, HasLeast
    <3>2. d \in 0..N /\ f[d] # g[d]
      OBVIOUS
    <3>3. d # 0
      BY <1>2, <1>3, <3>2 DEF Descends
    <3>4. d \in 1..N /\ d - 1 \in 0..N
      BY <1>0, <3>2, <3>3
    <3>5. d - 1 \notin Bad
      <4> HIDE DEF Bad
      <4> QED
        BY <3>1, <3>2, <3>3
    <3>6. f[d - 1] = g[d - 1]
      BY <3>4, <3>5
    <3>7. \A x \in f[d - 1] : Down(FindEntries, x) = Down(FindChildren, x)
      BY <1>4, <1>5, <3>4
    <3>8. /\ f[d] = UNION {Down(FindChildren, x) : x \in f[d - 1]}
          /\ g[d] = UNION {Down(FindEntries, x) : x \in f[d - 1]}
      BY <1>2, <1>3, <3>4, <3>6 DEF Descends
    <3> QED
      BY <3>2, <3>7, <3>8
  <2> QED
    BY <2>1
<1>7. Linked = Reach({1}, FindChildren) /\ Recovered = Reach({1}, FindEntries)
  BY <1>1 DEF Linked, Recovered
<1>8. UNION {f[d] : d \in 0..N} = UNION {g[d] : d \in 0..N}
  BY <1>6
<1> QED
  BY <1>2, <1>3, <1>7, <1>8

(* As long as both tables and the numbers fit 16 bits, the reader finds    *)
(* what CreateFromDir linked, under its path and with its inode number,    *)
(* and nothing else: for every source tree and every way its entries       *)
(* vanished.                                                               *)
THEOREM TreeAlwaysResolves == Spec => []TreeResolves
BY Invariance, TreeFound, PTL

=============================================================================
