------------------------------ MODULE DirTree ------------------------------
(***************************************************************************)
(* Phases 0, 3 and 4 of Writer.CreateFromDir (writer.go): the source tree  *)
(* is walked, the directory listings are laid out one after the other,     *)
(* then the inodes in post-order, then the listings are patched with the   *)
(* offsets of the inodes.  Other processes may remove what the walk is     *)
(* about to look at.  The reader's side (squashfs.go) finds its way back   *)
(* through 16-bit offsets.                                                 *)
(***************************************************************************)
EXTENDS Integers, Sequences, FiniteSets, SequencesExt

CONSTANTS
  N,          (* entries of the source tree, 1 the root, in walk order      *)
  Kinds,      (* what they are: "dir", "file", "link"                       *)
  NameLength, (* length of a name                                           *)
  Width,      (* offsets in references are kept modulo this (2^16)          *)
  Vanishing   (* entries may vanish during the walk                         *)

Entry == 1..N

ASSUME DirTreeAssumption ==
  /\ N \in Nat \ {0}
  /\ Kinds \subseteq {"dir", "file", "link"}
  /\ NameLength \in Nat \ {0}
  /\ Width \in Nat \ {0}
  /\ Vanishing \in BOOLEAN

VARIABLES
  source,    (* [parent, kind] of every entry                               *)
  pc,        (* "walk", "listings", "inodes", "patch", "done"               *)
  at,        (* the entry the loop of the phase is at                       *)
  number,    (* node.inodeNum; the nodes of allNodes are its domain         *)
  children,  (* node.children                                               *)
  calls,     (* the calls of writeOrder: [node, i], the innermost last      *)
  inodeOff,  (* node.inodeOff of the inodes written                         *)
  inodeLen,  (* inodeBuf.Len()                                              *)
  listing,   (* [start, size, entries] of the listings written              *)
  dirLen     (* dirBuf.Len()                                                *)

vars == <<source, pc, at, number, children, calls, inodeOff, inodeLen, listing, dirLen>>

walked  == <<number, children>>
written == <<calls, inodeOff, inodeLen>>
listed  == <<listing, dirLen>>

-----------------------------------------------------------------------------
(* The source tree, in the order of filepath.Walk: an entry comes after    *)
(* everything below the entries before it.                                 *)
Ancestors(s, n) ==
  LET up[m \in 1..n] == {m} \cup (IF m = 1 THEN {} ELSE up[s.parent[m]]) IN up[n]

Source ==
  {s \in [parent : [2..N -> Entry], kind : [Entry -> Kinds]] :
     /\ s.kind[1] = "dir"
     /\ \A n \in 2..N : /\ s.parent[n] < n
                        /\ s.parent[n] \in Ancestors(s, n - 1)
                        /\ s.kind[s.parent[n]] = "dir"}

AllNodes == DOMAIN number
IsDir(n) == source.kind[n] = "dir"
Number(n) == number[n]

(* Slips these definitions are tried with have names that end in Slip.     *)
InodeNumSlip == Cardinality(AllNodes) + 1

(* inodeNum: the number given last. *)
InodeNum == Cardinality(AllNodes)

(* Directories whose listing is written: those with children.              *)
Listed == {n \in AllNodes : IsDir(n) /\ children[n] # <<>>}

HeaderSize == 12
EntrySize  == 8 + NameLength
InodeSize(n) == CASE source.kind[n] = "dir"  -> 32
                  [] source.kind[n] = "file" -> 32
                  [] source.kind[n] = "link" -> 24 + NameLength

OffsetSlip(n) == IF n \in DOMAIN inodeOff THEN inodeOff[n] + InodeSize(n) ELSE 0

(* inodeOff, or 0 for a node whose inode was never written.                *)
Offset(n) == IF n \in DOMAIN inodeOff THEN inodeOff[n] ELSE 0

With(f, x, v) == [y \in DOMAIN f \cup {x} |-> IF y = x THEN v ELSE f[y]]

Init ==
  /\ source \in Source
  /\ pc = "walk"
  /\ at = 1
  /\ number = [n \in {1} |-> 1]
  /\ children = [n \in Entry |-> <<>>]
  /\ calls = <<>>
  /\ inodeOff = [n \in {} |-> 0]
  /\ inodeLen = 0
  /\ listing = [n \in {} |-> [start |-> 0, size |-> 0, entries |-> <<>>]]
  /\ dirLen = 0

-----------------------------------------------------------------------------
ReadRoot ==
  /\ pc = "walk" /\ at = 1
  /\ at' = 2
  /\ UNCHANGED <<source, pc, walked, written, listed>>

(* Phase 0.  A node is linked to its parent if the parent has a node.      *)
Visit ==
  /\ pc = "walk" /\ at \in 2..N
  /\ number' = With(number, at, InodeNum + 1)
  /\ children' = IF source.parent[at] \in AllNodes
                   THEN [children EXCEPT ![source.parent[at]] = Append(@, at)]
                   ELSE children
  /\ at' = at + 1
  /\ UNCHANGED <<source, pc, written, listed>>

(* os.Lstat fails, although the walk could still see the entry: what is    *)
(* below it is visited all the same.                                       *)
LstatFails ==
  /\ pc = "walk" /\ at \in 2..N
  /\ Vanishing
  /\ at' = at + 1
  /\ UNCHANGED <<source, pc, walked, written, listed>>

(* filepath.Walk reports an error (a directory it cannot read, an entry    *)
(* that is gone): the function passes over the entry, and with it          *)
(* everything below.                                                       *)
WalkFails ==
  /\ pc = "walk" /\ at \in Entry
  /\ Vanishing
  /\ at' \in at + 1..N + 1
  /\ \A n \in at..at' - 1 : at \in Ancestors(source, n)
  /\ at' \in Entry => at \notin Ancestors(source, at')
  /\ UNCHANGED <<source, pc, walked, written, listed>>

EndWalk ==
  /\ pc = "walk" /\ at = N + 1
  /\ pc' = "listings" /\ at' = 1
  /\ UNCHANGED <<source, walked, written, listed>>

(* int16(n): two's complement, in as many bits as an offset. *)
Signed(n) == ((n + (Width \div 2)) % Width) - (Width \div 2)

(* Phase 3.  One header and an entry for each child, its offset still 0.   *)
WriteListing ==
  /\ pc = "listings" /\ at \in Listed
  /\ LET size == HeaderSize + (Len(children[at]) * EntrySize)
         first == Number(children[at][1])
     IN /\ listing' = With(listing, at,
             [start |-> dirLen, size |-> size,
              entries |-> [i \in DOMAIN children[at] |->
                             [name |-> children[at][i], ref |-> 0, base |-> first,
                              delta |-> Signed(Number(children[at][i]) - first)]]])
        /\ dirLen' = dirLen + size
  /\ at' = at + 1
  /\ UNCHANGED <<source, pc, walked, written>>

NoListing ==
  /\ pc = "listings" /\ at \in Entry \ Listed
  /\ at' = at + 1
  /\ UNCHANGED <<source, pc, walked, written, listed>>

EndListings ==
  /\ pc = "listings" /\ at = N + 1
  /\ pc' = "inodes" /\ at' = 1
  /\ calls' = <<[node |-> 1, i |-> 1]>>
  /\ UNCHANGED <<source, walked, inodeOff, inodeLen, listed>>

(* Phase 4: writeOrder.                                                    *)
Call == calls[Len(calls)]
Child == children[Call.node][Call.i]
Resumed == [calls EXCEPT ![Len(calls)].i = @ + 1]

WriteInode(n) ==
  /\ inodeOff' = With(inodeOff, n, inodeLen)
  /\ inodeLen' = inodeLen + InodeSize(n)

ChildDirSkipSlip ==
  /\ pc = "inodes" /\ calls # <<>>
  /\ Call.i <= Len(children[Call.node]) /\ IsDir(Child)
  /\ calls' = IF children[Child] = <<>> THEN Resumed
                ELSE Append(Resumed, [node |-> Child, i |-> 1])
  /\ UNCHANGED <<source, pc, at, walked, inodeOff, inodeLen, listed>>

ChildDirEarlySlip ==
  /\ pc = "inodes" /\ calls # <<>>
  /\ Call.i <= Len(children[Call.node]) /\ IsDir(Child)
  /\ WriteInode(Child)
  /\ calls' = Append(Resumed, [node |-> Child, i |-> 1])
  /\ UNCHANGED <<source, pc, at, walked, listed>>

ChildDir ==
  /\ pc = "inodes" /\ calls # <<>>
  /\ Call.i <= Len(children[Call.node]) /\ IsDir(Child)
  /\ calls' = Append(Resumed, [node |-> Child, i |-> 1])
  /\ UNCHANGED <<source, pc, at, walked, inodeOff, inodeLen, listed>>

ChildLeaf ==
  /\ pc = "inodes" /\ calls # <<>>
  /\ Call.i <= Len(children[Call.node]) /\ ~IsDir(Child)
  /\ WriteInode(Child)
  /\ calls' = Resumed
  /\ UNCHANGED <<source, pc, at, walked, listed>>

Self ==
  /\ pc = "inodes" /\ calls # <<>>
  /\ Call.i > Len(children[Call.node])
  /\ WriteInode(Call.node)
  /\ calls' = SubSeq(calls, 1, Len(calls) - 1)
  /\ UNCHANGED <<source, pc, at, walked, listed>>

EndInodes ==
  /\ pc = "inodes" /\ calls = <<>>
  /\ pc' = "patch"
  /\ UNCHANGED <<source, at, walked, written, listed>>

(* The entries of a listing get the offsets of the inodes, cut to 16 bits. *)
Patch ==
  /\ pc = "patch" /\ at \in Listed
  /\ listing' = [listing EXCEPT ![at].entries =
                   [i \in DOMAIN @ |-> [@[i] EXCEPT !.ref = Offset(children[at][i]) % Width]]]
  /\ at' = at + 1
  /\ UNCHANGED <<source, pc, walked, written, dirLen>>

NoPatch ==
  /\ pc = "patch" /\ at \in Entry \ Listed
  /\ at' = at + 1
  /\ UNCHANGED <<source, pc, walked, written, listed>>

EndPatch ==
  /\ pc = "patch" /\ at = N + 1
  /\ pc' = "done"
  /\ UNCHANGED <<source, at, walked, written, listed>>

Next == \/ ReadRoot \/ Visit \/ LstatFails \/ WalkFails \/ EndWalk
        \/ WriteListing \/ NoListing \/ EndListings
        \/ ChildDir \/ ChildLeaf \/ Self \/ EndInodes
        \/ Patch \/ NoPatch \/ EndPatch
        \/ pc = "done" /\ UNCHANGED vars

Spec == Init /\ [][Next]_vars

-----------------------------------------------------------------------------
(* The reader's side: newReader has both tables, decompressed, in memory.  *)

(* readInode: the inode that begins at this offset of the table, if any.   *)
InodeAt(pos) == {n \in DOMAIN inodeOff : inodeOff[n] = pos}

(* The directory inode has 16 bits for the listing's offset and its size.  *)
DirField(n, field) == IF n \in DOMAIN listing THEN listing[n][field] % Width ELSE 0

(* readDirEntries: where the inode of a directory points, one header is    *)
(* followed by as many entries as it says; the size only tells where to    *)
(* stop looking for another.                                               *)
ReadDirEntries(n) ==
  LET start == DirField(n, "start")
      size  == DirField(n, "size")
  IN UNION {ToSet(listing[m].entries) :
              m \in {m \in DOMAIN listing : /\ listing[m].start = start
                                           /\ size > 0
                                           /\ start + size <= dirLen}}

(* What can be reached from the root: [path, node, number], if find[n] has *)
(* the [name, node, number] of the children of n.                          *)
Down(find, x) ==
  {[path |-> Append(x.path, c.name), node |-> c.node, number |-> c.number] :
     c \in find[x.node]}

Reach(roots, find) ==
  LET level[d \in 0..N] ==
        IF d = 0 THEN {[path |-> <<>>, node |-> r, number |-> 1] : r \in roots}
                 ELSE UNION {Down(find, x) : x \in level[d - 1]}
  IN UNION {level[d] : d \in 0..N}

(* ExtractTo: the root inode, whose offset is cut to 16 bits too, and the  *)
(* entries of the directories below.                                       *)
FindEntries ==
  [n \in Entry |->
     IF ~IsDir(n) THEN {} ELSE
       UNION {{[name |-> e.name, node |-> m, number |-> e.base + e.delta] :
                 m \in InodeAt(e.ref)} : e \in ReadDirEntries(n)}]

Recovered == Reach(InodeAt(inodeOff[1] % Width), FindEntries)

(* The nodes CreateFromDir linked, and what the source directory holds.    *)
FindChildren ==
  [n \in Entry |->
     {[name |-> m, node |-> m, number |-> number[m]] : m \in ToSet(children[n])}]

Linked == Reach({1}, FindChildren)

Present ==
  Reach({1}, [n \in Entry |->
                {[name |-> m, node |-> m, number |-> m] :
                   m \in {m \in 2..N : source.parent[m] = n}}])

-----------------------------------------------------------------------------
(* The variables have their types. *)
TypeOK ==
  /\ source \in Source
  /\ pc \in {"walk", "listings", "inodes", "patch", "done"}
  /\ at \in 1..N + 1
  /\ AllNodes \subseteq Entry /\ \A n \in AllNodes : number[n] \in Entry
  /\ children \in [Entry -> Seq(Entry)]
  /\ calls \in Seq([node : Entry, i : Nat])
  /\ DOMAIN inodeOff \subseteq AllNodes /\ inodeLen \in Nat
  /\ DOMAIN listing \subseteq AllNodes /\ dirLen \in Nat

(* Both tables are within reach of 16-bit offsets, and inode numbers of    *)
(* 16-bit differences: nodes below a directory that has none are numbered  *)
(* though they are not linked.                                             *)
Fits ==
  /\ inodeLen <= Width /\ dirLen < Width
  /\ Cardinality(AllNodes) <= Width \div 2

(* Every node that was linked is found from the root under its path, with  *)
(* its inode number, and nothing else is: however entries vanish during    *)
(* the walk, and although listings are written before the offsets of the   *)
(* inodes are known.                                                       *)
TreeResolves == pc = "done" /\ Fits => Recovered = Linked

(* writeOrder gives each linked node one inode, and none to a node whose   *)
(* directory has no node; inodes do not overlap.                           *)
OneInodeEach ==
  pc = "done" =>
    /\ DOMAIN inodeOff = {x.node : x \in Linked}
    /\ \A m, n \in DOMAIN inodeOff :
         m # n => \/ inodeOff[m] + InodeSize(m) <= inodeOff[n]
                  \/ inodeOff[n] + InodeSize(n) <= inodeOff[m]

(* A directory's inode comes after all inodes below it: the root, which    *)
(* the superblock refers to, is the last.                                  *)
PostOrder ==
  \A m, n \in DOMAIN inodeOff :
    m # n /\ n \in Ancestors(source, m) => inodeOff[m] < inodeOff[n]

(* "CreateFromDir creates a SquashFS image from a directory"               *)
(* (writer.go:108): what the directory holds is in the image.              *)
ImageHoldsDirectory == pc = "done" => Recovered = Present
=============================================================================
