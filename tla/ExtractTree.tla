---------------------------- MODULE ExtractTree ----------------------------
(***************************************************************************)
(* Reader.ExtractTo and Reader.extractDir (squashfs.go): the recursive     *)
(* walk over the directories of an image.  The image may have been made by *)
(* anything: directories may be entered twice, contain themselves, nest    *)
(* without end, list a name twice or be damaged.  The directory extracted  *)
(* to is empty, and the disk itself does not fail.                         *)
(***************************************************************************)
EXTENDS Integers, Sequences, FiniteSets

CONSTANTS
  Ref,       (* inodes, as directory entries refer to them                  *)
  Images,    (* a set of [root, node]; node[r] is what readInode(r) yields: *)
             (*   [type, number, entries], entries = <<[name, ref]>>        *)
  Plain,     (* names that pass the filter                                  *)
  MaxFiles,  (* maxExtractFiles                                             *)
  MaxDepth,  (* maxExtractDepth                                             *)
  MaxPath    (* maxPathLen, in names                                        *)

(* badDir: the listing cannot be read; badFile: extractFileToPath fails;   *)
(* special: a device, fifo or socket, or a link without a target; none:    *)
(* readInode fails.                                                        *)
Types == {"dir", "badDir", "file", "badFile", "link", "special", "none"}

ASSUME LimitAssumption == MaxFiles \in Nat /\ MaxDepth \in Nat /\ MaxPath \in Nat

(* Whatever an entry refers to, readInode yields something for it; what is *)
(* no directory has no DirSize, and lists nothing.                         *)
ASSUME ImageAssumption ==
  \A im \in Images :
    /\ im.root \in DOMAIN im.node
    /\ DOMAIN im.node \subseteq Ref
    /\ \A r \in DOMAIN im.node :
         /\ im.node[r].type \in Types
         /\ im.node[r].number \in Nat
         /\ im.node[r].entries \in Seq([name : STRING, ref : DOMAIN im.node])
         /\ im.node[r].type \notin {"dir", "badDir"} => im.node[r].entries = <<>>

VARIABLES
  image,
  pc,      (* "start", "walk", "done"                                       *)
  stack,   (* the calls of extractDir: [path, ref, i], the innermost last   *)
  count,   (* files and links, *count                                       *)
  seen,    (* inode numbers of the directories entered                      *)
  made,    (* what there is on disk: the inode each path was made from      *)
  strayed, (* something was written through a link the walk had made        *)
  err      (* what ExtractTo returned: TRUE is an error                     *)

vars == <<image, pc, stack, count, seen, made, strayed, err>>

Node(r) == image.node[r]
IsDir(r) == Node(r).type \in {"dir", "badDir"}

Init ==
  /\ image \in Images
  /\ pc = "start"
  /\ stack = <<>>
  /\ count = 0
  /\ seen = {}
  /\ made = [p \in {} |-> image.root]
  /\ strayed = FALSE
  /\ err = FALSE

-----------------------------------------------------------------------------
(* Operators that end in Slip are what the one after them is tried with.   *)

Top       == stack[Len(stack)]
Entries   == Node(Top.ref).entries
Entry     == Entries[Top.i]
EntryPathSlip == <<Entry.name>>
EntryPath == Append(Top.path, Entry.name)
AtEntry   == pc = "walk" /\ stack # <<>> /\ Top.i <= Len(Entries)

(* The call goes on to its next entry. *)
Advanced == [stack EXCEPT ![Len(stack)].i = @ + 1]
ButLast(s) == SubSeq(s, 1, Len(s) - 1)

(* What is at a path on disk; the root is a directory whatever it is in    *)
(* the image.                                                              *)
At(p) ==
  IF p \notin DOMAIN made THEN "nothing"
  ELSE IF p = <<>> \/ IsDir(made[p]) THEN "dir"
  ELSE IF Node(made[p]).type = "link" THEN "link" ELSE "file"

(* A path that leads over a link or ends at one.                           *)
Linked(p) == \E n \in 1..Len(p) : At(SubSeq(p, 1, n)) = "link"

(* Nothing is in the way of making p, nor has been written where a link    *)
(* leads.                                                                  *)
Free(p) ==
  /\ ~strayed
  /\ p = <<>> \/ At(ButLast(p)) = "dir"
  /\ At(p) = "nothing"

Put(p, r) ==
  /\ made' = [q \in DOMAIN made \cup {p} |-> IF q = p THEN r ELSE made[q]]
  /\ UNCHANGED strayed

Untouched == UNCHANGED <<made, strayed>>

(* p is made where a link leads.  Targets are not modelled, nor from then  *)
(* on what is on disk.                                                     *)
Elsewhere(p) ==
  /\ strayed \/ Linked(p)
  /\ strayed' = TRUE
  /\ UNCHANGED made

(* os.MkdirAll and os.Symlink: what is there stays as it is, errors are    *)
(* dropped, links on the way are followed.                                 *)
Make(p, r) ==
  \/ Free(p) /\ Put(p, r)
  \/ ~Free(p) /\ Untouched
  \/ Elsewhere(ButLast(p))

(* os.OpenFile with O_CREATE and O_TRUNC: a file that is there is written  *)
(* over, a link at the end followed too.                                   *)
Open(p, r) ==
  \/ Free(p) /\ Put(p, r)
  \/ ~strayed /\ At(p) = "file" /\ Put(p, r)
  \/ Elsewhere(p)

RefusesEarlySlip(p, r) ==
  Len(p) >= MaxDepth \/ count > MaxFiles \/ Node(r).number \in seen

RefusesTwiceSlip(p, r) == Len(p) > MaxDepth \/ count > MaxFiles

(* What extractDir checks before it does anything. *)
Refuses(p, r) ==
  \/ Len(p) > MaxDepth
  \/ count > MaxFiles
  \/ Len(p) > MaxPath
  \/ Node(r).number > 0 /\ Node(r).number \in seen

EnterSlip(p, r, calls) ==
  /\ ~Refuses(p, r)
  /\ seen' = seen \cup {Node(r).number}
  /\ Make(p, r)
  /\ stack' = Append(calls, [path |-> p, ref |-> Node(r).number, i |-> 1])

(* A call that is not refused: the directory is made, then listed.  One    *)
(* whose listing cannot be read returns an error, which only ExtractTo     *)
(* looks at.                                                               *)
Enter(p, r, calls) ==
  /\ ~Refuses(p, r)
  /\ seen' = IF Node(r).number > 0 THEN seen \cup {Node(r).number} ELSE seen
  /\ Make(p, r)
  /\ stack' = IF Node(r).type = "badDir"
                THEN calls
                ELSE Append(calls, [path |-> p, ref |-> r, i |-> 1])

Finish(e) == pc' = "done" /\ err' = e

Start ==
  /\ pc = "start"
  /\ \/ /\ Node(image.root).type = "none"
        /\ Finish(TRUE)
        /\ UNCHANGED <<stack, seen, made, strayed>>
     \/ /\ Node(image.root).type # "none"
        /\ Enter(<<>>, image.root, <<>>)
        /\ IF Node(image.root).type = "badDir" THEN Finish(TRUE)
                                               ELSE pc' = "walk" /\ err' = err
  /\ UNCHANGED <<image, count>>

Rejected == Entry.name \notin Plain \/ Len(EntryPath) > MaxPath

SkipEntrySlip ==
  /\ AtEntry
  /\ Rejected \/ Node(Entry.ref).type \in {"special", "none"} \/ Refuses(EntryPath, Entry.ref)
  /\ UNCHANGED vars

(* Entries that leave nothing behind: the name is rejected, the path is    *)
(* too long, the inode cannot be read or is of a type that is not          *)
(* extracted, or the call for a subdirectory returns at once.              *)
SkipEntry ==
  /\ AtEntry
  /\ \/ Rejected
     \/ Node(Entry.ref).type \in {"special", "none"}
     \/ IsDir(Entry.ref) /\ Refuses(EntryPath, Entry.ref)
  /\ stack' = Advanced
  /\ UNCHANGED <<image, pc, count, seen, made, strayed, err>>

EnterDir ==
  /\ AtEntry /\ ~Rejected
  /\ IsDir(Entry.ref)
  /\ Enter(EntryPath, Entry.ref, Advanced)
  /\ UNCHANGED <<image, pc, count, err>>

AtFile == AtEntry /\ ~Rejected /\ Node(Entry.ref).type \in {"file", "badFile"}

ExtractFileSlip ==
  /\ AtFile
  /\ count <= MaxFiles
  /\ \/ /\ Open(EntryPath, Entry.ref)
        /\ count' = IF Node(Entry.ref).type = "file" THEN count + 1 ELSE count
     \/ ~Free(EntryPath) /\ Untouched /\ count' = count
  /\ stack' = Advanced
  /\ UNCHANGED <<image, pc, seen, err>>

(* A file that fails half way, or that cannot be opened because of what is *)
(* in its place, is neither counted nor reported.                          *)
ExtractFile ==
  /\ AtFile
  /\ count < MaxFiles
  /\ \/ /\ Open(EntryPath, Entry.ref)
        /\ count' = IF Node(Entry.ref).type = "file" THEN count + 1 ELSE count
     \/ ~Free(EntryPath) /\ Untouched /\ count' = count
  /\ stack' = Advanced
  /\ UNCHANGED <<image, pc, seen, err>>

(* At the limit, a file ends the call for its directory, not the walk.     *)
FileLimit ==
  /\ AtFile
  /\ count >= MaxFiles
  /\ stack' = ButLast(stack)
  /\ UNCHANGED <<image, pc, count, seen, made, strayed, err>>

(* Links are counted, made or not; the limit is not looked at. *)
MakeLink ==
  /\ AtEntry /\ ~Rejected
  /\ Node(Entry.ref).type = "link"
  /\ Make(EntryPath, Entry.ref)
  /\ count' = count + 1
  /\ stack' = Advanced
  /\ UNCHANGED <<image, pc, seen, err>>

EndDir ==
  /\ pc = "walk" /\ stack # <<>>
  /\ Top.i > Len(Entries)
  /\ stack' = ButLast(stack)
  /\ UNCHANGED <<image, pc, count, seen, made, strayed, err>>

Return ==
  /\ pc = "walk" /\ stack = <<>>
  /\ Finish(FALSE)
  /\ UNCHANGED <<image, stack, count, seen, made, strayed>>

Walk == \/ Start \/ SkipEntry \/ EnterDir \/ ExtractFile \/ FileLimit
        \/ MakeLink \/ EndDir \/ Return

Next == Walk \/ (pc = "done" /\ UNCHANGED vars)

Spec == Init /\ [][Next]_vars /\ WF_vars(Walk)

-----------------------------------------------------------------------------
(* The tree of the image: every path of at most MaxDepth + 2 names that    *)
(* leads to an inode, whether or not the walk can get there.               *)
Below(im, x) ==
  LET list == im.node[x.ref].entries
  IN {[path |-> Append(x.path, list[i].name), ref |-> list[i].ref] : i \in DOMAIN list}

Level(im) ==
  LET level[n \in 0..MaxDepth + 2] ==
        IF n = 0 THEN {[path |-> <<>>, ref |-> im.root]}
                 ELSE UNION {Below(im, x) : x \in level[n - 1]}
  IN level

Tree == LET level == Level(image) IN UNION {level[n] : n \in DOMAIN level}

OnDisk == {[path |-> p, ref |-> made[p]] : p \in DOMAIN made}

Type(x) == Node(x.ref).type
Nodes(S, types) == {x \in S : Type(x) \in types}

(* No listing has a name twice; neither readDirEntries nor extractDir      *)
(* looks.                                                                  *)
DistinctNames ==
  \A r \in DOMAIN image.node :
    LET list == Node(r).entries
    IN \A i, j \in DOMAIN list : list[i].name = list[j].name => i = j

(* An image as CreateFromDir makes them, within the limits.                *)
WellFormed ==
  /\ DistinctNames
  /\ Node(image.root).type = "dir"
  /\ \A x \in Tree : /\ Type(x) \in {"dir", "file", "link"}
                     /\ Len(x.path) <= MaxPath
                     /\ \A i \in DOMAIN x.path : x.path[i] \in Plain
  /\ \A x \in Nodes(Tree, {"dir"}) : Len(x.path) <= MaxDepth
  /\ \A x, y \in Nodes(Tree, {"dir"}) :
       Node(x.ref).number = Node(y.ref).number => x = y \/ Node(x.ref).number = 0
  /\ Cardinality(Nodes(Tree, {"file", "link"})) <= MaxFiles

-----------------------------------------------------------------------------
(* The variables have their types. *)
TypeOK ==
  /\ pc \in {"start", "walk", "done"}
  /\ stack \in Seq([path : Seq(STRING), ref : Ref, i : Nat])
  /\ count \in Nat
  /\ seen \subseteq Nat
  /\ \A p \in DOMAIN made : made[p] \in Ref
  /\ strayed \in BOOLEAN
  /\ err \in BOOLEAN

(* A well-formed image is extracted whole, without an error, and counted   *)
(* exactly.                                                                *)
WellFormedIsCopied ==
  pc = "done" /\ WellFormed =>
    /\ ~err /\ ~strayed
    /\ OnDisk = Tree
    /\ count = Cardinality(Nodes(Tree, {"file", "link"}))

(* No directory with an inode number appears twice on disk, under whatever *)
(* paths the image reaches it.                                             *)
DirectoryOnce ==
  \A x, y \in Nodes(OnDisk, {"dir", "badDir"}) :
    Node(x.ref).number > 0 /\ Node(x.ref).number = Node(y.ref).number => x = y

(* The files and links on disk; a root that is a file or a link is made a  *)
(* directory like any other.                                               *)
Made(types) == {x \in Nodes(OnDisk, types) : x.path # <<>>}

(* maxExtractFiles bounds the files that are extracted whole, although     *)
(* links are counted past it and a directory at the limit does not stop    *)
(* the ones above it; links, and files that fail half way, it does not     *)
(* bound (squashfs.go:642-651).  The count is at every step that of the    *)
(* whole files and links on disk, unless a name is listed twice.           *)
FilesBounded ==
  /\ Cardinality(Made({"file"})) <= MaxFiles
  /\ DistinctNames => count = Cardinality(Made({"file", "link"}))

(* Extraction implements TreeCopy on any image: what is on disk grows      *)
(* along the tree of the image and nothing on disk comes from elsewhere;   *)
(* that a file is written over, or a link followed, takes two entries with *)
(* one path (squashfs.go:649 says of links "never follow").                *)
Copy == INSTANCE TreeCopy WITH tree <- Tree, made <- OnDisk
ExtractionCopies == Copy!Spec

(* Extraction ends on any image, however its directories are entangled,    *)
(* inode numbers or not (squashfs.go:601, prevents recursive structures).  *)
Terminates == <>(pc = "done")
=============================================================================
