------------------------------ MODULE TreeCopy ------------------------------
(***************************************************************************)
(* What extracting a file system promises: the tree of the image appears   *)
(* on disk one path at a time, a directory before what is in it, each path *)
(* made from an inode it leads to in the image.  What has been made is     *)
(* touched again, or writing leaves the paths of the tree, only if the     *)
(* image has several entries with one path.                                *)
(***************************************************************************)
EXTENDS Integers, Sequences

VARIABLES
  tree,      (* the image: [path, ref] for every path that leads to an inode *)
  made,      (* what is on disk: [path, ref], ref what it was made from      *)
  strayed    (* something was written elsewhere                              *)

Parent(p) == SubSeq(p, 1, Len(p) - 1)

Init == made = {} /\ strayed = FALSE

Make ==
  \E x \in tree \ made :
    /\ \A y \in made : y.path # x.path
    /\ x.path # <<>> => \E y \in made : y.path = Parent(x.path)
    /\ made' = made \cup {x}
    /\ UNCHANGED <<tree, strayed>>

(* Another inode the path leads to, unless something has been made below.  *)
Replace ==
  \E x \in tree \ made, y \in made :
    /\ x.path = y.path
    /\ \A z \in made : z.path # <<>> => Parent(z.path) # x.path
    /\ made' = (made \ {y}) \cup {x}
    /\ UNCHANGED <<tree, strayed>>

Stray ==
  \E x, y \in tree :
    /\ x # y /\ x.path = y.path
    /\ strayed' = TRUE
    /\ UNCHANGED <<tree, made>>

Spec == Init /\ [][Make \/ Replace \/ Stray]_<<tree, made, strayed>>
=============================================================================
