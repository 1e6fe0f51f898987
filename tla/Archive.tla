------------------------------ MODULE Archive ------------------------------
(***************************************************************************)
(* What packing a directory promises: the files are taken one after the    *)
(* other, each whole and as it was at one moment, and what has been taken  *)
(* never changes again.  Nothing is promised of a file that cannot be      *)
(* read, that is no longer as long as it was found, or that is too long,   *)
(* nor of those that are taken when the archive is full.  Block sizes,     *)
(* fragments and compression are no part of it.                            *)
(***************************************************************************)
EXTENDS Integers, Sequences

CONSTANTS
  NumFiles,
  Contents,
  LengthLimit, (* files of this length are too long                         *)
  Rewritable   (* files that may change until they are taken                *)

File == 1..NumFiles

VARIABLES
  source,      (* the directory: [data, readable] of every file             *)
  found,       (* the length of each file when the directory was walked     *)
  archived,    (* what the archive yields for the files taken so far, and   *)
               (* whether it is kept: [kept, data]                          *)
  full         (* the archive is full                                       *)

Init ==
  /\ source \in [File -> [data : Contents, readable : BOOLEAN]]
  /\ found = [f \in File |-> Len(source[f].data)]
  /\ archived = <<>>
  /\ full = FALSE

Change ==
  /\ \E f \in Rewritable, c \in Contents, r \in BOOLEAN :
       /\ source' = [source EXCEPT ![f] = [data |-> c, readable |-> r]]
       /\ f > Len(archived)
  /\ UNCHANGED <<found, archived, full>>

(* A file that was found empty is taken as an empty one.                   *)
Fits(f) ==
  \/ found[f] = 0
  \/ /\ source[f].readable /\ Len(source[f].data) = found[f]
     /\ found[f] < LengthLimit /\ ~full

Entry(f) ==
  IF Fits(f)
    THEN [kept |-> TRUE, data |-> IF found[f] = 0 THEN <<>> ELSE source[f].data]
    ELSE [kept |-> FALSE, data |-> <<>>]

Take ==
  LET f == Len(archived) + 1
  IN /\ f \in File
     /\ archived' = Append(archived, Entry(f))
     /\ full' \in {full, TRUE}
     /\ UNCHANGED <<source, found>>

(* Without a file, too. *)
Fill == full' = TRUE /\ UNCHANGED <<source, found, archived>>

Spec == Init /\ [][Change \/ Take \/ Fill]_<<source, found, archived, full>>
=============================================================================
