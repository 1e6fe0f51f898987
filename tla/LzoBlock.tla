------------------------------ MODULE LzoBlock ------------------------------
(***************************************************************************)
(* LzoCompress (lzo_compress.go) and lzoDecompress (lzo_decompress.go).    *)
(* The compressor writes instructions, each a match and the literals       *)
(* behind it; a few literals are counted in two bits of the match before   *)
(* them.  The decompressor goes by the first byte of an instruction and    *)
(* stops without an error where it cannot go on.                           *)
(***************************************************************************)
EXTENDS Integers, Sequences, SequencesExt

CONSTANTS
  HashSize,  (* lzoHashSize                                                 *)
  Inputs     (* what is compressed: a set of sequences of bytes             *)

Byte     == 0..255
Least    == 4
MaxMatch == 264
Near     == 2048                      \* 0x800, what a short match reaches
MaxDist  == 16383 + Near

LzoAssumption ==
  /\ HashSize \in Nat \ {0}
  /\ Inputs \subseteq Seq(Byte)

VARIABLES
  src,       (* the data                                                    *)
  pc,        (* "compress", "compressed", "first", "decompress", "done"     *)
  hashTable, (* hash -> the last position that had it, or -1                *)
  ip,        (* the compressor's position in src, from 0                    *)
  litStart,  (* where the literals begin that are not written yet           *)
  dst,       (* the block                                                   *)
  in,        (* the block as the decompressor gets it                       *)
  pos,       (* the decompressor's position in it, from 0                   *)
  t,         (* the first byte of the instruction                           *)
  out,       (* what it has decompressed                                    *)
  err        (* it returned an error: it never does                         *)

vars == <<src, pc, hashTable, ip, litStart, dst, in, pos, t, out, err>>

compressor   == <<hashTable, ip, litStart, dst>>
decompressor == <<in, pos, t, out, err>>

Init ==
  /\ src \in Inputs
  /\ pc = "compress"
  /\ hashTable = [h \in 0..HashSize - 1 |-> -1]
  /\ ip = 0 /\ litStart = 0
  /\ dst = <<>>
  /\ in = <<>> /\ pos = 0 /\ t = 0 /\ out = <<>> /\ err = FALSE

-----------------------------------------------------------------------------
EndMarker == <<17, 0, 0>>

Bytes(from, to) == SubSeq(src, from + 1, to)
Word(p) == Bytes(p, p + Least)

(* hash.  Which positions collide does not matter: words are compared.     *)
Hash(w) == (w[1] + w[Least]) % HashSize

Candidate == hashTable[Hash(Word(ip))]

Matches ==
  /\ Candidate >= 0
  /\ ip - Candidate <= MaxDist
  /\ Word(ip) = Word(Candidate)

MatchLen ==
  CHOOSE n \in Least..MaxMatch :
    LET Goes(m) == /\ ip + m < Len(src) /\ Candidate + m < ip /\ m < MaxMatch
                   /\ src[ip + m + 1] = src[Candidate + m + 1]
    IN ~Goes(n) /\ \A m \in Least..n - 1 : Goes(m)

(* What is over of a count: a byte of 0 for every 255. *)
Zeros(n) == [k \in 1..n \div 255 |-> 0] \o <<n % 255>>

(* emitLiterals: d with the literals from one position up to another.      *)
WithLiterals(d, from, to) ==
  LET count == to - from
  IN (CASE count = 0 -> d
        [] count \in 1..3 /\ d = <<>> -> <<17 + count>>
        [] count \in 1..3 /\ d # <<>> -> [d EXCEPT ![Len(d) - 1] = @ + count]
        [] count \in 4..18 -> Append(d, count - 3)
        [] OTHER -> Append(d, 0) \o Zeros(count - 18))
     \o Bytes(from, to)

ShortMatch(dist, len) ==
  <<(((dist - 1) \div 256) * 32) + ((len - 1) * 4), (dist - 1) % 256>>

LongMatch(dist, len) ==
  (IF len - 2 <= 31 THEN <<32 + (len - 2)>> ELSE <<32>> \o Zeros(len - 33))
    \o <<((dist - 1) * 4) % 256, ((dist - 1) \div 64) % 256>>

Instruction(dist, len) ==
  IF dist <= Near /\ len <= 8 THEN ShortMatch(dist, len) ELSE LongMatch(dist, len)

TooShort == Len(src) <= 13

CompressShort ==
  /\ pc = "compress" /\ TooShort
  /\ dst' = <<17 + Len(src)>> \o src \o EndMarker
  /\ pc' = "compressed"
  /\ UNCHANGED <<src, hashTable, ip, litStart, decompressor>>

Searching == pc = "compress" /\ ~TooShort /\ ip + Least < Len(src)

Remember == hashTable' = [hashTable EXCEPT ![Hash(Word(ip))] = ip]

NoMatch ==
  /\ Searching /\ ~Matches
  /\ Remember
  /\ ip' = ip + 1
  /\ UNCHANGED <<src, pc, litStart, dst, decompressor>>

Match ==
  /\ Searching /\ Matches
  /\ Remember
  /\ dst' = WithLiterals(dst, litStart, ip) \o Instruction(ip - Candidate, MatchLen)
  /\ ip' = ip + MatchLen
  /\ litStart' = ip'
  /\ UNCHANGED <<src, pc, decompressor>>

LastLiterals ==
  /\ pc = "compress" /\ ~TooShort /\ ip + Least >= Len(src)
  /\ dst' = WithLiterals(dst, litStart, Len(src)) \o EndMarker
  /\ pc' = "compressed"
  /\ UNCHANGED <<src, hashTable, ip, litStart, decompressor>>

(* The block is stored and read back: whole, or cut short. *)
Deliver ==
  /\ pc = "compressed"
  /\ \E n \in 0..Len(dst) : in' = SubSeq(dst, 1, n)
  /\ pc' = "first"
  /\ UNCHANGED <<src, compressor, pos, t, out, err>>

-----------------------------------------------------------------------------
Lesser(m, n) == IF m <= n THEN m ELSE n

Finish == pc' = "done" /\ err' = FALSE

Stop == Finish /\ UNCHANGED <<src, compressor, in, pos, t, out>>

(* What the definition after it is tried with. *)
FirstEndSlip == IF in[1] > 17 THEN Lesser(in[1] - 17, Len(in)) ELSE 1

(* The first byte may count literals. *)
FirstEnd == IF in[1] > 17 THEN Lesser(in[1] - 16, Len(in)) ELSE 1

First ==
  /\ pc = "first" /\ in # <<>>
  /\ out' = SubSeq(in, 2, FirstEnd)
  /\ IF in[1] <= 17
       THEN pc' = "decompress" /\ t' = in[1] /\ pos' = 1
       ELSE IF FirstEnd >= Len(in)
              THEN pc' = "done" /\ pos' = FirstEnd /\ t' = in[1]
              ELSE pc' = "decompress" /\ t' = in[FirstEnd + 1] /\ pos' = FirstEnd + 1
  /\ UNCHANGED <<src, compressor, in, err>>

Empty == pc = "first" /\ in = <<>> /\ Stop

(* How many bytes from p on are 0. *)
ZeroRun(p) ==
  CHOOSE n \in 0..Len(in) : /\ \A k \in 1..n : p + k <= Len(in) /\ in[p + k] = 0
                            /\ ~(p + n + 1 <= Len(in) /\ in[p + n + 1] = 0)

(* A length that is in the low bits of t, or goes on at pos if they are 0: *)
(* the length, and where the block goes on.                                *)
Length(bits) ==
  IF t % bits # 0 THEN [len |-> t % bits, pos |-> pos]
    ELSE LET p == pos + ZeroRun(pos)
         IN [len |-> (255 * ZeroRun(pos)) + (bits - 1) + (IF p < Len(in) THEN in[p + 1] ELSE 0),
             pos |-> p + 1]

(* o, and n bytes more, each the one dist bytes before it.                 *)
Copied(o, dist, n) ==
  o \o [i \in 1..n |-> o[Len(o) - dist + 1 + ((i - 1) % dist)]]

Offset14(p) == (in[p + 1] + (in[p + 2] * 256)) \div 4

(* The match the instruction t stands for: its distance, its length and    *)
(* where it ends.  A distance of 0: there is none, the block ends.         *)
None == [dist |-> 0, len |-> 0, pos |-> pos]

Behind(l, far) ==
  IF l.pos + 1 < Len(in) THEN [dist |-> Offset14(l.pos) + far, len |-> l.len + 2, pos |-> l.pos + 2]
    ELSE None

MatchRead ==
  CASE t >= 64 /\ pos < Len(in) ->
         [dist |-> ((t \div 32) * 256) + in[pos + 1] + 1, len |-> 2 + ((t \div 4) % 8), pos |-> pos + 1]
    [] t \in 32..63 -> Behind(Length(32), 1)
    [] t \in 16..31 -> IF Behind(Length(8), 0).dist = 0 THEN None ELSE Behind(Length(8), 16384)
    [] t < 16 /\ pos < Len(in) ->
         [dist |-> ((t \div 4) * 256) + in[pos + 1] + 1, len |-> 2, pos |-> pos + 1]
    [] OTHER -> None

CanCopy == MatchRead.dist \in 1..Len(out)

(* The literals behind a match: where their count ends, and where they do. *)
LiteralsRead(p) ==
  LET next == in[p + 1]
      z    == ZeroRun(p + 1)
  IN CASE next >= 16 -> [from |-> p, to |-> p]
       [] next \in 1..15 -> [from |-> p + 1, to |-> Lesser(p + 1 + next, Len(in))]
       [] next = 0 /\ p + 1 + z < Len(in) ->
            [from |-> p + z + 2, to |-> Lesser(p + z + 2 + in[p + z + 2] + 18, Len(in))]
       [] OTHER -> [from |-> Len(in), to |-> Len(in)]

Decode ==
  /\ pc = "decompress" /\ CanCopy
  /\ LET m == MatchRead
         o == Copied(out, m.dist, m.len)
     IN IF m.pos >= Len(in)
          THEN Finish /\ out' = o /\ pos' = m.pos /\ t' = t
          ELSE LET l == LiteralsRead(m.pos)
               IN /\ out' = o \o SubSeq(in, l.from + 1, l.to)
                  /\ IF l.to >= Len(in)
                       THEN Finish /\ pos' = Len(in) /\ t' = t
                       ELSE pos' = l.to + 1 /\ t' = in[l.to + 1] /\ UNCHANGED <<pc, err>>
  /\ UNCHANGED <<src, compressor, in>>

(* The end marker, or an instruction that cannot be followed. *)
End == pc = "decompress" /\ ~CanCopy /\ Stop

Next == \/ CompressShort \/ NoMatch \/ Match \/ LastLiterals \/ Deliver
        \/ First \/ Empty \/ Decode \/ End
        \/ pc = "done" /\ UNCHANGED vars

Spec == Init /\ [][Next]_vars

-----------------------------------------------------------------------------
(* The variables have their types: what is written are bytes. *)
TypeOK ==
  /\ src \in Inputs
  /\ pc \in {"compress", "compressed", "first", "decompress", "done"}
  /\ hashTable \in [0..HashSize - 1 -> -1..Len(src)]
  /\ ip \in 0..Len(src) /\ litStart \in 0..ip
  /\ dst \in Seq(Byte) /\ in \in Seq(Byte)
  /\ pos \in 0..Len(in)
  /\ t \in Byte
  /\ out \in Seq(Byte)
  /\ err = FALSE

(* Data of at most 13 bytes is one run of literals, and reads back.        *)
ShortRoundTrip == pc = "done" /\ in = dst /\ TooShort => out = src
=============================================================================
