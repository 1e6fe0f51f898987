------------------------------ MODULE Lz4Block ------------------------------
(***************************************************************************)
(* Lz4BlockCompress (lz4_compress.go) and lz4BlockDecompress               *)
(* (lz4_decompress.go): a block is a sequence of literals and matches.     *)
(* Lengths begin in half a byte of a token and go on in whole bytes.  The  *)
(* decompressor may be given a block that was cut short or damaged.        *)
(***************************************************************************)
EXTENDS Integers, Sequences, SequencesExt

CONSTANTS
  Nibble,    (* values of half a byte (16)                                  *)
  MinMatch,  (* lz4MinMatch (4)                                             *)
  HashSize,  (* lz4HashSize                                                 *)
  Inputs,    (* what is compressed: a set of sequences of bytes             *)
  Damage     (* what a byte of a block may be damaged to                    *)

Base     == Nibble * Nibble
Byte     == 0..Base - 1
Full     == Nibble - 1       \* 15 in a token: the length goes on
Continue == Base - 1         \* 255: and on
MaxDist  == (Base * Base) - 1

Lz4Assumption ==
  /\ Nibble \in Nat /\ Nibble >= 2
  /\ MinMatch \in Nat \ {0}
  /\ HashSize \in Nat \ {0}
  /\ Inputs \subseteq Seq(Byte)
  /\ Damage \subseteq Byte

VARIABLES
  src,       (* the data                                                    *)
  pc,        (* "compress", "compressed", "decompress", "done"              *)
  hashTable, (* hash -> the last position that had it, or -1                *)
  ip,        (* the compressor's position in src, from 0                    *)
  anchor,    (* where the literals begin that are not written yet           *)
  dst,       (* the block                                                   *)
  in,        (* the block as the decompressor gets it                       *)
  pos,       (* the decompressor's position in it, from 0                   *)
  out,       (* what it has decompressed                                    *)
  err        (* it returned an error                                        *)

vars == <<src, pc, hashTable, ip, anchor, dst, in, pos, out, err>>

compressor   == <<hashTable, ip, anchor, dst>>
decompressor == <<in, pos, out, err>>

Init ==
  /\ src \in Inputs
  /\ pc = "compress"
  /\ hashTable = [h \in 0..HashSize - 1 |-> -1]
  /\ ip = 0 /\ anchor = 0
  /\ dst = <<>>
  /\ in = <<>> /\ pos = 0 /\ out = <<>> /\ err = FALSE

-----------------------------------------------------------------------------
Lesser(m, n) == IF m <= n THEN m ELSE n

(* The bytes of src from one position up to another.                       *)
Bytes(from, to) == SubSeq(src, from + 1, to)

Word(p) == Bytes(p, p + MinMatch)

(* hash4.  Which positions collide does not matter: words are compared.    *)
Hash(w) == (w[1] + w[MinMatch]) % HashSize

Candidate == hashTable[Hash(Word(ip))]

Matches ==
  /\ Candidate >= 0
  /\ ip - Candidate <= MaxDist
  /\ Word(ip) = Word(Candidate)

(* A match is extended up to where it began, and no further: it overlaps   *)
(* itself only within its first MinMatch bytes.                            *)
MatchLen ==
  CHOOSE n \in MinMatch..Len(src) :
    LET Goes(m) == /\ ip + m < Len(src) /\ Candidate + m < ip
                   /\ src[ip + m + 1] = src[Candidate + m + 1]
    IN ~Goes(n) /\ \A m \in MinMatch..n - 1 : Goes(m)

(* Operators that end in Slip are what the one after them is tried with.   *)
TokenSlip(lit, match) == (lit * Nibble) + Lesser(match, Full)

Token(lit, match) == (Lesser(lit, Full) * Nibble) + Lesser(match, Full)

OverflowSlip(n) ==
  IF n <= Full THEN <<>>
    ELSE [k \in 1..(n - Full) \div Continue |-> Continue] \o <<(n - Full) % Continue>>

(* The bytes of a length that does not fit the token. *)
Overflow(n) ==
  IF n < Full THEN <<>>
    ELSE [k \in 1..(n - Full) \div Continue |-> Continue] \o <<(n - Full) % Continue>>

Literals(from, to) == Overflow(to - from) \o Bytes(from, to)

Sequence(from, to, offset, match) ==
  <<Token(to - from, match)>> \o Literals(from, to)
    \o <<offset % Base, (offset \div Base) % Base>> \o Overflow(match)

Searching == pc = "compress" /\ ip + MinMatch < Len(src)

Remember == hashTable' = [hashTable EXCEPT ![Hash(Word(ip))] = ip]

NoMatch ==
  /\ Searching /\ ~Matches
  /\ Remember
  /\ ip' = ip + 1
  /\ UNCHANGED <<src, pc, anchor, dst, decompressor>>

AnchorSlip == anchor' = anchor

Anchor == anchor' = ip'

Match ==
  /\ Searching /\ Matches
  /\ Remember
  /\ dst' = dst \o Sequence(anchor, ip, ip - Candidate, MatchLen - MinMatch)
  /\ ip' = ip + MatchLen
  /\ Anchor
  /\ UNCHANGED <<src, pc, decompressor>>

LastLiterals ==
  /\ pc = "compress" /\ ip + MinMatch >= Len(src)
  /\ dst' = IF anchor < Len(src)
              THEN dst \o <<Token(Len(src) - anchor, 0)>> \o Literals(anchor, Len(src))
              ELSE dst
  /\ pc' = "compressed"
  /\ UNCHANGED <<src, hashTable, ip, anchor, decompressor>>

(* The block is stored, and read back: whole, cut short, or with a byte    *)
(* that is wrong.                                                          *)
Deliver ==
  /\ pc = "compressed"
  /\ \/ \E n \in 0..Len(dst) : in' = SubSeq(dst, 1, n)
     \/ \E n \in DOMAIN dst, b \in Damage : in' = [dst EXCEPT ![n] = b]
  /\ pc' = "decompress"
  /\ UNCHANGED <<src, compressor, pos, out, err>>

-----------------------------------------------------------------------------
(* How many bytes from p on are 255. *)
Run(p) ==
  CHOOSE n \in 0..Len(in) : /\ \A k \in 1..n : p + k <= Len(in) /\ in[p + k] = Continue
                            /\ ~(p + n + 1 <= Len(in) /\ in[p + n + 1] = Continue)

(* A length that begins with half a byte and may go on at p: as much of it *)
(* as there is, and where it ends.                                         *)
ReadLength(p, half) ==
  IF half < Full THEN [len |-> half, pos |-> p]
    ELSE LET n == Run(p)
         IN IF p + n < Len(in)
              THEN [len |-> Full + (Continue * n) + in[p + n + 1], pos |-> p + n + 1]
              ELSE [len |-> Full + (Continue * n), pos |-> p + n]

(* The sequence at pos: its literals, as many as are there, and what is    *)
(* behind them.                                                            *)
Half    == in[pos + 1]
LitLen  == ReadLength(pos + 1, Half \div Nibble)
LitEnd  == Lesser(LitLen.pos + LitLen.len, Len(in))
WithLiterals == out \o SubSeq(in, LitLen.pos + 1, LitEnd)
Offset  == in[LitEnd + 1] + (in[LitEnd + 2] * Base)
MatchRead == ReadLength(LitEnd + 2, Half % Nibble)

CopiedSlip(o, offset, n) ==
  o \o SubSeq(o, Len(o) - offset + 1, Lesser(Len(o) - offset + n, Len(o)))

(* o, and n bytes more, each the one offset bytes before it.               *)
Copied(o, offset, n) ==
  o \o [i \in 1..n |-> o[Len(o) - offset + 1 + ((i - 1) % offset)]]

AtSequence == pc = "decompress" /\ pos < Len(in)

Finish(e) == pc' = "done" /\ err' = e

(* A block ends with literals, or is cut in the offset. *)
EndLiterals ==
  /\ AtSequence /\ LitEnd + 2 > Len(in)
  /\ out' = WithLiterals
  /\ Finish(FALSE)
  /\ UNCHANGED <<src, compressor, in, pos>>

BadOffset ==
  /\ AtSequence /\ LitEnd + 2 <= Len(in)
  /\ Offset = 0 \/ Offset > Len(WithLiterals)
  /\ Finish(TRUE)
  /\ UNCHANGED <<src, compressor, in, pos, out>>

CopyMatch ==
  /\ AtSequence /\ LitEnd + 2 <= Len(in)
  /\ Offset \in 1..Len(WithLiterals)
  /\ out' = Copied(WithLiterals, Offset, MatchRead.len + MinMatch)
  /\ pos' = MatchRead.pos
  /\ UNCHANGED <<src, pc, compressor, in, err>>

EndBlock ==
  /\ pc = "decompress" /\ pos >= Len(in)
  /\ Finish(FALSE)
  /\ UNCHANGED <<src, compressor, in, pos, out>>

Next == \/ NoMatch \/ Match \/ LastLiterals \/ Deliver
        \/ EndLiterals \/ BadOffset \/ CopyMatch \/ EndBlock
        \/ pc = "done" /\ UNCHANGED vars

Spec == Init /\ [][Next]_vars

-----------------------------------------------------------------------------
(* The variables have their types: what is written are bytes. *)
TypeOK ==
  /\ src \in Inputs
  /\ pc \in {"compress", "compressed", "decompress", "done"}
  /\ hashTable \in [0..HashSize - 1 -> -1..Len(src)]
  /\ ip \in 0..Len(src) /\ anchor \in 0..ip
  /\ dst \in Seq(Byte) /\ in \in Seq(Byte)
  /\ pos \in 0..Len(in)
  /\ out \in Seq(Byte)
  /\ err \in BOOLEAN

(* Compressing and decompressing gives the data back.                      *)
RoundTrip == pc = "done" /\ in = dst => out = src /\ ~err

(* A block that is cut short, in the middle of a length, an offset or the  *)
(* literals, still decompresses: to the beginning of the data, without an  *)
(* error (lz4_decompress.go:134, "Allow partial copy at end of stream").   *)
CutGivesPrefix == IsPrefix(in, dst) => IsPrefix(out, src) /\ ~err

(* A block is longer than its data by no more than a token, a byte, and a  *)
(* byte in 255 (lz4_compress.go:34, "Worst case: input + overhead").       *)
OverheadBounded ==
  Len(dst) <= Len(src) + (Len(src) \div Continue) + 2

(* "LZ4 requires last 5 bytes to be literals" (lz4_compress.go:117). *)
EndsInLiterals ==
  pc = "compressed" => anchor = 0 \/ Len(src) - anchor >= 5
=============================================================================
