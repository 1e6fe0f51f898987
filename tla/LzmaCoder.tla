----------------------------- MODULE LzmaCoder -----------------------------
(***************************************************************************)
(* LZMA's range coder.  rangeDecoder and the trees that lzmaDecoder reads  *)
(* with it (xz_decompress.go), and an encoder as the format has it.  A     *)
(* probability is kept under the array it is in, the row and the place.    *)
(* The range has RangeBytes bytes, four in the code.                       *)
(***************************************************************************)
EXTENDS Integers, Sequences, SequencesExt

CONSTANT RangeBytes

Top == 256^(RangeBytes - 1)

Full == (256 * Top) - 1

(* Probabilities that were never used are 1024 of 2048. *)
Probability(probs, key) == IF key \in DOMAIN probs THEN probs[key] ELSE 1024

WithProbability(probs, key, p) ==
  [k \in DOMAIN probs \cup {key} |-> IF k = key THEN p ELSE probs[k]]

Rarer(p) == p - (p \div 32)

Likelier(p) == p + ((2048 - p) \div 32)

-----------------------------------------------------------------------------
(* A decoder: the range, the code, the bytes left, the probabilities;      *)
(*   m:    the bits of the symbol so far                                   *)
(*   same: they are those of the byte at the last distance                 *)
(*   ok:   no byte was missing                                             *)
CodeOf(bytes) == FoldLeft(LAMBDA v, b : (256 * v) + b, 0, bytes)

(* newRangeDecoder *)
Initial(bytes) ==
  [rng |-> Full, code |-> CodeOf(SubSeq(bytes, 2, 1 + RangeBytes)),
   rest |-> SubSeq(bytes, 2 + RangeBytes, Len(bytes)),
   probs |-> <<>>, m |-> 0, same |-> FALSE, ok |-> TRUE]

CanBegin(bytes) ==
  /\ Len(bytes) >= 1 + RangeBytes
  /\ bytes[1] = 0
  /\ CodeOf(SubSeq(bytes, 2, 1 + RangeBytes)) # Full

Normalized(s) ==
  IF s.rng >= Top \/ ~s.ok THEN s
    ELSE IF s.rest = <<>> THEN [s EXCEPT !.ok = FALSE]
    ELSE [s EXCEPT !.rng = 256 * @, !.code = (256 * @) + Head(s.rest), !.rest = Tail(@)]

Decided(s, key, p, bound) ==
  IF s.code < bound
    THEN [s EXCEPT !.rng = bound, !.m = 2 * @, !.probs = WithProbability(@, key, Likelier(p))]
    ELSE [s EXCEPT !.rng = @ - bound, !.code = @ - bound, !.m = (2 * @) + 1,
                   !.probs = WithProbability(@, key, Rarer(p))]

AtProbability(s, key, p) ==
  IF s.ok THEN Decided(s, key, p, (s.rng \div 2048) * p) ELSE s

(* decodeBit; the bit goes behind those of the symbol. *)
DecodeBit(s, key) == AtProbability(Normalized(s), key, Probability(s.probs, key))

One(s, key) == DecodeBit([s EXCEPT !.m = 0], key)

(* decodeDirect, a bit of it. *)
Halved(s) ==
  LET half == s.rng \div 2
  IN IF s.code >= half
       THEN [s EXCEPT !.rng = half, !.code = @ - half, !.m = (2 * @) + 1]
       ELSE [s EXCEPT !.rng = half, !.m = 2 * @]

Count(n) == [i \in 1..n |-> i]

DecodeDirect(s, n) ==
  FoldLeft(LAMBDA r, i : Halved(Normalized(r)), [s EXCEPT !.m = 0], Count(n))

(* decodeBitTree: the symbol is m without its first bit, which is 1. *)
DecodeTree(s, array, row, base, n) ==
  FoldLeft(LAMBDA r, i : DecodeBit(r, <<array, row, base + r.m>>), [s EXCEPT !.m = 1], Count(n))

Symbol(s, n) == s.m - 2^n

(* What has the n bits of v in the reverse order. *)
Reversed(v, n) ==
  FoldLeft(LAMBDA r, i : (2 * r) + ((v \div 2^(i - 1)) % 2), 0, Count(n))

(* lzmaLenDecoder: of the three lengths, the tree and what comes before.   *)
LengthRead(s, tree, row, n, before) ==
  LET r == DecodeTree(s, tree, row, 0, n) IN [r EXCEPT !.m = before + Symbol(r, n)]

SecondChoice(s, name, row) ==
  IF s.m = 0 THEN LengthRead(s, name \o "Mid", row, 3, 8)
    ELSE LengthRead(s, name \o "High", 0, 8, 16)

FirstChoice(s, name, row) ==
  IF s.m = 0 THEN LengthRead(s, name \o "Low", row, 3, 0)
    ELSE SecondChoice(One(s, <<name \o "Choice", 0, 2>>), name, row)

DecodeLength(s, name, row) == FirstChoice(One(s, <<name \o "Choice", 0, 1>>), name, row)

-----------------------------------------------------------------------------
(* An encoder: the lower end and the width of the range, and the bytes     *)
(* that lie before it, to which there may be a carry.                      *)
Fresh == [low |-> 0, rng |-> Full, bytes |-> <<0>>, probs |-> <<>>]

Carried(bytes) ==
  LET k == CHOOSE k \in DOMAIN bytes : bytes[k] # 255 /\ \A j \in k + 1..Len(bytes) : bytes[j] = 255
  IN [j \in DOMAIN bytes |-> IF j < k THEN bytes[j] ELSE IF j = k THEN bytes[j] + 1 ELSE 0]

Raised(e, by) ==
  IF e.low + by <= Full THEN [e EXCEPT !.low = @ + by]
    ELSE [e EXCEPT !.low = @ + by - Full - 1, !.bytes = Carried(@)]

Shifted(e) ==
  IF e.rng >= Top THEN e
    ELSE [e EXCEPT !.rng = 256 * @, !.bytes = Append(@, e.low \div Top), !.low = 256 * (@ % Top)]

EncodeBit(e, key, bit) ==
  LET p == Probability(e.probs, key)
      bound == (e.rng \div 2048) * p
  IN IF bit = 0
       THEN Shifted([e EXCEPT !.rng = bound, !.probs = WithProbability(@, key, Likelier(p))])
       ELSE Shifted([Raised(e, bound) EXCEPT !.rng = @ - bound,
                                             !.probs = WithProbability(@, key, Rarer(p))])

EncodeHalf(e, bit) ==
  LET half == e.rng \div 2
  IN Shifted([Raised(e, bit * half) EXCEPT !.rng = half])

(* A decision is [key, bit]; one of even chances has no key.               *)
Encode(e, d) ==
  IF d.key = <<>> THEN EncodeHalf(e, d.bit) ELSE EncodeBit(e, d.key, d.bit)

Flushed(e) ==
  e.bytes \o [i \in 1..RangeBytes |-> (e.low \div 256^(RangeBytes - i)) % 256]

-----------------------------------------------------------------------------
Bit(array, row, place, bit) == <<[key |-> <<array, row, place>>, bit |-> bit]>>

TreeBits(array, row, v, n) ==
  [i \in 1..n |->
     [key |-> <<array, row, (2^n + v) \div 2^(n + 1 - i)>>, bit |-> (v \div 2^(n - i)) % 2]]

ReverseBits(array, base, v, n) ==
  [i \in 1..n |->
     [key |-> <<array, 0, base + 2^(i - 1) + Reversed(v, i - 1)>>, bit |-> (v \div 2^(i - 1)) % 2]]

DirectBits(v, n) == [i \in 1..n |-> [key |-> <<>>, bit |-> (v \div 2^(n - i)) % 2]]

LengthBits(name, row, v) ==
  CASE v < 8      -> Bit(name \o "Choice", 0, 1, 0) \o TreeBits(name \o "Low", row, v, 3)
    [] v \in 8..15 -> Bit(name \o "Choice", 0, 1, 1) \o Bit(name \o "Choice", 0, 2, 0)
                   \o TreeBits(name \o "Mid", row, v - 8, 3)
    [] OTHER      -> Bit(name \o "Choice", 0, 1, 1) \o Bit(name \o "Choice", 0, 2, 1)
                   \o TreeBits(name \o "High", 0, v - 16, 8)
=============================================================================
