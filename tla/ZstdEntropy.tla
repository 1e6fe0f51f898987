----------------------------- MODULE ZstdEntropy -----------------------------
(***************************************************************************)
(* What zstd_compress.go and zstd_decompress.go have in common below the   *)
(* level of a block: a bitstream that is read from its end, FSE tables and *)
(* Huffman codes.  Bits are in the order in which they are read.           *)
(***************************************************************************)
EXTENDS Integers, Sequences, SequencesExt

(* The n low bits of v, the highest first; of a negative v, as in the code,*)
(* those of its two's complement.                                          *)
BitsOf(v, n) == [i \in 1..n |-> (v \div 2^(n - i)) % 2]

NumberOf(bits) == FoldLeft(LAMBDA v, b : (2 * v) + b, 0, bits)

(* zstdHighBit *)
HighBit(v) == IF v = 0 THEN 0 ELSE CHOOSE n \in 0..32 : 2^n <= v /\ v < 2^(n + 1)

Power2(v) == v > 0 /\ v = 2^HighBit(v)

(* zcBitWriter.finishReverse: the last byte begins with the sentinel, and  *)
(* the first one ends with as many zeros as are missing.                   *)
Packed(bits) ==
  LET n   == (Len(bits) + 8) \div 8
      all == <<1>> \o bits \o [i \in 1..(8 * n) - Len(bits) - 1 |-> 0]
  IN [k \in 1..n |-> NumberOf(SubSeq(all, (8 * (n - k)) + 1, 8 * (n - k + 1)))]

(* initReverse fails without a sentinel. *)
HasSentinel(bytes) == bytes # <<>> /\ Last(bytes) # 0

(* The bits behind it. *)
Stream(bytes) ==
  BitsOf(Last(bytes), HighBit(Last(bytes)))
    \o FlattenSeq([k \in 1..Len(bytes) - 1 |-> BitsOf(bytes[Len(bytes) - k], 8)])

(* peekBits at a position: zero if less than n bits are left.              *)
Peek(bits, at, n) ==
  IF at + n > Len(bits) THEN 0 ELSE NumberOf(SubSeq(bits, at + 1, at + n))

-----------------------------------------------------------------------------
(* The symbols of a distribution, as often as they are in it: p > 0 is a   *)
(* number of states, -1 is one state at the table's end.                   *)
Rare(probs)   == SelectSeq([s \in DOMAIN probs |-> s - 1], LAMBDA s : probs[s + 1] = -1)
Common(probs) ==
  FlattenSeq([s \in DOMAIN probs |-> [i \in 1..Max({probs[s], 0}) |-> s - 1]])

(* The places below top, in the order in which they are filled.            *)
Places(size, top) ==
  LET step == (size \div 2) + (size \div 8) + 3
  IN SelectSeq([k \in 1..size |-> ((k - 1) * step) % size], LAMBDA p : p < top)

(* The symbol at each place; one that nothing is spread to has symbol 0.   *)
Filled(places, common, rare, size) ==
  LET At(p) == CHOOSE k \in DOMAIN places : places[k] = p
  IN [p \in 0..size - 1 |->
        CASE p >= Len(places) -> rare[size - p]
          [] p < Len(places) /\ At(p) <= Len(common) -> common[At(p)]
          [] OTHER -> 0]

Spread(probs, size) ==
  Filled(Places(size, size - Len(Rare(probs))), Common(probs), Rare(probs), size)

Weight(p) == IF p = -1 THEN 1 ELSE p

(* The states of a symbol are numbered from its weight on; a state leaves  *)
(* as many bits to read as take its number beyond the table's size.        *)
Numbered(sym, probs, log) ==
  LET Number(i) == Weight(probs[sym[i] + 1]) + Cardinality({j \in 0..i - 1 : sym[j] = sym[i]})
      nb == [i \in DOMAIN sym |-> log - HighBit(Number(i))]
  IN [log |-> log, sym |-> sym, nb |-> nb,
      next |-> [i \in DOMAIN sym |-> (Number(i) * 2^nb[i]) - 2^log]]

(* zcBuildPred and zstdBuildFSEFromProbs *)
Table(probs, log) == Numbered(Spread(probs, 2^log), probs, log)

(* zstdBuildRLEFSETable *)
OneSymbol(s) == [log |-> 0, sym |-> (0 :> s), nb |-> (0 :> 0), next |-> (0 :> 0)]

(* zcFindState: the first state of a symbol, or 0.                         *)
FindState(t, s) ==
  IF \E i \in DOMAIN t.sym : t.sym[i] = s
    THEN CHOOSE i \in DOMAIN t.sym : t.sym[i] = s /\ \A j \in 0..i - 1 : t.sym[j] # s
    ELSE 0

(* An FSE table: from the states of one symbol every state can be reached, *)
(* and by one choice of bits only.                                         *)
Tiles(t) ==
  LET size == 2^t.log
      After(i) == t.next[i]..t.next[i] + 2^t.nb[i] - 1
      States(s) == {i \in 0..size - 1 : t.sym[i] = s}
  IN \A s \in Range(t.sym) :
       /\ \A i, j \in States(s) : i # j => After(i) \cap After(j) = {}
       /\ UNION {After(i) : i \in States(s)} = 0..size - 1

-----------------------------------------------------------------------------
(* zstdBuildHuffmanTable.  The last weight is what is missing to a power   *)
(* of two; codes are given out from the shortest on.                       *)
WeightSum(weights) == FoldLeft(LAMBDA n, w : n + (IF w = 0 THEN 0 ELSE 2^(w - 1)), 0, weights)

MaxBits(weights) == HighBit(WeightSum(weights)) + 1

LastWeight(weights) == HighBit(2^MaxBits(weights) - WeightSum(weights)) + 1

HuffmanOk(weights) ==
  /\ Power2(2^MaxBits(weights) - WeightSum(weights))
  /\ MaxBits(weights) <= 11

HuffmanCodes(weights) ==
  LET all       == Append(weights, LastWeight(weights))
      symbols   == {s \in 0..Len(weights) : all[s + 1] > 0}
      Nb(s)     == MaxBits(weights) + 1 - all[s + 1]
      Before(s) == {r \in symbols : Nb(r) < Nb(s) \/ (Nb(r) = Nb(s) /\ r < s)}
  IN [s \in symbols |->
        BitsOf(MapThenSumSet(LAMBDA r : 2^(Nb(s) - Nb(r)), Before(s)), Nb(s))]

(* The table is indexed by the reversed code: a symbol is found where its  *)
(* code ends, backwards, what is peeked.                                   *)
SymbolFor(codes, window) == CHOOSE r \in DOMAIN codes : IsSuffix(Reverse(codes[r]), window)

DecodeSymbol(codes, maxBits, bits, s) ==
  LET sym == SymbolFor(codes, BitsOf(Peek(bits, s.at, maxBits), maxBits))
  IN IF s.at > Len(bits) THEN [s EXCEPT !.ok = FALSE]
       ELSE [s EXCEPT !.at = @ + Len(codes[sym]), !.lits = Append(@, sym)]

(* zstdHuffmanDecompress1Stream *)
Decoded(codes, maxBits, bits, n) ==
  FoldLeft(LAMBDA s, i : DecodeSymbol(codes, maxBits, bits, s),
           [ok |-> TRUE, at |-> 0, lits |-> <<>>], [i \in 1..n |-> i])
=============================================================================
