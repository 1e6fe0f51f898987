------------------------------ MODULE ZstdBlock ------------------------------
(***************************************************************************)
(* The blocks of a zstd frame: zstdBuildBlock (zstd_compress.go) writes    *)
(* literals and sequences [lit, off, len], zstdDecodeCompressedBlock       *)
(* (zstd_decompress.go) executes them.  Kinds of codes are "ll", "of" and  *)
(* "ml", for literal lengths, offsets and match lengths.                   *)
(***************************************************************************)
EXTENDS ZstdEntropy

Kinds == <<"ll", "of", "ml">>

LLBits ==
  [c \in 0..35 |-> IF c < 16 THEN 0
                     ELSE <<1, 1, 1, 1, 2, 2, 3, 3, 4, 6, 7, 8, 9, 10, 11, 12, 13, 14, 15, 16>>[c - 15]]

MLBits ==
  [c \in 0..52 |-> IF c < 32 THEN 0
                     ELSE <<1, 1, 1, 1, 2, 2, 3, 3, 4, 4, 5, 7, 8, 9, 10, 11, 12, 13, 14, 15, 16>>[c - 31]]

(* The least length with each code: codes leave no gap.                    *)
Baselines(bits, least) ==
  LET base[c \in DOMAIN bits] == IF c = 0 THEN least ELSE base[c - 1] + 2^bits[c - 1]
  IN base

LLBase == Baselines(LLBits, 0)
MLBase == Baselines(MLBits, 3)

LLProbs == <<4, 3, 2, 2, 2, 2, 2, 2, 2, 2, 2, 2, 2, 1, 1, 1, 2, 2, 2, 2, 2, 2, 2, 2, 2, 3, 2>>
             \o [i \in 1..5 |-> 1] \o [i \in 1..4 |-> -1]
OFProbs == [i \in 1..6 |-> 1] \o <<2, 2, 2>> \o [i \in 1..15 |-> 1] \o [i \in 1..5 |-> -1]
MLProbs == <<1, 4, 3, 2, 2, 2, 2, 2, 2>> \o [i \in 1..37 |-> 1] \o [i \in 1..7 |-> -1]

-----------------------------------------------------------------------------
(* Operators that end in Slip are what the one after them is tried with.   *)
CodedSlip(n, bits, base) ==
  LET c == CHOOSE c \in DOMAIN bits : /\ base[c] <= n
                                      /\ c + 1 \in DOMAIN bits => n <= base[c + 1]
  IN [code |-> c, extra |-> BitsOf(n - base[c], bits[c])]

(* A length's code, and the bits behind it (zcLLCode, zcMLCode).           *)
Coded(n, bits, base) ==
  LET c == CHOOSE c \in DOMAIN bits : /\ base[c] <= n
                                      /\ c + 1 \in DOMAIN bits => n < base[c + 1]
  IN [code |-> c, extra |-> BitsOf(n - base[c], bits[c])]

(* zcOFCode *)
OffsetCoded(v) == [code |-> HighBit(v), extra |-> BitsOf(v, HighBit(v))]

(* A sequence, coded behind others: an offset of the history is coded as   *)
(* its place in it, unless there are no literals.                          *)
CodeNext(s, q) ==
  LET at    == {j \in 1..3 : s.hist[j] = q.off}
      again == at # {} /\ q.lit > 0
  IN [hist  |-> <<q.off>> \o (IF again THEN RemoveAt(s.hist, Min(at)) ELSE SubSeq(s.hist, 1, 2)),
      coded |-> Append(s.coded,
                  [ll |-> Coded(q.lit, LLBits, LLBase),
                   of |-> IF again THEN [code |-> Min(at) - 1, extra |-> <<>>]
                            ELSE OffsetCoded(q.off + 3),
                   ml |-> Coded(q.len, MLBits, MLBase)])]

CodeAll(seqs) == FoldLeft(CodeNext, [hist |-> <<1, 4, 8>>, coded |-> <<>>], seqs).coded

(* A kind of codes that is the same in all sequences is written once.      *)
Same(coded, k) == \A i \in DOMAIN coded : coded[i][k].code = coded[1][k].code

EncoderTable ==
  [ll |-> Table(LLProbs, 6), of |-> Table(OFProbs, 5), ml |-> Table(MLProbs, 6)]

State(t, coded, i, k) == FindState(t[k], coded[i][k].code)

FirstStates(t, coded) ==
  FlattenSeq([n \in 1..3 |-> IF Same(coded, Kinds[n]) THEN <<>>
                ELSE BitsOf(State(t, coded, 1, Kinds[n]), t[Kinds[n]].log)])

Extras(c) == c.of.extra \o c.ml.extra \o c.ll.extra

Transition(table, from, to) == BitsOf(to - table.next[from], table.nb[from])

Update(t, coded, i, k) ==
  IF Same(coded, k) THEN <<>>
    ELSE Transition(t[k], State(t, coded, i, k), State(t, coded, i + 1, k))

Updates(t, coded, i) ==
  IF i = Len(coded) THEN <<>>
    ELSE FlattenSeq([n \in 1..3 |-> Update(t, coded, i, <<"ll", "ml", "of">>[n])])

Bitstream(t, coded) ==
  FirstStates(t, coded)
    \o FlattenSeq([i \in DOMAIN coded |-> Extras(coded[i]) \o Updates(t, coded, i)])

Count(n) ==
  CASE n < 128           -> <<n>>
    [] n \in 128..32511 -> <<(n \div 256) + 128, n % 256>>
    [] OTHER             -> <<255, (n - 32512) % 256, (n - 32512) \div 256>>

Mode(coded, k) == IF Same(coded, k) THEN 1 ELSE 0

SequencesOf(coded) ==
  Count(Len(coded))
    \o <<(64 * Mode(coded, "ll")) + (16 * Mode(coded, "of")) + (4 * Mode(coded, "ml"))>>
    \o FlattenSeq([n \in 1..3 |-> IF Same(coded, Kinds[n]) THEN <<coded[1][Kinds[n]].code>> ELSE <<>>])
    \o Packed(Bitstream(EncoderTable, coded))

(* The length of the literals, in front of them; type is 0 for raw ones    *)
(* (zcRawLiterals), 1 for one byte over and over.                          *)
LiteralsHeader(type, n) ==
  CASE n < 32         -> <<type + (8 * n)>>
    [] n \in 32..4095 -> <<type + 4 + (16 * (n % 16)), n \div 16>>
    [] OTHER          -> <<type + 12 + (16 * (n % 16)), (n \div 16) % 256, n \div 4096>>

(* The bytes of data that no sequence copies.                              *)
LiteralBytes(data, seqs) ==
  LET s == FoldLeft(LAMBDA r, q : [at   |-> r.at + q.lit + q.len,
                                   lits |-> r.lits \o SubSeq(data, r.at + 1, r.at + q.lit)],
                    [at |-> 0, lits |-> <<>>], seqs)
  IN s.lits \o SubSeq(data, s.at + 1, Len(data))

RawCoded(lits) == LiteralsHeader(0, Len(lits)) \o lits

BuildBlock(data, seqs) == RawCoded(LiteralBytes(data, seqs)) \o SequencesOf(CodeAll(seqs))

-----------------------------------------------------------------------------
Bad == [ok |-> FALSE]

(* The header of raw literals and of one byte over and over.               *)
Sized(b) ==
  LET format == (b[1] \div 4) % 4
      bytes  == CASE format = 1 -> 2 [] format = 3 -> 3 [] OTHER -> 1
  IN IF Len(b) < bytes THEN Bad
       ELSE [ok |-> TRUE, header |-> bytes,
             size |-> CASE bytes = 1 -> b[1] \div 8
                        [] bytes = 2 -> (b[1] \div 16) + (16 * b[2])
                        [] OTHER     -> (b[1] \div 16) + (16 * b[2]) + (4096 * b[3])]

RawLiterals(b) ==
  LET h == Sized(b)
  IN IF ~h.ok \/ h.header + h.size > Len(b) THEN Bad
       ELSE [ok |-> TRUE, lits |-> SubSeq(b, h.header + 1, h.header + h.size),
             end |-> h.header + h.size]

RepeatedLiteral(b) ==
  LET h == Sized(b)
  IN IF ~h.ok \/ h.header >= Len(b) THEN Bad
       ELSE [ok |-> TRUE, lits |-> [i \in 1..h.size |-> b[h.header + 1]], end |-> h.header + 1]

(* Weights in half bytes, and one stream (zstdDecodeCompressedLiterals,    *)
(* zstdDecodeHuffmanTree).  Weights that are compressed themselves and     *)
(* four streams are left out: b has neither.                               *)
Weights(tree) ==
  [i \in 1..tree[1] - 127 |->
     IF i % 2 = 1 THEN tree[1 + ((i + 1) \div 2)] \div 16 ELSE tree[1 + (i \div 2)] % 16]

HuffmanLiterals(b) ==
  LET sizes   == (b[1] \div 16) + (16 * b[2]) + (4096 * b[3])
      end     == 3 + ((sizes \div 1024) % 1024)
      tree    == SubSeq(b, 4, end)
      weights == Weights(tree)
      stream  == SubSeq(tree, 2 + ((Len(weights) + 1) \div 2), Len(tree))
  IN IF Len(b) < 3 \/ end > Len(b) \/ tree = <<>> THEN Bad
       ELSE IF ~HuffmanOk(weights) \/ ~HasSentinel(stream) THEN Bad
       ELSE [end |-> end]
              @@ Decoded(HuffmanCodes(weights), MaxBits(weights), Stream(stream), sizes % 1024)

Literals(b) ==
  CASE b[1] % 4 = 0 -> RawLiterals(b)
    [] b[1] % 4 = 1 -> RepeatedLiteral(b)
    [] OTHER        -> HuffmanLiterals(b)

-----------------------------------------------------------------------------
DecoderTable ==
  [ll |-> Table(LLProbs, 9), of |-> Table(OFProbs, 8), ml |-> Table(MLProbs, 9)]

HistorySlip(hist, v, lit) ==
  IF v > 3 THEN <<v - 3, hist[1], hist[2]>>
    ELSE LET j == v IN <<hist[j]>> \o RemoveAt(hist, j)

(* The last three offsets after one of value v: a new one, one of the      *)
(* three, or, without literals, the one after it or one less.              *)
History(hist, v, lit) ==
  IF v > 3 THEN <<v - 3, hist[1], hist[2]>>
    ELSE LET j == IF lit > 0 THEN v ELSE v + 1
         IN IF j = 4 THEN <<IF hist[1] > 1 THEN hist[1] - 1 ELSE 1, hist[1], hist[2]>>
              ELSE <<hist[j]>> \o RemoveAt(hist, j)

(* One sequence: its codes are those of the three states, its extra bits   *)
(* come in the order offset, match, literals, those of the next states in  *)
(* the order literals, match, offset.                                      *)
ReadSequence(tables, bits, s, last) ==
  LET c    == [k \in ToSet(Kinds) |-> tables[k].sym[s.state[k]]]
      atMl == s.at + c.of
      atLl == atMl + MLBits[c.ml]
      atUp == atLl + LLBits[c.ll]
      lit  == LLBase[c.ll] + Peek(bits, atLl, LLBits[c.ll])
      hist == History(s.hist, 2^c.of + Peek(bits, s.at, c.of), lit)
      nb   == [k \in ToSet(Kinds) |-> tables[k].nb[s.state[k]]]
      at   == [ll |-> atUp, ml |-> atUp + nb.ll, of |-> atUp + nb.ll + nb.ml]
  IN [hist  |-> hist,
      seqs  |-> Append(s.seqs, [lit |-> lit, off |-> hist[1],
                                len |-> MLBase[c.ml] + Peek(bits, atMl, MLBits[c.ml])]),
      at    |-> IF last THEN atUp ELSE at.of + nb.of,
      state |-> IF last THEN s.state
                  ELSE [k \in ToSet(Kinds) |-> tables[k].next[s.state[k]] + Peek(bits, at[k], nb[k])]]

ReadSequences(tables, bits, n) ==
  LET log  == [k \in ToSet(Kinds) |-> tables[k].log]
      at   == [ll |-> 0, of |-> log.ll, ml |-> log.ll + log.of]
      first == [hist |-> <<1, 4, 8>>, seqs |-> <<>>, at |-> at.ml + log.ml,
                state |-> [k \in ToSet(Kinds) |-> Peek(bits, at[k], log[k])]]
  IN FoldLeft(LAMBDA s, i : ReadSequence(tables, bits, s, i = n), first, [i \in 1..n |-> i]).seqs

(* out, and len bytes more, each the one off bytes before it.              *)
Copied(out, off, len) ==
  out \o [i \in 1..len |-> out[Len(out) - off + 1 + ((i - 1) % off)]]

Execute(s, q) ==
  LET out == s.out \o SubSeq(s.lits, 1, q.lit)
  IN IF ~s.ok \/ q.lit > Len(s.lits) \/ q.off > Len(out) THEN [s EXCEPT !.ok = FALSE]
       ELSE [ok |-> TRUE, lits |-> SubSeq(s.lits, q.lit + 1, Len(s.lits)),
             out |-> Copied(out, q.off, q.len)]

WithLastLiterals(s) == IF s.ok THEN [ok |-> TRUE, out |-> s.out \o s.lits] ELSE Bad

Executed(seqs, lits, out) ==
  WithLastLiterals(FoldLeft(Execute, [ok |-> TRUE, lits |-> lits, out |-> out], seqs))

(* How many sequences there are, and in how many bytes that is written.    *)
CountOf(b) ==
  CASE b[1] < 128 -> [n |-> b[1], bytes |-> 1]
    [] b[1] = 255 -> [n |-> b[2] + (256 * b[3]) + 32512, bytes |-> 3]
    [] OTHER      -> [n |-> (256 * (b[1] - 128)) + b[2], bytes |-> 2]

(* Modes of the tables: predefined, one symbol, not readable here.  That   *)
(* a table is described in the block (mode 2) is left out: b has none.     *)
DecodeSequences(b, lits, out) ==
  LET count == CountOf(b)
      modes == b[count.bytes + 1]
      mode  == [ll |-> modes \div 64, of |-> (modes \div 16) % 4, ml |-> (modes \div 4) % 4]
      at    == [ll |-> count.bytes + 2, of |-> count.bytes + 2 + mode.ll,
                ml |-> count.bytes + 2 + mode.ll + mode.of]
      bits  == SubSeq(b, at.ml + mode.ml, Len(b))
      tables == [k \in ToSet(Kinds) |->
                   IF mode[k] = 0 THEN DecoderTable[k] ELSE OneSymbol(b[at[k]])]
  IN IF b = <<>> \/ b[1] = 0 THEN [ok |-> TRUE, out |-> out \o lits]
       ELSE IF \E k \in ToSet(Kinds) : mode[k] = 3 \/ ~HasSentinel(bits) THEN Bad
       ELSE Executed(ReadSequences(tables, Stream(bits), count.n), lits, out)

BehindLiterals(l, b, out) ==
  IF l.ok THEN DecodeSequences(SubSeq(b, l.end + 1, Len(b)), l.lits, out) ELSE Bad

DecodeBlock(b, out) == IF b = <<>> THEN Bad ELSE BehindLiterals(Literals(b), b, out)
=============================================================================
