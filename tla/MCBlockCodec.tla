---------------------------- MODULE MCBlockCodec ----------------------------
(* Instances of BlockCodec for TLC: for lz4, bytes and tokens of two bits; *)
(* for lzo, bytes; for xz, chunks of two bytes and a dictionary of four;   *)
(* for zstd, blocks of 60 bytes, read by nine.                             *)
EXTENDS BlockCodec

Bits(n) == [1..n -> {0, 1}]

Numbers(n) == [i \in 1..n |-> i]

-----------------------------------------------------------------------------
(* A part that comes twice: long matches and their overflow bytes. *)
Twice(n) == {w \o w \o e : w \in Bits(n), e \in {<<1>>, <<0, 2, 3, 1, 2>>}}

(* Many literals, then a match within reach of an offset and out of it.    *)
Far == LET w == <<0, 1, 2, 3>>
           m == <<3, 3, 2, 2, 0, 0, 3, 1, 1, 3, 2, 0, 2>>
       IN {w \o SubSeq(m, 1, n) \o w \o <<1>> : n \in 5..Len(m)}

MCLz4Inputs == UNION {Bits(n) : n \in 0..9} \cup Twice(8) \cup Far
MCDamage == {0, 3}

(* Short data; matches with few literals and with many, long ones, and one *)
(* byte over and over.                                                     *)
MCLzoInputs ==
  UNION {Bits(n) : n \in 0..3} \cup Twice(7)
    \cup {Numbers(n) \o Numbers(n) : n \in {4, 6, 7, 20, 40}}
    \cup {[i \in 1..n |-> 7] : n \in {13, 14, 40}}

-----------------------------------------------------------------------------
MCXzInputs == UNION {Bits(n) : n \in 0..5}

Lit(b)     == [op |-> "literal", byte |-> b]
Mat(d)     == [op |-> "match", dist |-> d, len |-> 2]
Again(i,n) == [op |-> "rep", i |-> i, len |-> n]

Ops == {Lit(7), Again(1, 1), [op |-> "eos"]}
         \cup {Mat(d) : d \in {0, 1, 3, 4}} \cup {Again(i, 2) : i \in 1..4}

(* All of up to two operations, and two behind three distances.            *)
OpSeqs ==
  UNION {[1..n -> Ops] : n \in 0..2}
    \cup {<<Mat(1), Mat(2), Mat(3)>> \o o : o \in [1..2 -> Ops]}

Chunk(c, n, o) ==
  [unit |-> "lzma", control |-> c, props |-> "plain", size |-> n, ok |-> TRUE, ops |-> o]

MCHeader    == [unit |-> "header", ok |-> TRUE]
MCBlock     == [unit |-> "block", ok |-> TRUE]
MCEnd       == [unit |-> "end"]
Raw(r, b)   == [unit |-> "raw", reset |-> r, data |-> b]
Rest        == <<MCEnd, [unit |-> "check"], [unit |-> "index"]>>

(* Behind bytes that were stored, and that the ring has gone round. *)
AfterRaw(controls) ==
  {<<MCHeader, MCBlock, Raw(TRUE, Numbers(5)), Chunk(c, n, o), Raw(FALSE, <<5>>)>> \o Rest :
     c \in controls, n \in {2, 4, 10}, o \in OpSeqs}

(* A chunk behind another, which leaves a distance, and a second block.    *)
AfterLzma ==
  {<<MCHeader, MCBlock, Chunk("all", 5, <<Lit(1), Lit(2), Lit(3), Mat(1)>>), Chunk(c, 4, o),
     MCEnd, [unit |-> "check"], MCBlock, Raw(TRUE, <<9>>)>> \o Rest :
     c \in {"none", "all"}, o \in OpSeqs}

(* What only looks like a reset of the dictionary, what moves all that     *)
(* follows, and properties that there are none of.                         *)
Others ==
  {<<MCHeader, MCBlock, Raw(TRUE, Numbers(5)), [Chunk(c, 2, <<Mat(1)>>) EXCEPT !.props = p]>> \o Rest :
     c \in {"state", "props", "all"}, p \in {"plain", "context", "bad"}}

(* No properties, and damage that a checksum or the range coder's first    *)
(* byte shows.                                                             *)
Damaged ==
  {<<[MCHeader EXCEPT !.ok = FALSE], MCBlock>>,
   <<MCHeader, [MCBlock EXCEPT !.ok = FALSE], MCEnd>>,
   <<MCHeader, MCBlock, [Chunk("all", 1, <<Lit(1)>>) EXCEPT !.ok = FALSE], MCEnd>>,
   <<MCHeader, MCBlock, Chunk("none", 1, <<Lit(1)>>), MCEnd>>}

MCForeign == AfterRaw({"none", "all"}) \cup AfterLzma \cup Others \cup Damaged

MCStrict == AfterRaw({"props"})

MCMisread == {<<>>, <<7, 7>>}

-----------------------------------------------------------------------------
(* Plain LZMA.  Each pair of operations, once and three times over, behind *)
(* some that leave different distances; lengths and distances of each kind *)
(* of code; with several parameters of literals and positions.             *)
MatchOf(d, n) == [op |-> "match", dist |-> d, len |-> n]

Eos == [op |-> "eos"]

HeaderOf(lc, lp, pb, dict, size) ==
  [lc |-> lc, lp |-> lp, pb |-> pb, dict |-> dict, size |-> size]

Before == <<Lit(5), Lit(133), Lit(7), Lit(70), Lit(201), MatchOf(3, 2), MatchOf(1, 3), MatchOf(2, 2), MatchOf(4, 2)>>

LzmaOps ==
  {Lit(5), Lit(198), Again(1, 1)} \cup {MatchOf(0, 5), MatchOf(5, 17)} \cup {Again(i, 3) : i \in 1..4}

Literals == [i \in 1..12 |-> Lit((37 * i) % 256)]

(* Behind 48 bytes and 36 times n. *)
FarBehind(n) == Literals \o <<MatchOf(11, 36)>> \o [i \in 1..n |-> Again(1, 36)]

FarOps ==
  {FarBehind(5) \o <<MatchOf(d, 18), Lit(3), Eos>> : d \in {4, 7, 11, 100, 127, 128, 203}}
    \cup {FarBehind(6) \o <<MatchOf(255, 9), MatchOf(256, 2), Eos>>}
    \cup {Literals \o <<MatchOf(d, 2), Eos>> : d \in {11, 12}}

MCLzmaStreams ==
  {[header |-> h, ops |-> Before \o o] :
     h \in {HeaderOf(3, 0, 2, 64, 20), HeaderOf(0, 2, 0, 64, 17)}, o \in [1..2 -> LzmaOps]}
    \cup {[header |-> HeaderOf(3, 0, 2, 64, -1), ops |-> Before \o o \o o \o o \o <<Eos>>] :
            o \in [1..2 -> LzmaOps]}
    \cup {[header |-> HeaderOf(1, 1, 4, 256, -1), ops |-> o] : o \in FarOps}
    \cup {[header |-> HeaderOf(3, 0, pb, 0, 4), ops |-> <<Lit(1), Lit(2), Lit(3), Lit(4)>>] : pb \in {4, 5}}
    \cup {[header |-> HeaderOf(0, 0, 0, 0, -1),
             ops |-> [i \in 1..n |-> Lit(201)] \o <<MatchOf(0, 2), Lit(5), Lit(201), Eos>>] : n \in {1, 4}}
    \cup {[header |-> HeaderOf(3, 0, 2, 0, n), ops |-> <<Again(1, 1), Lit(4), Lit(5)>>] : n \in {0, 3}}
    \cup {[header |-> HeaderOf(3, 0, 2, 0, 2), ops |-> <<Again(2, 2), Lit(4), Lit(5)>>]}

-----------------------------------------------------------------------------
Cycle(k, n) == [i \in 1..n |-> i % k]

(* Three repetitions behind as many literals, each from a bit nearer; and  *)
(* three bytes, each over and over.                                        *)
Nearer ==
  FlattenSeq([k \in 1..3 |-> LET w == [i \in 1..12 |-> (12 * k) + i] IN w \o SubSeq(w, k, k + 5)])
Runs == FlattenSeq([k \in 1..3 |-> [i \in 1..7 |-> k]])

(* Two that have different codes, but for the offset. *)
Mixed(a, b) == Numbers(a) \o Numbers(b + 4) \o <<99>> \o Numbers(b)

(* Too little to search; nothing that repeats; repetitions with each of    *)
(* the first three offsets and with others; two blocks, a short one behind *)
(* a long one; several sequences, with the same codes and with different   *)
(* ones; and more bytes than a byte can count.                             *)
MCZstdInputs ==
  {Numbers(n) : n \in {0, 1, 16, 17}}
    \cup {Cycle(k, 32) : k \in {1, 3, 4, 5, 8}}
    \cup {Cycle(3, n) : n \in {65, 72, 90}}
    \cup {Nearer, Runs, Mixed(6, 6), Mixed(12, 4), Cycle(1, 300)}

Seqs(coding, lits, q) ==
  [type |-> "compressed", coding |-> coding, lits |-> lits, seqs |-> q]

S(lit, value, off, len) == [lit |-> lit, value |-> value, off |-> off, len |-> len]

Stored == [type |-> "raw", data |-> Numbers(10)]

OneFrame(header, blocks) == [header |-> header, blocks |-> blocks, check |-> <<>>]

(* Frames on which the decoder and the format agree.  With literals: the   *)
(* first, second and third offset, and new ones.                           *)
WithLits ==
  {<<S(1, 2, 4, 3), S(1, 2, 1, 3), S(1, 3, 8, 3), S(1, 3, 4, 3)>>,
   <<S(2, 1, 1, 5), S(2, 1, 1, 5)>>,
   <<S(1, 4, 1, 4), S(1, 7, 4, 4), S(1, 5, 2, 4)>>,
   <<S(1, 9, 6, 40), S(1, 12, 9, 39)>>}

(* Without: the second and third, and one less than the first.             *)
NoLits ==
  {<<S(0, 2, 8, 3), S(0, 3, 7, 3), S(0, 2, 1, 3), S(0, 2, 8, 3)>>,
   <<S(0, 1, 4, 6), S(0, 1, 1, 6), S(0, 1, 4, 6)>>,
   <<S(0, 4, 1, 4), S(0, 4, 1, 4), S(0, 6, 3, 4)>>}

MCZstdForeign ==
  {<<OneFrame(<<32, 0>>, <<Stored, Seqs("raw", Numbers(5), q)>>)>> : q \in WithLits \cup NoLits}
    \cup {<<[header |-> <<4, 8>>, blocks |-> <<[type |-> "rle", byte |-> 7, n |-> 9]>>,
             check |-> <<1, 2, 3, 4>>],
            OneFrame(<<129, 8, 1, 0, 0, 0, 0>>, <<Seqs(c, [i \in 1..n |-> 1], <<>>)>>)>> :
           c \in {"rle", "huffman"}, n \in {3, 33}}

-----------------------------------------------------------------------------
(* Two goroutines and tables of four entries; one and those of the encoder.*)
Small(p)   == [probs |-> p, log |-> 2, threads |-> 2]
Own(p, n)  == [probs |-> p, log |-> n, threads |-> 1]

MCCases ==
  {Small(<<2, 1, -1>>), Small(<<-1, 3>>)}
    \cup {Own(Zstd!LLProbs, 6), Own(Zstd!OFProbs, 5), Own(Zstd!MLProbs, 6)}
=============================================================================
