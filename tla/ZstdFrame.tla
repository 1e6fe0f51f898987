----------------------------- MODULE ZstdFrame -----------------------------
(***************************************************************************)
(* ZstdCompress at the level the writer uses (zstd_compress.go) and        *)
(* ZstdReader, until io.ReadAll has its end or an error                    *)
(* (zstd_decompress.go).  The reader also gets what other encoders wrote,  *)
(* and streams that were cut short.                                        *)
(***************************************************************************)
EXTENDS ZstdBlock

CONSTANTS
  Inputs,    (* what is compressed: a set of sequences of bytes             *)
  Foreign,   (* what others wrote: a set of sequences of frames             *)
  HashSize,  (* 2^zcHashLog                                                 *)
  MaxBlock,  (* maxBlock (131072)                                           *)
  ReadSize,  (* how much fill reads at once (65536)                         *)
  Buffers    (* lengths of the buffers Read is given                        *)

ZstdAssumption ==
  /\ Inputs \subseteq Seq(0..255)
  /\ HashSize \in Nat \ {0}
  /\ MaxBlock \in Nat \ {0}
  /\ ReadSize \in Nat \ {0}
  /\ Buffers \subseteq Nat \ {0}

VARIABLES
  src,       (* the data, or what the stream of another encoder means       *)
  pc,        (* "compress", "compressed", "read", "done"                    *)
  hashTable, (* hash -> the last position in the block that had it, or -1   *)
  from,      (* where in src the block begins                               *)
  ip,        (* the search's position in src, from 0                        *)
  anchor,    (* where the literals begin that no sequence has yet           *)
  seqs,      (* the sequences found in the block                            *)
  class,     (* "exact", "mixed" or "foreign": see Exact                    *)
  dst,       (* the stream                                                  *)
  in,        (* the stream as the reader gets it                            *)
  pos,       (* how much of it is read                                      *)
  raw,       (* ZstdReader.rawBuf: read, and not yet decoded                *)
  buf,       (* ZstdReader.buf: decoded, and not yet read by the caller     *)
  out,       (* what the caller has                                         *)
  err        (* Read returned an error other than io.EOF                    *)

compressor == <<hashTable, from, ip, anchor, seqs, class, dst>>
reader     == <<in, pos, raw, buf, out, err>>
vars       == <<src, pc, compressor, reader>>

-----------------------------------------------------------------------------
Magic == <<40, 181, 47, 253>>

(* zstdMakeFCS: the descriptor and the length of the data. *)
FrameStart(n) ==
  Magic \o CASE n <= 255          -> <<32, n>>
             [] n \in 256..65791 -> <<96, (n - 256) % 256, (n - 256) \div 256>>
             [] OTHER             -> <<160>> \o [i \in 1..4 |-> (n \div 256^(i - 1)) % 256]

BlockStart(last, type, n) ==
  LET h == (IF last THEN 1 ELSE 0) + (2 * type) + (8 * n)
  IN <<h % 256, (h \div 256) % 256, h \div 65536>>

WholeBlock(last, type, body) == BlockStart(last, type, Len(body)) \o body

(* What another encoder may have written.  A frame is a header behind the  *)
(* magic, blocks and what may be a checksum.  Sequences have, besides the  *)
(* offset itself, the value it is coded as (RFC 8878); codes of a kind are *)
(* the same in a block.                                                    *)
WithSizes(sizes, tree) ==
  <<2 + (16 * (sizes % 16)), (sizes \div 16) % 256, sizes \div 4096>> \o tree

HuffmanCoded(bits, stream) ==        \* two symbols, a bit each
  WithSizes(Len(bits) + (1024 * (2 + Len(stream))), <<128, 16>> \o stream)

CodedLiterals(b) ==
  CASE b.coding = "raw"     -> RawCoded(b.lits)
    [] b.coding = "rle"     -> LiteralsHeader(1, Len(b.lits)) \o <<b.lits[1]>>
    [] b.coding = "huffman" -> HuffmanCoded(b.lits, Packed(b.lits))

CodedSequences(b) ==
  IF b.seqs = <<>> THEN <<0>>
    ELSE SequencesOf([i \in DOMAIN b.seqs |->
           [ll |-> Coded(b.seqs[i].lit, LLBits, LLBase), of |-> OffsetCoded(b.seqs[i].value),
            ml |-> Coded(b.seqs[i].len, MLBits, MLBase)]])

CodedBlock(b, last) ==
  CASE b.type = "raw"        -> WholeBlock(last, 0, b.data)
    [] b.type = "rle"        -> BlockStart(last, 1, b.n) \o <<b.byte>>
    [] b.type = "compressed" -> WholeBlock(last, 2, CodedLiterals(b) \o CodedSequences(b))

CodedFrame(f) ==
  Magic \o f.header
    \o FlattenSeq([i \in DOMAIN f.blocks |-> CodedBlock(f.blocks[i], i = Len(f.blocks))])
    \o f.check

BlockMeaning(o, b) ==
  CASE b.type = "raw"        -> o \o b.data
    [] b.type = "rle"        -> o \o [i \in 1..b.n |-> b.byte]
    [] b.type = "compressed" -> Executed(b.seqs, b.lits, o).out

Meaning(frames) ==
  FlattenSeq([i \in DOMAIN frames |-> FoldLeft(BlockMeaning, <<>>, frames[i].blocks)])

NoHash == [h \in 0..HashSize - 1 |-> -1]

Init ==
  /\ \/ /\ src \in Inputs
        /\ dst = FrameStart(Len(src))
        /\ pc = "compress" /\ class = "exact"
     \/ \E f \in Foreign :
          /\ src = Meaning(f)
          /\ dst = FlattenSeq([i \in DOMAIN f |-> CodedFrame(f[i])])
          /\ pc = "compressed" /\ class = "foreign"
  /\ hashTable = NoHash
  /\ from = 0 /\ ip = 0 /\ anchor = 0 /\ seqs = <<>>
  /\ in = <<>> /\ pos = 0 /\ raw = <<>> /\ buf = <<>> /\ out = <<>> /\ err = FALSE

-----------------------------------------------------------------------------
Lesser(m, n) == IF m <= n THEN m ELSE n

To    == Lesser(from + MaxBlock, Len(src))
Block == SubSeq(src, from + 1, To)

(* zcHash4.  Which words collide does not matter: matches are compared.    *)
Hash(p) == (src[p + 1] + (3 * src[p + 2]) + (5 * src[p + 3]) + (7 * src[p + 4])) % HashSize

Candidate == hashTable[Hash(ip)]

(* zcMatchLen: up to the block's end, and beyond where it began.           *)
MatchLen ==
  IF Candidate < 0 THEN 0
    ELSE CHOOSE n \in 0..To - ip :
           /\ \A m \in 1..n : src[ip + m] = src[Candidate + m]
           /\ ip + n = To \/ src[ip + n + 1] # src[Candidate + n + 1]

(* zstdRawFrame: so little data is not searched. *)
Direct ==
  /\ pc = "compress" /\ Len(src) <= 16
  /\ dst' = dst \o WholeBlock(TRUE, 0, src)
  /\ pc' = "compressed"
  /\ UNCHANGED <<src, hashTable, from, ip, anchor, seqs, class, reader>>

Searching == pc = "compress" /\ Len(src) > 16 /\ Len(Block) >= 8 /\ ip + 4 <= To

NoMatch ==
  /\ Searching /\ MatchLen < 4
  /\ hashTable' = [hashTable EXCEPT ![Hash(ip)] = ip]
  /\ ip' = ip + 1
  /\ UNCHANGED <<src, pc, from, anchor, seqs, class, dst, reader>>

(* The positions of a match that are remembered. *)
Passed(h) == {p \in ip..Lesser(ip + MatchLen - 1, To - 4) : Hash(p) = h}

Match ==
  /\ Searching /\ MatchLen >= 4
  /\ seqs' = Append(seqs, [lit |-> ip - anchor, off |-> ip - Candidate, len |-> MatchLen])
  /\ hashTable' = [h \in 0..HashSize - 1 |-> IF Passed(h) = {} THEN hashTable[h] ELSE Max(Passed(h))]
  /\ ip' = ip + MatchLen
  /\ anchor' = ip'
  /\ UNCHANGED <<src, pc, from, class, dst, reader>>

(* Codes that the decoder takes for what they are: one table entry of each *)
(* kind, and as many bits behind an offset's code as it stands for.        *)
Exact(coded) ==
  /\ \A k \in ToSet(Kinds) : Same(coded, k)
  /\ \A i \in DOMAIN coded : Len(coded[i].of.extra) = coded[i].of.code

(* Without sequences, or if it does not shrink, a block is stored. *)
Chosen(built) ==
  IF seqs # <<>> /\ Len(built) < Len(Block) THEN [type |-> 2, body |-> built]
    ELSE [type |-> 0, body |-> Block]

EndBlock ==
  /\ pc = "compress" /\ Len(src) > 16 /\ ~Searching
  /\ \E b \in {Chosen(BuildBlock(Block, seqs))} :
       /\ dst' = dst \o WholeBlock(To = Len(src), b.type, b.body)
       /\ class' = IF b.type = 2 /\ ~Exact(CodeAll(seqs)) THEN "mixed" ELSE class
  /\ pc' = IF To = Len(src) THEN "compressed" ELSE pc
  /\ from' = To /\ ip' = To /\ anchor' = To
  /\ seqs' = <<>> /\ hashTable' = NoHash
  /\ UNCHANGED <<src, reader>>

(* The stream is stored and read back: whole, or cut short. *)
Deliver ==
  /\ pc = "compressed"
  /\ \E n \in 0..Len(dst) : in' = SubSeq(dst, 1, n)
  /\ pc' = "read"
  /\ UNCHANGED <<src, compressor, pos, raw, buf, out, err>>

-----------------------------------------------------------------------------
(* How long a frame's header is: magic, descriptor, window, dictionary and *)
(* content size.                                                           *)
HeaderLength(d) ==
  LET single == (d \div 32) % 2
  IN 5 + (1 - single) + <<0, 1, 2, 4>>[(d % 4) + 1] + <<single, 2, 4, 8>>[(d \div 64) + 1]

BlockRead(type, n, body, done) ==
  CASE type = 0 -> [ok |-> TRUE, out |-> done \o body]
    [] type = 1 -> [ok |-> TRUE, out |-> done \o [i \in 1..n |-> body[1]]]
    [] type = 2 -> DecodeBlock(body, done)

(* The block at s.at, if all of it is there; h are the three bytes there.  *)
BlockAt(b, s, h) ==
  LET type == (h \div 2) % 4
      end  == s.at + 3 + (IF type = 1 THEN 1 ELSE h \div 8)
  IN IF type = 3 \/ end > Len(b) THEN Bad
       ELSE [at |-> end, last |-> h % 2 = 1]
              @@ BlockRead(type, h \div 8, SubSeq(b, s.at + 4, end), s.out)

NextBlock(b, s) ==
  IF s.at + 3 > Len(b) THEN Bad
    ELSE BlockAt(b, s, b[s.at + 1] + (256 * b[s.at + 2]) + (65536 * b[s.at + 3]))

Blocks(b, start) ==
  FoldLeft(LAMBDA s, i : IF ~s.ok \/ s.last THEN s ELSE NextBlock(b, s),
           start, [i \in 1..(Len(b) \div 3) |-> i])

(* What comes after the blocks: a checksum that is skipped, or not. *)
FrameEnd(b, blocks, sum) ==
  IF ~blocks.ok \/ ~blocks.last \/ blocks.at + sum > Len(b) THEN Bad
    ELSE [ok |-> TRUE, out |-> blocks.out, rest |-> SubSeq(b, blocks.at + sum + 1, Len(b))]

(* zstdDecodeFrame: the data of the frame that b begins with, behind what  *)
(* is decoded already, and the rest of b.                                  *)
DecodeFrame(b, done) ==
  IF Len(b) < 5 \/ ~IsPrefix(Magic, b) \/ HeaderLength(b[5]) > Len(b) THEN Bad
    ELSE FrameEnd(b, Blocks(b, [ok |-> TRUE, at |-> HeaderLength(b[5]), last |-> FALSE, out |-> done]),
                  4 * ((b[5] \div 4) % 2))

FrameMin == 9     \* no frame is shorter: magic, a header of 2, a block of 3

(* ZstdDecompress: all frames, each behind the output of those before it,  *)
(* or, if anything that is left is no frame, nothing.  Skippable frames    *)
(* are left out: no encoder here writes them.                              *)
ZstdDecompress(b) ==
  LET end == FoldLeft(LAMBDA s, i : IF ~s.ok \/ s.rest = <<>> THEN s ELSE DecodeFrame(s.rest, s.out),
                      [ok |-> TRUE, out |-> <<>>, rest |-> b], [i \in 1..(Len(b) \div FrameMin) + 1 |-> i])
  IN IF end.ok THEN [ok |-> TRUE, out |-> end.out] ELSE Bad

-----------------------------------------------------------------------------
AtEnd     == pos = Len(in)
Available == raw \o SubSeq(in, pos + 1, Lesser(pos + ReadSize, Len(in)))

Filling == pc = "read" /\ buf = <<>>

Advance == pos' = Lesser(pos + ReadSize, Len(in))

(* Operators that end in Slip are what the one after them is tried with.   *)
KeepRestSlip(frame) == raw' = <<>>

KeepRest(frame) == raw' = frame.rest

(* fill has a whole frame. *)
FillFrame(frame) ==
  /\ frame.ok
  /\ Advance
  /\ buf' = frame.out
  /\ KeepRest(frame)
  /\ UNCHANGED <<src, pc, compressor, in, out, err>>

FillMore(frame) ==
  /\ ~frame.ok /\ ~AtEnd
  /\ Advance
  /\ raw' = Available
  /\ UNCHANGED <<src, pc, compressor, in, buf, out, err>>

(* Nothing more to read: less than a magic number is no error.             *)
FillEnds(frame) ==
  /\ ~frame.ok /\ AtEnd
  /\ pc' = "done"
  /\ err' = (Len(raw) >= 4)
  /\ UNCHANGED <<src, compressor, in, pos, raw, buf, out>>

Fill ==
  /\ Filling
  /\ \E frame \in {DecodeFrame(Available, <<>>)} :
       FillFrame(frame) \/ FillMore(frame) \/ FillEnds(frame)

Read ==
  /\ pc = "read" /\ buf # <<>>
  /\ \E p \in Buffers :
       LET n == Lesser(p, Len(buf))
       IN out' = out \o SubSeq(buf, 1, n) /\ buf' = SubSeq(buf, n + 1, Len(buf))
  /\ UNCHANGED <<src, pc, compressor, in, pos, raw, err>>

Next == \/ Direct \/ NoMatch \/ Match \/ EndBlock \/ Deliver
        \/ Fill \/ Read
        \/ pc = "done" /\ UNCHANGED vars

Spec == Init /\ [][Next]_vars

-----------------------------------------------------------------------------
(* The variables have their types; the literals in front of the search are *)
(* in the block.                                                           *)
TypeOK ==
  /\ pc \in {"compress", "compressed", "read", "done"}
  /\ hashTable \in [0..HashSize - 1 -> -1..Len(src)]
  /\ from <= anchor /\ anchor <= ip /\ ip <= To
  /\ class \in {"exact", "mixed", "foreign"}
  /\ dst \in Seq(0..255) /\ in \in Seq(0..255)
  /\ pos \in 0..Len(in)
  /\ raw \in Seq(0..255) /\ buf \in Seq(0..255) /\ out \in Seq(0..255)
  /\ err \in BOOLEAN

(* Data whose blocks are stored, or have codes that are the same in all    *)
(* sequences and no place of an offset above the first, is read back       *)
(* (zstd_compress.go:5, "raw literals + RLE FSE tables").                  *)
ExactRoundTrip == pc = "done" /\ in = dst /\ class = "exact" => out = src /\ ~err

(* Frames of others whose literals are stored, one byte, or of two symbols *)
(* with a bit each, and whose sequences have one code of each kind and an  *)
(* offset history that begins with their block, are read to what they      *)
(* mean: offsets that are repeated with and without literals, a block of   *)
(* one byte, window, content size and checksum.  Other frames the decoder  *)
(* takes for something else: predefined tables, longer Huffman codes, and  *)
(* offsets repeated from the block before (zstd_decompress.go:960, 635,    *)
(* 986).                                                                   *)
ForeignIsRead == pc = "done" /\ in = dst /\ class = "foreign" => out = src /\ ~err

(* The frames of a stream, each by itself, up to what is no whole frame.   *)
WithFrame(s, frame) == IF frame.ok THEN [out |-> s.out \o frame.out, rest |-> frame.rest] ELSE s

WholeFrames(b) ==
  FoldLeft(LAMBDA s, i : WithFrame(s, DecodeFrame(s.rest, <<>>)),
           [out |-> <<>>, rest |-> b], [i \in 1..(Len(b) \div FrameMin) |-> i])

(* However the stream is cut, into pieces or short, ZstdReader gives all   *)
(* its whole frames and nothing of one that is cut, and reports what is    *)
(* missing unless less than a magic number is left (zstd_decompress.go:    *)
(* 120).  A stream of whole frames ZstdDecompress, by which the writer     *)
(* judges a block, turns into the same; of one that is cut behind a frame  *)
(* it gives nothing (line 28).                                             *)
StreamedIsWhole ==
  pc = "done" =>
    \E whole \in {WholeFrames(in)} :
      /\ out = whole.out
      /\ err <=> Len(whole.rest) >= 4
      /\ whole.rest = <<>> => ZstdDecompress(in) = [ok |-> TRUE, out |-> out]
=============================================================================
