----------------------------- MODULE BlockCodec -----------------------------
(***************************************************************************)
(* Writer.compress (writer.go) and Reader.decompress (squashfs.go): the    *)
(* image's compressor is chosen once, and what one of them wrote the other *)
(* reads.  The writer keeps what it compressed only if it is shorter.      *)
(* "tables" is no compressor: it is the tables that all of zstd's writers  *)
(* share.                                                                  *)
(***************************************************************************)
EXTENDS Integers, Sequences, SequencesExt

CONSTANTS
  Codecs,                                (* the compressors that may be set *)
  Nibble, MinMatch, HashSize, Lz4Inputs, Damage,
  LzoInputs,
  XzInputs, Foreign, Misread, MaxChunk, DictSize,
  LzmaStreams, MinDict, RangeBytes,
  ZstdInputs, ZstdForeign, ZstdHashSize, MaxBlock, ReadSize, Buffers,
  Cases

VARIABLES
  codec,                                 (* SB.Compressor                   *)
  src, pc, dst, in, pos, out, err,       (* what all codecs have            *)
  hashTable, ip, anchor,                 (* lz4, lzo and zstd               *)
  t,                                     (* lzo                             *)
  buf,                                   (* xz, lzma and zstd               *)
  dec, limit,                            (* xz and lzma                     *)
  ops,                                   (* xz                              *)
  rc,                                    (* lzma                            *)
  from, seqs, class, raw,                (* zstd                            *)
  job, ready, symbols, numBits, newState, sym2state, thread, overlap   (* tables *)

lzVars == <<hashTable, ip, anchor>>
xzVars == <<dec, ops, limit>>
zstdVars == <<from, seqs, class, raw>>
predVars == <<job, ready, symbols, numBits, newState, sym2state, thread, overlap>>
common == <<src, pc, dst, in, pos, out, err>>
vars   == <<codec, common, lzVars, t, buf, xzVars, rc, zstdVars, predVars>>

Lz4 == INSTANCE Lz4Block WITH Inputs <- Lz4Inputs
Lzo == INSTANCE LzoBlock WITH Inputs <- LzoInputs, litStart <- anchor
Xz  == INSTANCE XzStream WITH Inputs <- XzInputs
Lzma == INSTANCE LzmaStream WITH Streams <- LzmaStreams
Zstd == INSTANCE ZstdFrame
          WITH Inputs <- ZstdInputs, Foreign <- ZstdForeign, HashSize <- ZstdHashSize
Tables == INSTANCE PredTables

ASSUME CodecAssumption ==
  /\ Codecs \subseteq {"lz4", "lzo", "xz", "lzma", "zstd", "tables"}
  /\ Lz4!Lz4Assumption
  /\ Lzo!LzoAssumption
  /\ Xz!XzAssumption
  /\ Lzma!LzmaAssumption
  /\ Zstd!ZstdAssumption
  /\ Tables!PredAssumption

NoLz   == hashTable = <<>> /\ ip = 0 /\ anchor = 0
NoBuf  == buf = <<>>
NoXz   == dec = 0 /\ ops = <<>> /\ limit = 0
NoLzma == rc = 0
NoZstd == from = 0 /\ seqs = <<>> /\ class = "none" /\ raw = <<>>
NoPred == /\ job = 0 /\ ready = FALSE /\ symbols = <<>> /\ numBits = <<>> /\ newState = <<>>
          /\ sym2state = <<>> /\ thread = <<>> /\ overlap = FALSE
NoCodec == /\ src = <<>> /\ pc = "none" /\ dst = <<>> /\ in = <<>> /\ pos = 0 /\ out = <<>>
           /\ err = FALSE /\ NoLz /\ t = 0 /\ NoBuf /\ NoXz /\ NoLzma /\ NoZstd

Init ==
  /\ codec \in Codecs
  /\ \/ codec = "lz4" /\ Lz4!Init /\ t = 0 /\ NoBuf /\ NoXz /\ NoLzma /\ NoZstd /\ NoPred
     \/ codec = "lzo" /\ Lzo!Init /\ NoBuf /\ NoXz /\ NoLzma /\ NoZstd /\ NoPred
     \/ codec = "xz" /\ Xz!Init /\ NoLz /\ t = 0 /\ NoLzma /\ NoZstd /\ NoPred
     \/ codec = "lzma" /\ Lzma!Init /\ pos = 0 /\ NoLz /\ t = 0 /\ ops = <<>> /\ NoZstd /\ NoPred
     \/ codec = "zstd" /\ Zstd!Init /\ t = 0 /\ NoXz /\ NoLzma /\ NoPred
     \/ codec = "tables" /\ Tables!Init /\ NoCodec

Next ==
  /\ UNCHANGED codec
  /\ \/ codec = "lz4" /\ Lz4!Next /\ UNCHANGED <<t, buf, xzVars, rc, zstdVars, predVars>>
     \/ codec = "lzo" /\ Lzo!Next /\ UNCHANGED <<buf, xzVars, rc, zstdVars, predVars>>
     \/ codec = "xz" /\ Xz!Next /\ UNCHANGED <<lzVars, t, rc, zstdVars, predVars>>
     \/ codec = "lzma" /\ Lzma!Next /\ UNCHANGED <<pos, lzVars, t, ops, zstdVars, predVars>>
     \/ codec = "zstd" /\ Zstd!Next /\ UNCHANGED <<t, xzVars, rc, predVars>>
     \/ codec = "tables" /\ Tables!Next
          /\ UNCHANGED <<common, lzVars, t, buf, xzVars, rc, zstdVars>>

Spec == Init /\ [][Next]_vars

-----------------------------------------------------------------------------
(* The variables of the codec have their types. *)
TypeOK ==
  CASE codec = "lz4" -> Lz4!TypeOK
    [] codec = "lzo" -> Lzo!TypeOK
    [] codec = "xz"  -> Xz!TypeOK
    [] codec = "lzma" -> Lzma!TypeOK
    [] codec = "zstd" -> Zstd!TypeOK
    [] codec = "tables" -> Tables!TypeOK

(* What lz4 compressed and xz stored, they read back; of plain LZMA, which *)
(* is never written, what other encoders wrote.                            *)
RoundTrip ==
  CASE codec = "lz4"  -> Lz4!RoundTrip
    [] codec = "xz"   -> Xz!RoundTrip
    [] codec = "lzma" -> Lzma!RoundTrip
    [] OTHER          -> TRUE

(* A block that is cut short gives the beginning of the data and no error  *)
(* with lz4 (lz4_decompress.go:134, "Allow partial copy at end of          *)
(* stream"); of an xz stream, whole or cut, that resets nothing but what   *)
(* the reader can tell, what is read is the beginning of what it means;    *)
(* and an LZMA stream that is cut gives everything or nothing.             *)
CutGivesPrefix ==
  CASE codec = "lz4"  -> Lz4!CutGivesPrefix
    [] codec = "xz"   -> Xz!ReadsItsMeaning
    [] codec = "lzma" -> Lzma!AllOrNothing
    [] OTHER          -> TRUE

(* An lz4 block does not outgrow what is set aside for it                  *)
(* (lz4_compress.go:34, "Worst case: input + overhead").                   *)
OverheadBounded == codec = "lz4" => Lz4!OverheadBounded

(* A stream whose first block is sound is read to the end of that block.   *)
SoundIsRead == codec = "xz" => Xz!SoundIsRead

(* A stream that is cut inside a read is not taken for a whole one.        *)
TornIsReported == codec = "xz" => Xz!TornIsReported

(* A stream that the xz format allows is read to what it means             *)
(* (xz_decompress.go:4, "Implements: XZ container, LZMA2 wrapper, LZMA     *)
(* range decoder + LZ77").                                                 *)
StrictIsRead == codec = "xz" => Xz!StrictIsRead

(* Up to 13 bytes, lzo reads back what it wrote.                           *)
ShortRoundTrip == codec = "lzo" => Lzo!ShortRoundTrip

(* Frames that ZstdCompress wrote with codes that are the same throughout, *)
(* or without any, are read back.                                          *)
ExactRoundTrip == codec = "zstd" => Zstd!ExactRoundTrip

(* Frames of other zstd encoders that need no table of codes and no offset *)
(* of an earlier block are read to what they mean.                         *)
ForeignIsRead == codec = "zstd" => Zstd!ForeignIsRead

(* A zstd stream that is read piece by piece, whole or cut, gives its whole*)
(* frames, and if that is all of it, what ZstdDecompress gives.            *)
StreamedIsWhole == codec = "zstd" => Zstd!StreamedIsWhole

(* The encoder's tables are FSE tables, and its states decode to their     *)
(* symbols, unless they were built by two at the same time.                *)
AloneIsRight == codec = "tables" => Tables!AloneIsRight

(* However the tables were built, no state leaves them.                    *)
RacersStayInRange == codec = "tables" => Tables!RacersStayInRange

(* What Writer.compress keeps: what is shorter and, for zstd, decompresses *)
(* to as many bytes (writer.go:40).                                        *)
Shorter == codec \in {"lz4", "lzo", "zstd"} /\ Len(dst) < Len(src)

Verified == codec = "zstd" => ~err /\ Len(out) = Len(src)

(* What the writer keeps of a compressed block, decompress turns into the  *)
(* data again (README.md:10, "Compression: gzip, xz, lzma, lzo, lz4, zstd  *)
(* (all 6 types, read + write)").                                          *)
KeptReadsBack == pc = "done" /\ in = dst /\ Shorter /\ Verified => out = src /\ ~err
=============================================================================
