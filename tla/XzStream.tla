------------------------------ MODULE XzStream ------------------------------
(***************************************************************************)
(* XzCompress (xz_compress.go), which only stores, and xzReader with       *)
(* lzma2Reader and lzmaDecoder (xz_decompress.go), which read what any     *)
(* encoder wrote, until io.ReadAll sees io.EOF.  A stream is a sequence of *)
(* units, and io.EOF is also what a read gets where a stream is cut.       *)
(* Checksums and filters are a unit's "ok"; what the range coder decodes,  *)
(* from bytes that no check guards, is a sequence of operations.           *)
(***************************************************************************)
EXTENDS Integers, Sequences, SequencesExt, LzmaDict

CONSTANTS
  Inputs,    (* what is compressed: a set of sequences of bytes             *)
  Foreign,   (* what other encoders wrote: a set of sequences of units      *)
  Misread,   (* what may be read where the reader has lost its way          *)
  MaxChunk,  (* maxChunk (65536)                                            *)
  DictSize   (* the dictionary's capacity (4096 at least)                   *)

Byte == 0..255

(* What the range coder decodes.                                           *)
Operations ==
  [op : {"literal"}, byte : Byte] \cup [op : {"match"}, dist : Nat, len : Nat]
    \cup [op : {"rep"}, i : 1..4, len : Nat] \cup [op : {"eos"}]

(* What the reader takes at a time.  "ok" is whether a header's checksum   *)
(* and filters are in order, and of a chunk, whether newRangeDecoder takes *)
(* its first byte.  "props" are the properties a chunk brings: of literals *)
(* and positions without contexts ("plain"), with some, or such as the     *)
(* format does not have ("bad").                                           *)
Units ==
  [unit : {"header", "block"}, ok : BOOLEAN]
    \cup [unit : {"raw"}, reset : BOOLEAN, data : Seq(Byte)]
    \cup [unit : {"lzma"}, control : {"none", "state", "props", "all"}, props : {"plain", "context", "bad"},
          size : Nat, ok : BOOLEAN, ops : Seq(Operations)]
    \cup [unit : {"end", "check", "index"}]

(* The reader takes what is there for what it expects there: units are     *)
(* named for that.                                                         *)
After(u) ==
  CASE u = "header" -> {"block", "index"}
    [] u = "block"  -> {"raw", "lzma", "end"}
    [] u = "raw"    -> {"raw", "lzma", "end"}
    [] u = "lzma"   -> {"raw", "lzma", "end"}
    [] u = "end"    -> {"check"}
    [] u = "check"  -> {"block", "index"}
    [] u = "index"  -> {}

InOrder(units) ==
  \A k \in DOMAIN units :
    units[k].unit \in IF k = 1 THEN {"header"} ELSE After(units[k - 1].unit)

XzAssumption ==
  /\ MaxChunk \in Nat \ {0}
  /\ DictSize \in Nat \ {0}
  /\ Inputs \subseteq Seq(Byte)
  /\ Foreign \subseteq Seq(Units)
  /\ \A units \in Foreign : InOrder(units)

VARIABLES
  src,   (* the data, if it was compressed here                             *)
  dst,   (* the stream                                                      *)
  pc,    (* "compress", "compressed", then what is read next: "header",     *)
         (* "block", "chunk", "decode"; "done"                              *)
  in,    (* the stream as the reader gets it: units, and part of the next   *)
  pos,   (* how many units are read                                         *)
  dec,   (* lzma2Reader.dec: dictionary and repeated distances, or NoDec    *)
  buf,   (* lzma2Reader.buf: decoded, and not yet read                      *)
  ops,   (* what is left of a chunk                                         *)
  limit, (* the length the chunk is to be decoded to                        *)
  out,   (* what the caller of Read has                                     *)
  err    (* Read returned an error other than io.EOF                        *)

vars == <<src, dst, pc, in, pos, dec, buf, ops, limit, out, err>>

NoDec == [dPos |-> -1]

Init ==
  /\ \/ src \in Inputs /\ dst = <<>> /\ pc = "compress"
     \/ src = <<>> /\ dst \in Foreign /\ pc = "compressed"
  /\ in = [units |-> <<>>, part |-> "none"]
  /\ pos = 0
  /\ dec = NoDec
  /\ buf = <<>> /\ ops = <<>> /\ limit = 0
  /\ out = <<>> /\ err = FALSE

-----------------------------------------------------------------------------
Lesser(m, n) == IF m <= n THEN m ELSE n

Header      == [unit |-> "header", ok |-> TRUE]
Block       == [unit |-> "block", ok |-> TRUE]
Raw(r, b)   == [unit |-> "raw", reset |-> r, data |-> b]
End         == [unit |-> "end"]
Check       == [unit |-> "check"]
Index       == [unit |-> "index"]

(* lzma2EncodeStored *)
Chunks(data) ==
  [k \in 1..(Len(data) + MaxChunk - 1) \div MaxChunk |->
     Raw(k = 1, SubSeq(data, ((k - 1) * MaxChunk) + 1, Lesser(k * MaxChunk, Len(data))))]

XzCompress(data) ==
  IF data = <<>> THEN <<Header, Index>>
    ELSE <<Header, Block>> \o Chunks(data) \o <<End, Check, Index>>

Compress ==
  /\ pc = "compress"
  /\ dst' = XzCompress(src)
  /\ pc' = "compressed"
  /\ UNCHANGED <<src, in, pos, dec, buf, ops, limit, out, err>>

(* What may be there of a unit at which a stream is cut: nothing, some of  *)
(* its reads ("between"), or part of a read ("inside").                    *)
Parts(u) ==
  CASE u.unit = "header" -> {"none", "inside"}
    [] u.unit = "end"    -> {"none"}
    [] OTHER             -> {"none", "between", "inside"}

(* The stream is stored and read back: whole, or cut short. *)
Deliver ==
  /\ pc = "compressed"
  /\ \/ in' = [units |-> dst, part |-> "none"]
     \/ \E n \in 0..Len(dst) - 1 : \E p \in Parts(dst[n + 1]) :
          in' = [units |-> SubSeq(dst, 1, n), part |-> p]
  /\ pc' = "header"
  /\ UNCHANGED <<src, dst, pos, dec, buf, ops, limit, out, err>>

-----------------------------------------------------------------------------
Stream == <<src, dst, in>>

(* Read returns an error, or io.EOF, which io.ReadAll takes for the end.   *)
Return(e) ==
  /\ pc' = "done" /\ err' = e
  /\ UNCHANGED <<Stream, pos, dec, buf, ops, limit, out>>

Has(u) == pos < Len(in.units) /\ in.units[pos + 1].unit = u

Unit == in.units[pos + 1]

Missing == pos = Len(in.units)

Advance(where) == pc' = where /\ pos' = pos + 1 /\ UNCHANGED <<Stream, err>>

ReadHeader ==
  /\ pc = "header"
  /\ IF Has("header") /\ Unit.ok
       THEN Advance("block") /\ UNCHANGED <<dec, buf, ops, limit, out>>
       ELSE Return(TRUE)

ReadBlockHeader ==
  /\ pc = "block" /\ Has("block")
  /\ IF Unit.ok
       THEN /\ Advance("chunk")
            /\ dec' = NoDec
            /\ UNCHANGED <<buf, ops, limit, out>>
       ELSE Return(TRUE)

SkipIndex == pc = "block" /\ Has("index") /\ Return(FALSE)

(* Nothing where a block is to begin is an error; a block's size alone, or *)
(* part of an index, looks like the end.                                   *)
NoBlock == pc = "block" /\ Missing /\ Return(in.part # "between")

(* Read hands out what is decoded, as much as the caller has room for.     *)
Read ==
  /\ pc = "chunk" /\ buf # <<>>
  /\ \E n \in 1..Len(buf) :
       /\ out' = out \o SubSeq(buf, 1, n)
       /\ buf' = SubSeq(buf, n + 1, Len(buf))
  /\ UNCHANGED <<Stream, pc, pos, dec, ops, limit, err>>

DecodeChunk == pc = "chunk" /\ buf = <<>>

(* The end of the first block ends the reading.                            *)
EndBlock == DecodeChunk /\ Has("end") /\ Return(FALSE)

NoChunkSlip == DecodeChunk /\ Missing /\ Return(FALSE)

NoChunk == DecodeChunk /\ Missing /\ Return(in.part = "inside")

ReadUncompressed ==
  /\ DecodeChunk /\ Has("raw")
  /\ LET s == PutBytes([dec |-> IF Unit.reset \/ dec = NoDec THEN NewDec(DictSize) ELSE dec, buf |-> buf],
                       Unit.data)
     IN dec' = s.dec /\ buf' = s.buf
  /\ Advance("chunk")
  /\ UNCHANGED <<ops, limit, out>>

(* A chunk's control says what is reset: nothing (0x80), the coder's state *)
(* ("state", 0xA0), that with new properties ("props", 0xC0), or all, with *)
(* the dictionary (0xE0).  lzma2Reader takes one bit for the properties    *)
(* and the other for the dictionary.                                       *)
Resets == Unit.control \in {"props", "all"}

ChunkDecSlip ==
  IF Resets THEN NewDec(DictSize) ELSE [dec EXCEPT !.reps = <<0, 0, 0, 0>>]

(* The decoder a chunk begins with. *)
ChunkDec == IF Resets THEN NewDec(DictSize) ELSE dec

(* A reset of the state alone brings no properties, and the byte taken for *)
(* them moves all that follows.  New properties make the reader forget     *)
(* what came before, which matters to what is decoded if literals and      *)
(* positions have contexts.  Properties that there are none of are taken   *)
(* as they are.                                                            *)
Misunderstood ==
  \/ Unit.control = "state"
  \/ Unit.control = "props" /\ Unit.props = "context" /\ dec # NoDec
  \/ Resets /\ Unit.props = "bad"

ReadLzma ==
  /\ DecodeChunk /\ Has("lzma") /\ ~Misunderstood
  /\ IF Unit.ok /\ (Resets \/ dec # NoDec)
       THEN /\ dec' = ChunkDec
            /\ ops' = Unit.ops /\ limit' = Unit.size
            /\ Advance("decode")
            /\ UNCHANGED <<buf, out>>
       ELSE Return(TRUE)

(* What is read then may be anything, until the reader ends or panics.     *)
Misunderstand ==
  /\ DecodeChunk /\ Has("lzma") /\ Misunderstood
  /\ \E bytes \in Misread : out' = out \o bytes
  /\ err' \in BOOLEAN
  /\ pc' = "done"
  /\ UNCHANGED <<Stream, pos, dec, buf, ops, limit>>

-----------------------------------------------------------------------------
(* lzmaDecoder.decode, an operation at a time. *)
Decoding == pc = "decode" /\ Len(buf) < limit

Op(name) == Decoding /\ ops # <<>> /\ Head(ops).op = name

Decoded(s) ==
  /\ dec' = s.dec /\ buf' = s.buf
  /\ ops' = Tail(ops)
  /\ UNCHANGED <<Stream, pc, pos, limit, out, err>>

State == [dec |-> dec, buf |-> buf]

EndChunk(cond) ==
  /\ cond
  /\ pc' = "chunk" /\ ops' = <<>>
  /\ UNCHANGED <<Stream, pos, dec, buf, limit, out, err>>

Enough == EndChunk(pc = "decode" /\ Len(buf) >= limit)

EndMarker == EndChunk(Op("eos"))

(* The chunk's bytes end too early: an io.EOF, and what is decoded is lost.*)
RunsOut == Decoding /\ ops = <<>> /\ Return(FALSE)

Literal == Op("literal") /\ Decoded(PutBytes(State, <<Head(ops).byte>>))

Match ==
  /\ Op("match")
  /\ LET dist == Head(ops).dist
         d == [dec EXCEPT !.reps = <<dist, @[1], @[2], @[3]>>]
     IN IF Invalid(dec, dist) THEN Return(TRUE)
          ELSE Decoded(CopyMatch([State EXCEPT !.dec = d], dist, Head(ops).len))

(* The distance at i again; of a short repetition, one byte.               *)
Rep ==
  /\ Op("rep")
  /\ LET d == [dec EXCEPT !.reps = Reused(@, Head(ops).i)]
     IN IF Invalid(dec, d.reps[1]) THEN Return(TRUE)
          ELSE Decoded(CopyMatch([State EXCEPT !.dec = d], d.reps[1], Head(ops).len))

Next == \/ Compress \/ Deliver
        \/ ReadHeader \/ ReadBlockHeader \/ SkipIndex \/ NoBlock
        \/ Read \/ EndBlock \/ NoChunk \/ ReadUncompressed \/ ReadLzma \/ Misunderstand
        \/ Enough \/ EndMarker \/ RunsOut \/ Literal \/ Match \/ Rep
        \/ pc = "done" /\ UNCHANGED vars

Spec == Init /\ [][Next]_vars

-----------------------------------------------------------------------------
(* What a stream means: see LzmaDict.  The state is "fresh" in front of    *)
(* the first chunk and "end" behind the first block.  As the reader does,  *)
(* this takes no offence at an end marker, or at a match that goes beyond  *)
(* the size of its chunk; Strict does.                                     *)
Forget(s) == [s EXCEPT !.hist = <<>>, !.reps = <<0, 0, 0, 0>>]

Go(s) == [s EXCEPT !.state = "go"]

LzmaMeaning(s, u) ==
  LET s0 == CASE u.control = "all"  -> Forget(s)
              [] u.control = "none" -> s
              [] OTHER              -> [s EXCEPT !.reps = <<0, 0, 0, 0>>]
      s1 == Followed(Go(s0), u.ops, Len(s.out) + u.size)
      bad == [s EXCEPT !.state = "bad"]
  IN IF ~u.ok \/ (s.state = "fresh" /\ u.control = "none") THEN bad
       ELSE CASE s1.state = "eos" -> Go(s1)
              [] s1.state = "go" /\ Len(s1.out) < Len(s.out) + u.size -> [s1 EXCEPT !.state = "bad"]
              [] OTHER -> s1

UnitMeaning(s, u) ==
  IF s.state \notin {"fresh", "go"} THEN s
    ELSE CASE u.unit \in {"header", "block"} -> IF u.ok THEN s ELSE [s EXCEPT !.state = "bad"]
           [] u.unit = "raw"  -> Go(Extended(IF u.reset THEN Forget(s) ELSE s, u.data))
           [] u.unit = "lzma" -> LzmaMeaning(s, u)
           [] OTHER -> [s EXCEPT !.state = "end"]

Meaning(units) == FoldLeft(UnitMeaning, [Start(DictSize) EXCEPT !.state = "fresh"], units)

(* No chunk resets more than the reader can tell, or brings properties     *)
(* that there are none of.                                                 *)
Understood(units) ==
  \A k \in DOMAIN units :
    units[k].unit = "lzma" =>
      units[k].control = "none" \/ (units[k].control = "all" /\ units[k].props # "bad")

(* Up to the end of its first block a stream is what the format allows:    *)
(* the first chunk resets everything, the first with operations behind     *)
(* stored bytes that did so brings properties, none of them bad, and each  *)
(* means as many bytes as it says.                                         *)
Strict(units) ==
  LET Before(k) == Meaning(SubSeq(units, 1, k - 1))
      First(k) == Before(k).state = "fresh"
      NoProps(k) == \A j \in 1..k - 1 : units[j].unit # "lzma"
  IN /\ Meaning(units).state = "end"
     /\ \A k \in DOMAIN units :
          Before(k).state \in {"fresh", "go"} =>
            /\ units[k].unit = "raw" /\ First(k) => units[k].reset
            /\ units[k].unit = "lzma" =>
                 /\ First(k) => units[k].control = "all"
                 /\ NoProps(k) => units[k].control \in {"props", "all"}
                 /\ units[k].control \in {"props", "all"} => units[k].props # "bad"
                 /\ Len(Meaning(SubSeq(units, 1, k)).out) = Len(Before(k).out) + units[k].size
                 /\ \A j \in DOMAIN units[k].ops : units[k].ops[j].op # "eos"

-----------------------------------------------------------------------------
(* The variables have their types; the dictionary's place in the ring is   *)
(* that of as many bytes as went into it.                                  *)
TypeOK ==
  /\ pc \in {"compress", "compressed", "header", "block", "chunk", "decode", "done"}
  /\ pos \in 0..Len(in.units)
  /\ dec # NoDec =>
       /\ dec.dPos \in DOMAIN dec.dict
       /\ dec.dPos = dec.pos % DictSize
       /\ Len(dec.reps) = 4
  /\ limit \in Nat
  /\ err \in BOOLEAN

(* Data that XzCompress stored is read back.                               *)
RoundTrip ==
  pc = "done" /\ in.units = XzCompress(src) => out = src /\ ~err

(* Whatever is read, from streams that are whole, cut or have a header or  *)
(* chunk that is refused, and by reads of any length, is the beginning of  *)
(* what the stream means: the ring, with its checks of distances, never    *)
(* shows (xz_decompress.go:368, 528, 588).  Only streams whose chunks      *)
(* reset nothing or everything, and bring properties of the format, are    *)
(* understood (xz_decompress.go:668, 697).                                 *)
ReadsItsMeaning == Understood(in.units) => IsPrefix(out, Meaning(in.units).out)

(* A stream whose first block is sound is read up to that block's end.     *)
SoundIsRead ==
  pc = "done" /\ Understood(in.units) /\ Meaning(in.units).state = "end"
    => out = Meaning(in.units).out /\ ~err

(* What the format allows is read to what it means (xz_decompress.go:4,    *)
(* "Implements: XZ container, LZMA2 wrapper, LZMA range decoder + LZ77").  *)
StrictIsRead ==
  pc = "done" /\ Strict(in.units) => out = Meaning(in.units).out /\ ~err

(* A stream cut inside a read is not taken for a whole one.  One cut       *)
(* between two reads is: io.ReadFull then returns io.EOF itself            *)
(* (xz_decompress.go:643, 685, 721).                                       *)
TornIsReported ==
  pc = "done" /\ in.part = "inside" /\ Understood(in.units)
    /\ Meaning(in.units).state \in {"fresh", "go"} => err
=============================================================================
