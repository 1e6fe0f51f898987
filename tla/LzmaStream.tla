----------------------------- MODULE LzmaStream -----------------------------
(***************************************************************************)
(* plainLzmaReader (xz_decompress.go): a header, and operations that       *)
(* lzmaDecoder decodes to the last before anything is read.  The streams   *)
(* are those of other encoders, as the package writes none, and may be cut *)
(* short or begin with bytes that no encoder writes.                       *)
(***************************************************************************)
EXTENDS Integers, Sequences, SequencesExt, LzmaDict, LzmaCoder

CONSTANTS
  Streams,   (* a set of [header, ops]: what others wrote                   *)
  MinDict    (* the least capacity of a dictionary (4096)                   *)

Byte == 0..255

(* What the five bytes of a header can say, with a length or with -1.      *)
Headers == [lc : 0..8, lp : 0..4, pb : 0..5, dict : Nat, size : Nat \cup {-1}]

(* A repetition of the last distance alone may be of a single byte.  The   *)
(* format has distances of 32 bits, but TLC's numbers end at 31.           *)
Operations ==
  [op : {"literal"}, byte : Byte]
    \cup [op : {"match"}, dist : 0..(2^30 - 1) + 2^30, len : 2..273]
    \cup [op : {"rep"}, i : 1..4, len : 2..273] \cup [op : {"rep"}, i : {1}, len : {1}]
    \cup [op : {"eos"}]

LzmaAssumption ==
  /\ RangeBytes \in {3, 4}
  /\ MinDict \in Nat \ {0}
  /\ Streams \subseteq [header : Headers, ops : Seq(Operations)]

VARIABLES
  src,   (* what the stream means                                           *)
  dst,   (* the stream: a header, bytes, and whether the format allows it;  *)
         (* before that, operations to encode and the encoder               *)
  in,    (* the stream as the reader gets it                                *)
  pc,    (* "encode", "deliver", "header", "range"; "decode", and what is   *)
         (* to be decoded within an operation; "read", "done"               *)
  rc,    (* lzmaDecoder.rc and the probabilities; state                     *)
  dec,   (* its dictionary and distances                                    *)
  limit, (* the length the header says, or -1                               *)
  buf,   (* plainLzmaReader.buf                                             *)
  out,   (* what the caller has                                             *)
  err    (* LzmaNewReader returned an error                                 *)

vars == <<src, dst, in, pc, rc, dec, limit, buf, out, err>>

Capacity(h) == IF h.dict < MinDict THEN MinDict ELSE h.dict

(* The place of a literal's probabilities. *)
LiteralRow(h, pos, prev) == (prev \div 2^(8 - h.lc)) + ((pos % 2^h.lp) * 2^h.lc)

-----------------------------------------------------------------------------
(* The encoder: the operations one after the other, with what they mean    *)
(* and the state, which says what the last ones were.                      *)
StateAfter(o, state) ==
  CASE o.op = "literal" -> IF state < 4 THEN 0 ELSE IF state < 10 THEN state - 3 ELSE state - 6
    [] o.op = "match"   -> IF state < 7 THEN 7 ELSE 10
    [] o.op = "rep" /\ o.len = 1 -> IF state < 7 THEN 9 ELSE 11
    [] OTHER            -> IF state < 7 THEN 8 ELSE 11

LiteralBits(row, byte, matched, match) ==
  [i \in 1..8 |->
     LET high == byte \div 2^(9 - i)
         same == matched /\ high = match \div 2^(9 - i)
         symbol == 2^(i - 1) + high
     IN [key |-> <<"literal", row,
                   IF same THEN 256 + (256 * ((match \div 2^(8 - i)) % 2)) + symbol ELSE symbol>>,
         bit |-> (byte \div 2^(8 - i)) % 2]]

(* The marker of the end is a distance of 2^32 - 1, -1 here. *)
Slot(dist) ==
  IF dist < 0 THEN 63
    ELSE IF dist < 4 THEN dist
    ELSE LET n == CHOOSE n \in 2..30 : 2^n <= dist /\ dist < 2^(n + 1)
         IN (2 * n) + ((dist \div 2^(n - 1)) % 2)

DistanceBits(dist, len) ==
  LET slot == Slot(dist)
      n    == (slot \div 2) - 1
      more == IF dist < 0 THEN 2^30 - 1 ELSE dist % 2^n
      row  == IF len > 5 THEN 3 ELSE len - 2
  IN TreeBits("posSlot", row, slot, 6)
       \o (CASE slot < 4       -> <<>>
             [] slot \in 4..13 -> ReverseBits("posSpecial", dist - more - slot, more, n)
             [] OTHER          -> DirectBits(more \div 16, n - 4) \o ReverseBits("posAlign", 0, more % 16, 4))

OpBits(h, s, state, o) ==
  LET pos  == Len(s.hist)
      ps   == (16 * state) + (pos % 2^h.pb)
      prev == IF pos = 0 THEN 0 ELSE s.hist[pos]
      Rep(i, bits) == Bit("isMatch", 0, ps, 1) \o Bit("isRep", 0, state, 1)
                        \o Bit("isRepG0", 0, state, IF i = 1 THEN 0 ELSE 1) \o bits
      Length(name, n) == LengthBits(name, pos % 2^h.pb, n - 2)
  IN CASE o.op = "literal" ->
            Bit("isMatch", 0, ps, 0)
              \o LiteralBits(LiteralRow(h, pos, prev), o.byte, state >= 7,
                             IF state >= 7 THEN s.hist[pos - s.reps[1]] ELSE 0)
       [] o.op = "rep" /\ o.i = 1 ->
            Rep(1, Bit("isRep0Long", 0, ps, IF o.len = 1 THEN 0 ELSE 1)
                     \o (IF o.len = 1 THEN <<>> ELSE Length("repLen", o.len)))
       [] o.op = "rep" /\ o.i = 2 ->
            Rep(2, Bit("isRepG1", 0, state, 0) \o Length("repLen", o.len))
       [] o.op = "rep" /\ o.i \in {3, 4} ->
            Rep(o.i, Bit("isRepG1", 0, state, 1) \o Bit("isRepG2", 0, state, o.i - 3)
                       \o Length("repLen", o.len))
       [] OTHER ->
            LET dist == IF o.op = "eos" THEN -1 ELSE o.dist
                len  == IF o.op = "eos" THEN 2 ELSE o.len
            IN Bit("isMatch", 0, ps, 1) \o Bit("isRep", 0, state, 0) \o Length("matchLen", len)
                 \o DistanceBits(dist, len)

Meaning(h, seq) == Followed(Start(Capacity(h)), seq, h.size)

(* As many bytes as the header says, or a marker if it does not. *)
Sound(h, m) ==
  /\ h.pb <= 4
  /\ IF h.size < 0 THEN m.state = "eos" ELSE m.state = "go" /\ Len(m.out) = h.size

(* What is yet to be encoded, with the encoder. *)
Uncoded(h, seq) ==
  [header |-> h, ops |-> seq, bits |-> <<>>, sound |-> Sound(h, Meaning(h, seq)),
   coder |-> Fresh, s |-> Start(Capacity(h)), state |-> 0]

Init ==
  /\ \E st \in Streams :
       /\ dst = Uncoded(st.header, st.ops)
       /\ src = Meaning(st.header, st.ops).out
  /\ pc = "encode"
  /\ in = <<>>
  /\ rc = <<>> /\ dec = <<>> /\ limit = 0
  /\ buf = <<>> /\ out = <<>> /\ err = FALSE

Encoding == pc = "encode" /\ dst.bits = <<>>

(* Nothing more comes behind a marker or what cannot be followed. *)
Complete == dst.ops = <<>> \/ dst.s.state # "go"

EncodeOp ==
  /\ Encoding /\ ~Complete
  /\ LET o == Head(dst.ops)
     IN dst' = [dst EXCEPT !.ops = Tail(@), !.s = Operated(@, o), !.state = StateAfter(o, @),
                           !.bits = OpBits(dst.header, dst.s, dst.state, o)]
  /\ UNCHANGED <<src, in, pc, rc, dec, limit, buf, out, err>>

EncodeNext ==
  /\ pc = "encode" /\ dst.bits # <<>>
  /\ dst' = [dst EXCEPT !.coder = Encode(@, Head(dst.bits)), !.bits = Tail(@)]
  /\ UNCHANGED <<src, in, pc, rc, dec, limit, buf, out, err>>

EndStream ==
  /\ Encoding /\ Complete
  /\ dst' = [header |-> dst.header, bytes |-> Flushed(dst.coder), sound |-> dst.sound]
  /\ pc' = "deliver"
  /\ UNCHANGED <<src, in, rc, dec, limit, buf, out, err>>

(* The stream is stored and read back: whole, cut short, or with other     *)
(* bytes where the coder begins.                                           *)
Torn == [header |-> "torn"]

Deliver ==
  /\ pc = "deliver"
  /\ \/ in' = dst
     \/ in' = Torn
     \/ \E n \in 0..Len(dst.bytes) - 1 : in' = [dst EXCEPT !.bytes = SubSeq(@, 1, n)]
     \/ \E first \in {<<1>>, <<0>> \o [i \in 1..RangeBytes |-> 255]} :
          in' = [dst EXCEPT !.bytes = first \o SubSeq(@, Len(first) + 1, Len(@))]
  /\ pc' = "header"
  /\ UNCHANGED <<src, dst, rc, dec, limit, buf, out, err>>

-----------------------------------------------------------------------------
Header == in.header

Fail ==
  /\ pc' = "done" /\ err' = TRUE
  /\ UNCHANGED <<src, dst, in, rc, dec, limit, buf, out>>

ReadHeader ==
  /\ pc = "header"
  /\ IF in = Torn \/ (in # Torn /\ Header.pb > 4) THEN Fail
       ELSE /\ dec' = NewDec(Capacity(Header))
            /\ limit' = Header.size
            /\ pc' = "range"
            /\ UNCHANGED <<src, dst, in, rc, buf, out, err>>

NewRangeDecoder ==
  /\ pc = "range"
  /\ IF CanBegin(in.bytes)
       THEN /\ rc' = [coder |-> Initial(in.bytes), state |-> 0]
            /\ pc' = "decode"
            /\ UNCHANGED <<src, dst, in, dec, limit, buf, out, err>>
       ELSE Fail

(* lzmaDecoder.decode, until it has as many bytes as the header says.      *)
Enough == limit >= 0 /\ Len(buf) >= limit

PosState == dec.pos % 2^Header.pb

EndDecode ==
  /\ pc = "decode" /\ Enough
  /\ pc' = "read"
  /\ UNCHANGED <<src, dst, in, rc, dec, limit, buf, out, err>>

(* A bit decides what comes next. *)
Branch(s, zero, one) ==
  IF ~s.ok THEN Fail
    ELSE /\ rc' = [rc EXCEPT !.coder = s]
         /\ pc' = IF s.m = 0 THEN zero ELSE one
         /\ UNCHANGED <<src, dst, in, dec, limit, buf, out, err>>

IsMatch ==
  /\ pc = "decode" /\ ~Enough
  /\ Branch(One(rc.coder, <<"isMatch", 0, (16 * rc.state) + PosState>>), "literal", "isRep")

NextState ==
  [Literal  |-> <<0, 0, 0, 0, 1, 2, 3, 4, 5, 6, 4, 5>>,
   Match    |-> <<7, 7, 7, 7, 7, 7, 7, 10, 10, 10, 10, 10>>,
   LongRep  |-> <<8, 8, 8, 8, 8, 8, 8, 11, 11, 11, 11, 11>>,
   ShortRep |-> <<9, 9, 9, 9, 9, 9, 9, 11, 11, 11, 11, 11>>]

(* What an operation makes of the decoder and its output. *)
Operation(s, kind, r) ==
  /\ rc' = [coder |-> s, state |-> NextState[kind][rc.state + 1]]
  /\ dec' = r.dec /\ buf' = r.buf
  /\ pc' = "decode"
  /\ UNCHANGED <<src, dst, in, limit, out, err>>

Now == [dec |-> dec, buf |-> buf]

MatchedBitSlip(s, row, bit) == DecodeBit(s, <<"literal", row, (256 * (1 + bit)) + s.m>>)

(* A bit of a literal behind a match: where the byte at the last distance  *)
(* has had the same bits so far, its next one is part of the context.      *)
MatchedBit(s, row, bit) ==
  LET r == DecodeBit(s, <<"literal", row, (256 * (1 + bit)) + s.m>>)
  IN [r EXCEPT !.same = (r.m % 2 = bit)]

LiteralBit(s, row, bit) ==
  IF s.same THEN MatchedBit(s, row, bit) ELSE DecodeBit(s, <<"literal", row, s.m>>)

DecodeLiteral(s, row, match) ==
  FoldLeft(LAMBDA r, i : LiteralBit(r, row, (match \div 2^(8 - i)) % 2),
           [s EXCEPT !.m = 1, !.same = rc.state >= 7], Count(8))

Literal ==
  /\ pc = "literal"
  /\ LET prev == IF dec.pos > 0 THEN GetByte(dec, 0) ELSE 0
         match == IF rc.state >= 7 THEN GetByte(dec, dec.reps[1]) ELSE 0
     IN \E s \in {DecodeLiteral(rc.coder, LiteralRow(Header, dec.pos, prev), match)} :
          IF s.ok THEN Operation(s, "Literal", PutBytes(Now, <<Symbol(s, 8)>>)) ELSE Fail

IsRep == pc = "isRep" /\ Branch(One(rc.coder, <<"isRep", 0, rc.state>>), "match", "isRepG0")

-----------------------------------------------------------------------------
(* The rest of a distance behind its slot; m is the distance then.         *)
Base(slot) ==
  LET high == 2 + (slot % 2) IN (IF slot < 62 THEN high ELSE high - 4) * 2^((slot \div 2) - 1)

Near(s, slot, n) ==
  LET r == DecodeTree(s, "posSpecial", 0, Base(slot) - slot, n)
  IN [r EXCEPT !.m = Base(slot) + Reversed(Symbol(r, n), n)]

Aligned(s, high) ==
  LET r == DecodeTree(s, "posAlign", 0, 0, 4)
  IN [r EXCEPT !.m = high + Reversed(Symbol(r, 4), 4)]

Far(s, slot, n) ==
  LET r == DecodeDirect(s, n - 4) IN Aligned(r, Base(slot) + (16 * r.m))

BehindSlot(s, slot) ==
  CASE slot < 4       -> [s EXCEPT !.m = slot]
    [] slot \in 4..13 -> Near(s, slot, (slot \div 2) - 1)
    [] OTHER          -> Far(s, slot, (slot \div 2) - 1)

DecodeDistance(s, row) ==
  LET r == DecodeTree(s, "posSlot", row, 0, 6) IN BehindSlot(r, Symbol(r, 6))

LenToPosState(len) == IF len >= 6 THEN 3 ELSE len - 2

(* A length and a distance of its own: a match, or the marker of the end.  *)
Match ==
  /\ pc = "match"
  /\ \E l \in {DecodeLength(rc.coder, "matchLen", PosState)} :
       \E s \in {DecodeDistance(l, LenToPosState(l.m + 2))} :
         CASE ~s.ok -> Fail
           [] s.ok /\ s.m = -1 ->
                /\ pc' = "read"
                /\ rc' = [rc EXCEPT !.coder = s]
                /\ UNCHANGED <<src, dst, in, dec, limit, buf, out, err>>
           [] s.ok /\ s.m # -1 ->
                IF Invalid(dec, s.m) THEN Fail
                  ELSE Operation(s, "Match",
                         CopyMatch([Now EXCEPT !.dec.reps = <<s.m, @[1], @[2], @[3]>>], s.m, l.m + 2))

IsRepG0 ==
  pc = "isRepG0" /\ Branch(One(rc.coder, <<"isRepG0", 0, rc.state>>), "isRep0Long", "isRepG1")

IsRep0Long ==
  /\ pc = "isRep0Long"
  /\ Branch(One(rc.coder, <<"isRep0Long", 0, (16 * rc.state) + PosState>>), "shortRep", "repLen")

ShortRep ==
  /\ pc = "shortRep"
  /\ IF Invalid(dec, dec.reps[1]) THEN Fail
       ELSE Operation(rc.coder, "ShortRep", PutBytes(Now, <<GetByte(dec, dec.reps[1])>>))

(* The distance at i comes to the front. *)
Reuse(s, i) ==
  /\ rc' = [rc EXCEPT !.coder = s]
  /\ dec' = [dec EXCEPT !.reps = Reused(@, i)]
  /\ pc' = "repLen"
  /\ UNCHANGED <<src, dst, in, limit, buf, out, err>>

IsRepG1 ==
  /\ pc = "isRepG1"
  /\ \E s \in {One(rc.coder, <<"isRepG1", 0, rc.state>>)} :
       IF s.ok /\ s.m = 0 THEN Reuse(s, 2) ELSE Branch(s, "repLen", "isRepG2")

IsRepG2 ==
  /\ pc = "isRepG2"
  /\ \E s \in {One(rc.coder, <<"isRepG2", 0, rc.state>>)} :
       IF s.ok THEN Reuse(s, 3 + s.m) ELSE Fail

RepLen ==
  /\ pc = "repLen"
  /\ \E s \in {DecodeLength(rc.coder, "repLen", PosState)} :
       IF ~s.ok \/ Invalid(dec, dec.reps[1]) THEN Fail
         ELSE Operation(s, "LongRep", CopyMatch(Now, dec.reps[1], s.m + 2))

(* io.ReadAll takes what was decoded. *)
Read ==
  /\ pc = "read"
  /\ out' = buf
  /\ pc' = "done"
  /\ UNCHANGED <<src, dst, in, rc, dec, limit, buf, err>>

Next == \/ EncodeOp \/ EncodeNext \/ EndStream \/ Deliver \/ ReadHeader \/ NewRangeDecoder
        \/ EndDecode \/ IsMatch \/ Literal \/ IsRep \/ Match
        \/ IsRepG0 \/ IsRep0Long \/ ShortRep \/ IsRepG1 \/ IsRepG2 \/ RepLen
        \/ Read
        \/ pc = "done" /\ UNCHANGED vars

Spec == Init /\ [][Next]_vars

-----------------------------------------------------------------------------
(* How many places a row of an array has, and how many rows (newLzma-      *)
(* Decoder, lzmaLenDecoder.reset).                                         *)
Places(array) ==
  CASE array \in {"isMatch", "isRep0Long"} -> 12 * 16
    [] array \in {"isRep", "isRepG0", "isRepG1", "isRepG2"} -> 12
    [] array = "posSlot"    -> 64
    [] array = "posSpecial" -> 124
    [] array = "posAlign"   -> 16
    [] array = "literal"    -> 768
    [] array \in {"matchLenChoice", "repLenChoice"} -> 3
    [] array \in {"matchLenHigh", "repLenHigh"} -> 256
    [] OTHER                -> 8

Rows(array) ==
  CASE array = "posSlot" -> 4
    [] array = "literal" -> 2^(Header.lc + Header.lp)
    [] array \in {"matchLenLow", "matchLenMid", "repLenLow", "repLenMid"} -> 16
    [] OTHER             -> 1

(* The variables have their types; nothing is looked up beyond the end of  *)
(* an array (xz_decompress.go:310).                                        *)
TypeOK ==
  /\ rc # <<>> =>
       /\ rc.state \in 0..11
       /\ rc.coder.code \in 0..Full /\ rc.coder.rng \in 1..Full
       /\ \A k \in DOMAIN rc.coder.probs :
            /\ k[3] \in 0..Places(k[1]) - 1
            /\ k[2] \in 0..Rows(k[1]) - 1
            /\ rc.coder.probs[k] \in 31..2017
  /\ dec # <<>> => dec.dPos = dec.pos % dec.dSize
  /\ err \in BOOLEAN

(* A stream that the format allows is read to what it means.               *)
RoundTrip == pc = "done" /\ in = dst /\ dst.sound => out = src /\ ~err

(* Of a stream that is cut, or that cannot be followed, nothing is read.   *)
AllOrNothing == dst.sound /\ pc = "done" => out = src \/ (out = <<>> /\ err)
=============================================================================
