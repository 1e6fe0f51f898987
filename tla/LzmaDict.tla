------------------------------ MODULE LzmaDict ------------------------------
(***************************************************************************)
(* What lzmaDecoder does with the operations that it decodes: the          *)
(* dictionary, a ring, and the four distances used last                    *)
(* (xz_decompress.go).  Both LZMA2 chunks and plain LZMA streams are       *)
(* decoded into it.                                                        *)
(***************************************************************************)
EXTENDS Integers, Sequences, SequencesExt

NewDec(n) ==
  [dict |-> [i \in 0..n - 1 |-> 0], dPos |-> 0, dSize |-> n, pos |-> 0, reps |-> <<0, 0, 0, 0>>]

NextPlace(d) == IF d.dPos + 1 >= d.dSize THEN 0 ELSE d.dPos + 1

PutByte(d, b) ==
  [d EXCEPT !.dict[d.dPos] = b, !.dPos = NextPlace(d), !.pos = @ + 1]

GetByte(d, dist) ==
  LET idx == d.dPos - dist - 1
  IN d.dict[IF idx < 0 THEN idx + d.dSize ELSE idx]

(* A decoder and its output, after more bytes. *)
PutBytes(s, bytes) ==
  [dec |-> FoldLeft(PutByte, s.dec, bytes), buf |-> s.buf \o bytes]

CopyMatch(s, dist, n) ==
  FoldLeft(LAMBDA r, i : PutBytes(r, <<GetByte(r.dec, dist)>>), s, [i \in 1..n |-> i])

(* A distance of no match; one above 2^31 is negative here. *)
Invalid(d, dist) == dist < 0 \/ dist >= d.pos \/ dist >= d.dSize

(* Operators that end in Slip are what the one after them is tried with.   *)
ReusedSlip(reps, i) ==
  CASE i = 1 -> reps
    [] i = 2 -> <<reps[2], reps[1], reps[3], reps[4]>>
    [] i = 3 -> <<reps[3], reps[2], reps[1], reps[4]>>
    [] i = 4 -> <<reps[4], reps[1], reps[2], reps[3]>>

(* The repeated distances after the one at i was used again. *)
Reused(reps, i) ==
  CASE i = 1 -> reps
    [] i = 2 -> <<reps[2], reps[1], reps[3], reps[4]>>
    [] i = 3 -> <<reps[3], reps[1], reps[2], reps[4]>>
    [] i = 4 -> <<reps[4], reps[1], reps[2], reps[3]>>

-----------------------------------------------------------------------------
(* What operations mean, by a history that is never forgotten.             *)
(*   hist:  the bytes since the dictionary was last reset                  *)
(*   reps:  the distances used, the last one first                         *)
(*   out:   all bytes, as far as the operations can be followed            *)
(*   state: "go", "eos" behind an end marker, or "bad"                     *)
(*   size:  how far back a distance may reach                              *)
Start(n) ==
  [hist |-> <<>>, reps |-> <<0, 0, 0, 0>>, out |-> <<>>, state |-> "go", size |-> n]

Extended(s, bytes) == [s EXCEPT !.hist = @ \o bytes, !.out = @ \o bytes]

Repeated(s, dist, others, n) ==
  IF dist >= Len(s.hist) \/ dist >= s.size THEN [s EXCEPT !.state = "bad"]
    ELSE Extended([s EXCEPT !.reps = <<dist>> \o others],
                  [k \in 1..n |-> s.hist[Len(s.hist) - dist + ((k - 1) % (dist + 1))]])

Operated(s, o) ==
  CASE o.op = "literal" -> Extended(s, <<o.byte>>)
    [] o.op = "match"   -> Repeated(s, o.dist, SubSeq(s.reps, 1, 3), o.len)
    [] o.op = "rep"     -> Repeated(s, s.reps[o.i], RemoveAt(s.reps, o.i), o.len)
    [] o.op = "eos"     -> [s EXCEPT !.state = "eos"]

(* Of operations, those that are needed for so many bytes are followed;    *)
(* all of them, if that is not known.                                      *)
Followed(s, seq, to) ==
  FoldLeft(LAMBDA r, o : IF r.state # "go" \/ (to >= 0 /\ Len(r.out) >= to) THEN r
                           ELSE Operated(r, o),
           s, seq)
=============================================================================
