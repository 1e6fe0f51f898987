------------------------------ MODULE PredTables ------------------------------
(***************************************************************************)
(* zcInitPredTables and zcBuildPred (zstd_compress.go): the encoder's FSE  *)
(* tables are built in place on first use, by every goroutine that finds   *)
(* them not ready.  Nothing keeps goroutines that compress at the same     *)
(* time apart.  One table stands for the three, which the same code builds *)
(* one after the other.  A step is a read or a write of shared memory; of  *)
(* the states that sym2state keeps for a symbol, only the first is ever    *)
(* read, and only that one is kept here.  Writes are seen in the order in  *)
(* which they are made, as amd64 has it.                                   *)
(***************************************************************************)
EXTENDS ZstdEntropy

CONSTANT Cases   (* a set of [probs, log, threads]: a distribution, the     *)
                 (* logarithm of the table's size, how many goroutines      *)

PredAssumption ==
  \A c \in Cases : /\ c.log \in Nat /\ c.threads \in Nat
                   /\ 0 \notin ToSet(c.probs)

VARIABLES
  job,       (* the case                                                    *)
  ready,     (* zcPredReady                                                 *)
  symbols, numBits, newState, sym2state,   (* the table                     *)
  thread,    (* a goroutine's place in the code and its local variables     *)
  overlap    (* two goroutines have been building at the same time          *)

table == <<symbols, numBits, newState>>
vars  == <<job, ready, table, sym2state, thread, overlap>>

Threads == 1..job.threads
Size    == 2^job.log
Symbols == 0..Len(job.probs) - 1

Nil  == <<>>
None == -1

Idle ==
  [pc |-> "check", i |-> 0, sym |-> 0, first |-> None, symNext |-> Nil, stale |-> FALSE]

Init ==
  /\ job \in Cases
  /\ ready = FALSE
  /\ symbols = Nil /\ numBits = Nil /\ newState = Nil /\ sym2state = Nil
  /\ thread = [g \in Threads |-> Idle]
  /\ overlap = FALSE

-----------------------------------------------------------------------------
At(g, pc) == thread[g].pc = pc

Building(g) == thread[g].pc \notin {"check", "use"}

(* The symbols are put in their places in this order. *)
Writes ==
  LET rare   == Rare(job.probs)
      common == Common(job.probs)
      places == Places(Size, Size - Len(rare))
  IN [k \in DOMAIN rare |-> <<Size - k, rare[k]>>] \o [k \in DOMAIN common |-> <<places[k], common[k]>>]

(* A slice is read before an element of it is read or written.  If another *)
(* goroutine puts a new one in its place in between, what is written may   *)
(* be lost, and what is read a zero or what was there.                     *)
OrLost(g, new, old) == {new} \cup (IF thread[g].stale THEN {old} ELSE {})

Seen(g) ==
  LET i == thread[g].i
  IN {symbols[i]} \cup (IF thread[g].stale THEN {0, Spread(job.probs, Size)[i]} ELSE {})

(* g goes on as it says there. *)
GoOn(g, there) == thread' = [thread EXCEPT ![g] = [there EXCEPT !.stale = FALSE]]

(* It has put new slices in the place of those that were there. *)
GoOnFresh(g, pc) ==
  thread' = [o \in Threads |->
    IF o = g THEN [thread[g] EXCEPT !.pc = pc, !.i = 0, !.stale = FALSE]
      ELSE [thread[o] EXCEPT !.stale = Building(o)]]

Goto(g, pc) == GoOn(g, [thread[g] EXCEPT !.pc = pc, !.i = 0])

IsReady(g) ==
  /\ At(g, "check") /\ ready
  /\ Goto(g, "use")
  /\ UNCHANGED <<job, ready, table, sym2state, overlap>>

(* Operators that end in Slip are what the one after them is tried with.   *)
NotReadySlip(g) ==
  /\ At(g, "check") /\ ~ready
  /\ Goto(g, "fresh")
  /\ ready' = TRUE
  /\ overlap' = (overlap \/ \E o \in Threads : Building(o))
  /\ UNCHANGED <<job, table, sym2state>>

NotReady(g) ==
  /\ At(g, "check") /\ ~ready
  /\ Goto(g, "fresh")
  /\ overlap' = (overlap \/ \E o \in Threads : Building(o))
  /\ UNCHANGED <<job, ready, table, sym2state>>

Fresh(g) ==
  /\ At(g, "fresh")
  /\ LET zeros == [i \in 0..Size - 1 |-> 0]
     IN symbols' = zeros /\ numBits' = zeros /\ newState' = zeros
  /\ GoOnFresh(g, "place")
  /\ UNCHANGED <<job, ready, sym2state, overlap>>

Place(g) ==
  /\ At(g, "place")
  /\ LET k == thread[g].i + 1
     IN IF k \in DOMAIN Writes
          THEN /\ symbols' \in OrLost(g, [symbols EXCEPT ![Writes[k][1]] = Writes[k][2]], symbols)
               /\ GoOn(g, [thread[g] EXCEPT !.i = k])
          ELSE /\ GoOn(g, [Idle EXCEPT !.pc = "read",
                            !.symNext = [s \in Symbols |-> Weight(job.probs[s + 1])]])
               /\ UNCHANGED symbols
  /\ UNCHANGED <<job, ready, numBits, newState, sym2state, overlap>>

ReadSymbol(g) ==
  /\ At(g, "read")
  /\ \E s \in Seen(g) : GoOn(g, [thread[g] EXCEPT !.sym = s, !.pc = "number"])
  /\ UNCHANGED <<job, ready, table, sym2state, overlap>>

NumBits(g) == job.log - HighBit(thread[g].symNext[thread[g].sym])

StoreBits(g) ==
  /\ At(g, "number")
  /\ numBits' \in OrLost(g, [numBits EXCEPT ![thread[g].i] = NumBits(g)], numBits)
  /\ GoOn(g, [thread[g] EXCEPT !.pc = "next"])
  /\ UNCHANGED <<job, ready, symbols, newState, sym2state, overlap>>

CountedSlip(me) == me

(* The symbol's next state has the next number. *)
Counted(me) == [me EXCEPT !.symNext[me.sym] = @ + 1]

StoreNext(g) ==
  /\ At(g, "next")
  /\ LET me   == thread[g]
         next == ((me.symNext[me.sym] * 2^NumBits(g)) - Size) % 65536
     IN /\ newState' \in OrLost(g, [newState EXCEPT ![me.i] = next], newState)
        /\ GoOn(g, [Counted(me) EXCEPT !.i = @ + 1, !.pc = IF me.i + 1 = Size THEN "map" ELSE "read"])
  /\ UNCHANGED <<job, ready, symbols, numBits, sym2state, overlap>>

FreshMap(g) ==
  /\ At(g, "map")
  /\ sym2state' = [s \in Symbols |-> None]
  /\ GoOnFresh(g, "look")
  /\ UNCHANGED <<job, ready, table, overlap>>

Look(g) ==
  /\ At(g, "look")
  /\ \E s \in Seen(g) : GoOn(g, [thread[g] EXCEPT !.sym = s, !.pc = "load"])
  /\ UNCHANGED <<job, ready, table, sym2state, overlap>>

Load(g) ==
  /\ At(g, "load")
  /\ \E f \in OrLost(g, sym2state[thread[g].sym], None) :
       GoOn(g, [thread[g] EXCEPT !.first = f, !.pc = "collect"])
  /\ UNCHANGED <<job, ready, table, sym2state, overlap>>

(* A state is appended to those that were there when they were loaded:     *)
(* where there is room, or in a new slice.                                 *)
Collect(g) ==
  /\ At(g, "collect")
  /\ LET me == thread[g]
     IN /\ sym2state' \in OrLost(g, [sym2state EXCEPT ![me.sym] = IF me.first = None THEN me.i ELSE me.first],
                                 sym2state)
             \cup (IF me.first = None THEN {} ELSE {sym2state})
        /\ GoOn(g, [me EXCEPT !.i = @ + 1, !.first = None,
                              !.pc = IF me.i + 1 = Size THEN "ready" ELSE "look"])
  /\ UNCHANGED <<job, ready, table, overlap>>

Ready(g) ==
  /\ At(g, "ready")
  /\ ready' = TRUE
  /\ GoOn(g, [Idle EXCEPT !.pc = "use"])
  /\ UNCHANGED <<job, table, sym2state, overlap>>

Step(g) ==
  \/ IsReady(g) \/ NotReady(g) \/ Fresh(g) \/ Place(g) \/ ReadSymbol(g) \/ StoreBits(g) \/ StoreNext(g)
  \/ FreshMap(g) \/ Look(g) \/ Load(g) \/ Collect(g) \/ Ready(g)

Next == \/ \E g \in Threads : Step(g)
        \/ (\A g \in Threads : At(g, "use")) /\ UNCHANGED vars

Spec == Init /\ [][Next]_vars

-----------------------------------------------------------------------------
TypeOK ==
  /\ ready \in BOOLEAN /\ overlap \in BOOLEAN
  /\ \A g \in Threads : thread[g].i \in 0..Size

InUse == \E g \in Threads : At(g, "use")

(* zcFindState *)
Found(s) == IF sym2state[s] # None THEN sym2state[s] ELSE 0

Built == [log |-> job.log, sym |-> symbols, nb |-> numBits, next |-> newState]

(* If no two goroutines build at the same time, who uses the table has an  *)
(* FSE table, and a state that is found for a symbol decodes to it         *)
(* (zstd_compress.go:639, "zcFindState returns a state index that decodes  *)
(* to the given symbol").                                                  *)
AloneIsRight ==
  InUse /\ ~overlap =>
    /\ Built = Table(job.probs, job.log)
    /\ Tiles(Built)
    /\ \A s \in Symbols : Built.sym[Found(s)] = s

(* Also while others build the table that a goroutine uses, and for ever   *)
(* after, no state leaves the table: what is written may be wrong, but a   *)
(* state is never looked up out of its range (zstd_compress.go:454, 642).  *)
RacersStayInRange ==
  InUse =>
    /\ Symbols \subseteq DOMAIN sym2state
    /\ DOMAIN numBits = 0..Size - 1 /\ DOMAIN newState = 0..Size - 1
    /\ \A s \in Symbols : Found(s) \in 0..Size - 1
=============================================================================
