------------------------------- MODULE Streamer -------------------------------
(***************************************************************************)
(* Data cycles through streamers.  A streamer on the scan chain ciphers the *)
(* stream bit by bit where it enters the segment of the streamer and again   *)
(* where it leaves it, with one keystream that advances with every shift     *)
(* clock.  DoHierarchicalDataCycle applies to the whole vector beforehand,   *)
(* and to the whole answer afterwards, the masks that make up for it         *)
(* (ApplyStreamer), while the path may be a different one in every cycle.    *)
(*                                                                         *)
(* An active path is the sequence of what ToSutVisitor meets: registers, and *)
(* the two ends of the segment of a streamer.  A bit vector is a sequence of *)
(* bits; its last bit is the first one shifted.                              *)
(***************************************************************************)
EXTENDS Naturals, Sequences, SequencesExt

CONSTANTS
  Registers, Streamers,
  Width,         \* bits of each register
  Kind,          \* protocol of each streamer
  Paths,         \* the paths that may be active in a cycle
  LongestVector, \* bits of the longest one
  KeyStreams,    \* keystreams considered, long enough for all cycles
  ByteBits,      \* bits of a byte: the cipher makes its keystream by bytes
  MaxCycles      \* bound: data cycles

Bits == {0, 1}
BitVectors(n) == [1..n -> Bits]

Scan(r)  == <<"register", r>>
Enter(s) == <<"in", s>>
Leave(s) == <<"out", s>>

\* What a path is made of.
PathItems == {Scan(r) : r \in Registers} \cup {Enter(s) : s \in Streamers}
               \cup {Leave(s) : s \in Streamers}

Position(path, item) == CHOOSE i \in DOMAIN path : path[i] = item
OnPath(path) == {x \in Registers \cup Streamers :
                   \E i \in DOMAIN path : path[i] \in {Scan(x), Enter(x)}}

\* The bits of the registers of a path, in order.
Concatenated(p, value) ==
  FlattenSeq([i \in DOMAIN p |-> IF p[i][1] = "register" THEN value[p[i][2]] ELSE <<>>])

Zeroes(n) == [i \in 1..n |-> 0]
ZeroValues == [r \in Registers |-> Zeroes(Width[r])]

ASSUME NodesAssumption ==
  /\ Width \in [Registers -> Nat \ {0}] /\ Registers \cap Streamers = {}
  /\ Kind \in [Streamers -> {"Trivium", "Transparent"}]

\* A path has every node once, and both ends of a segment or none.
ASSUME PathsAssumption ==
  \A path \in Paths :
    /\ path \in Seq(PathItems) /\ IsInjective(path)
    /\ \A s \in Streamers : Enter(s) \in Range(path) <=> Leave(s) \in Range(path)
    /\ \A s \in Streamers \cap OnPath(path) :
         Position(path, Enter(s)) < Position(path, Leave(s))

\* A cycle takes at most the bits of its vector and a byte from the keystream.
ASSUME KeysAssumption ==
  /\ ByteBits \in Nat \ {0} /\ MaxCycles \in Nat /\ LongestVector \in Nat
  /\ \A path \in Paths : Len(Concatenated(path, ZeroValues)) <= LongestVector
  /\ KeyStreams \subseteq BitVectors(MaxCycles * (LongestVector + ByteBits))

VARIABLES
  phase,      \* "idle", "shift", or "killed" after an exception
  path,       \* the path the cycle under way is about
  next,       \* m_nextToSut of the registers
  lastRead,   \* what the registers have read
  protocol,   \* StreamerProtocol of each streamer: its mask, and the keystream
              \* left over (m_Residual_Xor_Mask) and generated so far
  toSut,      \* the vector sent
  fromSut,    \* what has come out so far
  chain,      \* the cells of the scan chain
  sut,        \* the registers of the SUT
  clocks,     \* clocks each streamer of the SUT has run for
  key,        \* keystream of each streamer
  cycles      \* data cycles made (bound)

sutVars == <<fromSut, chain, sut, clocks>>
vars == <<phase, path, next, lastRead, protocol, toSut, sutVars, key, cycles>>

Init ==
  /\ phase = "idle" /\ path = <<>>
  /\ next = ZeroValues
  /\ lastRead = next /\ sut = next
  /\ protocol = [s \in Streamers |-> [mask |-> <<>>, residual |-> <<>>, generated |-> 0]]
  /\ toSut = <<>> /\ fromSut = <<>> /\ chain = <<>>
  /\ clocks = [s \in Streamers |-> 0]
  /\ key \in [Streamers -> KeyStreams]
  /\ cycles = 0

-------------------------------------------------------------------------------
(* ToSutVisitor, FromSutUpdater *)

\* The bits before an item of a path: where a streamer begins and ends, and the
\* offset of a register.
Offset(p, item) == Len(Concatenated(SubSeq(p, 1, Position(p, item) - 1), next))
Begin(p, s) == Offset(p, Enter(s))
End(p, s)   == Offset(p, Leave(s))

Slice(v, offset, count) == SubSeq(v, offset + 1, offset + count)

\* The slice of each register of a path; the other registers keep their value.
Distributed(p, vector, value) ==
  [r \in Registers |-> IF r \in OnPath(p) THEN Slice(vector, Offset(p, Scan(r)), Width[r])
                       ELSE value[r]]

-------------------------------------------------------------------------------
(* StreamerProtocol *)

\* TRIVIUM_XOR_MASK: the next n bits of the keystream, the first one leftmost.
TRIVIUM_XOR_MASK(s, n) == Slice(key[s], protocol[s].generated, n)

\* Mutant: what is left of the last byte is thrown away.
TriviumNewMaskForgets(s, n) ==
  LET bytes == (n + ByteBits - 1) \div ByteBits
      keys  == TRIVIUM_XOR_MASK(s, bytes * ByteBits)
  IN  [mask |-> Reverse(Slice(keys, 0, n)), residual |-> <<>>,
       generated |-> protocol[s].generated + bytes * ByteBits]

\* The keystream is made by bytes; bits not used yet are kept for the next mask.
\* The mask has the first bit of the keystream last.
TriviumNewMask(s, n) ==
  LET residual == protocol[s].residual
      missing  == IF n > Len(residual) THEN n - Len(residual) ELSE 0
      bytes    == (missing + ByteBits - 1) \div ByteBits
      keys     == residual \o TRIVIUM_XOR_MASK(s, bytes * ByteBits)
  IN  [mask |-> Reverse(Slice(keys, 0, n)), residual |-> Slice(keys, n, Len(keys) - n),
       generated |-> protocol[s].generated + bytes * ByteBits]

NewMask(s, n) ==
  IF Kind[s] = "Trivium" THEN TriviumNewMask(s, n)
  ELSE [protocol[s] EXCEPT !.mask = Zeroes(n)]

ApplyMask(s, text, mask) ==
  [i \in DOMAIN text |-> IF Kind[s] = "Trivium" THEN (text[i] + mask[i]) % 2
                         ELSE IF text[i] + mask[i] > 0 THEN 1 ELSE 0]

-------------------------------------------------------------------------------
(* ApplyStreamer *)

\* Mutant: the bits after the segment are not ciphered a second time.
ApplyStreamerToSutOnce(p, s, vector, mask) ==
  LET protected == End(p, s) - Begin(p, s)
      after     == Len(vector) - End(p, s)
  IN  Slice(vector, 0, Begin(p, s))
        \o ApplyMask(s, Slice(vector, Begin(p, s), protected), Slice(mask, 0, protected))
        \o ApplyMask(s, Slice(vector, End(p, s), after), Slice(mask, protected, after))

\* Bits for the segment pass its entry, bits for what is after it both ends.
ApplyStreamerToSut(p, s, vector, mask) ==
  LET protected == End(p, s) - Begin(p, s)
      after     == Len(vector) - End(p, s)
  IN  Slice(vector, 0, Begin(p, s))
        \o ApplyMask(s, Slice(vector, Begin(p, s), protected), Slice(mask, 0, protected))
        \o ApplyMask(s, ApplyMask(s, Slice(vector, End(p, s), after), Slice(mask, 0, after)),
                     Slice(mask, protected, after))

\* Mutant: the answer is deciphered with the slices used for the vector.
ApplyStreamerFromSutSameEnd(p, s, vector, mask) ==
  LET protected == End(p, s) - Begin(p, s)
  IN  ApplyMask(s, ApplyMask(s, Slice(vector, 0, Begin(p, s)), Slice(mask, 0, Begin(p, s))),
                Slice(mask, protected, Begin(p, s)))
        \o ApplyMask(s, Slice(vector, Begin(p, s), protected), Slice(mask, 0, protected))
        \o Slice(vector, End(p, s), Len(vector) - End(p, s))

\* Bits from the segment have passed its exit, bits from before it both ends.
ApplyStreamerFromSut(p, s, vector, mask) ==
  LET protected == End(p, s) - Begin(p, s)
      before    == Begin(p, s)
      n         == Len(mask)
  IN  ApplyMask(s, ApplyMask(s, Slice(vector, 0, before), Slice(mask, n - before, before)),
                Slice(mask, n - before - protected, before))
        \o ApplyMask(s, Slice(vector, before, protected), Slice(mask, n - protected, protected))
        \o Slice(vector, End(p, s), Len(vector) - End(p, s))

\* The loops over the active streamers, in the order of their ends and back.
StreamersToSut(p, vector, used) ==
  FoldLeft(LAMBDA v, item : IF item[1] = "out"
                              THEN ApplyStreamerToSut(p, item[2], v, used[item[2]].mask) ELSE v,
           vector, p)

StreamersFromSut(p, vector, used) ==
  FoldRight(LAMBDA item, v : IF item[1] = "out"
                               THEN ApplyStreamerFromSut(p, item[2], v, used[item[2]].mask) ELSE v,
            p, vector)

-------------------------------------------------------------------------------
(* DoHierarchicalDataCycle *)

iWrite(r, v) ==
  /\ phase = "idle"
  /\ next' = [next EXCEPT ![r] = v]
  /\ UNCHANGED <<phase, path, lastRead, protocol, toSut, sutVars, key, cycles>>

EmptySegment(p) == \E s \in Streamers \cap OnPath(p) : Begin(p, s) = End(p, s)

\* The vector is built and ciphered, and the protocol begins to shift it.  The
\* registers hold their value, so that all of them send their next one.
SendVector(p) ==
  /\ phase = "idle" /\ cycles < MaxCycles
  /\ Concatenated(p, next) # <<>> /\ ~EmptySegment(p)
  /\ LET plain == Concatenated(p, next)
         used  == [s \in Streamers |-> IF s \in OnPath(p) THEN NewMask(s, Len(plain))
                                       ELSE protocol[s]]
     IN  /\ protocol' = used
         /\ toSut' = StreamersToSut(p, plain, used)
  /\ path' = p /\ phase' = "shift"
  /\ chain' = Concatenated(p, sut) /\ fromSut' = <<>>
  /\ cycles' = cycles + 1
  /\ UNCHANGED <<next, lastRead, sut, clocks, key>>

\* "Protected Segment must have a positive size": the exception ends the cycle,
\* the data cycle loop and the application threads (masks made until then do not
\* matter any more).
SendVectorThrows(p) ==
  /\ phase = "idle" /\ cycles < MaxCycles
  /\ Concatenated(p, next) # <<>> /\ EmptySegment(p)
  /\ phase' = "killed"
  /\ UNCHANGED <<path, next, lastRead, protocol, toSut, sutVars, key, cycles>>

\* The answer is deciphered, last streamer first, and the registers are updated.
ReceiveVector ==
  /\ phase = "shift" /\ Len(fromSut) = Len(toSut)
  /\ lastRead' = Distributed(path, StreamersFromSut(path, fromSut, protocol), lastRead)
  /\ sut' = Distributed(path, chain, sut)
  /\ phase' = "idle" /\ path' = <<>>
  /\ toSut' = <<>> /\ fromSut' = <<>> /\ chain' = <<>>
  /\ UNCHANGED <<next, protocol, clocks, key, cycles>>

-------------------------------------------------------------------------------
(* The SUT (external) *)

\* A bit that moves into cell i + 1 (out of the chain, when there is none)
\* passes the streamers that begin or end there.
Ciphered(bit, i) ==
  FoldSet(LAMBDA s, b : (b + key[s][clocks[s] + 1]) % 2, bit,
          {s \in Streamers \cap OnPath(path) :
             Kind[s] = "Trivium" /\ i \in {Begin(path, s), End(path, s)}})

Clock ==
  /\ phase = "shift" /\ Len(fromSut) < Len(toSut)
  /\ LET n == Len(chain)
     IN  /\ chain' = [i \in 1..n |->
                        Ciphered(IF i = 1 THEN toSut[n - Len(fromSut)] ELSE chain[i - 1], i - 1)]
         /\ fromSut' = <<Ciphered(chain[n], n)>> \o fromSut
  /\ clocks' = [s \in Streamers |-> IF s \in OnPath(path) THEN clocks[s] + 1 ELSE clocks[s]]
  /\ UNCHANGED <<phase, path, next, lastRead, protocol, toSut, sut, key, cycles>>

Next ==
  \/ \E r \in Registers : \E v \in BitVectors(Width[r]) : iWrite(r, v)
  \/ \E p \in Paths : SendVector(p) \/ SendVectorThrows(p)
  \/ Clock \/ ReceiveVector

Spec == Init /\ [][Next]_vars

-------------------------------------------------------------------------------
(* Properties *)

\* Between two cycles the cipher of the model is where the streamer of the SUT
\* is, whatever paths the cycles had: one bit more or less would garble every
\* later cycle.
KeystreamsInStep ==
  phase = "idle" =>
    \A s \in Streamers : Kind[s] = "Trivium" =>
      protocol[s].generated - Len(protocol[s].residual) = clocks[s]

\* After a cycle each register of the path holds the value the model has for it,
\* in front of, within and behind any number of streamers.
SutGetsPlainBits ==
  [][phase = "shift" /\ phase' = "idle"
       => \A r \in Registers \cap OnPath(path) : sut'[r] = next[r]]_vars

\* A register reads what the SUT held, not a ciphered form of it.
ModelReadsPlainBits ==
  [][phase = "shift" /\ phase' = "idle"
       => \A r \in Registers \cap OnPath(path) : lastRead'[r] = sut[r]]_vars
===============================================================================
