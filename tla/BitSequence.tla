----------------------------- MODULE BitSequence -----------------------------
(***************************************************************************)
(* What a vector of bits is to the callers of class BinaryVector: a finite   *)
(* sequence of bits, the leftmost one at offset 0.  Each operator is the    *)
(* effect one group of member functions is documented to have.  The byte    *)
(* level of module BinaryVector is checked against these definitions, and   *)
(* module VirtualRegister is written on top of them.                        *)
(***************************************************************************)
EXTENDS Integers, Sequences

Bit == {0, 1}

BitSeqs(n)    == [1 .. n -> Bit]
BitSeqsTo(n)  == UNION {BitSeqs(k) : k \in 0 .. n}
Repeat(b, n)  == [i \in 1 .. n |-> b]
Flip(s)       == [i \in DOMAIN s |-> 1 - s[i]]
AndBits(s, t) == [i \in DOMAIN s |-> s[i] * t[i]]
XorBits(s, t) == [i \in DOMAIN s |-> (s[i] + t[i]) % 2]
OrBits(s, t)  == [i \in DOMAIN s |-> IF s[i] + t[i] = 0 THEN 0 ELSE 1]

\* The n bits that start at offset o, and the same bits the other way round.
BitsAt(s, o, n)         == SubSeq(s, o + 1, o + n)
BitsAtReversed(s, o, n) == [i \in 1 .. n |-> s[o + n + 1 - i]]

\* s with the bits from offset o on replaced by those of t.
Overwrite(s, o, t) ==
  [i \in DOMAIN s |-> IF i \in o + 1 .. o + Len(t) THEN t[i - o] ELSE s[i]]

\* The n least significant bits of s, s being extended on its left with fill
\* when it is shorter.
LowBits(s, n, fill) ==
  [i \in 1 .. n |-> IF i + Len(s) > n THEN s[i + Len(s) - n] ELSE fill]

\* a and b agree on every bit the mask cares for.
AgreeUnder(a, b, mask) ==
  Len(a) = Len(b) /\ \A i \in DOMAIN a : mask[i] = 1 => a[i] = b[i]
===============================================================================
