--------------------------- MODULE MCVirtualRegister ---------------------------
(***************************************************************************)
(* Two registers of three bits and one bit, and five views: the large        *)
(* register alone, both registers, the large one cut around the small one,   *)
(* two bits that overlap the others, and a view that has a bit twice.        *)
(***************************************************************************)
EXTENDS VirtualRegister

CONSTANTS big, small, whole, both, cut, part, twice

MCWidth(r) == IF r = big THEN 3 ELSE 1

MCSlice(r, low, high, o) ==
  IF o = "Upto" THEN [reg |-> r, left |-> low, right |-> high]
  ELSE [reg |-> r, left |-> high, right |-> low]

MCSlices(v, o) ==
  CASE v = whole -> <<MCSlice(big, 0, 2, o)>>
    [] v = both  -> <<MCSlice(small, 0, 0, o), MCSlice(big, 0, 2, o)>>
    [] v = cut   -> <<MCSlice(big, 0, 0, o), MCSlice(small, 0, 0, o), MCSlice(big, 1, 2, o)>>
    [] v = part  -> <<MCSlice(big, 1, 2, o)>>
    [] v = twice -> <<MCSlice(big, 0, 1, o), MCSlice(big, 1, 2, o)>>

\* Values with at most one bit set tell every position from every other.
MCSamples(n) == {s \in BitSeqs(n) : \A i, j \in 1 .. n : s[i] = 1 /\ s[j] = 1 => i = j}

\* No mask, all the bits, and all but the first.
MCMasks(n) == {<<>>, Repeat(1, n), [Repeat(1, n) EXCEPT ![1] = 0]}

\* The views that are read are those MismatchIffWrong is proved for.
ASSUME MCReadsCover == ReadsCover
================================================================================
