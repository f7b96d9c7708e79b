----------------------------- MODULE PathSelector -----------------------------
(***************************************************************************)
(* The coding of the selected paths of a Linker in its mux register         *)
(* (DefaultBinary-, DefaultOneHot- and DefaultNHotPathSelector, over        *)
(* DefaultTableBasedPathSelector).  A bit vector is the set of the positions *)
(* of its ones, so that a bitwise or, and, not are union, intersection and  *)
(* complement.  A selector is a record:                                     *)
(*   kind "Binary", "One_Hot" or "N_Hot";  paths, the number of paths;      *)
(*   width, the bits of the mux register;  none (CanSelectNone), inverted   *)
(*   (InvertedBits) and reverse (ReverseOrder), its properties.             *)
(* Path identifiers start at 1; identifier 0 stands for no path.            *)
(***************************************************************************)
EXTENDS Naturals

Selectors ==
  [ kind : {"Binary", "One_Hot", "N_Hot"}, paths : Nat \ {0}, width : Nat,
    none : BOOLEAN, inverted : BOOLEAN, reverse : BOOLEAN ]

Bits(sel) == 0..(sel.width - 1)
PathIds(sel) == 1..sel.paths

\* The constructors refuse a mux register too short to code every path.
BinaryCheckRegisterLength(sel) == (IF sel.none THEN sel.paths ELSE sel.paths - 1) < 2^sel.width
OneHotCheckRegisterLength(sel) == sel.paths <= sel.width
CheckRegisterLength(sel) ==
  IF sel.kind = "Binary" THEN BinaryCheckRegisterLength(sel) ELSE OneHotCheckRegisterLength(sel)

-------------------------------------------------------------------------------
(* The tables.  N_Hot takes the selection table of One_Hot. *)

BinaryCode(sel, n) == {i \in Bits(sel) : (n \div 2^i) % 2 = 1}
Polarity(sel, v) == IF sel.inverted THEN Bits(sel) \ v ELSE v

BinarySelectTable(sel, p) ==
  Polarity(sel, IF p = 0 THEN {} ELSE BinaryCode(sel, IF sel.none THEN p ELSE p - 1))

OneHotSelectTable(sel, p) ==
  Polarity(sel, IF p = 0 THEN {} ELSE {IF sel.reverse THEN sel.width - p ELSE p - 1})

SelectTable(sel, p) ==
  IF sel.kind = "Binary" THEN BinarySelectTable(sel, p) ELSE OneHotSelectTable(sel, p)

\* The paths have different codes, also from that of no path where it can be
\* selected; a mux register that is long enough makes them so.
CodesDiffer(sel) ==
  \A p, q \in 0..sel.paths :
    p < q /\ (sel.none \/ q > 1) => SelectTable(sel, p) # SelectTable(sel, q)

BinaryDeselectTable(sel, p) == Polarity(sel, {})
OneHotDeselectTable(sel, p) == Polarity(sel, {})
NHotDeselectTable(sel, p) == Bits(sel) \ OneHotSelectTable(sel, p)

\* The mux register as the builder creates it.
BinaryInitialValue(sel) == {}
OneHotInitialValue(sel) ==
  Polarity(sel, IF sel.none THEN {} ELSE {IF sel.reverse THEN sel.paths - 1 ELSE 0})
AssociatedRegisterInitialValue(sel) ==
  IF sel.kind = "Binary" THEN BinaryInitialValue(sel) ELSE OneHotInitialValue(sel)

-------------------------------------------------------------------------------
(* Path p is selected by the value v of the mux register.  IsActive asks it   *)
(* of the last value sent, IsSelected of the next one.                        *)

TableSelects(sel, v, p) == v = SelectTable(sel, p)

NHotSelects(sel, v, p) ==
  LET mask == OneHotSelectTable(sel, p)
  IN  IF sel.inverted THEN v \cup mask = mask ELSE v \cap mask = mask

Selects(sel, v, p) ==
  IF sel.kind = "N_Hot" THEN NHotSelects(sel, v, p) ELSE TableSelects(sel, v, p)

-------------------------------------------------------------------------------
(* The value of the mux register after Select or Deselect of path p, v being  *)
(* its value before.                                                          *)

OneHotSelect(sel, p) == OneHotSelectTable(sel, IF ~sel.none /\ p = 0 THEN 1 ELSE p)

NHotSelect(sel, v, p) ==
  LET mask == OneHotSelectTable(sel, p)
  IN  IF p = 0 THEN mask ELSE IF sel.inverted THEN v \cap mask ELSE v \cup mask

Select(sel, v, p) ==
  CASE sel.kind = "Binary"  -> BinarySelectTable(sel, p)
    [] sel.kind = "One_Hot" -> OneHotSelect(sel, p)
    [] sel.kind = "N_Hot"   -> NHotSelect(sel, v, p)

\* A selector that cannot select none selects its first path instead.
TableDeselect(sel, p) ==
  LET code == IF sel.kind = "Binary" THEN BinaryDeselectTable(sel, p)
                                     ELSE OneHotDeselectTable(sel, p)
  IN  IF ~sel.none /\ code = SelectTable(sel, 0) THEN SelectTable(sel, 1) ELSE code

NHotDeselect(sel, v, p) ==
  LET mask == NHotDeselectTable(sel, p)
      code == IF sel.inverted THEN v \cup mask ELSE v \cap mask
  IN  IF ~sel.none /\ code = OneHotSelectTable(sel, 0) THEN OneHotSelectTable(sel, 1) ELSE code

Deselect(sel, v, p) ==
  IF sel.kind = "N_Hot" THEN NHotDeselect(sel, v, p) ELSE TableDeselect(sel, p)
===============================================================================
