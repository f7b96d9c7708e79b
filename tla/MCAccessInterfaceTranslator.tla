---------------------- MODULE MCAccessInterfaceTranslator ----------------------
(* Instances of AccessInterfaceTranslator for TLC. *)
EXTENDS AccessInterfaceTranslator

CONSTANTS top, t1, a1, a2

\* An access interface and, beside it, a translator over another one.
MCChildren == [t \in {top, t1} |-> IF t = top THEN <<a1, t1>> ELSE <<a2>>]
MCBelow    == [t \in {top, t1} |-> IF t = top THEN {a1, a2} ELSE {a2}]
MCOrder    == <<a1, a2>>
MCKind     == [n \in {t1, a1, a2} |-> IF n = t1 THEN "JTAG_to_I2C" ELSE "SVF"]
MCRunLoops == {<<a1, 1>>}
===============================================================================
