----------------------------- MODULE MCScanNetwork -----------------------------
(***************************************************************************)
(* Small scan networks for TLC.                                             *)
(***************************************************************************)
EXTENDS ScanNetwork, TLC

Selector(kind, paths, width, none, inverted, reverse) ==
  [kind |-> kind, paths |-> paths, width |-> width, none |-> none,
   inverted |-> inverted, reverse |-> reverse]

Sib(inverted) == Selector("N_Hot", 1, 1, TRUE, inverted, FALSE)

\* A SIB within a SIB, the mux of the outer one before its linker and the mux
\* of the inner one after its linker; a register at each level.
\*   s1, L1 { a, L2 { b }, s2 }
NestedSibs(inverted) ==
  [ regs |-> {"s1", "s2", "a", "b"}, linkers |-> {"L1", "L2"},
    mux |-> [l \in {"L1", "L2"} |-> IF l = "L1" THEN "s1" ELSE "s2"],
    sel |-> [l \in {"L1", "L2"} |-> Sib(inverted)],
    keepOpen |-> {},
    above |-> [r \in {"s1", "s2", "a", "b"} |->
                 CASE r = "s1" -> {}
                   [] r = "b"  -> {<<"L1", 1>>, <<"L2", 1>>}
                   [] OTHER    -> {<<"L1", 1>>}],
    channel |-> [r \in {"s1", "s2", "a", "b"} |-> 1], channels |-> 1,
    init |-> [r \in {"s1", "s2", "a", "b"} |->
                IF r \in {"s1", "s2"} THEN AssociatedRegisterInitialValue(Sib(inverted))
                ELSE {}],
    visits |-> << RegisterVisit("s1"), RegisterVisit("a"), RegisterVisit("b"),
                  PathVisit("L2", 1), LinkerVisit("L2"), RegisterVisit("s2"),
                  PathVisit("L1", 1), LinkerVisit("L1") >> ]

\* One linker with two paths, its mux m always on the path.   m, L { a | b }
TwoPaths(sel, keep) ==
  [ regs |-> {"m", "a", "b"}, linkers |-> {"L"},
    mux |-> [l \in {"L"} |-> "m"], sel |-> [l \in {"L"} |-> sel],
    keepOpen |-> keep,
    above |-> [r \in {"m", "a", "b"} |->
                 CASE r = "m" -> {} [] r = "a" -> {<<"L", 1>>} [] r = "b" -> {<<"L", 2>>}],
    channel |-> [r \in {"m", "a", "b"} |-> 1], channels |-> 1,
    init |-> [r \in {"m", "a", "b"} |->
                IF r = "m" THEN AssociatedRegisterInitialValue(sel) ELSE {}],
    visits |-> << RegisterVisit("m"), RegisterVisit("a"), PathVisit("L", 1),
                  RegisterVisit("b"), PathVisit("L", 2), LinkerVisit("L") >> ]

\* A JTAG TAP: the instruction register drives, on the other channel, the
\* linker between the bypass register a and the chain b.
Tap == [TwoPaths(Selector("Binary", 2, 1, FALSE, FALSE, FALSE), {"L"}) EXCEPT
          !.channel = [r \in {"m", "a", "b"} |-> IF r = "m" THEN 1 ELSE 2], !.channels = 2]

\* The inner linker of the fourth one is to be kept open (SetKeepOpen), and its mux
\* is visited after it.
MCNetworks ==
  { NestedSibs(FALSE), NestedSibs(TRUE), Tap,
    [NestedSibs(FALSE) EXCEPT !.keepOpen = {"L2"}],
    TwoPaths(Selector("Binary", 2, 2, TRUE, FALSE, FALSE), {}),
    TwoPaths(Selector("One_Hot", 2, 2, TRUE, FALSE, TRUE), {"L"}),
    TwoPaths(Selector("One_Hot", 2, 2, FALSE, TRUE, FALSE), {}),
    TwoPaths(Selector("N_Hot", 2, 2, TRUE, FALSE, FALSE), {}),
    TwoPaths(Selector("N_Hot", 2, 2, TRUE, TRUE, TRUE), {"L"}) }
===============================================================================
