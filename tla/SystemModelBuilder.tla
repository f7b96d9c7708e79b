-------------------------- MODULE SystemModelBuilder --------------------------
(***************************************************************************)
(* The macros of SystemModelBuilder: TAPs, SIBs and wrappers made of several *)
(* nodes, TAPs merged into a daisy chain or moved below a Brocade.  Callers   *)
(* build with them in any order and append what they built; they no longer   *)
(* use a TAP that was merged or moved.  In the end they may append something *)
(* that is in the tree already, or a register that cannot be registered, and *)
(* have the model checked.                                                   *)
(***************************************************************************)
EXTENDS SystemModelChecker

CONSTANTS
  MaxCalls,   \* bound: calls of the builder and appends
  MaxTaps     \* bound: TAPs moved below one Brocade

ASSUME BuilderAssumption == MaxCalls \in Nat /\ MaxTaps \in 1 .. 5

VARIABLES
  handles,    \* the top nodes of what the macros returned
  calls,      \* calls so far (bound)
  misused     \* something was appended that must not be: the last call

builderVars == <<vars, handles, calls, misused>>

-------------------------------------------------------------------------------
(* The macros, as functions of the model *)

NextNode(m) == Len(m.kind) + 1

Appended(m, p, c) == [m EXCEPT !.tree = AppendChild(@, p, c)]

WithChildAppender(m, p, a) == [m EXCEPT !.tree.appender[p] = a]

Removed(m, n) == [m EXCEPT !.ids[n] = 0]

\* Mutant: appends are not forwarded to the linker.
JtagTapNotForwarded(m) ==
  LET ai == NextNode(m)
  IN  Created(Created(Created(Created(m, "AccessInterface", 0), "Register", ai), "Linker", ai),
              "Register", ai + 2)

\* The TAP, its instruction register, its linker, and the bypass register below.
JtagTap(m) ==
  LET ai     == NextNode(m)
      linker == ai + 2
      top    == Created(Created(m, "AccessInterface", 0), "Register", ai)
  IN  WithChildAppender(Created(Created(top, "Linker", ai), "Register", linker), ai, linker)

\* The chain is the next node, the linker the one after it.
Mib(m, register, placement) ==
  LET mib    == NextNode(m)
      linker == mib + 1
      made   == Created(Created(m, "Chain", 0), "Linker", 0)
      filled == CASE placement = "AfterMux"  -> Appended(Appended(made, mib, linker), mib, register)
                  [] placement = "BeforeMux" -> Appended(Appended(made, mib, register), mib, linker)
                  [] OTHER                   -> Appended(made, mib, linker)
  IN  WithChildAppender(filled, mib, linker)

\* Create_PathSelector makes the register of the selector, without a parent.
MibWithRegister(m, placement) == Mib(Created(m, "Register", 0), NextNode(m), placement)

Sib(m, placement) == MibWithRegister(m, placement)

\* Nodes: the wrapper, SWIR register, SWIR chain and linker, WIR register, WIR
\* chain and linker, WBY.
Wrapper(m) ==
  LET wrapper == NextNode(m)
      swirMib == wrapper + 2
      wirReg  == wrapper + 4
      wirMib  == wrapper + 5
      swir    == Appended(MibWithRegister(Created(m, "Chain", 0), "BeforeMux"), wrapper, swirMib)
      wir     == Created(MibWithRegister(swir, "Remote"), "Register", wirMib)
  IN  WithChildAppender(Appended(Appended(wir, swirMib, wirMib), swirMib, wirReg), wrapper, wirMib)

-------------------------------------------------------------------------------
(* Merging TAPs *)

KindsOf(list) == {kind[n] : n \in ToSet(list)}

\* AssessAccessInterfaceType.
IsJtagTap(ai) ==
  LET c == Children(tree, ai)
  IN  kind[ai] = "AccessInterface" /\ Len(c) = 2 /\ kind[c[1]] = "Register" /\ kind[c[2]] = "Linker"

IsChainedJtagTap(ai) ==
  LET c == Children(tree, ai)
  IN  /\ kind[ai] = "AccessInterface" /\ Len(c) = 2 /\ kind[c[1]] = "Chain" /\ kind[c[2]] = "Chain"
      /\ KindsOf(Children(tree, c[1])) = {"Register"} /\ KindsOf(Children(tree, c[2])) = {"Linker"}

Channel(m, p, i) == Children(m.tree, p)[i]

Disconnected(m, p, c) == [m EXCEPT !.tree = DisconnectSibling(@, p, c)]

\* Mutant: the first channel is disconnected first.
TakenApartInOrder(m, tap) ==
  Disconnected(Disconnected(m, tap, Channel(m, tap, 1)), tap, Channel(m, tap, 2))

\* DisconnectChannel(2), then DisconnectChannel(1).
TakenApart(m, tap) ==
  Disconnected(Disconnected(m, tap, Channel(m, tap, 2)), tap, Channel(m, tap, 1))

\* tap1 becomes a daisy chain of its own.
Prepared(m, tap1) ==
  LET ir    == Channel(m, tap1, 1)
      mux   == Channel(m, tap1, 2)
      chain == NextNode(m)
      made  == Created(Created(TakenApart(m, tap1), "Chain", tap1), "Chain", tap1)
  IN  WithChildAppender(Appended(Appended(made, chain, ir), chain + 1, mux), tap1, mux)

Chained(m, tap1, tap2) ==
  LET first == IF IsJtagTap(tap1) THEN Prepared(m, tap1) ELSE m
      ir    == Channel(m, tap2, 1)
      mux   == Channel(m, tap2, 2)
      apart == TakenApart(first, tap2)
  IN  Removed(Appended(Appended(apart, Channel(first, tap1, 1), ir), Channel(first, tap1, 2), mux), tap2)

\* Mutant: the control register is put below the translator, before the interfaces.
BrocadeFrameRegisterFirst(m) ==
  LET top   == NextNode(m)
      reg   == Created(Created(m, "AccessInterfaceTranslator", 0), "Register", top)
      ais   == Created(Created(reg, "AccessInterface", top), "AccessInterface", top)
      muxes == Created(Created(Created(Created(ais, "Chain", top + 2), "Chain", top + 2),
                               "Linker", top + 4), "Linker", top + 5)
  IN  WithChildAppender(WithChildAppender(muxes, top + 4, top + 6), top + 5, top + 7)

\* Nodes: the translator, master and slave interfaces, the control register, the
\* chains of the IRs and of the DRs, and their linkers.
BrocadeFrame(m) ==
  LET top   == NextNode(m)
      ais   == Created(Created(Created(m, "AccessInterfaceTranslator", 0), "AccessInterface", top),
                       "AccessInterface", top)
      frame == Created(Created(Created(ais, "Register", top + 1), "Chain", top + 2), "Chain", top + 2)
      muxes == Created(Created(frame, "Linker", top + 4), "Linker", top + 5)
  IN  WithChildAppender(WithChildAppender(muxes, top + 4, top + 6), top + 5, top + 7)

\* A TAP is taken apart below the linkers of the Brocade.
Moved(m, top, tap) ==
  LET ir  == Channel(m, tap, 1)
      mux == Channel(m, tap, 2)
  IN  Removed(Appended(Appended(TakenApart(m, tap), top + 6, ir), top + 7, mux), tap)

Brocade(m, taps) == FoldLeft(LAMBDA b, tap : Moved(b, NextNode(m), tap), BrocadeFrame(m), taps)

-------------------------------------------------------------------------------
(* Calls *)

BuilderInit == Init /\ handles = {} /\ calls = 0 /\ misused = FALSE

\* A call that makes count new nodes.
Call(count) ==
  /\ calls < MaxCalls /\ Len(kind) + count <= MaxNodes /\ ~misused
  /\ calls' = calls + 1 /\ UNCHANGED <<disconnects, misused>>

\* A macro returns the node top.
Makes(m, top) == Becomes(m) /\ handles' = handles \cup {top}

Create_JTAG_TAP == Call(4) /\ Makes(JtagTap(Model), NextNode(Model))

Create_SIB(placement) == Call(3) /\ Makes(Sib(Model, placement), NextNode(Model) + 1)

Create_1500_Wrapper == Call(8) /\ Makes(Wrapper(Model), NextNode(Model))

\* AppendRegisters, with a count of one.
AppendRegisters(h) ==
  /\ Call(1)
  /\ Becomes(Created(Model, "Register", h))
  /\ UNCHANGED handles

InTree(h, c) == IsAttached(c) \/ c = root \/ h \in Below(tree, c)

\* A sub-tree is appended to another one.
AppendBuilt(h, c) ==
  /\ Call(0) /\ kind[c] = "Chain" /\ ~InTree(h, c)
  /\ Becomes(Appended(Model, h, c))
  /\ UNCHANGED handles

\* A sub-tree that is in the tree already is appended once more: to the same
\* parent, to another one, or below itself.
AppendAgain(h, c) ==
  /\ ~misused /\ kind[c] = "Chain" /\ InTree(h, c)
  /\ misused' = TRUE
  /\ Becomes(Appended(Model, h, c))
  /\ UNCHANGED <<disconnects, handles, calls>>

\* A node made without the SystemModel has taken an identifier: the registration
\* of the register that is appended next throws, when it is in the tree.
AppendUnregistered(h) ==
  /\ ~misused /\ Len(kind) + 2 <= MaxNodes
  /\ misused' = TRUE
  /\ Becomes(Created([Model EXCEPT !.kind = Append(@, "Register")], "Register", h))
  /\ UNCHANGED <<disconnects, handles, calls>>

DaisyChain_JTAG_TAPS(tap1, tap2) ==
  /\ Call(IF IsJtagTap(tap1) THEN 2 ELSE 0) /\ tap1 # tap2
  /\ IsJtagTap(tap1) \/ IsChainedJtagTap(tap1)
  /\ IsJtagTap(tap2)
  /\ Becomes(Chained(Model, tap1, tap2))
  /\ handles' = handles \ {tap2}

Create_Brocade(taps) ==
  /\ Call(8) /\ \A i \in DOMAIN taps : IsJtagTap(taps[i])
  /\ Becomes(Brocade(Model, taps))
  /\ handles' = (handles \cup {NextNode(Model)}) \ ToSet(taps)

\* Callers set the root once they have built the model.
SetRoot(h) ==
  /\ Call(0) /\ h # root /\ ~IsAttached(h)
  /\ root' = h
  /\ UNCHANGED <<kind, tree, identifierMapping, handles>>

TapLists == {taps \in UNION {[1 .. k -> handles] : k \in 1 .. MaxTaps} : IsInjective(taps)}

BuilderNext ==
  \/ Create_JTAG_TAP \/ Create_1500_Wrapper
  \/ \E placement \in {"AfterMux", "BeforeMux"} : Create_SIB(placement)
  \/ \E h \in handles : AppendRegisters(h) \/ AppendUnregistered(h) \/ SetRoot(h)
  \/ \E h, c \in handles : AppendBuilt(h, c) \/ AppendAgain(h, c) \/ DaisyChain_JTAG_TAPS(h, c)
  \/ \E taps \in TapLists : Create_Brocade(taps)

BuilderSpec == BuilderInit /\ [][BuilderNext]_builderVars

-------------------------------------------------------------------------------
(* Properties *)

ParentsOf(n) == {p \in Parents : n \in ToSet(Children(tree, p))}

\* Whatever the macros take apart and put together again: every list of children
\* ends, no node has two parents, and what is not a top node callers have has
\* one.  A TAP that was merged or moved is left without children and parent.
BuiltIsForest == ~misused =>
  /\ ListsEnd
  /\ \A n \in Constructed :
       /\ n \notin Closure(tree, ToSet(Children(tree, n)))
       /\ Cardinality(ParentsOf(n)) <= 1
       /\ Managed(n) => n \in handles \/ ParentsOf(n) # {}
       /\ ~Managed(n) => ParentsOf(n) = {} /\ Children(tree, n) = <<>>

UnderLinker(t, h, n) ==
  \E p \in Below(t, h) \cap Constructed : kind[p] = "Linker" /\ n \in ToSet(Children(t, p))

\* What callers append to a TAP, a daisy chain, a SIB or a wrapper becomes a
\* selectable path: it is put below a linker, inside what it was appended to.
AppendsReachLinker ==
  [][\A h \in {g \in handles : kind[g] # "AccessInterfaceTranslator"} :
       /\ AppendRegisters(h) => UnderLinker(tree', h, Len(kind'))
       /\ \A c \in handles : AppendBuilt(h, c) => UnderLinker(tree', h, c)]_builderVars

LinkersFit == \A n \in Constructed :
  kind[n] = "Linker" => Len(Children(tree, n)) <= SelectablePaths

Complete ==
  root # 0 /\ kind[root] \in Interfaces /\ {n \in Constructed : Managed(n)} \subseteq Reachable

\* A model with nothing dangling, and no more below a linker than it can select,
\* passes the check of SystemModelChecker.
BuiltPassesCheck ==
  ~misused /\ LinkersFit /\ Complete => Check.fate = "running" /\ Check.errors = {}
===============================================================================
