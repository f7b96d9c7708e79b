------------------------------ MODULE ScanNetwork ------------------------------
(***************************************************************************)
(* The data cycles of the manager on a reconfigurable scan network:         *)
(* DoDataCycles_Impl with ConfigureVisitor, the configuration algorithms,   *)
(* PropagatePendingVisitor, ToSutVisitor and FromSutUpdater.                *)
(*                                                                         *)
(* A network is the tree of the system model, flattened.  Its registers are *)
(* the leaves; above[r] holds the pairs <<linker, path>> passed from the    *)
(* root to r; visits is the order in which ConfigureVisitor gets to a       *)
(* register, to a path of a linker (after all that is below the path) and   *)
(* to the last decision about a linker (after its paths).  Chains and       *)
(* access interfaces only add up the pending counts below them and are left *)
(* out, except that the children of an access interface are the channels    *)
(* that are shifted one after the other.                                    *)
(***************************************************************************)
EXTENDS Naturals, Sequences, FiniteSets, PathSelector

CONSTANTS
  Networks,       \* the networks considered
  Algorithms,     \* the configuration algorithms considered
  Width,          \* bits of the widest register
  MaxRequests     \* bound: requests by the application threads

\* The bit vectors registers hold, as sets of bit positions.
Vectors == SUBSET (0..(Width - 1))

R == INSTANCE Register WITH Values <- Vectors

ConfigureAlgorithms ==
  {"none", "last_or_default", "last_or_default_greedy", "last_lazy", "close_all"}

RegisterVisit(r) == <<"register", r>>
PathVisit(l, p) == <<"path", l, p>>
LinkerVisit(l) == <<"linker", l>>

\* The visits ConfigureVisitor makes of a network.
Visits(n) ==
  {RegisterVisit(r) : r \in n.regs}
    \cup {LinkerVisit(l) : l \in n.linkers}
    \cup (UNION {{PathVisit(l, p) : p \in PathIds(n.sel[l])} : l \in n.linkers})

\* When a visit is made.
At(n, v) == CHOOSE i \in DOMAIN n.visits : n.visits[i] = v

\* What ConfigureVisitor relies on: it visits each node once, children before
\* parents; a linker has a mux register of its own, and the paths above that
\* register are tallied after the linker has set it.  (Two linkers with one mux
\* undo each other's selections for ever.)
WellFormed(n) ==
  /\ n.visits \in Seq(Visits(n)) /\ Visits(n) = {n.visits[i] : i \in DOMAIN n.visits}
  /\ \A i, j \in DOMAIN n.visits : n.visits[i] = n.visits[j] => i = j
  /\ \A r \in n.regs : \A a \in n.above[r] :
       /\ a[1] \in n.linkers /\ a[2] \in PathIds(n.sel[a[1]])
       /\ At(n, RegisterVisit(r)) < At(n, PathVisit(a[1], a[2]))
  /\ \A l \in n.linkers :
       /\ n.sel[l] \in Selectors /\ CheckRegisterLength(n.sel[l]) /\ CodesDiffer(n.sel[l])
       /\ n.sel[l].width <= Width
       /\ \A p \in PathIds(n.sel[l]) :
            /\ At(n, PathVisit(l, p)) < At(n, LinkerVisit(l))
            /\ p > 1 => At(n, PathVisit(l, p - 1)) < At(n, PathVisit(l, p))
       /\ \A a \in n.above[n.mux[l]] : At(n, LinkerVisit(l)) < At(n, PathVisit(a[1], a[2]))
       /\ \A k \in n.linkers : n.mux[k] = n.mux[l] => k = l
  /\ n.init \in [n.regs -> Vectors] /\ n.mux \in [n.linkers -> n.regs]
  /\ n.channel \in [n.regs -> 1..n.channels]

ASSUME NetworksAssumption ==
  /\ \A n \in Networks : WellFormed(n)
  /\ Algorithms \subseteq ConfigureAlgorithms
  /\ MaxRequests \in Nat /\ Width \in Nat \ {0}

VARIABLES
  net, algorithm, \* the network and the algorithm; they never change
  phase,          \* where DoDataCycles_Impl is
  visit,          \* the visit ConfigureVisitor is at
  todo,           \* pending channels the cycle has not visited
  reg,            \* the registers of the system model
  sut,            \* the content of the registers of the SUT
  requests,       \* requests made (bound)
  wanted          \* history: the value last requested for each register

vars == <<net, algorithm, phase, visit, todo, reg, sut, requests, wanted>>

\* "idle" out of DoDataCycles_Impl, "between" two cycles with the mutex unlocked.
Phases == {"idle", "between", "configure", "shift"}

Muxes == {net.mux[l] : l \in net.linkers}
DataRegs == net.regs \ Muxes

Init ==
  /\ net \in Networks /\ algorithm \in Algorithms
  /\ phase = "idle" /\ visit = 1 /\ todo = {}
  /\ reg = [r \in net.regs |-> R!NewRegister(net.init[r], {})]
  /\ sut = net.init /\ wanted = net.init
  /\ requests = 0

-------------------------------------------------------------------------------
(* Requests of the application threads, whenever the mutex is free *)

iWrite(r, v) ==
  /\ phase \in {"idle", "between"} /\ requests < MaxRequests
  /\ requests' = requests + 1
  /\ reg' = [reg EXCEPT ![r] = R!SetToSut(@, v, TRUE)]
  /\ wanted' = [wanted EXCEPT ![r] = v]
  /\ UNCHANGED <<net, algorithm, phase, visit, todo, sut>>

iRefresh(r) ==
  /\ phase \in {"idle", "between"} /\ requests < MaxRequests
  /\ requests' = requests + 1
  /\ reg' = [reg EXCEPT ![r] = R!SetPendingForRead(@)]
  /\ UNCHANGED <<net, algorithm, phase, visit, todo, sut, wanted>>

-------------------------------------------------------------------------------
(* Linker *)

\* Mutant: activity is read from the value about to be sent.
IsActiveTooEarly(l, p) == Selects(net.sel[l], reg[net.mux[l]].next, p)

IsActive(l, p) == Selects(net.sel[l], reg[net.mux[l]].last, p)
IsSelected(l, p) == Selects(net.sel[l], reg[net.mux[l]].next, p)

\* SetToSut and SetPending on the mux register, when its value changes.
SetMux(l, v) ==
  IF reg[net.mux[l]].next = v THEN UNCHANGED reg
  ELSE reg' = [reg EXCEPT ![net.mux[l]] =
                 [R!SetToSut(@, v, TRUE) EXCEPT !.pendingWrite = TRUE]]

LinkerSelect(l, p) ==
  IF p = 0 /\ R!IsPending(reg[net.mux[l]]) THEN UNCHANGED reg
  ELSE SetMux(l, Select(net.sel[l], reg[net.mux[l]].next, p))

LinkerDeselect(l, p) == SetMux(l, Deselect(net.sel[l], reg[net.mux[l]].next, p))

PendingBelow(l, p) == {r \in net.regs : <<l, p>> \in net.above[r] /\ R!IsPending(reg[r])}
PendingCount(l) == Cardinality(UNION {PendingBelow(l, p) : p \in PathIds(net.sel[l])})

-------------------------------------------------------------------------------
(* Configuration algorithms *)

\* Mutant: a pending path is selected only when no other one is active.
ProcessPendingFirst(l, p) ==
  IF \E q \in PathIds(net.sel[l]) : IsActive(l, q) THEN UNCHANGED reg ELSE LinkerSelect(l, p)

LastOrDefaultProcessPending(l, p) ==
  IF IsActive(l, p) THEN UNCHANGED reg ELSE LinkerSelect(l, p)

\* An active path is served by the shift of this cycle and can be closed at once.
CloseAllProcessPending(l, p) ==
  IF ~IsActive(l, p) THEN LinkerSelect(l, p)
  ELSE IF l \in net.keepOpen THEN UNCHANGED reg ELSE LinkerDeselect(l, p)

ProcessPending(l, p) ==
  CASE algorithm = "none"      -> LinkerSelect(l, p)
    [] algorithm = "close_all" -> CloseAllProcessPending(l, p)
    [] OTHER                   -> LastOrDefaultProcessPending(l, p)

LastOrDefaultResolvePendings(l) ==
  IF PendingCount(l) = 0 THEN LinkerSelect(l, 0) ELSE UNCHANGED reg

GreedyResolvePendings(l) ==
  IF \/ PendingCount(l) = 0
     \/ /\ PendingCount(l) = 1
        /\ \E p \in PathIds(net.sel[l]) : IsSelected(l, p) /\ IsActive(l, p)
  THEN LinkerSelect(l, 0) ELSE UNCHANGED reg

ResolvePendings(l) ==
  CASE algorithm \in {"last_lazy", "close_all"}   -> UNCHANGED reg
    [] algorithm = "last_or_default_greedy"       -> GreedyResolvePendings(l)
    [] algorithm \in {"none", "last_or_default"}  -> LastOrDefaultResolvePendings(l)

-------------------------------------------------------------------------------
(* DoDataCycles_Impl *)

\* The manager calls it because of a thread pending in iApply.
StartDataCycles ==
  /\ phase = "idle"
  /\ \E r \in net.regs : reg[r].next # reg[r].last \/ reg[r].pendingRead
  /\ phase' = "between"
  /\ UNCHANGED <<net, algorithm, visit, todo, reg, sut, requests, wanted>>

StartConfiguration ==
  /\ phase = "between"
  /\ phase' = "configure" /\ visit' = 1
  /\ UNCHANGED <<net, algorithm, todo, reg, sut, requests, wanted>>

VisitRegister(r) == reg' = [reg EXCEPT ![r] = R!MarkPendingWrite(@)]

\* Mutant: a path without pending register stays selected.
VisitPathOpen(l, p) ==
  IF PendingBelow(l, p) # {} THEN ProcessPending(l, p) ELSE UNCHANGED reg

VisitPath(l, p) ==
  IF PendingBelow(l, p) # {} THEN ProcessPending(l, p)
  ELSE IF IsSelected(l, p) /\ l \notin net.keepOpen THEN LinkerDeselect(l, p)
  ELSE UNCHANGED reg

Configure ==
  /\ phase = "configure" /\ visit <= Len(net.visits)
  /\ LET v == net.visits[visit]
     IN  CASE v[1] = "register" -> VisitRegister(v[2])
           [] v[1] = "path"     -> VisitPath(v[2], v[3])
           [] v[1] = "linker"   -> ResolvePendings(v[2])
  /\ visit' = visit + 1
  /\ UNCHANGED <<net, algorithm, phase, todo, sut, requests, wanted>>

\* PropagatePendingVisitor only adds pending marks.  Then the pending channels
\* are shifted, or there are none and the cycles are over.
PropagatePending ==
  /\ phase = "configure" /\ visit > Len(net.visits)
  /\ reg' = [r \in net.regs |->
               IF reg[r].next # reg[r].last THEN [reg[r] EXCEPT !.pendingWrite = TRUE]
               ELSE reg[r]]
  /\ todo' = {net.channel[r] : r \in {q \in net.regs : R!IsPending(reg'[q])}}
  /\ phase' = IF todo' = {} THEN "idle" ELSE "shift"
  /\ UNCHANGED <<net, algorithm, visit, sut, requests, wanted>>

\* The registers ToSutVisitor meets on channel c.
ActiveRegisters(c) ==
  {r \in net.regs : net.channel[r] = c /\ \A a \in net.above[r] : IsActive(a[1], a[2])}

\* DoHierarchicalDataCycle on the next pending channel; an empty vector is not sent.
ShiftChannel(c) ==
  /\ phase = "shift" /\ c \in todo /\ \A d \in todo : c <= d
  /\ LET active == ActiveRegisters(c)
     IN  /\ reg' = [r \in net.regs |->
                      IF r \in active THEN R!UpdateRegister(reg[r], sut[r]) ELSE reg[r]]
         /\ sut' = [r \in net.regs |-> IF r \in active THEN R!ToSutBits(reg[r]) ELSE sut[r]]
  /\ todo' = todo \ {c}
  /\ UNCHANGED <<net, algorithm, phase, visit, requests, wanted>>

EndDataCycle ==
  /\ phase = "shift" /\ todo = {}
  /\ phase' = "between"
  /\ UNCHANGED <<net, algorithm, visit, todo, reg, sut, requests, wanted>>

DataCycleStep ==
  \/ StartDataCycles \/ StartConfiguration \/ Configure \/ PropagatePending
  \/ \E c \in 1..net.channels : ShiftChannel(c)
  \/ EndDataCycle

Request ==
  \E r \in DataRegs : iRefresh(r) \/ \E v \in {{}, {0}} : iWrite(r, v)

Next == DataCycleStep \/ Request

Spec == Init /\ [][Next]_vars

\* The thread that runs the data cycles is scheduled.
FairSpec == Spec /\ WF_vars(DataCycleStep)

-------------------------------------------------------------------------------
(* Properties *)

\* Every variable has its type.
TypeOK ==
  /\ net \in Networks /\ algorithm \in Algorithms
  /\ phase \in Phases /\ visit \in Nat \ {0} /\ todo \subseteq 1..net.channels
  /\ reg \in [net.regs -> R!RegisterType]
  /\ sut \in [net.regs -> Vectors] /\ wanted \in [net.regs -> Vectors]
  /\ requests \in Nat

\* The registers on the scan path of the SUT, by the mux registers of the SUT.
SutPath == {r \in net.regs : \A a \in net.above[r] :
                               Selects(net.sel[a[1]], sut[net.mux[a[1]]], a[2])}

\* ToSutVisitor finds the active path in the system model; the SUT shifts
\* through the path its own mux registers select.  Were they ever different,
\* every bit of the vector would end up in the wrong register.
ModelKnowsSutPath ==
  UNION {ActiveRegisters(c) : c \in 1..net.channels} = SutPath

\* When they end, every write has reached the SUT, and no register has lost a
\* value it was given earlier while paths were opened and closed around it.
EndWithAllWritten ==
  [][phase = "configure" /\ phase' = "idle" => \A r \in DataRegs : sut[r] = wanted[r]]_vars

\* When they end, the SUT is closed again: a linker selects no path, or its
\* first one when it cannot select none.  Linkers to keep open are exempt from
\* it with the algorithms that never select path 0.
EndWithPathsClosed ==
  [][phase = "configure" /\ phase' = "idle"
       => \A l \in net.linkers :
            LET open == {p \in PathIds(net.sel[l]) : IsActive(l, p)}
            IN  \/ open \subseteq (IF net.sel[l].none THEN {} ELSE {1})
                \/ l \in net.keepOpen /\ algorithm \in {"last_lazy", "close_all"}]_vars

\* The data cycles as the applications see them: the paths opened and closed
\* on the way are hidden.
DC == INSTANCE DataCycles WITH
        Values  <- Vectors,
        busy    <- phase # "idle",
        content <- [r \in DataRegs |-> sut[r]],
        wanted  <- [r \in DataRegs |-> wanted[r]]

\* Whatever the network and the algorithm, a shift gives the data registers on
\* its path the values last asked for and leaves the others alone, even while
\* paths are half open, and DoDataCycles_Impl loops until all is sent.
ImplementsDataCycles == DC!FairSpec
===============================================================================
