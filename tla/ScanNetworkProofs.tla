--------------------------- MODULE ScanNetworkProofs ---------------------------
(***************************************************************************)
(* Proofs about ScanNetwork, for every network, selector and algorithm.     *)
(***************************************************************************)
EXTENDS ScanNetwork, SequenceTheorems, FiniteSetTheorems, TLAPS

-------------------------------------------------------------------------------
(* Path selectors *)

\* An entry of the selection table is a value of the mux register.
LEMMA SelectTableType ==
  ASSUME NEW sel \in Selectors, CheckRegisterLength(sel), sel.width <= Width,
         Width \in Nat, NEW p \in 0..sel.paths
  PROVE  SelectTable(sel, p) \subseteq Bits(sel) /\ Bits(sel) \in Vectors
<1>1. sel.width \in Nat /\ sel.paths \in Nat
  BY DEF Selectors
<1>2. Bits(sel) \in Vectors
  BY <1>1 DEF Bits, Vectors
<1>3. \A v : v \subseteq Bits(sel) => Polarity(sel, v) \subseteq Bits(sel)
  BY DEF Polarity
<1>4. CASE sel.kind = "Binary"
  <2>1. \A n : BinaryCode(sel, n) \subseteq Bits(sel)
    BY DEF BinaryCode
  <2> QED
    BY <1>2, <1>3, <1>4, <2>1 DEF SelectTable, BinarySelectTable
<1>5. CASE sel.kind # "Binary"
  <2>1. p # 0 => {IF sel.reverse THEN sel.width - p ELSE p - 1} \subseteq Bits(sel)
    BY <1>1, <1>5 DEF CheckRegisterLength, OneHotCheckRegisterLength, Bits
  <2> QED
    BY <1>2, <1>3, <1>5, <2>1 DEF SelectTable, OneHotSelectTable
<1> QED
  BY <1>4, <1>5

\* Select and Deselect give the mux register a value it can hold.
LEMMA SelectType ==
  ASSUME NEW sel \in Selectors, CheckRegisterLength(sel), sel.width <= Width,
         Width \in Nat, NEW p \in 0..sel.paths, NEW v \in Vectors
  PROVE  Select(sel, v, p) \in Vectors /\ Deselect(sel, v, p) \in Vectors
<1>1. sel.paths \in Nat \ {0}
  BY DEF Selectors
<1>2. \A q \in 0..sel.paths : SelectTable(sel, q) \in Vectors
  BY SelectTableType DEF Vectors
<1>3. 0 \in 0..sel.paths /\ 1 \in 0..sel.paths
  BY <1>1
<1>4. \A x, y \in Vectors : x \cap y \in Vectors /\ x \cup y \in Vectors
  BY DEF Vectors
<1>5. Polarity(sel, {}) \in Vectors /\ NHotDeselectTable(sel, p) \in Vectors
  <2>1. Bits(sel) \in Vectors
    BY SelectTableType
  <2> QED
    BY <2>1 DEF NHotDeselectTable, Polarity, Vectors
<1>6. CASE sel.kind = "Binary"
  BY <1>2, <1>3, <1>5, <1>6
  DEF Select, Deselect, TableDeselect, SelectTable, BinaryDeselectTable
<1>7. CASE sel.kind # "Binary"
  <2>1. \A q \in 0..sel.paths : OneHotSelectTable(sel, q) \in Vectors
    BY <1>2, <1>7 DEF SelectTable
  <2>2. OneHotSelect(sel, p) \in Vectors /\ NHotSelect(sel, v, p) \in Vectors
    BY <1>3, <1>4, <2>1 DEF OneHotSelect, NHotSelect
  <2>3. TableDeselect(sel, p) \in Vectors
    BY <1>2, <1>3, <1>5, <1>7 DEF TableDeselect, OneHotDeselectTable
  <2>4. NHotDeselect(sel, v, p) \in Vectors
    BY <1>3, <1>4, <1>5, <2>1 DEF NHotDeselect
  <2>5. sel.kind \in {"One_Hot", "N_Hot"}
    BY <1>7 DEF Selectors
  <2> QED
    BY <1>7, <2>2, <2>3, <2>4, <2>5 DEF Select, Deselect
<1> QED
  BY <1>6, <1>7

-------------------------------------------------------------------------------
(* Registers *)

\* A request, or a selection, sets the value to send and the value to hold.
LEMMA SetToSutEffect ==
  ASSUME NEW g \in R!RegisterType, NEW v \in Vectors
  PROVE  LET h == R!SetToSut(g, v, TRUE)
         IN  /\ h \in R!RegisterType
             /\ h.next = v /\ h.bypass = v /\ h.last = g.last
             /\ h.pendingRead = g.pendingRead /\ h.pendingWrite = g.pendingWrite
BY DEF R!SetToSut, R!RegisterType

\* Marking a register pending leaves its values alone.
LEMMA PendingEffect ==
  ASSUME NEW g \in R!RegisterType, NEW b \in BOOLEAN
  PROVE  LET h == [g EXCEPT !.pendingWrite = b]
         IN  /\ h \in R!RegisterType
             /\ h.next = g.next /\ h.bypass = g.bypass /\ h.last = g.last
             /\ h.pendingWrite = b
BY DEF R!RegisterType

\* FromSutUpdater takes the next value for the one the SUT has.
LEMMA UpdateEffect ==
  ASSUME NEW g \in R!RegisterType, NEW v \in Vectors
  PROVE  LET h == R!UpdateRegister(g, v)
         IN  /\ h \in R!RegisterType
             /\ h.next = g.next /\ h.bypass = g.bypass /\ h.last = g.next
<1> DEFINE f == R!SetFromSut(g, v)
<1>1. f \in R!RegisterType /\ f.next = g.next /\ f.bypass = g.bypass
  <2>1. /\ (IF g.pendingRead THEN v ELSE g.lastRead) \in Vectors
        /\ (IF g.mustCheck /\ v \notin g.expected THEN g.mismatches + 1
            ELSE g.mismatches) \in Nat
    BY DEF R!RegisterType
  <2> DEFINE lr == IF g.pendingRead THEN v ELSE g.lastRead
             mm == IF g.mustCheck /\ v \notin g.expected THEN g.mismatches + 1
                   ELSE g.mismatches
  <2>2. f = [g EXCEPT !.lastRead = lr, !.mismatches = mm, !.fromSut = v]
    BY DEF R!SetFromSut, R!RegisterType
  <2> HIDE DEF f, lr, mm
  <2> QED
    BY <2>1, <2>2 DEF R!RegisterType, lr, mm
<1> DEFINE l == R!UpdateLastToSut(f)
<1>2. l \in R!RegisterType /\ l.next = g.next /\ l.bypass = g.bypass /\ l.last = g.next
  <2> HIDE DEF f
  <2> QED
    BY <1>1 DEF R!UpdateLastToSut, R!RegisterType
<1> HIDE DEF l
<1>3. R!UpdateRegister(g, v) = R!SetCheckExpected(R!ResetPending(l), FALSE)
  BY DEF R!UpdateRegister, l, f
<1> QED
  BY <1>2, <1>3 DEF R!SetCheckExpected, R!ResetPending, R!RegisterType

-------------------------------------------------------------------------------
(* The model and the SUT *)

\* What the data cycles keep true of each register between any two steps: the
\* last value sent is in the SUT, the value to hold is the next one, and the
\* next one of a data register is the one last requested.
Synchronised ==
  \A r \in net.regs :
    /\ reg[r].last = sut[r] /\ reg[r].bypass = reg[r].next
    /\ r \in DataRegs => reg[r].next = wanted[r]

Inv == TypeOK /\ Synchronised

\* The facts about a network the proofs use.
LEMMA NetworkFacts ==
  ASSUME net \in Networks
  PROVE  /\ Width \in Nat \ {0}
         /\ net.mux \in [net.linkers -> net.regs]
         /\ net.init \in [net.regs -> Vectors]
         /\ net.channel \in [net.regs -> 1..net.channels]
         /\ \A r \in net.regs : \A a \in net.above[r] : a[1] \in net.linkers
         /\ \A l \in net.linkers :
              net.sel[l] \in Selectors /\ CheckRegisterLength(net.sel[l])
              /\ net.sel[l].width <= Width
BY NetworksAssumption DEF NetworksAssumption, WellFormed

\* A visit is to a register, to a path of a linker or to a linker.
LEMMA VisitFacts ==
  ASSUME net \in Networks, NEW i \in 1..Len(net.visits)
  PROVE  \/ \E r \in net.regs : net.visits[i] = RegisterVisit(r)
         \/ \E l \in net.linkers : \E p \in PathIds(net.sel[l]) :
              net.visits[i] = PathVisit(l, p)
         \/ \E l \in net.linkers : net.visits[i] = LinkerVisit(l)
<1>1. net.visits \in Seq(Visits(net))
  BY NetworksAssumption DEF NetworksAssumption, WellFormed
<1>2. net.visits[i] \in Visits(net)
  BY <1>1, ElementOfSeq, Zenon
<1> QED
  BY <1>2, Zenon DEF Visits

\* A step that changes the model only by giving mux registers new values.
MuxStep ==
  /\ reg' \in [net.regs -> R!RegisterType]
  /\ \A r \in net.regs :
       /\ reg'[r].last = reg[r].last
       /\ reg[r].bypass = reg[r].next => reg'[r].bypass = reg'[r].next
       /\ r \in DataRegs => reg'[r].next = reg[r].next

\* Giving the mux register of a linker a value is such a step.
LEMMA SetMuxEffect ==
  ASSUME TypeOK, NEW l \in net.linkers, NEW v \in Vectors, SetMux(l, v)
  PROVE  MuxStep
<1>1. reg \in [net.regs -> R!RegisterType] /\ net.mux[l] \in net.regs
  BY NetworkFacts DEF TypeOK
<1>2. CASE reg[net.mux[l]].next = v
  BY <1>1, <1>2 DEF SetMux, MuxStep
<1>3. CASE reg[net.mux[l]].next # v
  <2> DEFINE m == net.mux[l]
             g == R!SetToSut(reg[m], v, TRUE)
             h == [g EXCEPT !.pendingWrite = TRUE]
  <2>1. reg' = [reg EXCEPT ![m] = h]
    BY <1>3 DEF SetMux
  <2>2. g \in R!RegisterType /\ g.next = v /\ g.bypass = v /\ g.last = reg[m].last
    BY <1>1, SetToSutEffect
  <2> HIDE DEF g
  <2>3. h \in R!RegisterType /\ h.next = v /\ h.bypass = v /\ h.last = reg[m].last
    BY <2>2, PendingEffect
  <2>4. m \notin DataRegs
    BY DEF DataRegs, Muxes
  <2> HIDE DEF h, m
  <2>5. m \in net.regs
    BY <1>1 DEF m
  <2> QED
    BY <1>1, <2>1, <2>3, <2>4, <2>5 DEF MuxStep
<1> QED
  BY <1>2, <1>3

\* Selecting or deselecting a path is such a step, and so is doing nothing.
LEMMA LinkerEffect ==
  ASSUME TypeOK, NEW l \in net.linkers, NEW p \in 0..net.sel[l].paths,
         LinkerSelect(l, p) \/ LinkerDeselect(l, p) \/ UNCHANGED reg
  PROVE  MuxStep
<1>1. CASE UNCHANGED reg
  BY <1>1 DEF TypeOK, MuxStep
<1>2. reg[net.mux[l]].next \in Vectors
  BY NetworkFacts DEF TypeOK, R!RegisterType
<1>3. /\ Select(net.sel[l], reg[net.mux[l]].next, p) \in Vectors
      /\ Deselect(net.sel[l], reg[net.mux[l]].next, p) \in Vectors
  BY <1>2, NetworkFacts, SelectType DEF TypeOK
<1> QED
  BY <1>1, <1>3, SetMuxEffect DEF LinkerSelect, LinkerDeselect

\* Every visit of ConfigureVisitor is such a step.
LEMMA ConfigureEffect == ASSUME TypeOK, Configure PROVE MuxStep
<1>1. visit \in 1..Len(net.visits) /\ net \in Networks
  BY DEF Configure, TypeOK
<1> DEFINE v == net.visits[visit]
<1>2. /\ v[1] = "register" => VisitRegister(v[2])
      /\ v[1] = "path" => VisitPath(v[2], v[3])
      /\ v[1] = "linker" => ResolvePendings(v[2])
  BY DEF Configure
<1>3. ASSUME NEW r \in net.regs, v = RegisterVisit(r) PROVE MuxStep
  <2>1. VisitRegister(r)
    BY <1>2, <1>3 DEF RegisterVisit
  <2> DEFINE h == R!MarkPendingWrite(reg[r])
  <2>2. /\ h \in R!RegisterType
        /\ h.next = reg[r].next /\ h.bypass = reg[r].bypass /\ h.last = reg[r].last
    BY <1>3, PendingEffect DEF R!MarkPendingWrite, TypeOK
  <2>3. reg' = [reg EXCEPT ![r] = h]
    BY <2>1 DEF VisitRegister
  <2> HIDE DEF h
  <2> QED
    BY <2>2, <2>3 DEF MuxStep, TypeOK
<1>4. ASSUME NEW l \in net.linkers, NEW p \in PathIds(net.sel[l]), v = PathVisit(l, p)
      PROVE  MuxStep
  <2>1. VisitPath(l, p)
    BY <1>2, <1>4 DEF PathVisit
  <2>2. LinkerSelect(l, p) \/ LinkerDeselect(l, p) \/ UNCHANGED reg
    BY <2>1 DEF VisitPath, ProcessPending, LastOrDefaultProcessPending, CloseAllProcessPending
  <2>3. p \in 0..net.sel[l].paths
    BY <1>1, NetworkFacts DEF PathIds, Selectors
  <2> QED
    BY <2>2, <2>3, LinkerEffect
<1>5. ASSUME NEW l \in net.linkers, v = LinkerVisit(l) PROVE MuxStep
  <2>1. ResolvePendings(l)
    BY <1>2, <1>5 DEF LinkerVisit
  <2>2. LinkerSelect(l, 0) \/ UNCHANGED reg
    <3>1. algorithm \in ConfigureAlgorithms
      BY NetworksAssumption DEF NetworksAssumption, TypeOK
    <3> QED
      BY <2>1, <3>1 DEF ResolvePendings, GreedyResolvePendings, LastOrDefaultResolvePendings,
                        ConfigureAlgorithms
  <2>3. 0 \in 0..net.sel[l].paths
    BY <1>1, NetworkFacts DEF Selectors
  <2> QED
    BY <2>2, <2>3, LinkerEffect
<1> QED
  BY <1>1, <1>3, <1>4, <1>5, VisitFacts

\* A step that leaves every value alone keeps the invariant.
LEMMA MuxStepPreservesInv ==
  ASSUME Inv, MuxStep, UNCHANGED <<net, algorithm, sut, wanted>>,
         phase' \in Phases, visit' \in Nat \ {0}, todo' \subseteq 1..net.channels,
         requests' \in Nat
  PROVE  Inv'
<1>1. TypeOK'
  BY DEF Inv, TypeOK, MuxStep
<1>2. DataRegs' = DataRegs
  BY DEF DataRegs, Muxes
<1>3. Synchronised'
  BY <1>2 DEF Inv, Synchronised, MuxStep
<1> QED
  BY <1>1, <1>3 DEF Inv

\* Every initial state is synchronised.
LEMMA InitInv == Init => Inv
<1> SUFFICES ASSUME Init PROVE Inv
  OBVIOUS
<1>1. net \in Networks /\ net.init \in [net.regs -> Vectors] /\ {} \in Vectors
  BY NetworkFacts DEF Init, Vectors
<1>2. \A v \in Vectors :
        LET g == R!NewRegister(v, {})
        IN  g \in R!RegisterType /\ g.last = v /\ g.bypass = v /\ g.next = v
  BY <1>1 DEF R!NewRegister, R!RegisterType
<1>3. TypeOK
  BY <1>1, <1>2 DEF Init, TypeOK, Phases
<1>4. Synchronised
  BY <1>1, <1>2 DEF Init, Synchronised
<1> QED
  BY <1>3, <1>4 DEF Inv

\* Every step keeps the model and the SUT synchronised.
LEMMA NextInv == Inv /\ [Next]_vars => Inv'
<1> SUFFICES ASSUME Inv, [Next]_vars PROVE Inv'
  OBVIOUS
<1>0. TypeOK /\ Synchronised /\ net \in Networks
  BY DEF Inv, TypeOK
<1>1. ASSUME NEW r \in DataRegs, NEW v \in {{}, {0}}, iWrite(r, v) PROVE Inv'
  <2> DEFINE h == R!SetToSut(reg[r], v, TRUE)
  <2>1. r \in net.regs /\ v \in Vectors
    BY <1>0, NetworkFacts DEF DataRegs, Vectors
  <2>2. h \in R!RegisterType /\ h.next = v /\ h.bypass = v /\ h.last = reg[r].last
    BY <1>0, <2>1, SetToSutEffect DEF TypeOK
  <2>3. /\ reg' = [reg EXCEPT ![r] = h] /\ wanted' = [wanted EXCEPT ![r] = v]
        /\ requests' = requests + 1
        /\ UNCHANGED <<net, algorithm, phase, visit, todo, sut>>
    BY <1>1 DEF iWrite
  <2> HIDE DEF h
  <2>4. TypeOK'
    BY <1>0, <2>1, <2>2, <2>3 DEF TypeOK
  <2>5. DataRegs' = DataRegs
    BY <2>3 DEF DataRegs, Muxes
  <2>6. Synchronised'
    BY <1>0, <2>1, <2>2, <2>3, <2>5 DEF Synchronised, TypeOK
  <2> QED
    BY <2>4, <2>6 DEF Inv
<1>2. ASSUME NEW r \in DataRegs, iRefresh(r) PROVE Inv'
  <2> DEFINE h == R!SetPendingForRead(reg[r])
  <2>1. r \in net.regs /\ reg \in [net.regs -> R!RegisterType]
    BY <1>0 DEF DataRegs, TypeOK
  <2>2. /\ h \in R!RegisterType
        /\ h.next = reg[r].next /\ h.bypass = reg[r].bypass /\ h.last = reg[r].last
    BY <2>1 DEF R!SetPendingForRead, R!RegisterType
  <2>3. reg' = [reg EXCEPT ![r] = h]
    BY <1>2 DEF iRefresh
  <2> HIDE DEF h
  <2>4. MuxStep
    BY <2>1, <2>2, <2>3 DEF MuxStep
  <2> QED
    BY <1>0, <1>2, <2>4, MuxStepPreservesInv DEF iRefresh, TypeOK
<1>3. CASE Configure
  <2>1. visit' \in Nat \ {0}
    BY <1>0, <1>3 DEF Configure, TypeOK
  <2> QED
    BY <1>0, <1>3, <2>1, ConfigureEffect, MuxStepPreservesInv DEF Configure, TypeOK
<1>4. CASE PropagatePending
  <2>1. \A r \in net.regs :
          LET h == [reg[r] EXCEPT !.pendingWrite = TRUE]
          IN  /\ h \in R!RegisterType
              /\ h.next = reg[r].next /\ h.bypass = reg[r].bypass /\ h.last = reg[r].last
    BY <1>0, PendingEffect DEF TypeOK
  <2>2. MuxStep
    BY <1>0, <1>4, <2>1 DEF PropagatePending, MuxStep, TypeOK
  <2>3. todo' \subseteq 1..net.channels
    BY <1>0, <1>4, NetworkFacts DEF PropagatePending
  <2>4. phase' \in Phases
    BY <1>4 DEF PropagatePending, Phases
  <2> QED
    BY <1>0, <1>4, <2>2, <2>3, <2>4, MuxStepPreservesInv DEF PropagatePending, TypeOK
<1>5. ASSUME NEW c \in 1..net.channels, ShiftChannel(c) PROVE Inv'
  <2> DEFINE A == ActiveRegisters(c)
             h(r) == R!UpdateRegister(reg[r], sut[r])
  <2>1. \A r \in net.regs : /\ h(r) \in R!RegisterType /\ h(r).next = reg[r].next
                             /\ h(r).bypass = reg[r].bypass /\ h(r).last = reg[r].next
    BY <1>0, UpdateEffect DEF TypeOK
  <2>2. \A r \in net.regs : R!ToSutBits(reg[r]) = reg[r].next /\ reg[r].next \in Vectors
    BY <1>0 DEF R!ToSutBits, Synchronised, TypeOK, R!RegisterType
  <2>3. /\ reg' = [r \in net.regs |-> IF r \in A THEN h(r) ELSE reg[r]]
        /\ sut' = [r \in net.regs |-> IF r \in A THEN R!ToSutBits(reg[r]) ELSE sut[r]]
        /\ todo' = todo \ {c}
        /\ UNCHANGED <<net, algorithm, phase, visit, requests, wanted>>
    BY <1>5 DEF ShiftChannel
  <2> HIDE DEF A, h
  <2>4. TypeOK'
    BY <1>0, <2>1, <2>2, <2>3 DEF TypeOK
  <2>5. DataRegs' = DataRegs
    BY <2>3 DEF DataRegs, Muxes
  <2>6. Synchronised'
    BY <1>0, <2>1, <2>2, <2>3, <2>5 DEF Synchronised
  <2> QED
    BY <2>4, <2>6 DEF Inv
<1>6. CASE StartDataCycles \/ StartConfiguration \/ EndDataCycle \/ UNCHANGED vars
  <2>1. /\ UNCHANGED <<net, algorithm, reg, sut, requests, wanted, todo>>
        /\ phase' \in Phases /\ visit' \in Nat \ {0}
    BY <1>0, <1>6
    DEF StartDataCycles, StartConfiguration, EndDataCycle, vars, Phases, TypeOK
  <2>2. MuxStep
    BY <1>0, <2>1 DEF MuxStep, TypeOK
  <2> QED
    BY <1>0, <2>1, <2>2, MuxStepPreservesInv DEF TypeOK
<1> QED
  BY <1>1, <1>2, <1>3, <1>4, <1>5, <1>6 DEF Next, DataCycleStep, Request

\* Inv is an inductive invariant of the data cycles.
LEMMA SpecInv == Spec => []Inv
BY InitInv, NextInv, PTL DEF Spec

-------------------------------------------------------------------------------
(* Theorems *)

\* The data cycles keep every variable in its type, whatever the selectors of
\* the linkers write into their mux registers.
THEOREM ScanTypeCorrectness == Spec => []TypeOK
<1>1. Inv => TypeOK
  BY DEF Inv
<1> QED
  BY <1>1, SpecInv, PTL

\* ToSutVisitor always builds its vector for the scan path the SUT has, with
\* every network, selector and configuration algorithm and any number of
\* requests.
THEOREM ActivePathIsSutPath == Spec => []ModelKnowsSutPath
<1>1. ASSUME Inv PROVE ModelKnowsSutPath
  <2>0. net \in Networks
    BY <1>1 DEF Inv, TypeOK
  <2>1. \A l \in net.linkers : reg[net.mux[l]].last = sut[net.mux[l]]
    BY <1>1, <2>0, NetworkFacts DEF Inv, Synchronised
  <2>2. ASSUME NEW r \in net.regs, NEW a \in net.above[r]
        PROVE  IsActive(a[1], a[2]) <=> Selects(net.sel[a[1]], sut[net.mux[a[1]]], a[2])
    <3>1. a[1] \in net.linkers
      BY <2>0, NetworkFacts
    <3> QED
      BY <2>1, <3>1 DEF IsActive
  <2>3. \A r \in net.regs : net.channel[r] \in 1..net.channels
    BY <2>0, NetworkFacts
  <2>4. ASSUME NEW r
        PROVE  r \in UNION {ActiveRegisters(c) : c \in 1..net.channels}
                 <=> r \in net.regs /\ \A a \in net.above[r] : IsActive(a[1], a[2])
    BY <2>3 DEF ActiveRegisters
  <2>5. ASSUME NEW r
        PROVE  r \in UNION {ActiveRegisters(c) : c \in 1..net.channels} <=> r \in SutPath
    BY <2>2, <2>4, Zenon DEF SutPath
  <2> QED
    BY <2>5, Zenon DEF ModelKnowsSutPath
<1> QED
  BY <1>1, SpecInv, PTL

\* PropagatePendingVisitor finds nothing pending only when everything is sent.
LEMMA WrittenWhenOver ==
  ASSUME Inv, PropagatePending, phase' = "idle", NEW r \in DataRegs
  PROVE  sut[r] = wanted[r]
<1>1. r \in net.regs /\ reg \in [net.regs -> R!RegisterType]
  BY DEF DataRegs, Inv, TypeOK
<1>2. ~R!IsPending(reg'[r])
  BY <1>1 DEF PropagatePending
<1>3. reg[r].next # reg[r].last => reg'[r].pendingWrite
  <2>1. reg[r].next # reg[r].last => reg'[r] = [reg[r] EXCEPT !.pendingWrite = TRUE]
    BY <1>1 DEF PropagatePending
  <2> QED
    BY <2>1, <1>1, PendingEffect
<1>4. reg[r].next = reg[r].last
  BY <1>2, <1>3 DEF R!IsPending
<1> QED
  BY <1>1, <1>4 DEF Inv, Synchronised

\* When DoDataCycles_Impl finds nothing pending any more, the SUT holds the
\* last requested value of every data register, however paths were opened and
\* closed around it since the request.
THEOREM CyclesEndWritten == Spec => EndWithAllWritten
<1>1. ASSUME Inv, [Next]_vars, phase = "configure", phase' = "idle", NEW r \in DataRegs
      PROVE  sut[r] = wanted[r]
  <2>1. PropagatePending
    BY <1>1 DEF Next, vars, DataCycleStep, StartDataCycles, StartConfiguration, Configure,
                ShiftChannel, EndDataCycle, Request, iWrite, iRefresh
  <2> QED
    BY <1>1, <2>1, WrittenWhenOver
<1>2. Inv /\ [Next]_vars
        => [phase = "configure" /\ phase' = "idle"
              => \A r \in DataRegs : sut[r] = wanted[r]]_vars
  BY <1>1
<1> QED
  BY <1>2, SpecInv, PTL DEF Spec, EndWithAllWritten

\* The scan network implements the data cycles the applications see: a shift
\* sends nothing to a data register but the value last asked for, registers
\* off the path keep theirs, and the series ends only with everything sent.
THEOREM ScanImplementsDataCycles == Spec => DC!Spec
<1> DEFINE content == [r \in DataRegs |-> sut[r]]
           asked   == [r \in DataRegs |-> wanted[r]]
<1>1. Init => DC!Init
  BY DEF Init, DC!Init, DataRegs, Muxes
<1>2. ASSUME Inv, [Next]_vars PROVE [DC!Next]_(DC!vars)
  <2>0. TypeOK /\ Synchronised /\ net \in Networks
    BY <1>2 DEF Inv, TypeOK
  <2>1. DataRegs' = DataRegs /\ net' = net
    <3>1. net' = net
      BY <1>2 DEF Next, vars, DataCycleStep, StartDataCycles, StartConfiguration, Configure,
                  PropagatePending, ShiftChannel, EndDataCycle, Request, iWrite, iRefresh
    <3> QED
      BY <3>1 DEF DataRegs, Muxes
  <2>2. ASSUME NEW r \in DataRegs, NEW v \in {{}, {0}}, iWrite(r, v) PROVE DC!Request
    <3>1. v \in Vectors
      BY <2>0, NetworkFacts DEF Vectors
    <3>2. asked' = [asked EXCEPT ![r] = v] /\ content' = content
      BY <2>0, <2>1, <2>2 DEF iWrite, TypeOK, DataRegs
    <3>3. (phase # "idle")' = (phase # "idle")
      BY <2>2 DEF iWrite
    <3> QED
      BY <3>1, <3>2, <3>3 DEF DC!Request
  <2>3. ASSUME UNCHANGED <<sut, wanted>>, phase = "idle" <=> phase' = "idle"
        PROVE  UNCHANGED DC!vars
    <3>1. content' = content /\ asked' = asked
      BY <2>1, <2>3
    <3>2. (phase # "idle")' = (phase # "idle")
      BY <2>3
    <3> QED
      BY <3>1, <3>2 DEF DC!vars
  <2>4. CASE StartDataCycles
    <3>1. content' = content /\ asked' = asked
      BY <2>1, <2>4 DEF StartDataCycles
    <3>2. (phase # "idle") = FALSE /\ (phase # "idle")' = TRUE
      BY <2>4 DEF StartDataCycles
    <3> QED
      BY <3>1, <3>2 DEF DC!Next, DC!Begin
  <2>5. ASSUME PropagatePending, phase' = "idle" PROVE DC!End
    <3>1. \A r \in DataRegs : sut[r] = wanted[r]
      BY <1>2, <2>5, WrittenWhenOver DEF PropagatePending
    <3>2. content = asked /\ content' = content /\ asked' = asked
      BY <2>1, <2>5, <3>1 DEF PropagatePending
    <3>3. (phase # "idle") = TRUE /\ (phase # "idle")' = FALSE
      BY <2>5 DEF PropagatePending
    <3> QED
      BY <3>2, <3>3 DEF DC!End
  <2>6. ASSUME NEW c \in 1..net.channels, ShiftChannel(c) PROVE DC!Send
    <3> DEFINE S == DataRegs \cap ActiveRegisters(c)
    <3>1. \A r \in DataRegs :
            sut'[r] = IF r \in S THEN wanted[r] ELSE sut[r]
      BY <2>0, <2>6 DEF ShiftChannel, DataRegs, R!ToSutBits, Synchronised
    <3>2. S \in SUBSET DOMAIN content
      OBVIOUS
    <3>3. content' = [r \in DOMAIN content |-> IF r \in S THEN asked[r] ELSE content[r]]
      BY <2>1, <3>1
    <3>4. asked' = asked /\ (phase # "idle") = TRUE /\ (phase # "idle")' = (phase # "idle")
      BY <2>1, <2>6 DEF ShiftChannel
    <3> HIDE DEF S
    <3> QED
      BY <3>2, <3>3, <3>4 DEF DC!Send
  <2>7. CASE \/ \E r \in DataRegs : iRefresh(r)
             \/ StartConfiguration \/ Configure \/ EndDataCycle \/ UNCHANGED vars
             \/ PropagatePending /\ phase' # "idle"
    <3>1. UNCHANGED <<sut, wanted>> /\ (phase = "idle" <=> phase' = "idle")
      BY <2>7 DEF iRefresh, StartConfiguration, Configure, EndDataCycle, PropagatePending, vars
    <3> QED
      BY <2>3, <3>1
  <2> QED
    BY <1>2, <2>2, <2>4, <2>5, <2>6, <2>7 DEF Next, DataCycleStep, Request, DC!Next
<1> QED
  BY <1>1, <1>2, SpecInv, PTL DEF Spec, DC!Spec

-------------------------------------------------------------------------------
(***************************************************************************)
(* When the data cycles end, the paths that were opened on the way are      *)
(* closed again, for every network, selector and algorithm.                 *)
(***************************************************************************)

-------------------------------------------------------------------------------
(* Selectors: what Deselect, and Select of path 0, leave selected *)

\* With the value v in the mux register path p is closed: it is not selected,
\* or it is the first one of a selector that cannot select none.
ClosedBy(sel, v, p) == Selects(sel, v, p) => ~sel.none /\ p = 1

\* A Binary or One_Hot selector has one path selected at most: deselecting any
\* path closes all of them.
LEMMA TableCloses ==
  ASSUME NEW sel \in Selectors, CodesDiffer(sel), sel.kind # "N_Hot",
         NEW v, NEW p, NEW q \in PathIds(sel)
  PROVE  ClosedBy(sel, Deselect(sel, v, p), q) /\ ClosedBy(sel, Select(sel, v, 0), q)
<1>0. sel.paths \in Nat \ {0} /\ sel.none \in BOOLEAN /\ q \in Nat /\ 1 <= q /\ q <= sel.paths
  BY DEF Selectors, PathIds
<1>1. SelectTable(sel, 0) = Polarity(sel, {})
  BY DEF SelectTable, BinarySelectTable, OneHotSelectTable
<1>2. Deselect(sel, v, p) = IF sel.none THEN SelectTable(sel, 0) ELSE SelectTable(sel, 1)
  BY <1>0, <1>1 DEF Deselect, TableDeselect, BinaryDeselectTable, OneHotDeselectTable
<1>3. \/ Select(sel, v, 0) = SelectTable(sel, 0)
      \/ ~sel.none /\ Select(sel, v, 0) = SelectTable(sel, 1)
  BY DEF Select, OneHotSelect, SelectTable, Selectors
<1>4. /\ SelectTable(sel, 0) = SelectTable(sel, q) => ~sel.none /\ q = 1
      /\ SelectTable(sel, 1) = SelectTable(sel, q) => q = 1
  BY <1>0 DEF CodesDiffer
<1>5. \A w : Selects(sel, w, q) <=> w = SelectTable(sel, q)
  BY DEF Selects, TableSelects
<1> QED
  BY <1>2, <1>3, <1>4, <1>5 DEF ClosedBy

\* The bit of the mux register of an N_Hot selector that stands for path p.
PathBit(sel, p) == IF sel.reverse THEN sel.width - p ELSE p - 1

\* Every path has a bit of its own.
LEMMA PathBits ==
  ASSUME NEW sel \in Selectors, CheckRegisterLength(sel), sel.kind = "N_Hot",
         NEW p \in PathIds(sel)
  PROVE  /\ PathBit(sel, p) \in Bits(sel)
         /\ \A q \in PathIds(sel) : PathBit(sel, q) = PathBit(sel, p) => q = p
         /\ OneHotSelectTable(sel, p) = Polarity(sel, {PathBit(sel, p)})
<1>1. sel.paths \in Nat /\ sel.width \in Nat /\ sel.paths <= sel.width
  BY DEF Selectors, CheckRegisterLength, OneHotCheckRegisterLength
<1>2. \A q \in PathIds(sel) : q \in Nat /\ 1 <= q /\ q <= sel.paths
  BY <1>1 DEF PathIds
<1>3. PathBit(sel, p) \in Bits(sel)
  BY <1>1, <1>2 DEF PathBit, Bits
<1>4. \A q \in PathIds(sel) : PathBit(sel, q) = PathBit(sel, p) => q = p
  BY <1>1, <1>2 DEF PathBit
<1>5. OneHotSelectTable(sel, p) = Polarity(sel, {PathBit(sel, p)})
  BY <1>2 DEF OneHotSelectTable, PathBit
<1> QED
  BY <1>3, <1>4, <1>5

\* An N_Hot selector looks at the bit of the path only; an inverted one selects
\* with a zero.
LEMMA NHotSelected ==
  ASSUME NEW sel \in Selectors, CheckRegisterLength(sel), sel.kind = "N_Hot",
         NEW p \in PathIds(sel), NEW v
  PROVE  Selects(sel, v, p) <=> IF sel.inverted THEN v \subseteq Bits(sel) \ {PathBit(sel, p)}
                                ELSE PathBit(sel, p) \in v
<1>1. OneHotSelectTable(sel, p) =
        IF sel.inverted THEN Bits(sel) \ {PathBit(sel, p)} ELSE {PathBit(sel, p)}
  BY PathBits DEF Polarity
<1>2. Selects(sel, v, p) <=>
        LET mask == OneHotSelectTable(sel, p)
        IN  IF sel.inverted THEN v \cup mask = mask ELSE v \cap mask = mask
  BY DEF Selects, NHotSelects
<1> QED
  BY <1>1, <1>2

\* Deselecting a path of an N_Hot selector closes it and opens no other one,
\* except the first one when it may not select none.
LEMMA NHotCloses ==
  ASSUME NEW sel \in Selectors, CheckRegisterLength(sel), sel.kind = "N_Hot",
         NEW v, NEW p \in PathIds(sel), NEW q \in PathIds(sel),
         q = p \/ ClosedBy(sel, v, q)
  PROVE  ClosedBy(sel, Deselect(sel, v, p), q)
<1> DEFINE code  == IF sel.inverted THEN v \cup {PathBit(sel, p)}
                    ELSE v \cap (Bits(sel) \ {PathBit(sel, p)})
           first == OneHotSelectTable(sel, 1)
<1>0. 1 \in PathIds(sel) /\ PathBit(sel, p) \in Bits(sel)
  <2>1. sel.paths \in Nat \ {0}
    BY DEF Selectors
  <2>2. 1 \in PathIds(sel)
    BY <2>1 DEF PathIds
  <2> QED
    BY <2>2, PathBits
<1>1. Deselect(sel, v, p) = code \/ (~sel.none /\ Deselect(sel, v, p) = first)
  <2>1. NHotDeselectTable(sel, p) =
          IF sel.inverted THEN {PathBit(sel, p)} ELSE Bits(sel) \ {PathBit(sel, p)}
    BY <1>0, PathBits DEF NHotDeselectTable, Polarity
  <2> QED
    BY <2>1 DEF Deselect, NHotDeselect
<1>2. ClosedBy(sel, code, q)
  <2>1. Selects(sel, code, q) => q # p /\ Selects(sel, v, q)
    BY <1>0, NHotSelected
  <2> QED
    BY <2>1 DEF ClosedBy
<1>3. ~sel.none => ClosedBy(sel, first, q)
  <2>1. q # 1 => ~Selects(sel, first, q)
    <3>1. first = IF sel.inverted THEN Bits(sel) \ {PathBit(sel, 1)} ELSE {PathBit(sel, 1)}
      BY <1>0, PathBits DEF Polarity
    <3>2. q # 1 => PathBit(sel, q) # PathBit(sel, 1)
      BY <1>0, PathBits
    <3> HIDE DEF first
    <3>3. PathBit(sel, q) \in Bits(sel)
      BY PathBits
    <3> QED
      BY <3>1, <3>2, <3>3, NHotSelected
  <2> QED
    BY <2>1 DEF ClosedBy
<1> QED
  BY <1>1, <1>2, <1>3

\* Selecting path 0 of an N_Hot selector closes every path.
LEMMA NHotSelectNone ==
  ASSUME NEW sel \in Selectors, CheckRegisterLength(sel), sel.kind = "N_Hot",
         NEW v, NEW q \in PathIds(sel)
  PROVE  ClosedBy(sel, Select(sel, v, 0), q)
<1>1. Select(sel, v, 0) = IF sel.inverted THEN Bits(sel) ELSE {}
  BY DEF Select, NHotSelect, OneHotSelectTable, Polarity
<1>2. PathBit(sel, q) \in Bits(sel)
  BY PathBits
<1> QED
  BY <1>1, <1>2, NHotSelected DEF ClosedBy

\* What every selector does: Deselect closes the path and opens no other that
\* counts as open, Select of path 0 closes all.
LEMMA SelectorCloses ==
  ASSUME NEW sel \in Selectors, CheckRegisterLength(sel), CodesDiffer(sel), NEW v
  PROVE  /\ \A p, q \in PathIds(sel) :
              q = p \/ ClosedBy(sel, v, q) => ClosedBy(sel, Deselect(sel, v, p), q)
         /\ \A q \in PathIds(sel) : ClosedBy(sel, Select(sel, v, 0), q)
BY TableCloses, NHotCloses, NHotSelectNone

-------------------------------------------------------------------------------
(* Registers *)

\* FromSutUpdater leaves nothing pending.
LEMMA UpdateClears ==
  ASSUME NEW g \in R!RegisterType, NEW v \in Vectors
  PROVE  ~R!UpdateRegister(g, v).pendingRead /\ ~R!UpdateRegister(g, v).pendingWrite
<1> DEFINE f == R!UpdateLastToSut(R!SetFromSut(g, v))
<1>1. DOMAIN f = DOMAIN g
  BY DEF R!UpdateLastToSut, R!SetFromSut
<1>2. "pendingRead" \in DOMAIN f /\ "pendingWrite" \in DOMAIN f
  BY <1>1 DEF R!RegisterType
<1> HIDE DEF f
<1>3. R!UpdateRegister(g, v) = R!SetCheckExpected(R!ResetPending(f), FALSE)
  BY DEF R!UpdateRegister, f
<1> QED
  BY <1>2, <1>3 DEF R!SetCheckExpected, R!ResetPending

-------------------------------------------------------------------------------
(* The visits of ConfigureVisitor *)

\* A visit of the configuration under way has been made.
Done(v) == At(net, v) < visit

\* Every node is visited once.
LEMMA VisitedOnce ==
  ASSUME net \in Networks, NEW v \in Visits(net)
  PROVE  /\ At(net, v) \in 1..Len(net.visits)
         /\ \A i \in 1..Len(net.visits) : net.visits[i] = v <=> i = At(net, v)
<1>1. /\ net.visits \in Seq(Visits(net))
      /\ Visits(net) = {net.visits[i] : i \in DOMAIN net.visits}
      /\ \A i, j \in DOMAIN net.visits : net.visits[i] = net.visits[j] => i = j
  BY NetworksAssumption DEF NetworksAssumption, WellFormed
<1>2. DOMAIN net.visits = 1..Len(net.visits)
  BY <1>1
<1>3. \E i \in DOMAIN net.visits : net.visits[i] = v
  BY <1>1
<1>4. At(net, v) \in DOMAIN net.visits /\ net.visits[At(net, v)] = v
  BY <1>3 DEF At
<1> QED
  BY <1>1, <1>2, <1>4

\* The visits of registers, paths and linkers are different ones.
LEMMA KindsOfVisits ==
  /\ \A r \in net.regs : RegisterVisit(r) \in Visits(net)
  /\ \A l \in net.linkers : LinkerVisit(l) \in Visits(net)
  /\ \A l \in net.linkers : \A p \in PathIds(net.sel[l]) : PathVisit(l, p) \in Visits(net)
  /\ \A r, s : RegisterVisit(r) = RegisterVisit(s) => r = s
  /\ \A l, k : LinkerVisit(l) = LinkerVisit(k) => l = k
  /\ \A l, k, p, q : PathVisit(l, p) = PathVisit(k, q) => l = k /\ p = q
  /\ \A r, l, p : /\ RegisterVisit(r) # LinkerVisit(l)
                   /\ RegisterVisit(r) # PathVisit(l, p) /\ LinkerVisit(r) # PathVisit(l, p)
<1>1. /\ \A r \in net.regs : RegisterVisit(r) \in Visits(net)
      /\ \A l \in net.linkers : LinkerVisit(l) \in Visits(net)
      /\ \A l \in net.linkers : \A p \in PathIds(net.sel[l]) : PathVisit(l, p) \in Visits(net)
  BY DEF Visits
<1> QED
  BY <1>1 DEF RegisterVisit, LinkerVisit, PathVisit

\* What is done after a visit is what was done before, and the visit.
LEMMA DoneStep ==
  ASSUME net \in Networks, visit \in 1..Len(net.visits), net' = net, visit' = visit + 1,
         NEW v \in Visits(net)
  PROVE  /\ Done(v)' <=> (Done(v) \/ v = net.visits[visit])
         /\ v = net.visits[visit] => ~Done(v)
<1>1. At(net, v) \in 1..Len(net.visits) /\ (net.visits[visit] = v <=> visit = At(net, v))
  BY VisitedOnce
<1>2. At(net, v)' = At(net, v)
  BY DEF At
<1> QED
  BY <1>1, <1>2 DEF Done

\* The registers below a path are visited before the path, the paths of a
\* linker before the linker.
LEMMA VisitOrder ==
  ASSUME net \in Networks
  PROVE  /\ \A r \in net.regs : \A a \in net.above[r] :
              At(net, RegisterVisit(r)) < At(net, PathVisit(a[1], a[2]))
         /\ \A l \in net.linkers : \A p \in PathIds(net.sel[l]) :
              At(net, PathVisit(l, p)) < At(net, LinkerVisit(l))
BY NetworksAssumption DEF NetworksAssumption, WellFormed

\* The selectors of the linkers, and their mux registers.
LEMMA LinkerFacts ==
  ASSUME net \in Networks, NEW l \in net.linkers
  PROVE  /\ net.sel[l] \in Selectors /\ CheckRegisterLength(net.sel[l])
         /\ CodesDiffer(net.sel[l])
         /\ net.mux[l] \in net.regs
         /\ \A k \in net.linkers : net.mux[k] = net.mux[l] => k = l
BY NetworksAssumption DEF NetworksAssumption, WellFormed

-------------------------------------------------------------------------------
(* The inductive invariant *)

\* The mux register of l, its visit, and whether that comes after the last
\* decision about the linker: the linker may find marks of an earlier cycle.
Mux(l) == reg[net.mux[l]]
MuxVisit(l) == RegisterVisit(net.mux[l])
Late(l) == At(net, LinkerVisit(l)) < At(net, MuxVisit(l))

\* The mux register is pending only if the model is ahead of the SUT.
Settled(l) == R!IsPending(Mux(l)) => Mux(l).next # Mux(l).last

\* Applications ask for no mux register.
NoMuxRead == \A l \in net.linkers : ~Mux(l).pendingRead

\* A mux register visited late is settled by its visit, and stays so until the
\* next configuration: only its linker, visited before, gives it a value.
LateSettled ==
  \A l \in net.linkers :
    Late(l) /\ (phase # "configure" \/ Done(MuxVisit(l))) => Settled(l)

\* No register visited so far is pending.  If any of them is, it stays so to the
\* end of the configuration and there will be a cycle.
DoneQuiet == \A r \in net.regs : Done(RegisterVisit(r)) => ~R!IsPending(reg[r])

PathClosed(l, p) == ClosedBy(net.sel[l], Mux(l).next, p)

\* The algorithm selects path 0 of a linker without pending registers.
SelectsNone == algorithm \notin {"last_lazy", "close_all"}

\* What the visits made so far have done to a linker that nobody needs.
Closing(l) ==
  /\ l \notin net.keepOpen =>
       \A p \in PathIds(net.sel[l]) : Done(PathVisit(l, p)) => PathClosed(l, p)
  /\ l \in net.keepOpen /\ Late(l) /\ ~Done(LinkerVisit(l)) => Settled(l)
  /\ l \in net.keepOpen /\ SelectsNone /\ Done(LinkerVisit(l)) =>
       \/ \A p \in PathIds(net.sel[l]) : PathClosed(l, p)
       \/ ~Done(MuxVisit(l)) /\ Mux(l).next # Mux(l).last

ClosedInv ==
  /\ NoMuxRead /\ LateSettled
  /\ phase = "configure" /\ DoneQuiet => \A l \in net.linkers : Closing(l)

\* Initially nothing is pending.
LEMMA InitClosedInv == Init => ClosedInv
<1> SUFFICES ASSUME Init PROVE ClosedInv
  OBVIOUS
<1>1. net \in Networks /\ phase = "idle"
  BY DEF Init
<1>2. \A l \in net.linkers : ~Mux(l).pendingRead /\ ~Mux(l).pendingWrite
  <2>1. \A l \in net.linkers : net.mux[l] \in net.regs
    BY <1>1, LinkerFacts
  <2> QED
    BY <2>1 DEF Init, Mux, R!NewRegister
<1> QED
  BY <1>1, <1>2 DEF ClosedInv, NoMuxRead, LateSettled, Settled, R!IsPending

-------------------------------------------------------------------------------
(* Steps outside of the configuration *)

\* Requests leave the mux registers alone.
LEMMA RequestClosed ==
  ASSUME Inv, ClosedInv, Request PROVE ClosedInv'
<1>1. PICK r \in DataRegs : /\ \A s \in net.regs : s # r => reg'[s] = reg[s]
                            /\ phase \in {"idle", "between"}
                            /\ UNCHANGED <<net, algorithm, phase, visit>>
  BY DEF Request, iWrite, iRefresh, Inv, TypeOK
<1>2. \A l \in net.linkers : net.mux[l] \in net.regs /\ net.mux[l] # r
  BY LinkerFacts DEF DataRegs, Muxes, Inv, TypeOK
<1>3. \A l \in net.linkers : Mux(l)' = Mux(l)
  BY <1>1, <1>2 DEF Mux
<1>4. \A l \in net.linkers : Late(l)' = Late(l) /\ Done(MuxVisit(l))' = Done(MuxVisit(l))
  BY <1>1 DEF Late, Done, MuxVisit, At
<1>5. phase' # "configure"
  BY <1>1
<1> QED
  BY <1>1, <1>3, <1>4, <1>5 DEF ClosedInv, NoMuxRead, LateSettled, Settled

\* Between two configurations the registers do not change, and the first
\* visit of the next one finds them settled.
LEMMA StartClosed ==
  ASSUME Inv, ClosedInv, StartDataCycles \/ StartConfiguration \/ EndDataCycle
  PROVE  ClosedInv'
<1>0. net \in Networks
  BY DEF Inv, TypeOK
<1>1. UNCHANGED <<net, algorithm, reg>> /\ phase # "configure"
  BY DEF StartDataCycles, StartConfiguration, EndDataCycle
<1>2. \A l \in net.linkers : Mux(l)' = Mux(l) /\ Late(l)' = Late(l)
  BY <1>1 DEF Mux, Late, MuxVisit, At
<1>3. \A l \in net.linkers : Late(l) => Settled(l)
  BY <1>1 DEF ClosedInv, LateSettled
<1>4. NoMuxRead' /\ LateSettled'
  BY <1>1, <1>2, <1>3 DEF ClosedInv, NoMuxRead, LateSettled, Settled
<1>5. ASSUME phase' = "configure", NEW l \in net.linkers PROVE Closing(l)'
  <2>1. visit' = 1
    BY <1>5, <1>1 DEF StartDataCycles, StartConfiguration, EndDataCycle
  <2>2. \A v \in Visits(net) : ~Done(v)'
    <3>1. \A v \in Visits(net) : At(net, v) >= 1 /\ At(net, v) \in Nat
      BY <1>0, VisitedOnce
    <3>2. \A v \in Visits(net) : At(net, v)' = At(net, v)
      BY <1>1 DEF At
    <3> QED
      BY <2>1, <3>1, <3>2 DEF Done
  <2>3. ~Done(LinkerVisit(l))' /\ \A p \in PathIds(net.sel[l]) : ~Done(PathVisit(l, p))'
    BY <2>2, KindsOfVisits
  <2> QED
    BY <1>1, <1>2, <1>3, <2>3 DEF Closing, Settled
<1> QED
  BY <1>1, <1>4, <1>5 DEF ClosedInv

\* PropagatePendingVisitor marks registers that are ahead of the SUT.
LEMMA PropagateClosed ==
  ASSUME Inv, ClosedInv, PropagatePending PROVE ClosedInv'
<1>0. net \in Networks /\ reg \in [net.regs -> R!RegisterType]
  BY DEF Inv, TypeOK
<1>1. UNCHANGED <<net, algorithm>> /\ phase' # "configure"
  BY DEF PropagatePending
<1>2. ASSUME NEW l \in net.linkers
      PROVE  /\ Mux(l)'.next = Mux(l).next /\ Mux(l)'.last = Mux(l).last
             /\ Mux(l)'.pendingRead = Mux(l).pendingRead
             /\ Mux(l)'.pendingWrite = Mux(l).pendingWrite \/ Mux(l).next # Mux(l).last
  <2>1. net.mux[l] \in net.regs /\ Mux(l) \in R!RegisterType
    BY <1>0, LinkerFacts DEF Mux
  <2>2. Mux(l)' = IF Mux(l).next # Mux(l).last THEN [Mux(l) EXCEPT !.pendingWrite = TRUE]
                  ELSE Mux(l)
    BY <1>1, <2>1 DEF PropagatePending, Mux
  <2> QED
    BY <2>1, <2>2 DEF R!RegisterType
<1>3. \A l \in net.linkers : Late(l) => Settled(l)
  <2>1. \A v \in Visits(net) : Done(v)
    <3>1. visit > Len(net.visits) /\ visit \in Nat
      BY DEF PropagatePending, Inv, TypeOK
    <3>2. net.visits \in Seq(Visits(net))
      BY <1>0, NetworksAssumption DEF NetworksAssumption, WellFormed
    <3>3. Len(net.visits) \in Nat
      BY <3>2
    <3> QED
      BY <1>0, <3>1, <3>3, VisitedOnce DEF Done
  <2>2. \A l \in net.linkers : Done(MuxVisit(l))
    BY <1>0, <2>1, LinkerFacts, KindsOfVisits DEF MuxVisit
  <2> QED
    BY <2>2 DEF ClosedInv, LateSettled
<1>4. \A l \in net.linkers : Late(l)' = Late(l)
  BY <1>1 DEF Late, MuxVisit, At
<1> QED
  BY <1>1, <1>2, <1>3, <1>4 DEF ClosedInv, NoMuxRead, LateSettled, Settled, R!IsPending

\* A shift settles the registers on its path.
LEMMA ShiftClosed ==
  ASSUME Inv, ClosedInv, NEW c \in 1..net.channels, ShiftChannel(c) PROVE ClosedInv'
<1>0. /\ net \in Networks /\ reg \in [net.regs -> R!RegisterType]
      /\ sut \in [net.regs -> Vectors]
  BY DEF Inv, TypeOK
<1>1. UNCHANGED <<net, algorithm>> /\ phase # "configure" /\ phase' # "configure"
  BY DEF ShiftChannel
<1>2. ASSUME NEW l \in net.linkers
      PROVE  Mux(l)' = Mux(l) \/ (~Mux(l)'.pendingRead /\ ~Mux(l)'.pendingWrite)
  <2>1. net.mux[l] \in net.regs /\ Mux(l) \in R!RegisterType
    BY <1>0, LinkerFacts DEF Mux
  <2>2. Mux(l)' = Mux(l) \/ Mux(l)' = R!UpdateRegister(Mux(l), sut[net.mux[l]])
    BY <1>1, <2>1 DEF ShiftChannel, Mux
  <2>3. \A g \in R!RegisterType, v \in Vectors :
          ~R!UpdateRegister(g, v).pendingRead /\ ~R!UpdateRegister(g, v).pendingWrite
    BY UpdateClears
  <2> QED
    BY <1>0, <2>1, <2>2, <2>3
<1>3. \A l \in net.linkers : Late(l)' = Late(l)
  BY <1>1 DEF Late, MuxVisit, At
<1> QED
  BY <1>1, <1>2, <1>3 DEF ClosedInv, NoMuxRead, LateSettled, Settled, R!IsPending

-------------------------------------------------------------------------------
(* Visits of the configuration *)

\* A visit leaves everything alone but the registers and the place of the visitor.
LEMMA ConfigureFrame ==
  ASSUME Inv, Configure
  PROVE  /\ net \in Networks /\ visit \in 1..Len(net.visits) /\ visit' = visit + 1
         /\ UNCHANGED <<net, algorithm, phase>> /\ phase = "configure"
         /\ reg \in [net.regs -> R!RegisterType]
         /\ \A l \in net.linkers : Late(l)' = Late(l) /\ MuxVisit(l)' = MuxVisit(l)
<1>1. /\ UNCHANGED <<net, algorithm, phase>> /\ phase = "configure" /\ visit' = visit + 1
      /\ visit <= Len(net.visits)
  BY DEF Configure
<1>2. net \in Networks /\ reg \in [net.regs -> R!RegisterType] /\ visit \in Nat \ {0}
  BY DEF Inv, TypeOK
<1>3. \A l \in net.linkers : Late(l)' = Late(l) /\ MuxVisit(l)' = MuxVisit(l)
  BY <1>1 DEF Late, MuxVisit, At
<1>4. net.visits \in Seq(Visits(net))
  BY <1>2, NetworksAssumption DEF NetworksAssumption, WellFormed
<1>5. Len(net.visits) \in Nat
  BY <1>4
<1> QED
  BY <1>1, <1>2, <1>3, <1>5

\* The visit of a register marks it pending if the model is ahead of the SUT and
\* clears an older mark otherwise.
LEMMA RegisterVisitClosed ==
  ASSUME Inv, ClosedInv, Configure,
         NEW r \in net.regs, net.visits[visit] = RegisterVisit(r)
  PROVE  ClosedInv'
<1>0. /\ net \in Networks /\ visit \in 1..Len(net.visits) /\ visit' = visit + 1
      /\ net' = net /\ algorithm' = algorithm /\ phase' = phase /\ phase = "configure"
      /\ \A l \in net.linkers : Late(l)' = Late(l) /\ MuxVisit(l)' = MuxVisit(l)
  BY ConfigureFrame
<1>1. /\ \A s \in net.regs : s # r => reg'[s] = reg[s]
      /\ reg'[r].next = reg[r].next /\ reg'[r].last = reg[r].last
      /\ reg'[r].pendingRead = reg[r].pendingRead
      /\ reg'[r].pendingWrite = (reg[r].next # reg[r].last)
  <2>1. VisitRegister(r)
    BY DEF Configure, RegisterVisit
  <2> DEFINE h == [reg[r] EXCEPT !.pendingWrite = (reg[r].next # reg[r].last)]
  <2>2. reg' = [reg EXCEPT ![r] = h] /\ reg \in [net.regs -> R!RegisterType]
    BY <2>1, ConfigureFrame DEF VisitRegister, R!MarkPendingWrite
  <2>3. /\ h.next = reg[r].next /\ h.last = reg[r].last /\ h.pendingRead = reg[r].pendingRead
        /\ h.pendingWrite = (reg[r].next # reg[r].last)
    BY <2>2 DEF R!RegisterType
  <2> HIDE DEF h
  <2> QED
    BY <2>2, <2>3
<1>2. \A v \in Visits(net) :
        /\ Done(v)' <=> (Done(v) \/ v = RegisterVisit(r))
        /\ v = RegisterVisit(r) => ~Done(v)
  BY <1>0, DoneStep
<1>3. ASSUME NEW l \in net.linkers
      PROVE  /\ Done(LinkerVisit(l))' <=> Done(LinkerVisit(l))
             /\ \A p \in PathIds(net.sel[l]) : Done(PathVisit(l, p))' <=> Done(PathVisit(l, p))
  <2>1. LinkerVisit(l) \in Visits(net) /\ LinkerVisit(l) # RegisterVisit(r)
    BY KindsOfVisits
  <2>2. \A p \in PathIds(net.sel[l]) :
          PathVisit(l, p) \in Visits(net) /\ PathVisit(l, p) # RegisterVisit(r)
    BY KindsOfVisits
  <2>3. Done(LinkerVisit(l))' <=> Done(LinkerVisit(l))
    BY <1>2, <2>1 DEF Done
  <2>4. ASSUME NEW p \in PathIds(net.sel[l])
        PROVE  Done(PathVisit(l, p))' <=> Done(PathVisit(l, p))
    BY <1>2, <2>2 DEF Done
  <2> QED
    BY <2>3, <2>4
<1>4. ASSUME NEW s \in net.regs
      PROVE  /\ Done(RegisterVisit(s))' <=> (Done(RegisterVisit(s)) \/ s = r)
             /\ s = r => ~Done(RegisterVisit(s))
  <2>1. RegisterVisit(s) \in Visits(net) /\ (RegisterVisit(s) = RegisterVisit(r) <=> s = r)
    BY KindsOfVisits
  <2> QED
    BY <1>2, <2>1 DEF Done
<1>5. ASSUME NEW l \in net.linkers
      PROVE  /\ net.mux[l] \in net.regs
             /\ Mux(l)'.next = Mux(l).next /\ Mux(l)'.last = Mux(l).last
             /\ Mux(l)'.pendingRead = Mux(l).pendingRead
             /\ net.mux[l] # r => Mux(l)' = Mux(l)
             /\ net.mux[l] = r => Mux(l)'.pendingWrite = (Mux(l).next # Mux(l).last)
             /\ Done(MuxVisit(l))' <=> (Done(MuxVisit(l)) \/ net.mux[l] = r)
  <2>1. net.mux[l] \in net.regs
    BY <1>0, LinkerFacts
  <2>2. Mux(l)' = reg'[net.mux[l]]
    BY <1>0 DEF Mux
  <2>3. Done(MuxVisit(l))' <=> (Done(MuxVisit(l)) \/ net.mux[l] = r)
    BY <1>0, <1>4, <2>1 DEF MuxVisit, Done
  <2> QED
    BY <1>1, <2>1, <2>2, <2>3 DEF Mux
<1>6. NoMuxRead'
  BY <1>0, <1>5 DEF ClosedInv, NoMuxRead
<1>7. \A l \in net.linkers : net.mux[l] = r => Settled(l)'
  BY <1>5 DEF Settled, R!IsPending, ClosedInv, NoMuxRead
<1>8. LateSettled'
  <2> SUFFICES ASSUME NEW l \in net.linkers, Late(l), Done(MuxVisit(l))' PROVE Settled(l)'
    BY <1>0 DEF LateSettled
  <2>1. CASE net.mux[l] = r
    BY <1>7, <2>1
  <2>2. CASE net.mux[l] # r
    BY <1>5, <2>2 DEF Settled, ClosedInv, LateSettled
  <2> QED
    BY <2>1, <2>2
<1>9. ASSUME DoneQuiet', NEW l \in net.linkers PROVE Closing(l)'
  <2>1. DoneQuiet
    BY <1>0, <1>1, <1>4, <1>9 DEF DoneQuiet, Done
  <2>2. Closing(l)
    BY <1>0, <2>1 DEF ClosedInv
  <2>3. \A p : PathClosed(l, p)' <=> PathClosed(l, p)
    BY <1>0, <1>5 DEF PathClosed, ClosedBy
  <2>4. ASSUME l \in net.keepOpen, Late(l), ~Done(LinkerVisit(l)) PROVE Settled(l)'
    BY <1>5, <1>7, <2>2, <2>4 DEF Closing, Settled
  <2>5. ASSUME ~Done(MuxVisit(l)), Mux(l).next # Mux(l).last PROVE ~Done(MuxVisit(l))'
    <3>1. net.mux[l] = r => R!IsPending(reg[r])'
      BY <1>1, <2>5 DEF Mux, R!IsPending
    <3>2. net.mux[l] # r
      BY <1>0, <1>4, <1>9, <3>1 DEF DoneQuiet, Done
    <3> QED
      BY <1>5, <2>5, <3>2
  <2>6. SelectsNone' = SelectsNone
    BY <1>0 DEF SelectsNone
  <2> QED
    BY <1>0, <1>3, <1>5, <2>2, <2>3, <2>4, <2>5, <2>6 DEF Closing
<1> QED
  BY <1>0, <1>6, <1>8, <1>9 DEF ClosedInv

\* A step that changes no register but the mux register of l, which it may give
\* another value and mark pending.
OnlyMux(l) ==
  /\ \A r \in net.regs : r # net.mux[l] => reg'[r] = reg[r]
  /\ Mux(l)'.last = Mux(l).last /\ Mux(l)'.pendingRead = Mux(l).pendingRead
  /\ R!IsPending(Mux(l)) => R!IsPending(Mux(l)')

\* Giving the mux register a value is such a step, and so is doing nothing.
LEMMA SetMuxOnly ==
  ASSUME Inv, net' = net, NEW l \in net.linkers
  PROVE  /\ UNCHANGED reg => OnlyMux(l) /\ Mux(l)' = Mux(l)
         /\ \A v \in Vectors : SetMux(l, v) => OnlyMux(l) /\ Mux(l)'.next = v
<1>0. net \in Networks /\ reg \in [net.regs -> R!RegisterType] /\ net.mux[l] \in net.regs
  BY LinkerFacts DEF Inv, TypeOK
<1>1. Mux(l)' = reg'[net.mux[l]] /\ Mux(l) = reg[net.mux[l]]
  BY DEF Mux
<1>2. UNCHANGED reg => OnlyMux(l) /\ Mux(l)' = Mux(l)
  BY <1>1 DEF OnlyMux
<1>3. ASSUME NEW v \in Vectors, SetMux(l, v) PROVE OnlyMux(l) /\ Mux(l)'.next = v
  <2>1. CASE Mux(l).next = v
    BY <1>1, <1>2, <1>3, <2>1 DEF SetMux
  <2>2. CASE Mux(l).next # v
    <3> DEFINE g == R!SetToSut(Mux(l), v, TRUE)
               h == [g EXCEPT !.pendingWrite = TRUE]
    <3>1. reg' = [reg EXCEPT ![net.mux[l]] = h]
      BY <1>1, <1>3, <2>2 DEF SetMux
    <3>2. /\ g \in R!RegisterType /\ g.next = v /\ g.last = Mux(l).last
          /\ g.pendingRead = Mux(l).pendingRead
      BY <1>0, <1>1 DEF R!SetToSut, R!RegisterType
    <3> HIDE DEF g
    <3>3. /\ h.next = v /\ h.last = Mux(l).last /\ h.pendingRead = Mux(l).pendingRead
          /\ h.pendingWrite = TRUE
      BY <3>2 DEF R!RegisterType
    <3> HIDE DEF h
    <3> QED
      BY <1>0, <1>1, <3>1, <3>3 DEF OnlyMux, R!IsPending
  <2> QED
    BY <2>1, <2>2
<1> QED
  BY <1>2, <1>3

\* The visit at hand is one of linker l: the last decision or one of its paths.
VisitOf(l) ==
  \/ net.visits[visit] = LinkerVisit(l)
  \/ \E p \in PathIds(net.sel[l]) : net.visits[visit] = PathVisit(l, p)

\* What a visit of a linker does with its mux register matters to no other
\* linker, and it leaves the registers visited before as they are.
LEMMA OtherLinkers ==
  ASSUME Inv, ClosedInv, Configure, NEW l \in net.linkers, VisitOf(l), OnlyMux(l)
  PROVE  /\ NoMuxRead' /\ LateSettled' /\ (DoneQuiet' => DoneQuiet)
         /\ \A r \in net.regs : Done(RegisterVisit(r))' <=> Done(RegisterVisit(r))
         /\ DoneQuiet' => \A k \in net.linkers : k # l => Closing(k)'
<1>0. /\ net \in Networks /\ visit \in 1..Len(net.visits) /\ visit' = visit + 1
      /\ net' = net /\ algorithm' = algorithm /\ phase' = phase /\ phase = "configure"
      /\ \A k \in net.linkers : Late(k)' = Late(k) /\ MuxVisit(k)' = MuxVisit(k)
  BY ConfigureFrame
<1>1. \A v \in Visits(net) : Done(v)' <=> (Done(v) \/ v = net.visits[visit])
  BY <1>0, DoneStep
<1>2. ASSUME NEW r \in net.regs
      PROVE  Done(RegisterVisit(r))' <=> Done(RegisterVisit(r))
  <2>1. RegisterVisit(r) \in Visits(net) /\ RegisterVisit(r) # net.visits[visit]
    BY KindsOfVisits DEF VisitOf
  <2> QED
    BY <1>1, <2>1 DEF Done
<1>3. ASSUME NEW k \in net.linkers
      PROVE  /\ net.mux[k] \in net.regs /\ (k # l => Mux(k)' = Mux(k))
             /\ Done(MuxVisit(k))' <=> Done(MuxVisit(k))
  <2>1. net.mux[k] \in net.regs /\ (k # l => net.mux[k] # net.mux[l])
    BY <1>0, LinkerFacts
  <2>2. Done(MuxVisit(k))' <=> Done(MuxVisit(k))
    BY <1>0, <1>2, <2>1 DEF MuxVisit, Done
  <2> QED
    BY <1>0, <2>1, <2>2 DEF OnlyMux, Mux
<1>4. NoMuxRead'
  BY <1>0, <1>3 DEF OnlyMux, ClosedInv, NoMuxRead
<1>5. DoneQuiet' => DoneQuiet
  <2> SUFFICES ASSUME DoneQuiet', NEW r \in net.regs, Done(RegisterVisit(r))
               PROVE  ~R!IsPending(reg[r])
    BY DEF DoneQuiet
  <2>1. ~R!IsPending(reg'[r])
    BY <1>0, <1>2 DEF DoneQuiet
  <2>2. CASE r = net.mux[l]
    <3>1. Mux(l)' = reg'[r] /\ Mux(l) = reg[r]
      BY <1>0, <2>2 DEF Mux
    <3> QED
      BY <2>1, <3>1 DEF OnlyMux
  <2>3. CASE r # net.mux[l]
    BY <2>1, <2>3 DEF OnlyMux
  <2> QED
    BY <2>2, <2>3
<1>6. Late(l) => ~Done(MuxVisit(l))'
  <2>1. LinkerVisit(l) \in Visits(net) /\ MuxVisit(l) \in Visits(net)
    BY <1>3, KindsOfVisits DEF MuxVisit
  <2>2. /\ At(net, LinkerVisit(l)) \in Nat /\ At(net, MuxVisit(l)) \in Nat
        /\ visit \in Nat
    BY <1>0, <2>1, VisitedOnce
  <2>3. visit <= At(net, LinkerVisit(l))
    <3>1. CASE net.visits[visit] = LinkerVisit(l)
      BY <1>0, <2>1, <2>2, <3>1, VisitedOnce
    <3>2. ASSUME NEW p \in PathIds(net.sel[l]), net.visits[visit] = PathVisit(l, p)
          PROVE  visit < At(net, LinkerVisit(l))
      <4>1. PathVisit(l, p) \in Visits(net)
        BY KindsOfVisits
      <4>2. visit = At(net, PathVisit(l, p))
        BY <1>0, <3>2, <4>1, VisitedOnce
      <4> QED
        BY <1>0, <4>2, VisitOrder
    <3> QED
      BY <2>2, <3>1, <3>2 DEF VisitOf
  <2> QED
    BY <1>3, <2>2, <2>3 DEF Late, Done
<1>7. LateSettled'
  <2> SUFFICES ASSUME NEW k \in net.linkers, Late(k), Done(MuxVisit(k))' PROVE Settled(k)'
    BY <1>0 DEF LateSettled
  <2>1. k # l
    BY <1>6
  <2> QED
    BY <1>3, <2>1 DEF Settled, ClosedInv, LateSettled
<1>8. ASSUME DoneQuiet', NEW k \in net.linkers, k # l PROVE Closing(k)'
  <2>1. Closing(k)
    BY <1>0, <1>5, <1>8 DEF ClosedInv
  <2>2. /\ LinkerVisit(k) \in Visits(net) /\ LinkerVisit(k) # net.visits[visit]
        /\ \A p \in PathIds(net.sel[k]) :
             PathVisit(k, p) \in Visits(net) /\ PathVisit(k, p) # net.visits[visit]
    BY <1>8, KindsOfVisits DEF VisitOf
  <2>3. /\ Done(LinkerVisit(k))' <=> Done(LinkerVisit(k))
        /\ \A p \in PathIds(net.sel[k]) : Done(PathVisit(k, p))' <=> Done(PathVisit(k, p))
    BY <1>1, <2>2 DEF Done
  <2>4. /\ \A p : PathClosed(k, p)' <=> PathClosed(k, p)
        /\ Settled(k)' <=> Settled(k)
    BY <1>0, <1>3, <1>8 DEF PathClosed, ClosedBy, Settled
  <2>5. SelectsNone' = SelectsNone
    BY <1>0 DEF SelectsNone
  <2> QED
    BY <1>0, <1>3, <1>8, <2>1, <2>3, <2>4, <2>5 DEF Closing
<1> QED
  BY <1>2, <1>4, <1>5, <1>7, <1>8

\* Under what has been visited nothing is pending, if no visited register is.
LEMMA NothingBelow ==
  ASSUME Inv, DoneQuiet, NEW l \in net.linkers, NEW p \in PathIds(net.sel[l]),
         visit >= At(net, PathVisit(l, p))
  PROVE  PendingBelow(l, p) = {}
<1>0. net \in Networks /\ visit \in Nat
  BY DEF Inv, TypeOK
<1>1. ASSUME NEW r \in net.regs, <<l, p>> \in net.above[r] PROVE ~R!IsPending(reg[r])
  <2>1. At(net, RegisterVisit(r)) < At(net, PathVisit(l, p))
    BY <1>0, <1>1, VisitOrder
  <2>2. RegisterVisit(r) \in Visits(net) /\ PathVisit(l, p) \in Visits(net)
    BY KindsOfVisits
  <2>3. At(net, RegisterVisit(r)) \in Nat /\ At(net, PathVisit(l, p)) \in Nat
    BY <1>0, <2>2, VisitedOnce
  <2> QED
    BY <1>0, <2>1, <2>3 DEF DoneQuiet, Done
<1> QED
  BY <1>1 DEF PendingBelow

\* The visit of a path without pending registers closes it, unless the linker
\* is to be kept open.
LEMMA PathVisitClosed ==
  ASSUME Inv, ClosedInv, Configure, NEW l \in net.linkers, NEW p \in PathIds(net.sel[l]),
         net.visits[visit] = PathVisit(l, p)
  PROVE  ClosedInv'
<1>0. /\ net \in Networks /\ visit \in 1..Len(net.visits) /\ visit' = visit + 1
      /\ net' = net /\ algorithm' = algorithm /\ phase' = phase /\ phase = "configure"
      /\ \A k \in net.linkers : Late(k)' = Late(k) /\ MuxVisit(k)' = MuxVisit(k)
  BY ConfigureFrame
<1>1. VisitPath(l, p)
  BY DEF Configure, PathVisit
<1>2. p \in 0..net.sel[l].paths /\ Mux(l).next \in Vectors
  <2>1. net.sel[l].paths \in Nat /\ net.mux[l] \in net.regs
    BY <1>0, LinkerFacts DEF Selectors
  <2> QED
    BY <2>1 DEF PathIds, Mux, Inv, TypeOK, R!RegisterType
<1>3. OnlyMux(l)
  <2>1. LinkerSelect(l, p) \/ LinkerDeselect(l, p) \/ UNCHANGED reg
    BY <1>1 DEF VisitPath, ProcessPending, LastOrDefaultProcessPending, CloseAllProcessPending
  <2>2. /\ Select(net.sel[l], Mux(l).next, p) \in Vectors
        /\ Deselect(net.sel[l], Mux(l).next, p) \in Vectors
    BY <1>0, <1>2, NetworkFacts, SelectType
  <2> QED
    BY <1>0, <2>1, <2>2, SetMuxOnly DEF LinkerSelect, LinkerDeselect, Mux
<1>4. VisitOf(l)
  BY DEF VisitOf
<1>5. ASSUME DoneQuiet' PROVE Closing(l)'
  <2>1. DoneQuiet /\ Closing(l)
    BY <1>0, <1>3, <1>4, <1>5, OtherLinkers DEF ClosedInv
  <2>2. PathVisit(l, p) \in Visits(net) /\ visit = At(net, PathVisit(l, p)) /\ visit \in Nat
    BY <1>0, KindsOfVisits, VisitedOnce
  <2>3. PendingBelow(l, p) = {}
    BY <2>1, <2>2, NothingBelow
  <2>4. IF IsSelected(l, p) /\ l \notin net.keepOpen THEN LinkerDeselect(l, p)
        ELSE UNCHANGED reg
    BY <1>1, <2>3 DEF VisitPath
  <2>5. \A q \in PathIds(net.sel[l]) :
          Done(PathVisit(l, q))' <=> (Done(PathVisit(l, q)) \/ q = p)
    <3>1. \A q \in PathIds(net.sel[l]) :
            PathVisit(l, q) \in Visits(net) /\ (PathVisit(l, q) = PathVisit(l, p) <=> q = p)
      BY KindsOfVisits
    <3>2. \A v \in Visits(net) : Done(v)' <=> (Done(v) \/ v = PathVisit(l, p))
      BY <1>0, DoneStep
    <3> QED
      BY <3>1, <3>2 DEF Done
  <2>6. CASE l \notin net.keepOpen
    <3> SUFFICES ASSUME NEW q \in PathIds(net.sel[l]), Done(PathVisit(l, q)) \/ q = p
                 PROVE  PathClosed(l, q)'
      BY <1>0, <2>5, <2>6 DEF Closing
    <3>1. q = p \/ PathClosed(l, q)
      BY <2>1, <2>6 DEF Closing
    <3>2. CASE IsSelected(l, p)
      <4>1. SetMux(l, Deselect(net.sel[l], Mux(l).next, p))
        BY <2>4, <2>6, <3>2 DEF LinkerDeselect, Mux
      <4>2. Deselect(net.sel[l], Mux(l).next, p) \in Vectors
        BY <1>0, <1>2, NetworkFacts, SelectType
      <4>3. Mux(l)'.next = Deselect(net.sel[l], Mux(l).next, p)
        BY <1>0, <4>1, <4>2, SetMuxOnly
      <4>4. ClosedBy(net.sel[l], Deselect(net.sel[l], Mux(l).next, p), q)
        BY <1>0, <3>1, LinkerFacts, SelectorCloses DEF PathClosed
      <4> QED
        BY <1>0, <4>3, <4>4 DEF PathClosed, ClosedBy
    <3>3. CASE ~IsSelected(l, p)
      <4>1. Mux(l)' = Mux(l)
        BY <1>0, <2>4, <3>3 DEF Mux
      <4>2. PathClosed(l, p)
        BY <3>3 DEF IsSelected, PathClosed, ClosedBy, Mux
      <4>3. PathClosed(l, q)
        BY <3>1, <4>2
      <4> QED
        BY <1>0, <4>1, <4>3 DEF PathClosed, ClosedBy
    <3> QED
      BY <3>2, <3>3
  <2>7. CASE l \in net.keepOpen
    <3>1. Mux(l)' = Mux(l)
      BY <1>0, <2>4, <2>7 DEF Mux
    <3>2. /\ \A q : PathClosed(l, q)' <=> PathClosed(l, q)
          /\ Settled(l)' <=> Settled(l)
      BY <1>0, <3>1 DEF PathClosed, ClosedBy, Settled
    <3>3. Done(LinkerVisit(l))' <=> Done(LinkerVisit(l))
      <4>1. LinkerVisit(l) \in Visits(net) /\ LinkerVisit(l) # PathVisit(l, p)
        BY KindsOfVisits
      <4>2. \A v \in Visits(net) : Done(v)' <=> (Done(v) \/ v = PathVisit(l, p))
        BY <1>0, DoneStep
      <4> QED
        BY <4>1, <4>2 DEF Done
    <3>4. Done(MuxVisit(l))' <=> Done(MuxVisit(l))
      <4>1. net.mux[l] \in net.regs
        BY <1>0, LinkerFacts
      <4> QED
        BY <1>0, <1>3, <1>4, <4>1, OtherLinkers DEF MuxVisit, Done
    <3>5. SelectsNone' = SelectsNone
      BY <1>0 DEF SelectsNone
    <3> QED
      BY <1>0, <2>1, <2>7, <3>1, <3>2, <3>3, <3>4, <3>5 DEF Closing
  <2> QED
    BY <2>6, <2>7
<1> QED
  BY <1>0, <1>3, <1>4, <1>5, OtherLinkers DEF ClosedInv

\* The last decision about a linker without pending registers selects path 0,
\* with the algorithms that do, unless the mux register is about to be sent.
LEMMA LinkerVisitClosed ==
  ASSUME Inv, ClosedInv, Configure, NEW l \in net.linkers, net.visits[visit] = LinkerVisit(l)
  PROVE  ClosedInv'
<1>0. /\ net \in Networks /\ visit \in 1..Len(net.visits) /\ visit' = visit + 1
      /\ net' = net /\ algorithm' = algorithm /\ phase' = phase /\ phase = "configure"
      /\ \A k \in net.linkers : Late(k)' = Late(k) /\ MuxVisit(k)' = MuxVisit(k)
  BY ConfigureFrame
<1>1. ResolvePendings(l) /\ algorithm \in ConfigureAlgorithms
  BY NetworksAssumption DEF NetworksAssumption, Configure, LinkerVisit, Inv, TypeOK
<1>2. 0 \in 0..net.sel[l].paths /\ Mux(l).next \in Vectors
  <2>1. net.sel[l].paths \in Nat /\ net.mux[l] \in net.regs
    BY <1>0, LinkerFacts DEF Selectors
  <2> QED
    BY <2>1 DEF Mux, Inv, TypeOK, R!RegisterType
<1> DEFINE none == Select(net.sel[l], Mux(l).next, 0)
<1>3. none \in Vectors
  BY <1>0, <1>2, NetworkFacts, SelectType
<1>4. OnlyMux(l)
  <2>1. LinkerSelect(l, 0) \/ UNCHANGED reg
    BY <1>1 DEF ResolvePendings, GreedyResolvePendings, LastOrDefaultResolvePendings,
                ConfigureAlgorithms
  <2> QED
    BY <1>0, <1>3, <2>1, SetMuxOnly DEF LinkerSelect, Mux
<1>5. VisitOf(l)
  BY DEF VisitOf
<1>6. ASSUME DoneQuiet' PROVE Closing(l)'
  <2>1. DoneQuiet /\ Closing(l)
    BY <1>0, <1>4, <1>5, <1>6, OtherLinkers DEF ClosedInv
  <2>2. /\ LinkerVisit(l) \in Visits(net) /\ visit = At(net, LinkerVisit(l)) /\ visit \in Nat
        /\ ~Done(LinkerVisit(l)) /\ Done(LinkerVisit(l))'
    <3>1. LinkerVisit(l) \in Visits(net) /\ visit = At(net, LinkerVisit(l)) /\ visit \in Nat
      BY <1>0, KindsOfVisits, VisitedOnce
    <3> QED
      BY <1>0, <3>1 DEF Done
  <2>3. ASSUME NEW p \in PathIds(net.sel[l])
        PROVE  PendingBelow(l, p) = {} /\ Done(PathVisit(l, p))
    <3>1. At(net, PathVisit(l, p)) < visit
      BY <1>0, <2>2, VisitOrder
    <3>2. At(net, PathVisit(l, p)) \in Nat
      BY <1>0, KindsOfVisits, VisitedOnce
    <3> QED
      BY <2>1, <2>2, <3>1, <3>2, NothingBelow DEF Done
  <2>4. PendingCount(l) = 0
    <3>1. (UNION {PendingBelow(l, p) : p \in PathIds(net.sel[l])}) = {}
      BY <2>3
    <3> QED
      BY <3>1, FS_EmptySet DEF PendingCount
  <2>5. IF SelectsNone THEN LinkerSelect(l, 0) ELSE UNCHANGED reg
    BY <1>1, <2>4 DEF ResolvePendings, GreedyResolvePendings, LastOrDefaultResolvePendings,
                      ConfigureAlgorithms, SelectsNone
  <2>6. \/ Mux(l)' = Mux(l) /\ (SelectsNone => R!IsPending(Mux(l)))
        \/ \A p \in PathIds(net.sel[l]) : PathClosed(l, p)'
    <3>1. CASE SelectsNone /\ ~R!IsPending(Mux(l))
      <4>1. SetMux(l, none)
        BY <2>5, <3>1 DEF LinkerSelect, Mux
      <4>2. Mux(l)'.next = none
        BY <1>0, <1>3, <4>1, SetMuxOnly
      <4>3. \A p \in PathIds(net.sel[l]) : ClosedBy(net.sel[l], none, p)
        BY <1>0, LinkerFacts, SelectorCloses
      <4> QED
        BY <1>0, <4>2, <4>3 DEF PathClosed, ClosedBy
    <3>2. CASE ~SelectsNone \/ R!IsPending(Mux(l))
      <4>1. UNCHANGED reg
        BY <2>5, <3>2 DEF LinkerSelect, Mux
      <4> QED
        BY <1>0, <3>2, <4>1 DEF Mux
    <3> QED
      BY <3>1, <3>2
  <2>7. CASE l \notin net.keepOpen
    <3>1. \A p \in PathIds(net.sel[l]) : PathClosed(l, p)
      BY <2>1, <2>3, <2>7 DEF Closing
    <3>2. \A p \in PathIds(net.sel[l]) : PathClosed(l, p)'
      BY <1>0, <2>6, <3>1 DEF PathClosed, ClosedBy
    <3> QED
      BY <1>0, <2>7, <3>2 DEF Closing
  <2>8. CASE l \in net.keepOpen
    <3> SUFFICES ASSUME SelectsNone, Mux(l)' = Mux(l), R!IsPending(Mux(l))
                 PROVE  ~Done(MuxVisit(l))' /\ Mux(l)'.next # Mux(l)'.last
      BY <1>0, <2>2, <2>6, <2>8 DEF Closing, SelectsNone
    <3>1. net.mux[l] \in net.regs /\ MuxVisit(l) \in Visits(net) /\ MuxVisit(l) # LinkerVisit(l)
      BY <1>0, LinkerFacts, KindsOfVisits DEF MuxVisit
    <3>2. ~Done(MuxVisit(l))
      BY <2>1, <3>1 DEF DoneQuiet, MuxVisit, Mux
    <3>3. At(net, MuxVisit(l)) \in Nat /\ At(net, MuxVisit(l)) # visit
      BY <1>0, <3>1, VisitedOnce
    <3>4. Late(l) /\ ~Done(MuxVisit(l))'
      BY <1>0, <2>2, <3>2, <3>3 DEF Late, Done
    <3>5. Settled(l)
      BY <2>1, <2>2, <2>8, <3>4 DEF Closing
    <3> QED
      BY <3>4, <3>5 DEF Settled
  <2> QED
    BY <2>7, <2>8
<1> QED
  BY <1>0, <1>4, <1>5, <1>6, OtherLinkers DEF ClosedInv

-------------------------------------------------------------------------------
(* The theorem *)

\* Every step keeps the invariant.
LEMMA NextClosedInv == Inv /\ ClosedInv /\ [Next]_vars => ClosedInv'
<1> SUFFICES ASSUME Inv, ClosedInv, [Next]_vars PROVE ClosedInv'
  OBVIOUS
<1>1. CASE Configure
  <2>1. visit \in 1..Len(net.visits) /\ net \in Networks
    BY <1>1, ConfigureFrame
  <2> QED
    BY <1>1, <2>1, VisitFacts, RegisterVisitClosed, PathVisitClosed, LinkerVisitClosed
<1>2. CASE UNCHANGED vars
  BY <1>2 DEF vars, ClosedInv, NoMuxRead, LateSettled, DoneQuiet, Closing, Settled, Late,
              Done, At, Mux, MuxVisit, PathClosed, ClosedBy, SelectsNone
<1> QED
  BY <1>1, <1>2, RequestClosed, StartClosed, PropagateClosed, ShiftClosed
  DEF Next, DataCycleStep

\* When PropagatePendingVisitor finds nothing pending, what was open is closed.
LEMMA ClosedWhenOver ==
  ASSUME Inv, ClosedInv, PropagatePending, phase' = "idle", NEW l \in net.linkers,
         l \notin net.keepOpen \/ SelectsNone,
         NEW p \in PathIds(net.sel[l]), IsActive(l, p)
  PROVE  ~net.sel[l].none /\ p = 1
<1>0. /\ net \in Networks /\ reg \in [net.regs -> R!RegisterType] /\ phase = "configure"
      /\ net.mux[l] \in net.regs
  BY LinkerFacts DEF Inv, TypeOK, PropagatePending
<1>1. \A v \in Visits(net) : Done(v)
  <2>1. visit > Len(net.visits) /\ visit \in Nat
    BY DEF PropagatePending, Inv, TypeOK
  <2>2. net.visits \in Seq(Visits(net))
    BY <1>0, NetworksAssumption DEF NetworksAssumption, WellFormed
  <2>3. Len(net.visits) \in Nat
    BY <2>2
  <2> QED
    BY <1>0, <2>1, <2>3, VisitedOnce DEF Done
<1>2. ASSUME NEW r \in net.regs PROVE ~R!IsPending(reg[r]) /\ reg[r].next = reg[r].last
  <2>1. ~R!IsPending(reg'[r])
    BY <1>0 DEF PropagatePending
  <2>2. reg'[r] = IF reg[r].next # reg[r].last THEN [reg[r] EXCEPT !.pendingWrite = TRUE]
                  ELSE reg[r]
    BY DEF PropagatePending
  <2> QED
    BY <1>0, <2>1, <2>2, PendingEffect DEF R!IsPending
<1>3. DoneQuiet
  BY <1>2 DEF DoneQuiet
<1>4. Closing(l)
  BY <1>0, <1>3 DEF ClosedInv
<1>5. Done(PathVisit(l, p)) /\ Done(LinkerVisit(l)) /\ Done(MuxVisit(l))
  BY <1>0, <1>1, KindsOfVisits DEF MuxVisit
<1>6. PathClosed(l, p)
  BY <1>4, <1>5 DEF Closing
<1>7. Mux(l).next = reg[net.mux[l]].last
  BY <1>0, <1>2 DEF Mux
<1> QED
  BY <1>6, <1>7 DEF PathClosed, ClosedBy, IsActive

\* When the data cycles end, every linker is closed again: the visits of the
\* last configuration have found nothing pending, so they have closed whatever
\* was open, and nothing they did waits to be sent.
THEOREM CyclesEndClosed == Spec => EndWithPathsClosed
<1> DEFINE Open(l) == {p \in PathIds(net.sel[l]) : IsActive(l, p)}
           Shut    == \A l \in net.linkers :
                        \/ Open(l) \subseteq (IF net.sel[l].none THEN {} ELSE {1})
                        \/ l \in net.keepOpen /\ algorithm \in {"last_lazy", "close_all"}
<1>1. ASSUME Inv, ClosedInv, [Next]_vars, phase = "configure", phase' = "idle"
      PROVE  Shut
  <2>1. PropagatePending
    BY <1>1 DEF Next, vars, DataCycleStep, StartDataCycles, StartConfiguration, Configure,
                ShiftChannel, EndDataCycle, Request, iWrite, iRefresh
  <2> QED
    BY <1>1, <2>1, ClosedWhenOver DEF SelectsNone
<1>2. Inv /\ ClosedInv /\ [Next]_vars
        => [phase = "configure" /\ phase' = "idle" => Shut]_vars
  BY <1>1
<1>3. EndWithPathsClosed <=> [][phase = "configure" /\ phase' = "idle" => Shut]_vars
  BY DEF EndWithPathsClosed
<1> QED
  BY <1>2, <1>3, InitClosedInv, NextClosedInv, SpecInv, PTL DEF Spec
===============================================================================
