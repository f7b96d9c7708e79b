# MAST: a TLA+ verification project

MAST (Manager for SoC Test) lets several test applications, written in PDL and
running each on a thread of its own, share one system under test (SUT) whose
registers are reached through a reconfigurable scan network. This directory
holds TLA+ models of its core, the TLC runs that check them on small instances,
and TLAPS proofs for all instances.

## 1. Inventory

| Component | State | Operations | Interacts with |
|---|---|---|---|
| Manager (`SystemModelManager_impl`) | application data of each thread (queues, pending registers, `canProceed`), `m_pendingThreads`, `m_regIdToAppData`, `m_activeThreads`, `m_runLoop`, `m_KillAllThreads` | create, start, stop, join; `iWrite`, `iRead`, `iRefresh`, `iApply`, `iReset`, `iRunLoop`; the data cycle loop | application threads, background thread, visitors, protocols |
| Register (`Register`) | next, last, bypass, value read, expected value, mask, mismatches, pending marks | set, mark, update, compare, reset | manager, visitors, selectors |
| Path selector (`Default*PathSelector`) | tables; its state is a mux register | `IsActive`, `IsSelected`, `Select`, `Deselect` | linker, register |
| Linker, configuration visitor and algorithms | none but pending counts | decide which paths to open and close | selectors, registers |
| Data cycle visitors (`ToSutVisitor`, `FromSutUpdater`, ...) | vector under construction | build the vector, update the registers | manager, registers, protocol |
| Access interface translators, `MTQueue`, raw players | a request and an answer queue per interface, a thread per interface and per translator | push, pop with timeout, transform a request into others, answer | manager, protocols |
| Streamers | mask, left-over keystream, position in it | transform the slice of the vector that goes through them | data cycle |
| Bit vectors (`BinaryVector`) | bytes, number of bits, fixed size | append, slices, integers, comparison under a mask | registers, protocols |
| Virtual registers, aliases | slices of registers | write, read and compare through a view | PDL calls, registers |
| Tree of the model (`SystemModel`, `ParentNode`, `SystemModelNode`) | first child, next sibling and child appender pointers; root; identifiers | create, append, prepend, splice, disconnect, remove, replace the root | builder, checkers, visitors |
| Paths (`FindNode`, `FindRegister`, `NodePathResolver`) | prefix, caches | search by path, set the prefix | PDL calls |
| Checkers (`SystemModelChecker`, `NamesChecker`) | nodes and parents seen | traverse, report errors | tree |
| Builder (`SystemModelBuilder`) | - | macros for TAPs, SIBs, wrappers; merge and move TAPs | tree |
| Factory, readers (SIT, ICL) | - | text to calls of the builder, before the manager runs | builder |
| PDL adapters (C, C++), environment, session | - | forward calls, load options and plugins | manager |
| Protocols and players (SVF, STIL, I2C, remote), logger, printers | device or file | I/O | - |

`PROJECT.json` lists every component with its files and whether it is modelled.

**What is hard.** Application threads and the background thread share the
registers, the pending sets and several plain variables; `iApply` is two
critical sections and a polling wait; the mutex is released between two data
cycles of one series, so requests arrive when paths are half open; protocols
may throw in the middle of a cycle; the loop can be stopped and started again
with threads blocked; whether a write is sent at all depends on a cached copy
of the SUT (`m_lastToSut`); and the network is reconfigured by shifting through
itself. A request to a translated interface goes through a chain of detached
threads that wait for each other on queues. A streamer must stay in step with
its counterpart in the SUT while the path, and so its share of the vector,
changes from cycle to cycle. Vectors are packed in bytes and cut at any bit.
The tree is made of raw sibling lists that macros take apart and put together
again, and paths are searched in it without backtracking. The hazards are
listed, at their lines, in `PROJECT.json`.

**What correctness means.** `iApply` returns, and only when the registers it
asked for have been shifted and its values are in the SUT; no blocked thread is
forgotten; `Stop` returns; the model's idea of the active path is the path of
the SUT; data cycles end, whatever the algorithm; registers passed on the way
keep their values. A translated request is executed once, in order, and its
answer goes to who asked. Ciphered bits arrive as plain ones. Packed vectors
behave as sequences of bits, views as the bits they stand for. The pointers are
a tree; a path leads to what has that name or to nothing; the check of a model
says what it documents.

## 2. Plan

1. `Register`, `SystemModelManager`: requests, the loop, life cycle (done).
2. `PathSelector`, `ScanNetwork`: selectors and retargeting (done).
3. Proofs of the type invariants and of the main safety properties (done).
4. `AccessInterfaceTranslator`: translators, queues, `iRunLoop`, data cycles
   without a loop (done).
5. `DataCycles`: what a series of data cycles promises, implemented by
   `ScanNetwork` (done, safety part proved).
6. `BinaryVector`, `VirtualRegister`, `Streamer`: bits (done).
7. `SystemModel` implementing `NodeTree`; `SystemModelChecker`, `NodePaths`,
   `NodePathResolver`, `SystemModelBuilder`: the tree (done).
8. Proofs about the content of the SUT, the closing of paths, the conversations
   of the translators and the caches of the resolver (done).
9. Proofs about loops over data: what the folds of the community modules compute,
   and with it the streamers, the virtual registers and the packed vectors (done).
10. Left: `ExecutedOnce` for every chain of translators, as far as it holds;
   single-thread mode, `iGet` and `iScan`.

## 3. Modules

`Register` - pure operators. A register is a record and each member function
an operator on it. Bit vectors are abstract values; an expected value with its
don't-care mask is the set of values it accepts.

`SystemModelManager` (uses `Register`). The variables are the fields of the
manager and of `ApplicationData`, named after them, plus the position of each
thread. `iApply` is three actions: `iApply` (`ProcessQueuedRequests`, under the
mutex), `iApplyPend` (reporting itself pending, under the mutex),
`iApplyReturn` (the wait is over; return, or `pthread_exit`). The background
thread is `LoopTest`, `Configure`, `BuildToSut`, `Serve` (or `ServeFails`),
`CycleEnd`, `LastRelease`, `LoopWaitEnd`. `m_dataMutex` is held by it from
`Configure` to the end of the cycle (`DataMutexFree`). The owner creates,
starts, stops and joins. `m_activeThreads++` is a read and a write, because
the code does it without a lock; `CounterMod` is the modulus of the unsigned
type. `iReset` takes no mutex in the code and may happen at any point. The
scan network appears as a free choice: a channel that is visited shifts any
member of `ActivePaths`. The SUT (`sut`, `Shift`, `Captures`) is external: it
takes in what is shifted, and puts out its content, or anything for the
registers in `Instruments`. `owed` and `wrote` are history variables.

`PathSelector` - pure operators: the tables of the three selectors, and what a
value of the mux register selects. A bit vector is the set of its ones.

`ScanNetwork` (uses `PathSelector` and `Register`). A network is the flattened
tree of the model. `Configure` makes one visit of `ConfigureVisitor` at a time
(a register, a path of a linker, the last decision on a linker);
`PropagatePending` decides whether there is a cycle; `ShiftChannel` sends and
updates the registers of one channel; `EndDataCycle` releases the mutex, and
the application threads may write and refresh registers before the next
configuration. `WellFormed` states what the visitor relies on. Data registers
hold their value (`holdValue`), as mux registers do.

`DataCycles` - the abstract specification of a series of data cycles, with the
network hidden: requested values, the content of the SUT, and whether a series
is under way. `ScanNetwork` implements it, with its fairness.

`AccessInterfaceTranslator`. Every translator and every access interface below
it has a thread and two queues (`callbackQueue`, `fromSutQueue`), and the action
of a thread is one critical section of `MTQueue` or the code between two of
them. `PushRequest`, `PopTimeout`, `WaitOnQueue` and `Pop` are the queue;
`StartChildVisit`, `Launch`, `TransformationAnswered`, `CallbackAnswered`,
`ReleaseParent`, `NoMoreChannels` the conversation of a visit. A request is its
origin and number; the texts of commands are left out. `executed` is what the
interface has executed.

`BitSequence` - sequences of bits: the reference definitions of the next two
modules. `BinaryVector` - the byte buffer and its operations, byte by byte as in
the code, beside a sequence of bits (`bits`) to which the same operations are
applied, with offsets and ranges counted from the left, as the code and its unit
tests count them. `ByteBits` is the size of a byte.

`VirtualRegister` (uses `BitSequence`) - slices of registers in both directions,
views made of them, writes, masked reads and comparison. The loop over the slices
of a view (`UpdateRegisters`, `GetView`) is a fold. `goal` and `want` are what the
bits of the registers should be, by position, from the definition of a view
(`ViewBits`); where a view has a bit twice, the later value counts (`Spread`).
`ReadsCover` says which reads the comparison is right for: those with a mask,
through views that have all the bits of their registers.

`Streamer` - the vector of a data cycle with the segments of its streamers
(`Begin`, `End`), ciphering before and after the shift, and the left-over
keystream of `TriviumNewMask`. The SUT is a scan chain that is shifted clock by
clock (`Clock`) through streamers of its own, which is external. The cipher
itself is any member of `KeyStreams`.

`NodeTree` - the abstract tree: each node has a sequence of children.
`SystemModel` implements it with first child and next sibling pointers, with
child appenders, identifiers and the root; each call is an action. Nodes may be
constructed without the `SystemModel` (`Construct`), after which registrations
fail half-way, as in the code.

`SystemModelChecker` (extends `SystemModel`) - `SystemModel::Check` as a
function of the state: the traversals of both checkers over any graph, with
their guards; a traversal may also throw or not end (`fate`).

`NodePaths` - `FindNode`, `FindRegister` and what `NamesChecker` reports, on all
small trees with names and aliases. The searches are functions of the tree they
search.
`NodePathResolver` (extends it) - prefix and caches.

`SystemModelBuilder` (extends `SystemModelChecker`) - the macros as functions of
the model, and callers that use them in any order. `AppendAgain` and
`AppendUnregistered` are last, wrong calls, so that the checkers have something
to find: the second appends a register whose registration throws, because a node
was made without the `SystemModel`.

`MCSystemModelManager`, `MCScanNetwork`, `MCAccessInterfaceTranslator`,
`MCVirtualRegister`, `MCStreamer` - the instances for TLC. The others have
bounds only and are instantiated by their `.cfg`. `ServiceSpec` starts from a
manager in service (threads created and started) and leaves the life cycle out.

`SystemModelManagerProofs`, `ScanNetworkProofs`, `AccessInterfaceTranslatorProofs`,
`NodePathResolverProofs`, `StreamerProofs`, `VirtualRegisterProofs`,
`BinaryVectorProofs` - the theorems, each module on the one it is named after.
`FoldLemmas` - what `FoldLeft` and `FlattenSeq` compute, for an operator that is
a constant of the module; the last three instantiate it.

Operators marked "Mutant" are plausible faults of the operator that follows
them. They are not part of the model; substituting them shows that a property
can fail.

## 4. Runs

| Run | Instance | Shows |
|---|---|---|
| `apply` | 2 threads, 2 registers on 2 channels, both threads on one register, writes, a read and a refresh, any active path | the pending book-keeping is consistent, no request is orphaned, `m_lastToSut` is the SUT, `iApply` returns with its values written |
| `apply_live` | 2 threads, each with a register, one write per register and `iApply`; callbacks may throw | every `iApply` returns |
| `lifecycle` | 2 threads, 1 register, `WaitFullPending`, the owner calls anything in any order: one stop, a restart, a reset | types, no forgotten thread, no early return, `Stop` returns |
| `scan_cycles` | nested SIBs (both polarities, one to keep open), a TAP over two channels, two-path linkers of every selector kind; all 5 algorithms; 3 requests at any time between cycles | the model knows the SUT path; all written and all closed in the end; the abstract specification, that the cycles end included |
| `translator` | a translated interface beside a translator with an interface of its own, 2 channels, a run loop, one stop, one reset, one exception | one interface at a time, nothing left in a queue, answers to their owners, each request executed once, everything pending served |
| `vectors` | bytes of 4 bits, up to 9 bits, every operation with every argument of up to 5 bits | buffer, slices, integers and comparisons agree with the sequence of bits |
| `virtual` | 2 registers, 5 views that overlap, one of them with a bit twice, both bit orders, masks | writes reach their bits, views read back, mismatches exactly where bits differ |
| `streamers` | 3 streamers, nested and in a row, another path in each of 2 cycles, bytes of 3 bits | plain bits in both directions, keystreams in step |
| `tree` | 4 nodes, 1 constructed outside, 1 child appender, 1 disconnection | the pointers implement sequences of children; disconnected is gone |
| `paths` | every tree of 6 nodes and aliases with 2 names and ignored nodes, paths of 3 names; a resolver on trees of 3 | the two searches find what they should, and agree on a register when the names pass the check and no alias hides it; caches are never stale |
| `builder` | up to 20 nodes, 5 calls, 2 TAPs below a Brocade, then a sub-tree appended twice or a register that cannot be registered | the macros make forests that pass the check, appended nodes become paths, the verdict of the check is right, its guards work |
| `write_back` | violation: 1 thread, 1 register | written and written back in one `iApply`: it never returns |

The violation is a disagreement between the code and its comments;
`PROJECT.json` ("findings") quotes the lines. Section 6 lists others.

**Bounds.** Two threads and a shared register give every interleaving of two
`iApply` calls with a cycle; a third thread adds no new pair of steps. Two
applies per thread make stale state visible, two writes per apply a write that
overrides another. One stop and two starts reach a restart with blocked
threads. Two paths and two nesting levels give each decision of an algorithm
(open, close, close the parent of an open child, conflict between paths), and
three requests allow one before, one during and one after a reconfiguration.
Translators: two levels make requests that cross two queues on their way, and
two children make the parent choose. Vectors: nine bits of four-bit bytes are
three bytes with a partial last one, and every offset and length modulo the
byte happens; four stands for eight. Virtual registers: samples with a single
one show where each bit goes. Streamers: two cycles carry left-over keystream
once; three-bit bytes make it empty, partial and complete. The tree needs a
parent and three children to splice in the middle of a list. The trees of paths
are built depth first, which reaches all of them; six nodes are enough for two
registers below ignored nodes at two depths, which breadth first and depth first
searches meet in a different order, and for two partial matches with something
behind each; paths of three names are two partial matches and a last name. Five builder calls allow three TAPs
to be merged into one, or two moved and used afterwards. All counters are
bounded by named constants (`Max...`), in guards.

**What callers do.** `tree`: callers attach nodes that are nowhere in the tree,
together with the siblings their pointers lead to. `builder`: callers no longer
use a TAP that was merged or moved. `virtual`: views are read with a mask
(`UnmaskedViewReads`). `vectors`: `AppendBits` of whole bytes happens at a byte
boundary, where `SetInteger` and `SetSlice_T` call it (`AppendBitsAnywhere`). `translator`: the
manager is not started again after a reset, applications make channels pending
between two visits (they need `m_dataMutex`), and a pending channel has bits to
send.

Deadlock is checked in the runs of the manager except `apply_live`, where a
failed protocol ends the loop and every thread, and in `vectors` and `virtual`.
It is off where the system may rest: the network and the translators when the
requests are used up, streamers, trees and builders when the calls are.

**Fairness.** Weak fairness of the background thread and of the threads inside
`iApply`: they are operating system threads, their waits have timeouts, and
the mutex is free between cycles. Weak fairness of `StopJoin`: a join returns
when the thread has ended. Strong fairness of `BuildToSut` for each register and
of `Configure({})` stands for the retargeting: registers with a pending request
are brought onto the active path again and again, and the selectors stop asking
for cycles. The `scan_cycles` run justifies it: there only
`WF(DataCycleStep)` is assumed, and the abstract specification with its fairness
holds, so a series of cycles ends with everything sent. In the translator every
thread that can take a step does (weak fairness of each thread). No fairness is
assumed of applications outside `iApply`, nor of callers.

## 5. Proofs

Assumptions are those of the modules: `ConstantsAssumption` (types of the
parameters), `NetworksAssumption` (every network is well formed), for the
virtual registers `ViewAssumption` (slices lie inside their registers and are
numbered in their direction, as `Append` and the readers see to) and
`ValuesAssumption` (values and masks have their size), for the packed vectors
`ByteBitsAssumption` (a byte has two bits at least), and for the
translators `TreeAssumption` and `ReachableAssumption` (the access interfaces and
translators form a tree: every set of nodes that holds the root and the children
of its members holds them all). TLC evaluates them in every run of their module.

*Manager.* `TypeCorrectness` is `Spec => []TypeOK`. The other three results rest
on one inductive invariant, `ApplyInv`, of four parts:
`PendingIdsMatchMultimap`; `BlockedThreadIsPending`; `OwedIsPending`, what is
owed to a thread is in its `pendingRegistersIds`; and `ReleasedIsServed`, a
thread that may proceed is owed nothing. The last two are needed because
`iApply` returns on `canProceed`, which is set by `ReleaseServedThreads` from
`pendingRegistersIds`, which is emptied by `ReportServedRegisters` from the
multimap: the property that matters is the end of that chain. Steps that
change none of these variables are dealt with once, by a lemma. From it follow
`PendingIdsConsistent`, `NoForgottenThread` and `ApplyServes`. They hold with
resets, failures and restarts, for registers with and without `holdValue`.

*Content of the SUT.* `RequestsHaveWaiters` needs
`NoSutReset`: `iReset` gives a register its reset value and leaves `m_lastToSut`,
so the model is ahead of the SUT on nobody's behalf. Its invariant, `RequestInv`, adds `WrittenSentOrPending`: a value a
thread has written is the next one of its register, and if it is not in the SUT
yet the register is pending for that thread.
`LastToSutKnown` and `ApplyWrites` need two hypotheses more, which are those of
the `apply` run: no protocol throws (a vector may be shifted, then the update is
skipped), and every register holds its value (the others get the bypass
sequence while `m_lastToSut` becomes the next value). Section 6 has these three
differences. `HeldInv` says of a register that holds its value that the bypass
sequence is the next value, that `m_lastToSut` is the content of the SUT, and that
the vector being shifted has the next value. `ApplyWrites` combines the three
invariants: a value not in the SUT is in a set that keeps `iApply` from returning.

*Network.* `Inv` is `TypeOK` and `Synchronised`: `m_lastToSut` of every register
is what the SUT holds, the bypass sequence is the next value, and the next value
of a data register is the last one requested. Selectors only change mux
registers, and only through `SetToSut` (lemma `MuxStep`), so no algorithm needs
a case of its own. `ActivePathIsSutPath` follows at once; `CyclesEndWritten`
because the cycles end only when no register has a next value different from its
last one (`WrittenWhenOver`). `ScanImplementsDataCycles` is the safety part of
the refinement: each step of the network is a step of `DataCycles` or leaves its
variables alone. All hold for every well-formed network, any selectors and all
the algorithms.

*Closing of paths.* `CyclesEndClosed` is about the last
configuration of a series, the one that finds nothing pending. A register once
visited and pending stays pending to the end of a configuration, so in the last
one no visited register is ever pending (`DoneQuiet`), and under that hypothesis
`Closing` says what the visits made so far have achieved for a linker: the paths
visited are closed, and one to keep open has been given path 0 by its last
decision. That decision is skipped when the mux register is pending. If the mux
was visited before, it is not; if it is visited later (`Late`), the mark could be
an old one that the visit of the mux is about to clear, and the linker would stay
open with nothing to send. `LateSettled` excludes it: such a mux has a mark only
if the model is ahead of the SUT, because only its own linker, visited before it,
changes it. The lemmas on selectors (`TableCloses`, `NHotCloses`,
`NHotSelectNone`) are the rest: what `Deselect` and `Select` of path 0 leave
selected, for each kind, polarity and order. They need that the codes of the
paths differ (`CodesDiffer`, in `WellFormed`). It follows from the check of the
register's length, by an induction over bits that is out of the prover's reach.

*Translators.* `TranslatorTypeCorrectness` types the queues and threads.
`ConversationsOrderly` is the inductive invariant, and the heart of the matter:
nothing in a queue says whom a message is from or for, so that answers go to
their owners rests on where the threads are. `Conversation` lists the seven
points a translator and the child it serves can be at: the child works while the
translator listens, it has asked, was heard, its parent asks in turn, it has been
answered, it is done, that was heard; at each the one message between them is in
one place. `Orderly` says that a translator that serves a child is at one of these
points, and that its other children are `Quiet` (no thread, empty queues).
`AnswerFits` and `AsksForChild` say that what is in flight carries the number of
the request that is open; they also hold while the loop is being stopped, when
conversations break off. An action of a node touches it and its
parent or its child; lemmas (`OnlyAt`, `OrderlyElsewhere`, `AsksElsewhere`) say
that all other pairs keep their place, so each action is a proof about two nodes,
for a tree of any depth and width. `ManagerInv` ties the root to the visits of the
manager. `OneAtATime`, `VisitsLeaveNothing` and `OwnAnswers` follow: for the first
two, the tree is walked down from the root by `ReachableAssumption`, which stands
for an induction over it.

*Resolver.* `ResolverCachesFresh` holds whatever the searches compute, since they
depend on the tree, the prefix and the path only. The invariant adds that a
resolver without reference node has found nothing, which is why setting the node
late needs no clearing of the caches.

*Loops over data* (`FoldLemmas`). What a loop over a sequence computes has to be
proved by induction, and the induction theorems of the library take the property
as an operator, which the provers cannot instantiate. `FoldLemmas` goes another
way. Every set of natural numbers has a least element (`NatLeast`, from the fact
that finite sets are well founded by inclusion), so a set of numbers with 0 and
with the successor of each of its members is `Nat` (`NatSetInduction`); a property
P is proved by applying it to `{n \in Nat : P(n)}`. The operator that is folded is
a constant of the module, so that every loop has an instance of its own. The main
result is that a fold has a series of intermediate values, one per element, each
made of the one before (`FoldLeftSteps`).

*Streamers.* `StreamersStayInStep`, `SutGetsPlain` and `ModelReadsPlain` hold for
any arrangement of registers and streamers, nested ones included, any paths in
any order and keystreams of any length (`KeysAssumption`: long enough for the
cycles). The invariant `Inv` has three parts. `KeysInv`: what a protocol has
generated, less what it has left over, is what its streamer in the SUT has used
and the clocks the cycle has still to run; the bits left over continue the
keystream. `CycleInv` is about the shift, clock by clock: a cell of the chain holds
a bit of the vector, or one the SUT held before, and on it the bits of the
keystreams it has met on its way in (`Crossed` counts them, and the parity
decides). At the end that is what `ApplyStreamer` has put on the vector, since both
count the same ends of segments: the masks cancel. The transparent protocol is the
case of a mask of zeroes.

*Virtual registers.* `WritesRight` and `ViewsRight` hold for registers of any
width, views of any slices, both orderings. The loop of `UpdateRegisters` keeps two
things in step, the register slice and the range of the value: after each slice
the registers are what they were, except for the bits the slices so far stand for
(`Written`, which says of each bit that it has the value at its last place), and
the next bit of the value is the first one not used (`LeftAt`, counted from the
left or from the right). `TurnWrites` is the step, and `SetToSutWrites`,
`SetUnmaskedExpectedWrites` and `SetMaskedExpectedWrites` the closed form of the
three loops; `GetViewBits` is that of the loop that reads. `MismatchesRight` and
`CompareResultsRight` need `ReadsCover`, which the `virtual` run has too: without
a mask, or through a view of a part of a register, a read is compared with
something it did not ask for (section 6). The invariant is `ReadInv`: a register
that a cycle will check is pending for a read, and its expected value and mask are
what the reads since the last cycle ask for. A masked read starts from the mask of
an earlier read, and that it covers the register is why nothing of it remains
(`CoveredWritten`).

*Packed vectors.* `VectorsRepresentBits`, `VectorsCompareAsBits`,
`VectorsSliceAsBits` and `VectorsReadAsIntegers` hold for bytes of any size,
vectors of any length and any series of calls, since nothing is assumed of
`MaxBits` and `MaxArgBits`. The invariant `Inv` is `Holds(vec, bits, Len(bits))`.
`Holds(v, u, m)` says that v holds the first m bits of u and zeroes after them, in
no more bytes than m bits need: u is the sequence that is being put together, so
that one lemma covers an operation wherever in a loop it is called, and a loop over
bytes is a series of vectors that hold more and more of the same u (`AppendBytes`,
`AppendChunks`). `Start(j) + i` is bit i of byte j: divisions appear in a few
lemmas about positions only. The case that takes most work is `SetSlice`, which
goes through the vector byte by byte and takes each byte from two of the source;
at the end the second one lies behind the source, and the proof shows that whatever
is there is masked off. The theorems have the hypothesis
`AppendBitsAnywhere = FALSE` of the `vectors` run: without it the first is false
(section 6).

Only model-checked:

- the liveness properties (`iApplyTerminates`, `StopTerminates`, `PendingServed`,
  the fairness of `ImplementsDataCycles`), which need fairness;
- `ExecutedOnce`, which counts: it holds where at most one node between the root
  and an interface turns a callback into two requests, as in the code's chains,
  and its proof would need the history of each request, over the whole chain;
- the searches by path (`FindNodeRight`, `FindRegisterRight`,
  `SearchesAgree`), which are recursive functions over a whole tree;
- the checkers, macros and pointers of the tree (`BuiltIsForest`,
  `BuiltPassesCheck`, `VerdictRight`, `TraversalsEnd`, the refinement of
  `NodeTree`): `SystemModel` and what extends it use recursive operators, which
  no theorem can be stated over here.

## 6. Not modelled, and known differences

Not modelled: `iApply` in single-thread mode, `iGet`, `iScan`; data races on
containers (the loop reads `m_pendingThreads` outside the mutex in its wait),
treated as atomic reads; applications that create applications; two threads that
read one register in one cycle (the last expected value wins); conversions of
vectors from and to text, `SVFVector`; the file exchange of the simulation; the
Trivium cipher itself; the Brocade selector, whose data cycle test the repository
has commented out as not supported (the nodes of a Brocade are modelled); the
rules of the checker about kinds of protocols, its warnings and infos; the
factory, readers, option files, plugins, players, logging and printing, which
are sequential text processing or I/O.

The core that is modelled is a small part of the repository by lines: most of it
is third-party libraries (XML-RPC, test frameworks), unit tests, generated
parsers and examples.

Differences between text and code that were met while modelling. They were
confirmed with TLC on the models, or by reading where a model excludes them; the
runs avoid them as said above.

- *Manager.* `m_activeThreads` is updated without a lock: with `WaitFullPending`
  a lost increment lets a cycle start while a thread runs, against
  `MastOptions.md:46`. A thread of an earlier run left in `m_pendingThreads`
  makes a restarted loop kill all applications
  (`SystemModelManager_impl.cpp:1368`). A reset leaves blocked threads waiting,
  and a value written again after it is not sent (`Register.cpp:155`). A restart
  right after a failing callback, before a thread has noticed, leaves that thread
  blocked.
- *Registers.* Without `holdValue` the bypass sequence is shifted but
  `m_lastToSut` becomes the next value (`FromSutUpdater.cpp:49`, against
  `Register.hpp:229`). The comment on `Register::Reset` says it does nothing with
  an empty reset sequence, yet it clears the pending marks and mismatches.
- *Selectors.* `N_Hot_noidle` can select none (`DefaultNHotPathSelector.cpp:263`,
  against `Plugins.md:84`). `MastOptions.md` says `last_lazy` "never tries to
  select path 0", yet `ConfigureVisitor` deselects paths without pending
  registers whatever the algorithm. Two linkers with one mux register undo each
  other's selections and the cycles never end (`WellFormed` excludes it).
- *Translators.* With `m_runLoop` false a translator serves nobody and the data
  cycles go on for ever: `DoDataCycles` before `Start`, and `Stop` while registers
  are pending, do not return (`DataCycleVisitor.cpp:64`, against
  `SystemModelManager_impl.cpp:1329`). A request popped while the loop is being
  stopped is lost. `iReset` during a cycle, or without one, crosses answers or
  waits for ever (`SVF_RawPlayer.cpp:116`). A run loop below `JTAG_to_I2C` or
  `Remote` throws in a detached thread (`JTAG_to_I2C_TranslatorProtocol.cpp:162`).
  Two concurrent `Stop` calls both join.
- *Bits.* `AppendBits` of a byte or more off a byte boundary puts bytes in the
  wrong place (`BinaryVector.cpp:545`, reachable from `CreateFromString`). Those
  bytes are added to a vector of fixed size too, without a check; for a partial
  last byte it then throws (`:554`), after they were added. The comments on
  `SetSlice` of an `IndexedRange` (`BinaryVector.cpp:2691`, `:2798`) number the
  range from the right, accept (7, 0) and reverse the value for (0, 7); the code
  throws on (7, 0) (`:2823`) and writes (0, 7) unreversed from bit 0 on the left
  (`:2851`), as the unit tests expect. The model counts as the code does, so
  `RepresentsBits` holds of the code's numbering, not of the comments'. An
  unmasked read of an alias keeps the mask of an earlier masked one and misses
  mismatches (`VirtualRegister.cpp:250`); it also compares bits outside a partial
  alias. A streamer with no active register makes the cycle throw
  (`SystemModelManager_impl.cpp:256`).
- *Tree.* A disconnected node keeps its next sibling; when it is reconnected its
  former siblings come along, have two parents, and disconnecting one leaves it
  in the tree, against `SystemModel.cpp:313` (`ParentNode.cpp:227`). The child
  appender survives `DisconnectAllChildren`. Merging or moving the TAP that is
  the root leaves `m_root` an empty node that is no longer managed, until
  `ReplaceRoot`.
- *Checkers.* With a child appended twice to its parent `SystemModel::Check` does
  not return: the loops of `NamesChecker::CheckParentNode` (`NamesChecker.cpp:57`)
  and of `CheckAccessInterface` (`SystemModelChecker.cpp:55`) have no guard,
  against the comment at `SystemModelChecker.cpp:287`. Names that pass the check
  may still hide a register: two parents with one logical path, one of them below
  an ignored node, since `FindNode` does not backtrack; or a parent with the path
  of a register below an ignored node, where `iWrite` reaches the register and
  `iGetStatus` tells the status of the parent's sub-tree. The check does not look
  at aliases either: one with the name of a register passes, `iRead` and `iWrite`
  take the alias (`ParentNode.cpp:513`), and `iGetStatus`, which looks for a node
  first (`SystemModelManager_impl.cpp:770`), the register. `SearchesAgree` says
  exactly when that happens.
