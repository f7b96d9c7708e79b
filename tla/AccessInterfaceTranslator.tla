----------------------- MODULE AccessInterfaceTranslator -----------------------
(***************************************************************************)
(* Data cycles over access interface translators.  The root of the model is *)
(* a translator (AccessInterfaceTranslator) whose protocol drives the SUT;  *)
(* below it are access interfaces with a raw player and other translators   *)
(* (T_2_T_TranslatorProtocol).  Every node below the root has two queues    *)
(* (MTQueue) shared with its parent: requests up, answers down.             *)
(*                                                                         *)
(* A data cycle serves the children of a translator one after the other:    *)
(* it launches a detached thread for the child, then pops requests from     *)
(* whatever queue has one, translates them, and pushes the answer to the    *)
(* child it is serving, until a NO_MORE_PENDING token says that the child   *)
(* is done (DataCycleVisitor, DoHierarchicalDataCycle).                     *)
(***************************************************************************)
EXTENDS Naturals, Sequences

CONSTANTS
  AccessInterfaces, \* access interfaces, each with a raw player
  Translators,      \* translators, the root included
  Root,             \* the root of the system model
  Children,         \* children of a translator, in order of registration
  Below,            \* access interfaces in the subtree of a translator
  VisitOrder,       \* the access interfaces in the order of a visit of the model
  Kind,             \* raw player or T_2_T protocol of every node below the root
  NChannels,        \* channels of an access interface
  RunLoops,         \* <<a, c>>: iRunLoop is called for channel c of a
  MayThrow,         \* access interfaces whose data cycle may throw
  MaxShifts,        \* bound: data cycles that serve one request of a channel
  MaxApplies, MaxStarts, MaxStops, MaxResets,   \* bounds on the calls of the manager
  MaxDirectCalls                                \* bound: DoDataCycles calls without Start

Interfaces == (AccessInterfaces \cup Translators) \ {Root}
Channels   == 1..NChannels
ChildSet(t) == {Children[t][i] : i \in DOMAIN Children[t]}

ASSUME TreeAssumption ==
  /\ Root \in Translators /\ AccessInterfaces \cap Translators = {}
  /\ Children \in [Translators -> Seq(Interfaces)]
  /\ \A t \in Translators : Children[t] # <<>>
  /\ \A n \in Interfaces : \E t \in Translators : \E i \in DOMAIN Children[t] :
       /\ Children[t][i] = n
       /\ \A u \in Translators : \A j \in DOMAIN Children[u] :
            Children[u][j] = n => u = t /\ j = i
  /\ Below \in [Translators -> SUBSET AccessInterfaces]
  /\ \A t \in Translators : Below[t] =
       UNION {IF n \in AccessInterfaces THEN {n} ELSE Below[n] : n \in ChildSet(t)}
  /\ VisitOrder \in Seq(AccessInterfaces) \ {<<>>}
  /\ \A a \in AccessInterfaces : Kind[a] \in {"SVF", "I2C"}
  /\ \A t \in Translators \ {Root} : Kind[t] \in {"Dummy", "JTAG_to_I2C", "Remote"}

\* Every node is below the root: no set of nodes that has the root and, with a
\* translator, its children, leaves one out.
ASSUME ReachableAssumption ==
  \A S \in SUBSET (Interfaces \cup {Root}) :
    Root \in S /\ (\A t \in S \cap Translators : ChildSet(t) \subseteq S)
      => S = Interfaces \cup {Root}

ASSUME BoundsAssumption ==
  /\ NChannels \in Nat /\ RunLoops \subseteq AccessInterfaces \X Channels
  /\ MayThrow \subseteq AccessInterfaces
  /\ MaxShifts \in Nat \ {0}
  /\ {MaxApplies, MaxStarts, MaxStops, MaxResets, MaxDirectCalls} \subseteq Nat

VARIABLES
  runLoop,        \* m_runLoop
  manager,        \* the thread that runs data cycles; "off" when there is none
  owner,          \* the thread that owns the manager
  resetTodo,      \* access interfaces the iReset under way has not reset
  need,           \* shifts a channel still needs: pending when not 0
  iRunLoop,       \* channels with a run loop count
  callbackQueue,  \* m_CallbackQueue of the parent, by child
  fromSutQueue,   \* m_fromSutQueue of the parent, by child
  at,             \* where the thread of a node is, "none" without a thread
  channel,        \* channel the thread of an access interface is at
  child,          \* cur_interface of a translator being visited
  scan,           \* n_interface of PopAllRequests
  inHand,         \* request PopAllRequests has popped
  call,           \* requests the callback under way of a node has still to make
  result,         \* answer the callback under way of a translator will return
  calls,          \* calls of the manager's operations made so far (bounds)
  executed        \* history: operations the SUT did for the callback under way

managerVars == <<runLoop, manager, owner, resetTodo, calls>>
modelVars   == <<need, iRunLoop>>
queueVars   == <<callbackQueue, fromSutQueue>>
visitVars   == <<child, scan, inHand>>
callVars    == <<channel, call, result, executed>>
vars == <<managerVars, modelVars, queueVars, at, visitVars, callVars>>

Operations == {"CSU", "RUNLOOP", "TRST", "I2C_READ", "I2C_WRITE"}

\* What a request is about, handed on by every translation: the access
\* interface, its callback and channel (0 for a reset) and how many shifts the
\* channel still needs.
Data     == [ai : AccessInterfaces, callback : {"CSU", "RUNLOOP", "TRST"},
             chan : 0..NChannels, left : 0..MaxShifts]
Requests == [op : Operations, data : Data]
NoMorePending == [op |-> "NO_MORE_PENDING", data |-> <<>>]

Pending(a)           == \E c \in Channels : need[a][c] > 0
TranslatorPending(t) == \E a \in Below[t] : Pending(a)

\* Operations a node asks its parent for, for a callback op: the raw players
\* SVF_RawPlayer and I2C_RawPlayer (DoCallback), and TransformationCallback of
\* the transaction to transaction translators.
CallbackOperations(kind, op) ==
  IF kind \in {"SVF", "Dummy"} \/ op = "TRST" THEN <<op>>
  ELSE <<"I2C_READ", "I2C_WRITE">>

RequestsFor(kind, op, data) ==
  [i \in DOMAIN CallbackOperations(kind, op) |->
     [op |-> CallbackOperations(kind, op)[i], data |-> data]]

Init ==
  /\ runLoop = FALSE /\ manager = "off" /\ owner = "idle" /\ resetTodo = <<>>
  /\ need = [a \in AccessInterfaces |-> [c \in Channels |-> 0]]
  /\ iRunLoop = {}
  /\ callbackQueue = [n \in Interfaces |-> <<>>]
  /\ fromSutQueue = [n \in Interfaces |-> <<>>]
  /\ at = [n \in Interfaces \cup {Root} |-> "none"]
  /\ channel = [a \in AccessInterfaces |-> 1]
  /\ child = [t \in Translators |-> 1] /\ scan = [t \in Translators |-> 1]
  /\ inHand = [t \in Translators |-> NoMorePending]
  /\ call = [n \in Interfaces |-> <<>>]
  /\ result = [n \in Interfaces |-> NoMorePending]
  /\ calls = [applies |-> 0, starts |-> 0, stops |-> 0, resets |-> 0, direct |-> 0]
  /\ executed = [a \in AccessInterfaces |-> <<>>]

-------------------------------------------------------------------------------
(* Calls of the manager *)

\* An application's iApply makes a channel pending; it needs m_dataMutex, which
\* a visit of the model holds.  How many cycles serve it is the network's matter.
iApply(a, c, shifts) ==
  /\ calls.applies < MaxApplies /\ manager # "visit" /\ need[a][c] = 0
  /\ need' = [need EXCEPT ![a][c] = shifts]
  /\ iRunLoop' = iRunLoop \cup ({<<a, c>>} \cap RunLoops)
  /\ calls' = [calls EXCEPT !.applies = @ + 1]
  /\ UNCHANGED <<runLoop, manager, owner, resetTodo, queueVars, at, visitVars, callVars>>

\* Bound: the loop is not started again after an iReset.
Start ==
  /\ owner = "idle" /\ manager = "off"
  /\ calls.starts < MaxStarts /\ (calls.resets = 0 \/ calls.starts = 0)
  /\ runLoop' = TRUE /\ manager' = "loop"
  /\ calls' = [calls EXCEPT !.starts = @ + 1]
  /\ UNCHANGED <<owner, resetTodo, modelVars, queueVars, at, visitVars, callVars>>

\* Stop: m_runLoop is cleared, then the background thread is joined.
Stop ==
  /\ owner = "idle" /\ calls.stops < MaxStops
  /\ runLoop' = FALSE /\ owner' = "stopping"
  /\ calls' = [calls EXCEPT !.stops = @ + 1]
  /\ UNCHANGED <<manager, resetTodo, modelVars, queueVars, at, visitVars, callVars>>

StopReturns ==
  /\ owner = "stopping" /\ manager \in {"off", "ended"}
  /\ owner' = "idle" /\ manager' = "off"
  /\ UNCHANGED <<runLoop, resetTodo, calls, modelVars, queueVars, at, visitVars, callVars>>

\* DoDataCycles on the owner's thread, when there is no background thread.
DoDataCycles ==
  /\ owner = "idle" /\ manager = "off" /\ calls.direct < MaxDirectCalls
  /\ owner' = "cycling" /\ manager' = "cycle"
  /\ calls' = [calls EXCEPT !.direct = @ + 1]
  /\ UNCHANGED <<runLoop, resetTodo, modelVars, queueVars, at, visitVars, callVars>>

\* iReset: the reseter visits the access interfaces; their registers are reset,
\* which may or may not leave them pending, and DoReset of the raw player makes
\* a request of its own and waits for an answer.  No mutex is taken.
iReset ==
  /\ owner = "idle" /\ calls.resets < MaxResets
  /\ owner' = "resetting" /\ resetTodo' = VisitOrder
  /\ calls' = [calls EXCEPT !.resets = @ + 1]
  /\ UNCHANGED <<runLoop, manager, modelVars, queueVars, at, visitVars, callVars>>

DoReset ==
  /\ owner = "resetting" /\ resetTodo # <<>>
  /\ LET a == Head(resetTodo) IN
       /\ callbackQueue' = [callbackQueue EXCEPT ![a] = Append(@,
            [op |-> "TRST",
             data |-> [ai |-> a, callback |-> "TRST", chan |-> 0, left |-> 0]])]
       /\ \E stillPending \in BOOLEAN :
            need' = IF stillPending THEN need
                    ELSE [need EXCEPT ![a] = [c \in Channels |-> 0]]
  /\ owner' = "resetAnswer"
  /\ UNCHANGED <<runLoop, manager, resetTodo, calls, iRunLoop, fromSutQueue, at,
                 visitVars, callVars>>

DoResetAnswered ==
  /\ owner = "resetAnswer" /\ fromSutQueue[Head(resetTodo)] # <<>>
  /\ fromSutQueue' = [fromSutQueue EXCEPT ![Head(resetTodo)] = Tail(@)]
  /\ resetTodo' = Tail(resetTodo)
  /\ owner' = IF Tail(resetTodo) = <<>> THEN "idle" ELSE "resetting"
  /\ UNCHANGED <<runLoop, manager, calls, modelVars, callbackQueue, at, visitVars, callVars>>

-------------------------------------------------------------------------------
(* The thread that runs the data cycles *)

\* LoopOnDataCycle: ends, starts data cycles for the pending threads, or waits.
LoopTest ==
  /\ manager = "loop"
  /\ ~runLoop \/ TranslatorPending(Root)
  /\ manager' = IF runLoop THEN "cycle" ELSE "ended"
  /\ UNCHANGED <<runLoop, owner, resetTodo, calls, modelVars, queueVars, at, visitVars, callVars>>

\* DoDataCycles_Impl, one turn: the cycles are over when nothing is pending.
\* Otherwise the model is visited; the visit of a translator does nothing when
\* m_runLoop is false, and the next turn finds the same pending nodes.
CyclesOver ==
  /\ manager = "cycle" /\ ~TranslatorPending(Root)
  /\ manager' = IF owner = "cycling" THEN "off" ELSE "loop"
  /\ owner' = IF owner = "cycling" THEN "idle" ELSE owner
  /\ UNCHANGED <<runLoop, resetTodo, calls, modelVars, queueVars, at, visitVars, callVars>>

StartVisit ==
  /\ manager = "cycle" /\ TranslatorPending(Root) /\ runLoop
  /\ manager' = "visit"
  /\ at' = [at EXCEPT ![Root] = "launch"]
  /\ child' = [child EXCEPT ![Root] = 1]
  /\ UNCHANGED <<runLoop, owner, resetTodo, calls, modelVars, queueVars, scan, inHand, callVars>>

-------------------------------------------------------------------------------
(* VisitAccessInterfaceTranslator *)

Served(t) == Children[t][child[t]]

\* The thread launched for a child translator starts its visit.
StartChildVisit(t) ==
  /\ at[t] = "visit"
  /\ at' = [at EXCEPT ![t] = IF runLoop /\ TranslatorPending(t) THEN "launch" ELSE "release"]
  /\ child' = [child EXCEPT ![t] = 1]
  /\ UNCHANGED <<managerVars, modelVars, queueVars, scan, inHand, callVars>>

\* A detached thread is launched for the child, then its requests are awaited.
\* Bound: a second thread on the same interface is not followed.
Launch(t) ==
  /\ at[t] = "launch" /\ at[Served(t)] = "none"
  /\ at' = [at EXCEPT ![t] = "try",
                      ![Served(t)] = IF Served(t) \in AccessInterfaces THEN "channels" ELSE "visit"]
  /\ channel' = IF Served(t) \in AccessInterfaces THEN [channel EXCEPT ![Served(t)] = 1]
                ELSE channel
  /\ scan' = [scan EXCEPT ![t] = 1]
  /\ UNCHANGED <<managerVars, modelVars, queueVars, child, inHand, call, result, executed>>

\* PopAllRequests: a pop with a timeout on each queue in turn, while m_runLoop.
Scanned(t) == Children[t][scan[t]]

Pop(t) ==
  /\ at[t] = "wait" \/ (at[t] = "try" /\ runLoop)
  /\ callbackQueue[Scanned(t)] # <<>>
  /\ inHand' = [inHand EXCEPT ![t] = Head(callbackQueue[Scanned(t)])]
  /\ callbackQueue' = [callbackQueue EXCEPT ![Scanned(t)] = Tail(@)]
  /\ at' = [at EXCEPT ![t] = "popped"]
  /\ UNCHANGED <<managerVars, modelVars, fromSutQueue, child, scan, callVars>>

WaitOnQueue(t) ==
  /\ at[t] = "try" /\ runLoop /\ callbackQueue[Scanned(t)] = <<>>
  /\ at' = [at EXCEPT ![t] = "wait"]
  /\ UNCHANGED <<managerVars, modelVars, queueVars, visitVars, callVars>>

PopTimeout(t) ==
  /\ at[t] = "wait"
  /\ at' = [at EXCEPT ![t] = "try"]
  /\ scan' = [scan EXCEPT ![t] = (@ % Len(Children[t])) + 1]
  /\ UNCHANGED <<managerVars, modelVars, queueVars, child, inHand, callVars>>

StopPopping(t) ==
  /\ at[t] = "try" /\ ~runLoop
  /\ at' = [at EXCEPT ![t] = "popped"]
  /\ inHand' = [inHand EXCEPT ![t] = NoMorePending]
  /\ UNCHANGED <<managerVars, modelVars, queueVars, child, scan, callVars>>

\* What PopAllRequests returns: a request popped while the manager is stopped is lost.
Popped(t) == IF runLoop THEN inHand[t] ELSE NoMorePending

\* The child has no more requests: on to its next sibling, or end of the visit.
NextSibling(t) ==
  /\ at[t] = "popped" /\ Popped(t).op = "NO_MORE_PENDING"
  /\ IF child[t] < Len(Children[t])
     THEN /\ child' = [child EXCEPT ![t] = @ + 1]
          /\ at' = [at EXCEPT ![t] = "launch"]
          /\ UNCHANGED manager
     ELSE /\ at' = [at EXCEPT ![t] = IF t = Root THEN "none" ELSE "release"]
          /\ manager' = IF t = Root THEN "cycle" ELSE manager
          /\ UNCHANGED child
  /\ UNCHANGED <<runLoop, owner, resetTodo, calls, modelVars, queueVars, scan, inHand, callVars>>

\* PushfromSut: the answer goes to the child being served, whoever asked.
PushfromSut(t, queues, answer) == [queues EXCEPT ![Served(t)] = Append(@, answer)]

\* The root's protocol has the SUT do the operation; its answer is the one the
\* emulation gives, the data sent.
Translate ==
  /\ at[Root] = "popped" /\ Popped(Root).op # "NO_MORE_PENDING"
  /\ fromSutQueue' = PushfromSut(Root, fromSutQueue, Popped(Root))
  /\ executed' = [executed EXCEPT ![Popped(Root).data.ai] =
                    IF Popped(Root).op = "TRST" THEN @ ELSE Append(@, Popped(Root))]
  /\ at' = [at EXCEPT ![Root] = "try"]
  /\ scan' = [scan EXCEPT ![Root] = 1]
  /\ UNCHANGED <<managerVars, modelVars, callbackQueue, child, inHand, channel, call, result>>

\* TransformationCallback of any other translator: its own requests to its parent ...
StartTransformation(t) ==
  /\ t # Root /\ at[t] = "popped" /\ Popped(t).op # "NO_MORE_PENDING"
  /\ call' = [call EXCEPT ![t] = RequestsFor(Kind[t], Popped(t).op, Popped(t).data)]
  /\ result' = [result EXCEPT ![t] = NoMorePending]
  /\ at' = [at EXCEPT ![t] = "call"]
  /\ UNCHANGED <<managerVars, modelVars, queueVars, visitVars, channel, executed>>

\* Mutant: the answer of a run loop request is not awaited.
PushRequestNoWait(n) ==
  /\ at[n] = "call"
  /\ callbackQueue' = [callbackQueue EXCEPT ![n] = Append(@, Head(call[n]))]
  /\ IF Head(call[n]).op = "RUNLOOP" /\ n \in AccessInterfaces
     THEN /\ at' = [at EXCEPT ![n] = "channels"]
          /\ iRunLoop' = iRunLoop \ {<<n, channel[n]>>}
     ELSE at' = [at EXCEPT ![n] = "answer"] /\ UNCHANGED iRunLoop
  /\ UNCHANGED <<managerVars, need, fromSutQueue, visitVars, callVars>>

\* ... each pushed (PushRequest) and answered (PopfromSut) in turn.
PushRequest(n) ==
  /\ at[n] = "call"
  /\ callbackQueue' = [callbackQueue EXCEPT ![n] = Append(@, Head(call[n]))]
  /\ at' = [at EXCEPT ![n] = "answer"]
  /\ UNCHANGED <<managerVars, modelVars, fromSutQueue, visitVars, callVars>>

\* Mutant: the callback returns after its first answer, without the write.
TransformationAnsweredOnce(t) ==
  /\ t # Root /\ at[t] = "answer" /\ fromSutQueue[t] # <<>>
  /\ fromSutQueue' = PushfromSut(t, [fromSutQueue EXCEPT ![t] = Tail(@)], Head(fromSutQueue[t]))
  /\ at' = [at EXCEPT ![t] = "try"]
  /\ scan' = [scan EXCEPT ![t] = 1]
  /\ UNCHANGED <<managerVars, modelVars, callbackQueue, child, inHand, callVars>>

\* JTAG_to_I2C returns the answer of its read, the others the last answer.
TransformationAnswered(t) ==
  /\ t # Root /\ at[t] = "answer" /\ fromSutQueue[t] # <<>>
  /\ LET kept     == IF Kind[t] = "JTAG_to_I2C" /\ result[t] # NoMorePending
                     THEN result[t] ELSE Head(fromSutQueue[t])
         consumed == [fromSutQueue EXCEPT ![t] = Tail(@)]
     IN  /\ result' = [result EXCEPT ![t] = kept]
         /\ call' = [call EXCEPT ![t] = Tail(@)]
         /\ IF Tail(call[t]) = <<>>
            THEN /\ fromSutQueue' = PushfromSut(t, consumed, kept)
                 /\ at' = [at EXCEPT ![t] = "try"]
                 /\ scan' = [scan EXCEPT ![t] = 1]
            ELSE /\ fromSutQueue' = consumed
                 /\ at' = [at EXCEPT ![t] = "call"]
                 /\ UNCHANGED scan
  /\ UNCHANGED <<managerVars, modelVars, callbackQueue, child, inHand, channel, executed>>

\* Mutant: the parent is released by the visit and again by the thread.
ReleaseParentTwice(t) ==
  /\ at[t] = "release"
  /\ callbackQueue' = [callbackQueue EXCEPT ![t] = @ \o <<NoMorePending, NoMorePending>>]
  /\ at' = [at EXCEPT ![t] = "none"]
  /\ UNCHANGED <<managerVars, modelVars, fromSutQueue, visitVars, callVars>>

\* End of the thread of a child translator: its parent is released.
ReleaseParent(t) ==
  /\ at[t] = "release"
  /\ callbackQueue' = [callbackQueue EXCEPT ![t] = Append(@, NoMorePending)]
  /\ at' = [at EXCEPT ![t] = "none"]
  /\ UNCHANGED <<managerVars, modelVars, fromSutQueue, visitVars, callVars>>

-------------------------------------------------------------------------------
(* DoHierarchicalDataCycle in the thread of an access interface *)

\* CSU, or a run loop first when the channel has a count.
Callback(a)    == IF <<a, channel[a]>> \in iRunLoop THEN "RUNLOOP" ELSE "CSU"
RequestData(a) == [ai |-> a, callback |-> Callback(a), chan |-> channel[a],
                   left |-> need[a][channel[a]]]

\* The callback of the next pending channel.
DoCallback(a) ==
  /\ at[a] = "channels" /\ channel[a] \in Channels /\ need[a][channel[a]] > 0
  /\ call' = [call EXCEPT ![a] = RequestsFor(Kind[a], Callback(a), RequestData(a))]
  /\ executed' = [executed EXCEPT ![a] = <<>>]
  /\ at' = [at EXCEPT ![a] = "call"]
  /\ UNCHANGED <<managerVars, modelVars, queueVars, visitVars, channel, result>>

SkipChannel(a) ==
  /\ at[a] = "channels" /\ channel[a] \in Channels /\ need[a][channel[a]] = 0
  /\ channel' = [channel EXCEPT ![a] = @ + 1]
  /\ UNCHANGED <<managerVars, modelVars, queueVars, at, visitVars, call, result, executed>>

\* Mutant: the translator is released after every channel.
CallbackAnsweredReleases(a) ==
  /\ at[a] = "answer" /\ fromSutQueue[a] # <<>>
  /\ fromSutQueue' = [fromSutQueue EXCEPT ![a] = Tail(@)]
  /\ callbackQueue' = [callbackQueue EXCEPT ![a] = Append(@, NoMorePending)]
  /\ call' = [call EXCEPT ![a] = <<>>]
  /\ at' = [at EXCEPT ![a] = "channels"]
  /\ need' = [need EXCEPT ![a][channel[a]] = IF @ = 0 THEN 0 ELSE @ - 1]
  /\ channel' = [channel EXCEPT ![a] = @ + 1]
  /\ UNCHANGED <<managerVars, iRunLoop, visitVars, result, executed>>

\* An answer: the callback goes on, or returns; then the run loop count is
\* cleared, or the registers of the channel are updated.
CallbackAnswered(a) ==
  /\ at[a] = "answer" /\ fromSutQueue[a] # <<>>
  /\ fromSutQueue' = [fromSutQueue EXCEPT ![a] = Tail(@)]
  /\ call' = [call EXCEPT ![a] = Tail(@)]
  /\ IF Tail(call[a]) # <<>>
     THEN /\ at' = [at EXCEPT ![a] = "call"]
          /\ UNCHANGED <<channel, need, iRunLoop>>
     ELSE /\ at' = [at EXCEPT ![a] = "channels"]
          /\ IF <<a, channel[a]>> \in iRunLoop
             THEN /\ iRunLoop' = iRunLoop \ {<<a, channel[a]>>}
                  /\ UNCHANGED <<channel, need>>
             ELSE /\ need' = [need EXCEPT ![a][channel[a]] = IF @ = 0 THEN 0 ELSE @ - 1]
                  /\ channel' = [channel EXCEPT ![a] = @ + 1]
                  /\ UNCHANGED iRunLoop
  /\ UNCHANGED <<managerVars, callbackQueue, visitVars, result, executed>>

\* Mutant: the translator is not released when nothing was pending in the model.
NoMoreChannelsIfPending(a) ==
  /\ at[a] = "channels" /\ channel[a] \notin Channels
  /\ callbackQueue' = IF executed[a] = <<>> THEN callbackQueue
                      ELSE [callbackQueue EXCEPT ![a] = Append(@, NoMorePending)]
  /\ at' = [at EXCEPT ![a] = "none"]
  /\ UNCHANGED <<managerVars, modelVars, fromSutQueue, visitVars, callVars>>

\* After the last channel the translator is released.
NoMoreChannels(a) ==
  /\ at[a] = "channels" /\ channel[a] \notin Channels
  /\ callbackQueue' = [callbackQueue EXCEPT ![a] = Append(@, NoMorePending)]
  /\ at' = [at EXCEPT ![a] = "none"]
  /\ UNCHANGED <<managerVars, modelVars, fromSutQueue, visitVars, callVars>>

\* A std::exception in the data cycle of an access interface: its thread asks
\* for all threads to be killed and calls Stop, which joins the background thread.
AccessInterfaceThrows(a) ==
  /\ a \in MayThrow
  /\ at[a] = "channels" /\ channel[a] \in Channels /\ need[a][channel[a]] > 0
  /\ runLoop' = FALSE
  /\ at' = [at EXCEPT ![a] = "stopping"]
  /\ UNCHANGED <<manager, owner, resetTodo, calls, modelVars, queueVars, visitVars, callVars>>

ThrowerStopReturns(a) ==
  /\ at[a] = "stopping" /\ manager \in {"off", "ended"}
  /\ manager' = "off"
  /\ at' = [at EXCEPT ![a] = "none"]
  /\ UNCHANGED <<runLoop, owner, resetTodo, calls, modelVars, queueVars, visitVars, callVars>>

-------------------------------------------------------------------------------
TranslatorStep(t) ==
  \/ StartChildVisit(t) \/ Launch(t) \/ Pop(t) \/ WaitOnQueue(t) \/ PopTimeout(t)
  \/ StopPopping(t) \/ NextSibling(t) \/ StartTransformation(t)
  \/ TransformationAnswered(t) \/ ReleaseParent(t)

AccessInterfaceStep(a) ==
  \/ DoCallback(a) \/ SkipChannel(a) \/ CallbackAnswered(a) \/ NoMoreChannels(a)
  \/ ThrowerStopReturns(a)

ManagerStep == LoopTest \/ CyclesOver \/ StartVisit
OwnerStep   == StopReturns \/ DoReset \/ DoResetAnswered

Next ==
  \/ \E a \in AccessInterfaces, c \in Channels, s \in 1..MaxShifts : iApply(a, c, s)
  \/ Start \/ Stop \/ DoDataCycles \/ iReset
  \/ ManagerStep \/ OwnerStep \/ Translate
  \/ \E t \in Translators : TranslatorStep(t)
  \/ \E n \in Interfaces : PushRequest(n)
  \/ \E a \in AccessInterfaces : AccessInterfaceStep(a) \/ AccessInterfaceThrows(a)

Spec == Init /\ [][Next]_vars

\* Every thread that can run does; whether and when the manager is called is open.
Fairness ==
  /\ WF_vars(ManagerStep) /\ WF_vars(OwnerStep) /\ WF_vars(Translate)
  /\ \A t \in Translators : WF_vars(TranslatorStep(t))
  /\ \A n \in Interfaces : WF_vars(PushRequest(n))
  /\ \A a \in AccessInterfaces : WF_vars(AccessInterfaceStep(a))

FairSpec == Spec /\ Fairness

-------------------------------------------------------------------------------
(* Properties *)

\* The manager has been neither started again nor reset.
Undisturbed == calls.starts <= 1 /\ calls.resets = 0

\* The thread of a takes an answer from its queue, the last one of a callback.
TakesAnswer(a) == at[a] = "answer" /\ at'[a] # "answer"
CallbackReturns(a) == TakesAnswer(a) /\ at'[a] = "channels"

\* The answer a callback takes is the answer to the request it has made:
\* nothing in the queues says whose an answer is (DataCycleVisitor.cpp:159).
OwnAnswer(a) == Head(fromSutQueue[a]).data = Head(call[a]).data

AnswersAreOwn ==
  [][\A a \in AccessInterfaces : TakesAnswer(a) /\ Undisturbed => OwnAnswer(a)]_vars

\* The nodes from a to the root that turn a callback into a read and a write.
Converters(a) ==
  {n \in Interfaces : /\ Kind[n] \in {"I2C", "JTAG_to_I2C", "Remote"}
                      /\ n = a \/ (n \in Translators /\ a \in Below[n])}

\* When a callback returns, the SUT has done the operations it stands for, each
\* once and in order, and nothing else on its behalf: the chain of queues and
\* translators neither loses, repeats nor reorders a request.
ExecutedOnce ==
  [][\A a \in AccessInterfaces : CallbackReturns(a) /\ Undisturbed =>
       executed[a] =
         RequestsFor(IF Converters(a) = {} THEN "SVF" ELSE "I2C",
                     Callback(a), RequestData(a))]_vars

\* While the loop runs, at most one access interface has a thread: the
\* operations of two access interfaces are never mixed on the SUT, although
\* every thread is detached and PopAllRequests reads every queue.
OneInterfaceAtATime ==
  Undisturbed /\ runLoop =>
    \A a, b \in AccessInterfaces : at[a] # "none" /\ at[b] # "none" => a = b

\* Between two visits of a running loop no thread and no message is left over:
\* a token or an answer that stayed in a queue would be taken by the next visit.
NothingLeftOver ==
  Undisturbed /\ runLoop /\ manager \in {"loop", "cycle"} =>
    \A n \in Interfaces : /\ at[n] = "none"
                          /\ callbackQueue[n] = <<>> /\ fromSutQueue[n] = <<>>

\* A channel an application has made pending is served, unless the manager is
\* stopped: no two threads of the chain of queues wait for each other.
PendingServed ==
  \A a \in AccessInterfaces, c \in Channels :
    need[a][c] > 0 /\ runLoop ~> need[a][c] = 0 \/ ~runLoop \/ ~Undisturbed
===============================================================================
