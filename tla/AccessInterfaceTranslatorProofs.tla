-------------------- MODULE AccessInterfaceTranslatorProofs --------------------
(***************************************************************************)
(* Proofs about AccessInterfaceTranslator, for every tree of translators    *)
(* and access interfaces, any number of channels and every kind of          *)
(* protocol: type correctness and the facts about the tree, and then the    *)
(* order of a data cycle: which conversation a translator has with the      *)
(* child it serves, why nobody else takes part in it, and what follows for  *)
(* the whole tree.  Access interfaces that throw and calls of Stop and      *)
(* DoDataCycles at any time are included.  The order is proved under        *)
(* Undisturbed, as in the properties: the code promises none of it after a  *)
(* second Start or an iReset.                                               *)
(***************************************************************************)
EXTENDS AccessInterfaceTranslator, SequenceTheorems, TLAPS

USE DEF managerVars, modelVars, queueVars, visitVars, callVars

-------------------------------------------------------------------------------
(* Types *)

\* All nodes of the tree, the root included.
Nodes == Interfaces \cup {Root}

\* Where the thread of an access interface, of a translator, and of the root can be.
InterfaceStates  == {"none", "channels", "call", "answer", "stopping"}
TranslatorStates == {"none", "visit", "launch", "try", "wait", "popped", "call", "answer",
                     "release"}
RootStates       == {"none", "launch", "try", "wait", "popped"}

\* How often each operation of the manager has been called.
Calls == [applies : Nat, starts : Nat, stops : Nat, resets : Nat, direct : Nat]

\* What the queues carry.
Messages == Requests \cup {NoMorePending}

\* The type invariant: every node is where its kind of thread can be, every queue
\* carries requests and tokens, and a thread that waits for an answer has asked.
TypeOK ==
  /\ runLoop \in BOOLEAN
  /\ manager \in {"off", "loop", "cycle", "visit", "ended"}
  /\ owner \in {"idle", "stopping", "cycling", "resetting", "resetAnswer"}
  /\ resetTodo \in Seq(AccessInterfaces)
  /\ owner \in {"resetting", "resetAnswer"} => resetTodo # <<>>
  /\ calls \in Calls
  /\ need \in [AccessInterfaces -> [Channels -> 0..MaxShifts]]
  /\ iRunLoop \subseteq AccessInterfaces \X Channels
  /\ callbackQueue \in [Interfaces -> Seq(Messages)]
  /\ fromSutQueue \in [Interfaces -> Seq(Messages)]
  /\ at \in [Nodes -> InterfaceStates \cup TranslatorStates]
  /\ \A a \in AccessInterfaces : at[a] \in InterfaceStates
  /\ \A t \in Translators : at[t] \in TranslatorStates
  /\ at[Root] \in RootStates
  /\ channel \in [AccessInterfaces -> Nat \ {0}]
  /\ child \in [Translators -> Nat] /\ \A t \in Translators : child[t] \in 1..Len(Children[t])
  /\ scan \in [Translators -> Nat] /\ \A t \in Translators : scan[t] \in 1..Len(Children[t])
  /\ inHand \in [Translators -> Messages]
  /\ call \in [Interfaces -> Seq(Requests)]
  /\ \A n \in Interfaces : at[n] \in {"call", "answer"} => call[n] # <<>>
  /\ result \in [Interfaces -> Messages]
  /\ executed \in [AccessInterfaces -> Seq(Requests)]

-------------------------------------------------------------------------------
(* The tree *)

\* A child is a node below the root; every node below the root is a child.
LEMMA ChildIsInterface ==
  ASSUME NEW t \in Translators, NEW n \in ChildSet(t) PROVE n \in Interfaces
BY TreeAssumption DEF TreeAssumption, ChildSet

\* Every node below the root has a parent.
LEMMA HasParent ==
  ASSUME NEW n \in Interfaces PROVE \E t \in Translators : n \in ChildSet(t)
BY TreeAssumption DEF TreeAssumption, ChildSet

\* No node is below two translators.
LEMMA OneParent ==
  ASSUME NEW t \in Translators, NEW u \in Translators, NEW n \in ChildSet(t), n \in ChildSet(u)
  PROVE  t = u
<1>1. n \in Interfaces
  BY ChildIsInterface
<1>2. PICK v \in Translators : \E i \in DOMAIN Children[v] :
        /\ Children[v][i] = n
        /\ \A w \in Translators : \A j \in DOMAIN Children[w] :
             Children[w][j] = n => w = v /\ j = i
  BY <1>1, TreeAssumption DEF TreeAssumption
<1> QED
  BY <1>2 DEF ChildSet

\* The root is a translator and nobody's child.
LEMMA RootFacts ==
  /\ Root \in Translators /\ Root \notin Interfaces
  /\ \A t \in Translators : Root \notin ChildSet(t)
  /\ \A t \in Translators : t # Root => t \in Interfaces
  /\ \A a \in AccessInterfaces : a \in Interfaces /\ a \notin Translators
BY ChildIsInterface, TreeAssumption DEF TreeAssumption, Interfaces

\* No translator is its own child.
LEMMA NotOwnChild == ASSUME NEW t \in Translators PROVE t \notin ChildSet(t)
<1> SUFFICES ASSUME t \in ChildSet(t) PROVE FALSE
  OBVIOUS
<1> DEFINE S == Nodes \ {t}
<1>1. t \in Interfaces
  BY ChildIsInterface
<1>2. Root \in S /\ S \in SUBSET (Interfaces \cup {Root})
  BY <1>1, RootFacts DEF Nodes
<1>3. ASSUME NEW u \in S \cap Translators PROVE ChildSet(u) \subseteq S
  BY <1>3, ChildIsInterface, OneParent DEF Nodes
<1>4. S = Interfaces \cup {Root}
  <2> HIDE DEF S
  <2> QED
    BY <1>2, <1>3, ReachableAssumption DEF ReachableAssumption
<1> QED
  BY <1>1, <1>4 DEF Nodes

\* The child a translator serves and the one it listens to are children of it.
LEMMA ServedIsChild ==
  ASSUME TypeOK, NEW t \in Translators
  PROVE  /\ Served(t) \in ChildSet(t) /\ Served(t) \in Interfaces /\ Served(t) # t
         /\ Scanned(t) \in ChildSet(t) /\ Scanned(t) \in Interfaces
<1>1. Children[t] \in Seq(Interfaces)
  BY TreeAssumption DEF TreeAssumption
<1>2. child[t] \in DOMAIN Children[t] /\ scan[t] \in DOMAIN Children[t]
  <2>1. child[t] \in 1..Len(Children[t]) /\ scan[t] \in 1..Len(Children[t])
    BY DEF TypeOK
  <2> QED
    BY <1>1, <2>1
<1>3. Served(t) \in ChildSet(t) /\ Scanned(t) \in ChildSet(t)
  BY <1>2 DEF Served, Scanned, ChildSet
<1> QED
  BY <1>3, ChildIsInterface, NotOwnChild

-------------------------------------------------------------------------------
(* Type correctness *)

\* The requests a callback makes: at least one, all about the same data.
LEMMA RequestsForType ==
  ASSUME NEW kind, NEW op \in Operations, NEW data \in Data
  PROVE  /\ RequestsFor(kind, op, data) \in Seq(Requests)
         /\ RequestsFor(kind, op, data) # <<>>
         /\ \A i \in 1..Len(RequestsFor(kind, op, data)) :
              RequestsFor(kind, op, data)[i].data = data
<1> DEFINE ops == CallbackOperations(kind, op)
           s == RequestsFor(kind, op, data)
<1>1. ops \in Seq(Operations) /\ Len(ops) \in {1, 2}
  <2>1. CASE ops = <<op>>
    BY <2>1
  <2>2. CASE ops = <<"I2C_READ", "I2C_WRITE">>
    BY <2>2 DEF Operations
  <2> QED
    BY <2>1, <2>2 DEF CallbackOperations
<1>2. s = [i \in 1..Len(ops) |-> [op |-> ops[i], data |-> data]]
  BY <1>1 DEF RequestsFor
<1> HIDE DEF ops, s
<1>3. \A i \in 1..Len(ops) : [op |-> ops[i], data |-> data] \in Requests
  BY <1>1 DEF Requests
<1>4. s \in Seq(Requests) /\ Len(s) = Len(ops)
  BY <1>1, <1>2, <1>3
<1>5. s # <<>> /\ \A i \in 1..Len(s) : s[i].data = data
  BY <1>1, <1>2, <1>4
<1> QED
  BY <1>4, <1>5 DEF s

\* A translation of what a translator has popped is well typed.
LEMMA PoppedType ==
  ASSUME TypeOK, NEW t \in Translators
  PROVE  /\ Popped(t) \in Messages
         /\ Popped(t).op # "NO_MORE_PENDING" =>
              runLoop /\ Popped(t) = inHand[t] /\ inHand[t] \in Requests
BY DEF TypeOK, Popped, Messages, NoMorePending

\* What the callback of a pending channel asks for is well typed.
LEMMA RequestDataType ==
  ASSUME TypeOK, NEW a \in AccessInterfaces, channel[a] \in Channels
  PROVE  RequestData(a) \in Data /\ Callback(a) \in Operations
<1>1. need[a][channel[a]] \in 0..MaxShifts
  BY DEF TypeOK
<1>2. channel[a] \in 0..NChannels
  BY BoundsAssumption DEF Channels, BoundsAssumption
<1> QED
  BY <1>1, <1>2 DEF RequestData, Callback, Data, Operations

\* Every initial state is well typed.
LEMMA InitTypeOK == Init => TypeOK
<1> SUFFICES ASSUME Init PROVE TypeOK
  OBVIOUS
<1> USE TreeAssumption, BoundsAssumption
<1>1. NoMorePending \in Messages
  BY DEF Messages
<1>2. \A t \in Translators : 1 \in 1..Len(Children[t])
  BY DEF TreeAssumption
<1>3. at \in [Nodes -> InterfaceStates \cup TranslatorStates]
      /\ \A n \in Nodes : at[n] = "none"
  BY DEF Init, Nodes, InterfaceStates
<1>4. need \in [AccessInterfaces -> [Channels -> 0..MaxShifts]]
  BY DEF Init, BoundsAssumption
<1>5. /\ callbackQueue \in [Interfaces -> Seq(Messages)]
      /\ fromSutQueue \in [Interfaces -> Seq(Messages)]
      /\ call \in [Interfaces -> Seq(Requests)]
      /\ executed \in [AccessInterfaces -> Seq(Requests)]
      /\ resetTodo \in Seq(AccessInterfaces)
  BY DEF Init
<1>6. \A n \in AccessInterfaces \cup Translators : n \in Nodes
  BY RootFacts DEF Nodes
<1>7. /\ child \in [Translators -> Nat] /\ scan \in [Translators -> Nat]
      /\ \A t \in Translators : child[t] = 1 /\ scan[t] = 1
  BY DEF Init
<1>8. /\ inHand \in [Translators -> Messages] /\ result \in [Interfaces -> Messages]
      /\ channel \in [AccessInterfaces -> Nat \ {0}]
      /\ calls \in Calls
  BY <1>1 DEF Init, Calls
<1> QED
  BY <1>2, <1>3, <1>4, <1>5, <1>6, <1>7, <1>8, RootFacts
     DEF Init, TypeOK, InterfaceStates, TranslatorStates, RootStates, Nodes

\* Every step of the manager, of the owner and of the threads of a visit keeps
\* the state well typed.
LEMMA NextTypeOK == TypeOK /\ [Next]_vars => TypeOK'
<1> SUFFICES ASSUME TypeOK, [Next]_vars PROVE TypeOK'
  OBVIOUS
<1> USE RootFacts DEF InterfaceStates, TranslatorStates, RootStates, Nodes
<1>0. /\ NoMorePending \in Messages /\ Requests \subseteq Messages
      /\ \A s \in Seq(Messages) : s # <<>> => Head(s) \in Messages /\ Tail(s) \in Seq(Messages)
      /\ \A s \in Seq(Messages), m \in Messages : Append(s, m) \in Seq(Messages)
  BY DEF Messages
<1>c. /\ [calls EXCEPT !.applies = @ + 1] \in Calls /\ [calls EXCEPT !.starts = @ + 1] \in Calls
      /\ [calls EXCEPT !.stops = @ + 1] \in Calls /\ [calls EXCEPT !.resets = @ + 1] \in Calls
      /\ [calls EXCEPT !.direct = @ + 1] \in Calls
  <2>1. calls \in Calls
    BY DEF TypeOK
  <2> QED
    BY <2>1 DEF Calls
<1>1. ASSUME NEW a \in AccessInterfaces, NEW c \in Channels, NEW s \in 1..MaxShifts,
             iApply(a, c, s)
      PROVE  TypeOK'
  <2>1. need' \in [AccessInterfaces -> [Channels -> 0..MaxShifts]]
    <3>1. need' = [need EXCEPT ![a] = [need[a] EXCEPT ![c] = s]]
      BY <1>1 DEF iApply, TypeOK
    <3>2. need[a] \in [Channels -> 0..MaxShifts] /\ s \in 0..MaxShifts
      BY BoundsAssumption DEF TypeOK, BoundsAssumption
    <3>3. [need[a] EXCEPT ![c] = s] \in [Channels -> 0..MaxShifts]
      BY <3>2
    <3> QED
      BY <3>1, <3>3 DEF TypeOK
  <2>2. calls' \in Calls
    BY <1>1, <1>c DEF iApply
  <2>3. iRunLoop' \subseteq AccessInterfaces \X Channels
    <3>1. iRunLoop' = iRunLoop \cup ({<<a, c>>} \cap RunLoops)
      BY <1>1 DEF iApply
    <3>2. iRunLoop \subseteq AccessInterfaces \X Channels /\ RunLoops \subseteq AccessInterfaces \X Channels
      BY BoundsAssumption DEF TypeOK, BoundsAssumption
    <3> QED
      BY <3>1, <3>2
  <2> QED
    BY <1>1, <2>1, <2>2, <2>3 DEF iApply, TypeOK
<1>2. CASE Start \/ Stop \/ DoDataCycles \/ StopReturns
  <2>1. calls' \in Calls
    <3>1. calls \in Calls
      BY DEF TypeOK
    <3> QED
      BY <1>2, <1>c, <3>1 DEF Start, Stop, DoDataCycles, StopReturns
  <2> QED
    BY <1>2, <2>1 DEF Start, Stop, DoDataCycles, StopReturns, TypeOK
<1>3. CASE iReset
  <2>1. calls' \in Calls
    BY <1>3, <1>c DEF iReset
  <2>2. resetTodo' \in Seq(AccessInterfaces) /\ resetTodo' # <<>>
    BY <1>3, TreeAssumption DEF iReset, TreeAssumption
  <2> QED
    BY <1>3, <2>1, <2>2 DEF iReset, TypeOK
<1>4. CASE DoReset
  <2> DEFINE a == Head(resetTodo)
             m == [op |-> "TRST",
                   data |-> [ai |-> a, callback |-> "TRST", chan |-> 0, left |-> 0]]
  <2>1. a \in AccessInterfaces
    BY <1>4 DEF DoReset, TypeOK
  <2>2. m \in Requests
    BY <2>1, BoundsAssumption DEF Requests, Data, Operations, BoundsAssumption
  <2>3. callbackQueue' = [callbackQueue EXCEPT ![a] = Append(@, m)]
    BY <1>4 DEF DoReset
  <2>4. callbackQueue' \in [Interfaces -> Seq(Messages)]
    <3> HIDE DEF a, m
    <3>1. callbackQueue[a] \in Seq(Messages) /\ m \in Messages
      BY <2>1, <2>2, <1>0 DEF TypeOK
    <3> QED
      BY <1>0, <2>3, <3>1 DEF TypeOK
  <2>5. need' \in [AccessInterfaces -> [Channels -> 0..MaxShifts]]
    <3>1. [c \in Channels |-> 0] \in [Channels -> 0..MaxShifts]
      BY BoundsAssumption DEF BoundsAssumption
    <3> QED
      BY SMTT(60), <1>4, <3>1 DEF DoReset, TypeOK
  <2> QED
    BY <1>4, <2>4, <2>5 DEF DoReset, TypeOK
<1>5. CASE DoResetAnswered
  <2>1. Head(resetTodo) \in AccessInterfaces /\ Tail(resetTodo) \in Seq(AccessInterfaces)
    BY <1>5 DEF DoResetAnswered, TypeOK
  <2>2. fromSutQueue' \in [Interfaces -> Seq(Messages)]
    BY <1>0, <1>5, <2>1 DEF DoResetAnswered, TypeOK
  <2> QED
    BY <1>5, <2>1, <2>2 DEF DoResetAnswered, TypeOK
<1>6. CASE LoopTest \/ CyclesOver
  BY <1>6 DEF LoopTest, CyclesOver, TypeOK
<1>7. ASSUME NEW t \in Translators PROVE 1 \in 1..Len(Children[t])
  BY TreeAssumption DEF TreeAssumption
<1>8. CASE StartVisit
  BY <1>7, <1>8 DEF StartVisit, TypeOK
<1>9. ASSUME NEW t \in Translators, StartChildVisit(t) PROVE TypeOK'
  BY <1>7, <1>9 DEF StartChildVisit, TypeOK
<1>10. ASSUME NEW t \in Translators, Launch(t) PROVE TypeOK'
  <2>1. Served(t) \in Interfaces /\ Served(t) # t
    BY ServedIsChild
  <2>2. Served(t) \notin AccessInterfaces => Served(t) \in Translators \ {Root}
    BY <2>1 DEF Interfaces
  <2>3. scan' \in [Translators -> Nat] /\ \A u \in Translators : scan'[u] \in 1..Len(Children[u])
    BY <1>7, <1>10 DEF Launch, TypeOK
  <2>4. channel' \in [AccessInterfaces -> Nat \ {0}]
    BY <1>10 DEF Launch, TypeOK
  <2> HIDE DEF Nodes
  <2> DEFINE c == Served(t)
  <2>5. at' = [at EXCEPT ![t] = "try", ![c] = IF c \in AccessInterfaces THEN "channels" ELSE "visit"]
    BY <1>10 DEF Launch
  <2>6. t \in Nodes /\ c \in Nodes /\ at \in [Nodes -> InterfaceStates \cup TranslatorStates]
    BY <2>1 DEF Nodes, TypeOK
  <2>7. /\ at' \in [Nodes -> InterfaceStates \cup TranslatorStates]
        /\ at'[t] = "try" /\ at'[c] = IF c \in AccessInterfaces THEN "channels" ELSE "visit"
        /\ \A n \in Nodes : n # t /\ n # c => at'[n] = at[n]
    <3> HIDE DEF c
    <3> QED
      BY <2>1, <2>5, <2>6 DEF c
  <2>8. /\ \A a \in AccessInterfaces : at'[a] \in InterfaceStates
        /\ \A u \in Translators : at'[u] \in TranslatorStates
        /\ at'[Root] \in RootStates
        /\ \A n \in Interfaces : at'[n] \in {"call", "answer"} => call'[n] # <<>>
    <3> HIDE DEF c
    <3>1. c \in Interfaces /\ call' = call /\ (c \notin AccessInterfaces => c \in Translators \ {Root})
      BY <1>10, <2>1, <2>2 DEF c, Launch
    <3> QED
      BY ZenonT(60), <2>7, <3>1 DEF Nodes, TypeOK
  <2> QED
    BY <1>10, <2>3, <2>4, <2>7, <2>8 DEF Launch, TypeOK
<1>11. ASSUME NEW t \in Translators, Pop(t) PROVE TypeOK'
  <2>1. Scanned(t) \in Interfaces
    BY ServedIsChild
  <2>2. callbackQueue' \in [Interfaces -> Seq(Messages)] /\ inHand' \in [Translators -> Messages]
    BY <1>0, <1>11, <2>1 DEF Pop, TypeOK
  <2> QED
    BY <1>11, <2>2 DEF Pop, TypeOK
<1>12. ASSUME NEW t \in Translators, WaitOnQueue(t) PROVE TypeOK'
  BY <1>12 DEF WaitOnQueue, TypeOK
<1>13. ASSUME NEW t \in Translators, PopTimeout(t) PROVE TypeOK'
  <2>1. Len(Children[t]) \in Nat /\ Len(Children[t]) > 0 /\ scan[t] \in Nat
    <3>1. Children[t] \in Seq(Interfaces) /\ Children[t] # <<>>
      BY TreeAssumption DEF TreeAssumption
    <3>2. scan[t] \in Nat
      BY DEF TypeOK
    <3> QED
      BY <3>1, <3>2
  <2>2. (scan[t] % Len(Children[t])) + 1 \in 1..Len(Children[t])
    BY <2>1
  <2>3. scan' \in [Translators -> Nat] /\ \A u \in Translators : scan'[u] \in 1..Len(Children[u])
    <3>1. scan \in [Translators -> Nat] /\ \A u \in Translators : scan[u] \in 1..Len(Children[u])
      BY DEF TypeOK
    <3>2. scan' = [scan EXCEPT ![t] = (scan[t] % Len(Children[t])) + 1]
      BY <1>13 DEF PopTimeout
    <3> DEFINE next == (scan[t] % Len(Children[t])) + 1
    <3>3. next \in 1..Len(Children[t]) /\ next \in Nat /\ scan' = [scan EXCEPT ![t] = next]
      BY <2>1, <2>2, <3>2
    <3> HIDE DEF next
    <3> QED
      BY <3>1, <3>3
  <2> QED
    BY <1>13, <2>3 DEF PopTimeout, TypeOK
<1>14. ASSUME NEW t \in Translators, StopPopping(t) PROVE TypeOK'
  BY <1>0, <1>14 DEF StopPopping, TypeOK
<1>15. ASSUME NEW t \in Translators, NextSibling(t) PROVE TypeOK'
  <2>1. child' \in [Translators -> Nat] /\ \A u \in Translators : child'[u] \in 1..Len(Children[u])
    <3>1. Children[t] \in Seq(Interfaces)
      BY TreeAssumption DEF TreeAssumption
    <3>2. child \in [Translators -> Nat] /\ \A u \in Translators : child[u] \in 1..Len(Children[u])
      BY DEF TypeOK
    <3>3. CASE child[t] < Len(Children[t])
      <4>1. child' = [child EXCEPT ![t] = child[t] + 1]
        BY <1>15, <3>3 DEF NextSibling
      <4>2. child[t] + 1 \in 1..Len(Children[t])
        BY <3>1, <3>2, <3>3
      <4> QED
        BY <3>2, <4>1, <4>2
    <3>4. CASE ~(child[t] < Len(Children[t]))
      BY <1>15, <3>2, <3>4 DEF NextSibling
    <3> QED
      BY <3>3, <3>4
  <2>2. /\ manager' \in {"off", "loop", "cycle", "visit", "ended"}
        /\ \/ at' = [at EXCEPT ![t] = "launch"]
           \/ t = Root /\ at' = [at EXCEPT ![t] = "none"]
           \/ t # Root /\ at' = [at EXCEPT ![t] = "release"]
    BY <1>15 DEF NextSibling, TypeOK
  <2>3. /\ at' \in [Nodes -> InterfaceStates \cup TranslatorStates]
        /\ \A a \in AccessInterfaces : at'[a] \in InterfaceStates
        /\ \A u \in Translators : at'[u] \in TranslatorStates
        /\ at'[Root] \in RootStates
        /\ \A n \in Interfaces : at'[n] \in {"call", "answer"} => call[n] # <<>>
    BY ZenonT(60), <2>2 DEF TypeOK
  <2> QED
    BY <1>15, <2>1, <2>2, <2>3 DEF NextSibling, TypeOK
<1>16. CASE Translate
  <2>1. Served(Root) \in Interfaces
    BY ServedIsChild
  <2>2. Popped(Root) \in Requests
    BY <1>16, PoppedType DEF Translate
  <2>3. fromSutQueue' \in [Interfaces -> Seq(Messages)]
    <3>1. Popped(Root) \in Messages
      BY <1>0, <2>2
    <3> QED
      BY <1>0, <1>16, <2>1, <3>1 DEF Translate, PushfromSut, TypeOK
  <2>4. executed' \in [AccessInterfaces -> Seq(Requests)]
    <3>1. \A s \in Seq(Requests) : Append(s, Popped(Root)) \in Seq(Requests)
      BY <2>2
    <3> QED
      BY <1>16, <3>1 DEF Translate, TypeOK
  <2>5. scan' \in [Translators -> Nat] /\ \A u \in Translators : scan'[u] \in 1..Len(Children[u])
    BY <1>7, <1>16 DEF Translate, TypeOK
  <2> QED
    BY <1>16, <2>3, <2>4, <2>5 DEF Translate, TypeOK
<1>17. ASSUME NEW t \in Translators, StartTransformation(t) PROVE TypeOK'
  <2>1. Popped(t).op \in Operations /\ Popped(t).data \in Data
    BY <1>17, PoppedType DEF StartTransformation, Requests
  <2> DEFINE s == RequestsFor(Kind[t], Popped(t).op, Popped(t).data)
  <2>2. s \in Seq(Requests) /\ s # <<>>
    BY <2>1, RequestsForType
  <2>3. call' = [call EXCEPT ![t] = s] /\ at' = [at EXCEPT ![t] = "call"] /\ t # Root
    BY <1>17 DEF StartTransformation
  <2> HIDE DEF s
  <2>4. /\ call' \in [Interfaces -> Seq(Requests)]
        /\ \A n \in Interfaces : at'[n] \in {"call", "answer"} => call'[n] # <<>>
    BY <2>2, <2>3 DEF TypeOK
  <2>5. result' \in [Interfaces -> Messages]
    BY <1>0, <1>17 DEF StartTransformation, TypeOK
  <2> QED
    BY <1>17, <2>4, <2>5 DEF StartTransformation, TypeOK
<1>18. ASSUME NEW n \in Interfaces, PushRequest(n) PROVE TypeOK'
  <2>1. Head(call[n]) \in Messages
    BY <1>0, <1>18 DEF PushRequest, TypeOK
  <2>2. callbackQueue' \in [Interfaces -> Seq(Messages)]
    BY <1>0, <1>18, <2>1 DEF PushRequest, TypeOK
  <2>3. n \in AccessInterfaces \/ n \in Translators \ {Root}
    BY DEF Interfaces
  <2> QED
    BY <1>18, <2>2, <2>3 DEF PushRequest, TypeOK
<1>19. ASSUME NEW t \in Translators, TransformationAnswered(t) PROVE TypeOK'
  <2>1. t \in Interfaces /\ at[t] = "answer" /\ fromSutQueue[t] # <<>>
        /\ Served(t) \in Interfaces
    BY <1>19, ServedIsChild DEF TransformationAnswered
  <2> DEFINE kept == IF Kind[t] = "JTAG_to_I2C" /\ result[t] # NoMorePending
                     THEN result[t] ELSE Head(fromSutQueue[t])
             consumed == [fromSutQueue EXCEPT ![t] = Tail(@)]
  <2>2. kept \in Messages /\ consumed \in [Interfaces -> Seq(Messages)]
    BY <1>0, <2>1 DEF TypeOK
  <2>3. /\ result' = [result EXCEPT ![t] = kept] /\ call' = [call EXCEPT ![t] = Tail(@)]
        /\ \/ /\ Tail(call[t]) = <<>> /\ fromSutQueue' = PushfromSut(t, consumed, kept)
              /\ at' = [at EXCEPT ![t] = "try"] /\ scan' = [scan EXCEPT ![t] = 1]
           \/ /\ Tail(call[t]) # <<>> /\ fromSutQueue' = consumed
              /\ at' = [at EXCEPT ![t] = "call"] /\ UNCHANGED scan
    BY <1>19 DEF TransformationAnswered
  <2> HIDE DEF kept, consumed
  <2>4. result' \in [Interfaces -> Messages]
    BY <2>2, <2>3 DEF TypeOK
  <2>5. fromSutQueue' \in [Interfaces -> Seq(Messages)]
    <3>1. consumed[Served(t)] \in Seq(Messages)
      BY <2>1, <2>2
    <3>2. Append(consumed[Served(t)], kept) \in Seq(Messages)
      BY <1>0, <2>2, <3>1
    <3>3. PushfromSut(t, consumed, kept) \in [Interfaces -> Seq(Messages)]
      BY <2>2, <3>2 DEF PushfromSut
    <3> QED
      BY <2>2, <2>3, <3>3
  <2>6. scan' \in [Translators -> Nat] /\ \A u \in Translators : scan'[u] \in 1..Len(Children[u])
    <3>1. scan \in [Translators -> Nat] /\ \A u \in Translators : scan[u] \in 1..Len(Children[u])
      BY DEF TypeOK
    <3>2. CASE scan' = [scan EXCEPT ![t] = 1]
      BY <1>7, <3>1, <3>2
    <3>3. CASE UNCHANGED scan
      BY <3>1, <3>3
    <3> QED
      BY <2>3, <3>2, <3>3
  <2>7. /\ call' \in [Interfaces -> Seq(Requests)]
        /\ \A n \in Interfaces : at'[n] \in {"call", "answer"} => call'[n] # <<>>
    <3>1. Tail(call[t]) \in Seq(Requests)
      BY <2>1 DEF TypeOK
    <3> QED
      BY <2>1, <2>3, <3>1 DEF TypeOK
  <2> QED
    <3>1. t # Root /\ (at' = [at EXCEPT ![t] = "try"] \/ at' = [at EXCEPT ![t] = "call"])
      BY <1>19, <2>3 DEF TransformationAnswered
    <3>2. /\ at' \in [Nodes -> InterfaceStates \cup TranslatorStates]
          /\ \A a \in AccessInterfaces : at'[a] \in InterfaceStates
          /\ \A u \in Translators : at'[u] \in TranslatorStates
          /\ at'[Root] \in RootStates
      BY ZenonT(60), <3>1 DEF TypeOK
    <3>3. UNCHANGED <<managerVars, modelVars, callbackQueue, child, inHand, channel, executed>>
      BY <1>19 DEF TransformationAnswered
    <3> QED
      BY <2>4, <2>5, <2>6, <2>7, <3>2, <3>3 DEF TypeOK
<1>20. ASSUME NEW t \in Translators, ReleaseParent(t) PROVE TypeOK'
  <2>1. t # Root
    BY <1>20 DEF ReleaseParent, TypeOK
  <2>2. callbackQueue' \in [Interfaces -> Seq(Messages)]
    BY <1>0, <1>20, <2>1 DEF ReleaseParent, TypeOK
  <2> QED
    BY <1>20, <2>1, <2>2 DEF ReleaseParent, TypeOK
<1>21. ASSUME NEW a \in AccessInterfaces, DoCallback(a) PROVE TypeOK'
  <2>1. RequestData(a) \in Data /\ Callback(a) \in Operations
    BY <1>21, RequestDataType DEF DoCallback
  <2> DEFINE s == RequestsFor(Kind[a], Callback(a), RequestData(a))
  <2>2. s \in Seq(Requests) /\ s # <<>>
    BY <2>1, RequestsForType
  <2>3. call' = [call EXCEPT ![a] = s] /\ at' = [at EXCEPT ![a] = "call"]
    BY <1>21 DEF DoCallback
  <2> HIDE DEF s
  <2>4. /\ call' \in [Interfaces -> Seq(Requests)]
        /\ \A n \in Interfaces : at'[n] \in {"call", "answer"} => call'[n] # <<>>
    BY <2>2, <2>3 DEF TypeOK
  <2>5. executed' \in [AccessInterfaces -> Seq(Requests)]
    BY <1>21 DEF DoCallback, TypeOK
  <2> QED
    BY <1>21, <2>4, <2>5 DEF DoCallback, TypeOK
<1>22. ASSUME NEW a \in AccessInterfaces, SkipChannel(a) PROVE TypeOK'
  <2>1. channel' = [channel EXCEPT ![a] = channel[a] + 1]
    BY <1>22 DEF SkipChannel
  <2>2. channel \in [AccessInterfaces -> Nat \ {0}]
    BY DEF TypeOK
  <2>3. channel[a] + 1 \in Nat \ {0}
    BY <2>2
  <2>4. channel' \in [AccessInterfaces -> Nat \ {0}]
    BY <2>1, <2>2, <2>3
  <2> QED
    BY <1>22, <2>4 DEF SkipChannel, TypeOK
<1>23. ASSUME NEW a \in AccessInterfaces, CallbackAnswered(a) PROVE TypeOK'
  <2>1. a \in Interfaces /\ at[a] = "answer" /\ fromSutQueue[a] # <<>>
    BY <1>23 DEF CallbackAnswered
  <2>2. fromSutQueue' \in [Interfaces -> Seq(Messages)]
    BY <1>0, <1>23, <2>1 DEF CallbackAnswered, TypeOK
  <2>3. /\ call' \in [Interfaces -> Seq(Requests)]
        /\ \A n \in Interfaces : at'[n] \in {"call", "answer"} => call'[n] # <<>>
    <3>1. Tail(call[a]) \in Seq(Requests)
      BY <2>1 DEF TypeOK
    <3> QED
      BY <1>23, <2>1, <3>1 DEF CallbackAnswered, TypeOK
  <2>4. /\ need' \in [AccessInterfaces -> [Channels -> 0..MaxShifts]]
        /\ channel' \in [AccessInterfaces -> Nat \ {0}]
    <3>1. need \in [AccessInterfaces -> [Channels -> 0..MaxShifts]]
          /\ channel \in [AccessInterfaces -> Nat \ {0}]
      BY DEF TypeOK
    <3>2. CASE UNCHANGED <<channel, need>>
      BY <3>1, <3>2
    <3>3. CASE /\ need' = [need EXCEPT ![a][channel[a]] = IF @ = 0 THEN 0 ELSE @ - 1]
               /\ channel' = [channel EXCEPT ![a] = channel[a] + 1]
      <4> DEFINE c == channel[a]
                 left == IF need[a][c] = 0 THEN 0 ELSE need[a][c] - 1
      <4>1. need' = [need EXCEPT ![a] = [need[a] EXCEPT ![c] = left]]
        BY <3>1, <3>3
      <4>2. c \in Nat \ {0} /\ c + 1 \in Nat \ {0} /\ need[a] \in [Channels -> 0..MaxShifts]
        BY <3>1
      <4>3. c \in Channels => left \in 0..MaxShifts
        <5>1. c \in Channels => need[a][c] \in 0..MaxShifts
          BY <4>2
        <5> QED
          BY <5>1, BoundsAssumption DEF BoundsAssumption
      <4> HIDE DEF c, left
      <4>4. [need[a] EXCEPT ![c] = left] \in [Channels -> 0..MaxShifts]
        BY <4>2, <4>3
      <4> QED
        BY <3>1, <3>3, <4>1, <4>2, <4>4 DEF c
    <3> QED
      BY <1>23, <3>2, <3>3 DEF CallbackAnswered
  <2>5. iRunLoop' \subseteq AccessInterfaces \X Channels
    <3>1. iRunLoop \subseteq AccessInterfaces \X Channels /\ iRunLoop' \subseteq iRunLoop
      BY <1>23 DEF CallbackAnswered, TypeOK
    <3> QED
      BY <3>1
  <2>6. /\ at' = [at EXCEPT ![a] = "call"] \/ at' = [at EXCEPT ![a] = "channels"]
        /\ UNCHANGED <<managerVars, callbackQueue, visitVars, result, executed>>
    BY <1>23 DEF CallbackAnswered
  <2>7. /\ at' \in [Nodes -> InterfaceStates \cup TranslatorStates]
        /\ \A b \in AccessInterfaces : at'[b] \in InterfaceStates
        /\ \A u \in Translators : at'[u] \in TranslatorStates
        /\ at'[Root] \in RootStates
    <3>1. a \in Nodes /\ a \notin Translators /\ a # Root
      BY DEF Nodes
    <3>2. /\ at \in [Nodes -> InterfaceStates \cup TranslatorStates]
          /\ \A b \in AccessInterfaces : at[b] \in InterfaceStates
          /\ \A u \in Translators : at[u] \in TranslatorStates
          /\ at[Root] \in RootStates
      BY DEF TypeOK
    <3>3. CASE at' = [at EXCEPT ![a] = "call"]
      BY <3>1, <3>2, <3>3
    <3>4. CASE at' = [at EXCEPT ![a] = "channels"]
      BY <3>1, <3>2, <3>4
    <3> QED
      BY <2>6, <3>3, <3>4
  <2> QED
    BY <2>2, <2>3, <2>4, <2>5, <2>6, <2>7 DEF TypeOK
<1>24. ASSUME NEW a \in AccessInterfaces, NoMoreChannels(a) PROVE TypeOK'
  <2>1. callbackQueue' \in [Interfaces -> Seq(Messages)]
    BY <1>0, <1>24 DEF NoMoreChannels, TypeOK
  <2> QED
    BY <1>24, <2>1 DEF NoMoreChannels, TypeOK
<1>25. ASSUME NEW a \in AccessInterfaces, AccessInterfaceThrows(a) \/ ThrowerStopReturns(a)
       PROVE  TypeOK'
  BY ZenonT(60), <1>25 DEF AccessInterfaceThrows, ThrowerStopReturns, TypeOK
<1>26. CASE UNCHANGED vars
  BY <1>26 DEF vars, TypeOK
<1> QED
  BY <1>1, <1>2, <1>3, <1>4, <1>5, <1>6, <1>8, <1>9, <1>10, <1>11, <1>12, <1>13, <1>14,
     <1>15, <1>16, <1>17, <1>18, <1>19, <1>20, <1>21, <1>22, <1>23, <1>24, <1>25, <1>26
     DEF Next, ManagerStep, OwnerStep, TranslatorStep, AccessInterfaceStep

\* The state of a data cycle over translators is always well typed.
THEOREM TranslatorTypeCorrectness == Spec => []TypeOK
BY InitTypeOK, NextTypeOK, PTL DEF Spec

-------------------------------------------------------------------------------
(* The inductive invariant *)

\* No thread on the node, nothing between it and its parent.
Quiet(n) == at[n] = "none" /\ callbackQueue[n] = <<>> /\ fromSutQueue[n] = <<>>

Listening(t) == at[t] \in {"try", "wait"}
Translating(t) == at[t] \in {"call", "answer"}

\* A visited translator and the child c it serves: whose turn it is, and where
\* the one message between them is.
Conversation(t, c) ==
  \/ /\ Listening(t) /\ at[c] \notin {"none", "answer"}          \* the child works
     /\ callbackQueue[c] = <<>> /\ fromSutQueue[c] = <<>>
  \/ /\ Listening(t) /\ at[c] = "answer"                         \* it has asked
     /\ callbackQueue[c] = <<Head(call[c])>> /\ fromSutQueue[c] = <<>>
  \/ /\ at[t] = "popped" /\ at[c] = "answer"                     \* it was heard
     /\ callbackQueue[c] = <<>> /\ fromSutQueue[c] = <<>> /\ inHand[t] = Head(call[c])
  \/ /\ Translating(t) /\ at[c] = "answer"                       \* its parent asks in turn
     /\ callbackQueue[c] = <<>> /\ fromSutQueue[c] = <<>>
  \/ /\ Listening(t) /\ at[c] = "answer"                         \* it has been answered
     /\ callbackQueue[c] = <<>> /\ fromSutQueue[c] # <<>>
  \/ /\ Listening(t) /\ at[c] = "none"                           \* it is done
     /\ callbackQueue[c] = <<NoMorePending>> /\ fromSutQueue[c] = <<>>
  \/ /\ at[t] = "popped" /\ at[c] = "none"                       \* that was heard
     /\ callbackQueue[c] = <<>> /\ fromSutQueue[c] = <<>> /\ inHand[t] = NoMorePending

Serving(t) == Listening(t) \/ Translating(t) \/ at[t] = "popped"

\* A translator that serves no child has quiet children; one that serves a child
\* is in a conversation with it, and its other children are quiet.
Orderly(t) ==
  /\ Serving(t) => Conversation(t, Served(t))
  /\ \A c \in ChildSet(t) : (Serving(t) /\ c = Served(t)) \/ Quiet(c)

\* Answers are for the request the node waits with, whoever else has stopped.
AnswerFits(n) ==
  /\ fromSutQueue[n] # <<>> =>
       /\ at[n] = "answer" /\ Len(fromSutQueue[n]) = 1
       /\ Head(fromSutQueue[n]).data = Head(call[n]).data
  /\ Translating(n) => \A i \in 1..Len(call[n]) : call[n][i].data = Head(call[n]).data

\* A translator asks its parent on behalf of the child it serves.
AsksForChild(t) ==
  Translating(t) =>
    /\ at[Served(t)] = "answer" /\ fromSutQueue[Served(t)] = <<>>
    /\ Head(call[Served(t)]).data = Head(call[t]).data
    /\ result[t] # NoMorePending => result[t].data = Head(call[t]).data

\* The calls of the manager and the visit of the root.
ManagerInv ==
  /\ owner \notin {"resetting", "resetAnswer"} /\ (owner = "cycling" => ~runLoop)
  /\ calls.starts = 0 => ~runLoop /\ at[Root] = "none" /\ \A n \in Interfaces : Quiet(n)
  /\ runLoop => /\ manager \in {"loop", "cycle", "visit"}
                /\ at[Root] # "none" <=> manager = "visit"

\* The threads of a visit.  Once m_runLoop is cleared the conversations break
\* off, but no answer goes to a request that it does not answer.
ThreadsInv ==
  /\ \A n \in Interfaces : AnswerFits(n)
  /\ \A t \in Translators \ {Root} : AsksForChild(t)
  /\ runLoop => \A t \in Translators : Orderly(t)

TranslatorInv == Undisturbed => ManagerInv /\ ThreadsInv

-------------------------------------------------------------------------------
(* Steps of one thread *)

\* Nothing about the thread of m, or about the queues to its parent, changes.
SameThread(m) == at'[m] = at[m] /\ call'[m] = call[m] /\ result'[m] = result[m]
SameQueues(m) == callbackQueue'[m] = callbackQueue[m] /\ fromSutQueue'[m] = fromSutQueue[m]

\* A step of the thread of n: it changes n and the children of n at most.
OnlyAt(n) ==
  /\ \A m \in Interfaces :
       m # n /\ ~(n \in Translators /\ m \in ChildSet(n)) => SameThread(m) /\ SameQueues(m)
  /\ \A u \in Translators : u # n => child'[u] = child[u] /\ inHand'[u] = inHand[u]
  /\ n # Root => at'[Root] = at[Root]

\* The domains of the functions that make up the state.
LEMMA Domains ==
  ASSUME TypeOK
  PROVE  /\ DOMAIN at = Nodes /\ DOMAIN call = Interfaces /\ DOMAIN result = Interfaces
         /\ DOMAIN callbackQueue = Interfaces /\ DOMAIN fromSutQueue = Interfaces
         /\ DOMAIN child = Translators /\ DOMAIN inHand = Translators
         /\ DOMAIN scan = Translators
BY DEF TypeOK

\* A node that waits in a queue has a request to wait with.
LEMMA WaitingHasCall ==
  ASSUME TypeOK, NEW n \in Interfaces, at[n] \in {"call", "answer"}
  PROVE  /\ call[n] \in Seq(Requests) /\ call[n] # <<>>
         /\ Head(call[n]) \in Requests /\ Head(call[n]).op # "NO_MORE_PENDING"
<1>1. call[n] \in Seq(Requests) /\ call[n] # <<>>
  BY DEF TypeOK
<1>2. Head(call[n]) \in Requests
  BY <1>1
<1> QED
  BY <1>1, <1>2 DEF Requests, Operations

\* A step elsewhere leaves the conversation of a translator as it is.
LEMMA OrderlyElsewhere ==
  ASSUME TypeOK, NEW n \in Nodes, OnlyAt(n),
         NEW u \in Translators, u # n, n \notin ChildSet(u), at'[u] = at[u], Orderly(u)
  PROVE  Orderly(u)'
<1>1. \A c \in ChildSet(u) : SameThread(c) /\ SameQueues(c)
  BY ChildIsInterface, OneParent DEF OnlyAt
<1>2. child'[u] = child[u] /\ inHand'[u] = inHand[u]
  BY DEF OnlyAt
<1>3. Served(u)' = Served(u) /\ Served(u) \in ChildSet(u)
  BY <1>2, ServedIsChild DEF Served
<1>4. Serving(u)' = Serving(u)
  BY DEF Serving, Listening, Translating
<1>5. Conversation(u, Served(u)) => Conversation(u, Served(u))'
  BY <1>1, <1>2, <1>3 DEF Conversation, SameThread, SameQueues, Listening, Translating
<1>6. \A c \in ChildSet(u) : Quiet(c) => Quiet(c)'
  BY <1>1 DEF Quiet, SameThread, SameQueues
<1> QED
  BY <1>3, <1>4, <1>5, <1>6 DEF Orderly

\* A translator that asks its parent keeps waiting for its child, and the child
\* for the translator, while others act.
LEMMA AsksElsewhere ==
  ASSUME TypeOK, NEW n \in Nodes, OnlyAt(n),
         n \in Interfaces => at[n] # "answer" \/ fromSutQueue[n] # <<>>,
         NEW u \in Translators \ {Root}, u # n, SameThread(u), AsksForChild(u)
  PROVE  AsksForChild(u)'
<1> SUFFICES ASSUME Translating(u)' PROVE AsksForChild(u)'
  BY DEF AsksForChild
<1>1. Translating(u)
  BY DEF Translating, SameThread
<1>2. Served(u)' = Served(u) /\ Served(u) \in ChildSet(u) /\ Served(u) \in Interfaces
  BY ServedIsChild DEF Served, OnlyAt
<1>3. at[Served(u)] = "answer" /\ fromSutQueue[Served(u)] = <<>>
  BY <1>1 DEF AsksForChild
<1>4. Served(u) # n /\ ~(n \in Translators /\ Served(u) \in ChildSet(n))
  BY <1>2, <1>3, OneParent
<1>5. SameThread(Served(u)) /\ SameQueues(Served(u))
  BY <1>2, <1>4 DEF OnlyAt
<1> QED
  BY <1>1, <1>2, <1>5 DEF AsksForChild, SameThread, SameQueues

\* A child at work is the one its parent serves, and the parent listens.
LEMMA WorkingIsServed ==
  ASSUME NEW p \in Translators, Orderly(p), NEW n \in ChildSet(p), at[n] \notin {"none", "answer"}
  PROVE  /\ n = Served(p) /\ Listening(p)
         /\ callbackQueue[n] = <<>> /\ fromSutQueue[n] = <<>>
<1>1. n = Served(p) /\ Serving(p)
  BY DEF Orderly, Quiet
<1>2. Conversation(p, n)
  BY <1>1 DEF Orderly
<1> QED
  BY <1>1, <1>2 DEF Conversation

\* A child with an answer is the one its parent serves, and the parent listens.
LEMMA AnsweredIsServed ==
  ASSUME NEW p \in Translators, Orderly(p), NEW n \in ChildSet(p), fromSutQueue[n] # <<>>
  PROVE  n = Served(p) /\ Listening(p) /\ callbackQueue[n] = <<>>
<1>1. n = Served(p) /\ Serving(p)
  BY DEF Orderly, Quiet
<1>2. Conversation(p, n)
  BY <1>1 DEF Orderly
<1> QED
  BY <1>1, <1>2 DEF Conversation

\* A step of the child that a listening translator serves: its other children
\* stay quiet, so that the new state of the conversation is all there is to show.
LEMMA OrderlyParent ==
  ASSUME TypeOK, NEW n \in Interfaces, OnlyAt(n), NEW p \in Translators, n \in ChildSet(p),
         at'[p] = at[p], Orderly(p), n = Served(p), Listening(p), Conversation(p, n)'
  PROVE  Orderly(p)'
<1>1. p # n
  BY NotOwnChild
<1>2. Served(p)' = n /\ Serving(p)' /\ Serving(p)
  BY <1>1 DEF OnlyAt, Served, Serving, Listening
<1>3. ASSUME NEW c \in ChildSet(p), c # n PROVE Quiet(c)'
  <2>1. Quiet(c) /\ c \in Interfaces
    BY <1>3, ChildIsInterface DEF Orderly
  <2>2. SameThread(c) /\ SameQueues(c)
    BY <1>1, <1>3, <2>1, OneParent DEF OnlyAt
  <2> QED
    BY <2>1, <2>2 DEF Quiet, SameThread, SameQueues
<1> QED
  BY <1>2, <1>3 DEF Orderly

\* What there is to show about a step of the thread of n: its own part of the
\* invariant, that of its children, and the conversation with its parent.
LEMMA StepOfNode ==
  ASSUME TypeOK, ThreadsInv, NEW n \in Nodes, OnlyAt(n), runLoop' => runLoop,
         n \in Interfaces =>
           AnswerFits(n)' /\ (at[n] # "answer" \/ fromSutQueue[n] # <<>>),
         n \in Translators => \A c \in ChildSet(n) :
           /\ AnswerFits(c)'
           /\ \/ SameThread(c)
              \/ c \in Translators => AsksForChild(c)' /\ (runLoop' => Orderly(c)'),
         n \in Translators => (n # Root => AsksForChild(n)') /\ (runLoop' => Orderly(n)'),
         \A p \in Translators : n \in ChildSet(p) /\ Orderly(p) /\ runLoop' => Orderly(p)'
  PROVE  ThreadsInv'
<1>1. ASSUME NEW m \in Interfaces PROVE AnswerFits(m)'
  <2>1. CASE m = n \/ (n \in Translators /\ m \in ChildSet(n))
    BY <2>1
  <2>2. CASE ~(m = n \/ (n \in Translators /\ m \in ChildSet(n)))
    <3>1. SameThread(m) /\ SameQueues(m) /\ AnswerFits(m)
      BY <2>2 DEF OnlyAt, ThreadsInv
    <3> QED
      BY <3>1 DEF AnswerFits, SameThread, SameQueues, Translating
  <2> QED
    BY <2>1, <2>2
<1>2. ASSUME NEW u \in Translators, u # n
      PROVE  \/ u \in Interfaces /\ SameThread(u)
             \/ u = Root /\ at'[u] = at[u]
             \/ n \in Translators /\ u \in ChildSet(n) /\ u # Root
                /\ AsksForChild(u)' /\ (runLoop' => Orderly(u)')
  BY <1>2, RootFacts DEF OnlyAt
<1>3. ASSUME NEW u \in Translators \ {Root} PROVE AsksForChild(u)'
  <2>1. AsksForChild(u)
    BY DEF ThreadsInv
  <2> QED
    BY <1>2, <2>1, AsksElsewhere
<1>4. ASSUME NEW u \in Translators, runLoop' PROVE Orderly(u)'
  <2>1. Orderly(u)
    BY <1>4 DEF ThreadsInv
  <2>2. CASE u = n
    BY <1>4, <2>2
  <2>3. CASE n \in ChildSet(u)
    BY <1>4, <2>1, <2>3
  <2>4. CASE u # n /\ n \notin ChildSet(u)
    <3>1. at'[u] = at[u] \/ Orderly(u)'
      BY <1>2, <1>4, <2>4 DEF SameThread
    <3> QED
      BY <2>1, <2>4, <3>1, OrderlyElsewhere
  <2> QED
    BY <2>2, <2>3, <2>4
<1> QED
  BY <1>1, <1>3, <1>4 DEF ThreadsInv

-------------------------------------------------------------------------------
(* Steps of a translator *)

\* A step of a node that works before and after it, its queues as they were: its
\* parent goes on listening.
LEMMA ParentListens ==
  ASSUME TypeOK, NEW n \in Interfaces, OnlyAt(n), SameQueues(n),
         at[n] \notin {"none", "answer"}, at'[n] \notin {"none", "answer"},
         \A u \in Translators : u # n /\ n \in ChildSet(u) => at'[u] = at[u]
  PROVE  \A p \in Translators : n \in ChildSet(p) /\ Orderly(p) => Orderly(p)'
<1> SUFFICES ASSUME NEW p \in Translators, n \in ChildSet(p), Orderly(p) PROVE Orderly(p)'
  OBVIOUS
<1>1. at'[p] = at[p]
  BY NotOwnChild
<1>2. n = Served(p) /\ Listening(p) /\ callbackQueue[n] = <<>> /\ fromSutQueue[n] = <<>>
  BY WorkingIsServed
<1>3. Conversation(p, n)'
  BY <1>1, <1>2 DEF Conversation, Listening, SameQueues
<1> QED
  BY <1>1, <1>2, <1>3, OrderlyParent

\* A visit starts, in the manager's thread or in the thread of a child.
LEMMA StartVisitKeeps ==
  ASSUME TypeOK, ThreadsInv, NEW t \in Translators,
         StartChildVisit(t) \/ (t = Root /\ StartVisit /\ at[t] = "none")
  PROVE  ThreadsInv'
<1> USE Domains, RootFacts DEF Nodes
<1>1. OnlyAt(t) /\ runLoop' = runLoop /\ t \in Nodes
  BY DEF OnlyAt, SameThread, SameQueues, StartChildVisit, StartVisit
<1>2. /\ at[t] \in {"none", "visit"} /\ at'[t] \in {"launch", "release"}
      /\ t \in Interfaces => at[t] = "visit"
      /\ callbackQueue' = callbackQueue /\ fromSutQueue' = fromSutQueue
      /\ \A m \in Interfaces : m # t => at'[m] = at[m]
      /\ call' = call /\ result' = result
  BY DEF StartChildVisit, StartVisit
<1>3. t \in Interfaces => AnswerFits(t)' /\ at[t] # "answer"
  BY <1>2 DEF AnswerFits, Translating, ThreadsInv
<1>4. \A c \in ChildSet(t) : AnswerFits(c)' /\ SameThread(c)
  <2> SUFFICES ASSUME NEW c \in ChildSet(t) PROVE AnswerFits(c)' /\ SameThread(c)
    OBVIOUS
  <2>1. c \in Interfaces /\ c # t
    BY ChildIsInterface, NotOwnChild
  <2> QED
    BY <1>2, <2>1 DEF SameThread, AnswerFits, Translating, ThreadsInv
<1>5. AsksForChild(t)'
  BY <1>2 DEF AsksForChild, Translating
<1>6. runLoop' => Orderly(t)'
  <2>1. ~Serving(t) /\ ~Serving(t)'
    BY <1>2 DEF Serving, Listening, Translating
  <2>2. ASSUME runLoop, NEW c \in ChildSet(t) PROVE Quiet(c)'
    <3>1. Quiet(c)
      BY <2>1, <2>2 DEF ThreadsInv, Orderly
    <3> QED
      BY <1>2, <1>4, <3>1 DEF Quiet, SameThread
  <2> QED
    BY <1>1, <2>1, <2>2 DEF Orderly
<1>7. ASSUME NEW p \in Translators, t \in ChildSet(p), Orderly(p), runLoop' PROVE Orderly(p)'
  <2>1. t \in Interfaces /\ \A u \in Translators : u # t => at'[u] = at[u]
    BY <1>7, ChildIsInterface DEF StartChildVisit, StartVisit
  <2> QED
    BY <1>1, <1>2, <1>7, <2>1, ParentListens DEF SameQueues
<1> QED
  BY <1>1, <1>3, <1>4, <1>5, <1>6, <1>7, StepOfNode

\* The served child gets a thread: from then on it works and its parent listens.
LEMMA LaunchKeeps ==
  ASSUME TypeOK, ThreadsInv, NEW t \in Translators, Launch(t)
  PROVE  ThreadsInv'
<1> USE Domains, RootFacts DEF Nodes
<1>0. PICK c \in Interfaces : c = Served(t) /\ c \in ChildSet(t) /\ c # t
  BY ServedIsChild
<1>1. /\ at[t] = "launch" /\ at[c] = "none" /\ at'[t] = "try"
      /\ at'[c] \in {"channels", "visit"} /\ Served(t)' = c
      /\ \A m \in Nodes : m # t /\ m # c => at'[m] = at[m]
      /\ UNCHANGED <<callbackQueue, fromSutQueue, call, result, runLoop, child, inHand>>
  BY <1>0 DEF Launch, Served
<1>2. OnlyAt(t) /\ t \in Nodes
  BY <1>0, <1>1 DEF OnlyAt, SameThread, SameQueues
<1>3. t \in Interfaces => AnswerFits(t)' /\ at[t] # "answer"
  BY <1>1 DEF AnswerFits, Translating, ThreadsInv
<1>4. ASSUME NEW d \in ChildSet(t), d # c PROVE AnswerFits(d)' /\ SameThread(d)
  <2>1. d \in Interfaces /\ d # t
    BY ChildIsInterface, NotOwnChild
  <2> QED
    BY <1>1, <1>4, <2>1 DEF SameThread, AnswerFits, Translating, ThreadsInv
<1>5. AnswerFits(c)' /\ (c \in Translators => AsksForChild(c)')
  BY <1>0, <1>1 DEF AnswerFits, AsksForChild, Translating, ThreadsInv
<1>6. ASSUME c \in Translators, runLoop PROVE Orderly(c)'
  <2>1. ~Serving(c) /\ ~Serving(c)'
    BY <1>1 DEF Serving, Listening, Translating
  <2>2. ASSUME NEW d \in ChildSet(c) PROVE Quiet(d)'
    <3>1. Quiet(d) /\ d \in Interfaces
      BY <1>6, <2>1, ChildIsInterface DEF ThreadsInv, Orderly
    <3>2. d # c /\ d # t
      BY <1>1, <1>6, <3>1, NotOwnChild DEF Quiet
    <3> QED
      BY <1>1, <3>1, <3>2 DEF Quiet
  <2> QED
    BY <2>1, <2>2 DEF Orderly
<1>7. AsksForChild(t)'
  BY <1>1 DEF AsksForChild, Translating
<1>8. ASSUME runLoop PROVE Orderly(t)'
  <2>1. \A d \in ChildSet(t) : Quiet(d)
    BY <1>1, <1>8 DEF ThreadsInv, Orderly, Serving, Listening, Translating
  <2>2. Conversation(t, c)'
    BY <1>0, <1>1, <2>1 DEF Conversation, Listening, Quiet
  <2>3. ASSUME NEW d \in ChildSet(t), d # c PROVE Quiet(d)'
    BY <1>1, <1>4, <2>1, <2>3 DEF Quiet, SameThread
  <2> QED
    BY <1>1, <2>2, <2>3 DEF Orderly, Serving, Listening
<1>9. ASSUME NEW p \in Translators, t \in ChildSet(p), Orderly(p), runLoop PROVE Orderly(p)'
  <2>1. t \in Interfaces
    BY <1>9, ChildIsInterface
  <2>2. t = Served(p) /\ Listening(p)
    BY <1>1, <1>9, WorkingIsServed
  <2>3. \A u \in Translators : u # t /\ t \in ChildSet(u) => at'[u] = at[u]
    <3> SUFFICES ASSUME NEW u \in Translators, u # t, t \in ChildSet(u) PROVE at'[u] = at[u]
      OBVIOUS
    <3>1. u = p
      BY <1>9, OneParent
    <3> QED
      BY <1>1, <2>2, <3>1 DEF Listening
  <2> QED
    BY <1>1, <1>2, <1>9, <2>1, <2>3, ParentListens DEF SameQueues
<1> QED
  BY <1>1, <1>2, <1>3, <1>4, <1>5, <1>6, <1>7, <1>8, <1>9, StepOfNode

\* A translator takes a request: from the queue of the child it serves, all the
\* others being empty, though it looks into every queue.
LEMMA PopKeeps ==
  ASSUME TypeOK, ThreadsInv, NEW t \in Translators, Pop(t)
  PROVE  ThreadsInv'
<1> USE Domains, RootFacts DEF Nodes
<1>0. PICK c \in Interfaces : c = Scanned(t) /\ c \in ChildSet(t)
  BY ServedIsChild
<1>1. /\ Listening(t) /\ at'[t] = "popped" /\ inHand'[t] = Head(callbackQueue[c])
      /\ callbackQueue[c] # <<>> /\ callbackQueue'[c] = Tail(callbackQueue[c])
      /\ \A m \in Interfaces : m # c => callbackQueue'[m] = callbackQueue[m]
      /\ \A m \in Nodes : m # t => at'[m] = at[m]
      /\ \A u \in Translators : u # t => inHand'[u] = inHand[u]
      /\ Served(t)' = Served(t)
      /\ UNCHANGED <<fromSutQueue, call, result, runLoop, child>>
  BY <1>0 DEF Pop, Listening, Served
<1>2. OnlyAt(t) /\ t \in Nodes
  BY <1>0, <1>1 DEF OnlyAt, SameThread, SameQueues
<1>3. t \in Interfaces => AnswerFits(t)' /\ at[t] # "answer"
  BY <1>1 DEF AnswerFits, Translating, Listening, ThreadsInv
<1>4. ASSUME NEW d \in ChildSet(t) PROVE AnswerFits(d)' /\ SameThread(d)
  <2>1. d \in Interfaces /\ d # t
    BY ChildIsInterface, NotOwnChild
  <2> QED
    BY <1>1, <2>1 DEF SameThread, AnswerFits, Translating, ThreadsInv
<1>5. AsksForChild(t)'
  BY <1>1 DEF AsksForChild, Translating
<1>6. ASSUME runLoop PROVE Orderly(t)'
  <2>1. Orderly(t) /\ Serving(t) /\ Serving(t)'
    BY <1>1, <1>6 DEF ThreadsInv, Serving, Listening
  <2>2. c = Served(t)
    BY <1>0, <1>1, <2>1 DEF Orderly, Quiet
  <2>3. Conversation(t, c) /\ at'[c] = at[c] /\ call'[c] = call[c] /\ fromSutQueue'[c] = fromSutQueue[c]
    BY <1>0, <1>1, <1>4, <2>1, <2>2 DEF Orderly, SameThread
  <2>4. ASSUME at[c] = "answer", callbackQueue[c] = <<Head(call[c])>>, fromSutQueue[c] = <<>>
        PROVE  Conversation(t, c)'
    <3>1. callbackQueue'[c] = <<>> /\ inHand'[t] = Head(call[c])
      BY <1>1, <2>4
    <3> QED
      BY <1>1, <2>3, <2>4, <3>1 DEF Conversation
  <2>5. ASSUME at[c] = "none", callbackQueue[c] = <<NoMorePending>>, fromSutQueue[c] = <<>>
        PROVE  Conversation(t, c)'
    <3>1. callbackQueue'[c] = <<>> /\ inHand'[t] = NoMorePending
      BY <1>1, <2>5
    <3> QED
      BY <1>1, <2>3, <2>5, <3>1 DEF Conversation
  <2>6. Conversation(t, c)'
    BY <1>1, <2>3, <2>4, <2>5 DEF Conversation, Listening
  <2>7. ASSUME NEW d \in ChildSet(t), d # c PROVE Quiet(d)'
    BY <1>1, <1>4, <2>1, <2>2, <2>7, ChildIsInterface DEF Orderly, Quiet, SameThread
  <2> QED
    BY <1>1, <2>2, <2>1, <2>6, <2>7 DEF Orderly
<1>7. ASSUME NEW p \in Translators, t \in ChildSet(p), Orderly(p), runLoop PROVE Orderly(p)'
  <2>1. t \in Interfaces /\ c # t
    BY <1>0, <1>7, ChildIsInterface, NotOwnChild
  <2> QED
    BY <1>1, <1>2, <1>7, <2>1, ParentListens DEF SameQueues, Listening
<1> QED
  BY <1>1, <1>2, <1>3, <1>4, <1>5, <1>6, <1>7, StepOfNode

\* A translator goes on listening, to the same queue or to the next.
LEMMA ListenKeeps ==
  ASSUME TypeOK, ThreadsInv, NEW t \in Translators, WaitOnQueue(t) \/ PopTimeout(t)
  PROVE  ThreadsInv'
<1> USE Domains, RootFacts DEF Nodes
<1>1. /\ Listening(t) /\ Listening(t)' /\ \A m \in Nodes : m # t => at'[m] = at[m]
      /\ Served(t)' = Served(t) /\ Served(t) \in ChildSet(t) /\ Served(t) # t
      /\ UNCHANGED <<callbackQueue, fromSutQueue, call, result, runLoop, child, inHand>>
  BY ServedIsChild DEF WaitOnQueue, PopTimeout, Listening, Served
<1>2. OnlyAt(t) /\ t \in Nodes
  BY <1>1 DEF OnlyAt, SameThread, SameQueues
<1>3. t \in Interfaces => AnswerFits(t)' /\ at[t] # "answer"
  BY <1>1 DEF AnswerFits, Translating, Listening, ThreadsInv
<1>4. ASSUME NEW d \in ChildSet(t) PROVE AnswerFits(d)' /\ SameThread(d)
  <2>1. d \in Interfaces /\ d # t
    BY ChildIsInterface, NotOwnChild
  <2> QED
    BY <1>1, <2>1 DEF SameThread, AnswerFits, Translating, ThreadsInv
<1>5. AsksForChild(t)'
  BY <1>1 DEF AsksForChild, Translating, Listening
<1>6. ASSUME runLoop PROVE Orderly(t)'
  <2>1. Orderly(t) /\ Serving(t) /\ Serving(t)'
    BY <1>1, <1>6 DEF ThreadsInv, Serving
  <2>2. Conversation(t, Served(t))'
    <3>1. Conversation(t, Served(t)) /\ SameThread(Served(t))
      BY <1>1, <1>4, <2>1 DEF Orderly
    <3> QED
      BY <1>1, <3>1 DEF Conversation, SameThread, Listening, Translating
  <2>3. ASSUME NEW d \in ChildSet(t), d # Served(t) PROVE Quiet(d)'
    BY <1>1, <1>4, <2>1, <2>3 DEF Orderly, Quiet, SameThread
  <2> QED
    BY <1>1, <2>1, <2>2, <2>3 DEF Orderly
<1>7. ASSUME NEW p \in Translators, t \in ChildSet(p), Orderly(p), runLoop PROVE Orderly(p)'
  <2>1. t \in Interfaces
    BY <1>7, ChildIsInterface
  <2> QED
    BY <1>1, <1>2, <1>7, <2>1, ParentListens DEF SameQueues, Listening
<1> QED
  BY <1>1, <1>2, <1>3, <1>4, <1>5, <1>6, <1>7, StepOfNode

\* The manager is stopped: the translator pretends that its child is done.
LEMMA StopPoppingKeeps ==
  ASSUME TypeOK, ThreadsInv, NEW t \in Translators, StopPopping(t)
  PROVE  ThreadsInv'
<1> USE Domains, RootFacts DEF Nodes
<1>1. /\ at[t] = "try" /\ at'[t] = "popped" /\ \A m \in Nodes : m # t => at'[m] = at[m]
      /\ \A u \in Translators : u # t => inHand'[u] = inHand[u]
      /\ ~runLoop /\ UNCHANGED <<callbackQueue, fromSutQueue, call, result, runLoop, child>>
  BY DEF StopPopping
<1>2. OnlyAt(t) /\ t \in Nodes
  BY <1>1 DEF OnlyAt, SameThread, SameQueues
<1>3. t \in Interfaces => AnswerFits(t)' /\ at[t] # "answer"
  BY <1>1 DEF AnswerFits, Translating, ThreadsInv
<1>4. ASSUME NEW d \in ChildSet(t) PROVE AnswerFits(d)' /\ SameThread(d)
  <2>1. d \in Interfaces /\ d # t
    BY ChildIsInterface, NotOwnChild
  <2> QED
    BY <1>1, <2>1 DEF SameThread, AnswerFits, Translating, ThreadsInv
<1>5. AsksForChild(t)'
  BY <1>1 DEF AsksForChild, Translating
<1> QED
  BY <1>1, <1>2, <1>3, <1>4, <1>5, StepOfNode

\* The request a translator has popped is the one the child it serves waits with,
\* or the token that says the child is done.
LEMMA PoppedIsOfServed ==
  ASSUME TypeOK, NEW t \in Translators, Orderly(t), runLoop, at[t] = "popped"
  PROVE  /\ callbackQueue[Served(t)] = <<>> /\ fromSutQueue[Served(t)] = <<>>
         /\ Popped(t).op # "NO_MORE_PENDING" =>
              at[Served(t)] = "answer" /\ Popped(t) = Head(call[Served(t)])
         /\ Popped(t).op = "NO_MORE_PENDING" => Quiet(Served(t))
<1>1. Conversation(t, Served(t)) /\ Popped(t) = inHand[t] /\ Served(t) \in Interfaces
  BY ServedIsChild DEF Orderly, Serving, Popped
<1>2. CASE /\ at[Served(t)] = "answer" /\ callbackQueue[Served(t)] = <<>>
           /\ fromSutQueue[Served(t)] = <<>> /\ inHand[t] = Head(call[Served(t)])
  BY <1>1, <1>2, WaitingHasCall
<1>3. CASE /\ at[Served(t)] = "none" /\ callbackQueue[Served(t)] = <<>>
           /\ fromSutQueue[Served(t)] = <<>> /\ inHand[t] = NoMorePending
  BY <1>1, <1>3 DEF NoMorePending, Quiet
<1> QED
  BY <1>1, <1>2, <1>3 DEF Conversation, Listening, Translating

\* A translator goes on to the next child: all its children are quiet then.
LEMMA NextSiblingKeeps ==
  ASSUME TypeOK, ThreadsInv, NEW t \in Translators, NextSibling(t)
  PROVE  ThreadsInv'
<1> USE Domains, RootFacts DEF Nodes
<1>1. /\ at[t] = "popped" /\ at'[t] \in {"none", "launch", "release"}
      /\ (t # Root => at'[t] # "none") /\ Popped(t).op = "NO_MORE_PENDING"
      /\ \A m \in Nodes : m # t => at'[m] = at[m]
      /\ \A u \in Translators : u # t => child'[u] = child[u]
      /\ UNCHANGED <<callbackQueue, fromSutQueue, call, result, runLoop, inHand>>
  BY DEF NextSibling
<1>2. OnlyAt(t) /\ t \in Nodes
  BY <1>1 DEF OnlyAt, SameThread, SameQueues
<1>3. t \in Interfaces => AnswerFits(t)' /\ at[t] # "answer"
  BY <1>1 DEF AnswerFits, Translating, ThreadsInv
<1>4. ASSUME NEW d \in ChildSet(t) PROVE AnswerFits(d)' /\ SameThread(d)
  <2>1. d \in Interfaces /\ d # t
    BY ChildIsInterface, NotOwnChild
  <2> QED
    BY <1>1, <2>1 DEF SameThread, AnswerFits, Translating, ThreadsInv
<1>5. AsksForChild(t)' /\ ~Serving(t)'
  BY <1>1 DEF AsksForChild, Translating, Serving, Listening
<1>6. ASSUME runLoop PROVE Orderly(t)'
  <2>1. Orderly(t)
    BY <1>6 DEF ThreadsInv
  <2>2. \A d \in ChildSet(t) : Quiet(d)
    BY <1>1, <1>6, <2>1, PoppedIsOfServed DEF Orderly
  <2>3. \A d \in ChildSet(t) : Quiet(d)'
    BY <1>1, <1>4, <2>2 DEF Quiet, SameThread
  <2> QED
    BY <1>5, <2>3 DEF Orderly
<1>7. ASSUME NEW p \in Translators, t \in ChildSet(p), Orderly(p), runLoop PROVE Orderly(p)'
  <2>1. t \in Interfaces /\ t # Root
    BY <1>7, ChildIsInterface
  <2> QED
    BY <1>1, <1>2, <1>7, <2>1, ParentListens DEF SameQueues
<1> QED
  BY <1>1, <1>2, <1>3, <1>4, <1>5, <1>6, <1>7, StepOfNode

\* The root has the SUT do what the child it serves has asked for, and answers it.
LEMMA TranslateKeeps ==
  ASSUME TypeOK, ThreadsInv, Translate
  PROVE  ThreadsInv'
<1> USE Domains, RootFacts DEF Nodes
<1>0. PICK c \in Interfaces : c = Served(Root) /\ c \in ChildSet(Root)
  BY ServedIsChild
<1>1. /\ at[Root] = "popped" /\ at'[Root] = "try" /\ Popped(Root).op # "NO_MORE_PENDING"
      /\ \A m \in Interfaces : at'[m] = at[m]
      /\ fromSutQueue'[c] = Append(fromSutQueue[c], Popped(Root))
      /\ \A m \in Interfaces : m # c => fromSutQueue'[m] = fromSutQueue[m]
      /\ Served(Root)' = c
      /\ UNCHANGED <<callbackQueue, call, result, runLoop, child, inHand>>
  BY <1>0 DEF Translate, PushfromSut, Served
<1>2. OnlyAt(Root)
  BY <1>0, <1>1 DEF OnlyAt, SameThread, SameQueues
<1>3. runLoop /\ Orderly(Root)
  BY <1>1, PoppedType DEF ThreadsInv
<1>4. /\ callbackQueue[c] = <<>> /\ fromSutQueue[c] = <<>> /\ at[c] = "answer"
      /\ Popped(Root) = Head(call[c])
  BY <1>0, <1>1, <1>3, PoppedIsOfServed
<1>5. fromSutQueue'[c] = <<Head(call[c])>>
  BY <1>1, <1>4
<1>6. ASSUME NEW d \in ChildSet(Root) PROVE AnswerFits(d)' /\ SameThread(d)
  <2>1. d \in Interfaces /\ AnswerFits(d)
    BY ChildIsInterface DEF ThreadsInv
  <2>2. CASE d = c
    <3>1. SameThread(c) /\ Len(fromSutQueue'[c]) = 1 /\ Head(fromSutQueue'[c]) = Head(call'[c])
      BY <1>1, <1>5 DEF SameThread
    <3> QED
      BY <1>1, <1>4, <2>1, <2>2, <3>1 DEF SameThread, AnswerFits, Translating
  <2>3. CASE d # c
    BY <1>1, <2>1, <2>3 DEF SameThread, AnswerFits, Translating
  <2> QED
    BY <2>2, <2>3
<1>7. Orderly(Root)'
  <2>1. Conversation(Root, c)'
    BY <1>1, <1>4, <1>5 DEF Conversation, Listening
  <2>2. ASSUME NEW d \in ChildSet(Root), d # c PROVE Quiet(d)'
    BY <1>0, <1>1, <1>3, <2>2, ChildIsInterface DEF Orderly, Quiet
  <2> QED
    BY <1>1, <2>1, <2>2 DEF Orderly, Serving, Listening
<1> QED
  BY <1>1, <1>2, <1>3, <1>6, <1>7, StepOfNode

\* Another translator starts to ask its parent for what its child has asked for.
LEMMA StartTransformationKeeps ==
  ASSUME TypeOK, ThreadsInv, NEW t \in Translators, StartTransformation(t)
  PROVE  ThreadsInv'
<1> USE Domains, RootFacts DEF Nodes
<1>0. PICK c \in Interfaces : c = Served(t) /\ c \in ChildSet(t) /\ c # t
  BY ServedIsChild
<1>1. /\ t # Root /\ t \in Interfaces
      /\ at[t] = "popped" /\ at'[t] = "call" /\ Popped(t).op # "NO_MORE_PENDING"
      /\ \A m \in Nodes : m # t => at'[m] = at[m]
      /\ \A m \in Interfaces : m # t => call'[m] = call[m] /\ result'[m] = result[m]
      /\ call'[t] = RequestsFor(Kind[t], Popped(t).op, Popped(t).data)
      /\ result'[t] = NoMorePending /\ Served(t)' = c
      /\ UNCHANGED <<callbackQueue, fromSutQueue, runLoop, child, inHand>>
  BY <1>0 DEF StartTransformation, Served
<1>2. OnlyAt(t)
  BY <1>1 DEF OnlyAt, SameThread, SameQueues
<1>3. runLoop /\ Orderly(t) /\ Popped(t) \in Requests
  BY <1>1, PoppedType DEF ThreadsInv
<1>4. /\ callbackQueue[c] = <<>> /\ fromSutQueue[c] = <<>> /\ at[c] = "answer"
      /\ Popped(t) = Head(call[c])
  BY <1>0, <1>1, <1>3, PoppedIsOfServed
<1>5. /\ call'[t] \in Seq(Requests) /\ call'[t] # <<>>
      /\ \A i \in 1..Len(call'[t]) : call'[t][i].data = Popped(t).data
  <2>1. Popped(t).op \in Operations /\ Popped(t).data \in Data
    BY <1>3 DEF Requests
  <2> QED
    BY <1>1, <2>1, RequestsForType
<1>6. Head(call'[t]).data = Popped(t).data
  BY <1>5
<1>7. AnswerFits(t)'
  BY <1>1, <1>5, <1>6 DEF AnswerFits, ThreadsInv
<1>8. ASSUME NEW d \in ChildSet(t) PROVE AnswerFits(d)' /\ SameThread(d)
  <2>1. d \in Interfaces /\ AnswerFits(d) /\ d # t
    BY ChildIsInterface, NotOwnChild DEF ThreadsInv
  <2> QED
    BY <1>1, <2>1 DEF SameThread, AnswerFits, Translating
<1>9. AsksForChild(t)'
  BY <1>0, <1>1, <1>4, <1>6 DEF AsksForChild
<1>10. Orderly(t)'
  <2>1. Conversation(t, c)'
    BY <1>0, <1>1, <1>4 DEF Conversation, Translating
  <2>2. ASSUME NEW d \in ChildSet(t), d # c PROVE Quiet(d)'
    BY <1>0, <1>1, <1>3, <1>8, <2>2 DEF Orderly, Quiet, SameThread
  <2> QED
    BY <1>1, <2>1, <2>2 DEF Orderly, Serving, Translating
<1>11. ASSUME NEW p \in Translators, t \in ChildSet(p), Orderly(p), runLoop PROVE Orderly(p)'
  BY <1>1, <1>2, <1>11, ParentListens DEF SameQueues
<1> QED
  BY <1>1, <1>2, <1>7, <1>8, <1>9, <1>10, <1>11, StepOfNode

\* A node pushes a request: now it has asked and its parent, which listened, will hear.
LEMMA PushRequestKeeps ==
  ASSUME TypeOK, ThreadsInv, NEW n \in Interfaces, PushRequest(n)
  PROVE  ThreadsInv'
<1> USE Domains, RootFacts DEF Nodes
<1>1. /\ at[n] = "call" /\ at'[n] = "answer"
      /\ \A m \in Nodes : m # n => at'[m] = at[m]
      /\ callbackQueue'[n] = Append(callbackQueue[n], Head(call[n]))
      /\ \A m \in Interfaces : m # n => callbackQueue'[m] = callbackQueue[m]
      /\ UNCHANGED <<fromSutQueue, call, result, runLoop, child, inHand>>
  BY DEF PushRequest
<1>2. OnlyAt(n)
  BY <1>1 DEF OnlyAt, SameThread, SameQueues
<1>3. AnswerFits(n)'
  BY <1>1 DEF AnswerFits, Translating, ThreadsInv
<1>4. ASSUME n \in Translators, NEW d \in ChildSet(n) PROVE AnswerFits(d)' /\ SameThread(d)
  <2>1. d \in Interfaces /\ AnswerFits(d) /\ d # n
    BY <1>4, ChildIsInterface, NotOwnChild DEF ThreadsInv
  <2> QED
    BY <1>1, <2>1 DEF SameThread, AnswerFits, Translating
<1>5. ASSUME n \in Translators
      PROVE  AsksForChild(n)' /\ (runLoop' => Orderly(n)')
  <2>0. PICK c \in Interfaces : c = Served(n) /\ c = Served(n)' /\ c \in ChildSet(n) /\ c # n
    BY <1>1, <1>5, ServedIsChild DEF Served
  <2>1. AsksForChild(n)'
    <3>1. AsksForChild(n) /\ Translating(n)
      BY <1>1, <1>5 DEF ThreadsInv, Translating
    <3>2. at'[c] = at[c]
      BY <1>1, <2>0
    <3> QED
      BY <1>1, <2>0, <3>1, <3>2 DEF AsksForChild
  <2>2. ASSUME runLoop PROVE Orderly(n)'
    <3>1. Orderly(n) /\ Serving(n) /\ Serving(n)'
      BY <1>1, <1>5, <2>2 DEF ThreadsInv, Serving, Translating
    <3>2. Conversation(n, c)'
      BY <1>1, <2>0, <3>1 DEF Orderly, Conversation, Translating, Listening
    <3>3. ASSUME NEW d \in ChildSet(n), d # c PROVE Quiet(d)'
      BY <1>1, <1>4, <1>5, <2>0, <3>1, <3>3, ChildIsInterface, NotOwnChild DEF Orderly, Quiet
    <3> QED
      BY <2>0, <3>1, <3>2, <3>3 DEF Orderly
  <2> QED
    BY <1>1, <2>1, <2>2
<1>6. ASSUME NEW p \in Translators, n \in ChildSet(p), Orderly(p) PROVE Orderly(p)'
  <2>1. n = Served(p) /\ Listening(p) /\ callbackQueue[n] = <<>> /\ fromSutQueue[n] = <<>>
    BY <1>1, <1>6, WorkingIsServed
  <2>2. p # n /\ at'[p] = at[p]
    BY <1>1, <1>6, NotOwnChild
  <2>3. callbackQueue'[n] = <<Head(call'[n])>>
    BY <1>1, <2>1
  <2>4. Conversation(p, n)'
    BY <1>1, <2>1, <2>2, <2>3 DEF Conversation, Listening
  <2> QED
    BY <1>2, <1>6, <2>1, <2>2, <2>4, OrderlyParent
<1> QED
  BY <1>1, <1>2, <1>3, <1>4, <1>5, <1>6, StepOfNode

\* After the one message of a queue is taken, the queue is empty.
LEMMA TailOfOne == ASSUME NEW S, NEW s \in Seq(S), Len(s) = 1 PROVE Tail(s) = <<>>
<1>1. Tail(s) \in Seq(S) /\ Len(Tail(s)) = 0
  OBVIOUS
<1> QED
  BY <1>1, EmptySeq

\* An answer arrives at a node that waits: with it the node is at work again, and
\* its parent listens to an empty queue.
LEMMA AnsweredWorks ==
  ASSUME TypeOK, NEW n \in Interfaces, OnlyAt(n), AnswerFits(n), fromSutQueue[n] # <<>>,
         callbackQueue'[n] = callbackQueue[n], fromSutQueue'[n] = Tail(fromSutQueue[n]),
         at'[n] \notin {"none", "answer"},
         \A u \in Translators : u # n /\ n \in ChildSet(u) => at'[u] = at[u]
  PROVE  \A p \in Translators : n \in ChildSet(p) /\ Orderly(p) => Orderly(p)'
<1> SUFFICES ASSUME NEW p \in Translators, n \in ChildSet(p), Orderly(p) PROVE Orderly(p)'
  OBVIOUS
<1>1. at'[p] = at[p]
  BY NotOwnChild
<1>2. n = Served(p) /\ Listening(p) /\ callbackQueue[n] = <<>>
  BY AnsweredIsServed
<1>3. fromSutQueue'[n] = <<>>
  <2>1. fromSutQueue[n] \in Seq(Messages) /\ Len(fromSutQueue[n]) = 1
    BY DEF TypeOK, AnswerFits
  <2> QED
    BY <2>1, TailOfOne
<1>4. Conversation(p, n)'
  BY <1>1, <1>2, <1>3 DEF Conversation, Listening
<1> QED
  BY <1>1, <1>2, <1>4, OrderlyParent

\* What is left of a callback after an answer is about the same data.
LEMMA RestOfCall ==
  ASSUME TypeOK, NEW n \in Interfaces, AnswerFits(n), at[n] = "answer", fromSutQueue[n] # <<>>
  PROVE  /\ Tail(fromSutQueue[n]) = <<>>
         /\ Head(fromSutQueue[n]).data = Head(call[n]).data
         /\ \A i \in 1..Len(Tail(call[n])) : Tail(call[n])[i].data = Head(call[n]).data
         /\ Tail(call[n]) # <<>> => Head(Tail(call[n])).data = Head(call[n]).data
<1>1. fromSutQueue[n] \in Seq(Messages) /\ Len(fromSutQueue[n]) = 1
  BY DEF TypeOK, AnswerFits
<1>2. call[n] \in Seq(Requests) /\ call[n] # <<>>
  BY WaitingHasCall
<1>3. \A i \in 1..Len(call[n]) : call[n][i].data = Head(call[n]).data
  BY DEF AnswerFits, Translating
<1>4. \A i \in 1..Len(Tail(call[n])) : Tail(call[n])[i] = call[n][i + 1] /\ i + 1 \in 1..Len(call[n])
  BY <1>2
<1>5. \A i \in 1..Len(Tail(call[n])) : Tail(call[n])[i].data = Head(call[n]).data
  BY <1>3, <1>4
<1>6. Tail(call[n]) # <<>> =>
        1 \in 1..Len(Tail(call[n])) /\ Head(Tail(call[n])) = Tail(call[n])[1]
  BY <1>2
<1>7. Tail(fromSutQueue[n]) = <<>>
  BY <1>1, TailOfOne
<1>8. Head(fromSutQueue[n]).data = Head(call[n]).data
  BY DEF AnswerFits
<1> QED
  BY <1>5, <1>6, <1>7, <1>8

\* A translator has been answered: it asks on, or hands the answer to its child,
\* which is the one that has asked for it.
LEMMA TransformationAnsweredKeeps ==
  ASSUME TypeOK, ThreadsInv, NEW t \in Translators, TransformationAnswered(t)
  PROVE  ThreadsInv'
<1> USE Domains, RootFacts DEF Nodes
<1>0. PICK c \in Interfaces : c = Served(t) /\ c \in ChildSet(t) /\ c # t
  BY ServedIsChild
<1> DEFINE kept == IF Kind[t] = "JTAG_to_I2C" /\ result[t] # NoMorePending
                   THEN result[t] ELSE Head(fromSutQueue[t])
           last == Tail(call[t]) = <<>>
<1>1. /\ t # Root /\ t \in Interfaces /\ at[t] = "answer" /\ fromSutQueue[t] # <<>>
      /\ at'[t] = IF last THEN "try" ELSE "call"
      /\ \A m \in Nodes : m # t => at'[m] = at[m]
      /\ result'[t] = kept /\ call'[t] = Tail(call[t])
      /\ \A m \in Interfaces : m # t => call'[m] = call[m] /\ result'[m] = result[m]
      /\ UNCHANGED <<callbackQueue, runLoop, child, inHand>>
  BY DEF TransformationAnswered
<1>2. /\ fromSutQueue'[t] = Tail(fromSutQueue[t])
      /\ fromSutQueue'[c] = IF last THEN Append(fromSutQueue[c], kept) ELSE fromSutQueue[c]
      /\ \A m \in Interfaces : m # t /\ m # c => fromSutQueue'[m] = fromSutQueue[m]
  <2> DEFINE consumed == [fromSutQueue EXCEPT ![t] = Tail(@)]
  <2>1. fromSutQueue' = IF last THEN [consumed EXCEPT ![c] = Append(@, kept)] ELSE consumed
    BY <1>0 DEF TransformationAnswered, PushfromSut
  <2>2. /\ DOMAIN consumed = Interfaces /\ consumed[t] = Tail(fromSutQueue[t])
        /\ \A m \in Interfaces : m # t => consumed[m] = fromSutQueue[m]
    BY <1>1
  <2> HIDE DEF consumed, last, kept
  <2> QED
    BY <1>0, <1>1, <2>1, <2>2
<1>3. Served(t)' = c
  BY <1>0, <1>1 DEF Served
<1>4. AnswerFits(t) /\ AnswerFits(c) /\ AsksForChild(t) /\ Translating(t)
  BY <1>1 DEF ThreadsInv, Translating
<1>5. OnlyAt(t)
  BY <1>0, <1>1, <1>2 DEF OnlyAt, SameThread, SameQueues
<1>6. /\ at[c] = "answer" /\ fromSutQueue[c] = <<>>
      /\ Head(call[c]).data = Head(call[t]).data /\ kept.data = Head(call[t]).data
  BY <1>0, <1>1, <1>4, RestOfCall DEF AsksForChild
<1> HIDE DEF kept
<1>7. AnswerFits(t)'
  <2>1. /\ fromSutQueue'[t] = <<>>
        /\ \A i \in 1..Len(call'[t]) : call'[t][i].data = Head(call[t]).data
        /\ ~last => Head(call'[t]).data = Head(call[t]).data
    BY SMTT(60), <1>1, <1>2, <1>4, RestOfCall
  <2> QED
    BY <1>1, <2>1 DEF AnswerFits, Translating
<1>8. fromSutQueue'[c] = IF last THEN <<kept>> ELSE <<>>
  BY <1>2, <1>6
<1>9. ASSUME NEW d \in ChildSet(t) PROVE AnswerFits(d)' /\ SameThread(d)
  <2>1. d \in Interfaces /\ AnswerFits(d) /\ d # t
    BY ChildIsInterface, NotOwnChild DEF ThreadsInv
  <2>2. SameThread(d)
    BY <1>1, <2>1 DEF SameThread
  <2>3. CASE d # c
    BY <1>1, <1>2, <2>1, <2>2, <2>3 DEF SameThread, AnswerFits, Translating
  <2>4. CASE d = c
    <3>1. last => Len(fromSutQueue'[c]) = 1 /\ Head(fromSutQueue'[c]) = kept
      BY <1>8
    <3> QED
      BY <1>1, <1>6, <1>8, <2>1, <2>2, <2>4, <3>1 DEF SameThread, AnswerFits, Translating
  <2> QED
    BY <2>2, <2>3, <2>4
<1>10. AsksForChild(t)'
  <2> SUFFICES ASSUME ~last PROVE AsksForChild(t)'
    BY <1>1 DEF AsksForChild, Translating
  <2>1. Head(call'[t]).data = Head(call[t]).data
    BY <1>1, <1>4, RestOfCall
  <2>2. SameThread(c)
    BY <1>0, <1>9
  <2> QED
    BY <1>1, <1>3, <1>6, <1>8, <2>1, <2>2 DEF AsksForChild, SameThread
<1>11. ASSUME runLoop PROVE Orderly(t)'
  <2>1. Orderly(t) /\ Serving(t) /\ Serving(t)'
    BY <1>1, <1>4, <1>11 DEF ThreadsInv, Serving, Listening, Translating
  <2>2. Conversation(t, c)' /\ SameThread(c)
    <3>1. callbackQueue[c] = <<>> /\ Conversation(t, c) /\ SameThread(c)
      BY <1>0, <1>4, <1>9, <2>1, <1>1 DEF Orderly, Conversation, Listening
    <3> QED
      BY <1>1, <1>6, <1>8, <3>1 DEF Conversation, SameThread, Listening, Translating
  <2>3. ASSUME NEW d \in ChildSet(t), d # c PROVE Quiet(d)'
    BY <1>0, <1>1, <1>2, <1>9, <2>1, <2>3, ChildIsInterface, NotOwnChild
       DEF Orderly, Quiet, SameThread
  <2> QED
    BY <1>3, <2>1, <2>2, <2>3 DEF Orderly
<1>12. ASSUME NEW p \in Translators, t \in ChildSet(p), Orderly(p) PROVE Orderly(p)'
  BY <1>1, <1>2, <1>4, <1>5, <1>12, AnsweredWorks
<1> QED
  BY <1>1, <1>5, <1>7, <1>9, <1>10, <1>11, <1>12, StepOfNode

\* The thread of a node ends: its last word is the token that releases its parent.
LEMMA ThreadEnds ==
  ASSUME TypeOK, ThreadsInv, NEW n \in Interfaces,
         (n \in Translators /\ ReleaseParent(n)) \/ (n \in AccessInterfaces /\ NoMoreChannels(n))
  PROVE  ThreadsInv'
<1> USE Domains, RootFacts DEF Nodes
<1>1. /\ at[n] \in {"release", "channels"} /\ at'[n] = "none"
      /\ \A m \in Nodes : m # n => at'[m] = at[m]
      /\ callbackQueue'[n] = Append(callbackQueue[n], NoMorePending)
      /\ \A m \in Interfaces : m # n => callbackQueue'[m] = callbackQueue[m]
      /\ UNCHANGED <<fromSutQueue, call, result, runLoop, child, inHand>>
  BY DEF ReleaseParent, NoMoreChannels
<1>2. OnlyAt(n)
  BY <1>1 DEF OnlyAt, SameThread, SameQueues
<1>3. AnswerFits(n)'
  BY <1>1 DEF AnswerFits, Translating, ThreadsInv
<1>4. ASSUME n \in Translators, NEW d \in ChildSet(n)
      PROVE  AnswerFits(d)' /\ SameThread(d) /\ SameQueues(d)
  <2>1. d \in Interfaces /\ AnswerFits(d) /\ d # n
    BY <1>4, ChildIsInterface, NotOwnChild DEF ThreadsInv
  <2> QED
    BY <1>1, <2>1 DEF SameThread, SameQueues, AnswerFits, Translating
<1>5. ASSUME n \in Translators
      PROVE  AsksForChild(n)' /\ (runLoop' => Orderly(n)')
  <2>1. AsksForChild(n)' /\ ~Serving(n) /\ ~Serving(n)'
    BY <1>1 DEF AsksForChild, Serving, Listening, Translating
  <2>2. ASSUME runLoop, NEW d \in ChildSet(n) PROVE Quiet(d)'
    BY <1>4, <1>5, <2>1, <2>2 DEF ThreadsInv, Orderly, Quiet, SameThread, SameQueues
  <2> QED
    BY <1>1, <2>1, <2>2 DEF Orderly
<1>6. ASSUME NEW p \in Translators, n \in ChildSet(p), Orderly(p) PROVE Orderly(p)'
  <2>1. n = Served(p) /\ Listening(p) /\ callbackQueue[n] = <<>> /\ fromSutQueue[n] = <<>>
    BY <1>1, <1>6, WorkingIsServed
  <2>2. p # n /\ at'[p] = at[p]
    BY <1>1, <1>6, NotOwnChild
  <2>3. callbackQueue'[n] = <<NoMorePending>>
    BY <1>1, <2>1
  <2>4. Conversation(p, n)'
    BY <1>1, <2>1, <2>2, <2>3 DEF Conversation, Listening
  <2> QED
    BY <1>2, <1>6, <2>1, <2>2, <2>4, OrderlyParent
<1> QED
  BY <1>1, <1>2, <1>3, <1>4, <1>5, <1>6, StepOfNode

-------------------------------------------------------------------------------
(* Steps of an access interface *)

\* The callback of a channel starts, with requests that are all about it.
LEMMA DoCallbackKeeps ==
  ASSUME TypeOK, ThreadsInv, NEW a \in AccessInterfaces, DoCallback(a)
  PROVE  ThreadsInv'
<1> USE Domains, RootFacts DEF Nodes
<1>1. /\ at[a] = "channels" /\ at'[a] = "call"
      /\ \A m \in Nodes : m # a => at'[m] = at[m]
      /\ call'[a] = RequestsFor(Kind[a], Callback(a), RequestData(a))
      /\ \A m \in Interfaces : m # a => call'[m] = call[m]
      /\ UNCHANGED <<callbackQueue, fromSutQueue, result, runLoop, child, inHand>>
  BY DEF DoCallback
<1>2. OnlyAt(a)
  BY <1>1 DEF OnlyAt, SameThread, SameQueues
<1>3. AnswerFits(a)'
  <2>1. RequestData(a) \in Data /\ Callback(a) \in Operations
    BY RequestDataType DEF DoCallback
  <2>2. /\ call'[a] \in Seq(Requests) /\ call'[a] # <<>>
        /\ \A i \in 1..Len(call'[a]) : call'[a][i].data = RequestData(a)
    BY <1>1, <2>1, RequestsForType
  <2>3. Head(call'[a]).data = RequestData(a)
    BY <2>2
  <2> QED
    BY <1>1, <2>2, <2>3 DEF AnswerFits, ThreadsInv
<1>4. \A p \in Translators : a \in ChildSet(p) /\ Orderly(p) => Orderly(p)'
  BY <1>1, <1>2, ParentListens DEF SameQueues
<1> QED
  BY <1>1, <1>2, <1>3, <1>4, StepOfNode

\* A callback has been answered: it asks on, or its channel is done.
LEMMA CallbackAnsweredKeeps ==
  ASSUME TypeOK, ThreadsInv, NEW a \in AccessInterfaces, CallbackAnswered(a)
  PROVE  ThreadsInv'
<1> USE Domains, RootFacts DEF Nodes
<1>1. /\ at[a] = "answer" /\ at'[a] \in {"call", "channels"} /\ fromSutQueue[a] # <<>>
      /\ at'[a] = "call" => Tail(call[a]) # <<>>
      /\ \A m \in Nodes : m # a => at'[m] = at[m]
      /\ call'[a] = Tail(call[a]) /\ fromSutQueue'[a] = Tail(fromSutQueue[a])
      /\ \A m \in Interfaces : m # a => call'[m] = call[m] /\ fromSutQueue'[m] = fromSutQueue[m]
      /\ UNCHANGED <<callbackQueue, result, runLoop, child, inHand>>
  BY DEF CallbackAnswered
<1>2. OnlyAt(a) /\ AnswerFits(a)
  BY <1>1 DEF OnlyAt, SameThread, SameQueues, ThreadsInv
<1>3. AnswerFits(a)'
  BY <1>1, <1>2, RestOfCall DEF AnswerFits, Translating
<1>4. \A p \in Translators : a \in ChildSet(p) /\ Orderly(p) => Orderly(p)'
  BY <1>1, <1>2, AnsweredWorks
<1> QED
  BY <1>1, <1>2, <1>3, <1>4, StepOfNode

\* An access interface throws, or its thread ends after that: m_runLoop is false
\* then, and nobody is given a wrong answer for it.
LEMMA ThrowKeeps ==
  ASSUME TypeOK, ThreadsInv, NEW a \in AccessInterfaces,
         AccessInterfaceThrows(a) \/ (ThrowerStopReturns(a) /\ ~runLoop)
  PROVE  ThreadsInv'
<1> USE Domains, RootFacts DEF Nodes
<1>1. /\ at[a] \in {"channels", "stopping"} /\ at'[a] \in {"none", "stopping"} /\ ~runLoop'
      /\ \A m \in Nodes : m # a => at'[m] = at[m]
      /\ UNCHANGED <<callbackQueue, fromSutQueue, call, result, child, inHand>>
  BY DEF AccessInterfaceThrows, ThrowerStopReturns
<1>2. OnlyAt(a)
  BY <1>1 DEF OnlyAt, SameThread, SameQueues
<1>3. AnswerFits(a)'
  BY <1>1 DEF AnswerFits, Translating, ThreadsInv
<1> QED
  BY <1>1, <1>2, <1>3, StepOfNode

-------------------------------------------------------------------------------
(* The invariant *)

\* What a step does to the threads, the queues and the visits.
threadVars == <<at, callbackQueue, fromSutQueue, call, result, child, inHand>>

\* Calls of the manager and turns of its loop leave the threads of a visit alone.
LEMMA StillKeeps ==
  ASSUME ThreadsInv, UNCHANGED threadVars, runLoop' => runLoop
  PROVE  ThreadsInv'
<1>1. \A n \in Interfaces : AnswerFits(n)'
  BY DEF ThreadsInv, threadVars, AnswerFits, Translating
<1>2. \A t \in Translators \ {Root} : AsksForChild(t)'
  BY DEF ThreadsInv, threadVars, AsksForChild, Translating, Served
<1>3. ASSUME runLoop', NEW t \in Translators PROVE Orderly(t)'
  <2>1. Orderly(t) /\ Served(t)' = Served(t) /\ Serving(t)' = Serving(t)
    BY <1>3 DEF ThreadsInv, threadVars, Served, Serving, Listening, Translating
  <2>2. Conversation(t, Served(t)) => Conversation(t, Served(t))'
    BY <2>1 DEF threadVars, Conversation, Listening, Translating
  <2>3. \A c \in ChildSet(t) : Quiet(c) => Quiet(c)'
    BY DEF threadVars, Quiet
  <2> QED
    BY <2>1, <2>2, <2>3 DEF Orderly
<1> QED
  BY <1>1, <1>2, <1>3 DEF ThreadsInv

\* With no thread and no message anywhere there is nothing to show.
LEMMA AllQuiet ==
  ASSUME at[Root] = "none", \A n \in Interfaces : Quiet(n)
  PROVE  ThreadsInv
<1>1. \A t \in Translators : at[t] = "none"
  BY RootFacts DEF Quiet
<1> QED
  BY <1>1, ChildIsInterface
     DEF ThreadsInv, AnswerFits, AsksForChild, Orderly, Quiet, Serving, Listening, Translating

\* The steps there are, by what they need.
LEMMA Steps ==
  ASSUME [Next]_vars
  PROVE  \/ \E a \in AccessInterfaces, c \in Channels, s \in 1..MaxShifts : iApply(a, c, s)
         \/ Start \/ Stop \/ StopReturns \/ DoDataCycles \/ iReset \/ DoReset \/ DoResetAnswered
         \/ LoopTest \/ CyclesOver \/ StartVisit \/ UNCHANGED vars
         \/ Translate \/ \E t \in Translators : TranslatorStep(t)
         \/ \E n \in Interfaces : PushRequest(n)
         \/ \E a \in AccessInterfaces : AccessInterfaceStep(a) \/ AccessInterfaceThrows(a)
BY DEF Next, ManagerStep, OwnerStep

\* A thread acts only where there is one, and does not touch the calls.
LEMMA ThreadSteps ==
  /\ Translate => at[Root] # "none" /\ UNCHANGED <<owner, calls, runLoop, manager>>
  /\ \A t \in Translators : TranslatorStep(t) =>
       at[t] # "none" /\ UNCHANGED <<owner, calls, runLoop>>
  /\ \A n \in Interfaces : PushRequest(n) =>
       at[n] # "none" /\ UNCHANGED <<owner, calls, runLoop, manager>>
  /\ \A a \in AccessInterfaces : AccessInterfaceStep(a) \/ AccessInterfaceThrows(a) =>
       at[a] # "none" /\ UNCHANGED <<owner, calls>> /\ (runLoop' => runLoop)
<1>1. Translate => at[Root] # "none" /\ UNCHANGED <<owner, calls, runLoop, manager>>
  BY DEF Translate
<1>2. ASSUME NEW t \in Translators, TranslatorStep(t)
      PROVE  at[t] # "none" /\ UNCHANGED <<owner, calls, runLoop>>
  BY <1>2 DEF TranslatorStep, StartChildVisit, Launch, Pop, WaitOnQueue, PopTimeout, StopPopping,
              NextSibling, StartTransformation, TransformationAnswered, ReleaseParent
<1>3. ASSUME NEW n \in Interfaces, PushRequest(n)
      PROVE  at[n] # "none" /\ UNCHANGED <<owner, calls, runLoop, manager>>
  BY <1>3 DEF PushRequest
<1>4. ASSUME NEW a \in AccessInterfaces, AccessInterfaceStep(a) \/ AccessInterfaceThrows(a)
      PROVE  at[a] # "none" /\ UNCHANGED <<owner, calls>> /\ (runLoop' => runLoop)
  BY <1>4 DEF AccessInterfaceStep, DoCallback, SkipChannel, CallbackAnswered, NoMoreChannels,
              ThrowerStopReturns, AccessInterfaceThrows
<1> QED
  BY <1>1, <1>2, <1>3, <1>4

\* A manager that is undisturbed was so before; it has not been reset, and only
\* its first Start starts it.
LEMMA UndisturbedBefore ==
  ASSUME TypeOK, [Next]_vars, Undisturbed'
  PROVE  /\ Undisturbed /\ ~iReset
         /\ (Start => calls.starts = 0)
         /\ (calls'.starts = 0 => calls.starts = 0)
         /\ (Start => calls'.starts # 0)
<1>1. calls \in Calls
  BY DEF TypeOK
<1>2. \/ calls'.starts = calls.starts /\ calls'.resets = calls.resets /\ ~Start /\ ~iReset
      \/ Start \/ iReset
  <2>1. CASE \E a \in AccessInterfaces, c \in Channels, s \in 1..MaxShifts : iApply(a, c, s)
    BY <1>1, <2>1 DEF iApply, Calls
  <2>2. CASE Stop \/ DoDataCycles
    BY <1>1, <2>2 DEF Stop, DoDataCycles, Calls
  <2>3. CASE UNCHANGED calls
    BY <2>3
  <2>4. StopReturns \/ DoReset \/ DoResetAnswered \/ LoopTest \/ CyclesOver \/ StartVisit
          \/ UNCHANGED vars => UNCHANGED calls
    BY DEF StopReturns, DoReset, DoResetAnswered, LoopTest, CyclesOver, StartVisit, vars
  <2> QED
    BY <2>1, <2>2, <2>3, <2>4, Steps, ThreadSteps
<1>3. Start => calls'.starts = calls.starts + 1 /\ calls'.resets = calls.resets
  BY <1>1 DEF Start, Calls
<1>4. iReset => calls'.resets = calls.resets + 1
  BY <1>1 DEF iReset, Calls
<1>5. calls.starts \in Nat /\ calls.resets \in Nat
  BY <1>1 DEF Calls
<1> QED
  BY <1>2, <1>3, <1>4, <1>5 DEF Undisturbed

\* Every step of an undisturbed manager keeps the threads in order.
LEMMA NextThreads ==
  ASSUME TypeOK, ManagerInv, ThreadsInv, [Next]_vars, Undisturbed'
  PROVE  ThreadsInv'
<1>1. ~iReset /\ ~DoReset /\ ~DoResetAnswered /\ (Start => calls.starts = 0)
  BY UndisturbedBefore DEF ManagerInv, DoReset, DoResetAnswered
<1>2. CASE Start
  <2>1. at[Root] = "none" /\ \A n \in Interfaces : Quiet(n)
    BY <1>1, <1>2 DEF ManagerInv
  <2>2. UNCHANGED <<at, callbackQueue, fromSutQueue>>
    BY <1>2 DEF Start
  <2>3. at'[Root] = "none" /\ \A n \in Interfaces : Quiet(n)'
    BY <2>1, <2>2 DEF Quiet
  <2>4. \A t \in Translators : at'[t] = "none"
    BY <2>3, RootFacts DEF Quiet
  <2> QED
    BY <2>3, <2>4, ChildIsInterface
       DEF ThreadsInv, AnswerFits, AsksForChild, Orderly, Quiet, Serving, Listening, Translating
<1>3. CASE \/ \E a \in AccessInterfaces, c \in Channels, s \in 1..MaxShifts : iApply(a, c, s)
           \/ Stop \/ StopReturns \/ DoDataCycles \/ LoopTest \/ CyclesOver \/ UNCHANGED vars
           \/ \E a \in AccessInterfaces : SkipChannel(a)
  <2>1. UNCHANGED threadVars /\ (runLoop' => runLoop)
    BY <1>3 DEF threadVars, vars, iApply, Stop, StopReturns, DoDataCycles, LoopTest, CyclesOver,
                SkipChannel
  <2> QED
    BY <2>1, StillKeeps
<1>4. CASE StartVisit
  <2>1. at[Root] = "none"
    BY <1>4 DEF StartVisit, ManagerInv
  <2> QED
    BY <1>4, <2>1, StartVisitKeeps, RootFacts
<1>5. CASE Translate
  BY <1>5, TranslateKeeps
<1>6. ASSUME NEW t \in Translators, TranslatorStep(t) PROVE ThreadsInv'
  <2>1. ReleaseParent(t) => t \in Interfaces
    BY RootFacts DEF ReleaseParent, TypeOK, RootStates
  <2> QED
    BY <1>6, <2>1, StartVisitKeeps, LaunchKeeps, PopKeeps, ListenKeeps, StopPoppingKeeps,
       NextSiblingKeeps, StartTransformationKeeps, TransformationAnsweredKeeps, ThreadEnds
       DEF TranslatorStep
<1>7. ASSUME NEW n \in Interfaces, PushRequest(n) PROVE ThreadsInv'
  BY <1>7, PushRequestKeeps
<1>8. ASSUME NEW a \in AccessInterfaces,
             DoCallback(a) \/ CallbackAnswered(a) \/ NoMoreChannels(a)
      PROVE  ThreadsInv'
  BY <1>8, RootFacts, DoCallbackKeeps, CallbackAnsweredKeeps, ThreadEnds
<1>9. ASSUME NEW a \in AccessInterfaces, ThrowerStopReturns(a) \/ AccessInterfaceThrows(a)
      PROVE  ThreadsInv'
  <2>1. ThrowerStopReturns(a) => ~runLoop
    BY DEF ThrowerStopReturns, ManagerInv
  <2> QED
    BY <1>9, <2>1, ThrowKeeps
<1> QED
  BY <1>1, <1>2, <1>3, <1>4, <1>5, <1>6, <1>7, <1>8, <1>9, Steps DEF AccessInterfaceStep

\* Every step of an undisturbed manager keeps what ties it to the visit of the root.
LEMMA NextManager ==
  ASSUME TypeOK, ManagerInv, [Next]_vars, Undisturbed'
  PROVE  ManagerInv'
<1> USE RootFacts, Domains DEF Nodes
<1>1. /\ ~iReset /\ ~DoReset /\ ~DoResetAnswered /\ (Start => calls.starts = 0)
      /\ (calls'.starts = 0 => calls.starts = 0 /\ ~Start)
  BY UndisturbedBefore DEF ManagerInv, DoReset, DoResetAnswered
<1>2. ASSUME calls'.starts = 0
      PROVE  ~runLoop' /\ at'[Root] = "none" /\ \A n \in Interfaces : Quiet(n)'
  <2>1. ~runLoop /\ at[Root] = "none" /\ \A n \in Interfaces : Quiet(n)
    BY <1>1, <1>2 DEF ManagerInv
  <2>2. \A n \in Nodes : at[n] = "none"
    BY <2>1 DEF Quiet
  <2>3. ~StartVisit /\ ~Start
    BY <1>1, <1>2, <2>1 DEF StartVisit
  <2>4. \/ \E a \in AccessInterfaces, c \in Channels, s \in 1..MaxShifts : iApply(a, c, s)
        \/ Stop \/ StopReturns \/ DoDataCycles \/ LoopTest \/ CyclesOver \/ UNCHANGED vars
    BY <1>1, <2>2, <2>3, Steps, ThreadSteps
  <2>5. UNCHANGED <<at, callbackQueue, fromSutQueue>> /\ ~runLoop'
    BY <2>1, <2>4 DEF vars, iApply, Stop, StopReturns, DoDataCycles, LoopTest, CyclesOver
  <2> QED
    BY <2>1, <2>5 DEF Quiet
<1> DEFINE Tied == /\ owner \notin {"resetting", "resetAnswer"} /\ (owner = "cycling" => ~runLoop)
                   /\ runLoop => /\ manager \in {"loop", "cycle", "visit"}
                                 /\ at[Root] # "none" <=> manager = "visit"
<1>3. Tied
  BY DEF ManagerInv
<1>4. CASE Start
  <2>1. at[Root] = "none" /\ at' = at
    BY <1>1, <1>4 DEF ManagerInv, Start
  <2> QED
    BY <1>2, <1>3, <1>4, <2>1 DEF Start, ManagerInv
<1>5. CASE \/ \E a \in AccessInterfaces, c \in Channels, s \in 1..MaxShifts : iApply(a, c, s)
           \/ Stop \/ StopReturns \/ DoDataCycles \/ LoopTest \/ CyclesOver \/ UNCHANGED vars
  <2>1. Tied'
    BY <1>3, <1>5 DEF vars, iApply, Stop, StopReturns, DoDataCycles, LoopTest, CyclesOver
  <2> QED
    BY <1>2, <2>1 DEF ManagerInv
<1>6. CASE StartVisit
  <2>1. Tied'
    BY <1>3, <1>6 DEF StartVisit
  <2> QED
    BY <1>2, <2>1 DEF ManagerInv
<1>7. CASE Translate
  <2>1. Tied'
    BY <1>3, <1>7 DEF Translate
  <2> QED
    BY <1>2, <2>1 DEF ManagerInv
<1>8. ASSUME NEW t \in Translators, TranslatorStep(t) PROVE ManagerInv'
  <2>1. CASE NextSibling(t)
    <3>1. Tied'
      BY <1>3, <2>1 DEF NextSibling
    <3> QED
      BY <1>2, <3>1 DEF ManagerInv
  <2>2. CASE ~NextSibling(t)
    <3>1. /\ UNCHANGED <<owner, runLoop, manager>>
          /\ at'[Root] # "none" <=> at[Root] # "none"
      <4>1. CASE Launch(t)
        <5>1. Served(t) # Root /\ Served(t) \in Interfaces
          BY ServedIsChild
        <5> QED
          BY <4>1, <5>1 DEF Launch
      <4>2. CASE ReleaseParent(t)
        <5>1. t # Root
          BY <4>2 DEF ReleaseParent, TypeOK, RootStates
        <5> QED
          BY <4>2, <5>1 DEF ReleaseParent
      <4> QED
        BY <1>8, <2>2, <4>1, <4>2
           DEF TranslatorStep, StartChildVisit, Pop, WaitOnQueue, PopTimeout, StopPopping,
               StartTransformation, TransformationAnswered
    <3> QED
      BY <1>2, <1>3, <3>1 DEF ManagerInv
  <2> QED
    BY <2>1, <2>2
<1>9. ASSUME NEW n \in Interfaces, PushRequest(n) PROVE ManagerInv'
  <2>1. Tied'
    BY <1>3, <1>9 DEF PushRequest
  <2> QED
    BY <1>2, <2>1 DEF ManagerInv
<1>10. ASSUME NEW a \in AccessInterfaces, AccessInterfaceStep(a) \/ AccessInterfaceThrows(a)
       PROVE  ManagerInv'
  <2>1. Tied'
    BY <1>3, <1>10 DEF AccessInterfaceStep, DoCallback, SkipChannel, CallbackAnswered,
                       NoMoreChannels, ThrowerStopReturns, AccessInterfaceThrows
  <2> QED
    BY <1>2, <2>1 DEF ManagerInv
<1> QED
  BY <1>1, <1>4, <1>5, <1>6, <1>7, <1>8, <1>9, <1>10, Steps

\* The invariant holds in every initial state.
LEMMA InitTranslatorInv == Init => TranslatorInv
<1> SUFFICES ASSUME Init PROVE ManagerInv /\ ThreadsInv
  BY DEF TranslatorInv
<1>1. at[Root] = "none" /\ \A n \in Interfaces : Quiet(n)
  BY DEF Init, Quiet
<1>2. ManagerInv
  BY <1>1 DEF Init, ManagerInv
<1> QED
  BY <1>1, <1>2, AllQuiet

\* Every step keeps the invariant.
LEMMA NextTranslatorInv == TypeOK /\ TranslatorInv /\ [Next]_vars => TranslatorInv'
<1> SUFFICES ASSUME TypeOK, TranslatorInv, [Next]_vars, Undisturbed' PROVE ManagerInv' /\ ThreadsInv'
  BY DEF TranslatorInv
<1>1. ManagerInv /\ ThreadsInv
  BY UndisturbedBefore DEF TranslatorInv
<1> QED
  BY <1>1, NextManager, NextThreads

\* In every state of an undisturbed manager, whether it runs, has been stopped or
\* has been stopped by an exception, every translator that serves a child is in an
\* orderly conversation with it, and every answer goes to the request it answers
\* (PopAllRequests and PushfromSut, DataCycleVisitor.cpp:159).
THEOREM ConversationsOrderly == Spec => [](TypeOK /\ TranslatorInv)
<1>1. Init => TypeOK /\ TranslatorInv
  BY InitTypeOK, InitTranslatorInv
<1>2. TypeOK /\ TranslatorInv /\ [Next]_vars => (TypeOK /\ TranslatorInv)'
  BY NextTypeOK, NextTranslatorInv
<1> QED
  BY <1>1, <1>2, PTL DEF Spec

-------------------------------------------------------------------------------
(* What follows for the whole tree *)

\* With a translator, the set has its children: what is proved for the root and
\* handed down from a translator to its children holds in the whole tree.
Closed(S) == \A t \in S \cap Translators : ChildSet(t) \subseteq S

\* Every node is below the root.
LEMMA TreeInduction ==
  ASSUME NEW S \in SUBSET Nodes, Root \in S, Closed(S)
  PROVE  \A n \in Nodes : n \in S
BY ReachableAssumption DEF ReachableAssumption, Closed, Nodes

\* A translator without a thread has quiet children.
LEMMA IdleHasQuietChildren ==
  ASSUME NEW t \in Translators, Orderly(t), at[t] = "none", NEW c \in ChildSet(t)
  PROVE  Quiet(c)
BY DEF Orderly, Serving, Listening, Translating

\* A child with a thread is the one its parent serves.
LEMMA ActiveIsServed ==
  ASSUME NEW t \in Translators, Orderly(t), NEW c \in ChildSet(t), at[c] # "none"
  PROVE  at[t] # "none" /\ c = Served(t)
BY DEF Orderly, Quiet, Serving, Listening, Translating

\* Without a visit no thread and no message is anywhere below the root.
LEMMA NothingBelowIdleRoot ==
  ASSUME \A t \in Translators : Orderly(t), at[Root] = "none"
  PROVE  \A n \in Interfaces : Quiet(n)
<1> DEFINE S == {n \in Nodes : n = Root \/ Quiet(n)}
<1>1. Root \in S /\ S \in SUBSET Nodes
  BY DEF Nodes
<1>2. ASSUME NEW t \in S \cap Translators, NEW c \in ChildSet(t) PROVE c \in S
  <2>1. at[t] = "none"
    BY DEF Quiet
  <2> QED
    BY <2>1, ChildIsInterface, IdleHasQuietChildren DEF Nodes
<1>3. \A n \in Nodes : n \in S
  <2>1. Closed(S)
    BY <1>2 DEF Closed
  <2> HIDE DEF S
  <2> QED
    BY <1>1, <2>1, TreeInduction
<1> QED
  BY <1>3, RootFacts DEF Nodes

\* All access interfaces with a thread are at n or below it: they are in every
\* set that has n and, with a translator, its children.
AllActiveBelow(n) ==
  \A X \in SUBSET Nodes :
    n \in X /\ Closed(X) => \A a \in AccessInterfaces : at[a] # "none" => a \in X

\* Along the nodes that have a thread, from the root down, nothing is active beside.
LEMMA ActiveBelowActive ==
  ASSUME \A t \in Translators : Orderly(t), NEW n \in Nodes, at[n] # "none"
  PROVE  AllActiveBelow(n)
<1> DEFINE S == {m \in Nodes : at[m] # "none" => AllActiveBelow(m)}
<1>1. Root \in S /\ S \in SUBSET Nodes
  <2>1. AllActiveBelow(Root)
    BY TreeInduction, RootFacts DEF AllActiveBelow, Nodes
  <2> QED
    BY <2>1 DEF Nodes
<1>2. ASSUME NEW t \in S \cap Translators, NEW c \in ChildSet(t) PROVE c \in S
  <2> SUFFICES ASSUME at[c] # "none", NEW X \in SUBSET Nodes, c \in X, Closed(X),
                      NEW a \in AccessInterfaces, at[a] # "none"
               PROVE  a \in X
    BY ChildIsInterface DEF AllActiveBelow, Nodes
  <2>1. at[t] # "none" /\ AllActiveBelow(t) /\ \A d \in ChildSet(t) : d # c => at[d] = "none"
    BY ActiveIsServed
  <2> DEFINE Y == X \cup {t} \cup {m \in Nodes : at[m] = "none"}
  <2>2. t \in Y /\ Y \in SUBSET Nodes
    OBVIOUS
  <2>3. ASSUME NEW u \in Y \cap Translators, NEW d \in ChildSet(u) PROVE d \in Y
    <3>1. d \in Nodes
      BY ChildIsInterface DEF Nodes
    <3>2. CASE u \in X
      BY <3>2 DEF Closed
    <3>3. CASE u = t
      BY <2>1, <3>1, <3>3
    <3>4. CASE at[u] = "none"
      BY <3>1, <3>4, IdleHasQuietChildren DEF Quiet
    <3> QED
      BY <3>2, <3>3, <3>4
  <2>4. a \in Y
    <3>1. Closed(Y)
      BY <2>3 DEF Closed
    <3> HIDE DEF Y
    <3> QED
      BY <2>1, <2>2, <3>1 DEF AllActiveBelow
  <2> QED
    BY <2>4, RootFacts
<1>3. n \in S
  <2>1. Closed(S)
    BY <1>2 DEF Closed
  <2> HIDE DEF S
  <2> QED
    BY <1>1, <2>1, TreeInduction
<1> QED
  BY <1>3

\* While the loop runs, at most one access interface of the whole tree has a
\* thread: a detached thread is launched for every child (DataCycleVisitor), yet
\* the operations of two access interfaces never mix on the SUT.
THEOREM OneAtATime == Spec => []OneInterfaceAtATime
<1>1. TypeOK /\ TranslatorInv => OneInterfaceAtATime
  <2> SUFFICES ASSUME TranslatorInv, Undisturbed, runLoop,
                      NEW a \in AccessInterfaces, NEW b \in AccessInterfaces,
                      at[a] # "none", at[b] # "none"
               PROVE  a = b
    BY DEF OneInterfaceAtATime
  <2>1. \A t \in Translators : Orderly(t)
    BY DEF TranslatorInv, ThreadsInv
  <2>2. a \in Nodes /\ a \notin Translators
    BY RootFacts DEF Nodes
  <2>3. AllActiveBelow(a)
    BY <2>1, <2>2, ActiveBelowActive
  <2>4. {a} \in SUBSET Nodes /\ Closed({a})
    BY <2>2 DEF Closed
  <2> QED
    BY <2>3, <2>4 DEF AllActiveBelow
<1> QED
  BY <1>1, ConversationsOrderly, PTL

\* Between two visits of a running loop no thread and no message is left over
\* anywhere in the tree: the tokens that release the translators and the answers
\* are all consumed by the visit that caused them.
THEOREM VisitsLeaveNothing == Spec => []NothingLeftOver
<1>1. TypeOK /\ TranslatorInv => NothingLeftOver
  <2> SUFFICES ASSUME TranslatorInv, Undisturbed, runLoop, manager \in {"loop", "cycle"}
               PROVE  \A n \in Interfaces : Quiet(n)
    BY DEF NothingLeftOver, Quiet
  <2>1. at[Root] = "none" /\ \A t \in Translators : Orderly(t)
    BY DEF TranslatorInv, ManagerInv, ThreadsInv
  <2> QED
    BY <2>1, NothingBelowIdleRoot
<1> QED
  BY <1>1, ConversationsOrderly, PTL

\* The thread of an access interface that waits moves only when it has an answer.
LEMMA OnlyAnsweredMove ==
  ASSUME TypeOK, [Next]_vars, NEW a \in AccessInterfaces, TakesAnswer(a)
  PROVE  fromSutQueue[a] # <<>>
<1> USE RootFacts, Domains DEF Nodes
<1> SUFFICES ASSUME fromSutQueue[a] = <<>>, at[a] = "answer" PROVE at'[a] = at[a]
  BY DEF TakesAnswer
<1>1. CASE \/ \E b \in AccessInterfaces, c \in Channels, s \in 1..MaxShifts : iApply(b, c, s)
           \/ Start \/ Stop \/ StopReturns \/ DoDataCycles \/ iReset \/ DoReset
           \/ DoResetAnswered \/ LoopTest \/ CyclesOver \/ UNCHANGED vars
  BY <1>1 DEF iApply, Start, Stop, StopReturns, DoDataCycles, iReset, DoReset,
              DoResetAnswered, LoopTest, CyclesOver, vars
<1>2. CASE StartVisit \/ Translate
  BY <1>2 DEF StartVisit, Translate
<1>3. ASSUME NEW t \in Translators, TranslatorStep(t) PROVE at'[a] = at[a]
  <2>1. CASE Launch(t)
    BY <2>1, ServedIsChild DEF Launch
  <2> QED
    BY <1>3, <2>1
       DEF TranslatorStep, StartChildVisit, Pop, WaitOnQueue, PopTimeout, StopPopping,
           NextSibling, StartTransformation, TransformationAnswered, ReleaseParent
<1>4. ASSUME NEW n \in Interfaces, PushRequest(n) PROVE at'[a] = at[a]
  BY <1>4 DEF PushRequest
<1>5. ASSUME NEW b \in AccessInterfaces, AccessInterfaceStep(b) \/ AccessInterfaceThrows(b)
      PROVE  at'[a] = at[a]
  BY <1>5 DEF AccessInterfaceStep, DoCallback, SkipChannel, CallbackAnswered, NoMoreChannels,
              ThrowerStopReturns, AccessInterfaceThrows
<1> QED
  BY <1>1, <1>2, <1>3, <1>4, <1>5, Steps

\* The answer that a callback takes is the answer to its own request, through any
\* chain of translators, also while the manager is being stopped and after an
\* access interface has thrown.
THEOREM OwnAnswers == Spec => AnswersAreOwn
<1>1. TypeOK /\ TranslatorInv /\ [Next]_vars =>
        [\A a \in AccessInterfaces : TakesAnswer(a) /\ Undisturbed => OwnAnswer(a)]_vars
  <2> SUFFICES ASSUME TypeOK, TranslatorInv, [Next]_vars,
                      NEW a \in AccessInterfaces, TakesAnswer(a), Undisturbed
               PROVE  OwnAnswer(a)
    OBVIOUS
  <2>1. AnswerFits(a) /\ fromSutQueue[a] # <<>>
    BY OnlyAnsweredMove, RootFacts DEF TranslatorInv, ThreadsInv
  <2> QED
    BY <2>1 DEF AnswerFits, OwnAnswer
<1> QED
  BY <1>1, ConversationsOrderly, PTL DEF Spec, AnswersAreOwn
===============================================================================
