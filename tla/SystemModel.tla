------------------------------ MODULE SystemModel ------------------------------
(***************************************************************************)
(* The tree of the system model (classes SystemModelNode, ParentNode and     *)
(* SystemModel) and the calls that build and change it.  The children of a   *)
(* node are a list linked by next sibling pointers; a node may hand the      *)
(* children it is given to another node, its child appender.                 *)
(*                                                                         *)
(* A node is the number of its construction, its identifier plus one; 0 is   *)
(* nullptr.  A call whose loop over a list would not end is not enabled.     *)
(***************************************************************************)
EXTENDS Naturals, Sequences, FiniteSets, SequencesExt

CONSTANTS
  MaxNodes,        \* bound: nodes constructed
  Kinds,           \* kinds of nodes that are created
  AutoRoot,        \* m_autoRootNode
  MaxOutside,      \* bound: nodes constructed without the SystemModel
  MaxAppenders,    \* bound: nodes with a child appender
  MaxDisconnects   \* bound: calls that disconnect nodes or remove them

Nodes    == 1 .. MaxNodes
Pointers == 0 .. MaxNodes

ASSUME SystemModelAssumption ==
  /\ {MaxNodes, MaxOutside, MaxAppenders, MaxDisconnects} \subseteq Nat
  /\ Kinds \subseteq {"AccessInterface", "AccessInterfaceTranslator", "Chain", "Linker", "Register"}
  /\ AutoRoot \in BOOLEAN

VARIABLES
  kind,                \* kinds of the nodes constructed so far, by node
  tree,                \* m_pFirstChild, m_pNextSibling, m_pOptionalChildAppender
  root,                \* m_root
  identifierMapping,   \* m_identifierMapping
  disconnects          \* calls that disconnected so far (bound)

vars == <<kind, tree, root, identifierMapping, disconnects>>

Constructed == DOMAIN kind
IsParent(n) == kind[n] # "Register"
Parents     == {n \in Constructed : IsParent(n)}

-------------------------------------------------------------------------------
(* Lists and appenders *)

\* The first k nodes of the list that starts at pointer n.
RECURSIVE FirstOf(_, _, _)
FirstOf(n, successor, k) ==
  IF n = 0 \/ k = 0 THEN <<>> ELSE <<n>> \o FirstOf(successor[n], successor, k - 1)

ListFrom(n, successor) == FirstOf(n, successor, MaxNodes)

Ends(n, successor) == Len(FirstOf(n, successor, MaxNodes + 1)) <= MaxNodes

Siblings(t, n)  == ListFrom(n, t.next)
Children(t, p)  == ListFrom(t.first[p], t.next)
ListEnds(t, n)  == Ends(n, t.next)

\* The node that gets the children given to p.
DeepestChildAppender(t, p) == Last(ListFrom(p, t.appender))

\* Mutant: the sibling replaces those that follow the node.
AppendSiblingNext(t, n, s) == [t EXCEPT !.next[n] = s]

AppendSibling(t, n, s) == [t EXCEPT !.next[Last(Siblings(t, n))] = s]

AppendChild(t, p, c) ==
  LET q == DeepestChildAppender(t, p)
  IN  IF t.first[q] = 0 THEN [t EXCEPT !.first[q] = c] ELSE AppendSibling(t, t.first[q], c)

\* The siblings of the child come along.
PrependChild(t, p, c) ==
  LET q == DeepestChildAppender(t, p)
  IN  IF t.first[q] = 0 THEN [t EXCEPT !.first[q] = c]
      ELSE [AppendSibling(t, c, t.first[q]) EXCEPT !.first[q] = c]

SpliceSibling(t, n, s) ==
  [t EXCEPT !.next[n] = s, !.next[s] = IF t.next[n] # 0 THEN t.next[n] ELSE @]

\* Mutant: the first child is left in its place.
DisconnectSiblingNotFirst(t, p, c) ==
  [t EXCEPT !.next = [n \in Nodes |-> IF n \in ToSet(Children(t, p)) /\ t.next[n] = c
                                       THEN t.next[c] ELSE t.next[n]]]

\* The node is taken out of the list; its own pointer is left as it is.
DisconnectSibling(t, p, c) ==
  LET before == SelectSeq(Children(t, p), LAMBDA b : t.next[b] = c)
  IN  [t EXCEPT !.first[p]    = IF @ = c THEN t.next[c] ELSE @,
                !.next        = IF t.first[p] = c THEN @ ELSE [@ EXCEPT ![before[1]] = t.next[c]],
                !.appender[p] = IF @ = c THEN 0 ELSE @]

\* The direct parent of c below p: p itself, else the first child that finds it.
RECURSIVE FindParentOfNode(_, _, _)
FindParentOfNode(t, p, c) ==
  IF c \in ToSet(Children(t, p)) THEN p
  ELSE FoldLeft(LAMBDA found, q : IF found # 0 THEN found ELSE FindParentOfNode(t, q, c),
                0, Children(t, p))

\* A set of nodes and all that is below them.
RECURSIVE Closure(_, _)
Closure(t, S) ==
  LET more == S \cup UNION {ToSet(Children(t, m)) : m \in S}
  IN  IF more = S THEN S ELSE Closure(t, more)

Below(t, n) == Closure(t, {n} \ {0})

-------------------------------------------------------------------------------
(* Calls *)

Init ==
  /\ kind = <<>> /\ root = 0 /\ identifierMapping = <<>> /\ disconnects = 0
  /\ tree = [first |-> [n \in Nodes |-> 0], next |-> [n \in Nodes |-> 0],
             appender |-> [n \in Nodes |-> 0]]

Managed(n) == n \in DOMAIN identifierMapping /\ identifierMapping[n] = n

\* RegisterNode accepts the next identifier only: nodes constructed without the
\* SystemModel make every later registration throw.
CanRegister(ids, n) == n = Len(ids) + 1

RegisterNode(ids, n) == IF CanRegister(ids, n) THEN Append(ids, n) ELSE ids

AppendReturns(t, p) ==
  /\ Ends(p, t.appender)
  /\ ListEnds(t, t.first[DeepestChildAppender(t, p)])

\* What CreateAccessInterface, CreateAccessInterfaceTranslator, CreateChain,
\* CreateLinker and CreateRegister make of a model.  The last two append first,
\* then register the node, and never set the root.  A failing registration throws.
Created(m, k, p) ==
  LET n      == Len(m.kind) + 1
      ok     == CanRegister(m.ids, n)
      early  == k \in {"Linker", "Register"}
      isRoot == ok /\ ~early /\ m.root = 0 /\ AutoRoot /\ (k = "Chain" \/ p = 0)
  IN  [kind |-> Append(m.kind, k),
       ids  |-> RegisterNode(m.ids, n),
       root |-> IF isRoot THEN n ELSE m.root,
       tree |-> IF p # 0 /\ (ok \/ early) THEN AppendChild(m.tree, p, n) ELSE m.tree]

Model == [kind |-> kind, ids |-> identifierMapping, root |-> root, tree |-> tree]

Becomes(m) ==
  kind' = m.kind /\ identifierMapping' = m.ids /\ root' = m.root /\ tree' = m.tree

Create(k, p) ==
  /\ Len(kind) < MaxNodes
  /\ p # 0 => AppendReturns(tree, p)
  /\ Becomes(Created(Model, k, p))
  /\ UNCHANGED disconnects

Outside == Cardinality({n \in Constructed : n \notin DOMAIN identifierMapping})

\* A node constructed without the SystemModel.
Construct(k) ==
  /\ Len(kind) < MaxNodes /\ Outside < MaxOutside
  /\ kind' = Append(kind, k)
  /\ UNCHANGED <<tree, root, identifierMapping, disconnects>>

IsAttached(n) == \E p \in Parents : n \in ToSet(Children(tree, p))

\* Callers attach nodes that are nowhere in the tree, with all the siblings that
\* the pointer of the first one leads to.
CanAttach(p, c) ==
  /\ ListEnds(tree, c)
  /\ \A n \in ToSet(Siblings(tree, c)) : ~IsAttached(n) /\ n # root /\ p \notin Below(tree, n)

Changes(t) == tree' = t /\ UNCHANGED <<kind, root, identifierMapping, disconnects>>

CallAppendChild(p, c) ==
  /\ AppendReturns(tree, p) /\ CanAttach(DeepestChildAppender(tree, p), c)
  /\ Changes(AppendChild(tree, p, c))

CallPrependChild(p, c) ==
  /\ AppendReturns(tree, p) /\ CanAttach(DeepestChildAppender(tree, p), c)
  /\ Changes(PrependChild(tree, p, c))

\* "SpliceSibling only splices a single node", when the node has a next sibling.
CallSpliceSibling(n, s) ==
  /\ tree.next[n] # 0 => tree.next[s] = 0
  /\ \E p \in Parents : n \in ToSet(Children(tree, p)) /\ CanAttach(p, s)
  /\ Changes(SpliceSibling(tree, n, s))

SetChildAppender(p, a) ==
  /\ Cardinality({n \in Constructed : tree.appender[n] # 0}) < MaxAppenders
  /\ Ends(a, [tree.appender EXCEPT ![p] = a])
  /\ Changes([tree EXCEPT !.appender[p] = a])

Disconnects == disconnects < MaxDisconnects /\ disconnects' = disconnects + 1

\* DisconnectChild, and DisconnectChannel with the position of the child.
DisconnectChild(p, c) ==
  /\ ListEnds(tree, tree.first[p]) /\ c \in ToSet(Children(tree, p))
  /\ tree' = DisconnectSibling(tree, p, c)
  /\ Disconnects /\ UNCHANGED <<kind, root, identifierMapping>>

DisconnectAllChildren(p) ==
  /\ tree' = [tree EXCEPT !.first[p] = 0]
  /\ Disconnects /\ UNCHANGED <<kind, root, identifierMapping>>

\* SystemModel::DisconnectNode; from is 0 for the root.
DisconnectNode(n, from) ==
  /\ Disconnects
  /\ IF n = root
     THEN root' = 0 /\ UNCHANGED tree
     ELSE LET start  == IF from = 0 THEN root ELSE from
              parent == FindParentOfNode(tree, start, n)
          IN  /\ start # 0
              /\ \A m \in Below(tree, start) :
                   ListEnds(tree, tree.first[m]) /\ m \notin Closure(tree, ToSet(Children(tree, m)))
              /\ parent # 0
              /\ tree' = DisconnectSibling(tree, parent, n)
              /\ UNCHANGED root
  /\ UNCHANGED <<kind, identifierMapping>>

\* The caller disconnects the node before ("it should not have a parent").
RemoveNodeFromModel(n) ==
  /\ Managed(n)
  /\ ~IsAttached(n) /\ n # root
  /\ identifierMapping' = [identifierMapping EXCEPT ![n] = 0]
  /\ Disconnects /\ UNCHANGED <<kind, tree, root>>

\* The caller keeps the model coherent: the new root is no child.
ReplaceRoot(n, remove) ==
  /\ ~IsAttached(n)
  /\ remove /\ root # 0 => Managed(root)
  /\ root' = n
  /\ identifierMapping' = IF remove /\ root # 0 THEN [identifierMapping EXCEPT ![root] = 0]
                          ELSE identifierMapping
  /\ Disconnects /\ UNCHANGED <<kind, tree>>

Next ==
  \/ \E k \in Kinds : Construct(k) \/ \E p \in Parents \cup {0} : Create(k, p)
  \/ \E p \in Parents, c \in Constructed :
       CallAppendChild(p, c) \/ CallPrependChild(p, c) \/ DisconnectChild(p, c)
  \/ \E n, s \in Constructed : CallSpliceSibling(n, s)
  \/ \E p, a \in Parents : SetChildAppender(p, a)
  \/ \E p \in Parents : DisconnectAllChildren(p)
  \/ \E n \in Constructed, from \in Parents \cup {0} : DisconnectNode(n, from)
  \/ \E n \in Constructed : RemoveNodeFromModel(n)
  \/ \E n \in Parents, remove \in BOOLEAN : ReplaceRoot(n, remove)

Spec == Init /\ [][Next]_vars

-------------------------------------------------------------------------------
(* Properties *)

NT == INSTANCE NodeTree WITH children <- [n \in Nodes |-> Children(tree, n)]

\* The linked lists implement sequences of children: every call attaches or
\* takes out the children it should, and leaves those of all other nodes alone.
ImplementsNodeTree == NT!Spec

\* No loop over siblings is endless.
ListsEnd == \A n \in Constructed : ListEnds(tree, n) /\ Ends(n, tree.appender)

\* SystemModel::DisconnectNode: the node can no longer be met by a traversal of
\* the tree, while its identifier is still valid (SystemModel.cpp:313).
DisconnectedIsGone ==
  [][\A n \in Constructed : \A from \in Parents \cup {0} : DisconnectNode(n, from) =>
       /\ n \notin Below(tree', root')
       /\ Managed(n) => identifierMapping'[n] = n]_vars
===============================================================================
