------------------------------ MODULE NodePaths ------------------------------
(***************************************************************************)
(* Nodes and registers are named by paths: ParentNode::FindNode and          *)
(* FindRegister search them, NamesChecker tells whether names are ambiguous. *)
(*                                                                         *)
(* A path is a sequence of names ("." is the empty one).  A node that is     *)
(* ignored for paths has no name in them.  The tree is built in the order of *)
(* a depth first traversal, which leads to every tree.                       *)
(***************************************************************************)
EXTENDS Naturals, Sequences, FiniteSets, SequencesExt, FiniteSetsExt

CONSTANTS
  Names, NoName,   \* names of nodes; NoName stands for "unnamed"
  MaxNodes,        \* bound: nodes of the tree and aliases, together
  MaxPath,         \* bound: names in a path
  MaxAliases       \* bound: aliases, over the whole tree

ASSUME PathsAssumption == NoName \in Names /\ {MaxNodes, MaxPath, MaxAliases} \subseteq Nat

Sorts == {"register", "parent", "ignored"}

\* "." is the empty path.
Paths == UNION {[1 .. k -> Names] : k \in 0 .. MaxPath}

VARIABLES
  nodes,      \* the nodes by number: name, sort, parent; node 1 is the root
  alias       \* the aliases: <<node, name>>

vars == <<nodes, alias>>

-------------------------------------------------------------------------------
(* Search, in a tree t of such nodes, with aliases *)

IsParent(t, n)  == t[n].sort # "register"
IsIgnored(t, n) == t[n].sort = "ignored"
Parents         == {n \in DOMAIN nodes : IsParent(nodes, n)}

\* The children of p in their order: nodes are numbered depth first.
Children(t, p) == SelectSeq([n \in DOMAIN t |-> n], LAMBDA n : t[n].parent = p)

Ignored(t, p) == SelectSeq(Children(t, p), LAMBDA c : IsIgnored(t, c))

\* An alias found: a (virtual) register that is no node.
AliasOf(p) == MaxNodes + p

\* Mutant: the nodes saved on the way to a partial match are kept.
PartialMatchKeeps(queue, c) == Tail(queue) \o <<c>>

\* A node matches a part of the path: what was saved before is forgotten.
PartialMatch(queue, c) == <<c>>

\* The search loop of FindNode: the nodes still to process, and the path left.
FindFrom(t, start, whole) ==
  LET Search[queue \in Seq(DOMAIN t), path \in Seq(Names)] ==
        IF queue = <<>> THEN 0
        ELSE LET p       == Head(queue)
                 matches == SelectSeq(Children(t, p),
                                      LAMBDA c : ~IsIgnored(t, c) /\ t[c].name = Head(path))
                 c       == Head(matches)
             IN  IF matches = <<>> THEN Search[Tail(queue) \o Ignored(t, p), path]
                 ELSE IF Len(path) = 1 THEN c
                 ELSE IF ~IsParent(t, c) THEN 0
                 ELSE Search[PartialMatch(queue, c), Tail(path)]
  IN  Search[start, whole]

FindNode(t, p, path) == IF path = <<>> THEN p ELSE FindFrom(t, <<p>>, path)

DirectRegisters(t, p, name) ==
  SelectSeq(Children(t, p), LAMBDA c : ~IsParent(t, c) /\ t[c].name = name)

\* Mutant: the nodes that are ignored in paths are not searched.
FindRegisterChildDirect(t, aliases, p, name) ==
  LET direct == DirectRegisters(t, p, name)
  IN  IF <<p, name>> \in aliases THEN AliasOf(p) ELSE IF direct = <<>> THEN 0 ELSE Head(direct)

\* An alias, else a direct child, else one below a child ignored in paths.
FindRegisterChildByName(t, aliases, p, name) ==
  LET Find[q \in DOMAIN t] ==
        LET direct == DirectRegisters(t, q, name)
            below  == [i \in DOMAIN Ignored(t, q) |-> Find[Ignored(t, q)[i]]]
            found  == SelectSeq(below, LAMBDA r : r # 0)
        IN  CASE <<q, name>> \in aliases -> AliasOf(q)
              [] <<q, name>> \notin aliases /\ direct # <<>> -> Head(direct)
              [] OTHER -> IF found = <<>> THEN 0 ELSE Head(found)
  IN  Find[p]

FindRegister(t, aliases, p, path) ==
  LET parent == FindNode(t, p, Front(path))
  IN  IF parent = 0 \/ ~IsParent(t, parent) THEN 0
      ELSE FindRegisterChildByName(t, aliases, parent, Last(path))

-------------------------------------------------------------------------------
(* NamesChecker *)

\* The names on the way from the node to n, ignored nodes left out.
LogicalPath(p, n) ==
  LET From[m \in DOMAIN nodes] ==
        IF m = p THEN <<>>
        ELSE From[nodes[m].parent] \o IF IsIgnored(nodes, m) THEN <<>> ELSE <<nodes[m].name>>
  IN  From[n]

\* CheckSiblingName: an earlier sibling, neither of them ignored.
SiblingError(c) ==
  /\ nodes[c].name # NoName /\ ~IsIgnored(nodes, c)
  /\ \E b \in DOMAIN nodes : /\ nodes[b].parent = nodes[c].parent /\ b < c
                             /\ ~IsIgnored(nodes, b) /\ nodes[b].name = nodes[c].name

\* Mutant: the paths of the leaves are not compared.
LeafErrorNever(c) == FALSE

\* A leaf has the path of a leaf met before.
LeafError(c) ==
  /\ ~IsParent(nodes, c) /\ ~SiblingError(c)
  /\ \E b \in DOMAIN nodes :
       b < c /\ ~IsParent(nodes, b) /\ LogicalPath(1, b) = LogicalPath(1, c)

\* The nodes NamesChecker reports an error for.
NamesErrors == {c \in DOMAIN nodes \ {1} : SiblingError(c) \/ LeafError(c)}

-------------------------------------------------------------------------------
(* Building the tree *)

Init == nodes = <<[name |-> NoName, sort |-> "parent", parent |-> 0]>> /\ alias = {}

\* The node and the nodes above it.
Ancestors(n) ==
  LET Up[m \in 0 .. Len(nodes)] == IF m = 0 THEN {} ELSE {m} \cup Up[nodes[m].parent]
  IN  Up[n]

\* A node is appended to one that is still open in a depth first order; the name
\* of an ignored node does not matter.
Create(name, sort, p) ==
  /\ Len(nodes) + Cardinality(alias) < MaxNodes /\ p \in Ancestors(Len(nodes))
  /\ sort = "ignored" => name = NoName
  /\ nodes' = Append(nodes, [name |-> name, sort |-> sort, parent |-> p])
  /\ UNCHANGED alias

\* An alias has a name, or its construction throws; so does a second one with
\* the same name.  One alias of a node is followed.
AddAlias(p, name) ==
  /\ name # NoName
  /\ Len(nodes) + Cardinality(alias) < MaxNodes
  /\ Cardinality(alias) < MaxAliases /\ \A a \in alias : a[1] # p
  /\ alias' = alias \cup {<<p, name>>}
  /\ UNCHANGED nodes

Next ==
  \E name \in Names, p \in Parents :
    AddAlias(p, name) \/ \E sort \in Sorts : Create(name, sort, p)

Spec == Init /\ [][Next]_vars

-------------------------------------------------------------------------------
(* Properties *)

Beneath(p) == {n \in DOMAIN nodes : p \in Ancestors(n)} \ {p}

\* The path of each node of the sub-tree, seen from p.
PathsFrom(p) == [n \in Beneath(p) \cup {p} |-> LogicalPath(p, n)]

\* What has a path, in a sub-tree with the paths at: nodes, and registers with
\* the aliases.
Named(at, path) == {n \in DOMAIN at : path # <<>> /\ ~IsIgnored(nodes, n) /\ at[n] = path}

Registers(at, path) ==
  {n \in Named(at, path) : ~IsParent(nodes, n)}
    \cup {AliasOf(a[1]) : a \in {b \in alias : b[1] \in DOMAIN at /\ Append(at[b[1]], b[2]) = path}}

Unambiguous(at, path) == \A k \in 1 .. Len(path) : Cardinality(Named(at, SubSeq(path, 1, k))) = 1

\* FindNode finds only a node that has the path, through whatever nodes are
\* ignored on the way, and finds it when no other node has it or a part of it.
FindNodeRight ==
  \A p \in Parents : LET at == PathsFrom(p) IN
    \A path \in Paths \ {<<>>} :
      LET found == FindNode(nodes, p, path)
      IN  IF found # 0 THEN found \in Named(at, path) ELSE ~Unambiguous(at, path)

\* FindRegister finds only a register or an alias that has the path, and finds
\* one when there is one and no part of the path is ambiguous.
FindRegisterRight ==
  \A p \in Parents : LET at == PathsFrom(p) IN
    \A path \in Paths \ {<<>>} :
      LET found == FindRegister(nodes, alias, p, path)
      IN  IF found # 0 THEN found \in Registers(at, path)
          ELSE Registers(at, path) = {} \/ ~Unambiguous(at, Front(path))

\* The node a register or an alias of q is looked for in: the closest one above
\* that has a name in paths.
Owner(q) == Max({n \in Ancestors(q) : ~IsIgnored(nodes, n)})

\* The nodes with an alias that FindRegister meets before the register that has
\* its name: the parent of the register, and what it searches before that one.
Hiding(register) ==
  LET parent == nodes[register].parent
  IN  {q \in 1 .. parent :
         <<q, nodes[register].name>> \in alias /\ Owner(q) = Owner(parent)}

\* When NamesChecker has no objection and a path leads to a register, iGetStatus,
\* which looks for a node (breadth first), and iRead and iWrite, which look for a
\* register (depth first), deal with the same one, unless an alias with its name
\* is in the way.  NamesChecker does not look at aliases: then iRead and iWrite go
\* to the first such alias, and iGetStatus tells the status of the register.
SearchesAgree == NamesErrors = {} =>
  \A path \in Paths \ {<<>>} :
    LET node  == FindNode(nodes, 1, path)
        found == FindRegister(nodes, alias, 1, path)
    IN  node # 0 /\ ~IsParent(nodes, node) =>
          found = IF Hiding(node) = {} THEN node ELSE AliasOf(Min(Hiding(node)))
===============================================================================
