--------------------------- MODULE NodePathResolver ---------------------------
(***************************************************************************)
(* The resolver of an application caches the nodes and registers its paths   *)
(* stand for; iPrefix changes the node they start from.  The tree is built   *)
(* before the resolver is made.                                              *)
(***************************************************************************)
EXTENDS NodePaths

CONSTANTS
  MaxCached,     \* bound: paths in each cache
  MaxResolved    \* bound: nodes of a tree with a resolver

ASSUME ResolverAssumption == MaxCached \in Nat /\ MaxResolved \in Nat

VARIABLE resolver    \* m_referenceNode, m_prefixNode, m_nodesCache, m_registersCache;
                     \* <<>> while the tree is being built

allVars == <<vars, resolver>>

Building == resolver = <<>>

NoEntries == [p \in {} |-> 0]

ResolverInit == Init /\ resolver = <<>>

\* The resolver of an application, or of a manager that has no root yet (0).
NewResolver(top) ==
  /\ Building /\ Len(nodes) <= MaxResolved
  /\ resolver' = [reference |-> top, prefix |-> top, nodes |-> NoEntries, registers |-> NoEntries]
  /\ UNCHANGED vars

\* PathResolver of the manager sets the reference when there is none.
ReferenceNode ==
  /\ ~Building /\ resolver.reference = 0
  /\ resolver' = [resolver EXCEPT !.reference = 1, !.prefix = 1]
  /\ UNCHANGED vars

\* Mutant: the caches are kept.
ClearedNot(r) == r

Cleared(r) == [r EXCEPT !.nodes = NoEntries, !.registers = NoEntries]

\* The caches are cleared even if the prefix turns out not to be valid.
SetPrefix(path) ==
  /\ ~Building
  /\ LET found == IF path = <<>> \/ resolver.reference = 0 THEN resolver.reference
                  ELSE FindNode(nodes, resolver.reference, path)
         valid == found # 0 /\ IsParent(nodes, found)
     IN  resolver' = IF path = <<>> \/ (resolver.reference # 0 /\ valid)
                     THEN [Cleared(resolver) EXCEPT !.prefix = found] ELSE Cleared(resolver)
  /\ UNCHANGED vars

WithEntry(cache, path, n) ==
  [p \in DOMAIN cache \cup {path} |-> IF p = path THEN n ELSE cache[p]]

\* Caches are updated with what is found only.
Resolve(path) ==
  /\ ~Building /\ resolver.prefix # 0
  /\ path \notin DOMAIN resolver.nodes /\ Cardinality(DOMAIN resolver.nodes) < MaxCached
  /\ LET found == FindNode(nodes, resolver.prefix, path)
     IN  found # 0 /\ resolver' = [resolver EXCEPT !.nodes = WithEntry(@, path, found)]
  /\ UNCHANGED vars

TryResolveAsRegister(path) ==
  /\ ~Building /\ resolver.prefix # 0
  /\ path \notin DOMAIN resolver.registers /\ Cardinality(DOMAIN resolver.registers) < MaxCached
  /\ LET found == FindRegister(nodes, alias, resolver.prefix, path)
     IN  found # 0 /\ resolver' = [resolver EXCEPT !.registers = WithEntry(@, path, found)]
  /\ UNCHANGED vars

Build == Building /\ Next /\ UNCHANGED resolver

ResolverNext ==
  \/ Build
  \/ \E top \in Parents \cup {0} : NewResolver(top)
  \/ ReferenceNode
  \/ \E path \in Paths : SetPrefix(path) \/ Resolve(path)
  \/ \E path \in Paths \ {<<>>} : TryResolveAsRegister(path)

ResolverSpec == ResolverInit /\ [][ResolverNext]_allVars

-------------------------------------------------------------------------------
(* Properties *)

\* What the caches hold is what a search from the current prefix would find:
\* iPrefix and a late reference node never leave entries of another one behind.
CachesFresh == ~Building =>
  /\ \A path \in DOMAIN resolver.nodes :
       resolver.nodes[path] = FindNode(nodes, resolver.prefix, path)
  /\ \A path \in DOMAIN resolver.registers :
       resolver.registers[path] = FindRegister(nodes, alias, resolver.prefix, path)
===============================================================================
