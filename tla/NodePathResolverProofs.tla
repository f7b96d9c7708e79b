------------------------ MODULE NodePathResolverProofs ------------------------
(***************************************************************************)
(* The caches of a resolver are never stale, for every tree, any number of   *)
(* cached paths and any order of calls.  What the searches find does not     *)
(* matter here, only that they depend on nothing but the tree, the node to   *)
(* start from and the path.                                                  *)
(***************************************************************************)
EXTENDS NodePathResolver, TLAPS

\* The members of a resolver.
Fields == {"reference", "prefix", "nodes", "registers"}

\* A resolver without reference node has no prefix either, and has not found
\* anything: Resolve and TryResolveAsRegister need a prefix.
NothingFoundYet ==
  resolver.reference = 0 =>
    /\ resolver.prefix = 0
    /\ DOMAIN resolver.nodes = {} /\ DOMAIN resolver.registers = {}

\* The inductive invariant.
ResolverInv ==
  /\ ~Building => DOMAIN resolver = Fields /\ NothingFoundYet
  /\ CachesFresh

\* A resolver that has just been made or emptied remembers nothing.
LEMMA Emptied ==
  ASSUME NEW r, DOMAIN r = Fields
  PROVE  /\ DOMAIN Cleared(r) = Fields
         /\ Cleared(r).reference = r.reference /\ Cleared(r).prefix = r.prefix
         /\ DOMAIN Cleared(r).nodes = {} /\ DOMAIN Cleared(r).registers = {}
BY DEF Cleared, Fields, NoEntries

\* Every call, and every step of the building of the tree, keeps the invariant.
LEMMA NextResolverInv == ResolverInv /\ [ResolverNext]_allVars => ResolverInv'
<1> SUFFICES ASSUME ResolverInv, [ResolverNext]_allVars PROVE ResolverInv'
  OBVIOUS
<1>1. CASE Build
  BY <1>1 DEF Build, Building, ResolverInv, CachesFresh
<1>2. ASSUME NEW top, NewResolver(top) PROVE ResolverInv'
  BY <1>2 DEF NewResolver, ResolverInv, NothingFoundYet, CachesFresh, NoEntries, Fields
<1>3. CASE ReferenceNode
  BY <1>3 DEF ReferenceNode, ResolverInv, NothingFoundYet, CachesFresh, Building, Fields
<1>4. ASSUME NEW path \in Paths, SetPrefix(path) PROVE ResolverInv'
  <2>1. DOMAIN resolver = Fields /\ NothingFoundYet
    BY <1>4 DEF SetPrefix, ResolverInv
  <2>2. PICK found :
          /\ path = <<>> => found = resolver.reference
          /\ \/ resolver' = Cleared(resolver)
             \/ /\ resolver' = [Cleared(resolver) EXCEPT !.prefix = found]
                /\ path = <<>> \/ resolver.reference # 0
    BY <1>4 DEF SetPrefix
  <2>3. /\ DOMAIN resolver' = Fields /\ resolver'.reference = resolver.reference
        /\ DOMAIN resolver'.nodes = {} /\ DOMAIN resolver'.registers = {}
        /\ resolver.reference = 0 => resolver'.prefix = 0
    BY <2>1, <2>2, Emptied DEF Fields, NothingFoundYet
  <2> QED
    BY <2>3 DEF ResolverInv, NothingFoundYet, CachesFresh
<1>5. ASSUME NEW path \in Paths, Resolve(path) PROVE ResolverInv'
  <2> DEFINE found == FindNode(nodes, resolver.prefix, path)
             more  == WithEntry(resolver.nodes, path, found)
  <2>1. DOMAIN resolver = Fields /\ NothingFoundYet /\ CachesFresh /\ ~Building
    BY <1>5 DEF Resolve, ResolverInv
  <2>2. resolver' = [resolver EXCEPT !.nodes = more] /\ resolver.prefix # 0 /\ UNCHANGED vars
    BY <1>5 DEF Resolve
  <2>3. /\ DOMAIN more = DOMAIN resolver.nodes \cup {path} /\ more[path] = found
        /\ \A q \in DOMAIN resolver.nodes : q # path => more[q] = resolver.nodes[q]
    BY DEF WithEntry
  <2> HIDE DEF more
  <2> QED
    BY <2>1, <2>2, <2>3 DEF ResolverInv, NothingFoundYet, CachesFresh, vars, Fields
<1>6. ASSUME NEW path \in Paths, TryResolveAsRegister(path) PROVE ResolverInv'
  <2> DEFINE found == FindRegister(nodes, alias, resolver.prefix, path)
             more  == WithEntry(resolver.registers, path, found)
  <2>1. DOMAIN resolver = Fields /\ NothingFoundYet /\ CachesFresh /\ ~Building
    BY <1>6 DEF TryResolveAsRegister, ResolverInv
  <2>2. /\ resolver' = [resolver EXCEPT !.registers = more] /\ resolver.prefix # 0
        /\ UNCHANGED vars
    BY <1>6 DEF TryResolveAsRegister
  <2>3. /\ DOMAIN more = DOMAIN resolver.registers \cup {path} /\ more[path] = found
        /\ \A q \in DOMAIN resolver.registers : q # path => more[q] = resolver.registers[q]
    BY DEF WithEntry
  <2> HIDE DEF more
  <2> QED
    BY <2>1, <2>2, <2>3 DEF ResolverInv, NothingFoundYet, CachesFresh, vars, Fields
<1>7. CASE UNCHANGED allVars
  BY <1>7 DEF allVars, vars, ResolverInv, NothingFoundYet, CachesFresh, Building
<1> QED
  BY <1>1, <1>2, <1>3, <1>4, <1>5, <1>6, <1>7 DEF ResolverNext

\* What Resolve and TryResolveAsRegister answer from their caches is what a
\* search from the current prefix would find, whatever iPrefix calls, valid or
\* not, and whatever late reference node came in between.
THEOREM ResolverCachesFresh == ResolverSpec => []CachesFresh
<1>1. ResolverInit => ResolverInv
  BY DEF ResolverInit, ResolverInv, CachesFresh, Building
<1>2. ResolverInv => CachesFresh
  BY DEF ResolverInv
<1> QED
  BY <1>1, <1>2, NextResolverInv, PTL DEF ResolverSpec
===============================================================================
