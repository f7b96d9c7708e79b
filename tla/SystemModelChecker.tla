-------------------------- MODULE SystemModelChecker --------------------------
(***************************************************************************)
(* SystemModel::Check: the traversals of SystemModelChecker and of           *)
(* NamesChecker over whatever callers have made of the tree.  What they      *)
(* report is abstracted to the errors (no warnings and infos); the names are *)
(* taken to be different (NodePaths is about names), protocols to be         *)
(* the ones their nodes need.                                                *)
(***************************************************************************)
EXTENDS SystemModel

CONSTANTS
  SelectablePaths,       \* of the selector of a linker
  MaxSupportedChannels   \* of the protocol of an access interface

ASSUME CheckerAssumption == SelectablePaths \in Nat /\ MaxSupportedChannels \in Nat

\* A traversal that takes more nested steps than this does not end: a node is met
\* a second time only where it was appended twice.
MaxSteps == 3 * MaxNodes

-------------------------------------------------------------------------------
(* SystemModelChecker *)

\* A traversal under way: errors reported, parents collected, and whether it
\* still runs, has thrown or will not end.
Start == [errors |-> {}, parent |-> [n \in Nodes |-> 0], fate |-> "running"]

ReportError(s, what, n) == [s EXCEPT !.errors = @ \cup {<<what, n>>}]

ErrorWhen(condition, s, what, n) == IF condition THEN ReportError(s, what, n) ELSE s

\* DirectChildrenCount throws on a list that does not end.
Throws(s) == [s EXCEPT !.fate = "throws"]

CountEnds(n) == ListEnds(tree, tree.first[n])

CheckNumberOfChannels(s, n) ==
  IF ~CountEnds(n) THEN Throws(s)
  ELSE ErrorWhen(Len(Children(tree, n)) >= MaxSupportedChannels, s, "channels", n)

Interfaces == {"AccessInterface", "AccessInterfaceTranslator"}

HeadsInterface(n) == tree.first[n] # 0 /\ kind[tree.first[n]] \in Interfaces

\* VisitLinker and VisitAccessInterfaceTranslator, which looks at the first child
\* only; the visits of the other kinds report no errors.
Visit(s, n) ==
  CASE kind[n] = "Linker" ->
         IF ~CountEnds(n) THEN Throws(s)
         ELSE ErrorWhen(Len(Children(tree, n)) > SelectablePaths, s, "paths", n)
    [] kind[n] = "AccessInterfaceTranslator" -> ErrorWhen(~HeadsInterface(n), s, "translator", n)
    [] OTHER -> s

\* Mutant: children are not compared with those seen before.
CheckedOnceAlways(s, p, c) == TRUE

\* CheckChildNode, for a child managed by the SystemModel: not seen before.
CheckedOnce(s, p, c) == s.parent[c] = 0

\* CheckParentNode: the siblings from n on, below p.
RECURSIVE CheckSiblings(_, _, _, _)
CheckSiblings(s, p, n, steps) ==
  CASE s.fate # "running" \/ n = 0 -> s
    [] s.fate = "running" /\ n # 0 /\ steps = 0 -> [s EXCEPT !.fate = "endless"]
    [] OTHER ->
         IF n = p THEN CheckSiblings(ReportError(s, "itself", n), p, tree.next[n], steps - 1)
         ELSE IF Managed(n) /\ ~CheckedOnce(s, p, n) THEN ReportError(s, "twice", n)
         ELSE LET collected == IF Managed(n) THEN [s EXCEPT !.parent[n] = p]
                               ELSE ReportError(s, "unmanaged", n)
                  below == CheckSiblings(Visit(collected, n), n, tree.first[n], steps - 1)
              IN  CheckSiblings(below, p, tree.next[n], steps - 1)

CheckParentNode(s, p) == CheckSiblings(s, p, tree.first[p], MaxSteps)

\* A root that is a chain has access interfaces as its children; the loop over
\* them has no end when their list has none.
CheckAccessInterface(s) ==
  LET children   == Children(tree, root)
      interfaces == SelectSeq(children, LAMBDA c : kind[c] = "AccessInterface")
      others     == {c \in ToSet(children) : kind[c] \notin Interfaces}
      checked    == FoldLeft(LAMBDA t, c : IF t.fate = "throws" THEN t ELSE CheckNumberOfChannels(t, c),
                             [s EXCEPT !.errors = @ \cup {<<"no interface", c>> : c \in others}], interfaces)
  IN  CASE kind[root] = "AccessInterface" -> CheckNumberOfChannels(s, root)
        [] kind[root] = "AccessInterfaceTranslator" -> s
        [] kind[root] = "Chain" ->
             IF checked.fate = "throws" THEN checked
             ELSE IF ~CountEnds(root) THEN [checked EXCEPT !.fate = "endless"]
             ELSE ErrorWhen(others = ToSet(children), checked, "no interfaces", root)
        [] OTHER -> ReportError(s, "root", root)

\* Mutant: nodes that were not seen are not reported.
CheckReachableNot(s) == s

\* The loop at the end of CheckTree.
CheckReachable(s) ==
  [s EXCEPT !.errors = @ \cup
     {<<"not seen", n>> : n \in {m \in Constructed : Managed(m) /\ m # root /\ s.parent[m] = 0}}]

\* Every step is taken by a traversal that still runs only.
CheckTree ==
  LET empty      == ErrorWhen(identifierMapping = <<>>, Start, "no mapping", root)
      visited    == Visit(empty, root)
      interfaces == IF visited.fate = "running" THEN CheckAccessInterface(visited) ELSE visited
      traversed  == IF interfaces.fate = "running" THEN CheckParentNode(interfaces, root) ELSE interfaces
  IN  IF root = 0 THEN Start
      ELSE IF traversed.fate = "running" THEN CheckReachable(traversed) ELSE traversed

-------------------------------------------------------------------------------
(* NamesChecker *)

\* CheckParentNode of NamesChecker: p, then the siblings of its first child n.
\* Only the first child of a list is recorded as processed.
RECURSIVE NamesSiblings(_, _, _)
NamesSiblings(s, n, steps) ==
  IF s.fate # "running" \/ n = 0 THEN s
  ELSE IF steps = 0 THEN [s EXCEPT !.fate = "endless"]
  ELSE LET first   == tree.first[n]
           below   == IF first = 0 \/ first \in s.processed THEN s
                      ELSE NamesSiblings([s EXCEPT !.processed = @ \cup {first}], first, steps - 1)
       IN  NamesSiblings(below, tree.next[n], steps - 1)

NamesCheck ==
  LET first == IF root = 0 THEN 0 ELSE tree.first[root]
  IN  NamesSiblings([processed |-> {first}, fate |-> "running"], first, MaxSteps)

Check ==
  IF CheckTree.fate # "running" THEN CheckTree ELSE [CheckTree EXCEPT !.fate = NamesCheck.fate]

-------------------------------------------------------------------------------
(* Properties *)

Reachable == Below(tree, root)

\* "Each node has one and only one parent (except root that has no parent)",
\* "Each child is only appended once in its parent".
IsTree ==
  LET places == {<<p, i>> \in Reachable \X Nodes : i <= Len(Children(tree, p))}
      placed(n) == {pl \in places : Children(tree, pl[1])[pl[2]] = n}
  IN  /\ \A p \in Reachable : CountEnds(p)
      /\ \A n \in Reachable : Cardinality(placed(n)) = IF n = root THEN 0 ELSE 1

Respected ==
  LET top    == ToSet(Children(tree, root))
      inters == {n \in {root} \cup top : kind[n] = "AccessInterface"}
  IN  /\ {n \in Constructed : Managed(n)} \subseteq Reachable
      /\ \A n \in Reachable \ {root} : Managed(n)
      /\ identifierMapping # <<>>
      /\ \A n \in Reachable : kind[n] = "Linker" => Len(Children(tree, n)) <= SelectablePaths
      /\ \A n \in inters : (n = root \/ kind[root] = "Chain") =>
                             Len(Children(tree, n)) < MaxSupportedChannels
      /\ \A n \in Reachable : kind[n] = "AccessInterfaceTranslator" => HeadsInterface(n)
      /\ \/ kind[root] \in Interfaces
         \/ kind[root] = "Chain" /\ top # {} /\ \A n \in top : kind[n] \in Interfaces

\* When Check returns, it has reported errors exactly if the model breaks one of
\* the rules it documents (SystemModel.hpp:41): a node with two parents or none,
\* a child appended twice, a dangling node, too many children.
VerdictRight == root # 0 /\ Check.fate = "running" => (Check.errors = {} <=> IsTree /\ Respected)

\* The guard of CheckParentNode against endless loops works whenever every node
\* is managed and none is its own next sibling; the one of NamesChecker whenever
\* the lists of children end.
TraversalsEnd == root # 0 =>
  /\ (\A n \in Reachable : Managed(n) /\ tree.next[n] # n)
       => CheckParentNode(Start, root).fate # "endless"
  /\ (\A n \in Reachable : CountEnds(n)) => NamesCheck.fate # "endless"
===============================================================================
