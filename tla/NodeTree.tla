------------------------------- MODULE NodeTree -------------------------------
(***************************************************************************)
(* What the tree of the system model is to its users: every parent node has  *)
(* a sequence of children, and no node is a child twice or below itself.     *)
(* SystemModel implements it with pointers.                                  *)
(***************************************************************************)
EXTENDS Naturals, Sequences, FiniteSets, SequencesExt

CONSTANT Nodes

VARIABLE children      \* the children of every node, in order

Init == children = [n \in Nodes |-> <<>>]

Attached == UNION {ToSet(children[p]) : p \in Nodes}

\* A set of nodes and what is below them.
RECURSIVE Closure(_)
Closure(S) == LET more == S \cup UNION {ToSet(children[m]) : m \in S}
              IN  IF more = S THEN S ELSE Closure(more)

\* Nodes that are nowhere in the tree become children of p, next to each other.
Attach(p) ==
  \E i \in 0 .. Len(children[p]) : \E k \in 1 .. Len(children'[p]) - i :
    LET list == SubSeq(children'[p], i + 1, i + k)
    IN  /\ IsInjective(list)
        /\ ToSet(list) \cap Attached = {}
        /\ \A n \in ToSet(list) : p \notin Closure({n})
        /\ children' = [children EXCEPT ![p] =
                          SubSeq(@, 1, i) \o list \o SubSeq(@, i + 1, Len(@))]

Detach(p) ==
  \/ \E i \in DOMAIN children[p] : children' = [children EXCEPT ![p] = RemoveAt(@, i)]
  \/ children' = [children EXCEPT ![p] = <<>>]

Next == \E p \in Nodes : Attach(p) \/ Detach(p)

Spec == Init /\ [][Next]_children
===============================================================================
