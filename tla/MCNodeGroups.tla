---------------------------- MODULE MCNodeGroups ----------------------------
(* Model-checking instance of NodeGroups.                                  *)
EXTENDS NodeGroups, TLC

\* Nodes are interchangeable, and so are values and the groups with no
\* special name.
Symmetry ==
    Permutations(Node) \cup Permutations(Value)
    \cup Permutations(Group \ {Everything})
=============================================================================
