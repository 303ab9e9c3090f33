----------------------------- MODULE MCNodeIndex ----------------------------
(* Model-checking instance of NodeIndex.                                   *)
EXTENDS NodeIndex, TLC

\* The members are interchangeable; the nodes are not, because they are
\* numbered in a fixed order.
Symmetry == Permutations(Member)
=============================================================================
