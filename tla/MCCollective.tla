---------------------------- MODULE MCCollective ----------------------------
(* Model-checking instances of Collective.                                 *)
EXTENDS Collective

Of(a, b, c) == [m \in Member |-> CASE m = 1 -> a [] m = 2 -> b [] OTHER -> c]

\* 1 leads 2, and 3 comes back with a transaction more; 1 and 3 are
\* interrupted up to twice, and 2 starts anew once.
Ahead == [up |-> {1, 2, 3}, saved |-> Of(0, 0, 1), leader |-> 1, joined |-> {2},
          budget |-> [starts |-> Of(0, 1, 0), faults |-> Of(2, 0, 2),
                      wakes |-> 1, changes |-> 1]]

\* 1 leads 2, and 3 is away; 1 starts anew once and 2 twice, and 2 is
\* interrupted up to twice.
Away == [up |-> {1, 2}, saved |-> Of(0, 0, 0), leader |-> 1, joined |-> {2},
         budget |-> [starts |-> Of(1, 2, 0), faults |-> Of(0, 2, 0),
                     wakes |-> 1, changes |-> 1]]

AheadOrAway == {Ahead, Away}
OnlyAway == {Away}
=============================================================================
