----------------------------- MODULE NodeIndex ------------------------------
(***************************************************************************)
(* The numeric index (id.index) that every node is given: the globals      *)
(* max_node_index and free_node_indexes, the helpers on the list of free   *)
(* indexes, and what the creation and the deletion of a node and the       *)
(* bootstrap of a collective member make of them.                          *)
(*                                                                         *)
(* Every member of the collective runs the allocator on its own globals    *)
(* when it applies a replicated change; these are applied in the same      *)
(* order everywhere (Replication) and are one action here.                 *)
(***************************************************************************)
EXTENDS Integers, FiniteSets, Sequences, SequencesExt

CONSTANTS Member,   \* members of the collective
          Node,
          Reserve,  \* freed indexes that are left unused (128 in the code)
          MaxJoin,  \* bound on the members that connect
          MaxMade   \* bound on the nodes created after one has connected

ASSUME ReserveAssumption == Reserve \in Nat \ {0}
ASSUME MemberAssumption == Member # {} /\ IsFiniteSet(Node) /\ MaxJoin \in Nat
ASSUME BoundAssumption == MaxMade \in Nat

VARIABLES
    nodes,    \* the nodes in the database of a member
    idx,      \* the attribute id.index of a node, 0 if it has none
    maxidx,   \* the global max_node_index, 0 if it is not set
    free,     \* the global free_node_indexes: <<i>> is the number i and
              \* <<i, j>> the range [i, j]
    joined,   \* the members that apply the changes
    joins, made  \* counted for the bounds

vars == <<nodes, idx, maxidx, free, joined, joins, made>>

-----------------------------------------------------------------------------
(* The list of free indexes.                                               *)

Span(r) == r[1] .. r[Len(r)]
CountFree(list) ==
    LET count[k \in 0 .. Len(list)] ==
            IF k = 0 THEN 0 ELSE count[k - 1] + Cardinality(Span(list[k]))
    IN  count[Len(list)]
IsFree(list, i) == \E k \in DOMAIN list : i \in Span(list[k])

\* What is left of an entry without one of its indexes.
Without(r, i) ==
    LET lo == r[1]
        hi == r[Len(r)]
    IN  CASE lo = hi -> <<>>
          [] lo # hi /\ lo = i -> <<<<lo + 1, hi>>>>
          [] lo # i /\ hi = i -> <<<<lo, hi - 1>>>>
          [] OTHER -> <<<<lo, i - 1>>, <<i + 1, hi>>>>

\* _remove_free_index: from the first entry that holds it.
RemoveFree(list, i) ==
    LET k == Min({j \in DOMAIN list : i \in Span(list[j])})
    IN  SubSeq(list, 1, k - 1) \o Without(list[k], i)
            \o SubSeq(list, k + 1, Len(list))

\* The loop of _true_del_nodes that lowers max_node_index over free indexes.
Lower(max, list) ==
    LET after[k \in 0 .. max] ==
            IF k = 0 THEN [max |-> max, free |-> list]
            ELSE LET s == after[k - 1]
                 IN  IF IsFree(s.free, s.max - 1)
                     THEN [max |-> s.max - 1,
                           free |-> RemoveFree(s.free, s.max - 1)]
                     ELSE s
    IN  after[max]

\* Mutants of Freed: max_node_index is lowered by one only; an entry off by
\* one is recorded.
FreedLowersOnce(max, list, i) ==
    IF i = max - 1 THEN [max |-> max - 1, free |-> list]
    ELSE [max |-> max, free |-> Append(list, <<i>>)]
FreedOffByOne(max, list, i) ==
    IF i = max - 1 THEN Lower(max - 1, list)
    ELSE [max |-> max, free |-> Append(list, <<i - 1>>)]

\* What the deletion of the node with index i makes of the two globals.
Freed(max, list, i) ==
    IF i = 0 THEN [max |-> max, free |-> list]
    ELSE IF i = max - 1 THEN Lower(max - 1, list)
    ELSE [max |-> max,
          free |-> IF list # <<>> /\ i = Last(list)[Len(Last(list))] + 1
                   THEN Append(Front(list), <<Last(list)[1], i>>)
                   ELSE Append(list, <<i>>)]

\* Mutant of Allocated: the index that is reused stays in the list.
AllocatedStaysFree(max, list) ==
    IF CountFree(list) > Reserve
    THEN [idx |-> Head(list)[1], max |-> max, free |-> list]
    ELSE LET i == IF max = 0 THEN 1 ELSE max
         IN  [idx |-> i, max |-> i + 1, free |-> list]

\* What the creation of a node takes from them: the first free index once
\* more than Reserve have accumulated, the next new one otherwise.
Allocated(max, list) ==
    IF CountFree(list) > Reserve
    THEN LET r == Head(list)
             rest == CASE Len(r) = 1 -> Tail(list)
                       [] Len(r) = 2 /\ r[1] + 1 = r[2] ->
                              <<<<r[2]>>>> \o Tail(list)
                       [] OTHER -> <<<<r[1] + 1, r[2]>>>> \o Tail(list)
         IN  [idx |-> r[1], max |-> max, free |-> rest]
    ELSE LET i == IF max = 0 THEN 1 ELSE max
         IN  [idx |-> i, max |-> i + 1, free |-> list]

-----------------------------------------------------------------------------

\* An installation is new, or was upgraded from before there were indexes.
Init ==
    /\ nodes \in [Member -> SUBSET Node]
    /\ idx = [m \in Member |-> [n \in Node |-> 0]]
    /\ maxidx = [m \in Member |-> 0] /\ free = [m \in Member |-> <<>>]
    /\ \E m \in Member : joined = {m}
    /\ joins = 0 /\ made = 0

\* The nodes without an index are numbered before anything else is done.
Numbered(m) == maxidx[m] # 0 \/ nodes[m] = {}

\* _init_indexes, called when the service starts outside a collective and by
\* become_leader.
InitIndexes(m) ==
    /\ maxidx[m] = 0
    /\ LET top == 1 + Max({0} \cup {idx[m][n] : n \in nodes[m]})
           rest == SetToSeq({n \in nodes[m] : idx[m][n] = 0})
       IN  /\ idx' = [idx EXCEPT ![m] = [n \in Node |->
                        IF n \in ToSet(rest)
                        THEN top - 1 + CHOOSE k \in DOMAIN rest : rest[k] = n
                        ELSE idx[m][n]]]
           /\ maxidx' = [maxidx EXCEPT ![m] = top + Len(rest)]
           /\ free' = [free EXCEPT ![m] = <<>>]
    /\ UNCHANGED <<nodes, joined, joins, made>>

Ready == \A m \in joined : Numbered(m)

\* Mutant of CreateNode: a node that exists is given an index once more.
CreateNodeAgain(n) ==
    /\ Ready /\ made < MaxMade /\ made' = made + 1
    /\ LET new == [m \in joined |-> Allocated(maxidx[m], free[m])]
       IN  /\ idx' = [m \in Member |->
                         IF m \in joined THEN [idx[m] EXCEPT ![n] = new[m].idx]
                         ELSE idx[m]]
           /\ maxidx' = [m \in Member |->
                            IF m \in joined THEN new[m].max ELSE maxidx[m]]
           /\ free' = [m \in Member |->
                          IF m \in joined THEN new[m].free ELSE free[m]]
    /\ nodes' = [m \in Member |-> IF m \in joined THEN nodes[m] \cup {n}
                                  ELSE nodes[m]]
    /\ UNCHANGED <<joined, joins>>

\* _true_set_node_attributes of a new node, on every member.
CreateNode(n) ==
    /\ Ready
    /\ \A m \in joined : n \notin nodes[m]
    /\ IF joins = 0 THEN made' = made ELSE made < MaxMade /\ made' = made + 1
    /\ LET new == [m \in joined |-> Allocated(maxidx[m], free[m])]
       IN  /\ idx' = [m \in Member |->
                         IF m \in joined THEN [idx[m] EXCEPT ![n] = new[m].idx]
                         ELSE idx[m]]
           /\ maxidx' = [m \in Member |->
                            IF m \in joined THEN new[m].max ELSE maxidx[m]]
           /\ free' = [m \in Member |->
                          IF m \in joined THEN new[m].free ELSE free[m]]
    /\ nodes' = [m \in Member |-> IF m \in joined THEN nodes[m] \cup {n}
                                  ELSE nodes[m]]
    /\ UNCHANGED <<joined, joins>>

\* _true_del_nodes, on every member.
DelNode(n) ==
    /\ Ready
    /\ \A m \in joined : n \in nodes[m]
    /\ LET old == [m \in joined |-> Freed(maxidx[m], free[m], idx[m][n])]
       IN  /\ maxidx' = [m \in Member |->
                            IF m \in joined THEN old[m].max ELSE maxidx[m]]
           /\ free' = [m \in Member |->
                          IF m \in joined THEN old[m].free ELSE free[m]]
    /\ idx' = [m \in Member |-> IF m \in joined
                                THEN [idx[m] EXCEPT ![n] = 0] ELSE idx[m]]
    /\ nodes' = [m \in Member |-> IF m \in joined THEN nodes[m] \ {n}
                                  ELSE nodes[m]]
    /\ UNCHANGED <<joined, joins, made>>

\* connect_to_leader: the configuration is cleared, the nodes of the leader
\* are created one by one and given the index that the leader has for them,
\* and commit_clear copies the member's former globals over the new ones.
Join(m, leader) ==
    /\ leader \in joined /\ m \notin joined /\ Ready
    /\ joins < MaxJoin
    /\ joins' = joins + 1
    /\ joined' = joined \cup {m}
    /\ nodes' = [nodes EXCEPT ![m] = nodes[leader]]
    /\ idx' = [idx EXCEPT ![m] = idx[leader]]
    /\ maxidx' = [maxidx EXCEPT ![m] =
                     IF @ # 0 THEN @
                     ELSE IF nodes[leader] = {} THEN 0
                     ELSE 1 + Cardinality(nodes[leader])]
    /\ UNCHANGED <<free, made>>

\* A member loses its leader, or the collective its leader.
Leave(m) ==
    /\ m \in joined /\ joined # {m}
    /\ joined' = joined \ {m}
    /\ UNCHANGED <<nodes, idx, maxidx, free, joins, made>>

Next ==
    \/ \E n \in Node : CreateNode(n) \/ DelNode(n)
    \/ \E m \in Member : InitIndexes(m) \/ Leave(m)
    \/ \E m, leader \in Member : Join(m, leader)

Spec == Init /\ [][Next]_vars

-----------------------------------------------------------------------------
(* Properties.                                                             *)

TypeOK ==
    /\ nodes \in [Member -> SUBSET Node]
    /\ idx \in [Member -> [Node -> Nat]]
    /\ maxidx \in [Member -> Nat]
    /\ \A m \in Member : free[m] \in Seq([1 .. 1 -> Nat \ {0}] \cup [1 .. 2 -> Nat \ {0}])
    /\ joined \subseteq Member

\* "the index just allocated is known to be free": no two nodes ever have the
\* same index, in the database of any member.
IndexUnique ==
    \A m \in Member : \A n1, n2 \in nodes[m] :
        idx[m][n1] = idx[m][n2] /\ idx[m][n1] # 0 => n1 = n2

\* Until a member connects, the allocator neither loses an index nor has one
\* twice: below max_node_index every index is either that of exactly one node
\* or in one entry of the list of free ones, and the last one is used.
IndexAccounted ==
    \A m \in joined : joins = 0 /\ maxidx[m] # 0 =>
        /\ \A i \in 1 .. maxidx[m] - 1 :
              Cardinality({n \in nodes[m] : idx[m][n] = i})
                  = IF IsFree(free[m], i) THEN 0 ELSE 1
        /\ \A k \in DOMAIN free[m] : Span(free[m][k]) \subseteq 1 .. maxidx[m] - 2
        /\ \A k \in DOMAIN free[m] :
              Len(free[m][k]) = 1 \/ free[m][k][1] < free[m][k][2]
        /\ \A j, k \in DOMAIN free[m] :
              j # k => Span(free[m][j]) \cap Span(free[m][k]) = {}
        /\ \A n \in nodes[m] : idx[m][n] \in 1 .. maxidx[m] - 1

\* A node keeps its index as long as it exists, on every member that applies
\* the changes: neither the numbering by a member that becomes the leader nor
\* the deletion of other nodes, with whatever globals a member has, changes it.
IndexStable ==
    [][\A m \in joined : \A n \in nodes[m] \cap nodes'[m] :
          idx[m][n] # 0 => idx'[m][n] = idx[m][n]]_vars
=============================================================================
