----------------------------- MODULE NodeGroups -----------------------------
(***************************************************************************)
(* Nodes, node groups and the attributes that nodes inherit from groups:   *)
(* the _true_* methods of ConfigManager that change _cfgstore['nodes'] and *)
(* _cfgstore['nodegroups'].  Membership is kept twice, as an ordered list  *)
(* in the node and as a set in the group; an inherited value is a copy,    *)
(* refreshed by every method that could change what the node inherits.     *)
(*                                                                         *)
(* None of the methods awaits once it has begun to change something, so    *)
(* each is one action. A call for several nodes, groups or attributes is   *)
(* modelled as the sequence of the single changes it makes; a call that    *)
(* raises an exception in its checks does nothing and is left out.         *)
(* Expressions and node indexes are not here (NodeIndex has the indexes).  *)
(***************************************************************************)
EXTENDS Naturals, FiniteSets, Sequences, SequencesExt

CONSTANTS Node, Group, Attr, Value,
          Absent,      \* no value, no group
          Everything,  \* the group "everything"
          MaxList      \* bound on the groups a client lists for a node

ASSUME GroupAssumption == Everything \in Group /\ Absent \notin Group \cup Value
ASSUME InputAssumption == MaxList \in Nat

VARIABLES
    nodes,      \* the keys of _cfgstore['nodes']
    groups,     \* the keys of _cfgstore['nodegroups']
    order,      \* the list 'groups' of a node
    members,    \* the set 'nodes' of a group
    gattr,      \* the attributes of a group
    nattr,      \* the attributes of a node, and where they are inheritedfrom
    noderange,  \* the groups that have the attribute 'noderange'
    marked      \* the keys the last call gave to _mark_dirtykey

vars == <<nodes, groups, order, members, gattr, nattr, noderange, marked>>

\* An attribute of a node: unset, its own, or inherited from a group.
Unset == [value |-> Absent, from |-> Absent]
Own(v) == [value |-> v, from |-> Absent]
IsOwn(e) == e.value # Absent /\ e.from = Absent
Entry == {Unset} \cup [value : Value, from : Group \cup {Absent}]

Init ==
    /\ nodes = {} /\ groups = {}
    /\ order = [n \in Node |-> <<>>]
    /\ members = [g \in Group |-> {}]
    /\ gattr = [g \in Group |-> [a \in Attr |-> Absent]]
    /\ nattr = [n \in Node |-> [a \in Attr |-> Unset]]
    /\ noderange = {}
    /\ marked = {}

-----------------------------------------------------------------------------
(* Inheritance.                                                            *)

\* Where in a list of groups there is one with the attribute a.
Providers(list, ga, a) == {i \in DOMAIN list : ga[list[i]][a] # Absent}
\* Mutant of Inherited: the first group, whether or not it has the attribute.
InheritedFromFirst(list, ga, a) ==
    IF list = <<>> THEN Unset
    ELSE [value |-> ga[list[1]][a], from |-> list[1]]

Inherited(list, ga, a) ==
    IF Providers(list, ga, a) = {} THEN Unset
    ELSE LET g == list[Min(Providers(list, ga, a))]
         IN  [value |-> ga[g][a], from |-> g]

\* _do_inheritance without srcgroup: a value of the node's own stays, and so
\* does an old copy when no group of the list has the attribute.
DoInheritance(e, list, ga, a) ==
    IF IsOwn(e) \/ Providers(list, ga, a) = {} THEN e
    ELSE Inherited(list, ga, a)

\* _do_inheritance with srcgroup: only if no earlier group has the attribute.
DoInheritanceFrom(e, list, ga, a, src) ==
    IF Inherited(list, ga, a).from = src THEN DoInheritance(e, list, ga, a)
    ELSE e

\* Mutant of NodeRemoved: the copy is dropped and no other group looked up.
NodeRemovedNoBackfill(e, gone, list, ga, a) ==
    IF e.from \in gone THEN Unset ELSE e

\* _node_removed_from_group: what came from the group is looked up again.
NodeRemoved(e, gone, list, ga, a) ==
    IF e.from \in gone THEN DoInheritance(Unset, list, ga, a) ELSE e

\* _node_added_to_group: look up the attributes the group has.
NodeAdded(e, g, list, ga, a) ==
    IF ga[g][a] # Absent THEN DoInheritance(e, list, ga, a) ELSE e

-----------------------------------------------------------------------------
(* Nodes.                                                                  *)

\* The lists of groups a client may give.  The code does not refuse a list
\* that names a group twice; what becomes of one is not modelled.
GroupLists ==
    {list \in UNION {[1 .. k -> groups] : k \in 0 .. MaxList} :
        IsInjective(list)}

\* The group "everything", once it exists, is added to every list.
WithEverything(list) ==
    IF Everything \in groups /\ Everything \notin ToSet(list)
    THEN Append(list, Everything) ELSE list

\* The attribute 'groups' of _true_set_node_attributes, of a new or an old
\* node: _sync_groups_to_node.
SetNodeGroups(n, input) ==
    LET list == WithEverything(input)
        dropped == {g \in groups : n \in members[g] /\ g \notin ToSet(list)}
        added == {g \in ToSet(list) : n \notin members[g]}
    IN  /\ nodes' = nodes \cup {n}
        /\ order' = [order EXCEPT ![n] = list]
        /\ members' = [g \in Group |->
                          IF g \in dropped THEN members[g] \ {n}
                          ELSE IF g \in added THEN members[g] \cup {n}
                          ELSE members[g]]
        /\ nattr' = [nattr EXCEPT ![n] = [a \in Attr |->
                        DoInheritance(
                            NodeRemoved(nattr[n][a], dropped, list, gattr, a),
                            list, gattr, a)]]
        /\ marked' = {n} \cup dropped \cup added
        /\ UNCHANGED <<groups, gattr, noderange>>

\* Any other attribute.
SetNodeAttr(n, a, v) ==
    /\ n \in nodes
    /\ nattr' = [nattr EXCEPT ![n][a] = Own(v)]
    /\ marked' = {n}
    /\ UNCHANGED <<nodes, groups, order, members, gattr, noderange>>

\* _true_clear_node_attributes: an inherited value is left alone.
ClearNodeAttr(n, a) ==
    /\ n \in nodes
    /\ IsOwn(nattr[n][a])
    /\ nattr' = [nattr EXCEPT ![n][a] =
                    DoInheritance(Unset, order[n], gattr, a)]
    /\ marked' = {n}
    /\ UNCHANGED <<nodes, groups, order, members, gattr, noderange>>

\* _true_del_nodes
DelNode(n) ==
    /\ n \in nodes
    /\ nodes' = nodes \ {n}
    /\ order' = [order EXCEPT ![n] = <<>>]
    /\ members' = [g \in Group |-> members[g] \ {n}]
    /\ nattr' = [nattr EXCEPT ![n] = [a \in Attr |-> Unset]]
    /\ marked' = {n} \cup {g \in groups : n \in members[g]}
    /\ UNCHANGED <<groups, gattr, noderange>>

\* Mutant of RenameNode: the groups still list the old name.
RenameNodeOnly(n, new) ==
    /\ n \in nodes /\ new \notin nodes
    /\ nodes' = (nodes \ {n}) \cup {new}
    /\ order' = [order EXCEPT ![new] = order[n], ![n] = <<>>]
    /\ nattr' = [nattr EXCEPT ![new] = nattr[n],
                              ![n] = [a \in Attr |-> Unset]]
    /\ marked' = {n, new}
    /\ UNCHANGED <<groups, members, gattr, noderange>>

\* _true_rename_nodes
RenameNode(n, new) ==
    /\ n \in nodes /\ new \notin nodes
    /\ nodes' = (nodes \ {n}) \cup {new}
    /\ order' = [order EXCEPT ![new] = order[n], ![n] = <<>>]
    /\ members' = [g \in Group |-> IF g \in ToSet(order[n])
                                   THEN (members[g] \ {n}) \cup {new}
                                   ELSE members[g]]
    /\ nattr' = [nattr EXCEPT ![new] = nattr[n],
                              ![n] = [a \in Attr |-> Unset]]
    /\ marked' = {n, new} \cup ToSet(order[n])
    /\ UNCHANGED <<groups, gattr, noderange>>

-----------------------------------------------------------------------------
(* Groups.                                                                 *)

\* A group that does not exist is created by the first attribute it is given.
CreateGroup(g) ==
    /\ g \notin groups
    /\ groups' = groups \cup {g}
    /\ marked' = {g}
    /\ UNCHANGED <<nodes, order, members, gattr, nattr, noderange>>

\* _sync_nodes_to_group: nodes that leave or enter the group g.
SyncNodesToGroup(g, ns) ==
    LET leaving == {n \in nodes \ ns : g \in ToSet(order[n])}
        entering == {n \in ns : g \notin ToSet(order[n])}
    IN  /\ order' = [n \in Node |->
                        CASE n \in leaving -> RemoveFirst(order[n], g)
                          [] n \in entering -> <<g>> \o order[n]
                          [] OTHER -> order[n]]
        /\ nattr' = [n \in Node |-> [a \in Attr |->
                        CASE n \in leaving ->
                                NodeRemoved(nattr[n][a], {g}, order'[n], gattr, a)
                          [] n \in entering ->
                                NodeAdded(nattr[n][a], g, order'[n], gattr, a)
                          [] OTHER -> nattr[n][a]]]
        /\ marked' = {g} \cup leaving \cup entering

\* The attribute 'nodes' of _true_set_group_attributes.
SetGroupNodes(g, ns) ==
    /\ g \in groups \ noderange
    /\ members' = [members EXCEPT ![g] = ns]
    /\ SyncNodesToGroup(g, ns)
    /\ UNCHANGED <<nodes, groups, gattr, noderange>>

\* The same attribute of _true_clear_group_attributes.
ClearGroupNodes(g) ==
    /\ g \in groups
    /\ members' = [members EXCEPT ![g] = {}]
    /\ SyncNodesToGroup(g, {})
    /\ UNCHANGED <<nodes, groups, gattr, noderange>>

\* The attribute 'noderange' of _true_set_group_attributes.
SetGroupNoderange(g) ==
    /\ g \in groups
    /\ members[g] = {} /\ \A a \in Attr : gattr[g][a] = Absent
    /\ noderange' = noderange \cup {g}
    /\ marked' = {g}
    /\ UNCHANGED <<nodes, groups, order, members, gattr, nattr>>

ClearGroupNoderange(g) ==
    /\ g \in noderange
    /\ noderange' = noderange \ {g}
    /\ marked' = {g}
    /\ UNCHANGED <<nodes, groups, order, members, gattr, nattr>>

\* Any other attribute of _true_set_group_attributes.
SetGroupAttr(g, a, v) ==
    /\ g \in groups \ noderange
    /\ gattr' = [gattr EXCEPT ![g][a] = v]
    /\ nattr' = [n \in Node |->
                    IF n \notin members[g] THEN nattr[n]
                    ELSE [nattr[n] EXCEPT ![a] =
                             DoInheritanceFrom(@, order[n], gattr', a, g)]]
    /\ marked' = {g} \cup {n \in members[g] :
                              /\ ~IsOwn(nattr[n][a])
                              /\ Inherited(order[n], gattr', a).from = g}
    /\ UNCHANGED <<nodes, groups, order, members, noderange>>

\* Mutant of ClearGroupAttr: only the group is marked.
ClearGroupAttrMarksGroup(g, a) ==
    /\ g \in groups
    /\ gattr' = [gattr EXCEPT ![g][a] = Absent]
    /\ nattr' = [n \in Node |->
                    IF n \notin members[g] THEN nattr[n]
                    ELSE [nattr[n] EXCEPT ![a] =
                             NodeRemoved(@, {g}, order[n], gattr', a)]]
    /\ marked' = {g}
    /\ UNCHANGED <<nodes, groups, order, members, noderange>>

\* Any other attribute of _true_clear_group_attributes.
ClearGroupAttr(g, a) ==
    /\ g \in groups
    /\ gattr' = [gattr EXCEPT ![g][a] = Absent]
    /\ nattr' = [n \in Node |->
                    IF n \notin members[g] THEN nattr[n]
                    ELSE [nattr[n] EXCEPT ![a] =
                             NodeRemoved(@, {g}, order[n], gattr', a)]]
    /\ marked' = {g} \cup {n \in members[g] : nattr[n][a].from = g}
    /\ UNCHANGED <<nodes, groups, order, members, noderange>>

\* _true_del_groups
DelGroup(g) ==
    /\ g \in groups
    /\ groups' = groups \ {g}
    /\ members' = [members EXCEPT ![g] = {}]
    /\ gattr' = [gattr EXCEPT ![g] = [a \in Attr |-> Absent]]
    /\ noderange' = noderange \ {g}
    /\ SyncNodesToGroup(g, {})
    /\ UNCHANGED nodes

\* _true_rename_groups
RenameGroup(g, new) ==
    /\ g \in groups /\ new \notin groups
    /\ groups' = (groups \ {g}) \cup {new}
    /\ members' = [members EXCEPT ![new] = members[g], ![g] = {}]
    /\ gattr' = [gattr EXCEPT ![new] = gattr[g],
                              ![g] = [a \in Attr |-> Absent]]
    /\ noderange' = IF g \in noderange THEN (noderange \ {g}) \cup {new}
                    ELSE noderange
    /\ order' = [n \in Node |->
                    IF n \notin members[g] THEN order[n]
                    ELSE LET i == Min({j \in DOMAIN order[n] : order[n][j] = g})
                         IN  [order[n] EXCEPT ![i] = new]]
    /\ nattr' = [n \in Node |-> [a \in Attr |->
                    IF n \notin members[g] THEN nattr[n][a]
                    ELSE NodeAdded(
                            NodeRemoved(nattr[n][a], {g}, order'[n], gattr', a),
                            new, order'[n], gattr', a)]]
    /\ marked' = {g, new} \cup members[g]
    /\ UNCHANGED nodes

Next ==
    \/ \E n \in Node :
          \/ \E list \in GroupLists : SetNodeGroups(n, list)
          \/ \E a \in Attr : ClearNodeAttr(n, a)
          \/ \E a \in Attr, v \in Value : SetNodeAttr(n, a, v)
          \/ DelNode(n)
          \/ \E new \in Node : RenameNode(n, new)
    \/ \E g \in Group :
          \/ CreateGroup(g) \/ DelGroup(g)
          \/ \E ns \in SUBSET nodes : SetGroupNodes(g, ns)
          \/ ClearGroupNodes(g)
          \/ SetGroupNoderange(g) \/ ClearGroupNoderange(g)
          \/ \E a \in Attr : ClearGroupAttr(g, a)
          \/ \E a \in Attr, v \in Value : SetGroupAttr(g, a, v)
          \/ \E new \in Group : RenameGroup(g, new)

Spec == Init /\ [][Next]_vars

-----------------------------------------------------------------------------
(* Properties.                                                             *)

TypeOK ==
    /\ nodes \subseteq Node /\ groups \subseteq Group
    /\ order \in [Node -> Seq(Group)]
    /\ members \in [Group -> SUBSET Node]
    /\ gattr \in [Group -> [Attr -> Value \cup {Absent}]]
    /\ nattr \in [Node -> [Attr -> Entry]]
    /\ noderange \subseteq Group
    /\ marked \subseteq Node \cup Group

\* The two representations of membership agree, whichever side a client
\* changes and in whatever order nodes and groups come, go and are renamed.
MembershipAgrees ==
    \A n \in Node, g \in Group : g \in ToSet(order[n]) <=> n \in members[g]

\* Every node holds, for every attribute, its own value or a current copy of
\* the value of the first of its groups that has one: no method leaves a
\* stale copy, a copy from a later group, or none where there should be one.
InheritanceResolved ==
    \A n \in nodes, a \in Attr :
        \/ IsOwn(nattr[n][a])
        \/ nattr[n][a] = Inherited(order[n], gattr, a)

\* Everything a method changes is marked for the writer of ConfigSync: a
\* change that is not marked is lost when the process restarts.
NodeChanged(n) ==
    \/ order'[n] # order[n] \/ nattr'[n] # nattr[n]
    \/ (n \in nodes') # (n \in nodes)
GroupChanged(g) ==
    \/ members'[g] # members[g] \/ gattr'[g] # gattr[g]
    \/ (g \in groups') # (g \in groups)
    \/ (g \in noderange') # (g \in noderange)
MarksComplete ==
    [][/\ \A n \in Node : NodeChanged(n) => n \in marked'
       /\ \A g \in Group : GroupChanged(g) => g \in marked']_vars
=============================================================================
