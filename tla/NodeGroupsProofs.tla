-------------------------- MODULE NodeGroupsProofs --------------------------
(***************************************************************************)
(* Proofs about NodeGroups, for any nodes, groups, attributes and values:  *)
(* the list of groups of a node and the set of nodes of a group always say *)
(* the same, all changes are marked, and inherited values are current.     *)
(***************************************************************************)
EXTENDS NodeGroups, SequenceTheorems, WellFoundedInduction, TLAPS

-----------------------------------------------------------------------------
(* Lists without repetition, and the least of some numbers.                *)

\* The empty list.
LEMMA EmptyList ==
    ASSUME NEW S
    PROVE  <<>> \in Seq(S) /\ IsInjective(<<>>) /\ ToSet(<<>>) = {}
BY DEF IsInjective, ToSet

\* A set of natural numbers that is not empty has a minimum.
LEMMA Minimum ==
    ASSUME NEW T \in SUBSET Nat, T # {}
    PROVE  Min(T) \in T /\ \A j \in T : Min(T) <= j
<1>1. PICK x \in T : \A y \in T : <<y, x>> \notin OpToRel(<, Nat)
  BY NatLessThanWellFounded, WFMin, Zenon
<1>2. \A y \in T : ~ (y < x)
  BY <1>1, Zenon DEF OpToRel
<1>3. \A y \in T : x <= y
  BY <1>2
<1> QED BY <1>3 DEF Min

\* RemoveFirst closes the gap that an element of an injective list leaves.
LEMMA RemoveShift ==
    ASSUME NEW S, NEW s \in Seq(S), IsInjective(s), NEW e \in ToSet(s)
    PROVE  /\ RemoveFirst(s, e) \in Seq(S)
           /\ Len(RemoveFirst(s, e)) = Len(s) - 1
           /\ \E i \in 1 .. Len(s) :
                 /\ s[i] = e
                 /\ \A j \in 1 .. Len(s) - 1 :
                       RemoveFirst(s, e)[j] = IF j < i THEN s[j] ELSE s[j + 1]
<1>0. DOMAIN s = 1 .. Len(s) /\ Len(s) \in Nat
  OBVIOUS
<1>1. PICK i \in 1 .. Len(s) : s[i] = e
  BY <1>0 DEF ToSet
<1>2. {j \in 1 .. Len(s) : s[j] = e} = {i} /\ Min({i}) = i
  <2>1. {j \in 1 .. Len(s) : s[j] = e} = {i}
    BY <1>0, <1>1 DEF IsInjective
  <2>2. Min({i}) = i
    BY <1>1 DEF Min
  <2> QED BY <2>1, <2>2
<1> DEFINE u == SubSeq(s, 1, i - 1)
           v == SubSeq(s, i + 1, Len(s))
           t == u \o v
<1>3. RemoveFirst(s, e) = t
  BY <1>1, <1>2 DEF RemoveFirst, RemoveAt, SelectInSeq
<1>4. u \in Seq(S) /\ Len(u) = i - 1 /\ \A j \in 1 .. i - 1 : u[j] = s[j]
  BY <1>1
<1>5. v \in Seq(S) /\ Len(v) = Len(s) - i /\ \A j \in 1 .. Len(s) - i : v[j] = s[i + j]
  BY <1>1
<1> HIDE DEF u, v
<1>6. /\ t \in Seq(S) /\ Len(t) = Len(u) + Len(v)
      /\ \A j \in 1 .. Len(u) + Len(v) : t[j] = IF j <= Len(u) THEN u[j] ELSE v[j - Len(u)]
  BY <1>4, <1>5, ConcatProperties
<1> HIDE DEF t
<1>7. /\ Len(t) = Len(s) - 1
      /\ \A j \in 1 .. Len(s) - 1 : t[j] = IF j < i THEN s[j] ELSE s[j + 1]
  <2>1. Len(t) = Len(s) - 1
    BY <1>0, <1>4, <1>5, <1>6
  <2>2. ASSUME NEW j \in 1 .. Len(s) - 1
        PROVE  t[j] = IF j < i THEN s[j] ELSE s[j + 1]
    <3>1. t[j] = IF j <= Len(u) THEN u[j] ELSE v[j - Len(u)]
      BY <1>0, <1>1, <1>4, <1>5, <1>6
    <3>2. CASE j < i
      BY <1>0, <1>1, <1>4, <3>1, <3>2
    <3>3. CASE ~ (j < i)
      <4>1. j - Len(u) \in 1 .. Len(s) - i /\ i + (j - Len(u)) = j + 1
        BY <1>0, <1>1, <1>4, <3>3
      <4>2. v[j - Len(u)] = s[j + 1]
        BY <1>5, <4>1
      <4> QED BY <1>0, <1>1, <1>4, <3>1, <3>3, <4>2
    <3> QED BY <3>2, <3>3
  <2> QED BY <2>1, <2>2
<1> QED BY <1>1, <1>3, <1>6, <1>7

\* RemoveFirst takes an element out of an injective list.
LEMMA RemoveOne ==
    ASSUME NEW S, NEW s \in Seq(S), IsInjective(s), NEW e \in ToSet(s)
    PROVE  /\ RemoveFirst(s, e) \in Seq(S)
           /\ IsInjective(RemoveFirst(s, e))
           /\ ToSet(RemoveFirst(s, e)) = ToSet(s) \ {e}
<1>0. DOMAIN s = 1 .. Len(s) /\ Len(s) \in Nat
  OBVIOUS
<1> DEFINE t == RemoveFirst(s, e)
<1>6. t \in Seq(S) /\ Len(t) = Len(s) - 1
  BY RemoveShift
<1>1. PICK i \in 1 .. Len(s) :
        s[i] = e /\ \A j \in 1 .. Len(s) - 1 : t[j] = IF j < i THEN s[j] ELSE s[j + 1]
  BY RemoveShift
<1> HIDE DEF t
<1>7. /\ Len(t) = Len(s) - 1 /\ DOMAIN t = 1 .. Len(t)
      /\ \A j \in 1 .. Len(t) : t[j] = IF j < i THEN s[j] ELSE s[j + 1]
  BY <1>0, <1>1, <1>6
<1>8. IsInjective(t)
  <2> SUFFICES ASSUME NEW j \in 1 .. Len(t), NEW k \in 1 .. Len(t), t[j] = t[k]
               PROVE  j = k
    BY <1>7 DEF IsInjective
  <2> DEFINE jj == IF j < i THEN j ELSE j + 1
             kk == IF k < i THEN k ELSE k + 1
  <2>1. jj \in DOMAIN s /\ kk \in DOMAIN s /\ (jj = kk => j = k)
    BY <1>0, <1>1, <1>7
  <2>2. t[j] = s[jj] /\ t[k] = s[kk]
    BY <1>7
  <2>3. jj = kk
    BY <2>1, <2>2 DEF IsInjective
  <2> QED BY <2>1, <2>3
<1>9. ToSet(t) = ToSet(s) \ {e}
  <2>1. \A j \in DOMAIN t : t[j] \in ToSet(s) \ {e}
    <3> SUFFICES ASSUME NEW j \in 1 .. Len(t) PROVE t[j] \in ToSet(s) \ {e}
      BY <1>7
    <3>1. PICK k \in 1 .. Len(s) : t[j] = s[k] /\ k # i
      BY <1>0, <1>1, <1>7
    <3>2. s[k] # e
      BY <1>0, <1>1, <3>1 DEF IsInjective
    <3> QED BY <1>0, <3>1, <3>2 DEF ToSet
  <2>2. \A j \in DOMAIN s : s[j] # e => s[j] \in ToSet(t)
    <3> SUFFICES ASSUME NEW j \in DOMAIN s, s[j] # e PROVE s[j] \in ToSet(t)
      OBVIOUS
    <3>1. CASE j < i
      BY <1>0, <1>1, <1>7, <3>1 DEF ToSet
    <3>2. CASE j > i
      <4>1. j - 1 \in DOMAIN t /\ t[j - 1] = s[j]
        BY <1>0, <1>1, <1>7, <3>2
      <4> QED BY <4>1 DEF ToSet
    <3> QED BY <1>0, <1>1, <3>1, <3>2
  <2> QED BY <2>1, <2>2 DEF ToSet
<1> QED BY <1>6, <1>8, <1>9 DEF t

\* A new element at the front.
LEMMA AddFront ==
    ASSUME NEW S, NEW s \in Seq(S), IsInjective(s), NEW e \in S, e \notin ToSet(s)
    PROVE  /\ <<e>> \o s \in Seq(S)
           /\ IsInjective(<<e>> \o s)
           /\ ToSet(<<e>> \o s) = ToSet(s) \cup {e}
<1> DEFINE t == <<e>> \o s
<1>1. /\ t \in Seq(S) /\ Len(t) = Len(s) + 1 /\ DOMAIN t = 1 .. Len(t)
      /\ \A j \in 1 .. Len(t) : t[j] = IF j = 1 THEN e ELSE s[j - 1]
      /\ Len(s) \in Nat /\ DOMAIN s = 1 .. Len(s)
  OBVIOUS
<1>2. \A j \in 1 .. Len(s) : s[j] = t[j + 1] /\ j + 1 \in 1 .. Len(t)
  BY <1>1
<1>3. e = t[1] /\ 1 \in 1 .. Len(t)
  BY <1>1
<1>4. IsInjective(t)
  BY <1>1 DEF IsInjective, ToSet
<1> HIDE DEF t
<1>5. ToSet(t) \subseteq ToSet(s) \cup {e}
  <2>1. \A j \in 1 .. Len(t) : t[j] = e \/ (j - 1 \in 1 .. Len(s) /\ t[j] = s[j - 1])
    BY <1>1
  <2> QED BY <1>1, <2>1 DEF ToSet
<1>6. ToSet(s) \subseteq ToSet(t) /\ e \in ToSet(t)
  BY <1>1, <1>2, <1>3 DEF ToSet
<1> QED BY <1>1, <1>4, <1>5, <1>6 DEF t

\* A new element at the end.
LEMMA AddEnd ==
    ASSUME NEW S, NEW s \in Seq(S), IsInjective(s), NEW e \in S, e \notin ToSet(s)
    PROVE  /\ Append(s, e) \in Seq(S)
           /\ IsInjective(Append(s, e))
           /\ ToSet(Append(s, e)) = ToSet(s) \cup {e}
<1> DEFINE t == Append(s, e)
<1>1. /\ t \in Seq(S) /\ Len(t) = Len(s) + 1 /\ DOMAIN t = 1 .. Len(t)
      /\ \A j \in 1 .. Len(t) : t[j] = IF j = Len(s) + 1 THEN e ELSE s[j]
      /\ Len(s) \in Nat /\ DOMAIN s = 1 .. Len(s)
  OBVIOUS
<1>2. IsInjective(t)
  BY <1>1 DEF IsInjective, ToSet
<1> HIDE DEF t
<1>3. ToSet(t) \subseteq ToSet(s) \cup {e}
  <2>1. \A j \in 1 .. Len(t) : t[j] = e \/ (j \in 1 .. Len(s) /\ t[j] = s[j])
    BY <1>1
  <2> QED BY <1>1, <2>1 DEF ToSet
<1>4. ToSet(s) \subseteq ToSet(t) /\ e \in ToSet(t)
  <2>1. \A j \in 1 .. Len(s) : s[j] = t[j] /\ j \in 1 .. Len(t)
    BY <1>1
  <2>2. e = t[Len(t)] /\ Len(t) \in 1 .. Len(t)
    BY <1>1
  <2> QED BY <1>1, <2>1, <2>2 DEF ToSet
<1> QED BY <1>1, <1>2, <1>3, <1>4 DEF t

\* A new element in the place of another one.
LEMMA ReplaceOne ==
    ASSUME NEW S, NEW s \in Seq(S), IsInjective(s), NEW i \in 1 .. Len(s),
           NEW e \in S, e \notin ToSet(s)
    PROVE  /\ [s EXCEPT ![i] = e] \in Seq(S)
           /\ IsInjective([s EXCEPT ![i] = e])
           /\ ToSet([s EXCEPT ![i] = e]) = (ToSet(s) \ {s[i]}) \cup {e}
<1> DEFINE t == [s EXCEPT ![i] = e]
<1>1. /\ t \in Seq(S) /\ Len(t) = Len(s) /\ DOMAIN t = DOMAIN s
      /\ \A j \in 1 .. Len(s) : t[j] = IF j = i THEN e ELSE s[j]
  BY ExceptSeq
<1>2. IsInjective(t)
  BY <1>1 DEF IsInjective, ToSet
<1>3. ToSet(t) = (ToSet(s) \ {s[i]}) \cup {e}
  <2>1. \A j \in 1 .. Len(s) : j # i => s[j] # s[i]
    BY DEF IsInjective
  <2>2. \A x : x \in ToSet(t) <=> \E j \in 1 .. Len(s) : x = t[j]
    BY <1>1 DEF ToSet
  <2>3. \A x : x \in ToSet(s) <=> \E j \in 1 .. Len(s) : x = s[j]
    BY DEF ToSet
  <2> HIDE DEF t
  <2> QED BY <1>1, <2>1, <2>2, <2>3
<1> QED BY <1>1, <1>2, <1>3

-----------------------------------------------------------------------------
(* Membership.                                                             *)

\* What is left of the types when attributes are left out.
MemberTypes ==
    /\ nodes \subseteq Node /\ groups \subseteq Group
    /\ order \in [Node -> Seq(Group)]
    /\ members \in [Group -> SUBSET Node]

\* A list names a group once, so that the one occurrence RemoveFirst takes out
\* is the only one.
Distinct == \A n \in Node : IsInjective(order[n])

\* A node that does not exist is nowhere, and nothing is in a group that does
\* not exist: a name that is used again starts without members.
Outside ==
    /\ \A n \in Node \ nodes : ToSet(order[n]) = {}
    /\ \A g \in Group \ groups : members[g] = {}

MemberInv == MemberTypes /\ Distinct /\ Outside /\ MembershipAgrees

-----------------------------------------------------------------------------
(* The invariant.                                                          *)

LEMMA InitMember == Init => MemberInv
<1> SUFFICES ASSUME Init PROVE MemberInv
  OBVIOUS
<1>1. MemberTypes
  BY EmptyList DEF Init, MemberTypes
<1>2. \A n \in Node : order[n] = <<>>
  BY DEF Init
<1>3. Distinct /\ Outside /\ MembershipAgrees
  BY <1>2, EmptyList DEF Init, Distinct, Outside, MembershipAgrees
<1> QED BY <1>1, <1>3 DEF MemberInv

\* A step that leaves membership alone.
LEMMA MemberStays ==
    ASSUME MemberInv, UNCHANGED <<nodes, groups, order, members>>
    PROVE  MemberInv'
BY DEF MemberInv, MemberTypes, Distinct, Outside, MembershipAgrees

\* _sync_nodes_to_group makes the lists follow the set, whether or not the
\* group remains.
LEMMA SyncStep ==
    ASSUME MemberInv, NEW g \in groups, NEW ns \in SUBSET nodes,
           SyncNodesToGroup(g, ns), members' = [members EXCEPT ![g] = ns],
           UNCHANGED nodes, groups' = groups \/ (groups' = groups \ {g} /\ ns = {})
    PROVE  MemberInv'
<1> USE DEF MemberInv, MemberTypes
<1> DEFINE leaving == {n \in nodes \ ns : g \in ToSet(order[n])}
           entering == {n \in ns : g \notin ToSet(order[n])}
<1>1. /\ order' \in [Node -> Seq(Group)]
      /\ \A n \in Node :
           /\ IsInjective(order'[n])
           /\ ToSet(order'[n]) = CASE n \in leaving -> ToSet(order[n]) \ {g}
                                   [] n \in entering -> ToSet(order[n]) \cup {g}
                                   [] OTHER -> ToSet(order[n])
  <2>1. order' = [n \in Node |->
                     CASE n \in leaving -> RemoveFirst(order[n], g)
                       [] n \in entering -> <<g>> \o order[n]
                       [] OTHER -> order[n]]
    BY DEF SyncNodesToGroup
  <2> SUFFICES ASSUME NEW n \in Node
               PROVE  /\ order'[n] \in Seq(Group) /\ IsInjective(order'[n])
                      /\ ToSet(order'[n]) = CASE n \in leaving -> ToSet(order[n]) \ {g}
                                              [] n \in entering -> ToSet(order[n]) \cup {g}
                                              [] OTHER -> ToSet(order[n])
    BY <2>1
  <2>2. order[n] \in Seq(Group) /\ IsInjective(order[n]) /\ g \in Group
    BY DEF Distinct
  <2>3. CASE n \in leaving
    <3>1. order'[n] = RemoveFirst(order[n], g) /\ g \in ToSet(order[n])
      BY <2>1, <2>3
    <3> QED BY <2>2, <2>3, <3>1, RemoveOne
  <2>4. CASE n \in entering
    <3>1. order'[n] = <<g>> \o order[n] /\ g \notin ToSet(order[n]) /\ n \notin leaving
      BY <2>1, <2>4
    <3> QED BY <2>2, <2>4, <3>1, AddFront
  <2>5. CASE n \notin leaving /\ n \notin entering
    <3>1. order'[n] = order[n]
      BY <2>1, <2>5
    <3> QED BY <2>2, <2>5, <3>1
  <2> QED BY <2>3, <2>4, <2>5
<1>2. MemberTypes'
  BY <1>1
<1>3. Distinct'
  BY <1>1 DEF Distinct
<1>4. \A n \in Node : n \in leaving => n \in nodes /\ n \notin ns
  OBVIOUS
<1>5. \A n \in Node, h \in Group :
        h \in ToSet(order'[n]) <=> IF h = g THEN n \in ns ELSE n \in members[h]
  <2> SUFFICES ASSUME NEW n \in Node, NEW h \in Group
               PROVE  h \in ToSet(order'[n]) <=>
                        IF h = g THEN n \in ns ELSE n \in members[h]
    OBVIOUS
  <2>1. CASE h = g
    <3>1. n \notin nodes => ToSet(order[n]) = {}
      BY DEF Outside
    <3> QED BY <1>1, <2>1, <3>1
  <2>2. CASE h # g
    <3>1. h \in ToSet(order[n]) <=> n \in members[h]
      BY DEF MembershipAgrees
    <3> QED BY <1>1, <2>2, <3>1
  <2> QED BY <2>1, <2>2
<1>6. MembershipAgrees'
  BY <1>5 DEF MembershipAgrees
<1>7. Outside'
  <2>1. \A n \in Node \ nodes : ToSet(order'[n]) = {}
    BY <1>1 DEF Outside
  <2>2. \A h \in Group \ groups' : members'[h] = {}
    BY DEF Outside
  <2> QED BY <2>1, <2>2 DEF Outside
<1> QED BY <1>2, <1>3, <1>6, <1>7

\* Every method keeps both representations of membership alike.
LEMMA MemberStep == MemberInv /\ [Next]_vars => MemberInv'
<1> SUFFICES ASSUME MemberInv, [Next]_vars PROVE MemberInv'
  OBVIOUS
<1> USE DEF MemberInv, MemberTypes
<1>1. ASSUME NEW n \in Node, NEW input \in GroupLists, SetNodeGroups(n, input)
      PROVE  MemberInv'
  <2> DEFINE list == WithEverything(input)
             dropped == {g \in groups : n \in members[g] /\ g \notin ToSet(list)}
             added == {g \in ToSet(list) : n \notin members[g]}
  <2>1. list \in Seq(Group) /\ IsInjective(list) /\ ToSet(list) \subseteq groups
    <3>1. input \in Seq(groups) /\ input \in Seq(Group) /\ IsInjective(input)
      <4>1. IsInjective(input)
        BY <1>1 DEF GroupLists
      <4>2. PICK k \in 0 .. MaxList : input \in [1 .. k -> groups]
        BY <1>1 DEF GroupLists
      <4>3. k \in Nat
        BY <4>2, InputAssumption
      <4> QED BY <4>1, <4>2, <4>3
    <3>2. ToSet(input) \subseteq groups
      BY <3>1 DEF ToSet
    <3>3. CASE Everything \in groups /\ Everything \notin ToSet(input)
      <4>1. list = Append(input, Everything)
        BY <3>3 DEF WithEverything
      <4>2. Everything \in Group
        BY GroupAssumption
      <4>3. /\ Append(input, Everything) \in Seq(Group)
            /\ IsInjective(Append(input, Everything))
            /\ ToSet(Append(input, Everything)) = ToSet(input) \cup {Everything}
        <5>1. Everything \notin ToSet(input)
          BY <3>3
        <5> HIDE DEF MemberInv, MemberTypes
        <5> QED BY <3>1, <4>2, <5>1, AddEnd
      <4> QED BY <3>2, <3>3, <4>1, <4>3
    <3>4. CASE ~(Everything \in groups /\ Everything \notin ToSet(input))
      <4>1. list = input
        BY <3>4 DEF WithEverything
      <4> QED BY <3>1, <3>2, <4>1
    <3> QED BY <3>3, <3>4
  <2>2. /\ nodes' = nodes \cup {n}
        /\ order' = [order EXCEPT ![n] = list]
        /\ members' = [g \in Group |->
                          IF g \in dropped THEN members[g] \ {n}
                          ELSE IF g \in added THEN members[g] \cup {n}
                          ELSE members[g]]
        /\ UNCHANGED groups
    BY <1>1 DEF SetNodeGroups
  <2> HIDE DEF list
  <2>3. MemberTypes' /\ Distinct'
    BY <2>1, <2>2 DEF Distinct
  <2>4. \A g \in Group : members'[g] \ {n} = members[g] \ {n}
    BY <2>2
  <2>5. \A g \in Group : n \in members'[g] <=> g \in ToSet(list)
    BY <2>1, <2>2 DEF Outside
  <2>6. MembershipAgrees'
    BY <2>2, <2>4, <2>5 DEF MembershipAgrees
  <2>7. Outside'
    <3>1. \A g \in Group \ groups : members'[g] = {}
      BY <2>1, <2>4, <2>5 DEF Outside
    <3> QED BY <2>2, <3>1 DEF Outside
  <2> QED BY <2>3, <2>6, <2>7
<1>2. ASSUME NEW n \in Node, DelNode(n) PROVE MemberInv'
  <2>1. /\ nodes' = nodes \ {n} /\ order' = [order EXCEPT ![n] = <<>>]
        /\ members' = [g \in Group |-> members[g] \ {n}] /\ UNCHANGED groups
    BY <1>2 DEF DelNode
  <2>2. MemberTypes' /\ Distinct'
    BY <2>1, EmptyList DEF Distinct
  <2>3. MembershipAgrees' /\ Outside'
    BY <2>1, EmptyList DEF MembershipAgrees, Outside
  <2> QED BY <2>2, <2>3
<1>3. ASSUME NEW n \in Node, NEW new \in Node, RenameNode(n, new) PROVE MemberInv'
  <2>1. /\ n \in nodes /\ new \notin nodes /\ n # new
        /\ nodes' = (nodes \ {n}) \cup {new}
        /\ order' = [order EXCEPT ![new] = order[n], ![n] = <<>>]
        /\ members' = [g \in Group |-> IF g \in ToSet(order[n])
                                       THEN (members[g] \ {n}) \cup {new}
                                       ELSE members[g]]
        /\ UNCHANGED groups
    BY <1>3 DEF RenameNode
  <2>2. /\ order' \in [Node -> Seq(Group)]
        /\ order'[n] = <<>> /\ order'[new] = order[n]
        /\ \A m \in Node \ {n, new} : order'[m] = order[m]
    BY <2>1, EmptyList
  <2>3. MemberTypes'
    BY <2>1, <2>2
  <2>4. Distinct'
    BY <2>2, EmptyList DEF Distinct
  <2>5. \A g \in Group : new \notin members[g]
    BY <2>1 DEF Outside, MembershipAgrees
  <2>6. MembershipAgrees'
    BY <2>1, <2>2, <2>5, EmptyList DEF MembershipAgrees
  <2>7. Outside'
    BY <2>1, <2>2, EmptyList DEF Outside, MembershipAgrees
  <2> QED BY <2>3, <2>4, <2>6, <2>7
<1>4. ASSUME NEW g \in Group, CreateGroup(g) PROVE MemberInv'
  BY <1>4 DEF CreateGroup, Distinct, Outside, MembershipAgrees
<1>5. ASSUME NEW g \in Group, NEW ns \in SUBSET nodes, SetGroupNodes(g, ns)
      PROVE  MemberInv'
  BY <1>5, SyncStep DEF SetGroupNodes
<1>6. ASSUME NEW g \in Group, ClearGroupNodes(g) PROVE MemberInv'
  BY <1>6, SyncStep DEF ClearGroupNodes
<1>7. ASSUME NEW g \in Group, DelGroup(g) PROVE MemberInv'
  BY <1>7, SyncStep DEF DelGroup
<1>8. ASSUME NEW g \in Group, NEW new \in Group, RenameGroup(g, new) PROVE MemberInv'
  <2>1. /\ g \in groups /\ new \notin groups /\ g # new
        /\ groups' = (groups \ {g}) \cup {new}
        /\ members' = [members EXCEPT ![new] = members[g], ![g] = {}]
        /\ order' = [n \in Node |->
                        IF n \notin members[g] THEN order[n]
                        ELSE LET i == Min({j \in DOMAIN order[n] : order[n][j] = g})
                             IN  [order[n] EXCEPT ![i] = new]]
        /\ UNCHANGED nodes
    BY <1>8 DEF RenameGroup
  <2>2. \A n \in Node : new \notin ToSet(order[n])
    BY <2>1 DEF Outside, MembershipAgrees
  <2>3. ASSUME NEW n \in Node
        PROVE  /\ order'[n] \in Seq(Group) /\ IsInjective(order'[n])
               /\ ToSet(order'[n]) = IF n \in members[g]
                                     THEN (ToSet(order[n]) \ {g}) \cup {new}
                                     ELSE ToSet(order[n])
    <3>1. order[n] \in Seq(Group) /\ IsInjective(order[n])
      BY DEF Distinct
    <3>2. CASE n \in members[g]
      <4>1. g \in ToSet(order[n])
        BY <3>2 DEF MembershipAgrees
      <4>2. DOMAIN order[n] = 1 .. Len(order[n])
        BY <3>1
      <4>3. PICK i \in 1 .. Len(order[n]) : order[n][i] = g
        BY <4>1, <4>2 DEF ToSet
      <4>4. {j \in DOMAIN order[n] : order[n][j] = g} = {i}
        BY <3>1, <4>2, <4>3 DEF IsInjective
      <4>5. Min({i}) = i
        BY <4>3 DEF Min
      <4>6. order'[n] = [order[n] EXCEPT ![i] = new]
        BY <2>1, <3>2, <4>4, <4>5
      <4>7. /\ order'[n] \in Seq(Group) /\ IsInjective(order'[n])
            /\ ToSet(order'[n]) = (ToSet(order[n]) \ {order[n][i]}) \cup {new}
        <5>1. new \notin ToSet(order[n])
          BY <2>2
        <5> HIDE DEF MemberInv, MemberTypes
        <5> QED BY <3>1, <4>3, <4>6, <5>1, ReplaceOne
      <4> QED BY <3>2, <4>3, <4>7
    <3>3. CASE n \notin members[g]
      BY <2>1, <3>1, <3>3
    <3> QED BY <3>2, <3>3
  <2>4. MemberTypes'
    <3>1. order' \in [Node -> Seq(Group)]
      BY <2>1, <2>3
    <3> QED BY <2>1, <3>1
  <2>5. Distinct'
    BY <2>3 DEF Distinct
  <2>6. MembershipAgrees'
    <3> SUFFICES ASSUME NEW n \in Node, NEW h \in Group
                 PROVE  h \in ToSet(order'[n]) <=> n \in members'[h]
      BY DEF MembershipAgrees
    <3>1. h \in ToSet(order[n]) <=> n \in members[h]
      BY DEF MembershipAgrees
    <3>2. members[new] = {} /\ (g \in ToSet(order[n]) <=> n \in members[g])
      BY <2>1 DEF Outside, MembershipAgrees
    <3>3. members'[h] = IF h = g THEN {} ELSE IF h = new THEN members[g] ELSE members[h]
      BY <2>1
    <3> QED BY <2>1, <2>2, <2>3, <3>1, <3>2, <3>3
  <2>7. Outside'
    <3>1. \A n \in Node \ nodes : n \notin members[g]
      BY DEF Outside, MembershipAgrees
    <3> QED BY <2>1, <2>3, <3>1 DEF Outside
  <2> QED BY <2>4, <2>5, <2>6, <2>7
<1>9. ASSUME NEW n \in Node, NEW a \in Attr,
             ClearNodeAttr(n, a) \/ \E v \in Value : SetNodeAttr(n, a, v)
      PROVE  MemberInv'
  BY <1>9, MemberStays DEF ClearNodeAttr, SetNodeAttr
<1>10. ASSUME NEW g \in Group, SetGroupNoderange(g) \/ ClearGroupNoderange(g)
       PROVE  MemberInv'
  BY <1>10, MemberStays DEF SetGroupNoderange, ClearGroupNoderange
<1>11. ASSUME NEW g \in Group, NEW a \in Attr,
              ClearGroupAttr(g, a) \/ \E v \in Value : SetGroupAttr(g, a, v)
       PROVE  MemberInv'
  BY <1>11, MemberStays DEF ClearGroupAttr, SetGroupAttr
<1>12. CASE UNCHANGED vars
  BY <1>12, MemberStays DEF vars
<1> QED BY <1>1, <1>2, <1>3, <1>4, <1>5, <1>6, <1>7, <1>8, <1>9, <1>10, <1>11,
           <1>12 DEF Next

\* Whatever clients change, on either side, and however nodes and groups come,
\* go and are renamed: a node lists exactly the groups that contain it.
THEOREM MembershipCorrect == Spec => []MembershipAgrees
<1>1. MemberInv => MembershipAgrees
  BY DEF MemberInv
<1> QED BY <1>1, InitMember, MemberStep, PTL DEF Spec

-----------------------------------------------------------------------------
(* What the methods mark.                                                  *)

\* Attributes are kept in dictionaries of dictionaries.
Shape ==
    /\ gattr = [g \in Group |-> [a \in Attr |-> gattr[g][a]]]
    /\ nattr = [n \in Node |-> [a \in Attr |-> nattr[n][a]]]

MarkInv == MemberInv /\ Shape

\* The action of MarksComplete.
AllMarked ==
    /\ \A n \in Node : NodeChanged(n) => n \in marked'
    /\ \A g \in Group : GroupChanged(g) => g \in marked'

\* The tables are empty at first.
LEMMA InitMark == Init => MarkInv
<1>1. Init => Shape
  BY DEF Init, Shape
<1> QED BY <1>1, InitMember DEF MarkInv

\* Setting what is there already changes nothing.
LEMMA SameAgain ==
    ASSUME NEW S, NEW f, f = [x \in S |-> f[x]], NEW a, NEW v, f[a] = v
    PROVE  [f EXCEPT ![a] = v] = f
OBVIOUS

\* _sync_nodes_to_group touches the group, and the nodes that leave or enter.
LEMMA SyncMarks ==
    ASSUME MarkInv, NEW g \in groups, NEW ns, SyncNodesToGroup(g, ns)
    PROVE  /\ nattr' = [n \in Node |-> [a \in Attr |-> nattr'[n][a]]]
           /\ \A n \in Node : order'[n] # order[n] \/ nattr'[n] # nattr[n] => n \in marked'
           /\ g \in marked'
<1> DEFINE leaving == {n \in nodes \ ns : g \in ToSet(order[n])}
           entering == {n \in ns : g \notin ToSet(order[n])}
<1>1. /\ order' = [n \in Node |->
                      CASE n \in leaving -> RemoveFirst(order[n], g)
                        [] n \in entering -> <<g>> \o order[n]
                        [] OTHER -> order[n]]
      /\ nattr' = [n \in Node |-> [a \in Attr |->
                      CASE n \in leaving ->
                              NodeRemoved(nattr[n][a], {g}, order'[n], gattr, a)
                        [] n \in entering ->
                              NodeAdded(nattr[n][a], g, order'[n], gattr, a)
                        [] OTHER -> nattr[n][a]]]
      /\ marked' = {g} \cup leaving \cup entering
  BY DEF SyncNodesToGroup
<1> HIDE DEF leaving, entering
<1>2. \A n \in Node : n \notin leaving /\ n \notin entering =>
        order'[n] = order[n] /\ nattr'[n] = [a \in Attr |-> nattr[n][a]]
  BY <1>1
<1>3. \A n \in Node : nattr[n] = [a \in Attr |-> nattr[n][a]]
  BY DEF MarkInv, Shape
<1>4. \A n \in Node : order'[n] # order[n] \/ nattr'[n] # nattr[n] => n \in marked'
  BY <1>1, <1>2, <1>3
<1>5. nattr' = [n \in Node |-> [a \in Attr |-> nattr'[n][a]]]
  BY <1>1
<1> QED BY <1>1, <1>4, <1>5

\* Every method marks all it changes.
LEMMA MarkStep == MarkInv /\ [Next]_vars => MarkInv' /\ (AllMarked \/ UNCHANGED vars)
<1> SUFFICES ASSUME MarkInv, [Next]_vars
             PROVE  MarkInv' /\ (AllMarked \/ UNCHANGED vars)
  OBVIOUS
<1>0. MemberInv'
  BY MemberStep DEF MarkInv
<1>a. /\ nattr = [n \in Node |-> [a \in Attr |-> nattr[n][a]]]
      /\ gattr = [g \in Group |-> [a \in Attr |-> gattr[g][a]]]
      /\ order \in [Node -> Seq(Group)] /\ members \in [Group -> SUBSET Node]
      /\ nodes \subseteq Node /\ groups \subseteq Group
  BY DEF MarkInv, MemberInv, MemberTypes, Shape
<1>b. \A n \in Node : nattr[n] = [a \in Attr |-> nattr[n][a]]
  BY <1>a
<1>c. \A g \in Group : gattr[g] = [a \in Attr |-> gattr[g][a]]
  BY <1>a
<1> USE DEF AllMarked, NodeChanged, GroupChanged, Shape
<1>1. ASSUME NEW n \in Node, NEW input, SetNodeGroups(n, input) PROVE Shape' /\ AllMarked
  <2> DEFINE list == WithEverything(input)
             dropped == {g \in groups : n \in members[g] /\ g \notin ToSet(list)}
             added == {g \in ToSet(list) : n \notin members[g]}
  <2>1. /\ nodes' = nodes \cup {n}
        /\ order' = [order EXCEPT ![n] = list]
        /\ members' = [g \in Group |->
                          IF g \in dropped THEN members[g] \ {n}
                          ELSE IF g \in added THEN members[g] \cup {n}
                          ELSE members[g]]
        /\ nattr' = [nattr EXCEPT ![n] = [a \in Attr |->
                        DoInheritance(
                            NodeRemoved(nattr[n][a], dropped, list, gattr, a),
                            list, gattr, a)]]
        /\ marked' = {n} \cup dropped \cup added
        /\ UNCHANGED <<groups, gattr, noderange>>
    BY <1>1 DEF SetNodeGroups
  <2> HIDE DEF list, dropped, added
  <2>2. Shape'
    BY <1>a, <2>1
  <2>3. \A m \in Node : m # n => order'[m] = order[m] /\ nattr'[m] = nattr[m]
    BY <1>a, <2>1
  <2>4. \A g \in Group : g \notin dropped /\ g \notin added => members'[g] = members[g]
    BY <2>1
  <2> QED BY <2>1, <2>2, <2>3, <2>4
<1>2. ASSUME NEW n \in Node, NEW a \in Attr, NEW v \in Value, SetNodeAttr(n, a, v)
      PROVE  Shape' /\ AllMarked
  BY <1>a, <1>2 DEF SetNodeAttr
<1>3. ASSUME NEW n \in Node, NEW a \in Attr, ClearNodeAttr(n, a)
      PROVE  Shape' /\ AllMarked
  BY <1>a, <1>3 DEF ClearNodeAttr
<1>4. ASSUME NEW n \in Node, DelNode(n) PROVE Shape' /\ AllMarked
  <2>1. /\ nodes' = nodes \ {n} /\ order' = [order EXCEPT ![n] = <<>>]
        /\ members' = [g \in Group |-> members[g] \ {n}]
        /\ nattr' = [nattr EXCEPT ![n] = [a \in Attr |-> Unset]]
        /\ marked' = {n} \cup {g \in groups : n \in members[g]}
        /\ UNCHANGED <<groups, gattr, noderange>>
    BY <1>4 DEF DelNode
  <2>2. Shape'
    BY <1>a, <2>1
  <2>3. \A g \in Group : g \notin marked' => members'[g] = members[g]
    BY <1>a, <2>1 DEF MarkInv, MemberInv, Outside
  <2> QED BY <1>a, <2>1, <2>2, <2>3
<1>5. ASSUME NEW n \in Node, NEW new \in Node, RenameNode(n, new)
      PROVE  Shape' /\ AllMarked
  <2>1. /\ nodes' = (nodes \ {n}) \cup {new}
        /\ order' = [order EXCEPT ![new] = order[n], ![n] = <<>>]
        /\ members' = [g \in Group |-> IF g \in ToSet(order[n])
                                       THEN (members[g] \ {n}) \cup {new}
                                       ELSE members[g]]
        /\ nattr' = [nattr EXCEPT ![new] = nattr[n],
                                  ![n] = [a \in Attr |-> Unset]]
        /\ marked' = {n, new} \cup ToSet(order[n])
        /\ UNCHANGED <<groups, gattr, noderange>>
    BY <1>5 DEF RenameNode
  <2>2. Shape'
    BY <1>a, <2>1
  <2>3. \A m \in Node : m \notin {n, new} => order'[m] = order[m] /\ nattr'[m] = nattr[m]
    BY <1>a, <2>1
  <2>4. \A m \in Node : NodeChanged(m) => m \in marked'
    BY <2>1, <2>3
  <2>5. \A g \in Group : GroupChanged(g) => g \in marked'
    <3>1. \A g \in Group : g \notin ToSet(order[n]) => members'[g] = members[g]
      BY <2>1
    <3> QED BY <2>1, <3>1
  <2> QED BY <2>2, <2>4, <2>5
<1>6. ASSUME NEW g \in Group, CreateGroup(g) PROVE Shape' /\ AllMarked
  BY <1>a, <1>6 DEF CreateGroup
<1>7. ASSUME NEW g \in Group, DelGroup(g) PROVE Shape' /\ AllMarked
  <2>1. g \in groups /\ SyncNodesToGroup(g, {})
    BY <1>7 DEF DelGroup
  <2>2. /\ groups' = groups \ {g} /\ members' = [members EXCEPT ![g] = {}]
        /\ gattr' = [gattr EXCEPT ![g] = [a \in Attr |-> Absent]]
        /\ noderange' = noderange \ {g} /\ UNCHANGED nodes
    BY <1>7 DEF DelGroup
  <2>3. gattr' = [h \in Group |-> [a \in Attr |-> gattr'[h][a]]]
    BY <1>a, <2>2
  <2>4. \A h \in Group \ {g} : members'[h] = members[h] /\ gattr'[h] = gattr[h]
    BY <1>a, <2>2
  <2> QED BY <2>1, <2>2, <2>3, <2>4, SyncMarks
<1>8. ASSUME NEW g \in Group, NEW ns, SetGroupNodes(g, ns) PROVE Shape' /\ AllMarked
  <2>1. /\ g \in groups /\ SyncNodesToGroup(g, ns)
        /\ members' = [members EXCEPT ![g] = ns]
        /\ UNCHANGED <<nodes, groups, gattr, noderange>>
    BY <1>8 DEF SetGroupNodes
  <2>2. \A h \in Group \ {g} : members'[h] = members[h]
    BY <1>a, <2>1
  <2> QED BY <1>a, <2>1, <2>2, SyncMarks
<1>9. ASSUME NEW g \in Group, ClearGroupNodes(g) PROVE Shape' /\ AllMarked
  <2>1. /\ g \in groups /\ SyncNodesToGroup(g, {})
        /\ members' = [members EXCEPT ![g] = {}]
        /\ UNCHANGED <<nodes, groups, gattr, noderange>>
    BY <1>9 DEF ClearGroupNodes
  <2>2. \A h \in Group \ {g} : members'[h] = members[h]
    BY <1>a, <2>1
  <2> QED BY <1>a, <2>1, <2>2, SyncMarks
<1>10. ASSUME NEW g \in Group, SetGroupNoderange(g) \/ ClearGroupNoderange(g)
       PROVE  Shape' /\ AllMarked
  BY <1>a, <1>10 DEF SetGroupNoderange, ClearGroupNoderange
<1>11. ASSUME NEW g \in Group, NEW a \in Attr, ClearGroupAttr(g, a)
       PROVE  Shape' /\ AllMarked
  <2>1. /\ g \in groups /\ gattr' = [gattr EXCEPT ![g] = [@ EXCEPT ![a] = Absent]]
        /\ nattr' = [n \in Node |->
                        IF n \notin members[g] THEN nattr[n]
                        ELSE [nattr[n] EXCEPT ![a] =
                                 NodeRemoved(nattr[n][a], {g}, order[n], gattr', a)]]
        /\ marked' = {g} \cup {n \in members[g] : nattr[n][a].from = g}
        /\ UNCHANGED <<nodes, groups, order, members, noderange>>
    BY <1>11 DEF ClearGroupAttr
  <2>2. \A n \in Node : nattr[n][a].from # g =>
          NodeRemoved(nattr[n][a], {g}, order[n], gattr', a) = nattr[n][a]
    BY DEF NodeRemoved
  <2>3. \A n \in Node : n \notin marked' => nattr'[n] = nattr[n]
    BY <1>b, <2>1, <2>2
  <2>4. \A n \in Node : nattr'[n] = [b \in Attr |-> nattr'[n][b]]
    BY <1>b, <2>1
  <2>5. Shape'
    <3>1. gattr' = [h \in Group |-> [b \in Attr |-> gattr'[h][b]]]
      BY <1>a, <2>1
    <3>2. nattr' = [n \in Node |-> nattr'[n]]
      BY <2>1
    <3>3. nattr' = [n \in Node |-> [b \in Attr |-> nattr'[n][b]]]
      BY <2>4, <3>2
    <3> QED BY <3>1, <3>3
  <2>6. \A h \in Group \ {g} : gattr'[h] = gattr[h]
    BY <1>a, <2>1
  <2> QED BY <2>1, <2>3, <2>5, <2>6
<1>12. ASSUME NEW g \in Group, NEW a \in Attr, NEW v \in Value, SetGroupAttr(g, a, v)
       PROVE  Shape' /\ AllMarked
  <2>1. /\ g \in groups /\ gattr' = [gattr EXCEPT ![g] = [@ EXCEPT ![a] = v]]
        /\ nattr' = [n \in Node |->
                        IF n \notin members[g] THEN nattr[n]
                        ELSE [nattr[n] EXCEPT ![a] =
                                 DoInheritanceFrom(nattr[n][a], order[n], gattr', a, g)]]
        /\ marked' = {g} \cup {n \in members[g] :
                                  /\ ~IsOwn(nattr[n][a])
                                  /\ Inherited(order[n], gattr', a).from = g}
        /\ UNCHANGED <<nodes, groups, order, members, noderange>>
    BY <1>12 DEF SetGroupAttr
  <2>2. \A n \in Node : IsOwn(nattr[n][a]) \/ Inherited(order[n], gattr', a).from # g =>
          DoInheritanceFrom(nattr[n][a], order[n], gattr', a, g) = nattr[n][a]
    BY DEF DoInheritanceFrom, DoInheritance
  <2>3. \A n \in Node : n \notin marked' => nattr'[n] = nattr[n]
    BY <1>b, <2>1, <2>2
  <2>4. \A n \in Node : nattr'[n] = [b \in Attr |-> nattr'[n][b]]
    BY <1>b, <2>1
  <2>5. Shape'
    <3>1. gattr' = [h \in Group |-> [b \in Attr |-> gattr'[h][b]]]
      BY <1>a, <2>1
    <3>2. nattr' = [n \in Node |-> nattr'[n]]
      BY <2>1
    <3>3. nattr' = [n \in Node |-> [b \in Attr |-> nattr'[n][b]]]
      BY <2>4, <3>2
    <3> QED BY <3>1, <3>3
  <2>6. \A h \in Group \ {g} : gattr'[h] = gattr[h]
    BY <1>a, <2>1
  <2> QED BY <2>1, <2>3, <2>5, <2>6
<1>13. ASSUME NEW g \in Group, NEW new \in Group, RenameGroup(g, new)
       PROVE  Shape' /\ AllMarked
  <2>1. /\ groups' = (groups \ {g}) \cup {new}
        /\ members' = [members EXCEPT ![new] = members[g], ![g] = {}]
        /\ gattr' = [gattr EXCEPT ![new] = gattr[g],
                                  ![g] = [a \in Attr |-> Absent]]
        /\ noderange' = IF g \in noderange THEN (noderange \ {g}) \cup {new}
                        ELSE noderange
        /\ \A n \in Node : n \notin members[g] => order'[n] = order[n]
        /\ nattr' = [n \in Node |-> [a \in Attr |->
                        IF n \notin members[g] THEN nattr[n][a]
                        ELSE NodeAdded(
                                NodeRemoved(nattr[n][a], {g}, order'[n], gattr', a),
                                new, order'[n], gattr', a)]]
        /\ marked' = {g, new} \cup members[g]
        /\ UNCHANGED nodes
    BY <1>13 DEF RenameGroup
  <2>2. \A n \in Node : n \notin members[g] => nattr'[n] = [a \in Attr |-> nattr[n][a]]
    BY <2>1
  <2>3. \A n \in Node : n \notin members[g] => nattr'[n] = nattr[n]
    BY <1>b, <2>2
  <2>4. nattr' = [n \in Node |-> [a \in Attr |-> nattr'[n][a]]]
    BY <2>1
  <2>5. gattr' = [h \in Group |-> [a \in Attr |-> gattr'[h][a]]]
    BY <1>a, <1>c, <2>1
  <2>6. \A h \in Group : h \notin {g, new} => members'[h] = members[h] /\ gattr'[h] = gattr[h]
    BY <1>a, <2>1
  <2>7. \A n \in Node : NodeChanged(n) => n \in marked'
    BY <2>1, <2>3
  <2>8. \A h \in Group : GroupChanged(h) => h \in marked'
    BY <2>1, <2>6
  <2> QED BY <2>4, <2>5, <2>7, <2>8
<1>14. CASE UNCHANGED vars
  BY <1>0, <1>a, <1>14 DEF vars, MarkInv
<1>15. CASE Next
  <2>1. Shape' /\ AllMarked
    BY <1>1, <1>2, <1>3, <1>4, <1>5, <1>6, <1>7, <1>8, <1>9, <1>10, <1>11, <1>12,
       <1>13, <1>15 DEF Next
  <2> QED BY <1>0, <2>1 DEF MarkInv
<1> QED BY <1>14, <1>15

\* Every change of a node or a group, whatever it is a consequence of, is
\* marked for the writer, so that it is not lost when the process restarts.
THEOREM MarksCorrect == Spec => MarksComplete
<1>1. MarkInv /\ [Next]_vars => [AllMarked]_vars
  BY MarkStep
<1>2. MarksComplete <=> [][AllMarked]_vars
  BY DEF MarksComplete, AllMarked
<1> QED BY <1>1, <1>2, InitMark, MarkStep, PTL DEF Spec

-----------------------------------------------------------------------------
(* What a node inherits.                                                   *)

\* The group at i is the first of a list that has the attribute a.
First(list, ga, a, i) ==
    /\ i \in DOMAIN list /\ ga[list[i]][a] # Absent
    /\ \A j \in DOMAIN list : j < i => ga[list[j]][a] = Absent

\* An entry is the node's own, or the copy that the list of groups calls for.
Current(e, list, ga, a) == IsOwn(e) \/ e = Inherited(list, ga, a)

\* A group has the attribute exactly if there is a first one that has it.
LEMMA SomeFirst ==
    ASSUME NEW list \in Seq(Group), NEW ga, NEW a
    PROVE  Providers(list, ga, a) = {} <=> ~ \E i : First(list, ga, a, i)
<1> DEFINE P == Providers(list, ga, a)
<1>0. DOMAIN list = 1 .. Len(list) /\ Len(list) \in Nat
  OBVIOUS
<1>1. ASSUME NEW i, First(list, ga, a, i) PROVE P # {}
  <2>1. i \in P
    BY <1>1 DEF First, Providers
  <2> QED BY <2>1
<1>2. ASSUME P # {} PROVE \E i : First(list, ga, a, i)
  <2>1. P \in SUBSET Nat
    BY <1>0 DEF Providers
  <2>2. Min(P) \in P /\ \A j \in P : Min(P) <= j
    BY <1>2, <2>1, Minimum
  <2>3. First(list, ga, a, Min(P))
    <3>1. \A j \in DOMAIN list : j < Min(P) => j \notin P
      BY <1>0, <2>1, <2>2
    <3> QED BY <2>2, <3>1 DEF First, Providers
  <2> QED BY <2>3
<1> QED BY <1>1, <1>2

\* Inherited takes the copy from the first group that has the attribute.
LEMMA InheritedFirst ==
    ASSUME NEW list \in Seq(Group), NEW ga, NEW a, NEW i, First(list, ga, a, i)
    PROVE  Inherited(list, ga, a) = [value |-> ga[list[i]][a], from |-> list[i]]
<1> DEFINE P == Providers(list, ga, a)
<1>0. DOMAIN list = 1 .. Len(list) /\ Len(list) \in Nat
  OBVIOUS
<1>1. i \in P /\ i \in Nat /\ P \in SUBSET Nat
  BY <1>0 DEF First, Providers
<1>2. Min(P) \in P /\ Min(P) <= i
  BY <1>1, Minimum
<1>3. ~ (Min(P) < i)
  BY <1>2 DEF First, Providers
<1>4. Min(P) = i
  BY <1>1, <1>2, <1>3
<1> QED BY <1>1, <1>4 DEF Inherited

\* Without one there is nothing to inherit.
LEMMA InheritedNone ==
    ASSUME NEW list, NEW ga, NEW a, Providers(list, ga, a) = {}
    PROVE  Inherited(list, ga, a) = Unset
BY DEF Inherited

\* What is inherited is no value of the node's own, and comes from a group of
\* the list, or from none.
LEMMA InheritedKind ==
    ASSUME NEW list \in Seq(Group), NEW ga, NEW a
    PROVE  LET e == Inherited(list, ga, a)
           IN  /\ ~ IsOwn(e)
               /\ \/ e = Unset /\ Providers(list, ga, a) = {}
                  \/ /\ e.from \in ToSet(list) /\ e.value = ga[e.from][a]
                     /\ e.value # Absent /\ e = [value |-> e.value, from |-> e.from]
                     /\ Providers(list, ga, a) # {}
<1>1. CASE Providers(list, ga, a) = {}
  BY <1>1, InheritedNone DEF IsOwn, Unset
<1>2. CASE Providers(list, ga, a) # {}
  <2>1. PICK i : First(list, ga, a, i)
    BY <1>2, SomeFirst
  <2>2. Inherited(list, ga, a) = [value |-> ga[list[i]][a], from |-> list[i]]
    BY <2>1, InheritedFirst
  <2>3. list[i] \in ToSet(list) /\ list[i] \in Group /\ ga[list[i]][a] # Absent
    BY <2>1 DEF First, ToSet
  <2> QED BY <1>2, <2>2, <2>3, GroupAssumption DEF IsOwn
<1> QED BY <1>1, <1>2

\* A lookup from nothing gives what there is to inherit.
LEMMA LookedUp ==
    ASSUME NEW list, NEW ga, NEW a
    PROVE  DoInheritance(Unset, list, ga, a) = Inherited(list, ga, a)
BY DEF DoInheritance, Inherited, IsOwn, Unset

\* A lookup is idempotent, and brings up to date whatever was there when some
\* group has the attribute.
LEMMA DoneAgain ==
    ASSUME NEW e, NEW list, NEW ga, NEW a,
           Current(e, list, ga, a) \/ Providers(list, ga, a) # {}
    PROVE  Current(DoInheritance(e, list, ga, a), list, ga, a)
BY DEF Current, DoInheritance

\* Where each first group of the old list is a first group of the new one, with
\* its value, and the new one has none if the old one had none, a copy needs
\* no lookup; if not, a lookup after the removal of the group it came from
\* (_node_removed_from_group) makes it current.
LEMMA RemovedCurrent ==
    ASSUME NEW e, NEW old \in Seq(Group), NEW go, NEW list \in Seq(Group), NEW ga,
           NEW a, NEW gone \in SUBSET Group, Current(e, old, go, a),
           Providers(old, go, a) = {} => Providers(list, ga, a) = {},
           \A i : First(old, go, a, i) /\ old[i] \notin gone =>
              \E k : /\ First(list, ga, a, k) /\ list[k] = old[i]
                     /\ ga[list[k]][a] = go[old[i]][a]
    PROVE  Current(NodeRemoved(e, gone, list, ga, a), list, ga, a)
<1>1. CASE e.from \in gone
  BY <1>1, LookedUp DEF NodeRemoved, Current
<1>2. CASE e.from \notin gone
  <2> SUFFICES Current(e, list, ga, a)
    BY <1>2 DEF NodeRemoved
  <2>1. CASE IsOwn(e)
    BY <2>1 DEF Current
  <2>2. CASE ~ IsOwn(e) /\ Providers(old, go, a) = {}
    BY <2>2, InheritedNone DEF Current
  <2>3. CASE ~ IsOwn(e) /\ Providers(old, go, a) # {}
    <3>1. PICK i : First(old, go, a, i)
      BY <2>3, SomeFirst
    <3>2. e = [value |-> go[old[i]][a], from |-> old[i]]
      BY <2>3, <3>1, InheritedFirst DEF Current
    <3>3. PICK k : /\ First(list, ga, a, k) /\ list[k] = old[i]
                   /\ ga[list[k]][a] = go[old[i]][a]
      BY <1>2, <3>1, <3>2
    <3>4. e = Inherited(list, ga, a)
      BY <3>2, <3>3, InheritedFirst
    <3> QED BY <3>4 DEF Current
  <2> QED BY <2>1, <2>2, <2>3
<1> QED BY <1>1, <1>2

\* The same without a removal.
LEMMA StillCurrent ==
    ASSUME NEW e, NEW old \in Seq(Group), NEW go, NEW list \in Seq(Group), NEW ga,
           NEW a, Current(e, old, go, a),
           Providers(old, go, a) = {} => Providers(list, ga, a) = {},
           \A i : First(old, go, a, i) =>
              \E k : /\ First(list, ga, a, k) /\ list[k] = old[i]
                     /\ ga[list[k]][a] = go[old[i]][a]
    PROVE  Current(e, list, ga, a)
<1>1. Current(NodeRemoved(e, {}, list, ga, a), list, ga, a)
  BY RemovedCurrent
<1>2. NodeRemoved(e, {}, list, ga, a) = e
  BY DEF NodeRemoved
<1> QED BY <1>1, <1>2

\* The attributes of groups that are not in the list do not matter.
LEMMA SameGroups ==
    ASSUME NEW e, NEW list \in Seq(Group), NEW go, NEW ga, NEW a,
           Current(e, list, go, a), \A h \in ToSet(list) : ga[h][a] = go[h][a]
    PROVE  Current(e, list, ga, a)
<1>1. \A j \in DOMAIN list : ga[list[j]][a] = go[list[j]][a]
  BY DEF ToSet
<1>2. Providers(list, ga, a) = Providers(list, go, a)
  BY <1>1 DEF Providers
<1>3. \A i : First(list, go, a, i) => First(list, ga, a, i)
  BY <1>1 DEF First
<1> QED BY <1>1, <1>2, <1>3, StillCurrent DEF First

\* When a group leaves the list, a copy that came from another one stays.
LEMMA LeavesCurrent ==
    ASSUME NEW e, NEW s \in Seq(Group), IsInjective(s), NEW g \in ToSet(s), NEW ga,
           NEW a, Current(e, s, ga, a)
    PROVE  LET t == RemoveFirst(s, g)
           IN  Current(NodeRemoved(e, {g}, t, ga, a), t, ga, a)
<1> DEFINE t == RemoveFirst(s, g)
<1>0. DOMAIN s = 1 .. Len(s) /\ Len(s) \in Nat /\ g \in Group
  BY DEF ToSet
<1>1. t \in Seq(Group) /\ Len(t) = Len(s) - 1
  BY RemoveShift
<1>2. PICK m \in 1 .. Len(s) :
        s[m] = g /\ \A j \in 1 .. Len(s) - 1 : t[j] = IF j < m THEN s[j] ELSE s[j + 1]
  BY RemoveShift
<1> HIDE DEF t
<1>3. DOMAIN t = 1 .. Len(s) - 1
  BY <1>0, <1>1
<1>4. Providers(s, ga, a) = {} => Providers(t, ga, a) = {}
  <2>1. \A j \in DOMAIN t : j \in DOMAIN s /\ j + 1 \in DOMAIN s
    BY <1>0, <1>3
  <2>2. \A j \in DOMAIN t : t[j] = s[j] \/ t[j] = s[j + 1]
    BY <1>2, <1>3
  <2> QED BY <2>1, <2>2 DEF Providers
<1>5. ASSUME NEW i, First(s, ga, a, i), s[i] \notin {g}
      PROVE  \E k : First(t, ga, a, k) /\ t[k] = s[i] /\ ga[t[k]][a] = ga[s[i]][a]
  <2>1. i \in 1 .. Len(s) /\ i # m /\ ga[s[i]][a] # Absent
    BY <1>0, <1>2, <1>5 DEF First
  <2>2. \A j \in 1 .. Len(s) : j < i => ga[s[j]][a] = Absent
    BY <1>0, <1>5 DEF First
  <2>3. CASE i < m
    <3>1. i \in 1 .. Len(s) - 1 /\ t[i] = s[i]
      BY <1>0, <1>2, <2>1, <2>3
    <3>2. \A j \in 1 .. Len(s) - 1 : j < i => t[j] = s[j] /\ j \in 1 .. Len(s)
      BY <1>0, <1>2, <2>1, <2>3
    <3>3. First(t, ga, a, i)
      BY <1>3, <2>1, <2>2, <3>1, <3>2 DEF First
    <3> QED BY <3>1, <3>3
  <2>4. CASE i > m
    <3>1. i - 1 \in 1 .. Len(s) - 1 /\ t[i - 1] = s[i]
      BY <1>0, <1>2, <2>1, <2>4
    <3>2. \A j \in 1 .. Len(s) - 1 : j < i - 1 =>
            \E k \in 1 .. Len(s) : k < i /\ t[j] = s[k]
      BY <1>0, <1>2, <2>1, <2>4
    <3>3. First(t, ga, a, i - 1)
      BY <1>3, <2>1, <2>2, <3>1, <3>2 DEF First
    <3> QED BY <3>1, <3>3
  <2> QED BY <1>0, <2>1, <2>3, <2>4
<1>6. Current(NodeRemoved(e, {g}, t, ga, a), t, ga, a)
  BY <1>0, <1>1, <1>4, <1>5, RemovedCurrent
<1> QED BY <1>6 DEF t

\* A group that enters at the front takes precedence if it has the attribute.
LEMMA EntersCurrent ==
    ASSUME NEW e, NEW s \in Seq(Group), NEW g \in Group, NEW ga, NEW a,
           Current(e, s, ga, a)
    PROVE  LET t == <<g>> \o s
           IN  Current(NodeAdded(e, g, t, ga, a), t, ga, a)
<1> DEFINE t == <<g>> \o s
<1>1. /\ t \in Seq(Group) /\ DOMAIN t = 1 .. Len(s) + 1 /\ Len(s) \in Nat
      /\ DOMAIN s = 1 .. Len(s)
      /\ \A j \in 1 .. Len(s) + 1 : t[j] = IF j = 1 THEN g ELSE s[j - 1]
  OBVIOUS
<1> HIDE DEF t
<1>2. CASE ga[g][a] # Absent
  <2>1. 1 \in DOMAIN t /\ t[1] = g
    BY <1>1
  <2>2. Providers(t, ga, a) # {}
    BY <1>2, <2>1 DEF Providers
  <2>3. Current(DoInheritance(e, t, ga, a), t, ga, a)
    BY <2>2, DoneAgain
  <2> QED BY <1>2, <2>3 DEF NodeAdded, t
<1>3. CASE ga[g][a] = Absent
  <2>1. \A j \in DOMAIN t : t[j] = g \/ \E k \in DOMAIN s : k = j - 1 /\ t[j] = s[k]
    BY <1>1
  <2>2. Providers(s, ga, a) = {} => Providers(t, ga, a) = {}
    BY <1>3, <2>1 DEF Providers
  <2>3. ASSUME NEW i, First(s, ga, a, i)
        PROVE  \E k : First(t, ga, a, k) /\ t[k] = s[i] /\ ga[t[k]][a] = ga[s[i]][a]
    <3>1. i \in 1 .. Len(s) /\ ga[s[i]][a] # Absent
      BY <1>1, <2>3 DEF First
    <3>2. i + 1 \in DOMAIN t /\ t[i + 1] = s[i]
      BY <1>1, <3>1
    <3>3. \A j \in DOMAIN t : j < i + 1 => ga[t[j]][a] = Absent
      <4> SUFFICES ASSUME NEW j \in DOMAIN t, j < i + 1 PROVE ga[t[j]][a] = Absent
        OBVIOUS
      <4>1. CASE t[j] = g
        BY <1>3, <4>1
      <4>2. CASE \E k \in DOMAIN s : k = j - 1 /\ t[j] = s[k]
        <5>1. PICK k \in DOMAIN s : k = j - 1 /\ t[j] = s[k]
          BY <4>2
        <5>2. k < i
          BY <1>1, <3>1, <5>1
        <5> QED BY <2>3, <5>1, <5>2 DEF First
      <4> QED BY <2>1, <4>1, <4>2
    <3>4. First(t, ga, a, i + 1)
      BY <3>1, <3>2, <3>3 DEF First
    <3> QED BY <3>2, <3>4
  <2>4. Current(e, t, ga, a)
    BY <1>1, <2>2, <2>3, StillCurrent
  <2> QED BY <1>3, <2>4 DEF NodeAdded, t
<1> QED BY <1>2, <1>3

-----------------------------------------------------------------------------
(* Inherited attributes are current.                                       *)

\* The types of what MemberTypes leaves out.
Valued ==
    /\ gattr \in [Group -> [Attr -> Value \cup {Absent}]]
    /\ nattr \in [Node -> [Attr -> Entry]]
    /\ noderange \subseteq Group /\ marked \subseteq Node \cup Group

\* A node that does not exist is included: what a deletion leaves behind would
\* be inherited by the next node of that name.
Resolved ==
    \A n \in Node, a \in Attr : Current(nattr[n][a], order[n], gattr, a)

ResolvedInv == MemberInv /\ Valued /\ Resolved

\* What the helpers return is an entry.
LEMMA EntryKept ==
    ASSUME NEW e \in Entry, NEW list \in Seq(Group), NEW a \in Attr, NEW g, NEW gone,
           NEW ga \in [Group -> [Attr -> Value \cup {Absent}]]
    PROVE  /\ Unset \in Entry
           /\ DoInheritance(e, list, ga, a) \in Entry
           /\ DoInheritanceFrom(e, list, ga, a, g) \in Entry
           /\ NodeRemoved(e, gone, list, ga, a) \in Entry
           /\ NodeAdded(e, g, list, ga, a) \in Entry
<1>1. Inherited(list, ga, a) \in Entry
  <2> DEFINE i == Inherited(list, ga, a)
  <2>1. \/ i = Unset
        \/ /\ i.from \in ToSet(list) /\ i.value = ga[i.from][a]
           /\ i.value # Absent /\ i = [value |-> i.value, from |-> i.from]
    BY InheritedKind
  <2>2. ToSet(list) \subseteq Group
    BY DEF ToSet
  <2> HIDE DEF i
  <2>3. i \in Entry
    BY <2>1, <2>2 DEF Entry
  <2> QED BY <2>3 DEF i
<1>2. Unset \in Entry
  BY DEF Entry
<1> QED BY <1>1, <1>2 DEF DoInheritance, DoInheritanceFrom, NodeRemoved, NodeAdded

\* Nothing is in the tables at first.
LEMMA InitResolved == Init => ResolvedInv
<1> SUFFICES ASSUME Init PROVE ResolvedInv
  OBVIOUS
<1>1. Valued
  BY DEF Init, Valued, Entry
<1>2. ASSUME NEW n \in Node, NEW a \in Attr
      PROVE  Current(nattr[n][a], order[n], gattr, a)
  <2>1. nattr[n][a] = Unset /\ order[n] = <<>>
    BY DEF Init
  <2>2. Providers(<<>>, gattr, a) = {}
    BY DEF Providers
  <2> QED BY <2>1, <2>2, InheritedNone DEF Current
<1> QED BY <1>1, <1>2, InitMember DEF ResolvedInv, Resolved

\* _sync_nodes_to_group looks up again what a node that leaves had from the
\* group, and what the group has for a node that enters.
LEMMA SyncResolved ==
    ASSUME ResolvedInv, order' \in [Node -> Seq(Group)], NEW g \in groups,
           NEW ns \in SUBSET nodes, SyncNodesToGroup(g, ns)
    PROVE  /\ nattr' \in [Node -> [Attr -> Entry]]
           /\ marked' \subseteq Node \cup Group
           /\ \A n \in Node, a \in Attr : Current(nattr'[n][a], order'[n], gattr, a)
<1> DEFINE leaving == {n \in nodes \ ns : g \in ToSet(order[n])}
           entering == {n \in ns : g \notin ToSet(order[n])}
<1>1. /\ order' = [n \in Node |->
                      CASE n \in leaving -> RemoveFirst(order[n], g)
                        [] n \in entering -> <<g>> \o order[n]
                        [] OTHER -> order[n]]
      /\ nattr' = [n \in Node |-> [a \in Attr |->
                      CASE n \in leaving ->
                              NodeRemoved(nattr[n][a], {g}, order'[n], gattr, a)
                        [] n \in entering ->
                              NodeAdded(nattr[n][a], g, order'[n], gattr, a)
                        [] OTHER -> nattr[n][a]]]
      /\ marked' = {g} \cup leaving \cup entering
  BY DEF SyncNodesToGroup
<1>2. leaving \cap entering = {} /\ leaving \cup entering \subseteq Node
  BY DEF ResolvedInv, MemberInv, MemberTypes
<1>3. /\ \A n \in leaving : g \in ToSet(order[n])
      /\ g \in Group
      /\ \A n \in Node : order[n] \in Seq(Group) /\ IsInjective(order[n])
      /\ \A n \in Node, a \in Attr :
            nattr[n][a] \in Entry /\ Current(nattr[n][a], order[n], gattr, a)
      /\ gattr \in [Group -> [Attr -> Value \cup {Absent}]]
  BY DEF ResolvedInv, MemberInv, MemberTypes, Distinct, Valued, Resolved
<1> HIDE DEF leaving, entering
<1>4. ASSUME NEW n \in Node, NEW a \in Attr
      PROVE  nattr'[n][a] \in Entry /\ Current(nattr'[n][a], order'[n], gattr, a)
  <2>0. /\ order'[n] = CASE n \in leaving -> RemoveFirst(order[n], g)
                         [] n \in entering -> <<g>> \o order[n]
                         [] OTHER -> order[n]
        /\ nattr'[n][a] =
              CASE n \in leaving -> NodeRemoved(nattr[n][a], {g}, order'[n], gattr, a)
                [] n \in entering -> NodeAdded(nattr[n][a], g, order'[n], gattr, a)
                [] OTHER -> nattr[n][a]
        /\ order'[n] \in Seq(Group)
    BY <1>1
  <2>1. CASE n \in leaving
    <3>1. /\ order'[n] = RemoveFirst(order[n], g)
          /\ nattr'[n][a] = NodeRemoved(nattr[n][a], {g}, order'[n], gattr, a)
      BY <1>2, <2>0, <2>1
    <3>2. Current(nattr'[n][a], order'[n], gattr, a)
      BY <1>3, <2>1, <3>1, LeavesCurrent
    <3>3. NodeRemoved(nattr[n][a], {g}, order'[n], gattr, a) \in Entry
      BY <1>3, <2>0, EntryKept
    <3> QED BY <3>1, <3>2, <3>3
  <2>2. CASE n \in entering
    <3>1. /\ order'[n] = <<g>> \o order[n]
          /\ nattr'[n][a] = NodeAdded(nattr[n][a], g, order'[n], gattr, a)
      BY <1>2, <2>0, <2>2
    <3>2. Current(nattr'[n][a], order'[n], gattr, a)
      BY <1>3, <3>1, EntersCurrent
    <3>3. NodeAdded(nattr[n][a], g, order'[n], gattr, a) \in Entry
      BY <1>3, <2>0, EntryKept
    <3> QED BY <3>1, <3>2, <3>3
  <2>3. CASE n \notin leaving /\ n \notin entering
    <3>1. order'[n] = order[n] /\ nattr'[n][a] = nattr[n][a]
      BY <1>1, <2>3
    <3> QED BY <1>3, <3>1
  <2> QED BY <2>1, <2>2, <2>3
<1>5. nattr' \in [Node -> [Attr -> Entry]]
  <2>1. nattr' = [n \in Node |-> [a \in Attr |-> nattr'[n][a]]]
    BY <1>1
  <2> QED BY <1>4, <2>1
<1> QED BY <1>1, <1>2, <1>3, <1>4, <1>5

\* SetNodeGroups: the lookup after the removals finds the first of the new list.
LEMMA SetResolved ==
    ASSUME ResolvedInv, MemberInv', NEW n \in Node, NEW input, SetNodeGroups(n, input)
    PROVE  ResolvedInv'
<1> DEFINE list == WithEverything(input)
           dropped == {g \in groups : n \in members[g] /\ g \notin ToSet(list)}
           added == {g \in ToSet(list) : n \notin members[g]}
<1>1. /\ order' = [order EXCEPT ![n] = list]
      /\ nattr' = [nattr EXCEPT ![n] = [a \in Attr |->
                      DoInheritance(
                          NodeRemoved(nattr[n][a], dropped, list, gattr, a),
                          list, gattr, a)]]
      /\ marked' = {n} \cup dropped \cup added
      /\ UNCHANGED <<groups, gattr, noderange>>
  BY DEF SetNodeGroups
<1>2. /\ order \in [Node -> Seq(Group)] /\ order' \in [Node -> Seq(Group)]
      /\ gattr \in [Group -> [Attr -> Value \cup {Absent}]]
      /\ nattr \in [Node -> [Attr -> Entry]]
      /\ noderange \subseteq Group /\ groups \subseteq Group
      /\ \A m \in Node, a \in Attr : Current(nattr[m][a], order[m], gattr, a)
      /\ \A g \in ToSet(order[n]) : g \in groups /\ n \in members[g]
  <2>1. \A g \in ToSet(order[n]) : g \in Group
    BY DEF ResolvedInv, MemberInv, MemberTypes, ToSet
  <2> QED BY <2>1 DEF ResolvedInv, MemberInv, MemberTypes, Valued, Resolved,
                      MembershipAgrees, Outside
<1>3. list \in Seq(Group) /\ ToSet(list) \subseteq Group
  <2>1. list \in Seq(Group)
    <3> HIDE DEF list
    <3> QED BY <1>1, <1>2
  <2> HIDE DEF list
  <2> QED BY <2>1 DEF ToSet
<1>4. dropped \subseteq Group /\ added \subseteq Group /\ Absent \notin dropped
      /\ \A g \in ToSet(order[n]) : g \in dropped \/ g \in ToSet(list)
  BY <1>2, <1>3, GroupAssumption
<1> HIDE DEF list, dropped, added
<1>5. ASSUME NEW a \in Attr
      PROVE  nattr'[n][a] \in Entry /\ Current(nattr'[n][a], list, gattr, a)
  <2> DEFINE e == nattr[n][a]
             r == NodeRemoved(e, dropped, list, gattr, a)
  <2>1. nattr'[n][a] = DoInheritance(r, list, gattr, a)
    BY <1>1, <1>2
  <2>2. e \in Entry /\ Current(e, order[n], gattr, a) /\ order[n] \in Seq(Group)
    BY <1>2
  <2> HIDE DEF e
  <2>3. r \in Entry
    BY <1>2, <1>3, <2>2, EntryKept
  <2>4. Current(r, list, gattr, a) \/ Providers(list, gattr, a) # {}
    <3>1. CASE e.from \in dropped
      BY <3>1, LookedUp DEF NodeRemoved, Current
    <3>2. CASE e.from \notin dropped /\ IsOwn(e)
      BY <3>2 DEF NodeRemoved, Current
    <3>3. CASE e.from \notin dropped /\ ~ IsOwn(e)
      <4>1. r = e /\ e = Inherited(order[n], gattr, a)
        BY <2>2, <3>3 DEF NodeRemoved, Current
      <4>2. CASE Providers(order[n], gattr, a) = {}
        <5>1. e = Unset
          BY <4>1, <4>2, InheritedNone
        <5>2. Providers(list, gattr, a) = {} => Current(e, list, gattr, a)
          BY <5>1, InheritedNone DEF Current
        <5> QED BY <4>1, <5>2
      <4>3. CASE Providers(order[n], gattr, a) # {}
        <5>1. e.from \in ToSet(order[n]) /\ gattr[e.from][a] # Absent
          BY <2>2, <4>1, <4>3, InheritedKind
        <5>2. e.from \in ToSet(list)
          BY <1>4, <3>3, <5>1
        <5>3. PICK i \in DOMAIN list : list[i] = e.from
          BY <5>2 DEF ToSet
        <5>4. i \in Providers(list, gattr, a)
          BY <5>1, <5>3 DEF Providers
        <5> QED BY <5>4
      <4> QED BY <4>2, <4>3
    <3> QED BY <3>1, <3>2, <3>3
  <2> HIDE DEF r
  <2>5. Current(DoInheritance(r, list, gattr, a), list, gattr, a)
    BY <2>4, DoneAgain
  <2>6. DoInheritance(r, list, gattr, a) \in Entry
    BY <1>2, <1>3, <2>3, EntryKept
  <2> QED BY <2>1, <2>5, <2>6
<1>6. \A m \in Node : m # n => nattr'[m] = nattr[m] /\ order'[m] = order[m]
  BY <1>1, <1>2
<1>7. order'[n] = list /\ nattr'[n] = [a \in Attr |-> nattr'[n][a]]
  BY <1>1, <1>2
<1>8. Valued'
  <2>1. nattr'[n] \in [Attr -> Entry]
    BY <1>5, <1>7
  <2>2. nattr' = [m \in Node |-> IF m = n THEN nattr'[n] ELSE nattr[m]]
    BY <1>1, <1>2
  <2>3. nattr' \in [Node -> [Attr -> Entry]]
    BY <1>2, <2>1, <2>2
  <2> QED BY <1>1, <1>2, <1>4, <2>3 DEF Valued
<1>9. Resolved'
  BY <1>1, <1>2, <1>5, <1>6, <1>7 DEF Resolved
<1> QED BY <1>8, <1>9 DEF ResolvedInv

\* SetGroupAttr and ClearGroupAttr: only members inherit from the group, and a
\* copy from a group before it, or from another one, does not change.
LEMMA GroupAttrResolved ==
    ASSUME ResolvedInv, NEW g \in Group, NEW a \in Attr,
           ClearGroupAttr(g, a) \/ \E v \in Value : SetGroupAttr(g, a, v)
    PROVE  Valued' /\ Resolved'
<1>1. PICK v \in Value \cup {Absent} :
        /\ gattr' = [gattr EXCEPT ![g] = [@ EXCEPT ![a] = v]]
        /\ UNCHANGED <<nodes, groups, order, members, noderange>>
        /\ marked' \subseteq {g} \cup members[g]
        /\ v = Absent =>
              nattr' = [n \in Node |->
                           IF n \notin members[g] THEN nattr[n]
                           ELSE [nattr[n] EXCEPT ![a] =
                                    NodeRemoved(nattr[n][a], {g}, order[n], gattr', a)]]
        /\ v # Absent =>
              nattr' = [n \in Node |->
                           IF n \notin members[g] THEN nattr[n]
                           ELSE [nattr[n] EXCEPT ![a] =
                                    DoInheritanceFrom(nattr[n][a], order[n], gattr', a, g)]]
  <2>1. CASE ClearGroupAttr(g, a)
    BY <2>1 DEF ClearGroupAttr
  <2>2. ASSUME NEW v \in Value, SetGroupAttr(g, a, v)
        PROVE  /\ gattr' = [gattr EXCEPT ![g] = [@ EXCEPT ![a] = v]]
               /\ UNCHANGED <<nodes, groups, order, members, noderange>>
               /\ marked' \subseteq {g} \cup members[g]
               /\ v # Absent
               /\ nattr' = [n \in Node |->
                           IF n \notin members[g] THEN nattr[n]
                           ELSE [nattr[n] EXCEPT ![a] =
                                    DoInheritanceFrom(nattr[n][a], order[n], gattr', a, g)]]
    BY <2>2, GroupAssumption DEF SetGroupAttr
  <2> QED BY <2>1, <2>2
<1>2. /\ order \in [Node -> Seq(Group)] /\ members \in [Group -> SUBSET Node]
      /\ gattr \in [Group -> [Attr -> Value \cup {Absent}]]
      /\ nattr \in [Node -> [Attr -> Entry]]
      /\ noderange \subseteq Group
      /\ \A n \in Node, b \in Attr : Current(nattr[n][b], order[n], gattr, b)
      /\ \A n \in Node : g \in ToSet(order[n]) <=> n \in members[g]
  BY DEF ResolvedInv, MemberInv, MemberTypes, MembershipAgrees, Valued, Resolved
<1>3. /\ gattr' \in [Group -> [Attr -> Value \cup {Absent}]]
      /\ \A h \in Group, b \in Attr :
            gattr'[h][b] = IF h = g /\ b = a THEN v ELSE gattr[h][b]
  BY <1>1, <1>2
<1>4. \A n \in Node, b \in Attr : ~ (n \in members[g] /\ b = a) => nattr'[n][b] = nattr[n][b]
  BY <1>1, <1>2
<1>5. \A n \in Node : n \in members[g] =>
        /\ v = Absent => nattr'[n][a] = NodeRemoved(nattr[n][a], {g}, order[n], gattr', a)
        /\ v # Absent => nattr'[n][a] = DoInheritanceFrom(nattr[n][a], order[n], gattr', a, g)
  <2> SUFFICES ASSUME NEW n \in Node, n \in members[g]
               PROVE  /\ v = Absent =>
                            nattr'[n][a] = NodeRemoved(nattr[n][a], {g}, order[n], gattr', a)
                      /\ v # Absent =>
                            nattr'[n][a] =
                              DoInheritanceFrom(nattr[n][a], order[n], gattr', a, g)
    OBVIOUS
  <2>1. \A e : [nattr[n] EXCEPT ![a] = e][a] = e
    BY <1>2
  <2>2. v = Absent =>
          nattr'[n] = [nattr[n] EXCEPT ![a] =
                          NodeRemoved(nattr[n][a], {g}, order[n], gattr', a)]
    BY <1>1
  <2>3. v # Absent =>
          nattr'[n] = [nattr[n] EXCEPT ![a] =
                          DoInheritanceFrom(nattr[n][a], order[n], gattr', a, g)]
    BY <1>1
  <2> QED BY <2>1, <2>2, <2>3
<1>6. ASSUME NEW n \in Node, NEW b \in Attr
      PROVE  nattr'[n][b] \in Entry /\ Current(nattr'[n][b], order[n], gattr', b)
  <2> DEFINE list == order[n]
             e == nattr[n][b]
  <2>1. list \in Seq(Group) /\ e \in Entry /\ Current(e, list, gattr, b)
        /\ DOMAIN list = 1 .. Len(list) /\ Len(list) \in Nat
        /\ (g \in ToSet(list) <=> n \in members[g])
    BY <1>2
  <2>2. /\ \A i \in DOMAIN list : list[i] \in Group /\ list[i] \in ToSet(list)
        /\ ToSet(list) \subseteq Group
    BY <2>1 DEF ToSet
  <2> HIDE DEF list
  <2>3. CASE ~ (n \in members[g] /\ b = a)
    <3>1. \A h \in ToSet(list) : gattr'[h][b] = gattr[h][b]
      BY <1>3, <2>1, <2>2, <2>3
    <3>2. Current(e, list, gattr', b)
      BY <2>1, <3>1, SameGroups
    <3> QED BY <1>4, <2>1, <2>3, <3>2 DEF list
  <2>4. CASE n \in members[g] /\ b = a /\ v = Absent
    <3>1. nattr'[n][b] = NodeRemoved(e, {g}, list, gattr', b)
      BY <1>5, <2>4 DEF list
    <3>2. \A i \in DOMAIN list : gattr'[list[i]][b] =
            IF list[i] = g THEN Absent ELSE gattr[list[i]][b]
      BY <1>3, <2>2, <2>4
    <3>3. Providers(list, gattr, b) = {} => Providers(list, gattr', b) = {}
      BY <3>2 DEF Providers
    <3>4. ASSUME NEW i, First(list, gattr, b, i), list[i] \notin {g}
          PROVE  First(list, gattr', b, i) /\ gattr'[list[i]][b] = gattr[list[i]][b]
      BY <3>2, <3>4 DEF First
    <3>5. Current(NodeRemoved(e, {g}, list, gattr', b), list, gattr', b)
      BY <2>1, <3>3, <3>4, RemovedCurrent
    <3>6. NodeRemoved(e, {g}, list, gattr', b) \in Entry
      BY <1>3, <2>1, EntryKept
    <3> QED BY <3>1, <3>5, <3>6 DEF list
  <2>5. CASE n \in members[g] /\ b = a /\ v # Absent
    <3>1. nattr'[n][b] = DoInheritanceFrom(e, list, gattr', b, g)
      BY <1>5, <2>5 DEF list
    <3>2. \A i \in DOMAIN list : gattr'[list[i]][b] =
            IF list[i] = g THEN v ELSE gattr[list[i]][b]
      BY <1>3, <2>2, <2>5
    <3>3. Providers(list, gattr', b) # {}
      <4>1. PICK i \in DOMAIN list : list[i] = g
        BY <2>1, <2>5 DEF ToSet
      <4>2. i \in Providers(list, gattr', b)
        BY <2>5, <3>2, <4>1 DEF Providers
      <4> QED BY <4>2
    <3>4. Current(DoInheritance(e, list, gattr', b), list, gattr', b)
      BY <3>3, DoneAgain
    <3>5. Inherited(list, gattr', b).from # g => Current(e, list, gattr', b)
      <4> SUFFICES ASSUME Inherited(list, gattr', b).from # g, ~ IsOwn(e)
                   PROVE  e = Inherited(list, gattr', b)
        BY DEF Current
      <4>1. PICK i : First(list, gattr', b, i)
        BY <2>1, <3>3, SomeFirst
      <4>2. Inherited(list, gattr', b) = [value |-> gattr'[list[i]][b], from |-> list[i]]
        BY <2>1, <4>1, InheritedFirst
      <4>3. list[i] # g
        BY <4>2
      <4>4. First(list, gattr, b, i) /\ gattr'[list[i]][b] = gattr[list[i]][b]
        BY <2>5, <3>2, <4>1, <4>3 DEF First
      <4>5. Inherited(list, gattr, b) = [value |-> gattr[list[i]][b], from |-> list[i]]
        BY <2>1, <4>4, InheritedFirst
      <4> QED BY <2>1, <4>2, <4>4, <4>5 DEF Current
    <3>6. Current(nattr'[n][b], list, gattr', b)
      BY <3>1, <3>4, <3>5 DEF DoInheritanceFrom
    <3>7. DoInheritanceFrom(e, list, gattr', b, g) \in Entry
      BY <1>3, <2>1, EntryKept
    <3> QED BY <3>1, <3>6, <3>7 DEF list
  <2> QED BY <2>3, <2>4, <2>5
<1>7. nattr' \in [Node -> [Attr -> Entry]]
  <2>1. nattr' = [n \in Node |-> nattr'[n]]
    BY <1>1
  <2>2. \A n \in Node : nattr'[n] = [b \in Attr |-> nattr'[n][b]]
    BY <1>1, <1>2
  <2>3. \A n \in Node : nattr'[n] \in [Attr -> Entry]
    BY <1>6, <2>2
  <2> QED BY <2>1, <2>3
<1>8. Valued'
  <2>1. marked' \subseteq Node \cup Group
    BY <1>1, <1>2
  <2> QED BY <1>1, <1>2, <1>3, <1>7, <2>1 DEF Valued
<1>9. Resolved'
  BY <1>1, <1>6 DEF Resolved
<1> QED BY <1>8, <1>9

\* RenameGroup: the lookups find under the new name what was found under the
\* old one.
LEMMA RenameResolved ==
    ASSUME ResolvedInv, MemberInv', NEW g \in Group, NEW new \in Group,
           RenameGroup(g, new)
    PROVE  Valued' /\ Resolved'
<1>1. /\ g \in groups /\ new \notin groups /\ g # new
      /\ gattr' = [gattr EXCEPT ![new] = gattr[g],
                                ![g] = [a \in Attr |-> Absent]]
      /\ noderange' = IF g \in noderange THEN (noderange \ {g}) \cup {new}
                      ELSE noderange
      /\ order' = [n \in Node |->
                      IF n \notin members[g] THEN order[n]
                      ELSE LET i == Min({j \in DOMAIN order[n] : order[n][j] = g})
                           IN  [order[n] EXCEPT ![i] = new]]
      /\ nattr' = [n \in Node |-> [a \in Attr |->
                      IF n \notin members[g] THEN nattr[n][a]
                      ELSE NodeAdded(
                              NodeRemoved(nattr[n][a], {g}, order'[n], gattr', a),
                              new, order'[n], gattr', a)]]
      /\ marked' = {g, new} \cup members[g]
  BY DEF RenameGroup
<1>2. /\ order \in [Node -> Seq(Group)] /\ order' \in [Node -> Seq(Group)]
      /\ members \in [Group -> SUBSET Node]
      /\ gattr \in [Group -> [Attr -> Value \cup {Absent}]]
      /\ nattr \in [Node -> [Attr -> Entry]] /\ noderange \subseteq Group
      /\ \A n \in Node : IsInjective(order[n])
      /\ \A n \in Node, a \in Attr : Current(nattr[n][a], order[n], gattr, a)
      /\ \A n \in Node, h \in Group : h \in ToSet(order[n]) <=> n \in members[h]
      /\ members[new] = {}
  BY <1>1 DEF ResolvedInv, MemberInv, MemberTypes, Distinct, Outside, MembershipAgrees,
              Valued, Resolved
<1>3. /\ gattr' \in [Group -> [Attr -> Value \cup {Absent}]]
      /\ \A h \in Group : gattr'[h] = IF h = g THEN [a \in Attr |-> Absent]
                                      ELSE IF h = new THEN gattr[g] ELSE gattr[h]
  BY <1>1, <1>2
<1>4. ASSUME NEW n \in Node, NEW a \in Attr
      PROVE  nattr'[n][a] \in Entry /\ Current(nattr'[n][a], order'[n], gattr', a)
  <2> DEFINE s == order[n]
             t == order'[n]
             e == nattr[n][a]
  <2>1. s \in Seq(Group) /\ t \in Seq(Group) /\ IsInjective(s) /\ e \in Entry
        /\ Current(e, s, gattr, a) /\ DOMAIN s = 1 .. Len(s) /\ Len(s) \in Nat
        /\ new \notin ToSet(s) /\ (g \in ToSet(s) <=> n \in members[g])
    BY <1>2
  <2>2. \A i \in DOMAIN s : s[i] \in Group /\ s[i] \in ToSet(s)
    BY <2>1 DEF ToSet
  <2>3. CASE n \notin members[g]
    <3>1. t = s /\ nattr'[n][a] = e
      BY <1>1, <2>3
    <3> HIDE DEF s, t, e
    <3>2. \A h \in ToSet(s) : h \in Group /\ h # g /\ h # new
      BY <2>1, <2>3 DEF ToSet
    <3>3. \A h \in ToSet(s) : gattr'[h][a] = gattr[h][a]
      BY <1>3, <3>2
    <3>4. Current(e, s, gattr', a)
      BY <2>1, <3>3, SameGroups
    <3> QED BY <2>1, <3>1, <3>4 DEF t
  <2>4. CASE n \in members[g]
    <3>1. PICK m \in DOMAIN s : s[m] = g
      BY <2>1, <2>4 DEF ToSet
    <3>2. t = [s EXCEPT ![m] = new]
      <4>1. {j \in DOMAIN s : s[j] = g} = {m}
        BY <2>1, <3>1 DEF IsInjective
      <4>2. m \in Nat /\ Min({m}) = m
        BY <2>1, <3>1 DEF Min
      <4> QED BY <1>1, <2>4, <4>1, <4>2
    <3> DEFINE r == NodeRemoved(e, {g}, t, gattr', a)
    <3>3. nattr'[n][a] = NodeAdded(r, new, t, gattr', a)
      BY <1>1, <2>4
    <3> HIDE DEF s, t, e
    <3>4. DOMAIN t = DOMAIN s /\ \A j \in DOMAIN s : t[j] = IF j = m THEN new ELSE s[j]
      BY <2>1, <3>2
    <3>5. \A j \in DOMAIN s : gattr'[t[j]][a] = gattr[s[j]][a]
      <4> SUFFICES ASSUME NEW j \in DOMAIN s PROVE gattr'[t[j]][a] = gattr[s[j]][a]
        OBVIOUS
      <4>1. CASE j = m
        BY <1>1, <1>3, <3>1, <3>4, <4>1
      <4>2. CASE j # m
        <5>1. t[j] = s[j] /\ s[j] # new /\ s[j] # g /\ s[j] \in Group
          BY <2>1, <2>2, <3>1, <3>4, <4>2 DEF IsInjective
        <5> QED BY <1>3, <5>1
      <4> QED BY <4>1, <4>2
    <3>6. Providers(s, gattr, a) = {} => Providers(t, gattr', a) = {}
      BY <3>4, <3>5 DEF Providers
    <3>7. ASSUME NEW i, First(s, gattr, a, i), s[i] \notin {g}
          PROVE  /\ First(t, gattr', a, i) /\ t[i] = s[i]
                 /\ gattr'[t[i]][a] = gattr[s[i]][a]
      <4>1. i \in DOMAIN s /\ i # m
        BY <3>1, <3>7 DEF First
      <4>2. t[i] = s[i] /\ gattr'[t[i]][a] = gattr[s[i]][a]
        BY <3>4, <3>5, <4>1
      <4>3. First(t, gattr', a, i)
        BY <3>4, <3>5, <3>7 DEF First
      <4> QED BY <4>2, <4>3
    <3>8. Current(r, t, gattr', a)
      BY <2>1, <3>6, <3>7, RemovedCurrent
    <3>9. r \in Entry
      BY <1>3, <2>1, EntryKept
    <3> HIDE DEF r
    <3>10. Current(NodeAdded(r, new, t, gattr', a), t, gattr', a)
      <4>1. Current(DoInheritance(r, t, gattr', a), t, gattr', a)
        BY <3>8, DoneAgain
      <4> QED BY <3>8, <4>1 DEF NodeAdded
    <3>11. NodeAdded(r, new, t, gattr', a) \in Entry
      BY <1>3, <2>1, <3>9, EntryKept
    <3> QED BY <3>3, <3>10, <3>11 DEF t
  <2> QED BY <2>3, <2>4
<1>5. nattr' \in [Node -> [Attr -> Entry]]
  <2>1. nattr' = [n \in Node |-> [a \in Attr |-> nattr'[n][a]]]
    BY <1>1
  <2> QED BY <1>4, <2>1
<1>6. Valued'
  <2>1. noderange' \subseteq Group /\ marked' \subseteq Node \cup Group
    BY <1>1, <1>2
  <2> QED BY <1>3, <1>5, <2>1 DEF Valued
<1>7. Resolved'
  BY <1>4 DEF Resolved
<1> QED BY <1>6, <1>7

\* Every method leaves each node with a current copy of what it inherits.
LEMMA ResolvedStep == ResolvedInv /\ [Next]_vars => ResolvedInv'
<1> SUFFICES ASSUME ResolvedInv, [Next]_vars PROVE ResolvedInv'
  OBVIOUS
<1>0. MemberInv'
  BY MemberStep DEF ResolvedInv
<1>a. /\ nodes \subseteq Node /\ groups \subseteq Group
      /\ order \in [Node -> Seq(Group)] /\ members \in [Group -> SUBSET Node]
      /\ gattr \in [Group -> [Attr -> Value \cup {Absent}]]
      /\ nattr \in [Node -> [Attr -> Entry]]
      /\ noderange \subseteq Group /\ marked \subseteq Node \cup Group
      /\ \A n \in Node, a \in Attr : Current(nattr[n][a], order[n], gattr, a)
  BY DEF ResolvedInv, MemberInv, MemberTypes, Valued, Resolved
<1>b. order' \in [Node -> Seq(Group)]
  BY <1>0 DEF MemberInv, MemberTypes
<1>1. ASSUME NEW n \in Node, NEW input, SetNodeGroups(n, input) PROVE Valued' /\ Resolved'
  BY <1>0, <1>1, SetResolved DEF ResolvedInv
<1>2. ASSUME NEW n \in Node, NEW a \in Attr, NEW v \in Value, SetNodeAttr(n, a, v)
      PROVE  Valued' /\ Resolved'
  <2>1. /\ nattr' = [nattr EXCEPT ![n] = [@ EXCEPT ![a] = Own(v)]] /\ marked' = {n}
        /\ UNCHANGED <<nodes, groups, order, members, gattr, noderange>>
    BY <1>2 DEF SetNodeAttr
  <2>2. Own(v) \in Entry /\ IsOwn(Own(v))
    BY GroupAssumption DEF Own, Entry, IsOwn
  <2>3. Valued'
    BY <1>a, <2>1, <2>2 DEF Valued
  <2>4. \A m \in Node, b \in Attr :
          nattr'[m][b] = IF m = n /\ b = a THEN Own(v) ELSE nattr[m][b]
    BY <1>a, <2>1
  <2>5. Resolved'
    BY <1>a, <2>1, <2>2, <2>4 DEF Resolved, Current
  <2> QED BY <2>3, <2>5
<1>3. ASSUME NEW n \in Node, NEW a \in Attr, ClearNodeAttr(n, a)
      PROVE  Valued' /\ Resolved'
  <2> DEFINE e == DoInheritance(Unset, order[n], gattr, a)
  <2>1. /\ nattr' = [nattr EXCEPT ![n] = [@ EXCEPT ![a] = e]] /\ marked' = {n}
        /\ UNCHANGED <<nodes, groups, order, members, gattr, noderange>>
    BY <1>3 DEF ClearNodeAttr
  <2>2. Unset \in Entry /\ order[n] \in Seq(Group)
    BY <1>a DEF Entry
  <2>3. e \in Entry /\ Current(e, order[n], gattr, a)
    <3>1. e \in Entry
      BY <1>a, <2>2, EntryKept
    <3>2. e = Inherited(order[n], gattr, a)
      BY LookedUp
    <3> QED BY <3>1, <3>2 DEF Current
  <2> HIDE DEF e
  <2>4. Valued'
    BY <1>a, <2>1, <2>3 DEF Valued
  <2>5. \A m \in Node, b \in Attr :
          nattr'[m][b] = IF m = n /\ b = a THEN e ELSE nattr[m][b]
    BY <1>a, <2>1
  <2>6. Resolved'
    BY <1>a, <2>1, <2>3, <2>5 DEF Resolved
  <2> QED BY <2>4, <2>6
<1>c. \A a \in Attr : Unset \in Entry /\ Current(Unset, <<>>, gattr, a)
  <2>1. \A a \in Attr : Providers(<<>>, gattr, a) = {}
    BY DEF Providers
  <2> QED BY <2>1, InheritedNone DEF Current, Entry
<1>4. ASSUME NEW n \in Node, DelNode(n) PROVE Valued' /\ Resolved'
  <2>1. /\ order' = [order EXCEPT ![n] = <<>>]
        /\ nattr' = [nattr EXCEPT ![n] = [a \in Attr |-> Unset]]
        /\ marked' = {n} \cup {g \in groups : n \in members[g]}
        /\ UNCHANGED <<groups, gattr, noderange>>
    BY <1>4 DEF DelNode
  <2>2. Valued'
    BY <1>a, <1>c, <2>1 DEF Valued, Entry
  <2>3. \A m \in Node, a \in Attr : Current(nattr'[m][a], order'[m], gattr', a)
    <3>1. \A a \in Attr : nattr'[n][a] = Unset /\ order'[n] = <<>>
      BY <1>a, <2>1
    <3>2. \A m \in Node : m # n => nattr'[m] = nattr[m] /\ order'[m] = order[m]
      BY <1>a, <2>1
    <3> QED BY <1>a, <1>c, <2>1, <3>1, <3>2
  <2> QED BY <2>2, <2>3 DEF Resolved
<1>5. ASSUME NEW n \in Node, NEW new \in Node, RenameNode(n, new)
      PROVE  Valued' /\ Resolved'
  <2>1. /\ n # new
        /\ order' = [order EXCEPT ![new] = order[n], ![n] = <<>>]
        /\ nattr' = [nattr EXCEPT ![new] = nattr[n],
                                  ![n] = [a \in Attr |-> Unset]]
        /\ marked' = {n, new} \cup ToSet(order[n])
        /\ UNCHANGED <<groups, gattr, noderange>>
    BY <1>5 DEF RenameNode
  <2>2. ToSet(order[n]) \subseteq Group
    BY <1>a DEF ToSet
  <2>3. Valued'
    BY <1>a, <1>c, <2>1, <2>2 DEF Valued, Entry
  <2>4. \A m \in Node, a \in Attr : Current(nattr'[m][a], order'[m], gattr', a)
    <3>1. \A a \in Attr : nattr'[n][a] = Unset /\ order'[n] = <<>>
      BY <1>a, <2>1
    <3>2. nattr'[new] = nattr[n] /\ order'[new] = order[n]
      BY <1>a, <2>1
    <3>3. \A m \in Node : m \notin {n, new} => nattr'[m] = nattr[m] /\ order'[m] = order[m]
      BY <1>a, <2>1
    <3> QED BY <1>a, <1>c, <2>1, <3>1, <3>2, <3>3
  <2> QED BY <2>3, <2>4 DEF Resolved
<1>6. ASSUME NEW g \in Group,
             CreateGroup(g) \/ SetGroupNoderange(g) \/ ClearGroupNoderange(g)
      PROVE  Valued' /\ Resolved'
  BY <1>a, <1>6 DEF CreateGroup, SetGroupNoderange, ClearGroupNoderange, Valued, Resolved
<1>7. ASSUME NEW g \in Group, NEW ns \in SUBSET nodes, SetGroupNodes(g, ns)
      PROVE  Valued' /\ Resolved'
  <2>1. g \in groups /\ SyncNodesToGroup(g, ns) /\ UNCHANGED <<gattr, noderange>>
    BY <1>7 DEF SetGroupNodes
  <2> QED BY <1>a, <1>b, <2>1, SyncResolved DEF Valued, Resolved
<1>8. ASSUME NEW g \in Group, ClearGroupNodes(g) PROVE Valued' /\ Resolved'
  <2>1. g \in groups /\ SyncNodesToGroup(g, {}) /\ UNCHANGED <<gattr, noderange>>
    BY <1>8 DEF ClearGroupNodes
  <2> QED BY <1>a, <1>b, <2>1, SyncResolved DEF Valued, Resolved
<1>9. ASSUME NEW g \in Group, DelGroup(g) PROVE Valued' /\ Resolved'
  <2>1. /\ g \in groups /\ SyncNodesToGroup(g, {})
        /\ members' = [members EXCEPT ![g] = {}]
        /\ gattr' = [gattr EXCEPT ![g] = [a \in Attr |-> Absent]]
        /\ noderange' = noderange \ {g}
    BY <1>9 DEF DelGroup
  <2>2. /\ nattr' \in [Node -> [Attr -> Entry]] /\ marked' \subseteq Node \cup Group
        /\ \A n \in Node, a \in Attr : Current(nattr'[n][a], order'[n], gattr, a)
    BY <1>b, <2>1, SyncResolved
  <2>3. Valued'
    BY <1>a, <2>1, <2>2 DEF Valued
  <2>4. ASSUME NEW n \in Node, NEW a \in Attr
        PROVE  Current(nattr'[n][a], order'[n], gattr', a)
    <3>1. g \notin ToSet(order'[n])
      BY <1>0, <1>a, <2>1 DEF MemberInv, MembershipAgrees
    <3>2. \A h \in Group : h # g => gattr'[h] = gattr[h]
      BY <1>a, <2>1
    <3>3. order'[n] \in Seq(Group) /\ \A h \in ToSet(order'[n]) : h \in Group
      BY <1>b DEF ToSet
    <3>4. \A h \in ToSet(order'[n]) : gattr'[h][a] = gattr[h][a]
      BY <3>1, <3>2, <3>3
    <3>5. Current(nattr'[n][a], order'[n], gattr, a)
      BY <2>2
    <3> QED BY <3>3, <3>4, <3>5, SameGroups
  <2> QED BY <2>3, <2>4 DEF Resolved
<1>10. ASSUME NEW g \in Group, NEW a \in Attr,
              ClearGroupAttr(g, a) \/ \E v \in Value : SetGroupAttr(g, a, v)
       PROVE  Valued' /\ Resolved'
  BY <1>10, GroupAttrResolved
<1>11. ASSUME NEW g \in Group, NEW new \in Group, RenameGroup(g, new)
       PROVE  Valued' /\ Resolved'
  BY <1>0, <1>11, RenameResolved
<1>12. CASE UNCHANGED vars
  <2>1. UNCHANGED <<order, gattr, nattr, noderange, marked>>
    BY <1>12 DEF vars
  <2>2. Valued'
    BY <1>a, <2>1 DEF Valued
  <2>3. Resolved'
    BY <1>a, <2>1 DEF Resolved
  <2> QED BY <1>0, <2>2, <2>3 DEF ResolvedInv
<1> QED BY <1>0, <1>1, <1>2, <1>3, <1>4, <1>5, <1>6, <1>7, <1>8, <1>9, <1>10, <1>11,
           <1>12 DEF Next, ResolvedInv

\* Every reachable state has the shape of the Python values it stands for.
THEOREM TypeCorrect == Spec => []TypeOK
<1>1. ResolvedInv => TypeOK
  BY DEF ResolvedInv, MemberInv, MemberTypes, Valued, TypeOK
<1> QED BY <1>1, InitResolved, ResolvedStep, PTL DEF Spec

\* Whatever clients do on either side of membership and to attributes: a node
\* has, for each attribute, its own value or that of the first of its groups.
THEOREM InheritanceCorrect == Spec => []InheritanceResolved
<1>1. ResolvedInv => InheritanceResolved
  BY DEF ResolvedInv, MemberInv, MemberTypes, Resolved, Current, InheritanceResolved
<1> QED BY <1>1, InitResolved, ResolvedStep, PTL DEF Spec
=============================================================================
