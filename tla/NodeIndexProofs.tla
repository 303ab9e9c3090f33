-------------------------- MODULE NodeIndexProofs ---------------------------
(***************************************************************************)
(* Proofs about NodeIndex: the types of its state, that a node keeps its   *)
(* index, and that until a member connects every index below               *)
(* max_node_index is that of exactly one node or in exactly one entry of   *)
(* the list of free ones.                                                  *)
(*                                                                         *)
(* The helpers on the list are proved first: an entry replaced by others   *)
(* (SplicedFree, SplicedApart), _remove_free_index (RemovedOne), the loop  *)
(* that lowers max_node_index (LowerDone), what a deletion gives back      *)
(* (FreedTidy) and what a creation takes (AllocatedTidy).                  *)
(***************************************************************************)
EXTENDS NodeIndex, FiniteSetTheorems, SequenceTheorems, WellFoundedInduction, TLAPS

-----------------------------------------------------------------------------
(* The least of some numbers.                                              *)

\* A set of natural numbers that is not empty has a minimum.
LEMMA Minimum ==
    ASSUME NEW T \in SUBSET Nat, T # {}
    PROVE  Min(T) \in T /\ \A j \in T : Min(T) <= j
<1>1. PICK x \in T : \A y \in T : <<y, x>> \notin OpToRel(<, Nat)
  BY NatLessThanWellFounded, WFMin, Zenon
<1>2. \A y \in T : ~ (y < x)
  BY <1>1, Zenon DEF OpToRel
<1>3. \A y \in T : x <= y
  BY <1>2
<1> QED BY <1>3 DEF Min

-----------------------------------------------------------------------------
(* Numbers, finite sets and loops.                                         *)

\* Induction over a set of natural numbers.
LEMMA Induction ==
    ASSUME NEW G \in SUBSET Nat, 0 \in G, \A k \in G : k + 1 \in G
    PROVE  G = Nat
<1> SUFFICES ASSUME Nat \ G # {} PROVE FALSE
  OBVIOUS
<1> DEFINE k == Min(Nat \ G)
<1>1. k \in Nat \ G /\ \A j \in Nat \ G : k <= j
  BY Minimum
<1> HIDE DEF k
<1>2. k # 0 /\ k - 1 \in Nat
  BY <1>1
<1>3. k - 1 \in G
  BY <1>1, <1>2
<1> QED BY <1>1, <1>2, <1>3

\* f is the sequence of the states of a loop that takes a step n times.
LoopRun(f, S, step, s0, n) ==
    /\ f \in [0 .. n -> S] /\ f[0] = s0
    /\ \A k \in 1 .. n : f[k] = step[f[k - 1]]

\* Such a loop has a run.
LEMMA LoopRuns ==
    ASSUME NEW S, NEW step \in [S -> S], NEW s0 \in S, NEW n \in Nat
    PROVE  \E f : LoopRun(f, S, step, s0, n)
<1> DEFINE G == {k \in Nat : \E f : LoopRun(f, S, step, s0, k)}
<1>1. 0 \in G
  <2>1. LoopRun([k \in 0 .. 0 |-> s0], S, step, s0, 0)
    BY DEF LoopRun
  <2> QED BY <2>1
<1>2. ASSUME NEW k \in G PROVE k + 1 \in G
  <2>1. k \in Nat
    OBVIOUS
  <2>2. PICK f : LoopRun(f, S, step, s0, k)
    OBVIOUS
  <2> DEFINE g == [j \in 0 .. k + 1 |-> IF j = k + 1 THEN step[f[k]] ELSE f[j]]
  <2>3. f[k] \in S /\ step[f[k]] \in S
    BY <2>1, <2>2 DEF LoopRun
  <2>4. g \in [0 .. k + 1 -> S]
    BY <2>1, <2>2, <2>3 DEF LoopRun
  <2>5. g[0] = s0
    BY <2>1, <2>2 DEF LoopRun
  <2>6. ASSUME NEW j \in 1 .. k + 1 PROVE g[j] = step[g[j - 1]]
    BY <2>1, <2>2 DEF LoopRun
  <2> HIDE DEF g
  <2>7. LoopRun(g, S, step, s0, k + 1)
    BY <2>4, <2>5, <2>6 DEF LoopRun
  <2> QED BY <2>1, <2>7
<1>3. n \in G
  <2> HIDE DEF G
  <2>1. G \in SUBSET Nat
    BY DEF G
  <2> QED BY <1>1, <1>2, <2>1, Induction
<1> QED BY <1>3

\* A finite set of natural numbers that is not empty has a maximum.
LEMMA Maximum ==
    ASSUME NEW S \in SUBSET Nat, IsFiniteSet(S), S # {}
    PROVE  Max(S) \in S /\ \A j \in S : j <= Max(S)
<1> DEFINE Top(T) == \E x \in T : \A y \in T : y <= x
           Bad(T) == T \in SUBSET Nat /\ IsFiniteSet(T) /\ T # {} /\ ~ Top(T)
           G == {n \in Nat : \E T : Bad(T) /\ Cardinality(T) = n}
<1>1. Top(S)
  <2> SUFFICES ASSUME ~ Top(S) PROVE FALSE
    OBVIOUS
  <2>1. Cardinality(S) \in G
    BY FS_CardinalityType
  <2> DEFINE n == Min(G)
  <2>2. n \in G /\ \A j \in G : n <= j
    BY <2>1, Minimum
  <2>3. PICK T : Bad(T) /\ Cardinality(T) = n
    BY <2>2
  <2>4. PICK x \in T : TRUE
    BY <2>3
  <2> DEFINE U == T \ {x}
  <2>5. IsFiniteSet(U) /\ Cardinality(U) = n - 1 /\ Cardinality(U) \in Nat /\ U \in SUBSET Nat
    BY <2>3, <2>4, FS_RemoveElement, FS_CardinalityType
  <2>6. ~ Bad(U)
    <3> SUFFICES ASSUME Bad(U) PROVE FALSE
      OBVIOUS
    <3>1. Cardinality(U) \in G
      BY <2>5
    <3>2. n <= Cardinality(U) /\ n \in Nat
      BY <2>2, <3>1
    <3> HIDE DEF n, U
    <3> QED BY <2>5, <3>2
  <2>7. U # {}
    BY <2>3, <2>4
  <2>8. PICK u \in U : \A y \in U : y <= u
    BY <2>5, <2>6, <2>7
  <2>9. Top(T)
    <3>1. u \in T /\ x \in T /\ u \in Nat /\ x \in Nat
      BY <2>3, <2>4, <2>8
    <3>2. \A y \in T : y <= u \/ y = x
      BY <2>8
    <3>3. CASE x <= u
      BY <3>1, <3>2, <3>3
    <3>4. CASE u <= x
      <4>1. \A y \in T : y <= x
        BY <2>3, <3>1, <3>2, <3>4
      <4> QED BY <3>1, <4>1
    <3> QED BY <3>1, <3>3, <3>4
  <2> QED BY <2>3, <2>9
<1>2. PICK x \in S : \A y \in S : x >= y
  BY <1>1
<1>3. Max(S) \in S /\ \A y \in S : Max(S) >= y
  BY <1>2 DEF Max
<1> QED BY <1>3

\* SetToSeq lists each element of a finite set once.
LEMMA Listed ==
    ASSUME NEW S, IsFiniteSet(S)
    PROVE  LET s == SetToSeq(S)
           IN  /\ s \in Seq(S) /\ Len(s) = Cardinality(S) /\ Len(s) \in Nat
               /\ IsInjective(s) /\ ToSet(s) = S
<1> DEFINE n == Cardinality(S)
           s == SetToSeq(S)
<1>1. n \in Nat /\ ExistsBijection(1 .. n, S)
  BY FS_CardinalityType
<1>2. PICK f \in Bijection(1 .. n, S) : TRUE
  BY <1>1 DEF ExistsBijection
<1>3. f \in [1 .. n -> S] /\ IsInjective(f)
  BY <1>2 DEF Bijection, Injection, IsInjective
<1>4. s \in [1 .. n -> S] /\ IsInjective(s)
  BY <1>3 DEF SetToSeq
<1> HIDE DEF s
<1>5. s \in Seq(S) /\ Len(s) = n
  BY <1>1, <1>4
<1>6. s \in Injection(1 .. n, S)
  BY <1>4 DEF Injection, IsInjective
<1>7. IsFiniteSet(1 .. n) /\ Cardinality(1 .. n) = n
  BY <1>1, FS_Interval
<1>8. s \in Surjection(1 .. n, S)
  BY <1>6, <1>7, FS_Injection
<1>9. ToSet(s) = S
  BY <1>4, <1>8 DEF Surjection, ToSet
<1> QED BY <1>1, <1>4, <1>5, <1>9 DEF s

-----------------------------------------------------------------------------
(* Entries of the list of free indexes, and the list with one entry        *)
(* replaced.                                                               *)

Index == Nat \ {0}
Entry == [1 .. 1 -> Index] \cup [1 .. 2 -> Index]

\* No index is in two entries; none is above a bound; a range has two.
Apart(list) ==
    \A j, k \in DOMAIN list : j # k => Span(list[j]) \cap Span(list[k]) = {}
Within(list, top) == \A k \in DOMAIN list : Span(list[k]) \subseteq 1 .. top
Strict(list) == \A k \in DOMAIN list : Len(list[k]) = 1 \/ list[k][1] < list[k][2]

\* The list new has the entries p in the place of the entry k of list.
Spliced(list, k, p, new) ==
    /\ new \in Seq(Entry) /\ Len(new) = Len(list) - 1 + Len(p)
    /\ \A a \in 1 .. Len(new) :
          new[a] = IF a < k THEN list[a]
                   ELSE IF a < k + Len(p) THEN p[a - k + 1]
                   ELSE list[a - Len(p) + 1]

\* A function on 1 .. n is a sequence of length n.
LEMMA LenFunction ==
    ASSUME NEW S, NEW n \in Nat, NEW f \in [1 .. n -> S]
    PROVE  f \in Seq(S) /\ Len(f) = n
OBVIOUS

\* An entry is a number or a pair of numbers.
LEMMA EntryShape ==
    ASSUME NEW r \in Entry
    PROVE  /\ r[1] \in Index /\ r[Len(r)] \in Index
           /\ \/ Len(r) = 1 /\ Span(r) = {r[1]} /\ r = <<r[1]>>
              \/ Len(r) = 2 /\ Span(r) = r[1] .. r[2] /\ r[2] \in Index
                    /\ r = <<r[1], r[2]>>
<1>1. CASE r \in [1 .. 1 -> Index]
  <2>0. r \in Seq(Index) /\ Len(r) = 1
    BY <1>1, 1 \in Nat, LenFunction
  <2>1. r \in Seq(Index) /\ Len(r) = 1 /\ r[1] \in Index
    BY <1>1, <2>0
  <2>2. Span(r) = {r[1]}
    BY <2>1 DEF Span, Index
  <2> QED BY <2>1, <2>2
<1>2. CASE r \in [1 .. 2 -> Index]
  <2>0. r \in Seq(Index) /\ Len(r) = 2
    BY <1>2, 2 \in Nat, LenFunction
  <2>1. r \in Seq(Index) /\ Len(r) = 2 /\ r[1] \in Index /\ r[2] \in Index
    BY <1>2, <2>0
  <2>2. Span(r) = r[1] .. r[2]
    BY <2>1 DEF Span, Index
  <2> QED BY <2>1, <2>2
<1> QED BY <1>1, <1>2 DEF Entry

\* A number and a pair of numbers are entries.
LEMMA EntryMade ==
    ASSUME NEW a \in Index, NEW b \in Index
    PROVE  /\ <<a>> \in Entry /\ Len(<<a>>) = 1 /\ Span(<<a>>) = {a}
           /\ <<a, b>> \in Entry /\ Len(<<a, b>>) = 2 /\ Span(<<a, b>>) = a .. b
           /\ <<a, b>>[1] = a /\ <<a, b>>[2] = b /\ <<a>>[1] = a
<1>1. <<a>> \in [1 .. 1 -> Index] /\ <<a, b>> \in [1 .. 2 -> Index]
  OBVIOUS
<1>2. Span(<<a>>) = {a} /\ Span(<<a, b>>) = a .. b
  BY DEF Span, Index
<1> QED BY <1>1, <1>2 DEF Entry

\* The indexes of a list in which an entry is replaced.
LEMMA SplicedFree ==
    ASSUME NEW list \in Seq(Entry), NEW k \in 1 .. Len(list), NEW p \in Seq(Entry),
           NEW new, Spliced(list, k, p, new)
    PROVE  /\ \A a \in DOMAIN new :
                 \/ \E j \in DOMAIN list \ {k} : new[a] = list[j]
                 \/ \E j \in DOMAIN p : new[a] = p[j]
           /\ \A j \in DOMAIN list \ {k} : \E a \in DOMAIN new : new[a] = list[j]
           /\ \A j \in DOMAIN p : \E a \in DOMAIN new : new[a] = p[j]
<1>1. /\ DOMAIN list = 1 .. Len(list) /\ Len(list) \in Nat
      /\ DOMAIN p = 1 .. Len(p) /\ Len(p) \in Nat
      /\ DOMAIN new = 1 .. Len(new) /\ Len(new) \in Nat
  BY DEF Spliced
<1>2. ASSUME NEW a \in DOMAIN new
      PROVE  \/ \E j \in DOMAIN list \ {k} : new[a] = list[j]
             \/ \E j \in DOMAIN p : new[a] = p[j]
  <2>1. CASE a < k
    <3>1. new[a] = list[a] /\ a \in DOMAIN list \ {k}
      BY <1>1, <2>1 DEF Spliced
    <3> QED BY <3>1
  <2>2. CASE ~ (a < k) /\ a < k + Len(p)
    <3>0. a - k + 1 \in DOMAIN p
      BY <1>1, <2>2
    <3>2. new[a] = p[a - k + 1]
      BY <1>1, <2>2 DEF Spliced
    <3>1. new[a] = p[a - k + 1] /\ a - k + 1 \in DOMAIN p
      BY <3>0, <3>2
    <3> QED BY <3>1
  <2>3. CASE ~ (a < k) /\ ~ (a < k + Len(p))
    <3>0. Len(new) = Len(list) - 1 + Len(p)
      BY DEF Spliced
    <3>2. a - Len(p) + 1 \in DOMAIN list \ {k}
      BY <1>1, <2>3, <3>0
    <3>1. new[a] = list[a - Len(p) + 1] /\ a - Len(p) + 1 \in DOMAIN list \ {k}
      BY <1>1, <2>3, <3>2 DEF Spliced
    <3> QED BY <3>1
  <2> QED BY <2>1, <2>2, <2>3
<1>3. ASSUME NEW j \in DOMAIN list \ {k}
      PROVE  \E a \in DOMAIN new : new[a] = list[j]
  <2>1. CASE j < k
    <3>1. new[j] = list[j] /\ j \in DOMAIN new
      BY <1>1, <2>1 DEF Spliced
    <3> QED BY <3>1
  <2>2. CASE j > k
    <3>0. Len(new) = Len(list) - 1 + Len(p) /\ j \in Nat /\ j <= Len(list)
      BY <1>1 DEF Spliced
    <3>1. j + Len(p) - 1 \in DOMAIN new /\ ~ (j + Len(p) - 1 < k)
          /\ ~ (j + Len(p) - 1 < k + Len(p)) /\ (j + Len(p) - 1) - Len(p) + 1 = j
      BY <1>1, <2>2, <3>0
    <3>2. new[j + Len(p) - 1] = list[j]
      BY <1>1, <3>1 DEF Spliced
    <3> QED BY <3>1, <3>2
  <2> QED BY <1>1, <2>1, <2>2
<1>4. ASSUME NEW j \in DOMAIN p
      PROVE  \E a \in DOMAIN new : new[a] = p[j]
  <2>1. j + k - 1 \in DOMAIN new /\ ~ (j + k - 1 < k) /\ j + k - 1 < k + Len(p)
        /\ (j + k - 1) - k + 1 = j
    <3>1. /\ j \in Nat /\ 1 <= j /\ j <= Len(p) /\ k \in Nat /\ 1 <= k /\ k <= Len(list)
          /\ Len(new) = Len(list) - 1 + Len(p)
      BY <1>1 DEF Spliced
    <3>2. j + k - 1 \in 1 .. Len(new)
      BY <1>1, <3>1
    <3> QED BY <1>1, <3>1, <3>2
  <2>2. new[j + k - 1] = p[j]
    BY <1>1, <2>1 DEF Spliced
  <2> QED BY <2>1, <2>2
<1> QED BY <1>2, <1>3, <1>4

\* The entries of a list stay apart when one is replaced by entries that are
\* apart from each other and from the rest.
LEMMA SplicedApart ==
    ASSUME NEW list \in Seq(Entry), NEW k \in 1 .. Len(list), NEW p \in Seq(Entry),
           NEW new, Spliced(list, k, p, new), Apart(list), Apart(p),
           \A j \in DOMAIN list \ {k} : \A a \in DOMAIN p :
              Span(list[j]) \cap Span(p[a]) = {}
    PROVE  Apart(new)
<1>1. /\ DOMAIN list = 1 .. Len(list) /\ Len(list) \in Nat
      /\ DOMAIN p = 1 .. Len(p) /\ Len(p) \in Nat
      /\ DOMAIN new = 1 .. Len(new) /\ Len(new) \in Nat
  BY DEF Spliced
<1> DEFINE At(a) == IF a < k THEN a ELSE a - Len(p) + 1
           Old(a) == a < k \/ ~ (a < k + Len(p))
<1>2. ASSUME NEW a \in DOMAIN new, Old(a)
      PROVE  At(a) \in DOMAIN list \ {k} /\ new[a] = list[At(a)]
  <2>1. /\ a \in Nat /\ 1 <= a /\ a <= Len(new) /\ k \in Nat /\ 1 <= k /\ k <= Len(list)
        /\ Len(new) = Len(list) - 1 + Len(p)
    BY <1>1 DEF Spliced
  <2>2. CASE a < k
    <3>1. At(a) = a /\ a \in 1 .. Len(list) /\ a # k
      BY <1>1, <2>1, <2>2
    <3>2. new[a] = list[a]
      BY <1>1, <2>2 DEF Spliced
    <3> HIDE DEF At
    <3> QED BY <1>1, <3>1, <3>2
  <2>3. CASE ~ (a < k)
    <3>1. ~ (a < k + Len(p)) /\ At(a) = a - Len(p) + 1
      BY <1>2, <2>3
    <3>2. a - Len(p) + 1 \in 1 .. Len(list) /\ a - Len(p) + 1 # k
      BY <1>1, <2>1, <3>1
    <3>3. new[a] = list[a - Len(p) + 1]
      BY <1>1, <2>3, <3>1 DEF Spliced
    <3> HIDE DEF At
    <3> QED BY <1>1, <3>1, <3>2, <3>3
  <2> QED BY <2>2, <2>3
<1>3. ASSUME NEW a \in DOMAIN new, ~ Old(a)
      PROVE  a - k + 1 \in DOMAIN p /\ new[a] = p[a - k + 1]
  <2>1. ~ (a < k) /\ a < k + Len(p)
    BY <1>3
  <2>2. a - k + 1 \in DOMAIN p
    BY <1>1, <2>1
  <2>3. new[a] = p[a - k + 1]
    BY <1>1, <2>1 DEF Spliced
  <2> QED BY <2>2, <2>3
<1>4. ASSUME NEW a \in DOMAIN new, NEW b \in DOMAIN new, a # b, Old(a), Old(b)
      PROVE  At(a) # At(b)
  BY <1>1, <1>4
<1>5. ASSUME NEW a \in DOMAIN new, NEW b \in DOMAIN new, a # b
      PROVE  Span(new[a]) \cap Span(new[b]) = {}
  <2>1. CASE Old(a) /\ Old(b)
    <3>1. At(a) # At(b)
      BY <1>4, <1>5, <2>1
    <3> HIDE DEF At, Old
    <3> QED BY <1>2, <2>1, <3>1 DEF Apart
  <2>2. CASE Old(a) /\ ~ Old(b)
    <3> HIDE DEF At, Old
    <3> QED BY <1>2, <1>3, <2>2
  <2>3. CASE ~ Old(a) /\ Old(b)
    <3> HIDE DEF At, Old
    <3>1. Span(list[At(b)]) \cap Span(p[a - k + 1]) = {}
      BY <1>2, <1>3, <2>3
    <3> QED BY <1>2, <1>3, <2>3, <3>1
  <2>4. CASE ~ Old(a) /\ ~ Old(b)
    <3>1. a - k + 1 # b - k + 1
      BY <1>1, <1>5
    <3> HIDE DEF At, Old
    <3> QED BY <1>3, <2>4, <3>1 DEF Apart
  <2> HIDE DEF At, Old
  <2> QED BY <2>1, <2>2, <2>3, <2>4
<1> QED BY <1>5 DEF Apart

\* Cutting a list before and after an entry replaces that entry.
LEMMA SpliceMade ==
    ASSUME NEW list \in Seq(Entry), NEW k \in 1 .. Len(list), NEW p \in Seq(Entry)
    PROVE  Spliced(list, k, p, SubSeq(list, 1, k - 1) \o p \o SubSeq(list, k + 1, Len(list)))
<1> DEFINE s == SubSeq(list, 1, k - 1)
           t == SubSeq(list, k + 1, Len(list))
<1>1. /\ DOMAIN list = 1 .. Len(list) /\ Len(list) \in Nat /\ Len(p) \in Nat
  OBVIOUS
<1>2. /\ s \in Seq(Entry) /\ Len(s) = k - 1
      /\ \A a \in 1 .. k - 1 : s[a] = list[a]
  <2>1. k - 1 \in Int /\ 1 \in Int /\ \A j \in 1 .. k - 1 : list[j] \in Entry
    BY <1>1
  <2>2. /\ s \in Seq(Entry) /\ Len(s) = IF 1 <= k - 1 THEN (k - 1) - 1 + 1 ELSE 0
        /\ \A j \in 1 .. (k - 1) - 1 + 1 : s[j] = list[1 + j - 1]
    BY <2>1, SubSeqProperties
  <2> HIDE DEF s
  <2>3. k \in Nat /\ 1 <= k
    BY <1>1
  <2>4. ASSUME NEW a \in 1 .. k - 1 PROVE s[a] = list[a]
    <3>1. 1 + a - 1 = a /\ a \in 1 .. (k - 1) - 1 + 1
      BY <2>3
    <3>2. s[a] = list[1 + a - 1]
      BY <2>2, <3>1
    <3> QED BY <3>1, <3>2
  <2> QED BY <2>2, <2>3, <2>4
<1>3. /\ t \in Seq(Entry) /\ Len(t) = Len(list) - k
      /\ \A a \in 1 .. Len(list) - k : t[a] = list[a + k]
  <2>1. /\ k + 1 \in Int /\ Len(list) \in Int
        /\ \A j \in k + 1 .. Len(list) : list[j] \in Entry
    BY <1>1
  <2>2. /\ t \in Seq(Entry)
        /\ Len(t) = IF k + 1 <= Len(list) THEN Len(list) - (k + 1) + 1 ELSE 0
        /\ \A j \in 1 .. Len(list) - (k + 1) + 1 : t[j] = list[(k + 1) + j - 1]
    BY <2>1, SubSeqProperties
  <2> HIDE DEF t
  <2>3. k \in Nat /\ k <= Len(list)
    BY <1>1
  <2>4. ASSUME NEW a \in 1 .. Len(list) - k PROVE t[a] = list[a + k]
    <3>1. (k + 1) + a - 1 = a + k /\ a \in 1 .. Len(list) - (k + 1) + 1
      BY <1>1, <2>3
    <3>2. t[a] = list[(k + 1) + a - 1]
      BY <2>2, <3>1
    <3> QED BY <3>1, <3>2
  <2>5. Len(t) = Len(list) - k
    <3>1. CASE k + 1 <= Len(list)
      BY <1>1, <2>2, <2>3, <3>1
    <3>2. CASE ~ (k + 1 <= Len(list))
      <4> DEFINE n == Len(list)
      <4>0. n \in Nat /\ k \in Nat /\ k <= n /\ ~ (k + 1 <= n)
        BY <1>1, <2>3, <3>2
      <4> HIDE DEF n, s
      <4>1. k = n /\ n - k = 0
        BY <4>0
      <4>2. Len(t) = 0
        BY <2>2, <3>2
      <4> QED BY <4>1, <4>2 DEF n
    <3> QED BY <3>1, <3>2
  <2> QED BY <2>2, <2>4, <2>5
<1> DEFINE u == s \o p
           new == u \o t
<1> HIDE DEF s, t
<1>4. /\ u \in Seq(Entry) /\ Len(u) = k - 1 + Len(p)
      /\ \A a \in 1 .. k - 1 + Len(p) : u[a] = IF a <= k - 1 THEN s[a] ELSE p[a - (k - 1)]
  <2>1. /\ u \in Seq(Entry) /\ Len(u) = Len(s) + Len(p)
        /\ \A a \in 1 .. Len(s) + Len(p) : u[a] = IF a <= Len(s) THEN s[a] ELSE p[a - Len(s)]
    BY <1>2, ConcatProperties
  <2> HIDE DEF u
  <2> QED BY <1>2, <2>1
<1> HIDE DEF u
<1>5. /\ new \in Seq(Entry) /\ Len(new) = Len(list) - 1 + Len(p)
      /\ \A a \in 1 .. Len(new) :
            new[a] = IF a <= k - 1 + Len(p) THEN u[a] ELSE t[a - (k - 1 + Len(p))]
  <2>1. /\ new \in Seq(Entry) /\ Len(new) = Len(u) + Len(t)
        /\ \A a \in 1 .. Len(u) + Len(t) : new[a] = IF a <= Len(u) THEN u[a] ELSE t[a - Len(u)]
    BY <1>3, <1>4, ConcatProperties
  <2> HIDE DEF new
  <2>2. Len(u) + Len(t) = Len(list) - 1 + Len(p)
    BY <1>1, <1>3, <1>4
  <2> QED BY <1>4, <2>1, <2>2
<1> HIDE DEF new
<1>6. ASSUME NEW a \in 1 .. Len(new)
      PROVE  new[a] = IF a < k THEN list[a]
                      ELSE IF a < k + Len(p) THEN p[a - k + 1]
                      ELSE list[a - Len(p) + 1]
  <2>1. a \in Nat /\ Len(new) = Len(list) - 1 + Len(p)
    BY <1>1, <1>5
  <2>2. CASE a < k
    <3>1. a <= k - 1 + Len(p) /\ a <= k - 1 /\ a \in 1 .. k - 1 + Len(p) /\ a \in 1 .. k - 1
      BY <1>1, <2>1, <2>2
    <3>2. new[a] = u[a] /\ u[a] = s[a] /\ s[a] = list[a]
      BY <1>2, <1>4, <1>5, <3>1
    <3> QED BY <2>2, <3>2
  <2>3. CASE ~ (a < k) /\ a < k + Len(p)
    <3>1. /\ a <= k - 1 + Len(p) /\ ~ (a <= k - 1) /\ a \in 1 .. k - 1 + Len(p)
          /\ a - (k - 1) = a - k + 1
      BY <1>1, <2>1, <2>3
    <3>2. new[a] = u[a] /\ u[a] = p[a - (k - 1)]
      BY <1>4, <1>5, <3>1
    <3> QED BY <2>3, <3>1, <3>2
  <2>4. CASE ~ (a < k) /\ ~ (a < k + Len(p))
    <3>0. ~ (a <= k - 1 + Len(p))
      BY <1>1, <2>1, <2>4
    <3>1. new[a] = t[a - (k - 1 + Len(p))]
      BY <1>5, <3>0
    <3>2. /\ a - (k - 1 + Len(p)) \in 1 .. Len(list) - k
          /\ a - (k - 1 + Len(p)) + k = a - Len(p) + 1
      BY <1>1, <2>1, <2>4
    <3>3. t[a - (k - 1 + Len(p))] = list[a - (k - 1 + Len(p)) + k]
      BY <1>3, <3>2
    <3> QED BY <2>4, <3>1, <3>2, <3>3
  <2> QED BY <2>2, <2>3, <2>4
<1>7. Spliced(list, k, p, new)
  BY <1>5, <1>6 DEF Spliced
<1> QED BY <1>7 DEF new, u, s, t

\* What is left of an entry covers the rest of its indexes, each once.
LEMMA WithoutParts ==
    ASSUME NEW r \in Entry, NEW i \in Span(r)
    PROVE  LET p == Without(r, i)
           IN  /\ p \in Seq(Entry) /\ Apart(p)
               /\ \A a \in DOMAIN p : Span(p[a]) \subseteq Span(r) \ {i}
               /\ \A x \in Span(r) \ {i} : \E a \in DOMAIN p : x \in Span(p[a])
<1> DEFINE lo == r[1]
           hi == r[Len(r)]
           p == Without(r, i)
<1>1. lo \in Index /\ hi \in Index /\ Span(r) = lo .. hi
  BY EntryShape DEF Span
<1>2. i \in Index /\ lo <= i /\ i <= hi
  BY <1>1 DEF Index
<1> HIDE DEF p
<1>3. CASE lo = hi
  <2>1. p = <<>>
    BY <1>3 DEF Without, p
  <2>2. Span(r) \ {i} = {}
    BY <1>1, <1>2, <1>3 DEF Index
  <2>3. DOMAIN p = {} /\ p \in Seq(Entry)
    BY <2>1
  <2> QED BY <2>2, <2>3 DEF Apart, p
<1>4. CASE lo # hi /\ lo = i
  <2>1. p = <<<<lo + 1, hi>>>>
    BY <1>4 DEF Without, p
  <2>2. Span(r) \ {i} = lo + 1 .. hi
    BY <1>1, <1>2, <1>4 DEF Index
  <2>3. lo + 1 \in Index
    BY <1>1 DEF Index
  <2>4. <<lo + 1, hi>> \in Entry /\ Span(<<lo + 1, hi>>) = lo + 1 .. hi
    BY <1>1, <2>3, EntryMade
  <2>5. p \in Seq(Entry) /\ DOMAIN p = {1} /\ p[1] = <<lo + 1, hi>>
    BY <2>1, <2>4
  <2> QED BY <2>2, <2>4, <2>5 DEF Apart, p
<1>5. CASE lo # i /\ hi = i
  <2>1. p = <<<<lo, hi - 1>>>>
    BY <1>5 DEF Without, p
  <2>2. Span(r) \ {i} = lo .. hi - 1
    BY <1>1, <1>2, <1>5 DEF Index
  <2>3. hi - 1 \in Index
    BY <1>1, <1>2, <1>5 DEF Index
  <2>4. <<lo, hi - 1>> \in Entry /\ Span(<<lo, hi - 1>>) = lo .. hi - 1
    BY <1>1, <2>3, EntryMade
  <2>5. p \in Seq(Entry) /\ DOMAIN p = {1} /\ p[1] = <<lo, hi - 1>>
    BY <2>1, <2>4
  <2> QED BY <2>2, <2>4, <2>5 DEF Apart, p
<1>6. CASE lo # i /\ hi # i
  <2>0. lo # hi
    BY <1>1, <1>2, <1>6 DEF Index
  <2>1. p = <<<<lo, i - 1>>, <<i + 1, hi>>>>
    BY <1>6, <2>0 DEF Without, p
  <2>2. Span(r) \ {i} = (lo .. i - 1) \cup (i + 1 .. hi)
    BY <1>1, <1>2, <1>6 DEF Index
  <2>3. i - 1 \in Index /\ i + 1 \in Index
    BY <1>1, <1>2, <1>6 DEF Index
  <2>4. /\ <<lo, i - 1>> \in Entry /\ Span(<<lo, i - 1>>) = lo .. i - 1
        /\ <<i + 1, hi>> \in Entry /\ Span(<<i + 1, hi>>) = i + 1 .. hi
    BY <1>1, <2>3, EntryMade
  <2>5. /\ p \in Seq(Entry) /\ DOMAIN p = {1, 2}
        /\ p[1] = <<lo, i - 1>> /\ p[2] = <<i + 1, hi>>
    BY <2>1, <2>4
  <2>6. (lo .. i - 1) \cap (i + 1 .. hi) = {}
    BY <1>1, <1>2 DEF Index
  <2>7. Apart(p)
    BY <2>4, <2>5, <2>6 DEF Apart
  <2> QED BY <2>2, <2>4, <2>5, <2>7 DEF p
<1> QED BY <1>3, <1>4, <1>5, <1>6

\* _remove_free_index takes the index out of the first entry that has it.
LEMMA Removed ==
    ASSUME NEW list \in Seq(Entry), NEW i, IsFree(list, i)
    PROVE  \E k \in 1 .. Len(list) :
              /\ i \in Span(list[k])
              /\ Spliced(list, k, Without(list[k], i), RemoveFree(list, i))
<1> DEFINE K == {j \in DOMAIN list : i \in Span(list[j])}
           k == Min(K)
<1>1. K \in SUBSET Nat /\ K # {}
  BY DEF IsFree
<1>2. k \in K
  BY <1>1, Minimum
<1> HIDE DEF k
<1>3. k \in 1 .. Len(list) /\ list[k] \in Entry /\ i \in Span(list[k])
  BY <1>2
<1>4. Without(list[k], i) \in Seq(Entry)
  BY <1>3, WithoutParts
<1>5. Spliced(list, k, Without(list[k], i),
              SubSeq(list, 1, k - 1) \o Without(list[k], i) \o SubSeq(list, k + 1, Len(list)))
  BY <1>3, <1>4, SpliceMade
<1>6. RemoveFree(list, i)
        = SubSeq(list, 1, k - 1) \o Without(list[k], i) \o SubSeq(list, k + 1, Len(list))
  BY DEF RemoveFree, k
<1> QED BY <1>3, <1>5, <1>6

\* The free indexes of a list in which an entry is replaced.
LEMMA SplicedIsFree ==
    ASSUME NEW list \in Seq(Entry), NEW k \in 1 .. Len(list), NEW p \in Seq(Entry),
           NEW new, Spliced(list, k, p, new), NEW x
    PROVE  IsFree(new, x) <=> \/ \E j \in DOMAIN list \ {k} : x \in Span(list[j])
                              \/ IsFree(p, x)
BY SplicedFree DEF IsFree

\* Only that index is no longer free, and the entries stay apart.
LEMMA RemovedOne ==
    ASSUME NEW list \in Seq(Entry), NEW i, IsFree(list, i), Apart(list)
    PROVE  /\ Apart(RemoveFree(list, i))
           /\ \A x : IsFree(RemoveFree(list, i), x) <=> IsFree(list, x) /\ x # i
<1> DEFINE new == RemoveFree(list, i)
<1>1. PICK k \in 1 .. Len(list) :
        i \in Span(list[k]) /\ Spliced(list, k, Without(list[k], i), new)
  BY Removed
<1> DEFINE p == Without(list[k], i)
<1> HIDE DEF p, new
<1>2. list[k] \in Entry /\ DOMAIN list = 1 .. Len(list)
  OBVIOUS
<1>3. /\ p \in Seq(Entry) /\ Apart(p)
      /\ \A a \in DOMAIN p : Span(p[a]) \subseteq Span(list[k]) \ {i}
      /\ \A x \in Span(list[k]) \ {i} : \E a \in DOMAIN p : x \in Span(p[a])
  BY <1>1, <1>2, WithoutParts DEF p
<1>4. Spliced(list, k, p, new)
  BY <1>1 DEF p
<1>5. \A j \in DOMAIN list \ {k} : Span(list[j]) \cap Span(list[k]) = {}
  BY <1>2 DEF Apart
<1>6. Apart(new)
  <2>1. \A j \in DOMAIN list \ {k} : \A a \in DOMAIN p : Span(list[j]) \cap Span(p[a]) = {}
    BY <1>3, <1>5
  <2> QED BY <1>3, <1>4, <2>1, SplicedApart
<1>7. ASSUME NEW x
      PROVE  IsFree(new, x) <=> IsFree(list, x) /\ x # i
  <2>1. IsFree(new, x) <=> \/ \E j \in DOMAIN list \ {k} : x \in Span(list[j])
                           \/ IsFree(p, x)
    BY <1>3, <1>4, SplicedIsFree
  <2>2. IsFree(p, x) <=> x \in Span(list[k]) \ {i}
    BY <1>3 DEF IsFree
  <2>3. IsFree(list, x) <=> \/ \E j \in DOMAIN list \ {k} : x \in Span(list[j])
                            \/ x \in Span(list[k])
    BY <1>2 DEF IsFree
  <2>4. \A j \in DOMAIN list \ {k} : i \notin Span(list[j])
    BY <1>1, <1>5
  <2> QED BY <2>1, <2>2, <2>3, <2>4
<1> QED BY <1>6, <1>7 DEF new

-----------------------------------------------------------------------------
(* The loop that lowers max_node_index.                                    *)

\* The two globals, and the step of the loop.
Global == [max : Nat, free : Seq(Entry)]
LowerStep(s) ==
    IF IsFree(s.free, s.max - 1)
    THEN [max |-> s.max - 1, free |-> RemoveFree(s.free, s.max - 1)]
    ELSE s

\* The step keeps the type of the globals.
LEMMA LowerStepType ==
    ASSUME NEW s \in Global
    PROVE  LowerStep(s) \in Global
<1>0. s.max \in Nat /\ s.free \in Seq(Entry)
  BY DEF Global
<1>1. CASE IsFree(s.free, s.max - 1)
  <2>1. PICK k \in 1 .. Len(s.free) :
          /\ s.max - 1 \in Span(s.free[k])
          /\ Spliced(s.free, k, Without(s.free[k], s.max - 1), RemoveFree(s.free, s.max - 1))
    BY <1>0, <1>1, Removed
  <2>2. s.free[k] \in Entry
    BY <1>0
  <2>3. s.max - 1 \in Index
    <3> DEFINE r == s.free[k]
    <3>1. r \in Entry /\ s.max - 1 \in Span(r)
      BY <2>1, <2>2
    <3> HIDE DEF r
    <3>2. r[1] \in Index /\ r[Len(r)] \in Index
      BY <3>1, EntryShape
    <3>3. s.max - 1 \in r[1] .. r[Len(r)]
      BY <3>1 DEF Span
    <3> QED BY <1>0, <3>2, <3>3 DEF Index
  <2>4. RemoveFree(s.free, s.max - 1) \in Seq(Entry)
    BY <2>1 DEF Spliced
  <2> QED BY <1>1, <2>3, <2>4 DEF LowerStep, Global, Index
<1>2. CASE ~ IsFree(s.free, s.max - 1)
  BY <1>2 DEF LowerStep
<1> QED BY <1>1, <1>2

\* The loop takes max steps from the globals it is given.
LEMMA LowerRun ==
    ASSUME NEW max \in Nat, NEW list \in Seq(Entry)
    PROVE  \E g \in [0 .. max -> Global] :
              /\ g[0] = [max |-> max, free |-> list]
              /\ \A k \in 1 .. max : g[k] = LowerStep(g[k - 1])
              /\ Lower(max, list) = g[max]
<1> DEFINE s0 == [max |-> max, free |-> list]
           step == [s \in Global |-> LowerStep(s)]
           Run(g) == g = [k \in 0 .. max |->
                             IF k = 0 THEN [max |-> max, free |-> list]
                             ELSE LET s == g[k - 1]
                                  IN  IF IsFree(s.free, s.max - 1)
                                      THEN [max |-> s.max - 1,
                                            free |-> RemoveFree(s.free, s.max - 1)]
                                      ELSE s]
           g == CHOOSE h : Run(h)
<1>1. s0 \in Global
  BY DEF Global
<1>2. step \in [Global -> Global]
  BY LowerStepType
<1>3. \E f : LoopRun(f, Global, step, s0, max)
  <2> HIDE DEF s0, step
  <2> QED BY <1>1, <1>2, LoopRuns
<1>4. PICK f : LoopRun(f, Global, step, s0, max)
  BY <1>3
<1>5. Run(f)
  <2>1. ASSUME NEW k \in 0 .. max, k # 0 PROVE f[k] = LowerStep(f[k - 1])
    <3>1. k \in 1 .. max /\ k - 1 \in 0 .. max
      BY <2>1
    <3>2. f[k - 1] \in Global
      BY <1>4, <3>1 DEF LoopRun
    <3> QED BY <1>4, <3>1, <3>2 DEF LoopRun
  <2>2. \A k \in 0 .. max : f[k] = IF k = 0 THEN s0 ELSE LowerStep(f[k - 1])
    <3> HIDE DEF s0
    <3> QED BY <1>4, <2>1 DEF LoopRun
  <2>3. f = [k \in 0 .. max |-> IF k = 0 THEN s0 ELSE LowerStep(f[k - 1])]
    <3> HIDE DEF s0
    <3>1. f = [k \in 0 .. max |-> f[k]]
      BY <1>4 DEF LoopRun
    <3> QED BY <2>2, <3>1
  <2> QED BY <2>3, Zenon DEF LowerStep
<1>6. Run(g)
  <2> HIDE DEF Run
  <2> QED BY <1>5
<1>7. g[0] = s0 /\ \A k \in 1 .. max : g[k] = LowerStep(g[k - 1])
  <2> HIDE DEF g
  <2>1. g = [k \in 0 .. max |-> IF k = 0 THEN s0 ELSE LowerStep(g[k - 1])]
    BY <1>6, Zenon DEF LowerStep
  <2> HIDE DEF Run, s0
  <2>2. 0 \in 0 .. max /\ \A k \in 1 .. max : k \in 0 .. max /\ k # 0
    OBVIOUS
  <2>3. g[0] = s0
    BY <2>1, <2>2
  <2>4. ASSUME NEW k \in 1 .. max PROVE g[k] = LowerStep(g[k - 1])
    BY <2>1, <2>2
  <2> QED BY <2>3, <2>4
<1>8. \A k \in 0 .. max : g[k] \in Global
  <2> HIDE DEF g, s0
  <2> DEFINE G == {k \in Nat : k <= max => g[k] \in Global}
  <2>1. 0 \in G
    BY <1>1, <1>7
  <2>2. ASSUME NEW k \in G PROVE k + 1 \in G
    <3>1. CASE k + 1 <= max
      <4>1. g[k] \in Global
        BY <3>1
      <4>2. k + 1 \in 1 .. max /\ (k + 1) - 1 = k
        BY <3>1
      <4>3. g[k + 1] = LowerStep(g[k])
        BY <1>7, <4>2
      <4> QED BY <4>1, <4>3, LowerStepType
    <3> QED BY <3>1
  <2> HIDE DEF G
  <2>3. G \in SUBSET Nat
    BY DEF G
  <2>4. G = Nat
    BY <2>1, <2>2, <2>3, Induction
  <2> QED BY <2>4 DEF G
<1>9. g \in [0 .. max -> Global]
  <2>1. g = [k \in 0 .. max |-> IF k = 0 THEN s0 ELSE LowerStep(g[k - 1])]
    BY <1>6, Zenon DEF LowerStep
  <2> HIDE DEF g, s0
  <2>2. g = [k \in 0 .. max |-> g[k]]
    BY <2>1
  <2> QED BY <1>8, <2>2
<1>10. Lower(max, list) = g[max]
  BY DEF Lower
<1> QED BY <1>7, <1>9, <1>10

\* The entries of a list whose highest free index was top, while the loop
\* takes them away: a range may shrink to one index, which is the next to go.
Shrinking(list, top) ==
    /\ Apart(list) /\ Within(list, top)
    /\ \A k \in DOMAIN list :
          \/ Len(list[k]) = 1 \/ list[k][1] < list[k][2]
          \/ list[k][1] = list[k][2] /\ list[k][1] = top

\* A step of the loop takes away the highest index, if it is free.
LEMMA LowerStepDone ==
    ASSUME NEW s \in Global, s.max # 0, Shrinking(s.free, s.max - 1),
           IsFree(s.free, s.max - 1)
    PROVE  LET t == LowerStep(s)
           IN  /\ t.max = s.max - 1 /\ t.max # 0 /\ Shrinking(t.free, t.max - 1)
               /\ \A x : IsFree(t.free, x) <=> IsFree(s.free, x) /\ x # s.max - 1
<1> DEFINE i == s.max - 1
           list == s.free
           new == RemoveFree(list, i)
<1>0. s.max \in Nat /\ list \in Seq(Entry) /\ i \in Nat /\ DOMAIN list = 1 .. Len(list)
      /\ LowerStep(s) = [max |-> i, free |-> new]
  BY DEF Global, LowerStep
<1>1. Apart(list) /\ IsFree(list, i)
  BY DEF Shrinking
<1>2. /\ Apart(new)
      /\ \A x : IsFree(new, x) <=> IsFree(list, x) /\ x # i
  <2> HIDE DEF list, i
  <2> QED BY <1>0, <1>1, RemovedOne
<1>3. PICK k \in 1 .. Len(list) :
        i \in Span(list[k]) /\ Spliced(list, k, Without(list[k], i), new)
  <2> HIDE DEF list, i
  <2> QED BY <1>0, <1>1, Removed
<1> DEFINE r == list[k]
           p == Without(r, i)
<1>4. r \in Entry /\ Span(r) \subseteq 1 .. i
  BY <1>0 DEF Shrinking, Within
<1>5. i \in Index
  BY <1>0, <1>3, <1>4 DEF Index
<1> HIDE DEF new
<1>6. p \in Seq(Entry) /\ \A a \in DOMAIN p : Span(p[a]) \subseteq Span(r) \ {i}
  <2> HIDE DEF r, i
  <2> QED BY <1>3, <1>4, WithoutParts DEF r
<1>7. Spliced(list, k, p, new) /\ new \in Seq(Entry)
  BY <1>3 DEF Spliced
<1> HIDE DEF p
<1>8. /\ \A a \in DOMAIN new : \/ \E j \in DOMAIN list \ {k} : new[a] = list[j]
                               \/ \E j \in DOMAIN p : new[a] = p[j]
  <2> HIDE DEF list, r, i
  <2>1. list \in Seq(Entry) /\ k \in 1 .. Len(list)
    BY <1>0
  <2> QED BY <1>6, <1>7, <2>1, SplicedFree
<1>9. Within(new, i - 1)
  <2>1. ASSUME NEW a \in DOMAIN new, NEW x \in Span(new[a]) PROVE x \in 1 .. i - 1
    <3>1. IsFree(new, x)
      BY DEF IsFree
    <3>2. IsFree(list, x) /\ x # i
      BY <1>2, <3>1
    <3>3. x \in 1 .. i
      BY <3>2 DEF IsFree, Shrinking, Within
    <3> QED BY <1>5, <3>2, <3>3 DEF Index
  <2> QED BY <2>1 DEF Within
<1>10. ASSUME NEW a \in DOMAIN new
       PROVE  \/ Len(new[a]) = 1 \/ new[a][1] < new[a][2]
              \/ new[a][1] = new[a][2] /\ new[a][1] = i - 1
  <2>1. CASE \E j \in DOMAIN list \ {k} : new[a] = list[j]
    <3>1. PICK j \in DOMAIN list \ {k} : new[a] = list[j]
      BY <2>1
    <3>2. i \notin Span(list[j])
      BY <1>0, <1>1, <1>3, <3>1 DEF Apart
    <3>3. list[j] \in Entry
      BY <1>0
    <3>4. ~ (Len(list[j]) # 1 /\ list[j][1] = list[j][2] /\ list[j][1] = i)
      <4>1. SUFFICES ASSUME Len(list[j]) # 1, list[j][1] = list[j][2], list[j][1] = i
                     PROVE  FALSE
        OBVIOUS
      <4>2. Span(list[j]) = list[j][1] .. list[j][2]
        BY <3>3, <4>1, EntryShape
      <4> HIDE DEF list, i
      <4>3. i \in list[j][1] .. list[j][2]
        BY <1>0, <4>1
      <4> QED BY <3>2, <4>2, <4>3
    <3>6. \/ Len(list[j]) = 1 \/ list[j][1] < list[j][2]
          \/ list[j][1] = list[j][2] /\ list[j][1] = i
      BY <3>1 DEF Shrinking
    <3> HIDE DEF list, i
    <3>5. Len(list[j]) = 1 \/ list[j][1] < list[j][2]
      BY <3>4, <3>6
    <3> QED BY <3>1, <3>5
  <2>2. CASE \E j \in DOMAIN p : new[a] = p[j]
    <3>1. PICK j \in DOMAIN p : new[a] = p[j]
      BY <2>2
    <3> DEFINE lo == r[1]
               hi == r[Len(r)]
    <3>2. lo \in Index /\ hi \in Index /\ Span(r) = lo .. hi
      BY <1>4, EntryShape DEF Span
    <3>3. hi = i /\ lo <= i
      <4> HIDE DEF lo, hi, r, i
      <4>1. lo <= i /\ i <= hi
        BY <1>3, <1>5, <3>2 DEF r, Index
      <4>2. hi \in lo .. hi
        BY <1>5, <3>2, <4>1 DEF Index
      <4>3. hi \in 1 .. i
        BY <1>4, <3>2, <4>2
      <4> QED BY <1>5, <3>2, <4>1, <4>3 DEF Index
    <3>4. lo # hi
      <4> SUFFICES ASSUME lo = hi PROVE FALSE
        OBVIOUS
      <4>1. p = <<>>
        BY DEF Without, p
      <4> QED BY <4>1, <3>1
    <3>5. p = IF lo = i THEN <<<<lo + 1, hi>>>> ELSE <<<<lo, hi - 1>>>>
      BY <3>3, <3>4 DEF Without, p
    <3>6. p = <<<<lo, hi - 1>>>>
      BY <3>3, <3>4, <3>5
    <3>7. p[j] = <<lo, hi - 1>>
      BY <3>6, <3>1
    <3>8. p[j][1] = lo /\ p[j][2] = hi - 1
      BY <3>7
    <3> HIDE DEF lo, hi
    <3>9. lo < i - 1 \/ lo = i - 1
      BY <1>5, <3>2, <3>3, <3>4 DEF Index
    <3> HIDE DEF i
    <3>10. new[a][1] = lo /\ new[a][2] = i - 1
      BY <3>1, <3>3, <3>8
    <3> QED BY <3>9, <3>10
  <2> QED BY <1>8, <2>1, <2>2
<1>11. Shrinking(new, i - 1)
  BY <1>2, <1>9, <1>10 DEF Shrinking
<1> QED BY <1>0, <1>2, <1>5, <1>11 DEF Index

\* The entries of a list are apart, below a bound, and no range has one index.
Tidy(list, top) == Apart(list) /\ Within(list, top) /\ Strict(list)

\* The loop of _true_del_nodes ends at an index in use, or at the first one,
\* and takes away the free indexes above it.
LEMMA LowerDone ==
    ASSUME NEW max \in Index, NEW list \in Seq(Entry), Tidy(list, max - 1)
    PROVE  LET t == Lower(max, list)
           IN  /\ t \in Global /\ t.max \in 1 .. max /\ Tidy(t.free, t.max - 2)
               /\ \A x \in 1 .. t.max - 1 : IsFree(t.free, x) <=> IsFree(list, x)
               /\ \A x \in t.max .. max - 1 : IsFree(list, x)
<1>1. max \in Nat
  BY DEF Index
<1>2. PICK g \in [0 .. max -> Global] :
        /\ g[0] = [max |-> max, free |-> list]
        /\ \A k \in 1 .. max : g[k] = LowerStep(g[k - 1])
        /\ Lower(max, list) = g[max]
  BY <1>1, LowerRun
<1> DEFINE J(s) == /\ s \in Global /\ s.max \in 1 .. max /\ Shrinking(s.free, s.max - 1)
                   /\ \A x \in 1 .. s.max - 1 : IsFree(s.free, x) <=> IsFree(list, x)
                   /\ \A x \in s.max .. max - 1 : IsFree(list, x)
           Ended(s) == ~ IsFree(s.free, s.max - 1)
           G == {k \in Nat : k <= max => J(g[k]) /\ (g[k].max = max - k \/ Ended(g[k]))}
<1>3. 0 \in G
  <2>1. g[0].max = max /\ g[0].free = list /\ g[0] \in Global
    BY <1>1, <1>2
  <2>2. Shrinking(list, max - 1)
    BY DEF Tidy, Strict, Shrinking
  <2>3. J(g[0])
    BY <1>1, <2>1, <2>2 DEF Index
  <2> HIDE DEF J, Ended
  <2> QED BY <1>1, <2>1, <2>3
<1>4. ASSUME NEW k \in G PROVE k + 1 \in G
  <2> SUFFICES ASSUME k + 1 <= max
               PROVE  J(g[k + 1]) /\ (g[k + 1].max = max - (k + 1) \/ Ended(g[k + 1]))
    <3> HIDE DEF J, Ended
    <3> QED OBVIOUS
  <2> DEFINE s == g[k]
             t == g[k + 1]
  <2>1. k \in Nat /\ k \in 0 .. max /\ J(s) /\ (s.max = max - k \/ Ended(s))
    <3> HIDE DEF J, Ended
    <3> QED BY <1>1
  <2>2. t = LowerStep(s)
    <3>1. k + 1 \in 1 .. max /\ (k + 1) - 1 = k
      BY <1>1, <2>1
    <3> QED BY <1>2, <3>1
  <2> HIDE DEF s, t
  <2>3. CASE Ended(s)
    <3>1. t = s
      BY <2>2, <2>3 DEF LowerStep
    <3> HIDE DEF J
    <3> QED BY <2>1, <2>3, <3>1 DEF s, t
  <2>4. CASE ~ Ended(s)
    <3>1. s.max = max - k /\ IsFree(s.free, s.max - 1) /\ s.max # 0 /\ s.max \in Nat
      BY <2>1, <2>4 DEF Global
    <3>2. /\ t.max = s.max - 1 /\ t.max # 0 /\ Shrinking(t.free, t.max - 1)
          /\ \A x : IsFree(t.free, x) <=> IsFree(s.free, x) /\ x # s.max - 1
      BY <2>1, <2>2, <3>1, LowerStepDone
    <3>3. t \in Global
      BY <2>1, <2>2, LowerStepType
    <3>4. t.max \in 1 .. max
      <4>1. s.max \in 1 .. max
        BY <2>1
      <4> HIDE DEF J, Ended, G
      <4> QED BY <1>1, <3>1, <3>2, <4>1
    <3>5. ASSUME NEW x \in 1 .. t.max - 1 PROVE IsFree(t.free, x) <=> IsFree(list, x)
      <4>1. x \in 1 .. s.max - 1 /\ x # s.max - 1
        BY <3>1, <3>2
      <4> QED BY <2>1, <3>2, <4>1
    <3>6. IsFree(list, s.max - 1)
      <4>1. s.max - 1 \in 1 .. s.max - 1
        BY <3>1, <3>2
      <4> QED BY <2>1, <3>1, <4>1
    <3>7. ASSUME NEW x \in t.max .. max - 1 PROVE IsFree(list, x)
      <4>1. x = s.max - 1 \/ x \in s.max .. max - 1
        BY <1>1, <3>1, <3>2
      <4> QED BY <2>1, <3>6, <4>1
    <3>8. J(t)
      BY <3>2, <3>3, <3>4, <3>5, <3>7
    <3>9. t.max = max - (k + 1)
      BY <1>1, <2>1, <3>1, <3>2
    <3> HIDE DEF J
    <3> QED BY <3>8, <3>9 DEF t
  <2> HIDE DEF J, Ended
  <2> QED BY <2>3, <2>4
<1> DEFINE t == g[max]
<1>5. J(t) /\ (t.max = max - max \/ Ended(t))
  <2> HIDE DEF G
  <2>1. G \in SUBSET Nat
    BY DEF G
  <2>2. max \in G
    BY <1>1, <1>3, <1>4, <2>1, Induction
  <2> HIDE DEF J, Ended
  <2> QED BY <1>1, <2>2 DEF G
<1> HIDE DEF t
<1>6. ~ IsFree(t.free, t.max - 1)
  BY <1>1, <1>5
<1>7. t.max \in Nat /\ t.max # 0 /\ t.free \in Seq(Entry)
  BY <1>1, <1>5 DEF Global
<1>8. Within(t.free, t.max - 2)
  <2>1. ASSUME NEW k \in DOMAIN t.free, NEW x \in Span(t.free[k])
        PROVE  x \in 1 .. t.max - 2
    <3>1. x \in 1 .. t.max - 1
      BY <1>5 DEF Shrinking, Within
    <3>2. x # t.max - 1
      BY <1>6 DEF IsFree
    <3> QED BY <1>7, <3>1, <3>2
  <2> QED BY <2>1 DEF Within
<1>9. Strict(t.free)
  <2>1. ASSUME NEW k \in DOMAIN t.free
        PROVE  Len(t.free[k]) = 1 \/ t.free[k][1] < t.free[k][2]
    <3> DEFINE r == t.free[k]
    <3>1. \/ Len(r) = 1 \/ r[1] < r[2]
          \/ r[1] = r[2] /\ r[1] = t.max - 1
      BY <1>5 DEF Shrinking
    <3>2. r \in Entry
      BY <1>7
    <3>3. ASSUME Len(r) # 1, r[1] = r[2], r[1] = t.max - 1 PROVE FALSE
      <4> HIDE DEF r
      <4>1. Span(r) = r[1] .. r[2] /\ r[1] \in Nat
        BY <3>2, <3>3, EntryShape DEF Index
      <4> HIDE DEF J, Ended, G
      <4>3. r[1] \in r[1] .. r[2]
        BY <3>3, <4>1
      <4>2. t.max - 1 \in Span(r)
        BY <3>3, <4>1, <4>3
      <4> QED BY <1>6, <4>2 DEF IsFree, r
    <3> HIDE DEF r
    <3>4. Len(r) = 1 \/ r[1] < r[2]
      BY <3>1, <3>3
    <3> QED BY <3>4 DEF r
  <2> QED BY <2>1 DEF Strict
<1>10. Apart(t.free)
  BY <1>5 DEF Shrinking
<1>11. t = Lower(max, list)
  BY <1>2 DEF t
<1> HIDE DEF Ended
<1> QED BY <1>5, <1>8, <1>9, <1>10, <1>11 DEF Tidy

\* What the deletion of a node makes of the globals has their type.
LEMMA FreedType ==
    ASSUME NEW max \in Nat, NEW list \in Seq(Entry), NEW i \in Nat
    PROVE  Freed(max, list, i) \in Global
<1>1. CASE i = 0
  BY <1>1 DEF Freed, Global
<1>2. CASE i # 0 /\ i = max - 1
  <2>1. max - 1 \in Nat
    BY <1>2
  <2>2. Lower(max - 1, list) \in Global
    <3> DEFINE n == max - 1
    <3> HIDE DEF n
    <3>1. n \in Nat
      BY <2>1 DEF n
    <3>2. n \in 0 .. n
      BY <3>1
    <3>3. PICK g \in [0 .. n -> Global] :
            /\ g[0] = [max |-> n, free |-> list]
            /\ \A k \in 1 .. n : g[k] = LowerStep(g[k - 1])
            /\ Lower(n, list) = g[n]
      BY <3>1, LowerRun
    <3> QED BY <3>2, <3>3 DEF n
  <2> QED BY <1>2, <2>2 DEF Freed
<1>3. CASE i # 0 /\ i # max - 1 /\ ~ (list # <<>> /\ i = Last(list)[Len(Last(list))] + 1)
  <2>1. <<i>> \in Entry
    BY <1>3, EntryMade DEF Index
  <2>2. Append(list, <<i>>) \in Seq(Entry)
    BY <2>1
  <2>3. Freed(max, list, i) = [max |-> max, free |-> Append(list, <<i>>)]
    BY <1>3 DEF Freed
  <2> QED BY <2>2, <2>3 DEF Global
<1>4. CASE i # 0 /\ i # max - 1 /\ list # <<>> /\ i = Last(list)[Len(Last(list))] + 1
  <2>1. Last(list) \in Entry /\ Front(list) \in Seq(Entry)
    BY <1>4 DEF Last, Front
  <2>2. Last(list)[1] \in Index /\ i \in Index
    BY <1>4, <2>1, EntryShape DEF Index
  <2>3. <<Last(list)[1], i>> \in Entry
    BY <2>2, EntryMade
  <2>4. Append(Front(list), <<Last(list)[1], i>>) \in Seq(Entry)
    BY <2>1, <2>3
  <2>5. Freed(max, list, i) = [max |-> max, free |-> Append(Front(list), <<Last(list)[1], i>>)]
    BY <1>4 DEF Freed
  <2> QED BY <2>4, <2>5 DEF Global
<1> QED BY <1>1, <1>2, <1>3, <1>4

\* Deleting the node with an index that is not free keeps the list tidy, and
\* frees that index; those above max_node_index were free or are this one.
LEMMA FreedTidy ==
    ASSUME NEW max \in Index, NEW list \in Seq(Entry), Tidy(list, max - 2),
           NEW i \in 1 .. max - 1, ~ IsFree(list, i)
    PROVE  LET t == Freed(max, list, i)
           IN  /\ t.max \in 1 .. max /\ Tidy(t.free, t.max - 2)
               /\ \A x \in 1 .. t.max - 1 : IsFree(t.free, x) <=> IsFree(list, x) \/ x = i
               /\ \A x \in t.max .. max - 1 : IsFree(list, x) \/ x = i
<1> DEFINE t == Freed(max, list, i)
           n == max - 1
<1>0. max \in Nat /\ i \in Nat /\ i \in Index /\ i <= max - 1 /\ n \in Index
      /\ DOMAIN list = 1 .. Len(list) /\ Len(list) \in Nat
  BY DEF Index
<1>1. CASE i = n
  <2>1. t = Lower(n, list)
    BY <1>0, <1>1 DEF Freed, Index
  <2>2. Tidy(list, n - 1)
    <3>1. n - 1 = max - 2
      BY <1>0
    <3> QED BY <3>1
  <2> HIDE DEF t, n
  <2>3. /\ t.max \in 1 .. n /\ Tidy(t.free, t.max - 2)
        /\ \A x \in 1 .. t.max - 1 : IsFree(t.free, x) <=> IsFree(list, x)
        /\ \A x \in t.max .. n - 1 : IsFree(list, x)
    BY <1>0, <2>1, <2>2, LowerDone
  <2>4. n \in Nat /\ max = n + 1
    BY <1>0 DEF n
  <2>5. t.max \in 1 .. max
    BY <2>3, <2>4
  <2>6. ASSUME NEW x \in 1 .. t.max - 1
        PROVE  IsFree(t.free, x) <=> IsFree(list, x) \/ x = i
    <3>1. x # i
      BY <1>1, <2>3, <2>4
    <3> QED BY <2>3, <3>1
  <2>7. ASSUME NEW x \in t.max .. max - 1 PROVE IsFree(list, x) \/ x = i
    <3>1. x \in t.max .. n - 1 \/ x = n
      BY <2>3, <2>4
    <3> QED BY <1>1, <2>3, <3>1
  <2> QED BY <2>3, <2>5, <2>6, <2>7 DEF t
<1>2. ASSUME i # n, NEW new, t = [max |-> max, free |-> new], Tidy(new, max - 2),
             \A x : IsFree(new, x) <=> IsFree(list, x) \/ x = i
      PROVE  /\ t.max \in 1 .. max /\ Tidy(t.free, t.max - 2)
             /\ \A x \in 1 .. t.max - 1 : IsFree(t.free, x) <=> IsFree(list, x) \/ x = i
             /\ \A x \in t.max .. max - 1 : IsFree(list, x) \/ x = i
  <2>1. t.max = max /\ t.free = new
    BY <1>2
  <2>2. max \in 1 .. max /\ max .. max - 1 = {}
    BY <1>0 DEF Index
  <2> HIDE DEF t
  <2> QED BY <1>2, <2>1, <2>2
<1>3. i # n => i \in 1 .. max - 2
  BY <1>0
<1>4. CASE i # n /\ ~ (list # <<>> /\ i = Last(list)[Len(Last(list))] + 1)
  <2> DEFINE new == Append(list, <<i>>)
  <2>1. t = [max |-> max, free |-> new]
    BY <1>0, <1>4 DEF Freed, Index
  <2>2. <<i>> \in Entry /\ Len(<<i>>) = 1 /\ Span(<<i>>) = {i}
    BY <1>0, EntryMade
  <2>3. /\ DOMAIN new = 1 .. Len(list) + 1 /\ new[Len(list) + 1] = <<i>>
        /\ \A a \in DOMAIN list : new[a] = list[a]
    BY <1>0, <2>2
  <2>4. /\ DOMAIN new = DOMAIN list \cup {Len(list) + 1} /\ Len(list) + 1 \notin DOMAIN list
    <3> DEFINE k == Len(list)
    <3>1. k \in Nat /\ DOMAIN list = 1 .. k /\ DOMAIN new = 1 .. k + 1
      BY <1>0, <2>3
    <3> HIDE DEF k, new, t, n
    <3>2. 1 .. k + 1 = (1 .. k) \cup {k + 1} /\ k + 1 \notin 1 .. k
      BY <3>1
    <3> QED BY <3>1, <3>2 DEF k
  <2> HIDE DEF new, t, n
  <2>5. \A a \in DOMAIN list : i \notin Span(list[a])
    BY DEF IsFree
  <2>6. Apart(new)
    BY <2>2, <2>3, <2>4, <2>5 DEF Apart, Tidy
  <2>7. Within(new, max - 2)
    BY <1>3, <1>4, <2>2, <2>3, <2>4 DEF Within, Tidy
  <2>8. Strict(new)
    BY <2>2, <2>3, <2>4 DEF Strict, Tidy
  <2>9. \A x : IsFree(new, x) <=> IsFree(list, x) \/ x = i
    BY <2>2, <2>3, <2>4 DEF IsFree
  <2>10. Tidy(new, max - 2)
    BY <2>6, <2>7, <2>8 DEF Tidy
  <2>11. i # n
    BY <1>4
  <2>12. /\ t.max \in 1 .. max /\ Tidy(t.free, t.max - 2)
         /\ \A x \in 1 .. t.max - 1 : IsFree(t.free, x) <=> IsFree(list, x) \/ x = i
         /\ \A x \in t.max .. max - 1 : IsFree(list, x) \/ x = i
    BY <1>2, <2>1, <2>9, <2>10, <2>11
  <2> QED BY <2>12 DEF t
<1>5. CASE i # n /\ list # <<>> /\ i = Last(list)[Len(Last(list))] + 1
  <2> DEFINE k == Len(list)
             r == Last(list)
             e == <<r[1], i>>
             new == Append(Front(list), e)
  <2>1. t = [max |-> max, free |-> new]
    BY <1>0, <1>5 DEF Freed, Index
  <2>2. k \in 1 .. Len(list) /\ r = list[k] /\ r \in Entry
    BY <1>0, <1>5 DEF Last
  <2>3. r[1] \in Index /\ r[Len(r)] \in Index /\ Span(r) = r[1] .. r[Len(r)]
    BY <2>2, EntryShape DEF Span
  <2>4. r[1] <= r[Len(r)]
    <3>1. Len(r) = 1 \/ r[1] < r[2]
      BY <2>2 DEF Tidy, Strict
    <3> HIDE DEF r
    <3>2. Len(r) = 1 \/ Len(r) = 2
      BY <2>2, EntryShape
    <3> QED BY <2>3, <3>1, <3>2 DEF Index
  <2>5. r[1] < i /\ Span(r) \cup {i} = r[1] .. i
    <3> DEFINE lo == r[1]
               hi == r[Len(r)]
    <3>1. lo \in Nat /\ hi \in Nat /\ i = hi + 1 /\ lo <= hi /\ Span(r) = lo .. hi
      BY <1>5, <2>3, <2>4 DEF Index
    <3> HIDE DEF lo, hi, r
    <3>2. lo < i /\ (lo .. hi) \cup {i} = lo .. i
      BY <3>1
    <3> QED BY <3>1, <3>2 DEF lo
  <2>6. e \in Entry /\ Len(e) = 2 /\ Span(e) = r[1] .. i /\ e[1] = r[1] /\ e[2] = i
    BY <1>0, <2>3, EntryMade
  <2>7. Front(list) \in Seq(Entry) /\ Len(Front(list)) = k - 1
        /\ \A a \in 1 .. k - 1 : Front(list)[a] = list[a]
    BY <1>0, <1>5 DEF Front
  <2> HIDE DEF r, e
  <2>8. /\ DOMAIN new = 1 .. k /\ new[k] = e
        /\ \A a \in 1 .. k - 1 : new[a] = list[a]
    <3> DEFINE f == Front(list)
    <3>1. k \in Nat /\ (k - 1) + 1 = k /\ f \in Seq(Entry) /\ Len(f) = k - 1
      BY <1>0, <2>7
    <3> HIDE DEF k, f, t, n
    <3>2. /\ Append(f, e) \in Seq(Entry) /\ Len(Append(f, e)) = Len(f) + 1
          /\ \A a \in 1 .. Len(f) : Append(f, e)[a] = f[a]
          /\ Append(f, e)[Len(f) + 1] = e
      BY <2>6, <3>1, AppendProperties
    <3>3. DOMAIN Append(f, e) = 1 .. k
      BY <3>1, <3>2
    <3> QED BY <2>7, <3>1, <3>2, <3>3 DEF f
  <2>9. /\ DOMAIN new = DOMAIN list
        /\ \A a \in DOMAIN list : new[a] = IF a = k THEN e ELSE list[a]
    <3>1. \A a \in 1 .. k : a = k \/ a \in 1 .. k - 1
      <4>1. k \in Nat
        BY <1>0
      <4> HIDE DEF k, new, t, n
      <4> QED BY <4>1
    <3> HIDE DEF new
    <3> QED BY <1>0, <2>8, <3>1
  <2> HIDE DEF new, t, n, k
  <2>10. \A a \in DOMAIN list : i \notin Span(list[a])
    BY DEF IsFree
  <2>11. \A a \in DOMAIN list : Span(new[a]) = IF a = k THEN Span(list[k]) \cup {i} ELSE Span(list[a])
    BY <2>2, <2>5, <2>6, <2>9
  <2>12. Apart(new)
    BY <1>0, <2>2, <2>9, <2>10, <2>11 DEF Apart, Tidy
  <2>13. Within(new, max - 2)
    BY <1>3, <1>5, <1>0, <2>2, <2>9, <2>11 DEF Within, Tidy
  <2>14. Strict(new)
    BY <2>5, <2>6, <2>9 DEF Strict, Tidy
  <2>15. \A x : IsFree(new, x) <=> IsFree(list, x) \/ x = i
    BY <1>0, <2>2, <2>9, <2>11 DEF IsFree
  <2>16. Tidy(new, max - 2)
    BY <2>12, <2>13, <2>14 DEF Tidy
  <2>17. i # n
    BY <1>5
  <2>18. /\ t.max \in 1 .. max /\ Tidy(t.free, t.max - 2)
         /\ \A x \in 1 .. t.max - 1 : IsFree(t.free, x) <=> IsFree(list, x) \/ x = i
         /\ \A x \in t.max .. max - 1 : IsFree(list, x) \/ x = i
    BY <1>2, <2>1, <2>15, <2>16, <2>17
  <2> QED BY <2>18 DEF t
<1> QED BY <1>1, <1>4, <1>5

-----------------------------------------------------------------------------
(* What the creation of a node takes from the globals.                     *)

\* The empty list has no free index.
LEMMA CountEmpty == CountFree(<<>>) = 0
<1> DEFINE C(count) == count = [k \in 0 .. Len(<<>>) |->
                                  IF k = 0 THEN 0
                                  ELSE count[k - 1] + Cardinality(Span(<<>>[k]))]
           c == CHOOSE count : C(count)
<1>1. C([k \in 0 .. 0 |-> 0])
  OBVIOUS
<1>2. C(c)
  <2> HIDE DEF C
  <2> QED BY <1>1
<1>3. c[0] = 0
  <2> HIDE DEF c
  <2> QED BY <1>2
<1>4. CountFree(<<>>) = c[Len(<<>>)]
  BY DEF CountFree
<1> HIDE DEF c, C
<1> QED BY <1>3, <1>4

\* The entries that remain of the first entry when its first index is reused.
Reused(r) == IF Len(r) = 1 THEN <<>>
             ELSE IF r[1] + 1 = r[2] THEN <<<<r[2]>>>>
             ELSE <<<<r[1] + 1, r[2]>>>>

\* Reusing an index replaces the first entry.
LEMMA AllocatedReuse ==
    ASSUME NEW max \in Nat, NEW list \in Seq(Entry), CountFree(list) > Reserve
    PROVE  /\ 1 \in 1 .. Len(list) /\ Reused(list[1]) \in Seq(Entry)
           /\ \E new : /\ Allocated(max, list) = [idx |-> list[1][1], max |-> max, free |-> new]
                       /\ Spliced(list, 1, Reused(list[1]), new)
<1> DEFINE r == list[1]
           p == Reused(r)
           new == p \o Tail(list)
<1>1. list # <<>>
  BY CountEmpty, ReserveAssumption
<1>2. 1 \in 1 .. Len(list) /\ Head(list) = r /\ r \in Entry /\ Len(list) \in Nat
  BY <1>1
<1>3. Tail(list) \in Seq(Entry) /\ Len(Tail(list)) = Len(list) - 1
      /\ \A a \in 1 .. Len(Tail(list)) : Tail(list)[a] = list[a + 1]
  BY <1>1, HeadTailProperties
<1>4. Len(r) = 1 \/ (Len(r) = 2 /\ r[1] \in Index /\ r[2] \in Index)
  BY <1>2, EntryShape
<1>5. p \in Seq(Entry)
  <2> HIDE DEF r
  <2>1. CASE Len(r) = 1
    BY <2>1 DEF Reused
  <2>2. CASE Len(r) # 1
    <3>1. r[1] + 1 \in Index /\ r[2] \in Index
      BY <1>4, <2>2 DEF Index
    <3>2. <<r[2]>> \in Entry /\ <<r[1] + 1, r[2]>> \in Entry
      BY <3>1, EntryMade
    <3> QED BY <2>2, <3>2 DEF Reused
  <2> QED BY <2>1, <2>2
<1>6. Allocated(max, list) = [idx |-> r[1], max |-> max, free |-> new]
  <2> DEFINE rest == CASE Len(r) = 1 -> Tail(list)
                       [] Len(r) = 2 /\ r[1] + 1 = r[2] -> <<<<r[2]>>>> \o Tail(list)
                       [] OTHER -> <<<<r[1] + 1, r[2]>>>> \o Tail(list)
  <2>1. rest = new
    <3> HIDE DEF r
    <3>1. CASE Len(r) = 1
      <4>1. rest = Tail(list) /\ p = <<>>
        BY <3>1 DEF Reused
      <4>2. <<>> \o Tail(list) = Tail(list)
        BY <1>3, ConcatEmptySeq
      <4> QED BY <4>1, <4>2
    <3>2. CASE Len(r) = 2 /\ r[1] + 1 = r[2]
      BY <3>2 DEF Reused
    <3>3. CASE Len(r) = 2 /\ r[1] + 1 # r[2]
      BY <3>3 DEF Reused
    <3> QED BY <1>4, <3>1, <3>2, <3>3
  <2>2. Allocated(max, list) = [idx |-> r[1], max |-> max, free |-> rest]
    <3>1. Allocated(max, list)
            = LET q == Head(list)
                  s == CASE Len(q) = 1 -> Tail(list)
                         [] Len(q) = 2 /\ q[1] + 1 = q[2] -> <<<<q[2]>>>> \o Tail(list)
                         [] OTHER -> <<<<q[1] + 1, q[2]>>>> \o Tail(list)
              IN  [idx |-> q[1], max |-> max, free |-> s]
      BY DEF Allocated
    <3> HIDE DEF r
    <3> QED BY <1>2, <3>1
  <2> HIDE DEF rest, new, r
  <2> QED BY <2>1, <2>2
<1> HIDE DEF p
<1>7. Spliced(list, 1, p, new)
  <2>1. /\ new \in Seq(Entry) /\ Len(new) = Len(p) + Len(Tail(list))
        /\ \A a \in 1 .. Len(p) + Len(Tail(list)) :
              new[a] = IF a <= Len(p) THEN p[a] ELSE Tail(list)[a - Len(p)]
    BY <1>3, <1>5, ConcatProperties
  <2> HIDE DEF new, r
  <2>2. Len(p) \in Nat /\ Len(new) = Len(list) - 1 + Len(p)
    BY <1>2, <1>3, <1>5, <2>1
  <2>3. ASSUME NEW a \in 1 .. Len(new)
        PROVE  new[a] = IF a < 1 THEN list[a]
                        ELSE IF a < 1 + Len(p) THEN p[a - 1 + 1]
                        ELSE list[a - Len(p) + 1]
    <3>0. a \in Nat /\ a >= 1 /\ a <= Len(p) + Len(Tail(list)) /\ a - 1 + 1 = a
      BY <1>2, <1>3, <2>1, <2>2
    <3>1. CASE a <= Len(p)
      <4>1. new[a] = p[a]
        BY <1>2, <1>3, <2>1, <2>2, <3>0, <3>1
      <4>2. a < 1 + Len(p) /\ ~ (a < 1)
        BY <2>2, <3>0, <3>1
      <4> QED BY <3>0, <4>1, <4>2
    <3>2. CASE ~ (a <= Len(p))
      <4>1. new[a] = Tail(list)[a - Len(p)]
        BY <1>2, <1>3, <2>1, <2>2, <3>0, <3>2
      <4>2. a - Len(p) \in 1 .. Len(Tail(list))
        BY <1>2, <1>3, <2>2, <3>0, <3>2
      <4>3. Tail(list)[a - Len(p)] = list[a - Len(p) + 1]
        BY <1>3, <4>2
      <4>4. ~ (a < 1 + Len(p)) /\ ~ (a < 1)
        BY <2>2, <3>0, <3>2
      <4> QED BY <4>1, <4>3, <4>4
    <3> QED BY <3>1, <3>2
  <2> QED BY <2>1, <2>2, <2>3 DEF Spliced
<1> QED BY <1>2, <1>5, <1>6, <1>7 DEF p

\* The index and the globals that a creation leaves have their types.
LEMMA AllocatedType ==
    ASSUME NEW max \in Nat, NEW list \in Seq(Entry)
    PROVE  LET t == Allocated(max, list)
           IN  t.idx \in Index /\ t.max \in Nat /\ t.free \in Seq(Entry)
<1>1. CASE CountFree(list) > Reserve
  <2>1. PICK new : /\ Allocated(max, list) = [idx |-> list[1][1], max |-> max, free |-> new]
                   /\ Spliced(list, 1, Reused(list[1]), new)
    BY <1>1, AllocatedReuse
  <2>2. 1 \in 1 .. Len(list)
    BY <1>1, AllocatedReuse
  <2>3. list[1] \in Entry
    BY <2>2
  <2>4. list[1][1] \in Index
    BY <2>3, EntryShape
  <2> QED BY <2>1, <2>4 DEF Spliced
<1>2. CASE ~ (CountFree(list) > Reserve)
  <2>1. Allocated(max, list) = [idx |-> IF max = 0 THEN 1 ELSE max,
                                max |-> (IF max = 0 THEN 1 ELSE max) + 1, free |-> list]
    BY <1>2 DEF Allocated
  <2> QED BY <2>1 DEF Index
<1> QED BY <1>1, <1>2

\* A creation takes a free index or the next new one, and keeps the list tidy.
LEMMA AllocatedTidy ==
    ASSUME NEW max \in Nat, NEW list \in Seq(Entry),
           IF max = 0 THEN list = <<>> ELSE Tidy(list, max - 2)
    PROVE  LET t == Allocated(max, list)
           IN  /\ \/ t.max = max /\ max # 0 /\ IsFree(list, t.idx)
                  \/ t.max = t.idx + 1 /\ t.idx = IF max = 0 THEN 1 ELSE max
               /\ Tidy(t.free, t.max - 2)
               /\ \A x : IsFree(t.free, x) <=> IsFree(list, x) /\ x # t.idx
<1> DEFINE t == Allocated(max, list)
<1>0. DOMAIN list = 1 .. Len(list) /\ Len(list) \in Nat
  OBVIOUS
<1>1. CASE CountFree(list) > Reserve
  <2>1. PICK new : /\ Allocated(max, list) = [idx |-> list[1][1], max |-> max, free |-> new]
                   /\ Spliced(list, 1, Reused(list[1]), new)
    BY <1>1, AllocatedReuse
  <2>2. 1 \in 1 .. Len(list) /\ Reused(list[1]) \in Seq(Entry)
    BY <1>1, AllocatedReuse
  <2>3. max # 0 /\ Tidy(list, max - 2)
    BY <2>2
  <2> DEFINE r == list[1]
             i == r[1]
             p == Reused(r)
  <2>4. r \in Entry
    BY <2>2
  <2>5. t = [idx |-> i, max |-> max, free |-> new] /\ Spliced(list, 1, p, new)
        /\ p \in Seq(Entry)
    BY <2>1, <2>2
  <2>6. Len(r) = 1 \/ r[1] < r[2]
    BY <1>0, <2>2, <2>3 DEF Tidy, Strict
  <2> HIDE DEF r, t
  <2>7. /\ \A a \in DOMAIN p : Len(p[a]) = 1 \/ p[a][1] < p[a][2]
        /\ \A x : IsFree(p, x) <=> x \in Span(r) /\ x # i
        /\ Apart(p) /\ i \in Span(r)
    <3>1. CASE Len(r) = 1
      <4>1. p = <<>> /\ Span(r) = {i}
        BY <2>4, <3>1, EntryShape DEF Reused
      <4>2. DOMAIN p = {}
        BY <4>1
      <4> QED BY <4>1, <4>2 DEF IsFree, Apart
    <3>2. CASE Len(r) # 1
      <4>1. i \in Nat /\ i # 0 /\ r[2] \in Nat /\ i < r[2] /\ Span(r) = i .. r[2]
        BY <2>4, <2>6, <3>2, EntryShape DEF Index
      <4> HIDE DEF i
      <4>2. i + 1 \in Index /\ r[2] \in Index /\ i + 1 # 0
        BY <4>1 DEF Index
      <4> DEFINE e == IF i + 1 = r[2] THEN <<r[2]>> ELSE <<i + 1, r[2]>>
      <4>3. p = <<e>>
        BY <3>2 DEF Reused, i
      <4>4. e \in Entry /\ Span(e) = i + 1 .. r[2] /\ (Len(e) = 1 \/ e[1] < e[2])
        <5>1. CASE i + 1 = r[2]
          <6>1. Span(e) = {r[2]} /\ e \in Entry /\ Len(e) = 1
            BY <4>2, <5>1, EntryMade
          <6>2. {r[2]} = i + 1 .. r[2]
            BY <4>1, <5>1
          <6> QED BY <6>1, <6>2
        <5>2. CASE i + 1 # r[2]
          <6>1. Span(e) = i + 1 .. r[2] /\ e \in Entry /\ e[1] = i + 1 /\ e[2] = r[2]
            BY <4>2, <5>2, EntryMade
          <6>2. i + 1 < r[2]
            BY <4>1, <5>2
          <6> QED BY <6>1, <6>2
        <5> QED BY <5>1, <5>2
      <4> HIDE DEF e, p
      <4>5. DOMAIN p = {1} /\ p[1] = e
        BY <4>3
      <4>6. \A x : x \in i + 1 .. r[2] <=> x \in i .. r[2] /\ x # i
        BY <4>1
      <4>7. i \in i .. r[2]
        BY <4>1
      <4> QED BY <4>1, <4>4, <4>5, <4>6, <4>7 DEF IsFree, Apart
    <3> QED BY <3>1, <3>2
  <2> HIDE DEF p, i
  <2>8. new \in Seq(Entry) /\ DOMAIN new = 1 .. Len(new)
    BY <2>5 DEF Spliced
  <2>9. \A j \in DOMAIN list \ {1} : Span(list[j]) \cap Span(r) = {}
    BY <1>0, <2>2, <2>3 DEF Tidy, Apart, r
  <2>10. Apart(new)
    <3>1. ASSUME NEW j \in DOMAIN list \ {1}, NEW a \in DOMAIN p
          PROVE  Span(list[j]) \cap Span(p[a]) = {}
      <4>1. Span(p[a]) \subseteq Span(r)
        BY <2>7 DEF IsFree
      <4> QED BY <2>9, <4>1
    <3>2. Apart(list)
      BY <2>3 DEF Tidy
    <3> QED BY <2>2, <2>5, <2>7, <3>1, <3>2, SplicedApart
  <2>11. ASSUME NEW x PROVE IsFree(new, x) <=> IsFree(list, x) /\ x # i
    <3>1. IsFree(new, x) <=> \/ \E j \in DOMAIN list \ {1} : x \in Span(list[j])
                             \/ IsFree(p, x)
      BY <2>2, <2>5, SplicedIsFree
    <3>2. IsFree(list, x) <=> \/ \E j \in DOMAIN list \ {1} : x \in Span(list[j])
                              \/ x \in Span(r)
      BY <1>0, <2>2 DEF IsFree, r
    <3>3. \A j \in DOMAIN list \ {1} : i \notin Span(list[j])
      BY <2>7, <2>9
    <3> QED BY <2>7, <3>1, <3>2, <3>3
  <2>12. Within(new, max - 2)
    <3>1. ASSUME NEW a \in DOMAIN new, NEW x \in Span(new[a]) PROVE x \in 1 .. max - 2
      <4>1. IsFree(list, x)
        BY <2>11 DEF IsFree
      <4> QED BY <2>3, <4>1 DEF IsFree, Tidy, Within
    <3> QED BY <3>1 DEF Within
  <2>13. Strict(new)
    <3>1. \A a \in DOMAIN new : \/ \E j \in DOMAIN list \ {1} : new[a] = list[j]
                                \/ \E j \in DOMAIN p : new[a] = p[j]
      BY <2>2, <2>5, SplicedFree
    <3> QED BY <2>3, <2>7, <3>1 DEF Strict, Tidy
  <2>14. IsFree(list, i)
    BY <1>0, <2>2, <2>7 DEF IsFree, r
  <2>15. t.max = max /\ t.idx = i /\ t.free = new
    BY <2>5
  <2>16. Tidy(new, max - 2)
    BY <2>10, <2>12, <2>13 DEF Tidy
  <2>17. /\ \/ t.max = max /\ max # 0 /\ IsFree(list, t.idx)
            \/ t.max = t.idx + 1 /\ t.idx = IF max = 0 THEN 1 ELSE max
         /\ Tidy(t.free, t.max - 2)
         /\ \A x : IsFree(t.free, x) <=> IsFree(list, x) /\ x # t.idx
    BY <2>3, <2>11, <2>14, <2>15, <2>16
  <2> QED BY <2>17 DEF t
<1>2. CASE ~ (CountFree(list) > Reserve)
  <2> DEFINE i == IF max = 0 THEN 1 ELSE max
  <2>1. t = [idx |-> i, max |-> i + 1, free |-> list]
    BY <1>2 DEF Allocated
  <2> HIDE DEF t
  <2>2. i \in Nat /\ i # 0
    OBVIOUS
  <2>3. t.idx = i /\ t.max = i + 1 /\ t.free = list
    BY <2>1
  <2>4. CASE max = 0
    <3>1. DOMAIN list = {}
      BY <2>4
    <3>2. /\ Tidy(list, t.max - 2)
          /\ \A x : ~ IsFree(list, x)
      BY <3>1 DEF Tidy, Apart, Within, Strict, IsFree
    <3> HIDE DEF i
    <3> QED BY <2>3, <2>4, <3>2 DEF t, i
  <2>5. CASE max # 0
    <3>1. Tidy(list, max - 2) /\ i = max
      BY <2>5
    <3>2. \A x : IsFree(list, x) => x \in 1 .. max - 2
      BY <3>1 DEF Tidy, Within, IsFree
    <3>3. \A x : x \in 1 .. max - 2 => x \in 1 .. max - 1 /\ x # max
      OBVIOUS
    <3>4. t.max - 2 = max - 1
      BY <2>3, <3>1
    <3> HIDE DEF i
    <3>5. Tidy(list, max - 1)
      BY <3>1, <3>2, <3>3 DEF Tidy, Within, IsFree
    <3>6. \A x : IsFree(list, x) <=> IsFree(list, x) /\ x # max
      BY <3>2, <3>3
    <3> QED BY <2>3, <2>5, <3>1, <3>4, <3>5, <3>6 DEF t
  <2> QED BY <2>4, <2>5
<1> QED BY <1>1, <1>2

-----------------------------------------------------------------------------
(* The indexes of the nodes of one member.                                 *)

\* Every index below max_node_index is that of exactly one node or is free,
\* no node has one above, and the list of free indexes is tidy.
Sound(N, ix, max, list) ==
    /\ \A n \in N : ix[n] \in 1 .. max - 1 /\ ~ IsFree(list, ix[n])
    /\ \A n1, n2 \in N : ix[n1] = ix[n2] => n1 = n2
    /\ \A i \in 1 .. max - 1 : ~ IsFree(list, i) => \E n \in N : ix[n] = i
    /\ Tidy(list, max - 2)

\* A node that is created gets an index that no other node has.
LEMMA SoundCreate ==
    ASSUME NEW N \in SUBSET Node, NEW n \in Node \ N, NEW ix \in [Node -> Nat],
           NEW max \in Nat, NEW list \in Seq(Entry),
           IF max = 0 THEN N = {} /\ list = <<>> ELSE Sound(N, ix, max, list)
    PROVE  LET t == Allocated(max, list)
           IN  t.max # 0 /\ Sound(N \cup {n}, [ix EXCEPT ![n] = t.idx], t.max, t.free)
<1> DEFINE t == Allocated(max, list)
           iy == [ix EXCEPT ![n] = t.idx]
<1>1. t.idx \in Index /\ t.max \in Nat
  BY AllocatedType
<1>2. IF max = 0 THEN list = <<>> ELSE Tidy(list, max - 2)
  BY DEF Sound
<1>3. /\ \/ t.max = max /\ max # 0 /\ IsFree(list, t.idx)
         \/ t.max = t.idx + 1 /\ t.idx = IF max = 0 THEN 1 ELSE max
      /\ Tidy(t.free, t.max - 2)
      /\ \A x : IsFree(t.free, x) <=> IsFree(list, x) /\ x # t.idx
  BY <1>2, AllocatedTidy
<1> HIDE DEF t
<1>4. iy[n] = t.idx /\ \A x \in N : iy[x] = ix[x] /\ x # n
  OBVIOUS
<1> HIDE DEF iy
<1>5. max = 0 => N = {} /\ \A x : ~ IsFree(list, x)
  BY DEF IsFree
<1>6. max # 0 => Sound(N, ix, max, list)
  OBVIOUS
<1>7. t.idx \in Nat /\ t.idx # 0
  BY <1>1 DEF Index
<1>8. t.idx \in 1 .. t.max - 1 /\ t.max # 0
  <2>1. CASE t.max = max /\ max # 0 /\ IsFree(list, t.idx)
    <3>1. t.idx \in 1 .. max - 2
      BY <1>2, <2>1 DEF Tidy, Within, IsFree
    <3> QED BY <1>1, <2>1, <3>1
  <2>2. CASE t.max = t.idx + 1
    BY <1>7, <2>2
  <2> QED BY <1>3, <2>1, <2>2
<1>9. max # 0 => 1 .. max - 1 \subseteq 1 .. t.max - 1
  BY <1>3, <1>7
<1>10. ASSUME NEW x \in N
       PROVE  iy[x] \in 1 .. t.max - 1 /\ ~ IsFree(t.free, iy[x]) /\ iy[x] # t.idx
  <2>1. max # 0 /\ iy[x] = ix[x] /\ ix[x] \in 1 .. max - 1 /\ ~ IsFree(list, ix[x])
    BY <1>4, <1>5, <1>6 DEF Sound
  <2>2. ix[x] # t.idx
    BY <1>3, <2>1
  <2> QED BY <1>3, <1>9, <2>1, <2>2
<1>11. \A n1, n2 \in N \cup {n} : iy[n1] = iy[n2] => n1 = n2
  <2>1. \A n1, n2 \in N : iy[n1] = iy[n2] => n1 = n2
    BY <1>4, <1>5, <1>6 DEF Sound
  <2> QED BY <1>4, <1>10, <2>1
<1>12. ASSUME NEW i \in 1 .. t.max - 1, ~ IsFree(t.free, i)
       PROVE  \E x \in N \cup {n} : iy[x] = i
  <2>1. CASE i = t.idx
    BY <1>4, <2>1
  <2>2. CASE i # t.idx
    <3>1. ~ IsFree(list, i)
      BY <1>3, <1>12, <2>2
    <3>2. max # 0 /\ i \in 1 .. max - 1
      BY <1>3, <1>7, <2>2
    <3>3. PICK x \in N : ix[x] = i
      BY <1>6, <3>1, <3>2 DEF Sound
    <3> QED BY <1>4, <3>3
  <2> QED BY <2>1, <2>2
<1>13. Sound(N \cup {n}, iy, t.max, t.free)
  <2>1. ~ IsFree(t.free, iy[n]) /\ iy[n] \in 1 .. t.max - 1
    BY <1>3, <1>4, <1>8
  <2> QED BY <1>3, <1>10, <1>11, <1>12, <2>1 DEF Sound
<1> QED BY <1>8, <1>13 DEF t, iy

\* A node that is deleted leaves its index to the free ones.
LEMMA SoundDelete ==
    ASSUME NEW N \in SUBSET Node, NEW n \in N, NEW ix \in [Node -> Nat],
           NEW max \in Nat, NEW list \in Seq(Entry), max # 0, Sound(N, ix, max, list)
    PROVE  LET t == Freed(max, list, ix[n])
           IN  t.max # 0 /\ Sound(N \ {n}, [ix EXCEPT ![n] = 0], t.max, t.free)
<1> DEFINE i == ix[n]
           t == Freed(max, list, i)
           iy == [ix EXCEPT ![n] = 0]
           M == N \ {n}
<1>1. max \in Index /\ Tidy(list, max - 2) /\ i \in 1 .. max - 1 /\ ~ IsFree(list, i)
  BY DEF Sound, Index
<1>2. /\ t.max \in 1 .. max /\ Tidy(t.free, t.max - 2)
      /\ \A x \in 1 .. t.max - 1 : IsFree(t.free, x) <=> IsFree(list, x) \/ x = i
      /\ \A x \in t.max .. max - 1 : IsFree(list, x) \/ x = i
  <2> HIDE DEF i
  <2> QED BY <1>1, FreedTidy
<1> HIDE DEF t
<1>3. \A x \in M : iy[x] = ix[x] /\ x \in N /\ x # n
  OBVIOUS
<1>4. \A x \in N : x # n => ix[x] # i
  BY DEF Sound
<1> HIDE DEF i, iy
<1>5. ASSUME NEW x \in M PROVE iy[x] \in 1 .. t.max - 1 /\ ~ IsFree(t.free, iy[x])
  <2>1. iy[x] = ix[x] /\ ix[x] \in 1 .. max - 1 /\ ~ IsFree(list, ix[x]) /\ ix[x] # i
    BY <1>3, <1>4 DEF Sound
  <2>2. ix[x] \in 1 .. t.max - 1 \/ ix[x] \in t.max .. max - 1
    BY <1>2, <2>1
  <2>3. ix[x] \in 1 .. t.max - 1
    BY <1>2, <2>1, <2>2
  <2> QED BY <1>2, <2>1, <2>3
<1>6. ASSUME NEW j \in 1 .. t.max - 1, ~ IsFree(t.free, j) PROVE \E x \in M : iy[x] = j
  <2>1. j \in 1 .. max - 1
    BY <1>2
  <2>2. ~ IsFree(list, j) /\ j # i
    BY <1>2, <1>6
  <2>3. PICK x \in N : ix[x] = j
    BY <2>1, <2>2 DEF Sound
  <2>4. x # n
    BY <2>2, <2>3 DEF i
  <2>5. x \in M
    BY <2>4
  <2> QED BY <1>3, <2>3, <2>5
<1>7. \A n1, n2 \in M : iy[n1] = iy[n2] => n1 = n2
  BY <1>3 DEF Sound
<1>8. Sound(M, iy, t.max, t.free)
  BY <1>2, <1>5, <1>6, <1>7 DEF Sound
<1> QED BY <1>2, <1>8 DEF t, iy, i

\* The place of an element in the list that SetToSeq makes of a set.
LEMMA Placed ==
    ASSUME NEW S, IsFiniteSet(S), NEW n \in S
    PROVE  LET s == SetToSeq(S)
               k == CHOOSE j \in DOMAIN s : s[j] = n
           IN  k \in 1 .. Len(s) /\ s[k] = n
<1> DEFINE s == SetToSeq(S)
<1>1. s \in Seq(S) /\ Len(s) \in Nat /\ ToSet(s) = S
  BY Listed
<1> HIDE DEF s
<1>2. \E j \in DOMAIN s : s[j] = n
  BY <1>1 DEF ToSet
<1>3. DOMAIN s = 1 .. Len(s)
  BY <1>1
<1> DEFINE k == CHOOSE j \in DOMAIN s : s[j] = n
<1>4. k \in DOMAIN s /\ s[k] = n
  BY <1>2
<1> QED BY <1>3, <1>4 DEF s

\* _init_indexes numbers the nodes without an index.
Rest(N, ix) == SetToSeq({n \in N : ix[n] = 0})
Top(N, ix) == 1 + Max({0} \cup {ix[n] : n \in N})
NumberedIdx(N, ix) ==
    [n \in Node |-> IF n \in ToSet(Rest(N, ix))
                    THEN Top(N, ix) - 1 + CHOOSE k \in DOMAIN Rest(N, ix) : Rest(N, ix)[k] = n
                    ELSE ix[n]]

\* The new indexes are numbers; a node that has one keeps it.
LEMMA NumberedType ==
    ASSUME NEW N \in SUBSET Node, NEW ix \in [Node -> Nat]
    PROVE  /\ Top(N, ix) \in Nat /\ Top(N, ix) # 0 /\ Len(Rest(N, ix)) \in Nat
           /\ NumberedIdx(N, ix) \in [Node -> Nat]
           /\ \A n \in N : ix[n] # 0 => NumberedIdx(N, ix)[n] = ix[n]
<1> DEFINE S == {n \in N : ix[n] = 0}
           T == {0} \cup {ix[n] : n \in N}
           rest == Rest(N, ix)
           K(n) == CHOOSE k \in DOMAIN rest : rest[k] = n
<1>1. IsFiniteSet(N)
  BY MemberAssumption, FS_Subset
<1>2. IsFiniteSet(S)
  BY <1>1, FS_Subset
<1>3. IsFiniteSet(T)
  <2>1. IsFiniteSet({ix[n] : n \in N})
    <3> DEFINE U == {ix[n] : n \in N}
               f == [n \in N |-> ix[n]]
    <3>1. f \in Surjection(N, U)
      BY DEF Surjection
    <3> HIDE DEF U, f
    <3>2. IsFiniteSet(U)
      BY <1>1, <3>1, FS_Surjection
    <3> QED BY <3>2 DEF U
  <2>2. IsFiniteSet({0})
    BY FS_Singleton
  <2> QED BY <2>1, <2>2, FS_Union
<1>4. T \in SUBSET Nat /\ T # {}
  OBVIOUS
<1>5. Max(T) \in Nat
  <2> HIDE DEF T
  <2>1. Max(T) \in T
    BY <1>3, <1>4, Maximum
  <2> QED BY <1>4, <2>1
<1>6. Top(N, ix) \in Nat /\ Top(N, ix) # 0
  BY <1>5 DEF Top
<1>7. rest = SetToSeq(S)
  BY DEF Rest
<1> HIDE DEF rest, S
<1>8. Len(rest) \in Nat /\ ToSet(rest) = S
  BY <1>2, <1>7, Listed
<1>9. ASSUME NEW n \in S PROVE K(n) \in 1 .. Len(rest)
  BY <1>2, <1>7, Placed
<1>10. NumberedIdx(N, ix) = [n \in Node |-> IF n \in S THEN Top(N, ix) - 1 + K(n) ELSE ix[n]]
  BY <1>8 DEF NumberedIdx, rest
<1> HIDE DEF K
<1>11. ASSUME NEW n \in S PROVE Top(N, ix) - 1 + K(n) \in Nat
  BY <1>6, <1>8, <1>9
<1>12. NumberedIdx(N, ix) \in [Node -> Nat]
  BY <1>10, <1>11
<1>13. \A n \in N : ix[n] # 0 => NumberedIdx(N, ix)[n] = ix[n]
  BY <1>10 DEF S
<1> QED BY <1>6, <1>8, <1>12, <1>13 DEF rest

\* When no node has an index, the nodes are numbered from 1 without a gap.
LEMMA SoundNumber ==
    ASSUME NEW N \in SUBSET Node, NEW ix \in [Node -> Nat], \A n \in N : ix[n] = 0
    PROVE  LET max == Top(N, ix) + Len(Rest(N, ix))
           IN  max # 0 /\ Sound(N, NumberedIdx(N, ix), max, <<>>)
<1> DEFINE T == {0} \cup {ix[n] : n \in N}
           rest == Rest(N, ix)
           iy == NumberedIdx(N, ix)
           K(n) == CHOOSE k \in DOMAIN rest : rest[k] = n
           max == Top(N, ix) + Len(rest)
<1>1. IsFiniteSet(N)
  BY MemberAssumption, FS_Subset
<1>2. T = {0}
  OBVIOUS
<1>3. Top(N, ix) = 1
  <2>0. IsFiniteSet({0})
    BY FS_Singleton
  <2>1. {0} \in SUBSET Nat /\ IsFiniteSet({0}) /\ {0} # {}
    BY <2>0
  <2>2. Max({0}) = 0
    BY <2>1, Maximum
  <2> QED BY <1>2, <2>2 DEF Top
<1>4. rest = SetToSeq(N)
  <2>1. {n \in N : ix[n] = 0} = N
    OBVIOUS
  <2> QED BY <2>1 DEF Rest
<1> HIDE DEF rest
<1>5. rest \in Seq(N) /\ Len(rest) \in Nat /\ IsInjective(rest) /\ ToSet(rest) = N
  BY <1>1, <1>4, Listed
<1>6. ASSUME NEW n \in N PROVE K(n) \in 1 .. Len(rest) /\ rest[K(n)] = n
  BY <1>1, <1>4, Placed
<1>7. iy = [n \in Node |-> IF n \in N THEN Top(N, ix) - 1 + K(n) ELSE ix[n]]
  BY <1>5 DEF NumberedIdx, rest
<1> HIDE DEF iy, K
<1>8. \A n \in N : iy[n] = K(n)
  BY <1>3, <1>6, <1>7, <1>5
<1>9. max - 1 = Len(rest) /\ max # 0
  BY <1>3, <1>5
<1> HIDE DEF max
<1>10. ASSUME NEW i \in 1 .. max - 1 PROVE \E n \in N : iy[n] = i
  <2>1. i \in DOMAIN rest /\ rest[i] \in N
    BY <1>5, <1>9
  <2>2. rest[K(rest[i])] = rest[i] /\ K(rest[i]) \in DOMAIN rest
    BY <1>5, <1>6, <2>1
  <2>3. K(rest[i]) = i
    BY <1>5, <2>1, <2>2 DEF IsInjective
  <2> QED BY <1>8, <2>1, <2>3
<1>11. ASSUME NEW n1 \in N, NEW n2 \in N, iy[n1] = iy[n2] PROVE n1 = n2
  BY <1>6, <1>8, <1>11
<1>12. \A x : ~ IsFree(<<>>, x)
  BY DEF IsFree
<1>13. Tidy(<<>>, max - 2)
  BY DEF Tidy, Apart, Within, Strict
<1>14. Sound(N, iy, max, <<>>)
  BY <1>6, <1>8, <1>9, <1>10, <1>11, <1>12, <1>13 DEF Sound
<1> QED BY <1>9, <1>14 DEF max, iy, rest

-----------------------------------------------------------------------------
(* Type correctness.                                                       *)

\* TypeOK, the domain of the lists and the count of the members that connected.
TypeInv == TypeOK /\ free \in [Member -> Seq(Entry)] /\ joins \in Nat

\* The parts of the type invariant.
LEMMA Typed ==
    TypeInv <=> /\ nodes \in [Member -> SUBSET Node] /\ idx \in [Member -> [Node -> Nat]]
                /\ maxidx \in [Member -> Nat] /\ free \in [Member -> Seq(Entry)]
                /\ joined \subseteq Member /\ joins \in Nat
<1>1. Seq([1 .. 1 -> Nat \ {0}] \cup [1 .. 2 -> Nat \ {0}]) = Seq(Entry)
  BY DEF Entry, Index
<1> HIDE DEF Entry
<1>2. free \in [Member -> Seq(Entry)] => \A m \in Member : free[m] \in Seq(Entry)
  OBVIOUS
<1> QED BY <1>1, <1>2 DEF TypeInv, TypeOK

\* The initial states have the types.
LEMMA TypeInit == Init => TypeInv
<1> SUFFICES ASSUME Init PROVE TypeInv
  OBVIOUS
<1>1. <<>> \in Seq(Entry)
  OBVIOUS
<1>2. free \in [Member -> Seq(Entry)] /\ idx \in [Member -> [Node -> Nat]]
      /\ maxidx \in [Member -> Nat] /\ joins \in Nat /\ joined \subseteq Member
      /\ nodes \in [Member -> SUBSET Node]
  BY <1>1 DEF Init
<1> QED BY <1>2, Typed

\* Every step keeps them.
LEMMA TypeStep == TypeInv /\ [Next]_vars => TypeInv'
<1> SUFFICES ASSUME TypeInv, [Next]_vars PROVE TypeInv'
  OBVIOUS
<1>1. /\ nodes \in [Member -> SUBSET Node] /\ idx \in [Member -> [Node -> Nat]]
      /\ maxidx \in [Member -> Nat] /\ free \in [Member -> Seq(Entry)]
      /\ joined \subseteq Member /\ joins \in Nat
  BY Typed
<1> DEFINE Goal == /\ nodes' \in [Member -> SUBSET Node] /\ idx' \in [Member -> [Node -> Nat]]
                   /\ maxidx' \in [Member -> Nat] /\ free' \in [Member -> Seq(Entry)]
                   /\ joined' \subseteq Member /\ joins' \in Nat
<1>2. SUFFICES Goal
  <2>1. Seq([1 .. 1 -> Nat \ {0}] \cup [1 .. 2 -> Nat \ {0}]) = Seq(Entry)
    BY DEF Entry, Index
  <2>2. Goal => \A m \in Member : free'[m] \in Seq(Entry)
    <3> HIDE DEF Entry
    <3> QED OBVIOUS
  <2> QED BY <2>1, <2>2 DEF TypeInv, TypeOK
<1>3. ASSUME NEW m \in Member
      PROVE  nodes[m] \in SUBSET Node /\ idx[m] \in [Node -> Nat] /\ maxidx[m] \in Nat
             /\ free[m] \in Seq(Entry)
  BY <1>1
<1>4. ASSUME NEW n \in Node, CreateNode(n) PROVE Goal
  <2> DEFINE new == [m \in joined |-> Allocated(maxidx[m], free[m])]
  <2>1. ASSUME NEW m \in joined
        PROVE  new[m].idx \in Nat /\ new[m].max \in Nat /\ new[m].free \in Seq(Entry)
    <3>1. m \in Member
      BY <1>1
    <3>2. new[m] = Allocated(maxidx[m], free[m])
      OBVIOUS
    <3> HIDE DEF new
    <3> QED BY <1>3, <3>1, <3>2, AllocatedType DEF Index
  <2>2. /\ idx' = [m \in Member |-> IF m \in joined THEN [idx[m] EXCEPT ![n] = new[m].idx]
                                    ELSE idx[m]]
        /\ maxidx' = [m \in Member |-> IF m \in joined THEN new[m].max ELSE maxidx[m]]
        /\ free' = [m \in Member |-> IF m \in joined THEN new[m].free ELSE free[m]]
    BY <1>4 DEF CreateNode
  <2> HIDE DEF new
  <2>3. idx' \in [Member -> [Node -> Nat]]
    BY <1>3, <2>1, <2>2
  <2>4. maxidx' \in [Member -> Nat]
    BY <1>3, <2>1, <2>2
  <2>5. free' \in [Member -> Seq(Entry)]
    BY <1>3, <2>1, <2>2
  <2>6. nodes' \in [Member -> SUBSET Node] /\ joined' = joined /\ joins' = joins
    BY <1>3, <1>4 DEF CreateNode
  <2> QED BY <1>1, <2>3, <2>4, <2>5, <2>6
<1>5. ASSUME NEW n \in Node, DelNode(n) PROVE Goal
  <2> DEFINE old == [m \in joined |-> Freed(maxidx[m], free[m], idx[m][n])]
  <2>1. ASSUME NEW m \in joined
        PROVE  old[m].max \in Nat /\ old[m].free \in Seq(Entry)
    <3>1. m \in Member
      BY <1>1
    <3>2. old[m] = Freed(maxidx[m], free[m], idx[m][n])
      OBVIOUS
    <3>3. idx[m][n] \in Nat
      BY <1>3, <3>1
    <3> HIDE DEF old
    <3>4. old[m] \in Global
      BY <1>3, <3>1, <3>2, <3>3, FreedType
    <3> QED BY <3>4 DEF Global
  <2>2. /\ maxidx' = [m \in Member |-> IF m \in joined THEN old[m].max ELSE maxidx[m]]
        /\ free' = [m \in Member |-> IF m \in joined THEN old[m].free ELSE free[m]]
    BY <1>5 DEF DelNode
  <2> HIDE DEF old
  <2>3. idx' \in [Member -> [Node -> Nat]]
    BY <1>3, <1>5 DEF DelNode
  <2>4. maxidx' \in [Member -> Nat]
    BY <1>3, <2>1, <2>2
  <2>5. free' \in [Member -> Seq(Entry)]
    BY <1>3, <2>1, <2>2
  <2>6. nodes' \in [Member -> SUBSET Node] /\ joined' = joined /\ joins' = joins
    BY <1>3, <1>5 DEF DelNode
  <2> QED BY <1>1, <2>3, <2>4, <2>5, <2>6
<1>6. ASSUME NEW m \in Member, InitIndexes(m) PROVE Goal
  <2>1. /\ idx' = [idx EXCEPT ![m] = NumberedIdx(nodes[m], idx[m])]
        /\ maxidx' = [maxidx EXCEPT ![m] = Top(nodes[m], idx[m]) + Len(Rest(nodes[m], idx[m]))]
    BY <1>6 DEF InitIndexes, NumberedIdx, Top, Rest
  <2>2. /\ Top(nodes[m], idx[m]) \in Nat /\ Len(Rest(nodes[m], idx[m])) \in Nat
        /\ NumberedIdx(nodes[m], idx[m]) \in [Node -> Nat]
    BY <1>3, NumberedType
  <2>3. <<>> \in Seq(Entry)
    OBVIOUS
  <2>4. /\ free' = [free EXCEPT ![m] = <<>>]
        /\ nodes' = nodes /\ joined' = joined /\ joins' = joins
    BY <1>6 DEF InitIndexes
  <2> QED BY <1>1, <2>1, <2>2, <2>3, <2>4
<1>7. ASSUME NEW m \in Member, Leave(m) PROVE Goal
  BY <1>1, <1>7 DEF Leave
<1>8. ASSUME NEW m \in Member, NEW leader \in Member, Join(m, leader) PROVE Goal
  <2>1. IsFiniteSet(nodes[leader])
    BY <1>3, MemberAssumption, FS_Subset
  <2>2. Cardinality(nodes[leader]) \in Nat
    BY <2>1, FS_CardinalityType
  <2>3. maxidx' \in [Member -> Nat]
    BY <1>1, <1>8, <2>2 DEF Join
  <2>4. nodes' \in [Member -> SUBSET Node] /\ idx' \in [Member -> [Node -> Nat]]
    BY <1>1, <1>8 DEF Join
  <2>5. free' = free /\ joined' \subseteq Member /\ joins' \in Nat
    BY <1>1, <1>8 DEF Join
  <2> QED BY <1>1, <2>3, <2>4, <2>5
<1>9. CASE UNCHANGED vars
  BY <1>1, <1>9 DEF vars
<1> HIDE DEF Goal
<1> QED BY <1>4, <1>5, <1>6, <1>7, <1>8, <1>9 DEF Next

\* Every reachable state has the shape of the Python values it stands for.
THEOREM TypeCorrect == Spec => []TypeOK
<1>1. Spec => []TypeInv
  BY TypeInit, TypeStep, PTL DEF Spec
<1>2. TypeInv => TypeOK
  BY DEF TypeInv
<1> QED BY <1>1, <1>2, PTL

-----------------------------------------------------------------------------
(* A node keeps its index.                                                 *)

\* No step changes the index of a node that exists before and after it, on a
\* member that applies the changes (IndexStable).
LEMMA StableStep ==
    TypeInv /\ [Next]_vars =>
        [\A m \in joined : \A n \in nodes[m] \cap nodes'[m] :
            idx[m][n] # 0 => idx'[m][n] = idx[m][n]]_vars
<1> SUFFICES ASSUME TypeInv, [Next]_vars, NEW m \in joined,
                    NEW n \in nodes[m] \cap nodes'[m], idx[m][n] # 0
             PROVE  idx'[m][n] = idx[m][n] \/ UNCHANGED vars
  OBVIOUS
<1>1. /\ nodes \in [Member -> SUBSET Node] /\ idx \in [Member -> [Node -> Nat]]
      /\ joined \subseteq Member
  BY Typed
<1>2. m \in Member /\ nodes[m] \in SUBSET Node /\ idx[m] \in [Node -> Nat] /\ n \in Node
  BY <1>1
<1>3. ASSUME NEW x \in Node, CreateNode(x) PROVE idx'[m][n] = idx[m][n]
  <2>1. n # x
    BY <1>3 DEF CreateNode
  <2> DEFINE new == [k \in joined |-> Allocated(maxidx[k], free[k])]
  <2>2. idx' = [k \in Member |-> IF k \in joined THEN [idx[k] EXCEPT ![x] = new[k].idx]
                                 ELSE idx[k]]
    BY <1>3 DEF CreateNode
  <2> HIDE DEF new
  <2>3. idx'[m] = [idx[m] EXCEPT ![x] = new[m].idx]
    BY <1>2, <2>2
  <2> QED BY <1>2, <2>1, <2>3
<1>4. ASSUME NEW x \in Node, DelNode(x) PROVE idx'[m][n] = idx[m][n]
  <2>1. nodes'[m] = nodes[m] \ {x} /\ idx'[m] = [idx[m] EXCEPT ![x] = 0]
    BY <1>2, <1>4 DEF DelNode
  <2> QED BY <1>2, <2>1
<1>5. ASSUME NEW k \in Member, InitIndexes(k) PROVE idx'[m][n] = idx[m][n]
  <2>1. idx' = [idx EXCEPT ![k] = NumberedIdx(nodes[k], idx[k])]
    BY <1>5 DEF InitIndexes, NumberedIdx, Top, Rest
  <2>2. CASE k = m
    <3>1. idx'[m] = NumberedIdx(nodes[m], idx[m])
      BY <1>1, <1>2, <2>1, <2>2
    <3>2. NumberedIdx(nodes[m], idx[m])[n] = idx[m][n]
      BY <1>2, NumberedType
    <3> QED BY <3>1, <3>2
  <2>3. CASE k # m
    BY <1>1, <1>2, <2>1, <2>3
  <2> QED BY <2>2, <2>3
<1>6. ASSUME NEW k \in Member, Leave(k) PROVE idx'[m][n] = idx[m][n]
  BY <1>6 DEF Leave
<1>7. ASSUME NEW k \in Member, NEW leader \in Member, Join(k, leader)
      PROVE  idx'[m][n] = idx[m][n]
  <2>1. k # m /\ idx' = [idx EXCEPT ![k] = idx[leader]]
    BY <1>7 DEF Join
  <2> QED BY <1>1, <1>2, <2>1
<1> QED BY <1>3, <1>4, <1>5, <1>6, <1>7 DEF Next

\* A node keeps its index as long as it exists, on every member that applies
\* the changes, whatever globals that member has.
THEOREM IndexStableCorrect == Spec => IndexStable
<1>1. Spec => []TypeInv
  BY TypeInit, TypeStep, PTL DEF Spec
<1> QED BY <1>1, StableStep, PTL DEF Spec, IndexStable

-----------------------------------------------------------------------------
(* Until a member connects, every index is accounted for.                  *)

\* A member has not numbered its nodes yet, or its indexes are sound.
Accounted(N, ix, max, list) ==
    IF max = 0 THEN (\A n \in N : ix[n] = 0) /\ list = <<>>
    ELSE Sound(N, ix, max, list)
AccountedInv ==
    joins = 0 => \A m \in joined : Accounted(nodes[m], idx[m], maxidx[m], free[m])

\* No node has an index at the start.
LEMMA AccountedInit == Init => AccountedInv
<1> SUFFICES ASSUME Init, NEW m \in joined
             PROVE  Accounted(nodes[m], idx[m], maxidx[m], free[m])
  BY DEF AccountedInv
<1>1. m \in Member /\ nodes[m] \in SUBSET Node
  BY DEF Init
<1>2. maxidx[m] = 0 /\ free[m] = <<>> /\ idx[m] = [n \in Node |-> 0]
  BY <1>1 DEF Init
<1> QED BY <1>1, <1>2 DEF Accounted

\* Every step keeps the indexes of a member accounted for.
LEMMA AccountedStep ==
    TypeInv /\ AccountedInv /\ [Next]_vars => AccountedInv'
<1> SUFFICES ASSUME TypeInv, AccountedInv, [Next]_vars, joins' = 0, NEW m \in joined'
             PROVE  Accounted(nodes[m], idx[m], maxidx[m], free[m])'
  BY DEF AccountedInv
<1>1. /\ nodes \in [Member -> SUBSET Node] /\ idx \in [Member -> [Node -> Nat]]
      /\ maxidx \in [Member -> Nat] /\ free \in [Member -> Seq(Entry)]
      /\ joined \subseteq Member /\ joins \in Nat
  BY Typed
<1> DEFINE N == nodes[m]
           ix == idx[m]
           max == maxidx[m]
           list == free[m]
           Result(M, iy, top, fr) ==
              nodes'[m] = M /\ idx'[m] = iy /\ maxidx'[m] = top /\ free'[m] = fr
<1>2. ASSUME joins = 0, m \in joined
      PROVE  m \in Member /\ N \in SUBSET Node /\ ix \in [Node -> Nat] /\ max \in Nat
             /\ list \in Seq(Entry) /\ Accounted(N, ix, max, list)
  BY <1>1, <1>2 DEF AccountedInv
<1>3. ASSUME NEW n \in Node, CreateNode(n) PROVE Accounted(nodes'[m], idx'[m], maxidx'[m], free'[m])
  <2>1. joins = 0 /\ m \in joined
    BY <1>3 DEF CreateNode
  <2>2. m \in Member /\ N \in SUBSET Node /\ ix \in [Node -> Nat] /\ max \in Nat
        /\ list \in Seq(Entry) /\ Accounted(N, ix, max, list)
    BY <1>2, <2>1
  <2>3. n \in Node \ N /\ (max # 0 \/ N = {})
    BY <1>3, <2>1 DEF CreateNode, Ready, Numbered
  <2> DEFINE t == Allocated(max, list)
             new == [k \in joined |-> Allocated(maxidx[k], free[k])]
  <2>4. /\ idx' = [k \in Member |-> IF k \in joined THEN [idx[k] EXCEPT ![n] = new[k].idx]
                                    ELSE idx[k]]
        /\ maxidx' = [k \in Member |-> IF k \in joined THEN new[k].max ELSE maxidx[k]]
        /\ free' = [k \in Member |-> IF k \in joined THEN new[k].free ELSE free[k]]
        /\ nodes' = [k \in Member |-> IF k \in joined THEN nodes[k] \cup {n} ELSE nodes[k]]
    BY <1>3 DEF CreateNode
  <2>5. new[m] = t
    BY <2>1
  <2> HIDE DEF new, t
  <2>6. Result(N \cup {n}, [ix EXCEPT ![n] = t.idx], t.max, t.free)
    BY <2>1, <2>2, <2>4, <2>5
  <2>7. IF max = 0 THEN N = {} /\ list = <<>> ELSE Sound(N, ix, max, list)
    BY <2>2, <2>3 DEF Accounted
  <2> HIDE DEF N, ix, max, list
  <2>8. t.max # 0 /\ Sound(N \cup {n}, [ix EXCEPT ![n] = t.idx], t.max, t.free)
    BY <2>2, <2>3, <2>7, SoundCreate DEF t
  <2> QED BY <2>6, <2>8 DEF Accounted
<1>4. ASSUME NEW n \in Node, DelNode(n) PROVE Accounted(nodes'[m], idx'[m], maxidx'[m], free'[m])
  <2>1. joins = 0 /\ m \in joined
    BY <1>4 DEF DelNode
  <2>2. m \in Member /\ N \in SUBSET Node /\ ix \in [Node -> Nat] /\ max \in Nat
        /\ list \in Seq(Entry) /\ Accounted(N, ix, max, list)
    BY <1>2, <2>1
  <2>3. n \in N /\ max # 0
    BY <1>4, <2>1 DEF DelNode, Ready, Numbered
  <2> DEFINE t == Freed(max, list, ix[n])
             old == [k \in joined |-> Freed(maxidx[k], free[k], idx[k][n])]
  <2>4. /\ maxidx' = [k \in Member |-> IF k \in joined THEN old[k].max ELSE maxidx[k]]
        /\ free' = [k \in Member |-> IF k \in joined THEN old[k].free ELSE free[k]]
        /\ idx' = [k \in Member |-> IF k \in joined THEN [idx[k] EXCEPT ![n] = 0] ELSE idx[k]]
        /\ nodes' = [k \in Member |-> IF k \in joined THEN nodes[k] \ {n} ELSE nodes[k]]
    BY <1>4 DEF DelNode
  <2>5. old[m] = t
    BY <2>1
  <2> HIDE DEF old, t
  <2>6. Result(N \ {n}, [ix EXCEPT ![n] = 0], t.max, t.free)
    BY <2>1, <2>2, <2>4, <2>5
  <2>7. Sound(N, ix, max, list)
    BY <2>2, <2>3 DEF Accounted
  <2> HIDE DEF N, ix, max, list
  <2>8. t.max # 0 /\ Sound(N \ {n}, [ix EXCEPT ![n] = 0], t.max, t.free)
    BY <2>2, <2>3, <2>7, SoundDelete DEF t
  <2> QED BY <2>6, <2>8 DEF Accounted
<1>5. ASSUME NEW k \in Member, InitIndexes(k)
      PROVE  Accounted(nodes'[m], idx'[m], maxidx'[m], free'[m])
  <2>1. joins = 0 /\ m \in joined /\ nodes' = nodes /\ maxidx[k] = 0
    BY <1>5 DEF InitIndexes
  <2>2. m \in Member /\ N \in SUBSET Node /\ ix \in [Node -> Nat] /\ max \in Nat
        /\ list \in Seq(Entry) /\ Accounted(N, ix, max, list)
    BY <1>2, <2>1
  <2>3. /\ idx' = [idx EXCEPT ![k] = NumberedIdx(nodes[k], idx[k])]
        /\ maxidx' = [maxidx EXCEPT ![k] = Top(nodes[k], idx[k]) + Len(Rest(nodes[k], idx[k]))]
        /\ free' = [free EXCEPT ![k] = <<>>]
    BY <1>5 DEF InitIndexes, NumberedIdx, Top, Rest
  <2>4. CASE k = m
    <3>1. Result(N, NumberedIdx(N, ix), Top(N, ix) + Len(Rest(N, ix)), <<>>)
      BY <1>1, <2>1, <2>2, <2>3, <2>4
    <3>2. \A n \in N : ix[n] = 0
      BY <2>1, <2>2, <2>4 DEF Accounted
    <3> HIDE DEF N, ix, max, list
    <3>3. /\ Top(N, ix) + Len(Rest(N, ix)) # 0
          /\ Sound(N, NumberedIdx(N, ix), Top(N, ix) + Len(Rest(N, ix)), <<>>)
      BY <2>2, <3>2, SoundNumber
    <3> QED BY <3>1, <3>3 DEF Accounted
  <2>5. CASE k # m
    <3>1. Result(N, ix, max, list)
      BY <1>1, <2>1, <2>2, <2>3, <2>5
    <3> QED BY <2>2, <3>1
  <2> QED BY <2>4, <2>5
<1>6. ASSUME NEW k \in Member, Leave(k)
      PROVE  Accounted(nodes'[m], idx'[m], maxidx'[m], free'[m])
  <2>1. joins = 0 /\ m \in joined /\ Result(N, ix, max, list)
    BY <1>6 DEF Leave
  <2> QED BY <1>2, <2>1
<1>7. ASSUME NEW k \in Member, NEW leader \in Member, Join(k, leader)
      PROVE  Accounted(nodes'[m], idx'[m], maxidx'[m], free'[m])
  <2>1. joins' = joins + 1
    BY <1>7 DEF Join
  <2> QED BY <1>1, <2>1
<1>8. CASE UNCHANGED vars
  <2>1. joins = 0 /\ m \in joined /\ Result(N, ix, max, list)
    BY <1>8 DEF vars
  <2> QED BY <1>2, <2>1
<1> HIDE DEF N, ix, max, list, Result
<1>9. Accounted(nodes'[m], idx'[m], maxidx'[m], free'[m])
  BY <1>3, <1>4, <1>5, <1>6, <1>7, <1>8 DEF Next
<1> QED BY <1>9 DEF Accounted, Sound, Tidy, Apart, Within, Strict, IsFree

\* Sound indexes are those that IndexAccounted asks for.
LEMMA SoundAccounted ==
    ASSUME NEW N \in SUBSET Node, NEW ix \in [Node -> Nat], NEW max \in Nat,
           NEW list \in Seq(Entry), Sound(N, ix, max, list)
    PROVE  /\ \A i \in 1 .. max - 1 :
                 Cardinality({n \in N : ix[n] = i}) = IF IsFree(list, i) THEN 0 ELSE 1
           /\ \A k \in DOMAIN list : Span(list[k]) \subseteq 1 .. max - 2
           /\ \A k \in DOMAIN list : Len(list[k]) = 1 \/ list[k][1] < list[k][2]
           /\ \A j, k \in DOMAIN list : j # k => Span(list[j]) \cap Span(list[k]) = {}
           /\ \A n \in N : ix[n] \in 1 .. max - 1
<1>1. ASSUME NEW i \in 1 .. max - 1
      PROVE  Cardinality({n \in N : ix[n] = i}) = IF IsFree(list, i) THEN 0 ELSE 1
  <2> DEFINE U == {n \in N : ix[n] = i}
  <2>1. CASE IsFree(list, i)
    <3>1. U = {}
      BY <2>1 DEF Sound
    <3> HIDE DEF U
    <3>2. Cardinality(U) = 0
      BY <3>1, FS_EmptySet
    <3> QED BY <2>1, <3>2 DEF U
  <2>2. CASE ~ IsFree(list, i)
    <3>1. PICK n \in N : ix[n] = i
      BY <2>2 DEF Sound
    <3>2. U = {n}
      BY <3>1 DEF Sound
    <3> HIDE DEF U
    <3>3. Cardinality(U) = 1
      BY <3>2, FS_Singleton
    <3> QED BY <2>2, <3>3 DEF U
  <2> QED BY <2>1, <2>2
<1> QED BY <1>1 DEF Sound, Tidy, Apart, Within, Strict

\* Until a member connects, the allocator neither loses an index nor has one
\* twice, for any number of nodes and of indexes kept in reserve.
THEOREM IndexAccountedCorrect == Spec => []IndexAccounted
<1>1. Spec => [](TypeInv /\ AccountedInv)
  <2>1. Init => TypeInv /\ AccountedInv
    BY TypeInit, AccountedInit
  <2>2. TypeInv /\ AccountedInv /\ [Next]_vars => (TypeInv /\ AccountedInv)'
    BY TypeStep, AccountedStep
  <2> QED BY <2>1, <2>2, PTL DEF Spec
<1>2. TypeInv /\ AccountedInv => IndexAccounted
  <2> SUFFICES ASSUME TypeInv, AccountedInv, NEW m \in joined, joins = 0, maxidx[m] # 0
               PROVE  /\ \A i \in 1 .. maxidx[m] - 1 :
                            Cardinality({n \in nodes[m] : idx[m][n] = i})
                                = IF IsFree(free[m], i) THEN 0 ELSE 1
                      /\ \A k \in DOMAIN free[m] : Span(free[m][k]) \subseteq 1 .. maxidx[m] - 2
                      /\ \A k \in DOMAIN free[m] :
                            Len(free[m][k]) = 1 \/ free[m][k][1] < free[m][k][2]
                      /\ \A j, k \in DOMAIN free[m] :
                            j # k => Span(free[m][j]) \cap Span(free[m][k]) = {}
                      /\ \A n \in nodes[m] : idx[m][n] \in 1 .. maxidx[m] - 1
    BY DEF IndexAccounted
  <2>1. m \in Member /\ nodes[m] \in SUBSET Node /\ idx[m] \in [Node -> Nat]
        /\ maxidx[m] \in Nat /\ free[m] \in Seq(Entry)
    BY Typed
  <2>2. Sound(nodes[m], idx[m], maxidx[m], free[m])
    BY DEF AccountedInv, Accounted
  <2> QED BY <2>1, <2>2, SoundAccounted
<1> QED BY <1>1, <1>2, PTL
=============================================================================
