-------------------------- MODULE ReplicationProofs --------------------------
(* Proofs about Replication, for any followers, changes and budgets:       *)
(*                                                                         *)
(*   TypeCorrect          the shape of every variable;                     *)
(*   TenureCorrect        what holds of a change on its way from the leader *)
(*                        to the followers, while the leader leads;        *)
(*   AnswersFollowChanges exec_on_leader does not return before the change *)
(*                        has reached the member that asked for it;        *)
(*   ReplicationRefines   leader and followers are one log;                *)
(*   QuorumReachesAll     every follower is told of the quorum;            *)
(*   ReplicaAgreesCorrect a follower has, gets or waits for the leader's   *)
(*                        log, exactly;                                    *)
(*   CountAgreesCorrect   and has the leader's count when it has it all.   *)
(*                                                                         *)
(* The first part defines the invariant, ReplicationInv.  Then there is a  *)
(* part for each of its conjuncts: a lemma of the form `XKept', which says  *)
(* that a step of Next keeps X, with one step of proof per action.  The    *)
(* lemmas about BroadcastMade, Waiting and Message say what the pushes of   *)
(* exec_on_followers do to the queue of the lock, once for all actions that *)
(* push.  The refinement cites the invariant: a follower that applies the   *)
(* next message must be shown to apply the next change of the log.         *)
(* The invariants of the last three theorems, QuorumInv, ReplicaInv and    *)
(* CountInv, are their own; they hold after the leader has retired too.    *)
EXTENDS Replication, SequenceTheorems, WellFoundedInduction, TLAPS

-----------------------------------------------------------------------------
(* Lists without repetition, and the least of some numbers.                *)

\* The empty list.
LEMMA EmptyList ==
    ASSUME NEW S
    PROVE  <<>> \in Seq(S) /\ IsInjective(<<>>) /\ ToSet(<<>>) = {}
BY DEF IsInjective, ToSet

\* A set of natural numbers that is not empty has a minimum.
LEMMA Minimum ==
    ASSUME NEW T \in SUBSET Nat, T # {}
    PROVE  Min(T) \in T /\ \A j \in T : Min(T) <= j
<1>1. PICK x \in T : \A y \in T : <<y, x>> \notin OpToRel(<, Nat)
  BY NatLessThanWellFounded, WFMin, Zenon
<1>2. \A y \in T : ~ (y < x)
  BY <1>1, Zenon DEF OpToRel
<1>3. \A y \in T : x <= y
  BY <1>2
<1> QED BY <1>3 DEF Min

\* RemoveFirst closes the gap that an element of an injective list leaves.
LEMMA RemoveShift ==
    ASSUME NEW S, NEW s \in Seq(S), IsInjective(s), NEW e \in ToSet(s)
    PROVE  /\ RemoveFirst(s, e) \in Seq(S)
           /\ Len(RemoveFirst(s, e)) = Len(s) - 1
           /\ \E i \in 1 .. Len(s) :
                 /\ s[i] = e
                 /\ \A j \in 1 .. Len(s) - 1 :
                       RemoveFirst(s, e)[j] = IF j < i THEN s[j] ELSE s[j + 1]
<1>0. DOMAIN s = 1 .. Len(s) /\ Len(s) \in Nat
  OBVIOUS
<1>1. PICK i \in 1 .. Len(s) : s[i] = e
  BY <1>0 DEF ToSet
<1>2. {j \in 1 .. Len(s) : s[j] = e} = {i} /\ Min({i}) = i
  <2>1. {j \in 1 .. Len(s) : s[j] = e} = {i}
    BY <1>0, <1>1 DEF IsInjective
  <2>2. Min({i}) = i
    BY <1>1 DEF Min
  <2> QED BY <2>1, <2>2
<1> DEFINE u == SubSeq(s, 1, i - 1)
           v == SubSeq(s, i + 1, Len(s))
           t == u \o v
<1>3. RemoveFirst(s, e) = t
  BY <1>1, <1>2 DEF RemoveFirst, RemoveAt, SelectInSeq
<1>4. u \in Seq(S) /\ Len(u) = i - 1 /\ \A j \in 1 .. i - 1 : u[j] = s[j]
  BY <1>1
<1>5. v \in Seq(S) /\ Len(v) = Len(s) - i /\ \A j \in 1 .. Len(s) - i : v[j] = s[i + j]
  BY <1>1
<1> HIDE DEF u, v
<1>6. /\ t \in Seq(S) /\ Len(t) = Len(u) + Len(v)
      /\ \A j \in 1 .. Len(u) + Len(v) : t[j] = IF j <= Len(u) THEN u[j] ELSE v[j - Len(u)]
  BY <1>4, <1>5, ConcatProperties
<1> HIDE DEF t
<1>7. /\ Len(t) = Len(s) - 1
      /\ \A j \in 1 .. Len(s) - 1 : t[j] = IF j < i THEN s[j] ELSE s[j + 1]
  <2>1. Len(t) = Len(s) - 1
    BY <1>0, <1>4, <1>5, <1>6
  <2>2. ASSUME NEW j \in 1 .. Len(s) - 1
        PROVE  t[j] = IF j < i THEN s[j] ELSE s[j + 1]
    <3>1. t[j] = IF j <= Len(u) THEN u[j] ELSE v[j - Len(u)]
      BY <1>0, <1>1, <1>4, <1>5, <1>6
    <3>2. CASE j < i
      BY <1>0, <1>1, <1>4, <3>1, <3>2
    <3>3. CASE ~ (j < i)
      <4>1. j - Len(u) \in 1 .. Len(s) - i /\ i + (j - Len(u)) = j + 1
        BY <1>0, <1>1, <1>4, <3>3
      <4>2. v[j - Len(u)] = s[j + 1]
        BY <1>5, <4>1
      <4> QED BY <1>0, <1>1, <1>4, <3>1, <3>3, <4>2
    <3> QED BY <3>2, <3>3
  <2> QED BY <2>1, <2>2
<1> QED BY <1>1, <1>3, <1>6, <1>7

\* RemoveFirst takes an element out of an injective list.
LEMMA RemoveOne ==
    ASSUME NEW S, NEW s \in Seq(S), IsInjective(s), NEW e \in ToSet(s)
    PROVE  /\ RemoveFirst(s, e) \in Seq(S)
           /\ IsInjective(RemoveFirst(s, e))
           /\ ToSet(RemoveFirst(s, e)) = ToSet(s) \ {e}
<1>0. DOMAIN s = 1 .. Len(s) /\ Len(s) \in Nat
  OBVIOUS
<1> DEFINE t == RemoveFirst(s, e)
<1>6. t \in Seq(S) /\ Len(t) = Len(s) - 1
  BY RemoveShift
<1>1. PICK i \in 1 .. Len(s) :
        s[i] = e /\ \A j \in 1 .. Len(s) - 1 : t[j] = IF j < i THEN s[j] ELSE s[j + 1]
  BY RemoveShift
<1> HIDE DEF t
<1>7. /\ Len(t) = Len(s) - 1 /\ DOMAIN t = 1 .. Len(t)
      /\ \A j \in 1 .. Len(t) : t[j] = IF j < i THEN s[j] ELSE s[j + 1]
  BY <1>0, <1>1, <1>6
<1>8. IsInjective(t)
  <2> SUFFICES ASSUME NEW j \in 1 .. Len(t), NEW k \in 1 .. Len(t), t[j] = t[k]
               PROVE  j = k
    BY <1>7 DEF IsInjective
  <2> DEFINE jj == IF j < i THEN j ELSE j + 1
             kk == IF k < i THEN k ELSE k + 1
  <2>1. jj \in DOMAIN s /\ kk \in DOMAIN s /\ (jj = kk => j = k)
    BY <1>0, <1>1, <1>7
  <2>2. t[j] = s[jj] /\ t[k] = s[kk]
    BY <1>7
  <2>3. jj = kk
    BY <2>1, <2>2 DEF IsInjective
  <2> QED BY <2>1, <2>3
<1>9. ToSet(t) = ToSet(s) \ {e}
  <2>1. \A j \in DOMAIN t : t[j] \in ToSet(s) \ {e}
    <3> SUFFICES ASSUME NEW j \in 1 .. Len(t) PROVE t[j] \in ToSet(s) \ {e}
      BY <1>7
    <3>1. PICK k \in 1 .. Len(s) : t[j] = s[k] /\ k # i
      BY <1>0, <1>1, <1>7
    <3>2. s[k] # e
      BY <1>0, <1>1, <3>1 DEF IsInjective
    <3> QED BY <1>0, <3>1, <3>2 DEF ToSet
  <2>2. \A j \in DOMAIN s : s[j] # e => s[j] \in ToSet(t)
    <3> SUFFICES ASSUME NEW j \in DOMAIN s, s[j] # e PROVE s[j] \in ToSet(t)
      OBVIOUS
    <3>1. CASE j < i
      BY <1>0, <1>1, <1>7, <3>1 DEF ToSet
    <3>2. CASE j > i
      <4>1. j - 1 \in DOMAIN t /\ t[j - 1] = s[j]
        BY <1>0, <1>1, <1>7, <3>2
      <4> QED BY <4>1 DEF ToSet
    <3> QED BY <1>0, <1>1, <3>1, <3>2
  <2> QED BY <2>1, <2>2 DEF ToSet
<1> QED BY <1>6, <1>8, <1>9 DEF t

\* A new element at the end.
LEMMA AddEnd ==
    ASSUME NEW S, NEW s \in Seq(S), IsInjective(s), NEW e \in S, e \notin ToSet(s)
    PROVE  /\ Append(s, e) \in Seq(S)
           /\ IsInjective(Append(s, e))
           /\ ToSet(Append(s, e)) = ToSet(s) \cup {e}
<1> DEFINE t == Append(s, e)
<1>1. /\ t \in Seq(S) /\ Len(t) = Len(s) + 1 /\ DOMAIN t = 1 .. Len(t)
      /\ \A j \in 1 .. Len(t) : t[j] = IF j = Len(s) + 1 THEN e ELSE s[j]
      /\ Len(s) \in Nat /\ DOMAIN s = 1 .. Len(s)
  OBVIOUS
<1>2. IsInjective(t)
  BY <1>1 DEF IsInjective, ToSet
<1> HIDE DEF t
<1>3. ToSet(t) \subseteq ToSet(s) \cup {e}
  <2>1. \A j \in 1 .. Len(t) : t[j] = e \/ (j \in 1 .. Len(s) /\ t[j] = s[j])
    BY <1>1
  <2> QED BY <1>1, <2>1 DEF ToSet
<1>4. ToSet(s) \subseteq ToSet(t) /\ e \in ToSet(t)
  <2>1. \A j \in 1 .. Len(s) : s[j] = t[j] /\ j \in 1 .. Len(t)
    BY <1>1
  <2>2. e = t[Len(t)] /\ Len(t) \in 1 .. Len(t)
    BY <1>1
  <2> QED BY <1>1, <2>1, <2>2 DEF ToSet
<1> QED BY <1>1, <1>2, <1>3, <1>4 DEF t

-----------------------------------------------------------------------------
(* Messages and pushes.                                                    *)

\* What the kinds of messages carry.
LEMMA MessageKinds ==
    ASSUME NEW n \in Nat, NEW m \in Message(n)
    PROVE  /\ m.kind \in {"null", "tx", "quorum", "ret", "newleader", "db"}
           /\ m.kind = "tx" => m.op \in Op /\ m.txcount \in 0 .. n
           /\ m.kind = "ret" => m.op \in Op /\ m.ok \in BOOLEAN
           /\ m.kind = "quorum" => m.quorum \in BOOLEAN
           /\ m.kind = "db" => m.db \in Seq(Op) /\ m.txcount \in 0 .. n
BY DEF Message

\* The messages that the actions make.
LEMMA MessageMade ==
    ASSUME NEW n \in Nat
    PROVE  /\ NewLeader \in Message(n)
           /\ \A o \in Op : /\ Null(o) \in Message(n) /\ Tx(o, n) \in Message(n)
                            /\ \A ok \in BOOLEAN : Ret(o, ok) \in Message(n)
           /\ \A f \in Follower : \A b \in BOOLEAN : Quorum(b, f) \in Message(n)
           /\ \A s \in Seq(Op) : Db(s, n) \in Message(n)
BY DEF Message, NewLeader, Null, Tx, Ret, Quorum, Db

\* What was a message stays one when the leader counts another transaction.
LEMMA MessageGrows ==
    ASSUME NEW n \in Nat
    PROVE  /\ Message(n) \subseteq Message(n + 1)
           /\ Waiting(n) \subseteq Waiting(n + 1)
           /\ Seq(Message(n)) \subseteq Seq(Message(n + 1))
           /\ Seq(Waiting(n)) \subseteq Seq(Waiting(n + 1))
  <1>1. Message(n) \subseteq Message(n + 1)
    BY DEF Message
  <1>2. Waiting(n) \subseteq Waiting(n + 1)
    BY <1>1 DEF Waiting
  <1> QED BY <1>1, <1>2, SeqMonotonic

\* Pushes to several streams line up behind the others.
LEMMA BroadcastMade ==
    ASSUME NEW n \in Nat, NEW q \in Seq(Waiting(n)), NEW s \in Seq(Follower),
           NEW m \in Message(n)
    PROVE  /\ Broadcast(q, s, m) \in Seq(Waiting(n))
           /\ Len(Broadcast(q, s, m)) = Len(q) + Len(s)
           /\ \A i \in 1 .. Len(q) : Broadcast(q, s, m)[i] = q[i]
           /\ \A i \in 1 .. Len(s) : Broadcast(q, s, m)[Len(q) + i] =
                [to |-> s[i], open |-> TRUE, msg |-> m]
  <1> DEFINE t == [i \in DOMAIN s |-> [to |-> s[i], open |-> TRUE, msg |-> m]]
  <1>1. DOMAIN s = 1 .. Len(s) /\ Len(s) \in Nat /\ Len(q) \in Nat
    OBVIOUS
  <1>2. \A i \in 1 .. Len(s) : t[i] \in Waiting(n)
    BY <1>1 DEF Waiting
  <1>3. t \in Seq(Waiting(n)) /\ Len(t) = Len(s)
    BY <1>1, <1>2
  <1>4. \A i \in 1 .. Len(s) : t[i] = [to |-> s[i], open |-> TRUE, msg |-> m]
    BY <1>1
  <1>5. Broadcast(q, s, m) = q \o t
    BY DEF Broadcast
  <1> HIDE DEF t
  <1> QED BY <1>1, <1>3, <1>4, <1>5, ConcatProperties

\* A push to one stream.
LEMMA ReplyMade ==
    ASSUME NEW n \in Nat, NEW q \in Seq(Waiting(n)), NEW f \in Follower,
           NEW m \in Message(n)
    PROVE  /\ Reply(q, f, m) \in Seq(Waiting(n))
           /\ Len(Reply(q, f, m)) = Len(q) + 1
           /\ \A i \in 1 .. Len(q) : Reply(q, f, m)[i] = q[i]
           /\ Reply(q, f, m)[Len(q) + 1] = [to |-> f, open |-> TRUE, msg |-> m]
  <1>1. [to |-> f, open |-> TRUE, msg |-> m] \in Waiting(n)
    BY DEF Waiting
  <1> QED BY <1>1 DEF Reply

\* Closing the pushes to a stream changes nothing else about them.
LEMMA ClosedMade ==
    ASSUME NEW n \in Nat, NEW q \in Seq(Waiting(n)), NEW f \in Follower
    PROVE  /\ Closed(q, f) \in Seq(Waiting(n))
           /\ Len(Closed(q, f)) = Len(q)
           /\ \A i \in 1 .. Len(q) :
                /\ Closed(q, f)[i].to = q[i].to /\ Closed(q, f)[i].msg = q[i].msg
                /\ Closed(q, f)[i].open = (q[i].open /\ q[i].to # f)
  <1>1. DOMAIN q = 1 .. Len(q) /\ Len(q) \in Nat
    OBVIOUS
  <1>2. \A i \in 1 .. Len(q) : q[i] \in Waiting(n)
    OBVIOUS
  <1>3. \A i \in 1 .. Len(q) :
          /\ Closed(q, f)[i] = IF q[i].to = f THEN [q[i] EXCEPT !.open = FALSE]
                               ELSE q[i]
    BY <1>1 DEF Closed
  <1>4. \A i \in 1 .. Len(q) :
          /\ Closed(q, f)[i] \in Waiting(n)
          /\ Closed(q, f)[i].to = q[i].to /\ Closed(q, f)[i].msg = q[i].msg
          /\ Closed(q, f)[i].open = (q[i].open /\ q[i].to # f)
    <2> SUFFICES ASSUME NEW i \in 1 .. Len(q)
                 PROVE  /\ Closed(q, f)[i] \in Waiting(n)
                        /\ Closed(q, f)[i].to = q[i].to /\ Closed(q, f)[i].msg = q[i].msg
                        /\ Closed(q, f)[i].open = (q[i].open /\ q[i].to # f)
      OBVIOUS
    <2>1. CASE q[i].to = f
      BY <1>2, <1>3, <2>1 DEF Waiting
    <2>2. CASE q[i].to # f
      BY <1>2, <1>3, <2>2 DEF Waiting
    <2> QED BY <2>1, <2>2
  <1>5. DOMAIN Closed(q, f) = 1 .. Len(q)
    BY <1>1 DEF Closed
  <1>6. Closed(q, f) \in Seq(Waiting(n)) /\ Len(Closed(q, f)) = Len(q)
    <2>1. Closed(q, f) \in [1 .. Len(q) -> Waiting(n)]
      BY <1>1, <1>4, <1>5 DEF Closed
    <2> HIDE DEF Closed
    <2> QED BY <1>1, <2>1
  <1> QED BY <1>4, <1>6

\* A stream that is unregistered is not registered any more, the others are.
LEMMA Unregistered ==
    ASSUME NEW s \in Seq(Follower), IsInjective(s), NEW f \in Follower
    PROVE  /\ RemoveFirst(s, f) \in Seq(Follower)
           /\ IsInjective(RemoveFirst(s, f))
           /\ ToSet(RemoveFirst(s, f)) = ToSet(s) \ {f}
  <1>1. CASE f \in ToSet(s)
    BY <1>1, RemoveOne
  <1>2. CASE f \notin ToSet(s)
    <2>1. RemoveFirst(s, f) = s
      BY <1>2 DEF RemoveFirst, ToSet
    <2> QED BY <1>2, <2>1
  <1> QED BY <1>1, <1>2
-----------------------------------------------------------------------------
(* The invariant.                                                          *)

\* The log of the tenure: what the leader has applied, and what it has counted.
Decided == ldb \o inflight

\* Where o is in s; the place of o in the log.
PosOf(s, o) == CHOOSE i \in DOMAIN s : s[i] = o
Pos(o) == PosOf(Decided, o)
PrefixOf(s, t) == Len(s) <= Len(t) /\ \A i \in 1 .. Len(s) : s[i] = t[i]

\* How much of the log f has, or has with the dump that it reads next.
DbFirst(f) == chan[f] # <<>> /\ chan[f][1].kind = "db"
Base(f) ==
    IF DbFirst(f) THEN Len(chan[f][1].db)
    ELSE IF fdb[f] = <<>> THEN 0 ELSE Pos(fdb[f][Len(fdb[f])])

\* The changes on their way to f: as messages, and as pushes that wait.
TxAt(f, j) == chan[f][j].kind = "tx"
PushAt(f, i) == pushq[i].to = f /\ pushq[i].open /\ pushq[i].msg.kind = "tx"
InChan(f, o) == \E j \in DOMAIN chan[f] : TxAt(f, j) /\ chan[f][j].op = o
InPush(f, o) == \E i \in DOMAIN pushq : PushAt(f, i) /\ pushq[i].msg.op = o

\* Nobody is told of a new leader before the leader retires.
NoFarewell ==
    /\ leaving = <<>>
    /\ \A i \in DOMAIN pushq : pushq[i].msg.kind # "newleader"
    /\ \A f \in Follower : \A j \in DOMAIN chan[f] :
          chan[f][j].kind # "newleader"

\* A follower is registered from JoinRegister to RelayEnd; what is pushed to it
\* afterwards, or was pushed to it before, goes nowhere.
Registered ==
    /\ \A f \in Follower :
          /\ relay[f] \in {"live", "broken"} => f \in ToSet(streams)
          /\ relay[f] = "live" => ~broken[f] /\ joinpc[f] = "none"
    /\ \A i \in DOMAIN pushq :
          pushq[i].open => relay[pushq[i].to] \in {"live", "broken"}

\* A dump is the first message of a connection.
Dumps ==
    /\ \A i \in DOMAIN pushq : pushq[i].msg.kind # "db"
    /\ \A f \in Follower :
          /\ joinpc[f] = "dumped" => chan[f] = <<>>
          /\ \A j \in DOMAIN chan[f] :
                /\ chan[f][j].kind = "db" => j = 1
                /\ joinpc[f] = "sent" => chan[f][j].kind = "db"

\* A request of a follower is settled before its relay ends, and a request that
\* finds no follower registered finds the collective dead.
Busyness ==
    \A o \in Op :
        /\ opc[o] = "idle" => origin[o] = Leader
        /\ opc[o] \in {"health", "push"} =>
              /\ origin[o] # Leader => relay[origin[o]] \in {"live", "broken"}
              /\ streams = <<>> => dead

\* A request that is on its way to the leader is there once.
Sending ==
    \A f \in Follower :
        /\ IsInjective(up[f])
        /\ \A j \in DOMAIN up[f] :
              opc[up[f][j]] = "sent" /\ origin[up[f][j]] = f

\* A change is decided when it is counted, and only once.
Once ==
    /\ IsInjective(Decided)
    /\ \A o \in Op : o \in ToSet(Decided) <=> opc[o] \in {"push", "done"}
    /\ \A o \in Op : o \in ToSet(inflight) <=> opc[o] = "push"

\* What is sent has been decided, and dumps are the beginning of the log.
Contents ==
    /\ \A i \in DOMAIN pushq :
          pushq[i].msg.kind = "tx" => pushq[i].msg.op \in ToSet(inflight)
    /\ \A f \in Follower :
          /\ PrefixOf(snap[f], Decided)
          /\ ToSet(fdb[f]) \subseteq ToSet(Decided)
          /\ \A j \in DOMAIN chan[f] :
                /\ TxAt(f, j) => chan[f][j].op \in ToSet(Decided)
                /\ chan[f][j].kind = "db" => PrefixOf(chan[f][j].db, Decided)

\* Changes are on their way to f in the order of the log, after what it has.
OrderedAt(f) ==
    /\ \A j \in DOMAIN chan[f] : TxAt(f, j) =>
          /\ Base(f) < Pos(chan[f][j].op)
          /\ \A k \in DOMAIN chan[f] : j < k /\ TxAt(f, k) =>
                Pos(chan[f][j].op) < Pos(chan[f][k].op)
    /\ relay[f] = "live" => \A i \in DOMAIN pushq : PushAt(f, i) =>
          /\ Base(f) < Pos(pushq[i].msg.op)
          /\ \A j \in DOMAIN chan[f] : TxAt(f, j) =>
                Pos(chan[f][j].op) < Pos(pushq[i].msg.op)
          /\ \A k \in DOMAIN pushq : i < k /\ PushAt(f, k) =>
                Pos(pushq[i].msg.op) < Pos(pushq[k].msg.op)
Ordered == \A f \in Follower : OrderedAt(f)

\* No change is left out on the way to a follower that joined while nothing
\* changed; while it joins, it has the whole log or will have.
CompleteAt(f) ==
    /\ \A j \in DOMAIN chan[f] : TxAt(f, j) =>
          \A p \in Base(f) + 1 .. Pos(chan[f][j].op) : InChan(f, Decided[p])
    /\ relay[f] = "live" =>
          \A p \in Base(f) + 1 .. Len(Decided) :
              InChan(f, Decided[p]) \/ InPush(f, Decided[p])
    /\ joinpc[f] # "none" => inflight = <<>>
    /\ joinpc[f] = "dumped" => Len(snap[f]) = Len(Decided)
    /\ joinpc[f] = "sent" /\ ~broken[f] => Base(f) = Len(Decided)
Complete == \A f \in Follower : ~raced[f] => CompleteAt(f)

\* The change o has reached f, or will before anything that is pushed now.
Got(f, o) == InChan(f, o) \/ (~DbFirst(f) /\ o \in ToSet(fdb[f]))

\* An answer goes to the member that asked, behind the change.
HeardAt(f) ==
    \A j \in DOMAIN chan[f] : chan[f][j].kind = "ret" =>
        /\ origin[chan[f][j].op] = f
        /\ chan[f][j].ok =>
              \/ \E k \in 1 .. j : TxAt(f, k) /\ chan[f][k].op = chan[f][j].op
              \/ ~DbFirst(f) /\ chan[f][j].op \in ToSet(fdb[f])
ToldAt(f) ==
    \A i \in DOMAIN pushq : pushq[i].to = f /\ pushq[i].msg.kind = "ret" =>
        /\ origin[pushq[i].msg.op] = f
        /\ pushq[i].msg.ok /\ pushq[i].open /\ relay[f] = "live"
              => Got(f, pushq[i].msg.op)
AskedAt(f) ==
    \A o \in Op : opc[o] = "push" /\ origin[o] = f /\ relay[f] = "live"
        => Got(f, o) \/ InPush(f, o)
Answers == \A f \in Follower : HeardAt(f) /\ ToldAt(f) /\ AskedAt(f)

Tenure ==
    /\ NoFarewell /\ Registered /\ Dumps
    /\ Busyness /\ Sending /\ Once /\ Contents
    /\ Ordered /\ Complete /\ Answers
ReplicationInv == TypeOK /\ (~retired => Tenure)
-----------------------------------------------------------------------------
\* HasQuorum is a comparison.
LEMMA QuorumBoolean == \A S : HasQuorum(S) \in BOOLEAN
  BY DEF HasQuorum

\* The leader starts alone.
LEMMA InitTypes == Init => TypeOK
  <1> SUFFICES ASSUME Init PROVE TypeOK
    OBVIOUS
  <1>1. LeaderOK
    BY EmptyList DEF Init, LeaderOK
  <1>2. ChangesOK
    BY DEF Init, ChangesOK
  <1>3. JoinsOK /\ FollowersOK /\ ConnectionsOK
    BY DEF Init, JoinsOK, FollowersOK, ConnectionsOK
  <1>4. BudgetOK
    BY BoundAssumption DEF Init, BudgetOK
  <1> QED BY <1>1, <1>2, <1>3, <1>4 DEF TypeOK

\* One step per action, and one per conjunct of the types that it can disturb.
LEMMA TypeStep == TypeOK /\ [Next]_vars => TypeOK'
  <1> SUFFICES ASSUME TypeOK, [Next]_vars PROVE TypeOK'
    OBVIOUS
  <1> USE RolesAssumption
  <1>1. ASSUME NEW o \in Op, Submit(o) PROVE TypeOK'
    <2>1. LeaderOK'
      <3>1. ldb \in Seq(Op) /\ (ldb' = ldb \/ ldb' = Append(ldb, o))
        BY <1>1 DEF TypeOK, LeaderOK, Submit
      <3>2. ldb' \in Seq(Op)
        BY <3>1
      <3> QED BY <1>1, <3>2 DEF TypeOK, LeaderOK, Submit
    <2>2. ChangesOK'
      <3>1. pushq' = pushq \/ pushq' = Broadcast(pushq, streams, Null(o))
        BY <1>1 DEF Submit
      <3>2. pushq' \in Seq(Waiting(txcount))
        <4>1. txcount \in Nat /\ pushq \in Seq(Waiting(txcount)) /\ streams \in Seq(Follower)
          BY DEF TypeOK, LeaderOK, ChangesOK
        <4>2. Null(o) \in Message(txcount)
          BY <1>1, <4>1, MessageMade
        <4>3. Broadcast(pushq, streams, Null(o)) \in Seq(Waiting(txcount))
          BY <4>1, <4>2, BroadcastMade
        <4> QED BY <3>1, <4>1, <4>3
      <3> QED BY <1>1, <3>2 DEF TypeOK, LeaderOK, ChangesOK, Submit
    <2>3. JoinsOK'
      BY <1>1 DEF TypeOK, JoinsOK, Submit, LeaderOK, joinvars, MarkRaced, Racing, Unsent
    <2>4. FollowersOK' /\ ConnectionsOK' /\ BudgetOK'
      BY <1>1 DEF TypeOK, LeaderOK, FollowersOK, ConnectionsOK, BudgetOK, Submit, leadervars, opvars, joinvars, followervars, netvars
    <2> QED BY <2>1, <2>2, <2>3, <2>4 DEF TypeOK
  <1>2. ASSUME NEW f \in Follower, NEW o \in Op, Request(f, o) PROVE TypeOK'
    <2>1. ChangesOK'
      BY <1>2 DEF TypeOK, ChangesOK, Request, LeaderOK, ConnectionsOK, opvars, leadervars
    <2>2. ConnectionsOK'
      BY <1>2 DEF TypeOK, ConnectionsOK, Request, LeaderOK, ChangesOK, netvars, Message, leadervars
    <2>3. LeaderOK' /\ JoinsOK' /\ FollowersOK' /\ BudgetOK'
      BY <1>2 DEF TypeOK, LeaderOK, JoinsOK, FollowersOK, BudgetOK, Request, leadervars, opvars, joinvars, followervars, netvars
    <2> QED BY <2>1, <2>2, <2>3 DEF TypeOK
  <1>3. ASSUME NEW f \in Follower, RelayRequest(f) PROVE TypeOK'
    <2>1. ChangesOK'
      <3>1. Head(up[f]) \in Op
        BY <1>3 DEF TypeOK, ConnectionsOK, RelayRequest
      <3>2. pushq' \in Seq(Waiting(txcount))
        BY <1>3, <3>1, BroadcastMade, MessageMade DEF TypeOK, LeaderOK, ChangesOK, RelayRequest
      <3> QED BY <1>3, <3>1, <3>2 DEF TypeOK, LeaderOK, ChangesOK, RelayRequest, leadervars
    <2>2. ConnectionsOK'
      BY <1>3 DEF TypeOK, ConnectionsOK, RelayRequest, LeaderOK, ChangesOK, netvars, Message, leadervars
    <2>3. LeaderOK' /\ JoinsOK' /\ FollowersOK' /\ BudgetOK'
      BY <1>3 DEF TypeOK, LeaderOK, JoinsOK, FollowersOK, BudgetOK, RelayRequest, leadervars, opvars, joinvars, followervars, netvars
    <2> QED BY <2>1, <2>2, <2>3 DEF TypeOK
  <1>4. ASSUME NEW o \in Op, Commit(o) PROVE TypeOK'
    <2>0. /\ txcount \in Nat /\ txcount' \in Nat /\ txcount' \in {txcount, txcount + 1}
          /\ Message(txcount) \subseteq Message(txcount')
          /\ Seq(Waiting(txcount)) \subseteq Seq(Waiting(txcount'))
          /\ Seq(Message(txcount)) \subseteq Seq(Message(txcount'))
      <3>1. txcount \in Nat /\ txcount' \in {txcount, txcount + 1}
        BY <1>4 DEF Commit, TypeOK, LeaderOK
      <3> QED BY <3>1, MessageGrows
    <2>1. LeaderOK'
      BY <1>4, <2>0 DEF TypeOK, LeaderOK, Commit
    <2>2. ChangesOK'
      <3>1. origin[o] # Leader => origin[o] \in Follower
        BY DEF TypeOK, ChangesOK
      <3>2. /\ \/ /\ pushq' = Broadcast(pushq, streams, Tx(o, txcount'))
                  /\ inflight' = Append(inflight, o)
                  /\ opc' = [opc EXCEPT ![o] = "push"]
               \/ /\ pushq' = pushq \/ (origin[o] # Leader /\ pushq' = Reply(pushq, origin[o], Ret(o, FALSE)))
                  /\ inflight' = inflight
                  /\ opc' = [opc EXCEPT ![o] = "refused"]
            /\ origin' = origin
        BY <1>4 DEF Commit
      <3>3. pushq \in Seq(Waiting(txcount')) /\ streams \in Seq(Follower)
        BY <2>0 DEF TypeOK, LeaderOK, ChangesOK
      <3>4. pushq' \in Seq(Waiting(txcount'))
        <4>1. Tx(o, txcount') \in Message(txcount') /\ Ret(o, FALSE) \in Message(txcount')
          BY <2>0, MessageMade
        <4>2. Broadcast(pushq, streams, Tx(o, txcount')) \in Seq(Waiting(txcount'))
          BY <2>0, <3>3, <4>1, BroadcastMade
        <4>3. ASSUME origin[o] # Leader
              PROVE  Reply(pushq, origin[o], Ret(o, FALSE)) \in Seq(Waiting(txcount'))
          BY <2>0, <3>1, <3>3, <4>1, <4>3, ReplyMade
        <4> QED BY <3>2, <3>3, <4>2, <4>3
      <3>5. inflight \in Seq(Op) /\ Append(inflight, o) \in Seq(Op)
        BY DEF TypeOK, ChangesOK
      <3> QED BY <3>2, <3>4, <3>5 DEF TypeOK, ChangesOK
    <2>3. JoinsOK'
      BY <1>4 DEF TypeOK, JoinsOK, Commit, joinvars, MarkRaced
    <2>4. FollowersOK'
      <3>1. UNCHANGED followervars
        BY <1>4 DEF Commit
      <3>2. 0 .. txcount \subseteq 0 .. txcount'
        BY <2>0
      <3>3. ftx \in [Follower -> 0 .. txcount']
        BY <3>2 DEF TypeOK, FollowersOK
      <3> QED BY <3>1, <3>3 DEF TypeOK, FollowersOK, followervars
    <2>5. ConnectionsOK'
      <3>1. UNCHANGED netvars
        BY <1>4 DEF Commit
      <3>2. chan \in [Follower -> Seq(Message(txcount'))]
        BY <2>0 DEF TypeOK, ConnectionsOK
      <3> QED BY <3>1, <3>2 DEF TypeOK, ConnectionsOK, netvars
    <2>6. BudgetOK'
      BY <1>4 DEF TypeOK, LeaderOK, BudgetOK, Commit, leadervars, opvars, joinvars, followervars, netvars
    <2> QED BY <2>1, <2>2, <2>3, <2>4, <2>5, <2>6 DEF TypeOK
  <1>5. CASE Push
    <2>0. /\ Head(pushq).to \in Follower
          /\ Head(pushq).msg \in Message(txcount)
      <3>1. Head(pushq) \in Waiting(txcount)
        BY <1>5 DEF TypeOK, ChangesOK, Push
      <3> QED BY <3>1 DEF Waiting
    <2>1. LeaderOK'
      <3>1. streams' \in Seq(Follower) /\ IsInjective(streams') /\ ToSet(streams') \subseteq ToSet(streams)
        BY <1>5, <2>0, Unregistered DEF TypeOK, LeaderOK, Push
      <3>2. failed' \subseteq Follower
        BY <1>5, <2>0 DEF TypeOK, LeaderOK, Push
      <3> QED BY <1>5, <3>1, <3>2 DEF TypeOK, LeaderOK, Push
    <2>2. ChangesOK'
      BY <1>5 DEF TypeOK, LeaderOK, ChangesOK, Push
    <2>3. ConnectionsOK'
      BY <1>5, <2>0 DEF TypeOK, LeaderOK, ConnectionsOK, Push
    <2>4. JoinsOK' /\ FollowersOK' /\ BudgetOK'
      BY <1>5 DEF TypeOK, LeaderOK, JoinsOK, FollowersOK, BudgetOK, Push, leadervars, opvars, joinvars, followervars, netvars
    <2> QED BY <2>1, <2>2, <2>3, <2>4 DEF TypeOK
  <1>6. CASE Apply
    <2>1. LeaderOK'
      BY <1>6 DEF TypeOK, LeaderOK, Apply, ChangesOK, leadervars
    <2>2. ChangesOK'
      <3>1. Head(inflight) \in Op /\ inflight' \in Seq(Op)
        BY <1>6 DEF TypeOK, ChangesOK, Apply
      <3>2. pushq' \in Seq(Waiting(txcount))
        <4>1. \/ UNCHANGED pushq
              \/ /\ origin[Head(inflight)] \in Follower
                 /\ pushq' = Reply(pushq, origin[Head(inflight)], Ret(Head(inflight), TRUE))
          BY <1>6, <3>1 DEF TypeOK, ChangesOK, Apply
        <4>2. /\ txcount \in Nat /\ pushq \in Seq(Waiting(txcount))
              /\ Ret(Head(inflight), TRUE) \in Message(txcount)
          BY <3>1, MessageMade DEF TypeOK, LeaderOK, ChangesOK
        <4>3. \A g \in Follower :
                Reply(pushq, g, Ret(Head(inflight), TRUE)) \in Seq(Waiting(txcount))
          BY <4>2, ReplyMade
        <4> QED BY <4>1, <4>2, <4>3
      <3> QED BY <1>6, <3>1, <3>2 DEF TypeOK, LeaderOK, ChangesOK, Apply
    <2>3. JoinsOK'
      BY <1>6 DEF TypeOK, JoinsOK, Apply, joinvars, MarkRaced
    <2>4. FollowersOK' /\ ConnectionsOK' /\ BudgetOK'
      BY <1>6 DEF TypeOK, LeaderOK, FollowersOK, ConnectionsOK, BudgetOK, Apply, leadervars, opvars, joinvars, followervars, netvars
    <2> QED BY <2>1, <2>2, <2>3, <2>4 DEF TypeOK
  <1>7. ASSUME NEW f \in Follower, NEW n \in 0 .. Len(ldb), JoinDump(f, n) PROVE TypeOK'
    <2>1. JoinsOK'
      BY <1>7 DEF TypeOK, JoinsOK, JoinDump, LeaderOK, joinvars, MarkRaced, Racing, Unsent
    <2>2. ConnectionsOK'
      BY <1>7 DEF TypeOK, ConnectionsOK, JoinDump, LeaderOK, ChangesOK, netvars, Message, JoinsOK, leadervars
    <2>3. BudgetOK'
      <3>1. budget.joins \in [Follower -> Nat] /\ budget.joins[f] - 1 \in Nat
        BY <1>7 DEF TypeOK, BudgetOK, JoinDump
      <3>2. budget' = [budget EXCEPT !.joins = [budget.joins EXCEPT ![f] = budget.joins[f] - 1]]
        BY <1>7 DEF JoinDump
      <3>3. [budget.joins EXCEPT ![f] = budget.joins[f] - 1] \in [Follower -> Nat]
        BY <3>1
      <3> QED BY <3>2, <3>3 DEF TypeOK, BudgetOK
    <2>4. LeaderOK' /\ ChangesOK' /\ FollowersOK'
      BY <1>7 DEF TypeOK, LeaderOK, ChangesOK, FollowersOK, JoinDump, leadervars, opvars, joinvars, followervars, netvars
    <2> QED BY <2>1, <2>2, <2>3, <2>4 DEF TypeOK
  <1>8. ASSUME NEW f \in Follower, JoinSend(f) PROVE TypeOK'
    <2>1. JoinsOK'
      BY <1>8 DEF TypeOK, JoinsOK, JoinSend, joinvars
    <2>2. ConnectionsOK'
      <3>1. <<Db(snap[f], txcount)>> \in Seq(Message(txcount))
        BY MessageMade DEF TypeOK, LeaderOK, JoinsOK
      <3> QED BY <1>8, <3>1 DEF TypeOK, LeaderOK, ConnectionsOK, JoinSend, leadervars
    <2>3. LeaderOK' /\ ChangesOK' /\ FollowersOK' /\ BudgetOK'
      BY <1>8 DEF TypeOK, LeaderOK, ChangesOK, FollowersOK, BudgetOK, JoinSend, leadervars, opvars, joinvars, followervars, netvars
    <2> QED BY <2>1, <2>2, <2>3 DEF TypeOK
  <1>9. ASSUME NEW f \in Follower, JoinRegister(f) PROVE TypeOK'
    <2>1. LeaderOK'
      <3>1. f \notin ToSet(streams)
        BY <1>9 DEF TypeOK, LeaderOK, JoinRegister
      <3>2. streams' \in Seq(Follower) /\ IsInjective(streams') /\ ToSet(streams') = ToSet(streams) \cup {f}
        BY <1>9, <3>1, AddEnd DEF TypeOK, LeaderOK, JoinRegister
      <3>3. \A g \in ToSet(streams') : relay'[g] \in {"live", "broken"}
        BY <1>9, <3>2 DEF TypeOK, LeaderOK, JoinRegister
      <3> QED BY <1>9, <3>2, <3>3, QuorumBoolean DEF TypeOK, LeaderOK, JoinRegister
    <2>2. ChangesOK'
      <3>1. streams' \in Seq(Follower)
        BY <1>9 DEF TypeOK, LeaderOK, JoinRegister
      <3>2. pushq' \in Seq(Waiting(txcount))
        <4>1. txcount \in Nat /\ pushq \in Seq(Waiting(txcount)) /\ hasquorum' \in BOOLEAN
          BY <1>9, QuorumBoolean DEF TypeOK, LeaderOK, ChangesOK, JoinRegister
        <4>2. Quorum(hasquorum', f) \in Message(txcount)
          BY <1>9, <4>1, MessageMade
        <4>3. Broadcast(pushq, streams', Quorum(hasquorum', f)) \in Seq(Waiting(txcount))
          BY <3>1, <4>1, <4>2, BroadcastMade
        <4> QED BY <1>9, <4>3 DEF JoinRegister
      <3> QED BY <1>9, <3>2 DEF TypeOK, LeaderOK, ChangesOK, JoinRegister
    <2>3. JoinsOK'
      BY <1>9 DEF TypeOK, JoinsOK, JoinRegister, joinvars
    <2>4. FollowersOK' /\ ConnectionsOK' /\ BudgetOK'
      BY <1>9 DEF TypeOK, LeaderOK, FollowersOK, ConnectionsOK, BudgetOK, JoinRegister, leadervars, opvars, joinvars, followervars, netvars
    <2> QED BY <2>1, <2>2, <2>3, <2>4 DEF TypeOK
  <1>10. ASSUME NEW f \in Follower, Reannounce(f) PROVE TypeOK'
    <2>1. LeaderOK'
      BY <1>10, QuorumBoolean DEF TypeOK, LeaderOK, Reannounce
    <2>2. ChangesOK'
      <3>1. pushq' = pushq \/ pushq' = Broadcast(pushq, streams, Quorum(hasquorum', f))
        BY <1>10 DEF Reannounce
      <3>2. hasquorum' \in BOOLEAN
        BY <1>10, QuorumBoolean DEF Reannounce
      <3>3. pushq' \in Seq(Waiting(txcount))
        <4>1. txcount \in Nat /\ pushq \in Seq(Waiting(txcount)) /\ streams \in Seq(Follower)
          BY DEF TypeOK, LeaderOK, ChangesOK
        <4>2. Quorum(hasquorum', f) \in Message(txcount)
          BY <1>10, <3>2, <4>1, MessageMade
        <4>3. Broadcast(pushq, streams, Quorum(hasquorum', f)) \in Seq(Waiting(txcount))
          BY <4>1, <4>2, BroadcastMade
        <4> QED BY <3>1, <4>1, <4>3
      <3> QED BY <1>10, <3>3 DEF TypeOK, LeaderOK, ChangesOK, Reannounce
    <2>3. JoinsOK' /\ FollowersOK' /\ ConnectionsOK' /\ BudgetOK'
      BY <1>10 DEF TypeOK, LeaderOK, JoinsOK, FollowersOK, ConnectionsOK, BudgetOK, Reannounce, leadervars, opvars, joinvars, followervars, netvars
    <2> QED BY <2>1, <2>2, <2>3 DEF TypeOK
  <1>11. ASSUME NEW f \in Follower, Receive(f) PROVE TypeOK'
    <2>1. LeaderOK'
      BY <1>11 DEF TypeOK, LeaderOK, Receive, leadervars
    <2>2. ChangesOK'
      BY <1>11 DEF TypeOK, ChangesOK, Receive, Unsent
    <2>3. FollowersOK'
      <3>1. Head(chan[f]) \in Message(txcount) /\ txcount \in Nat
        BY <1>11 DEF TypeOK, LeaderOK, ConnectionsOK, Receive
      <3>2. /\ Head(chan[f]).kind = "db" => Head(chan[f]).db \in Seq(Op)
            /\ Head(chan[f]).kind \in {"tx", "ret"} => Head(chan[f]).op \in Op
            /\ Head(chan[f]).kind \in {"db", "tx"} => Head(chan[f]).txcount \in 0 .. txcount
            /\ Head(chan[f]).kind = "quorum" => Head(chan[f]).quorum \in BOOLEAN
        BY <3>1, MessageKinds
      <3> QED BY <1>11, <3>2 DEF TypeOK, FollowersOK, Receive
    <2>4. ConnectionsOK'
      BY <1>11 DEF TypeOK, ConnectionsOK, Receive, LeaderOK, netvars
    <2>5. JoinsOK' /\ BudgetOK'
      BY <1>11 DEF TypeOK, LeaderOK, JoinsOK, BudgetOK, Receive, leadervars, opvars, joinvars, followervars, netvars
    <2> QED BY <2>1, <2>2, <2>3, <2>4, <2>5 DEF TypeOK
  <1>12. ASSUME NEW f \in Follower, StopFollowing(f) PROVE TypeOK'
    <2>1. FollowersOK'
      BY <1>12, MessageKinds DEF TypeOK, FollowersOK, StopFollowing, LeaderOK, ConnectionsOK, followervars, leadervars
    <2>2. ConnectionsOK'
      BY <1>12 DEF TypeOK, ConnectionsOK, StopFollowing, LeaderOK, ChangesOK, netvars, Message, leadervars
    <2>3. LeaderOK' /\ ChangesOK' /\ JoinsOK' /\ BudgetOK'
      BY <1>12 DEF TypeOK, LeaderOK, ChangesOK, JoinsOK, BudgetOK, StopFollowing, leadervars, opvars, joinvars, followervars, netvars
    <2> QED BY <2>1, <2>2, <2>3 DEF TypeOK
  <1>13. ASSUME NEW f \in Follower, Break(f) PROVE TypeOK'
    <2>1. LeaderOK'
      BY <1>13 DEF TypeOK, LeaderOK, Break, leadervars
    <2>2. ChangesOK'
      BY <1>13 DEF TypeOK, ChangesOK, Break, Unsent
    <2>3. ConnectionsOK'
      BY <1>13 DEF TypeOK, ConnectionsOK, Break, LeaderOK, netvars
    <2>4. BudgetOK'
      <3>1. budget.losses \in [Follower -> Nat] /\ budget.losses[f] - 1 \in Nat
        BY <1>13 DEF TypeOK, BudgetOK, Break
      <3>2. budget' = [budget EXCEPT !.losses = [budget.losses EXCEPT ![f] = budget.losses[f] - 1]]
        BY <1>13 DEF Break
      <3>3. [budget.losses EXCEPT ![f] = budget.losses[f] - 1] \in [Follower -> Nat]
        BY <3>1
      <3> QED BY <3>2, <3>3 DEF TypeOK, BudgetOK
    <2>5. JoinsOK' /\ FollowersOK'
      BY <1>13 DEF TypeOK, LeaderOK, JoinsOK, FollowersOK, Break, leadervars, opvars, joinvars, followervars, netvars
    <2> QED BY <2>1, <2>2, <2>3, <2>4, <2>5 DEF TypeOK
  <1>14. ASSUME NEW f \in Follower, RelayEnd(f) PROVE TypeOK'
    <2>1. LeaderOK'
      <3>1. streams' \in Seq(Follower) /\ IsInjective(streams') /\ ToSet(streams') = ToSet(streams) \ {f}
        BY <1>14, Unregistered DEF TypeOK, LeaderOK, RelayEnd
      <3>2. \A g \in ToSet(streams') : relay'[g] \in {"live", "broken"}
        BY <1>14, <3>1 DEF TypeOK, LeaderOK, RelayEnd
      <3>3. hasquorum' \in BOOLEAN
        BY <1>14, QuorumBoolean DEF TypeOK, LeaderOK, RelayEnd
      <3>4. relay' \in [Follower -> {"none", "live", "broken", "ending"}]
        BY <1>14 DEF TypeOK, LeaderOK, RelayEnd
      <3> QED BY <1>14, <3>1, <3>2, <3>3, <3>4 DEF TypeOK, LeaderOK, RelayEnd
    <2>2. ChangesOK'
      <3>1. streams' \in Seq(Follower) /\ hasquorum' \in BOOLEAN
        BY <1>14, <2>1 DEF LeaderOK
      <3>2. pushq' \in Seq(Waiting(txcount))
        BY <1>14, <3>1, BroadcastMade, MessageMade, ClosedMade DEF TypeOK, LeaderOK, ChangesOK, RelayEnd
      <3>3. opc' \in [Op -> {"idle", "sent", "health", "push", "done", "refused", "lost"}]
        BY <1>14 DEF TypeOK, ChangesOK, RelayEnd, Unsent
      <3> QED BY <1>14, <3>2, <3>3 DEF TypeOK, LeaderOK, ChangesOK, RelayEnd
    <2>3. ConnectionsOK'
      BY <1>14 DEF TypeOK, ConnectionsOK, RelayEnd, LeaderOK, netvars
    <2>4. JoinsOK' /\ FollowersOK' /\ BudgetOK'
      BY <1>14 DEF TypeOK, LeaderOK, JoinsOK, FollowersOK, BudgetOK, RelayEnd, leadervars, opvars, joinvars, followervars, netvars
    <2> QED BY <2>1, <2>2, <2>3, <2>4 DEF TypeOK
  <1>15. ASSUME NEW f \in Follower, RelayExit(f) PROVE TypeOK'
    <2>1. LeaderOK'
      <3>1. \A g \in ToSet(streams') : relay'[g] \in {"live", "broken"}
        BY <1>15 DEF TypeOK, LeaderOK, RelayExit
      <3> QED BY <1>15, <3>1 DEF TypeOK, LeaderOK, RelayExit
    <2>2. ChangesOK' /\ JoinsOK' /\ FollowersOK' /\ ConnectionsOK' /\ BudgetOK'
      BY <1>15 DEF TypeOK, LeaderOK, ChangesOK, JoinsOK, FollowersOK, ConnectionsOK, BudgetOK, RelayExit, leadervars, opvars, joinvars, followervars, netvars
    <2> QED BY <2>1, <2>2 DEF TypeOK
  <1>16. ASSUME NEW b \in BOOLEAN, StopLeading(b) PROVE TypeOK'
    <2>1. LeaderOK'
      <3>1. CASE b
        BY <1>16, <3>1 DEF TypeOK, LeaderOK, StopLeading
      <3>2. CASE ~b
        <4>1. streams' \in Seq(Follower) /\ IsInjective(streams') /\ ToSet(streams') = {}
          BY <1>16, <3>2, EmptyList DEF StopLeading
        <4> QED BY <1>16, <3>2, <4>1 DEF TypeOK, LeaderOK, StopLeading
      <3> QED BY <3>1, <3>2
    <2>2. ChangesOK' /\ JoinsOK' /\ FollowersOK' /\ ConnectionsOK' /\ BudgetOK'
      BY <1>16 DEF TypeOK, LeaderOK, ChangesOK, JoinsOK, FollowersOK, ConnectionsOK, BudgetOK, StopLeading, leadervars, opvars, joinvars, followervars, netvars
    <2> QED BY <2>1, <2>2 DEF TypeOK
  <1>17. CASE TellNewLeader
    <2>1. LeaderOK'
      BY <1>17 DEF TypeOK, LeaderOK, TellNewLeader
    <2>2. ChangesOK'
      <3>1. Head(leaving) \in Follower
        BY <1>17 DEF TypeOK, LeaderOK, TellNewLeader
      <3>2. pushq' \in Seq(Waiting(txcount))
        BY <1>17, <3>1, ReplyMade, MessageMade DEF TypeOK, LeaderOK, ChangesOK, TellNewLeader
      <3> QED BY <1>17, <3>2 DEF TypeOK, LeaderOK, ChangesOK, TellNewLeader
    <2>3. JoinsOK' /\ FollowersOK' /\ ConnectionsOK' /\ BudgetOK'
      BY <1>17 DEF TypeOK, LeaderOK, JoinsOK, FollowersOK, ConnectionsOK, BudgetOK, TellNewLeader, leadervars, opvars, joinvars, followervars, netvars
    <2> QED BY <2>1, <2>2, <2>3 DEF TypeOK
  <1>18. CASE UNCHANGED vars
    BY <1>18 DEF TypeOK, LeaderOK, ChangesOK, JoinsOK, FollowersOK, ConnectionsOK, BudgetOK, vars, leadervars, opvars, joinvars, followervars, netvars
  <1> QED BY <1>1, <1>2, <1>3, <1>4, <1>5, <1>6, <1>7, <1>8, <1>9, <1>10, <1>11, <1>12, <1>13, <1>14, <1>15, <1>16, <1>17, <1>18 DEF Next, Progress
-----------------------------------------------------------------------------
(* What a step adds to the pushes.                                         *)

\* Pushes of m to the streams of S line up behind the others.
Enqueued(S, m) ==
    /\ \A i \in DOMAIN pushq : i \in DOMAIN pushq' /\ pushq'[i] = pushq[i]
    /\ \A i \in DOMAIN pushq' \ DOMAIN pushq :
          /\ i > Len(pushq) /\ pushq'[i].to \in S
          /\ pushq'[i].open /\ pushq'[i].msg = m

\* Broadcast lines up one push per stream.
LEMMA EnqueuedAll ==
    ASSUME NEW n \in Nat, pushq \in Seq(Waiting(n)), NEW s \in Seq(Follower),
           NEW m \in Message(n), pushq' = Broadcast(pushq, s, m)
    PROVE  /\ Enqueued(ToSet(s), m)
           /\ \A f \in ToSet(s) : \E i \in DOMAIN pushq' \ DOMAIN pushq :
                pushq'[i].to = f
           /\ IsInjective(s) => \A i, k \in DOMAIN pushq' \ DOMAIN pushq :
                i # k => pushq'[i].to # pushq'[k].to
  <1> DEFINE l == Len(pushq)
  <1>1. /\ DOMAIN s = 1 .. Len(s) /\ Len(s) \in Nat
        /\ DOMAIN pushq = 1 .. l /\ l \in Nat
    OBVIOUS
  <1>2. DOMAIN pushq' = 1 .. l + Len(s)
    BY BroadcastMade
  <1>3. \A i \in 1 .. l : pushq'[i] = pushq[i]
    BY BroadcastMade
  <1>4. \A k \in 1 .. Len(s) :
          pushq'[l + k] = [to |-> s[k], open |-> TRUE, msg |-> m]
    BY BroadcastMade
  <1> HIDE DEF l
  <1>5. \A i \in DOMAIN pushq' \ DOMAIN pushq :
          /\ i > l /\ i - l \in 1 .. Len(s)
          /\ pushq'[i] = [to |-> s[i - l], open |-> TRUE, msg |-> m]
    <2> SUFFICES ASSUME NEW i \in l + 1 .. l + Len(s)
                 PROVE  /\ i - l \in 1 .. Len(s)
                        /\ pushq'[i] = [to |-> s[i - l], open |-> TRUE, msg |-> m]
      <3>1. \A i \in DOMAIN pushq' \ DOMAIN pushq : i > l /\ i \in l + 1 .. l + Len(s)
        BY <1>1, <1>2
      <3> QED BY <3>1
    <2>1. i - l \in 1 .. Len(s) /\ l + (i - l) = i
      BY <1>1
    <2> QED BY <1>4, <2>1
  <1>6. Enqueued(ToSet(s), m)
    <2>1. \A i \in DOMAIN pushq : i \in DOMAIN pushq' /\ pushq'[i] = pushq[i]
      BY <1>1, <1>2, <1>3
    <2>2. \A i \in DOMAIN pushq' \ DOMAIN pushq : s[i - l] \in ToSet(s)
      BY <1>1, <1>5 DEF ToSet
    <2> QED BY <1>5, <2>1, <2>2 DEF Enqueued, l
  <1>7. \A f \in ToSet(s) : \E i \in DOMAIN pushq' \ DOMAIN pushq : pushq'[i].to = f
    <2> SUFFICES ASSUME NEW k \in 1 .. Len(s)
                 PROVE  \E i \in DOMAIN pushq' \ DOMAIN pushq : pushq'[i].to = s[k]
      BY <1>1 DEF ToSet
    <2>1. l + k \in DOMAIN pushq' \ DOMAIN pushq
      BY <1>1, <1>2
    <2>2. pushq'[l + k] = [to |-> s[k], open |-> TRUE, msg |-> m]
      BY <1>4
    <2>3. pushq'[l + k].to = s[k]
      BY <2>2
    <2> QED BY <2>1, <2>3
  <1>8. ASSUME IsInjective(s), NEW i \in DOMAIN pushq' \ DOMAIN pushq,
               NEW k \in DOMAIN pushq' \ DOMAIN pushq, i # k
        PROVE  pushq'[i].to # pushq'[k].to
    <2>1. i - l # k - l
      BY <1>1, <1>2, <1>8
    <2>2. s[i - l] # s[k - l]
      BY <1>1, <1>5, <1>8, <2>1 DEF IsInjective
    <2> QED BY <1>5, <2>2
  <1> QED BY <1>6, <1>7, <1>8

\* Reply lines up one push.
LEMMA EnqueuedOne ==
    ASSUME NEW n \in Nat, pushq \in Seq(Waiting(n)), NEW f \in Follower,
           NEW m \in Message(n), pushq' = Reply(pushq, f, m)
    PROVE  Enqueued({f}, m)
  <1>1. DOMAIN pushq = 1 .. Len(pushq) /\ Len(pushq) \in Nat
    OBVIOUS
  <1>2. /\ DOMAIN pushq' = 1 .. Len(pushq) + 1
        /\ \A i \in 1 .. Len(pushq) : pushq'[i] = pushq[i]
        /\ pushq'[Len(pushq) + 1] = [to |-> f, open |-> TRUE, msg |-> m]
    BY <1>1, ReplyMade
  <1> QED BY <1>1, <1>2 DEF Enqueued

\* The pushes that line up in a step.
LEMMA SubmitPushes ==
    ASSUME TypeOK, NEW o \in Op, Submit(o)
    PROVE  UNCHANGED pushq \/ Enqueued(ToSet(streams), Null(o))
  <1>1. UNCHANGED pushq \/ pushq' = Broadcast(pushq, streams, Null(o))
    BY DEF Submit
  <1>2. /\ txcount \in Nat /\ pushq \in Seq(Waiting(txcount))
        /\ streams \in Seq(Follower) /\ Null(o) \in Message(txcount)
    BY MessageMade DEF TypeOK, LeaderOK, ChangesOK
  <1> QED BY <1>1, <1>2, EnqueuedAll

\* A request that the relay has read is checked like one of the leader.
LEMMA RequestPushes ==
    ASSUME TypeOK, NEW f \in Follower, RelayRequest(f)
    PROVE  Head(up[f]) \in Op /\ Enqueued(ToSet(streams), Null(Head(up[f])))
  <1>1. Head(up[f]) \in Op
    BY DEF RelayRequest, TypeOK, ConnectionsOK
  <1>2. pushq' = Broadcast(pushq, streams, Null(Head(up[f])))
    BY DEF RelayRequest
  <1>3. /\ txcount \in Nat /\ pushq \in Seq(Waiting(txcount))
        /\ streams \in Seq(Follower) /\ Null(Head(up[f])) \in Message(txcount)
    BY <1>1, MessageMade DEF TypeOK, LeaderOK, ChangesOK
  <1> QED BY <1>1, <1>2, <1>3, EnqueuedAll

\* A change is counted and pushed, or refused and answered.
LEMMA CommitPushes ==
    ASSUME TypeOK, NEW o \in Op, Commit(o)
    PROVE  \/ /\ opc' = [opc EXCEPT ![o] = "push"] /\ inflight' = Append(inflight, o)
              /\ pushq' = Broadcast(pushq, streams, Tx(o, txcount + 1))
              /\ Enqueued(ToSet(streams), Tx(o, txcount + 1))
              /\ MarkRaced
           \/ /\ opc' = [opc EXCEPT ![o] = "refused"]
              /\ UNCHANGED <<inflight, raced, pushq>>
           \/ /\ opc' = [opc EXCEPT ![o] = "refused"]
              /\ UNCHANGED <<inflight, raced>>
              /\ origin[o] \in Follower /\ Enqueued({origin[o]}, Ret(o, FALSE))
  <1>0. /\ txcount \in Nat /\ pushq \in Seq(Waiting(txcount))
        /\ streams \in Seq(Follower) /\ Ret(o, FALSE) \in Message(txcount)
        /\ origin[o] # Leader => origin[o] \in Follower
    BY MessageMade DEF TypeOK, LeaderOK, ChangesOK
  <1>1. CASE HasQuorum(ToSet(streams))
    <2>1. /\ pushq' = Broadcast(pushq, streams, Tx(o, txcount + 1))
          /\ inflight' = Append(inflight, o)
          /\ opc' = [opc EXCEPT ![o] = "push"] /\ MarkRaced
      BY <1>1 DEF Commit
    <2>2. txcount + 1 \in Nat
      BY <1>0
    <2>3. pushq \in Seq(Waiting(txcount + 1))
      BY <1>0, MessageGrows
    <2>4. Tx(o, txcount + 1) \in Message(txcount + 1)
      BY <2>2, MessageMade
    <2>5. Enqueued(ToSet(streams), Tx(o, txcount + 1))
      BY <1>0, <2>1, <2>2, <2>3, <2>4, EnqueuedAll
    <2> QED BY <2>1, <2>5
  <1>2. CASE ~HasQuorum(ToSet(streams))
    <2>1. /\ \/ UNCHANGED pushq
             \/ origin[o] # Leader /\ pushq' = Reply(pushq, origin[o], Ret(o, FALSE))
          /\ opc' = [opc EXCEPT ![o] = "refused"]
          /\ UNCHANGED <<inflight, raced>>
      BY <1>2 DEF Commit
    <2> QED BY <1>0, <2>1, EnqueuedOne
  <1> QED BY <1>1, <1>2

\* A change that is applied is answered, if a follower asked for it.
LEMMA ApplyPushes ==
    ASSUME TypeOK, Apply
    PROVE  /\ Head(inflight) \in Op
           /\ \/ origin[Head(inflight)] = Leader /\ UNCHANGED pushq
              \/ /\ origin[Head(inflight)] \in Follower
                 /\ Enqueued({origin[Head(inflight)]}, Ret(Head(inflight), TRUE))
  <1> DEFINE p == Head(inflight)
  <1>1. p \in Op /\ origin[p] \in Follower \cup {Leader}
    BY DEF Apply, TypeOK, ChangesOK
  <1>2. pushq' = IF origin[p] = Leader THEN pushq
                 ELSE Reply(pushq, origin[p], Ret(p, TRUE))
    BY DEF Apply
  <1> HIDE DEF p
  <1>3. /\ txcount \in Nat /\ pushq \in Seq(Waiting(txcount))
        /\ Ret(p, TRUE) \in Message(txcount)
    BY <1>1, MessageMade DEF TypeOK, LeaderOK, ChangesOK
  <1>4. CASE origin[p] = Leader
    BY <1>1, <1>2, <1>4 DEF p
  <1>5. CASE origin[p] # Leader
    <2>1. Enqueued({origin[p]}, Ret(p, TRUE))
      BY <1>1, <1>2, <1>3, <1>5, EnqueuedOne
    <2> QED BY <1>1, <1>5, <2>1 DEF p
  <1> QED BY <1>4, <1>5

\* A follower that is registered is announced to all, itself included.
LEMMA RegisterPushes ==
    ASSUME TypeOK, TypeOK', NEW f \in Follower, JoinRegister(f)
    PROVE  /\ ToSet(streams') = ToSet(streams) \cup {f}
           /\ Enqueued(ToSet(streams'), Quorum(hasquorum', f))
  <1>1. /\ f \notin ToSet(streams) /\ streams' = Append(streams, f)
        /\ pushq' = Broadcast(pushq, streams', Quorum(hasquorum', f))
    BY DEF JoinRegister, TypeOK, LeaderOK
  <1>2. ToSet(streams') = ToSet(streams) \cup {f}
    BY <1>1, AddEnd DEF TypeOK, LeaderOK
  <1>3. /\ txcount \in Nat /\ pushq \in Seq(Waiting(txcount))
        /\ streams' \in Seq(Follower) /\ Quorum(hasquorum', f) \in Message(txcount)
    BY MessageMade DEF TypeOK, LeaderOK, ChangesOK
  <1> QED BY <1>1, <1>2, <1>3, EnqueuedAll

\* An announcement goes to every stream or is not needed.
LEMMA AnnouncePushes ==
    ASSUME TypeOK, TypeOK', NEW f \in Follower, Reannounce(f)
    PROVE  UNCHANGED pushq \/ Enqueued(ToSet(streams), Quorum(hasquorum', f))
  <1>1. UNCHANGED pushq \/ pushq' = Broadcast(pushq, streams, Quorum(hasquorum', f))
    BY DEF Reannounce
  <1>2. /\ txcount \in Nat /\ pushq \in Seq(Waiting(txcount))
        /\ streams \in Seq(Follower) /\ Quorum(hasquorum', f) \in Message(txcount)
    BY MessageMade DEF TypeOK, LeaderOK, ChangesOK
  <1> QED BY <1>1, <1>2, EnqueuedAll

\* The end of a relay closes what waits for its stream, and adds to the rest.
LEMMA Closes ==
    ASSUME TypeOK, TypeOK', NEW f \in Follower, RelayEnd(f)
    PROVE  /\ ToSet(streams') = ToSet(streams) \ {f}
           /\ \A i \in DOMAIN pushq :
                /\ i \in DOMAIN pushq'
                /\ pushq'[i].to = pushq[i].to /\ pushq'[i].msg = pushq[i].msg
                /\ pushq'[i].open = (pushq[i].open /\ pushq[i].to # f)
           /\ \A i \in DOMAIN pushq' \ DOMAIN pushq :
                /\ i > Len(pushq) /\ pushq'[i].to \in ToSet(streams')
                /\ pushq'[i].open /\ pushq'[i].msg = Quorum(hasquorum', f)
  <1> DEFINE q == Closed(pushq, f)
             m == Quorum(hasquorum', f)
  <1>1. /\ streams' = RemoveFirst(streams, f) /\ pushq' = Broadcast(q, streams', m)
    BY DEF RelayEnd
  <1>2. ToSet(streams') = ToSet(streams) \ {f}
    BY <1>1, Unregistered DEF TypeOK, LeaderOK
  <1>3. /\ txcount \in Nat /\ streams' \in Seq(Follower)
        /\ m \in Message(txcount)
    BY MessageMade DEF TypeOK, LeaderOK
  <1>4. /\ q \in Seq(Waiting(txcount)) /\ Len(q) = Len(pushq)
        /\ \A i \in 1 .. Len(pushq) :
             /\ q[i].to = pushq[i].to /\ q[i].msg = pushq[i].msg
             /\ q[i].open = (pushq[i].open /\ pushq[i].to # f)
    BY <1>3, ClosedMade DEF TypeOK, ChangesOK
  <1>5. DOMAIN pushq = 1 .. Len(pushq) /\ Len(pushq) \in Nat
        /\ DOMAIN streams' = 1 .. Len(streams') /\ Len(streams') \in Nat
    BY <1>3 DEF TypeOK, ChangesOK
  <1> HIDE DEF q, m
  <1>6. /\ DOMAIN pushq' = 1 .. Len(pushq) + Len(streams')
        /\ \A i \in 1 .. Len(pushq) : pushq'[i] = q[i]
        /\ \A k \in 1 .. Len(streams') :
             pushq'[Len(pushq) + k] = [to |-> streams'[k], open |-> TRUE, msg |-> m]
    <2>1. q \in Seq(Waiting(txcount))
      BY <1>4
    <2>2. \A s \in Seq(Follower) :
            /\ Broadcast(q, s, m) \in Seq(Waiting(txcount))
            /\ Len(Broadcast(q, s, m)) = Len(q) + Len(s)
            /\ \A i \in 1 .. Len(q) : Broadcast(q, s, m)[i] = q[i]
            /\ \A k \in 1 .. Len(s) : Broadcast(q, s, m)[Len(q) + k] =
                 [to |-> s[k], open |-> TRUE, msg |-> m]
      <3>1. txcount \in Nat /\ m \in Message(txcount)
        BY <1>3
      <3> QED BY ONLY <2>1, <3>1, BroadcastMade
    <2>3. Len(q) = Len(pushq) /\ pushq' = Broadcast(q, streams', m)
      BY <1>1, <1>4
    <2>4. /\ pushq' \in Seq(Waiting(txcount))
          /\ Len(pushq') = Len(pushq) + Len(streams')
          /\ \A i \in 1 .. Len(pushq) : pushq'[i] = q[i]
          /\ \A k \in 1 .. Len(streams') :
               pushq'[Len(pushq) + k] = [to |-> streams'[k], open |-> TRUE, msg |-> m]
      BY <1>3, <2>2, <2>3
    <2>5. DOMAIN pushq' = 1 .. Len(pushq) + Len(streams')
      BY ONLY <2>4
    <2> QED BY <2>4, <2>5
  <1>7. \A i \in DOMAIN pushq' \ DOMAIN pushq :
          /\ i > Len(pushq) /\ i - Len(pushq) \in 1 .. Len(streams')
          /\ i = Len(pushq) + (i - Len(pushq))
    BY <1>5, <1>6
  <1>8. \A i \in DOMAIN pushq' \ DOMAIN pushq :
          /\ pushq'[i] = [to |-> streams'[i - Len(pushq)], open |-> TRUE, msg |-> m]
          /\ streams'[i - Len(pushq)] \in ToSet(streams')
    BY <1>5, <1>6, <1>7 DEF ToSet
  <1>9. \A i \in DOMAIN pushq' \ DOMAIN pushq :
                /\ i > Len(pushq) /\ pushq'[i].to \in ToSet(streams')
                /\ pushq'[i].open /\ pushq'[i].msg = m
    <2> SUFFICES ASSUME NEW i \in DOMAIN pushq' \ DOMAIN pushq
                 PROVE  /\ i > Len(pushq) /\ pushq'[i].to \in ToSet(streams')
                        /\ pushq'[i].open /\ pushq'[i].msg = m
      OBVIOUS
    <2>1. pushq'[i] = [to |-> streams'[i - Len(pushq)], open |-> TRUE, msg |-> m]
      BY <1>8
    <2> QED BY <1>7, <1>8, <2>1
  <1>10. \A i \in DOMAIN pushq :
                /\ i \in DOMAIN pushq'
                /\ pushq'[i].to = pushq[i].to /\ pushq'[i].msg = pushq[i].msg
                /\ pushq'[i].open = (pushq[i].open /\ pushq[i].to # f)
    BY <1>4, <1>5, <1>6
  <1> QED BY <1>2, <1>9, <1>10 DEF m

\* The first push reaches the connection, or nothing.
LEMMA PushMoves ==
    ASSUME TypeOK, NoFarewell, Push
    PROVE  /\ UNCHANGED streams
           /\ 1 \in DOMAIN pushq
           /\ \A i \in DOMAIN pushq' :
                i + 1 \in DOMAIN pushq /\ pushq'[i] = pushq[i + 1]
           /\ \A i \in DOMAIN pushq : i # 1 =>
                i - 1 \in DOMAIN pushq' /\ pushq'[i - 1] = pushq[i]
           /\ \A f \in Follower :
                \/ /\ ~(pushq[1].to = f /\ Writes(pushq[1]))
                   /\ chan'[f] = chan[f]
                \/ /\ pushq[1].to = f /\ Writes(pushq[1])
                   /\ chan'[f] = Append(chan[f], pushq[1].msg)
  <1>1. /\ DOMAIN pushq = 1 .. Len(pushq) /\ Len(pushq) \in Nat
        /\ pushq # <<>> /\ Head(pushq) = pushq[1] /\ 1 \in DOMAIN pushq
    BY DEF TypeOK, ChangesOK, Push
  <1>2. /\ DOMAIN pushq' = 1 .. Len(pushq) - 1
        /\ \A i \in 1 .. Len(pushq) - 1 : pushq'[i] = pushq[i + 1]
    BY <1>1 DEF TypeOK, ChangesOK, Push
  <1>3. /\ \A i \in DOMAIN pushq' :
             i + 1 \in DOMAIN pushq /\ pushq'[i] = pushq[i + 1]
        /\ \A i \in DOMAIN pushq : i # 1 =>
             i - 1 \in DOMAIN pushq' /\ pushq'[i - 1] = pushq[i]
    BY <1>1, <1>2
  <1>4. UNCHANGED streams
    BY <1>1 DEF Push, NoFarewell
  <1>5. chan' = IF Writes(pushq[1])
                THEN [chan EXCEPT ![pushq[1].to] = Append(@, pushq[1].msg)] ELSE chan
    BY <1>1 DEF Push
  <1>6. chan = [f \in Follower |-> chan[f]]
    BY DEF TypeOK, ConnectionsOK
  <1>7. ASSUME NEW f \in Follower
        PROVE  \/ /\ ~(pushq[1].to = f /\ Writes(pushq[1]))
                  /\ chan'[f] = chan[f]
               \/ /\ pushq[1].to = f /\ Writes(pushq[1])
                  /\ chan'[f] = Append(chan[f], pushq[1].msg)
    BY <1>5, <1>6
  <1> QED BY <1>1, <1>3, <1>4, <1>7

\* What reading a message does while nobody hears of a new leader.
LEMMA Receives ==
    ASSUME TypeOK, NoFarewell, NEW f \in Follower, Receive(f)
    PROVE  /\ UNCHANGED <<leadervars, opvars, joinvars, up, broken>>
           /\ chan[f] # <<>> /\ chan' = [chan EXCEPT ![f] = Tail(@)]
           /\ fdb' = IF chan[f][1].kind = "db" THEN [fdb EXCEPT ![f] = chan[f][1].db]
                     ELSE IF chan[f][1].kind = "tx"
                          THEN [fdb EXCEPT ![f] = Append(@, chan[f][1].op)] ELSE fdb
           /\ answered' = IF chan[f][1].kind = "ret" /\ chan[f][1].ok
                          THEN answered \cup {chan[f][1].op} ELSE answered
  <1>1. chan[f] # <<>> /\ Head(chan[f]) = chan[f][1] /\ 1 \in DOMAIN chan[f]
    BY DEF TypeOK, ConnectionsOK, Receive
  <1>2. Head(chan[f]).kind # "newleader"
    BY <1>1 DEF NoFarewell
  <1>3. broken' = broken
    <2>1. broken' = [broken EXCEPT ![f] = @ \/ FALSE]
      BY <1>2 DEF Receive
    <2>2. broken \in [Follower -> BOOLEAN]
      BY DEF TypeOK, ConnectionsOK
    <2> QED BY <2>1, <2>2
  <1>4. UNCHANGED <<leadervars, opvars, joinvars, up>>
    BY <1>2 DEF Receive, leadervars, opvars, joinvars
  <1>5. chan' = [chan EXCEPT ![f] = Tail(@)]
    BY <1>2 DEF Receive
  <1>6. /\ fdb' = IF chan[f][1].kind = "db" THEN [fdb EXCEPT ![f] = chan[f][1].db]
                  ELSE IF chan[f][1].kind = "tx"
                       THEN [fdb EXCEPT ![f] = Append(@, chan[f][1].op)] ELSE fdb
        /\ answered' = IF chan[f][1].kind = "ret" /\ chan[f][1].ok
                       THEN answered \cup {chan[f][1].op} ELSE answered
    BY <1>1 DEF Receive
  <1> QED BY <1>1, <1>3, <1>4, <1>5, <1>6

\* The messages that are left when one is read.
LEMMA Rest ==
    ASSUME TypeOK, NEW f \in Follower, chan[f] # <<>>
    PROVE  /\ 1 \in DOMAIN chan[f] /\ DOMAIN chan[f] = 1 .. Len(chan[f])
           /\ Len(chan[f]) \in Nat
           /\ \A j \in DOMAIN Tail(chan[f]) :
                j + 1 \in DOMAIN chan[f] /\ Tail(chan[f])[j] = chan[f][j + 1]
           /\ \A j \in DOMAIN chan[f] : j # 1 =>
                j - 1 \in DOMAIN Tail(chan[f]) /\ Tail(chan[f])[j - 1] = chan[f][j]
  <1>1. chan[f] \in Seq(Message(txcount))
    BY DEF TypeOK, ConnectionsOK
  <1>2. /\ DOMAIN chan[f] = 1 .. Len(chan[f]) /\ Len(chan[f]) \in Nat
        /\ Len(chan[f]) # 0
    BY <1>1
  <1>3. /\ DOMAIN Tail(chan[f]) = 1 .. Len(chan[f]) - 1
        /\ \A i \in 1 .. Len(chan[f]) - 1 : Tail(chan[f])[i] = chan[f][i + 1]
    BY <1>1, <1>2
  <1> QED BY <1>2, <1>3

\* What the types say of the variables that most steps read.
Typed ==
    /\ DOMAIN pushq = 1 .. Len(pushq) /\ Len(pushq) \in Nat
    /\ \A i \in DOMAIN pushq :
         /\ pushq[i].to \in Follower /\ pushq[i].open \in BOOLEAN
         /\ pushq[i].msg \in Message(txcount)
    /\ \A f \in Follower :
         /\ DOMAIN chan[f] = 1 .. Len(chan[f]) /\ Len(chan[f]) \in Nat
         /\ \A j \in DOMAIN chan[f] : chan[f][j] \in Message(txcount)
    /\ chan = [f \in Follower |-> chan[f]]
    /\ joinpc = [f \in Follower |-> joinpc[f]]
    /\ relay \in [Follower -> {"none", "live", "broken", "ending"}]
    /\ broken \in [Follower -> BOOLEAN]
    /\ \A f \in ToSet(streams) : f \in Follower /\ relay[f] \in {"live", "broken"}

\* The facts of Typed are conjuncts of the type invariant.
LEMMA Types == TypeOK => Typed
  <1> SUFFICES ASSUME TypeOK PROVE Typed
    OBVIOUS
  <1>1. /\ DOMAIN pushq = 1 .. Len(pushq) /\ Len(pushq) \in Nat
        /\ \A i \in DOMAIN pushq : pushq[i] \in Waiting(txcount)
    BY DEF TypeOK, ChangesOK
  <1>2. \A i \in DOMAIN pushq :
                /\ pushq[i].to \in Follower /\ pushq[i].open \in BOOLEAN
                /\ pushq[i].msg \in Message(txcount)
    BY <1>1 DEF Waiting
  <1>3. \A f \in Follower :
                /\ DOMAIN chan[f] = 1 .. Len(chan[f]) /\ Len(chan[f]) \in Nat
                /\ \A j \in DOMAIN chan[f] : chan[f][j] \in Message(txcount)
    BY DEF TypeOK, ConnectionsOK
  <1>4. /\ chan = [f \in Follower |-> chan[f]]
        /\ broken \in [Follower -> BOOLEAN]
    BY DEF TypeOK, ConnectionsOK
  <1>5. joinpc = [f \in Follower |-> joinpc[f]]
    BY DEF TypeOK, JoinsOK
  <1>6. /\ relay \in [Follower -> {"none", "live", "broken", "ending"}]
        /\ \A f \in ToSet(streams) : f \in Follower /\ relay[f] \in {"live", "broken"}
    BY DEF TypeOK, LeaderOK, ToSet
  <1> QED BY <1>1, <1>2, <1>3, <1>4, <1>5, <1>6 DEF Typed

\* The steps that add to the pushes; the steps the leader and its followers can
\* take before the leader retires.
Pushing ==
    \/ \E o \in Op : Submit(o) \/ Commit(o)
    \/ \E f \in Follower : \/ RelayRequest(f) \/ JoinRegister(f)
                           \/ Reannounce(f) \/ RelayEnd(f)
    \/ Apply
Step ==
    \/ Pushing \/ Push
    \/ \E f \in Follower :
          \/ JoinSend(f) \/ Receive(f) \/ StopFollowing(f) \/ Break(f)
          \/ RelayExit(f) \/ \E n \in 0 .. Len(ldb) : JoinDump(f, n)
          \/ \E o \in Op : Request(f, o)
    \/ UNCHANGED vars

\* A leader that has retired does not return within the tenure.
LEMMA Serving == [Next]_vars /\ ~retired' => ~retired
  <1>1. Progress => UNCHANGED retired
    <2>1. Push \/ Apply \/ TellNewLeader => UNCHANGED retired
      BY DEF Push, Apply, TellNewLeader
    <2>2. \A o \in Op : Commit(o) => UNCHANGED retired
      BY DEF Commit
    <2>3. ASSUME NEW f \in Follower,
                 RelayRequest(f) \/ JoinSend(f) \/ JoinRegister(f) \/ Reannounce(f)
          PROVE  UNCHANGED retired
      BY <2>3 DEF RelayRequest, JoinSend, JoinRegister, Reannounce, leadervars
    <2>4. ASSUME NEW f \in Follower,
                 Receive(f) \/ StopFollowing(f) \/ RelayEnd(f) \/ RelayExit(f)
          PROVE  UNCHANGED retired
      BY <2>4 DEF Receive, StopFollowing, RelayEnd, RelayExit, leadervars
    <2> QED BY <2>1, <2>2, <2>3, <2>4 DEF Progress
  <1>2. ASSUME NEW o \in Op, Submit(o) \/ \E f \in Follower : Request(f, o)
        PROVE  UNCHANGED retired
    BY <1>2 DEF Submit, Request, leadervars
  <1>3. ASSUME NEW f \in Follower, Break(f) \/ \E n \in 0 .. Len(ldb) : JoinDump(f, n)
        PROVE  UNCHANGED retired
    BY <1>3 DEF Break, JoinDump, leadervars
  <1>4. \A b \in BOOLEAN : StopLeading(b) => retired'
    BY DEF StopLeading
  <1>5. UNCHANGED vars => UNCHANGED retired
    BY DEF vars, leadervars
  <1> QED BY <1>1, <1>2, <1>3, <1>4, <1>5 DEF Next

\* Before the leader retires nobody is told of a new one.
LEMMA Steps == NoFarewell /\ ~retired' /\ [Next]_vars => Step
  <1>1. \A b \in BOOLEAN : ~retired' => ~StopLeading(b)
    BY DEF StopLeading
  <1>2. NoFarewell => ~TellNewLeader
    BY DEF TellNewLeader, NoFarewell
  <1> QED BY <1>1, <1>2 DEF Next, Progress, Step, Pushing

\* What Apply applies is a change whose pushes are under way.
LEMMA HeadPushed ==
    ASSUME TypeOK, Tenure, Apply
    PROVE  Head(inflight) \in Op /\ opc[Head(inflight)] = "push"
  <1>1. /\ inflight # <<>> /\ inflight \in Seq(Op)
    BY DEF Apply, TypeOK, ChangesOK
  <1>2. Head(inflight) \in Op /\ Head(inflight) \in ToSet(inflight)
    BY <1>1 DEF ToSet
  <1> QED BY <1>2 DEF Tenure, Once

\* What is added to the pushes is for followers that are registered.
Growth ==
    /\ UNCHANGED <<chan, leaving>>
    /\ \A i \in DOMAIN pushq :
          /\ i \in DOMAIN pushq'
          /\ pushq'[i].to = pushq[i].to /\ pushq'[i].msg = pushq[i].msg
          /\ pushq'[i].open => pushq[i].open /\ relay'[pushq[i].to] \in {"live", "broken"}
    /\ \A i \in DOMAIN pushq' \ DOMAIN pushq :
          /\ i > Len(pushq) /\ relay'[pushq'[i].to] \in {"live", "broken"}
          /\ pushq'[i].msg.kind \in {"null", "tx", "ret", "quorum"}

\* The actions that push leave the pushes that wait, and what is on its way.
LEMMA PushesGrow ==
    ASSUME TypeOK, TypeOK', Tenure, Pushing
    PROVE  Growth
  <1>0. Typed /\ Registered
    BY Types DEF Tenure
  <1>1. ASSUME NEW o \in Op, Submit(o) PROVE Growth
    <2>1. UNCHANGED <<chan, leaving, relay>>
      BY <1>1 DEF Submit, leadervars, opvars, joinvars, followervars, netvars
    <2>3. UNCHANGED pushq \/ Enqueued(ToSet(streams), Null(o))
      BY <1>1, SubmitPushes
    <2> QED BY <1>0, <2>1, <2>3 DEF Typed, Registered, Growth, Enqueued, Null
  <1>2. ASSUME NEW f \in Follower, RelayRequest(f) PROVE Growth
    <2>1. UNCHANGED <<chan, leaving, relay>>
      BY <1>2 DEF RelayRequest, leadervars, opvars, joinvars, followervars, netvars
    <2>3. Enqueued(ToSet(streams), Null(Head(up[f])))
      BY <1>2, RequestPushes
    <2> QED BY <1>0, <2>1, <2>3 DEF Typed, Registered, Growth, Enqueued, Null
  <1>3. ASSUME NEW o \in Op, Commit(o) PROVE Growth
    <2>1. UNCHANGED <<chan, leaving, relay>>
      BY <1>3 DEF Commit, leadervars, opvars, joinvars, followervars, netvars
    <2>2. origin[o] \in Follower => relay[origin[o]] \in {"live", "broken"}
      BY <1>3, RolesAssumption DEF Commit, Tenure, Busyness
    <2>3. \/ UNCHANGED pushq
          \/ Enqueued(ToSet(streams), Tx(o, txcount + 1))
          \/ origin[o] \in Follower /\ Enqueued({origin[o]}, Ret(o, FALSE))
      BY <1>3, CommitPushes
    <2> QED BY <1>0, <2>1, <2>2, <2>3 DEF Typed, Registered, Growth, Enqueued, Tx, Ret
  <1>4. CASE Apply
    <2>1. UNCHANGED <<chan, leaving, relay>>
      BY <1>4 DEF Apply, leadervars, opvars, joinvars, followervars, netvars
    <2>2. origin[Head(inflight)] \in Follower => relay[origin[Head(inflight)]] \in {"live", "broken"}
      BY <1>4, HeadPushed, RolesAssumption DEF Tenure, Busyness
    <2>3. \/ UNCHANGED pushq
          \/ /\ origin[Head(inflight)] \in Follower
             /\ Enqueued({origin[Head(inflight)]}, Ret(Head(inflight), TRUE))
      BY <1>4, ApplyPushes
    <2> QED BY <1>0, <2>1, <2>2, <2>3 DEF Typed, Registered, Growth, Enqueued, Ret
  <1>5. ASSUME NEW f \in Follower, JoinRegister(f) PROVE Growth
    <2>1. UNCHANGED <<chan, leaving>>
      BY <1>5 DEF JoinRegister, leadervars, opvars, joinvars, followervars, netvars
    <2>2. relay' = [relay EXCEPT ![f] = IF broken[f] THEN "broken" ELSE "live"]
      BY <1>5 DEF JoinRegister
    <2>3. /\ ToSet(streams') = ToSet(streams) \cup {f}
          /\ Enqueued(ToSet(streams'), Quorum(hasquorum', f))
      BY <1>5, RegisterPushes
    <2> QED BY <1>0, <2>1, <2>2, <2>3 DEF Typed, Registered, Growth, Enqueued, Quorum
  <1>6. ASSUME NEW f \in Follower, Reannounce(f) PROVE Growth
    <2>1. UNCHANGED <<chan, leaving, relay>>
      BY <1>6 DEF Reannounce, leadervars, opvars, joinvars, followervars, netvars
    <2>3. UNCHANGED pushq \/ Enqueued(ToSet(streams), Quorum(hasquorum', f))
      BY <1>6, AnnouncePushes
    <2> QED BY <1>0, <2>1, <2>3 DEF Typed, Registered, Growth, Enqueued, Quorum
  <1>7. ASSUME NEW f \in Follower, RelayEnd(f) PROVE Growth
    <2>1. UNCHANGED <<chan, leaving>>
      BY <1>7 DEF RelayEnd, leadervars, opvars, joinvars, followervars, netvars
    <2>2. \E r \in {"none", "ending"} : relay' = [relay EXCEPT ![f] = r]
      BY <1>7 DEF RelayEnd
    <2>3. /\ ToSet(streams') = ToSet(streams) \ {f}
          /\ \A i \in DOMAIN pushq :
                /\ i \in DOMAIN pushq'
                /\ pushq'[i].to = pushq[i].to /\ pushq'[i].msg = pushq[i].msg
                /\ pushq'[i].open = (pushq[i].open /\ pushq[i].to # f)
          /\ \A i \in DOMAIN pushq' \ DOMAIN pushq :
                /\ i > Len(pushq) /\ pushq'[i].to \in ToSet(streams')
                /\ pushq'[i].open /\ pushq'[i].msg = Quorum(hasquorum', f)
      BY <1>7, Closes
    <2>4. \A g \in Follower : g # f => relay'[g] = relay[g]
      BY <1>0, <2>2 DEF Typed
    <2>5. \A i \in DOMAIN pushq :
            pushq'[i].open => pushq[i].open /\ relay'[pushq[i].to] \in {"live", "broken"}
      <3> SUFFICES ASSUME NEW i \in DOMAIN pushq, pushq'[i].open
                   PROVE  pushq[i].open /\ relay'[pushq[i].to] \in {"live", "broken"}
        OBVIOUS
      <3>1. pushq[i].open /\ pushq[i].to # f /\ pushq[i].to \in Follower
        BY <1>0, <2>3 DEF Typed
      <3> QED BY <1>0, <2>4, <3>1 DEF Registered
    <2>6. \A g \in ToSet(streams') : relay'[g] \in {"live", "broken"}
      BY <1>0, <2>3, <2>4 DEF Typed
    <2>7. \A i \in DOMAIN pushq' \ DOMAIN pushq :
            /\ i > Len(pushq) /\ relay'[pushq'[i].to] \in {"live", "broken"}
            /\ pushq'[i].msg.kind = "quorum"
      BY <2>3, <2>6 DEF Quorum
    <2> QED BY <2>1, <2>3, <2>5, <2>7 DEF Growth
  <1> QED BY <1>1, <1>2, <1>3, <1>4, <1>5, <1>6, <1>7 DEF Pushing
-----------------------------------------------------------------------------
(* The log.                                                                *)

LEMMA LogMember ==
    ASSUME NEW s \in Seq(Op), NEW t \in Seq(Op)
    PROVE  /\ s \o t \in Seq(Op) /\ Len(s \o t) = Len(s) + Len(t)
           /\ ToSet(s \o t) = ToSet(s) \cup ToSet(t)
  <1>1. /\ DOMAIN s = 1 .. Len(s) /\ Len(s) \in Nat
        /\ DOMAIN t = 1 .. Len(t) /\ Len(t) \in Nat
    OBVIOUS
  <1>2. /\ s \o t \in Seq(Op) /\ DOMAIN (s \o t) = 1 .. Len(s) + Len(t)
        /\ Len(s \o t) = Len(s) + Len(t)
        /\ \A i \in 1 .. Len(s) + Len(t) :
             (s \o t)[i] = IF i <= Len(s) THEN s[i] ELSE t[i - Len(s)]
    BY ConcatProperties, <1>1
  <1>3. \A i \in DOMAIN s : i \in DOMAIN (s \o t) /\ (s \o t)[i] = s[i]
    BY <1>1, <1>2
  <1>4. \A i \in DOMAIN t :
          i + Len(s) \in DOMAIN (s \o t) /\ (s \o t)[i + Len(s)] = t[i]
    BY <1>1, <1>2
  <1>5. \A i \in DOMAIN (s \o t) :
          \/ i \in DOMAIN s /\ (s \o t)[i] = s[i]
          \/ i - Len(s) \in DOMAIN t /\ (s \o t)[i] = t[i - Len(s)]
    BY <1>1, <1>2
  <1> DEFINE u == s \o t
  <1> HIDE DEF u
  <1>6. /\ \A x : x \in ToSet(u) <=> \E i \in DOMAIN u : x = u[i]
        /\ \A x : x \in ToSet(s) <=> \E i \in DOMAIN s : x = s[i]
        /\ \A x : x \in ToSet(t) <=> \E i \in DOMAIN t : x = t[i]
    BY DEF ToSet
  <1>7. \A x : x \in ToSet(u) <=> x \in ToSet(s) \/ x \in ToSet(t)
    <2>1. \A x : x \in ToSet(u) => x \in ToSet(s) \/ x \in ToSet(t)
      <3> SUFFICES ASSUME NEW i \in DOMAIN u PROVE u[i] \in ToSet(s) \/ u[i] \in ToSet(t)
        BY <1>6
      <3>1. \/ i \in DOMAIN s /\ u[i] = s[i]
            \/ i - Len(s) \in DOMAIN t /\ u[i] = t[i - Len(s)]
        BY <1>5 DEF u
      <3> QED BY <1>6, <3>1
    <2>2. \A i \in DOMAIN s : s[i] \in ToSet(u)
      BY <1>3, <1>6 DEF u
    <2>3. \A i \in DOMAIN t : t[i] \in ToSet(u)
      <3> SUFFICES ASSUME NEW i \in DOMAIN t PROVE t[i] \in ToSet(u)
        OBVIOUS
      <3>1. i + Len(s) \in DOMAIN u /\ u[i + Len(s)] = t[i]
        BY <1>4 DEF u
      <3> QED BY <1>6, <3>1
    <2> QED BY <1>6, <2>1, <2>2, <2>3
  <1>8. ToSet(u) = ToSet(s) \cup ToSet(t)
    BY <1>7
  <1> QED BY <1>2, <1>8 DEF u

\* An appended change is a member.
LEMMA AppendMember ==
    ASSUME NEW s \in Seq(Op), NEW o \in Op
    PROVE  ToSet(Append(s, o)) = ToSet(s) \cup {o}
  <1>1. \A j \in DOMAIN Append(s, o) :
          Append(s, o)[j] = o \/ (j \in DOMAIN s /\ Append(s, o)[j] = s[j])
    OBVIOUS
  <1>2. \A j \in DOMAIN s : j \in DOMAIN Append(s, o) /\ Append(s, o)[j] = s[j]
    OBVIOUS
  <1>3. Len(s) + 1 \in DOMAIN Append(s, o) /\ Append(s, o)[Len(s) + 1] = o
    OBVIOUS
  <1> QED BY <1>1, <1>2, <1>3 DEF ToSet

\* A change that is counted goes to the end of the log, a change that is applied
\* stays where it is.
LEMMA LogAppend ==
    ASSUME NEW s \in Seq(Op), NEW t \in Seq(Op), NEW o \in Op
    PROVE  s \o Append(t, o) = Append(s \o t, o)
  <1>1. s \o t \in Seq(Op) /\ <<o>> \in Seq(Op)
    BY ConcatProperties
  <1>2. Append(t, o) = t \o <<o>> /\ Append(s \o t, o) = (s \o t) \o <<o>>
    BY <1>1, AppendIsConcat
  <1>3. s \o (t \o <<o>>) = (s \o t) \o <<o>>
    BY <1>1, ConcatAssociative
  <1> QED BY <1>2, <1>3

\* Applying the oldest change in flight does not change the log.
LEMMA LogMoves ==
    ASSUME NEW s \in Seq(Op), NEW t \in Seq(Op), t # <<>>
    PROVE  Append(s, Head(t)) \o Tail(t) = s \o t
  <1>1. /\ Head(t) \in Op /\ Tail(t) \in Seq(Op) /\ <<Head(t)>> \in Seq(Op)
        /\ t = <<Head(t)>> \o Tail(t)
    BY HeadTailProperties
  <1>2. Append(s, Head(t)) = s \o <<Head(t)>>
    BY <1>1, AppendIsConcat
  <1>3. s \o (<<Head(t)>> \o Tail(t)) = (s \o <<Head(t)>>) \o Tail(t)
    BY <1>1, ConcatAssociative
  <1> QED BY <1>1, <1>2, <1>3

\* Every change has one place in the log.
LEMMA Places ==
    ASSUME NEW s \in Seq(Op), IsInjective(s)
    PROVE  /\ \A i \in 1 .. Len(s) : PosOf(s, s[i]) = i
           /\ \A o \in ToSet(s) :
                PosOf(s, o) \in 1 .. Len(s) /\ s[PosOf(s, o)] = o
  <1>1. DOMAIN s = 1 .. Len(s)
    OBVIOUS
  <1>2. ASSUME NEW o \in ToSet(s)
        PROVE  PosOf(s, o) \in 1 .. Len(s) /\ s[PosOf(s, o)] = o
    <2>1. \E i \in DOMAIN s : s[i] = o
      BY <1>2 DEF ToSet
    <2>2. PosOf(s, o) \in DOMAIN s /\ s[PosOf(s, o)] = o
      BY <2>1 DEF PosOf
    <2> QED BY <1>1, <2>2
  <1>3. ASSUME NEW i \in 1 .. Len(s) PROVE PosOf(s, s[i]) = i
    <2>1. s[i] \in ToSet(s)
      BY <1>1 DEF ToSet
    <2>2. PosOf(s, s[i]) \in 1 .. Len(s) /\ s[PosOf(s, s[i])] = s[i]
      BY <1>2, <2>1
    <2> QED BY <1>1, <2>2 DEF IsInjective
  <1> QED BY <1>2, <1>3

\* The log grows at its end, if at all, and then the joins are marked.
Grows ==
    \/ UNCHANGED Decided
    \/ \E o \in Op : /\ Decided' = Append(Decided, o) /\ o \notin ToSet(Decided)
                     /\ MarkRaced

\* A step that leaves the log alone and settles no change.
Unsettling ==
    /\ UNCHANGED <<ldb, inflight>>
    /\ \A o \in Op : /\ opc'[o] \in {"push", "done"} <=> opc[o] \in {"push", "done"}
                     /\ opc'[o] = "push" <=> opc[o] = "push"

\* Most steps settle nothing.
LEMMA OnceUnsettled == Once /\ Unsettling => Once' /\ Grows
  <1> SUFFICES ASSUME Once, Unsettling PROVE Once' /\ Grows
    OBVIOUS
  <1>1. UNCHANGED <<ldb, inflight, Decided>>
    BY DEF Unsettling, Decided
  <1>2. Grows
    BY <1>1 DEF Grows
  <1> QED BY <1>1, <1>2 DEF Once, Unsettling

\* The requests that are lost with a connection had not been read.
LEMMA Loses ==
    ASSUME Sending, TypeOK, NEW f \in Follower
    PROVE  /\ Unsent(f) = [o \in Op |-> IF o \in ToSet(up[f]) THEN "lost" ELSE opc[o]]
           /\ \A o \in ToSet(up[f]) : opc[o] = "sent" /\ origin[o] = f
  BY DEF Sending, Unsent, ToSet

\* A change is counted once: Commit takes it from the health check to the
\* pushes.
LEMMA OnceKept ==
    ASSUME TypeOK, TypeOK', Tenure, Step
    PROVE  Once' /\ Grows
  <1>0. /\ Once /\ Busyness /\ Sending
        /\ ldb \in Seq(Op) /\ inflight \in Seq(Op) /\ Decided \in Seq(Op)
        /\ ToSet(Decided) = ToSet(ldb) \cup ToSet(inflight)
    <2>1. ldb \in Seq(Op) /\ inflight \in Seq(Op)
      BY DEF TypeOK, LeaderOK, ChangesOK
    <2> QED BY <2>1, LogMember DEF Tenure, Decided
  <1>01. opc \in [Op -> {"idle", "sent", "health", "push", "done", "refused", "lost"}]
    BY DEF TypeOK, ChangesOK
  <1>1. ASSUME NEW o \in Op, Submit(o) PROVE Once' /\ Grows
    <2>1. CASE UNCHANGED ldb
      <3>1. Len(Append(ldb, o)) = Len(ldb) + 1 /\ Len(ldb) \in Nat
        BY <1>0, AppendProperties
      <3>2. ldb' # Append(ldb, o)
        BY <2>1, <3>1
      <3>3. UNCHANGED inflight /\ opc[o] = "idle"
        BY <1>1 DEF Submit
      <3>4. \E s \in {"refused", "health"} : opc' = [opc EXCEPT ![o] = s]
        BY <1>1, <3>2 DEF Submit
      <3>5. Unsettling
        BY <1>01, <2>1, <3>3, <3>4 DEF Unsettling
      <3> QED BY <1>0, <3>5, OnceUnsettled
    <2>2. CASE ~UNCHANGED ldb
      <3>1. /\ ~dead /\ streams = <<>> /\ opc[o] = "idle"
            /\ opc' = [opc EXCEPT ![o] = "done"] /\ ldb' = Append(ldb, o)
            /\ UNCHANGED inflight /\ MarkRaced
        BY <1>1, <2>2 DEF Submit
      <3>2. inflight = <<>>
        <4>1. \A p \in Op : opc[p] # "push"
          BY <1>0, <3>1 DEF Busyness
        <4>2. inflight # <<>> => inflight[1] \in Op /\ inflight[1] \in ToSet(inflight)
          BY <1>0 DEF ToSet
        <4> QED BY <1>0, <4>1, <4>2 DEF Once
      <3>3. Decided = ldb /\ Decided' = ldb'
        BY <1>0, <3>1, <3>2, ConcatEmptySeq, AppendProperties DEF Decided
      <3>4. o \notin ToSet(Decided) /\ o \notin ToSet(inflight)
        BY <1>0, <3>1 DEF Once
      <3>5. IsInjective(Decided') /\ ToSet(Decided') = ToSet(Decided) \cup {o}
        BY <1>0, <3>1, <3>3, <3>4, AddEnd DEF Once
      <3>6. Once'
        BY <1>0, <1>01, <3>1, <3>4, <3>5 DEF Once
      <3> QED BY <3>1, <3>3, <3>4, <3>6 DEF Grows
    <2> QED BY <2>1, <2>2
  <1>2. ASSUME NEW f \in Follower, RelayRequest(f) PROVE Once' /\ Grows
    <2>1. /\ UNCHANGED <<ldb, inflight>> /\ opc' = [opc EXCEPT ![Head(up[f])] = "health"]
          /\ up[f] # <<>>
      BY <1>2 DEF RelayRequest, leadervars
    <2>2. up[f] \in Seq(Op)
      BY DEF TypeOK, ConnectionsOK
    <2>3. opc[Head(up[f])] = "sent"
      BY <1>0, <2>1, <2>2 DEF Sending
    <2>4. Unsettling
      BY <1>01, <2>1, <2>3 DEF Unsettling
    <2> QED BY <1>0, <2>4, OnceUnsettled
  <1>3. ASSUME NEW o \in Op, Commit(o) PROVE Once' /\ Grows
    <2>1. UNCHANGED ldb /\ opc[o] = "health"
      BY <1>3 DEF Commit
    <2>2. CASE UNCHANGED inflight
      <3>1. opc' = [opc EXCEPT ![o] = "refused"] \/ inflight' = Append(inflight, o)
        BY <1>3, CommitPushes
      <3>2. opc' = [opc EXCEPT ![o] = "refused"]
        BY <1>0, <2>2, <3>1, AppendProperties
      <3>3. Unsettling
        BY <1>01, <2>1, <2>2, <3>2 DEF Unsettling
      <3> QED BY <1>0, <3>3, OnceUnsettled
    <2>3. CASE ~UNCHANGED inflight
      <3>1. /\ opc' = [opc EXCEPT ![o] = "push"] /\ inflight' = Append(inflight, o)
            /\ MarkRaced
        BY <1>3, <2>3, CommitPushes
      <3>2. Decided' = Append(Decided, o)
        BY <1>0, <2>1, <3>1, LogAppend DEF Decided
      <3>3. o \notin ToSet(Decided) /\ o \notin ToSet(inflight)
        BY <1>0, <2>1 DEF Once
      <3>4. IsInjective(Decided') /\ ToSet(Decided') = ToSet(Decided) \cup {o}
        BY <1>0, <3>2, <3>3, AddEnd DEF Once
      <3>5. IsInjective(inflight)
        <4>1. /\ \A i \in 1 .. Len(inflight) : Decided[Len(ldb) + i] = inflight[i]
              /\ Len(Decided) = Len(ldb) + Len(inflight)
          BY <1>0, ConcatProperties DEF Decided
        <4>2. \A i, j \in 1 .. Len(Decided) : Decided[i] = Decided[j] => i = j
          BY <1>0 DEF Once, IsInjective
        <4>3. ASSUME NEW i \in 1 .. Len(inflight), NEW j \in 1 .. Len(inflight),
                     inflight[i] = inflight[j]
              PROVE  i = j
          <5>1. /\ Len(ldb) + i \in 1 .. Len(Decided) /\ Len(ldb) + j \in 1 .. Len(Decided)
            BY <1>0, <4>1
          <5>2. Len(ldb) + i = Len(ldb) + j
            BY <4>1, <4>2, <4>3, <5>1
          <5> QED BY <1>0, <5>2
        <4> QED BY <1>0, <4>3 DEF IsInjective
      <3>6. ToSet(inflight') = ToSet(inflight) \cup {o}
        BY <1>0, <3>1, <3>3, <3>5, AddEnd
      <3>7. Once'
        BY <1>0, <1>01, <3>1, <3>4, <3>6 DEF Once
      <3> QED BY <3>1, <3>2, <3>3, <3>7 DEF Grows
    <2> QED BY <2>2, <2>3
  <1>4. CASE Apply
    <2>1. /\ inflight # <<>> /\ ldb' = Append(ldb, Head(inflight))
          /\ inflight' = Tail(inflight) /\ opc' = [opc EXCEPT ![Head(inflight)] = "done"]
      BY <1>4 DEF Apply
    <2>2. Decided' = Decided
      BY <1>0, <2>1, LogMoves DEF Decided
    <2>3. Head(inflight) \in Op /\ opc[Head(inflight)] = "push"
      BY <1>4, HeadPushed
    <2>4. /\ ToSet(inflight) = {Head(inflight)} \cup ToSet(Tail(inflight))
          /\ Head(inflight) \notin ToSet(Tail(inflight))
      <3>1. /\ \A i \in 1 .. Len(inflight) : Decided[Len(ldb) + i] = inflight[i]
            /\ Len(Decided) = Len(ldb) + Len(inflight)
        BY <1>0, ConcatProperties DEF Decided
      <3>2. \A i, j \in 1 .. Len(Decided) : Decided[i] = Decided[j] => i = j
        BY <1>0 DEF Once, IsInjective
      <3>3. /\ DOMAIN inflight = 1 .. Len(inflight) /\ Len(inflight) \in Nat
            /\ Len(inflight) > 0 /\ Head(inflight) = inflight[1] /\ Len(ldb) \in Nat
            /\ DOMAIN Tail(inflight) = 1 .. Len(inflight) - 1
            /\ \A i \in 1 .. Len(inflight) - 1 : Tail(inflight)[i] = inflight[i + 1]
        BY <1>0, <2>1
      <3>4. ASSUME NEW i \in 1 .. Len(inflight) - 1 PROVE inflight[1] # inflight[i + 1]
        <4>1. Len(ldb) + 1 \in 1 .. Len(Decided) /\ Len(ldb) + (i + 1) \in 1 .. Len(Decided)
              /\ i + 1 \in 1 .. Len(inflight) /\ 1 \in 1 .. Len(inflight)
          BY <3>1, <3>3
        <4>2. Len(ldb) + 1 # Len(ldb) + (i + 1)
          BY <3>3
        <4> QED BY <3>1, <3>2, <4>1, <4>2
      <3>5. \A i \in 1 .. Len(inflight) : i = 1 \/ (i - 1 \in 1 .. Len(inflight) - 1
                                             /\ Tail(inflight)[i - 1] = inflight[i])
        BY <3>3
      <3>6. \A i \in 1 .. Len(inflight) - 1 : i + 1 \in 1 .. Len(inflight)
        BY <3>3
      <3>7. /\ \A x : x \in ToSet(inflight) <=> \E i \in 1 .. Len(inflight) : x = inflight[i]
            /\ \A x : x \in ToSet(Tail(inflight)) <=>
                       \E i \in 1 .. Len(inflight) - 1 : x = Tail(inflight)[i]
        BY <3>3 DEF ToSet
      <3>8. \A x : x \in ToSet(inflight) <=> x = Head(inflight) \/ x \in ToSet(Tail(inflight))
        <4>1. ASSUME NEW i \in 1 .. Len(inflight)
              PROVE  inflight[i] = Head(inflight) \/ inflight[i] \in ToSet(Tail(inflight))
          <5>1. i = 1 \/ (i - 1 \in 1 .. Len(inflight) - 1 /\ Tail(inflight)[i - 1] = inflight[i])
            BY <3>5
          <5> QED BY <3>3, <3>7, <5>1
        <4>2. Head(inflight) \in ToSet(inflight)
          BY <3>3, <3>7
        <4>3. ASSUME NEW i \in 1 .. Len(inflight) - 1
              PROVE  Tail(inflight)[i] \in ToSet(inflight)
          <5>1. i + 1 \in 1 .. Len(inflight) /\ Tail(inflight)[i] = inflight[i + 1]
            BY <3>3, <3>6
          <5> QED BY <3>7, <5>1
        <4> QED BY <3>7, <4>1, <4>2, <4>3
      <3>9. Head(inflight) \notin ToSet(Tail(inflight))
        BY <3>3, <3>4, <3>7
      <3> QED BY <3>8, <3>9
    <2>5. Once'
      BY <1>0, <1>01, <2>1, <2>2, <2>3, <2>4 DEF Once
    <2> QED BY <2>2, <2>5 DEF Grows
  <1>5. ASSUME NEW f \in Follower, RelayEnd(f) \/ Break(f) PROVE Once' /\ Grows
    <2>1. UNCHANGED <<ldb, inflight>> /\ (opc' = opc \/ opc' = Unsent(f))
      BY <1>5 DEF RelayEnd, Break
    <2>2. Unsettling
      BY <1>0, <1>01, <2>1, Loses DEF Unsettling
    <2> QED BY <1>0, <2>2, OnceUnsettled
  <1>6. ASSUME NEW f \in Follower, NEW o \in Op, Request(f, o) PROVE Once' /\ Grows
    <2>1. /\ UNCHANGED <<ldb, inflight>> /\ opc' = [opc EXCEPT ![o] = "sent"]
          /\ opc[o] = "idle"
      BY <1>6 DEF Request, leadervars
    <2>2. Unsettling
      BY <1>01, <2>1 DEF Unsettling
    <2> QED BY <1>0, <2>2, OnceUnsettled
  <1>7. CASE \/ Push \/ UNCHANGED vars
             \/ \E f \in Follower : \/ JoinRegister(f) \/ Reannounce(f) \/ JoinSend(f)
                                    \/ Receive(f) \/ StopFollowing(f) \/ RelayExit(f)
                                    \/ \E n \in 0 .. Len(ldb) : JoinDump(f, n)
    <2>1. ASSUME NEW f \in Follower, Receive(f) PROVE UNCHANGED <<ldb, inflight, opc>>
      BY <2>1, Receives DEF Tenure, leadervars, opvars
    <2>2. UNCHANGED <<ldb, inflight, opc>>
      BY <1>7, <2>1 DEF Push, JoinRegister, Reannounce, JoinSend, StopFollowing,
         RelayExit, JoinDump, vars, leadervars, opvars
    <2>3. Unsettling
      BY <2>2 DEF Unsettling
    <2> QED BY <1>0, <2>3, OnceUnsettled
  <1> QED BY <1>1, <1>2, <1>3, <1>4, <1>5, <1>6, <1>7 DEF Step, Pushing

\* A change keeps its place when the log grows.
LEMMA PlacesKept ==
    ASSUME TypeOK, TypeOK', Once, Once', Grows
    PROVE  /\ Decided \in Seq(Op) /\ Decided' \in Seq(Op)
           /\ Len(Decided) \in Nat /\ Len(Decided') \in Nat
           /\ Len(Decided) <= Len(Decided')
           /\ \A p \in 1 .. Len(Decided) : Decided'[p] = Decided[p]
           /\ ToSet(Decided) \subseteq ToSet(Decided')
           /\ \A o \in ToSet(Decided) :
                Pos(o) \in 1 .. Len(Decided) /\ Decided[Pos(o)] = o /\ Pos(o)' = Pos(o)
           /\ \A p \in 1 .. Len(Decided) : Pos(Decided[p]) = p
           /\ \A p \in 1 .. Len(Decided') : Pos(Decided[p])' = p
  <1>1. Decided \in Seq(Op) /\ Decided' \in Seq(Op)
    BY LogMember DEF TypeOK, LeaderOK, ChangesOK, Decided
  <1>2. /\ Len(Decided) \in Nat /\ Len(Decided') \in Nat
        /\ DOMAIN Decided = 1 .. Len(Decided) /\ DOMAIN Decided' = 1 .. Len(Decided')
    BY <1>1
  <1>3. /\ Len(Decided) <= Len(Decided')
        /\ \A p \in 1 .. Len(Decided) : Decided'[p] = Decided[p]
    <2>1. CASE UNCHANGED Decided
      BY <1>2, <2>1
    <2>2. CASE ~UNCHANGED Decided
      <3>1. PICK o \in Op : Decided' = Append(Decided, o)
        BY <2>2 DEF Grows
      <3>2. /\ Len(Decided') = Len(Decided) + 1
            /\ \A p \in 1 .. Len(Decided) : Decided'[p] = Decided[p]
        BY <1>1, <3>1, AppendProperties
      <3> QED BY <1>2, <3>2
    <2> QED BY <2>1, <2>2
  <1>4. ToSet(Decided) \subseteq ToSet(Decided')
    BY <1>2, <1>3 DEF ToSet
  <1>5. /\ \A o \in ToSet(Decided) : Pos(o) \in 1 .. Len(Decided) /\ Decided[Pos(o)] = o
        /\ \A p \in 1 .. Len(Decided) : Pos(Decided[p]) = p
    BY <1>1, Places DEF Once, Pos
  <1>6. \A p \in 1 .. Len(Decided') : PosOf(Decided', Decided'[p]) = p
    BY <1>1, Places DEF Once
  <1>7. ASSUME NEW o \in ToSet(Decided) PROVE Pos(o)' = Pos(o)
    <2>1. Pos(o) \in 1 .. Len(Decided) /\ Decided[Pos(o)] = o
      BY <1>5
    <2>2. Pos(o) \in 1 .. Len(Decided') /\ Decided'[Pos(o)] = o
      BY <1>2, <1>3, <2>1
    <2>3. PosOf(Decided', Decided'[Pos(o)]) = Pos(o)
      BY <1>6, <2>2
    <2> QED BY <2>2, <2>3 DEF Pos
  <1> QED BY <1>1, <1>2, <1>3, <1>4, <1>5, <1>6, <1>7 DEF Pos

\* The steps that touch neither the pushes nor the connections' contents.
LEMMA Still ==
    ASSUME \/ UNCHANGED vars
           \/ \E f \in Follower : \/ Break(f) \/ RelayExit(f)
                                  \/ \E n \in 0 .. Len(ldb) : JoinDump(f, n)
                                  \/ \E o \in Op : Request(f, o)
    PROVE  UNCHANGED <<leaving, pushq, chan, fdb, ldb, inflight, streams, answered>>
  BY DEF Break, RelayExit, JoinDump, Request, vars, leadervars, opvars, joinvars,
         followervars, netvars

\* Only StopLeading begins to tell followers of a new leader.
LEMMA NoFarewellKept ==
    ASSUME TypeOK, TypeOK', Tenure, Step
    PROVE  NoFarewell'
  <1>0. NoFarewell /\ Typed
    BY Types DEF Tenure
  <1>1. CASE Pushing
    BY <1>0, <1>1, PushesGrow DEF Growth, NoFarewell
  <1>2. CASE Push
    <2>1. UNCHANGED leaving
      BY <1>2 DEF Push
    <2>2. /\ 1 \in DOMAIN pushq
          /\ \A i \in DOMAIN pushq' :
               i + 1 \in DOMAIN pushq /\ pushq'[i] = pushq[i + 1]
          /\ \A f \in Follower :
               chan'[f] = chan[f] \/ chan'[f] = Append(chan[f], pushq[1].msg)
      BY <1>0, <1>2, PushMoves
    <2>3. \A i \in DOMAIN pushq' : pushq'[i].msg.kind # "newleader"
      BY <1>0, <2>2 DEF NoFarewell
    <2>4. ASSUME NEW f \in Follower, NEW j \in DOMAIN chan'[f]
          PROVE  chan'[f][j].kind # "newleader"
      <3>1. CASE chan'[f] = chan[f]
        BY <1>0, <2>4, <3>1 DEF NoFarewell
      <3>2. CASE chan'[f] = Append(chan[f], pushq[1].msg)
        <4>1. chan'[f][j] = pushq[1].msg \/ (j \in DOMAIN chan[f] /\ chan'[f][j] = chan[f][j])
          BY <1>0, <2>4, <3>2 DEF Typed
        <4> QED BY <1>0, <2>2, <4>1 DEF NoFarewell
      <3> QED BY <2>2, <3>1, <3>2
    <2> QED BY <1>0, <2>1, <2>3, <2>4 DEF NoFarewell
  <1>3. ASSUME NEW f \in Follower, JoinSend(f) PROVE NoFarewell'
    <2>1. UNCHANGED <<leaving, pushq>>
      BY <1>3 DEF JoinSend, leadervars, opvars
    <2>2. chan' = chan \/ chan' = [chan EXCEPT ![f] = <<Db(snap[f], txcount)>>]
      BY <1>3 DEF JoinSend
    <2>3. \A g \in Follower : chan'[g] = chan[g] \/ chan'[g] = <<Db(snap[f], txcount)>>
      BY <1>0, <2>2 DEF Typed
    <2>4. \A j \in DOMAIN <<Db(snap[f], txcount)>> :
            <<Db(snap[f], txcount)>>[j].kind # "newleader"
      BY DEF Db
    <2> QED BY <1>0, <2>1, <2>3, <2>4 DEF NoFarewell
  <1>4. ASSUME NEW f \in Follower, Receive(f) PROVE NoFarewell'
    <2>1. UNCHANGED <<leaving, pushq>> /\ chan' = [chan EXCEPT ![f] = Tail(@)]
          /\ chan[f] # <<>>
      BY <1>0, <1>4, Receives DEF leadervars, opvars
    <2>2. \A j \in DOMAIN Tail(chan[f]) :
            j + 1 \in DOMAIN chan[f] /\ Tail(chan[f])[j] = chan[f][j + 1]
      BY <2>1, Rest
    <2> QED BY <1>0, <2>1, <2>2 DEF Typed, NoFarewell
  <1>5. ASSUME NEW f \in Follower, StopFollowing(f) PROVE NoFarewell'
    <2>1. UNCHANGED <<leaving, pushq>> /\ chan' = [chan EXCEPT ![f] = <<>>]
      BY <1>5 DEF StopFollowing, leadervars, opvars
    <2> QED BY <1>0, <2>1 DEF Typed, NoFarewell
  <1>6. CASE \/ UNCHANGED vars
             \/ \E f \in Follower : \/ Break(f) \/ RelayExit(f)
                                    \/ \E n \in 0 .. Len(ldb) : JoinDump(f, n)
                                    \/ \E o \in Op : Request(f, o)
    BY <1>0, <1>6, Still DEF NoFarewell
  <1> QED BY <1>1, <1>2, <1>3, <1>4, <1>5, <1>6 DEF Step

\* JoinRegister registers a follower; Push does not unregister one before the
\* leader retires.
LEMMA RegisteredKept ==
    ASSUME TypeOK, TypeOK', Tenure, Step
    PROVE  Registered'
  <1>0. Registered /\ NoFarewell /\ Typed
    BY Types DEF Tenure
  <1>1. CASE Pushing
    <2>1. \A i \in DOMAIN pushq' :
            pushq'[i].open => relay'[pushq'[i].to] \in {"live", "broken"}
      BY <1>0, <1>1, PushesGrow DEF Growth
    <2>2. CASE \/ \E o \in Op : Submit(o) \/ Commit(o)
               \/ \E f \in Follower : RelayRequest(f) \/ Reannounce(f)
               \/ Apply
      <3>1. UNCHANGED <<streams, relay, broken, joinpc>>
        BY <2>2 DEF Submit, Commit, RelayRequest, Reannounce, Apply, leadervars,
           joinvars, netvars
      <3> QED BY <1>0, <2>1, <3>1 DEF Registered
    <2>3. ASSUME NEW f \in Follower, JoinRegister(f) PROVE Registered'
      <3>1. /\ UNCHANGED broken /\ joinpc' = [joinpc EXCEPT ![f] = "none"]
            /\ relay' = [relay EXCEPT ![f] = IF broken[f] THEN "broken" ELSE "live"]
        BY <2>3 DEF JoinRegister, netvars
      <3>2. ToSet(streams') = ToSet(streams) \cup {f}
        BY <2>3, RegisterPushes
      <3>3. \A g \in Follower :
              /\ relay'[g] \in {"live", "broken"} => g \in ToSet(streams')
              /\ relay'[g] = "live" => ~broken'[g] /\ joinpc'[g] = "none"
        BY <1>0, <3>1, <3>2 DEF Registered, Typed
      <3> QED BY <2>1, <3>3 DEF Registered
    <2>4. ASSUME NEW f \in Follower, RelayEnd(f) PROVE Registered'
      <3>1. /\ UNCHANGED joinpc /\ \E r \in {"none", "ending"} : relay' = [relay EXCEPT ![f] = r]
            /\ broken' = [broken EXCEPT ![f] = @ \/ relay[f] = "live"]
        BY <2>4 DEF RelayEnd, joinvars
      <3>2. ToSet(streams') = ToSet(streams) \ {f}
        BY <2>4, Closes
      <3>3. \A g \in Follower :
              g # f => relay'[g] = relay[g] /\ broken'[g] = broken[g]
        BY <1>0, <3>1 DEF Typed
      <3>4. relay'[f] \notin {"live", "broken"}
        BY <1>0, <3>1 DEF Typed
      <3>5. \A g \in Follower :
              /\ relay'[g] \in {"live", "broken"} => g \in ToSet(streams')
              /\ relay'[g] = "live" => ~broken'[g] /\ joinpc'[g] = "none"
        BY <1>0, <3>1, <3>2, <3>3, <3>4 DEF Registered
      <3> QED BY <2>1, <3>5 DEF Registered
    <2> QED BY <1>1, <2>2, <2>3, <2>4 DEF Pushing
  <1>2. CASE Push
    <2>1. UNCHANGED <<relay, broken, joinpc, streams>>
      BY <1>0, <1>2, PushMoves DEF Push, joinvars
    <2>2. \A i \in DOMAIN pushq' :
            i + 1 \in DOMAIN pushq /\ pushq'[i] = pushq[i + 1]
      BY <1>0, <1>2, PushMoves
    <2> QED BY <1>0, <2>1, <2>2 DEF Registered
  <1>3. ASSUME NEW f \in Follower, JoinSend(f) PROVE Registered'
    <2>1. /\ UNCHANGED <<relay, broken, streams, pushq>> /\ joinpc[f] = "dumped"
          /\ joinpc' = [joinpc EXCEPT ![f] = "sent"]
      BY <1>3 DEF JoinSend, leadervars, opvars
    <2> QED BY <1>0, <2>1 DEF Registered, Typed
  <1>4. ASSUME NEW f \in Follower, Receive(f) PROVE Registered'
    <2>1. UNCHANGED <<relay, broken, streams, pushq, joinpc>>
      BY <1>0, <1>4, Receives DEF leadervars, opvars, joinvars
    <2> QED BY <1>0, <2>1 DEF Registered
  <1>5. ASSUME NEW f \in Follower, StopFollowing(f) PROVE Registered'
    <2>1. UNCHANGED <<relay, broken, streams, pushq, joinpc>>
      BY <1>5 DEF StopFollowing, leadervars, opvars, joinvars
    <2> QED BY <1>0, <2>1 DEF Registered
  <1>6. ASSUME NEW f \in Follower, Break(f) PROVE Registered'
    <2>1. /\ UNCHANGED <<streams, pushq, joinpc>>
          /\ relay' = [relay EXCEPT ![f] = IF @ = "live" THEN "broken" ELSE @]
          /\ broken' = [broken EXCEPT ![f] = TRUE]
      BY <1>6 DEF Break, joinvars
    <2>2. \A g \in Follower :
            /\ relay'[g] \in {"live", "broken"} <=> relay[g] \in {"live", "broken"}
            /\ relay'[g] = "live" => g # f /\ relay[g] = "live" /\ broken'[g] = broken[g]
      BY <1>0, <2>1 DEF Typed
    <2>3. \A i \in DOMAIN pushq : pushq[i].to \in Follower
      BY <1>0 DEF Typed
    <2> QED BY <1>0, <2>1, <2>2, <2>3 DEF Registered
  <1>7. ASSUME NEW f \in Follower, NEW n \in 0 .. Len(ldb), JoinDump(f, n)
        PROVE  Registered'
    <2>1. /\ UNCHANGED <<streams, pushq, relay>> /\ broken[f]
          /\ joinpc' = [joinpc EXCEPT ![f] = "dumped"]
          /\ broken' = [broken EXCEPT ![f] = FALSE]
      BY <1>7 DEF JoinDump, leadervars, opvars
    <2>2. relay[f] # "live"
      BY <1>0, <2>1 DEF Registered
    <2> QED BY <1>0, <2>1, <2>2 DEF Registered, Typed
  <1>8. ASSUME NEW f \in Follower, RelayExit(f) PROVE Registered'
    <2>1. /\ UNCHANGED <<streams, pushq, broken, joinpc>> /\ relay[f] = "ending"
          /\ relay' = [relay EXCEPT ![f] = "none"]
      BY <1>8 DEF RelayExit, opvars, joinvars, netvars
    <2>2. \A g \in Follower : 
            relay'[g] \in {"live", "broken"} \/ relay[g] \in {"live", "broken"}
               => relay'[g] = relay[g]
      BY <1>0, <2>1 DEF Typed
    <2>3. \A i \in DOMAIN pushq : pushq[i].to \in Follower
      BY <1>0 DEF Typed
    <2> QED BY <1>0, <2>1, <2>2, <2>3 DEF Registered
  <1>9. CASE UNCHANGED vars \/ \E f \in Follower : \E o \in Op : Request(f, o)
    <2>1. UNCHANGED <<relay, broken, streams, pushq, joinpc>>
      BY <1>9 DEF Request, vars, leadervars, opvars, joinvars, netvars
    <2> QED BY <1>0, <2>1 DEF Registered
  <1> QED BY <1>1, <1>2, <1>3, <1>4, <1>5, <1>6, <1>7, <1>8, <1>9 DEF Step

\* JoinSend writes the dump to a new connection, before any push.
LEMMA DumpsKept ==
    ASSUME TypeOK, TypeOK', Tenure, Step
    PROVE  Dumps'
  <1>0. Dumps /\ Registered /\ NoFarewell /\ Typed
    BY Types DEF Tenure
  <1>1. CASE Pushing
    <2>1. /\ UNCHANGED chan
          /\ \A i \in DOMAIN pushq' : pushq'[i].msg.kind # "db"
      BY <1>0, <1>1, PushesGrow DEF Growth, Dumps
    <2>2. \A f \in Follower : joinpc'[f] # "none" => joinpc'[f] = joinpc[f]
      <3>1. ASSUME NEW f \in Follower, JoinRegister(f)
            PROVE  joinpc' = [joinpc EXCEPT ![f] = "none"]
        BY <3>1 DEF JoinRegister
      <3>2. UNCHANGED joinpc \/ \E f \in Follower : JoinRegister(f)
        BY <1>1 DEF Pushing, Submit, Commit, RelayRequest, Reannounce, RelayEnd,
           Apply, joinvars
      <3> QED BY <1>0, <3>1, <3>2 DEF Typed
    <2> QED BY <1>0, <2>1, <2>2 DEF Dumps
  <1>2. CASE Push
    <2>1. UNCHANGED joinpc
      BY <1>2 DEF Push, joinvars
    <2>2. /\ 1 \in DOMAIN pushq
          /\ \A i \in DOMAIN pushq' :
               i + 1 \in DOMAIN pushq /\ pushq'[i] = pushq[i + 1]
          /\ \A f \in Follower :
               \/ chan'[f] = chan[f]
               \/ /\ pushq[1].to = f /\ Writes(pushq[1])
                  /\ chan'[f] = Append(chan[f], pushq[1].msg)
      BY <1>0, <1>2, PushMoves
    <2>3. \A i \in DOMAIN pushq' : pushq'[i].msg.kind # "db"
      BY <1>0, <2>2 DEF Dumps
    <2>4. ASSUME NEW f \in Follower
          PROVE  /\ joinpc[f] = "dumped" => chan'[f] = <<>>
                 /\ \A j \in DOMAIN chan'[f] :
                      /\ chan'[f][j].kind = "db" => j = 1
                      /\ joinpc[f] = "sent" => chan'[f][j].kind = "db"
      <3>1. CASE chan'[f] = chan[f]
        BY <1>0, <3>1 DEF Dumps
      <3>2. CASE /\ pushq[1].to = f /\ Writes(pushq[1])
                 /\ chan'[f] = Append(chan[f], pushq[1].msg)
        <4>1. joinpc[f] = "none"
          BY <1>0, <3>2 DEF Writes, Registered
        <4>2. ASSUME NEW j \in DOMAIN chan'[f], chan'[f][j].kind = "db" PROVE j = 1
          <5>1. chan'[f][j] = pushq[1].msg \/ (j \in DOMAIN chan[f] /\ chan'[f][j] = chan[f][j])
            BY <1>0, <3>2 DEF Typed
          <5> QED BY <1>0, <2>2, <4>2, <5>1 DEF Dumps
        <4> QED BY <4>1, <4>2
      <3> QED BY <2>2, <3>1, <3>2
    <2> QED BY <2>1, <2>3, <2>4 DEF Dumps
  <1>3. ASSUME NEW f \in Follower, JoinSend(f) PROVE Dumps'
    <2>1. /\ UNCHANGED pushq /\ joinpc[f] = "dumped"
          /\ joinpc' = [joinpc EXCEPT ![f] = "sent"]
          /\ chan' = chan \/ chan' = [chan EXCEPT ![f] = <<Db(snap[f], txcount)>>]
      BY <1>3 DEF JoinSend, opvars
    <2>2. chan[f] = <<>>
      BY <1>0, <2>1 DEF Dumps
    <2>3. \A g \in Follower : g # f => chan'[g] = chan[g] /\ joinpc'[g] = joinpc[g]
      BY <1>0, <2>1 DEF Typed
    <2>4. chan'[f] = <<>> \/ chan'[f] = <<Db(snap[f], txcount)>>
      BY <1>0, <2>1, <2>2 DEF Typed
    <2>5. \A j \in DOMAIN chan'[f] : j = 1 /\ chan'[f][j].kind = "db"
      BY <2>4 DEF Db
    <2>6. joinpc'[f] = "sent"
      BY <1>0, <2>1 DEF Typed
    <2> QED BY <1>0, <2>1, <2>3, <2>5, <2>6 DEF Dumps
  <1>4. ASSUME NEW f \in Follower, Receive(f) PROVE Dumps'
    <2>1. /\ UNCHANGED <<pushq, joinpc>> /\ chan' = [chan EXCEPT ![f] = Tail(@)]
          /\ chan[f] # <<>>
      BY <1>0, <1>4, Receives DEF joinvars, opvars
    <2>2. /\ DOMAIN chan[f] = 1 .. Len(chan[f])
          /\ \A j \in DOMAIN Tail(chan[f]) :
              j + 1 \in DOMAIN chan[f] /\ Tail(chan[f])[j] = chan[f][j + 1]
          /\ \A j \in DOMAIN Tail(chan[f]) : j \in Nat \ {0}
      BY <1>0, <2>1, Rest DEF TypeOK, ConnectionsOK
    <2>3. joinpc[f] # "dumped"
      BY <1>0, <2>1 DEF Dumps
    <2>4. \A j \in DOMAIN Tail(chan[f]) :
            /\ Tail(chan[f])[j].kind # "db"
            /\ joinpc[f] = "sent" => Tail(chan[f])[j].kind = "db"
      BY <1>0, <2>2 DEF Dumps
    <2> QED BY <1>0, <2>1, <2>3, <2>4 DEF Dumps, Typed
  <1>5. ASSUME NEW f \in Follower, StopFollowing(f) PROVE Dumps'
    <2>1. UNCHANGED <<pushq, joinpc>> /\ chan' = [chan EXCEPT ![f] = <<>>]
      BY <1>5 DEF StopFollowing, joinvars, opvars
    <2> QED BY <1>0, <2>1 DEF Dumps, Typed
  <1>6. ASSUME NEW f \in Follower, NEW n \in 0 .. Len(ldb), JoinDump(f, n) PROVE Dumps'
    <2>1. /\ UNCHANGED <<pushq, chan>> /\ joinpc' = [joinpc EXCEPT ![f] = "dumped"]
          /\ chan[f] = <<>>
      BY <1>6 DEF JoinDump, opvars
    <2> QED BY <1>0, <2>1 DEF Dumps, Typed
  <1>7. CASE \/ UNCHANGED vars
             \/ \E f \in Follower : \/ Break(f) \/ RelayExit(f)
                                    \/ \E o \in Op : Request(f, o)
    <2>1. UNCHANGED <<pushq, chan, joinpc>>
      BY <1>7 DEF Break, RelayExit, Request, vars, opvars, joinvars, netvars
    <2> QED BY <1>0, <2>1 DEF Dumps
  <1> QED BY <1>1, <1>2, <1>3, <1>4, <1>5, <1>6, <1>7 DEF Step

\* RelayEnd fails the requests of its follower with its connection.
LEMMA BusynessKept ==
    ASSUME TypeOK, TypeOK', Tenure, Step
    PROVE  Busyness'
  <1>0. /\ Busyness /\ Registered /\ NoFarewell /\ Typed /\ Sending /\ Once
        /\ Leader \notin Follower
        /\ opc \in [Op -> {"idle", "sent", "health", "push", "done", "refused", "lost"}]
        /\ origin \in [Op -> Follower \cup {Leader}]
        /\ \A f \in Follower : up[f] \in Seq(Op)
    BY Types, RolesAssumption DEF Tenure, TypeOK, ChangesOK, ConnectionsOK
  <1>1. ASSUME NEW o \in Op, Submit(o) PROVE Busyness'
    <2>1. /\ UNCHANGED <<dead, streams, relay, origin>> /\ opc[o] = "idle"
          /\ \/ opc' = [opc EXCEPT ![o] = "refused"]
             \/ opc' = [opc EXCEPT ![o] = "done"]
             \/ opc' = [opc EXCEPT ![o] = "health"] /\ streams # <<>>
      BY <1>1 DEF Submit
    <2> QED BY <1>0, <2>1 DEF Busyness
  <1>2. ASSUME NEW f \in Follower, RelayRequest(f) PROVE Busyness'
    <2>1. /\ UNCHANGED <<dead, streams, relay, origin>> /\ up[f] # <<>>
          /\ opc' = [opc EXCEPT ![Head(up[f])] = "health"]
          /\ relay[f] = "live" /\ f \in ToSet(streams)
      BY <1>2 DEF RelayRequest, leadervars
    <2>2. /\ opc[Head(up[f])] = "sent" /\ origin[Head(up[f])] = f
          /\ streams # <<>> /\ Head(up[f]) \in Op
      BY <1>0, <2>1 DEF Sending, ToSet
    <2> QED BY <1>0, <2>1, <2>2 DEF Busyness
  <1>3. ASSUME NEW o \in Op, Commit(o) PROVE Busyness'
    <2>1. /\ UNCHANGED <<dead, streams, relay, origin>> /\ opc[o] = "health"
          /\ opc' = [opc EXCEPT ![o] = "refused"] \/ opc' = [opc EXCEPT ![o] = "push"]
      BY <1>3 DEF Commit
    <2> QED BY <1>0, <2>1 DEF Busyness
  <1>4. CASE Apply
    <2>1. /\ UNCHANGED <<dead, streams, relay, origin>>
          /\ opc' = [opc EXCEPT ![Head(inflight)] = "done"]
      BY <1>4 DEF Apply
    <2> QED BY <1>0, <2>1 DEF Busyness
  <1>5. ASSUME NEW f \in Follower, JoinRegister(f) PROVE Busyness'
    <2>1. /\ UNCHANGED <<opc, origin>> /\ relay[f] = "none"
          /\ relay' = [relay EXCEPT ![f] = IF broken[f] THEN "broken" ELSE "live"]
      BY <1>5 DEF JoinRegister
    <2>2. ToSet(streams') = ToSet(streams) \cup {f}
      BY <1>5, RegisterPushes
    <2>3. streams' # <<>>
      BY <2>2 DEF ToSet
    <2>4. \A g \in Follower : relay[g] \in {"live", "broken"} => relay'[g] = relay[g]
      BY <1>0, <2>1 DEF Typed
    <2> QED BY <1>0, <2>1, <2>3, <2>4 DEF Busyness
  <1>6. ASSUME NEW f \in Follower, RelayEnd(f) PROVE Busyness'
    <2>1. /\ UNCHANGED origin /\ (opc' = opc \/ opc' = Unsent(f))
          /\ dead' = (dead \/ streams' = <<>>) /\ ~Busy(f)
          /\ \E r \in {"none", "ending"} : relay' = [relay EXCEPT ![f] = r]
      BY <1>6 DEF RelayEnd
    <2>2. \A g \in Follower : g # f => relay'[g] = relay[g]
      BY <1>0, <2>1 DEF Typed
    <2>3. \A o \in Op : /\ opc'[o] = "idle" => opc[o] = "idle"
                        /\ opc'[o] \in {"health", "push"} => opc[o] = opc'[o]
      BY <1>0, <2>1, Loses
    <2>4. \A o \in Op : opc'[o] \in {"health", "push"} => origin[o] # f
      BY <2>1, <2>3 DEF Busy
    <2>5. ASSUME NEW o \in Op
          PROVE  /\ opc'[o] = "idle" => origin'[o] = Leader
                 /\ opc'[o] \in {"health", "push"} =>
                      /\ origin'[o] # Leader => relay'[origin'[o]] \in {"live", "broken"}
                      /\ streams' = <<>> => dead'
      <3>1. opc'[o] = "idle" => origin'[o] = Leader
        BY <1>0, <2>1, <2>3 DEF Busyness
      <3>2. ASSUME opc'[o] \in {"health", "push"}, origin'[o] # Leader
            PROVE  relay'[origin'[o]] \in {"live", "broken"}
        <4>1. origin[o] \in Follower /\ origin[o] # f /\ opc[o] \in {"health", "push"}
          BY <1>0, <2>1, <2>3, <2>4, <3>2
        <4> QED BY <1>0, <2>1, <2>2, <3>2, <4>1 DEF Busyness
      <3> QED BY <2>1, <3>1, <3>2
    <2> QED BY <2>5 DEF Busyness
  <1>7. ASSUME NEW f \in Follower, Break(f) PROVE Busyness'
    <2>1. /\ UNCHANGED <<origin, dead, streams>> /\ opc' = Unsent(f)
          /\ relay' = [relay EXCEPT ![f] = IF @ = "live" THEN "broken" ELSE @]
      BY <1>7 DEF Break
    <2>2. \A g \in Follower : relay[g] \in {"live", "broken"} => relay'[g] \in {"live", "broken"}
      BY <1>0, <2>1 DEF Typed
    <2>3. \A o \in Op : /\ opc'[o] = "idle" => opc[o] = "idle"
                        /\ opc'[o] \in {"health", "push"} => opc[o] = opc'[o]
      BY <1>0, <2>1, Loses
    <2> QED BY <1>0, <2>1, <2>2, <2>3 DEF Busyness
  <1>8. ASSUME NEW f \in Follower, RelayExit(f) PROVE Busyness'
    <2>1. /\ UNCHANGED <<opc, origin, streams>> /\ relay[f] = "ending"
          /\ relay' = [relay EXCEPT ![f] = "none"] /\ (dead => dead')
      BY <1>8 DEF RelayExit, opvars
    <2>2. \A g \in Follower : relay[g] \in {"live", "broken"} => relay'[g] = relay[g]
      BY <1>0, <2>1 DEF Typed
    <2> QED BY <1>0, <2>1, <2>2 DEF Busyness
  <1>9. ASSUME NEW f \in Follower, NEW o \in Op, Request(f, o) PROVE Busyness'
    <2>1. /\ UNCHANGED <<dead, streams, relay>> /\ opc' = [opc EXCEPT ![o] = "sent"]
          /\ origin' = [origin EXCEPT ![o] = f]
      BY <1>9 DEF Request, leadervars
    <2> QED BY <1>0, <2>1 DEF Busyness
  <1>10. CASE \/ Push \/ UNCHANGED vars
              \/ \E f \in Follower : \/ Reannounce(f) \/ JoinSend(f) \/ Receive(f)
                                     \/ StopFollowing(f)
                                     \/ \E n \in 0 .. Len(ldb) : JoinDump(f, n)
    <2>1. ASSUME NEW f \in Follower, Receive(f)
          PROVE  UNCHANGED <<opc, origin, relay, streams, dead>>
      BY <1>0, <2>1, Receives DEF leadervars, opvars
    <2>2. ASSUME Push PROVE UNCHANGED <<opc, origin, relay, streams, dead>>
      BY <1>0, <2>2, PushMoves DEF Push
    <2>3. UNCHANGED <<opc, origin, relay, streams, dead>>
      BY <1>10, <2>1, <2>2 DEF Reannounce, JoinSend, StopFollowing, JoinDump, vars,
         leadervars, opvars
    <2> QED BY <1>0, <2>3 DEF Busyness
  <1> QED BY <1>1, <1>2, <1>3, <1>4, <1>5, <1>6, <1>7, <1>8, <1>9, <1>10 DEF Step, Pushing

\* A request is sent once and read once.
LEMMA SendingKept ==
    ASSUME TypeOK, TypeOK', Tenure, Step
    PROVE  Sending'
  <1>0. /\ Sending /\ Busyness /\ NoFarewell /\ Typed /\ Leader \notin Follower
        /\ opc \in [Op -> {"idle", "sent", "health", "push", "done", "refused", "lost"}]
        /\ origin \in [Op -> Follower \cup {Leader}]
        /\ up \in [Follower -> Seq(Op)]
        /\ \A f \in Follower : DOMAIN up[f] = 1 .. Len(up[f]) /\ Len(up[f]) \in Nat
                               /\ \A j \in DOMAIN up[f] : up[f][j] \in Op
    BY Types, RolesAssumption DEF Tenure, TypeOK, ChangesOK, ConnectionsOK
  <1>1. CASE \/ \E o \in Op : Submit(o) \/ Commit(o)
             \/ Apply
    <2>1. /\ UNCHANGED <<up, origin>>
          /\ \A o \in Op : opc[o] = "sent" => opc'[o] = "sent"
      <3>1. ASSUME NEW o \in Op, Submit(o)
            PROVE  /\ UNCHANGED <<up, origin>> /\ opc[o] = "idle"
                   /\ \E s \in {"refused", "done", "health"} : opc' = [opc EXCEPT ![o] = s]
        BY <3>1 DEF Submit, netvars
      <3>2. ASSUME NEW o \in Op, Commit(o)
            PROVE  /\ UNCHANGED <<up, origin>> /\ opc[o] = "health"
                   /\ \E s \in {"refused", "push"} : opc' = [opc EXCEPT ![o] = s]
        BY <3>2 DEF Commit, netvars
      <3>3. ASSUME Apply
            PROVE  /\ UNCHANGED <<up, origin>> /\ opc[Head(inflight)] = "push"
                   /\ opc' = [opc EXCEPT ![Head(inflight)] = "done"]
        BY <3>3, HeadPushed DEF Apply, netvars
      <3> QED BY <1>0, <1>1, <3>1, <3>2, <3>3
    <2> QED BY <1>0, <2>1 DEF Sending
  <1>2. ASSUME NEW f \in Follower, RelayRequest(f) PROVE Sending'
    <2>1. /\ UNCHANGED origin /\ up' = [up EXCEPT ![f] = Tail(@)] /\ up[f] # <<>>
          /\ opc' = [opc EXCEPT ![Head(up[f])] = "health"]
      BY <1>2 DEF RelayRequest
    <2>2. /\ Head(up[f]) = up[f][1] /\ 1 \in DOMAIN up[f]
          /\ DOMAIN Tail(up[f]) = 1 .. Len(up[f]) - 1
          /\ \A j \in 1 .. Len(up[f]) - 1 : Tail(up[f])[j] = up[f][j + 1]
      BY <1>0, <2>1
    <2>3. \A j \in DOMAIN Tail(up[f]) :
            j + 1 \in DOMAIN up[f] /\ j + 1 # 1 /\ Tail(up[f])[j] = up[f][j + 1]
      BY <1>0, <2>2
    <2>4. IsInjective(Tail(up[f]))
      BY <1>0, <2>2, <2>3 DEF Sending, IsInjective
    <2>5. \A j \in DOMAIN Tail(up[f]) : Tail(up[f])[j] # Head(up[f])
      BY <1>0, <2>2, <2>3 DEF Sending, IsInjective
    <2>6. \A g \in Follower : \A j \in DOMAIN up[g] :
            g # f => up[g][j] # Head(up[f])
      BY <1>0, <2>2 DEF Sending
    <2>7. ASSUME NEW g \in Follower
          PROVE  /\ IsInjective(up'[g])
                 /\ \A j \in DOMAIN up'[g] :
                      opc'[up'[g][j]] = "sent" /\ origin'[up'[g][j]] = g
      <3>1. CASE g = f
        BY <1>0, <2>1, <2>3, <2>4, <2>5, <3>1 DEF Sending
      <3>2. CASE g # f
        BY <1>0, <2>1, <2>6, <3>2 DEF Sending
      <3> QED BY <3>1, <3>2
    <2> QED BY <2>7 DEF Sending
  <1>3. ASSUME NEW f \in Follower, RelayEnd(f) \/ Break(f) PROVE Sending'
    <2>1. /\ UNCHANGED origin
          /\ \/ UNCHANGED <<opc, up>>
             \/ opc' = Unsent(f) /\ up' = [up EXCEPT ![f] = <<>>]
      <3>1. CASE Break(f)
        BY <3>1 DEF Break
      <3>2. CASE RelayEnd(f) /\ relay[f] = "live"
        BY <3>2 DEF RelayEnd
      <3>3. CASE RelayEnd(f) /\ relay[f] # "live"
        BY <1>0, <3>3 DEF RelayEnd
      <3> QED BY <1>3, <3>1, <3>2, <3>3
    <2>2. CASE UNCHANGED <<opc, up>>
      BY <1>0, <2>1, <2>2 DEF Sending
    <2>3. CASE opc' = Unsent(f) /\ up' = [up EXCEPT ![f] = <<>>]
      <3>1. \A o \in Op : opc[o] = "sent" /\ origin[o] # f => opc'[o] = "sent"
        BY <1>0, <2>3, Loses
      <3>2. ASSUME NEW g \in Follower
            PROVE  /\ IsInjective(up'[g])
                   /\ \A j \in DOMAIN up'[g] :
                        opc'[up'[g][j]] = "sent" /\ origin'[up'[g][j]] = g
        <4>1. CASE g = f
          BY <1>0, <2>3, <4>1, EmptyList
        <4>2. CASE g # f
          BY <1>0, <2>1, <2>3, <3>1, <4>2 DEF Sending
        <4> QED BY <4>1, <4>2
      <3> QED BY <3>2 DEF Sending
    <2> QED BY <2>1, <2>2, <2>3
  <1>4. ASSUME NEW f \in Follower, NEW o \in Op, Request(f, o) PROVE Sending'
    <2>1. /\ opc' = [opc EXCEPT ![o] = "sent"] /\ origin' = [origin EXCEPT ![o] = f]
          /\ up' = [up EXCEPT ![f] = Append(@, o)] /\ opc[o] = "idle"
      BY <1>4 DEF Request
    <2>2. \A g \in Follower : \A j \in DOMAIN up[g] : up[g][j] # o
      BY <1>0, <2>1 DEF Sending
    <2>3. /\ IsInjective(Append(up[f], o))
          /\ \A j \in DOMAIN Append(up[f], o) :
               \/ Append(up[f], o)[j] = o
               \/ j \in DOMAIN up[f] /\ Append(up[f], o)[j] = up[f][j]
      <3>1. o \notin ToSet(up[f])
        BY <2>2 DEF ToSet
      <3>2. IsInjective(Append(up[f], o))
        BY <1>0, <3>1, AddEnd DEF Sending
      <3> QED BY <1>0, <3>2
    <2>4. ASSUME NEW g \in Follower
          PROVE  /\ IsInjective(up'[g])
                 /\ \A j \in DOMAIN up'[g] :
                      opc'[up'[g][j]] = "sent" /\ origin'[up'[g][j]] = g
      <3>1. CASE g = f
        BY <1>0, <2>1, <2>2, <2>3, <3>1 DEF Sending
      <3>2. CASE g # f
        BY <1>0, <2>1, <2>2, <3>2 DEF Sending
      <3> QED BY <3>1, <3>2
    <2> QED BY <2>4 DEF Sending
  <1>5. CASE \/ Push \/ UNCHANGED vars
              \/ \E f \in Follower : \/ Reannounce(f) \/ JoinSend(f) \/ Receive(f)
                                     \/ JoinRegister(f) \/ StopFollowing(f) \/ RelayExit(f)
                                     \/ \E n \in 0 .. Len(ldb) : JoinDump(f, n)
    <2>1. ASSUME NEW f \in Follower, Receive(f) PROVE UNCHANGED <<opc, origin, up>>
      BY <1>0, <2>1, Receives DEF opvars
    <2>2. UNCHANGED <<opc, origin, up>>
      BY <1>5, <2>1 DEF Push, Reannounce, JoinSend, JoinRegister, StopFollowing, RelayExit,
         JoinDump, vars, opvars, netvars
    <2> QED BY <1>0, <2>2 DEF Sending
  <1> QED BY <1>1, <1>2, <1>3, <1>4, <1>5 DEF Step, Pushing

\* Changes are pushed when they are counted; an answer is pushed to the member
\* that asked, and a successful one only when the change is applied.
Fresh ==
    \A i \in DOMAIN pushq' \ DOMAIN pushq :
        /\ pushq'[i].msg.kind = "tx" =>
              /\ pushq'[i].msg.op \in Op /\ Commit(pushq'[i].msg.op)
              /\ inflight' = Append(inflight, pushq'[i].msg.op)
        /\ pushq'[i].msg.kind = "ret" =>
              /\ pushq'[i].msg.op \in Op /\ origin[pushq'[i].msg.op] = pushq'[i].to
              /\ pushq'[i].msg.ok => Apply /\ pushq'[i].msg.op = Head(inflight)

\* The new pushes, action by action.
LEMMA FreshPushes ==
    ASSUME TypeOK, TypeOK', Tenure, Pushing
    PROVE  Fresh
  <1>1. ASSUME NEW o \in Op, Submit(o) PROVE Fresh
    <2>1. UNCHANGED pushq \/ Enqueued(ToSet(streams), Null(o))
      BY <1>1, SubmitPushes
    <2>2. Null(o).kind = "null"
      BY DEF Null
    <2> QED BY <2>1, <2>2 DEF Fresh, Enqueued
  <1>2. ASSUME NEW f \in Follower, RelayRequest(f) PROVE Fresh
    <2>1. Enqueued(ToSet(streams), Null(Head(up[f])))
      BY <1>2, RequestPushes
    <2>2. Null(Head(up[f])).kind = "null"
      BY DEF Null
    <2> QED BY <2>1, <2>2 DEF Fresh, Enqueued
  <1>3. ASSUME NEW o \in Op, Commit(o) PROVE Fresh
    <2>1. \/ UNCHANGED pushq
          \/ inflight' = Append(inflight, o) /\ Enqueued(ToSet(streams), Tx(o, txcount + 1))
          \/ Enqueued({origin[o]}, Ret(o, FALSE))
      BY <1>3, CommitPushes
    <2>2. /\ Tx(o, txcount + 1).kind = "tx" /\ Tx(o, txcount + 1).op = o
          /\ Ret(o, FALSE).kind = "ret" /\ Ret(o, FALSE).op = o /\ Ret(o, FALSE).ok = FALSE
      BY DEF Tx, Ret
    <2> QED BY <1>3, <2>1, <2>2 DEF Fresh, Enqueued
  <1>4. CASE Apply
    <2>1. /\ Head(inflight) \in Op
          /\ UNCHANGED pushq \/ Enqueued({origin[Head(inflight)]}, Ret(Head(inflight), TRUE))
      BY <1>4, ApplyPushes
    <2>2. /\ Ret(Head(inflight), TRUE).kind = "ret"
          /\ Ret(Head(inflight), TRUE).op = Head(inflight)
      BY DEF Ret
    <2> QED BY <1>4, <2>1, <2>2 DEF Fresh, Enqueued
  <1>5. ASSUME NEW f \in Follower, JoinRegister(f) \/ Reannounce(f) \/ RelayEnd(f)
        PROVE  Fresh
    <2>1. \A i \in DOMAIN pushq' \ DOMAIN pushq : pushq'[i].msg = Quorum(hasquorum', f)
      <3>1. CASE JoinRegister(f)
        BY <3>1, RegisterPushes DEF Enqueued
      <3>2. CASE Reannounce(f)
        BY <3>2, AnnouncePushes DEF Enqueued
      <3>3. CASE RelayEnd(f)
        BY <3>3, Closes
      <3> QED BY <1>5, <3>1, <3>2, <3>3
    <2>2. Quorum(hasquorum', f).kind = "quorum"
      BY DEF Quorum
    <2> QED BY <2>1, <2>2 DEF Fresh
  <1> QED BY <1>1, <1>2, <1>3, <1>4, <1>5 DEF Pushing

\* A part of the log has no other members.
LEMMA PrefixMember ==
    ASSUME NEW s \in Seq(Op), NEW t \in Seq(Op), PrefixOf(s, t)
    PROVE  ToSet(s) \subseteq ToSet(t)
  <1>1. /\ DOMAIN s = 1 .. Len(s) /\ DOMAIN t = 1 .. Len(t)
        /\ Len(s) \in Nat /\ Len(t) \in Nat
    OBVIOUS
  <1>2. \A i \in DOMAIN s : i \in DOMAIN t /\ s[i] = t[i]
    BY <1>1 DEF PrefixOf
  <1> QED BY <1>2 DEF ToSet

\* What is a part of the log stays one.
LEMMA PrefixKept ==
    ASSUME TypeOK, TypeOK', Once, Once', Grows, NEW s \in Seq(Op), PrefixOf(s, Decided)
    PROVE  PrefixOf(s, Decided')
  <1>1. /\ Len(Decided) \in Nat /\ Len(Decided') \in Nat /\ Len(s) \in Nat
        /\ Len(Decided) <= Len(Decided')
        /\ \A p \in 1 .. Len(Decided) : Decided'[p] = Decided[p]
    BY PlacesKept
  <1> QED BY <1>1 DEF PrefixOf

\* Commit pushes what it counts, JoinDump takes what was applied.
LEMMA ContentsKept ==
    ASSUME TypeOK, TypeOK', Tenure, Step
    PROVE  Contents'
  <1>0. /\ Contents /\ NoFarewell /\ Typed /\ Once /\ Once' /\ Grows
        /\ Dumps
    BY Types, OnceKept DEF Tenure
  <1>01. /\ Decided \in Seq(Op) /\ inflight \in Seq(Op) /\ ldb \in Seq(Op)
         /\ ToSet(inflight) \subseteq ToSet(Decided)
         /\ fdb \in [Follower -> Seq(Op)] /\ snap \in [Follower -> Seq(Op)]
         /\ txcount \in Nat
    <2>1. inflight \in Seq(Op) /\ ldb \in Seq(Op)
      BY DEF TypeOK, ChangesOK, LeaderOK
    <2>2. Decided \in Seq(Op) /\ ToSet(inflight) \subseteq ToSet(Decided)
      BY <2>1, LogMember DEF Decided
    <2> QED BY <2>1, <2>2 DEF TypeOK, FollowersOK, JoinsOK, LeaderOK
  <1> DEFINE Sent(q) == \A i \in DOMAIN q : q[i].msg.kind = "tx" => q[i].msg.op \in ToSet(inflight')
             Held(f) == PrefixOf(snap'[f], Decided') /\ ToSet(fdb'[f]) \subseteq ToSet(Decided')
             Coming(f) == \A j \in DOMAIN chan'[f] :
                             /\ chan'[f][j].kind = "tx" => chan'[f][j].op \in ToSet(Decided')
                             /\ chan'[f][j].kind = "db" => PrefixOf(chan'[f][j].db, Decided')
  <1>02. ASSUME Sent(pushq'), \A f \in Follower : Held(f) /\ Coming(f) PROVE Contents'
    BY <1>02 DEF Contents, TxAt
  <1>03. ASSUME NEW f \in Follower, UNCHANGED <<snap, fdb>> PROVE Held(f)
    <2>1. PrefixOf(snap[f], Decided')
      BY <1>0, <1>01, PrefixKept DEF Contents
    <2>2. ToSet(Decided) \subseteq ToSet(Decided')
      BY <1>0, PlacesKept
    <2> QED BY <1>0, <1>03, <2>1, <2>2 DEF Contents
  <1>04. ASSUME NEW f \in Follower, NEW j \in DOMAIN chan[f]
         PROVE  /\ chan[f][j].kind = "tx" => chan[f][j].op \in ToSet(Decided')
                /\ chan[f][j].kind = "db" => PrefixOf(chan[f][j].db, Decided')
    <2>1. chan[f][j] \in Message(txcount)
      BY <1>0 DEF Typed
    <2>2. chan[f][j].kind = "db" => chan[f][j].db \in Seq(Op)
      BY <1>01, <2>1, MessageKinds
    <2>3. chan[f][j].kind = "db" => PrefixOf(chan[f][j].db, Decided')
      BY <1>0, <2>2, PrefixKept DEF Contents
    <2>4. ToSet(Decided) \subseteq ToSet(Decided')
      BY <1>0, PlacesKept
    <2> QED BY <1>0, <2>3, <2>4 DEF Contents, TxAt
  <1>05. ASSUME NEW f \in Follower, chan'[f] = chan[f] PROVE Coming(f)
    BY <1>04, <1>05
  <1>1. CASE Pushing
    <2>1. UNCHANGED <<snap, fdb>>
      BY <1>1 DEF Pushing, Submit, Commit, RelayRequest, JoinRegister, Reannounce,
         RelayEnd, Apply, joinvars, followervars
    <2>2. UNCHANGED chan /\ Growth /\ Fresh
      BY <1>1, PushesGrow, FreshPushes DEF Growth
    <2>3. \A i \in DOMAIN pushq : pushq[i].msg.kind = "tx" =>
            pushq[i].msg.op \in ToSet(inflight')
      <3>1. CASE Apply
        <4>1. /\ inflight' = Tail(inflight) /\ inflight # <<>>
              /\ Pushed(Head(inflight), "tx")
          BY <3>1 DEF Apply
        <4>2. /\ DOMAIN inflight = 1 .. Len(inflight) /\ Len(inflight) \in Nat
              /\ Head(inflight) = inflight[1]
              /\ DOMAIN Tail(inflight) = 1 .. Len(inflight) - 1
              /\ \A k \in 1 .. Len(inflight) - 1 : Tail(inflight)[k] = inflight[k + 1]
          BY <1>01, <4>1
        <4>3. ASSUME NEW i \in DOMAIN pushq, pushq[i].msg.kind = "tx"
              PROVE  pushq[i].msg.op \in ToSet(inflight')
          <5>1. pushq[i].msg.op # Head(inflight)
            BY <1>0, <4>1, <4>3 DEF Pushed, Typed
          <5>2. pushq[i].msg.op \in ToSet(inflight)
            BY <1>0, <4>3 DEF Contents
          <5>3. PICK k \in 1 .. Len(inflight) : pushq[i].msg.op = inflight[k]
            BY <4>2, <5>2 DEF ToSet
          <5>4. k # 1
            BY <4>2, <5>1, <5>3
          <5>5. k - 1 \in DOMAIN Tail(inflight) /\ Tail(inflight)[k - 1] = inflight[k]
            BY <4>2, <5>4
          <5> QED BY <4>1, <5>3, <5>5 DEF ToSet
        <4> QED BY <4>3
      <3>2. CASE ~Apply
        <4>1. UNCHANGED inflight \/ \E o \in Op : inflight' = Append(inflight, o)
          BY <1>1, <3>2 DEF Pushing, Submit, Commit, RelayRequest, JoinRegister,
             Reannounce, RelayEnd, opvars
        <4>2. ToSet(inflight) \subseteq ToSet(inflight')
          <5>1. ASSUME NEW o \in Op, inflight' = Append(inflight, o)
                PROVE  \A k \in DOMAIN inflight :
                         k \in DOMAIN inflight' /\ inflight'[k] = inflight[k]
            BY <1>01, <5>1
          <5> QED BY <4>1, <5>1 DEF ToSet
        <4> QED BY <1>0, <4>2 DEF Contents
      <3> QED BY <3>1, <3>2
    <2>4. \A i \in DOMAIN pushq' \ DOMAIN pushq : pushq'[i].msg.kind = "tx" =>
            pushq'[i].msg.op \in ToSet(inflight')
      <3> SUFFICES ASSUME NEW i \in DOMAIN pushq' \ DOMAIN pushq, pushq'[i].msg.kind = "tx"
                   PROVE  pushq'[i].msg.op \in ToSet(inflight')
        OBVIOUS
      <3> DEFINE o == pushq'[i].msg.op
      <3>1. o \in Op /\ inflight' = Append(inflight, o)
        BY <2>2 DEF Fresh
      <3> HIDE DEF o
      <3>2. Len(inflight) + 1 \in DOMAIN inflight' /\ inflight'[Len(inflight) + 1] = o
        BY <1>01, <3>1
      <3> QED BY <3>2 DEF ToSet, o
    <2>5. Sent(pushq')
      BY <2>2, <2>3, <2>4 DEF Growth
    <2>6. \A f \in Follower : Held(f) /\ Coming(f)
      BY <1>03, <1>05, <2>1, <2>2
    <2> HIDE DEF Sent, Held, Coming
    <2> QED BY <1>02, <2>5, <2>6
  <1>2. CASE Push
    <2>1. UNCHANGED <<snap, fdb, inflight>>
      BY <1>2 DEF Push, joinvars, followervars
    <2>2. /\ 1 \in DOMAIN pushq
          /\ \A i \in DOMAIN pushq' :
               i + 1 \in DOMAIN pushq /\ pushq'[i] = pushq[i + 1]
          /\ \A f \in Follower :
               chan'[f] = chan[f] \/ chan'[f] = Append(chan[f], pushq[1].msg)
      BY <1>0, <1>2, PushMoves
    <2>3. Sent(pushq')
      BY <1>0, <2>1, <2>2 DEF Contents
    <2>4. /\ pushq[1].msg.kind # "db"
          /\ pushq[1].msg.kind = "tx" => pushq[1].msg.op \in ToSet(Decided')
      <3>1. ToSet(Decided) \subseteq ToSet(Decided')
        BY <1>0, PlacesKept
      <3> QED BY <1>0, <1>01, <2>2, <3>1 DEF Contents, Dumps
    <2>5. ASSUME NEW f \in Follower PROVE Coming(f)
      <3>1. CASE chan'[f] = chan[f]
        BY <1>05, <3>1
      <3>2. CASE chan'[f] = Append(chan[f], pushq[1].msg)
        <4>1. \A j \in DOMAIN chan'[f] :
                \/ chan'[f][j] = pushq[1].msg
                \/ j \in DOMAIN chan[f] /\ chan'[f][j] = chan[f][j]
          BY <1>0, <3>2 DEF Typed
        <4> QED BY <1>04, <2>4, <4>1
      <3> QED BY <2>2, <3>1, <3>2
    <2>6. \A f \in Follower : Held(f)
      BY <1>03, <2>1
    <2> HIDE DEF Sent, Held, Coming
    <2> QED BY <1>02, <2>3, <2>5, <2>6
  <1>3. ASSUME NEW g \in Follower, JoinSend(g) PROVE Contents'
    <2>1. /\ UNCHANGED <<pushq, inflight, fdb>> /\ snap' = [snap EXCEPT ![g] = <<>>]
          /\ chan' = chan \/ chan' = [chan EXCEPT ![g] = <<Db(snap[g], txcount)>>]
      BY <1>3 DEF JoinSend, opvars, followervars
    <2>2. Sent(pushq')
      BY <1>0, <2>1 DEF Contents
    <2>3. \A f \in Follower : PrefixOf(snap[f], Decided')
      BY <1>0, <1>01, PrefixKept DEF Contents
    <2>4. ASSUME NEW f \in Follower PROVE Coming(f)
      <3>1. CASE chan'[f] = chan[f]
        BY <1>05, <3>1
      <3>2. CASE chan'[f] # chan[f]
        <4>1. f = g /\ chan'[f] = <<Db(snap[g], txcount)>>
          BY <1>0, <2>1, <3>2 DEF Typed
        <4>2. /\ Db(snap[g], txcount).kind = "db" /\ Db(snap[g], txcount).db = snap[g]
          BY DEF Db
        <4>3. \A j \in DOMAIN chan'[f] : chan'[f][j] = Db(snap[g], txcount)
          BY <4>1
        <4> QED BY <2>3, <4>2, <4>3
      <3> QED BY <3>1, <3>2
    <2>5. ASSUME NEW f \in Follower PROVE Held(f)
      <3>1. ToSet(fdb'[f]) \subseteq ToSet(Decided')
        BY <1>0, <2>1, PlacesKept DEF Contents
      <3>2. snap'[f] = snap[f] \/ snap'[f] = <<>>
        BY <1>01, <2>1
      <3>3. PrefixOf(<<>>, Decided')
        BY <1>0, PlacesKept DEF PrefixOf
      <3> QED BY <2>3, <3>1, <3>2, <3>3
    <2> HIDE DEF Sent, Held, Coming
    <2> QED BY <1>02, <2>2, <2>4, <2>5
  <1>4. ASSUME NEW g \in Follower, Receive(g) PROVE Contents'
    <2>1. /\ UNCHANGED <<pushq, inflight, snap>> /\ chan' = [chan EXCEPT ![g] = Tail(@)]
          /\ chan[g] # <<>>
          /\ fdb' = IF chan[g][1].kind = "db" THEN [fdb EXCEPT ![g] = chan[g][1].db]
                    ELSE IF chan[g][1].kind = "tx"
                         THEN [fdb EXCEPT ![g] = Append(@, chan[g][1].op)] ELSE fdb
      BY <1>0, <1>4, Receives DEF opvars, joinvars
    <2>2. /\ 1 \in DOMAIN chan[g]
          /\ \A j \in DOMAIN Tail(chan[g]) :
               j + 1 \in DOMAIN chan[g] /\ Tail(chan[g])[j] = chan[g][j + 1]
      BY <2>1, Rest
    <2>3. Sent(pushq')
      BY <1>0, <2>1 DEF Contents
    <2>4. ASSUME NEW f \in Follower PROVE Coming(f)
      <3>1. CASE f # g
        BY <1>0, <1>05, <2>1, <3>1 DEF Typed
      <3>2. CASE f = g
        <4>1. chan'[f] = Tail(chan[f])
          BY <1>0, <2>1, <3>2 DEF Typed
        <4> QED BY <1>04, <2>2, <3>2, <4>1
      <3> QED BY <3>1, <3>2
    <2>5. ASSUME NEW f \in Follower PROVE Held(f)
      <3>1. PrefixOf(snap'[f], Decided')
        BY <1>0, <1>01, <2>1, PrefixKept DEF Contents
      <3>2. ToSet(fdb[f]) \subseteq ToSet(Decided')
        BY <1>0, PlacesKept DEF Contents
      <3>3. CASE f = g /\ chan[g][1].kind = "db"
        <4>1. fdb'[f] = chan[g][1].db
          BY <1>01, <2>1, <3>3
        <4>2. chan[g][1].db \in Seq(Op)
          BY <1>0, <1>01, <2>2, <3>3, MessageKinds DEF Typed
        <4>3. PrefixOf(chan[g][1].db, Decided') /\ Decided' \in Seq(Op)
          BY <1>0, <1>04, <2>2, <3>3, PlacesKept
        <4>4. ToSet(fdb'[f]) \subseteq ToSet(Decided')
          BY <4>1, <4>2, <4>3, PrefixMember
        <4> QED BY <3>1, <4>4
      <3>4. CASE f = g /\ chan[g][1].kind = "tx"
        <4>1. fdb'[f] = Append(fdb[f], chan[g][1].op)
          BY <1>01, <2>1, <3>4
        <4>2. chan[g][1].op \in ToSet(Decided')
          BY <1>04, <2>2, <3>4
        <4>3. chan[g][1].op \in Op /\ fdb[f] \in Seq(Op)
          BY <1>0, <1>01, <2>2, <3>4, MessageKinds DEF Typed
        <4>4. ToSet(fdb'[f]) = ToSet(fdb[f]) \cup {chan[g][1].op}
          BY <4>1, <4>3, AppendMember
        <4> QED BY <3>1, <3>2, <4>2, <4>4
      <3>5. CASE f # g \/ chan[g][1].kind \notin {"db", "tx"}
        BY <1>01, <2>1, <3>1, <3>2, <3>5
      <3> QED BY <3>3, <3>4, <3>5
    <2> HIDE DEF Sent, Held, Coming
    <2> QED BY <1>02, <2>3, <2>4, <2>5
  <1>5. ASSUME NEW g \in Follower, StopFollowing(g) PROVE Contents'
    <2>1. /\ UNCHANGED <<pushq, inflight, snap, fdb>> /\ chan' = [chan EXCEPT ![g] = <<>>]
      BY <1>5 DEF StopFollowing, opvars, joinvars
    <2>2. Sent(pushq')
      BY <1>0, <2>1 DEF Contents
    <2>3. \A f \in Follower : Coming(f)
      BY <1>0, <1>05, <2>1 DEF Typed
    <2>4. \A f \in Follower : Held(f)
      BY <1>03, <2>1
    <2> HIDE DEF Sent, Held, Coming
    <2> QED BY <1>02, <2>2, <2>3, <2>4
  <1>6. ASSUME NEW g \in Follower, NEW n \in 0 .. Len(ldb), JoinDump(g, n) PROVE Contents'
    <2>1. /\ UNCHANGED <<pushq, inflight, chan, fdb, ldb>>
          /\ snap' = [snap EXCEPT ![g] = SubSeq(ldb, 1, n)]
      BY <1>6 DEF JoinDump, opvars, followervars, leadervars
    <2>2. Sent(pushq') /\ \A f \in Follower : Coming(f)
      BY <1>0, <1>05, <2>1 DEF Contents
    <2>3. Decided' = Decided
      BY <2>1 DEF Decided
    <2>4. PrefixOf(SubSeq(ldb, 1, n), Decided)
      <3>1. /\ Len(SubSeq(ldb, 1, n)) = n /\ Len(ldb) \in Nat /\ Len(inflight) \in Nat
            /\ \A i \in 1 .. n : SubSeq(ldb, 1, n)[i] = ldb[i]
        BY <1>01
      <3>2. /\ Len(Decided) = Len(ldb) + Len(inflight)
            /\ \A i \in 1 .. Len(ldb) + Len(inflight) :
                 Decided[i] = IF i <= Len(ldb) THEN ldb[i] ELSE inflight[i - Len(ldb)]
        BY <1>01, ConcatProperties DEF Decided
      <3> QED BY <3>1, <3>2 DEF PrefixOf
    <2>5. \A f \in Follower : Held(f)
      BY <1>0, <1>01, <2>1, <2>3, <2>4 DEF Contents
    <2> HIDE DEF Sent, Held, Coming
    <2> QED BY <1>02, <2>2, <2>5
  <1>7. CASE \/ UNCHANGED vars
             \/ \E f \in Follower : \/ Break(f) \/ RelayExit(f)
                                    \/ \E o \in Op : Request(f, o)
    <2>1. UNCHANGED <<pushq, inflight, chan, fdb, ldb, snap>>
      BY <1>7 DEF Break, RelayExit, Request, vars, leadervars, opvars, joinvars,
         followervars, netvars
    <2>2. Sent(pushq')
      BY <1>0, <2>1 DEF Contents
    <2>3. \A f \in Follower : Held(f) /\ Coming(f)
      BY <1>03, <1>05, <2>1
    <2> HIDE DEF Sent, Held, Coming
    <2> QED BY <1>02, <2>2, <2>3
  <1> QED BY <1>1, <1>2, <1>3, <1>4, <1>5, <1>6, <1>7 DEF Step
-----------------------------------------------------------------------------
(* The way of the changes to a follower.                                   *)

\* The changes on their way have a place in the log, and keep it.
PlacesKnown ==
    /\ \A f \in Follower : \A j \in DOMAIN chan[f] : TxAt(f, j) =>
          /\ Pos(chan[f][j].op) \in 1 .. Len(Decided)
          /\ Decided[Pos(chan[f][j].op)] = chan[f][j].op
          /\ PosOf(Decided', chan[f][j].op) = Pos(chan[f][j].op)
    /\ \A i \in DOMAIN pushq : pushq[i].msg.kind = "tx" =>
          /\ Pos(pushq[i].msg.op) \in 1 .. Len(Decided)
          /\ Decided[Pos(pushq[i].msg.op)] = pushq[i].msg.op
          /\ PosOf(Decided', pushq[i].msg.op) = Pos(pushq[i].msg.op)

\* What is on its way has been decided, so it has a place.
LEMMA PlacesFound ==
    ASSUME TypeOK, TypeOK', Once, Once', Grows, Contents
    PROVE  PlacesKnown
  <1>1. \A o \in ToSet(Decided) :
          /\ Pos(o) \in 1 .. Len(Decided) /\ Decided[Pos(o)] = o
          /\ PosOf(Decided', o) = Pos(o)
    BY PlacesKept DEF Pos
  <1>2. ToSet(inflight) \subseteq ToSet(Decided)
    BY LogMember DEF TypeOK, LeaderOK, ChangesOK, Decided
  <1> QED BY <1>1, <1>2 DEF Contents, PlacesKnown

\* What a follower has is a part of the log, and moves only with its messages.
LEMMA BaseKnown ==
    ASSUME TypeOK, TypeOK', Once, Once', Grows, Contents, NEW f \in Follower
    PROVE  /\ Base(f) \in 0 .. Len(Decided)
           /\ chan'[f] = chan[f] /\ fdb'[f] = fdb[f] => Base(f)' = Base(f)
  <1>0. /\ Decided \in Seq(Op) /\ Len(Decided) \in Nat /\ txcount \in Nat
        /\ fdb[f] \in Seq(Op) /\ chan[f] \in Seq(Message(txcount))
    BY PlacesKept DEF TypeOK, FollowersOK, ConnectionsOK, LeaderOK
  <1>1. fdb[f] # <<>> => fdb[f][Len(fdb[f])] \in ToSet(Decided)
    <2>1. fdb[f] # <<>> => fdb[f][Len(fdb[f])] \in ToSet(fdb[f])
      BY <1>0 DEF ToSet
    <2> QED BY <2>1 DEF Contents
  <1>2. \A o \in ToSet(Decided) :
          Pos(o) \in 1 .. Len(Decided) /\ PosOf(Decided', o) = Pos(o)
    BY PlacesKept DEF Pos
  <1>3. DbFirst(f) => /\ chan[f][1].db \in Seq(Op)
                      /\ Len(chan[f][1].db) <= Len(Decided)
    <2>1. chan[f] # <<>> => 1 \in DOMAIN chan[f] /\ chan[f][1] \in Message(txcount)
      BY <1>0
    <2> QED BY <1>0, <2>1, MessageKinds DEF DbFirst, Contents, PrefixOf
  <1>4. DbFirst(f) => Len(chan[f][1].db) \in 0 .. Len(Decided)
    BY <1>0, <1>3
  <1>5. Base(f) \in 0 .. Len(Decided)
    BY <1>0, <1>1, <1>2, <1>4 DEF Base
  <1>6. ASSUME chan'[f] = chan[f], fdb'[f] = fdb[f] PROVE Base(f)' = Base(f)
    <2>1. DbFirst(f)' = DbFirst(f)
      BY <1>6 DEF DbFirst
    <2>2. CASE DbFirst(f)
      BY <1>6, <2>1, <2>2 DEF Base
    <2>3. CASE ~DbFirst(f)
      BY <1>1, <1>2, <1>6, <2>1, <2>3 DEF Base, Pos
    <2> QED BY <2>2, <2>3
  <1> QED BY <1>5, <1>6

\* A step that moves nothing towards f.
Quiet(f) ==
    /\ chan'[f] = chan[f] /\ fdb'[f] = fdb[f]
    /\ \A i \in DOMAIN pushq' : PushAt(f, i)' =>
          i \in DOMAIN pushq /\ PushAt(f, i) /\ pushq'[i].msg = pushq[i].msg
    /\ relay'[f] = "live" =>
          /\ relay[f] = "live"
          /\ \A i \in DOMAIN pushq : PushAt(f, i) =>
                i \in DOMAIN pushq' /\ PushAt(f, i)' /\ pushq'[i].msg = pushq[i].msg
\* ... and makes it miss nothing.
Calm(f) ==
    /\ Quiet(f)
    /\ raced[f] => raced'[f]
    /\ \/ UNCHANGED Decided
       \/ relay[f] # "live" /\ (joinpc[f] # "none" => raced'[f])
    /\ joinpc'[f] # "none" =>
          /\ joinpc'[f] = joinpc[f] /\ snap'[f] = snap[f]
          /\ broken[f] => broken'[f]
          /\ ~raced'[f] /\ inflight = <<>> => inflight' = <<>>

\* The order towards f is left alone by steps that touch nothing on the way to
\* f.
LEMMA OrderedQuiet ==
    ASSUME TypeOK, TypeOK', Once, Once', Grows, Contents, NEW f \in Follower,
           Quiet(f), OrderedAt(f)
    PROVE  OrderedAt(f)'
  <1>1. PlacesKnown
    BY PlacesFound
  <1>2. Base(f)' = Base(f)
    BY BaseKnown DEF Quiet
  <1>3. \A j \in DOMAIN chan[f] : TxAt(f, j)' <=> TxAt(f, j)
    BY DEF Quiet, TxAt
  <1>4. \A j \in DOMAIN chan'[f] : TxAt(f, j)' =>
          /\ j \in DOMAIN chan[f] /\ TxAt(f, j) /\ chan'[f][j] = chan[f][j]
          /\ Pos(chan[f][j].op)' = Pos(chan[f][j].op)
    BY <1>1, <1>3 DEF Quiet, PlacesKnown, Pos
  <1>5. \A i \in DOMAIN pushq' : PushAt(f, i)' =>
          /\ i \in DOMAIN pushq /\ PushAt(f, i)
          /\ Pos(pushq[i].msg.op)' = Pos(pushq[i].msg.op)
    BY <1>1 DEF Quiet, PlacesKnown, PushAt, Pos
  <1>6. relay'[f] = "live" => relay[f] = "live"
    BY DEF Quiet
  <1> QED BY <1>2, <1>4, <1>5, <1>6 DEF OrderedAt

\* The same of completeness, unless the step adds to the log.
LEMMA CompleteCalm ==
    ASSUME TypeOK, TypeOK', Once, Once', Grows, Contents, NEW f \in Follower,
           Calm(f), Registered, ~raced'[f], ~raced[f] => CompleteAt(f)
    PROVE  CompleteAt(f)'
  <1>0. CompleteAt(f) /\ Quiet(f) /\ (raced[f] => raced'[f])
    BY DEF Calm
  <1>1. PlacesKnown /\ Base(f)' = Base(f) /\ Base(f) \in 0 .. Len(Decided)
    BY <1>0, PlacesFound, BaseKnown DEF Quiet
  <1>2. /\ Len(Decided) \in Nat
        /\ \A p \in 1 .. Len(Decided) : Decided'[p] = Decided[p]
    BY PlacesKept
  <1>3. \A o : InChan(f, o) => InChan(f, o)'
    BY <1>0 DEF Quiet, InChan, TxAt
  <1>4. ASSUME NEW j \in DOMAIN chan'[f], TxAt(f, j)',
               NEW p \in (Base(f) + 1)' .. Pos(chan[f][j].op)'
        PROVE  InChan(f, Decided[p])'
    <2>1. j \in DOMAIN chan[f] /\ TxAt(f, j) /\ chan'[f][j] = chan[f][j]
      BY <1>0, <1>4 DEF Quiet, TxAt
    <2>2. Pos(chan[f][j].op)' = Pos(chan[f][j].op) /\ Pos(chan[f][j].op) \in 1 .. Len(Decided)
      BY <1>1, <2>1 DEF PlacesKnown, Pos
    <2>3. p \in Base(f) + 1 .. Pos(chan[f][j].op) /\ p \in 1 .. Len(Decided)
      BY <1>1, <1>2, <1>4, <2>2
    <2>4. InChan(f, Decided[p])
      BY <1>0, <2>1, <2>3 DEF CompleteAt
    <2> QED BY <1>2, <1>3, <2>3, <2>4
  <1>5. ASSUME relay'[f] = "live", NEW p \in (Base(f) + 1)' .. Len(Decided')
        PROVE  InChan(f, Decided[p])' \/ InPush(f, Decided[p])'
    <2>1. relay[f] = "live" /\ UNCHANGED Decided
      BY <1>0, <1>5 DEF Calm, Quiet
    <2>2. p \in Base(f) + 1 .. Len(Decided)
      BY <1>1, <1>5, <2>1
    <2>3. InChan(f, Decided[p]) \/ InPush(f, Decided[p])
      BY <1>0, <2>1, <2>2 DEF CompleteAt
    <2>4. \A o : InPush(f, o) => InPush(f, o)'
      BY <1>5 DEF Calm, Quiet, InPush
    <2> QED BY <1>3, <2>1, <2>3, <2>4
  <1>6. /\ joinpc'[f] # "none" => inflight' = <<>>
        /\ joinpc'[f] = "dumped" => Len(snap'[f]) = Len(Decided')
        /\ joinpc'[f] = "sent" /\ ~broken'[f] => Base(f)' = Len(Decided')
    <2> SUFFICES ASSUME joinpc'[f] # "none"
                 PROVE  /\ inflight' = <<>>
                        /\ joinpc'[f] = "dumped" => Len(snap'[f]) = Len(Decided')
                        /\ joinpc'[f] = "sent" /\ ~broken'[f] => Base(f)' = Len(Decided')
      OBVIOUS
    <2>1. joinpc'[f] = joinpc[f] /\ snap'[f] = snap[f] /\ (broken[f] => broken'[f])
      BY DEF Calm
    <2>2. inflight' = <<>>
      BY <1>0, <2>1 DEF Calm, CompleteAt
    <2>3. UNCHANGED Decided
      BY <2>1 DEF Calm
    <2> QED BY <1>0, <1>1, <2>1, <2>2, <2>3 DEF CompleteAt
  <1> QED BY <1>4, <1>5, <1>6 DEF CompleteAt

\* A change is counted, and pushed to whoever is registered.
Counts(o) == Commit(o) /\ inflight' = Append(inflight, o)

\* The steps that move changes towards f, or make it miss some.
Moving(f) ==
    \/ \E o \in Op : Counts(o)
    \/ Push
    \/ JoinRegister(f) \/ JoinSend(f) \/ Receive(f) \/ StopFollowing(f)
    \/ \E n \in 0 .. Len(ldb) : JoinDump(f, n)

\* What waits for f is not touched by pushes that carry no changes.
LEMMA QuietPushes ==
    ASSUME Growth, NEW f \in Follower, fdb'[f] = fdb[f],
           \A i \in DOMAIN pushq' \ DOMAIN pushq : pushq'[i].msg.kind # "tx",
           relay'[f] = "live" =>
              /\ relay[f] = "live"
              /\ \A i \in DOMAIN pushq :
                    pushq[i].open /\ pushq[i].to = f => pushq'[i].open
    PROVE  Quiet(f)
  <1>1. chan'[f] = chan[f]
    BY DEF Growth
  <1>2. \A i \in DOMAIN pushq :
          /\ i \in DOMAIN pushq' /\ pushq'[i].to = pushq[i].to
          /\ pushq'[i].msg = pushq[i].msg /\ (pushq'[i].open => pushq[i].open)
    BY DEF Growth
  <1>3. \A i \in DOMAIN pushq' : PushAt(f, i)' =>
          i \in DOMAIN pushq /\ PushAt(f, i) /\ pushq'[i].msg = pushq[i].msg
    BY <1>2 DEF PushAt
  <1>4. relay'[f] = "live" => \A i \in DOMAIN pushq : PushAt(f, i) =>
          i \in DOMAIN pushq' /\ PushAt(f, i)' /\ pushq'[i].msg = pushq[i].msg
    BY <1>2 DEF PushAt
  <1> QED BY <1>1, <1>3, <1>4 DEF Quiet

\* A step that touches neither pushes nor messages of f is quiet.
LEMMA QuietStill ==
    ASSUME NEW f \in Follower, pushq' = pushq, chan'[f] = chan[f], fdb'[f] = fdb[f],
           relay'[f] = "live" => relay[f] = "live"
    PROVE  Quiet(f)
  BY DEF Quiet, PushAt

\* Which actions are calm for which follower: all that are not Moving.
LEMMA CalmSteps ==
    ASSUME TypeOK, TypeOK', Tenure, Step, NEW f \in Follower, ~Moving(f)
    PROVE  Calm(f)
  <1>0. /\ Registered /\ NoFarewell /\ Typed
        /\ raced \in [Follower -> BOOLEAN]
        /\ raced' \in [Follower -> BOOLEAN]
    BY Types DEF Tenure, TypeOK, JoinsOK
  <1>1. ASSUME NEW o \in Op, Submit(o) PROVE Calm(f)
    <2>1. /\ UNCHANGED <<relay, fdb, joinpc, snap, broken, inflight>>
      BY <1>1 DEF Submit, followervars, netvars
    <2>2. \A i \in DOMAIN pushq' \ DOMAIN pushq : pushq'[i].msg.kind # "tx"
      <3>1. UNCHANGED pushq \/ Enqueued(ToSet(streams), Null(o))
        BY <1>1, SubmitPushes
      <3> QED BY <3>1 DEF Enqueued, Null
    <2>3. /\ Growth
          /\ \A i \in DOMAIN pushq : pushq'[i] = pushq[i]
      <3>1. UNCHANGED pushq \/ Enqueued(ToSet(streams), Null(o))
        BY <1>1, SubmitPushes
      <3>2. Growth
        BY <1>1, PushesGrow DEF Pushing
      <3> QED BY <3>1, <3>2 DEF Enqueued
    <2>4. Quiet(f)
      BY <2>1, <2>2, <2>3, QuietPushes
    <2>5. CASE UNCHANGED ldb
      <3>1. UNCHANGED raced \/ ldb' = Append(ldb, o)
        BY <1>1 DEF Submit
      <3>2. ldb \in Seq(Op)
        BY DEF TypeOK, LeaderOK
      <3>3. Len(Append(ldb, o)) # Len(ldb)
        BY <3>2
      <3>4. UNCHANGED <<raced, Decided>>
        BY <2>1, <2>5, <3>1, <3>3 DEF Decided
      <3> QED BY <2>1, <2>4, <3>4 DEF Calm
    <2>6. CASE ~UNCHANGED ldb
      <3>1. streams = <<>> /\ MarkRaced
        BY <1>1, <2>6 DEF Submit
      <3>2. relay[f] # "live"
        BY <1>0, <3>1, EmptyList DEF Registered
      <3>3. (raced[f] => raced'[f]) /\ (joinpc[f] # "none" => raced'[f])
        BY <1>0, <3>1 DEF MarkRaced, Racing
      <3> QED BY <2>1, <2>4, <3>2, <3>3 DEF Calm
    <2> QED BY <2>5, <2>6
  <1>2. ASSUME \/ \E g \in Follower : RelayRequest(g) \/ Reannounce(g)
               \/ \E o \in Op : Commit(o) /\ ~Counts(o)
        PROVE  Calm(f)
    <2>1. UNCHANGED <<relay, fdb, joinpc, snap, broken, ldb, inflight, raced>>
      <3>1. ASSUME NEW o \in Op, Commit(o), ~Counts(o)
            PROVE  UNCHANGED <<relay, fdb, joinpc, snap, broken, ldb, inflight, raced>>
        <4>1. UNCHANGED <<inflight, raced>>
          BY <3>1, CommitPushes DEF Counts
        <4> QED BY <3>1, <4>1 DEF Commit, followervars, netvars
      <3> QED BY <1>2, <3>1 DEF RelayRequest, Reannounce, leadervars, opvars, joinvars,
             followervars, netvars
    <2>2. \A i \in DOMAIN pushq' \ DOMAIN pushq : pushq'[i].msg.kind # "tx"
      <3>1. Fresh
        BY <1>2, FreshPushes DEF Pushing
      <3>2. inflight \in Seq(Op)
        BY DEF TypeOK, ChangesOK
      <3>3. \A o \in Op : inflight' # Append(inflight, o)
        <4>1. \A o \in Op : Len(Append(inflight, o)) # Len(inflight)
          BY <3>2
        <4> QED BY <2>1, <4>1
      <3> QED BY <3>1, <3>3 DEF Fresh
    <2>3. /\ Growth
          /\ \A i \in DOMAIN pushq : pushq'[i] = pushq[i]
      <3>1. Growth
        BY <1>2, PushesGrow DEF Pushing
      <3>2. ASSUME NEW g \in Follower, RelayRequest(g)
            PROVE  \A i \in DOMAIN pushq : pushq'[i] = pushq[i]
        BY <3>2, RequestPushes DEF Enqueued
      <3>3. ASSUME NEW g \in Follower, Reannounce(g)
            PROVE  \A i \in DOMAIN pushq : pushq'[i] = pushq[i]
        BY <3>3, AnnouncePushes DEF Enqueued
      <3>4. ASSUME NEW o \in Op, Commit(o)
            PROVE  \A i \in DOMAIN pushq : pushq'[i] = pushq[i]
        BY <3>4, CommitPushes DEF Enqueued
      <3> QED BY <1>2, <3>1, <3>2, <3>3, <3>4
    <2>4. Quiet(f)
      BY <2>1, <2>2, <2>3, QuietPushes
    <2>5. UNCHANGED Decided
      BY <2>1 DEF Decided
    <2> QED BY <2>1, <2>4, <2>5 DEF Calm
  <1>3. CASE Apply
    <2>1. UNCHANGED <<relay, fdb, joinpc, snap, broken>>
      BY <1>3 DEF Apply, followervars, netvars
    <2>2. \A i \in DOMAIN pushq' \ DOMAIN pushq : pushq'[i].msg.kind # "tx"
      <3>1. UNCHANGED pushq
            \/ Enqueued({origin[Head(inflight)]}, Ret(Head(inflight), TRUE))
        BY <1>3, ApplyPushes
      <3>2. Ret(Head(inflight), TRUE).kind = "ret"
        BY DEF Ret
      <3> QED BY <3>1, <3>2 DEF Enqueued
    <2>3. /\ Growth
          /\ \A i \in DOMAIN pushq : pushq'[i] = pushq[i]
      <3>1. UNCHANGED pushq
            \/ Enqueued({origin[Head(inflight)]}, Ret(Head(inflight), TRUE))
        BY <1>3, ApplyPushes
      <3>2. Growth
        BY <1>3, PushesGrow DEF Pushing
      <3> QED BY <3>1, <3>2 DEF Enqueued
    <2>4. Quiet(f)
      BY <2>1, <2>2, <2>3, QuietPushes
    <2>5. UNCHANGED Decided
      <3>1. /\ ldb \in Seq(Op) /\ inflight \in Seq(Op) /\ inflight # <<>>
            /\ ldb' = Append(ldb, Head(inflight)) /\ inflight' = Tail(inflight)
        BY <1>3 DEF Apply, TypeOK, LeaderOK, ChangesOK
      <3> QED BY <3>1, LogMoves DEF Decided
    <2>6. inflight # <<>> /\ (raced[f] => raced'[f])
      BY <1>0, <1>3 DEF Apply, MarkRaced
    <2> QED BY <2>1, <2>4, <2>5, <2>6 DEF Calm
  <1>4. ASSUME NEW g \in Follower, JoinRegister(g) PROVE Calm(f)
    <2>0. f # g
      BY <1>4 DEF Moving
    <2>1. /\ UNCHANGED <<fdb, snap, broken, ldb, inflight, raced>>
          /\ relay' = [relay EXCEPT ![g] = IF broken[g] THEN "broken" ELSE "live"]
          /\ joinpc' = [joinpc EXCEPT ![g] = "none"]
      BY <1>4 DEF JoinRegister, followervars, netvars
    <2>2. Enqueued(ToSet(streams'), Quorum(hasquorum', g)) /\ Growth
      BY <1>4, RegisterPushes, PushesGrow DEF Pushing
    <2>3. Quorum(hasquorum', g).kind = "quorum"
      BY DEF Quorum
    <2>4. /\ \A i \in DOMAIN pushq' \ DOMAIN pushq : pushq'[i].msg.kind # "tx"
          /\ \A i \in DOMAIN pushq : pushq'[i] = pushq[i]
      BY <2>2, <2>3 DEF Enqueued
    <2>5. relay'[f] = relay[f] /\ joinpc'[f] = joinpc[f]
      BY <1>0, <2>0, <2>1 DEF Typed
    <2>6. Quiet(f)
      BY <2>1, <2>2, <2>4, <2>5, QuietPushes
    <2> QED BY <2>1, <2>5, <2>6 DEF Calm, Decided
  <1>5. ASSUME NEW g \in Follower, RelayEnd(g) PROVE Calm(f)
    <2>1. /\ UNCHANGED <<fdb, snap, ldb, inflight, raced, joinpc>>
          /\ \E r \in {"none", "ending"} : relay' = [relay EXCEPT ![g] = r]
          /\ broken' = [broken EXCEPT ![g] = @ \/ relay[g] = "live"]
      BY <1>5 DEF RelayEnd, followervars, joinvars
    <2>2. /\ \A i \in DOMAIN pushq :
                pushq'[i].open = (pushq[i].open /\ pushq[i].to # g)
          /\ \A i \in DOMAIN pushq' \ DOMAIN pushq :
                pushq'[i].msg = Quorum(hasquorum', g)
      BY <1>5, Closes
    <2>3. \A i \in DOMAIN pushq' \ DOMAIN pushq : pushq'[i].msg.kind # "tx"
      BY <2>2 DEF Quorum
    <2>4. relay'[f] = "live" => f # g /\ relay[f] = "live"
      BY <1>0, <2>1 DEF Typed
    <2>5. Growth
      BY <1>5, PushesGrow DEF Pushing
    <2>6. Quiet(f)
      BY <2>1, <2>2, <2>3, <2>4, <2>5, QuietPushes
    <2>7. broken[f] => broken'[f]
      BY <1>0, <2>1 DEF Typed
    <2> QED BY <2>1, <2>6, <2>7 DEF Calm, Decided
  <1>6. ASSUME NEW g \in Follower, f # g,
               JoinSend(g) \/ StopFollowing(g) \/ \E n \in 0 .. Len(ldb) : JoinDump(g, n)
        PROVE  Calm(f)
    <2>1. /\ UNCHANGED <<relay, pushq, fdb, ldb, inflight>>
          /\ chan'[f] = chan[f] /\ joinpc'[f] = joinpc[f] /\ snap'[f] = snap[f]
          /\ broken'[f] = broken[f] /\ raced'[f] = raced[f]
      <3>1. CASE JoinSend(g)
        <4>1. /\ UNCHANGED <<relay, pushq, fdb, ldb, inflight, broken, raced>>
              /\ \E s \in {"sent"} : joinpc' = [joinpc EXCEPT ![g] = s]
              /\ chan' = chan \/ chan' = [chan EXCEPT ![g] = <<Db(snap[g], txcount)>>]
              /\ snap' = [snap EXCEPT ![g] = <<>>]
          BY <3>1 DEF JoinSend, leadervars, opvars, followervars, netvars
        <4> QED BY <1>0, <1>6, <4>1 DEF Typed, TypeOK, JoinsOK
      <3>2. CASE StopFollowing(g)
        <4>1. /\ UNCHANGED <<relay, pushq, fdb, ldb, inflight, broken, raced, joinpc, snap>>
              /\ chan' = [chan EXCEPT ![g] = <<>>]
          BY <3>2 DEF StopFollowing, leadervars, opvars, joinvars
        <4> QED BY <1>0, <1>6, <4>1 DEF Typed
      <3>3. ASSUME NEW n \in 0 .. Len(ldb), JoinDump(g, n)
            PROVE  /\ UNCHANGED <<relay, pushq, fdb, ldb, inflight>>
                   /\ chan'[f] = chan[f] /\ joinpc'[f] = joinpc[f] /\ snap'[f] = snap[f]
                   /\ broken'[f] = broken[f] /\ raced'[f] = raced[f]
        <4>1. /\ UNCHANGED <<relay, pushq, fdb, ldb, inflight, chan>>
              /\ joinpc' = [joinpc EXCEPT ![g] = "dumped"]
              /\ snap' = [snap EXCEPT ![g] = SubSeq(ldb, 1, n)]
              /\ raced' = [raced EXCEPT ![g] = n < Len(ldb) \/ inflight # <<>>]
              /\ broken' = [broken EXCEPT ![g] = FALSE]
          BY <3>3 DEF JoinDump, leadervars, opvars, followervars
        <4>2. snap = [h \in Follower |-> snap[h]] /\ raced = [h \in Follower |-> raced[h]]
              /\ broken = [h \in Follower |-> broken[h]]
          BY <1>0 DEF Typed, TypeOK, JoinsOK
        <4> QED BY <1>0, <1>6, <4>1, <4>2 DEF Typed
      <3> QED BY <1>6, <3>1, <3>2, <3>3
    <2>2. Quiet(f)
      BY <2>1, QuietStill
    <2> QED BY <2>1, <2>2 DEF Calm, Decided
  <1>7. ASSUME NEW g \in Follower, f # g, Receive(g) PROVE Calm(f)
    <2>1. /\ UNCHANGED <<relay, pushq, ldb, inflight, joinpc, snap, broken, raced>>
          /\ chan' = [chan EXCEPT ![g] = Tail(@)]
      BY <1>0, <1>7, Receives DEF leadervars, opvars, joinvars
    <2>2. chan'[f] = chan[f] /\ fdb'[f] = fdb[f]
      <3>1. fdb' = fdb \/ \E s : fdb' = [fdb EXCEPT ![g] = s]
        BY <1>0, <1>7, Receives
      <3>2. fdb = [h \in Follower |-> fdb[h]]
        BY DEF TypeOK, FollowersOK
      <3> QED BY <1>0, <1>7, <2>1, <3>1, <3>2 DEF Typed
    <2>3. Quiet(f)
      BY <2>1, <2>2, QuietStill
    <2> QED BY <2>1, <2>3 DEF Calm, Decided
  <1>8. CASE \/ UNCHANGED vars
             \/ \E g \in Follower : \/ Break(g) \/ RelayExit(g)
                                    \/ \E o \in Op : Request(g, o)
    <2>1. UNCHANGED <<pushq, chan, fdb, ldb, inflight, joinpc, snap, raced>>
      BY <1>8 DEF Break, RelayExit, Request, vars, leadervars, opvars, joinvars,
         followervars, netvars
    <2>2. /\ relay'[f] = "live" => relay[f] = "live"
          /\ broken[f] => broken'[f]
      <3>1. ASSUME NEW g \in Follower, Break(g)
            PROVE  /\ relay'[f] = "live" => relay[f] = "live"
                   /\ broken[f] => broken'[f]
        <4>1. /\ relay' = [relay EXCEPT ![g] = IF @ = "live" THEN "broken" ELSE @]
              /\ broken' = [broken EXCEPT ![g] = TRUE]
          BY <3>1 DEF Break
        <4> QED BY <1>0, <4>1 DEF Typed
      <3>2. ASSUME NEW g \in Follower, RelayExit(g)
            PROVE  /\ relay'[f] = "live" => relay[f] = "live"
                   /\ broken[f] => broken'[f]
        <4>1. relay' = [relay EXCEPT ![g] = "none"] /\ UNCHANGED broken
          BY <3>2 DEF RelayExit, netvars
        <4> QED BY <1>0, <4>1 DEF Typed
      <3>3. UNCHANGED <<relay, broken>> \/ \E g \in Follower : Break(g) \/ RelayExit(g)
        BY <1>8 DEF Request, vars, leadervars, netvars
      <3> QED BY <3>1, <3>2, <3>3
    <2>3. Quiet(f)
      BY <2>1, <2>2, QuietStill
    <2> QED BY <2>1, <2>2, <2>3 DEF Calm, Decided
  <1> QED BY <1>1, <1>2, <1>3, <1>4, <1>5, <1>6, <1>7, <1>8 DEF Step, Pushing, Moving

\* A change that is counted is behind all others on its way to every follower.
LEMMA WayCounts ==
    ASSUME TypeOK, TypeOK', Tenure, Once', Grows, NEW f \in Follower, NEW o \in Op,
           Counts(o)
    PROVE  OrderedAt(f)' /\ (~raced'[f] => CompleteAt(f)')
  <1>0. /\ Typed /\ Contents /\ Registered /\ OrderedAt(f) /\ (~raced[f] => CompleteAt(f))
        /\ ldb \in Seq(Op) /\ inflight \in Seq(Op) /\ Decided \in Seq(Op)
        /\ Len(Decided) \in Nat /\ raced \in [Follower -> BOOLEAN]
    <2>1. ldb \in Seq(Op) /\ inflight \in Seq(Op) /\ raced \in [Follower -> BOOLEAN]
      BY DEF TypeOK, LeaderOK, ChangesOK, JoinsOK
    <2>2. Decided \in Seq(Op)
      BY <2>1, LogMember DEF Decided
    <2> QED BY <2>1, <2>2, Types DEF Tenure, Ordered, Complete
  <1>1. PlacesKnown /\ Base(f) \in 0 .. Len(Decided)
    BY <1>0, PlacesFound, BaseKnown DEF Tenure
  <1>2. UNCHANGED <<chan, fdb, relay, joinpc, snap, broken, streams, ldb>>
    BY DEF Counts, Commit, followervars, netvars
  <1>3. MarkRaced /\ pushq' = Broadcast(pushq, streams, Tx(o, txcount + 1))
    <2>1. Len(Append(inflight, o)) # Len(inflight)
      BY <1>0
    <2> QED BY <2>1, CommitPushes DEF Counts
  <1>4. Decided' = Append(Decided, o)
    BY <1>0, <1>2, LogAppend DEF Counts, Decided
  <1>5. /\ Len(Decided') = Len(Decided) + 1 /\ Decided'[Len(Decided) + 1] = o
        /\ \A p \in 1 .. Len(Decided) : Decided'[p] = Decided[p]
    BY <1>0, <1>4, AppendProperties
  <1>6. PosOf(Decided', o) = Len(Decided) + 1
    <2>1. \A p \in 1 .. Len(Decided') : PosOf(Decided', Decided'[p]) = p
      BY PlacesKept DEF Pos, Tenure
    <2> QED BY <1>0, <1>5, <2>1
  <1>7. /\ Enqueued(ToSet(streams), Tx(o, txcount + 1))
        /\ \A g \in ToSet(streams) : \E i \in DOMAIN pushq' \ DOMAIN pushq :
             pushq'[i].to = g
        /\ \A i, k \in DOMAIN pushq' \ DOMAIN pushq :
             i # k => pushq'[i].to # pushq'[k].to
    <2>1. /\ txcount + 1 \in Nat /\ pushq \in Seq(Waiting(txcount + 1))
          /\ streams \in Seq(Follower) /\ IsInjective(streams)
      BY MessageGrows DEF TypeOK, LeaderOK, ChangesOK
    <2>2. Tx(o, txcount + 1) \in Message(txcount + 1)
      BY <2>1, MessageMade
    <2> QED BY <1>3, <2>1, <2>2, EnqueuedAll
  <1>8. Base(f)' = Base(f)
    BY <1>0, <1>2, BaseKnown DEF Tenure
  <1>9. /\ \A i \in DOMAIN pushq : i \in DOMAIN pushq' /\ pushq'[i] = pushq[i]
        /\ \A i \in DOMAIN pushq' \ DOMAIN pushq :
             /\ i > Len(pushq) /\ pushq'[i].open
             /\ pushq'[i].msg.kind = "tx" /\ pushq'[i].msg.op = o
    BY <1>7 DEF Enqueued, Tx
  <1>10. \A j \in DOMAIN chan[f] : TxAt(f, j)' <=> TxAt(f, j)
    BY <1>2 DEF TxAt
  <1>11. \A j \in DOMAIN chan[f] : TxAt(f, j) =>
           /\ PosOf(Decided', chan[f][j].op) = Pos(chan[f][j].op)
           /\ Pos(chan[f][j].op) \in 1 .. Len(Decided)
    BY <1>1 DEF PlacesKnown
  <1>12. \A i \in DOMAIN pushq : PushAt(f, i) =>
           /\ PosOf(Decided', pushq'[i].msg.op) = Pos(pushq[i].msg.op)
           /\ Pos(pushq[i].msg.op) \in 1 .. Len(Decided)
    BY <1>1, <1>9 DEF PlacesKnown, PushAt
  <1>13. \A i \in DOMAIN pushq : PushAt(f, i)' <=> PushAt(f, i)
    BY <1>9 DEF PushAt
  <1>14. \A i \in DOMAIN pushq' \ DOMAIN pushq :
           PosOf(Decided', pushq'[i].msg.op) = Len(Decided) + 1
    BY <1>6, <1>9
  <1>15. OrderedAt(f)'
    <2>1. ASSUME NEW j \in DOMAIN chan[f], TxAt(f, j)
          PROVE  /\ Base(f) < PosOf(Decided', chan[f][j].op)
                 /\ \A k \in DOMAIN chan[f] : j < k /\ TxAt(f, k) =>
                      PosOf(Decided', chan[f][j].op) < PosOf(Decided', chan[f][k].op)
      BY <1>0, <1>11, <2>1 DEF OrderedAt
    <2>2. ASSUME relay[f] = "live", NEW i \in DOMAIN pushq', PushAt(f, i)'
          PROVE  /\ Base(f) < PosOf(Decided', pushq'[i].msg.op)
                 /\ \A j \in DOMAIN chan[f] : TxAt(f, j) =>
                      PosOf(Decided', chan[f][j].op) < PosOf(Decided', pushq'[i].msg.op)
                 /\ \A k \in DOMAIN pushq' : i < k /\ PushAt(f, k)' =>
                      PosOf(Decided', pushq'[i].msg.op) < PosOf(Decided', pushq'[k].msg.op)
      <3>1. CASE i \in DOMAIN pushq
        <4>1. PushAt(f, i)
          BY <1>13, <2>2, <3>1
        <4>2. /\ Base(f) < PosOf(Decided', pushq'[i].msg.op)
              /\ \A j \in DOMAIN chan[f] : TxAt(f, j) =>
                      PosOf(Decided', chan[f][j].op) < PosOf(Decided', pushq'[i].msg.op)
          BY <1>0, <1>11, <1>12, <2>2, <3>1, <4>1 DEF OrderedAt
        <4>3. ASSUME NEW k \in DOMAIN pushq', i < k, PushAt(f, k)'
              PROVE  PosOf(Decided', pushq'[i].msg.op) < PosOf(Decided', pushq'[k].msg.op)
          <5>1. CASE k \in DOMAIN pushq
            BY <1>0, <1>12, <1>13, <2>2, <3>1, <4>1, <4>3, <5>1 DEF OrderedAt
          <5>2. CASE k \notin DOMAIN pushq
            BY <1>0, <1>12, <1>14, <3>1, <4>1, <4>3, <5>2
          <5> QED BY <5>1, <5>2
        <4> QED BY <4>2, <4>3
      <3>2. CASE i \notin DOMAIN pushq
        <4>1. PosOf(Decided', pushq'[i].msg.op) = Len(Decided) + 1
          BY <1>14, <2>2, <3>2
        <4>2. \A k \in DOMAIN pushq' : i < k /\ PushAt(f, k)' => FALSE
          <5> SUFFICES ASSUME NEW k \in DOMAIN pushq', i < k, PushAt(f, k)' PROVE FALSE
            OBVIOUS
          <5>1. DOMAIN pushq' = 1 .. Len(pushq') /\ Len(pushq') \in Nat
            BY DEF TypeOK, ChangesOK
          <5>2. i > Len(pushq)
            BY <1>9, <2>2, <3>2
          <5>3. k \notin DOMAIN pushq /\ i # k
            BY <1>0, <5>1, <5>2 DEF Typed
          <5>4. pushq'[i].to = f /\ pushq'[k].to = f
            BY <2>2 DEF PushAt
          <5> QED BY <1>7, <2>2, <3>2, <5>3, <5>4
        <4> QED BY <1>0, <1>1, <1>11, <4>1, <4>2
      <3> QED BY <3>1, <3>2
    <2> QED BY <1>2, <1>8, <1>10, <2>1, <2>2 DEF OrderedAt, Pos
  <1>16. ASSUME ~raced'[f] PROVE CompleteAt(f)'
    <2>1. CompleteAt(f) /\ joinpc[f] = "none"
      BY <1>0, <1>3, <1>16 DEF MarkRaced, Racing
    <2>2. \A x : /\ InChan(f, x) => InChan(f, x)'
                 /\ InPush(f, x) => InPush(f, x)'
      BY <1>2, <1>9, <1>13 DEF InChan, InPush, TxAt
    <2>3. ASSUME NEW j \in DOMAIN chan[f], TxAt(f, j),
                 NEW p \in Base(f) + 1 .. PosOf(Decided', chan[f][j].op)
          PROVE  InChan(f, Decided[p])'
      <3>1. p \in Base(f) + 1 .. Pos(chan[f][j].op) /\ p \in 1 .. Len(Decided)
        BY <1>0, <1>1, <1>11, <2>3
      <3>2. InChan(f, Decided[p]) /\ Decided'[p] = Decided[p]
        BY <1>5, <2>1, <2>3, <3>1 DEF CompleteAt
      <3> QED BY <2>2, <3>2
    <2>4. ASSUME relay[f] = "live", NEW p \in Base(f) + 1 .. Len(Decided')
          PROVE  InChan(f, Decided[p])' \/ InPush(f, Decided[p])'
      <3>1. CASE p <= Len(Decided)
        <4>1. p \in Base(f) + 1 .. Len(Decided) /\ p \in 1 .. Len(Decided)
          BY <1>0, <1>1, <1>5, <2>4, <3>1
        <4>2. (InChan(f, Decided[p]) \/ InPush(f, Decided[p])) /\ Decided'[p] = Decided[p]
          BY <1>5, <2>1, <2>4, <4>1 DEF CompleteAt
        <4> QED BY <2>2, <4>2
      <3>2. CASE p > Len(Decided)
        <4>1. p = Len(Decided) + 1
          BY <1>0, <1>1, <1>5, <2>4, <3>2
        <4>2. f \in ToSet(streams)
          BY <1>0, <2>4 DEF Registered
        <4>3. PICK i \in DOMAIN pushq' \ DOMAIN pushq : pushq'[i].to = f
          BY <1>7, <4>2
        <4>4. PushAt(f, i)' /\ pushq'[i].msg.op = Decided'[p]
          BY <1>5, <1>9, <4>1, <4>3 DEF PushAt
        <4> QED BY <4>3, <4>4 DEF InPush
      <3> QED BY <1>0, <1>1, <1>5, <2>4, <3>1, <3>2
    <2> QED BY <1>2, <1>8, <1>10, <2>1, <2>3, <2>4 DEF CompleteAt, Pos
  <1> QED BY <1>15, <1>16

\* The first push moves to the end of a connection.
LEMMA WayPushes ==
    ASSUME TypeOK, TypeOK', Tenure, Once', Grows, NEW f \in Follower, Push
    PROVE  OrderedAt(f)' /\ (~raced'[f] => CompleteAt(f)')
  <1>0. /\ Typed /\ Contents /\ Registered /\ Dumps /\ NoFarewell
        /\ OrderedAt(f) /\ (~raced[f] => CompleteAt(f)) /\ Len(Decided) \in Nat
    BY Types, PlacesKept DEF Tenure, Ordered, Complete
  <1>1. PlacesKnown /\ Base(f) \in 0 .. Len(Decided)
    BY <1>0, PlacesFound, BaseKnown DEF Tenure
  <1>2. UNCHANGED <<fdb, relay, joinpc, snap, broken, ldb, inflight, Decided, raced>>
    BY DEF Push, joinvars, followervars, Decided
  <1>3. /\ 1 \in DOMAIN pushq
        /\ \A i \in DOMAIN pushq' :
             i + 1 \in DOMAIN pushq /\ pushq'[i] = pushq[i + 1]
        /\ \A i \in DOMAIN pushq : i # 1 =>
             i - 1 \in DOMAIN pushq' /\ pushq'[i - 1] = pushq[i]
        /\ \/ ~(pushq[1].to = f /\ Writes(pushq[1])) /\ chan'[f] = chan[f]
           \/ /\ pushq[1].to = f /\ Writes(pushq[1])
              /\ chan'[f] = Append(chan[f], pushq[1].msg)
    BY <1>0, PushMoves
  <1>4. /\ \A i \in DOMAIN pushq' : i \in Nat \ {0}
        /\ \A i \in DOMAIN pushq : i \in Nat \ {0}
    BY DEF TypeOK, ChangesOK
  <1>5. /\ \A i \in DOMAIN pushq' : PushAt(f, i)' => PushAt(f, i + 1)
        /\ \A i \in DOMAIN pushq : i # 1 /\ PushAt(f, i) => PushAt(f, i - 1)'
    BY <1>3 DEF PushAt
  <1>6. CASE chan'[f] = chan[f] /\ ~(pushq[1].to = f /\ Writes(pushq[1]))
    <2>1. Base(f)' = Base(f)
      BY <1>0, <1>2, <1>6, BaseKnown DEF Tenure
    <2>2. relay[f] = "live" => ~PushAt(f, 1)
      BY <1>6 DEF PushAt, Writes
    <2>3. \A j \in DOMAIN chan[f] : TxAt(f, j)' <=> TxAt(f, j)
      BY <1>6 DEF TxAt
    <2>4. OrderedAt(f)'
      <3>1. ASSUME relay[f] = "live", NEW i \in DOMAIN pushq', PushAt(f, i)'
            PROVE  /\ Base(f) < Pos(pushq[i + 1].msg.op)
                   /\ \A j \in DOMAIN chan[f] : TxAt(f, j) =>
                        Pos(chan[f][j].op) < Pos(pushq[i + 1].msg.op)
                   /\ \A k \in DOMAIN pushq' : i < k /\ PushAt(f, k)' =>
                        Pos(pushq[i + 1].msg.op) < Pos(pushq[k + 1].msg.op)
        <4>1. i + 1 \in DOMAIN pushq /\ PushAt(f, i + 1)
          BY <1>3, <1>5, <3>1
        <4>2. ASSUME NEW k \in DOMAIN pushq', i < k, PushAt(f, k)'
              PROVE  Pos(pushq[i + 1].msg.op) < Pos(pushq[k + 1].msg.op)
          <5>1. k + 1 \in DOMAIN pushq /\ PushAt(f, k + 1) /\ i + 1 < k + 1
            BY <1>3, <1>4, <1>5, <4>2
          <5> QED BY <1>0, <3>1, <4>1, <5>1 DEF OrderedAt
        <4> QED BY <1>0, <3>1, <4>1, <4>2 DEF OrderedAt
      <3>2. \A i \in DOMAIN pushq' : pushq'[i].msg.op = pushq[i + 1].msg.op
        BY <1>3
      <3> HIDE DEF OrderedAt
      <3>3. /\ \A j \in DOMAIN chan[f] : TxAt(f, j) =>
                  /\ Base(f) < Pos(chan[f][j].op)
                  /\ \A k \in DOMAIN chan[f] : j < k /\ TxAt(f, k) =>
                        Pos(chan[f][j].op) < Pos(chan[f][k].op)
        BY <1>0 DEF OrderedAt
      <3> QED BY <1>2, <1>6, <2>1, <2>3, <3>1, <3>2, <3>3 DEF OrderedAt, Pos
    <2>5. ASSUME ~raced'[f] PROVE CompleteAt(f)'
      <3>1. CompleteAt(f)
        BY <1>0, <1>2, <2>5
      <3>2. \A x : InChan(f, x)' <=> InChan(f, x)
        BY <1>6, <2>3 DEF InChan
      <3>3. relay[f] = "live" => \A x : InPush(f, x) => InPush(f, x)'
        <4> SUFFICES ASSUME relay[f] = "live", NEW x, NEW i \in DOMAIN pushq,
                            PushAt(f, i), pushq[i].msg.op = x
                     PROVE  InPush(f, x)'
          BY DEF InPush
        <4>1. i # 1
          BY <2>2
        <4>2. i - 1 \in DOMAIN pushq' /\ PushAt(f, i - 1)' /\ pushq'[i - 1] = pushq[i]
          BY <1>3, <1>5, <4>1
        <4> QED BY <4>2 DEF InPush
      <3> QED BY <1>2, <1>6, <2>1, <2>3, <3>1, <3>2, <3>3 DEF CompleteAt, Pos
    <2> QED BY <2>4, <2>5
  <1>7. CASE /\ pushq[1].to = f /\ Writes(pushq[1])
             /\ chan'[f] = Append(chan[f], pushq[1].msg)
    <2> DEFINE n == Len(chan[f]) + 1
               m == pushq[1].msg
    <2>0. /\ relay[f] = "live" /\ joinpc[f] = "none" /\ pushq[1].open
          /\ m.kind = "tx" <=> PushAt(f, 1)
      BY <1>0, <1>7 DEF Writes, Registered, PushAt
    <2>1. /\ DOMAIN chan[f] = 1 .. Len(chan[f]) /\ Len(chan[f]) \in Nat
          /\ DOMAIN chan'[f] = 1 .. n /\ chan'[f][n] = m
          /\ \A j \in DOMAIN chan[f] : j \in DOMAIN chan'[f] /\ chan'[f][j] = chan[f][j]
      BY <1>0, <1>7 DEF Typed
    <2>2. m.kind # "db"
      BY <1>0, <1>3 DEF Dumps
    <2> HIDE DEF m, n
    <2>3. Base(f)' = Base(f)
      <3>1. DbFirst(f)' <=> DbFirst(f)
        <4>1. CASE chan[f] = <<>>
          <5>1. n = 1
            BY <4>1 DEF n
          <5> QED BY <2>1, <2>2, <4>1, <5>1 DEF DbFirst
        <4>2. CASE chan[f] # <<>>
          <5>1. 1 \in DOMAIN chan[f]
            BY <1>0, <2>1, <4>2 DEF Typed, TypeOK, ConnectionsOK
          <5>2. chan'[f] # <<>> /\ chan'[f][1] = chan[f][1]
            <6>1. chan'[f][1] = chan[f][1] /\ 1 \in DOMAIN chan'[f]
              BY <2>1, <5>1
            <6> QED BY <6>1
          <5> QED BY <4>2, <5>2 DEF DbFirst
        <4> QED BY <4>1, <4>2
      <3>2. DbFirst(f) => chan'[f][1] = chan[f][1]
        <4>1. chan[f] # <<>> => 1 \in DOMAIN chan[f]
          BY <2>1 DEF TypeOK, ConnectionsOK
        <4> QED BY <2>1, <4>1 DEF DbFirst
      <3> QED BY <1>2, <3>1, <3>2 DEF Base, Pos
    <2>4. /\ \A j \in DOMAIN chan'[f] : TxAt(f, j)' =>
               \/ j \in DOMAIN chan[f] /\ TxAt(f, j) /\ chan'[f][j] = chan[f][j]
               \/ j = n /\ PushAt(f, 1) /\ chan'[f][j] = m
      <3> SUFFICES ASSUME NEW j \in DOMAIN chan'[f], TxAt(f, j)'
                   PROVE  \/ j \in DOMAIN chan[f] /\ TxAt(f, j) /\ chan'[f][j] = chan[f][j]
                          \/ j = n /\ PushAt(f, 1) /\ chan'[f][j] = m
        OBVIOUS
      <3>1. CASE j \in DOMAIN chan[f]
        BY <2>1, <3>1 DEF TxAt
      <3>2. CASE j \notin DOMAIN chan[f]
        <4>1. j = n
          BY <2>1, <3>2 DEF n
        <4> QED BY <2>0, <2>1, <4>1 DEF TxAt
      <3> QED BY <3>1, <3>2
    <2>5. \A i \in DOMAIN pushq : PushAt(f, 1) /\ PushAt(f, i) /\ i # 1 =>
             Pos(m.op) < Pos(pushq[i].msg.op)
      BY <1>0, <1>3, <1>4, <2>0 DEF OrderedAt, m
    <2>6. OrderedAt(f)'
      <3>1. ASSUME NEW j \in DOMAIN chan'[f], TxAt(f, j)'
            PROVE  /\ Base(f) < Pos(chan'[f][j].op)
                   /\ \A k \in DOMAIN chan'[f] : j < k /\ TxAt(f, k)' =>
                        Pos(chan'[f][j].op) < Pos(chan'[f][k].op)
        <4>1. Base(f) < Pos(chan'[f][j].op)
          BY <1>0, <1>3, <2>0, <2>4, <3>1 DEF OrderedAt, m
        <4>2. ASSUME NEW k \in DOMAIN chan'[f], j < k, TxAt(f, k)'
              PROVE  Pos(chan'[f][j].op) < Pos(chan'[f][k].op)
          <5>1. j \in DOMAIN chan[f] /\ TxAt(f, j) /\ chan'[f][j] = chan[f][j]
            BY <2>1, <2>4, <3>1, <4>2 DEF n
          <5>2. CASE k \in DOMAIN chan[f] /\ TxAt(f, k) /\ chan'[f][k] = chan[f][k]
            BY <1>0, <4>2, <5>1, <5>2 DEF OrderedAt
          <5>3. CASE k = n /\ PushAt(f, 1) /\ chan'[f][k] = m
            BY <1>0, <1>3, <2>0, <5>1, <5>3 DEF OrderedAt, m
          <5> QED BY <2>4, <4>2, <5>2, <5>3
        <4> QED BY <4>1, <4>2
      <3>2. ASSUME NEW i \in DOMAIN pushq', PushAt(f, i)'
            PROVE  /\ Base(f) < Pos(pushq'[i].msg.op)
                   /\ \A j \in DOMAIN chan'[f] : TxAt(f, j)' =>
                        Pos(chan'[f][j].op) < Pos(pushq'[i].msg.op)
                   /\ \A k \in DOMAIN pushq' : i < k /\ PushAt(f, k)' =>
                        Pos(pushq'[i].msg.op) < Pos(pushq'[k].msg.op)
        <4>1. /\ i + 1 \in DOMAIN pushq /\ PushAt(f, i + 1) /\ pushq'[i] = pushq[i + 1]
              /\ i + 1 # 1
          BY <1>3, <1>4, <1>5, <3>2
        <4>2. Base(f) < Pos(pushq'[i].msg.op)
          BY <1>0, <2>0, <4>1 DEF OrderedAt
        <4>3. ASSUME NEW j \in DOMAIN chan'[f], TxAt(f, j)'
              PROVE  Pos(chan'[f][j].op) < Pos(pushq'[i].msg.op)
          <5>1. CASE j \in DOMAIN chan[f] /\ TxAt(f, j) /\ chan'[f][j] = chan[f][j]
            BY <1>0, <2>0, <4>1, <5>1 DEF OrderedAt
          <5>2. CASE j = n /\ PushAt(f, 1) /\ chan'[f][j] = m
            BY <2>5, <4>1, <5>2
          <5> QED BY <2>4, <4>3, <5>1, <5>2
        <4>4. ASSUME NEW k \in DOMAIN pushq', i < k, PushAt(f, k)'
              PROVE  Pos(pushq'[i].msg.op) < Pos(pushq'[k].msg.op)
          <5>1. /\ k + 1 \in DOMAIN pushq /\ PushAt(f, k + 1) /\ i + 1 < k + 1
                /\ pushq'[k] = pushq[k + 1]
            BY <1>3, <1>4, <1>5, <4>4
          <5> QED BY <1>0, <2>0, <4>1, <5>1 DEF OrderedAt
        <4> QED BY <4>2, <4>3, <4>4
      <3> QED BY <1>2, <2>3, <3>1, <3>2 DEF OrderedAt, Pos
    <2>7. ASSUME ~raced'[f] PROVE CompleteAt(f)'
      <3>1. CompleteAt(f)
        BY <1>0, <1>2, <2>7
      <3>2. \A x : InChan(f, x) => InChan(f, x)'
        BY <2>1 DEF InChan, TxAt
      <3>3. \A x : InPush(f, x) => InChan(f, x)' \/ InPush(f, x)'
        <4> SUFFICES ASSUME NEW x, NEW i \in DOMAIN pushq,
                            PushAt(f, i), pushq[i].msg.op = x
                     PROVE  InChan(f, x)' \/ InPush(f, x)'
          BY DEF InPush
        <4>1. CASE i = 1
          <5>1. m.kind = "tx" /\ m.op = x
            BY <2>0, <4>1 DEF m
          <5>2. n \in DOMAIN chan'[f]
            BY <2>1 DEF n
          <5>3. chan'[f][n].kind = "tx" /\ chan'[f][n].op = x
            BY <2>1, <5>1, <5>2
          <5> QED BY <5>2, <5>3 DEF InChan, TxAt
        <4>2. CASE i # 1
          <5>1. i - 1 \in DOMAIN pushq' /\ PushAt(f, i - 1)' /\ pushq'[i - 1] = pushq[i]
            BY <1>3, <1>5, <4>2
          <5> QED BY <5>1 DEF InPush
        <4> QED BY <4>1, <4>2
      <3>4. ASSUME NEW p \in Base(f) + 1 .. Len(Decided)
            PROVE  InChan(f, Decided[p])' \/ InPush(f, Decided[p])'
        <4>1. InChan(f, Decided[p]) \/ InPush(f, Decided[p])
          BY <2>0, <3>1, <3>4 DEF CompleteAt
        <4> QED BY <1>2, <3>2, <3>3, <4>1
      <3>5. ASSUME NEW j \in DOMAIN chan'[f], TxAt(f, j)',
                   NEW p \in Base(f) + 1 .. Pos(chan'[f][j].op)
            PROVE  InChan(f, Decided[p])'
        <4>1. CASE j \in DOMAIN chan[f] /\ TxAt(f, j) /\ chan'[f][j] = chan[f][j]
          <5>1. InChan(f, Decided[p])
            BY <3>1, <3>5, <4>1 DEF CompleteAt
          <5> QED BY <1>2, <3>2, <5>1
        <4>2. CASE j = n /\ PushAt(f, 1) /\ chan'[f][j] = m
          <5>1. Pos(m.op) \in 1 .. Len(Decided)
            BY <1>1, <1>3, <4>2 DEF PlacesKnown, PushAt, m
          <5>2. p \in Base(f) + 1 .. Len(Decided) /\ p \in 1 .. Len(Decided)
            BY <1>0, <1>1, <3>5, <4>2, <5>1
          <5>3. CASE InChan(f, Decided[p])
            BY <1>2, <3>2, <5>3
          <5>4. CASE InPush(f, Decided[p])
            <6>1. PICK i \in DOMAIN pushq : PushAt(f, i) /\ pushq[i].msg.op = Decided[p]
              BY <5>4 DEF InPush
            <6>2. Pos(Decided[p]) = p
              BY <5>2, PlacesKept DEF Tenure
            <6>3. i = 1
              BY <1>0, <1>1, <2>5, <3>5, <4>2, <5>1, <5>2, <6>1, <6>2
            <6>4. m.kind = "tx" /\ m.op = Decided[p] /\ n \in DOMAIN chan'[f]
              BY <2>0, <2>1, <4>2, <6>1, <6>3 DEF m, n
            <6>5. chan'[f][n].kind = "tx" /\ chan'[f][n].op = Decided'[p]
              BY <1>2, <2>1, <6>4
            <6> QED BY <6>4, <6>5 DEF InChan, TxAt
          <5> QED BY <2>0, <3>1, <5>2, <5>3, <5>4 DEF CompleteAt
        <4> QED BY <2>4, <3>5, <4>1, <4>2
      <3>6. \A p \in 1 .. Len(Decided) : Decided'[p] = Decided[p]
        BY <1>2
      <3> QED BY <1>2, <2>0, <2>3, <3>4, <3>5 DEF CompleteAt, Pos
    <2> QED BY <2>6, <2>7
  <1> QED BY <1>3, <1>6, <1>7

\* Joining: nothing but the dump is on its way, and it is the whole log.
LEMMA WayJoins ==
    ASSUME TypeOK, TypeOK', Tenure, NEW f \in Follower,
           \/ StopFollowing(f) \/ JoinSend(f)
           \/ \E n \in 0 .. Len(ldb) : JoinDump(f, n)
    PROVE  OrderedAt(f)' /\ (~raced'[f] => CompleteAt(f)')
  <1>0. /\ Typed /\ Registered /\ Dumps /\ (~raced[f] => CompleteAt(f))
        /\ ldb \in Seq(Op) /\ inflight \in Seq(Op)
        /\ snap \in [Follower -> Seq(Op)] /\ raced \in [Follower -> BOOLEAN]
    <2>1. /\ ldb \in Seq(Op) /\ inflight \in Seq(Op)
          /\ snap \in [Follower -> Seq(Op)] /\ raced \in [Follower -> BOOLEAN]
      BY DEF TypeOK, LeaderOK, ChangesOK, JoinsOK
    <2> QED BY <2>1, Types DEF Tenure, Complete
  <1>1. SUFFICES /\ relay'[f] # "live"
                 /\ \A j \in DOMAIN chan'[f] : ~TxAt(f, j)'
                 /\ ~raced'[f] => /\ joinpc'[f] # "none" => inflight' = <<>>
                                  /\ joinpc'[f] = "dumped" => Len(snap'[f]) = Len(Decided')
                                  /\ joinpc'[f] = "sent" /\ ~broken'[f]
                                        => Base(f)' = Len(Decided')
    BY DEF OrderedAt, CompleteAt
  <1>2. CASE StopFollowing(f)
    <2>1. /\ UNCHANGED <<relay, raced, joinpc, snap, broken, ldb, inflight, Decided>>
          /\ chan'[f] = <<>> /\ broken[f]
      BY <1>0, <1>2 DEF StopFollowing, Typed, leadervars, opvars, joinvars, Decided
    <2> QED BY <1>0, <2>1 DEF Registered, CompleteAt
  <1>3. ASSUME NEW n \in 0 .. Len(ldb), JoinDump(f, n)
        PROVE  /\ relay'[f] # "live"
               /\ \A j \in DOMAIN chan'[f] : ~TxAt(f, j)'
               /\ ~raced'[f] => /\ joinpc'[f] # "none" => inflight' = <<>>
                                /\ joinpc'[f] = "dumped" => Len(snap'[f]) = Len(Decided')
                                /\ joinpc'[f] = "sent" /\ ~broken'[f]
                                      => Base(f)' = Len(Decided')
    <2>1. /\ UNCHANGED <<relay, ldb, inflight, chan>>
          /\ chan[f] = <<>> /\ broken[f]
          /\ snap' = [snap EXCEPT ![f] = SubSeq(ldb, 1, n)]
          /\ joinpc' = [joinpc EXCEPT ![f] = "dumped"]
          /\ raced' = [raced EXCEPT ![f] = n < Len(ldb) \/ inflight # <<>>]
      BY <1>3 DEF JoinDump, leadervars, opvars
    <2>2. snap'[f] = SubSeq(ldb, 1, n) /\ joinpc'[f] = "dumped"
      BY <1>0, <2>1 DEF Typed
    <2>3. raced'[f] = (n < Len(ldb) \/ inflight # <<>>)
      BY <1>0, <2>1
    <2>4. relay'[f] # "live"
      BY <1>0, <2>1 DEF Registered
    <2>5. ASSUME ~raced'[f] PROVE inflight' = <<>> /\ Len(snap'[f]) = Len(Decided')
      <3>1. inflight = <<>> /\ n = Len(ldb)
        <4>1. ~(n < Len(ldb)) /\ ~(inflight # <<>>)
          BY <2>3, <2>5
        <4>2. Len(ldb) \in Nat
          BY <1>0
        <4> QED BY <4>1, <4>2
      <3>2. Len(SubSeq(ldb, 1, n)) = Len(ldb)
        BY <1>0, <3>1
      <3>3. Len(Decided) = Len(ldb)
        BY <1>0, <3>1 DEF Decided
      <3> QED BY <2>1, <2>2, <3>1, <3>2, <3>3 DEF Decided
    <2> QED BY <2>1, <2>2, <2>4, <2>5
  <1>4. CASE JoinSend(f)
    <2>1. /\ UNCHANGED <<relay, raced, broken, ldb, inflight, Decided>>
          /\ joinpc[f] = "dumped" /\ joinpc' = [joinpc EXCEPT ![f] = "sent"]
          /\ chan' = IF broken[f] THEN chan
                     ELSE [chan EXCEPT ![f] = <<Db(snap[f], txcount)>>]
      BY <1>4 DEF JoinSend, leadervars, opvars, Decided
    <2>2. chan[f] = <<>> /\ relay'[f] # "live" /\ joinpc'[f] = "sent"
      BY <1>0, <2>1 DEF Dumps, Registered, Typed
    <2>3. CASE broken[f]
      BY <1>0, <2>1, <2>2, <2>3 DEF CompleteAt
    <2>4. CASE ~broken[f]
      <3>1. chan'[f] = <<Db(snap[f], txcount)>>
        BY <1>0, <2>1, <2>4 DEF Typed
      <3>2. /\ DOMAIN chan'[f] = {1} /\ chan'[f] # <<>>
            /\ chan'[f][1].kind = "db" /\ chan'[f][1].db = snap[f]
        BY <3>1 DEF Db
      <3>3. Base(f)' = Len(snap[f])
        BY <3>2 DEF Base, DbFirst
      <3>4. \A j \in DOMAIN chan'[f] : ~TxAt(f, j)'
        BY <3>2 DEF TxAt
      <3> QED BY <1>0, <2>1, <2>2, <3>3, <3>4 DEF CompleteAt
    <2> QED BY <2>3, <2>4
  <1> QED BY <1>2, <1>3, <1>4

\* A follower that is registered has nothing to wait for.
LEMMA WayRegisters ==
    ASSUME TypeOK, TypeOK', Tenure, Once', Grows, NEW f \in Follower, JoinRegister(f)
    PROVE  OrderedAt(f)' /\ (~raced'[f] => CompleteAt(f)')
  <1>0. Typed /\ Registered /\ Dumps /\ (~raced[f] => CompleteAt(f))
    BY Types DEF Tenure, Complete
  <1>1. /\ UNCHANGED <<ldb, inflight, raced, snap, fdb, chan, broken, Decided>>
        /\ joinpc[f] = "sent" /\ relay[f] = "none"
        /\ relay' = [relay EXCEPT ![f] = IF broken[f] THEN "broken" ELSE "live"]
        /\ joinpc' = [joinpc EXCEPT ![f] = "none"]
    BY DEF JoinRegister, followervars, netvars, Decided
  <1>2. relay'[f] = "live" => ~broken[f]
    BY <1>0, <1>1 DEF Typed
  <1>3. joinpc'[f] = "none"
    BY <1>0, <1>1 DEF Typed
  <1>4. \A j \in DOMAIN chan'[f] : ~TxAt(f, j)'
    BY <1>0, <1>1 DEF TxAt, Dumps
  <1>5. \A i \in DOMAIN pushq' : ~PushAt(f, i)'
    <2>1. /\ \A i \in DOMAIN pushq : pushq'[i] = pushq[i]
          /\ \A i \in DOMAIN pushq' \ DOMAIN pushq : pushq'[i].msg.kind = "quorum"
      <3>1. Enqueued(ToSet(streams'), Quorum(hasquorum', f))
        BY RegisterPushes
      <3> QED BY <3>1 DEF Enqueued, Quorum
    <2>2. \A i \in DOMAIN pushq : pushq[i].to = f => ~pushq[i].open
      BY <1>0, <1>1 DEF Registered
    <2> QED BY <2>1, <2>2 DEF PushAt
  <1>6. Base(f)' = Base(f) /\ Len(Decided) \in Nat
    BY <1>1, BaseKnown, PlacesKept DEF Tenure
  <1>7. ASSUME ~raced'[f], relay'[f] = "live" PROVE Base(f)' = Len(Decided')
    BY <1>0, <1>1, <1>2, <1>6, <1>7 DEF CompleteAt
  <1>8. OrderedAt(f)'
    BY <1>4, <1>5 DEF OrderedAt
  <1>9. ASSUME ~raced'[f] PROVE CompleteAt(f)'
    <2>1. ASSUME relay'[f] = "live" PROVE (Base(f) + 1)' .. Len(Decided') = {}
      BY <1>1, <1>6, <1>7, <1>9, <2>1
    <2> QED BY <1>3, <1>4, <2>1 DEF CompleteAt
  <1> QED BY <1>8, <1>9

\* A follower reads the first message of its connection.
LEMMA WayReads ==
    ASSUME TypeOK, TypeOK', Tenure, Once', Grows, NEW f \in Follower, Receive(f)
    PROVE  OrderedAt(f)' /\ (~raced'[f] => CompleteAt(f)')
  <1>0. /\ Typed /\ Contents /\ Registered /\ Dumps
        /\ OrderedAt(f) /\ (~raced[f] => CompleteAt(f)) /\ Len(Decided) \in Nat
        /\ fdb \in [Follower -> Seq(Op)]
    <2>1. fdb \in [Follower -> Seq(Op)]
      BY DEF TypeOK, FollowersOK
    <2> QED BY <2>1, Types, PlacesKept DEF Tenure, Ordered, Complete
  <1>1. PlacesKnown /\ Base(f) \in 0 .. Len(Decided)
    BY <1>0, PlacesFound, BaseKnown DEF Tenure
  <1>2. /\ UNCHANGED <<pushq, relay, joinpc, snap, broken, ldb, inflight, Decided, raced>>
        /\ chan[f] # <<>> /\ chan'[f] = Tail(chan[f])
        /\ fdb' = IF chan[f][1].kind = "db" THEN [fdb EXCEPT ![f] = chan[f][1].db]
                  ELSE IF chan[f][1].kind = "tx"
                       THEN [fdb EXCEPT ![f] = Append(@, chan[f][1].op)] ELSE fdb
    <2>1. /\ UNCHANGED <<leadervars, opvars, joinvars, up, broken>>
          /\ chan[f] # <<>> /\ chan' = [chan EXCEPT ![f] = Tail(@)]
          /\ fdb' = IF chan[f][1].kind = "db" THEN [fdb EXCEPT ![f] = chan[f][1].db]
                    ELSE IF chan[f][1].kind = "tx"
                         THEN [fdb EXCEPT ![f] = Append(@, chan[f][1].op)] ELSE fdb
      BY Receives DEF Tenure
    <2> QED BY <1>0, <2>1 DEF Typed, leadervars, opvars, joinvars, Decided
  <1>3. /\ 1 \in DOMAIN chan[f] /\ DOMAIN chan[f] = 1 .. Len(chan[f])
        /\ Len(chan[f]) \in Nat
        /\ \A j \in DOMAIN chan'[f] :
             j + 1 \in DOMAIN chan[f] /\ chan'[f][j] = chan[f][j + 1]
        /\ \A j \in DOMAIN chan[f] : j # 1 =>
             j - 1 \in DOMAIN chan'[f] /\ chan'[f][j - 1] = chan[f][j]
    BY <1>2, Rest
  <1>4. \A j \in DOMAIN chan'[f] :
          /\ j \in Nat \ {0} /\ 1 < j + 1 /\ chan'[f][j].kind # "db"
          /\ TxAt(f, j)' => TxAt(f, j + 1)
    <2>1. \A j \in DOMAIN chan'[f] : j \in Nat \ {0}
      BY DEF TypeOK, ConnectionsOK
    <2> QED BY <1>0, <1>3, <2>1 DEF Dumps, TxAt
  <1>5. ~DbFirst(f)'
    <2>1. chan'[f] # <<>> => 1 \in DOMAIN chan'[f]
      BY DEF TypeOK, ConnectionsOK
    <2> QED BY <1>4, <2>1 DEF DbFirst
  <1>6. /\ ~TxAt(f, 1) => Base(f)' = Base(f)
        /\ TxAt(f, 1) => Base(f)' = Pos(chan[f][1].op)
    <2>0. chan[f][1] \in Message(txcount) /\ txcount \in Nat
      BY <1>0, <1>3 DEF Typed, TypeOK, LeaderOK
    <2>1. CASE chan[f][1].kind = "db"
      <3>1. fdb'[f] = chan[f][1].db
        BY <1>0, <1>2, <2>1
      <3>2. /\ chan[f][1].db \in Seq(Op) /\ PrefixOf(chan[f][1].db, Decided)
            /\ Base(f) = Len(chan[f][1].db)
        BY <1>0, <1>2, <1>3, <2>0, <2>1, MessageKinds DEF Contents, Base, DbFirst
      <3>3. CASE chan[f][1].db = <<>>
        BY <1>5, <2>1, <3>1, <3>2, <3>3 DEF Base, TxAt
      <3>4. CASE chan[f][1].db # <<>>
        <4> DEFINE s == chan[f][1].db
        <4>1. Len(s) \in 1 .. Len(Decided) /\ s[Len(s)] = Decided[Len(s)]
          <5>1. Len(s) \in 1 .. Len(s)
            BY <3>2, <3>4
          <5> QED BY <1>0, <3>2, <5>1 DEF PrefixOf
        <4>2. Pos(Decided[Len(s)]) = Len(s)
          BY <4>1, PlacesKept DEF Tenure
        <4>3. Base(f)' = PosOf(Decided', fdb'[f][Len(fdb'[f])])
          BY <1>5, <3>1, <3>4 DEF Base, Pos
        <4>4. Base(f)' = Pos(s[Len(s)])
          BY <1>2, <3>1, <4>3 DEF Pos
        <4>5. ~TxAt(f, 1)
          BY <2>1 DEF TxAt
        <4> QED BY <3>2, <4>1, <4>2, <4>4, <4>5
      <3> QED BY <3>3, <3>4
    <2>2. CASE chan[f][1].kind = "tx"
      <3>1. fdb'[f] = Append(fdb[f], chan[f][1].op)
        BY <1>0, <1>2, <2>2
      <3>2. chan[f][1].op \in Op
        BY <2>0, <2>2, MessageKinds
      <3>3. fdb'[f] # <<>> /\ fdb'[f][Len(fdb'[f])] = chan[f][1].op
        <4> DEFINE s == fdb[f]
                   o == chan[f][1].op
        <4>1. s \in Seq(Op) /\ o \in Op
          BY <1>0, <3>2
        <4> HIDE DEF s, o
        <4>2. Append(s, o) # <<>> /\ Append(s, o)[Len(Append(s, o))] = o
          BY <4>1
        <4> QED BY <3>1, <4>2 DEF s, o
      <3> QED BY <1>2, <1>5, <2>2, <3>3 DEF Base, Pos, TxAt
    <2>3. CASE chan[f][1].kind \notin {"db", "tx"}
      BY <1>2, <1>5, <2>3 DEF Base, DbFirst, Pos, TxAt
    <2> QED BY <2>1, <2>2, <2>3
  <1>7. \A j \in DOMAIN chan[f] : TxAt(f, j) =>
          Pos(chan[f][j].op) \in 1 .. Len(Decided)
    BY <1>1 DEF PlacesKnown
  <1>8. Base(f)' \in 0 .. Len(Decided) /\ Base(f) <= Base(f)'
    BY <1>0, <1>1, <1>3, <1>6, <1>7 DEF OrderedAt
  <1>9. \A i \in DOMAIN pushq : PushAt(f, i)' <=> PushAt(f, i)
    BY <1>2 DEF PushAt
  <1>10. \A i \in DOMAIN pushq : PushAt(f, i) => Pos(pushq[i].msg.op) \in 1 .. Len(Decided)
    BY <1>1 DEF PlacesKnown, PushAt
  <1>11. OrderedAt(f)'
    <2>1. ASSUME NEW j \in DOMAIN chan'[f], TxAt(f, j)'
          PROVE  /\ Base(f)' < Pos(chan'[f][j].op)
                 /\ \A k \in DOMAIN chan'[f] : j < k /\ TxAt(f, k)' =>
                      Pos(chan'[f][j].op) < Pos(chan'[f][k].op)
      <3>1. j + 1 \in DOMAIN chan[f] /\ TxAt(f, j + 1) /\ 1 < j + 1 /\ chan'[f][j] = chan[f][j + 1]
        BY <1>3, <1>4, <2>1
      <3>2. Base(f)' < Pos(chan[f][j + 1].op)
        BY <1>0, <1>3, <1>6, <3>1 DEF OrderedAt
      <3>3. ASSUME NEW k \in DOMAIN chan'[f], j < k, TxAt(f, k)'
            PROVE  Pos(chan[f][j + 1].op) < Pos(chan'[f][k].op)
        <4>1. k + 1 \in DOMAIN chan[f] /\ TxAt(f, k + 1) /\ j + 1 < k + 1 /\ chan'[f][k] = chan[f][k + 1]
          BY <1>3, <1>4, <2>1, <3>3
        <4> QED BY <1>0, <3>1, <4>1 DEF OrderedAt
      <3> QED BY <3>1, <3>2, <3>3
    <2>2. ASSUME relay[f] = "live", NEW i \in DOMAIN pushq, PushAt(f, i)
          PROVE  /\ Base(f)' < Pos(pushq[i].msg.op)
                 /\ \A j \in DOMAIN chan'[f] : TxAt(f, j)' =>
                      Pos(chan'[f][j].op) < Pos(pushq[i].msg.op)
                 /\ \A k \in DOMAIN pushq : i < k /\ PushAt(f, k) =>
                      Pos(pushq[i].msg.op) < Pos(pushq[k].msg.op)
      <3>1. Base(f)' < Pos(pushq[i].msg.op)
        BY <1>0, <1>3, <1>6, <2>2 DEF OrderedAt
      <3>2. ASSUME NEW j \in DOMAIN chan'[f], TxAt(f, j)'
            PROVE  Pos(chan'[f][j].op) < Pos(pushq[i].msg.op)
        <4>1. j + 1 \in DOMAIN chan[f] /\ TxAt(f, j + 1) /\ chan'[f][j] = chan[f][j + 1]
          BY <1>3, <1>4, <3>2
        <4> QED BY <1>0, <2>2, <4>1 DEF OrderedAt
      <3> QED BY <1>0, <2>2, <3>1, <3>2 DEF OrderedAt
    <2> QED BY <1>2, <1>9, <2>1, <2>2 DEF OrderedAt, Pos
  <1>12. ASSUME ~raced'[f] PROVE CompleteAt(f)'
    <2>1. CompleteAt(f)
      BY <1>0, <1>2, <1>12
    <2>2. ASSUME NEW p \in 1 .. Len(Decided), Base(f)' < p, InChan(f, Decided[p])
          PROVE  InChan(f, Decided[p])'
      <3>1. PICK k \in DOMAIN chan[f] : TxAt(f, k) /\ chan[f][k].op = Decided[p]
        BY <2>2 DEF InChan
      <3>2. Pos(Decided[p]) = p
        BY PlacesKept DEF Tenure
      <3>3. k # 1
        BY <1>0, <1>6, <1>8, <2>2, <3>1, <3>2
      <3>4. k - 1 \in DOMAIN chan'[f] /\ chan'[f][k - 1] = chan[f][k]
        BY <1>3, <3>1, <3>3
      <3>5. chan'[f][k - 1].kind = "tx" /\ chan'[f][k - 1].op = Decided'[p]
        BY <1>2, <3>1, <3>4 DEF TxAt
      <3> QED BY <3>4, <3>5 DEF InChan, TxAt
    <2>3. \A x : InPush(f, x) => InPush(f, x)'
      BY <1>2, <1>9 DEF InPush
    <2>4. ASSUME NEW j \in DOMAIN chan'[f], TxAt(f, j)',
                 NEW p \in Base(f)' + 1 .. Pos(chan'[f][j].op)
          PROVE  InChan(f, Decided[p])'
      <3>1. j + 1 \in DOMAIN chan[f] /\ TxAt(f, j + 1) /\ chan'[f][j] = chan[f][j + 1]
        BY <1>3, <1>4, <2>4
      <3>2. Pos(chan[f][j + 1].op) \in 1 .. Len(Decided)
        BY <1>7, <3>1
      <3>3. /\ p \in Base(f) + 1 .. Pos(chan[f][j + 1].op)
            /\ p \in 1 .. Len(Decided) /\ Base(f)' < p
        BY <1>0, <1>1, <1>8, <2>4, <3>1, <3>2
      <3> QED BY <2>1, <2>2, <3>1, <3>3 DEF CompleteAt
    <2>5. ASSUME relay[f] = "live", NEW p \in Base(f)' + 1 .. Len(Decided)
          PROVE  InChan(f, Decided[p])' \/ InPush(f, Decided[p])'
      <3>1. p \in Base(f) + 1 .. Len(Decided) /\ p \in 1 .. Len(Decided) /\ Base(f)' < p
        BY <1>0, <1>1, <1>8, <2>5
      <3>2. InChan(f, Decided[p]) \/ InPush(f, Decided[p])
        BY <2>1, <2>5, <3>1 DEF CompleteAt
      <3>3. InPush(f, Decided[p])  => InPush(f, Decided[p])'
        BY <1>2, <1>9 DEF InPush
      <3> QED BY <2>2, <3>1, <3>2, <3>3
    <2>6. joinpc[f] = "sent" => Base(f)' = Base(f)
      BY <1>0, <1>3, <1>6 DEF Dumps, TxAt
    <2>7. \A p \in 1 .. Len(Decided) : Decided'[p] = Decided[p]
      BY <1>2
    <2> QED BY <1>2, <2>1, <2>4, <2>5, <2>6 DEF CompleteAt, Pos
  <1> QED BY <1>11, <1>12

\* Order and completeness together, from the moving actions and the calm ones.
LEMMA WayKept ==
    ASSUME TypeOK, TypeOK', Tenure, Step
    PROVE  Ordered' /\ Complete'
  <1>1. Once /\ Once' /\ Grows /\ Contents /\ Registered /\ Ordered /\ Complete
    BY OnceKept DEF Tenure
  <1>2. ASSUME NEW f \in Follower
        PROVE  OrderedAt(f)' /\ (~raced'[f] => CompleteAt(f)')
    <2>1. CASE ~Moving(f)
      <3>1. Calm(f)
        BY <2>1, CalmSteps
      <3>2. OrderedAt(f)'
        BY <1>1, <3>1, OrderedQuiet DEF Calm, Ordered
      <3>3. ~raced'[f] => CompleteAt(f)'
        BY <1>1, <3>1, CompleteCalm DEF Complete
      <3> QED BY <3>2, <3>3
    <2>2. ASSUME NEW o \in Op, Counts(o)
          PROVE  OrderedAt(f)' /\ (~raced'[f] => CompleteAt(f)')
      BY <1>1, <2>2, WayCounts
    <2>3. CASE Push
      BY <1>1, <2>3, WayPushes
    <2>4. CASE JoinRegister(f)
      BY <1>1, <2>4, WayRegisters
    <2>5. CASE \/ StopFollowing(f) \/ JoinSend(f)
               \/ \E n \in 0 .. Len(ldb) : JoinDump(f, n)
      BY <2>5, WayJoins
    <2>6. CASE Receive(f)
      BY <1>1, <2>6, WayReads
    <2> QED BY <2>1, <2>2, <2>3, <2>4, <2>5, <2>6 DEF Moving
  <1> QED BY <1>2 DEF Ordered, Complete
-----------------------------------------------------------------------------
(* The answers.                                                            *)

\* Only a request names the member that asks.
LEMMA OriginKept ==
    ASSUME Step, ~\E g \in Follower, p \in Op : Request(g, p)
    PROVE  UNCHANGED origin
  <1>1. Apply \/ Push => UNCHANGED origin
    BY DEF Apply, Push
  <1>2. \A o \in Op : Submit(o) \/ Commit(o) => UNCHANGED origin
    BY DEF Submit, Commit, opvars
  <1>3. \A f \in Follower :
          RelayRequest(f) \/ JoinRegister(f) \/ Reannounce(f) \/ RelayEnd(f)
             => UNCHANGED origin
    BY DEF RelayRequest, JoinRegister, Reannounce, RelayEnd, opvars
  <1>4. \A f \in Follower :
          JoinSend(f) \/ Receive(f) \/ StopFollowing(f) \/ Break(f) \/ RelayExit(f)
             => UNCHANGED origin
    BY DEF JoinSend, Receive, StopFollowing, Break, RelayExit, opvars
  <1>5. \A f \in Follower : (\E n \in 0 .. Len(ldb) : JoinDump(f, n)) => UNCHANGED origin
    BY DEF JoinDump, opvars
  <1>6. UNCHANGED vars => UNCHANGED origin
    BY DEF vars, opvars
  <1> QED BY <1>1, <1>2, <1>3, <1>4, <1>5, <1>6 DEF Step, Pushing

\* The member that asked for a change does not change.
LEMMA AskerKept ==
    ASSUME TypeOK, Tenure, Step
    PROVE  \A o \in Op : origin[o] \in Follower => origin'[o] = origin[o]
  <1>1. ASSUME NEW g \in Follower, NEW p \in Op, Request(g, p)
        PROVE  \A o \in Op : origin[o] \in Follower => origin'[o] = origin[o]
    <2>1. origin[p] \notin Follower
      BY <1>1, RolesAssumption DEF Request, Tenure, Busyness
    <2>2. origin' = [origin EXCEPT ![p] = g] /\ origin = [o \in Op |-> origin[o]]
      BY <1>1 DEF Request, TypeOK, ChangesOK
    <2> QED BY <2>1, <2>2
  <1>2. ASSUME ~\E g \in Follower, p \in Op : Request(g, p) PROVE UNCHANGED origin
    BY <1>2, OriginKept
  <1> QED BY <1>1, <1>2

\* Only a change that is counted begins to be pushed.
LEMMA PushedBefore ==
    ASSUME TypeOK, Tenure, Step, ~\E o \in Op : Counts(o)
    PROVE  \A o \in Op : opc'[o] = "push" => opc[o] = "push"
  <1>0. opc = [o \in Op |-> opc[o]]
    BY DEF TypeOK, ChangesOK
  <1>1. UNCHANGED opc \/ (\E p \in Op, s \in {"refused", "done", "health", "sent"} :
                            opc' = [opc EXCEPT ![p] = s])
        \/ \E g \in Follower : opc' = Unsent(g)
    <2>1. ASSUME NEW p \in Op, Submit(p) \/ \E g \in Follower : Request(g, p)
          PROVE  \E s \in {"refused", "done", "health", "sent"} :
                            opc' = [opc EXCEPT ![p] = s]
      BY <2>1 DEF Submit, Request
    <2>2. ASSUME NEW p \in Op, Commit(p)
          PROVE  opc' = [opc EXCEPT ![p] = "refused"]
      BY <2>2, CommitPushes DEF Counts
    <2>3. ASSUME NEW g \in Follower, RelayRequest(g)
          PROVE  Head(up[g]) \in Op /\ opc' = [opc EXCEPT ![Head(up[g])] = "health"]
      BY <2>3, RequestPushes DEF RelayRequest
    <2>4. CASE Apply
      BY <2>4, HeadPushed DEF Apply
    <2>5. ASSUME NEW g \in Follower, Break(g) \/ RelayEnd(g) \/ Receive(g)
          PROVE  UNCHANGED opc \/ opc' = Unsent(g)
      BY <2>5 DEF Break, RelayEnd, Receive
    <2>6. ASSUME NEW g \in Follower,
                 \/ JoinRegister(g) \/ Reannounce(g) \/ JoinSend(g)
                 \/ StopFollowing(g) \/ RelayExit(g)
                 \/ \E n \in 0 .. Len(ldb) : JoinDump(g, n)
          PROVE  UNCHANGED opc
      BY <2>6 DEF JoinRegister, Reannounce, JoinSend, StopFollowing, RelayExit, JoinDump,
         opvars
    <2>7. CASE Push \/ UNCHANGED vars
      BY <2>7 DEF Push, vars, opvars
    <2> QED BY <2>1, <2>2, <2>3, <2>4, <2>5, <2>6, <2>7 DEF Step, Pushing
  <1>2. ASSUME NEW p \in Op, NEW s \in {"refused", "done", "health", "sent"},
               opc' = [opc EXCEPT ![p] = s]
        PROVE  \A o \in Op : opc'[o] = "push" => opc[o] = "push"
    BY <1>0, <1>2
  <1>3. ASSUME NEW g \in Follower, opc' = Unsent(g)
        PROVE  \A o \in Op : opc'[o] = "push" => opc[o] = "push"
    BY <1>3 DEF Unsent
  <1> QED BY <1>1, <1>2, <1>3

\* A push that waits has waited, or carries an answer of now.
LEMMA WaitingPushes ==
    ASSUME TypeOK, TypeOK', Tenure, Step, ~Push, NEW i \in DOMAIN pushq'
    PROVE  \/ /\ i \in DOMAIN pushq
              /\ pushq'[i].to = pushq[i].to /\ pushq'[i].msg = pushq[i].msg
              /\ pushq'[i].open => pushq[i].open
           \/ /\ i \notin DOMAIN pushq
              /\ pushq'[i].msg.kind = "ret" =>
                   /\ pushq'[i].msg.op \in Op
                   /\ origin[pushq'[i].msg.op] = pushq'[i].to
                   /\ pushq'[i].msg.ok => Apply /\ pushq'[i].msg.op = Head(inflight)
  <1>1. CASE Pushing
    BY <1>1, PushesGrow, FreshPushes DEF Growth, Fresh
  <1>2. ASSUME ~Pushing PROVE UNCHANGED pushq
    BY <1>2, Still, Receives DEF Step, Tenure, JoinSend, StopFollowing, opvars
  <1> QED BY <1>1, <1>2

\* What is applied has been pushed, and so has reached the member that asked.
LEMMA Answered ==
    ASSUME TypeOK, Tenure, Apply, NEW f \in Follower, relay[f] = "live",
           origin[Head(inflight)] = f
    PROVE  Got(f, Head(inflight))
  <1>1. Head(inflight) \in Op /\ opc[Head(inflight)] = "push"
    BY HeadPushed
  <1>2. Got(f, Head(inflight)) \/ InPush(f, Head(inflight))
    BY <1>1 DEF Tenure, Answers, AskedAt
  <1>3. \A i \in DOMAIN pushq :
          ~(pushq[i].msg.kind = "tx" /\ pushq[i].msg.op = Head(inflight))
    BY Types DEF Apply, Pushed, Typed
  <1> QED BY <1>2, <1>3 DEF InPush, PushAt

\* Answers that wait stay behind the change.
LEMMA ToldKept ==
    ASSUME TypeOK, TypeOK', Tenure, Step, ~Push, NEW f \in Follower,
           relay'[f] = "live" => /\ relay[f] = "live"
                                 /\ \A o \in Op : Got(f, o) => Got(f, o)'
    PROVE  ToldAt(f)'
  <1>0. ToldAt(f) /\ Typed /\ txcount \in Nat
    BY Types DEF Tenure, Answers, TypeOK, LeaderOK
  <1> SUFFICES ASSUME NEW i \in DOMAIN pushq', pushq'[i].to = f,
                      pushq'[i].msg.kind = "ret", NEW o, o = pushq'[i].msg.op
               PROVE  /\ origin'[o] = f
                      /\ pushq'[i].msg.ok /\ pushq'[i].open /\ relay'[f] = "live"
                            => Got(f, o)'
    BY DEF ToldAt, Got, InChan, DbFirst, TxAt
  <1>1. CASE /\ i \in DOMAIN pushq
             /\ pushq'[i].to = pushq[i].to /\ pushq'[i].msg = pushq[i].msg
             /\ pushq'[i].open => pushq[i].open
    <2>1. o \in Op /\ o = pushq[i].msg.op
      BY <1>0, <1>1, MessageKinds DEF Typed
    <2>2. origin'[o] = f
      BY <1>0, <1>1, <2>1, AskerKept DEF ToldAt
    <2>3. ASSUME pushq'[i].msg.ok, pushq'[i].open, relay'[f] = "live"
          PROVE  Got(f, o)'
      <3>1. Got(f, o)
        BY <1>0, <1>1, <2>1, <2>3 DEF ToldAt
      <3> QED BY <2>1, <2>3, <3>1
    <2> QED BY <2>2, <2>3
  <1>2. CASE /\ pushq'[i].msg.op \in Op
             /\ origin[pushq'[i].msg.op] = pushq'[i].to
             /\ pushq'[i].msg.ok => Apply /\ pushq'[i].msg.op = Head(inflight)
    <2>1. origin'[o] = f
      BY <1>2, AskerKept
    <2>2. ASSUME pushq'[i].msg.ok, relay'[f] = "live"
          PROVE  Got(f, o)'
      <3>1. Got(f, o)
        BY <1>2, <2>2, Answered
      <3> QED BY <1>2, <2>2, <3>1
    <2> QED BY <2>1, <2>2
  <1> QED BY <1>1, <1>2, WaitingPushes

\* Messages that are not touched are heard as before.
LEMMA HeardStill ==
    ASSUME TypeOK, Tenure, Step, NEW f \in Follower, chan'[f] = chan[f], fdb'[f] = fdb[f]
    PROVE  HeardAt(f)' /\ \A o : Got(f, o)' <=> Got(f, o)
  <1>0. HeardAt(f) /\ Typed /\ txcount \in Nat
    BY Types DEF Tenure, Answers, TypeOK, LeaderOK
  <1>1. /\ DbFirst(f)' <=> DbFirst(f)
        /\ \A j \in DOMAIN chan[f] : TxAt(f, j)' <=> TxAt(f, j)
    BY DEF DbFirst, TxAt
  <1>2. \A o : Got(f, o)' <=> Got(f, o)
    BY <1>1 DEF Got, InChan
  <1>3. \A j \in DOMAIN chan[f] : chan[f][j].kind = "ret" => origin'[chan[f][j].op] = f
    <2> SUFFICES ASSUME NEW j \in DOMAIN chan[f], chan[f][j].kind = "ret"
                 PROVE  origin'[chan[f][j].op] = f
      OBVIOUS
    <2>1. chan[f][j].op \in Op
      BY <1>0, MessageKinds DEF Typed
    <2> QED BY <1>0, <2>1, AskerKept DEF HeardAt
  <1>4. \A j \in DOMAIN chan[f] : \A k \in 1 .. j : k \in DOMAIN chan[f]
    BY <1>0 DEF Typed
  <1> QED BY <1>0, <1>1, <1>2, <1>3, <1>4 DEF HeardAt

\* What moves nothing towards f leaves what it will hear.
LEMMA AnswersQuiet ==
    ASSUME TypeOK, TypeOK', Tenure, Step, NEW f \in Follower, ~Moving(f)
    PROVE  HeardAt(f)' /\ ToldAt(f)' /\ AskedAt(f)'
  <1>1. Quiet(f)
    BY CalmSteps DEF Calm
  <1>2. HeardAt(f)' /\ \A o : Got(f, o)' <=> Got(f, o)
    BY <1>1, HeardStill DEF Quiet
  <1>3. ToldAt(f)'
    BY <1>1, <1>2, ToldKept DEF Quiet, Moving
  <1>4. AskedAt(f)'
    <2> SUFFICES ASSUME NEW o \in Op, opc'[o] = "push", origin'[o] = f, relay'[f] = "live"
                 PROVE  Got(f, o)' \/ InPush(f, o)'
      BY DEF AskedAt
    <2>1. opc[o] = "push" /\ relay[f] = "live"
      BY <1>1, PushedBefore DEF Moving, Quiet
    <2>2. origin[o] = f
      <3>1. origin[o] \in Follower
        <4>1. ~\E g \in Follower : Request(g, o)
          BY <2>1 DEF Request
        <4>2. ASSUME NEW g \in Follower, NEW p \in Op, Request(g, p)
              PROVE  origin'[o] = origin[o]
          BY <2>1, <4>2 DEF Request, TypeOK, ChangesOK
        <4>3. ASSUME ~\E g \in Follower, p \in Op : Request(g, p) PROVE UNCHANGED origin
          BY <4>3, OriginKept
        <4> QED BY <4>2, <4>3
      <3> QED BY <3>1, AskerKept
    <2>3. Got(f, o) \/ InPush(f, o)
      BY <2>1, <2>2 DEF Tenure, Answers, AskedAt
    <2>4. InPush(f, o) => InPush(f, o)'
      BY <1>1 DEF Quiet, InPush
    <2> QED BY <1>2, <2>3, <2>4
  <1> QED BY <1>2, <1>3, <1>4

\* A change that is counted is pushed to the member that asked.
LEMMA AnswersCounts ==
    ASSUME TypeOK, TypeOK', Tenure, Step, NEW f \in Follower, NEW o \in Op, Counts(o)
    PROVE  HeardAt(f)' /\ ToldAt(f)' /\ AskedAt(f)'
  <1>1. UNCHANGED <<chan, fdb, relay, origin, streams>>
    BY DEF Counts, Commit, followervars, netvars
  <1>2. HeardAt(f)' /\ \A p : Got(f, p)' <=> Got(f, p)
    BY <1>1, HeardStill
  <1>3. ToldAt(f)'
    <2>1. ~Push
      <3>1. Len(Append(inflight, o)) # Len(inflight)
        BY DEF TypeOK, ChangesOK
      <3> QED BY <3>1 DEF Counts, Push
    <2> QED BY <1>1, <1>2, <2>1, ToldKept
  <1>4. /\ opc' = [opc EXCEPT ![o] = "push"]
        /\ pushq' = Broadcast(pushq, streams, Tx(o, txcount + 1))
    <2>1. Len(Append(inflight, o)) # Len(inflight)
      BY DEF TypeOK, ChangesOK
    <2> QED BY <2>1, CommitPushes DEF Counts
  <1>5. /\ Enqueued(ToSet(streams), Tx(o, txcount + 1))
        /\ \A g \in ToSet(streams) : \E i \in DOMAIN pushq' \ DOMAIN pushq :
             pushq'[i].to = g
    <2>1. /\ txcount + 1 \in Nat /\ pushq \in Seq(Waiting(txcount + 1))
          /\ streams \in Seq(Follower)
      BY MessageGrows DEF TypeOK, LeaderOK, ChangesOK
    <2>2. Tx(o, txcount + 1) \in Message(txcount + 1)
      BY <2>1, MessageMade
    <2> QED BY <1>4, <2>1, <2>2, EnqueuedAll
  <1>6. AskedAt(f)'
    <2> SUFFICES ASSUME NEW p \in Op, opc'[p] = "push", origin'[p] = f, relay'[f] = "live"
                 PROVE  Got(f, p)' \/ InPush(f, p)'
      BY DEF AskedAt
    <2>1. CASE p = o
      <3>1. f \in ToSet(streams)
        BY <1>1 DEF Tenure, Registered
      <3>2. PICK i \in DOMAIN pushq' \ DOMAIN pushq : pushq'[i].to = f
        BY <1>5, <3>1
      <3>3. PushAt(f, i)' /\ pushq'[i].msg.op = o
        BY <1>5, <3>2 DEF Enqueued, PushAt, Tx
      <3> QED BY <2>1, <3>2, <3>3 DEF InPush
    <2>2. CASE p # o
      <3>1. opc[p] = "push" /\ origin[p] = f /\ relay[f] = "live"
        BY <1>1, <1>4, <2>2 DEF TypeOK, ChangesOK
      <3>2. Got(f, p) \/ InPush(f, p)
        BY <3>1 DEF Tenure, Answers, AskedAt
      <3>3. InPush(f, p) => InPush(f, p)'
        BY <1>5 DEF Enqueued, InPush, PushAt
      <3> QED BY <1>2, <3>2, <3>3
    <2> QED BY <2>1, <2>2
  <1> QED BY <1>2, <1>3, <1>6

\* An answer that moves to the end of a connection comes behind the change.
LEMMA AnswersPush ==
    ASSUME TypeOK, TypeOK', Tenure, Step, NEW f \in Follower, Push
    PROVE  HeardAt(f)' /\ ToldAt(f)' /\ AskedAt(f)'
  <1>0. /\ Typed /\ Registered /\ Dumps /\ NoFarewell
        /\ HeardAt(f) /\ ToldAt(f) /\ AskedAt(f) /\ txcount \in Nat
    BY Types DEF Tenure, Answers, TypeOK, LeaderOK
  <1>1. UNCHANGED <<fdb, relay, origin, opc>>
    BY DEF Push, followervars
  <1>2. /\ 1 \in DOMAIN pushq
        /\ \A i \in DOMAIN pushq' :
             i + 1 \in DOMAIN pushq /\ pushq'[i] = pushq[i + 1]
        /\ \A i \in DOMAIN pushq : i # 1 =>
             i - 1 \in DOMAIN pushq' /\ pushq'[i - 1] = pushq[i]
        /\ \/ ~(pushq[1].to = f /\ Writes(pushq[1])) /\ chan'[f] = chan[f]
           \/ /\ pushq[1].to = f /\ Writes(pushq[1])
              /\ chan'[f] = Append(chan[f], pushq[1].msg)
    BY <1>0, PushMoves
  <1>3. /\ HeardAt(f)'
        /\ \A o : Got(f, o) => Got(f, o)'
        /\ \A o : relay[f] = "live" /\ PushAt(f, 1) /\ pushq[1].msg.op = o => Got(f, o)'
    <2>1. CASE chan'[f] = chan[f] /\ ~(pushq[1].to = f /\ Writes(pushq[1]))
      <3>1. ~(relay[f] = "live" /\ PushAt(f, 1))
        BY <2>1 DEF PushAt, Writes
      <3> QED BY <1>1, <2>1, <3>1, HeardStill
    <2>2. CASE /\ pushq[1].to = f /\ Writes(pushq[1])
               /\ chan'[f] = Append(chan[f], pushq[1].msg)
      <3> DEFINE m == pushq[1].msg
                 n == Len(chan[f]) + 1
      <3>0. relay[f] = "live" /\ pushq[1].open /\ m.kind # "db"
        BY <1>0, <1>2, <2>2 DEF Writes, Dumps
      <3>1. /\ DOMAIN chan[f] = 1 .. Len(chan[f]) /\ Len(chan[f]) \in Nat
            /\ DOMAIN chan'[f] = 1 .. n /\ chan'[f][n] = m
            /\ \A j \in DOMAIN chan[f] : j \in DOMAIN chan'[f] /\ chan'[f][j] = chan[f][j]
        BY <1>0, <2>2 DEF Typed
      <3>2. m.kind = "ret" => /\ origin[m.op] = f
                              /\ m.ok => Got(f, m.op)
        BY <1>0, <1>2, <2>2, <3>0 DEF ToldAt
      <3> HIDE DEF m, n
      <3>3. DbFirst(f)' <=> DbFirst(f)
        <4>1. CASE chan[f] = <<>>
          <5>1. n = 1
            BY <4>1 DEF n
          <5> QED BY <3>0, <3>1, <4>1, <5>1 DEF DbFirst
        <4>2. CASE chan[f] # <<>>
          <5>1. 1 \in DOMAIN chan[f]
            BY <3>1, <4>2 DEF TypeOK, ConnectionsOK
          <5>2. chan'[f][1] = chan[f][1] /\ 1 \in DOMAIN chan'[f]
            BY <3>1, <5>1
          <5>3. chan'[f] # <<>>
            BY <5>2
          <5> QED BY <4>2, <5>2, <5>3 DEF DbFirst
        <4> QED BY <4>1, <4>2
      <3>4. \A o : Got(f, o) => Got(f, o)'
        BY <1>1, <3>1, <3>3 DEF Got, InChan, TxAt
      <3>5. ASSUME NEW o, m.kind = "tx", m.op = o PROVE Got(f, o)'
        <4>1. n \in DOMAIN chan'[f] /\ chan'[f][n].kind = "tx" /\ chan'[f][n].op = o
          BY <3>1, <3>5 DEF n
        <4> QED BY <4>1 DEF Got, InChan, TxAt
      <3>6. ASSUME NEW j \in DOMAIN chan'[f], chan'[f][j].kind = "ret"
            PROVE  /\ origin[chan'[f][j].op] = f
                   /\ chan'[f][j].ok =>
                        \/ \E k \in 1 .. j : TxAt(f, k)' /\ chan'[f][k].op = chan'[f][j].op
                        \/ ~DbFirst(f) /\ chan'[f][j].op \in ToSet(fdb[f])
        <4>1. CASE j \in DOMAIN chan[f]
          <5>1. \A k \in 1 .. j : k \in DOMAIN chan[f] /\ chan'[f][k] = chan[f][k]
            BY <3>1, <4>1
          <5>2. chan'[f][j] = chan[f][j] /\ j \in 1 .. j
            BY <3>1, <4>1
          <5> QED BY <1>0, <3>6, <4>1, <5>1, <5>2 DEF HeardAt, TxAt
        <4>2. CASE j \notin DOMAIN chan[f]
          <5>1. j = n /\ chan'[f][j] = m /\ n \in Nat
            BY <3>1, <4>2 DEF n
          <5>2. ASSUME m.ok, InChan(f, m.op)
                PROVE  \E k \in 1 .. j : TxAt(f, k)' /\ chan'[f][k].op = m.op
            <6>1. PICK k \in DOMAIN chan[f] : TxAt(f, k) /\ chan[f][k].op = m.op
              BY <5>2 DEF InChan
            <6>2. k \in 1 .. j /\ chan'[f][k] = chan[f][k]
              BY <3>1, <5>1 DEF n
            <6> QED BY <6>1, <6>2 DEF TxAt
          <5> QED BY <3>2, <3>6, <5>1, <5>2 DEF Got
        <4> QED BY <4>1, <4>2
      <3>7. HeardAt(f)'
        BY <1>1, <3>3, <3>6 DEF HeardAt
      <3>8. \A o : PushAt(f, 1) /\ pushq[1].msg.op = o => Got(f, o)'
        BY <3>5 DEF PushAt, m
      <3> QED BY <3>4, <3>7, <3>8
    <2> QED BY <1>2, <2>1, <2>2
  <1>4. ToldAt(f)'
    <2> SUFFICES ASSUME NEW i \in DOMAIN pushq', pushq'[i].to = f,
                        pushq'[i].msg.kind = "ret", NEW o, o = pushq'[i].msg.op
                 PROVE  /\ origin'[o] = f
                        /\ pushq'[i].msg.ok /\ pushq'[i].open /\ relay'[f] = "live"
                              => Got(f, o)'
      BY DEF ToldAt, Got, InChan, DbFirst, TxAt
    <2>1. i + 1 \in DOMAIN pushq /\ pushq'[i] = pushq[i + 1]
      BY <1>2
    <2>2. /\ origin[o] = f
          /\ pushq'[i].msg.ok /\ pushq'[i].open /\ relay[f] = "live" => Got(f, o)
      BY <1>0, <2>1 DEF ToldAt
    <2> QED BY <1>1, <1>3, <2>2
  <1>5. AskedAt(f)'
    <2> SUFFICES ASSUME NEW o \in Op, opc[o] = "push", origin[o] = f, relay[f] = "live"
                 PROVE  Got(f, o)' \/ InPush(f, o)'
      BY <1>1 DEF AskedAt
    <2>1. Got(f, o) \/ InPush(f, o)
      BY <1>0 DEF AskedAt
    <2>2. ASSUME NEW i \in DOMAIN pushq, PushAt(f, i), pushq[i].msg.op = o
          PROVE  Got(f, o)' \/ InPush(f, o)'
      <3>1. CASE i = 1
        BY <1>3, <2>2, <3>1
      <3>2. CASE i # 1
        <4>1. i - 1 \in DOMAIN pushq' /\ pushq'[i - 1] = pushq[i]
          BY <1>2, <2>2, <3>2
        <4>2. PushAt(f, i - 1)'
          BY <2>2, <4>1 DEF PushAt
        <4> QED BY <2>2, <4>1, <4>2 DEF InPush
      <3> QED BY <3>1, <3>2
    <2> QED BY <1>3, <2>1, <2>2 DEF InPush
  <1> QED BY <1>3, <1>4, <1>5

\* A follower that reads a change has it before the answer.
LEMMA AnswersReads ==
    ASSUME TypeOK, TypeOK', Tenure, Step, NEW f \in Follower, Receive(f)
    PROVE  HeardAt(f)' /\ ToldAt(f)' /\ AskedAt(f)'
  <1>0. /\ Typed /\ Dumps /\ HeardAt(f) /\ ToldAt(f) /\ AskedAt(f) /\ txcount \in Nat
        /\ fdb \in [Follower -> Seq(Op)]
    BY Types DEF Tenure, Answers, TypeOK, LeaderOK, FollowersOK
  <1>1. /\ UNCHANGED <<pushq, relay, origin, opc>>
        /\ chan[f] # <<>> /\ chan'[f] = Tail(chan[f])
        /\ fdb' = IF chan[f][1].kind = "db" THEN [fdb EXCEPT ![f] = chan[f][1].db]
                  ELSE IF chan[f][1].kind = "tx"
                       THEN [fdb EXCEPT ![f] = Append(@, chan[f][1].op)] ELSE fdb
    <2>1. /\ UNCHANGED <<leadervars, opvars, joinvars, up, broken>>
          /\ chan[f] # <<>> /\ chan' = [chan EXCEPT ![f] = Tail(@)]
          /\ fdb' = IF chan[f][1].kind = "db" THEN [fdb EXCEPT ![f] = chan[f][1].db]
                    ELSE IF chan[f][1].kind = "tx"
                         THEN [fdb EXCEPT ![f] = Append(@, chan[f][1].op)] ELSE fdb
      BY Receives DEF Tenure
    <2> QED BY <1>0, <2>1 DEF Typed, leadervars, opvars
  <1>2. /\ 1 \in DOMAIN chan[f] /\ DOMAIN chan[f] = 1 .. Len(chan[f])
        /\ Len(chan[f]) \in Nat
        /\ \A j \in DOMAIN chan'[f] :
             j + 1 \in DOMAIN chan[f] /\ chan'[f][j] = chan[f][j + 1]
        /\ \A j \in DOMAIN chan[f] : j # 1 =>
             j - 1 \in DOMAIN chan'[f] /\ chan'[f][j - 1] = chan[f][j]
    BY <1>1, Rest
  <1>3. \A j \in DOMAIN chan'[f] : j \in Nat \ {0} /\ chan'[f][j].kind # "db"
    <2>1. \A j \in DOMAIN chan'[f] : j \in Nat \ {0} /\ 1 # j + 1
      BY DEF TypeOK, ConnectionsOK
    <2>2. \A k \in DOMAIN chan[f] : k # 1 => chan[f][k].kind # "db"
      BY <1>0 DEF Dumps
    <2> QED BY <1>2, <2>1, <2>2
  <1>4. ~DbFirst(f)'
    <2>1. chan'[f] # <<>> => 1 \in DOMAIN chan'[f]
      BY DEF TypeOK, ConnectionsOK
    <2> QED BY <1>3, <2>1 DEF DbFirst
  <1>5. /\ ~DbFirst(f) => ToSet(fdb[f]) \subseteq ToSet(fdb'[f])
        /\ TxAt(f, 1) => chan[f][1].op \in ToSet(fdb'[f])
    <2>1. CASE TxAt(f, 1)
      <3>1. fdb'[f] = Append(fdb[f], chan[f][1].op)
        BY <1>0, <1>1, <2>1 DEF TxAt
      <3>2. chan[f][1].op \in Op
        BY <1>0, <1>2, <2>1, MessageKinds DEF Typed, TxAt
      <3>3. ToSet(fdb'[f]) = ToSet(fdb[f]) \cup {chan[f][1].op}
        BY <1>0, <3>1, <3>2, AppendMember
      <3> QED BY <3>3
    <2>2. CASE ~TxAt(f, 1)
      BY <1>1, <2>2 DEF TxAt, DbFirst
    <2> QED BY <2>1, <2>2
  <1>6. \A o : Got(f, o) => Got(f, o)'
    <2> SUFFICES ASSUME NEW o, Got(f, o) PROVE Got(f, o)'
      OBVIOUS
    <2>1. CASE ~DbFirst(f) /\ o \in ToSet(fdb[f])
      BY <1>4, <1>5, <2>1 DEF Got
    <2>2. ASSUME NEW k \in DOMAIN chan[f], TxAt(f, k), chan[f][k].op = o
          PROVE  Got(f, o)'
      <3>1. CASE k = 1
        BY <1>4, <1>5, <2>2, <3>1 DEF Got
      <3>2. CASE k # 1
        <4>1. k - 1 \in DOMAIN chan'[f] /\ chan'[f][k - 1] = chan[f][k]
          BY <1>2, <2>2, <3>2
        <4>2. chan'[f][k - 1].kind = "tx"
          BY <2>2, <4>1 DEF TxAt
        <4> QED BY <2>2, <4>1, <4>2 DEF Got, InChan, TxAt
      <3> QED BY <3>1, <3>2
    <2> QED BY <2>1, <2>2 DEF Got, InChan
  <1>7. HeardAt(f)'
    <2> SUFFICES ASSUME NEW j \in DOMAIN chan'[f], chan'[f][j].kind = "ret"
                 PROVE  /\ origin[chan'[f][j].op] = f
                        /\ chan'[f][j].ok =>
                             \/ \E k \in 1 .. j : TxAt(f, k)' /\ chan'[f][k].op = chan'[f][j].op
                             \/ chan'[f][j].op \in ToSet(fdb'[f])
      BY <1>1, <1>4 DEF HeardAt
    <2>1. j + 1 \in DOMAIN chan[f] /\ chan'[f][j] = chan[f][j + 1] /\ j \in Nat \ {0}
      BY <1>2, <1>3
    <2>2. /\ origin[chan'[f][j].op] = f
          /\ chan'[f][j].ok =>
               \/ \E k \in 1 .. j + 1 : TxAt(f, k) /\ chan[f][k].op = chan'[f][j].op
               \/ ~DbFirst(f) /\ chan'[f][j].op \in ToSet(fdb[f])
      BY <1>0, <2>1 DEF HeardAt
    <2>3. ASSUME NEW k \in 1 .. j + 1, TxAt(f, k), chan[f][k].op = chan'[f][j].op
          PROVE  \/ \E l \in 1 .. j : TxAt(f, l)' /\ chan'[f][l].op = chan'[f][j].op
                 \/ chan'[f][j].op \in ToSet(fdb'[f])
      <3>1. CASE k = 1
        BY <1>5, <2>3, <3>1
      <3>2. CASE k # 1
        <4>1. k \in DOMAIN chan[f] /\ k - 1 \in 1 .. j
          BY <1>2, <2>1, <3>2
        <4>2. chan'[f][k - 1] = chan[f][k]
          BY <1>2, <3>2, <4>1
        <4>3. chan'[f][k - 1].kind = "tx" /\ chan'[f][k - 1].op = chan'[f][j].op
          BY <2>3, <4>2 DEF TxAt
        <4> QED BY <4>1, <4>3 DEF TxAt
      <3> QED BY <3>1, <3>2
    <2> QED BY <1>5, <2>2, <2>3
  <1>8. ToldAt(f)'
    <2>1. ~Push
      <3>1. Len(Tail(pushq)) # Len(pushq) \/ pushq = <<>>
        BY DEF TypeOK, ChangesOK
      <3> QED BY <1>1, <3>1 DEF Push
    <2> QED BY <1>1, <1>6, <2>1, ToldKept
  <1>9. AskedAt(f)'
    <2> SUFFICES ASSUME NEW o \in Op, opc[o] = "push", origin[o] = f, relay[f] = "live"
                 PROVE  Got(f, o)' \/ InPush(f, o)'
      BY <1>1 DEF AskedAt
    <2>1. Got(f, o) \/ InPush(f, o)
      BY <1>0 DEF AskedAt
    <2>2. InPush(f, o) => InPush(f, o)'
      BY <1>1 DEF InPush, PushAt
    <2> QED BY <1>6, <2>1, <2>2
  <1> QED BY <1>7, <1>8, <1>9

\* Nothing is asked or answered on a connection that joins.
LEMMA AnswersJoins ==
    ASSUME TypeOK, TypeOK', Tenure, Step, NEW f \in Follower,
           \/ StopFollowing(f) \/ JoinSend(f) \/ JoinRegister(f)
           \/ \E n \in 0 .. Len(ldb) : JoinDump(f, n)
    PROVE  HeardAt(f)' /\ ToldAt(f)' /\ AskedAt(f)'
  <1>0. Typed /\ Registered /\ Dumps /\ Busyness
    BY Types DEF Tenure
  <1>1. relay[f] # "live" /\ UNCHANGED <<origin, opc>>
    BY <1>0 DEF Registered, StopFollowing, JoinSend, JoinRegister, JoinDump, opvars
  <1>2. \A j \in DOMAIN chan'[f] : chan'[f][j].kind = "db"
    <2>1. CASE StopFollowing(f)
      <3>1. chan'[f] = <<>>
        BY <1>0, <2>1 DEF StopFollowing, Typed
      <3> QED BY <3>1
    <2>2. CASE JoinRegister(f)
      BY <1>0, <2>2 DEF JoinRegister, netvars, Dumps
    <2>3. CASE \E n \in 0 .. Len(ldb) : JoinDump(f, n)
      BY <2>3 DEF JoinDump
    <2>4. CASE JoinSend(f)
      <3>1. chan[f] = <<>>
        BY <1>0, <2>4 DEF JoinSend, Dumps
      <3>2. chan'[f] = <<>> \/ chan'[f] = <<Db(snap[f], txcount)>>
        BY <1>0, <2>4, <3>1 DEF JoinSend, Typed
      <3> QED BY <3>2 DEF Db
    <2> QED BY <2>1, <2>2, <2>3, <2>4
  <1>3. HeardAt(f)'
    BY <1>2 DEF HeardAt
  <1>4. CASE ~JoinRegister(f)
    <2>1. relay'[f] # "live"
      BY <1>1, <1>4 DEF StopFollowing, JoinSend, JoinDump, leadervars
    <2>2. ~Push
      <3>1. UNCHANGED pushq
        BY <1>4 DEF StopFollowing, JoinSend, JoinDump, opvars
      <3>2. Len(Tail(pushq)) # Len(pushq) \/ pushq = <<>>
        BY DEF TypeOK, ChangesOK
      <3> QED BY <3>1, <3>2 DEF Push
    <2> QED BY <1>3, <2>1, <2>2, ToldKept DEF AskedAt
  <1>5. CASE JoinRegister(f)
    <2>1. relay[f] = "none"
      BY <1>5 DEF JoinRegister
    <2>2. AskedAt(f)'
      BY <1>0, <1>1, <2>1, RolesAssumption DEF AskedAt, Busyness
    <2>3. /\ \A i \in DOMAIN pushq : pushq'[i] = pushq[i]
          /\ \A i \in DOMAIN pushq' \ DOMAIN pushq : pushq'[i].msg.kind = "quorum"
      <3>1. Enqueued(ToSet(streams'), Quorum(hasquorum', f))
        BY <1>5, RegisterPushes
      <3> QED BY <3>1 DEF Enqueued, Quorum
    <2>4. \A i \in DOMAIN pushq' : pushq'[i].to = f /\ pushq'[i].msg.kind = "ret" =>
            i \in DOMAIN pushq /\ pushq'[i] = pushq[i] /\ ~pushq'[i].open
      BY <1>0, <2>1, <2>3 DEF Registered
    <2>5. ToldAt(f)'
      <3>1. ToldAt(f)
        BY DEF Tenure, Answers
      <3>2. \A i \in DOMAIN pushq' : pushq'[i].to = f /\ pushq'[i].msg.kind = "ret" =>
              origin[pushq'[i].msg.op] = f
        BY <2>4, <3>1 DEF ToldAt
      <3> QED BY <1>1, <2>4, <3>2 DEF ToldAt
    <2> QED BY <1>3, <2>2, <2>5
  <1> QED BY <1>4, <1>5

\* The three parts of Answers, for one follower after the other.
LEMMA AnswersKept ==
    ASSUME TypeOK, TypeOK', Tenure, Step
    PROVE  Answers'
  <1>1. ASSUME NEW f \in Follower PROVE HeardAt(f)' /\ ToldAt(f)' /\ AskedAt(f)'
    BY AnswersQuiet, AnswersCounts, AnswersPush, AnswersReads, AnswersJoins DEF Moving
  <1> QED BY <1>1 DEF Answers
-----------------------------------------------------------------------------
(* The invariant holds.                                                    *)

LEMMA InitTenure == Init => Tenure
  <1> SUFFICES ASSUME Init PROVE Tenure
    OBVIOUS
  <1>1. Decided = <<>> /\ ToSet(<<>>) = {} /\ IsInjective(<<>>)
    <2>1. Decided = <<>>
      BY DEF Init, Decided
    <2> QED BY <2>1, EmptyList
  <1>2. NoFarewell /\ Registered /\ Dumps
    BY DEF Init, NoFarewell, Registered, Dumps
  <1>3. Busyness /\ Sending
    BY <1>1 DEF Init, Busyness, Sending
  <1>4. Once
    BY <1>1 DEF Init, Once
  <1>5. Contents
    BY <1>1 DEF Init, Contents, PrefixOf
  <1>6. Ordered /\ Complete
    BY DEF Init, Ordered, OrderedAt, Complete, CompleteAt
  <1>7. Answers
    BY DEF Init, Answers, HeardAt, ToldAt, AskedAt
  <1> QED BY <1>2, <1>3, <1>4, <1>5, <1>6, <1>7 DEF Tenure

\* The invariant holds at first.
LEMMA InitInv == Init => ReplicationInv
  BY InitTypes, InitTenure DEF ReplicationInv

\* The conjuncts of the invariant, each kept by the lemma of its name.
LEMMA InvStep ==
    ASSUME ReplicationInv, [Next]_vars
    PROVE  ReplicationInv'
  <1>1. TypeOK /\ TypeOK'
    BY TypeStep DEF ReplicationInv
  <1>2. ASSUME ~retired' PROVE Tenure'
    <2>1. Tenure
      BY <1>2, Serving DEF ReplicationInv
    <2>2. Step
      BY <1>2, <2>1, Steps DEF Tenure
    <2> QED BY <1>1, <2>1, <2>2, NoFarewellKept, RegisteredKept, DumpsKept, BusynessKept,
           SendingKept, OnceKept, ContentsKept, WayKept, AnswersKept DEF Tenure
  <1> QED BY <1>1, <1>2 DEF ReplicationInv

\* Every variable keeps its type: streams are registered once, the counts of
\* followers and of messages are not ahead of the leader's.
THEOREM TypeCorrect == Spec => []TypeOK
  <1>1. Init => TypeOK
    BY InitTypes
  <1>2. TypeOK /\ [Next]_vars => TypeOK'
    BY TypeStep
  <1> QED BY <1>1, <1>2, PTL DEF Spec

\* While the leader leads, what it has counted reaches every follower in the
\* order of the log, and no answer overtakes the change that it answers.
THEOREM TenureCorrect == Spec => []ReplicationInv
  <1>1. ReplicationInv /\ [Next]_vars => ReplicationInv'
    BY InvStep
  <1> QED BY <1>1, InitInv, PTL DEF Spec

\* exec_on_leader returns to a client of a follower only when the follower has
\* the change of that client.
THEOREM AnswersFollowChanges == Spec => ReadYourWrites
  <1>1. ReplicationInv /\ [Next]_vars =>
          [\A o \in answered' \ answered : retired \/ o \in ToSet(fdb[origin[o]])]_vars
    <2> SUFFICES ASSUME ReplicationInv, [Next]_vars, ~retired,
                        NEW o \in answered' \ answered
                 PROVE  o \in ToSet(fdb[origin[o]])
      OBVIOUS
    <2>0. TypeOK /\ Tenure /\ Typed /\ NoFarewell
      BY Types DEF ReplicationInv, Tenure
    <2>1. PICK f \in Follower : Receive(f)
      BY DEF Next, Progress, Submit, Request, RelayRequest, Commit, Push, Apply,
         JoinDump, JoinSend, JoinRegister, Reannounce, StopFollowing, Break, RelayEnd,
         RelayExit, StopLeading, TellNewLeader, vars, followervars
    <2>2. /\ chan[f] # <<>>
          /\ answered' = IF chan[f][1].kind = "ret" /\ chan[f][1].ok
                         THEN answered \cup {chan[f][1].op} ELSE answered
      BY <2>0, <2>1, Receives
    <2>3. /\ chan[f][1].kind = "ret" /\ chan[f][1].ok /\ o = chan[f][1].op
      BY <2>2
    <2>4. 1 \in DOMAIN chan[f]
      BY <2>0, <2>2, Rest
    <2>5. HeardAt(f)
      BY <2>0 DEF Tenure, Answers
    <2>6. ~TxAt(f, 1) /\ 1 .. 1 = {1}
      BY <2>3 DEF TxAt
    <2>7. origin[o] = f /\ o \in ToSet(fdb[f])
      BY <2>3, <2>4, <2>5, <2>6 DEF HeardAt
    <2> QED BY <2>7
  <1> QED BY <1>1, TenureCorrect, PTL DEF Spec, ReadYourWrites
-----------------------------------------------------------------------------
(* The refinement of ReplicatedLog.                                        *)

\* The terms of ReplicatedLog are those of the invariant.
LEMMA LogTerms ==
    /\ \A o : Log!Position(o) = Pos(o)
    /\ \A f \in Follower : Log!Reached(f) =
          IF fdb[f] = <<>> THEN 0 ELSE Pos(fdb[f][Len(fdb[f])])
    /\ \A s : Log!ToSet(s) = ToSet(s)
  <1>1. \A o : Log!Position(o) = Pos(o)
    BY DEF Log!Position, Pos, PosOf, Decided
  <1>2. \A s : Log!ToSet(s) = ToSet(s)
    BY DEF Log!ToSet, ToSet
  <1> QED BY <1>1, <1>2 DEF Log!Reached, Log!Last

\* No change and no follower at first.
LEMMA LogInit == Init => Log!Init
  <1> SUFFICES ASSUME Init PROVE Log!Init
    OBVIOUS
  <1>1. ldb \o inflight = <<>>
    BY DEF Init
  <1>2. {f \in Follower : raced[f]} = {}
    BY DEF Init
  <1> QED BY <1>1, <1>2 DEF Init, Log!Init

\* Whoever joins while a change is on its way may miss changes already, so that
\* only a change that is counted, or a dump, alters who does.
LEMMA RacedSteps ==
    ASSUME TypeOK, TypeOK', Tenure, Step, UNCHANGED Decided,
           ~\E f \in Follower, n \in 0 .. Len(ldb) : JoinDump(f, n)
    PROVE  UNCHANGED raced
  <1>0. /\ raced \in [Follower -> BOOLEAN] /\ ldb \in Seq(Op) /\ inflight \in Seq(Op)
        /\ raced' \in [Follower -> BOOLEAN]
    BY DEF TypeOK, JoinsOK, LeaderOK, ChangesOK
  <1>1. CASE Apply
    <2>1. inflight # <<>> /\ MarkRaced
      BY <1>1 DEF Apply
    <2>2. \A f \in Racing : raced[f]
      BY <2>1 DEF Tenure, Complete, CompleteAt, Racing
    <2>3. \A f \in Follower : raced'[f] = raced[f]
      BY <1>0, <2>1, <2>2 DEF MarkRaced
    <2> QED BY <1>0, <2>3
  <1>2. ASSUME NEW o \in Op, Submit(o) PROVE UNCHANGED raced
    <2>1. UNCHANGED raced \/ (ldb' = Append(ldb, o) /\ UNCHANGED inflight)
      BY <1>2 DEF Submit
    <2>2. ASSUME ldb' = Append(ldb, o), UNCHANGED inflight PROVE FALSE
      <3>1. Len(Decided') = Len(ldb) + 1 + Len(inflight)
        BY <1>0, <2>2, LogMember DEF Decided
      <3>2. Len(Decided) = Len(ldb) + Len(inflight)
        BY <1>0, LogMember DEF Decided
      <3> QED BY <1>0, <3>1, <3>2
    <2> QED BY <2>1, <2>2
  <1>3. ASSUME NEW o \in Op, Commit(o) PROVE UNCHANGED raced
    <2>1. UNCHANGED raced \/ inflight' = Append(inflight, o)
      BY <1>3 DEF Commit
    <2>2. ASSUME inflight' = Append(inflight, o) PROVE FALSE
      <3>1. UNCHANGED ldb
        BY <1>3 DEF Commit
      <3>2. Len(Decided') = Len(ldb) + (Len(inflight) + 1)
        BY <1>0, <2>2, <3>1, LogMember DEF Decided
      <3>3. Len(Decided) = Len(ldb) + Len(inflight)
        BY <1>0, LogMember DEF Decided
      <3> QED BY <1>0, <3>2, <3>3
    <2> QED BY <2>1, <2>2
  <1>4. CASE \E f \in Follower : \/ RelayRequest(f) \/ JoinRegister(f) \/ Reannounce(f)
                                 \/ RelayEnd(f) \/ JoinSend(f) \/ Receive(f)
                                 \/ StopFollowing(f) \/ Break(f) \/ RelayExit(f)
                                 \/ \E o \in Op : Request(f, o)
    BY <1>4 DEF RelayRequest, JoinRegister, Reannounce, RelayEnd, JoinSend, Receive,
       StopFollowing, Break, RelayExit, Request, joinvars
  <1>5. CASE Push \/ UNCHANGED vars
    BY <1>5 DEF Push, vars, joinvars
  <1> QED BY <1>1, <1>2, <1>3, <1>4, <1>5 DEF Step, Pushing

\* A follower that reads a change learns the next one, or has missed some.
LEMMA LearnNext ==
    ASSUME TypeOK, TypeOK', Tenure, Once', Grows, NEW f \in Follower, Receive(f),
           TxAt(f, 1)
    PROVE  /\ Base(f) < Pos(chan[f][1].op) /\ Pos(chan[f][1].op) \in 1 .. Len(Decided)
           /\ ~raced[f] => Pos(chan[f][1].op) = Base(f) + 1
  <1>0. /\ Typed /\ OrderedAt(f) /\ (~raced[f] => CompleteAt(f)) /\ 1 \in DOMAIN chan[f]
        /\ chan[f] # <<>>
    BY Types, Rest DEF Tenure, Ordered, Complete, Receive
  <1>1. PlacesKnown /\ Base(f) \in 0 .. Len(Decided) /\ Len(Decided) \in Nat
    BY PlacesFound, BaseKnown, PlacesKept DEF Tenure
  <1>2. Base(f) < Pos(chan[f][1].op) /\ Pos(chan[f][1].op) \in 1 .. Len(Decided)
    BY <1>0, <1>1 DEF OrderedAt, PlacesKnown
  <1>3. ASSUME ~raced[f] PROVE Pos(chan[f][1].op) = Base(f) + 1
    <2> DEFINE p == Base(f) + 1
    <2>1. p \in Base(f) + 1 .. Pos(chan[f][1].op) /\ p \in 1 .. Len(Decided)
      BY <1>1, <1>2
    <2>2. InChan(f, Decided[p])
      BY <1>0, <1>3, <2>1 DEF CompleteAt
    <2>3. PICK k \in DOMAIN chan[f] : TxAt(f, k) /\ chan[f][k].op = Decided[p]
      BY <2>2 DEF InChan
    <2>4. Pos(Decided[p]) = p
      BY <2>1, PlacesKept DEF Tenure
    <2>5. CASE k = 1
      BY <2>3, <2>4, <2>5
    <2>6. CASE k # 1
      <3>1. 1 < k
        BY <1>0, <2>6 DEF Typed
      <3>2. Pos(chan[f][1].op) < Pos(chan[f][k].op)
        BY <1>0, <2>3, <3>1 DEF OrderedAt
      <3> QED BY <1>1, <1>2, <2>1, <2>3, <2>4, <3>2
    <2> QED BY <2>5, <2>6
  <1> QED BY <1>2, <1>3

\* What a follower reads, it learns of the log.
LEMMA LogReads ==
    ASSUME TypeOK, TypeOK', Tenure, Step, NEW f \in Follower, Receive(f)
    PROVE  \/ Log!Bootstrap(f) \/ Log!Learn(f) \/ \E o \in Op : Log!Answer(f, o)
           \/ UNCHANGED Log!vars
  <1>0. /\ Typed /\ Once' /\ Grows /\ Contents /\ Dumps /\ txcount \in Nat
        /\ fdb \in [Follower -> Seq(Op)] /\ HeardAt(f)
    BY Types, OnceKept DEF Tenure, TypeOK, LeaderOK, FollowersOK, Answers
  <1>1. /\ UNCHANGED <<ldb, inflight, raced, retired>>
        /\ chan[f] # <<>>
        /\ fdb' = IF chan[f][1].kind = "db" THEN [fdb EXCEPT ![f] = chan[f][1].db]
                  ELSE IF chan[f][1].kind = "tx"
                       THEN [fdb EXCEPT ![f] = Append(@, chan[f][1].op)] ELSE fdb
        /\ answered' = IF chan[f][1].kind = "ret" /\ chan[f][1].ok
                       THEN answered \cup {chan[f][1].op} ELSE answered
    BY Receives DEF Tenure, leadervars, opvars, joinvars
  <1>2. 1 \in DOMAIN chan[f] /\ chan[f][1] \in Message(txcount)
    BY <1>0, <1>1, Rest DEF Typed
  <1>3. /\ UNCHANGED (ldb \o inflight)
        /\ {g \in Follower : raced'[g]} = {g \in Follower : raced[g]}
    BY <1>1
  <1>4. CASE chan[f][1].kind = "db"
    <2> DEFINE s == chan[f][1].db
               n == Len(s)
    <2>1. s \in Seq(Op) /\ PrefixOf(s, Decided) /\ Decided \in Seq(Op)
      BY <1>0, <1>2, <1>4, MessageKinds, PlacesKept DEF Contents, Tenure
    <2> HIDE DEF s
    <2>2. n \in 0 .. Len(Decided)
      BY <2>1 DEF PrefixOf
    <2>3. s = SubSeq(Decided, 1, n)
      <3>1. /\ SubSeq(Decided, 1, n) \in Seq(Op) /\ Len(SubSeq(Decided, 1, n)) = n
            /\ \A i \in 1 .. n : SubSeq(Decided, 1, n)[i] = Decided[i]
        BY <2>1, <2>2
      <3>2. \A i \in 1 .. n : s[i] = Decided[i]
        BY <2>1 DEF PrefixOf
      <3> QED BY <2>1, <3>1, <3>2, SeqEqual
    <2>4. fdb' = [fdb EXCEPT ![f] = SubSeq(Decided, 1, n)] /\ UNCHANGED answered
      BY <1>1, <1>4, <2>3 DEF s
    <2>5. Log!Bootstrap(f)
      BY <1>1, <1>3, <2>2, <2>4 DEF Log!Bootstrap, Decided
    <2> QED BY <2>5
  <1>5. CASE chan[f][1].kind = "tx"
    <2> DEFINE i == Pos(chan[f][1].op)
    <2>1. /\ Base(f) < i /\ i \in 1 .. Len(Decided)
          /\ ~raced[f] => i = Base(f) + 1
      BY <1>0, <1>5, LearnNext DEF TxAt
    <2>2. Decided[i] = chan[f][1].op
      BY <1>0, <1>2, <1>5, PlacesFound DEF PlacesKnown, TxAt, Tenure
    <2>3. Log!Reached(f) = Base(f)
      BY <1>5, LogTerms DEF Base, DbFirst
    <2>4. Base(f) \in Nat
      <3>1. Base(f) \in 0 .. Len(Decided)
        BY <1>0, BaseKnown DEF Tenure
      <3> QED BY <3>1
    <2> HIDE DEF i
    <2>5. /\ i \in Log!Reached(f) + 1 .. Len(ldb \o inflight)
          /\ i = Log!Reached(f) + 1 \/ f \in {g \in Follower : raced[g]}
      BY <2>1, <2>3, <2>4 DEF Decided
    <2>6. fdb' = [fdb EXCEPT ![f] = Append(@, (ldb \o inflight)[i])] /\ UNCHANGED answered
      BY <1>1, <1>5, <2>2 DEF Decided
    <2>7. Log!Learn(f)
      BY <1>1, <1>3, <2>5, <2>6 DEF Log!Learn
    <2> QED BY <2>7
  <1>6. CASE chan[f][1].kind = "ret" /\ chan[f][1].ok
    <2> DEFINE o == chan[f][1].op
    <2>1. o \in Op
      BY <1>0, <1>2, <1>6, MessageKinds
    <2>2. ~TxAt(f, 1) /\ 1 .. 1 = {1}
      BY <1>6 DEF TxAt
    <2>3. o \in ToSet(fdb[f])
      BY <1>0, <1>2, <1>6, <2>2 DEF HeardAt
    <2>4. UNCHANGED fdb /\ answered' = answered \cup {o}
      BY <1>1, <1>6
    <2> HIDE DEF o
    <2>5. Log!Answer(f, o)
      BY <1>1, <1>3, <2>3, <2>4, LogTerms DEF Log!Answer
    <2> QED BY <2>1, <2>5
  <1>7. CASE chan[f][1].kind \notin {"db", "tx"} /\ ~(chan[f][1].kind = "ret" /\ chan[f][1].ok)
    <2>1. UNCHANGED <<fdb, answered>>
      BY <1>1, <1>7
    <2> QED BY <1>1, <1>3, <2>1 DEF Log!vars
  <1> QED BY <1>4, <1>5, <1>6, <1>7

\* Each step is a step of the log or leaves it alone: the steps of leader and
\* followers one by one.
LEMMA LogStep ==
    ASSUME ReplicationInv, [Next]_vars
    PROVE  [Log!Next]_(Log!vars)
  <1>0. TypeOK /\ TypeOK'
    BY TypeStep DEF ReplicationInv
  <1>1. CASE retired'
    <2>1. retired' = TRUE /\ (retired \/ ~retired) /\ retired \in BOOLEAN
      BY <1>0, <1>1 DEF TypeOK, LeaderOK
    <2> QED BY <2>1 DEF Log!Next, Log!Retire
  <1>2. CASE ~retired'
    <2>1. ~retired /\ Tenure
      BY <1>2, Serving DEF ReplicationInv
    <2>2. Step
      BY <1>2, <2>1, Steps DEF Tenure
    <2>3. Once' /\ Grows
      BY <1>0, <2>1, <2>2, OnceKept
    <2>4. retired' = retired
      BY <1>0, <1>2, <2>1 DEF TypeOK, LeaderOK
    <2>5. ASSUME NEW f \in Follower, Receive(f) PROVE [Log!Next]_(Log!vars)
      <3>1. \/ Log!Bootstrap(f) \/ Log!Learn(f) \/ \E o \in Op : Log!Answer(f, o)
            \/ UNCHANGED Log!vars
        BY <1>0, <2>1, <2>2, <2>5, LogReads
      <3> QED BY <2>1, <3>1 DEF Log!Next
    <2>6. ASSUME NEW f \in Follower, NEW n \in 0 .. Len(ldb), JoinDump(f, n)
          PROVE  [Log!Next]_(Log!vars)
      <3>1. /\ UNCHANGED <<ldb, inflight, fdb, answered>>
            /\ raced' = [raced EXCEPT ![f] = n < Len(ldb) \/ inflight # <<>>]
        BY <2>6 DEF JoinDump, leadervars, opvars, followervars
      <3>2. /\ raced = [g \in Follower |-> raced[g]] /\ raced'[f] \in BOOLEAN
        BY <1>0 DEF TypeOK, JoinsOK
      <3>3. \A g \in Follower : g # f => raced'[g] = raced[g]
        BY <3>1, <3>2
      <3>4. {g \in Follower : raced'[g]} \in
              {{g \in Follower : raced[g]} \cup {f}, {g \in Follower : raced[g]} \ {f}}
        BY <3>2, <3>3
      <3>5. Log!Rejoin(f)
        BY <2>4, <3>1, <3>4 DEF Log!Rejoin
      <3> QED BY <2>1, <3>5 DEF Log!Next
    <2>7. CASE /\ ~\E f \in Follower : Receive(f)
               /\ ~\E f \in Follower, n \in 0 .. Len(ldb) : JoinDump(f, n)
      <3>1. UNCHANGED <<fdb, answered>>
        BY <2>2, <2>7 DEF Step, Pushing, Submit, Request, RelayRequest, Commit, Push,
           Apply, JoinSend, JoinRegister, Reannounce, StopFollowing, Break, RelayEnd,
           RelayExit, vars, followervars
      <3>2. CASE UNCHANGED Decided
        <4>1. UNCHANGED raced
          BY <1>0, <2>1, <2>2, <2>7, <3>2, RacedSteps
        <4> QED BY <2>4, <3>1, <3>2, <4>1 DEF Log!vars, Decided
      <3>3. ASSUME NEW o \in Op, Decided' = Append(Decided, o), o \notin ToSet(Decided),
                   MarkRaced
            PROVE  [Log!Next]_(Log!vars)
        <4>1. {g \in Follower : raced[g]} \subseteq {g \in Follower : raced'[g]}
          BY <3>3 DEF MarkRaced
        <4>2. Log!Decide(o)
          BY <2>4, <3>1, <3>3, <4>1, LogTerms DEF Log!Decide, Decided
        <4> QED BY <2>1, <4>2 DEF Log!Next
      <3> QED BY <2>3, <3>2, <3>3 DEF Grows
    <2> QED BY <2>5, <2>6, <2>7
  <1> QED BY <1>1, <1>2

\* Replication implements one log: no interleaving of requests, pushes, joins
\* and losses makes a follower apply a change that was not decided, twice, in
\* another order, or leave one out that was decided after it had joined.
THEOREM ReplicationRefines == Spec => ReplicationImplementsLog
  <1>1. ReplicationInv /\ [Next]_vars => [Log!Next]_(Log!vars)
    BY LogStep
  <1> QED BY <1>1, LogInit, TenureCorrect, PTL DEF Spec, ReplicationImplementsLog, Log!Spec
-----------------------------------------------------------------------------
(* The announcements of the quorum.                                        *)

\* What a follower on a live connection was told last, or is about to be, is
\* what the leader announced last.
Tells(p, f) == p.to = f /\ p.open /\ p.msg.kind = "quorum"
LastPushed(f) ==
    \E i \in DOMAIN pushq :
        /\ Tells(pushq[i], f) /\ pushq[i].msg.quorum = hasquorum
        /\ \A k \in DOMAIN pushq : i < k => ~Tells(pushq[k], f)
LastSent(f) ==
    \E j \in DOMAIN chan[f] :
        /\ chan[f][j].kind = "quorum" /\ chan[f][j].quorum = hasquorum
        /\ \A k \in DOMAIN chan[f] : j < k => chan[f][k].kind # "quorum"
LastRead(f) ==
    /\ \A j \in DOMAIN chan[f] : chan[f][j].kind # "quorum"
    /\ fquorum[f] = hasquorum
LastTold(f) ==
    \/ LastPushed(f)
    \/ /\ \A i \in DOMAIN pushq : ~Tells(pushq[i], f)
       /\ LastSent(f) \/ LastRead(f)
Known == \A f \in ToSet(streams) : relay[f] = "live" => LastTold(f)

\* A connection that is served is neither lost nor set up again.
Alive ==
    \A f \in Follower : relay[f] = "live" => ~broken[f] /\ joinpc[f] = "none"

\* A relay that still serves a stream that stop_leading has unregistered.
Unfinished ==
    \E f \in Follower : relay[f] \in {"live", "broken"} /\ f \notin ToSet(streams)

\* The leader announced the quorum when its streams changed, or will when such
\* a relay ends.
Counted ==
    streams = <<>> \/ hasquorum = HasQuorum(ToSet(streams)) \/ Unfinished

QuorumInv == TypeOK /\ Alive /\ Known /\ Counted

\* An announcement to everybody is the last one.
LEMMA AnnouncedLast ==
    ASSUME NEW n \in Nat, NEW q \in Seq(Waiting(n)), NEW g \in Follower,
           streams' \in Seq(Follower), IsInjective(streams'), hasquorum' \in BOOLEAN,
           pushq' = Broadcast(q, streams', Quorum(hasquorum', g)),
           NEW f \in ToSet(streams')
    PROVE  LastTold(f)'
  <1> DEFINE l == Len(q)
             s == streams'
             m == Quorum(hasquorum', g)
  <1>1. /\ s \in Seq(Follower) /\ IsInjective(s) /\ l \in Nat
        /\ DOMAIN s = 1 .. Len(s) /\ Len(s) \in Nat /\ m \in Message(n)
        /\ m.kind = "quorum" /\ m.quorum = hasquorum'
    BY MessageMade DEF Quorum
  <1>2. PICK e \in 1 .. Len(s) : s[e] = f
    BY <1>1 DEF ToSet
  <1> HIDE DEF m, s
  <1>3. pushq' = Broadcast(q, s, m)
    BY DEF m, s
  <1>4. /\ pushq' \in Seq(Waiting(n)) /\ Len(pushq') = l + Len(s)
        /\ \A i \in 1 .. Len(s) : pushq'[l + i] = [to |-> s[i], open |-> TRUE, msg |-> m]
    <2>1. /\ Broadcast(q, s, m) \in Seq(Waiting(n)) /\ Len(Broadcast(q, s, m)) = Len(q) + Len(s)
          /\ \A i \in 1 .. Len(s) : Broadcast(q, s, m)[Len(q) + i] =
               [to |-> s[i], open |-> TRUE, msg |-> m]
      BY <1>1, BroadcastMade
    <2> QED BY <1>3, <2>1
  <1>5. DOMAIN pushq' = 1 .. l + Len(s)
    BY <1>4
  <1> HIDE DEF l
  <1>6. l + e \in DOMAIN pushq' /\ pushq'[l + e] = [to |-> f, open |-> TRUE, msg |-> m]
    BY <1>1, <1>2, <1>4, <1>5
  <1>7. ASSUME NEW k \in DOMAIN pushq', l + e < k PROVE pushq'[k].to # f
    <2>1. k - l \in 1 .. Len(s) /\ l + (k - l) = k /\ k - l # e
      BY <1>1, <1>2, <1>5, <1>7
    <2>2. pushq'[k] = [to |-> s[k - l], open |-> TRUE, msg |-> m]
      BY <1>4, <2>1
    <2>3. s[k - l] # f
      BY <1>1, <1>2, <2>1 DEF IsInjective
    <2> QED BY <2>2, <2>3
  <1>8. \E i \in DOMAIN pushq' :
          /\ pushq'[i].to = f /\ pushq'[i].open /\ pushq'[i].msg.kind = "quorum"
          /\ pushq'[i].msg.quorum = hasquorum'
          /\ \A k \in DOMAIN pushq' : i < k => pushq'[k].to # f
    BY <1>1, <1>6, <1>7
  <1> QED BY <1>8 DEF LastTold, LastPushed, Tells

\* Other pushes announce nothing.
LEMMA ToldStill ==
    ASSUME NEW f \in Follower, LastTold(f), DOMAIN pushq = 1 .. Len(pushq), Len(pushq) \in Nat,
           chan'[f] = chan[f], fquorum'[f] = fquorum[f], hasquorum' = hasquorum,
           \A i \in DOMAIN pushq : i \in DOMAIN pushq' /\ pushq'[i] = pushq[i],
           \A i \in DOMAIN pushq' \ DOMAIN pushq : pushq'[i].msg.kind # "quorum"
    PROVE  LastTold(f)'
  <1>1. /\ \A i \in DOMAIN pushq : Tells(pushq'[i], f) <=> Tells(pushq[i], f)
        /\ \A i \in DOMAIN pushq' \ DOMAIN pushq : ~Tells(pushq'[i], f)
    BY DEF Tells
  <1>2. LastPushed(f) => LastPushed(f)'
    BY <1>1 DEF LastPushed, Tells
  <1>3. (\A i \in DOMAIN pushq : ~Tells(pushq[i], f)) =>
           \A i \in DOMAIN pushq' : ~Tells(pushq'[i], f)
    BY <1>1
  <1>4. (\A i \in DOMAIN pushq' : ~Tells(pushq'[i], f)) =>
           (\A i \in DOMAIN pushq : ~Tells(pushq[i], f))'
    BY DEF Tells
  <1>5. LastSent(f) => LastSent(f)'
    BY DEF LastSent
  <1>6. LastRead(f) => LastRead(f)'
    BY DEF LastRead
  <1> QED BY <1>2, <1>3, <1>4, <1>5, <1>6 DEF LastTold

\* An announcement that is pushed is on the connection.
LEMMA ToldPushed ==
    ASSUME TypeOK, TypeOK', NEW f \in Follower, LastTold(f), relay[f] = "live", Push
    PROVE  LastTold(f)'
  <1>0. Typed /\ UNCHANGED <<hasquorum, fquorum>>
    BY Types DEF Push, followervars
  <1>1. /\ 1 \in DOMAIN pushq
        /\ \A i \in DOMAIN pushq' :
             i + 1 \in DOMAIN pushq /\ pushq'[i] = pushq[i + 1] /\ i \in Nat \ {0}
        /\ \A i \in DOMAIN pushq : /\ i \in Nat \ {0}
                                   /\ i # 1 => i - 1 \in DOMAIN pushq' /\ pushq'[i - 1] = pushq[i]
    BY DEF Push, TypeOK, ChangesOK
  <1>2. \/ ~(pushq[1].to = f /\ Writes(pushq[1])) /\ chan'[f] = chan[f]
        \/ /\ pushq[1].to = f /\ Writes(pushq[1])
           /\ chan'[f] = Append(chan[f], pushq[1].msg)
    <2>1. Head(pushq) = pushq[1]
      BY DEF Push, TypeOK, ChangesOK
    <2>2. chan' = IF Writes(pushq[1])
                  THEN [chan EXCEPT ![pushq[1].to] = Append(@, pushq[1].msg)] ELSE chan
      BY <2>1 DEF Push
    <2>3. pushq[1].to \in Follower
      BY <1>0, <1>1 DEF Typed
    <2> QED BY <1>0, <2>2, <2>3 DEF Typed
  <1>3. /\ \A i \in DOMAIN pushq' : Tells(pushq'[i], f) => Tells(pushq[i + 1], f)
        /\ Tells(pushq[1], f) => /\ pushq[1].to = f /\ Writes(pushq[1])
                                 /\ chan'[f] = Append(chan[f], pushq[1].msg)
    BY <1>1, <1>2 DEF Tells, Writes
  <1>4. (\A i \in DOMAIN pushq : i # 1 => ~Tells(pushq[i], f)) =>
           \A i \in DOMAIN pushq' : ~Tells(pushq'[i], f)
    <2>1. \A i \in DOMAIN pushq' : i + 1 \in DOMAIN pushq /\ i + 1 # 1
      BY <1>1
    <2> QED BY <1>3, <2>1
  <1>5. ASSUME NEW i \in DOMAIN pushq, Tells(pushq[i], f), pushq[i].msg.quorum = hasquorum,
               \A k \in DOMAIN pushq : i < k => ~Tells(pushq[k], f), i # 1
        PROVE  LastTold(f)'
    <2>1. i - 1 \in DOMAIN pushq' /\ pushq'[i - 1] = pushq[i]
      BY <1>1, <1>5
    <2>2. ASSUME NEW k \in DOMAIN pushq', i - 1 < k PROVE ~Tells(pushq'[k], f)
      <3>1. k + 1 \in DOMAIN pushq /\ i < k + 1
        BY <1>1, <1>5, <2>2
      <3> QED BY <1>3, <1>5, <3>1
    <2>3. LastPushed(f)'
      BY <1>0, <1>5, <2>1, <2>2 DEF LastPushed, Tells
    <2> QED BY <2>3 DEF LastTold
  <1>6. ASSUME \A i \in DOMAIN pushq : i # 1 => ~Tells(pushq[i], f)
        PROVE  (\A i \in DOMAIN pushq : ~Tells(pushq[i], f))'
    BY <1>4, <1>6 DEF Tells
  <1>7. ASSUME Tells(pushq[1], f), pushq[1].msg.quorum = hasquorum,
               \A k \in DOMAIN pushq : 1 < k => ~Tells(pushq[k], f)
        PROVE  LastTold(f)'
    <2> DEFINE n == Len(chan[f]) + 1
    <2>1. /\ DOMAIN chan'[f] = 1 .. n /\ chan'[f][n] = pushq[1].msg /\ n \in Nat
      BY <1>0, <1>3, <1>7 DEF Typed
    <2>2. n \in DOMAIN chan'[f] /\ \A k \in DOMAIN chan'[f] : ~(n < k)
      BY <1>0, <2>1 DEF Typed
    <2> HIDE DEF n
    <2>3. LastSent(f)'
      BY <1>0, <1>7, <2>1, <2>2 DEF LastSent, Tells
    <2>4. \A i \in DOMAIN pushq : i # 1 => ~Tells(pushq[i], f)
      BY <1>1, <1>7
    <2> QED BY <1>6, <2>3, <2>4 DEF LastTold
  <1>8. ASSUME \A i \in DOMAIN pushq : ~Tells(pushq[i], f), LastSent(f) \/ LastRead(f)
        PROVE  LastTold(f)'
    <2>1. CASE chan'[f] = chan[f]
      BY <1>0, <1>6, <1>8, <2>1 DEF LastTold, LastSent, LastRead
    <2>2. CASE /\ pushq[1].to = f /\ Writes(pushq[1])
               /\ chan'[f] = Append(chan[f], pushq[1].msg)
      <3>1. pushq[1].msg.kind # "quorum"
        BY <1>1, <1>8, <2>2 DEF Tells, Writes
      <3>2. /\ DOMAIN chan'[f] = 1 .. Len(chan[f]) + 1
            /\ chan'[f][Len(chan[f]) + 1] = pushq[1].msg
            /\ \A j \in DOMAIN chan[f] : j \in DOMAIN chan'[f] /\ chan'[f][j] = chan[f][j]
        BY <1>0, <2>2 DEF Typed
      <3>3. \A j \in DOMAIN chan'[f] : j \notin DOMAIN chan[f] => chan'[f][j].kind # "quorum"
        <4>1. \A j \in DOMAIN chan'[f] : j \notin DOMAIN chan[f] => j = Len(chan[f]) + 1
          BY <1>0, <3>2 DEF Typed
        <4> QED BY <3>1, <3>2, <4>1
      <3>4. LastSent(f) => LastSent(f)'
        BY <1>0, <3>2, <3>3 DEF LastSent
      <3>5. LastRead(f) => LastRead(f)'
        BY <1>0, <3>2, <3>3 DEF LastRead
      <3> QED BY <1>6, <1>8, <3>4, <3>5 DEF LastTold
    <2> QED BY <1>2, <2>1, <2>2
  <1> QED BY <1>5, <1>7, <1>8 DEF LastTold, LastPushed

\* An announcement that is read is known.
LEMMA ToldRead ==
    ASSUME TypeOK, TypeOK', NEW f \in Follower, LastTold(f), relay'[f] = "live", Receive(f)
    PROVE  LastTold(f)'
  <1>0. /\ Typed /\ fquorum \in [Follower -> BOOLEAN] /\ relay \in [Follower ->
                        {"none", "live", "broken", "ending"}]
    BY Types DEF TypeOK, FollowersOK, LeaderOK
  <1>1. chan[f] # <<>> /\ Head(chan[f]) = chan[f][1]
    BY DEF Receive, TypeOK, ConnectionsOK
  <1>2. chan[f][1].kind # "newleader"
    <2>1. relay' = IF chan[f][1].kind = "newleader" /\ relay[f] = "live"
                   THEN [relay EXCEPT ![f] = "broken"] ELSE relay
      BY <1>1 DEF Receive
    <2> QED BY <1>0, <2>1
  <1>3. /\ UNCHANGED <<pushq, hasquorum>> /\ chan'[f] = Tail(chan[f])
        /\ fquorum' = IF chan[f][1].kind = "quorum"
                      THEN [fquorum EXCEPT ![f] = chan[f][1].quorum] ELSE fquorum
    BY <1>0, <1>1, <1>2 DEF Receive, Typed
  <1>4. /\ 1 \in DOMAIN chan[f] /\ DOMAIN chan[f] = 1 .. Len(chan[f])
        /\ Len(chan[f]) \in Nat
        /\ \A j \in DOMAIN chan'[f] :
             j + 1 \in DOMAIN chan[f] /\ chan'[f][j] = chan[f][j + 1]
        /\ \A j \in DOMAIN chan[f] : j # 1 =>
             j - 1 \in DOMAIN chan'[f] /\ chan'[f][j - 1] = chan[f][j]
    BY <1>1, <1>3, Rest
  <1>5. \A j \in DOMAIN chan'[f] : j \in Nat \ {0}
    BY DEF TypeOK, ConnectionsOK
  <1>6. \A i \in DOMAIN pushq' : Tells(pushq'[i], f) <=> Tells(pushq[i], f)
    BY <1>3
  <1>7. LastPushed(f) => LastPushed(f)'
    BY <1>3 DEF LastPushed, Tells
  <1>8. (\A i \in DOMAIN pushq : ~Tells(pushq[i], f)) =>
           (\A i \in DOMAIN pushq : ~Tells(pushq[i], f))'
    BY <1>3 DEF Tells
  <1>9. ASSUME NEW j \in DOMAIN chan[f], chan[f][j].kind = "quorum",
               chan[f][j].quorum = hasquorum,
               \A k \in DOMAIN chan[f] : j < k => chan[f][k].kind # "quorum"
        PROVE  LastSent(f)' \/ LastRead(f)'
    <2>1. ASSUME NEW k \in DOMAIN chan'[f], j - 1 < k PROVE chan'[f][k].kind # "quorum"
      <3>1. k + 1 \in DOMAIN chan[f] /\ j < k + 1 /\ chan'[f][k] = chan[f][k + 1]
        BY <1>4, <1>5, <2>1
      <3> QED BY <1>9, <3>1
    <2>2. CASE j = 1
      <3>1. \A k \in DOMAIN chan'[f] : chan'[f][k].kind # "quorum"
        BY <1>5, <2>1, <2>2
      <3>2. fquorum'[f] = hasquorum'
        BY <1>0, <1>3, <1>9, <2>2
      <3> QED BY <3>1, <3>2 DEF LastRead
    <2>3. CASE j # 1
      <3>1. j - 1 \in DOMAIN chan'[f] /\ chan'[f][j - 1] = chan[f][j]
        BY <1>4, <2>3
      <3>2. LastSent(f)'
        BY <1>3, <1>9, <2>1, <3>1 DEF LastSent
      <3> QED BY <3>2
    <2> QED BY <2>2, <2>3
  <1>10. LastRead(f) => LastRead(f)'
    BY <1>3, <1>4 DEF LastRead
  <1> QED BY <1>7, <1>8, <1>9, <1>10 DEF LastTold, LastSent

\* What is announced reaches every follower on a live connection.
LEMMA KnownKept ==
    ASSUME TypeOK, TypeOK', Alive, Known, [Next]_vars
    PROVE  Known'
  <1>0. Typed /\ txcount \in Nat /\ pushq \in Seq(Waiting(txcount))
    BY Types DEF TypeOK, LeaderOK, ChangesOK
  <1> SUFFICES ASSUME NEW f \in ToSet(streams'), relay'[f] = "live"
               PROVE  LastTold(f)'
    BY DEF Known
  <1>01. f \in Follower /\ f \in ToSet(streams')
    BY Types DEF TypeOK, LeaderOK, ToSet
  <1>1. ASSUME NEW g \in Follower, NEW q \in Seq(Waiting(txcount)),
               pushq' = Broadcast(q, streams', Quorum(hasquorum', g))
        PROVE  LastTold(f)'
    <2>1. streams' \in Seq(Follower) /\ IsInjective(streams') /\ hasquorum' \in BOOLEAN
      BY DEF TypeOK, LeaderOK
    <2> QED BY <1>0, <1>1, <2>1, AnnouncedLast
  <1>2. ASSUME NEW g \in Follower,
               JoinRegister(g) \/ RelayEnd(g) \/ (Reannounce(g) /\ ~UNCHANGED pushq)
        PROVE  LastTold(f)'
    <2>1. CASE JoinRegister(g)
      BY <1>0, <1>1, <2>1 DEF JoinRegister
    <2>2. CASE RelayEnd(g)
      <3>1. Closed(pushq, g) \in Seq(Waiting(txcount))
        BY <1>0, ClosedMade
      <3> QED BY <1>1, <2>2, <3>1 DEF RelayEnd
    <2>3. CASE Reannounce(g) /\ ~UNCHANGED pushq
      BY <1>0, <1>1, <2>3 DEF Reannounce
    <2> QED BY <1>2, <2>1, <2>2, <2>3
  <1>3. ASSUME f \in ToSet(streams), relay[f] = "live", hasquorum' = hasquorum,
               chan'[f] = chan[f], fquorum'[f] = fquorum[f],
               UNCHANGED pushq \/ \E S, m : Enqueued(S, m) /\ m.kind # "quorum"
        PROVE  LastTold(f)'
    <2>1. LastTold(f)
      BY <1>3 DEF Known
    <2>2. /\ \A i \in DOMAIN pushq : i \in DOMAIN pushq' /\ pushq'[i] = pushq[i]
          /\ \A i \in DOMAIN pushq' \ DOMAIN pushq : pushq'[i].msg.kind # "quorum"
      BY <1>3 DEF Enqueued
    <2> QED BY <1>0, <1>01, <1>3, <2>1, <2>2, ToldStill DEF Typed
  <1>4. ASSUME \/ \E o \in Op : Submit(o) \/ Commit(o)
               \/ \E g \in Follower : \/ RelayRequest(g)
                                      \/ Reannounce(g) /\ UNCHANGED pushq
               \/ Apply \/ TellNewLeader
        PROVE  LastTold(f)'
    <2>1. /\ f \in ToSet(streams) /\ relay[f] = "live" /\ hasquorum' = hasquorum
          /\ chan'[f] = chan[f] /\ fquorum'[f] = fquorum[f]
      <3>1. UNCHANGED <<streams, relay, hasquorum, chan, fquorum>>
        <4>1. ASSUME NEW g \in Follower, Reannounce(g), UNCHANGED pushq
              PROVE  UNCHANGED <<streams, relay, hasquorum, chan, fquorum>>
          <5>1. hasquorum' = hasquorum \/ Enqueued(ToSet(streams), Quorum(hasquorum', g))
                \/ pushq' = Broadcast(pushq, streams, Quorum(hasquorum', g))
            BY <4>1 DEF Reannounce
          <5>2. CASE pushq' = Broadcast(pushq, streams, Quorum(hasquorum', g))
            <6>1. streams \in Seq(Follower) /\ hasquorum' \in BOOLEAN
              BY DEF TypeOK, LeaderOK
            <6>2. Quorum(hasquorum', g) \in Message(txcount)
              BY <1>0, <6>1, MessageMade
            <6>3. Len(pushq') = Len(pushq) + Len(streams)
              BY <1>0, <5>2, <6>1, <6>2, BroadcastMade
            <6>4. streams = <<>>
              BY <1>0, <4>1, <6>1, <6>3
            <6>5. streams' = streams
              BY <4>1 DEF Reannounce
            <6> QED BY <6>4, <6>5, EmptyList, <1>01
          <5> QED BY <4>1, <5>1, <5>2 DEF Reannounce, followervars, netvars
        <4> QED BY <1>4, <4>1 DEF Submit, Commit, RelayRequest, Apply, TellNewLeader,
               leadervars, followervars, netvars
      <3> QED BY <1>01, <3>1
    <2>2. UNCHANGED pushq \/ \E S, m : Enqueued(S, m) /\ m.kind # "quorum"
      <3>1. ASSUME NEW o \in Op, Submit(o)
            PROVE  UNCHANGED pushq \/ \E S, m : Enqueued(S, m) /\ m.kind # "quorum"
        <4>1. Null(o).kind # "quorum"
          BY DEF Null
        <4> QED BY <3>1, <4>1, SubmitPushes
      <3>2. ASSUME NEW o \in Op, Commit(o)
            PROVE  UNCHANGED pushq \/ \E S, m : Enqueued(S, m) /\ m.kind # "quorum"
        <4>1. Tx(o, txcount + 1).kind # "quorum" /\ Ret(o, FALSE).kind # "quorum"
          BY DEF Tx, Ret
        <4> QED BY <3>2, <4>1, CommitPushes
      <3>3. ASSUME NEW g \in Follower, RelayRequest(g)
            PROVE  \E S, m : Enqueued(S, m) /\ m.kind # "quorum"
        <4>1. Null(Head(up[g])).kind # "quorum"
          BY DEF Null
        <4> QED BY <3>3, <4>1, RequestPushes
      <3>4. ASSUME Apply
            PROVE  UNCHANGED pushq \/ \E S, m : Enqueued(S, m) /\ m.kind # "quorum"
        <4>1. Ret(Head(inflight), TRUE).kind # "quorum"
          BY DEF Ret
        <4> QED BY <3>4, <4>1, ApplyPushes
      <3>5. ASSUME TellNewLeader
            PROVE  UNCHANGED pushq \/ \E S, m : Enqueued(S, m) /\ m.kind # "quorum"
        <4>1. UNCHANGED pushq \/ pushq' = Reply(pushq, Head(leaving), NewLeader)
          BY <3>5 DEF TellNewLeader
        <4>2. Head(leaving) \in Follower
          BY <3>5 DEF TellNewLeader, TypeOK, LeaderOK
        <4>3. NewLeader \in Message(txcount) /\ NewLeader.kind # "quorum"
          BY <1>0, MessageMade DEF NewLeader
        <4> QED BY <1>0, <4>1, <4>2, <4>3, EnqueuedOne
      <3> QED BY <1>4, <3>1, <3>2, <3>3, <3>4, <3>5
    <2> QED BY <1>3, <2>1, <2>2
  <1>5. ASSUME Push PROVE LastTold(f)'
    <2>1. streams' = streams \/ \E g \in Follower : streams' = RemoveFirst(streams, g)
      <3>1. Head(pushq).to \in Follower
        <4>1. Head(pushq) \in Waiting(txcount)
          BY <1>5 DEF Push, TypeOK, ChangesOK
        <4> QED BY <4>1 DEF Waiting
      <3> QED BY <1>5, <3>1 DEF Push
    <2>2. ToSet(streams') \subseteq ToSet(streams)
      BY <2>1, Unregistered DEF TypeOK, LeaderOK
    <2>3. UNCHANGED relay
      BY <1>5 DEF Push
    <2> QED BY <1>01, <1>5, <2>2, <2>3, ToldPushed DEF Known
  <1>6. ASSUME NEW g \in Follower,
               \/ JoinSend(g) \/ StopFollowing(g) \/ Break(g) \/ RelayExit(g)
               \/ \E n \in 0 .. Len(ldb) : JoinDump(g, n)
               \/ \E o \in Op : Request(g, o)
               \/ Receive(g)
        PROVE  LastTold(f)'
    <2>1. UNCHANGED <<streams, hasquorum, pushq>>
      BY <1>6 DEF JoinSend, StopFollowing, Break, RelayExit, JoinDump, Request, Receive,
         leadervars, opvars
    <2>2. f \in ToSet(streams)
      BY <1>01, <2>1
    <2>3. relay[f] = "live"
      <3>1. relay' = relay \/ \E r \in {"none", "broken"} : relay' = [relay EXCEPT ![g] = r]
            \/ relay' = [relay EXCEPT ![g] = IF @ = "live" THEN "broken" ELSE @]
        BY <1>6 DEF JoinSend, StopFollowing, Break, RelayExit, JoinDump, Request, Receive,
           leadervars
      <3> QED BY <1>0, <1>01, <3>1 DEF Typed
    <2>4. ~broken[f] /\ joinpc[f] = "none" /\ LastTold(f)
      BY <1>01, <2>2, <2>3 DEF Alive, Known
    <2>5. CASE Receive(g) /\ g = f
      BY <1>01, <2>4, <2>5, ToldRead
    <2>6. ASSUME ~(Receive(g) /\ g = f)
          PROVE  chan'[f] = chan[f] /\ fquorum'[f] = fquorum[f]
      <3>1. CASE JoinSend(g)
        <4>1. g # f
          BY <2>4, <3>1 DEF JoinSend
        <4>2. chan' = chan \/ \E s : chan' = [chan EXCEPT ![g] = s]
          BY <3>1 DEF JoinSend
        <4>3. UNCHANGED fquorum
          BY <3>1 DEF JoinSend, followervars
        <4> QED BY <1>0, <1>01, <4>1, <4>2, <4>3 DEF Typed
      <3>2. CASE StopFollowing(g)
        <4>1. g # f
          BY <2>4, <3>2 DEF StopFollowing
        <4>2. chan' = [chan EXCEPT ![g] = <<>>] /\ UNCHANGED fquorum
          BY <3>2 DEF StopFollowing
        <4> QED BY <1>0, <1>01, <4>1, <4>2 DEF Typed
      <3>3. CASE Receive(g)
        <4>1. g # f
          BY <2>6, <3>3
        <4>2. \E s : chan' = [chan EXCEPT ![g] = s]
          BY <3>3 DEF Receive
        <4>3. fquorum' = fquorum \/ \E b : fquorum' = [fquorum EXCEPT ![g] = b]
          BY <3>3 DEF Receive
        <4>4. fquorum \in [Follower -> BOOLEAN]
          BY DEF TypeOK, FollowersOK
        <4> QED BY <1>0, <1>01, <4>1, <4>2, <4>3, <4>4 DEF Typed
      <3>4. CASE ~(JoinSend(g) \/ StopFollowing(g) \/ Receive(g))
        BY <1>6, <3>4 DEF Break, RelayExit, JoinDump, Request, followervars, netvars
      <3> QED BY <3>1, <3>2, <3>3, <3>4
    <2> QED BY <1>3, <2>1, <2>2, <2>3, <2>5, <2>6
  <1>7. ASSUME UNCHANGED vars PROVE LastTold(f)'
    <2>1. /\ f \in ToSet(streams) /\ relay[f] = "live"
          /\ UNCHANGED <<hasquorum, chan, fquorum, pushq>>
      BY <1>01, <1>7 DEF vars, leadervars, opvars, followervars, netvars
    <2> QED BY <1>3, <2>1
  <1>8. ASSUME NEW b \in BOOLEAN, StopLeading(b) PROVE LastTold(f)'
    <2>1. UNCHANGED <<relay, hasquorum, chan, fquorum, pushq>>
      BY <1>8 DEF StopLeading, opvars, followervars, netvars
    <2>2. streams' = streams \/ streams' = <<>>
      BY <1>8 DEF StopLeading
    <2>3. f \in ToSet(streams)
      BY <1>01, <2>2, EmptyList
    <2> QED BY <1>3, <2>1, <2>3
  <1> QED BY <1>2, <1>4, <1>5, <1>6, <1>7, <1>8 DEF Next, Progress

\* A connection that is set up, lost or given up is not served.
LEMMA AliveKept ==
    ASSUME TypeOK, TypeOK', Alive, [Next]_vars
    PROVE  Alive'
  <1>0. /\ relay \in [Follower -> {"none", "live", "broken", "ending"}]
        /\ broken \in [Follower -> BOOLEAN] /\ joinpc = [f \in Follower |-> joinpc[f]]
    BY Types DEF TypeOK, Typed
  <1>1. ASSUME NEW g \in Follower, NEW n \in 0 .. Len(ldb), JoinDump(g, n) PROVE Alive'
    <2>1. /\ UNCHANGED relay /\ broken[g] /\ joinpc' = [joinpc EXCEPT ![g] = "dumped"]
          /\ broken' = [broken EXCEPT ![g] = FALSE]
      BY <1>1 DEF JoinDump, leadervars
    <2> QED BY <1>0, <2>1 DEF Alive
  <1>2. ASSUME NEW g \in Follower, JoinSend(g) PROVE Alive'
    <2>1. /\ UNCHANGED <<relay, broken>> /\ joinpc[g] = "dumped"
          /\ joinpc' = [joinpc EXCEPT ![g] = "sent"]
      BY <1>2 DEF JoinSend, leadervars
    <2> QED BY <1>0, <2>1 DEF Alive
  <1>3. ASSUME NEW g \in Follower, JoinRegister(g) PROVE Alive'
    <2>1. /\ UNCHANGED broken /\ joinpc' = [joinpc EXCEPT ![g] = "none"]
          /\ relay' = [relay EXCEPT ![g] = IF broken[g] THEN "broken" ELSE "live"]
      BY <1>3 DEF JoinRegister, netvars
    <2> QED BY <1>0, <2>1 DEF Alive
  <1>4. ASSUME NEW g \in Follower, Receive(g) PROVE Alive'
    <2>1. /\ UNCHANGED joinpc
          /\ \/ /\ broken' = [broken EXCEPT ![g] = @ \/ FALSE] /\ relay' = relay
             \/ /\ broken' = [broken EXCEPT ![g] = @ \/ TRUE]
                /\ relay' = [relay EXCEPT ![g] = "broken"]
             \/ /\ broken' = [broken EXCEPT ![g] = @ \/ TRUE]
                /\ relay' = relay /\ relay[g] # "live"
      BY <1>4 DEF Receive, joinvars
    <2> QED BY <1>0, <2>1 DEF Alive
  <1>5. ASSUME NEW g \in Follower, Break(g) PROVE Alive'
    <2>1. /\ UNCHANGED joinpc /\ broken' = [broken EXCEPT ![g] = TRUE]
          /\ relay' = [relay EXCEPT ![g] = IF @ = "live" THEN "broken" ELSE @]
      BY <1>5 DEF Break, joinvars
    <2> QED BY <1>0, <2>1 DEF Alive
  <1>6. ASSUME NEW g \in Follower, RelayEnd(g) PROVE Alive'
    <2>1. /\ UNCHANGED joinpc /\ broken' = [broken EXCEPT ![g] = @ \/ relay[g] = "live"]
          /\ \E r \in {"none", "ending"} : relay' = [relay EXCEPT ![g] = r]
      BY <1>6 DEF RelayEnd, joinvars
    <2> QED BY <1>0, <2>1 DEF Alive
  <1>7. ASSUME NEW g \in Follower, RelayExit(g) PROVE Alive'
    <2>1. UNCHANGED <<joinpc, broken>> /\ relay' = [relay EXCEPT ![g] = "none"]
      BY <1>7 DEF RelayExit, joinvars, netvars
    <2> QED BY <1>0, <2>1 DEF Alive
  <1>8. ASSUME \/ \E o \in Op : \/ Submit(o) \/ Commit(o)
                               \/ \E g \in Follower : Request(g, o)
               \/ \E g \in Follower : RelayRequest(g) \/ Reannounce(g) \/ StopFollowing(g)
               \/ Push \/ Apply \/ TellNewLeader \/ UNCHANGED vars
               \/ \E b \in BOOLEAN : StopLeading(b)
        PROVE  Alive'
    <2>1. UNCHANGED <<relay, broken, joinpc>>
      BY <1>8 DEF Submit, Commit, Request, RelayRequest, Reannounce, StopFollowing, Push,
         Apply, TellNewLeader, StopLeading, vars, leadervars, opvars, joinvars, netvars
    <2> QED BY <2>1 DEF Alive
  <1> QED BY <1>1, <1>2, <1>3, <1>4, <1>5, <1>6, <1>7, <1>8 DEF Next, Progress

\* A stream that is registered or unregistered is counted at once, or when its
\* relay ends.
LEMMA CountedKept ==
    ASSUME TypeOK, TypeOK', Counted, [Next]_vars
    PROVE  Counted'
  <1>0. Typed
    BY Types
  <1>1. ASSUME NEW g \in Follower, JoinRegister(g) PROVE Counted'
    BY <1>1 DEF JoinRegister, Counted
  <1>2. ASSUME NEW g \in Follower, RelayEnd(g) PROVE Counted'
    BY <1>2 DEF RelayEnd, Counted
  <1>3. ASSUME NEW g \in Follower, Reannounce(g) PROVE Counted'
    BY <1>3 DEF Reannounce, Counted
  <1>4. ASSUME UNCHANGED <<streams, hasquorum>>,
               \A f \in Follower : relay[f] \in {"live", "broken"}
                     => relay'[f] \in {"live", "broken"}
        PROVE  Counted'
    <2>1. Unfinished => Unfinished'
      BY <1>4 DEF Unfinished
    <2> QED BY <1>4, <2>1 DEF Counted
  <1>5. ASSUME Push PROVE Counted'
    <2> DEFINE f == Head(pushq).to
    <2>1. UNCHANGED <<relay, hasquorum>> /\ f \in Follower
      <3>1. Head(pushq) \in Waiting(txcount)
        BY <1>5 DEF Push, TypeOK, ChangesOK
      <3>2. Head(pushq).to \in Follower
        BY <3>1 DEF Waiting
      <3> QED BY <1>5, <3>2 DEF Push
    <2>2. CASE streams' = streams
      BY <1>4, <2>1, <2>2
    <2>3. CASE streams' = RemoveFirst(streams, f) /\ f \in ToSet(streams)
      <3>1. ToSet(streams') = ToSet(streams) \ {f}
        BY <2>1, <2>3, Unregistered DEF TypeOK, LeaderOK
      <3>2. relay[f] \in {"live", "broken"}
        BY <1>0, <2>3 DEF Typed
      <3>3. Unfinished'
        BY <2>1, <3>1, <3>2 DEF Unfinished
      <3> QED BY <3>3 DEF Counted
    <2>4. CASE streams' = RemoveFirst(streams, f) /\ f \notin ToSet(streams)
      <3>1. ToSet(streams') = ToSet(streams) \ {f} /\ streams' \in Seq(Follower)
        BY <2>1, <2>4, Unregistered DEF TypeOK, LeaderOK
      <3>2. ToSet(streams') = ToSet(streams)
        BY <2>4, <3>1
      <3>3. streams = <<>> => streams' = <<>>
        <4>1. ASSUME streams = <<>>, streams' # <<>> PROVE FALSE
          <5>1. 1 \in DOMAIN streams'
            BY <3>1, <4>1
          <5>2. streams'[1] \in ToSet(streams')
            BY <5>1 DEF ToSet
          <5> QED BY <3>2, <4>1, <5>2, EmptyList
        <4> QED BY <4>1
      <3>4. Unfinished => Unfinished'
        BY <2>1, <3>2 DEF Unfinished
      <3> QED BY <2>1, <3>2, <3>3, <3>4 DEF Counted
    <2> QED BY <1>5, <2>2, <2>3, <2>4 DEF Push
  <1>6. ASSUME NEW b \in BOOLEAN, StopLeading(b) PROVE Counted'
    <2>1. UNCHANGED <<relay, hasquorum>> /\ (streams' = <<>> \/ streams' = streams)
      BY <1>6 DEF StopLeading
    <2> QED BY <1>4, <2>1 DEF Counted
  <1>7. ASSUME NEW g \in Follower,
               \/ JoinSend(g) \/ StopFollowing(g) \/ Break(g) \/ RelayExit(g)
               \/ \E n \in 0 .. Len(ldb) : JoinDump(g, n)
               \/ \E o \in Op : Request(g, o)
               \/ Receive(g) \/ RelayRequest(g)
        PROVE  Counted'
    <2>1. UNCHANGED <<streams, hasquorum>>
      BY <1>7 DEF JoinSend, StopFollowing, Break, RelayExit, JoinDump, Request, Receive,
         RelayRequest, leadervars
    <2>2. \/ relay' = relay \/ relay' = [relay EXCEPT ![g] = "broken"]
          \/ relay' = [relay EXCEPT ![g] = IF @ = "live" THEN "broken" ELSE @]
          \/ relay[g] = "ending" /\ relay' = [relay EXCEPT ![g] = "none"]
      BY <1>7 DEF JoinSend, StopFollowing, Break, RelayExit, JoinDump, Request, Receive,
         RelayRequest, leadervars
    <2> QED BY <1>0, <1>4, <2>1, <2>2 DEF Typed
  <1>8. ASSUME (\E o \in Op : Submit(o) \/ Commit(o)) \/ Apply \/ TellNewLeader
               \/ UNCHANGED vars
        PROVE  Counted'
    <2>1. UNCHANGED <<streams, hasquorum, relay>>
      BY <1>8 DEF Submit, Commit, Apply, TellNewLeader, vars, leadervars
    <2> QED BY <1>4, <2>1
  <1> QED BY <1>1, <1>2, <1>3, <1>5, <1>6, <1>7, <1>8 DEF Next, Progress

\* Every registered follower knows whether there is a quorum when everything is
\* settled, however joins, losses and announcements interleave.
THEOREM QuorumReachesAll == Spec => []QuorumKnown
  <1>1. Init => QuorumInv
    <2>1. Init => Alive
      BY DEF Init, Alive
    <2>2. Init => Known
      BY EmptyList DEF Init, Known
    <2>3. Init => Counted
      BY DEF Init, Counted
    <2> QED BY <2>1, <2>2, <2>3, InitTypes DEF QuorumInv
  <1>2. QuorumInv /\ [Next]_vars => QuorumInv'
    BY TypeStep, KnownKept, AliveKept, CountedKept DEF QuorumInv
  <1>3. QuorumInv => QuorumKnown
    <2> SUFFICES ASSUME QuorumInv, Settled, NEW f \in ToSet(streams), following[f],
                        chan[f] = <<>>
                 PROVE  fquorum[f] = HasQuorum(ToSet(streams))
      BY DEF QuorumKnown
    <2>1. f \in Follower /\ relay[f] = "live" /\ pushq = <<>>
      BY Types DEF QuorumInv, Settled, Typed
    <2>2. LastTold(f)
      BY <2>1 DEF QuorumInv, Known
    <2>3. fquorum[f] = hasquorum
      BY <2>1, <2>2 DEF LastTold, LastPushed, LastSent, LastRead
    <2>4. ~Unfinished
      BY DEF Unfinished, Settled
    <2>5. streams # <<>>
      BY EmptyList
    <2> QED BY <2>3, <2>4, <2>5 DEF QuorumInv, Counted
  <1> QED BY <1>1, <1>2, <1>3, PTL DEF Spec

-----------------------------------------------------------------------------
(* What is picked from a list, by one place after the other.  (Each fact    *)
(* about all places is proved from the first one where it would fail.)     *)

\* u has what is picked up to each place of 0 .. n.
Picks(D, value, n, u) ==
    u = [i \in 0 .. n |->
            IF i = 0 THEN <<>>
            ELSE IF i \in D THEN Append(u[i - 1], value[i]) ELSE u[i - 1]]

\* Such a function, place by place.
LEMMA PicksAt ==
    ASSUME NEW D, NEW value, NEW n \in Nat, NEW u, Picks(D, value, n, u),
           NEW i \in 0 .. n
    PROVE  u[i] = IF i = 0 THEN <<>>
                  ELSE IF i \in D THEN Append(u[i - 1], value[i]) ELSE u[i - 1]
  BY Zenon DEF Picks

\* There is such a function for every n ...
LEMMA PicksExists ==
    ASSUME NEW D, NEW value, NEW n \in Nat
    PROVE  \E u : Picks(D, value, n, u)
  <1> DEFINE T == {m \in Nat : ~ \E u : Picks(D, value, m, u)}
  <1>1. SUFFICES ASSUME T # {} PROVE FALSE
    OBVIOUS
  <1> HIDE DEF T
  <1>2. Min(T) \in T /\ \A j \in T : Min(T) <= j
    BY <1>1, Minimum DEF T
  <1> DEFINE m == Min(T)
  <1>3. m # 0
    <2> DEFINE u == [i \in 0 .. 0 |-> <<>>]
    <2>1. Picks(D, value, 0, u)
      BY DEF Picks
    <2> QED BY <2>1, <1>2 DEF T
  <1> HIDE DEF m
  <1>4. m \in Nat /\ m - 1 \in Nat /\ m - 1 \notin T
    <2>1. m \in T /\ \A j \in T : m <= j
      BY <1>2 DEF m
    <2>2. m \in Nat
      BY <2>1 DEF T
    <2> QED BY <2>1, <2>2, <1>3
  <1>5. PICK w : Picks(D, value, m - 1, w)
    BY <1>4 DEF T
  <1> DEFINE u == [i \in 0 .. m |->
                     IF i < m THEN w[i]
                     ELSE IF i \in D THEN Append(w[i - 1], value[i]) ELSE w[i - 1]]
  <1>6. \A i \in 0 .. m : u[i] = IF i = 0 THEN <<>>
              ELSE IF i \in D THEN Append(u[i - 1], value[i]) ELSE u[i - 1]
    <2> TAKE i \in 0 .. m
    <2>1. CASE i = 0
      BY <2>1, <1>4, <1>3, <1>5 DEF Picks, m
    <2>2. CASE i # 0 /\ i < m
      <3>1. i - 1 \in 0 .. m - 1 /\ i \in 0 .. m - 1 /\ i - 1 < m /\ i - 1 \in 0 .. m
        BY <2>2, <1>4
      <3>2. w[i] = IF i \in D THEN Append(w[i - 1], value[i]) ELSE w[i - 1]
        BY <3>1, <2>2, <1>5 DEF Picks
      <3> QED BY <3>1, <3>2, <2>2
    <2>3. CASE i = m /\ i # 0
      BY <2>3, <1>4
    <2> QED BY <2>1, <2>2, <2>3, <1>4
  <1>7. Picks(D, value, m, u)
    BY <1>6 DEF Picks
  <1> QED BY <1>7, <1>2 DEF T, m

\* ... and what it has at a place does not depend on n.
LEMMA PicksAgree ==
    ASSUME NEW D, NEW value, NEW n \in Nat, NEW k \in Nat, NEW u, NEW w,
           Picks(D, value, n, u), Picks(D, value, k, w), NEW i \in Nat,
           i <= n, i <= k
    PROVE  u[i] = w[i]
  <1> DEFINE T == {j \in Nat : j <= n /\ j <= k /\ u[j] # w[j]}
  <1>1. SUFFICES ASSUME T # {} PROVE FALSE
    OBVIOUS
  <1> HIDE DEF T
  <1>2. Min(T) \in T /\ \A j \in T : Min(T) <= j
    BY <1>1, Minimum DEF T
  <1>3. PICK m : m \in T /\ \A j \in T : m <= j
    BY <1>2
  <1>4. m \in Nat /\ m <= n /\ m <= k /\ u[m] # w[m]
    BY <1>3 DEF T
  <1>5. m # 0
    BY <1>4 DEF Picks
  <1>6. m - 1 \in Nat /\ m - 1 <= n /\ m - 1 <= k /\ m - 1 \notin T
    BY <1>3, <1>4, <1>5
  <1>7. u[m - 1] = w[m - 1]
    BY <1>6 DEF T
  <1>8. /\ u[m] = IF m \in D THEN Append(u[m - 1], value[m]) ELSE u[m - 1]
        /\ w[m] = IF m \in D THEN Append(w[m - 1], value[m]) ELSE w[m - 1]
    BY <1>4, <1>5, PicksAt
  <1> QED BY <1>4, <1>7, <1>8

\* Picked, place by place.
LEMMA PickedStep ==
    ASSUME NEW D, NEW value, NEW n \in Nat
    PROVE  /\ Picked(D, value, 0) = <<>>
           /\ Picked(D, value, n + 1) =
                IF n + 1 \in D THEN Append(Picked(D, value, n), value[n + 1])
                ELSE Picked(D, value, n)
  <1> DEFINE Up(k) == CHOOSE u : Picks(D, value, k, u)
  <1>1. \A k \in Nat : Picks(D, value, k, Up(k))
    BY PicksExists
  <1>2. ASSUME NEW k PROVE Picked(D, value, k) = Up(k)[k]
    <2>1. Picked(D, value, k) = (CHOOSE u : Picks(D, value, k, u))[k]
      BY Zenon DEF Picked, Picks
    <2> QED BY <2>1, Zenon
  <1> HIDE DEF Up
  <1>3. Up(0)[0] = <<>>
    <2>1. Picks(D, value, 0, Up(0))
      BY <1>1
    <2> QED BY <2>1 DEF Picks
  <1>4. Up(n + 1)[n] = Up(n)[n]
    BY <1>1, PicksAgree
  <1>5. Up(n + 1)[n + 1] = IF n + 1 \in D THEN Append(Up(n + 1)[n], value[n + 1])
                           ELSE Up(n + 1)[n]
    <2>1. Picks(D, value, n + 1, Up(n + 1))
      BY <1>1
    <2>2. n + 1 \in 0 .. n + 1 /\ (n + 1) - 1 = n /\ n + 1 # 0
      OBVIOUS
    <2> QED BY <2>1, <2>2 DEF Picks
  <1> QED BY <1>2, <1>3, <1>4, <1>5

\* The same, going back from a place.
LEMMA PickedAt ==
    ASSUME NEW D, NEW value, NEW n \in Nat, n # 0
    PROVE  Picked(D, value, n) =
               IF n \in D THEN Append(Picked(D, value, n - 1), value[n])
               ELSE Picked(D, value, n - 1)
  <1>1. PICK k \in Nat : k + 1 = n
    <2>1. n - 1 \in Nat /\ (n - 1) + 1 = n
      OBVIOUS
    <2> QED BY <2>1
  <1>2. n - 1 = k
    BY <1>1
  <1>3. Picked(D, value, k + 1) =
          IF k + 1 \in D THEN Append(Picked(D, value, k), value[k + 1])
          ELSE Picked(D, value, k)
    BY PickedStep
  <1>4. (k + 1) - 1 = k
    BY <1>1
  <1> QED BY <1>1, <1>3, <1>4

\* A property of numbers that holds of 0 and goes from n to n + 1 excludes that
\* some set of counterexamples has an element.
LEMMA NoneFirst ==
    ASSUME NEW T \in SUBSET Nat, 0 \notin T,
           \A k \in Nat : k \notin T => k + 1 \notin T
    PROVE  T = {}
  <1>1. SUFFICES ASSUME T # {} PROVE FALSE
    OBVIOUS
  <1>2. PICK m : m \in T /\ \A j \in T : m <= j
    BY <1>1, Minimum
  <1>3. m \in Nat /\ m # 0
    BY <1>2
  <1>4. m - 1 \in Nat /\ m - 1 \notin T /\ (m - 1) + 1 = m
    BY <1>2, <1>3
  <1> QED BY <1>2, <1>4

\* What is picked is a list ...
LEMMA PickedList ==
    ASSUME NEW S, NEW D, NEW value, NEW n \in Nat,
           \A i \in 1 .. n : i \in D => value[i] \in S
    PROVE  Picked(D, value, n) \in Seq(S)
  <1> DEFINE T == {k \in Nat : k <= n /\ Picked(D, value, k) \notin Seq(S)}
  <1>1. 0 \notin T
    <2>1. Picked(D, value, 0) = <<>> /\ <<>> \in Seq(S)
      BY PickedStep
    <2> QED BY <2>1
  <1>2. ASSUME NEW k \in Nat, k \notin T PROVE k + 1 \notin T
    <2>1. SUFFICES ASSUME k + 1 <= n PROVE Picked(D, value, k + 1) \in Seq(S)
      OBVIOUS
    <2>2. Picked(D, value, k) \in Seq(S) /\ k + 1 \in 1 .. n
      BY <1>2, <2>1
    <2>3. k + 1 \in D => value[k + 1] \in S
      BY <2>2
    <2>4. Picked(D, value, k + 1) = IF k + 1 \in D
              THEN Append(Picked(D, value, k), value[k + 1]) ELSE Picked(D, value, k)
      BY PickedStep
    <2> DEFINE t == Picked(D, value, k)
    <2>5. t \in Seq(S) /\ (k + 1 \in D => Append(t, value[k + 1]) \in Seq(S))
      BY <2>2, <2>3
    <2> QED BY <2>4, <2>5
  <1> HIDE DEF T
  <1>3. T = {}
    <2>1. T \in SUBSET Nat
      BY DEF T
    <2> QED BY <1>1, <1>2, <2>1, NoneFirst
  <1>4. n \notin T
    BY <1>3
  <1> QED BY <1>4 DEF T

\* ... that only depends on what there is to pick.
LEMMA PickedSame ==
    ASSUME NEW D, NEW E, NEW v, NEW w, NEW n \in Nat,
           \A i \in 1 .. n : (i \in D <=> i \in E) /\ (i \in D => v[i] = w[i])
    PROVE  Picked(D, v, n) = Picked(E, w, n)
  <1> DEFINE T == {k \in Nat : k <= n /\ Picked(D, v, k) # Picked(E, w, k)}
  <1>1. 0 \notin T
    BY PickedStep
  <1>2. ASSUME NEW k \in Nat, k \notin T PROVE k + 1 \notin T
    <2>1. SUFFICES ASSUME k + 1 <= n PROVE Picked(D, v, k + 1) = Picked(E, w, k + 1)
      OBVIOUS
    <2>2. Picked(D, v, k) = Picked(E, w, k) /\ k + 1 \in 1 .. n
      BY <1>2, <2>1
    <2> QED BY <2>2, PickedStep
  <1> HIDE DEF T
  <1>3. T = {}
    <2>1. T \in SUBSET Nat
      BY DEF T
    <2> QED BY <1>1, <1>2, <2>1, NoneFirst
  <1>4. n \notin T
    BY <1>3
  <1> QED BY <1>4 DEF T

\* Places with nothing to pick add nothing.
LEMMA PickedRest ==
    ASSUME NEW D, NEW v, NEW n \in Nat, NEW m \in Nat, m <= n,
           \A i \in m + 1 .. n : i \notin D
    PROVE  Picked(D, v, n) = Picked(D, v, m)
  <1> DEFINE T == {k \in Nat : m + k <= n /\ Picked(D, v, m + k) # Picked(D, v, m)}
  <1>1. 0 \notin T
    OBVIOUS
  <1>2. ASSUME NEW k \in Nat, k \notin T PROVE k + 1 \notin T
    <2>1. SUFFICES ASSUME m + (k + 1) <= n
                   PROVE Picked(D, v, m + (k + 1)) = Picked(D, v, m)
      OBVIOUS
    <2>2. Picked(D, v, m + k) = Picked(D, v, m)
      BY <1>2, <2>1
    <2>3. m + k \in Nat /\ m + (k + 1) = (m + k) + 1 /\ (m + k) + 1 \in m + 1 .. n
      BY <2>1
    <2> QED BY <2>2, <2>3, PickedStep
  <1> HIDE DEF T
  <1>3. T = {}
    <2>1. T \in SUBSET Nat
      BY DEF T
    <2> QED BY <1>1, <1>2, <2>1, NoneFirst
  <1>4. n - m \in Nat /\ n - m \notin T /\ m + (n - m) = n
    BY <1>3
  <1> QED BY <1>4 DEF T

\* If there is one more place to pick, it is picked last.
LEMMA PickedLast ==
    ASSUME NEW D, NEW v, NEW n \in Nat, NEW m \in Nat, NEW d \in m + 1 .. n,
           \A i \in m + 1 .. n : i \in D <=> i = d
    PROVE  Picked(D, v, n) = Append(Picked(D, v, m), v[d])
  <1>1. d \in Nat /\ d - 1 \in Nat /\ (d - 1) + 1 = d /\ m <= d - 1 /\ d <= n /\ d \in D
    OBVIOUS
  <1>2. Picked(D, v, d - 1) = Picked(D, v, m)
    BY <1>1, PickedRest
  <1>3. Picked(D, v, d) = Append(Picked(D, v, d - 1), v[d])
    <2> DEFINE k == d - 1
    <2>1. k \in Nat /\ k + 1 = d /\ k + 1 \in D
      BY <1>1
    <2> HIDE DEF k
    <2>2. Picked(D, v, k + 1) = Append(Picked(D, v, k), v[k + 1])
      BY <2>1, PickedStep
    <2> QED BY <2>1, <2>2 DEF k
  <1>4. Picked(D, v, n) = Picked(D, v, d)
    BY <1>1, PickedRest
  <1> QED BY <1>2, <1>3, <1>4

\* The first place comes first.
LEMMA PickedFirst ==
    ASSUME NEW D, NEW E, NEW v, NEW w, NEW n \in Nat,
           \A i \in 1 .. n + 1 : i \in D => v[i] \in Op,
           \A i \in 1 .. n : (i \in E <=> i + 1 \in D) /\ (i \in E => w[i] = v[i + 1])
    PROVE  Picked(D, v, n + 1) =
               IF 1 \in D THEN <<v[1]>> \o Picked(E, w, n) ELSE Picked(E, w, n)
  <1> DEFINE P(k) == Picked(D, v, k + 1) =
                 IF 1 \in D THEN <<v[1]>> \o Picked(E, w, k) ELSE Picked(E, w, k)
             T == {k \in Nat : k <= n /\ ~P(k)}
  <1>1. P(0)
    <2>1. Picked(D, v, 1) = IF 1 \in D THEN Append(<<>>, v[1]) ELSE <<>>
      <3>1. Picked(D, v, 0) = <<>> /\ 1 \in Nat /\ 1 # 0 /\ 1 - 1 = 0
        BY PickedStep
      <3>2. Picked(D, v, 1) = IF 1 \in D THEN Append(Picked(D, v, 1 - 1), v[1])
                              ELSE Picked(D, v, 1 - 1)
        BY <3>1, PickedAt, Zenon
      <3> QED BY <3>1, <3>2
    <2>2. Picked(E, w, 0) = <<>>
      BY PickedStep
    <2>3. 1 \in D => Append(<<>>, v[1]) = <<v[1]>> /\ <<v[1]>> \o <<>> = <<v[1]>>
      <3>1. 1 \in D => v[1] \in Op
        OBVIOUS
      <3> QED BY <3>1
    <2>4. Picked(D, v, 0 + 1) = Picked(D, v, 1)
      OBVIOUS
    <2> QED BY <2>1, <2>2, <2>3, <2>4
  <1>2. ASSUME NEW k \in Nat, k \notin T PROVE k + 1 \notin T
    <2>1. SUFFICES ASSUME k + 1 <= n PROVE P(k + 1)
      OBVIOUS
    <2>2. P(k) /\ k + 1 \in 1 .. n /\ k + 2 \in 1 .. n + 1 /\ (k + 1) + 1 = k + 2
      BY <1>2, <2>1
    <2> DEFINE s == Picked(E, w, k)
    <2>3. s \in Seq(Op)
      <3>1. \A i \in 1 .. k : i \in E => w[i] \in Op
        <4> TAKE i \in 1 .. k
        <4>1. i \in 1 .. n /\ i + 1 \in 1 .. n + 1
          BY <2>1
        <4> QED BY <4>1
      <3> QED BY <3>1, PickedList
    <2>4. /\ Picked(E, w, k + 1) = IF k + 1 \in E THEN Append(s, w[k + 1]) ELSE s
          /\ Picked(D, v, k + 2) = IF k + 2 \in D THEN Append(Picked(D, v, k + 1), v[k + 2])
                                   ELSE Picked(D, v, k + 1)
      BY PickedStep, <2>2
    <2>5. (k + 1 \in E <=> k + 2 \in D) /\ (k + 1 \in E => w[k + 1] = v[k + 2])
      BY <2>2
    <2>6. k + 2 \in D => v[k + 2] \in Op
      BY <2>2
    <2>7. CASE 1 \in D
      <3>1. v[1] \in Op
        BY <2>7
      <3>2. Picked(D, v, k + 1) = <<v[1]>> \o s
        BY <2>2, <2>7
      <3> HIDE DEF s
      <3>3. k + 2 \in D => Append(<<v[1]>> \o s, v[k + 2]) = <<v[1]>> \o Append(s, v[k + 2])
        BY <2>3, <2>6, <3>1
      <3>4. Picked(D, v, k + 2) = <<v[1]>> \o Picked(E, w, k + 1)
        BY <2>4, <2>5, <3>2, <3>3
      <3> QED BY <3>4, <2>2, <2>7
    <2>8. CASE 1 \notin D
      BY <2>2, <2>4, <2>5, <2>8
    <2> QED BY <2>7, <2>8
  <1> HIDE DEF T
  <1>3. T = {}
    <2>1. T \in SUBSET Nat
      BY DEF T
    <2>2. 0 \notin T
      BY <1>1 DEF T
    <2> QED BY <1>2, <2>1, <2>2, NoneFirst
  <1>4. n \notin T
    BY <1>3
  <1> QED BY <1>4 DEF T

\* Nothing is picked only where there is nothing to pick.
LEMMA PickedNone ==
    ASSUME NEW D, NEW v, NEW n \in Nat,
           \A i \in 1 .. n : i \in D => v[i] \in Op
    PROVE  Picked(D, v, n) = <<>> <=> \A i \in 1 .. n : i \notin D
  <1>1. ASSUME \A i \in 1 .. n : i \notin D PROVE Picked(D, v, n) = <<>>
    BY <1>1, PickedRest, PickedStep
  <1>2. ASSUME NEW i \in 1 .. n, i \in D PROVE Picked(D, v, n) # <<>>
    <2> DEFINE T == {k \in Nat : i + k <= n /\ Len(Picked(D, v, i + k)) = 0}
    <2>0. \A k \in Nat : k <= n => Picked(D, v, k) \in Seq(Op)
      BY PickedList
    <2>1. 0 \notin T
      <3>1. i - 1 \in Nat /\ (i - 1) + 1 = i /\ i + 0 = i /\ i - 1 <= n
        OBVIOUS
      <3>2. Picked(D, v, i) = Append(Picked(D, v, i - 1), v[i])
        BY <1>2, PickedAt
      <3>3. Picked(D, v, i - 1) \in Seq(Op) /\ v[i] \in Op
        BY <2>0, <3>1, <1>2
      <3>4. Len(Picked(D, v, i)) # 0
        BY <3>2, <3>3
      <3> QED BY <3>1, <3>4
    <2>2. ASSUME NEW k \in Nat, k \notin T PROVE k + 1 \notin T
      <3>1. SUFFICES ASSUME i + (k + 1) <= n PROVE Len(Picked(D, v, i + (k + 1))) # 0
        OBVIOUS
      <3>2. i + k \in Nat /\ i + k <= n /\ i + (k + 1) = (i + k) + 1 /\ (i + k) + 1 \in 1 .. n
        BY <3>1
      <3>3. Len(Picked(D, v, i + k)) # 0
        BY <2>2, <3>2
      <3>4. Picked(D, v, i + k) \in Seq(Op)
        BY <2>0, <3>2
      <3>5. Picked(D, v, (i + k) + 1) =
              IF (i + k) + 1 \in D THEN Append(Picked(D, v, i + k), v[(i + k) + 1])
              ELSE Picked(D, v, i + k)
        BY <3>2, PickedStep
      <3>6. (i + k) + 1 \in D => v[(i + k) + 1] \in Op
        BY <3>2
      <3> DEFINE t == Picked(D, v, i + k)
                 e == v[(i + k) + 1]
      <3>7. e \in Op => Len(Append(t, e)) # 0
        BY <3>4
      <3>8. Len(Picked(D, v, (i + k) + 1)) # 0
        BY <3>3, <3>5, <3>6, <3>7
      <3> QED BY <3>2, <3>8
    <2> HIDE DEF T
    <2>3. T = {}
      <3>1. T \in SUBSET Nat
        BY DEF T
      <3> QED BY <2>1, <2>2, <3>1, NoneFirst
    <2>4. n - i \in Nat /\ n - i \notin T /\ i + (n - i) = n
      BY <2>3
    <2>5. Len(Picked(D, v, n)) # 0
      BY <2>4 DEF T
    <2> QED BY <2>5
  <1> QED BY <1>1, <1>2

-----------------------------------------------------------------------------
(* The changes that wait for a follower, and those on their way to it.     *)

\* A push that takes a change to f.
Bound(p, f) == p.to = f /\ p.open /\ p.msg.kind = "tx"
BoundIn(q, f) == {i \in DOMAIN q : Bound(q[i], f)}
Waits(q, f) ==
    Picked(BoundIn(q, f), [i \in BoundIn(q, f) |-> q[i].msg.op], Len(q))

\* The changes that wait for f are those of the pushes that take one to it.
LEMMA QueuedWaits == \A f : QueuedChanges(f) = Waits(pushq, f)
  BY DEF QueuedChanges, Waits, BoundIn, Bound

\* What waits is a list of changes.
LEMMA WaitsList ==
    ASSUME NEW n \in Nat, NEW q \in Seq(Waiting(n)), NEW f
    PROVE  Waits(q, f) \in Seq(Op)
  <1>1. DOMAIN q = 1 .. Len(q) /\ Len(q) \in Nat /\ \A i \in 1 .. Len(q) : q[i] \in Waiting(n)
    OBVIOUS
  <1>2. \A i \in BoundIn(q, f) : q[i].msg \in Message(n) /\ q[i].msg.kind = "tx"
    BY <1>1 DEF BoundIn, Bound, Waiting
  <1>3. \A i \in BoundIn(q, f) : q[i].msg.op \in Op
    BY <1>2, MessageKinds
  <1> DEFINE v == [i \in BoundIn(q, f) |-> q[i].msg.op]
  <1>4. \A i \in 1 .. Len(q) : i \in BoundIn(q, f) => v[i] \in Op
    BY <1>3
  <1> HIDE DEF v
  <1>5. Picked(BoundIn(q, f), v, Len(q)) \in Seq(Op)
    BY <1>1, <1>4, PickedList
  <1> QED BY <1>5 DEF Waits, v

\* r begins with the pushes of q that take changes to f.
Extends(r, q, f) ==
    /\ Len(q) <= Len(r)
    /\ \A i \in 1 .. Len(q) :
          /\ Bound(r[i], f) <=> Bound(q[i], f)
          /\ r[i].msg = q[i].msg

\* What r has picked up by the end of q is what waits in q.
LEMMA WaitsPrefix ==
    ASSUME NEW n \in Nat, NEW k \in Nat, NEW q \in Seq(Waiting(n)),
           NEW r \in Seq(Waiting(k)), NEW f, Extends(r, q, f)
    PROVE  Picked(BoundIn(r, f), [i \in BoundIn(r, f) |-> r[i].msg.op], Len(q))
             = Waits(q, f)
  <1>1. /\ DOMAIN q = 1 .. Len(q) /\ Len(q) \in Nat
        /\ DOMAIN r = 1 .. Len(r) /\ Len(r) \in Nat /\ Len(q) <= Len(r)
    BY DEF Extends
  <1> DEFINE v == [i \in BoundIn(r, f) |-> r[i].msg.op]
             w == [i \in BoundIn(q, f) |-> q[i].msg.op]
  <1>2. \A i \in 1 .. Len(q) :
          (i \in BoundIn(r, f) <=> i \in BoundIn(q, f)) /\ (i \in BoundIn(r, f) => v[i] = w[i])
    BY <1>1 DEF Extends, BoundIn
  <1> HIDE DEF v, w
  <1>3. Picked(BoundIn(r, f), v, Len(q)) = Picked(BoundIn(q, f), w, Len(q))
    BY <1>1, <1>2, PickedSame
  <1> QED BY <1>3 DEF Waits, v, w

\* Pushes that take no change to f do not matter.
LEMMA WaitsSame ==
    ASSUME NEW n \in Nat, NEW k \in Nat, NEW q \in Seq(Waiting(n)),
           NEW r \in Seq(Waiting(k)), NEW f, Extends(r, q, f),
           \A i \in Len(q) + 1 .. Len(r) : ~Bound(r[i], f)
    PROVE  Waits(r, f) = Waits(q, f)
  <1>1. Len(q) \in Nat /\ Len(r) \in Nat /\ Len(q) <= Len(r)
    BY DEF Extends
  <1>2. \A i \in Len(q) + 1 .. Len(r) : i \notin BoundIn(r, f)
    BY DEF BoundIn
  <1> DEFINE v == [i \in BoundIn(r, f) |-> r[i].msg.op]
  <1> HIDE DEF v
  <1>3. Picked(BoundIn(r, f), v, Len(r)) = Picked(BoundIn(r, f), v, Len(q))
    BY <1>1, <1>2, PickedRest
  <1>4. Picked(BoundIn(r, f), v, Len(q)) = Waits(q, f)
    BY WaitsPrefix DEF v
  <1> QED BY <1>3, <1>4 DEF Waits, v

\* One more push that does takes its change last.
LEMMA WaitsMore ==
    ASSUME NEW n \in Nat, NEW k \in Nat, NEW q \in Seq(Waiting(n)),
           NEW r \in Seq(Waiting(k)), NEW f, Extends(r, q, f),
           NEW d \in Len(q) + 1 .. Len(r),
           \A i \in Len(q) + 1 .. Len(r) : Bound(r[i], f) <=> i = d
    PROVE  Waits(r, f) = Append(Waits(q, f), r[d].msg.op)
  <1>1. /\ Len(q) \in Nat /\ Len(r) \in Nat /\ Len(q) <= Len(r)
        /\ \A i \in Len(q) + 1 .. Len(r) : i \in DOMAIN r
    BY DEF Extends
  <1>2. \A i \in Len(q) + 1 .. Len(r) : i \in BoundIn(r, f) <=> i = d
    BY <1>1 DEF BoundIn
  <1> DEFINE v == [i \in BoundIn(r, f) |-> r[i].msg.op]
  <1>3. v[d] = r[d].msg.op
    BY <1>2
  <1> HIDE DEF v
  <1> DEFINE D == BoundIn(r, f)
             m == Len(q)
             l == Len(r)
  <1>4. /\ m \in Nat /\ l \in Nat /\ d \in m + 1 .. l
        /\ \A i \in m + 1 .. l : i \in D <=> i = d
    BY <1>1, <1>2
  <1> HIDE DEF D, m, l
  <1>6. Picked(D, v, l) = Append(Picked(D, v, m), v[d])
    BY ONLY <1>4, PickedLast
  <1>5. Picked(BoundIn(r, f), v, Len(q)) = Waits(q, f)
    BY WaitsPrefix DEF v
  <1> QED BY <1>3, <1>5, <1>6 DEF Waits, v, D, m, l

\* The first push takes its change first.
LEMMA WaitsFirst ==
    ASSUME NEW n \in Nat, NEW q \in Seq(Waiting(n)), NEW f, q # <<>>
    PROVE  Waits(q, f) = IF Bound(q[1], f) THEN <<q[1].msg.op>> \o Waits(Tail(q), f)
                         ELSE Waits(Tail(q), f)
  <1> DEFINE m == Len(q) - 1
             t == Tail(q)
             D == BoundIn(q, f)
             E == BoundIn(t, f)
             v == [i \in D |-> q[i].msg.op]
             w == [i \in E |-> t[i].msg.op]
  <1>1. m \in Nat /\ m + 1 = Len(q)
    OBVIOUS
  <1>2. DOMAIN q = 1 .. m + 1 /\ \A i \in 1 .. m + 1 : q[i] \in Waiting(n)
    BY <1>1
  <1>3. DOMAIN t = 1 .. m /\ Len(t) = m /\ \A i \in 1 .. m : t[i] = q[i + 1]
    OBVIOUS
  <1>4. Waits(q, f) = Picked(D, v, Len(q)) /\ Waits(t, f) = Picked(E, w, Len(t))
    BY Zenon DEF Waits
  <1>5. /\ \A i : i \in D <=> i \in DOMAIN q /\ Bound(q[i], f)
        /\ \A i : i \in E <=> i \in DOMAIN t /\ Bound(t[i], f)
    BY DEF BoundIn
  <1>6. (\A i \in D : v[i] = q[i].msg.op) /\ \A i \in E : w[i] = t[i].msg.op
    BY Zenon
  <1> HIDE DEF m, v, w, t, D, E
  <1>7. \A i \in 1 .. m + 1 : i \in D => v[i] \in Op
    <2> SUFFICES ASSUME NEW i \in D PROVE v[i] \in Op
      OBVIOUS
    <2>1. q[i] \in Waiting(n) /\ q[i].msg.kind = "tx"
      BY <1>2, <1>5 DEF Bound
    <2>2. q[i].msg \in Message(n)
      BY <2>1 DEF Waiting
    <2> QED BY <1>6, <2>1, <2>2, MessageKinds
  <1>8. \A i \in 1 .. m : (i \in E <=> i + 1 \in D) /\ (i \in E => w[i] = v[i + 1])
    <2> SUFFICES ASSUME NEW i \in 1 .. m
                 PROVE  (i \in E <=> i + 1 \in D) /\ (i \in E => w[i] = v[i + 1])
      OBVIOUS
    <2>1. i \in DOMAIN t /\ i + 1 \in DOMAIN q /\ t[i] = q[i + 1]
      BY <1>1, <1>2, <1>3
    <2>2. i \in E <=> i + 1 \in D
      BY <1>5, <2>1
    <2> QED BY <1>6, <2>1, <2>2
  <1>9. Picked(D, v, m + 1) =
          IF 1 \in D THEN <<v[1]>> \o Picked(E, w, m) ELSE Picked(E, w, m)
    BY ONLY <1>1, <1>7, <1>8, PickedFirst
  <1>10. 1 \in D <=> Bound(q[1], f)
    BY <1>1, <1>2, <1>5
  <1> QED BY <1>1, <1>3, <1>4, <1>6, <1>9, <1>10 DEF t

\* Nothing waits only where no push takes a change to f.
LEMMA WaitsNone ==
    ASSUME NEW n \in Nat, NEW q \in Seq(Waiting(n)), NEW f
    PROVE  Waits(q, f) = <<>> <=> \A i \in DOMAIN q : ~Bound(q[i], f)
  <1>1. DOMAIN q = 1 .. Len(q) /\ Len(q) \in Nat /\ \A i \in 1 .. Len(q) : q[i] \in Waiting(n)
    OBVIOUS
  <1>2. \A i \in BoundIn(q, f) : q[i].msg \in Message(n) /\ q[i].msg.kind = "tx"
    BY <1>1 DEF BoundIn, Bound, Waiting
  <1> DEFINE v == [i \in BoundIn(q, f) |-> q[i].msg.op]
  <1>3. \A i \in 1 .. Len(q) : i \in BoundIn(q, f) => v[i] \in Op
    BY <1>2, MessageKinds
  <1> HIDE DEF v
  <1>4. Picked(BoundIn(q, f), v, Len(q)) = <<>> <=> \A i \in 1 .. Len(q) : i \notin BoundIn(q, f)
    BY <1>1, <1>3, PickedNone
  <1> QED BY <1>1, <1>4 DEF Waits, v, BoundIn

\* The changes among messages: a list, ...
TxIn(c) == {j \in DOMAIN c : c[j].kind = "tx"}

\* The changes on a connection, picked from the places of its transactions.
LEMMA ChangesPicked ==
    ASSUME NEW c
    PROVE  Changes(c) = Picked(TxIn(c), [j \in TxIn(c) |-> c[j].op], Len(c))
  BY Zenon DEF Changes, TxIn

\* They are a list of changes, empty only without a transaction ...
LEMMA ChangesList ==
    ASSUME NEW n \in Nat, NEW c \in Seq(Message(n))
    PROVE  /\ Changes(c) \in Seq(Op)
           /\ Changes(c) = <<>> <=> \A j \in DOMAIN c : c[j].kind # "tx"
  <1>1. DOMAIN c = 1 .. Len(c) /\ Len(c) \in Nat /\ \A j \in 1 .. Len(c) : c[j] \in Message(n)
    OBVIOUS
  <1> DEFINE D == TxIn(c)
             v == [j \in D |-> c[j].op]
  <1>2. \A j \in D : v[j] \in Op
    BY <1>1, MessageKinds DEF TxIn
  <1>3. Changes(c) = Picked(D, v, Len(c))
    BY ChangesPicked, Zenon
  <1>4. \A j : j \in D <=> j \in DOMAIN c /\ c[j].kind = "tx"
    BY DEF TxIn
  <1> HIDE DEF D, v
  <1>5. Picked(D, v, Len(c)) \in Seq(Op)
    BY <1>1, <1>2, PickedList
  <1>6. Picked(D, v, Len(c)) = <<>> <=> \A j \in 1 .. Len(c) : j \notin D
    BY ONLY <1>1, <1>2, PickedNone
  <1> QED BY <1>1, <1>3, <1>4, <1>5, <1>6

\* ... that grows at its end with the messages ...
LEMMA ChangesAppend ==
    ASSUME NEW n \in Nat, NEW c \in Seq(Message(n)), NEW m \in Message(n)
    PROVE  Changes(Append(c, m)) = IF m.kind = "tx" THEN Append(Changes(c), m.op)
                                   ELSE Changes(c)
  <1> DEFINE a == Append(c, m)
             l == Len(c)
             D == TxIn(c)
             E == TxIn(a)
             v == [j \in D |-> c[j].op]
             w == [j \in E |-> a[j].op]
  <1>1. /\ DOMAIN c = 1 .. l /\ l \in Nat
        /\ DOMAIN a = 1 .. l + 1 /\ Len(a) = l + 1 /\ a[l + 1] = m
        /\ \A j \in 1 .. l : a[j] = c[j]
    OBVIOUS
  <1>2. Changes(c) = Picked(D, v, l) /\ Changes(a) = Picked(E, w, Len(a))
    BY ChangesPicked, Zenon
  <1>3. /\ \A j : j \in D <=> j \in DOMAIN c /\ c[j].kind = "tx"
        /\ \A j : j \in E <=> j \in DOMAIN a /\ a[j].kind = "tx"
    BY DEF TxIn
  <1>4. (\A j \in D : v[j] = c[j].op) /\ \A j \in E : w[j] = a[j].op
    BY Zenon
  <1> HIDE DEF a, l, D, E, v, w
  <1>5. \A j \in 1 .. l : (j \in E <=> j \in D) /\ (j \in E => w[j] = v[j])
    <2> SUFFICES ASSUME NEW j \in 1 .. l
                 PROVE  (j \in E <=> j \in D) /\ (j \in E => w[j] = v[j])
      OBVIOUS
    <2>1. j \in DOMAIN c /\ j \in DOMAIN a /\ a[j] = c[j]
      BY <1>1
    <2> QED BY <1>3, <1>4, <2>1
  <1>6. Picked(E, w, l) = Picked(D, v, l)
    BY ONLY <1>1, <1>5, PickedSame
  <1>7. Picked(E, w, l + 1) = IF l + 1 \in E THEN Append(Picked(E, w, l), w[l + 1])
                              ELSE Picked(E, w, l)
    BY ONLY <1>1, PickedStep
  <1>8. (l + 1 \in E <=> m.kind = "tx") /\ (l + 1 \in E => w[l + 1] = m.op)
    BY <1>1, <1>3, <1>4
  <1> QED BY <1>1, <1>2, <1>6, <1>7, <1>8 DEF a

\* ... and shrinks at its beginning.
LEMMA ChangesFirst ==
    ASSUME NEW n \in Nat, NEW c \in Seq(Message(n)), c # <<>>
    PROVE  Changes(c) = IF c[1].kind = "tx" THEN <<c[1].op>> \o Changes(Tail(c))
                        ELSE Changes(Tail(c))
  <1> DEFINE m == Len(c) - 1
             t == Tail(c)
             D == TxIn(c)
             E == TxIn(t)
             v == [j \in D |-> c[j].op]
             w == [j \in E |-> t[j].op]
  <1>1. m \in Nat /\ m + 1 = Len(c)
    OBVIOUS
  <1>2. DOMAIN c = 1 .. m + 1 /\ \A j \in 1 .. m + 1 : c[j] \in Message(n)
    BY <1>1
  <1>3. DOMAIN t = 1 .. m /\ Len(t) = m /\ \A j \in 1 .. m : t[j] = c[j + 1]
    OBVIOUS
  <1>4. Changes(c) = Picked(D, v, Len(c)) /\ Changes(t) = Picked(E, w, Len(t))
    BY ChangesPicked, Zenon
  <1>5. /\ \A j : j \in D <=> j \in DOMAIN c /\ c[j].kind = "tx"
        /\ \A j : j \in E <=> j \in DOMAIN t /\ t[j].kind = "tx"
    BY DEF TxIn
  <1>6. (\A j \in D : v[j] = c[j].op) /\ \A j \in E : w[j] = t[j].op
    BY Zenon
  <1> HIDE DEF m, v, w, t, D, E
  <1>7. \A j \in 1 .. m + 1 : j \in D => v[j] \in Op
    <2> SUFFICES ASSUME NEW j \in D PROVE v[j] \in Op
      OBVIOUS
    <2>1. c[j] \in Message(n) /\ c[j].kind = "tx"
      BY <1>2, <1>5
    <2> QED BY <1>6, <2>1, MessageKinds
  <1>8. \A j \in 1 .. m : (j \in E <=> j + 1 \in D) /\ (j \in E => w[j] = v[j + 1])
    <2> SUFFICES ASSUME NEW j \in 1 .. m
                 PROVE  (j \in E <=> j + 1 \in D) /\ (j \in E => w[j] = v[j + 1])
      OBVIOUS
    <2>1. j \in DOMAIN t /\ j + 1 \in DOMAIN c /\ t[j] = c[j + 1]
      BY <1>1, <1>2, <1>3
    <2>2. j \in E <=> j + 1 \in D
      BY <1>5, <2>1
    <2> QED BY <1>6, <2>1, <2>2
  <1>9. Picked(D, v, m + 1) =
          IF 1 \in D THEN <<v[1]>> \o Picked(E, w, m) ELSE Picked(E, w, m)
    BY ONLY <1>1, <1>7, <1>8, PickedFirst
  <1>10. 1 \in D <=> c[1].kind = "tx"
    BY <1>1, <1>2, <1>5
  <1> QED BY <1>1, <1>3, <1>4, <1>6, <1>9, <1>10 DEF t

-----------------------------------------------------------------------------
(* What a step does to one follower.                                       *)

\* Only counting adds pushes that take a change.
LEMMA PushesMove ==
    ASSUME TypeOK, TypeOK', [Next]_vars
    PROVE  \/ UNCHANGED pushq
           \/ \E S, m : Enqueued(S, m) /\ m.kind \notin {"db", "tx"}
           \/ \E o \in Op : Counts(o)
           \/ Push
           \/ \E g \in Follower : RelayEnd(g)
  <1> DEFINE Q == UNCHANGED pushq \/ \E S, m : Enqueued(S, m) /\ m.kind \notin {"db", "tx"}
  <1>0. txcount \in Nat /\ pushq \in Seq(Waiting(txcount))
    BY DEF TypeOK, LeaderOK, ChangesOK
  <1>1. ASSUME NEW o \in Op, Submit(o) PROVE Q
    <2>1. Null(o).kind = "null"
      BY DEF Null
    <2> QED BY <1>1, <2>1, SubmitPushes
  <1>2. ASSUME NEW o \in Op, Commit(o) PROVE Q \/ Counts(o)
    <2>1. Ret(o, FALSE).kind = "ret"
      BY DEF Ret
    <2> QED BY <1>2, <2>1, CommitPushes DEF Counts
  <1>3. ASSUME NEW g \in Follower, RelayRequest(g) PROVE Q
    <2>1. Null(Head(up[g])).kind = "null"
      BY DEF Null
    <2> QED BY <1>3, <2>1, RequestPushes
  <1>4. ASSUME Apply PROVE Q
    <2>1. Ret(Head(inflight), TRUE).kind = "ret"
      BY DEF Ret
    <2> QED BY <1>4, <2>1, ApplyPushes
  <1>5. ASSUME NEW g \in Follower, JoinRegister(g) \/ Reannounce(g) PROVE Q
    <2>1. Quorum(hasquorum', g).kind = "quorum"
      BY DEF Quorum
    <2> QED BY <1>5, <2>1, RegisterPushes, AnnouncePushes
  <1>6. ASSUME TellNewLeader PROVE Q
    <2>1. UNCHANGED pushq \/ pushq' = Reply(pushq, Head(leaving), NewLeader)
      BY <1>6 DEF TellNewLeader
    <2>2. Head(leaving) \in Follower
      BY <1>6 DEF TellNewLeader, TypeOK, LeaderOK
    <2>3. NewLeader \in Message(txcount) /\ NewLeader.kind = "newleader"
      BY <1>0, MessageMade DEF NewLeader
    <2> QED BY <1>0, <2>1, <2>2, <2>3, EnqueuedOne
  <1>7. ASSUME \/ \E g \in Follower :
                    \/ JoinSend(g) \/ Receive(g) \/ StopFollowing(g) \/ Break(g)
                    \/ RelayExit(g) \/ \E n \in 0 .. Len(ldb) : JoinDump(g, n)
                    \/ \E o \in Op : Request(g, o)
               \/ \E b \in BOOLEAN : StopLeading(b)
               \/ UNCHANGED vars
        PROVE  UNCHANGED pushq
    BY <1>7 DEF JoinSend, Receive, StopFollowing, Break, RelayExit, JoinDump, Request,
       StopLeading, vars, opvars
  <1> HIDE DEF Q
  <1>8. \/ Q \/ Push \/ UNCHANGED pushq
        \/ \E o \in Op : Counts(o)
        \/ \E g \in Follower : RelayEnd(g)
    BY <1>1, <1>2, <1>3, <1>4, <1>5, <1>6, <1>7 DEF Next, Progress
  <1> QED BY <1>8 DEF Q

\* Dumps are never pushed.
NoDumps == \A i \in DOMAIN pushq : pushq[i].msg.kind # "db"

\* No step pushes one.
LEMMA NoDumpsKept ==
    ASSUME TypeOK, TypeOK', NoDumps, [Next]_vars
    PROVE  NoDumps'
  <1>1. ASSUME NEW S, NEW m, Enqueued(S, m), m.kind # "db" PROVE NoDumps'
    BY <1>1 DEF Enqueued, NoDumps
  <1>2. ASSUME NEW o \in Op, Counts(o) PROVE NoDumps'
    <2>1. Commit(o)
      BY <1>2 DEF Counts
    <2>2. Tx(o, txcount + 1).kind = "tx" /\ Ret(o, FALSE).kind = "ret"
      BY DEF Tx, Ret
    <2>3. UNCHANGED pushq \/ \E S, m : Enqueued(S, m) /\ m.kind # "db"
      BY <2>1, <2>2, CommitPushes
    <2> QED BY <1>1, <2>3 DEF NoDumps
  <1>3. ASSUME Push PROVE NoDumps'
    <2>1. \A i \in DOMAIN pushq' : i + 1 \in DOMAIN pushq /\ pushq'[i] = pushq[i + 1]
      BY <1>3 DEF Push, TypeOK, ChangesOK
    <2> QED BY <2>1 DEF NoDumps
  <1>4. ASSUME NEW g \in Follower, RelayEnd(g) PROVE NoDumps'
    <2>1. Quorum(hasquorum', g).kind = "quorum"
      BY DEF Quorum
    <2> QED BY <1>4, <2>1, Closes DEF NoDumps
  <1> QED BY <1>1, <1>2, <1>3, <1>4, PushesMove DEF NoDumps

\* The step changes nothing of f, but may end its connection.
Untouched(f) ==
    /\ chan'[f] = chan[f] /\ fdb'[f] = fdb[f] /\ ftx'[f] = ftx[f]
    /\ snap'[f] = snap[f] /\ joinpc'[f] = joinpc[f]
    /\ following'[f] = following[f] /\ raced'[f] = raced[f]
    /\ broken[f] => broken'[f]
    /\ relay'[f] = "live" => relay[f] = "live"
    /\ relay'[f] \in {"live", "broken"} => relay[f] \in {"live", "broken"}
    /\ relay[f] \in {"live", "broken"} => \/ relay'[f] \in {"live", "broken"}
                                           \/ RelayEnd(f)
    /\ f \in ToSet(streams') => f \in ToSet(streams)
    /\ UNCHANGED <<ldb, inflight, txcount>>

\* The steps that do something about f.
Touched(f) ==
    \/ \E o \in Op : Submit(o) /\ ~dead /\ streams = <<>>
    \/ \E o \in Op : Counts(o)
    \/ Push \/ Apply
    \/ \E n \in 0 .. Len(ldb) : JoinDump(f, n)
    \/ JoinSend(f) \/ JoinRegister(f) \/ Receive(f) \/ StopFollowing(f)

\* The functions over the followers.
Shaped ==
    /\ chan = [f \in Follower |-> chan[f]] /\ fdb = [f \in Follower |-> fdb[f]]
    /\ ftx = [f \in Follower |-> ftx[f]] /\ snap = [f \in Follower |-> snap[f]]
    /\ joinpc = [f \in Follower |-> joinpc[f]]
    /\ following = [f \in Follower |-> following[f]]
    /\ raced \in [Follower -> BOOLEAN] /\ broken \in [Follower -> BOOLEAN]
    /\ relay \in [Follower -> {"none", "live", "broken", "ending"}]

\* That they are functions is part of the type invariant.
LEMMA Shapes == TypeOK => Shaped
  <1>1. TypeOK => /\ chan \in [Follower -> Seq(Message(txcount))]
                  /\ fdb \in [Follower -> Seq(Op)] /\ ftx \in [Follower -> 0 .. txcount]
                  /\ snap \in [Follower -> Seq(Op)] /\ following \in [Follower -> BOOLEAN]
                  /\ joinpc \in [Follower -> {"none", "dumped", "sent"}]
                  /\ raced \in [Follower -> BOOLEAN] /\ broken \in [Follower -> BOOLEAN]
                  /\ relay \in [Follower -> {"none", "live", "broken", "ending"}]
    BY DEF TypeOK, LeaderOK, JoinsOK, FollowersOK, ConnectionsOK
  <1> QED BY <1>1, Zenon DEF Shaped

\* There are no other steps.
LEMMA Touches ==
    ASSUME TypeOK, TypeOK', [Next]_vars, NEW f \in Follower
    PROVE  Untouched(f) \/ Touched(f)
  <1>0. Shaped
    BY Shapes
  <1>1. ASSUME UNCHANGED <<ldb, inflight, txcount, chan, fdb, ftx, snap, joinpc, following,
                           raced, broken, relay>>,
               f \in ToSet(streams') => f \in ToSet(streams)
        PROVE  Untouched(f)
    BY <1>1 DEF Untouched
  <1>2. ASSUME NEW o \in Op, Submit(o), dead \/ streams # <<>> PROVE Untouched(f)
    <2>1. UNCHANGED <<ldb, inflight, txcount, chan, fdb, ftx, snap, joinpc, following,
                      raced, broken, relay, streams>>
      BY <1>2 DEF Submit, followervars, netvars
    <2> QED BY <1>1, <2>1
  <1>3. ASSUME NEW o \in Op, NEW g \in Follower, Request(g, o) PROVE Untouched(f)
    <2>1. UNCHANGED <<ldb, inflight, txcount, chan, fdb, ftx, snap, joinpc, following,
                      raced, broken, relay, streams>>
      BY <1>3 DEF Request, leadervars, joinvars, followervars
    <2> QED BY <1>1, <2>1
  <1>4. ASSUME NEW g \in Follower, RelayRequest(g) \/ Reannounce(g) PROVE Untouched(f)
    <2>1. UNCHANGED <<ldb, inflight, txcount, chan, fdb, ftx, snap, joinpc, following,
                      raced, broken, relay, streams>>
      BY <1>4 DEF RelayRequest, Reannounce, leadervars, joinvars, followervars, netvars
    <2> QED BY <1>1, <2>1
  <1>5. ASSUME NEW o \in Op, Commit(o) PROVE Untouched(f) \/ Counts(o)
    <2>1. \/ inflight' = Append(inflight, o)
          \/ UNCHANGED <<txcount, inflight, raced>>
      BY <1>5 DEF Commit
    <2>2. UNCHANGED <<ldb, chan, fdb, ftx, snap, joinpc, following, broken, relay, streams>>
      BY <1>5 DEF Commit, followervars, netvars
    <2> QED BY <1>1, <1>5, <2>1, <2>2 DEF Counts
  <1>6. ASSUME NEW g \in Follower, g # f,
               \/ JoinSend(g) \/ Receive(g) \/ StopFollowing(g)
               \/ \E n \in 0 .. Len(ldb) : JoinDump(g, n)
        PROVE  Untouched(f)
    <2>1. UNCHANGED <<ldb, inflight, txcount, streams>>
      BY <1>6 DEF JoinSend, Receive, StopFollowing, JoinDump, leadervars, opvars
    <2>2. CASE JoinSend(g)
      <3>1. /\ joinpc' = [joinpc EXCEPT ![g] = "sent"] /\ snap' = [snap EXCEPT ![g] = <<>>]
            /\ chan' = IF broken[g] THEN chan ELSE [chan EXCEPT ![g] = <<Db(snap[g], txcount)>>]
            /\ UNCHANGED <<fdb, ftx, following, raced, broken, relay>>
        BY <2>2 DEF JoinSend, leadervars, followervars
      <3> QED BY <1>0, <1>6, <2>1, <3>1 DEF Untouched, Shaped
    <2>3. CASE Receive(g)
      <3>1. /\ fdb' = fdb \/ \E s : fdb' = [fdb EXCEPT ![g] = s]
            /\ ftx' = ftx \/ \E s : ftx' = [ftx EXCEPT ![g] = s]
            /\ \E s : following' = [following EXCEPT ![g] = s]
            /\ \E s : chan' = [chan EXCEPT ![g] = s]
            /\ \E s \in BOOLEAN : broken' = [broken EXCEPT ![g] = s]
            /\ relay' = relay \/ relay' = [relay EXCEPT ![g] = "broken"]
            /\ UNCHANGED <<snap, joinpc, raced>>
        <4>1. broken' = [broken EXCEPT ![g] = @ \/ Head(chan[g]).kind = "newleader"]
          BY <2>3 DEF Receive
        <4>2. \E s \in BOOLEAN : broken' = [broken EXCEPT ![g] = s]
          BY <1>0, <4>1 DEF Shaped
        <4>3. \/ fdb' = fdb \/ fdb' = [fdb EXCEPT ![g] = Head(chan[g]).db]
              \/ fdb' = [fdb EXCEPT ![g] = Append(@, Head(chan[g]).op)]
          BY <2>3 DEF Receive
        <4>4. /\ ftx' = ftx \/ \E s : ftx' = [ftx EXCEPT ![g] = s]
              /\ \E s : following' = [following EXCEPT ![g] = s]
              /\ \E s : chan' = [chan EXCEPT ![g] = s]
              /\ relay' = relay \/ relay' = [relay EXCEPT ![g] = "broken"]
              /\ UNCHANGED <<snap, joinpc, raced>>
          BY <2>3 DEF Receive, joinvars
        <4> QED BY <4>2, <4>3, <4>4
      <3> QED BY <1>0, <1>6, <2>1, <3>1 DEF Untouched, Shaped
    <2>4. CASE StopFollowing(g)
      <3>1. /\ following' = [following EXCEPT ![g] = FALSE] /\ chan' = [chan EXCEPT ![g] = <<>>]
            /\ UNCHANGED <<fdb, ftx, snap, joinpc, raced, broken, relay>>
        BY <2>4 DEF StopFollowing, leadervars, joinvars
      <3> QED BY <1>0, <1>6, <2>1, <3>1 DEF Untouched, Shaped
    <2>5. ASSUME NEW n \in 0 .. Len(ldb), JoinDump(g, n) PROVE Untouched(f)
      <3>1. /\ joinpc' = [joinpc EXCEPT ![g] = "dumped"]
            /\ \E s : snap' = [snap EXCEPT ![g] = s]
            /\ \E s : raced' = [raced EXCEPT ![g] = s]
            /\ broken' = [broken EXCEPT ![g] = FALSE]
            /\ UNCHANGED <<chan, fdb, ftx, following, relay>>
        BY <2>5 DEF JoinDump, leadervars, followervars
      <3> QED BY <1>0, <1>6, <2>1, <3>1 DEF Untouched, Shaped
    <2> QED BY <1>6, <2>2, <2>3, <2>4, <2>5
  <1>7. ASSUME NEW g \in Follower, g # f, JoinRegister(g) PROVE Untouched(f)
    <2>1. ToSet(streams') = ToSet(streams) \cup {g}
      BY <1>7, RegisterPushes
    <2>2. /\ UNCHANGED <<ldb, inflight, txcount, chan, fdb, ftx, snap, following, raced, broken>>
          /\ joinpc' = [joinpc EXCEPT ![g] = "none"]
          /\ relay' = [relay EXCEPT ![g] = IF broken[g] THEN "broken" ELSE "live"]
      BY <1>7 DEF JoinRegister, followervars, netvars
    <2> QED BY <1>0, <1>7, <2>1, <2>2 DEF Untouched, Shaped
  <1>8. ASSUME NEW g \in Follower, Break(g) PROVE Untouched(f)
    <2>1. /\ UNCHANGED <<ldb, inflight, txcount, chan, fdb, ftx, snap, following, raced, joinpc,
                         streams>>
          /\ broken' = [broken EXCEPT ![g] = TRUE]
          /\ relay' = [relay EXCEPT ![g] = IF @ = "live" THEN "broken" ELSE @]
      BY <1>8 DEF Break, followervars, joinvars
    <2> QED BY <1>0, <2>1 DEF Untouched, Shaped
  <1>9. ASSUME NEW g \in Follower, RelayEnd(g) PROVE Untouched(f)
    <2>1. ToSet(streams') = ToSet(streams) \ {g}
      BY <1>9, Closes
    <2>2. /\ UNCHANGED <<ldb, inflight, txcount, chan, fdb, ftx, snap, following, raced, joinpc>>
          /\ broken' = [broken EXCEPT ![g] = @ \/ relay[g] = "live"]
          /\ \E r \in {"none", "ending"} : relay' = [relay EXCEPT ![g] = r]
      BY <1>9 DEF RelayEnd, followervars, joinvars
    <2>3. CASE g = f
      BY <1>0, <1>9, <2>1, <2>2, <2>3 DEF Untouched, Shaped
    <2>4. CASE g # f
      BY <1>0, <2>1, <2>2, <2>4 DEF Untouched, Shaped
    <2> QED BY <2>3, <2>4
  <1>10. ASSUME NEW g \in Follower, RelayExit(g) PROVE Untouched(f)
    <2>1. /\ UNCHANGED <<ldb, inflight, txcount, chan, fdb, ftx, snap, following, raced, joinpc,
                         streams, broken>>
          /\ relay[g] = "ending" /\ relay' = [relay EXCEPT ![g] = "none"]
      BY <1>10 DEF RelayExit, followervars, joinvars, netvars, opvars
    <2> QED BY <1>0, <2>1 DEF Untouched, Shaped
  <1>11. ASSUME NEW b \in BOOLEAN, StopLeading(b) PROVE Untouched(f)
    <2>1. UNCHANGED <<ldb, inflight, txcount, chan, fdb, ftx, snap, joinpc, following,
                      raced, broken, relay>>
      BY <1>11 DEF StopLeading, opvars, joinvars, followervars, netvars
    <2>2. streams' = streams \/ streams' = <<>>
      BY <1>11 DEF StopLeading
    <2> QED BY <1>1, <2>1, <2>2, EmptyList
  <1>12. ASSUME TellNewLeader \/ UNCHANGED vars PROVE Untouched(f)
    <2>1. UNCHANGED <<ldb, inflight, txcount, chan, fdb, ftx, snap, joinpc, following,
                      raced, broken, relay, streams>>
      BY <1>12 DEF TellNewLeader, vars, leadervars, opvars, joinvars, followervars, netvars
    <2> QED BY <1>1, <2>1
  <1>13. ASSUME Progress PROVE Untouched(f) \/ Touched(f)
    <2>1. ASSUME NEW g \in Follower, JoinSend(g) \/ JoinRegister(g) \/ Receive(g) \/ StopFollowing(g)
          PROVE  Untouched(f) \/ Touched(f)
      BY <1>6, <1>7, <2>1 DEF Touched
    <2>2. ASSUME NEW g \in Follower, RelayRequest(g) \/ Reannounce(g) \/ RelayEnd(g) \/ RelayExit(g)
          PROVE  Untouched(f)
      BY <1>4, <1>9, <1>10, <2>2
    <2>3. ASSUME NEW o \in Op, Commit(o) PROVE Untouched(f) \/ Touched(f)
      BY <1>5, <2>3 DEF Touched
    <2>4. Push \/ Apply => Touched(f)
      BY DEF Touched
    <2> QED BY <1>12, <1>13, <2>1, <2>2, <2>3, <2>4 DEF Progress
  <1>14. ASSUME NEW g \in Follower, Break(g) \/ \E n \in 0 .. Len(ldb) : JoinDump(g, n)
         PROVE  Untouched(f) \/ Touched(f)
    BY <1>6, <1>8, <1>14 DEF Touched
  <1>15. ASSUME NEW o \in Op, Submit(o) \/ \E g \in Follower : Request(g, o)
         PROVE  Untouched(f) \/ Touched(f)
    BY <1>2, <1>3, <1>15 DEF Touched
  <1> QED BY <1>11, <1>12, <1>13, <1>14, <1>15 DEF Next

\* What waits for a follower on such a step, or when no push is counted or made.
LEMMA PushesStill ==
    ASSUME TypeOK, TypeOK', [Next]_vars, ~Push, \A o \in Op : ~Counts(o),
           NEW f \in Follower
    PROVE  /\ \A i \in DOMAIN pushq' : Bound(pushq'[i], f) =>
                 i \in DOMAIN pushq /\ Bound(pushq[i], f) /\ pushq'[i].msg = pushq[i].msg
           /\ RelayEnd(f) => \A i \in DOMAIN pushq' : ~Bound(pushq'[i], f)
           /\ ~RelayEnd(f) => /\ Extends(pushq', pushq, f)
                              /\ \A i \in Len(pushq) + 1 .. Len(pushq') : ~Bound(pushq'[i], f)
  <1>0. /\ DOMAIN pushq = 1 .. Len(pushq) /\ Len(pushq) \in Nat
        /\ DOMAIN pushq' = 1 .. Len(pushq') /\ Len(pushq') \in Nat
    BY DEF TypeOK, ChangesOK
  <1>1. ASSUME /\ \A i \in DOMAIN pushq : /\ i \in DOMAIN pushq'
                                          /\ pushq'[i].msg = pushq[i].msg
                                          /\ Bound(pushq'[i], f) <=> Bound(pushq[i], f)
               /\ \A i \in DOMAIN pushq' \ DOMAIN pushq : ~Bound(pushq'[i], f)
        PROVE  /\ \A i \in DOMAIN pushq' : Bound(pushq'[i], f) =>
                     i \in DOMAIN pushq /\ Bound(pushq[i], f) /\ pushq'[i].msg = pushq[i].msg
               /\ Extends(pushq', pushq, f)
               /\ \A i \in Len(pushq) + 1 .. Len(pushq') : ~Bound(pushq'[i], f)
    <2>1. Len(pushq) <= Len(pushq')
      BY <1>0, <1>1
    <2>2. \A i \in Len(pushq) + 1 .. Len(pushq') : i \in DOMAIN pushq' \ DOMAIN pushq
      BY <1>0
    <2> QED BY <1>0, <1>1, <2>1, <2>2 DEF Extends
  <1>2. ASSUME UNCHANGED pushq
        PROVE  /\ \A i \in DOMAIN pushq : /\ i \in DOMAIN pushq'
                                          /\ pushq'[i].msg = pushq[i].msg
                                          /\ Bound(pushq'[i], f) <=> Bound(pushq[i], f)
               /\ \A i \in DOMAIN pushq' \ DOMAIN pushq : ~Bound(pushq'[i], f)
    BY <1>2
  <1>3. ASSUME NEW S, NEW m, Enqueued(S, m), m.kind \notin {"db", "tx"}
        PROVE  /\ \A i \in DOMAIN pushq : /\ i \in DOMAIN pushq'
                                          /\ pushq'[i].msg = pushq[i].msg
                                          /\ Bound(pushq'[i], f) <=> Bound(pushq[i], f)
               /\ \A i \in DOMAIN pushq' \ DOMAIN pushq : ~Bound(pushq'[i], f)
    BY <1>3 DEF Enqueued, Bound
  <1>4. ASSUME NEW g \in Follower, RelayEnd(g), g # f
        PROVE  /\ \A i \in DOMAIN pushq : /\ i \in DOMAIN pushq'
                                          /\ pushq'[i].msg = pushq[i].msg
                                          /\ Bound(pushq'[i], f) <=> Bound(pushq[i], f)
               /\ \A i \in DOMAIN pushq' \ DOMAIN pushq : ~Bound(pushq'[i], f)
    <2>1. Quorum(hasquorum', g).kind = "quorum"
      BY DEF Quorum
    <2>2. \A i \in DOMAIN pushq : pushq[i].open \in BOOLEAN
      BY Types DEF Typed
    <2>3. /\ \A i \in DOMAIN pushq :
                  /\ i \in DOMAIN pushq'
                  /\ pushq'[i].to = pushq[i].to /\ pushq'[i].msg = pushq[i].msg
                  /\ pushq'[i].open = (pushq[i].open /\ pushq[i].to # g)
          /\ \A i \in DOMAIN pushq' \ DOMAIN pushq : pushq'[i].msg = Quorum(hasquorum', g)
      BY <1>4, Closes
    <2> QED BY <1>4, <2>1, <2>2, <2>3 DEF Bound
  <1>5. CASE RelayEnd(f)
    <2>1. Quorum(hasquorum', f).kind = "quorum"
      BY DEF Quorum
    <2>2. /\ \A i \in DOMAIN pushq :
                  /\ i \in DOMAIN pushq'
                  /\ pushq'[i].to = pushq[i].to /\ pushq'[i].msg = pushq[i].msg
                  /\ pushq'[i].open = (pushq[i].open /\ pushq[i].to # f)
          /\ \A i \in DOMAIN pushq' \ DOMAIN pushq : pushq'[i].msg = Quorum(hasquorum', f)
      BY <1>5, Closes
    <2>3. \A i \in DOMAIN pushq' : ~Bound(pushq'[i], f)
      BY <2>1, <2>2 DEF Bound
    <2> QED BY <1>5, <2>3
  <1>6. ASSUME ~RelayEnd(f)
        PROVE  /\ \A i \in DOMAIN pushq' : Bound(pushq'[i], f) =>
                     i \in DOMAIN pushq /\ Bound(pushq[i], f) /\ pushq'[i].msg = pushq[i].msg
               /\ Extends(pushq', pushq, f)
               /\ \A i \in Len(pushq) + 1 .. Len(pushq') : ~Bound(pushq'[i], f)
    <2>1. \/ UNCHANGED pushq
          \/ \E S, m : Enqueued(S, m) /\ m.kind \notin {"db", "tx"}
          \/ \E g \in Follower : RelayEnd(g) /\ g # f
      BY <1>6, PushesMove
    <2>2. /\ \A i \in DOMAIN pushq : /\ i \in DOMAIN pushq'
                                     /\ pushq'[i].msg = pushq[i].msg
                                     /\ Bound(pushq'[i], f) <=> Bound(pushq[i], f)
          /\ \A i \in DOMAIN pushq' \ DOMAIN pushq : ~Bound(pushq'[i], f)
      BY <2>1, <1>2, <1>3, <1>4
    <2> QED BY <1>1, <2>2
  <1> QED BY <1>5, <1>6


-----------------------------------------------------------------------------
(* How a follower's connection begins.                                     *)

\* The dump comes first and before anything is pushed, and nothing waits for a
\* follower that no relay serves.
OpeningAt(f) ==
    /\ joinpc[f] = "dumped" => chan[f] = <<>> /\ ~following[f]
    /\ following[f] => ~DbFirst(f)
    /\ relay[f] \notin {"live", "broken"} =>
          \A i \in DOMAIN pushq : ~Bound(pushq[i], f)
    /\ \A j \in DOMAIN chan[f] :
          /\ chan[f][j].kind = "db" => j = 1
          /\ joinpc[f] = "sent" => chan[f][j].kind = "db"
Openings == NoDumps /\ \A f \in Follower : OpeningAt(f)

\* No step breaks the order in which a connection begins.
LEMMA OpeningsKept ==
    ASSUME TypeOK, TypeOK', Alive, Openings, [Next]_vars
    PROVE  Openings'
  <1>0. Typed /\ Shaped /\ NoDumps
    BY Types, Shapes DEF Openings
  <1>1. NoDumps'
    BY <1>0, NoDumpsKept
  <1> SUFFICES ASSUME NEW f \in Follower PROVE OpeningAt(f)'
    BY <1>1 DEF Openings
  <1>2. OpeningAt(f)
    BY DEF Openings
  <1>3. ASSUME chan'[f] = chan[f], joinpc'[f] = joinpc[f], following'[f] = following[f],
               relay'[f] \notin {"live", "broken"} =>
                   \A i \in DOMAIN pushq' : ~Bound(pushq'[i], f)
        PROVE  OpeningAt(f)'
    <2>1. /\ joinpc'[f] = "dumped" => chan'[f] = <<>> /\ ~following'[f]
          /\ following'[f] => ~(chan'[f] # <<>> /\ chan'[f][1].kind = "db")
          /\ \A j \in DOMAIN chan'[f] :
                /\ chan'[f][j].kind = "db" => j = 1
                /\ joinpc'[f] = "sent" => chan'[f][j].kind = "db"
      BY <1>2, <1>3 DEF OpeningAt, DbFirst
    <2> QED BY <1>3, <2>1 DEF OpeningAt, DbFirst, Bound
  <1>4. ASSUME ~Push, \A o \in Op : ~Counts(o)
        PROVE  \A i \in DOMAIN pushq' : Bound(pushq'[i], f) =>
                   i \in DOMAIN pushq /\ Bound(pushq[i], f) /\ ~RelayEnd(f)
    BY <1>4, PushesStill
  <1>5. CASE Untouched(f) /\ ~Touched(f)
    <2>1. ~Push /\ \A o \in Op : ~Counts(o)
      BY <1>5 DEF Touched
    <2>2. relay'[f] \notin {"live", "broken"} =>
            \A i \in DOMAIN pushq' : ~Bound(pushq'[i], f)
      BY <1>2, <1>4, <1>5, <2>1 DEF Untouched, OpeningAt
    <2> QED BY <1>3, <1>5, <2>2 DEF Untouched
  <1>6. CASE \E o \in Op : Counts(o)
    <2>1. PICK o \in Op : Commit(o) /\ inflight' = Append(inflight, o)
      BY <1>6 DEF Counts
    <2>2. UNCHANGED <<chan, joinpc, following, relay, streams>>
      BY <2>1 DEF Commit, followervars, netvars
    <2>3. UNCHANGED pushq \/ \E S, m : Enqueued(S, m) /\ (m.kind # "tx" \/ S = ToSet(streams))
      <3>1. Ret(o, FALSE).kind = "ret"
        BY DEF Ret
      <3> QED BY <2>1, <3>1, CommitPushes
    <2>4. relay[f] \notin {"live", "broken"} => f \notin ToSet(streams)
      BY <1>0 DEF Typed
    <2>5. relay[f] \notin {"live", "broken"} =>
            \A i \in DOMAIN pushq' : ~Bound(pushq'[i], f)
      BY <1>2, <2>3, <2>4 DEF Enqueued, Bound, OpeningAt
    <2> QED BY <1>3, <2>2, <2>5
  <1>7. CASE Push
    <2>1. UNCHANGED <<joinpc, following, relay>>
      BY <1>7 DEF Push, joinvars, followervars
    <2>2. /\ 1 \in DOMAIN pushq /\ Head(pushq) = pushq[1]
          /\ \A i \in DOMAIN pushq' : i + 1 \in DOMAIN pushq /\ pushq'[i] = pushq[i + 1]
      BY <1>7 DEF Push, TypeOK, ChangesOK
    <2>3. relay[f] \notin {"live", "broken"} =>
            \A i \in DOMAIN pushq' : ~Bound(pushq'[i], f)
      BY <1>2, <2>2 DEF OpeningAt
    <2>4. chan' = IF Writes(pushq[1])
                  THEN [chan EXCEPT ![pushq[1].to] = Append(@, pushq[1].msg)] ELSE chan
      BY <1>7, <2>2 DEF Push
    <2>5. CASE chan'[f] = chan[f]
      BY <1>3, <2>1, <2>3, <2>5
    <2>6. CASE chan'[f] # chan[f]
      <3>1. /\ pushq[1].to = f /\ Writes(pushq[1])
            /\ chan'[f] = Append(chan[f], pushq[1].msg)
        BY <1>0, <2>4, <2>6 DEF Typed
      <3>2. joinpc[f] = "none" /\ pushq[1].msg.kind # "db"
        BY <1>0, <2>2, <3>1 DEF Writes, Alive, NoDumps
      <3>3. \A j \in DOMAIN chan'[f] :
              \/ chan'[f][j] = pushq[1].msg
              \/ j \in DOMAIN chan[f] /\ chan'[f][j] = chan[f][j]
        BY <1>0, <3>1 DEF Typed
      <3>4. 1 \in DOMAIN chan'[f] /\ DOMAIN chan'[f] = 1 .. Len(chan[f]) + 1
        BY <1>0, <3>1 DEF Typed
      <3>5. following[f] => chan'[f][1].kind # "db"
        <4>1. CASE chan'[f][1] = pushq[1].msg
          BY <3>2, <4>1
        <4>2. CASE 1 \in DOMAIN chan[f] /\ chan'[f][1] = chan[f][1]
          BY <1>0, <1>2, <4>2 DEF OpeningAt, DbFirst, Typed
        <4> QED BY <3>3, <3>4, <4>1, <4>2
      <3>6. \A j \in DOMAIN chan'[f] : chan'[f][j].kind = "db" => j = 1
        BY <1>2, <3>2, <3>3 DEF OpeningAt
      <3>7. joinpc'[f] = "none" /\ following'[f] = following[f] /\ relay'[f] = relay[f]
        BY <2>1, <3>2
      <3> QED BY <2>3, <3>5, <3>6, <3>7 DEF OpeningAt, DbFirst, Bound
    <2> QED BY <2>5, <2>6
  <1>8. CASE ~Push /\ (\A o \in Op : ~Counts(o)) /\ (Apply \/ \E o \in Op : Submit(o))
    <2>1. UNCHANGED <<chan, joinpc, following, relay>>
      BY <1>8 DEF Apply, Submit, followervars, netvars
    <2>2. relay[f] \notin {"live", "broken"} =>
            \A i \in DOMAIN pushq' : ~Bound(pushq'[i], f)
      BY <1>2, <1>4, <1>8 DEF OpeningAt
    <2> QED BY <1>3, <2>1, <2>2
  <1>9. CASE JoinSend(f)
    <2>1. /\ UNCHANGED <<pushq, relay, following>> /\ joinpc[f] = "dumped"
          /\ joinpc' = [joinpc EXCEPT ![f] = "sent"]
          /\ chan' = chan \/ chan' = [chan EXCEPT ![f] = <<Db(snap[f], txcount)>>]
      BY <1>9 DEF JoinSend, opvars, leadervars, followervars
    <2>2. chan[f] = <<>> /\ ~following[f]
      BY <1>2, <2>1 DEF OpeningAt
    <2>3. joinpc'[f] = "sent" /\ ~following'[f]
          /\ (chan'[f] = <<>> \/ chan'[f] = <<Db(snap[f], txcount)>>)
      BY <1>0, <2>1, <2>2 DEF Shaped
    <2>4. \A j \in DOMAIN chan'[f] : j = 1 /\ chan'[f][j].kind = "db"
      BY <2>3 DEF Db
    <2>5. relay'[f] \notin {"live", "broken"} =>
            \A i \in DOMAIN pushq' : ~Bound(pushq'[i], f)
      BY <1>2, <2>1 DEF OpeningAt
    <2> QED BY <2>3, <2>4, <2>5 DEF OpeningAt, Bound
  <1>10. CASE JoinRegister(f) /\ ~Push /\ \A o \in Op : ~Counts(o)
    <2>1. /\ UNCHANGED <<chan, following>> /\ joinpc' = [joinpc EXCEPT ![f] = "none"]
          /\ relay' = [relay EXCEPT ![f] = IF broken[f] THEN "broken" ELSE "live"]
      BY <1>10 DEF JoinRegister, followervars, netvars
    <2>2. joinpc'[f] = "none" /\ relay'[f] \in {"live", "broken"}
      BY <1>0, <2>1 DEF Shaped
    <2>3. /\ following'[f] => ~(chan'[f] # <<>> /\ chan'[f][1].kind = "db")
          /\ \A j \in DOMAIN chan'[f] : chan'[f][j].kind = "db" => j = 1
      BY <1>2, <2>1 DEF OpeningAt, DbFirst
    <2> QED BY <2>2, <2>3 DEF OpeningAt, DbFirst
  <1>11. CASE Receive(f)
    <2>1. chan[f] # <<>> /\ Head(chan[f]) = chan[f][1]
      BY <1>11 DEF Receive, TypeOK, ConnectionsOK
    <2>2. /\ UNCHANGED <<pushq, joinpc>>
          /\ chan' = [chan EXCEPT ![f] = IF chan[f][1].kind = "newleader" THEN <<>> ELSE Tail(@)]
          /\ \/ relay' = relay
             \/ relay[f] = "live" /\ relay' = [relay EXCEPT ![f] = "broken"]
      BY <1>11, <2>1 DEF Receive, joinvars
    <2>3. chan'[f] = <<>> \/ chan'[f] = Tail(chan[f])
      BY <1>0, <2>2 DEF Shaped
    <2>4. /\ DOMAIN chan[f] = 1 .. Len(chan[f])
          /\ \A j \in DOMAIN Tail(chan[f]) :
                j + 1 \in DOMAIN chan[f] /\ Tail(chan[f])[j] = chan[f][j + 1]
          /\ \A j \in DOMAIN Tail(chan[f]) : j \in Nat \ {0} /\ j + 1 # 1
          /\ Tail(chan[f]) # <<>> => 1 \in DOMAIN Tail(chan[f])
      BY <2>1, Rest DEF TypeOK, ConnectionsOK
    <2>5. \A j \in DOMAIN chan'[f] :
            /\ chan'[f][j].kind # "db"
            /\ joinpc[f] # "sent"
      <3>1. \A j \in DOMAIN Tail(chan[f]) : Tail(chan[f])[j].kind # "db" /\ joinpc[f] # "sent"
        BY <1>2, <2>4 DEF OpeningAt
      <3>2. CASE chan'[f] = <<>>
        BY <3>2
      <3>3. CASE chan'[f] = Tail(chan[f])
        BY <3>1, <3>3, Zenon
      <3> QED BY <2>3, <3>2, <3>3
    <2>6. joinpc'[f] # "dumped" /\ joinpc'[f] = joinpc[f]
      BY <1>2, <2>1, <2>2 DEF OpeningAt
    <2>7. ~DbFirst(f)'
      <3>1. chan'[f] # <<>> => 1 \in DOMAIN chan'[f]
        BY <2>3, <2>4
      <3> QED BY <2>5, <3>1 DEF DbFirst
    <2>8. relay'[f] \notin {"live", "broken"} =>
            \A i \in DOMAIN pushq' : ~Bound(pushq'[i], f)
      BY <1>0, <1>2, <2>2 DEF OpeningAt, Shaped
    <2> QED BY <2>5, <2>6, <2>7, <2>8 DEF OpeningAt, Bound
  <1>12. CASE StopFollowing(f)
    <2>1. /\ UNCHANGED <<pushq, joinpc, relay>> /\ chan' = [chan EXCEPT ![f] = <<>>]
          /\ following' = [following EXCEPT ![f] = FALSE]
      BY <1>12 DEF StopFollowing, joinvars, opvars, leadervars
    <2>2. chan'[f] = <<>> /\ ~following'[f]
      BY <1>0, <2>1 DEF Shaped
    <2>3. relay'[f] \notin {"live", "broken"} =>
            \A i \in DOMAIN pushq' : ~Bound(pushq'[i], f)
      BY <1>2, <2>1 DEF OpeningAt
    <2> QED BY <2>2, <2>3 DEF OpeningAt, Bound
  <1>13. ASSUME NEW n \in 0 .. Len(ldb), JoinDump(f, n) PROVE OpeningAt(f)'
    <2>1. /\ UNCHANGED <<pushq, chan, relay, following>> /\ chan[f] = <<>> /\ ~following[f]
      BY <1>13 DEF JoinDump, opvars, leadervars, followervars
    <2>2. relay'[f] \notin {"live", "broken"} =>
            \A i \in DOMAIN pushq' : ~Bound(pushq'[i], f)
      BY <1>2, <2>1 DEF OpeningAt
    <2> QED BY <2>1, <2>2 DEF OpeningAt, Bound
  <1>14. CASE Touched(f)
    BY <1>6, <1>7, <1>8, <1>9, <1>10, <1>11, <1>12, <1>13, <1>14 DEF Touched
  <1> QED BY <1>5, <1>14, Touches

-----------------------------------------------------------------------------
(* What a follower has and is about to get.                                *)

\* An element that moves from one list to the next.
LEMMA Moved ==
    ASSUME NEW S, NEW a \in Seq(S), NEW b \in Seq(S), NEW x \in S
    PROVE  /\ a \o Append(b, x) = Append(a \o b, x)
           /\ Append(a, x) \o b = a \o (<<x>> \o b)
  <1>1. a \o Append(b, x) = Append(a \o b, x)
    OBVIOUS
  <1>2. Append(a, x) \o b = a \o (<<x>> \o b)
    <2> DEFINE l == Append(a, x) \o b
               r == a \o (<<x>> \o b)
    <2>1. /\ l \in Seq(S) /\ Len(l) = Len(a) + 1 + Len(b)
          /\ r \in Seq(S) /\ Len(r) = Len(a) + 1 + Len(b)
      OBVIOUS
    <2>2. ASSUME NEW i \in 1 .. Len(a) + 1 + Len(b) PROVE l[i] = r[i]
      <3>1. CASE i <= Len(a)
        BY <3>1
      <3>2. CASE i = Len(a) + 1
        BY <3>2
      <3>3. CASE i > Len(a) + 1
        BY <3>3
      <3> QED BY <3>1, <3>2, <3>3
    <2> HIDE DEF l, r
    <2>3. l = r
      BY <2>1, <2>2
    <2> QED BY <2>3 DEF l, r
  <1> QED BY <1>1, <1>2

\* Lists that are joined, and a list from its first member.
LEMMA Joined ==
    ASSUME NEW S, NEW a \in Seq(S), NEW b \in Seq(S), NEW c \in Seq(S)
    PROVE  /\ (a \o b) \o c = a \o (b \o c) /\ a \o b \in Seq(S)
           /\ a \o <<>> = a
           /\ a # <<>> => /\ a = <<Head(a)>> \o Tail(a) /\ Head(a) \in S
                          /\ Tail(a) \in Seq(S)
  <1>1. (a \o b) \o c = a \o (b \o c)
    <2> DEFINE l == (a \o b) \o c
               r == a \o (b \o c)
    <2>1. /\ l \in Seq(S) /\ Len(l) = Len(a) + Len(b) + Len(c)
          /\ r \in Seq(S) /\ Len(r) = Len(a) + Len(b) + Len(c)
      OBVIOUS
    <2>2. ASSUME NEW i \in 1 .. Len(a) + Len(b) + Len(c) PROVE l[i] = r[i]
      <3>1. CASE i <= Len(a)
        BY <3>1
      <3>2. CASE i > Len(a) /\ i <= Len(a) + Len(b)
        BY <3>2
      <3>3. CASE i > Len(a) + Len(b)
        BY <3>3
      <3> QED BY <3>1, <3>2, <3>3
    <2> HIDE DEF l, r
    <2>3. l = r
      BY <2>1, <2>2
    <2> QED BY <2>3 DEF l, r
  <1> QED BY <1>1

\* What f has, or has with the dump that it reads next; that, and what is on its
\* way or waits for it.
Has(f) == IF DbFirst(f) THEN chan[f][1].db ELSE fdb[f]
Pieces(f) == (Has(f) \o Changes(chan[f])) \o Waits(pushq, f)

\* Once f has joined while nothing changed, that is the whole log; while it
\* joins, nothing is in flight and its dump is what the leader has applied.
AgreesAt(f) ==
    /\ joinpc[f] # "none" => inflight = <<>>
    /\ joinpc[f] = "dumped" => snap[f] = ldb
    /\ joinpc[f] = "sent" /\ ~broken[f] => Has(f) = ldb
    /\ relay[f] = "live" /\ f \in ToSet(streams) => Pieces(f) = ldb \o inflight
Agrees == \A f \in Follower : ~raced[f] => AgreesAt(f)

\* All of these are lists of changes.
LEMMA PiecesListed ==
    ASSUME TypeOK, NEW f \in Follower
    PROVE  /\ txcount \in Nat /\ pushq \in Seq(Waiting(txcount))
           /\ chan[f] \in Seq(Message(txcount))
           /\ ldb \in Seq(Op) /\ inflight \in Seq(Op) /\ fdb[f] \in Seq(Op)
           /\ Has(f) \in Seq(Op) /\ Changes(chan[f]) \in Seq(Op)
           /\ Waits(pushq, f) \in Seq(Op)
  <1>1. /\ txcount \in Nat /\ pushq \in Seq(Waiting(txcount))
        /\ chan[f] \in Seq(Message(txcount))
        /\ ldb \in Seq(Op) /\ inflight \in Seq(Op) /\ fdb[f] \in Seq(Op)
    BY DEF TypeOK, LeaderOK, ChangesOK, FollowersOK, ConnectionsOK
  <1>2. Changes(chan[f]) \in Seq(Op) /\ Waits(pushq, f) \in Seq(Op)
    BY <1>1, ChangesList, WaitsList
  <1>3. DbFirst(f) => chan[f][1].db \in Seq(Op)
    <2> SUFFICES ASSUME DbFirst(f) PROVE chan[f][1].db \in Seq(Op)
      OBVIOUS
    <2>1. chan[f][1] \in Message(txcount) /\ chan[f][1].kind = "db"
      BY <1>1 DEF DbFirst
    <2> QED BY <1>1, <2>1, MessageKinds
  <1> QED BY <1>1, <1>2, <1>3 DEF Has

\* A step that makes no push for f, adds none for it and leaves it what it has.
LEMMA PiecesStill ==
    ASSUME TypeOK, TypeOK', [Next]_vars, ~Push, \A o \in Op : ~Counts(o),
           NEW f \in Follower, chan'[f] = chan[f], fdb'[f] = fdb[f], ~RelayEnd(f)
    PROVE  Pieces(f)' = Pieces(f) /\ Has(f)' = Has(f)
  <1>1. /\ txcount \in Nat /\ pushq \in Seq(Waiting(txcount))
        /\ txcount' \in Nat /\ pushq' \in Seq(Waiting(txcount'))
    BY DEF TypeOK, LeaderOK, ChangesOK
  <1>2. /\ Extends(pushq', pushq, f)
        /\ \A i \in Len(pushq) + 1 .. Len(pushq') : ~Bound(pushq'[i], f)
    BY PushesStill
  <1>3. Waits(pushq', f) = Waits(pushq, f)
    BY <1>1, <1>2, WaitsSame
  <1>4. Has(f)' = Has(f)
    BY DEF Has, DbFirst
  <1>5. Changes(chan'[f]) = Changes(chan[f])
    OBVIOUS
  <1>6. Pieces(f)' = (Has(f)' \o Changes(chan'[f])) \o Waits(pushq', f)
    BY DEF Pieces, Waits, BoundIn, Bound, Changes
  <1> QED BY <1>3, <1>4, <1>5, <1>6 DEF Pieces

\* The pieces of f after a step, from what the step leaves of each.
LEMMA PiecesNext ==
    \A f : Pieces(f)' = (Has(f)' \o Changes(chan'[f])) \o Waits(pushq', f)
  BY DEF Pieces, Waits, BoundIn, Bound, Changes, Picked

\* A change that is counted waits for f, behind the others.
LEMMA PiecesCounted ==
    ASSUME TypeOK, TypeOK', NEW o \in Op, Counts(o), NEW f \in ToSet(streams)
    PROVE  Pieces(f)' = Append(Pieces(f), o)
  <1>0. f \in Follower
    BY Types DEF Typed
  <1>1. /\ txcount \in Nat /\ pushq \in Seq(Waiting(txcount)) /\ txcount + 1 \in Nat
        /\ streams \in Seq(Follower) /\ IsInjective(streams)
        /\ inflight \in Seq(Op)
        /\ DOMAIN pushq = 1 .. Len(pushq) /\ Len(pushq) \in Nat
    BY DEF TypeOK, LeaderOK, ChangesOK
  <1>2. inflight' # inflight
    <2>1. inflight' = Append(inflight, o)
      BY DEF Counts
    <2> QED BY <1>1, <2>1
  <1>3. pushq' = Broadcast(pushq, streams, Tx(o, txcount + 1))
    BY <1>2, CommitPushes DEF Counts
  <1>4. pushq \in Seq(Waiting(txcount + 1)) /\ Tx(o, txcount + 1) \in Message(txcount + 1)
    BY <1>1, MessageGrows, MessageMade
  <1>5. /\ Enqueued(ToSet(streams), Tx(o, txcount + 1))
        /\ \E i \in DOMAIN pushq' \ DOMAIN pushq : pushq'[i].to = f
        /\ \A i, k \in DOMAIN pushq' \ DOMAIN pushq : i # k => pushq'[i].to # pushq'[k].to
    BY <1>1, <1>3, <1>4, EnqueuedAll
  <1>6. PICK d \in DOMAIN pushq' \ DOMAIN pushq : pushq'[d].to = f
    BY <1>5
  <1>7. txcount' \in Nat /\ pushq' \in Seq(Waiting(txcount')) /\ DOMAIN pushq' = 1 .. Len(pushq')
    BY DEF TypeOK, LeaderOK, ChangesOK
  <1>8. Tx(o, txcount + 1).kind = "tx" /\ Tx(o, txcount + 1).op = o
    BY DEF Tx
  <1>9. /\ Len(pushq') \in Nat
        /\ \A i : i \in Len(pushq) + 1 .. Len(pushq') <=> i \in DOMAIN pushq' \ DOMAIN pushq
    <2>1. Len(pushq') \in Nat
      BY <1>7
    <2> QED BY <1>1, <1>7, <2>1
  <1>10. /\ Bound(pushq'[d], f) /\ pushq'[d].msg.op = o
         /\ \A i \in DOMAIN pushq' \ DOMAIN pushq : Bound(pushq'[i], f) <=> i = d
    BY <1>5, <1>6, <1>8 DEF Enqueued, Bound
  <1>11. Extends(pushq', pushq, f)
    <2>1. \A i \in 1 .. Len(pushq) : pushq'[i] = pushq[i]
      BY <1>1, <1>5 DEF Enqueued
    <2>2. Len(pushq) <= Len(pushq')
      BY <1>1, <1>6, <1>7, <1>9
    <2> QED BY <2>1, <2>2 DEF Extends
  <1>12. Waits(pushq', f) = Append(Waits(pushq, f), o)
    <2>1. d \in Len(pushq) + 1 .. Len(pushq')
      BY <1>6, <1>9
    <2>2. \A i \in Len(pushq) + 1 .. Len(pushq') : Bound(pushq'[i], f) <=> i = d
      BY <1>9, <1>10
    <2>3. Waits(pushq', f) = Append(Waits(pushq, f), pushq'[d].msg.op)
      <3>1. txcount \in Nat /\ pushq \in Seq(Waiting(txcount))
        BY <1>1
      <3>2. txcount' \in Nat /\ pushq' \in Seq(Waiting(txcount'))
        BY <1>7
      <3> QED BY ONLY <3>1, <3>2, <1>11, <2>1, <2>2, WaitsMore
    <2> QED BY <1>10, <2>3
  <1>13. UNCHANGED <<chan, fdb>>
    BY DEF Counts, Commit, followervars, netvars
  <1>14. Has(f)' = Has(f) /\ Changes(chan'[f]) = Changes(chan[f])
    BY <1>13 DEF Has, DbFirst
  <1>15. Pieces(f)' = (Has(f) \o Changes(chan[f])) \o Append(Waits(pushq, f), o)
    BY <1>12, <1>14, PiecesNext
  <1>16. /\ Has(f) \o Changes(chan[f]) \in Seq(Op) /\ Waits(pushq, f) \in Seq(Op)
    BY <1>0, PiecesListed, Joined
  <1> QED BY <1>15, <1>16, Moved DEF Pieces

\* A push moves its change from the pushes to the connection.
LEMMA PiecesPushed ==
    ASSUME TypeOK, TypeOK', Openings, Push, NEW f \in Follower
    PROVE  /\ Has(f)' = Has(f)
           /\ relay[f] = "live" => Pieces(f)' = Pieces(f)
  <1>0. Typed
    BY Types
  <1>1. /\ txcount \in Nat /\ pushq \in Seq(Waiting(txcount)) /\ pushq # <<>>
        /\ chan[f] \in Seq(Message(txcount)) /\ Head(pushq) = pushq[1] /\ 1 \in DOMAIN pushq
        /\ Has(f) \in Seq(Op) /\ Changes(chan[f]) \in Seq(Op)
    BY PiecesListed DEF Push
  <1>2. /\ UNCHANGED fdb /\ pushq' = Tail(pushq)
        /\ chan' = IF Writes(pushq[1])
                   THEN [chan EXCEPT ![pushq[1].to] = Append(@, pushq[1].msg)] ELSE chan
    BY <1>1 DEF Push, followervars
  <1>3. pushq[1].to \in Follower /\ pushq[1].msg \in Message(txcount)
    BY <1>0, <1>1 DEF Typed
  <1>4. \/ chan'[f] = chan[f] /\ ~(pushq[1].to = f /\ Writes(pushq[1]))
        \/ /\ chan'[f] = Append(chan[f], pushq[1].msg)
           /\ pushq[1].to = f /\ Writes(pushq[1])
    BY <1>0, <1>2, <1>3 DEF Typed
  <1>5. pushq[1].msg.kind # "db"
    BY <1>1 DEF Openings, NoDumps
  <1>6. Has(f)' = Has(f)
    <2>0. fdb'[f] = fdb[f]
      BY <1>2
    <2>1. CASE chan'[f] = chan[f]
      BY <2>0, <2>1 DEF Has, DbFirst
    <2>2. CASE chan'[f] = Append(chan[f], pushq[1].msg)
      <3>1. CASE chan[f] = <<>>
        <4>1. chan'[f][1] = pushq[1].msg
          BY <1>1, <2>2, <3>1
        <4> QED BY <2>0, <1>5, <3>1, <4>1 DEF Has, DbFirst
      <3>2. CASE chan[f] # <<>>
        <4>1. chan[f] \in Seq(Message(txcount)) /\ pushq[1].msg \in Message(txcount)
          BY <1>1, <1>3
        <4>2. chan'[f] # <<>> /\ chan'[f][1] = chan[f][1]
          BY ONLY <2>2, <3>2, <4>1
        <4> QED BY <2>0, <3>2, <4>2 DEF Has, DbFirst
      <3> QED BY <3>1, <3>2
    <2> QED BY <1>4, <2>1, <2>2
  <1>7. Waits(pushq, f) = IF Bound(pushq[1], f) THEN <<pushq[1].msg.op>> \o Waits(pushq', f)
                          ELSE Waits(pushq', f)
    BY <1>1, <1>2, WaitsFirst
  <1>8. Waits(pushq', f) \in Seq(Op)
    <2>1. txcount' \in Nat /\ pushq' \in Seq(Waiting(txcount'))
      BY DEF TypeOK, LeaderOK, ChangesOK
    <2> QED BY <2>1, WaitsList
  <1>9. Pieces(f)' = (Has(f) \o Changes(chan'[f])) \o Waits(pushq', f)
    BY <1>6, PiecesNext
  <1>10. ASSUME relay[f] = "live", Bound(pushq[1], f) PROVE Pieces(f)' = Pieces(f)
    <2> DEFINE o == pushq[1].msg.op
               a == Has(f)
               b == Changes(chan[f])
               c == Waits(pushq', f)
    <2>1. pushq[1].msg.kind = "tx" /\ o \in Op /\ Writes(pushq[1]) /\ pushq[1].to = f
      BY <1>1, <1>3, <1>10, MessageKinds DEF Bound, Writes
    <2>2. chan'[f] = Append(chan[f], pushq[1].msg)
      BY <1>4, <2>1
    <2>3. Changes(chan'[f]) = Append(b, o)
      BY <1>1, <1>3, <2>1, <2>2, ChangesAppend
    <2>4. Waits(pushq, f) = <<o>> \o c
      BY <1>7, <1>10
    <2>5. Pieces(f)' = (a \o Append(b, o)) \o c /\ Pieces(f) = (a \o b) \o (<<o>> \o c)
      BY <1>9, <2>3, <2>4 DEF Pieces
    <2> HIDE DEF a, b, c, o
    <2>6. a \in Seq(Op) /\ b \in Seq(Op) /\ c \in Seq(Op) /\ o \in Op /\ a \o b \in Seq(Op)
      BY <1>1, <1>8, <2>1, Joined DEF a, b, c
    <2>7. a \o Append(b, o) = Append(a \o b, o)
      BY <2>6, Moved
    <2>8. Append(a \o b, o) \o c = (a \o b) \o (<<o>> \o c)
      <3> DEFINE t == a \o b
      <3>1. t \in Seq(Op) /\ c \in Seq(Op) /\ o \in Op
        BY <2>6
      <3> HIDE DEF t
      <3>2. Append(t, o) \o c = t \o (<<o>> \o c)
        BY ONLY <3>1, Moved
      <3> QED BY <3>2 DEF t
    <2> QED BY <2>5, <2>7, <2>8
  <1>11. ASSUME ~Bound(pushq[1], f) PROVE Pieces(f)' = Pieces(f)
    <2>1. Waits(pushq', f) = Waits(pushq, f)
      BY <1>7, <1>11
    <2>2. Changes(chan'[f]) = Changes(chan[f])
      <3>1. CASE chan'[f] = chan[f]
        BY <3>1
      <3>2. CASE /\ chan'[f] = Append(chan[f], pushq[1].msg)
                 /\ pushq[1].to = f /\ Writes(pushq[1])
        <4>1. pushq[1].msg.kind # "tx"
          BY <1>11, <3>2 DEF Bound, Writes
        <4> QED BY <1>1, <1>3, <3>2, <4>1, ChangesAppend
      <3> QED BY <1>4, <3>1, <3>2
    <2> QED BY <1>9, <2>1, <2>2 DEF Pieces
  <1> QED BY <1>6, <1>10, <1>11

\* What is read moves from the connection to the database.
LEMMA PiecesRead ==
    ASSUME TypeOK, TypeOK', Openings, NEW f \in Follower, Receive(f),
           Head(chan[f]).kind # "newleader"
    PROVE  /\ Pieces(f)' = Pieces(f)
           /\ joinpc[f] = "sent" => Has(f)' = Has(f)
  <1>0. Shaped /\ OpeningAt(f)
    BY Shapes DEF Openings
  <1>1. /\ chan[f] \in Seq(Message(txcount)) /\ chan[f] # <<>> /\ Head(chan[f]) = chan[f][1]
        /\ txcount \in Nat /\ fdb[f] \in Seq(Op) /\ chan[f][1] \in Message(txcount)
        /\ Waits(pushq, f) \in Seq(Op)
    BY PiecesListed DEF Receive
  <1> DEFINE m == chan[f][1]
             t == Tail(chan[f])
  <1>2. /\ UNCHANGED pushq /\ chan' = [chan EXCEPT ![f] = t]
        /\ fdb' = IF m.kind = "db" THEN [fdb EXCEPT ![f] = m.db]
                  ELSE IF m.kind = "tx" THEN [fdb EXCEPT ![f] = Append(@, m.op)] ELSE fdb
    BY <1>1 DEF Receive
  <1>3. /\ chan'[f] = t
        /\ fdb'[f] = IF m.kind = "db" THEN m.db
                     ELSE IF m.kind = "tx" THEN Append(fdb[f], m.op) ELSE fdb[f]
    BY <1>0, <1>2 DEF Shaped
  <1>4. t \in Seq(Message(txcount))
    BY <1>1
  <1>5. Changes(t) \in Seq(Op) /\ Changes(chan[f]) = IF m.kind = "tx" THEN <<m.op>> \o Changes(t)
                                                    ELSE Changes(t)
    BY <1>1, <1>4, ChangesList, ChangesFirst
  <1>6. ~DbFirst(f)'
    <2>1. ASSUME t # <<>> PROVE t[1].kind # "db"
      <3>1. t[1] = chan[f][2] /\ 2 \in DOMAIN chan[f]
        BY <1>1, <2>1
      <3> QED BY <1>0, <3>1 DEF OpeningAt
    <2> QED BY <1>3, <2>1 DEF DbFirst
  <1>7. Has(f)' = fdb'[f] /\ Has(f) = IF m.kind = "db" THEN m.db ELSE fdb[f]
    BY <1>1, <1>6 DEF Has, DbFirst
  <1>8. Waits(pushq', f) = Waits(pushq, f)
    BY <1>2
  <1>9. Pieces(f)' = (fdb'[f] \o Changes(t)) \o Waits(pushq, f)
    BY <1>3, <1>7, <1>8, PiecesNext
  <1>10. m.kind = "tx" => m.op \in Op
    BY <1>1, MessageKinds
  <1>11. joinpc[f] = "sent" => m.kind = "db"
    <2>1. 1 \in DOMAIN chan[f]
      BY <1>1
    <2> QED BY <1>0, <2>1 DEF OpeningAt
  <1> HIDE DEF m, t
  <1>12. fdb'[f] \o Changes(t) = Has(f) \o Changes(chan[f])
    <2>1. CASE m.kind = "tx"
      <3>1. Append(fdb[f], m.op) \o Changes(t) = fdb[f] \o (<<m.op>> \o Changes(t))
        <4> DEFINE a == fdb[f]
                   b == Changes(t)
                   x == m.op
        <4>1. a \in Seq(Op) /\ b \in Seq(Op) /\ x \in Op
          BY <1>1, <1>5, <1>10, <2>1
        <4> HIDE DEF a, b, x
        <4>2. Append(a, x) \o b = a \o (<<x>> \o b)
          BY ONLY <4>1, Moved
        <4> QED BY <4>2 DEF a, b, x
      <3> QED BY <1>3, <1>5, <1>7, <2>1, <3>1
    <2>2. CASE m.kind # "tx"
      BY <1>3, <1>5, <1>7, <2>2
    <2> QED BY <2>1, <2>2
  <1> QED BY <1>3, <1>7, <1>9, <1>11, <1>12 DEF Pieces

\* When f is registered there is nothing on its way but its dump.
LEMMA PiecesRegistered ==
    ASSUME TypeOK, TypeOK', [Next]_vars, Openings, NEW f \in Follower, JoinRegister(f)
    PROVE  Pieces(f)' = Has(f)
  <1>0. Shaped /\ OpeningAt(f)
    BY Shapes DEF Openings
  <1>1. /\ joinpc[f] = "sent" /\ relay[f] = "none" /\ UNCHANGED <<chan, fdb>>
    BY DEF JoinRegister, followervars, netvars
  <1>2. /\ txcount \in Nat /\ chan[f] \in Seq(Message(txcount)) /\ Has(f) \in Seq(Op)
        /\ DOMAIN pushq = 1 .. Len(pushq) /\ Len(pushq) \in Nat
    BY PiecesListed
  <1>3. Changes(chan[f]) = <<>>
    <2>1. \A j \in DOMAIN chan[f] : chan[f][j].kind # "tx"
      BY <1>0, <1>1 DEF OpeningAt
    <2> QED BY <1>2, <2>1, ChangesList
  <1>4. \A i \in DOMAIN pushq' : ~Bound(pushq'[i], f)
    <2>1. \A i \in DOMAIN pushq : ~Bound(pushq[i], f)
      BY <1>0, <1>1 DEF OpeningAt
    <2>2. Enqueued(ToSet(streams'), Quorum(hasquorum', f)) /\ Quorum(hasquorum', f).kind = "quorum"
      BY RegisterPushes DEF Quorum
    <2> QED BY <2>1, <2>2 DEF Enqueued, Bound
  <1>5. Waits(pushq', f) = <<>>
    <2>1. txcount' \in Nat /\ pushq' \in Seq(Waiting(txcount'))
      BY DEF TypeOK, LeaderOK, ChangesOK
    <2> QED BY <1>4, <2>1, WaitsNone
  <1>6. Has(f)' = Has(f) /\ Changes(chan'[f]) = Changes(chan[f])
    BY <1>1 DEF Has, DbFirst
  <1>7. Pieces(f)' = (Has(f) \o <<>>) \o <<>>
    BY <1>3, <1>5, <1>6, PiecesNext
  <1> QED BY <1>2, <1>7, Joined

\* No step costs a follower a change, a duplicate or an inversion: a change is
\* added at the end of the log and of the pieces, and every other step moves a
\* change between neighbouring pieces or leaves them alone.
LEMMA AgreesKept ==
    ASSUME TypeOK, TypeOK', Alive, Openings, Agrees, [Next]_vars
    PROVE  Agrees'
  <1>0. Typed /\ Shaped
    BY Types, Shapes
  <1> SUFFICES ASSUME NEW f \in Follower, ~raced'[f] PROVE AgreesAt(f)'
    BY DEF Agrees
  <1>1. /\ OpeningAt(f) /\ (relay[f] = "live" => ~broken[f] /\ joinpc[f] = "none")
        /\ (~raced[f] => AgreesAt(f))
    BY DEF Openings, Alive, Agrees
  <1>2. /\ txcount \in Nat /\ pushq \in Seq(Waiting(txcount))
        /\ chan[f] \in Seq(Message(txcount))
        /\ ldb \in Seq(Op) /\ inflight \in Seq(Op) /\ fdb[f] \in Seq(Op)
        /\ Has(f) \in Seq(Op)
    BY PiecesListed
  <1>3. ASSUME MarkRaced PROVE ~raced[f] /\ joinpc[f] = "none"
    BY <1>3 DEF MarkRaced, Racing
  <1>4. ASSUME joinpc'[f] = "none",
               relay'[f] = "live" /\ f \in ToSet(streams') => Pieces(f)' = ldb' \o inflight'
        PROVE  AgreesAt(f)'
    BY <1>4, Zenon DEF AgreesAt
  <1>5. ASSUME ~raced[f], joinpc'[f] = joinpc[f], snap'[f] = snap[f], UNCHANGED <<ldb, inflight>>,
               joinpc'[f] = "sent" /\ ~broken'[f] => Has(f)' = Has(f) /\ ~broken[f],
               relay'[f] = "live" /\ f \in ToSet(streams') =>
                   Pieces(f)' = Pieces(f) /\ relay[f] = "live" /\ f \in ToSet(streams)
        PROVE  AgreesAt(f)'
    <2>1. AgreesAt(f)
      BY <1>1, <1>5
    <2> QED BY <1>5, <2>1, Zenon DEF AgreesAt
  <1>6. CASE Untouched(f) /\ ~Touched(f)
    <2>1. ~Push /\ \A o \in Op : ~Counts(o)
      BY <1>6 DEF Touched
    <2>2. /\ joinpc'[f] = joinpc[f] /\ snap'[f] = snap[f] /\ UNCHANGED <<ldb, inflight>>
          /\ chan'[f] = chan[f] /\ fdb'[f] = fdb[f]
          /\ raced'[f] = raced[f]
          /\ f \in ToSet(streams') => f \in ToSet(streams)
      BY <1>6 DEF Untouched
    <2>3. /\ broken[f] => broken'[f]
          /\ relay'[f] = "live" => relay[f] = "live"
      BY <1>6 DEF Untouched
    <2>4. Has(f)' = Has(f)
      BY <2>2 DEF Has, DbFirst
    <2>5. relay'[f] = "live" => ~RelayEnd(f)
      <3>1. ASSUME RelayEnd(f) PROVE relay'[f] # "live"
        <4>1. \E r \in {"none", "ending"} : relay' = [relay EXCEPT ![f] = r]
          BY <3>1 DEF RelayEnd
        <4> QED BY <1>0, <4>1 DEF Shaped
      <3> QED BY <3>1
    <2>6. relay'[f] = "live" => Pieces(f)' = Pieces(f)
      BY <2>1, <2>2, <2>5, PiecesStill
    <2> QED BY <1>5, <2>2, <2>3, <2>4, <2>6
  <1>7. ASSUME NEW o \in Op, Submit(o), ~dead, streams = <<>> PROVE AgreesAt(f)'
    <2>1. MarkRaced /\ UNCHANGED <<streams, joinpc>>
      BY <1>7 DEF Submit
    <2>2. joinpc'[f] = "none"
      BY <1>3, <2>1
    <2>3. f \notin ToSet(streams')
      BY <1>7, <2>1, EmptyList
    <2> QED BY <1>4, <2>2, <2>3
  <1>8. ASSUME NEW o \in Op, Counts(o) PROVE AgreesAt(f)'
    <2>1. inflight' = Append(inflight, o) /\ inflight' # inflight
      BY <1>2, <1>8 DEF Counts
    <2>2. MarkRaced
      BY <1>8, <2>1, CommitPushes DEF Counts
    <2>3. UNCHANGED <<streams, joinpc, ldb, relay>>
      BY <1>8 DEF Counts, Commit
    <2>4. AgreesAt(f) /\ joinpc'[f] = "none"
      BY <1>1, <1>3, <2>2, <2>3
    <2>5. ASSUME relay'[f] = "live", f \in ToSet(streams') PROVE Pieces(f)' = ldb' \o inflight'
      <3>1. f \in ToSet(streams) /\ relay[f] = "live"
        BY <2>3, <2>5
      <3>2. Pieces(f)' = Append(Pieces(f), o)
        BY <1>8, <3>1, PiecesCounted
      <3>3. Pieces(f) = ldb \o inflight
        BY <2>4, <3>1 DEF AgreesAt
      <3>4. ldb \o Append(inflight, o) = Append(ldb \o inflight, o)
        BY <1>2, Moved
      <3> QED BY <2>1, <2>3, <3>2, <3>3, <3>4
    <2> QED BY <1>4, <2>4, <2>5
  <1>9. CASE Push
    <2>1. UNCHANGED <<ldb, inflight, joinpc, snap, raced, broken, relay>>
      BY <1>9 DEF Push, joinvars
    <2>2. Has(f)' = Has(f) /\ (relay[f] = "live" => Pieces(f)' = Pieces(f))
      BY <1>9, PiecesPushed
    <2>3. f \in ToSet(streams') => f \in ToSet(streams)
      <3>1. Head(pushq).to \in Follower
        <4>1. Head(pushq) \in Waiting(txcount)
          BY <1>2, <1>9 DEF Push
        <4> QED BY <4>1 DEF Waiting
      <3>2. streams' = streams \/ streams' = RemoveFirst(streams, Head(pushq).to)
        BY <1>9 DEF Push
      <3> QED BY <3>1, <3>2, Unregistered DEF TypeOK, LeaderOK
    <2> QED BY <1>5, <2>1, <2>2, <2>3
  <1>10. CASE Apply /\ ~Push /\ \A o \in Op : ~Counts(o)
    <2>1. /\ MarkRaced /\ UNCHANGED <<streams, joinpc, relay, chan, fdb>>
          /\ inflight # <<>> /\ ldb' = Append(ldb, Head(inflight)) /\ inflight' = Tail(inflight)
      BY <1>10 DEF Apply, followervars, netvars
    <2>2. AgreesAt(f) /\ joinpc'[f] = "none"
      BY <1>1, <1>3, <2>1
    <2>3. ASSUME relay'[f] = "live", f \in ToSet(streams') PROVE Pieces(f)' = ldb' \o inflight'
      <3>1. f \in ToSet(streams) /\ relay[f] = "live"
        BY <2>1, <2>3
      <3>2. ~RelayEnd(f)
        <4>1. ASSUME RelayEnd(f) PROVE FALSE
          <5>1. \E r \in {"none", "ending"} : relay' = [relay EXCEPT ![f] = r]
            BY <4>1 DEF RelayEnd
          <5> QED BY <1>0, <2>3, <5>1 DEF Shaped
        <4> QED BY <4>1
      <3>3. Pieces(f)' = Pieces(f)
        BY <1>10, <2>1, <3>2, PiecesStill
      <3>4. Pieces(f) = ldb \o inflight
        BY <2>2, <3>1 DEF AgreesAt
      <3> DEFINE h == Head(inflight)
                 t == Tail(inflight)
      <3>5. h \in Op /\ t \in Seq(Op) /\ inflight = <<h>> \o t
        BY <1>2, <2>1, Joined
      <3> HIDE DEF h, t
      <3>6. Append(ldb, h) \o t = ldb \o (<<h>> \o t)
        <4>1. ldb \in Seq(Op) /\ h \in Op /\ t \in Seq(Op)
          BY <1>2, <3>5
        <4> QED BY ONLY <4>1, Moved
      <3> QED BY <2>1, <3>3, <3>4, <3>5, <3>6 DEF h, t
    <2> QED BY <1>4, <2>2, <2>3
  <1>11. ASSUME NEW n \in 0 .. Len(ldb), JoinDump(f, n) PROVE AgreesAt(f)'
    <2>1. /\ broken[f] /\ joinpc' = [joinpc EXCEPT ![f] = "dumped"]
          /\ snap' = [snap EXCEPT ![f] = SubSeq(ldb, 1, n)]
          /\ raced' = [raced EXCEPT ![f] = n < Len(ldb) \/ inflight # <<>>]
          /\ UNCHANGED <<ldb, inflight, relay>>
      BY <1>11 DEF JoinDump, leadervars, opvars
    <2>2. joinpc'[f] = "dumped" /\ snap'[f] = SubSeq(ldb, 1, n)
          /\ raced'[f] = (n < Len(ldb) \/ inflight # <<>>)
      BY <1>0, <2>1 DEF Shaped
    <2>3. n = Len(ldb) /\ inflight' = <<>>
      <3>1. ~(n < Len(ldb)) /\ inflight = <<>>
        BY <2>2, Zenon
      <3>2. Len(ldb) \in Nat
        BY <1>2
      <3> QED BY <2>1, <3>1, <3>2
    <2>4. snap'[f] = ldb'
      <3>1. SubSeq(ldb, 1, Len(ldb)) = ldb
        BY <1>2
      <3> QED BY <2>1, <2>2, <2>3, <3>1
    <2>5. relay'[f] # "live"
      BY <1>1, <2>1
    <2> QED BY <2>2, <2>3, <2>4, <2>5, Zenon DEF AgreesAt
  <1>12. CASE JoinSend(f)
    <2>1. /\ joinpc[f] = "dumped" /\ joinpc' = [joinpc EXCEPT ![f] = "sent"]
          /\ chan' = IF broken[f] THEN chan
                     ELSE [chan EXCEPT ![f] = <<Db(snap[f], txcount)>>]
          /\ UNCHANGED <<ldb, inflight, relay, raced, broken>>
      BY <1>12 DEF JoinSend, leadervars, opvars
    <2>2. AgreesAt(f) /\ joinpc'[f] = "sent"
      BY <1>0, <1>1, <2>1 DEF Shaped
    <2>3. inflight' = <<>> /\ snap[f] = ldb'
      BY <2>1, <2>2 DEF AgreesAt
    <2>4. ~broken'[f] => Has(f)' = ldb'
      <3>1. ~broken'[f] => chan'[f] = <<Db(snap[f], txcount)>>
        BY <1>0, <2>1 DEF Shaped
      <3>2. ~broken'[f] => chan'[f] # <<>> /\ chan'[f][1].kind = "db" /\ chan'[f][1].db = snap[f]
        BY <3>1 DEF Db
      <3> QED BY <2>3, <3>2 DEF Has, DbFirst
    <2>5. relay'[f] # "live"
      BY <1>1, <2>1
    <2> QED BY <2>2, <2>3, <2>4, <2>5, Zenon DEF AgreesAt
  <1>13. CASE JoinRegister(f)
    <2>1. /\ joinpc[f] = "sent" /\ joinpc' = [joinpc EXCEPT ![f] = "none"]
          /\ relay' = [relay EXCEPT ![f] = IF broken[f] THEN "broken" ELSE "live"]
          /\ UNCHANGED <<ldb, inflight, raced>>
      BY <1>13 DEF JoinRegister
    <2>2. joinpc'[f] = "none" /\ (relay'[f] = "live" => ~broken[f]) /\ AgreesAt(f)
      BY <1>0, <1>1, <2>1 DEF Shaped
    <2>3. inflight = <<>> /\ (~broken[f] => Has(f) = ldb)
      BY <2>1, <2>2 DEF AgreesAt
    <2>4. Pieces(f)' = Has(f)
      BY <1>13, PiecesRegistered
    <2>5. ldb \o <<>> = ldb
      BY <1>2, Joined
    <2> QED BY <1>4, <2>1, <2>2, <2>3, <2>4, <2>5
  <1>14. CASE Receive(f)
    <2>1. UNCHANGED <<ldb, inflight, streams, joinpc, snap, raced>>
      BY <1>14 DEF Receive, joinvars
    <2>2. CASE Head(chan[f]).kind # "newleader"
      <3>1. relay' = relay /\ broken' = [broken EXCEPT ![f] = @ \/ FALSE]
        BY <1>14, <2>2 DEF Receive
      <3>2. relay'[f] = relay[f] /\ broken'[f] = broken[f]
        BY <1>0, <3>1 DEF Shaped
      <3>3. Pieces(f)' = Pieces(f) /\ (joinpc[f] = "sent" => Has(f)' = Has(f))
        BY <1>14, <2>2, PiecesRead
      <3> QED BY <1>5, <2>1, <3>2, <3>3
    <2>3. CASE Head(chan[f]).kind = "newleader"
      <3>1. /\ broken' = [broken EXCEPT ![f] = @ \/ TRUE]
            /\ relay' = IF relay[f] = "live" THEN [relay EXCEPT ![f] = "broken"] ELSE relay
        BY <1>14, <2>3 DEF Receive
      <3>2. broken'[f] /\ relay'[f] # "live"
        BY <1>0, <3>1 DEF Shaped
      <3> QED BY <1>5, <2>1, <3>2
    <2> QED BY <2>2, <2>3
  <1>15. CASE StopFollowing(f)
    <2>1. UNCHANGED <<ldb, inflight, streams, joinpc, snap, raced, relay, broken>> /\ broken[f]
      BY <1>15 DEF StopFollowing, leadervars, opvars, joinvars
    <2>2. relay'[f] # "live"
      BY <1>1, <2>1
    <2> QED BY <1>5, <2>1, <2>2
  <1>16. CASE Touched(f)
    BY <1>7, <1>8, <1>9, <1>10, <1>11, <1>12, <1>13, <1>14, <1>15, <1>16 DEF Touched
  <1> QED BY <1>6, <1>16, Touches

\* The inductive invariant behind ReplicaAgrees.
ReplicaInv == TypeOK /\ Alive /\ Openings /\ Agrees

\* Nothing is registered, joining or pushed initially.
LEMMA InitReplica == Init => ReplicaInv
  <1>1. Init => Alive
    BY DEF Init, Alive
  <1>2. Init => Openings
    BY DEF Init, Openings, OpeningAt, NoDumps, DbFirst
  <1>3. Init => Agrees
    BY DEF Init, Agrees, AgreesAt
  <1> QED BY <1>1, <1>2, <1>3, InitTypes DEF ReplicaInv

\* exec_on_followers keeps every registered follower exact, whoever else is
\* lost, joins or retires meanwhile: database, connection and waiting pushes of
\* a follower that joined while nothing changed are the log of the leader.
THEOREM ReplicaAgreesCorrect == Spec => []ReplicaAgrees
  <1>1. ReplicaInv /\ [Next]_vars => ReplicaInv'
    BY TypeStep, AliveKept, OpeningsKept, AgreesKept DEF ReplicaInv
  <1>2. ReplicaInv => ReplicaAgrees
    <2> SUFFICES ASSUME ReplicaInv, NEW f \in ToSet(streams), relay[f] = "live",
                        following[f], ~raced[f]
                 PROVE  fdb[f] \o Changes(chan[f]) \o QueuedChanges(f) = ldb \o inflight
      BY DEF ReplicaAgrees
    <2>1. f \in Follower
      BY Types DEF ReplicaInv, Typed
    <2>2. AgreesAt(f) /\ OpeningAt(f)
      BY <2>1 DEF ReplicaInv, Agrees, Openings
    <2>3. Pieces(f) = ldb \o inflight /\ Has(f) = fdb[f]
      BY <2>2 DEF AgreesAt, OpeningAt, Has
    <2>4. QueuedChanges(f) = Waits(pushq, f)
      BY QueuedWaits
    <2> QED BY <2>3, <2>4 DEF Pieces
  <1> QED BY <1>1, <1>2, InitReplica, PTL DEF Spec

-----------------------------------------------------------------------------
(* The transaction count of a follower.                                    *)

\* The last count that f gets, or has, is the leader's: it waits in a push, is
\* on its way, or has been read.
LastQueued(f) ==
    \E i \in DOMAIN pushq :
        /\ Bound(pushq[i], f) /\ pushq[i].msg.txcount = txcount
        /\ \A k \in DOMAIN pushq : i < k => ~Bound(pushq[k], f)
LastOnWay(f) ==
    \E j \in DOMAIN chan[f] :
        /\ chan[f][j].kind \in {"db", "tx"} /\ chan[f][j].txcount = txcount
        /\ \A k \in DOMAIN chan[f] : j < k => chan[f][k].kind # "tx"
LastCounted(f) ==
    /\ \A j \in DOMAIN chan[f] : chan[f][j].kind \notin {"db", "tx"}
    /\ ftx[f] = txcount
Informed(f) == LastOnWay(f) \/ LastCounted(f)
Unbound(f) == \A i \in DOMAIN pushq : ~Bound(pushq[i], f)
Coming(f) == LastQueued(f) \/ (Unbound(f) /\ Informed(f))
CountAt(f) ==
    /\ joinpc[f] = "sent" /\ ~broken[f] => Informed(f)
    /\ relay[f] = "live" /\ f \in ToSet(streams) => Coming(f)
CountsLast == \A f \in Follower : ~raced[f] => CountAt(f)

\* A step that reads nothing and sends f nothing leaves its count.
LEMMA InformedStill ==
    ASSUME NEW f, chan'[f] = chan[f], ftx'[f] = ftx[f], txcount' = txcount
    PROVE  Informed(f)' <=> Informed(f)
  BY DEF Informed, LastOnWay, LastCounted

\* A step that makes no push for f and adds none leaves what waits for it.
LEMMA QueuedStill ==
    ASSUME TypeOK, TypeOK', [Next]_vars, ~Push, \A o \in Op : ~Counts(o),
           NEW f \in Follower, txcount' = txcount, ~RelayEnd(f)
    PROVE  /\ LastQueued(f) => LastQueued(f)'
           /\ Unbound(f) => Unbound(f)'
  <1>1. /\ DOMAIN pushq = 1 .. Len(pushq) /\ Len(pushq) \in Nat
        /\ DOMAIN pushq' = 1 .. Len(pushq') /\ Len(pushq') \in Nat
    BY DEF TypeOK, ChangesOK
  <1>2. /\ \A i \in DOMAIN pushq' : Bound(pushq'[i], f) =>
               i \in DOMAIN pushq /\ Bound(pushq[i], f) /\ pushq'[i].msg = pushq[i].msg
        /\ Extends(pushq', pushq, f)
    BY PushesStill
  <1>3. \A i \in DOMAIN pushq : /\ i \in DOMAIN pushq'
                                /\ Bound(pushq'[i], f) <=> Bound(pushq[i], f)
                                /\ pushq'[i].msg = pushq[i].msg
    BY <1>1, <1>2 DEF Extends
  <1>4. ASSUME LastQueued(f) PROVE LastQueued(f)'
    <2>1. PICK i \in DOMAIN pushq :
             /\ Bound(pushq[i], f) /\ pushq[i].msg.txcount = txcount
             /\ \A k \in DOMAIN pushq : i < k => ~Bound(pushq[k], f)
      BY <1>4 DEF LastQueued
    <2>2. /\ i \in DOMAIN pushq' /\ Bound(pushq'[i], f) /\ pushq'[i].msg.txcount = txcount'
          /\ \A k \in DOMAIN pushq' : i < k => ~Bound(pushq'[k], f)
      BY <1>2, <1>3, <2>1
    <2> QED BY <2>2 DEF LastQueued, Bound
  <1>5. ASSUME Unbound(f) PROVE Unbound(f)'
    <2>1. \A i \in DOMAIN pushq' : ~Bound(pushq'[i], f)
      BY <1>2, <1>5 DEF Unbound
    <2> QED BY <2>1 DEF Unbound, Bound
  <1> QED BY <1>4, <1>5

\* A change that is counted comes last, with its count.
LEMMA QueuedCounted ==
    ASSUME TypeOK, TypeOK', NEW o \in Op, Counts(o), NEW f \in ToSet(streams)
    PROVE  LastQueued(f)'
  <1>1. /\ txcount \in Nat /\ pushq \in Seq(Waiting(txcount)) /\ txcount + 1 \in Nat
        /\ streams \in Seq(Follower) /\ IsInjective(streams) /\ inflight \in Seq(Op)
        /\ DOMAIN pushq = 1 .. Len(pushq) /\ Len(pushq) \in Nat
        /\ DOMAIN pushq' = 1 .. Len(pushq')
    BY DEF TypeOK, LeaderOK, ChangesOK
  <1>2. inflight' # inflight
    <2>1. inflight' = Append(inflight, o)
      BY DEF Counts
    <2> QED BY <1>1, <2>1
  <1>3. pushq' = Broadcast(pushq, streams, Tx(o, txcount + 1))
    BY <1>2, CommitPushes DEF Counts
  <1>4. txcount' = txcount + 1
    BY <1>2 DEF Counts, Commit
  <1>5. pushq \in Seq(Waiting(txcount + 1)) /\ Tx(o, txcount + 1) \in Message(txcount + 1)
    BY <1>1, MessageGrows, MessageMade
  <1>6. /\ Enqueued(ToSet(streams), Tx(o, txcount + 1))
        /\ \E i \in DOMAIN pushq' \ DOMAIN pushq : pushq'[i].to = f
        /\ \A i, k \in DOMAIN pushq' \ DOMAIN pushq : i # k => pushq'[i].to # pushq'[k].to
    BY <1>1, <1>3, <1>5, EnqueuedAll
  <1>7. PICK d \in DOMAIN pushq' \ DOMAIN pushq : pushq'[d].to = f
    BY <1>6
  <1>8. Tx(o, txcount + 1).kind = "tx" /\ Tx(o, txcount + 1).txcount = txcount + 1
    BY DEF Tx
  <1>9. Bound(pushq'[d], f) /\ pushq'[d].msg.txcount = txcount' /\ d > Len(pushq)
    BY <1>4, <1>6, <1>7, <1>8 DEF Enqueued, Bound
  <1>10. ASSUME NEW k \in DOMAIN pushq', d < k PROVE ~Bound(pushq'[k], f)
    <2>1. k \in DOMAIN pushq' \ DOMAIN pushq /\ k # d
      BY <1>1, <1>7, <1>9, <1>10
    <2> QED BY <1>6, <1>7, <2>1 DEF Bound
  <1> QED BY <1>7, <1>9, <1>10 DEF LastQueued, Bound

\* A push takes its count to the connection.
LEMMA InformedPushed ==
    ASSUME TypeOK, TypeOK', Openings, NEW f \in Follower, relay[f] = "live", Push,
           Coming(f)
    PROVE  Coming(f)'
  <1>0. Typed /\ UNCHANGED <<txcount, ftx>>
    BY Types DEF Push, followervars
  <1>1. /\ 1 \in DOMAIN pushq /\ Head(pushq) = pushq[1]
        /\ \A i \in DOMAIN pushq' :
             i + 1 \in DOMAIN pushq /\ pushq'[i] = pushq[i + 1] /\ i \in Nat \ {0}
        /\ \A i \in DOMAIN pushq : /\ i \in Nat \ {0}
                                   /\ i # 1 => i - 1 \in DOMAIN pushq' /\ pushq'[i - 1] = pushq[i]
    BY DEF Push, TypeOK, ChangesOK
  <1>2. \/ ~(pushq[1].to = f /\ Writes(pushq[1])) /\ chan'[f] = chan[f]
        \/ /\ pushq[1].to = f /\ Writes(pushq[1])
           /\ chan'[f] = Append(chan[f], pushq[1].msg)
    <2>1. chan' = IF Writes(pushq[1])
                  THEN [chan EXCEPT ![pushq[1].to] = Append(@, pushq[1].msg)] ELSE chan
      BY <1>1 DEF Push
    <2>2. pushq[1].to \in Follower
      BY <1>0, <1>1 DEF Typed
    <2> QED BY <1>0, <2>1, <2>2 DEF Typed
  <1>3. /\ \A i \in DOMAIN pushq' : Bound(pushq'[i], f) => Bound(pushq[i + 1], f)
        /\ Bound(pushq[1], f) => /\ pushq[1].to = f /\ Writes(pushq[1])
                                 /\ chan'[f] = Append(chan[f], pushq[1].msg)
        /\ pushq[1].msg.kind # "db"
    BY <1>1, <1>2 DEF Bound, Writes, Openings, NoDumps
  <1>4. ASSUME \A i \in DOMAIN pushq : i # 1 => ~Bound(pushq[i], f)
        PROVE  Unbound(f)'
    <2>1. \A i \in DOMAIN pushq' : i + 1 \in DOMAIN pushq /\ i + 1 # 1
      BY <1>1
    <2>2. \A i \in DOMAIN pushq' : ~Bound(pushq'[i], f)
      BY <1>3, <1>4, <2>1
    <2> QED BY <2>2 DEF Unbound, Bound
  <1>5. ASSUME NEW i \in DOMAIN pushq, Bound(pushq[i], f), pushq[i].msg.txcount = txcount,
               \A k \in DOMAIN pushq : i < k => ~Bound(pushq[k], f), i # 1
        PROVE  LastQueued(f)'
    <2>1. i - 1 \in DOMAIN pushq' /\ pushq'[i - 1] = pushq[i]
      BY <1>1, <1>5
    <2>2. ASSUME NEW k \in DOMAIN pushq', i - 1 < k PROVE ~Bound(pushq'[k], f)
      <3>1. k + 1 \in DOMAIN pushq /\ i < k + 1
        BY <1>1, <1>5, <2>2
      <3> QED BY <1>3, <1>5, <3>1
    <2> QED BY <1>0, <1>5, <2>1, <2>2 DEF LastQueued, Bound
  <1>6. ASSUME Bound(pushq[1], f), pushq[1].msg.txcount = txcount,
               \A k \in DOMAIN pushq : 1 < k => ~Bound(pushq[k], f)
        PROVE  Unbound(f)' /\ Informed(f)'
    <2> DEFINE n == Len(chan[f]) + 1
    <2>1. DOMAIN chan'[f] = 1 .. n /\ chan'[f][n] = pushq[1].msg /\ n \in Nat
      BY <1>0, <1>3, <1>6 DEF Typed
    <2>2. n \in DOMAIN chan'[f] /\ \A k \in DOMAIN chan'[f] : ~(n < k)
      BY <1>0, <2>1 DEF Typed
    <2> HIDE DEF n
    <2>3. LastOnWay(f)'
      BY <1>0, <1>6, <2>1, <2>2 DEF LastOnWay, Bound
    <2>4. \A i \in DOMAIN pushq : i # 1 => ~Bound(pushq[i], f)
      BY <1>1, <1>6
    <2> QED BY <1>4, <2>3, <2>4 DEF Informed
  <1>7. ASSUME Unbound(f), Informed(f)
        PROVE  Unbound(f)' /\ Informed(f)'
    <2>1. Unbound(f)'
      BY <1>4, <1>7 DEF Unbound
    <2>2. CASE chan'[f] = chan[f]
      BY <1>0, <1>7, <2>1, <2>2, InformedStill
    <2>3. CASE /\ pushq[1].to = f /\ Writes(pushq[1])
               /\ chan'[f] = Append(chan[f], pushq[1].msg)
      <3>1. pushq[1].msg.kind \notin {"db", "tx"}
        BY <1>1, <1>3, <1>7, <2>3 DEF Unbound, Bound, Writes
      <3>2. /\ DOMAIN chan'[f] = 1 .. Len(chan[f]) + 1
            /\ chan'[f][Len(chan[f]) + 1] = pushq[1].msg
            /\ \A j \in DOMAIN chan[f] : j \in DOMAIN chan'[f] /\ chan'[f][j] = chan[f][j]
        BY <1>0, <2>3 DEF Typed
      <3>3. \A j \in DOMAIN chan'[f] : j \notin DOMAIN chan[f] =>
               chan'[f][j].kind \notin {"db", "tx"}
        <4>1. \A j \in DOMAIN chan'[f] : j \notin DOMAIN chan[f] => j = Len(chan[f]) + 1
          BY <1>0, <3>2 DEF Typed
        <4> QED BY <3>1, <3>2, <4>1
      <3>4. LastOnWay(f) => LastOnWay(f)'
        BY <1>0, <3>2, <3>3 DEF LastOnWay
      <3>5. LastCounted(f) => LastCounted(f)'
        BY <1>0, <3>2, <3>3 DEF LastCounted
      <3> QED BY <1>7, <2>1, <3>4, <3>5 DEF Informed
    <2> QED BY <1>2, <2>2, <2>3
  <1> QED BY <1>5, <1>6, <1>7 DEF LastQueued, Coming

\* A count that is read is kept.
LEMMA InformedRead ==
    ASSUME TypeOK, Openings, NEW f \in Follower, Informed(f), Receive(f),
           Head(chan[f]).kind # "newleader"
    PROVE  Informed(f)'
  <1>0. Shaped /\ OpeningAt(f)
    BY Shapes DEF Openings
  <1>1. chan[f] # <<>> /\ Head(chan[f]) = chan[f][1]
    BY DEF Receive, TypeOK, ConnectionsOK
  <1>2. /\ UNCHANGED txcount /\ chan'[f] = Tail(chan[f])
        /\ ftx'[f] = IF chan[f][1].kind \in {"db", "tx"} THEN chan[f][1].txcount ELSE ftx[f]
    <2>1. /\ UNCHANGED txcount /\ chan' = [chan EXCEPT ![f] = Tail(@)]
          /\ ftx' = IF chan[f][1].kind \in {"db", "tx"}
                    THEN [ftx EXCEPT ![f] = chan[f][1].txcount] ELSE ftx
      BY <1>1 DEF Receive
    <2> QED BY <1>0, <2>1 DEF Shaped
  <1>3. /\ 1 \in DOMAIN chan[f] /\ DOMAIN chan[f] = 1 .. Len(chan[f])
        /\ Len(chan[f]) \in Nat
        /\ \A j \in DOMAIN chan'[f] :
             j + 1 \in DOMAIN chan[f] /\ chan'[f][j] = chan[f][j + 1]
        /\ \A j \in DOMAIN chan[f] : j # 1 =>
             j - 1 \in DOMAIN chan'[f] /\ chan'[f][j - 1] = chan[f][j]
    BY <1>1, <1>2, Rest
  <1>4. \A j \in DOMAIN chan'[f] : j \in Nat \ {0}
    BY <1>2 DEF TypeOK, ConnectionsOK
  <1>5. ASSUME NEW j \in DOMAIN chan[f], chan[f][j].kind \in {"db", "tx"},
               chan[f][j].txcount = txcount,
               \A k \in DOMAIN chan[f] : j < k => chan[f][k].kind # "tx"
        PROVE  Informed(f)'
    <2>1. ASSUME NEW k \in DOMAIN chan'[f], j - 1 < k PROVE chan'[f][k].kind # "tx"
      <3>1. k + 1 \in DOMAIN chan[f] /\ j < k + 1 /\ chan'[f][k] = chan[f][k + 1]
        BY <1>3, <1>4, <2>1
      <3> QED BY <1>5, <3>1
    <2>2. CASE j = 1
      <3>1. \A k \in DOMAIN chan'[f] : chan'[f][k].kind # "tx"
        BY <1>4, <2>1, <2>2
      <3>2. \A k \in DOMAIN chan'[f] : chan'[f][k].kind # "db"
        <4>1. \A k \in DOMAIN chan'[f] : k + 1 # 1
          BY <1>4
        <4> QED BY <1>0, <1>3, <4>1 DEF OpeningAt
      <3>3. ftx'[f] = txcount'
        BY <1>2, <1>5, <2>2
      <3> QED BY <3>1, <3>2, <3>3 DEF LastCounted, Informed
    <2>3. CASE j # 1
      <3>1. j - 1 \in DOMAIN chan'[f] /\ chan'[f][j - 1] = chan[f][j]
        BY <1>3, <2>3
      <3>2. LastOnWay(f)'
        BY <1>2, <1>5, <2>1, <3>1 DEF LastOnWay
      <3> QED BY <3>2 DEF Informed
    <2> QED BY <2>2, <2>3
  <1>6. LastCounted(f) => LastCounted(f)'
    BY <1>2, <1>3 DEF LastCounted
  <1> QED BY <1>5, <1>6 DEF Informed, LastOnWay

\* No step makes a follower that joined while nothing changed miss the count.
LEMMA CountsKept ==
    ASSUME TypeOK, TypeOK', Alive, Openings, CountsLast, [Next]_vars
    PROVE  CountsLast'
  <1>0. Typed /\ Shaped
    BY Types, Shapes
  <1> SUFFICES ASSUME NEW f \in Follower, ~raced'[f] PROVE CountAt(f)'
    BY DEF CountsLast
  <1>1. /\ OpeningAt(f) /\ (relay[f] = "live" => ~broken[f] /\ joinpc[f] = "none")
        /\ (~raced[f] => CountAt(f))
    BY DEF Openings, Alive, CountsLast
  <1>2. ASSUME MarkRaced PROVE ~raced[f] /\ joinpc[f] = "none"
    BY <1>2 DEF MarkRaced, Racing
  <1>3. ASSUME joinpc'[f] = "none", relay'[f] = "live" /\ f \in ToSet(streams') => Coming(f)'
        PROVE  CountAt(f)'
    BY <1>3, Zenon DEF CountAt
  <1>4. ASSUME ~raced[f], joinpc'[f] = joinpc[f],
               joinpc'[f] = "sent" /\ ~broken'[f] => ~broken[f] /\ (Informed(f) => Informed(f)'),
               relay'[f] = "live" /\ f \in ToSet(streams') =>
                   relay[f] = "live" /\ f \in ToSet(streams) /\ (Coming(f) => Coming(f)')
        PROVE  CountAt(f)'
    <2>1. CountAt(f)
      BY <1>1, <1>4
    <2> QED BY <1>4, <2>1, Zenon DEF CountAt
  <1>5. ASSUME ~Push, \A o \in Op : ~Counts(o), txcount' = txcount,
               chan'[f] = chan[f], ftx'[f] = ftx[f]
        PROVE  /\ Informed(f) => Informed(f)'
               /\ relay'[f] = "live" => (Coming(f) => Coming(f)')
    <2>1. Informed(f) => Informed(f)'
      BY <1>5, InformedStill
    <2>2. ASSUME RelayEnd(f) PROVE relay'[f] # "live"
      <3>1. \E r \in {"none", "ending"} : relay' = [relay EXCEPT ![f] = r]
        BY <2>2 DEF RelayEnd
      <3> QED BY <1>0, <3>1 DEF Shaped
    <2>3. ~RelayEnd(f) => (LastQueued(f) => LastQueued(f)') /\ (Unbound(f) => Unbound(f)')
      BY <1>5, QueuedStill
    <2> QED BY <2>1, <2>2, <2>3, Zenon DEF Coming
  <1>6. CASE Untouched(f) /\ ~Touched(f)
    <2>1. ~Push /\ \A o \in Op : ~Counts(o)
      BY <1>6 DEF Touched
    <2>2. /\ joinpc'[f] = joinpc[f] /\ txcount' = txcount
          /\ chan'[f] = chan[f] /\ ftx'[f] = ftx[f] /\ raced'[f] = raced[f]
          /\ f \in ToSet(streams') => f \in ToSet(streams)
      BY <1>6 DEF Untouched
    <2>3. /\ broken[f] => broken'[f]
          /\ relay'[f] = "live" => relay[f] = "live"
      BY <1>6 DEF Untouched
    <2> QED BY <1>4, <1>5, <2>1, <2>2, <2>3
  <1>7. ASSUME NEW o \in Op, Submit(o), ~dead, streams = <<>> PROVE CountAt(f)'
    <2>1. MarkRaced /\ UNCHANGED <<streams, joinpc>>
      BY <1>7 DEF Submit
    <2>2. joinpc'[f] = "none" /\ f \notin ToSet(streams')
      BY <1>2, <1>7, <2>1, EmptyList
    <2> QED BY <1>3, <2>2
  <1>8. ASSUME NEW o \in Op, Counts(o) PROVE CountAt(f)'
    <2>1. inflight' # inflight
      BY <1>8 DEF Counts, TypeOK, ChangesOK
    <2>2. MarkRaced
      BY <1>8, <2>1, CommitPushes DEF Counts
    <2>3. UNCHANGED <<streams, joinpc>>
      BY <1>8 DEF Counts, Commit
    <2>4. joinpc'[f] = "none"
      BY <1>2, <2>2, <2>3
    <2>5. f \in ToSet(streams') => LastQueued(f)'
      BY <1>8, <2>3, QueuedCounted
    <2>6. f \in ToSet(streams') => Coming(f)'
      BY <2>5, Zenon DEF Coming
    <2> QED BY <1>3, <2>4, <2>6
  <1>9. CASE Push
    <2>1. UNCHANGED <<txcount, ftx, joinpc, raced, broken, relay>>
      BY <1>9 DEF Push, joinvars, followervars
    <2>2. Head(pushq).to \in Follower
      <3>1. Head(pushq) \in Waiting(txcount)
        BY <1>9 DEF Push, TypeOK, ChangesOK
      <3> QED BY <3>1 DEF Waiting
    <2>3. f \in ToSet(streams') => f \in ToSet(streams)
      <3>1. streams' = streams \/ streams' = RemoveFirst(streams, Head(pushq).to)
        BY <1>9 DEF Push
      <3> QED BY <2>2, <3>1, Unregistered DEF TypeOK, LeaderOK
    <2>4. relay[f] # "live" => (Informed(f) => Informed(f)')
      <3>1. chan' = IF Writes(Head(pushq))
                    THEN [chan EXCEPT ![Head(pushq).to] = Append(@, Head(pushq).msg)] ELSE chan
        BY <1>9 DEF Push
      <3>2. relay[f] # "live" => chan'[f] = chan[f]
        BY <1>0, <2>2, <3>1 DEF Typed, Writes
      <3> QED BY <2>1, <3>2, InformedStill
    <2>5. relay[f] = "live" => (Coming(f) => Coming(f)')
      BY <1>9, InformedPushed
    <2> QED BY <1>1, <1>4, <2>1, <2>3, <2>4, <2>5
  <1>10. CASE Apply /\ ~Push /\ \A o \in Op : ~Counts(o)
    <2>1. MarkRaced /\ UNCHANGED <<streams, joinpc, relay, chan, ftx, txcount>>
      BY <1>10 DEF Apply, followervars, netvars
    <2>2. ~raced[f] /\ joinpc'[f] = "none"
      BY <1>2, <2>1
    <2> QED BY <1>4, <1>5, <1>10, <2>1, <2>2
  <1>11. ASSUME NEW n \in 0 .. Len(ldb), JoinDump(f, n) PROVE CountAt(f)'
    <2>1. /\ broken[f] /\ joinpc' = [joinpc EXCEPT ![f] = "dumped"] /\ UNCHANGED relay
      BY <1>11 DEF JoinDump, leadervars
    <2>2. joinpc'[f] = "dumped" /\ relay'[f] # "live"
      BY <1>0, <1>1, <2>1 DEF Shaped
    <2> QED BY <2>2, Zenon DEF CountAt
  <1>12. CASE JoinSend(f)
    <2>1. /\ joinpc[f] = "dumped"
          /\ chan' = IF broken[f] THEN chan
                     ELSE [chan EXCEPT ![f] = <<Db(snap[f], txcount)>>]
          /\ UNCHANGED <<relay, broken, txcount>>
      BY <1>12 DEF JoinSend, leadervars
    <2>2. relay'[f] # "live"
      BY <1>1, <2>1
    <2>3. ~broken'[f] => chan'[f] = <<Db(snap[f], txcount)>>
      BY <1>0, <2>1 DEF Shaped
    <2>4. ~broken'[f] => LastOnWay(f)'
      <3>1. ASSUME ~broken'[f] PROVE /\ 1 \in DOMAIN chan'[f] /\ chan'[f][1].kind = "db"
                                     /\ chan'[f][1].txcount = txcount
                                     /\ \A k \in DOMAIN chan'[f] : k = 1
        BY <2>3, <3>1 DEF Db
      <3> QED BY <2>1, <3>1 DEF LastOnWay
    <2> QED BY <2>2, <2>4, Zenon DEF CountAt, Informed
  <1>13. CASE JoinRegister(f)
    <2>1. /\ joinpc[f] = "sent" /\ relay[f] = "none"
          /\ joinpc' = [joinpc EXCEPT ![f] = "none"]
          /\ relay' = [relay EXCEPT ![f] = IF broken[f] THEN "broken" ELSE "live"]
          /\ UNCHANGED <<raced, chan, ftx, txcount>>
      BY <1>13 DEF JoinRegister, netvars, followervars
    <2>2. joinpc'[f] = "none" /\ (relay'[f] = "live" => ~broken[f]) /\ CountAt(f)
      BY <1>0, <1>1, <2>1 DEF Shaped
    <2>3. relay'[f] = "live" => Informed(f)'
      BY <2>1, <2>2, InformedStill DEF CountAt
    <2>4. Unbound(f)'
      <3>1. \A i \in DOMAIN pushq : ~Bound(pushq[i], f)
        BY <1>1, <2>1 DEF OpeningAt
      <3>2. Enqueued(ToSet(streams'), Quorum(hasquorum', f)) /\ Quorum(hasquorum', f).kind = "quorum"
        BY <1>13, RegisterPushes DEF Quorum
      <3> QED BY <3>1, <3>2 DEF Enqueued, Bound, Unbound
    <2> QED BY <1>3, <2>2, <2>3, <2>4, Zenon DEF Coming
  <1>14. CASE Receive(f)
    <2>1. UNCHANGED <<streams, joinpc, raced, pushq, txcount>>
      BY <1>14 DEF Receive, joinvars
    <2>2. CASE Head(chan[f]).kind # "newleader"
      <3>1. relay' = relay /\ broken' = [broken EXCEPT ![f] = @ \/ FALSE]
        BY <1>14, <2>2 DEF Receive
      <3>2. relay'[f] = relay[f] /\ broken'[f] = broken[f]
        BY <1>0, <3>1 DEF Shaped
      <3>3. Informed(f) => Informed(f)'
        BY <1>14, <2>2, InformedRead
      <3>4. (LastQueued(f) => LastQueued(f)') /\ (Unbound(f) => Unbound(f)')
        BY <2>1 DEF LastQueued, Unbound, Bound
      <3>5. Coming(f) => Coming(f)'
        BY <3>3, <3>4, Zenon DEF Coming
      <3> QED BY <1>4, <2>1, <3>2, <3>3, <3>5
    <2>3. CASE Head(chan[f]).kind = "newleader"
      <3>1. /\ broken' = [broken EXCEPT ![f] = @ \/ TRUE]
            /\ relay' = IF relay[f] = "live" THEN [relay EXCEPT ![f] = "broken"] ELSE relay
        BY <1>14, <2>3 DEF Receive
      <3>2. broken'[f] /\ relay'[f] # "live"
        BY <1>0, <3>1 DEF Shaped
      <3> QED BY <1>4, <2>1, <3>2
    <2> QED BY <2>2, <2>3
  <1>15. CASE StopFollowing(f)
    <2>1. UNCHANGED <<streams, joinpc, raced, relay, broken>> /\ broken[f]
      BY <1>15 DEF StopFollowing, leadervars, opvars, joinvars
    <2>2. relay'[f] # "live"
      BY <1>1, <2>1
    <2> QED BY <1>4, <2>1, <2>2
  <1>16. CASE Touched(f)
    BY <1>7, <1>8, <1>9, <1>10, <1>11, <1>12, <1>13, <1>14, <1>15, <1>16 DEF Touched
  <1> QED BY <1>6, <1>16, Touches

\* The inductive invariant behind CountAgrees.
CountInv == TypeOK /\ Alive /\ Openings /\ CountsLast

\* _txcount is what members compare to choose a leader: a registered follower
\* that was neither lost nor raced has the leader's as soon as it has received
\* everything, whatever requests interleave in exec_on_followers.
THEOREM CountAgreesCorrect == Spec => []CountAgrees
  <1>1. Init => CountInv
    <2>1. Init => Alive /\ CountsLast
      BY DEF Init, Alive, CountsLast, CountAt
    <2> QED BY <2>1, InitReplica DEF CountInv, ReplicaInv
  <1>2. CountInv /\ [Next]_vars => CountInv'
    BY TypeStep, AliveKept, OpeningsKept, CountsKept DEF CountInv
  <1>3. CountInv => CountAgrees
    <2> SUFFICES ASSUME CountInv, NEW f \in ToSet(streams), relay[f] = "live",
                        following[f], ~raced[f],
                        Changes(chan[f]) = <<>>, QueuedChanges(f) = <<>>
                 PROVE  ftx[f] = txcount
      BY DEF CountAgrees
    <2>1. f \in Follower
      BY Types DEF CountInv, Typed
    <2>2. CountAt(f) /\ OpeningAt(f)
      BY <2>1 DEF CountInv, CountsLast, Openings
    <2>3. /\ txcount \in Nat /\ pushq \in Seq(Waiting(txcount))
          /\ chan[f] \in Seq(Message(txcount))
      BY <2>1 DEF CountInv, TypeOK, LeaderOK, ChangesOK, ConnectionsOK
    <2>4. \A i \in DOMAIN pushq : ~Bound(pushq[i], f)
      <3>1. Waits(pushq, f) = <<>>
        BY QueuedWaits
      <3> QED BY <2>3, <3>1, WaitsNone
    <2>5. \A j \in DOMAIN chan[f] : chan[f][j].kind # "tx"
      BY <2>3, ChangesList
    <2>6. Informed(f)
      BY <2>2, <2>4 DEF CountAt, Coming, LastQueued
    <2>7. \A j \in DOMAIN chan[f] : chan[f][j].kind # "db"
      <3> SUFFICES ASSUME NEW j \in DOMAIN chan[f], chan[f][j].kind = "db" PROVE FALSE
        OBVIOUS
      <3>1. j = 1 /\ chan[f] # <<>>
        BY <2>2 DEF OpeningAt
      <3> QED BY <2>2, <3>1 DEF OpeningAt, DbFirst
    <2> QED BY <2>5, <2>6, <2>7 DEF Informed, LastOnWay, LastCounted
  <1> QED BY <1>1, <1>2, <1>3, PTL DEF Spec
=============================================================================
