-------------------------- MODULE CollectiveProofs --------------------------
(***************************************************************************)
(* Proofs about Collective, for any members, voters and situations: its    *)
(* type invariant, that no member leads and follows at once, and that who  *)
(* joins gets no database older than its own.                              *)
(*                                                                         *)
(* Most of the code between two suspensions only gives up what a member    *)
(* has: streams, requests, handlers.  Wanes(s, t) says so of two states,   *)
(* it is transitive, and it keeps the invariant, Good.  Each operator of   *)
(* Collective either wanes, which a lemma shows, or is one of the few that *)
(* admit a member, which are looked at by themselves.                      *)
(***************************************************************************)
EXTENDS Collective, FiniteSetTheorems, TLAPS

\* A frame that talks to a peer knows it, and an answer is an answer of somebody.
Framed == {f \in Frame : f.pc \in {"lock", "sent", "dump", "deferring"} => f.peer # None}
Asking == {a \in Request : a.answer # "none" => a.to # None}
State == [node : [Member -> NodeState], task : [Member -> [Kind -> Framed]],
          relay : [Member -> [Member -> Stream]], ask : [Member -> Asking]]

\* The waits of a 'connect' handler before and after it has decided.
Open == {"decide", "probe", "deferring", "lock", "sent", "dump"}
Owed == {"queue", "init", "drain", "attach"}

\* No member serves itself.
Alone(s) == \A m \in Member : /\ s.task[m][Serve(m)].pc = "idle"
                              /\ s.relay[m][m] = "none"
Chainless(s) == \A m \in Member : s.node[m].cfg = "leader" => Streams(s, m) = {}

\* A handler knows the count of the request that its client still waits for.
Recalled(s) ==
  \A m, c \in Member :
    /\ s.ask[c].to = m
    /\ s.task[m][Serve(c)].pc \in Open
    /\ ~s.task[m][Serve(c)].answered
    => s.task[m][Serve(c)].tx = s.ask[c].had

\* Who has been accepted asked with no higher count than the leader has.
Met(s) ==
  \A m, c \in Member : s.ask[c].to = m /\ Owes(s, m, c)
                       => s.node[m].older \/ s.node[m].tx >= s.ask[c].had

\* NotOlder.
Dumped(s) ==
  \A m \in Member : s.ask[m].answer = "dump"
                    => \/ s.ask[m].tx >= s.ask[m].had
                       \/ \E l \in Member : s.ask[m].to = l /\ s.node[l].older

Good(s) == s \in State /\ Alone(s) /\ Chainless(s) /\ Recalled(s) /\ Met(s) /\ Dumped(s)

CollectiveInv == Good(Here) /\ left \in Budget

-----------------------------------------------------------------------------
(* Values *)

\* The tasks of a member are told apart by their kinds.
LEMMA Kinds ==
    /\ \A c \in Member : /\ Serve(c) \in Kind /\ Assimilate(c) \in Kind
                         /\ Serve(c) # Follow /\ Serve(c) # Start /\ Serve(c) # Missing
                         /\ Serve(c)[1] = "serve" /\ Serve(c)[2] = c
    /\ \A c, d \in Member : /\ Serve(c) # Assimilate(d)
                            /\ Serve(c) = Serve(d) => c = d
    /\ {Start, Follow, Missing} \subseteq Kind /\ NoTask \notin Kind
    /\ Start # Follow /\ Start # Missing /\ Follow # Missing
    /\ \A k \in Kind : k[1] = "serve" => \E c \in Member : k = Serve(c)
BY DEF Kind, Serve, Assimilate, Start, Follow, Missing, NoTask

\* The frames a task may be left with, and no request, are of their types.
LEMMA Values ==
    /\ None \notin Member /\ Cardinality(Member) \in Nat
    /\ Idle \in Framed /\ Idle.pc = "idle" /\ NoAsk \in Asking
    /\ NoAsk.to = None /\ NoAsk.answer = "none"
<1>1. None \notin Member
    BY MemberAssumption DEF None
<1>2. Cardinality(Member) \in Nat
    BY MemberAssumption, FS_CardinalityType
<1> QED
    BY <1>1, <1>2 DEF Idle, Framed, Frame, NoAsk, Asking, Request, None

\* The frame of a call of connect_to_leader is of its type.
LEMMA CallingFramed ==
    ASSUME NEW p \in Member, NEW o \in 0 .. 2
    PROVE  Calling(p, o) \in Framed /\ Calling(p, o).pc = "lock"
<1> DEFINE f == Calling(p, o)
<1>1. Idle \in Frame /\ p # None
    BY Values DEF Framed
<1>2. f = [Idle EXCEPT !.pc = "lock", !.peer = p, !.owe = o]
    BY DEF Calling
<1>3. f \in Frame /\ f.pc = "lock" /\ f.peer = p
    BY <1>1, <1>2 DEF Frame
<1> QED
    BY <1>1, <1>3 DEF Framed

\* A member has no more streams than there are members.
LEMMA StreamsCounted ==
    ASSUME NEW s, NEW m
    PROVE  Cardinality(Streams(s, m)) \in 0 .. Cardinality(Member)
<1>1. Streams(s, m) \subseteq Member
    BY DEF Streams
<1> QED
    BY <1>1, MemberAssumption, FS_Subset, FS_CardinalityType

-----------------------------------------------------------------------------
(* To wane *)

NodeWanes(x, y) == /\ y.tx = x.tx
                   /\ y.older = x.older
                   /\ y.cfg = "leader" => x.cfg = "leader"
FrameWanes(f, g) == /\ f.pc = "idle" => g.pc = "idle"
                    /\ g.pc \in Owed => f.pc \in Owed
                    /\ g.pc \in Open /\ ~g.answered
                       => f.pc \in Open /\ ~f.answered /\ g.tx = f.tx
StreamWanes(x, y) == /\ x = "none" => y = "none"
                     /\ y = "live" => x = "live"
                     /\ y \in {"live", "stale"} => x \in {"live", "stale"}
RequestWanes(a, b) == /\ b.to # None => b.to = a.to /\ b.had = a.had
                      /\ b.answer = "dump" => /\ a.answer = "dump"
                                              /\ b.tx = a.tx
                                              /\ b.to = a.to /\ b.had = a.had

Wanes(s, t) ==
  /\ t \in State
  /\ \A m \in Member : NodeWanes(s.node[m], t.node[m])
  /\ \A m, c \in Member : FrameWanes(s.task[m][Serve(c)], t.task[m][Serve(c)])
  /\ \A m, c \in Member : StreamWanes(s.relay[m][c], t.relay[m][c])
  /\ \A m \in Member : RequestWanes(s.ask[m], t.ask[m])

\* Nothing is no less than itself.
LEMMA WanesSame ==
    ASSUME NEW s \in State
    PROVE  Wanes(s, s)
BY DEF Wanes, NodeWanes, FrameWanes, StreamWanes, RequestWanes

\* One step after the other.
LEMMA WanesOn ==
    ASSUME NEW s, NEW t, NEW u, Wanes(s, t), Wanes(t, u)
    PROVE  Wanes(s, u)
<1>1. u \in State
    BY DEF Wanes
<1>2. ASSUME NEW m \in Member PROVE NodeWanes(s.node[m], u.node[m])
    BY <1>2 DEF Wanes, NodeWanes
<1>3. ASSUME NEW m \in Member, NEW c \in Member
      PROVE  FrameWanes(s.task[m][Serve(c)], u.task[m][Serve(c)])
  <2>1. FrameWanes(s.task[m][Serve(c)], t.task[m][Serve(c)])
      BY <1>3 DEF Wanes
  <2>2. FrameWanes(t.task[m][Serve(c)], u.task[m][Serve(c)])
      BY <1>3 DEF Wanes
  <2> QED
      BY <2>1, <2>2 DEF FrameWanes
<1>4. ASSUME NEW m \in Member, NEW c \in Member
      PROVE  StreamWanes(s.relay[m][c], u.relay[m][c])
    BY <1>4 DEF Wanes, StreamWanes
<1>5. ASSUME NEW m \in Member PROVE RequestWanes(s.ask[m], u.ask[m])
  <2>1. RequestWanes(s.ask[m], t.ask[m]) /\ RequestWanes(t.ask[m], u.ask[m])
      BY <1>5 DEF Wanes
  <2> QED
      BY <2>1 DEF RequestWanes
<1> QED
    BY <1>1, <1>2, <1>3, <1>4, <1>5 DEF Wanes

\* Whatever wanes keeps the invariant.
LEMMA WanesGood ==
    ASSUME NEW s, NEW t, Good(s), Wanes(s, t)
    PROVE  Good(t)
<1>1. t \in State
    BY DEF Wanes
<1>2. Alone(t)
    BY DEF Wanes, Good, Alone, FrameWanes, StreamWanes
<1>3. Chainless(t)
  <2>1. ASSUME NEW m \in Member, t.node[m].cfg = "leader", NEW c \in Streams(t, m)
        PROVE  FALSE
    <3>1. c \in Member /\ StreamWanes(s.relay[m][c], t.relay[m][c])
        BY <2>1 DEF Wanes, Streams
    <3>2. c \in Streams(s, m)
        BY <2>1, <3>1 DEF Streams, StreamWanes
    <3>3. s.node[m].cfg = "leader"
        BY <2>1 DEF Wanes, NodeWanes
    <3> QED
        BY <3>2, <3>3 DEF Good, Chainless
  <2> QED
      BY <2>1 DEF Chainless
<1>4. Recalled(t)
  <2>1. ASSUME NEW m \in Member, NEW c \in Member,
               t.ask[c].to = m, t.task[m][Serve(c)].pc \in Open, ~t.task[m][Serve(c)].answered
        PROVE  t.task[m][Serve(c)].tx = t.ask[c].had
    <3>1. RequestWanes(s.ask[c], t.ask[c])
          /\ FrameWanes(s.task[m][Serve(c)], t.task[m][Serve(c)])
        BY <2>1 DEF Wanes
    <3>2. s.ask[c].to = m /\ t.ask[c].had = s.ask[c].had
        BY <2>1, <3>1, Values DEF RequestWanes
    <3>3. /\ s.task[m][Serve(c)].pc \in Open /\ ~s.task[m][Serve(c)].answered
          /\ t.task[m][Serve(c)].tx = s.task[m][Serve(c)].tx
        BY <2>1, <3>1 DEF FrameWanes
    <3> QED
        BY <2>1, <3>2, <3>3 DEF Good, Recalled
  <2> QED
      BY <2>1 DEF Recalled
<1>5. Met(t)
  <2>1. ASSUME NEW m \in Member, NEW c \in Member, t.ask[c].to = m, Owes(t, m, c)
        PROVE  t.node[m].older \/ t.node[m].tx >= t.ask[c].had
    <3>1. /\ RequestWanes(s.ask[c], t.ask[c])
          /\ FrameWanes(s.task[m][Serve(c)], t.task[m][Serve(c)])
          /\ StreamWanes(s.relay[m][c], t.relay[m][c])
          /\ NodeWanes(s.node[m], t.node[m])
        BY <2>1 DEF Wanes
    <3>2. s.ask[c].to = m /\ t.ask[c].had = s.ask[c].had
        BY <2>1, <3>1, Values DEF RequestWanes
    <3>3. Owes(s, m, c)
        BY <2>1, <3>1 DEF Owes, Owed, RequestWanes, FrameWanes, StreamWanes
    <3> QED
        BY <2>1, <3>1, <3>2, <3>3 DEF Good, Met, NodeWanes
  <2> QED
      BY <2>1 DEF Met
<1>6. Dumped(t)
  <2>1. ASSUME NEW m \in Member, t.ask[m].answer = "dump"
        PROVE  \/ t.ask[m].tx >= t.ask[m].had
               \/ \E l \in Member : t.ask[m].to = l /\ t.node[l].older
    <3>1. RequestWanes(s.ask[m], t.ask[m])
        BY <2>1 DEF Wanes
    <3>2. /\ s.ask[m].answer = "dump" /\ t.ask[m].tx = s.ask[m].tx
          /\ t.ask[m].had = s.ask[m].had /\ t.ask[m].to = s.ask[m].to
        BY <2>1, <3>1 DEF RequestWanes
    <3>3. \A l \in Member : t.node[l].older = s.node[l].older
        BY DEF Wanes, NodeWanes
    <3> QED
        BY <2>1, <3>2, <3>3 DEF Good, Dumped
  <2> QED
      BY <2>1 DEF Dumped
<1> QED
    BY <1>1, <1>2, <1>3, <1>4, <1>5, <1>6 DEF Good

\* The parts of a state.
LEMMA Parts ==
    ASSUME NEW s \in State, NEW m \in Member
    PROVE  /\ s.node[m] \in NodeState /\ s.ask[m] \in Asking
           /\ \A k \in Kind : s.task[m][k] \in Framed
           /\ \A c \in Member : s.relay[m][c] \in Stream
BY DEF State

\* One node, frame, stream or request that wanes.
LEMMA NodeSet ==
    ASSUME NEW s \in State, NEW m \in Member, NEW n \in NodeState, NodeWanes(s.node[m], n)
    PROVE  Wanes(s, [s EXCEPT !.node[m] = n])
<1> DEFINE t == [s EXCEPT !.node[m] = n]
<1>1. /\ t \in State /\ t.node = [s.node EXCEPT ![m] = n]
      /\ t.task = s.task /\ t.relay = s.relay /\ t.ask = s.ask
    BY DEF State
<1>2. \A c \in Member : NodeWanes(s.node[c], t.node[c])
    BY <1>1 DEF State, NodeWanes
<1> HIDE DEF t
<1>3. Wanes(s, t)
    BY <1>1, <1>2 DEF Wanes, FrameWanes, StreamWanes, RequestWanes
<1> QED
    BY <1>3 DEF t

\* See NodeSet.
LEMMA FrameSet ==
    ASSUME NEW s \in State, NEW m \in Member, NEW k \in Kind, NEW f \in Framed,
           \A c \in Member : k = Serve(c) => FrameWanes(s.task[m][k], f)
    PROVE  Wanes(s, [s EXCEPT !.task[m][k] = f])
<1> DEFINE t == [s EXCEPT !.task[m][k] = f]
<1>1. /\ t \in State /\ t.task = [s.task EXCEPT ![m][k] = f]
      /\ t.node = s.node /\ t.relay = s.relay /\ t.ask = s.ask
    BY DEF State
<1>2. ASSUME NEW l \in Member, NEW c \in Member
      PROVE  FrameWanes(s.task[l][Serve(c)], t.task[l][Serve(c)])
  <2>1. Serve(c) \in Kind
      BY <1>2, Kinds
  <2>2. CASE l = m /\ k = Serve(c)
    <3>1. t.task[l][Serve(c)] = f
        BY <1>1, <1>2, <2>1, <2>2 DEF State
    <3> QED
        BY <3>1, <2>2
  <2>3. CASE ~(l = m /\ k = Serve(c))
    <3>1. t.task[l][Serve(c)] = s.task[l][Serve(c)]
        BY <1>1, <1>2, <2>1, <2>3 DEF State
    <3> QED
        BY <3>1 DEF FrameWanes
  <2> QED
      BY <2>2, <2>3
<1> HIDE DEF t
<1>3. Wanes(s, t)
    BY <1>1, <1>2 DEF Wanes, NodeWanes, StreamWanes, RequestWanes
<1> QED
    BY <1>3 DEF t

\* See NodeSet.
LEMMA StreamSet ==
    ASSUME NEW s \in State, NEW l \in Member, NEW c \in Member, NEW x \in Stream,
           StreamWanes(s.relay[l][c], x)
    PROVE  Wanes(s, [s EXCEPT !.relay[l][c] = x])
<1> DEFINE t == [s EXCEPT !.relay[l][c] = x]
<1>1. /\ t \in State /\ t.relay = [s.relay EXCEPT ![l][c] = x]
      /\ t.node = s.node /\ t.task = s.task /\ t.ask = s.ask
    BY DEF State
<1>2. \A a, b \in Member : StreamWanes(s.relay[a][b], t.relay[a][b])
    BY <1>1 DEF State, StreamWanes
<1> HIDE DEF t
<1>3. Wanes(s, t)
    BY <1>1, <1>2 DEF Wanes, NodeWanes, FrameWanes, RequestWanes
<1> QED
    BY <1>3 DEF t

\* See NodeSet.
LEMMA RequestSet ==
    ASSUME NEW s \in State, NEW m \in Member, NEW a \in Asking, RequestWanes(s.ask[m], a)
    PROVE  Wanes(s, [s EXCEPT !.ask[m] = a])
<1> DEFINE t == [s EXCEPT !.ask[m] = a]
<1>1. /\ t \in State /\ t.ask = [s.ask EXCEPT ![m] = a]
      /\ t.node = s.node /\ t.task = s.task /\ t.relay = s.relay
    BY DEF State
<1>2. \A c \in Member : RequestWanes(s.ask[c], t.ask[c])
    BY <1>1 DEF State, RequestWanes
<1> HIDE DEF t
<1>3. Wanes(s, t)
    BY <1>1, <1>2 DEF Wanes, NodeWanes, FrameWanes, StreamWanes
<1> QED
    BY <1>3 DEF t

\* A task that becomes idle, and a request that is given up.
LEMMA GivenUp ==
    ASSUME NEW s \in State, NEW m \in Member, NEW k \in Kind
    PROVE  Wanes(s, [s EXCEPT !.task[m][k] = Idle]) /\ Wanes(s, [s EXCEPT !.ask[m] = NoAsk])
<1>1. \A f : FrameWanes(f, Idle)
    BY Values DEF FrameWanes, Owed, Open
<1>2. \A a : RequestWanes(a, NoAsk)
    BY Values DEF RequestWanes
<1> QED
    BY <1>1, <1>2, FrameSet, RequestSet, Values

-----------------------------------------------------------------------------
(* The operators that wane *)

\* Retry arms a timer only.
LEMMA RetryWanes ==
    ASSUME NEW s \in State, NEW m \in Member
    PROVE  Wanes(s, Retry(s, m)) /\ Retry(s, m).task = s.task
<1> DEFINE n == [s.node[m] EXCEPT !.retry = TRUE]
<1>1. n \in NodeState /\ NodeWanes(s.node[m], n)
  <2>1. s.node[m] \in NodeState
      BY Parts
  <2> QED
      BY <2>1 DEF NodeState, NodeWanes
<1>2. Retry(s, m) = [s EXCEPT !.node[m] = n]
    BY DEF Retry
<1> HIDE DEF n
<1>3. Wanes(s, Retry(s, m))
    BY <1>1, <1>2, NodeSet
<1>4. Retry(s, m).task = s.task
    BY <1>2 DEF State
<1> QED
    BY <1>3, <1>4

\* Unlock gives a lock back.
LEMMA UnlockWanes ==
    ASSUME NEW s \in State, NEW m \in Member, NEW k \in Kind
    PROVE  Wanes(s, Unlock(s, m, k)) /\ Unlock(s, m, k).task = s.task
<1> DEFINE n == [s.node[m] EXCEPT !.held = NoTask]
<1>1. n \in NodeState /\ NodeWanes(s.node[m], n)
  <2>1. s.node[m] \in NodeState
      BY Parts
  <2> QED
      BY <2>1 DEF NodeState, NodeWanes
<1>2. Unlock(s, m, k) \in {s, [s EXCEPT !.node[m] = n]}
    BY DEF Unlock
<1> HIDE DEF n
<1>3. Wanes(s, Unlock(s, m, k))
    BY <1>1, <1>2, NodeSet, WanesSame
<1>4. Unlock(s, m, k).task = s.task
    BY <1>2 DEF State
<1> QED
    BY <1>3, <1>4

\* Sever gives up the connection, and leaves the leader with a stale stream.
LEMMA SeverWanes ==
    ASSUME NEW s \in State, NEW m \in Member
    PROVE  /\ Wanes(s, Sever(s, m)) /\ Sever(s, m).task = s.task
           /\ Streams(Sever(s, m), m) = Streams(s, m)
<1> DEFINE l == s.node[m].link
           n == [s.node[m] EXCEPT !.link = None, !.told = None]
           x == IF s.relay[l][m] = "live" THEN "stale" ELSE s.relay[l][m]
           t == [s EXCEPT !.node[m] = n]
           u == [t EXCEPT !.relay[l][m] = x]
<1>1. CASE l = None
  <2>1. Sever(s, m) = s
      BY <1>1 DEF Sever
  <2> QED
      BY <2>1, WanesSame
<1>2. CASE l # None
  <2>1. l \in Member
      BY <1>2 DEF State, NodeState
  <2>2. n \in NodeState /\ NodeWanes(s.node[m], n)
    <3>1. s.node[m] \in NodeState
        BY Parts
    <3> QED
        BY <3>1 DEF NodeState, NodeWanes
  <2>3. x \in Stream /\ StreamWanes(s.relay[l][m], x)
      BY <2>1 DEF State, Stream, StreamWanes
  <2>4. t.relay = s.relay /\ t.task = s.task
      BY DEF State
  <2>5. Wanes(s, t)
      BY <2>2, NodeSet
  <2>6. t \in State
      BY <2>5 DEF Wanes
  <2>7. Wanes(t, u)
      BY <2>1, <2>3, <2>4, <2>6, StreamSet
  <2>8. Sever(s, m) = u
      BY <1>2, <2>1 DEF Sever, State
  <2>9. u.task = s.task /\ u.relay = [s.relay EXCEPT ![l][m] = x]
      BY <2>4, <2>6 DEF State
  <2>10. Streams(u, m) = Streams(s, m)
      BY <2>1, <2>9 DEF Streams, State
  <2> QED
      BY <2>5, <2>7, <2>8, <2>9, <2>10, WanesOn
<1> QED
    BY <1>1, <1>2

\* Who stops following has no leader any more.
LEMMA StopFollowingWanes ==
    ASSUME NEW s \in State, NEW m \in Member, NEW r \in {"none", "dead"}
    PROVE  /\ Wanes(s, StopFollowing(s, m, r)) /\ StopFollowing(s, m, r).task = s.task
           /\ StopFollowing(s, m, r).node[m].cfg = r
           /\ Streams(StopFollowing(s, m, r), m) = Streams(s, m)
<1> DEFINE t == IF s.node[m].cfg = "leader" THEN Sever(s, m) ELSE s
           n == [t.node[m] EXCEPT !.cfg = r]
           u == [t EXCEPT !.node[m] = n]
<1>1. Wanes(s, t) /\ t.task = s.task /\ Streams(t, m) = Streams(s, m)
    BY SeverWanes, WanesSame
<1>2. StopFollowing(s, m, r) = u
    BY DEF StopFollowing
<1> HIDE DEF t
<1>3. t \in State
    BY <1>1 DEF Wanes
<1>4. n \in NodeState /\ NodeWanes(t.node[m], n) /\ n.cfg = r
  <2>1. t.node[m] \in NodeState
      BY <1>3, Parts
  <2> QED
      BY <2>1 DEF NodeState, NodeWanes
<1> HIDE DEF n
<1>5. Wanes(t, u)
    BY <1>3, <1>4, NodeSet
<1>6. u.task = t.task /\ u.node[m] = n /\ u.relay = t.relay
    BY <1>3 DEF State
<1>7. Streams(u, m) = Streams(t, m)
    BY <1>6 DEF Streams
<1> HIDE DEF u
<1> QED
    BY <1>1, <1>2, <1>4, <1>5, <1>6, <1>7, WanesOn

\* Who stops leading has no streams any more.
LEMMA StopLeadingWanes ==
    ASSUME NEW s \in State, NEW m \in Member, NEW new \in Member \union {None}
    PROVE  /\ Wanes(s, StopLeading(s, m, new))
           /\ StopLeading(s, m, new).task = s.task
           /\ StopLeading(s, m, new).ask = s.ask
           /\ StopLeading(s, m, new).node[m].cfg = s.node[m].cfg
           /\ Streams(StopLeading(s, m, new), m) = {}
<1> DEFINE t == StopLeading(s, m, new)
           row == [c \in Member |-> IF c \in Streams(s, m) THEN "ending" ELSE s.relay[m][c]]
           nodes == [c \in Member |-> IF new # None /\ s.relay[m][c] = "live"
                                      THEN [s.node[c] EXCEPT !.told = new] ELSE s.node[c]]
<1>1. row \in [Member -> Stream] /\ \A c \in Member : StreamWanes(s.relay[m][c], row[c])
    BY DEF State, Stream, StreamWanes, Streams
<1>2. ASSUME NEW c \in Member
      PROVE  nodes[c] \in NodeState /\ NodeWanes(s.node[c], nodes[c])
             /\ nodes[c].cfg = s.node[c].cfg
  <2>1. s.node[c] \in NodeState
      BY DEF State
  <2>2. [s.node[c] EXCEPT !.told = new] \in NodeState
      BY <2>1 DEF NodeState
  <2> QED
      BY <2>1, <2>2 DEF NodeWanes, NodeState
<1>3. nodes \in [Member -> NodeState]
    BY <1>2
<1>4. t = [s EXCEPT !.relay[m] = row, !.node = nodes]
    BY DEF StopLeading
<1>5. \A c \in Member : row[c] \notin {"live", "stale"}
    BY DEF Streams
<1> HIDE DEF row, nodes, t
<1>6. /\ t \in State /\ t.task = s.task /\ t.ask = s.ask /\ t.node = nodes
      /\ t.relay = [s.relay EXCEPT ![m] = row]
    BY <1>1, <1>3, <1>4 DEF State
<1>7. \A a, c \in Member : StreamWanes(s.relay[a][c], t.relay[a][c])
    BY <1>1, <1>6 DEF State, StreamWanes
<1>8. Wanes(s, t)
    BY <1>2, <1>6, <1>7 DEF Wanes, FrameWanes, RequestWanes
<1>9. Streams(t, m) = {}
    BY <1>5, <1>6 DEF Streams, State
<1> QED
    BY <1>2, <1>6, <1>8, <1>9 DEF t

\* retire_as_leader.
LEMMA RetireWanes ==
    ASSUME NEW s \in State, NEW m \in Member, NEW new \in Member \union {None}
    PROVE  /\ Wanes(s, Retire(s, m, new))
           /\ \A c \in Member : Retire(s, m, new).task[m][Serve(c)] = s.task[m][Serve(c)]
<1> DEFINE t == StopLeading(s, m, new)
           u == [t EXCEPT !.task[m][Missing] = Idle]
           n == [u.node[m] EXCEPT !.leader = None]
           v == [u EXCEPT !.node[m] = n]
<1>1. Wanes(s, t) /\ t.task = s.task
    BY StopLeadingWanes
<1>2. Retire(s, m, new) = [t EXCEPT !.task[m][Missing] = Idle, !.node[m].leader = None]
    BY DEF Retire
<1> HIDE DEF t
<1>3. t \in State
    BY <1>1 DEF Wanes
<1>4. Wanes(t, u)
    BY <1>3, GivenUp, Kinds
<1>5. u.task = [s.task EXCEPT ![m][Missing] = Idle] /\ u.node = t.node
    BY <1>1, <1>3 DEF State
<1>6. Retire(s, m, new) = v
    BY <1>2, <1>3 DEF State
<1> HIDE DEF u
<1>7. u \in State
    BY <1>4 DEF Wanes
<1>8. n \in NodeState /\ NodeWanes(u.node[m], n)
  <2>1. u.node[m] \in NodeState
      BY <1>7, Parts
  <2> QED
      BY <2>1 DEF NodeState, NodeWanes
<1> HIDE DEF n
<1>9. Wanes(u, v) /\ v.task = u.task
    BY <1>7, <1>8, NodeSet DEF State
<1>10. \A c \in Member : u.task[m][Serve(c)] = s.task[m][Serve(c)]
    BY <1>5, Kinds DEF State
<1> QED
    BY <1>1, <1>4, <1>5, <1>6, <1>9, <1>10, WanesOn

\* become_leader and follow_leader cancel the follow task.
LEMMA CancelFollowerWanes ==
    ASSUME NEW s \in State, NEW m \in Member, NEW k \in Kind
    PROVE  /\ Wanes(s, CancelFollower(s, m, k))
           /\ \A j \in Kind : j # Follow \/ k = Follow
                              => CancelFollower(s, m, k).task[m][j] = s.task[m][j]
<1> DEFINE f == s.task[m][Follow]
           a == Unlock(s, m, Follow)
           b == [a EXCEPT !.task[m][Follow] = Idle]
           n == [b.node[m] EXCEPT !.ended = @ \/ f.pc = "follow"]
           stopped == IF k = Follow THEN s ELSE [b EXCEPT !.node[m] = n]
           d == Sever(stopped, m)
           e == StopFollowing(d, m, "none")
           o == [e.node[m] EXCEPT !.follower = FALSE]
           t == [e EXCEPT !.node[m] = o]
<1>1. CancelFollower(s, m, k) = IF ~s.node[m].follower THEN s ELSE t
    BY DEF CancelFollower
<1> HIDE DEF f
<1>2. Wanes(s, a) /\ a.task = s.task
    BY UnlockWanes, Kinds
<1> HIDE DEF a
<1>3. a \in State
    BY <1>2 DEF Wanes
<1>4. Wanes(a, b)
    BY <1>3, GivenUp, Kinds
<1>5. b.task = [a.task EXCEPT ![m][Follow] = Idle]
    BY <1>3 DEF State
<1> HIDE DEF b
<1>6. b \in State
    BY <1>4 DEF Wanes
<1>7. b.node[m] \in NodeState
    BY <1>6, Parts
<1>8. n \in NodeState /\ NodeWanes(b.node[m], n)
    BY <1>7 DEF NodeState, NodeWanes
<1> HIDE DEF n
<1>9. Wanes(b, [b EXCEPT !.node[m] = n]) /\ [b EXCEPT !.node[m] = n].task = b.task
    BY <1>6, <1>8, NodeSet DEF State
<1>10. /\ Wanes(s, stopped)
       /\ \A j \in Kind : j # Follow \/ k = Follow => stopped.task[m][j] = s.task[m][j]
  <2>1. CASE k = Follow
      BY <2>1, WanesSame
  <2>2. CASE k # Follow
    <3>1. Wanes(s, stopped) /\ stopped.task = [s.task EXCEPT ![m][Follow] = Idle]
        BY <1>2, <1>4, <1>5, <1>9, <2>2, WanesOn
    <3>2. \A j \in Kind : j # Follow => stopped.task[m][j] = s.task[m][j]
        BY <3>1 DEF State
    <3> QED
        BY <2>2, <3>1, <3>2
  <2> QED
      BY <2>1, <2>2
<1> HIDE DEF stopped
<1>11. stopped \in State
    BY <1>10 DEF Wanes
<1>12. Wanes(stopped, d) /\ d.task = stopped.task
    BY <1>11, SeverWanes
<1> HIDE DEF d
<1>13. d \in State
    BY <1>12 DEF Wanes
<1>14. Wanes(d, e) /\ e.task = d.task
    BY <1>13, StopFollowingWanes
<1> HIDE DEF e
<1>15. e \in State
    BY <1>14 DEF Wanes
<1>16. e.node[m] \in NodeState
    BY <1>15, Parts
<1>17. o \in NodeState /\ NodeWanes(e.node[m], o)
    BY <1>16 DEF NodeState, NodeWanes
<1> HIDE DEF o
<1>18. Wanes(e, t)
    BY <1>15, <1>17, NodeSet
<1>19. t.task = e.task
    BY <1>15 DEF State
<1> HIDE DEF t
<1>20. /\ Wanes(s, t)
       /\ \A j \in Kind : j # Follow \/ k = Follow => t.task[m][j] = s.task[m][j]
    BY <1>10, <1>12, <1>14, <1>18, <1>19, WanesOn
<1> QED
    BY <1>1, <1>20, WanesSame

\* become_leader.
LEMMA BecomeWanes ==
    ASSUME NEW s \in State, NEW m \in Member, NEW k \in Kind
    PROVE  /\ Wanes(s, Become(s, m, k))
           /\ \A c \in Member : Become(s, m, k).task[m][Serve(c)] = s.task[m][Serve(c)]
<1> DEFINE a == CancelFollower(s, m, k)
           n == [a.node[m] EXCEPT !.retry = FALSE, !.leader = m]
           b == [a EXCEPT !.node[m] = n]
           f == [Idle EXCEPT !.pc = "sleep"]
           t == [b EXCEPT !.task[m][Missing] = f]
<1>1. Become(s, m, k) = IF m \notin Voting THEN s ELSE t
    BY DEF Become
<1>2. Wanes(s, a) /\ \A c \in Member : a.task[m][Serve(c)] = s.task[m][Serve(c)]
    BY CancelFollowerWanes, Kinds
<1> HIDE DEF a
<1>3. a \in State
    BY <1>2 DEF Wanes
<1>4. a.node[m] \in NodeState
    BY <1>3, Parts
<1>5. n \in NodeState /\ NodeWanes(a.node[m], n)
    BY <1>4 DEF NodeState, NodeWanes
<1> HIDE DEF n
<1>6. Wanes(a, b)
    BY <1>3, <1>5, NodeSet
<1>7. b.task = a.task
    BY <1>3 DEF State
<1> HIDE DEF b
<1>8. b \in State
    BY <1>6 DEF Wanes
<1>9. f \in Framed
    BY Values DEF Framed, Frame, Idle
<1> HIDE DEF f
<1>10. Wanes(b, t)
    BY <1>8, <1>9, Kinds, FrameSet
<1>11. t.task = [b.task EXCEPT ![m][Missing] = f]
    BY <1>8 DEF State
<1>12. \A c \in Member : t.task[m][Serve(c)] = b.task[m][Serve(c)]
    BY <1>8, <1>11, Kinds DEF State
<1> HIDE DEF t
<1>13. Wanes(s, t) /\ \A c \in Member : t.task[m][Serve(c)] = s.task[m][Serve(c)]
    BY <1>2, <1>6, <1>7, <1>10, <1>12, WanesOn
<1> QED
    BY <1>1, <1>13, WanesSame

\* A task that begins to look for the members that are missing; a handler does
\* so before it decides.
LEMMA ProbingWanes ==
    ASSUME NEW s \in State, NEW m \in Member, NEW k \in Kind, NEW skip,
           \A c \in Member : k = Serve(c) => s.task[m][k].pc \in Open
    PROVE  /\ Wanes(s, Probing(s, m, k, skip))
           /\ Probing(s, m, k, skip).task[m][k].pc = "probe"
           /\ Probing(s, m, k, skip).task[m][k].answered = s.task[m][k].answered
<1> DEFINE x == Absent(s, m, skip)
           y == Cardinality(Streams(s, m))
           f == [s.task[m][k] EXCEPT !.pc = "probe", !.todo = x]
           u == [s EXCEPT !.task[m][k] = f]
           g == [u.task[m][k] EXCEPT !.followers = y]
           t == [u EXCEPT !.task[m][k] = g]
<1>1. x \subseteq Member /\ y \in 0 .. Cardinality(Member)
    BY StreamsCounted DEF Absent
<1>2. Probing(s, m, k, skip) = t
  <2>1. Probing(s, m, k, skip) = [s EXCEPT !.task[m][k].pc = "probe", !.task[m][k].todo = x,
                                           !.task[m][k].followers = y]
      BY DEF Probing
  <2> HIDE DEF x, y
  <2>2. [s EXCEPT !.task[m][k].pc = "probe", !.task[m][k].todo = x] = u
      BY DEF State
  <2> HIDE DEF u
  <2> QED
      BY <2>1, <2>2
<1> HIDE DEF x, y
<1>3. s.task[m][k] \in Framed
    BY Parts
<1>4. /\ f \in Framed /\ f.pc = "probe" /\ f.tx = s.task[m][k].tx
      /\ f.answered = s.task[m][k].answered
    BY <1>1, <1>3 DEF Framed, Frame
<1> HIDE DEF f
<1>5. s.task[m][k].pc \in Open => FrameWanes(s.task[m][k], f)
    BY <1>4 DEF FrameWanes, Open, Owed
<1>6. Wanes(s, u) /\ u.task[m][k] = f
    BY <1>4, <1>5, FrameSet DEF State
<1> HIDE DEF u
<1>7. /\ g \in Framed /\ g.pc = "probe" /\ g.tx = f.tx /\ g.answered = f.answered
    BY <1>1, <1>4, <1>6 DEF Framed, Frame
<1> HIDE DEF g
<1>8. FrameWanes(u.task[m][k], g)
    BY <1>4, <1>6, <1>7 DEF FrameWanes, Open, Owed
<1>9. u \in State
    BY <1>6 DEF Wanes
<1>10. Wanes(u, t)
    BY <1>7, <1>8, <1>9, FrameSet
<1>11. t.task[m][k] = g
    BY <1>9 DEF State
<1> HIDE DEF t
<1> QED
    BY <1>2, <1>4, <1>6, <1>7, <1>10, <1>11, WanesOn

\* An answer other than the database.
LEMMA ReplyWanes ==
    ASSUME NEW s \in State, NEW m \in Member, NEW c \in Member,
           NEW answer \in {"backoff", "wait", "redirect", "inferior", "keys"}
    PROVE  /\ Wanes(s, Reply(s, m, c, answer))
           /\ Reply(s, m, c, answer).task = s.task
           /\ Reply(s, m, c, answer).node = s.node
           /\ Reply(s, m, c, answer).ask[c].to = s.ask[c].to
           /\ Reply(s, m, c, answer).ask[c].had = s.ask[c].had
<1> DEFINE a == [s.ask[c] EXCEPT !.answer = answer, !.leader = s.node[m].leader]
           t == [s EXCEPT !.ask[c] = a]
<1>1. Reply(s, m, c, answer) = IF s.ask[c].to # m THEN s ELSE t
    BY DEF Reply
<1>2. s.ask[c] \in Request /\ s.node[m].leader \in Member \union {None}
    BY Parts DEF Asking, NodeState
<1>3. a \in Request /\ a.to = s.ask[c].to /\ a.had = s.ask[c].had /\ a.answer # "dump"
    BY <1>2 DEF Request
<1> HIDE DEF a
<1>4. CASE s.ask[c].to = m
  <2>1. a \in Asking /\ RequestWanes(s.ask[c], a)
      BY <1>3, <1>4, Values DEF Asking, RequestWanes
  <2>2. Wanes(s, t)
      BY <2>1, RequestSet
  <2>3. t.task = s.task /\ t.node = s.node /\ t.ask[c] = a
      BY DEF State
  <2> QED
      BY <1>1, <1>3, <1>4, <2>2, <2>3
<1>5. CASE s.ask[c].to # m
    BY <1>1, <1>5, WanesSame
<1> QED
    BY <1>4, <1>5

\* The finally clause of follow_leader.
LEMMA OverWanes ==
    ASSUME NEW s \in State, NEW m \in Member
    PROVE  Wanes(s, Over(s, m))
<1> DEFINE a == Sever(s, m)
           b == StopFollowing(a, m, "none")
           n == [b.node[m] EXCEPT !.follower = FALSE, !.leader = None, !.retry = TRUE]
           d == [b EXCEPT !.node[m] = n]
           t == [d EXCEPT !.task[m][Follow] = Idle]
<1>1. Over(s, m) = t
  <2>1. Over(s, m) = [b EXCEPT !.node[m].follower = FALSE, !.node[m].leader = None,
                               !.node[m].retry = TRUE, !.task[m][Follow] = Idle]
      BY DEF Over
  <2> HIDE DEF b
  <2>2. [b EXCEPT !.node[m].follower = FALSE, !.node[m].leader = None,
                  !.node[m].retry = TRUE] = d
      OBVIOUS
  <2> HIDE DEF d
  <2> QED
      BY <2>1, <2>2
<1>2. Wanes(s, a)
    BY SeverWanes
<1> HIDE DEF a
<1>3. a \in State
    BY <1>2 DEF Wanes
<1>4. Wanes(a, b)
    BY <1>3, StopFollowingWanes
<1> HIDE DEF b
<1>5. b \in State
    BY <1>4 DEF Wanes
<1>6. b.node[m] \in NodeState
    BY <1>5, Parts
<1>7. n \in NodeState /\ NodeWanes(b.node[m], n)
    BY <1>6 DEF NodeState, NodeWanes
<1> HIDE DEF n
<1>8. Wanes(b, d)
    BY <1>5, <1>7, NodeSet
<1> HIDE DEF d
<1>9. d \in State
    BY <1>8 DEF Wanes
<1>10. Wanes(d, t)
    BY <1>9, GivenUp, Kinds
<1> HIDE DEF t
<1> QED
    BY <1>1, <1>2, <1>4, <1>8, <1>10, WanesOn

\* The finally clause of start_collective.
LEMMA StartReturnsWanes ==
    ASSUME NEW s \in State, NEW m \in Member
    PROVE  Wanes(s, StartReturns(s, m))
<1> DEFINE retry == s.node[m].retry \/ ~s.node[m].follower
           n == [s.node[m] EXCEPT !.retry = retry, !.initting = FALSE]
           d == [s EXCEPT !.node[m] = n]
           t == [d EXCEPT !.task[m][Start] = Idle]
<1>1. StartReturns(s, m) = t
    BY DEF StartReturns
<1>2. n \in NodeState /\ NodeWanes(s.node[m], n)
  <2>1. s.node[m] \in NodeState
      BY Parts
  <2>2. retry \in BOOLEAN
      BY <2>1 DEF NodeState
  <2> HIDE DEF retry
  <2> QED
      BY <2>1, <2>2 DEF NodeState, NodeWanes
<1> HIDE DEF n
<1>3. Wanes(s, d)
    BY <1>2, NodeSet
<1> HIDE DEF d
<1>4. d \in State
    BY <1>3 DEF Wanes
<1>5. Wanes(d, t)
    BY <1>4, GivenUp, Kinds
<1> HIDE DEF t
<1> QED
    BY <1>1, <1>3, <1>5, WanesOn

\* connect_to_leader has raised.
LEMMA FailedWanes ==
    ASSUME NEW s \in State, NEW m \in Member, NEW k \in Kind
    PROVE  Wanes(s, Failed(s, m, k))
<1> DEFINE a == Unlock(s, m, k)
           t == [a EXCEPT !.ask[m] = NoAsk]
<1>1. Failed(s, m, k) \in {StartReturns(t, m), Over(t, m), [t EXCEPT !.task[m][k] = Idle]}
    BY DEF Failed
<1>2. Wanes(s, a)
    BY UnlockWanes
<1> HIDE DEF a
<1>3. a \in State
    BY <1>2 DEF Wanes
<1>4. Wanes(a, t)
    BY <1>3, GivenUp, Kinds
<1> HIDE DEF t
<1>5. t \in State
    BY <1>4 DEF Wanes
<1>6. Wanes(t, StartReturns(t, m)) /\ Wanes(t, Over(t, m))
      /\ Wanes(t, [t EXCEPT !.task[m][k] = Idle])
    BY <1>5, StartReturnsWanes, OverWanes, GivenUp
<1> QED
    BY <1>1, <1>2, <1>4, <1>6, WanesOn

-----------------------------------------------------------------------------
(* The operators that admit a member *)

\* A handler of another member that keeps to what the request asks.
LEMMA ServeSet ==
    ASSUME NEW s, Good(s), NEW m \in Member, NEW c \in Member, c # m, NEW f \in Framed,
           s.ask[c].to = m /\ f.pc \in Owed
             => s.node[m].older \/ s.node[m].tx >= s.ask[c].had,
           s.ask[c].to = m /\ f.pc \in Open /\ ~f.answered => f.tx = s.ask[c].had
    PROVE  Good([s EXCEPT !.task[m][Serve(c)] = f])
<1> DEFINE t == [s EXCEPT !.task[m][Serve(c)] = f]
<1>1. s \in State /\ Serve(c) \in Kind
    BY Kinds DEF Good
<1>2. /\ t \in State /\ t.task = [s.task EXCEPT ![m][Serve(c)] = f]
      /\ t.node = s.node /\ t.relay = s.relay /\ t.ask = s.ask
    BY <1>1 DEF State
<1>3. t.task[m][Serve(c)] = f
    BY <1>1, <1>2 DEF State
<1>4. ASSUME NEW l \in Member, NEW d \in Member, l # m \/ d # c
      PROVE  t.task[l][Serve(d)] = s.task[l][Serve(d)]
    BY <1>1, <1>2, <1>4, Kinds DEF State
<1> HIDE DEF t
<1>5. Alone(t)
    BY <1>2, <1>4 DEF Good, Alone
<1>6. Chainless(t)
    BY <1>2 DEF Good, Chainless, Streams
<1>7. Recalled(t)
    BY <1>2, <1>3, <1>4 DEF Good, Recalled
<1>8. Met(t)
  <2>1. ASSUME NEW l \in Member, NEW d \in Member, t.ask[d].to = l, Owes(t, l, d)
        PROVE  t.node[l].older \/ t.node[l].tx >= t.ask[d].had
    <3>1. CASE Owes(s, l, d)
        BY <1>2, <2>1, <3>1 DEF Good, Met
    <3>2. CASE ~Owes(s, l, d)
      <4>1. l = m /\ d = c /\ f.pc \in Owed
          BY <1>2, <1>3, <1>4, <2>1, <3>2 DEF Owes, Owed
      <4> QED
          BY <1>2, <2>1, <4>1
    <3> QED
        BY <3>1, <3>2
  <2> QED
      BY <2>1 DEF Met
<1>9. Dumped(t)
    BY <1>2 DEF Good, Dumped
<1>10. Good(t)
    BY <1>2, <1>5, <1>6, <1>7, <1>8, <1>9 DEF Good
<1> QED
    BY <1>10 DEF t

\* The client of an open handler has the keys, or waits for leader_init.
LEMMA ServingGood ==
    ASSUME NEW s, Good(s), NEW m \in Member, NEW c \in Member, c # m,
           s.ask[c].to = m => s.node[m].tx >= s.ask[c].had
    PROVE  Good(Serving(s, m, c))
<1> DEFINE q == [Idle EXCEPT !.pc = "queue"]
           i == [Idle EXCEPT !.pc = "init"]
           r == Reply(s, m, c, "keys")
<1>1. /\ q \in Framed /\ i \in Framed /\ q.pc \notin Open /\ i.pc \notin Open
    BY Values DEF Framed, Frame, Idle, Open
<1>2. Serving(s, m, c) \in {[s EXCEPT !.task[m][Serve(c)] = q],
                            [r EXCEPT !.task[m][Serve(c)] = i]}
    BY DEF Serving
<1> HIDE DEF q, i
<1>3. s \in State
    BY DEF Good
<1>4. /\ Wanes(s, r) /\ r.node = s.node
      /\ r.ask[c].to = s.ask[c].to /\ r.ask[c].had = s.ask[c].had
    BY <1>3, ReplyWanes
<1> HIDE DEF r
<1>5. Good(r)
    BY <1>4, WanesGood
<1>6. Good([s EXCEPT !.task[m][Serve(c)] = q])
    BY <1>1, ServeSet
<1>7. Good([r EXCEPT !.task[m][Serve(c)] = i])
    BY <1>1, <1>4, <1>5, ServeSet
<1> QED
    BY <1>2, <1>6, <1>7

\* The rest of the 'connect' operation: who has more transactions leads.
LEMMA DecideGood ==
    ASSUME NEW s, Good(s), NEW m \in Member, NEW c \in Member,
           s.task[m][Serve(c)].pc \in Open, ~s.task[m][Serve(c)].answered
    PROVE  Good(Decide(s, m, c))
<1> DEFINE f == s.task[m][Serve(c)]
           a == Reply(s, m, c, "redirect")
           b == Retire(s, m, None)
           d == Reply(b, m, c, "inferior")
           g == [Calling(c, 1) EXCEPT !.answered = TRUE]
           n == [s.node[m] EXCEPT !.retry = FALSE]
           e == [s EXCEPT !.node[m] = n]
<1>1. Decide(s, m, c) = IF s.node[m].leader # m THEN [a EXCEPT !.task[m][Serve(c)] = Idle]
                        ELSE IF f.tx > s.node[m].tx THEN [d EXCEPT !.task[m][Serve(c)] = g]
                        ELSE Serving(e, m, c)
    BY DEF Decide
<1>2. s \in State
    BY DEF Good
<1>3. c # m
    BY DEF Good, Alone, Open
<1>4. CASE s.node[m].leader # m
  <2>1. Wanes(s, a)
      BY <1>2, ReplyWanes
  <2> HIDE DEF a
  <2>2. a \in State
      BY <2>1 DEF Wanes
  <2>3. Wanes(a, [a EXCEPT !.task[m][Serve(c)] = Idle])
      BY <2>2, GivenUp, Kinds
  <2> QED
      BY <1>1, <1>4, <2>1, <2>3, WanesOn, WanesGood
<1>5. CASE s.node[m].leader = m /\ f.tx > s.node[m].tx
  <2>1. Wanes(s, b)
      BY <1>2, RetireWanes
  <2> HIDE DEF b
  <2>2. b \in State
      BY <2>1 DEF Wanes
  <2>3. Wanes(b, d)
      BY <2>2, ReplyWanes
  <2> HIDE DEF d
  <2>4. Good(d)
      BY <2>1, <2>3, WanesGood
  <2>5. /\ Calling(c, 1) \in Frame /\ Calling(c, 1).pc = "lock"
        /\ Calling(c, 1).peer # None
      BY CallingFramed DEF Framed
  <2>6. g \in Framed /\ g.pc \notin Owed /\ g.answered
      BY <2>5 DEF Framed, Frame, Owed
  <2> HIDE DEF g
  <2>7. Good([d EXCEPT !.task[m][Serve(c)] = g])
      BY <1>3, <2>4, <2>6, ServeSet
  <2> QED
      BY <1>1, <1>5, <2>7
<1>6. CASE s.node[m].leader = m /\ ~(f.tx > s.node[m].tx)
  <2>1. n \in NodeState /\ NodeWanes(s.node[m], n)
    <3>1. s.node[m] \in NodeState
        BY <1>2, Parts
    <3> QED
        BY <3>1 DEF NodeState, NodeWanes
  <2> HIDE DEF n
  <2>2. Wanes(s, e)
      BY <1>2, <2>1, NodeSet
  <2>3. e.ask = s.ask /\ e.node[m] = n
      BY <1>2 DEF State
  <2> HIDE DEF e
  <2>4. Good(e)
      BY <2>2, WanesGood
  <2>5. s.ask[c].to = m => f.tx = s.ask[c].had
      BY DEF Good, Recalled
  <2>6. f.tx \in Nat /\ n.tx = s.node[m].tx /\ s.node[m].tx \in Nat
      BY <1>2, <2>1, Parts, Kinds DEF Framed, Frame, NodeState, NodeWanes
  <2>7. s.ask[c].to = m => e.node[m].tx >= e.ask[c].had
      BY <1>6, <2>3, <2>5, <2>6
  <2>8. Good(Serving(e, m, c))
      BY <1>3, <2>3, <2>4, <2>7, ServingGood
  <2> QED
      BY <1>1, <1>6, <2>8
<1> QED
    BY <1>4, <1>5, <1>6

\* connect_to_leader returns to whatever called it.
LEMMA FinishGood ==
    ASSUME NEW s, Good(s), NEW m \in Member, NEW k \in Kind, NEW ok \in BOOLEAN,
           \A c \in Member : k = Serve(c) => s.task[m][k].pc \in Open
    PROVE  Good(Finish(s, m, k, ok))
<1> DEFINE f == s.task[m][k]
           owed == f.owe = 2 \/ (f.owe = 1 /\ ~ok)
           r == IF owed THEN Retry(s, m) ELSE s
           v == Unlock(r, m, k)
           t == Release(r, m, k)
           g == [Idle EXCEPT !.pc = "next", !.cand = f.cand]
<1>1. Finish(s, m, k, ok) =
        CASE k = Start -> [t EXCEPT !.task[m][k] = g]
          [] k = Follow -> IF ok THEN t ELSE Over(t, m)
          [] k[1] = "serve" /\ ~f.answered -> Decide(t, m, k[2])
          [] OTHER -> [t EXCEPT !.task[m][k] = Idle]
    BY DEF Finish
<1>2. s \in State /\ f \in Frame
  <2>1. s \in State
      BY DEF Good
  <2>2. f \in Framed
      BY <2>1, Parts
  <2> QED
      BY <2>1, <2>2 DEF Framed
<1>3. g \in Framed
    BY <1>2, Values DEF Framed, Frame, Idle
<1> HIDE DEF g, owed
<1>4. Wanes(s, r) /\ r.task = s.task
    BY <1>2, RetryWanes, WanesSame
<1> HIDE DEF r
<1>5. r \in State
    BY <1>4 DEF Wanes
<1>6. Wanes(r, v) /\ v.task = r.task
    BY <1>5, UnlockWanes
<1>7. t \in {r, [v EXCEPT !.ask[m] = NoAsk]}
    BY DEF Release
<1> HIDE DEF v, t
<1>8. v \in State
    BY <1>6 DEF Wanes
<1>9. Wanes(v, [v EXCEPT !.ask[m] = NoAsk]) /\ [v EXCEPT !.ask[m] = NoAsk].task = v.task
    BY <1>8, GivenUp DEF State
<1>10. Wanes(s, t) /\ t.task = s.task
  <2> DEFINE w == [v EXCEPT !.ask[m] = NoAsk]
  <2>1. Wanes(r, w) /\ w.task = r.task
    <3>1. Wanes(v, w) /\ w.task = v.task
        BY <1>9
    <3> HIDE DEF w
    <3> QED
        BY <1>6, <3>1, WanesOn
  <2>2. t \in {r, w}
      BY <1>7
  <2> HIDE DEF w
  <2>3. Wanes(s, w)
      BY <1>4, <2>1, WanesOn
  <2> QED
      BY <1>4, <2>1, <2>2, <2>3
<1>11. t \in State /\ Good(t)
    BY <1>10, WanesGood DEF Wanes
<1>12. CASE k = Start
  <2>1. Wanes(t, [t EXCEPT !.task[m][k] = g])
      BY <1>3, <1>11, <1>12, Kinds, FrameSet
  <2>2. Finish(s, m, k, ok) = [t EXCEPT !.task[m][k] = g]
      BY <1>1, <1>12, Kinds
  <2> QED
      BY <1>11, <2>1, <2>2, WanesGood
<1>13. CASE k = Follow
  <2>1. Wanes(t, Over(t, m))
      BY <1>11, OverWanes
  <2>2. Finish(s, m, k, ok) \in {t, Over(t, m)}
      BY <1>1, <1>13, Kinds
  <2> QED
      BY <1>11, <2>1, <2>2, WanesGood
<1>14. CASE k # Start /\ k # Follow /\ k[1] = "serve" /\ ~f.answered
  <2>1. PICK c \in Member : k = Serve(c)
      BY <1>14, Kinds
  <2>2. k[2] = c
      BY <2>1, Kinds
  <2>3. Good(Decide(t, m, c))
      BY <1>10, <1>11, <1>14, <2>1, DecideGood
  <2> QED
      BY <1>1, <1>14, <2>2, <2>3
<1>15. CASE k # Start /\ k # Follow /\ ~(k[1] = "serve" /\ ~f.answered)
  <2>1. Wanes(t, [t EXCEPT !.task[m][k] = Idle])
      BY <1>11, GivenUp
  <2>2. Finish(s, m, k, ok) = [t EXCEPT !.task[m][k] = Idle]
      BY <1>1, <1>15
  <2> QED
      BY <1>11, <2>1, <2>2, WanesGood
<1> QED
    BY <1>12, <1>13, <1>14, <1>15

\* _assimilate_missing returns.
LEMMA ProbedGood ==
    ASSUME NEW s, Good(s), NEW m \in Member, NEW k \in Kind, s.task[m][k].pc \in Open
    PROVE  Good(Probed(s, m, k))
<1> DEFINE f == [Idle EXCEPT !.pc = "sleep"]
           t == [s EXCEPT !.task[m][k] = f]
<1>1. Probed(s, m, k) = IF k = Missing THEN t ELSE Finish(s, m, k, FALSE)
    BY DEF Probed
<1>2. f \in Framed
    BY Values DEF Framed, Frame, Idle
<1> HIDE DEF f
<1>3. k = Missing => Good(t)
    BY <1>2, Kinds, FrameSet, WanesGood DEF Good
<1> HIDE DEF t
<1>4. Good(Finish(s, m, k, FALSE))
    BY FinishGood
<1> QED
    BY <1>1, <1>3, <1>4

\* The 'connect' operation of a member whose handler for the client is free.
\* Who connects to itself finds its own lock.
LEMMA ReceiveGood ==
    ASSUME NEW s, Good(s), NEW m \in Member, NEW c \in Member,
           c = m => s.node[m].held # NoTask
    PROVE  Good(Receive(s, m, c))
<1> DEFINE f == [Idle EXCEPT !.pc = "decide", !.peer = c, !.tx = s.ask[c].had]
           t == [s EXCEPT !.task[m][Serve(c)] = f]
           b == Become(t, m, Serve(c))
           led == Probing(b, m, Serve(c), c)
<1>1. Receive(s, m, c) =
        IF s.node[m].held # NoTask \/ s.node[m].initting THEN Reply(s, m, c, "backoff")
        ELSE IF LeaderInit(s, m) THEN Reply(s, m, c, "wait")
        ELSE IF s.node[m].leader \notin {None, c} \/ m \notin Voting THEN Decide(t, m, c)
        ELSE IF led.task[m][Serve(c)].todo = {} THEN Decide(led, m, c)
        ELSE led
    BY DEF Receive
<1>2. s \in State /\ Serve(c) \in Kind
    BY Kinds DEF Good
<1>3. Good(Reply(s, m, c, "backoff")) /\ Good(Reply(s, m, c, "wait"))
    BY <1>2, ReplyWanes, WanesGood
<1>4. CASE s.node[m].held # NoTask
    BY <1>1, <1>3, <1>4
<1>5. CASE s.node[m].held = NoTask
  <2>1. s.ask[c] \in Request
      BY <1>2, Parts DEF Asking
  <2>2. f \in Framed /\ f.pc = "decide" /\ ~f.answered /\ f.tx = s.ask[c].had
      BY <2>1, Values DEF Framed, Frame, Idle, Request
  <2>3. t.task[m][Serve(c)] = f
      BY <1>2 DEF State
  <2> HIDE DEF f
  <2>4. Good(t)
      BY <1>5, <2>2, ServeSet DEF Owed
  <2> HIDE DEF t
  <2>5. t \in State
      BY <2>4 DEF Good
  <2>6. Good(Decide(t, m, c))
      BY <2>2, <2>3, <2>4, DecideGood DEF Open
  <2>7. Wanes(t, b) /\ b.task[m][Serve(c)] = f
      BY <1>2, <2>3, <2>5, BecomeWanes
  <2> HIDE DEF b
  <2>8. b \in State
      BY <2>7 DEF Wanes
  <2>9. b.task[m][Serve(c)].pc \in Open
      BY <2>2, <2>7 DEF Open
  <2>10. /\ Wanes(b, led) /\ led.task[m][Serve(c)].pc = "probe"
         /\ led.task[m][Serve(c)].answered = f.answered
      BY <1>2, <2>7, <2>8, <2>9, ProbingWanes
  <2> HIDE DEF led
  <2>11. Good(led)
      BY <2>4, <2>7, <2>10, WanesGood
  <2>12. Good(Decide(led, m, c))
      BY <2>2, <2>10, <2>11, DecideGood DEF Open
  <2> QED
      BY <1>1, <1>3, <1>5, <2>6, <2>11, <2>12
<1> QED
    BY <1>4, <1>5

\* The 'assimilate' operation.
LEMMA AskedGood ==
    ASSUME NEW s, Good(s), NEW d \in Member, NEW a \in Member
    PROVE  Good(Asked(s, d, a))
<1> DEFINE t == IF Streams(s, d) = {} THEN s ELSE Retire(s, d, a)
           f == Calling(a, 1)
           u == [t EXCEPT !.task[d][Assimilate(a)] = f]
<1>1. Asked(s, d, a) \in {s, u}
    BY DEF Asked
<1>2. s \in State
    BY DEF Good
<1>3. f \in Framed
    BY CallingFramed
<1> HIDE DEF f
<1>4. Wanes(s, t)
    BY <1>2, RetireWanes, WanesSame
<1> HIDE DEF t
<1>5. t \in State
    BY <1>4 DEF Wanes
<1>6. Wanes(t, u)
    BY <1>3, <1>5, Kinds, FrameSet
<1> HIDE DEF u
<1>7. Good(u)
    BY <1>4, <1>6, WanesGood
<1> QED
    BY <1>1, <1>7

\* relay_slaved_requests registers a stream: the member follows nobody by then.
LEMMA AttachGood ==
    ASSUME NEW s, Good(s), NEW m \in Member, NEW c \in Member,
           s.task[m][Serve(c)].pc \in {"drain", "attach"}
    PROVE  Good(Attach(s, m, c))
<1> DEFINE a == StopFollowing(s, m, "none")
           b == [a EXCEPT !.task[m][Serve(c)] = Idle]
           x == IF s.ask[c].to = m \/ s.node[c].link = m THEN "live" ELSE "stale"
           t == [b EXCEPT !.relay[m][c] = x]
<1>1. Attach(s, m, c) = t
    BY DEF Attach
<1>2. s \in State /\ c # m /\ Serve(c) \in Kind
    BY Kinds DEF Good, Alone
<1>3. Wanes(s, a) /\ a.task = s.task /\ a.node[m].cfg = "none"
    BY <1>2, StopFollowingWanes
<1>4. x \in Stream
    BY DEF Stream
<1> HIDE DEF x, a
<1>5. a \in State /\ Good(a)
    BY <1>3, WanesGood DEF Wanes
<1>6. a.task[m][Serve(c)].pc \in Owed
    BY <1>3 DEF Owed
<1>7. /\ b \in State /\ b.node = a.node /\ b.relay = a.relay /\ b.ask = a.ask
      /\ b.task = [a.task EXCEPT ![m][Serve(c)] = Idle]
    BY <1>5, Values DEF State
<1>8. Good(b)
  <2>1. Wanes(a, b)
      BY <1>2, <1>5, GivenUp
  <2> QED
      BY <1>5, <2>1, WanesGood
<1> HIDE DEF b
<1>9. /\ t \in State /\ t.node = b.node /\ t.task = b.task /\ t.ask = b.ask
      /\ t.relay = [b.relay EXCEPT ![m][c] = x]
    BY <1>4, <1>7 DEF State
<1> HIDE DEF t
<1>10. Alone(t)
    BY <1>2, <1>8, <1>9 DEF Good, Alone, State
<1>11. Chainless(t)
  <2>1. ASSUME NEW l \in Member, t.node[l].cfg = "leader"
        PROVE  Streams(t, l) = {}
    <3>1. l # m /\ b.node[l].cfg = "leader"
        BY <1>3, <1>7, <1>9, <2>1
    <3>2. t.relay[l] = b.relay[l]
        BY <1>7, <1>9, <3>1 DEF State
    <3> QED
        BY <1>8, <3>1, <3>2 DEF Good, Chainless, Streams
  <2> QED
      BY <2>1 DEF Chainless
<1>12. Recalled(t)
    BY <1>8, <1>9 DEF Good, Recalled
<1>13. Met(t)
  <2>1. ASSUME NEW l \in Member, NEW d \in Member, t.ask[d].to = l, Owes(t, l, d)
        PROVE  t.node[l].older \/ t.node[l].tx >= t.ask[d].had
    <3>1. CASE l = m /\ d = c
      <4>1. Owes(a, l, d)
          BY <1>6, <3>1 DEF Owes, Owed
      <4> QED
          BY <1>5, <1>7, <1>9, <2>1, <4>1 DEF Good, Met
    <3>2. CASE ~(l = m /\ d = c)
      <4>1. t.relay[l][d] = b.relay[l][d]
          BY <1>7, <1>9, <3>2 DEF State
      <4>2. Owes(b, l, d)
          BY <1>9, <2>1, <4>1 DEF Owes
      <4> QED
          BY <1>8, <1>9, <2>1, <4>2 DEF Good, Met
    <3> QED
        BY <3>1, <3>2
  <2> QED
      BY <2>1 DEF Met
<1>14. Dumped(t)
    BY <1>8, <1>9 DEF Good, Dumped
<1> QED
    BY <1>1, <1>9, <1>10, <1>11, <1>12, <1>13, <1>14 DEF Good

\* A new request, which the peer has no handler for yet.
LEMMA AskSet ==
    ASSUME NEW s, Good(s), NEW m \in Member, NEW p \in Member, NEW a \in Asking,
           a.answer = "none", a.to = p, s.task[p][Serve(m)].pc = "idle"
    PROVE  Good([s EXCEPT !.ask[m] = a])
<1> DEFINE t == [s EXCEPT !.ask[m] = a]
<1>1. /\ t \in State /\ t.ask = [s.ask EXCEPT ![m] = a]
      /\ t.node = s.node /\ t.task = s.task /\ t.relay = s.relay
    BY DEF Good, State
<1>2. t.ask[m] = a /\ \A c \in Member : c # m => t.ask[c] = s.ask[c]
    BY <1>1 DEF Good, State
<1> HIDE DEF t
<1>3. Alone(t) /\ Chainless(t)
    BY <1>1 DEF Good, Alone, Chainless, Streams
<1>4. Recalled(t)
    BY <1>1, <1>2 DEF Good, Recalled, Open
<1>5. Met(t)
  <2>1. ASSUME NEW l \in Member, NEW c \in Member, t.ask[c].to = l, Owes(t, l, c)
        PROVE  t.node[l].older \/ t.node[l].tx >= t.ask[c].had
    <3>1. c # m
        BY <1>1, <1>2, <2>1 DEF Owes
    <3>2. Owes(s, l, c)
        BY <1>1, <1>2, <2>1, <3>1 DEF Owes
    <3> QED
        BY <1>1, <1>2, <2>1, <3>1, <3>2 DEF Good, Met
  <2> QED
      BY <2>1 DEF Met
<1>6. Dumped(t)
  <2>1. ASSUME NEW c \in Member, t.ask[c].answer = "dump"
        PROVE  c # m
      BY <1>2, <2>1
  <2> QED
      BY <1>1, <1>2, <2>1 DEF Good, Dumped
<1>7. Good(t)
    BY <1>1, <1>3, <1>4, <1>5, <1>6 DEF Good
<1> QED
    BY <1>7 DEF t

\* The globals of a member may follow a leader once it has no streams, and its
\* count may fall as long as it remembers whom it lets down.
LEMMA NodeGood ==
    ASSUME NEW s, Good(s), NEW m \in Member, NEW n \in NodeState,
           n.cfg = "leader" => Streams(s, m) = {},
           s.node[m].older => n.older,
           n.older \/ \A c \in Member : s.ask[c].to = m /\ Owes(s, m, c)
                                        => n.tx >= s.ask[c].had
    PROVE  Good([s EXCEPT !.node[m] = n])
<1> DEFINE t == [s EXCEPT !.node[m] = n]
<1>1. /\ t \in State /\ t.node = [s.node EXCEPT ![m] = n]
      /\ t.ask = s.ask /\ t.task = s.task /\ t.relay = s.relay
    BY DEF Good, State
<1>2. t.node[m] = n /\ \A c \in Member : c # m => t.node[c] = s.node[c]
    BY <1>1 DEF Good, State
<1> HIDE DEF t
<1>3. Alone(t) /\ Recalled(t)
    BY <1>1 DEF Good, Alone, Recalled
<1>4. Chainless(t)
  <2>1. \A c \in Member : Streams(t, c) = Streams(s, c)
      BY <1>1 DEF Streams
  <2> QED
      BY <1>2, <2>1 DEF Good, Chainless
<1>5. Met(t)
  <2>1. \A l, c \in Member : Owes(t, l, c) => Owes(s, l, c)
      BY <1>1 DEF Owes
  <2> QED
      BY <1>1, <1>2, <2>1 DEF Good, Met
<1>6. Dumped(t)
  <2>1. \A l \in Member : s.node[l].older => t.node[l].older
      BY <1>2
  <2> QED
      BY <1>1, <2>1 DEF Good, Dumped
<1>7. Good(t)
    BY <1>1, <1>3, <1>4, <1>5, <1>6 DEF Good
<1> QED
    BY <1>7 DEF t

\* A frame that goes on as the code says, from one wait to another.
LEMMA FrameGood ==
    ASSUME NEW s, Good(s), NEW m \in Member, NEW k \in Kind, NEW f \in Framed,
           \A c \in Member : k = Serve(c) => FrameWanes(s.task[m][k], f)
    PROVE  Good([s EXCEPT !.task[m][k] = f])
BY FrameSet, WanesGood DEF Good

-----------------------------------------------------------------------------
(* The actions *)

\* The variables, as the record that the operators take.
LEMMA HereParts ==
    Here.node = node /\ Here.task = task /\ Here.relay = relay /\ Here.ask = ask
BY DEF Here

\* The next state is the one that the operators give.
LEMMA BecomesGood ==
    ASSUME NEW s, Good(s), Becomes(s)
    PROVE  Good(Here)'
<1> DEFINE t == [node |-> s.node, task |-> s.task, relay |-> s.relay, ask |-> s.ask]
<1>1. /\ t.node = s.node /\ t.task = s.task /\ t.relay = s.relay /\ t.ask = s.ask
      /\ (s \in State => t \in State)
    BY DEF State
<1> HIDE DEF t
<1>2. Alone(t) /\ Chainless(t) /\ Recalled(t) /\ Dumped(t)
    BY <1>1 DEF Good, Alone, Chainless, Recalled, Dumped, Streams
<1>3. Met(t)
    BY <1>1 DEF Good, Met, Owes
<1>4. Good(t)
    BY <1>1, <1>2, <1>3 DEF Good
<1>5. Here' = t
    BY DEF Becomes, Here, t
<1> QED
    BY <1>4, <1>5

\* start_collective begins.
LEMMA StartFiresGood ==
    ASSUME Good(Here), NEW m \in Member, StartFires(m)
    PROVE  Good(Here)'
<1> DEFINE n == [Here.node[m] EXCEPT !.retry = FALSE, !.initting = TRUE]
           s == [Here EXCEPT !.node[m] = n]
           others == Voting \ {m}
           unled == node[m].cfg = "none" /\ others # {}
           o == [s.node[m] EXCEPT !.cfg = IF unled THEN "dead" ELSE @]
           t == [s EXCEPT !.node[m] = o]
           f == [Idle EXCEPT !.pc = "next", !.cand = others]
           u == [t EXCEPT !.task[m][Start] = f]
<1>1. Becomes(StartReturns(s, m)) \/ Becomes(u)
  <2> DEFINE w == [Here EXCEPT !.node[m].retry = FALSE, !.node[m].initting = TRUE]
             v(x) == [x EXCEPT !.node[m].cfg = IF unled THEN "dead" ELSE @,
                               !.task[m][Start] = f]
  <2>1. Becomes(StartReturns(w, m)) \/ Becomes(v(w))
      BY DEF StartFires
  <2>2. w = s
      OBVIOUS
  <2> HIDE DEF w, s
  <2>3. v(s) = u
      OBVIOUS
  <2> QED
      BY <2>1, <2>2, <2>3
<1>2. Here \in State
    BY DEF Good
<1>3. n \in NodeState /\ NodeWanes(Here.node[m], n)
  <2>1. Here.node[m] \in NodeState
      BY <1>2, Parts
  <2> QED
      BY <2>1 DEF NodeState, NodeWanes
<1> HIDE DEF n
<1>4. Wanes(Here, s)
    BY <1>2, <1>3, NodeSet
<1> HIDE DEF s
<1>5. s \in State /\ Good(s)
    BY <1>4, WanesGood DEF Wanes
<1>6. Good(StartReturns(s, m))
    BY <1>5, StartReturnsWanes, WanesGood
<1>7. o \in NodeState /\ NodeWanes(s.node[m], o)
  <2>1. s.node[m] \in NodeState
      BY <1>5, Parts
  <2> QED
      BY <2>1 DEF NodeState, NodeWanes
<1> HIDE DEF o
<1>8. Good(t)
    BY <1>5, <1>7, NodeSet, WanesGood
<1> HIDE DEF t
<1>9. others \subseteq Member
    BY VotingAssumption
<1> HIDE DEF others
<1>10. f \in Framed
    BY <1>9, Values DEF Framed, Frame, Idle
<1> HIDE DEF f
<1>11. Good(u)
    BY <1>8, <1>10, Kinds, FrameGood
<1> HIDE DEF u
<1> QED
    BY <1>1, <1>6, <1>11, BecomesGood

\* start_collective goes on to its next candidate.
LEMMA StartNextGood ==
    ASSUME Good(Here), NEW m \in Member, StartNext(m)
    PROVE  Good(Here)'
<1> DEFINE cand == IF node[m].follower THEN {}
                   ELSE {c \in task[m][Start].cand : node[c].up}
           f(c) == [Calling(c, 0) EXCEPT !.cand = cand \ {c}]
<1>1. Here \in State
    BY DEF Good
<1>2. \/ Becomes(StartReturns(Here, m))
      \/ \E c \in cand : Becomes([Here EXCEPT !.task[m][Start] = f(c)])
    BY DEF StartNext
<1>3. Good(StartReturns(Here, m))
    BY <1>1, StartReturnsWanes, WanesGood
<1>4. cand \subseteq Member
  <2>1. Here.task[m][Start] \in Framed
      BY <1>1, Parts, Kinds
  <2> QED
      BY <2>1, HereParts DEF Framed, Frame
<1> HIDE DEF cand
<1>5. ASSUME NEW c \in cand
      PROVE  Good([Here EXCEPT !.task[m][Start] = f(c)])
  <2>1. c \in Member
      BY <1>4
  <2>2. Calling(c, 0) \in Framed
      BY <2>1, CallingFramed
  <2>3. f(c) \in Framed
      BY <1>4, <2>2 DEF Framed, Frame
  <2> QED
      BY <2>3, Kinds, FrameGood
<1> QED
    BY <1>2, <1>3, <1>5, BecomesGood

\* The request is sent, and received.
LEMMA ConnectGood ==
    ASSUME Good(Here), NEW m \in Member, NEW k \in Kind, Connect(m, k)
    PROVE  Good(Here)'
<1> DEFINE p == task[m][k].peer
           n == [Here.node[m] EXCEPT !.held = k]
           r == [Here EXCEPT !.node[m] = n]
           f == [r.task[m][k] EXCEPT !.pc = "sent"]
           u == [r EXCEPT !.task[m][k] = f]
           a == [NoAsk EXCEPT !.to = p, !.had = node[m].tx]
           s == [u EXCEPT !.ask[m] = a]
<1>1. Here \in State /\ task[m][k].pc = "lock"
    BY DEF Good, Connect
<1>2. Here.task[m][k] \in Framed /\ Here.task[m][k] = task[m][k]
    BY <1>1, Parts, HereParts
<1>3. p \in Member
    BY <1>1, <1>2 DEF Framed, Frame
<1>4. \/ Becomes(Finish(Here, m, k, FALSE))
      \/ task[p][Serve(m)] = Idle /\ Becomes(Receive(s, p, m))
    BY DEF Connect
<1> HIDE DEF p
<1>5. Good(Finish(Here, m, k, FALSE))
    BY <1>1, <1>2, FinishGood DEF Open
<1>6. ASSUME task[p][Serve(m)] = Idle
      PROVE  Good(Receive(s, p, m))
  <2>1. /\ n \in NodeState /\ NodeWanes(Here.node[m], n)
        /\ n.held = k /\ n.tx = Here.node[m].tx
      BY <1>1, Parts DEF NodeState, NodeWanes
  <2> HIDE DEF n
  <2>2. Good(r)
      BY <1>1, <2>1, NodeSet, WanesGood
  <2>3. r.task = task /\ r.node[m] = n
      BY <1>1, HereParts DEF State
  <2> HIDE DEF r
  <2>4. /\ f \in Framed /\ f.pc = "sent" /\ f.tx = task[m][k].tx
        /\ f.answered = task[m][k].answered
      BY <1>1, <1>2, <2>3 DEF Framed, Frame
  <2> HIDE DEF f
  <2>5. FrameWanes(r.task[m][k], f)
      BY <1>1, <2>3, <2>4 DEF FrameWanes, Open, Owed
  <2>6. Good(u)
      BY <2>2, <2>4, <2>5, FrameGood
  <2>7. u.task = [task EXCEPT ![m][k] = f] /\ u.node = r.node
      BY <2>2, <2>3 DEF Good, State
  <2>8. u.task[p][Serve(m)].pc = "idle"
    <3>1. Serve(m) \in Kind /\ task[p][Serve(m)].pc = "idle"
        BY <1>6, Kinds, Values
    <3>2. ~(p = m /\ Serve(m) = k)
        BY <1>1, <3>1
    <3>3. task \in [Member -> [Kind -> Framed]]
        BY <1>1, HereParts DEF State
    <3> QED
        BY <1>3, <2>7, <3>1, <3>2, <3>3
  <2> HIDE DEF u
  <2>9. node[m].tx \in Nat
      BY <1>1, Parts, HereParts DEF NodeState
  <2>10. a \in Asking /\ a.answer = "none" /\ a.to = p
      BY <1>3, <2>9, Values DEF Asking, Request, NoAsk
  <2> HIDE DEF a
  <2>11. Good(s)
      BY <1>3, <2>6, <2>8, <2>10, AskSet
  <2>12. s.node = u.node
      BY <2>6 DEF Good, State
  <2>13. p = m => s.node[p].held # NoTask
      BY <2>1, <2>3, <2>7, <2>12, Kinds
  <2> HIDE DEF s
  <2> QED
      BY <1>3, <2>11, <2>13, ReceiveGood
<1> HIDE DEF s
<1> QED
    BY <1>4, <1>5, <1>6, BecomesGood

\* The peer has declined, or is gone.
LEMMA DeclinedGood ==
    ASSUME Good(Here), NEW m \in Member, NEW k \in Kind, Declined(m, k)
    PROVE  Good(Here)'
<1> DEFINE a == ask[m]
           f(p) == [Here.task[m][k] EXCEPT !.pc = "lock", !.peer = p]
           again(p) == [[Here EXCEPT !.task[m][k] = f(p)] EXCEPT !.ask[m] = NoAsk]
<1>1. Here \in State /\ task[m][k].pc = "sent"
    BY DEF Good, Declined
<1>2. Here.task[m][k] \in Framed /\ Here.task[m][k] = task[m][k]
    BY <1>1, Parts, HereParts
<1>3. Becomes(CASE a.answer = "wait" -> again(a.to)
                [] a.answer = "redirect" /\ a.leader = m -> Failed(Here, m, k)
                [] a.answer = "redirect" /\ a.leader # None -> again(a.leader)
                [] OTHER -> Finish(Here, m, k, FALSE))
  <2> DEFINE w(p) == [Here EXCEPT !.task[m][k].pc = "lock", !.task[m][k].peer = p,
                                  !.ask[m] = NoAsk]
  <2>1. Becomes(CASE a.answer = "wait" -> w(a.to)
                  [] a.answer = "redirect" /\ a.leader = m -> Failed(Here, m, k)
                  [] a.answer = "redirect" /\ a.leader # None -> w(a.leader)
                  [] OTHER -> Finish(Here, m, k, FALSE))
      BY DEF Declined
  <2>2. ASSUME NEW p
        PROVE  w(p) = again(p)
    <3>1. [Here EXCEPT !.task[m][k].pc = "lock", !.task[m][k].peer = p]
          = [Here EXCEPT !.task[m][k] = f(p)]
        BY <1>1 DEF State
    <3> QED
        BY <3>1
  <2> HIDE DEF w, again
  <2> QED
      BY <2>1, <2>2
<1>4. Good(Finish(Here, m, k, FALSE)) /\ Good(Failed(Here, m, k))
    BY <1>1, <1>2, FinishGood, FailedWanes, WanesGood DEF Open
<1>5. ASSUME NEW p \in Member
      PROVE  Good(again(p))
  <2>1. /\ f(p) \in Framed /\ f(p).pc = "lock" /\ f(p).tx = task[m][k].tx
        /\ f(p).answered = task[m][k].answered
      BY <1>2, Values DEF Framed, Frame
  <2>2. FrameWanes(Here.task[m][k], f(p))
      BY <1>1, <1>2, <2>1 DEF FrameWanes, Open, Owed
  <2>3. Good([Here EXCEPT !.task[m][k] = f(p)])
      BY <2>1, <2>2, FrameGood
  <2>4. Wanes([Here EXCEPT !.task[m][k] = f(p)], again(p))
      BY <2>3, GivenUp DEF Good
  <2> QED
      BY <2>3, <2>4, WanesGood
<1>6. a \in Asking
    BY <1>1, Parts, HereParts
<1>7. a.answer = "wait" => a.to \in Member
    BY <1>6 DEF Asking, Request
<1>8. a.leader # None => a.leader \in Member
    BY <1>6 DEF Asking, Request
<1> HIDE DEF again
<1>9. CASE a.answer = "wait"
  <2>1. Becomes(again(a.to))
      BY <1>3, <1>9
  <2> QED
      BY <1>5, <1>7, <1>9, <2>1, BecomesGood
<1>10. CASE a.answer # "wait"
  <2>1. \/ Becomes(Failed(Here, m, k)) \/ Becomes(Finish(Here, m, k, FALSE))
        \/ a.leader # None /\ Becomes(again(a.leader))
      BY <1>3, <1>10
  <2> QED
      BY <1>4, <1>5, <1>8, <2>1, BecomesGood
<1> QED
    BY <1>9, <1>10

\* The peer has fewer transactions: the member becomes the leader.
LEMMA InferiorGood ==
    ASSUME Good(Here), NEW m \in Member, NEW k \in Kind, Inferior(m, k)
    PROVE  Good(Here)'
<1> DEFINE f == [Here.task[m][k] EXCEPT !.owe = IF @ = 0 THEN 0 ELSE 2]
           h == [Here EXCEPT !.ask[m] = NoAsk]
           s == [h EXCEPT !.task[m][k] = f]
           b == Become(s, m, k)
           led == Probing(b, m, k, task[m][k].peer)
           v == Unlock(led, m, k)
           aborted == [v EXCEPT !.task[m][k] = Idle]
<1>1. Here \in State /\ task[m][k].pc = "sent"
    BY DEF Good, Inferior
<1>2. Here.task[m][k] \in Framed /\ Here.task[m][k] = task[m][k]
    BY <1>1, Parts, HereParts
<1>3. Becomes(Finish(b, m, k, FALSE)) \/ Becomes(aborted) \/ Becomes(led)
  <2> DEFINE w == [Here EXCEPT !.ask[m] = NoAsk,
                               !.task[m][k].owe = IF @ = 0 THEN 0 ELSE 2]
             wled == Probing(Become(w, m, k), m, k, task[m][k].peer)
  <2>1. \/ Becomes(Finish(Become(w, m, k), m, k, FALSE))
        \/ Becomes([Unlock(wled, m, k) EXCEPT !.task[m][k] = Idle])
        \/ Becomes(wled)
      BY DEF Inferior
  <2>2. w = s
      BY <1>1 DEF State
  <2> HIDE DEF w, s
  <2> QED
      BY <2>1, <2>2
<1>4. /\ f \in Framed /\ f.pc = "sent" /\ f.tx = task[m][k].tx
      /\ f.answered = task[m][k].answered
    BY <1>1, <1>2 DEF Framed, Frame
<1> HIDE DEF f
<1>5. Wanes(Here, h) /\ h.task = task
    BY <1>1, GivenUp, HereParts DEF State
<1> HIDE DEF h
<1>6. h \in State /\ Good(h)
    BY <1>5, WanesGood DEF Wanes
<1>7. FrameWanes(h.task[m][k], f)
    BY <1>1, <1>4, <1>5 DEF FrameWanes, Open, Owed
<1>8. Good(s)
    BY <1>4, <1>6, <1>7, FrameGood
<1>9. s.task[m][k] = f
    BY <1>6 DEF State
<1> HIDE DEF s
<1>10. s \in State
    BY <1>8 DEF Good
<1>11. Wanes(s, b) /\ \A c \in Member : b.task[m][Serve(c)] = s.task[m][Serve(c)]
    BY <1>10, BecomeWanes
<1>12. \A c \in Member : k = Serve(c) => b.task[m][k].pc \in Open
    BY <1>4, <1>9, <1>11 DEF Open
<1> HIDE DEF b
<1>13. b \in State /\ Good(b)
    BY <1>8, <1>11, WanesGood DEF Wanes
<1>14. Good(Finish(b, m, k, FALSE))
    BY <1>12, <1>13, FinishGood
<1>15. Wanes(b, led)
    BY <1>12, <1>13, ProbingWanes
<1> HIDE DEF led
<1>16. led \in State /\ Good(led)
    BY <1>13, <1>15, WanesGood DEF Wanes
<1>17. Wanes(led, v)
    BY <1>16, UnlockWanes
<1> HIDE DEF v
<1>18. v \in State /\ Good(v)
    BY <1>16, <1>17, WanesGood DEF Wanes
<1>19. Wanes(v, aborted)
    BY <1>18, GivenUp
<1> HIDE DEF aborted
<1>20. Good(aborted)
    BY <1>18, <1>19, WanesGood
<1> QED
    BY <1>3, <1>14, <1>16, <1>20, BecomesGood

\* The peer has accepted the member.
LEMMA AcceptedGood ==
    ASSUME Good(Here), NEW m \in Member, NEW k \in Kind, Accepted(m, k)
    PROVE  Good(Here)'
<1> DEFINE a == CancelFollower(Here, m, k)
           f == [a.task[m][k] EXCEPT !.pc = "dump"]
           t == [a EXCEPT !.task[m][k] = f]
<1>1. Here \in State /\ task[m][k].pc = "sent"
    BY DEF Good, Accepted
<1>2. Becomes(t)
    BY DEF Accepted
<1>3. Here.task[m][k] \in Framed /\ Here.task[m][k] = task[m][k]
    BY <1>1, Parts, HereParts
<1>4. Wanes(Here, a) /\ a.task[m][k] = task[m][k]
    BY <1>1, <1>3, CancelFollowerWanes
<1> HIDE DEF a
<1>5. Good(a)
    BY <1>4, WanesGood
<1>6. /\ f \in Framed /\ f.pc = "dump" /\ f.tx = a.task[m][k].tx
      /\ f.answered = a.task[m][k].answered
    BY <1>1, <1>3, <1>4 DEF Framed, Frame
<1> HIDE DEF f
<1>7. FrameWanes(a.task[m][k], f)
    BY <1>1, <1>4, <1>6 DEF FrameWanes, Open, Owed
<1>8. Good(t)
    BY <1>5, <1>6, <1>7, FrameGood
<1> HIDE DEF t
<1> QED
    BY <1>2, <1>8, BecomesGood

\* A follow task has cancelled itself.
LEMMA AbortedGood ==
    ASSUME Good(Here), NEW m \in Member, Aborted(m)
    PROVE  Good(Here)'
<1> DEFINE p == task[m][Follow].peer
           a == Unlock(Here, m, Follow)
           b == [a EXCEPT !.task[m][Follow] = Idle]
           d == [b EXCEPT !.ask[m] = NoAsk]
           n == [d.node[m] EXCEPT !.told = None]
           e == [d EXCEPT !.node[m] = n]
           x == IF e.relay[p][m] = "live" THEN "stale" ELSE e.relay[p][m]
           t == [e EXCEPT !.relay[p][m] = x]
<1>1. Here \in State /\ task[m][Follow].pc = "dump"
    BY DEF Good, Aborted
<1>2. Becomes([a EXCEPT !.task[m][Follow] = Idle, !.ask[m] = NoAsk, !.node[m].told = None,
                        !.relay[p][m] = IF @ = "live" THEN "stale" ELSE @])
    BY DEF Aborted
<1>3. p \in Member
  <2>1. Here.task[m][Follow] \in Framed
      BY <1>1, Parts, Kinds
  <2> QED
      BY <1>1, <2>1, HereParts DEF Framed, Frame
<1> HIDE DEF p
<1>4. Wanes(Here, a)
    BY <1>1, UnlockWanes, Kinds
<1> HIDE DEF a
<1>5. a \in State
    BY <1>4 DEF Wanes
<1>6. t = [a EXCEPT !.task[m][Follow] = Idle, !.ask[m] = NoAsk, !.node[m].told = None,
                    !.relay[p][m] = IF @ = "live" THEN "stale" ELSE @]
    BY <1>5 DEF State
<1>7. Wanes(a, b)
    BY <1>5, GivenUp, Kinds
<1> HIDE DEF b
<1>8. b \in State
    BY <1>7 DEF Wanes
<1>9. Wanes(b, d)
    BY <1>8, GivenUp, Kinds
<1> HIDE DEF d
<1>10. d \in State
    BY <1>9 DEF Wanes
<1>11. n \in NodeState /\ NodeWanes(d.node[m], n)
  <2>1. d.node[m] \in NodeState
      BY <1>10, Parts
  <2> QED
      BY <2>1, Values DEF NodeState, NodeWanes
<1> HIDE DEF n
<1>12. Wanes(d, e)
    BY <1>10, <1>11, NodeSet
<1> HIDE DEF e
<1>13. e \in State
    BY <1>12 DEF Wanes
<1>14. e.relay[p][m] \in Stream
    BY <1>3, <1>13, Parts
<1>15. x \in Stream /\ StreamWanes(e.relay[p][m], x)
    BY <1>14 DEF Stream, StreamWanes
<1> HIDE DEF x
<1>16. Wanes(e, t)
    BY <1>3, <1>13, <1>15, StreamSet
<1> HIDE DEF t
<1>17. Good(t)
    BY <1>4, <1>7, <1>9, <1>12, <1>16, WanesOn, WanesGood
<1> QED
    BY <1>2, <1>6, <1>17, BecomesGood

\* The database replaces what the member has: whoever has been accepted by it
\* with a higher count is let down.
LEMMA LoadedGood ==
    ASSUME Good(Here), NEW m \in Member, NEW k \in Kind, Loaded(m, k)
    PROVE  Good(Here)'
<1> DEFINE p == task[m][k].peer
           a == StopLeading(Here, m, None)
           s == StopFollowing(a, m, "none")
           n == [s.node[m] EXCEPT !.tx = ask[m].tx, !.older = Older(s, m, ask[m].tx)]
           b == [s EXCEPT !.node[m] = n]
           o == [b.node[m] EXCEPT !.leader = p, !.follower = TRUE, !.link = p]
           t == [b EXCEPT !.node[m] = o]
           u == Finish(t, m, k, TRUE)
           f == [Idle EXCEPT !.pc = "attach", !.peer = p]
           w == [u EXCEPT !.task[m][Follow] = f]
<1>1. Here \in State /\ task[m][k].pc = "dump"
    BY DEF Good, Loaded
<1>2. Becomes(w)
  <2> DEFINE v == [s EXCEPT !.node[m].tx = ask[m].tx, !.node[m].older = Older(s, m, ask[m].tx),
                            !.node[m].leader = p, !.node[m].follower = TRUE,
                            !.node[m].link = p]
  <2>1. Becomes([Finish(v, m, k, TRUE) EXCEPT !.task[m][Follow] = f])
      BY DEF Loaded
  <2> HIDE DEF s, p
  <2>2. [s EXCEPT !.node[m].tx = ask[m].tx, !.node[m].older = Older(s, m, ask[m].tx)] = b
      OBVIOUS
  <2>3. v = [b EXCEPT !.node[m].leader = p, !.node[m].follower = TRUE, !.node[m].link = p]
      BY <2>2
  <2> HIDE DEF v, b
  <2>4. v = t
      BY <2>3
  <2> HIDE DEF t
  <2> QED
      BY <2>1, <2>4
<1>3. Here.task[m][k] \in Framed /\ Here.task[m][k] = task[m][k]
    BY <1>1, Parts, HereParts
<1>4. p \in Member
    BY <1>1, <1>3 DEF Framed, Frame
<1>5. Wanes(Here, a) /\ Streams(a, m) = {} /\ a.task = task
    BY <1>1, StopLeadingWanes, HereParts
<1> HIDE DEF a
<1>6. a \in State
    BY <1>5 DEF Wanes
<1>7. Wanes(a, s) /\ Streams(s, m) = {} /\ s.task = task
    BY <1>5, <1>6, StopFollowingWanes
<1> HIDE DEF s, p
<1>8. s \in State /\ Good(s)
    BY <1>5, <1>7, WanesOn, WanesGood DEF Wanes
<1>9. s.node[m] \in NodeState /\ ask[m].tx \in Nat
    BY <1>1, <1>8, Parts, HereParts DEF Asking, Request
<1>10. Older(s, m, ask[m].tx) \in BOOLEAN
    BY <1>9 DEF Older, NodeState
<1>11. /\ n \in NodeState /\ n.tx = ask[m].tx /\ n.cfg = s.node[m].cfg
       /\ n.older = Older(s, m, ask[m].tx)
    BY <1>9, <1>10 DEF NodeState
<1> HIDE DEF n
<1>12. s.node[m].older => n.older
    BY <1>11 DEF Older
<1>13. n.older \/ \A c \in Member : s.ask[c].to = m /\ Owes(s, m, c)
                                    => n.tx >= s.ask[c].had
  <2>1. ASSUME ~n.older, NEW c \in Member, s.ask[c].to = m, Owes(s, m, c)
        PROVE  n.tx >= s.ask[c].had
    <3>1. ~s.node[m].older /\ ~(n.tx < s.node[m].tx)
        BY <1>11, <2>1 DEF Older
    <3>2. s.node[m].tx >= s.ask[c].had
        BY <1>8, <2>1, <3>1 DEF Good, Met
    <3>3. n.tx \in Nat /\ s.node[m].tx \in Nat /\ s.ask[c].had \in Nat
        BY <1>8, <1>9, <1>11, Parts DEF NodeState, Asking, Request
    <3> QED
        BY <3>1, <3>2, <3>3
  <2> QED
      BY <2>1
<1>14. Good(t) /\ t.task = task
  <2>1. Good(b)
      BY <1>7, <1>8, <1>11, <1>12, <1>13, NodeGood
  <2>2. b.task = task
      BY <1>7, <1>8 DEF State
  <2> HIDE DEF b
  <2>3. b \in State
      BY <2>1 DEF Good
  <2>4. o \in NodeState /\ NodeWanes(b.node[m], o)
    <3>1. b.node[m] \in NodeState
        BY <2>3, Parts
    <3> QED
        BY <1>4, <3>1 DEF NodeState, NodeWanes
  <2> HIDE DEF o
  <2>5. Wanes(b, t)
      BY <2>3, <2>4, NodeSet
  <2>6. t.task = b.task
      BY <2>3 DEF State
  <2> HIDE DEF t
  <2> QED
      BY <2>1, <2>2, <2>5, <2>6, WanesGood
<1> HIDE DEF t
<1>15. Good(u)
    BY <1>1, <1>14, FinishGood DEF Open
<1> HIDE DEF u
<1>16. f \in Framed
    BY <1>4, Values DEF Framed, Frame, Idle
<1> HIDE DEF f
<1>17. Good(w)
    BY <1>15, <1>16, Kinds, FrameGood
<1> HIDE DEF w
<1> QED
    BY <1>2, <1>17, BecomesGood

\* The connection ended before the database was complete.
LEMMA DumpLostGood ==
    ASSUME Good(Here), NEW m \in Member, NEW k \in Kind, DumpLost(m, k)
    PROVE  Good(Here)'
<1> DEFINE f == [Here.task[m][k] EXCEPT !.pc = "lock"]
           s == [Here EXCEPT !.task[m][k] = f]
           t == [s EXCEPT !.ask[m] = NoAsk]
<1>1. Here \in State /\ task[m][k].pc = "dump"
    BY DEF Good, DumpLost
<1>2. Here.task[m][k] \in Framed /\ Here.task[m][k] = task[m][k]
    BY <1>1, Parts, HereParts
<1>3. Becomes(Failed(Here, m, k)) \/ Becomes(t)
    BY DEF DumpLost
<1>4. /\ f \in Framed /\ f.pc = "lock" /\ f.tx = task[m][k].tx
      /\ f.answered = task[m][k].answered
    BY <1>1, <1>2 DEF Framed, Frame
<1> HIDE DEF f
<1>5. FrameWanes(Here.task[m][k], f)
    BY <1>1, <1>2, <1>4 DEF FrameWanes, Open, Owed
<1>6. Good(s)
    BY <1>4, <1>5, FrameGood
<1> HIDE DEF s
<1>7. s \in State
    BY <1>6 DEF Good
<1>8. Wanes(s, t)
    BY <1>7, GivenUp, Kinds
<1> HIDE DEF t
<1>9. Good(t) /\ Good(Failed(Here, m, k))
    BY <1>1, <1>6, <1>8, FailedWanes, WanesGood
<1> QED
    BY <1>3, <1>9, BecomesGood

\* leader_init becomes free for a handler in line.
LEMMA TakeLeaderInitGood ==
    ASSUME Good(Here), NEW m \in Member, NEW c \in Member, TakeLeaderInit(m, c)
    PROVE  Good(Here)'
<1> DEFINE a == Reply(Here, m, c, "keys")
           f == [a.task[m][Serve(c)] EXCEPT !.pc = "init"]
           t == [a EXCEPT !.task[m][Serve(c)] = f]
<1>1. Here \in State /\ task[m][Serve(c)].pc = "queue" /\ Serve(c) \in Kind
    BY Kinds DEF Good, TakeLeaderInit
<1>2. Becomes(t)
    BY DEF TakeLeaderInit
<1>3. Wanes(Here, a) /\ a.task = task
    BY <1>1, ReplyWanes, HereParts
<1> HIDE DEF a
<1>4. a \in State /\ Good(a)
    BY <1>3, WanesGood DEF Wanes
<1>5. a.task[m][Serve(c)] \in Framed
    BY <1>1, <1>4, Parts
<1>6. f \in Framed /\ f.pc = "init"
    BY <1>5 DEF Framed, Frame
<1> HIDE DEF f
<1>7. FrameWanes(a.task[m][Serve(c)], f)
    BY <1>1, <1>3, <1>6 DEF FrameWanes, Open, Owed
<1>8. Good(t)
    BY <1>1, <1>4, <1>6, <1>7, FrameGood
<1> HIDE DEF t
<1> QED
    BY <1>2, <1>8, BecomesGood

\* The database is sent: its count is no lower than the request's.
LEMMA SendDumpGood ==
    ASSUME Good(Here), NEW m \in Member, NEW c \in Member, SendDump(m, c)
    PROVE  Good(Here)'
<1> DEFINE f == [Here.task[m][Serve(c)] EXCEPT !.pc = "drain"]
           s == [Here EXCEPT !.task[m][Serve(c)] = f]
           a == [s.ask[c] EXCEPT !.answer = "dump", !.leader = s.node[m].leader,
                                 !.tx = node[m].tx]
           t == [s EXCEPT !.ask[c] = a]
<1>1. Here \in State /\ task[m][Serve(c)].pc = "init" /\ Serve(c) \in Kind
    BY Kinds DEF Good, SendDump
<1>2. Becomes(IF ask[c].to # m THEN s ELSE [Reply(s, m, c, "dump") EXCEPT !.ask[c].tx = node[m].tx])
    BY DEF SendDump
<1>3. Here.task[m][Serve(c)] \in Framed /\ Here.task[m][Serve(c)] = task[m][Serve(c)]
    BY <1>1, Parts, HereParts
<1>4. f \in Framed /\ f.pc = "drain"
    BY <1>3 DEF Framed, Frame
<1> HIDE DEF f
<1>5. FrameWanes(Here.task[m][Serve(c)], f)
    BY <1>1, <1>3, <1>4 DEF FrameWanes, Open, Owed
<1>6. Good(s)
    BY <1>1, <1>4, <1>5, FrameGood
<1>7. /\ s \in State /\ s.ask = ask /\ s.node = node /\ s.task[m][Serve(c)] = f
    BY <1>1, <1>6, HereParts DEF Good, State
<1> HIDE DEF s
<1>8. CASE ask[c].to # m
    BY <1>2, <1>6, <1>8, BecomesGood
<1>9. CASE ask[c].to = m
  <2>1. [Reply(s, m, c, "dump") EXCEPT !.ask[c].tx = node[m].tx] = t
      BY <1>7, <1>9 DEF Reply, State
  <2>2. s.ask[c] \in Request /\ node[m].tx \in Nat /\ s.node[m].leader \in Member \union {None}
      BY <1>7, Parts DEF Asking, NodeState
  <2>3. /\ a \in Request /\ a.to = m /\ a.had = s.ask[c].had
        /\ a.answer = "dump" /\ a.tx = node[m].tx
      BY <1>7, <1>9, <2>2 DEF Request
  <2> HIDE DEF a
  <2>4. a \in Asking
      BY <2>3, Values DEF Asking
  <2>5. Owes(s, m, c)
      BY <1>4, <1>7 DEF Owes
  <2>6. node[m].older \/ a.tx >= a.had
      BY <1>6, <1>7, <1>9, <2>3, <2>5 DEF Good, Met
  <2>7. /\ t \in State /\ t.ask = [s.ask EXCEPT ![c] = a]
        /\ t.node = s.node /\ t.task = s.task /\ t.relay = s.relay
      BY <1>7, <2>4 DEF State
  <2>8. t.ask[c] = a /\ \A d \in Member : d # c => t.ask[d] = s.ask[d]
      BY <1>7, <2>7 DEF State
  <2> HIDE DEF t
  <2>9. Alone(t) /\ Chainless(t)
      BY <1>6, <2>7 DEF Good, Alone, Chainless, Streams
  <2>10. \A d \in Member : t.ask[d].to = s.ask[d].to /\ t.ask[d].had = s.ask[d].had
      BY <1>7, <1>9, <2>3, <2>8
  <2>11. Recalled(t)
      BY <1>6, <2>7, <2>10 DEF Good, Recalled
  <2>12. Met(t)
    <3>1. ASSUME NEW l \in Member, NEW d \in Member, t.ask[d].to = l, Owes(t, l, d)
          PROVE  Owes(s, l, d)
        BY <1>7, <1>9, <2>5, <2>7, <2>8, <2>10, <3>1 DEF Owes
    <3> QED
        BY <1>6, <2>7, <2>10, <3>1 DEF Good, Met
  <2>13. Dumped(t)
      BY <1>6, <1>7, <2>3, <2>6, <2>7, <2>8 DEF Good, Dumped
  <2>14. Good(t)
      BY <2>7, <2>9, <2>11, <2>12, <2>13 DEF Good
  <2> QED
      BY <1>2, <1>9, <2>1, <2>14, BecomesGood
<1> QED
    BY <1>8, <1>9

\* All is written.
LEMMA RelayGood ==
    ASSUME Good(Here), NEW m \in Member, NEW c \in Member, Relay(m, c)
    PROVE  Good(Here)'
<1> DEFINE f == [Here.task[m][Serve(c)] EXCEPT !.pc = "attach"]
           s == [Here EXCEPT !.task[m][Serve(c)] = f]
<1>1. Here \in State /\ task[m][Serve(c)].pc = "drain" /\ Serve(c) \in Kind
    BY Kinds DEF Good, Relay
<1>2. Becomes(Attach(Here, m, c)) \/ Becomes(s)
    BY DEF Relay
<1>3. Here.task[m][Serve(c)] \in Framed /\ Here.task[m][Serve(c)] = task[m][Serve(c)]
    BY <1>1, Parts, HereParts
<1>4. f \in Framed /\ f.pc = "attach"
    BY <1>3 DEF Framed, Frame
<1> HIDE DEF f
<1>5. FrameWanes(Here.task[m][Serve(c)], f)
    BY <1>1, <1>3, <1>4 DEF FrameWanes, Open, Owed
<1>6. Good(s)
    BY <1>1, <1>4, <1>5, FrameGood
<1>7. Good(Attach(Here, m, c))
    BY <1>1, <1>3, AttachGood
<1> HIDE DEF s
<1> QED
    BY <1>2, <1>6, <1>7, BecomesGood

\* A relay ends.
LEMMA RelayEndsGood ==
    ASSUME Good(Here), NEW m \in Member, NEW c \in Member, RelayEnds(m, c)
    PROVE  Good(Here)'
<1> DEFINE s == [Here EXCEPT !.relay[m][c] = "none"]
           n == [s.node[m] EXCEPT !.cfg = "dead"]
           d == [s EXCEPT !.node[m] = n]
           u == Retry(d, m)
           t == IF Streams(s, m) # {} \/ node[m].cfg # "none" THEN s ELSE u
<1>1. Here \in State
    BY DEF Good
<1>2. Becomes(IF task[m][Serve(c)].pc = "attach" THEN Attach(t, m, c) ELSE t)
    BY DEF RelayEnds
<1>3. Here.relay[m][c] \in {"stale", "ending"}
    BY HereParts DEF RelayEnds
<1>4. StreamWanes(Here.relay[m][c], "none") /\ "none" \in Stream
    BY <1>3 DEF StreamWanes, Stream
<1>5. Wanes(Here, s)
    BY <1>1, <1>4, StreamSet
<1>6. s.task = task
    BY <1>1, HereParts DEF State
<1> HIDE DEF s
<1>7. s \in State
    BY <1>5 DEF Wanes
<1>8. n \in NodeState /\ NodeWanes(s.node[m], n)
  <2>1. s.node[m] \in NodeState
      BY <1>7, Parts
  <2> QED
      BY <2>1 DEF NodeState, NodeWanes
<1> HIDE DEF n
<1>9. Wanes(s, d)
    BY <1>7, <1>8, NodeSet
<1>10. d.task = task
    BY <1>6, <1>7 DEF State
<1> HIDE DEF d
<1>11. d \in State
    BY <1>9 DEF Wanes
<1>12. Wanes(d, u) /\ u.task = task
    BY <1>10, <1>11, RetryWanes
<1> HIDE DEF u
<1>13. Wanes(Here, t) /\ t.task = task
    BY <1>5, <1>6, <1>9, <1>12, WanesOn
<1> HIDE DEF t
<1>14. Good(t)
    BY <1>13, WanesGood
<1>15. CASE task[m][Serve(c)].pc = "attach"
  <2>1. Good(Attach(t, m, c))
      BY <1>13, <1>14, <1>15, AttachGood
  <2> QED
      BY <1>2, <1>15, <2>1, BecomesGood
<1>16. CASE task[m][Serve(c)].pc # "attach"
    BY <1>2, <1>14, <1>16, BecomesGood
<1> QED
    BY <1>15, <1>16

\* follow_channel begins: the member has no streams any more.
LEMMA FollowStartsGood ==
    ASSUME Good(Here), NEW m \in Member, FollowStarts(m)
    PROVE  Good(Here)'
<1> DEFINE a == StopLeading(Here, m, None)
           b == IF a.node[m].cfg = "leader" THEN Sever(a, m) ELSE a
           n == [b.node[m] EXCEPT !.cfg = "leader"]
           s == [b EXCEPT !.node[m] = n]
           f == [s.task[m][Follow] EXCEPT !.pc = "follow"]
           t == [s EXCEPT !.task[m][Follow] = f]
<1>1. Here \in State
    BY DEF Good
<1>2. Becomes(t)
    BY DEF FollowStarts, StopFollowing
<1>3. Wanes(Here, a) /\ Streams(a, m) = {}
    BY <1>1, StopLeadingWanes
<1> HIDE DEF a
<1>4. a \in State
    BY <1>3 DEF Wanes
<1>5. Wanes(a, b) /\ Streams(b, m) = {}
    BY <1>3, <1>4, SeverWanes, WanesSame
<1> HIDE DEF b
<1>6. b \in State /\ Good(b)
    BY <1>3, <1>5, WanesOn, WanesGood DEF Wanes
<1>7. /\ n \in NodeState /\ n.tx = b.node[m].tx
      /\ n.older = b.node[m].older
    BY <1>6, Parts DEF NodeState
<1> HIDE DEF n
<1>8. n.older \/ \A c \in Member : b.ask[c].to = m /\ Owes(b, m, c)
                                   => n.tx >= b.ask[c].had
    BY <1>6, <1>7 DEF Good, Met
<1>9. Good(s)
    BY <1>5, <1>6, <1>7, <1>8, NodeGood
<1> HIDE DEF s
<1>10. s.task[m][Follow] \in Framed
    BY <1>9, Parts, Kinds DEF Good
<1>11. f \in Framed
    BY <1>10 DEF Framed, Frame
<1> HIDE DEF f
<1>12. Good(t)
    BY <1>9, <1>11, Kinds, FrameGood
<1> HIDE DEF t
<1> QED
    BY <1>2, <1>12, BecomesGood

\* The channel has ended.
LEMMA FollowEndsGood ==
    ASSUME Good(Here), NEW m \in Member, FollowEnds(m)
    PROVE  Good(Here)'
<1> DEFINE new == node[m].told
           a == Sever(Here, m)
           r == IF Streams(Here, m) = {} THEN "dead" ELSE "none"
           s == StopFollowing(a, m, r)
           f == Calling(new, 0)
           t == [s EXCEPT !.task[m][Follow] = f]
<1>1. Here \in State
    BY DEF Good
<1>2. Becomes(IF new = None THEN Over(Here, m) ELSE t)
    BY DEF FollowEnds
<1>3. new \in Member \union {None}
    BY <1>1, Parts, HereParts DEF NodeState
<1>4. Wanes(Here, a)
    BY <1>1, SeverWanes
<1> HIDE DEF a, new
<1>5. a \in State /\ r \in {"none", "dead"}
    BY <1>4 DEF Wanes
<1> HIDE DEF r
<1>6. Wanes(a, s)
    BY <1>5, StopFollowingWanes
<1> HIDE DEF s
<1>7. Good(s)
    BY <1>4, <1>6, WanesOn, WanesGood
<1>8. CASE new = None
    BY <1>1, <1>2, <1>8, OverWanes, WanesGood, BecomesGood
<1>9. CASE new # None
  <2>1. f \in Framed
      BY <1>3, <1>9, CallingFramed
  <2> HIDE DEF f
  <2>2. Good(t)
      BY <1>7, <2>1, Kinds, FrameGood
  <2> QED
      BY <1>2, <1>9, <2>2, BecomesGood
<1> QED
    BY <1>8, <1>9

\* The finally clauses of a cancelled follow task.
LEMMA CancelledEndsGood ==
    ASSUME Good(Here), NEW m \in Member, CancelledEnds(m)
    PROVE  Good(Here)'
<1> DEFINE s == StopFollowing(Here, m, "none")
           n == [s.node[m] EXCEPT !.ended = FALSE, !.follower = FALSE]
           b == [s EXCEPT !.node[m] = n]
           o == [b.node[m] EXCEPT !.leader = None, !.retry = TRUE]
           t == [b EXCEPT !.node[m] = o]
           w == [s EXCEPT !.node[m].ended = FALSE, !.node[m].follower = FALSE,
                          !.node[m].leader = None, !.node[m].retry = TRUE]
<1>1. Here \in State
    BY DEF Good
<1>2. Becomes(w)
    BY DEF CancelledEnds
<1>3. Wanes(Here, s)
    BY <1>1, StopFollowingWanes
<1> HIDE DEF s
<1>4. s \in State
    BY <1>3 DEF Wanes
<1>5. w = t
  <2>1. [s EXCEPT !.node[m].ended = FALSE, !.node[m].follower = FALSE] = b
      OBVIOUS
  <2>2. w = [b EXCEPT !.node[m].leader = None, !.node[m].retry = TRUE]
      BY <2>1
  <2> HIDE DEF w, b
  <2> QED
      BY <2>2
<1>6. n \in NodeState /\ NodeWanes(s.node[m], n)
  <2>1. s.node[m] \in NodeState
      BY <1>4, Parts
  <2> QED
      BY <2>1 DEF NodeState, NodeWanes
<1> HIDE DEF n, w
<1>7. Wanes(s, b)
    BY <1>4, <1>6, NodeSet
<1> HIDE DEF b
<1>8. b \in State
    BY <1>7 DEF Wanes
<1>9. o \in NodeState /\ NodeWanes(b.node[m], o)
  <2>1. b.node[m] \in NodeState
      BY <1>8, Parts
  <2> QED
      BY <2>1 DEF NodeState, NodeWanes
<1> HIDE DEF o
<1>10. Wanes(b, t)
    BY <1>8, <1>9, NodeSet
<1> HIDE DEF t
<1>11. Good(t)
    BY <1>3, <1>7, <1>10, WanesOn, WanesGood
<1> QED
    BY <1>2, <1>5, <1>11, BecomesGood

\* reassimilate_missing begins to look.
LEMMA MissingWakesGood ==
    ASSUME Good(Here), NEW m \in Member, MissingWakes(m)
    PROVE  Good(Here)'
<1>1. Wanes(Here, Probing(Here, m, Missing, None))
    BY Kinds, ProbingWanes DEF Good
<1>2. Becomes(Probing(Here, m, Missing, None))
    BY DEF MissingWakes
<1> QED
    BY <1>1, <1>2, WanesGood, BecomesGood

\* try_assimilate asks the next member that is missing.
LEMMA ProbeGood ==
    ASSUME Good(Here), NEW m \in Member, NEW k \in Kind, Probe(m, k)
    PROVE  Good(Here)'
<1> DEFINE todo == {d \in task[m][k].todo : node[d].up}
           f(d) == [Here.task[m][k] EXCEPT !.todo = todo \ {d}]
           s(d) == [Here EXCEPT !.task[m][k] = f(d)]
           g(d) == [s(d).task[m][k] EXCEPT !.pc = "deferring", !.peer = d]
           t(d) == [s(d) EXCEPT !.task[m][k] = g(d)]
<1>1. Here \in State /\ task[m][k].pc = "probe"
    BY DEF Good, Probe
<1>2. Here.task[m][k] \in Framed /\ Here.task[m][k] = task[m][k]
    BY <1>1, Parts, HereParts
<1>3. todo \subseteq Member
    BY <1>2 DEF Framed, Frame
<1>4. \/ Becomes(Probed(Here, m, k))
      \/ \E d \in todo : Becomes(t(d)) \/ Becomes(Asked(s(d), d, m))
  <2> DEFINE x(d) == [Here EXCEPT !.task[m][k].todo = todo \ {d}]
             w(d) == [x(d) EXCEPT !.task[m][k].pc = "deferring", !.task[m][k].peer = d]
  <2>1. \/ Becomes(Probed(Here, m, k))
        \/ \E d \in todo : Becomes(w(d)) \/ Becomes(Asked(x(d), d, m))
      BY DEF Probe
  <2>2. ASSUME NEW d
        PROVE  x(d) = s(d) /\ w(d) = t(d)
    <3>1. x(d) = s(d)
        OBVIOUS
    <3>2. f(d) \in Framed
        BY <1>1, <1>2, <1>3 DEF Framed, Frame
    <3> HIDE DEF f
    <3>3. s(d) \in State
        BY <1>1, <3>2 DEF State
    <3>4. w(d) = [s(d) EXCEPT !.task[m][k].pc = "deferring", !.task[m][k].peer = d]
        BY <3>1
    <3> HIDE DEF w, s, x
    <3>5. [s(d) EXCEPT !.task[m][k].pc = "deferring", !.task[m][k].peer = d]
          = [s(d) EXCEPT !.task[m][k] =
                [s(d).task[m][k] EXCEPT !.pc = "deferring", !.peer = d]]
        BY <3>3 DEF State
    <3>6. w(d) = t(d)
        BY <3>4, <3>5
    <3> QED
        BY <3>1, <3>6
  <2> HIDE DEF x, w, s, t
  <2> QED
      BY <2>1, <2>2
<1> HIDE DEF todo
<1>5. Good(Probed(Here, m, k))
    BY <1>1, <1>2, ProbedGood DEF Open
<1>6. ASSUME NEW d \in Member
      PROVE  Good(t(d)) /\ Good(Asked(s(d), d, m))
  <2>1. /\ f(d) \in Framed /\ f(d).pc = "probe" /\ f(d).tx = task[m][k].tx
        /\ f(d).answered = task[m][k].answered
      BY <1>1, <1>2, <1>3 DEF Framed, Frame
  <2> HIDE DEF f
  <2>2. FrameWanes(Here.task[m][k], f(d))
      BY <1>1, <1>2, <2>1 DEF FrameWanes, Open, Owed
  <2>3. Good(s(d))
      BY <2>1, <2>2, FrameGood
  <2>4. s(d).task[m][k] = f(d)
      BY <1>1 DEF State
  <2> HIDE DEF s
  <2>5. /\ g(d) \in Framed /\ g(d).pc = "deferring" /\ g(d).tx = f(d).tx
        /\ g(d).answered = f(d).answered
      BY <2>1, <2>4, Values DEF Framed, Frame
  <2> HIDE DEF g
  <2>6. FrameWanes(s(d).task[m][k], g(d))
      BY <2>1, <2>4, <2>5 DEF FrameWanes, Open, Owed
  <2>7. Good(t(d))
      BY <2>3, <2>5, <2>6, FrameGood
  <2> HIDE DEF t
  <2>8. Good(Asked(s(d), d, m))
      BY <2>3, AskedGood
  <2> QED
      BY <2>7, <2>8
<1> HIDE DEF s, t
<1> QED
    BY <1>3, <1>4, <1>5, <1>6, BecomesGood

\* try_assimilate yields to a better leader.
LEMMA DeferGood ==
    ASSUME Good(Here), NEW m \in Member, NEW k \in Kind, Defer(m, k)
    PROVE  Good(Here)'
<1> DEFINE f == task[m][k]
           p == f.peer
           s == Retire(Here, m, p)
           g == [f EXCEPT !.pc = "lock", !.todo = {}, !.followers = 0,
                          !.owe = IF @ = 0 THEN 1 ELSE 2]
           t == [s EXCEPT !.task[m][k] = g]
<1>1. Here \in State /\ f.pc = "deferring"
    BY DEF Good, Defer
<1>2. f \in Framed /\ Here.task[m][k] = f
    BY <1>1, Parts, HereParts
<1>3. p \in Member
    BY <1>1, <1>2 DEF Framed, Frame
<1>4. Becomes(IF k = Missing THEN s ELSE t)
  <2>1. CASE k = Missing
      BY <2>1 DEF Defer
  <2>2. CASE k # Missing
      BY <2>2 DEF Defer
  <2> QED
      BY <2>1, <2>2
<1>5. /\ Wanes(Here, s)
      /\ \A c \in Member : s.task[m][Serve(c)] = Here.task[m][Serve(c)]
  <2>1. p \in Member \union {None}
      BY <1>3
  <2> HIDE DEF p
  <2> QED
      BY <1>1, <2>1, RetireWanes
<1>6. g \in Framed /\ g.pc = "lock" /\ g.tx = f.tx /\ g.answered = f.answered
  <2>1. 0 \in 0 .. Cardinality(Member) /\ f \in Frame
      BY <1>2, Values DEF Framed
  <2>2. (IF f.owe = 0 THEN 1 ELSE 2) \in 0 .. 2
      OBVIOUS
  <2> HIDE DEF f
  <2>3. /\ g \in Frame /\ g.pc = "lock" /\ g.peer = p
        /\ g.tx = f.tx /\ g.answered = f.answered
      BY <2>1, <2>2 DEF Frame
  <2> QED
      BY <1>3, <2>3, Values DEF Framed
<1> HIDE DEF s
<1>7. Good(s)
    BY <1>5, WanesGood
<1> HIDE DEF g
<1>8. \A c \in Member : k = Serve(c) => FrameWanes(s.task[m][k], g)
    BY <1>1, <1>2, <1>5, <1>6 DEF FrameWanes, Open, Owed
<1>9. Good(t)
    BY <1>6, <1>7, <1>8, FrameGood
<1> HIDE DEF t
<1> QED
    BY <1>4, <1>7, <1>9, BecomesGood

\* A change: who follows counts it, and who joins gets it with its database.
LEMMA ChangeGood ==
    ASSUME Good(Here), NEW m \in Member, Change(m)
    PROVE  Good(Here)'
<1> DEFINE live == {c \in Member : relay[m][c] = "live"}
           joining == {c \in live : ask[c].to = m}
           count == node[m].tx + 1
           n(c) == IF c = m \/ c \in live \ joining
                   THEN [node[c] EXCEPT !.tx = count, !.older = Older(Here, c, count)]
                   ELSE node[c]
           a(c) == IF c \in joining THEN [ask[c] EXCEPT !.tx = count] ELSE ask[c]
<1>1. Here \in State
    BY DEF Good
<1>2. /\ node' = [c \in Member |-> n(c)] /\ ask' = [c \in Member |-> a(c)]
      /\ task' = task /\ relay' = relay
    BY DEF Change
<1>3. ASSUME NEW c \in Member
      PROVE  /\ node[c] \in NodeState /\ node[c].tx \in Nat
             /\ ask[c] \in Asking /\ ask[c] \in Request /\ ask[c].had \in Nat
    BY <1>1, Parts, HereParts DEF NodeState, Asking, Request
<1>4. count \in Nat /\ count > node[m].tx
    BY <1>3
<1>5. ASSUME NEW c \in Member
      PROVE  /\ n(c) \in NodeState /\ n(c).cfg = node[c].cfg
             /\ node[c].older => n(c).older
             /\ c # m /\ c \notin live \ joining => n(c) = node[c]
             /\ c = m \/ c \in live \ joining
                => n(c).tx = count /\ n(c).older = Older(Here, c, count)
  <2>1. Older(Here, c, count) \in BOOLEAN /\ (node[c].older => Older(Here, c, count))
      BY <1>3, HereParts DEF Older, NodeState
  <2> QED
      BY <1>3, <1>4, <2>1 DEF NodeState
<1>6. ASSUME NEW c \in Member
      PROVE  /\ a(c) \in Asking /\ a(c).to = ask[c].to /\ a(c).had = ask[c].had
             /\ a(c).answer = ask[c].answer
             /\ c \in joining => a(c).tx = count
             /\ c \notin joining => a(c).tx = ask[c].tx
    BY <1>3, <1>4 DEF Asking, Request
<1>7. \A c \in joining : c \in Member /\ ask[c].to = m /\ relay[m][c] = "live"
    OBVIOUS
<1> HIDE DEF live, joining, n, a
<1>8. /\ \A c \in Member : node'[c] = n(c) /\ ask'[c] = a(c)
      /\ node' \in [Member -> NodeState] /\ ask' \in [Member -> Asking]
    BY <1>2, <1>5, <1>6
<1>9. (Here \in State)'
    BY <1>1, <1>2, <1>8 DEF State, Here
<1>10. Alone(Here)'
    BY <1>2 DEF Good, Alone, Here
<1>11. Chainless(Here)'
    BY <1>2, <1>5, <1>8 DEF Good, Chainless, Streams, Here
<1>12. Recalled(Here)'
    BY <1>2, <1>6, <1>8 DEF Good, Recalled, Here
<1>13. Met(Here)'
  <2>1. ASSUME NEW l \in Member, NEW c \in Member, ask'[c].to = l, Owes(Here, l, c)'
        PROVE  node'[l].older \/ node'[l].tx >= ask'[c].had
    <3>1. ask[c].to = l /\ ask'[c].had = ask[c].had /\ Owes(Here, l, c)
        BY <1>2, <1>6, <1>8, <2>1 DEF Owes, Here
    <3>2. node[l].older \/ node[l].tx >= ask[c].had
        BY <3>1, HereParts DEF Good, Met
    <3>3. CASE node[l].older
        BY <1>5, <1>8, <3>3
    <3>4. CASE ~node[l].older /\ l # m /\ l \notin live \ joining
        BY <1>5, <1>8, <3>1, <3>2, <3>4
    <3>5. CASE ~node[l].older /\ (l = m \/ l \in live \ joining)
      <4>1. node'[l].tx = count /\ node'[l].older = Older(Here, l, count)
          BY <1>5, <1>8, <3>5
      <4>2. count < node[l].tx => Older(Here, l, count)
          BY <3>1, HereParts DEF Older
      <4> QED
          BY <1>3, <1>4, <3>1, <3>2, <3>5, <4>1, <4>2
    <3> QED
        BY <3>3, <3>4, <3>5
  <2> QED
      BY <2>1 DEF Met, Here
<1>14. Dumped(Here)'
  <2>1. ASSUME NEW c \in Member, ask'[c].answer = "dump"
        PROVE  \/ ask'[c].tx >= ask'[c].had
               \/ \E l \in Member : ask'[c].to = l /\ node'[l].older
    <3>1. /\ ask[c].answer = "dump" /\ ask'[c].to = ask[c].to
          /\ ask'[c].had = ask[c].had
        BY <1>6, <1>8, <2>1
    <3>2. CASE c \notin joining
      <4>1. ask'[c].tx = ask[c].tx
          BY <1>6, <1>8, <3>2
      <4>2. \/ ask[c].tx >= ask[c].had
            \/ \E l \in Member : ask[c].to = l /\ node[l].older
          BY <3>1, HereParts DEF Good, Dumped
      <4> QED
          BY <1>5, <1>8, <3>1, <4>1, <4>2
    <3>3. CASE c \in joining
      <4>1. ask'[c].tx = count /\ ask[c].to = m /\ relay[m][c] = "live"
          BY <1>6, <1>7, <1>8, <3>3
      <4>2. Owes(Here, m, c)
          BY <3>1, <4>1, HereParts DEF Owes
      <4>3. node[m].older \/ node[m].tx >= ask[c].had
          BY <4>1, <4>2, HereParts DEF Good, Met
      <4>4. node[m].older => node'[m].older
          BY <1>5, <1>8
      <4> QED
          BY <1>3, <1>4, <3>1, <4>1, <4>3, <4>4
    <3> QED
        BY <3>2, <3>3
  <2> QED
      BY <2>1 DEF Dumped, Here
<1> QED
    BY <1>9, <1>10, <1>11, <1>12, <1>13, <1>14 DEF Good

\* A member that crashes leaves stale streams behind.
LEMMA CrashGood ==
    ASSUME Good(Here), NEW m \in Member, Crash(m)
    PROVE  Good(Here)'
<1> DEFINE n == [Started(node[m].tx) EXCEPT !.up = FALSE, !.older = node[m].older]
           fade(x) == IF x = "live" THEN "stale" ELSE x
<1>1. /\ node' = [node EXCEPT ![m] = n] /\ ask' = [ask EXCEPT ![m] = NoAsk]
      /\ task' = [task EXCEPT ![m] = [k \in Kind |-> Idle]]
      /\ relay' = [l \in Member |-> IF l = m THEN [c \in Member |-> "none"]
                                    ELSE [relay[l] EXCEPT ![m] = fade(relay[l][m])]]
    BY DEF Crash
<1>2. /\ node \in [Member -> NodeState] /\ task \in [Member -> [Kind -> Framed]]
      /\ relay \in [Member -> [Member -> Stream]] /\ ask \in [Member -> Asking]
    BY HereParts DEF Good, State
<1>3. /\ n \in NodeState /\ n.cfg = "none" /\ n.tx = node[m].tx
      /\ n.older = node[m].older
  <2>1. node[m].tx \in Nat /\ node[m].older \in BOOLEAN
      BY <1>2 DEF NodeState
  <2> QED
      BY <2>1 DEF Started, NodeState
<1>4. \A x \in Stream : fade(x) \in Stream /\ StreamWanes(x, fade(x))
    BY DEF Stream, StreamWanes
<1> HIDE DEF n, fade
<1>5. node' \in [Member -> NodeState]
    BY <1>1, <1>2, <1>3
<1>6. task' \in [Member -> [Kind -> Framed]] /\ ask' \in [Member -> Asking]
    BY <1>1, <1>2, Values
<1>7. /\ relay' \in [Member -> [Member -> Stream]]
      /\ \A l, c \in Member : StreamWanes(relay[l][c], relay'[l][c])
  <2>1. ASSUME NEW l \in Member
        PROVE  /\ relay'[l] \in [Member -> Stream]
               /\ \A c \in Member : StreamWanes(relay[l][c], relay'[l][c])
    <3>1. CASE l = m
        BY <1>1, <3>1 DEF Stream, StreamWanes
    <3>2. CASE l # m
      <4>1. relay'[l] = [relay[l] EXCEPT ![m] = fade(relay[l][m])]
          BY <1>1, <3>2
      <4>2. relay[l] \in [Member -> Stream] /\ relay[l][m] \in Stream
          BY <1>2
      <4>3. ASSUME NEW c \in Member
            PROVE  StreamWanes(relay[l][c], relay'[l][c])
          BY <1>4, <4>1, <4>2, <4>3 DEF StreamWanes
      <4>4. relay'[l] \in [Member -> Stream]
          BY <1>4, <4>1, <4>2
      <4> QED
          BY <4>3, <4>4
    <3> QED
        BY <3>1, <3>2
  <2>2. relay' \in [Member -> [Member -> Stream]]
      BY <1>1, <2>1
  <2> QED
      BY <2>1, <2>2
<1>8. \A c \in Member : NodeWanes(node[c], node'[c])
    BY <1>1, <1>2, <1>3 DEF NodeWanes
<1>9. \A l, c \in Member : FrameWanes(task[l][Serve(c)], task'[l][Serve(c)])
    BY <1>1, <1>2, Kinds, Values DEF FrameWanes, Open, Owed
<1>10. \A c \in Member : RequestWanes(ask[c], ask'[c])
    BY <1>1, <1>2, Values DEF RequestWanes
<1>11. Here' \in State
    BY <1>5, <1>6, <1>7 DEF State, Here
<1>12. Wanes(Here, Here')
    BY <1>7, <1>8, <1>9, <1>10, <1>11 DEF Wanes, Here
<1>13. Good(Here')
    BY <1>12, WanesGood
<1> QED
    BY <1>13

\* A member starts again.
LEMMA RestartGood ==
    ASSUME Good(Here), NEW m \in Member, Restart(m)
    PROVE  Good(Here)'
<1> DEFINE n == [Here.node[m] EXCEPT !.up = TRUE]
           s == [Here EXCEPT !.node[m] = n]
<1>1. Here \in State
    BY DEF Good
<1>2. n \in NodeState /\ NodeWanes(Here.node[m], n)
  <2>1. Here.node[m] \in NodeState
      BY <1>1, Parts
  <2> QED
      BY <2>1 DEF NodeState, NodeWanes
<1> HIDE DEF n
<1>3. Good(s)
    BY <1>1, <1>2, NodeSet, WanesGood
<1>4. Becomes(s)
  <2>1. s.node = [node EXCEPT ![m].up = TRUE]
      BY <1>1, HereParts DEF State, n
  <2>2. s.task = task /\ s.relay = relay /\ s.ask = ask
      BY <1>1, HereParts DEF State
  <2> QED
      BY <2>1, <2>2 DEF Restart, Becomes
<1> QED
    BY <1>3, <1>4, BecomesGood

\* A connection breaks.
LEMMA BreakGood ==
    ASSUME Good(Here), NEW m \in Member, Break(m)
    PROVE  Good(Here)'
BY SeverWanes, WanesGood, BecomesGood DEF Break, Good

\* What is left of the budget.
LEMMA LeftBudget ==
    ASSUME left \in Budget, [Next]_vars
    PROVE  left' \in Budget
<1>1. ASSUME NEW m \in Member, StartFires(m)
      PROVE  left' \in Budget
    BY <1>1 DEF StartFires, Budget
<1>2. ASSUME NEW m \in Member, MissingWakes(m)
      PROVE  left' \in Budget
    BY <1>2 DEF MissingWakes, Budget
<1>3. ASSUME NEW m \in Member, Change(m)
      PROVE  left' \in Budget
  <2>1. left.changes > 0 /\ left' = [left EXCEPT !.changes = @ - 1]
      BY <1>3 DEF Change
  <2> QED
      BY <2>1 DEF Budget
<1>4. ASSUME NEW m \in Member, Interrupted(m)
      PROVE  left' \in Budget
    BY <1>4 DEF Interrupted, Budget
<1>5. ASSUME NEW m \in Member, NEW k \in Kind, TaskStep(m, k)
      PROVE  UNCHANGED left
    BY <1>5 DEF TaskStep, Connect, Declined, Inferior, Accepted, Loaded, DumpLost, Probe, Defer
<1>6. ASSUME NEW m \in Member, NEW c \in Member, ServeStep(m, c)
      PROVE  UNCHANGED left
    BY <1>6 DEF ServeStep, TakeLeaderInit, SendDump, Relay, RelayEnds
<1>7. ASSUME NEW m \in Member, StartNext(m) \/ FollowStep(m)
      PROVE  UNCHANGED left
    BY <1>7 DEF StartNext, FollowStep, FollowStarts, FollowEnds, CancelledEnds, Aborted
<1>8. ASSUME NEW m \in Member, Crash(m) \/ Restart(m) \/ Break(m)
      PROVE  Interrupted(m)
    BY <1>8 DEF Crash, Restart, Break
<1> QED
    BY <1>1, <1>2, <1>3, <1>4, <1>5, <1>6, <1>7, <1>8 DEF Next, vars

-----------------------------------------------------------------------------
(* The theorems *)

\* At the beginning only the joined follow, and nobody has asked.
LEMMA InitInv ==
    ASSUME Init
    PROVE  CollectiveInv
<1>1. PICK x \in Situation :
        /\ node = [m \in Member |-> First(x, m)]
        /\ task = [m \in Member |-> [k \in Kind |-> FirstTask(x, m, k)]]
        /\ relay = [l \in Member |-> [c \in Member |->
                      IF l = x.leader /\ c \in x.joined THEN "live" ELSE "none"]]
        /\ ask = [m \in Member |-> NoAsk]
        /\ left = x.budget
    BY DEF Init
<1>2. /\ x.up \subseteq Member /\ x.saved \in [Member -> Nat]
      /\ x.leader \in x.up \union {None} /\ x.joined \subseteq x.up \ {x.leader}
      /\ x.budget \in Budget
    BY SituationAssumption DEF None
<1>3. ASSUME NEW m \in Member
      PROVE  First(x, m) \in NodeState /\ (First(x, m).cfg = "leader" <=> m \in x.joined)
  <2> DEFINE cfg == CASE m \in x.joined -> "leader"
                      [] m = x.leader \/ m \notin x.up -> "none"
                      [] OTHER -> "dead"
             leader == IF m \in x.joined \union {x.leader} THEN x.leader ELSE None
             link == IF m \in x.joined THEN x.leader ELSE None
             up == m \in x.up
             retry == m \notin x.joined \union {x.leader}
             follower == m \in x.joined
  <2>1. First(x, m) = [Started(x.saved[m]) EXCEPT
                         !.up = up, !.initting = ~up, !.retry = retry, !.cfg = cfg,
                         !.leader = leader, !.link = link, !.follower = follower]
      BY DEF First
  <2>2. cfg \in {"leader", "none", "dead"} /\ (cfg = "leader" <=> m \in x.joined)
      BY <1>2
  <2>3. leader \in Member \union {None} /\ link \in Member \union {None}
      BY <1>2
  <2>4. up \in BOOLEAN /\ retry \in BOOLEAN /\ follower \in BOOLEAN /\ x.saved[m] \in Nat
      BY <1>2
  <2> HIDE DEF cfg, leader, link, up, retry, follower
  <2>5. Started(x.saved[m]) \in NodeState
      BY <2>4 DEF Started, NodeState
  <2> DEFINE away == ~up
             begun == Started(x.saved[m])
             woken == [begun EXCEPT !.up = up, !.initting = away]
             n == [woken EXCEPT !.retry = retry]
  <2> HIDE DEF begun
  <2>6. n \in NodeState
    <3>1. away \in BOOLEAN
        BY <2>4
    <3> HIDE DEF away
    <3>2. woken \in NodeState
        BY <2>4, <2>5, <3>1 DEF begun, NodeState
    <3> HIDE DEF woken
    <3> QED
        BY <2>4, <3>2 DEF NodeState
  <2>7. First(x, m) = [n EXCEPT !.cfg = cfg, !.leader = leader, !.link = link,
                                !.follower = follower]
      BY <2>1 DEF begun
  <2> HIDE DEF n
  <2> DEFINE o == [n EXCEPT !.cfg = cfg, !.leader = leader]
             y == [o EXCEPT !.link = link, !.follower = follower]
  <2>8. o \in NodeState /\ o.cfg = cfg
      BY <2>2, <2>3, <2>6 DEF NodeState
  <2>9. First(x, m) = y
      BY <2>7
  <2> HIDE DEF o
  <2>10. y \in NodeState /\ y.cfg = o.cfg
      BY <2>3, <2>4, <2>8 DEF NodeState
  <2> HIDE DEF y
  <2> QED
      BY <2>2, <2>8, <2>9, <2>10
<1>4. ASSUME NEW m \in Member, NEW k \in Kind
      PROVE  FirstTask(x, m, k) \in Framed
  <2>1. [Idle EXCEPT !.pc = "sleep"] \in Framed
      BY Values DEF Framed, Frame, Idle
  <2>2. m \in x.joined => [Idle EXCEPT !.pc = "follow", !.peer = x.leader] \in Framed
      BY <1>2, Values DEF Framed, Frame, Idle
  <2> QED
      BY <2>1, <2>2, Values DEF FirstTask
<1>5. ASSUME NEW m \in Member, NEW c \in Member
      PROVE  FirstTask(x, m, Serve(c)) = Idle
    BY <1>5, Kinds DEF FirstTask
<1>6. Here \in State
    BY <1>1, <1>2, <1>3, <1>4, Values DEF State, Here, Stream
<1>7. \A m, c \in Member : Here.task[m][Serve(c)].pc = "idle"
    BY <1>1, <1>5, Kinds, Values DEF Here
<1>8. \A m \in Member : Here.ask[m].to = None /\ Here.ask[m].answer = "none"
    BY <1>1, Values DEF Here
<1>9. Alone(Here)
    BY <1>1, <1>2, <1>7 DEF Alone, Here
<1>10. Chainless(Here)
    BY <1>1, <1>2, <1>3 DEF Chainless, Streams, Here
<1>11. Recalled(Here) /\ Met(Here) /\ Dumped(Here)
    BY <1>8, Values DEF Recalled, Met, Dumped
<1> QED
    BY <1>1, <1>2, <1>6, <1>9, <1>10, <1>11 DEF CollectiveInv, Good

\* The invariant is inductive: one step per action.
LEMMA NextInv ==
    ASSUME CollectiveInv, [Next]_vars
    PROVE  CollectiveInv'
<1>1. Good(Here)
    BY DEF CollectiveInv
<1>2. left' \in Budget
    BY LeftBudget DEF CollectiveInv
<1>3. CASE UNCHANGED vars
  <2>1. Here' = Here
      BY <1>3 DEF vars, Here
  <2> QED
      BY <1>1, <1>2, <2>1 DEF CollectiveInv
<1>4. CASE Next
  <2>1. ASSUME NEW m \in Member, NEW k \in Kind, TaskStep(m, k)
        PROVE  Good(Here)'
      BY <1>1, <2>1, ConnectGood, DeclinedGood, InferiorGood, AcceptedGood, LoadedGood,
         DumpLostGood, ProbeGood, DeferGood DEF TaskStep
  <2>2. ASSUME NEW m \in Member, NEW c \in Member, ServeStep(m, c)
        PROVE  Good(Here)'
      BY <1>1, <2>2, TakeLeaderInitGood, SendDumpGood, RelayGood, RelayEndsGood DEF ServeStep
  <2>3. ASSUME NEW m \in Member, FollowStep(m)
        PROVE  Good(Here)'
      BY <1>1, <2>3, FollowStartsGood, FollowEndsGood, CancelledEndsGood, AbortedGood
         DEF FollowStep
  <2>4. ASSUME NEW m \in Member,
               \/ StartFires(m) \/ StartNext(m) \/ MissingWakes(m) \/ Change(m)
               \/ Crash(m) \/ Restart(m) \/ Break(m)
        PROVE  Good(Here)'
      BY <1>1, <2>4, StartFiresGood, StartNextGood, MissingWakesGood, ChangeGood,
         CrashGood, RestartGood, BreakGood
  <2>5. Good(Here)'
      BY <1>4, <2>1, <2>2, <2>3, <2>4 DEF Next
  <2> QED
      BY <1>2, <2>5 DEF CollectiveInv
<1> QED
    BY <1>3, <1>4

\* What the invariant says of the variables.
LEMMA InvImplies ==
    ASSUME CollectiveInv
    PROVE  TypeOK /\ NoChain /\ NotOlder
<1>1. Here \in State /\ Alone(Here)
    BY DEF CollectiveInv, Good
<1>2. /\ node \in [Member -> NodeState] /\ relay \in [Member -> [Member -> Stream]]
      /\ task \in [Member -> [Kind -> Framed]] /\ ask \in [Member -> Asking]
    BY <1>1, HereParts DEF State
<1>3. task \in [Member -> [Kind -> Frame]] /\ ask \in [Member -> Request]
    BY <1>2 DEF Framed, Asking
<1>4. \A m \in Member, k \in Kind :
        task[m][k].pc \in {"lock", "sent", "dump"} => task[m][k].peer # None
  <2>1. \A m \in Member, k \in Kind : task[m][k] \in Framed
      BY <1>2
  <2> QED
      BY <2>1 DEF Framed
<1>5. \A m \in Member : relay[m][m] = "none"
    BY <1>1, HereParts DEF Alone
<1>6. TypeOK
    BY <1>2, <1>3, <1>4, <1>5 DEF TypeOK, CollectiveInv
<1>7. NoChain
    BY HereParts DEF NoChain, CollectiveInv, Good, Chainless
<1>8. NotOlder
    BY HereParts DEF NotOlder, CollectiveInv, Good, Dumped
<1> QED
    BY <1>6, <1>7, <1>8

\* The invariant holds in every state that can be reached.
THEOREM InvCorrect == Spec => []CollectiveInv
BY InitInv, NextInv, PTL DEF Spec

\* Every reachable state is well typed: whatever handlers, retries and
\* cancellations overlap, a connection attempt knows its peer, and no member
\* has a stream to itself.
THEOREM TypeCorrect == Spec => []TypeOK
BY InvCorrect, InvImplies, PTL

\* No member has followers while it follows: relay_slaved_requests and
\* follow_channel each give up the other role first, whatever they interrupt.
THEOREM NoChainCorrect == Spec => []NoChain
BY InvCorrect, InvImplies, PTL

\* Nobody who joins gets a database with fewer transactions than it asked with,
\* however long the leader has it wait for get_leader, leader_init or the lock
\* of an earlier relay, unless the leader has itself lost transactions.
THEOREM NotOlderCorrect == Spec => []NotOlder
BY InvCorrect, InvImplies, PTL
=============================================================================
