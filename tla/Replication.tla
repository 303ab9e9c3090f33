----------------------------- MODULE Replication -----------------------------
(***************************************************************************)
(* Replication of configuration changes from the leader of a collective to *)
(* its followers, during one tenure of the leader (configmanager.py, and   *)
(* the 'connect' operation of collective/manager.py).                      *)
(*                                                                         *)
(* A change made on the leader, or requested by a follower, is counted,    *)
(* pushed to every registered stream (_push_rpc, one push at a time under  *)
(* _rpclock) and applied by the leader when the pushes are done.  Followers*)
(* join by a dump of the leader's files and are registered later.  The     *)
(* event loop interleaves all of this at every await; connections break    *)
(* and the leader may retire.  The members, their roles and their addresses*)
(* do not change, so that update_collective_address has nothing to do.     *)
(***************************************************************************)
EXTENDS Naturals, FiniteSets, Sequences, SequencesExt

CONSTANTS Follower,   \* the other members of the collective
          NonVoting,  \* the followers whose role is nonvoting
          Leader,     \* the member that leads
          Op,         \* changes of the configuration
          Situation   \* bounds a run may have: the changes asked for, how
                      \* often a follower connects and loses its
                      \* connection, and whether the leader retires

ASSUME RolesAssumption ==
    NonVoting \subseteq Follower /\ Leader \notin Follower
ASSUME BoundAssumption ==
    Situation \subseteq
        [ops : SUBSET Op, joins : [Follower -> Nat],
         losses : [Follower -> Nat], retires : BOOLEAN]

VARIABLES
    (* the leader *)
    txcount,   \* _txcount
    ldb,       \* the changes it has applied, in order
    dead,      \* cfgleader is True: the collective is marked dead
    retired,   \* stop_leading was called
    leaving,   \* the followers it has still to tell of the new leader
    streams,   \* the keys of cfgstreams, in order of their registration
    relay,     \* relay_slaved_requests of a follower, by its connection
    hasquorum, \* its _hasquorum
    announcing, \* the relays that announce the quorum, by their followers
    pushq,     \* the pushes waiting for _rpclock, in its order
    inflight,  \* changes counted and not yet applied, in order
    opc,       \* where each change is
    origin,    \* the member a change was requested on
    joinpc,    \* where the 'connect' handler of a follower is
    snap,      \* the dump it holds
    (* the followers *)
    fdb,       \* the changes a follower has applied, in order
    ftx,       \* its _txcount
    fquorum,   \* its _hasquorum
    following, \* it is in follow_channel
    answered,  \* the requests of followers that were answered with success
    (* the connections *)
    up,        \* requests on their way to the leader
    chan,      \* messages on their way to a follower
    broken,    \* the connection of a follower is lost
    (* bounds and history *)
    budget,    \* what is left of a Situation
    raced,     \* changes happened while this follower joined
    failed     \* the health check has failed on the stream of this follower

leadervars == <<txcount, ldb, dead, retired, leaving, streams, relay,
                hasquorum, announcing, failed>>
opvars == <<pushq, inflight, opc, origin>>
joinvars == <<joinpc, snap, raced>>
followervars == <<fdb, ftx, fquorum, following, answered>>
netvars == <<up, chan, broken>>
vars == <<leadervars, opvars, joinvars, followervars, netvars, budget>>

Init ==
    /\ txcount = 0 /\ ldb = <<>>
    /\ dead \in BOOLEAN /\ retired = FALSE /\ leaving = <<>>
    /\ streams = <<>> /\ relay = [f \in Follower |-> "none"]
    /\ hasquorum = TRUE /\ announcing = {}
    /\ pushq = <<>> /\ inflight = <<>>
    /\ opc = [o \in Op |-> "idle"] /\ origin = [o \in Op |-> Leader]
    /\ joinpc = [f \in Follower |-> "none"] /\ snap = [f \in Follower |-> <<>>]
    /\ fdb = [f \in Follower |-> <<>>] /\ ftx = [f \in Follower |-> 0]
    /\ fquorum = [f \in Follower |-> FALSE]
    /\ following = [f \in Follower |-> FALSE]
    /\ answered = {}
    /\ up = [f \in Follower |-> <<>>] /\ chan = [f \in Follower |-> <<>>]
    /\ broken = [f \in Follower |-> TRUE]
    /\ budget \in Situation
    /\ raced = [f \in Follower |-> FALSE]
    /\ failed = {}

\* Messages to a follower.  Null is the empty payload of the health check.
Null(o) == [kind |-> "null", op |-> o]
Tx(o, n) == [kind |-> "tx", op |-> o, txcount |-> n]
Quorum(b, f) == [kind |-> "quorum", quorum |-> b, by |-> f]
Ret(o, ok) == [kind |-> "ret", op |-> o, ok |-> ok]
NewLeader == [kind |-> "newleader"]
Db(s, n) == [kind |-> "db", db |-> s, txcount |-> n]

\* has_quorum, over a set of registered streams: nonvoting members count
\* neither as present nor as members.
HasQuorum(registered) ==
    LET voters == 1 + Cardinality(registered \ NonVoting)
        allvoters == 1 + Cardinality(Follower \ NonVoting)
    IN  voters > allvoters \div 2

\* asyncio.gather of a _push_rpc per registered stream: the pushes line up
\* for _rpclock, which is granted in order.
Broadcast(q, registered, msg) ==
    q \o [i \in DOMAIN registered |->
             [to |-> registered[i], open |-> TRUE, msg |-> msg]]
Pushed(o, kind) ==
    \A i \in 1 .. Len(pushq) :
        ~(pushq[i].msg.kind = kind /\ pushq[i].msg.op = o)
Announced(f) ==
    \A i \in 1 .. Len(pushq) :
        ~(pushq[i].msg.kind = "quorum" /\ pushq[i].msg.by = f)
Reply(q, f, msg) == Append(q, [to |-> f, open |-> TRUE, msg |-> msg])
\* When the relay of f ends, what still waits is for a stream that is closed.
Closed(q, f) ==
    [i \in DOMAIN q |-> IF q[i].to = f THEN [q[i] EXCEPT !.open = FALSE]
                        ELSE q[i]]

\* The requests on a connection are lost with it: exec_on_leader goes on
\* waiting for their answers.
Unsent(f) == [o \in Op |-> IF o \in ToSet(up[f]) THEN "lost" ELSE opc[o]]

\* A change that happens now may be missed by the followers that are joining.
Racing == {f \in Follower : joinpc[f] # "none"}
MarkRaced == raced' = [f \in Follower |-> raced[f] \/ f \in Racing]

-----------------------------------------------------------------------------
(* Changes of the configuration.                                           *)

\* A client of the leader asks for a change (set_node_attributes and the
\* like): refused in a dead collective, applied at once when no follower is
\* registered, otherwise exec_on_followers checks the streams first.
Submit(o) ==
    /\ opc[o] = "idle" /\ o \in budget.ops
    /\ UNCHANGED <<txcount, dead, retired, leaving, streams, relay, hasquorum,
                   announcing, failed, inflight, origin, joinpc, snap,
                   followervars, netvars, budget>>
    /\ \/ /\ dead
          /\ opc' = [opc EXCEPT ![o] = "refused"]
          /\ UNCHANGED <<ldb, raced, pushq>>
       \/ /\ ~dead /\ streams = <<>>
          /\ opc' = [opc EXCEPT ![o] = "done"]
          /\ ldb' = Append(ldb, o)
          /\ MarkRaced
          /\ UNCHANGED pushq
       \/ /\ ~dead /\ streams # <<>>
          /\ opc' = [opc EXCEPT ![o] = "health"]
          /\ pushq' = Broadcast(pushq, streams, Null(o))
          /\ UNCHANGED <<ldb, raced>>

\* A client of a follower asks for a change: exec_on_leader.
Request(f, o) ==
    /\ opc[o] = "idle" /\ o \in budget.ops
    /\ following[f]
    /\ opc' = [opc EXCEPT ![o] = "sent"]
    /\ origin' = [origin EXCEPT ![o] = f]
    /\ up' = [up EXCEPT ![f] = Append(@, o)]
    /\ UNCHANGED <<leadervars, pushq, inflight, joinvars, followervars, chan,
                   broken, budget>>

\* The relay of f is busy with a request until it has pushed the answer.
Busy(f) == \E o \in Op : origin[o] = f /\ opc[o] \in {"health", "push"}

\* relay_slaved_requests reads the next request of f and calls the function.
RelayRequest(f) ==
    /\ relay[f] = "live" /\ f \in ToSet(streams)
    /\ f \notin announcing /\ ~Busy(f)
    /\ up[f] # <<>>
    /\ opc' = [opc EXCEPT ![Head(up[f])] = "health"]
    /\ pushq' = Broadcast(pushq, streams, Null(Head(up[f])))
    /\ up' = [up EXCEPT ![f] = Tail(@)]
    /\ UNCHANGED <<leadervars, inflight, origin, joinvars, followervars, chan,
                   broken, budget>>

\* Mutant of Commit: the member that asked is left out of the pushes.
CommitSkipsOrigin(o) ==
    /\ opc[o] = "health" /\ Pushed(o, "null")
    /\ HasQuorum(ToSet(streams))
    /\ txcount' = txcount + 1
    /\ opc' = [opc EXCEPT ![o] = "push"]
    /\ inflight' = Append(inflight, o)
    /\ pushq' = Broadcast(pushq, RemoveFirst(streams, origin[o]),
                          Tx(o, txcount + 1))
    /\ MarkRaced
    /\ UNCHANGED <<ldb, dead, retired, leaving, streams, relay, hasquorum,
                   announcing, failed, origin, joinpc, snap, followervars,
                   netvars, budget>>

\* exec_on_followers after the health check: refuse without quorum, else
\* count the change and push it to the streams registered now.
Commit(o) ==
    /\ opc[o] = "health" /\ Pushed(o, "null")
    /\ IF HasQuorum(ToSet(streams))
       THEN /\ txcount' = txcount + 1
            /\ opc' = [opc EXCEPT ![o] = "push"]
            /\ inflight' = Append(inflight, o)
            /\ pushq' = Broadcast(pushq, streams, Tx(o, txcount + 1))
            /\ MarkRaced
       ELSE /\ opc' = [opc EXCEPT ![o] = "refused"]
            /\ pushq' = IF origin[o] = Leader THEN pushq
                        ELSE Reply(pushq, origin[o], Ret(o, FALSE))
            /\ UNCHANGED <<txcount, inflight, raced>>
    /\ UNCHANGED <<ldb, dead, retired, leaving, streams, relay, hasquorum,
                   announcing, failed, origin, joinpc, snap, followervars,
                   netvars, budget>>

\* A push that reaches the follower as a message.
Writes(p) == p.open /\ relay[p.to] = "live" /\ p.msg.kind # "null"

\* Mutant of Push: the last to line up for the lock gets it first.
PushNewestFirst ==
    /\ pushq # <<>>
    /\ LET f == Last(pushq).to
           m == Last(pushq).msg
       IN  /\ chan' = IF Writes(Last(pushq))
                      THEN [chan EXCEPT ![f] = Append(@, m)] ELSE chan
           /\ streams' = IF m.kind = "newleader" THEN RemoveFirst(streams, f)
                         ELSE streams
    /\ pushq' = Front(pushq)
    /\ UNCHANGED <<txcount, ldb, dead, retired, leaving, relay, hasquorum,
                   announcing, failed, inflight, opc, origin, joinvars,
                   followervars, up, broken, budget>>

\* _push_rpc: the holder of _rpclock writes to its stream; the follower skips
\* an empty payload.  A write to a broken stream is lost, and raises an
\* exception or not.  The entry of cfgstreams stays, because it is looked up
\* by the stream and not by the name.  stop_leading unregisters a stream once
\* it has pushed the new leader.
Push ==
    /\ pushq # <<>>
    /\ LET f == Head(pushq).to
           m == Head(pushq).msg
       IN  /\ \/ UNCHANGED failed
              \/ /\ Head(pushq).open /\ relay[f] = "broken" /\ m.kind = "null"
                 /\ failed' = failed \cup {f}
           /\ chan' = IF Writes(Head(pushq))
                      THEN [chan EXCEPT ![f] = Append(@, m)] ELSE chan
           /\ streams' = IF m.kind = "newleader" THEN RemoveFirst(streams, f)
                         ELSE streams
    /\ pushq' = Tail(pushq)
    /\ UNCHANGED <<txcount, ldb, dead, retired, leaving, relay, hasquorum,
                   announcing, inflight, opc, origin, joinvars, followervars,
                   up, broken, budget>>

\* All pushes of the oldest change are done: the leader applies it itself and
\* answers.  (The waiting calls are resumed in the order of their pushes.)
Apply ==
    /\ inflight # <<>>
    /\ LET o == Head(inflight)
       IN  /\ Pushed(o, "tx")
           /\ ldb' = Append(ldb, o)
           /\ opc' = [opc EXCEPT ![o] = "done"]
           /\ pushq' = IF origin[o] = Leader THEN pushq
                       ELSE Reply(pushq, origin[o], Ret(o, TRUE))
    /\ inflight' = Tail(inflight)
    /\ MarkRaced
    /\ UNCHANGED <<txcount, dead, retired, leaving, streams, relay, hasquorum,
                   announcing, failed, origin, joinpc, snap, followervars,
                   netvars, budget>>

-----------------------------------------------------------------------------
(* Joining: the 'connect' operation, one follower at a time (leader_init). *)

\* _dump_to_json: another process reads the files of the leader, which lag
\* behind its memory (ConfigSync).  The follower never has the higher count
\* (TypeOK), so the handler does not retire the leader.
JoinDump(f, n) ==
    /\ n \in 0 .. Len(ldb)
    /\ ~retired /\ ~following[f] /\ broken[f] /\ chan[f] = <<>>
    /\ joinpc[f] = "none" /\ \A g \in Follower : joinpc[g] # "dumped"
    /\ budget.joins[f] > 0
    /\ budget' = [budget EXCEPT !.joins[f] = @ - 1]
    /\ joinpc' = [joinpc EXCEPT ![f] = "dumped"]
    /\ snap' = [snap EXCEPT ![f] = SubSeq(ldb, 1, n)]
    /\ raced' = [raced EXCEPT ![f] = n < Len(ldb) \/ inflight # <<>>]
    /\ broken' = [broken EXCEPT ![f] = FALSE]
    /\ UNCHANGED <<leadervars, opvars, followervars, up, chan>>

\* The transaction count of now and the dump are sent; leader_init is free.
JoinSend(f) ==
    /\ joinpc[f] = "dumped"
    /\ joinpc' = [joinpc EXCEPT ![f] = "sent"]
    /\ chan' = IF broken[f] THEN chan
               ELSE [chan EXCEPT ![f] = <<Db(snap[f], txcount)>>]
    /\ snap' = [snap EXCEPT ![f] = <<>>]
    /\ UNCHANGED <<leadervars, opvars, raced, followervars, up, broken,
                   budget>>

\* relay_slaved_requests registers the stream, once the relay of an earlier
\* connection of f has ended (_followerlocks), and announces the quorum to
\* everybody ...
JoinRegister(f) ==
    /\ joinpc[f] = "sent" /\ relay[f] = "none"
    /\ joinpc' = [joinpc EXCEPT ![f] = "none"]
    /\ dead' = FALSE
    /\ streams' = Append(streams, f)
    /\ relay' = [relay EXCEPT ![f] = IF broken[f] THEN "broken" ELSE "live"]
    /\ hasquorum' = HasQuorum(ToSet(streams'))
    /\ announcing' = announcing \cup {f}
    /\ pushq' = Broadcast(pushq, streams',
                          Quorum(hasquorum', f))
    /\ failed' = failed \ {f}
    /\ UNCHANGED <<txcount, ldb, retired, leaving, inflight, opc, origin,
                   snap, raced, followervars, netvars, budget>>

\* ... and again while the quorum is another than _hasquorum, which another
\* relay may have set since.
Reannounce(f) ==
    /\ f \in announcing /\ Announced(f)
    /\ hasquorum' = HasQuorum(ToSet(streams))
    /\ IF hasquorum' = hasquorum
       THEN announcing' = announcing \ {f} /\ UNCHANGED pushq
       ELSE /\ pushq' = Broadcast(pushq, streams, Quorum(hasquorum', f))
            /\ UNCHANGED announcing
    /\ UNCHANGED <<txcount, ldb, dead, retired, leaving, streams, relay,
                   failed, inflight, opc, origin, joinvars, followervars,
                   netvars, budget>>

-----------------------------------------------------------------------------
(* The followers.                                                          *)

\* Mutant of Receive: the count that comes with a change is not kept.
ReceiveForgetsCount(f) ==
    /\ chan[f] # <<>>
    /\ LET m == Head(chan[f])
       IN  /\ fdb' = IF m.kind = "db" THEN [fdb EXCEPT ![f] = m.db]
                     ELSE IF m.kind = "tx"
                          THEN [fdb EXCEPT ![f] = Append(@, m.op)] ELSE fdb
           /\ ftx' = IF m.kind = "db" THEN [ftx EXCEPT ![f] = m.txcount]
                     ELSE ftx
           /\ fquorum' = IF m.kind = "quorum"
                         THEN [fquorum EXCEPT ![f] = m.quorum] ELSE fquorum
           /\ following' = [following EXCEPT ![f] = m.kind # "newleader"]
           /\ chan' = [chan EXCEPT ![f] = Tail(@)]
    /\ UNCHANGED <<leadervars, opvars, joinvars, answered, up, broken,
                   budget>>

\* follow_channel, and connect_to_leader for the initial dump.
Receive(f) ==
    /\ chan[f] # <<>>
    /\ LET m == Head(chan[f])
       IN  /\ fdb' = IF m.kind = "db" THEN [fdb EXCEPT ![f] = m.db]
                     ELSE IF m.kind = "tx"
                          THEN [fdb EXCEPT ![f] = Append(@, m.op)] ELSE fdb
           /\ ftx' = IF m.kind \in {"db", "tx"}
                     THEN [ftx EXCEPT ![f] = m.txcount] ELSE ftx
           /\ fquorum' = IF m.kind = "quorum"
                         THEN [fquorum EXCEPT ![f] = m.quorum] ELSE fquorum
           /\ answered' = IF m.kind = "ret" /\ m.ok THEN answered \cup {m.op}
                          ELSE answered
           /\ following' = [following EXCEPT ![f] = m.kind # "newleader"]
           /\ chan' = [chan EXCEPT ![f] = IF m.kind = "newleader" THEN <<>>
                                          ELSE Tail(@)]
           /\ broken' = [broken EXCEPT ![f] = @ \/ m.kind = "newleader"]
           /\ relay' = IF m.kind = "newleader" /\ relay[f] = "live"
                       THEN [relay EXCEPT ![f] = "broken"] ELSE relay
           /\ up' = IF m.kind = "newleader" THEN [up EXCEPT ![f] = <<>>]
                    ELSE up
           /\ opc' = IF m.kind = "newleader" THEN Unsent(f) ELSE opc
    /\ UNCHANGED <<txcount, ldb, dead, retired, leaving, streams, hasquorum,
                   announcing, failed, pushq, inflight, origin, joinvars,
                   budget>>

\* follow_channel ends when its connection is lost: the rest is not read.
StopFollowing(f) ==
    /\ broken[f]
    /\ following[f] \/ chan[f] # <<>>
    /\ following' = [following EXCEPT ![f] = FALSE]
    /\ chan' = [chan EXCEPT ![f] = <<>>]
    /\ UNCHANGED <<leadervars, opvars, joinvars, fdb, ftx, fquorum, answered,
                   up, broken, budget>>

-----------------------------------------------------------------------------
(* Losses.                                                                 *)

\* A connection is lost, or one side gives up on it after 60 seconds.
Break(f) ==
    /\ ~broken[f]
    /\ budget.losses[f] > 0
    /\ budget' = [budget EXCEPT !.losses[f] = @ - 1]
    /\ broken' = [broken EXCEPT ![f] = TRUE]
    /\ relay' = [relay EXCEPT ![f] = IF @ = "live" THEN "broken" ELSE @]
    /\ up' = [up EXCEPT ![f] = <<>>]
    /\ opc' = Unsent(f)
    /\ UNCHANGED <<txcount, ldb, dead, retired, leaving, streams, hasquorum,
                   announcing, failed, pushq, inflight, origin, joinvars,
                   followervars, chan>>

\* Mutants of RelayEnd: the entry of cfgstreams stays; the others do not hear
\* of the quorum; a follower that is no longer registered is kept.
RelayEndKeepsEntry(f) ==
    /\ ~Busy(f) /\ f \notin announcing /\ relay[f] = "broken"
    /\ relay' = [relay EXCEPT ![f] = "none"]
    /\ UNCHANGED <<txcount, ldb, dead, retired, leaving, streams, hasquorum,
                   announcing, failed, opvars, joinvars, followervars,
                   netvars, budget>>

RelayEndSilent(f) ==
    /\ ~Busy(f) /\ f \notin announcing /\ relay[f] = "broken"
    /\ relay' = [relay EXCEPT ![f] = "none"]
    /\ streams' = RemoveFirst(streams, f)
    /\ pushq' = Closed(pushq, f)
    /\ dead' = (dead \/ streams' = <<>>)
    /\ UNCHANGED <<txcount, ldb, retired, leaving, hasquorum, announcing,
                   failed, inflight, opc, origin, joinvars, followervars,
                   netvars, budget>>

RelayEndKeepsUnregistered(f) ==
    /\ ~Busy(f) /\ f \notin announcing /\ relay[f] = "broken"
    /\ streams' = RemoveFirst(streams, f)
    /\ relay' = [relay EXCEPT ![f] =
                    IF streams' = <<>> THEN "none" ELSE "ending"]
    /\ dead' = (dead \/ streams' = <<>>)
    /\ hasquorum' = IF streams' = <<>> THEN hasquorum
                    ELSE HasQuorum(ToSet(streams'))
    /\ pushq' = Broadcast(Closed(pushq, f), streams',
                          Quorum(hasquorum', f))
    /\ failed' = failed \ {f}
    /\ UNCHANGED <<txcount, ldb, retired, leaving, announcing, inflight, opc,
                   origin, joinvars, followervars, netvars, budget>>

\* The end of relay_slaved_requests: the connection is lost, or f sent
\* something after it was unregistered.  The remaining followers hear of the
\* quorum; without any the collective is marked dead ...
RelayEnd(f) ==
    /\ ~Busy(f) /\ f \notin announcing
    /\ \/ relay[f] = "broken"
       \/ relay[f] = "live" /\ f \notin ToSet(streams)
    /\ broken' = [broken EXCEPT ![f] = @ \/ relay[f] = "live"]
    /\ up' = [up EXCEPT ![f] = IF relay[f] = "live" THEN <<>> ELSE @]
    /\ opc' = IF relay[f] = "live" THEN Unsent(f) ELSE opc
    /\ streams' = RemoveFirst(streams, f)
    /\ relay' = [relay EXCEPT ![f] =
                    IF streams' = <<>> THEN "none" ELSE "ending"]
    /\ dead' = (dead \/ streams' = <<>>)
    /\ hasquorum' = IF streams' = <<>> THEN hasquorum
                    ELSE HasQuorum(ToSet(streams'))
    /\ pushq' = Broadcast(Closed(pushq, f), streams',
                          Quorum(hasquorum', f))
    /\ failed' = failed \ {f}
    /\ UNCHANGED <<txcount, ldb, retired, leaving, announcing, inflight,
                   origin, joinvars, followervars, chan, budget>>

\* ... and so it is if none is left when they have heard of it.
RelayExit(f) ==
    /\ relay[f] = "ending" /\ Announced(f)
    /\ relay' = [relay EXCEPT ![f] = "none"]
    /\ dead' = (dead \/ streams = <<>>)
    /\ UNCHANGED <<txcount, ldb, retired, leaving, streams, hasquorum,
                   announcing, failed, opvars, joinvars, followervars,
                   netvars, budget>>

\* stop_leading, with or without telling the followers about a new leader.
\* The connections stay open: closing the pair of reader and writer fails.
StopLeading(tell) ==
    /\ ~retired /\ budget.retires
    /\ retired' = TRUE
    /\ IF tell
       THEN leaving' = streams /\ UNCHANGED streams
       ELSE streams' = <<>> /\ UNCHANGED leaving
    /\ UNCHANGED <<txcount, ldb, dead, relay, hasquorum, announcing, failed,
                   opvars, joinvars, followervars, netvars, budget>>

\* The followers are told one by one; Push unregisters the one it told.
TellNewLeader ==
    /\ leaving # <<>>
    /\ \A i \in DOMAIN pushq : pushq[i].msg.kind # "newleader"
    /\ pushq' = IF Head(leaving) \in ToSet(streams)
                THEN Reply(pushq, Head(leaving), NewLeader) ELSE pushq
    /\ leaving' = Tail(leaving)
    /\ UNCHANGED <<txcount, ldb, dead, retired, streams, relay, hasquorum,
                   announcing, failed, inflight, opc, origin, joinvars,
                   followervars, netvars, budget>>

Progress ==
    \/ \E f \in Follower : \/ RelayRequest(f) \/ JoinSend(f) \/ JoinRegister(f)
                           \/ Reannounce(f) \/ Receive(f) \/ StopFollowing(f)
                           \/ RelayEnd(f) \/ RelayExit(f)
    \/ \E o \in Op : Commit(o)
    \/ Push \/ Apply \/ TellNewLeader

Next ==
    \/ Progress
    \/ \E o \in Op : Submit(o) \/ \E f \in Follower : Request(f, o)
    \/ \E f \in Follower : Break(f) \/ \E n \in 0 .. Len(ldb) : JoinDump(f, n)
    \/ \E tell \in BOOLEAN : StopLeading(tell)

Spec == Init /\ [][Next]_vars

\* The event loop runs every task that can go on.  Clients, members that
\* connect, broken connections and retirement may come or not.
FairSpec == Spec /\ WF_vars(Progress)

-----------------------------------------------------------------------------
(* Properties.                                                             *)

\* The messages there may be when n transactions have been counted.
Message(n) ==
    [kind : {"null"}, op : Op] \cup [kind : {"tx"}, op : Op, txcount : 0 .. n]
    \cup [kind : {"quorum"}, quorum : BOOLEAN, by : Follower]
    \cup [kind : {"ret"}, op : Op, ok : BOOLEAN] \cup [kind : {"newleader"}]
    \cup [kind : {"db"}, db : Seq(Op), txcount : 0 .. n]

Waiting(n) == [to : Follower, open : BOOLEAN, msg : Message(n)]

LeaderOK ==
    /\ txcount \in Nat /\ ldb \in Seq(Op)
    /\ dead \in BOOLEAN /\ retired \in BOOLEAN
    /\ streams \in Seq(Follower) /\ IsInjective(streams)
    /\ leaving \in Seq(Follower)
    /\ relay \in [Follower -> {"none", "live", "broken", "ending"}]
    /\ \A f \in ToSet(streams) : relay[f] \in {"live", "broken"}
    /\ hasquorum \in BOOLEAN
    /\ announcing \subseteq Follower /\ failed \subseteq Follower
ChangesOK ==
    /\ pushq \in Seq(Waiting(txcount)) /\ inflight \in Seq(Op)
    /\ opc \in [Op -> {"idle", "sent", "health", "push", "done", "refused",
                     "lost"}]
    /\ origin \in [Op -> Follower \cup {Leader}]
JoinsOK ==
    /\ joinpc \in [Follower -> {"none", "dumped", "sent"}]
    /\ snap \in [Follower -> Seq(Op)] /\ raced \in [Follower -> BOOLEAN]
FollowersOK ==
    /\ fdb \in [Follower -> Seq(Op)] /\ ftx \in [Follower -> 0 .. txcount]
    /\ fquorum \in [Follower -> BOOLEAN]
    /\ following \in [Follower -> BOOLEAN] /\ answered \subseteq Op
ConnectionsOK ==
    /\ up \in [Follower -> Seq(Op)]
    /\ chan \in [Follower -> Seq(Message(txcount))]
    /\ broken \in [Follower -> BOOLEAN]
BudgetOK ==
    budget \in [ops : SUBSET Op, joins : [Follower -> Nat],
               losses : [Follower -> Nat], retires : BOOLEAN]

TypeOK ==
    LeaderOK /\ ChangesOK /\ JoinsOK /\ FollowersOK /\ ConnectionsOK /\ BudgetOK

\* The values of those places up to n that are in D, in their order.
Picked(D, value, n) ==
    LET upto[i \in 0 .. n] ==
            IF i = 0 THEN <<>>
            ELSE IF i \in D THEN Append(upto[i - 1], value[i]) ELSE upto[i - 1]
    IN  upto[n]

\* The changes among the messages to f, and among the pushes that wait.
Changes(msgs) ==
    LET txs == {j \in DOMAIN msgs : msgs[j].kind = "tx"}
    IN  Picked(txs, [j \in txs |-> msgs[j].op], Len(msgs))
QueuedChanges(f) ==
    LET txs == {i \in DOMAIN pushq : /\ pushq[i].to = f /\ pushq[i].open
                                     /\ pushq[i].msg.kind = "tx"}
    IN  Picked(txs, [i \in txs |-> pushq[i].msg.op], Len(pushq))

\* A registered follower on a live connection, joined while nothing changed,
\* has in its database, its connection and the waiting pushes exactly what
\* the leader has applied or is about to, in the same order: whatever
\* requests interleave in exec_on_followers, nobody else's loss costs it a
\* change, a duplicate or an inversion.
ReplicaAgrees ==
    \A f \in ToSet(streams) :
        relay[f] = "live" /\ following[f] /\ ~raced[f]
        => fdb[f] \o Changes(chan[f]) \o QueuedChanges(f) = ldb \o inflight

\* The log of a tenure is what the leader has applied or is about to; a request
\* is decided when it is counted.
Log == INSTANCE ReplicatedLog
    WITH log <- ldb \o inflight, replica <- fdb,
         missed <- {f \in Follower : raced[f]}, over <- retired

\* Replication implements one log: no interleaving of requests, pushes, joins
\* and losses makes a follower apply a change that was not decided, twice, in
\* another order, or leave one out that was decided after it had joined.
ReplicationImplementsLog == Log!Spec

\* exec_on_leader returns to a follower's client only after the follower has
\* applied that client's change itself.
ReadYourWrites ==
    [][\A o \in answered' \ answered :
          retired \/ o \in ToSet(fdb[origin[o]])]_vars

\* The transaction count is what members compare to choose a leader: a
\* registered follower that has received everything has the leader's.
CountAgrees ==
    \A f \in ToSet(streams) :
        /\ relay[f] = "live" /\ following[f] /\ ~raced[f]
        /\ Changes(chan[f]) = <<>> /\ QueuedChanges(f) = <<>>
        => ftx[f] = txcount

\* "He needs to bootstrap his configuration and subscribe it to updates":
\* a subscribed follower with nothing left to receive has the configuration
\* of the leader.
JoinComplete ==
    \A f \in ToSet(streams) :
        /\ relay[f] = "live" /\ following[f]
        /\ chan[f] = <<>> /\ pushq = <<>> /\ inflight = <<>>
        => fdb[f] = ldb

\* "Check health of collective prior to attempting": a change is not counted
\* as having quorum through a stream that a push has already failed on.
HealthChecked ==
    [][txcount' # txcount => HasQuorum(ToSet(streams) \ failed)]_vars

\* Every registered follower knows whether there is a quorum, once nothing is
\* left to push or to receive and no relay has still to begin or end: however
\* joins, losses and the announcements of several relays interleave, the last
\* announcement that reaches a follower is not an outdated one.
Settled ==
    /\ pushq = <<>> /\ leaving = <<>>
    /\ announcing = {}
    /\ \A f \in Follower : relay[f] = IF f \in ToSet(streams)
                                       THEN "live" ELSE "none"
QuorumKnown ==
    Settled => \A f \in ToSet(streams) :
        following[f] /\ chan[f] = <<>>
            => fquorum[f] = HasQuorum(ToSet(streams))

\* A request forwarded by exec_on_leader is answered, or the follower loses
\* its leader.
RequestResolved ==
    \A o \in Op :
        opc[o] = "sent"
            ~> \/ o \in answered \/ opc[o] = "refused"
               \/ \E f \in Follower : origin[o] = f /\ ~following[f]
=============================================================================
