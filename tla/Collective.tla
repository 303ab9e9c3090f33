----------------------------- MODULE Collective -----------------------------
(***************************************************************************)
(* How the members of a collective choose a leader: start_collective,      *)
(* connect_to_leader, follow_leader, the 'connect' and 'assimilate'        *)
(* operations, become_leader, retire_as_leader and reassimilate_missing    *)
(* of collective/manager.py, with the part of configmanager.py that keeps  *)
(* the streams between leader and followers.                               *)
(*                                                                         *)
(* Every asyncio task that takes part is a frame of task[m]: the run of    *)
(* start_collective, the follow task, reassimilate_missing, and one        *)
(* handler per peer of its 'connect' and of its 'assimilate' operation.    *)
(* All of them may call connect_to_leader, which may call become_leader,   *)
(* which may call connect_to_leader again; a frame keeps what these calls  *)
(* leave to be done when they return.  What the code does between two      *)
(* suspensions of a task is one step.                                      *)
(***************************************************************************)
EXTENDS Naturals, FiniteSets

CONSTANTS Member,   \* members, ordered as their names are
          Voting,   \* those whose role is not 'nonvoting'
          Situation \* how a run may begin, and what it may do

\* What bounds a run: how often start_collective runs on each member, how
\* often each is interrupted (a crash, a restart or a broken connection), the
\* runs of reassimilate_missing, and the changes.
Budget == [starts : [Member -> Nat], faults : [Member -> Nat], wakes : Nat, changes : Nat]

ASSUME MemberAssumption == Member \subseteq Nat \ {0} /\ IsFiniteSet(Member)
ASSUME VotingAssumption == Voting \subseteq Member

\* up are the members that run, saved their transaction counts, joined those
\* that follow the member leader (0 for nobody).
ASSUME SituationAssumption ==
  \A x \in Situation : /\ x.up \subseteq Member
                       /\ x.saved \in [Member -> Nat]
                       /\ x.leader \in x.up \union {0}
                       /\ x.joined \subseteq x.up \ {x.leader}
                       /\ x.budget \in Budget

VARIABLES node,  \* the globals of each member, its connection to a leader, and
                 \* (older, history) whether it let down one that it had accepted
          task,  \* the frames of its tasks
          relay, \* relay[l][c]: where relay_slaved_requests for c is at l
          ask,   \* the 'connect' request a member waits for, and its answer
          left   \* what is left of the budget of the run

vars == <<node, task, relay, ask, left>>

None == 0
Start == <<"start", None>>
Follow == <<"follow", None>>
Missing == <<"missing", None>>
Serve(c) == <<"serve", c>>
Assimilate(a) == <<"assimilate", a>>
NoTask == <<"none", None>>
Kind == {Start, Follow, Missing} \union {Serve(c) : c \in Member}
                                 \union {Assimilate(a) : a \in Member}

\* A frame: what the task waits for (pc), the peer it talks to, the members
\* that _assimilate_missing (todo) and start_collective (cand) still have
\* before them, the number of followers when the former began, how many calls
\* of connect_to_leader arm a retry when they return false (owe: none, the
\* innermost, or an outer one, which is bound to return false), the count a
\* 'connect' request came with, and whether it has been answered.
Idle == [pc |-> "idle", peer |-> None, todo |-> {}, cand |-> {}, followers |-> 0,
         owe |-> 0, tx |-> 0, answered |-> FALSE]

Calling(peer, owe) == [Idle EXCEPT !.pc = "lock", !.peer = peer, !.owe = owe]

\* had is the count of the request, tx that of the database in the answer.
NoAsk == [to |-> None, had |-> 0, answer |-> "none", leader |-> None, tx |-> 0]

\* A member that has just been started, with the transactions of its files.
Started(count) ==
  [up |-> TRUE, tx |-> count, leader |-> None, follower |-> FALSE,
   cfg |-> "none", link |-> None, told |-> None, retry |-> TRUE,
   initting |-> TRUE, held |-> NoTask, ended |-> FALSE, older |-> FALSE]

-----------------------------------------------------------------------------
(* The parts of the code that run without suspension, as operators from     *)
(* one state to the next; s is a record of the variables but left.        *)

Here == [node |-> node, task |-> task, relay |-> relay, ask |-> ask]

Becomes(s) == /\ node' = s.node
              /\ task' = s.task
              /\ relay' = s.relay
              /\ ask' = s.ask

Streams(s, m) == {c \in Member : s.relay[m][c] \in {"live", "stale"}}

HasQuorum(s, m) ==
  2 * Cardinality((Streams(s, m) \union {m}) \intersect Voting) > Cardinality(Voting)

CheckQuorum(s, m) ==
  CASE s.node[m].cfg = "dead" -> FALSE
    [] s.node[m].cfg = "none" -> HasQuorum(s, m)
    [] OTHER -> \E l \in Member : s.node[m].link = l /\ HasQuorum(s, l)

LeaderInit(s, m) == \E c \in Member : s.task[m][Serve(c)].pc \in {"init", "drain"}

\* The connection to the leader is gone; the leader has yet to notice.
Sever(s, m) ==
  LET l == s.node[m].link
  IN IF l = None THEN s
     ELSE [s EXCEPT !.node[m].link = None, !.node[m].told = None,
                    !.relay[l][m] = IF @ = "live" THEN "stale" ELSE @]

StopFollowing(s, m, replacement) ==
  LET t == IF s.node[m].cfg = "leader" THEN Sever(s, m) ELSE s
  IN [t EXCEPT !.node[m].cfg = replacement]

\* The streams are forgotten, and their relays notice; who still reads one has
\* been told the new leader.
StopLeading(s, m, new) ==
  [s EXCEPT !.relay[m] = [c \in Member |-> IF c \in Streams(s, m) THEN "ending"
                                           ELSE s.relay[m][c]],
            !.node = [c \in Member |->
                        IF new # None /\ s.relay[m][c] = "live"
                        THEN [s.node[c] EXCEPT !.told = new] ELSE s.node[c]]]

Retire(s, m, new) ==
  LET t == StopLeading(s, m, new)
  IN [t EXCEPT !.task[m][Missing] = Idle, !.node[m].leader = None]

Retry(s, m) == [s EXCEPT !.node[m].retry = TRUE]

Unlock(s, m, k) ==
  IF s.node[m].held = k THEN [s EXCEPT !.node[m].held = NoTask] ELSE s

\* follower.cancel(), stop_following and follower = None.  A follow task that
\* reads from the leader still has its finally clause to run (ended); one that
\* already runs it is aborted; one that cancels itself goes on until it waits.
CancelFollower(s, m, k) ==
  LET f == s.task[m][Follow]
      stopped == IF k = Follow THEN s
                 ELSE [Unlock(s, m, Follow)
                       EXCEPT !.task[m][Follow] = Idle,
                              !.node[m].ended = @ \/ f.pc = "follow"]
  IN IF ~s.node[m].follower THEN s
     ELSE [StopFollowing(Sever(stopped, m), m, "none")
           EXCEPT !.node[m].follower = FALSE]

\* m has accepted c, which has yet to get a database or to count what follows it.
Owes(s, m, c) ==
  \/ s.task[m][Serve(c)].pc \in {"queue", "init", "drain", "attach"}
  \/ s.relay[m][c] = "live" /\ s.ask[c].answer = "dump"

\* History: the count of m falls while somebody relies on it.
Older(s, m, count) ==
  \/ s.node[m].older
  \/ count < s.node[m].tx /\ \E c \in Member : s.ask[c].to = m /\ Owes(s, m, c)

\* become_leader up to the call of _assimilate_missing.
Become(s, m, k) ==
  IF m \notin Voting THEN s
  ELSE [CancelFollower(s, m, k)
        EXCEPT !.node[m].retry = FALSE,
               !.node[m].leader = m,
               !.task[m][Missing] = [Idle EXCEPT !.pc = "sleep"]]

\* Whom _assimilate_missing will try.
Absent(s, m, skip) == Member \ (Streams(s, m) \union {m, s.node[m].leader, skip})

Probing(s, m, k, skip) ==
  [s EXCEPT !.task[m][k].pc = "probe",
            !.task[m][k].todo = Absent(s, m, skip),
            !.task[m][k].followers = Cardinality(Streams(s, m))]

\* An answer reaches the client unless it has gone.
Reply(s, m, c, answer) ==
  IF s.ask[c].to # m THEN s
  ELSE [s EXCEPT !.ask[c].answer = answer, !.ask[c].leader = s.node[m].leader]

\* The client is served, or waits in line, for leader_init.
Serving(s, m, c) ==
  IF LeaderInit(s, m) THEN [s EXCEPT !.task[m][Serve(c)] = [Idle EXCEPT !.pc = "queue"]]
  ELSE [Reply(s, m, c, "keys") EXCEPT !.task[m][Serve(c)] = [Idle EXCEPT !.pc = "init"]]

\* Mutant of Decide: the transaction counts are not compared.
DecideBlindly(s, m, c) ==
  IF s.node[m].leader # m
  THEN [Reply(s, m, c, "redirect") EXCEPT !.task[m][Serve(c)] = Idle]
  ELSE Serving([s EXCEPT !.node[m].retry = FALSE], m, c)

\* The 'connect' operation once get_leader has returned.
Decide(s, m, c) ==
  LET f == s.task[m][Serve(c)]
  IN IF s.node[m].leader # m
     THEN [Reply(s, m, c, "redirect") EXCEPT !.task[m][Serve(c)] = Idle]
     ELSE IF f.tx > s.node[m].tx
     THEN [Reply(Retire(s, m, None), m, c, "inferior")
           EXCEPT !.task[m][Serve(c)] = [Calling(c, 1) EXCEPT !.answered = TRUE]]
     ELSE Serving([s EXCEPT !.node[m].retry = FALSE], m, c)

\* Mutant of Over: the member waits to be found.
OverForGood(s, m) ==
  [StopFollowing(Sever(s, m), m, "none")
   EXCEPT !.node[m].follower = FALSE, !.node[m].leader = None, !.task[m][Follow] = Idle]

\* The finally clause of follow_leader when no new leader took the member.
Over(s, m) ==
  [StopFollowing(Sever(s, m), m, "none")
   EXCEPT !.node[m].follower = FALSE, !.node[m].leader = None,
          !.node[m].retry = TRUE, !.task[m][Follow] = Idle]

\* The finally clause of start_collective.
StartReturns(s, m) ==
  [s EXCEPT !.node[m].retry = @ \/ ~s.node[m].follower,
            !.node[m].initting = FALSE,
            !.task[m][Start] = Idle]

\* Who leaves connect_to_leader with the lock gives it back, and its request is over.
Release(s, m, k) ==
  IF s.node[m].held = k THEN [Unlock(s, m, k) EXCEPT !.ask[m] = NoAsk] ELSE s

\* connect_to_leader returns to the task that called it.
Finish(s, m, k, ok) ==
  LET f == s.task[m][k]
      owed == f.owe = 2 \/ (f.owe = 1 /\ ~ok)
      t == Release(IF owed THEN Retry(s, m) ELSE s, m, k)
  IN CASE k = Start -> [t EXCEPT !.task[m][k] = [Idle EXCEPT !.pc = "next", !.cand = f.cand]]
       [] k = Follow -> IF ok THEN t ELSE Over(t, m)
       [] k[1] = "serve" /\ ~f.answered -> Decide(t, m, k[2])
       [] OTHER -> [t EXCEPT !.task[m][k] = Idle]

\* connect_to_leader raises: start_collective and follow_leader catch it, and
\* of the other tasks none arms a retry.
Failed(s, m, k) ==
  LET t == [Unlock(s, m, k) EXCEPT !.ask[m] = NoAsk]
  IN CASE k = Start -> StartReturns(t, m)
       [] k = Follow -> Over(t, m)
       [] OTHER -> [t EXCEPT !.task[m][k] = Idle]

\* _assimilate_missing returns: reassimilate_missing sleeps, get_leader goes
\* on, and a connect_to_leader that made the member a leader returns None.
Probed(s, m, k) ==
  IF k = Missing THEN [s EXCEPT !.task[m][k] = [Idle EXCEPT !.pc = "sleep"]]
  ELSE Finish(s, m, k, FALSE)

-----------------------------------------------------------------------------
\* A member at the beginning: who is neither leader nor follower has been
\* started when it could reach nobody, and will try again.
First(x, m) ==
  [Started(x.saved[m]) EXCEPT
     !.up = m \in x.up,
     !.initting = m \notin x.up,
     !.retry = m \notin x.joined \union {x.leader},
     !.cfg = CASE m \in x.joined -> "leader"
               [] m = x.leader \/ m \notin x.up -> "none"
               [] OTHER -> "dead",
     !.leader = IF m \in x.joined \union {x.leader} THEN x.leader ELSE None,
     !.link = IF m \in x.joined THEN x.leader ELSE None,
     !.follower = m \in x.joined]

FirstTask(x, m, k) ==
  CASE k = Missing /\ m = x.leader -> [Idle EXCEPT !.pc = "sleep"]
    [] k = Follow /\ m \in x.joined -> [Idle EXCEPT !.pc = "follow", !.peer = x.leader]
    [] OTHER -> Idle

Init ==
  \E x \in Situation :
    /\ node = [m \in Member |-> First(x, m)]
    /\ task = [m \in Member |-> [k \in Kind |-> FirstTask(x, m, k)]]
    /\ relay = [l \in Member |-> [c \in Member |->
                   IF l = x.leader /\ c \in x.joined THEN "live" ELSE "none"]]
    /\ ask = [m \in Member |-> NoAsk]
    /\ left = x.budget

(* start_collective *)

\* The retry timer fires, or the process has just come up.
StartFires(m) ==
  /\ node[m].up
  /\ node[m].retry
  /\ left.starts[m] > 0
  /\ task[m][Start] = Idle
  /\ LET s == [Here EXCEPT !.node[m].retry = FALSE, !.node[m].initting = TRUE]
         others == Voting \ {m}
         unled == node[m].cfg = "none" /\ others # {}
         quorate == Streams(s, m) # {} /\ CheckQuorum(s, m)
     IN Becomes(IF node[m].follower \/ quorate \/ LeaderInit(s, m) THEN StartReturns(s, m)
                ELSE [s EXCEPT !.node[m].cfg = IF unled THEN "dead" ELSE @,
                               !.task[m][Start] = [Idle EXCEPT !.pc = "next",
                                                               !.cand = others]])
  /\ left' = [left EXCEPT !.starts[m] = @ - 1]

\* The next candidate that has answered the connection attempt.
StartNext(m) ==
  /\ task[m][Start].pc = "next"
  /\ LET cand == IF node[m].follower THEN {}
                 ELSE {c \in task[m][Start].cand : node[c].up}
     IN \/ /\ cand = {}
           /\ Becomes(StartReturns(Here, m))
        \/ \E c \in cand :
             Becomes([Here EXCEPT !.task[m][Start] =
                        [Calling(c, 0) EXCEPT !.cand = cand \ {c}]])
  /\ UNCHANGED left

(* connect_to_leader, and the 'connect' operation of the peer *)

\* The peer receives the request: it declines, or asks get_leader, which may
\* make it the leader.
Receive(s, m, c) ==
  LET n == s.node[m]
      f == [Idle EXCEPT !.pc = "decide", !.peer = c, !.tx = s.ask[c].had]
      t == [s EXCEPT !.task[m][Serve(c)] = f]
      led == Probing(Become(t, m, Serve(c)), m, Serve(c), c)
  IN IF n.held # NoTask \/ n.initting THEN Reply(s, m, c, "backoff")
     ELSE IF LeaderInit(s, m) THEN Reply(s, m, c, "wait")
     ELSE IF n.leader \notin {None, c} \/ m \notin Voting THEN Decide(t, m, c)
     ELSE IF led.task[m][Serve(c)].todo = {} THEN Decide(led, m, c)
     ELSE led

\* The connection is made, the lock is taken and the request is sent.  A
\* member serves one request of a peer at a time: the next one waits.
Connect(m, k) ==
  LET p == task[m][k].peer
      s == [Here EXCEPT !.node[m].held = k,
                        !.task[m][k].pc = "sent",
                        !.ask[m] = [NoAsk EXCEPT !.to = p, !.had = node[m].tx]]
  IN /\ task[m][k].pc = "lock"
     /\ \/ /\ ~node[p].up
           /\ Becomes(Finish(Here, m, k, FALSE))
        \/ /\ node[p].up
           /\ node[m].held \in {NoTask, k}
           /\ task[p][Serve(m)] = Idle
           /\ Becomes(Receive(s, p, m))
     /\ UNCHANGED left

\* The peer died before it answered.
Lost(m, k) == /\ ask[m].answer = "none"
              /\ task[task[m][k].peer][Serve(m)] = Idle

\* Mutant of Declined: a peer without a leader is believed to name one.
DeclinedUnread(m, k) ==
  /\ task[m][k].pc = "sent"
  /\ LET a == ask[m]
         again(p) == [Here EXCEPT !.task[m][k].pc = "lock",
                                  !.task[m][k].peer = p,
                                  !.ask[m] = NoAsk]
     IN Becomes(CASE a.answer = "wait" -> again(a.to)
                  [] a.answer = "redirect" -> again(a.leader)
                  [] OTHER -> Finish(Here, m, k, FALSE))
  /\ ask[m].answer \in {"backoff", "wait", "redirect"} \/ Lost(m, k)
  /\ UNCHANGED left

\* The answer: wait in line, go to another leader, or give up.  Who is told
\* that it leads itself raises an exception.
Declined(m, k) ==
  /\ task[m][k].pc = "sent"
  /\ LET a == ask[m]
         again(p) == [Here EXCEPT !.task[m][k].pc = "lock",
                                  !.task[m][k].peer = p,
                                  !.ask[m] = NoAsk]
     IN Becomes(CASE a.answer = "wait" -> again(a.to)
                  [] a.answer = "redirect" /\ a.leader = m -> Failed(Here, m, k)
                  [] a.answer = "redirect" /\ a.leader # None -> again(a.leader)
                  [] OTHER -> Finish(Here, m, k, FALSE))
  /\ ask[m].answer \in {"backoff", "wait", "redirect"} \/ Lost(m, k)
  /\ UNCHANGED left

\* The answer: the peer has fewer transactions, so this member leads.
Inferior(m, k) ==
  /\ task[m][k].pc = "sent"
  /\ ask[m].answer = "inferior"
  /\ LET f == task[m][k]
         s == [Here EXCEPT !.ask[m] = NoAsk,
                           !.task[m][k].owe = IF @ = 0 THEN 0 ELSE 2]
         led == Probing(Become(s, m, k), m, k, f.peer)
         aborted == [Unlock(led, m, k) EXCEPT !.task[m][k] = Idle]
     IN Becomes(CASE m \notin Voting \/ led.task[m][k].todo = {} ->
                       Finish(Become(s, m, k), m, k, FALSE)
                  [] k = Follow -> aborted
                  [] OTHER -> led)
  /\ UNCHANGED left

\* The answer: the keys, so this member will follow.
Accepted(m, k) ==
  /\ task[m][k].pc = "sent"
  /\ ask[m].answer \in {"keys", "dump"}
  /\ Becomes([CancelFollower(Here, m, k) EXCEPT !.task[m][k].pc = "dump"])
  /\ UNCHANGED left

\* The follow task that went to the new leader has cancelled itself.
Aborted(m) ==
  /\ task[m][Follow].pc = "dump"
  /\ LET p == task[m][Follow].peer
     IN Becomes([Unlock(Here, m, Follow)
                 EXCEPT !.task[m][Follow] = Idle, !.ask[m] = NoAsk, !.node[m].told = None,
                        !.relay[p][m] = IF @ = "live" THEN "stale" ELSE @])
  /\ UNCHANGED left

\* The database has arrived: clear_configuration, load, and follow.
Loaded(m, k) ==
  /\ task[m][k].pc = "dump"
  /\ ask[m].answer = "dump"
  /\ ~node[m].ended
  /\ LET p == task[m][k].peer
         s == StopFollowing(StopLeading(Here, m, None), m, "none")
         t == [s EXCEPT !.node[m].tx = ask[m].tx,
                        !.node[m].older = Older(s, m, ask[m].tx),
                        !.node[m].leader = p,
                        !.node[m].follower = TRUE,
                        !.node[m].link = p]
     IN Becomes([Finish(t, m, k, TRUE)
                 EXCEPT !.task[m][Follow] = [Idle EXCEPT !.pc = "attach", !.peer = p]])
  /\ UNCHANGED left

\* The connection ends before the database is complete: once more, or an
\* exception if not even its size has arrived.  A follow task that has
\* cancelled itself gets no further than that.
DumpLost(m, k) ==
  /\ task[m][k].pc = "dump"
  /\ ask[m].answer # "dump"
  /\ task[task[m][k].peer][Serve(m)].pc # "init"
  /\ \/ Becomes(Failed(Here, m, k))
     \/ /\ k # Follow
        /\ Becomes([Here EXCEPT !.task[m][k].pc = "lock", !.ask[m] = NoAsk])
  /\ UNCHANGED left

(* The leader's side of a member that joins *)

\* leader_init is free.
TakeLeaderInit(m, c) ==
  /\ task[m][Serve(c)].pc = "queue"
  /\ ~LeaderInit(Here, m)
  /\ Becomes([Reply(Here, m, c, "keys") EXCEPT !.task[m][Serve(c)].pc = "init"])
  /\ UNCHANGED left

\* The database and its transaction count are taken and written.
SendDump(m, c) ==
  /\ task[m][Serve(c)].pc = "init"
  /\ LET s == [Here EXCEPT !.task[m][Serve(c)].pc = "drain"]
     IN Becomes(IF ask[c].to # m THEN s
                ELSE [Reply(s, m, c, "dump") EXCEPT !.ask[c].tx = node[m].tx])
  /\ UNCHANGED left

\* Mutant of Attach: the member goes on following.
AttachFollowing(s, m, c) ==
  [s EXCEPT !.task[m][Serve(c)] = Idle,
            !.relay[m][c] = IF s.ask[c].to = m \/ s.node[c].link = m
                            THEN "live" ELSE "stale"]

\* relay_slaved_requests with the lock of the follower: the member stops
\* following, and the stream is registered.
Attach(s, m, c) ==
  [StopFollowing(s, m, "none")
   EXCEPT !.task[m][Serve(c)] = Idle,
          !.relay[m][c] = IF s.ask[c].to = m \/ s.node[c].link = m
                          THEN "live" ELSE "stale"]

\* All is written; a relay of an earlier connection may still have the lock.
Relay(m, c) ==
  /\ task[m][Serve(c)].pc = "drain"
  /\ Becomes(IF relay[m][c] = "none" THEN Attach(Here, m, c)
             ELSE [Here EXCEPT !.task[m][Serve(c)].pc = "attach"])
  /\ UNCHANGED left

\* A relay ends; the last one of a member that follows nobody marks the
\* collective as dead and starts the recovery.  Who waits for the lock has it.
RelayEnds(m, c) ==
  /\ relay[m][c] \in {"stale", "ending"}
  /\ LET s == [Here EXCEPT !.relay[m][c] = "none"]
         t == IF Streams(s, m) # {} \/ node[m].cfg # "none" THEN s
              ELSE Retry([s EXCEPT !.node[m].cfg = "dead"], m)
     IN Becomes(IF task[m][Serve(c)].pc = "attach" THEN Attach(t, m, c) ELSE t)
  /\ UNCHANGED left

(* follow_leader *)

\* follow_channel begins.
FollowStarts(m) ==
  /\ task[m][Follow].pc = "attach"
  /\ LET s == StopFollowing(StopLeading(Here, m, None), m, "leader")
     IN Becomes([s EXCEPT !.task[m][Follow].pc = "follow"])
  /\ UNCHANGED left

\* The channel ends, or the leader has named a new one.
FollowEnds(m) ==
  LET l == node[m].link
  IN /\ task[m][Follow].pc = "follow"
     /\ l # None => relay[l][m] # "live" /\ task[l][Serve(m)].pc \notin {"drain", "attach"}
     /\ LET new == node[m].told
            s == StopFollowing(Sever(Here, m), m,
                               IF Streams(Here, m) = {} THEN "dead" ELSE "none")
        IN Becomes(IF new = None THEN Over(Here, m)
                   ELSE [s EXCEPT !.task[m][Follow] = Calling(new, 0)])
     /\ UNCHANGED left

\* The finally clauses of a follow task that another task has cancelled.
CancelledEnds(m) ==
  /\ node[m].ended
  /\ Becomes([StopFollowing(Here, m, "none")
              EXCEPT !.node[m].ended = FALSE, !.node[m].follower = FALSE,
                     !.node[m].leader = None, !.node[m].retry = TRUE])
  /\ UNCHANGED left

(* reassimilate_missing, try_assimilate and the 'assimilate' operation *)

MissingWakes(m) ==
  /\ task[m][Missing].pc = "sleep"
  /\ left.wakes > 0
  /\ Absent(Here, m, None) # {}
  /\ Becomes(Probing(Here, m, Missing, None))
  /\ left' = [left EXCEPT !.wakes = @ - 1]

\* d refuses a leader a that is not better than itself.
Better(s, d, a, followers) ==
  LET mine == Cardinality(Streams(s, d))
  IN \/ s.node[a].tx < s.node[d].tx
     \/ /\ mine > 0
        /\ s.node[a].tx = s.node[d].tx
        /\ \/ CheckQuorum(s, d)
           \/ followers < mine
           \/ followers = mine /\ d < a

\* d is asked to join a: it is content as it is, or retires and connects.
Asked(s, d, a) ==
  LET t == IF Streams(s, d) = {} THEN s ELSE Retire(s, d, a)
  IN IF s.node[d].follower \/ s.node[d].held # NoTask THEN s
     ELSE [t EXCEPT !.task[d][Assimilate(a)] = Calling(a, 1)]

Probe(m, k) ==
  /\ task[m][k].pc = "probe"
  /\ LET todo == {d \in task[m][k].todo : node[d].up}
     IN \/ todo = {} /\ Becomes(Probed(Here, m, k))
        \/ \E d \in todo :
             LET s == [Here EXCEPT !.task[m][k].todo = todo \ {d}]
             IN IF Better(s, d, m, task[m][k].followers)
                THEN Becomes([s EXCEPT !.task[m][k].pc = "deferring",
                                       !.task[m][k].peer = d])
                ELSE /\ task[d][Assimilate(m)] = Idle
                     /\ Becomes(Asked(s, d, m))
  /\ UNCHANGED left

\* try_assimilate yields to the better leader.  reassimilate_missing is
\* cancelled by the retirement, and goes no further.
Defer(m, k) ==
  /\ task[m][k].pc = "deferring"
  /\ LET f == task[m][k]
         s == Retire(Here, m, f.peer)
     IN Becomes(IF k = Missing THEN s
                ELSE [s EXCEPT !.task[m][k] =
                        [f EXCEPT !.pc = "lock", !.todo = {}, !.followers = 0,
                                  !.owe = IF @ = 0 THEN 1 ELSE 2]])
  /\ UNCHANGED left

(* Changes, crashes and connections *)

\* A change that the collective accepts; Replication has its steps.
Change(m) ==
  /\ Streams(Here, m) # {}
  /\ node[m].cfg = "none"
  /\ HasQuorum(Here, m)
  /\ left.changes > 0
  /\ left' = [left EXCEPT !.changes = @ - 1]
  /\ LET live == {c \in Member : relay[m][c] = "live"}
         joining == {c \in live : ask[c].to = m}
         count == node[m].tx + 1
     IN /\ node' = [c \in Member |-> IF c = m \/ c \in live \ joining
                                     THEN [node[c] EXCEPT !.tx = count,
                                                          !.older = Older(Here, c, count)]
                                     ELSE node[c]]
        /\ ask' = [c \in Member |-> IF c \in joining
                                    THEN [ask[c] EXCEPT !.tx = count] ELSE ask[c]]
  /\ UNCHANGED <<task, relay>>

Interrupted(m) == /\ left.faults[m] > 0
                  /\ left' = [left EXCEPT !.faults[m] = @ - 1]

Crash(m) ==
  /\ node[m].up
  /\ Interrupted(m)
  /\ node' = [node EXCEPT ![m] = [Started(node[m].tx) EXCEPT !.up = FALSE,
                                                              !.older = node[m].older]]
  /\ task' = [task EXCEPT ![m] = [k \in Kind |-> Idle]]
  /\ ask' = [ask EXCEPT ![m] = NoAsk]
  /\ relay' = [l \in Member |->
                 IF l = m THEN [c \in Member |-> "none"]
                 ELSE [relay[l] EXCEPT ![m] = IF @ = "live" THEN "stale" ELSE @]]

Restart(m) ==
  /\ ~node[m].up
  /\ node' = [node EXCEPT ![m].up = TRUE]
  /\ Interrupted(m)
  /\ UNCHANGED <<task, relay, ask>>

\* The connection of a follower to its leader breaks.
Break(m) ==
  /\ node[m].link # None
  /\ Interrupted(m)
  /\ Becomes(Sever(Here, m))

-----------------------------------------------------------------------------
TaskStep(m, k) == \/ Connect(m, k)
                  \/ Declined(m, k)
                  \/ Inferior(m, k)
                  \/ Accepted(m, k)
                  \/ Loaded(m, k)
                  \/ DumpLost(m, k)
                  \/ Probe(m, k)
                  \/ Defer(m, k)

ServeStep(m, c) == \/ TakeLeaderInit(m, c)
                   \/ SendDump(m, c)
                   \/ Relay(m, c)
                   \/ RelayEnds(m, c)

FollowStep(m) == \/ FollowStarts(m)
                 \/ FollowEnds(m)
                 \/ CancelledEnds(m)
                 \/ Aborted(m)

Next == \E m \in Member :
          \/ StartFires(m)
          \/ StartNext(m)
          \/ \E k \in Kind : TaskStep(m, k)
          \/ \E c \in Member : ServeStep(m, c)
          \/ FollowStep(m)
          \/ MissingWakes(m)
          \/ Change(m)
          \/ Crash(m)
          \/ Restart(m)
          \/ Break(m)

Spec == Init /\ [][Next]_vars

-----------------------------------------------------------------------------
\* The values the globals, frames, streams and requests take.
NodeState ==
  [up : BOOLEAN, tx : Nat, leader : Member \union {None}, follower : BOOLEAN,
   cfg : {"none", "dead", "leader"}, link : Member \union {None},
   told : Member \union {None}, retry : BOOLEAN, initting : BOOLEAN,
   held : Kind \union {NoTask}, ended : BOOLEAN, older : BOOLEAN]
Frame ==
  [pc : {"idle", "next", "lock", "sent", "dump", "probe", "deferring", "sleep",
         "decide", "queue", "init", "drain", "attach", "follow"},
   peer : Member \union {None}, todo : SUBSET Member, cand : SUBSET Member,
   followers : 0 .. Cardinality(Member), owe : 0 .. 2, tx : Nat, answered : BOOLEAN]
Stream == {"none", "live", "stale", "ending"}
Request ==
  [to : Member \union {None}, had : Nat, tx : Nat, leader : Member \union {None},
   answer : {"none", "backoff", "wait", "redirect", "inferior", "keys", "dump"}]

\* Who connects knows whom to connect to, and no member is its own follower,
\* although one that is told of a new leader may find that it is meant itself.
TypeOK ==
  /\ node \in [Member -> NodeState]
  /\ task \in [Member -> [Kind -> Frame]]
  /\ \A m \in Member, k \in Kind :
       task[m][k].pc \in {"lock", "sent", "dump"} => task[m][k].peer # None
  /\ relay \in [Member -> [Member -> Stream]]
  /\ \A m \in Member : relay[m][m] = "none"
  /\ ask \in [Member -> Request]
  /\ left \in Budget

\* No member leads and follows at once, whatever handlers and connection
\* attempts of it overlap: who has registered streams applies and counts
\* changes itself, and would count what its leader counts too.  follow_channel
\* first stops leading, and relay_slaved_requests first stops following.
NoChain == \A m \in Member : node[m].cfg = "leader" => Streams(Here, m) = {}

\* Whoever joins never gets a database with fewer transactions than it asked
\* with, although the leader may have waited for get_leader and leader_init,
\* retired and joined somebody else in between.  The two operations compare
\* the counts once, when the request is decided.  The exception is a leader that
\* has since lost transactions itself (CountKept).
NotOlder == \A m \in Member :
  ask[m].answer = "dump" => \/ ask[m].tx >= ask[m].had
                            \/ \E l \in Member : ask[m].to = l /\ node[l].older

\* Nothing is under way and nothing will happen by itself: no retry is armed,
\* no task runs but those that follow a live leader, and no leader will look
\* for a member that it has not.
Quiet ==
  \A m \in Member : node[m].up =>
    /\ ~node[m].retry /\ ~node[m].ended
    /\ \A k \in Kind : \/ task[m][k].pc = "idle"
                       \/ /\ task[m][k].pc = "follow"
                          /\ \E l \in Member : node[m].link = l /\ relay[l][m] = "live"
                       \/ /\ task[m][k].pc = "sleep"
                          /\ \A d \in Absent(Here, m, None) : ~node[d].up
    /\ \A c \in Member : relay[m][c] \in {"none", "live"}

\* The members that run come together: they are never at rest before all of
\* them follow one leader.  Whoever loses its leader, its followers or the
\* answer to an attempt has a retry armed or is looked for by a leader.
Converged ==
  Quiet => \E l \in Member : \A m \in Member \ {l} :
             node[m].up => node[m].link = l /\ relay[l][m] = "live"

\* No member goes back to fewer transactions than it had: the two operations
\* refuse a database of an inferior transaction count.
CountKept == [][\A m \in Member : node'[m].tx >= node[m].tx]_vars
=============================================================================
