---------------------------- MODULE ReplicatedLog ----------------------------
(* What the replication of a collective promises while one leader leads: the     *)
(* changes are put into one order, and what a follower has applied is a part of  *)
(* it from the start, without a change left out, repeated or moved, unless it    *)
(* joined while changes were made.  A follower's client hears of success when    *)
(* the follower has the change.                                                  *)
EXTENDS Naturals, Sequences, SequencesExt

CONSTANTS Follower, Op

VARIABLES
  log,      \* the changes of the tenure, in order
  replica,  \* the changes a follower has applied, in order
  missed,   \* followers that may miss changes made while they joined
  answered, \* requests of followers that were answered with success
  over      \* the leader has retired

vars == <<log, replica, missed, answered, over>>

Init ==
  /\ log = <<>> /\ replica = [f \in Follower |-> <<>>]
  /\ missed = {} /\ answered = {} /\ over = FALSE

(* A change is decided and takes its place at the end.                           *)
Decide(o) ==
  /\ o \notin ToSet(log)
  /\ log' = Append(log, o)
  /\ missed \subseteq missed'
  /\ UNCHANGED <<replica, answered, over>>

Position(o) == CHOOSE i \in DOMAIN log : log[i] = o
Reached(f) == IF replica[f] = <<>> THEN 0 ELSE Position(Last(replica[f]))

(* A follower applies the next change, or a later one if it missed some.         *)
Learn(f) ==
  /\ \E i \in Reached(f) + 1 .. Len(log) :
       /\ i = Reached(f) + 1 \/ f \in missed
       /\ replica' = [replica EXCEPT ![f] = Append(@, log[i])]
  /\ UNCHANGED <<log, missed, answered, over>>

(* A follower takes over what the log was at some time.                          *)
Bootstrap(f) ==
  /\ \E n \in 0 .. Len(log) : replica' = [replica EXCEPT ![f] = SubSeq(log, 1, n)]
  /\ UNCHANGED <<log, missed, answered, over>>

(* A follower begins to join: what it missed before is of no account.            *)
Rejoin(f) ==
  /\ missed' \in {missed \cup {f}, missed \ {f}}
  /\ UNCHANGED <<log, replica, answered, over>>

Answer(f, o) ==
  /\ o \in ToSet(replica[f])
  /\ answered' = answered \cup {o}
  /\ UNCHANGED <<log, replica, missed, over>>

(* The leader retires: other promises take over.                                 *)
Retire == over' = TRUE

Next ==
  \/ /\ ~over
     /\ \/ \E o \in Op : Decide(o)
        \/ \E f \in Follower : Learn(f) \/ Bootstrap(f) \/ Rejoin(f)
        \/ \E f \in Follower, o \in Op : Answer(f, o)
        \/ Retire
  \/ over /\ Retire

Spec == Init /\ [][Next]_vars

=============================================================================
