---------------------------- MODULE MCReplication ----------------------------
(* Model-checking instances of Replication.                                *)
EXTENDS Replication

Times(n) == [f \in Follower |-> n]
Voting(n, m) == [f \in Follower |-> IF f \in NonVoting THEN m ELSE n]

\* All changes while the followers join once.
Joining == [ops |-> Op, joins |-> Times(1), losses |-> Times(0), retires |-> FALSE]

\* One change, and the voting follower is lost and joins again.
One == {CHOOSE o \in Op : TRUE}
Losing == [ops |-> One, joins |-> Voting(2, 1), losses |-> Voting(1, 0), retires |-> FALSE]

\* One change, and the leader retires.
Retiring == [ops |-> One, joins |-> Times(1), losses |-> Times(0), retires |-> TRUE]

AnySituation == {Joining, Losing, Retiring}
OnlyJoining == {Joining}
=============================================================================
