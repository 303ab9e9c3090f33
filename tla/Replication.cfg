\* Two changes while a voting and a nonvoting follower join, or one change with
\* a loss and a second join, or one with a leader that retires; a fair event loop.
SPECIFICATION FairSpec
CONSTANTS
  Follower = {f1, f2}
  NonVoting = {f2}
  Leader = L
  Op = {o1, o2}
  Situation <- AnySituation
INVARIANTS TypeOK ReplicaAgrees QuorumKnown CountAgrees
PROPERTIES ReplicationImplementsLog ReadYourWrites RequestResolved
CHECK_DEADLOCK FALSE
