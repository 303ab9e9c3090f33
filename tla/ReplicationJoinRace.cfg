\* One follower joining while one change is made.
SPECIFICATION Spec
CONSTANTS
  Follower = {f1}
  NonVoting = {}
  Leader = L
  Op = {o1}
  Situation <- OnlyJoining
INVARIANTS JoinComplete
CHECK_DEADLOCK FALSE
