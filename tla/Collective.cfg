\* Three voting members, from a leader with one follower; see MCCollective.
SPECIFICATION Spec
CONSTANTS
  Member = {1, 2, 3}
  Voting = {1, 2, 3}
  Situation <- AheadOrAway
INVARIANTS TypeOK NoChain NotOlder 
CHECK_DEADLOCK FALSE
