\* A leader with one follower, which is interrupted once; the third is away.
SPECIFICATION Spec
CONSTANTS
  Member = {1, 2, 3}
  Voting = {1, 2, 3}
  Situation <- OnlyAway
PROPERTIES CountKept
CHECK_DEADLOCK FALSE
