SPECIFICATION FairSpec
CONSTANTS
  ConsoleInput = 2
  BmcInput = 1
  MaxOut = 1
  SeqMax = 15
  Retries = 2
  Firmware = TRUE
  MaxEvent = 1
  Capacity = 2
INVARIANTS
  TypeOK
  NothingLost
  FirstInOrder
  RetryArmed
PROPERTY
  Settles
CHECK_DEADLOCK FALSE
