SPECIFICATION FairSpec
CONSTANTS
  BmcHash = {1, 256}
  BmcLimit = {"none", "rakp", "command"}
  AuthWaits = 2
  PrivWaits = 3
  None = None
  MaxLoss = 2
  MaxEarly = 2
  MaxOvertake = 1
INVARIANTS TypeOK  OneFaultHealed
PROPERTIES LoginEnds
CHECK_DEADLOCK FALSE
