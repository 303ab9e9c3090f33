SPECIFICATION Spec
CONSTANTS
  BmcHash = {256}
  BmcLimit = {"none"}
  AuthWaits = 2
  PrivWaits = 3
  None = None
  MaxLoss = 0
  MaxEarly = 3
  MaxOvertake = 0
INVARIANTS PasswordBelieved
CHECK_DEADLOCK FALSE
