\* One global, one member and one main key; changes, joins and leaves,
\* flushes, up to two deaths of the writer or crashes; fair threads.
SPECIFICATION FairSpec
CONSTANTS
  GlobalKey = {g1}
  MemberKey = {m1}
  MainKey = {n1}
  Value = {v1}
  Absent = Absent
  MaxTx = 1
  MaxFault = 2
INVARIANTS TypeOK MainDurable  RecoveryKeepsPresent
PROPERTIES EventuallyDurable
