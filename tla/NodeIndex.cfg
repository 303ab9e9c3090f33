\* Two members of a collective, four nodes, one member connecting once; no
\* step is left once MaxMade nodes were created and deleted after that.
SPECIFICATION Spec
CONSTANTS
  Member = {m1, m2}
  Node = {n1, n2, n3, n4}
  Reserve = 1
  MaxJoin = 1
  MaxMade = 1
SYMMETRY Symmetry
INVARIANTS TypeOK 
 
CHECK_DEADLOCK FALSE
