\* Two nodes, two groups and "everything", one attribute of two values.
SPECIFICATION Spec
CONSTANTS
  Node = {n1, n2}
  Group = {g1, g2, all}
  Attr = {a1}
  Value = {v1, v2}
  Absent = Absent
  Everything = all
  MaxList = 1
SYMMETRY Symmetry
INVARIANTS TypeOK  
PROPERTIES MarksComplete
