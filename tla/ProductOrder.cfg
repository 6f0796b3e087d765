SPECIFICATION Spec
CONSTANTS
  Groups = {g1, g2}
  OrderIds = {a, b}
  Commands = {c1, c2, c3, c4}
  Captures = {e1}
SYMMETRY Names
INVARIANTS TypeOK OneOrderPerCommand ListedByItsGroup
PROPERTY ImplementsLife
CHECK_DEADLOCK FALSE
