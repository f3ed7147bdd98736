CONSTANTS
  c1 = c1  c2 = c2  w1 = w1  w2 = w2
  Claims = {c1, c2}
  Workers = {w1, w2}
  OnSale = 0
  NoJob = NoJob
SPECIFICATION Spec
INVARIANTS Trail ReturnsRestocked
SYMMETRY Symmetry
CHECK_DEADLOCK FALSE
