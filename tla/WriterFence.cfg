CONSTANTS
  c1 = c1
  c2 = c2
  c3 = c3
  Callers <- MCCallers
SPECIFICATION Spec
SYMMETRY Symmetry
INVARIANTS FenceExact FenceHolds
