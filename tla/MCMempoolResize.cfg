CONSTANTS
  PROCS = {p1, p2, r1}
  RESIZERS = {r1}
  SIZES = {1, 2, 3}
  TOTAL = 4
SPECIFICATION Spec
SYMMETRY Symmetry
INVARIANTS BoundedByMin CapacityOK Conserved
