SPECIFICATION Spec
CONSTANTS
  Proc = {p1, p2}
  Claim = {c1}
  Spot = {s1}
  Value = {v1}
  NoValue = NoValue
  MaxWeight = 1
  MaxDamage = 1
  MaxErrors = 1
SYMMETRY Symmetry
INVARIANTS Provenance UndisturbedWindow
PROPERTIES LossAccounted Refines
