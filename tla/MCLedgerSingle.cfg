SPECIFICATION Spec
CONSTANTS
  Proc = {p1}
  Claim = {c1}
  Spot = {s1}
  Value = {v1, v2}
  NoValue = NoValue
  MaxWeight = 2
  MaxDamage = 2
  MaxErrors = 0
PROPERTIES NothingPublishedIsLost Refines
