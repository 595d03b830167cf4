SPECIFICATION Spec
CONSTANTS
  Server = {p, q}
  Item = {a, b, c}
  Limit = 2
  MaxUpdate = 2
  MaxSaves = 4
  MaxFaults = 2
INVARIANTS LostOnlyWhenDisturbed
CHECK_DEADLOCK FALSE
