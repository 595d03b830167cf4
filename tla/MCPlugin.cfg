SPECIFICATION Spec
CONSTANTS
  None = None
  Session = {s, t, c}
  Child = {c}
  MaxIdles = 4
  MaxForeign = 1
  MaxFailures = 1
INVARIANTS OpeningSentOnce
PROPERTIES HandlersEnd
CHECK_DEADLOCK FALSE
