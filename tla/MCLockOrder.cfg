SPECIFICATION LOSpec
CONSTANTS
  c1 = c1
  c2 = c2
  c3 = c3
  Calls = {c1, c2, c3}
  Orderly = {c2, c3}
SYMMETRY Symmetry
INVARIANT OnlyKnownDeadlocks
