\* A node leads, steps down and is elected again.
CONSTANTS
  Node = {1, 2}
  Late = {1}
  Deaf = {}
  Crowded = {}
  MaxCrashes = 1
SPECIFICATION Spec
INVARIANTS NeverPanics
CHECK_DEADLOCK FALSE
