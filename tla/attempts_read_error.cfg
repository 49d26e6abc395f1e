SPECIFICATION Spec
CONSTANTS
  Replicas = {r1}
  Sessions = {s1, s2}
  None = None
  Kinds = {"ok"}
  ResultTTL = 6
  Base = 1
  MaxAttempts = 2
  Second = 1
  Width = 6
  MaxTime = 7
  Faults = {"attempts"}
  MaxFaults = 1
SYMMETRY Symmetry
INVARIANTS PostsBounded
