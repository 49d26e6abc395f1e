SPECIFICATION Spec
CONSTANTS
  Replicas = {r1, r2}
  Sessions = {s1, s2}
  None = None
  Kinds = {"ok", "undecryptable", "malformed", "pollOnly"}
  ResultTTL = 3
  Base = 1
  MaxAttempts = 1
  Second = 1
  Width = 6
  MaxTime = 5
  Faults = {"get", "rpop", "range", "lpush", "rpopAck", "zrem", "zremAck", "crash"}
  MaxFaults = 2
SYMMETRY Symmetry
INVARIANTS TypeOK ExclusiveOwnership SettledOnce PostsBounded
  AttemptCounterExact FailureJustified StateMatchesOutcome
PROPERTIES ContractSpec
