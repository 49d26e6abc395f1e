SPECIFICATION Spec
CONSTANTS
  Replicas = {r1, r2}
  Sessions = {s1}
  Clients = {c1}
  Requests = {q1}
  None = None
  Flows = {"cross_device"}
  Webhooks = {TRUE}
  TTL = 1
  Limit = 1
  Kinds = {"ok"}
  ResultTTL = 2
  Base = 1
  MaxAttempts = 1
  Second = 1
  Width = 6
  MaxTime = 3
  RowFaults = {"crash"}
  DeliveryFaults = {"get","lpush","rpopAck","zrem","zremAck","crash"}
  MaxFaults = 2
SYMMETRY Symmetry
INVARIANTS AnswersKeepUp
PROPERTIES ClientViewSpec
