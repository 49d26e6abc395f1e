SPECIFICATION FairSpec
CONSTANTS
  Sessions = {s1}
  Clients = {c1}
  Requests = {q1}
  Sweepers = {w1}
  None = None
  Flows = {"cross_device"}
  Webhooks = {TRUE}
  TTL = 1
  Limit = 1
  MaxTime = 1
  Faults = {}
  MaxFaults = 0
PROPERTIES ExpiredIsNotified
