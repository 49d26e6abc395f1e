SPECIFICATION FairSpec
CONSTANTS
  Replicas = {r1, r2}
  Sessions = {s1}
  None = None
  Kinds = {"ok", "undecryptable", "malformed", "pollOnly"}
  ResultTTL = 7
  Base = 1
  MaxAttempts = 20
  Second = 2
  Width = 5
  MaxTime = 8
  Faults = {"get", "rpop", "range", "state", "attempts", "set", "zadd", "zaddAck"}
  MaxFaults = 2
INVARIANTS NoSilentDrop BackoffNeverWraps RetryInsideTTL
PROPERTIES NotSentAgain EventuallySettled
