SPECIFICATION Spec
CONSTANTS
  Sessions = {s1}
  Clients = {c1, c2}
  Requests = {q1, q2}
  Sweepers = {w1, w2}
  None = None
  Flows = {"same_device", "cross_device"}
  Webhooks = {TRUE, FALSE}
  TTL = 1
  Limit = 1
  MaxTime = 2
  Faults = {"call","getdel","getdelAck","callAck","fetch","sweep","sweepAck","crash"}
  MaxFaults = 2
SYMMETRY Symmetry
INVARIANTS OutcomeHasReport ReleaseNeedsRedemption CodeSingleUse OneKindOfNotice
PROPERTIES TerminalIsForever
