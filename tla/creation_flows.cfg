SPECIFICATION Spec
CONSTANTS
  Clients = {c1}
  IntendedUses = {i1, i2}
  Templates = {}
  Requests = {q1}
  None = None
  Queries <- OneClaim
  Scopes <- OneClaim
  Flows = {"same_device", "cross_device", "dcapi"}
  Origins = {"https_rp", "not_web"}
  WebOrigins = {"https_rp"}
  MaxChanges = 2
SYMMETRY Symmetry
INVARIANTS EngineNeverRefuses AnswerTellsOutcome
