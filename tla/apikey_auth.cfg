SPECIFICATION Spec
CONSTANTS
  Keys = {k1, k2, k3}
  Clients = {c1}
  Requests = {q1, q2}
  Dummy = Dummy
  Corrupt = {k3}
  CacheTTL = 0
  CacheCap = 1
  MaxTime = 1
SYMMETRY Symmetry
INVARIANTS TypeOK OrderMatchesCache CacheHoldsSuccesses RevocationIsImmediate AuthenticatedHasProof FailuresAlwaysDerive
