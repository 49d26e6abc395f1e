SPECIFICATION Spec
CONSTANTS
  Clients = {c1, c2}
  IntendedUses = {i1}
  Templates = {t1}
  Requests = {q1, q2}
  None = None
  Queries <- OneOrInvalid
  Scopes <- EitherClaim
  Flows = {"cross_device"}
  Origins = {}
  WebOrigins = {}
  MaxChanges = 2
SYMMETRY Symmetry
INVARIANTS TypeOK AuthorizedDuringRequest SessionFromOwnTemplate
PROPERTIES TemplatesStartInForce
