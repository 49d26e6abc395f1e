SPECIFICATION Spec
CONSTANTS
  Sep = "_"
  KeyScheme <- Scheme
  Crockford = {"V"}
  Base64URL = {"V", "v", "_"}
  PrefixLen = 1
  SecretLen = 2
  Characters = {"v", "V", "_", "!"}
  Colon = ":"
  Blank = " "
  Printable = {"a"}
  MaxLength = 6
  Codes = {not_found, revoked}
  NoCode = NoCode
  Values = {value, Empty}
  Absent = Absent
  Undecodable = Undecodable
  Empty = Empty
  Names = {0}
  Types = {mdl, pid}
  UseIds = {"u1", "u2", "u3"}
  None = None
  Malformed = Malformed
  NoFailCode = NoFailCode
  Error = Error
  CheckNames = {signature}
  FailCodes = {failed_check}
  QueryIds = {q}
  Formats = {mdoc, sdjwt}
  Doctypes = {mdl, pid}
  ClaimValues = {claims}
INVARIANTS ParseInvertsMint PrefixNormal NoErrorLost ScopeMatchesRegistry PollAndWebhookAgree
