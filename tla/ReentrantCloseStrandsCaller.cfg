CONSTANTS
  Requests = {r1, r2}
  NoRequest = NoRequest
SPECIFICATION SpecReentrant
INVARIANTS
  FailFast
