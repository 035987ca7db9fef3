CONSTANTS
  Requests = {r1, r2, r3}
  NoRequest = NoRequest
SPECIFICATION Spec
INVARIANTS
  TypeOK
  FailFast
  WokenHasOutcome
  SettledOnce
  NestedNeverAnswered
PROPERTIES
  CloseReleasesCallers
  
