CONSTANTS
  s1 = s1
  l1 = l1
  Services = {s1}
  Requests = {q1, q2}
  Replied = {q1}
  ServiceOf <- MCServiceOf
  Links = {l1}
  Frames = {f1, f2}
  LinkOf <- MCLinkOf
  Repliers = {k1}
  NoRequest = NoRequest
SPECIFICATION Spec
INVARIANTS
  TypeOK
  AtMostOneReply
  LossExplained
  FrameLossExplained
PROPERTIES
  RequestsDealtWith
  FramesDealtWith
