CONSTANTS
  s1 = s1
  l1 = l1
  Services = {s1}
  Requests = {q1}
  Replied = {q1}
  ServiceOf <- MCServiceOf
  Links = {l1}
  Frames = {}
  LinkOf <- MCLinkOf
  Repliers = {k1, k2}
  NoRequest = NoRequest
SPECIFICATION Spec
INVARIANTS
  AtMostOneReply
