CONSTANTS
  p1 = p1
  p2 = p2
  r1 = r1
  NoRequest = NoRequest
  Posts = {p1, p2}
  RequestOf <- TwoOfOneRequest
  Flows = {"v2", "v3", "v4-deep"}
  Faulty = {"runs", "chats", "messages"}

SPECIFICATION Spec

INVARIANT DisconnectSettlesRun
