SPECIFICATION Spec
CONSTANTS
  s1 = s1
  s2 = s2
  p1 = p1
  SwitchIds = {s1}
  Senders = {}
  Queried = {}
  MaxPolicy = 1
  Rows = 1
  MaxEvents = 1
  MaxWire = 8
  NoRequest = NoRequest
  NoReply = NoReply
INVARIANTS UpdateSetsGlobalPolicy
CHECK_DEADLOCK FALSE
