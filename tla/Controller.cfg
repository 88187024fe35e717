SPECIFICATION FairSpec
CONSTANTS
  s1 = s1
  s2 = s2
  p1 = p1
  SwitchIds = {s1}
  Senders = {p1}
  Queried = {s1}
  MaxPolicy = 1
  Rows = 1
  MaxEvents = 1
  MaxWire = 1
  NoRequest = NoRequest
  NoReply = NoReply
INVARIANTS TypeOK
PROPERTIES UpdatesFinish
CHECK_DEADLOCK FALSE
