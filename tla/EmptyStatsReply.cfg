SPECIFICATION Spec
CONSTANTS
  s1 = s1
  s2 = s2
  c1 = c1
  c2 = c2
  c3 = c3
  k1 = k1
  k2 = k2
  SwitchIds = {s1}
  Conns = {c1}
  Calls = {k1}
  NoConn = NoConn
  NoCall = NoCall
  Zero = Zero
  FirstXid = 1
  LowXids = {1}
  MaxInbox = 1
  MaxEvents = 1
PROPERTIES MatchingResponseFulfils
CHECK_DEADLOCK FALSE
