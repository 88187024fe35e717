SPECIFICATION MCSpec
CONSTANTS
  s1 = s1
  s2 = s2
  c1 = c1
  c2 = c2
  c3 = c3
  k1 = k1
  k2 = k2
  SwitchIds = {s1, s2}
  Conns = {c1, c2, c3}
  Calls = {k1, k2}
  NoConn = NoConn
  NoCall = NoCall
  Zero = Zero
  FirstXid = 1
  LowXids = {1}
  MaxInbox = 1
  MaxEvents = 1
INVARIANTS TypeOK TableMatchesHandlers EventsMatchTable CallGetsItsAnswer TransactionsArePending
PROPERTIES TransactionEnds
CHECK_DEADLOCK FALSE
