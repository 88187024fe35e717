SPECIFICATION Spec
CONSTANTS
  m1 = m1
  t1 = t1
  t2 = t2
  t3 = t3
  SwitchIds = {s1}
  Messages = {m1}
  Batches <- MCBatches
  Tasks = {t1, t2, t3}
  NoRequest = NoRequest
  NoReply = NoReply
  MayDie = TRUE
  MaxHops = 1
  MaxWire = 1
SYMMETRY MCTaskSymmetry
INVARIANTS TypeOK OneConversation RepliesMatch NoLostWakeup IInv
PROPERTIES FailedReadIsFinal ImplementsService
CHECK_DEADLOCK FALSE
