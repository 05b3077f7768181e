SPECIFICATION FairSpec
CONSTANTS
  a1 = a1
  a2 = a2
  a3 = a3
  Clients = {a1, a2, a3}
  Polite = {a2, a3}
  Listener = Listener
  NoClient = NoClient
  ReqLen <- MCReqLen
  HeadLen <- MCHeadLen
  RespLen = 2
  TxCap = 1
  Fds = {5, 6}
  MaxEvents = 2
  QueueCap = 1
  Workers = {w1, w2}
INVARIANTS TypeOK SingleOwner NoDanglingConnection OwnResponse NoMissedData NoMissedConnection AnsweredWhole
PROPERTY PoliteServed
CHECK_DEADLOCK FALSE
