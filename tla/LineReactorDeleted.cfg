SPECIFICATION Spec
CONSTANTS
  a1 = a1
  a2 = a2
  Clients = {a1, a2}
  Staying = {a1}
  Listener = Listener
  NoConn = NoConn
  Script <- MCScript
  ReadSize = 2
  TxCap = 1
  MaxEvents = 2
INVARIANT NoUseAfterDelete
CHECK_DEADLOCK FALSE
