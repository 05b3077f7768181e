SPECIFICATION Spec
CONSTANTS
  Sellers = {a, b}
  Total = 3
  Threads = {a, b, c}
  Signals = 3
  Writers = {a, b, c}
  Records = 2
  Keys = 4
  ReadMax = 2
  MaxCalls = 5
  Pids = {1, 2, 3}
  Polls = 2
  MaxCommands = 3
  Nobody = Nobody
  Unused = Unused
INVARIANTS TicketsSold HandleSafe OutputWhole ServiceRuns
PROPERTY EverybodyEnds
CHECK_DEADLOCK FALSE
