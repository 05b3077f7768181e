SPECIFICATION Spec
CONSTANTS
  ThreadCnt = 2
  Cap = 1
  Callers = {main, c1}
  Main = main
  Tasks = {t1}
  StopCall = StopCall
  NoCall = NoCall
  MaxCreateFailures = 1
INVARIANT AllThreadsReclaimed
CHECK_DEADLOCK FALSE
