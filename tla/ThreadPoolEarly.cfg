SPECIFICATION Spec
CONSTANTS
  ThreadCnt = 1
  Cap = 1
  Callers = {main, c1}
  Main = main
  Tasks = {t1, t2}
  StopCall = StopCall
  NoCall = NoCall
  MaxCreateFailures = 0
INVARIANT RefusedOnlyAfterStop
CHECK_DEADLOCK FALSE
