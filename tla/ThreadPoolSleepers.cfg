SPECIFICATION FairSpec
CONSTANTS
  ThreadCnt = 1
  Cap = 1
  Callers = {main, c1, c2}
  Main = main
  Tasks = {t1, t2, t3, t4}
  StopCall = StopCall
  NoCall = NoCall
  MaxCreateFailures = 0
PROPERTY StopReleasesProducers
CHECK_DEADLOCK FALSE
