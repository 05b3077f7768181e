SPECIFICATION FairSpec
CONSTANTS
  ThreadCnt = 2
  Cap = 1
  Callers = {main, c1}
  Main = main
  Tasks = {t1, t2, t3}
  StopCall = StopCall
  NoCall = NoCall
  MaxCreateFailures = 1
INVARIANTS TypeOK CountersExact SleepingWorkersCovered SleepingProducersCovered StopDrains
PROPERTIES ImplementsWorkPool AcceptedRuns StopReturns EnqueueReturns
CHECK_DEADLOCK FALSE
