\* three producers for two places, two consumers
SPECIFICATION FairSpec
CONSTANTS
  Producers = {p1, p2, p3}
  Consumers = {c1, c2}
  Values = {v1, v2}
  NoValue = NoValue
  Cap = 2
INVARIANTS TypeOK NoLostWakeup
PROPERTIES ImplementsFifo KeepsMoving
