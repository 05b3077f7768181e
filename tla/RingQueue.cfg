\* more producers than slots; every interleaving of the steps of a call
SPECIFICATION Spec
CONSTANTS
  Producers = {p1, p2, p3}
  Consumers = {c1, c2}
  Values = {v1, v2}
  NoValue = NoValue
  NoThread = NoThread
  Cap = 2
INVARIANTS TypeOK TicketsAgree NoTornSlot
PROPERTY ImplementsFifo
