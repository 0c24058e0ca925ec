SPECIFICATION FairSpec
CONSTANTS
  t1 = t1
  t2 = t2
  t3 = t3
  m1 = m1
  m2 = m2
  NoThread = NoThread
  NoMessage = NoMessage
  Producers <- MCProducers
  Consumers <- MCConsumers
  Messages <- MCMessages
  QUEUE_SIZE = 2
  MaxCalls = 6
INVARIANTS
  TypeOK
  NoLostWakeup
PROPERTIES
  ImplementsFifo
  MessageWakesGetter
CHECK_DEADLOCK FALSE
