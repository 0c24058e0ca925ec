SPECIFICATION FairSpec
CONSTANTS
  NULL = NULL
  MAIN_QUEUE_SIZE = 2
  SERVER_QUEUE_SIZE = 4
  MaxConnections = 2
  MaxSignals = 2
INVARIANTS
  TypeOK
  DestroyedLast
PROPERTIES
  ShutdownEnds
CHECK_DEADLOCK FALSE
