SPECIFICATION FairSpec
CONSTANTS
  MAIN_QUEUE_SIZE = 4
  CLIENT_QUEUE_SIZE = 4
  MaxLines = 5
  MaxBroadcasts = 2
INVARIANTS
  TypeOK
  InStep
PROPERTIES
  ProgramEnds
CHECK_DEADLOCK FALSE
