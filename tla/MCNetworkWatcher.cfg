SPECIFICATION FairSpec
CONSTANTS
  READ = READ
  WRITE = WRITE
  HangUp = HangUp
  Modes <- MCModes
  NETWORK_WATCHER_MESSAGE_QUEUE_SIZE = 2
  PIPE_SIZE = 2
INVARIANTS
  TypeOK
  OwnerNeverStalls
PROPERTIES
  ImplementsService
  CancelAnswered
  CloseCompletes
