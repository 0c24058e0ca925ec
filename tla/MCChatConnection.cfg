SPECIFICATION FairSpec
CONSTANTS
  READ = READ
  WRITE = WRITE
  CHAT_CONNECTION_MESSAGE_QUEUE_SIZE = 4
  CHAT_CONNECTION_EVENT_QUEUE_SIZE = 2
  MaxEvents = 4
  MaxCloses = 2
INVARIANTS
  TypeOK
  AlwaysWatching
  EventsInOrder
  CancelsToWrite
  ClosedInOrder
PROPERTIES
  UsesWatcherProperly
  ClosingEnds
CHECK_DEADLOCK FALSE
