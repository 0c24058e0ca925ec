SPECIFICATION FairSpec
CONSTANTS
  READ = READ
  WRITE = WRITE
  CHAT_CONNECTION_MESSAGE_QUEUE_SIZE = 3
  CHAT_CONNECTION_EVENT_QUEUE_SIZE = 2
  MaxEvents = 1
  MaxCloses = 1
PROPERTY FlushingEnds
CHECK_DEADLOCK FALSE
