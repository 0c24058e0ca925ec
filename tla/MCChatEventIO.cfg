SPECIFICATION FairSpec
CONSTANTS
  CHAT_EVENT_HEADER_SIZE = 2
  CHAT_EVENT_MAX_DATA_SIZE = 4
  MaxEvents = 3
  MaxCuts = 2
INVARIANTS
  TypeOK
  BytesConserved
  FramesAreEvents
  StaysInBuffer
PROPERTIES
  LatestIsDelivered
CHECK_DEADLOCK FALSE
