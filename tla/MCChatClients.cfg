SPECIFICATION FairSpec
CONSTANTS
  NULL = NULL
  MaxClients = 3
  Bystanders <- MCBystanders
  Staying <- MCStaying
  Impatient <- MCImpatient
  MaxUnasked = 1
  MaxUnread = 1
  MaxTransactions = 2
  CLIENTS_QUEUE_SIZE = 3
  SERVER_QUEUE_SIZE = 2
  AUTH_QUEUE_SIZE = 1
INVARIANTS
  TypeOK
  CountsReferences
  OneLogin
PROPERTIES
  LeavesAnnounced
  ClosingEnds
CHECK_DEADLOCK FALSE
