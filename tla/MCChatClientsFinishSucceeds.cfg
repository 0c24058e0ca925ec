SPECIFICATION Spec
CONSTANTS
  NULL = NULL
  MaxClients = 3
  Bystanders <- MCBystanders
  Staying <- MCStaying
  Impatient <- MCImpatient
  MaxUnasked = 1
  MaxUnread = 1
  MaxTransactions = 2
  CLIENTS_QUEUE_SIZE = 3
  SERVER_QUEUE_SIZE = 3
  AUTH_QUEUE_SIZE = 2
INVARIANTS
  FinishSucceeds
CHECK_DEADLOCK FALSE
