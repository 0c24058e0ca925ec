SPECIFICATION FairSpec
CONSTANTS
  t1 = t1
  t2 = t2
  alice = alice
  long = long
  p1 = p1
  p2 = p2
  NULL = NULL
  Transactions <- MCTransactions
  Usernames <- MCUsernames
  LongNames <- MCLongNames
  Passwords <- MCPasswords
  CHAT_AUTH_MESSAGE_QUEUE_SIZE = 2
INVARIANTS
  TypeOK
  NoUseAfterFree
  ReferencesGivenBack
  AuthenticatedOwnsAccount
PROPERTIES
  ImplementsService
  EveryTransactionEnds
  FinishedIsFreed
CHECK_DEADLOCK FALSE
