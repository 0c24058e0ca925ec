SPECIFICATION UISpec
CONSTANTS
  NUL = NUL
  Chars = {a, b}
  BUFFER_SIZE = 4
  UI_QUEUE_SIZE = 2
  MaxKeys = 7
  MaxPosts = 2
INVARIANTS
  LineIsTyped
CHECK_DEADLOCK FALSE
