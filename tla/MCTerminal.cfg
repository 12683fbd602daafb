SPECIFICATION TermSpec
CONSTANTS
  Size = 3
  Readers = {"shell", "program"}
  MaxKeys = 3
  Width = 3
  Height = 2
  TabWidth = 2
  LineSize = 3
  BootText <- MCBootText
  MaxWrites = 1
INVARIANT TypeOK
INVARIANT CursorOnScreen
INVARIANT LineShown
PROPERTY ImplementsQueue
PROPERTY KeysRead
\* Once every key is read the shell waits for ever.
CHECK_DEADLOCK FALSE
