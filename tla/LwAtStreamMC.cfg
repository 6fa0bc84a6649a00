\* lw_at_stream under a producer that may run between any two consumer steps.
CONSTANTS
  Byte <- MCByte
  CR = 13
  LF = 10
  Size = 4
  OutSize = 1
  Segments <- MCSegments
  IsrFeed = FALSE
SPECIFICATION MCSpec
INVARIANTS IInv
PROPERTIES UnreadStable ImplementsByteQueue
