\* reset interrupted by a feed ISR: is a drop after its tail move still announced?
CONSTANTS
  Byte <- MCByte
  CR = 13
  LF = 10
  Size = 4
  OutSize = 2
  Segments <- LongSegments
  IsrFeed = TRUE
SPECIFICATION MCSpec
INVARIANTS DropsSurviveReset
