\* FIXED and STREAM sessions, feed and timer between main-loop calls.
CONSTANTS
  Token <- MCToken
  Plus = "+"
  Eol = "eol"
  Handler <- BothHandlers
  Size = 5
  LineSize = 2
  Segments <- SessionSegments
  MaxFeeds = 4
  GuardValues = {0, 1}
  AppExit = "stream"
  Isr = {}
SPECIFICATION FairSpec
INVARIANTS ChunkIsData CommandsAreCommands MarkSplits PlusRun SilentIsGuard
PROPERTIES EscapeExact LineServed
