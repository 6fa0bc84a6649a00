\* The +++ guard, interrupts in steps, while lw_at_feed interrupts the main loop anywhere.
CONSTANTS
  Token <- MCToken
  Plus = "+"
  Eol = "eol"
  Handler <- StreamHandler
  Size = 5
  LineSize = 2
  Segments <- StreamSegments
  MaxFeeds = 4
  GuardValues = {0}
  AppExit = "never"
  Isr = {"feed"}
  Nested = {}
SPECIFICATION GuardSpec
INVARIANTS SoFar Restored
PROPERTIES ImplementsCore
