\* FIXED sessions, also ones that +++ may abort, and STREAM sessions, with interrupts at
\* every main-loop step.
CONSTANTS
  Token <- MCToken
  Plus = "+"
  Eol = "eol"
  Handler <- AllHandlers
  Size = 5
  LineSize = 2
  Segments <- MixedSegments
  MaxFeeds = 4
  GuardValues = {}
  AppExit = "any"
  Isr = {"feed", "timer"}
SPECIFICATION FairSpec
INVARIANTS TypeOK FixedExact
PROPERTIES ImplementsDialog NoLeftovers ExitHappens FixedEnds
