\* Registration and lookup over every order of calls and every list of these tables.
CONSTANTS
  Table <- MCTable
  Name <- MCName
  Nil = Nil
  DictHead = "head"
  Cmds <- MCCmds
  Links <- MCLinks
SPECIFICATION FairSpec
INVARIANTS IInv
PROPERTIES ImplementsNameMap Returns
