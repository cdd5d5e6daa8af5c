SPECIFICATION FairSpec
CONSTANTS
  BufSize = 6
  MaxTimeouts = 1
  QueueSize = 3
  MaxCommands = 3
  IoFaults = TRUE
INVARIANT TypeOK
INVARIANT FitsBuffer
INVARIANT AnswersOwnCommand
PROPERTY ImplementsAtInterface
PROPERTY CommandReturns
