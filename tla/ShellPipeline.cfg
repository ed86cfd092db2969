\* a file does not fit into a pipe, nor into a buffer
CONSTANTS
  MaxSegments = 3
  Lines <- SomeLines
  PIPE_BUF = 2
  BUF_SIZE = 2
  FILE_SIZE = 3
SPECIFICATION FairSpec
INVARIANTS
  NoStrayEnds
  CountExact
PROPERTIES
  PromptReturns
