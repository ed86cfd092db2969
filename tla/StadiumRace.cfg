\* fewer places than runners, so that arrivals wait while the judge still forks
CONSTANTS
  n = 4
  Variants = {"SysV", "POSIX"}
  Capacity = 2
SPECIFICATION FairSpec
\* after a failed fork the runners wait for ever
CHECK_DEADLOCK FALSE
INVARIANTS
  MessagesExact
PROPERTIES
  ImplementsRelay
  EveryoneEnds
