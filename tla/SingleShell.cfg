\* the stdout of p3 is a pipe, so Ctrl-C can kill it
CONSTANTS
  Procs = {p1, p2, p3}
  Piped = {p3}
  Len = 2
SPECIFICATION FairSpec
INVARIANTS
  TypeOK
  ActiveExact
PROPERTIES
  GreetingRight
  EveryoneEnds
