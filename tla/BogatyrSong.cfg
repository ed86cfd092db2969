\* the queue holds as many messages as there are processes; the launcher is
\* neither the first nor the last in the order of pids
CONSTANTS
  Procs = {1, 2, 3, 4}
  Launcher = 2
  Songs <- ShortSongs
  QCap = 4
SPECIFICATION FairSpec
INVARIANTS
  OneVoice
  Outcome
PROPERTIES
  SingsInOrder
  EveryoneExits
