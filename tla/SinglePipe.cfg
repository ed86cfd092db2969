\* single | cat
CONSTANTS
  Procs = {p1}
  Piped = {p1}
  Len = 12
SPECIFICATION Spec
INVARIANT StateSurvives
