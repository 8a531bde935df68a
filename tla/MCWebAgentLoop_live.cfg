\* A start, a retry and a stop under fairness; no symmetry, which liveness does not survive.
CONSTANTS
  Starters = {s1}
  Retriers = {t1}
  Stoppers = {p1}
  Owners = {}
  Issues = {i1}
  MaxQaAttempts = 1
  MaxFaults = 0
  MaxCrashes = 0
  Mixes <- Together
  Free = Free
SPECIFICATION FairSpec
PROPERTIES
  ActiveRunEnds
  RequestsAnswered
\* RequestsAnswered itself says that nobody is left waiting.
CHECK_DEADLOCK FALSE
