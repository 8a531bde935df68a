\* A Run that is retried twice around an owner action.
CONSTANTS
  Starters = {s1}
  Retriers = {t1, t2}
  Stoppers = {}
  Owners = {o1}
  Issues = {i1}
  MaxQaAttempts = 1
  MaxFaults = 0
  MaxCrashes = 0
  Mixes <- Together
  Free = Free
SPECIFICATION Spec
INVARIANT CommitsReviewed
