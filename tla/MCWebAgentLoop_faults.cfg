\* One Run with a retry and an owner action, one exception anywhere, one restart.
CONSTANTS
  Starters = {s1}
  Retriers = {t1}
  Stoppers = {}
  Owners = {o1}
  Issues = {i1}
  MaxQaAttempts = 2
  MaxFaults = 1
  MaxCrashes = 1
  Mixes <- Together
  Free = Free
SPECIFICATION Spec
INVARIANTS
  TypeOK
  DeliveredIsCommitted
  CommitAfterPass
