\* Two requests for one issue, one exception, one restart.
CONSTANTS
  Requests = {q1, q2}
  Issues = {i1}
  MaxAttempts = 2
  MaxFaults = 1
  MaxCrashes = 1
SPECIFICATION FairSpec
INVARIANT PromptsWhole
PROPERTIES UserWorkKept BreakIsFinal RefusedOnlyWhileBusy PrepareReturns
CHECK_DEADLOCK FALSE
