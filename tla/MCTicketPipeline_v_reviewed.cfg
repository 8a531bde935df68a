\* No fault and no crash.
CONSTANTS
  MaxFix = 2
  MaxFaults = 0
  MaxCrashes = 0
SPECIFICATION Spec
INVARIANT PrIsReviewed
