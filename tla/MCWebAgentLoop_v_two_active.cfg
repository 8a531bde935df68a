\* Two start requests for one issue and a retry of one of the Runs.
CONSTANTS
  Starters = {s1, s2}
  Retriers = {t1}
  Stoppers = {}
  Owners = {}
  Issues = {i1}
  MaxQaAttempts = 1
  MaxFaults = 0
  MaxCrashes = 0
  Mixes <- Together
  Free = Free
SPECIFICATION Spec
INVARIANT OneActiveRunPerIssue
