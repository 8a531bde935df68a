CONSTANTS
  Runs = {1, 2, 3}
  IssueOf <- MCIssueOf
  c1 = c1
  c2 = c2
  Commands = {c1, c2}
  Pids = {10, 11}
  Scenarios <- All
SPECIFICATION FairSpec
INVARIANTS OneActivePerIssue SparesWorkers CleanedIsGone
PROPERTIES MergedIsKept ActiveEnds CancelledIsFinal
CHECK_DEADLOCK FALSE
