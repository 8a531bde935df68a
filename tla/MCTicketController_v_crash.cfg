CONSTANTS
  Runs = {1}
  IssueOf <- MCIssueOf
  c1 = c1
  c2 = c2
  Commands = {c1}
  Pids = {10}
  Scenarios <- OneRun
SPECIFICATION DiligentSpec
PROPERTY CrashIsCleanable
CHECK_DEADLOCK FALSE
