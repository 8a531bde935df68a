\* Two requests, commands or workers of each part, three appends, and one
\* or two mishaps of each kind.
CONSTANTS
  Starts = {s1, s2}
  MaxFaults = 1
  MaxRestarts = 1
  Commands = {c1, c2}
  Servers = {v1, v2}
  MaxMishaps = 2
  Savers = {u1, u2}
  Keys = {k1}
  MaxChanges = 1
  Writers = {w1, w2, w3}
  MaxStops = 2
  Workers = {a1, a2}
  MaxAttempts = 2
  MaxSessions = 3
SPECIFICATION MCSpec
INVARIANTS OnePreparation OperationTruth RunsAreReachable ServerIsRecorded SettingsKept
   
PROPERTIES OperationEnds StopIsTrue LogsRefine
\* A service that nobody asks anything is idle.
CHECK_DEADLOCK FALSE
