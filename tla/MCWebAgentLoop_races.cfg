\* Two retries of one Run, or two starts of one issue and a retry; one restart.
CONSTANTS
  Starters = {s1, s2}
  Retriers = {t1, t2}
  Stoppers = {}
  Owners = {}
  Mixes <- Races
  Issues = {i1}
  MaxQaAttempts = 1
  MaxFaults = 0
  MaxCrashes = 1
  Free = Free
SPECIFICATION Spec
SYMMETRY Symmetry
INVARIANTS
  OneWorkerPerRun
  VerdictFiled
PROPERTIES
  QaHistoryKept
  PassIsFinal
  GateSpec
  StartIsExclusive
