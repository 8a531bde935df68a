\* Two verifiers of one Run.
CONSTANTS
  MaxFix = 0
  MaxFaults = 0
  MaxCrashes = 0
  Retries = 1
  MaxRetries = 0
  MaxSteps = 1
  MaxRuns = 0
  AgentChoices <- OneAgent
  Tickets <- OneTicket
  Verifiers = {v1, v2}
  MaxWrong = 1
  MaxVerifies = 2
  MaxDeaths = 0
SPECIFICATION MCSpec
PROPERTY EvidenceStays
CHECK_DEADLOCK FALSE
