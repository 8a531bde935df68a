\* The code's two repairs, two exceptions out of ledger writes and two crashes;
\* two runs of a workflow with one repair; two verifiers, three calls, one kill.
CONSTANTS
  MaxFix = 2
  MaxFaults = 2
  MaxCrashes = 2
  Retries = 2
  MaxRetries = 1
  MaxSteps = 6
  MaxRuns = 2
  AgentChoices <- MCAgents
  Tickets <- MCTickets
  Verifiers = {v1, v2}
  MaxWrong = 1
  MaxVerifies = 3
  MaxDeaths = 1
SPECIFICATION MCSpec
INVARIANTS PublishNeedsPass LedgerIsTrue ClosedIsPassed CallsStayBounded PlaneTruth
  VerifiedIsEarned
PROPERTIES ResultIsFinal CallReturns
\* A Run whose result is retained has nothing left to do.
CHECK_DEADLOCK FALSE
