SPECIFICATION MCSpec
CONSTANTS
  MaxCalls = 4
  maxPending = 3
  MaxTogether = 2
  read = read
  bash = bash
  Actions = {read, bash}
  Sandboxed = {read, bash}
  NumPolicies = 2
  requireCoverage = TRUE
  MaxCandidates = 2
INVARIANTS SlotExact ApprovedByAnswer GateKept
PROPERTIES SettledOnce EveryRequestSettles
CHECK_DEADLOCK FALSE
