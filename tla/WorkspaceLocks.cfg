SPECIFICATION FairSpec
CONSTANTS
  t1 = t1
  t2 = t2
  t3 = t3
  t4 = t4
  root = root
  left = left
  right = right
  Tasks = {t1, t2, t3, t4}
  Paths <- MCPaths
  Overlap <- MCOverlap
  RequestLists <- MCRequestLists
  Signals <- MCSignals
  SignalOf <- MCSignalOf
INVARIANTS HeadBlocked
PROPERTIES NoLeaseForTheAborted FirstComeFirstServed EveryWaitEnds TwoPhase
CHECK_DEADLOCK FALSE
