SPECIFICATION FairSpec
CONSTANTS
  writer = writer
  child = child
  other = other
  Nobody = Nobody
  Agents <- MCAgents
  Parent <- MCParent
  Limit = 1
  MaxCalls <- MCMaxCalls
INVARIANTS PermitsExact
PROPERTIES EveryLeaseEnds
CHECK_DEADLOCK FALSE
