SPECIFICATION Spec
CONSTANTS
  Requests <- ThreeRequests
  Calls <- MixedCalls
  Denied <- SomeDenied
  MinRoutes = 1
  MaxRoutes = 2
  MaxControl = 2
  MaxIr = 1
  Together <- FirstTwo
  OverlapIn <- FirstProcess
  MaxResumes = 1
  None = None
INVARIANTS JournalAccepted RoutesAreWhatWasTold BudgetKept NothingUnsettled
PROPERTIES AnsweredOnce EveryCallEnds
CHECK_DEADLOCK FALSE
