SPECIFICATION FairSpec
CONSTANTS
  Tasks = {t1, t2, t3}
  Keys = {1, 2}
  RequestLists <- MCRequestLists
INVARIANTS LockStateExact NoLostWakeup
PROPERTIES FirstComeFirstServed TwoPhase EveryUseEnds
