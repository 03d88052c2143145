SPECIFICATION FairSpec
CONSTANTS
  fan = fan
  collect = collect
  late = late
  join = join
  post = post
  Instructions <- MCInstructions
  Op <- MCOp
  Block <- MCBlock
  Deps <- MCDeps
  Group <- MCGroup
  Size <- MCSize
  LastBlock = 2
  maxDispatchWorkers = 2
INVARIANTS NothingOutlivesNode OutcomeIsTheTasks BlockAbortReachesGroups
PROPERTIES WorkersExact NodeEnds
CHECK_DEADLOCK FALSE
