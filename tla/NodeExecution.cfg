SPECIFICATION Spec
CONSTANTS
  None = None
  Arity <- TwoFlows
  Allowed <- SomeAllowed
  Nodes <- SomeNodes
  Arguments <- SomeArguments
  MaxSteps = 8
INVARIANTS NamesHold GroupsSyncedOnce NeverStuck InTextOrder
