SPECIFICATION Spec
CONSTANTS
  worker = worker
  reviewer = reviewer
  own = own
  branch = branch
  plain = plain
  strict = strict
  Agents = {worker, reviewer}
  Memories = {own, branch}
  First = worker
  Main = own
  Prompts = {plain, strict}
  None = None
  Formats = {1}
  ToolChanges = {1}
  MaxNumber = 3
  MaxSessions = 3
  MaxPrompts = 1
  MaxCrashes = 1
INVARIANTS ContextExact JournalExact SessionsOwned
CHECK_DEADLOCK FALSE
