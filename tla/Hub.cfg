SPECIFICATION FairSpec
CONSTANTS
  Hubs = {a, b, c}
  Callers = {e}
  Sessions = {s}
  MaxEvents = 2
  Nobody = Nobody
INVARIANTS HubFindable StoppedLeavesNothing
PROPERTIES IdleWasQuiet EnsureEnds
CHECK_DEADLOCK FALSE
