SPECIFICATION Spec
CONSTANTS
  c1 = c1
  c2 = c2
  h1 = h1
  h2 = h2
  Native = TRUE
  RetryForeignTurn = FALSE
  StopOnNonEndTurn = FALSE
  Commands = {"Submit", "SubmitExitAfterTurn", "Stop", "FenceClose", "Close"}
  Calls = {c1}
  Hosts = {h1, h2}
  QueueCap = 2
  MaxAgentTurns = 1
  MaxRefusals = 0
  MaxPrompts = 2
  MaxCancels = 1
  MaxEdits = 0
  MaxSteers = 0
  MaxFences = 2
INVARIANTS IdleVerdictHolds ExitFenceHasSubject
PROPERTIES NothingAfterExit
CHECK_DEADLOCK FALSE
SYMMETRY Symmetry
