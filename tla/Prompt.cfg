SPECIFICATION FairSpec
CONSTANTS
  c1 = c1
  c2 = c2
  h1 = h1
  h2 = h2
  Native = FALSE
  RetryForeignTurn = TRUE
  StopOnNonEndTurn = TRUE
  Commands = {"Submit", "Cancel", "Stop", "GiveUp", "GiveUpDrain"}
  Calls = {c1, c2}
  Hosts = {}
  QueueCap = 2
  MaxAgentTurns = 1
  MaxRefusals = 1
  MaxPrompts = 2
  MaxCancels = 2
  MaxEdits = 0
  MaxSteers = 0
  MaxFences = 0
INVARIANTS CancelLandsOnItsTurn ClaimsAreGranted RowRunsOnce
PROPERTIES EveryTurnSettles
CHECK_DEADLOCK FALSE
