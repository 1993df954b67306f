SPECIFICATION FairSpec
CONSTANTS
  c1 = c1
  c2 = c2
  h1 = h1
  h2 = h2
  Native = FALSE
  RetryForeignTurn = FALSE
  StopOnNonEndTurn = FALSE
  Commands = {"Submit", "SendNow", "Cancel", "Queue", "EditQueued", "Unqueue", "ClearQueue", "Disarm", "Load"}
  Calls = {c1}
  Hosts = {}
  QueueCap = 2
  MaxAgentTurns = 1
  MaxRefusals = 1
  MaxPrompts = 2
  MaxCancels = 1
  MaxEdits = 1
  MaxSteers = 0
  MaxFences = 0
INVARIANTS ClientSeesEngine
PROPERTIES WaitingRowSurvives RowsDrain
CHECK_DEADLOCK FALSE
