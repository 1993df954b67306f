SPECIFICATION FairSpec
CONSTANTS
  c1 = c1
  c2 = c2
  h1 = h1
  h2 = h2
  Native = TRUE
  RetryForeignTurn = FALSE
  StopOnNonEndTurn = FALSE
  Commands = {"Submit", "SendNow", "Cancel", "Interject", "FenceClose", "Stop", "SubmitExitAfterTurn"}
  Calls = {c1}
  Hosts = {h1}
  QueueCap = 2
  MaxAgentTurns = 1
  MaxRefusals = 0
  MaxPrompts = 1
  MaxCancels = 1
  MaxEdits = 0
  MaxSteers = 2
  MaxFences = 1
INVARIANTS ClientSeesEngine
PROPERTIES ArmedSendSettles ResultsDelivered
CHECK_DEADLOCK FALSE
