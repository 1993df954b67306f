SPECIFICATION FairSpec
CONSTANTS
  g1 = g1
  g2 = g2
  cancel = cancel
  submit = submit
  Calls = {g1, g2}
  Payloads = {cancel, submit}
  Blocking = {cancel}
  ReceiptCap = 1
  ReceiptAge = 1
  MaxClients = 1
  MaxId = 2
  MaxTime = 2
INVARIANTS RunsOnce AnswersAreOwn KeptWithinHorizon
PROPERTIES DuplicatesAnswered
CHECK_DEADLOCK FALSE
