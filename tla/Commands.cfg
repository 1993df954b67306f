SPECIFICATION FairSpec
CONSTANTS
  Cmds = {a}
  Retrying = {a}
  Bound = {a}
  MaxConns = 2
  MaxLosses = 2
  MaxRefusals = 1
INVARIANTS RunsOnceAsBound AnswersAreTrue
PROPERTIES CallersReturn
CHECK_DEADLOCK FALSE
