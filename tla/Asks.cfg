SPECIFICATION FairSpec
CONSTANTS
  Kinds = {"permission", "question"}
  AdoptIds <- MCAhead
  EarlyOutcomes = {"cancelled"}
  KeptAsks = 1
  KeptReservations = 1
  KeptTurns = 0
  OutboxMax = 1
  MaxAsks = 2
  MaxTurns = 1
INVARIANTS NoAskOutlivesItsTurn ClientSeesAsks IdsTellHistory
PROPERTIES EndingIsFinal WaitersReturn
