SPECIFICATION MCSpec
CONSTANTS
  Account = {"policy", "machine", "offer"}
  Rank <- MCRank
  Parents <- MCParents
  Closable = {"offer"}
  Refused = {"policy"}
  Pollers = {"indexer"}
  Callers = {"api", "verifier"}
  PageLimit = 1
  PendingLimit = 2
  Lost = {1}
  MaxSlot = 4
  MaxFaults = 1
CHECK_DEADLOCK FALSE
INVARIANT TablesSound
INVARIANT HistoryComplete
PROPERTY ImplementsProjection
PROPERTY Converges
